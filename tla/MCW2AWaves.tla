----------------------------- MODULE MCW2AWaves -----------------------------
(* Two processors and a modes file of four or five steps, four units of    *)
(* time apart; the flow takes steps that are shorter, as long or longer.   *)
EXTENDS W2AWaves, TLC

Processors == Permutations(Ranks)
=============================================================================
