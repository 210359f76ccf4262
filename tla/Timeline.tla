------------------------------ MODULE Timeline ------------------------------
(***************************************************************************)
(* What the clock promises the rest of the program, with no word of how    *)
(* time steps are chosen: time only moves forward, one index at a time, a  *)
(* step is taken only before the end of the run, and the run ends by       *)
(* itself only where no step is left to take.                              *)
(***************************************************************************)
EXTENDS Integers

VARIABLES
  ends,    \* [time, index]: where the run ends (not positive: no such end,
           \* except that index 0 allows no step at all)
  time,    \* the time the solution has reached
  index,   \* the number of the step that reached it
  status   \* "before", "running", "ended" or "aborted"

timeline_vars == << ends, time, index, status >>

Init ==
  /\ ends \in [time : Int, index : Int]
  /\ time = 0 /\ index = 0
  /\ status = "before"

(* The run starts, perhaps from the state of an earlier one.               *)
Begin ==
  /\ status = "before" /\ status' = "running"
  /\ time' \in Nat /\ index' \in Nat
  /\ UNCHANGED ends

StepsLeft ==
  /\ ends.index # 0
  /\ ends.time > 0 => time < ends.time
  /\ ends.index > 0 => index < ends.index

Advance ==
  /\ status = "running"
  /\ StepsLeft
  /\ time' \in Int /\ time' > time
  /\ index' = index + 1
  /\ UNCHANGED << ends, status >>

End ==
  /\ status = "running" /\ status' = "ended"
  /\ ~StepsLeft
  /\ UNCHANGED << ends, time, index >>

(* The program gives up, in a state it does not change any more.           *)
Abort ==
  /\ status \in {"before", "running"} /\ status' = "aborted"
  /\ UNCHANGED << ends, time, index >>

Next == Begin \/ Advance \/ End \/ Abort

Spec == Init /\ [][Next]_timeline_vars

=============================================================================
