----------------------------- MODULE Integrator -----------------------------
(***************************************************************************)
(* What the time integration promises, whatever the scheme: between two    *)
(* steps every solved field is at the time of the last completed step;     *)
(* within a step the Old state stays at that time while the New state is   *)
(* moved, field by field and as often as the iterations ask, to the next   *)
(* one; a step ends when all of them are there.  A new mesh may lose the   *)
(* Old states, and a restart goes back to a completed step.  Times are in  *)
(* half steps: 2 * n is the time after n steps.                            *)
(***************************************************************************)
EXTENDS Integers

CONSTANT Fields

VARIABLES n,            \* completed steps
          busy,         \* the states have been advanced, the step is not completed
          new, old      \* the times of the two states of each field

vars == << n, busy, new, old >>

Ages == Int

All(l) == [f \in Fields |-> l]

Init == n = 0 /\ busy = FALSE /\ new = All(0) /\ old \in [Fields -> Ages]

(* The Old states are written while nothing depends on them. *)
Rest == ~busy /\ old' \in [Fields -> Ages] /\ UNCHANGED << n, busy, new >>

(* advance_states *)
Begin == ~busy /\ busy' = TRUE /\ old' = new /\ UNCHANGED << n, new >>

(* A field is solved for, or taken back to be solved for again. *)
Work == busy /\ new' \in [Fields -> {2 * n, 2 * n + 2}] /\ UNCHANGED << n, busy, old >>

Finish ==
  /\ busy /\ new = All(2 * n + 2)
  /\ busy' = FALSE /\ n' = n + 1 /\ old' \in [Fields -> Ages] /\ UNCHANGED new

(* The initial iterations end where they began. *)
Undo == busy /\ new' = All(2 * n) /\ busy' = FALSE /\ old' \in [Fields -> Ages] /\ UNCHANGED n

Restart ==
  /\ ~busy
  /\ \E m \in 0..n : n' = m /\ new' = All(2 * m)
  /\ old' \in [Fields -> Ages] /\ UNCHANGED busy

Next == Rest \/ Begin \/ Work \/ Finish \/ Undo \/ Restart

Spec == Init /\ [][Next]_vars

-----------------------------------------------------------------------------
(* Between two steps every field has the time of the last one; within a    *)
(* step it has the time of one of its ends, and Old is the beginning.      *)
Synchronous ==
  /\ n \in Nat
  /\ busy \in BOOLEAN
  /\ ~busy => new = All(2 * n)
  /\ busy => old = All(2 * n) /\ new \in [Fields -> {2 * n, 2 * n + 2}]

(* A step of the run is never ahead of its fields by more than one step,   *)
(* and completed steps are only lost in a restart, never in between.       *)
Advances == [][n' > n => n' = n + 1 /\ old = All(2 * n) /\ new' = All(2 * n + 2)]_vars

=============================================================================
