------------------------------ MODULE MCEvolve ------------------------------
(* Input files and CFL histories small enough for TLC.                     *)
EXTENDS Evolve

None == [k \in Kinds |-> -1]
Zero == [k \in Kinds |-> 0]
No   == [k \in Kinds |-> FALSE]
PC(p, c) == [k \in Kinds |-> IF k = "plt" THEN p ELSE c]

BaseInput ==
  [ stop_time |-> 11, max_step |-> -1, delay_time |-> -1, fixed_dt |-> -1,
    initial_dt |-> -1, max_dt |-> -1, min_dt |-> -1,
    init_shrink |-> 50, dt_growth |-> 100, initial_iterations |-> TRUE,
    regrid_interval |-> -1, regrid_start |-> -1,
    interval |-> None, t_interval |-> None, delay |-> Zero, t_delay |-> Zero,
    force_dt |-> No, start |-> None, start_time |-> None,
    post |-> [t_interval |-> -1, t_delay |-> 0, enforce_dt |-> FALSE] ]

(* Adaptive runs with time-based schedules: two intervals that are not     *)
(* multiples of each other, enforced or not, delayed, shifted.             *)
TimeScheduled ==
  { [BaseInput EXCEPT !.t_interval = PC(4, 3), !.force_dt = f, !.t_delay = d,
                      !.start_time = s, !.initial_dt = i] :
      f \in [Kinds -> BOOLEAN], d \in {Zero, PC(5, 0)},
      s \in {None, PC(2, -1)}, i \in {-1, 1} }

(* Step-based schedules, ended by the index, the time or both.             *)
StepScheduled ==
  { [BaseInput EXCEPT !.interval = PC(2, 3), !.delay = d, !.start = s,
                      !.max_step = m, !.stop_time = t, !.fixed_dt = x] :
      d \in {Zero, PC(4, 1)}, s \in {None, PC(1, -1)},
      m \in {0, 4, 5}, t \in {-1, 7}, x \in {-1, 2} }

(* Fixed steps with time-based schedules, and the other limits on dt.      *)
Others ==
  { [BaseInput EXCEPT !.t_interval = PC(4, 3), !.fixed_dt = x] : x \in {2, 3, 5} }
  \cup
  { [BaseInput EXCEPT !.t_interval = PC(4, 3), !.delay_time = 4, !.initial_dt = 2,
                      !.fixed_dt = x, !.force_dt = f] :
      x \in {-1, 3}, f \in {No, PC(TRUE, FALSE)} }
  \cup
  { [BaseInput EXCEPT !.max_dt = x, !.min_dt = n, !.initial_iterations = b,
                      !.interval = PC(2, -1),
                      !.post = [t_interval |-> 5, t_delay |-> 2, enforce_dt |-> e]] :
      x \in {-1, 3}, n \in {-1, 2}, b \in BOOLEAN, e \in BOOLEAN }

AllInputs == TimeScheduled \cup StepScheduled \cup Others

(* A delayed plot schedule; a fixed-step run that starts with a delay; a   *)
(* run restarted off the enforced schedule.                                *)
DelayedOutput == { [BaseInput EXCEPT !.interval = PC(2, -1), !.delay = PC(10, 0),
                                     !.max_step = 4] }
FixedDelayed  == { [BaseInput EXCEPT !.delay_time = 4, !.initial_dt = 2,
                                     !.fixed_dt = 3] }
EnforcedPlots == { [BaseInput EXCEPT !.t_interval = PC(4, -1),
                                     !.force_dt = PC(TRUE, FALSE)] }

Cfl == {0, 1, 2, 5}
CflMoving == {1, 2, 5}

Hdr(n, t, d) == [time_index |-> n, time |-> t, dt |-> d, dt_nm1 |-> 1, dt_nm2 |-> 1]

NoCheckpoint == {}
SomeCheckpoints == { Hdr(2, 3, 2), Hdr(3, 8, 1), Hdr(5, 12, 1) }
OneCheckpoint == { Hdr(2, 3, 1) }

=============================================================================
