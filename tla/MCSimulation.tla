---------------------------- MODULE MCSimulation ----------------------------
(* Runs of a few steps with up to three launches.                          *)
EXTENDS Simulation

None == [k \in Kinds |-> -1]
Zero == [k \in Kinds |-> 0]
PC(p, c) == [k \in Kinds |-> IF k = "plt" THEN p ELSE c]

BaseInput ==
  [ stop_time |-> -1, max_step |-> 4, delay_time |-> -1, fixed_dt |-> 2,
    initial_dt |-> -1, max_dt |-> -1, min_dt |-> -1,
    init_shrink |-> 50, dt_growth |-> 200, initial_iterations |-> FALSE,
    regrid_interval |-> -1, regrid_start |-> -1,
    interval |-> PC(3, 2), t_interval |-> None, delay |-> Zero, t_delay |-> Zero,
    force_dt |-> [k \in Kinds |-> FALSE], start |-> None, start_time |-> None,
    post |-> [t_interval |-> -1, t_delay |-> 0, enforce_dt |-> FALSE] ]

(* Fixed steps, with and without plot_start; adaptive steps, where a run   *)
(* that is launched again may reach other times at the same indices; steps *)
(* that pass several intervals of the checkpoints at once.                 *)
SimInputs ==
  { [BaseInput EXCEPT !.start = PC(s, -1)] : s \in {-1, 1} }
  \cup
  { [BaseInput EXCEPT !.fixed_dt = -1, !.interval = PC(2, -1), !.t_interval = PC(-1, 3),
                      !.stop_time = 5, !.max_step = -1, !.initial_iterations = TRUE] }
  \cup
  { [BaseInput EXCEPT !.fixed_dt = 7, !.interval = PC(2, -1), !.t_interval = PC(-1, 3)] }

Cfl == {1, 2}
NoCheckpoints == {}

=============================================================================
