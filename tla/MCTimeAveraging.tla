--------------------------- MODULE MCTimeAveraging ---------------------------
(* Averages and short runs: fixed and adaptive, fresh and restarted.       *)
EXTENDS TimeAveraging

None == [k \in Kinds |-> -1]
Zero == [k \in Kinds |-> 0]

RunInput(x, i) ==
  [ stop_time |-> 7, max_step |-> -1, delay_time |-> -1, fixed_dt |-> x,
    initial_dt |-> -1, max_dt |-> -1, min_dt |-> -1,
    init_shrink |-> 50, dt_growth |-> 200, initial_iterations |-> i,
    regrid_interval |-> -1, regrid_start |-> -1,
    interval |-> None, t_interval |-> None, delay |-> Zero, t_delay |-> Zero,
    force_dt |-> [k \in Kinds |-> FALSE], start |-> None, start_time |-> None,
    post |-> [t_interval |-> -1, t_delay |-> 0, enforce_dt |-> FALSE] ]

AllInputs == { RunInput(x, i) : x \in {-1, 1, 2}, i \in BOOLEAN }

AllAverages ==
  { [start_time |-> s, stop_time |-> e, time_interval |-> p, window |-> w] :
      s \in {0, 2, 3}, e \in {5, 100}, p \in {-1, 2, 3}, w \in {2, 100} }

AdaptiveInputs == { RunInput(-1, TRUE) }
DefaultAverages == { [start_time |-> 0, stop_time |-> 100, time_interval |-> -1, window |-> 100] }

Cfl == {0, 1, 2, 3}

Hdr(n, t, d) == [time_index |-> n, time |-> t, dt |-> d, dt_nm1 |-> 1, dt_nm2 |-> 1]
SomeCheckpoints == { Hdr(2, 2, 1), Hdr(2, 4, 2) }
NoCheckpoints == {}

=============================================================================
