-------------------------- MODULE MCPostProcessing --------------------------
(* Post-processing objects, the input files that hold them, instruments.   *)
EXTENDS Scanning

None == [k \in Kinds |-> -1]
Zero == [k \in Kinds |-> 0]

BasePost ==
  [ interval |-> -1, t_interval |-> 3, delay |-> 0, t_delay |-> 0,
    from_restart |-> FALSE, start |-> -1, start_time |-> -1,
    enforce_dt |-> FALSE, final_output |-> FALSE ]

TimePosts ==
  { [BasePost EXCEPT !.t_delay = d, !.start_time = s, !.from_restart = r,
                     !.enforce_dt = e, !.final_output = f] :
      d \in {0, 4}, s \in {-1, 2}, r \in BOOLEAN, e \in BOOLEAN, f \in BOOLEAN }

StepPosts ==
  { [BasePost EXCEPT !.interval = n, !.t_interval = -1, !.delay = d, !.start = s,
                     !.from_restart = r, !.final_output = f] :
      n \in {1, 2, 3}, d \in {0, 4}, s \in {-1, 1}, r \in BOOLEAN, f \in BOOLEAN }

AllPosts == TimePosts \cup StepPosts

InputFor(p) ==
  [ stop_time |-> 9, max_step |-> 8, delay_time |-> -1, fixed_dt |-> -1,
    initial_dt |-> -1, max_dt |-> -1, min_dt |-> -1,
    init_shrink |-> 50, dt_growth |-> 100, initial_iterations |-> TRUE,
    regrid_interval |-> -1, regrid_start |-> -1,
    interval |-> None, t_interval |-> None, delay |-> Zero, t_delay |-> Zero,
    force_dt |-> [k \in Kinds |-> FALSE], start |-> None, start_time |-> None,
    post |-> [t_interval |-> p.t_interval, t_delay |-> p.t_delay,
              enforce_dt |-> p.enforce_dt] ]

PostInputs ==
  { [InputFor(p) EXCEPT !.fixed_dt = x, !.initial_iterations = b] :
      p \in AllPosts, x \in {-1, 1, 2, 3}, b \in BOOLEAN }
  \cup
  { [InputFor(p) EXCEPT !.max_step = 0] : p \in AllPosts }

Cfl == {0, 1, 2, 4}

Hdr(n, t, d) == [time_index |-> n, time |-> t, dt |-> d, dt_nm1 |-> 1, dt_nm2 |-> 1]
SomeCheckpoints == { Hdr(3, 4, 1), Hdr(2, 6, 1), Hdr(9, 9, 1) }

Device(devices, p, r, s) ==
  [devices |-> devices, period |-> p, rounded |-> r, restart_sample |-> s]

(* Steps of 1 to 3 ticks and periods of 1 to 4: several beams per step, a  *)
(* beam every few steps, and ratios that are not whole.                    *)
SomeInstruments ==
  {Device({}, 1, 0, FALSE)}
  \cup { Device(ds, p, r, s) :
          ds \in { {"spinner"}, {"lidar", "spinner", "radar"} },
          p \in 1..4, r \in {-1, 0, 1}, s \in BOOLEAN }

\* m_radar_time is not initialized: zero, or any other time.
SomeUnsetClocks == {0, 7}

=============================================================================
