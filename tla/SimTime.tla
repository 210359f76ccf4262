------------------------------ MODULE SimTime ------------------------------
(***************************************************************************)
(* The simulation clock of core/SimTime: which time step is taken, when    *)
(* the run stops, when the mesh is rebuilt and when plot files and         *)
(* checkpoints are written.  This module holds the state of the class and  *)
(* one operator per method; Evolve drives them in the order of the time    *)
(* loop and Simulation adds the files, crashes and restarts.               *)
(*                                                                         *)
(* Time is counted in ticks: an integer stands for a Real that is a        *)
(* multiple of the tick.  The relative tolerances of the code (1e-2 of dt  *)
(* and 1e-3 of an interval by default) are below one tick for steps and    *)
(* intervals of fewer than 100 ticks, and on multiples of the tick a       *)
(* tolerance below one tick changes none of the comparisons.               *)
(***************************************************************************)
EXTENDS Integers

CONSTANTS
  Inputs,   \* the parsed "time" (and output) parameters of the runs considered
  CflDts,   \* the time steps the CFL condition may allow
  HugeDt    \* 2 * max_cfl / epsilon: the step allowed when nothing moves

Kinds == {"plt", "chkpt"}   \* the two periodic outputs of incflo

Unset == -1                 \* a parameter the input file does not give

(* One input file.  "post" is the post-processing object whose output      *)
(* interval has been added to the clock (the code keeps a list of them).   *)
Input ==
  [ stop_time : Int, max_step : Int, delay_time : Int, fixed_dt : Int,
    initial_dt : Int, max_dt : Int, min_dt : Int,
    init_shrink : 0..100, dt_growth : Nat,          \* per cent
    initial_iterations : BOOLEAN,
    regrid_interval : Int, regrid_start : Int,
    interval : [Kinds -> Int], t_interval : [Kinds -> Int],
    delay : [Kinds -> Int], t_delay : [Kinds -> Int],
    force_dt : [Kinds -> BOOLEAN],
    start : [Kinds -> Int], start_time : [Kinds -> Int],
    post : [t_interval : Int, t_delay : Int, enforce_dt : BOOLEAN] ]

ASSUME InputsAssumption == Inputs \subseteq Input
ASSUME CflAssumption == CflDts \subseteq Nat /\ HugeDt \in Nat \ {0}

VARIABLES
  cfg,          \* the input file of this run, never changed
  dt,           \* m_dt: dt[0] is the step in use, dt[1] and dt[2] the earlier ones
  cur_time,     \* m_cur_time: the time at the start of the step
  new_time,     \* m_new_time: the time at its end
  start_time,   \* m_start_time: zero, or the time of the checkpoint
  time_index,   \* m_time_index
  out_start,    \* m_plt_start_index and m_chkpt_start_index
  out_start_time,  \* m_plt_start_time and m_chkpt_start_time
  regrid_start, \* m_regrid_start_index
  is_init       \* m_is_init: the first step has not been started

clock_vars == << cfg, dt, cur_time, new_time, start_time, time_index,
                 out_start, out_start_time, regrid_start, is_init >>

Min2(a, b) == IF a <= b THEN a ELSE b
Max2(a, b) == IF a >= b THEN a ELSE b
Or(a, default) == IF a # Unset THEN a ELSE default

-----------------------------------------------------------------------------
(* parse_parameters *)

IsAdaptive(in) == in.fixed_dt <= 0

(* The combinations of parameters that abort the program at start-up.      *)
ParseAborts(in) ==
  \/ \E k \in Kinds : in.interval[k] > 0 /\ in.t_interval[k] > 0
  \/ \E k \in Kinds : in.t_interval[k] <= 0 /\ in.force_dt[k]
  \/ ~IsAdaptive(in) /\ \E k \in Kinds : in.force_dt[k]
  \/ in.post.t_interval <= 0 /\ in.post.enforce_dt

Adaptive == IsAdaptive(cfg)

UnsetDt == [i \in 0..2 |-> IF i = 0 /\ ~Adaptive THEN cfg.fixed_dt ELSE -1]

\* Mutant: a restart overwrites the start the input file gives.
StartIndices_OfRun(n) == [k \in Kinds |-> n]

(* Schedules start where the run does, or where the input file says.       *)
StartIndices(n) == [k \in Kinds |-> Or(cfg.start[k], n)]
StartTimes(t) == [k \in Kinds |-> Or(cfg.start_time[k], t)]

ClockInit ==
  /\ cfg \in Inputs /\ ~ParseAborts(cfg)
  /\ dt = UnsetDt
  /\ cur_time = 0 /\ new_time = 0 /\ start_time = 0
  /\ time_index = 0
  /\ out_start = StartIndices(0)
  /\ out_start_time = StartTimes(0)
  /\ regrid_start = Or(cfg.regrid_start, 0)
  /\ is_init = TRUE

(* set_restart_time, and the two older steps read from the same header.    *)
(* The step dt[0] of the checkpoint is read and dropped.                   *)
SetRestartTime(chk) ==
  /\ time_index' = chk.time_index
  /\ cur_time' = chk.time /\ new_time' = chk.time /\ start_time' = chk.time
  /\ out_start' = StartIndices(chk.time_index)
  /\ out_start_time' = StartTimes(chk.time)
  /\ regrid_start' = Or(cfg.regrid_start, chk.time_index)
  /\ dt' = [dt EXCEPT ![1] = chk.dt_nm1, ![2] = chk.dt_nm2]
  /\ UNCHANGED << cfg, is_init >>

-----------------------------------------------------------------------------
(* continue_simulation and new_timestep *)

\* Mutant: the index is compared after the step instead of before it.
ContinueSimulation_LateIndex ==
  /\ cfg.max_step # 0
  /\ ~(cfg.stop_time > 0 /\ new_time >= cfg.stop_time)
  /\ ~(cfg.max_step > 0 /\ time_index > cfg.max_step)

ContinueSimulation ==
  /\ cfg.max_step # 0
  /\ ~(cfg.stop_time > 0 /\ new_time >= cfg.stop_time)
  /\ ~(cfg.max_step > 0 /\ time_index >= cfg.max_step)

\* Mutant: the loop that shifts the steps runs one element too far.
NewTimestep_LongShift ==
  /\ is_init' = FALSE
  /\ cur_time' = new_time
  /\ \/ /\ ContinueSimulation
        /\ dt' = [i \in 0..3 |-> IF i = 0 THEN dt[0] ELSE dt[i - 1]]
        /\ time_index' = time_index + 1
     \/ /\ ~ContinueSimulation
        /\ UNCHANGED << dt, time_index >>
  /\ UNCHANGED << cfg, new_time, start_time, out_start, out_start_time, regrid_start >>

NewTimestep ==
  /\ is_init' = FALSE
  /\ cur_time' = new_time
  /\ \/ /\ ContinueSimulation
        /\ dt' = [dt EXCEPT ![1] = dt[0], ![2] = dt[1]]
        /\ time_index' = time_index + 1
     \/ /\ ~ContinueSimulation
        /\ UNCHANGED << dt, time_index >>
  /\ UNCHANGED << cfg, new_time, start_time, out_start, out_start_time, regrid_start >>

-----------------------------------------------------------------------------
(* set_current_cfl.  The argument c is the step the CFL number allows, or  *)
(* zero when the flow is at rest (the CFL number is below epsilon).        *)

AtRest(c) == c = 0

(* In an adaptive run that has started, a flow at rest is accepted only at *)
(* time zero, and only with an initial_dt.                                 *)
RestAborts(c) ==
  /\ AtRest(c) /\ Adaptive /\ ~is_init
  /\ ~(cur_time <= 0 /\ cfg.initial_dt > 0)

AllowedDt(c) ==
  CASE ~AtRest(c)                           -> c
    [] AtRest(c) /\ Adaptive /\ ~is_init    -> cfg.initial_dt
    [] AtRest(c) /\ ~(Adaptive /\ ~is_init) -> HugeDt

(* The real product is positive; one tick is the smallest step there is.   *)
Shrunk(d) == IF is_init THEN Max2(1, (d * cfg.init_shrink) \div 100) ELSE d

Growth(d) == d + (cfg.dt_growth * d) \div 100

GrowthLimited(d) == IF dt[0] > 0 THEN Min2(d, Growth(dt[0])) ELSE d

LimitedDt(c) ==
  LET d == GrowthLimited(Shrunk(AllowedDt(c)))
  IN  IF cfg.max_dt > 0 THEN Min2(d, cfg.max_dt) ELSE d

BelowMinDt(c) == cfg.min_dt > 0 /\ LimitedDt(c) < cfg.min_dt

\* Mutant: the step is clipped only where it would start past the stop time.
ClippedToStop_FromStart(d) ==
  IF cfg.stop_time > 0 /\ cur_time > cfg.stop_time
  THEN cfg.stop_time - cur_time ELSE d

ClippedToStop(d) ==
  IF cfg.stop_time > 0 /\ cur_time + d > cfg.stop_time
  THEN cfg.stop_time - cur_time ELSE d

\* Mutant: the delay is compared with the start of the step, not its end.
Enforced_LateDelay(d, t_int, t_del, enforce) ==
  IF t_int > 0 /\ enforce /\ cur_time >= t_del
  THEN Min2(d, t_int - (cur_time % t_int)) ELSE d

(* get_enforced_dt_for_output: at most up to the next multiple of t_int.   *)
Enforced(d, t_int, t_del, enforce) ==
  IF t_int > 0 /\ enforce /\ cur_time + d >= t_del
  THEN Min2(d, t_int - (cur_time % t_int)) ELSE d

\* Mutant: both kinds are enforced with the flag of the checkpoints.
EnforcedFor_OneFlag(d, k) ==
  Enforced(d, cfg.t_interval[k], cfg.t_delay[k], cfg.force_dt["chkpt"])

EnforcedFor(d, k) == Enforced(d, cfg.t_interval[k], cfg.t_delay[k], cfg.force_dt[k])

AdaptiveDt(c) ==
  LET d1 == EnforcedFor(EnforcedFor(ClippedToStop(LimitedDt(c)), "chkpt"), "plt")
      d2 == Enforced(d1, cfg.post.t_interval, cfg.post.t_delay, cfg.post.enforce_dt)
  IN  IF is_init /\ cfg.initial_dt > 0 THEN Min2(d2, cfg.initial_dt) ELSE d2

(* cur_time < delay_time - 0.1 * max(initial_dt, 0) *)
InDelay == 10 * cur_time < 10 * cfg.delay_time - Max2(cfg.initial_dt, 0)

CflAborts(c) == RestAborts(c) \/ (Adaptive /\ BelowMinDt(c))

CflDt(c) ==
  CASE InDelay               -> cfg.initial_dt
    [] ~InDelay /\ Adaptive  -> AdaptiveDt(c)
    [] ~InDelay /\ ~Adaptive -> cfg.fixed_dt

SetCurrentCfl(c) ==
  /\ ~CflAborts(c)
  /\ dt' = [dt EXCEPT ![0] = CflDt(c)]
  /\ UNCHANGED << cfg, cur_time, new_time, start_time, time_index,
                  out_start, out_start_time, regrid_start, is_init >>

AdvanceTime ==
  /\ new_time' = cur_time + dt[0]
  /\ UNCHANGED << cfg, dt, cur_time, start_time, time_index,
                  out_start, out_start_time, regrid_start, is_init >>

-----------------------------------------------------------------------------
(* write_plot_file, write_checkpoint, write_last_plot_file,                *)
(* write_last_checkpoint and do_regrid                                     *)

OnIndex(k) == (time_index - out_start[k]) % cfg.interval[k] = 0

\* Mutant: the fraction is compared with the step before the one just taken.
OnInterval_OldStep(k) ==
  (new_time - out_start_time[k]) % cfg.t_interval[k] < dt[1]

\* Mutant: a boundary belongs to the steps on both of its sides.
OnInterval_Inclusive(k) ==
  (new_time - out_start_time[k]) % cfg.t_interval[k] <= dt[0]

(* The step has just passed a multiple of the interval.                    *)
OnInterval(k) == (new_time - out_start_time[k]) % cfg.t_interval[k] < dt[0]

WriteNow(k) ==
  \/ cfg.interval[k] > 0 /\ time_index >= cfg.delay[k] /\ OnIndex(k)
  \/ cfg.t_interval[k] > 0 /\ new_time >= cfg.t_delay[k] /\ OnInterval(k)

\* Mutant: the test for a time-based schedule is left out.
WriteLast_StepsOnly(k) == cfg.interval[k] > 0 /\ ~OnIndex(k)

WriteLast(k) ==
  \/ cfg.interval[k] > 0 /\ ~OnIndex(k)
  \/ cfg.t_interval[k] > 0 /\ ~OnInterval(k)

DoRegrid ==
  /\ cfg.regrid_interval > 0
  /\ time_index > regrid_start
  /\ (time_index - regrid_start) % cfg.regrid_interval = 0

-----------------------------------------------------------------------------
ClockTypeOK ==
  /\ cfg \in Inputs /\ ~ParseAborts(cfg)
  /\ dt \in [0..2 -> Int]
  /\ cur_time \in Int /\ new_time \in Int /\ start_time \in Int
  /\ time_index \in Int
  /\ out_start \in [Kinds -> Int] /\ out_start_time \in [Kinds -> Int]
  /\ regrid_start \in Int
  /\ is_init \in BOOLEAN

=============================================================================
