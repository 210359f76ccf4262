------------------------------- MODULE Evolve -------------------------------
(***************************************************************************)
(* The life of one run of the program: incflo::InitData, then the loop of  *)
(* incflo::Evolve over the methods of SimTime, with the plot files and     *)
(* checkpoints the loop asks for.  Physics, turbulence and equations do    *)
(* not touch the clock; what they do to it is the value of the CFL step.   *)
(***************************************************************************)
EXTENDS SimTime

CONSTANT Checkpoints   \* headers a run may be restarted from

Header == [ time_index : Nat, time : Nat, dt : Int, dt_nm1 : Int, dt_nm2 : Int ]

ASSUME CheckpointsAssumption == Checkpoints \subseteq Header

VARIABLES
  stage,      \* the next call of the main program (see Stages)
  last_out    \* history: index and time of the last output of each kind

evolve_vars == << clock_vars, stage, last_out >>

Stages ==
  { "init",       \* InitData: the mesh is not built yet
    "init_out",   \* prepare_for_time_integration: the initial outputs
    "top",        \* the condition of the while loop
    "dt",         \* compute_dt
    "advance",    \* pre_advance_stage1 (then the fluid step)
    "post",       \* post_advance_work
    "done",       \* after the loop: the outputs at the final time
    "final",      \* Evolve has returned
    "abort" }     \* amrex::Abort

NoOutput(t) == [index |-> -1, time |-> t]

Init ==
  /\ ClockInit
  /\ stage = "init"
  /\ last_out = [k \in Kinds |-> NoOutput(0)]

(* The outputs of these kinds are made now.                                *)
Output(kinds) ==
  last_out' = [k \in Kinds |->
                 IF k \in kinds THEN [index |-> time_index, time |-> new_time]
                               ELSE last_out[k]]

-----------------------------------------------------------------------------
(* InitData *)

(* A run restarted from a checkpoint does no initial iterations and writes *)
(* no initial output.                                                      *)
ReadCheckpointFile(chk) ==
  /\ stage = "init"
  /\ SetRestartTime(chk)
  /\ stage' = "top"
  /\ last_out' = [k \in Kinds |-> NoOutput(chk.time)]

InitialIterations(c) ==
  /\ stage = "init"
  /\ cfg.initial_iterations
  /\ SetCurrentCfl(c)
  /\ stage' = "init_out"
  /\ UNCHANGED last_out

NoInitialIterations ==
  /\ stage = "init"
  /\ ~cfg.initial_iterations
  /\ stage' = "init_out"
  /\ UNCHANGED << clock_vars, last_out >>

PrepareForTimeIntegration ==
  /\ stage = "init_out"
  /\ Output({k \in Kinds : WriteNow(k)})
  /\ stage' = "top"
  /\ UNCHANGED clock_vars

-----------------------------------------------------------------------------
(* One turn of the loop *)

\* Mutant: the loop condition is tested again instead of leaving the loop.
StartStep_Spins ==
  /\ stage = "top"
  /\ NewTimestep
  /\ stage' = IF ContinueSimulation THEN "dt" ELSE "top"
  /\ UNCHANGED last_out

StartStep ==
  /\ stage = "top"
  /\ NewTimestep
  /\ stage' = IF ContinueSimulation THEN "dt" ELSE "done"
  /\ UNCHANGED last_out

ComputeDt(c) ==
  /\ stage = "dt"
  /\ SetCurrentCfl(c)
  /\ stage' = "advance"
  /\ UNCHANGED last_out

(* compute_dt and InitialIterations share the aborts of set_current_cfl.   *)
CflAbort(c) ==
  /\ stage = "dt" \/ (stage = "init" /\ cfg.initial_iterations)
  /\ CflAborts(c)
  /\ stage' = "abort"
  /\ UNCHANGED << clock_vars, last_out >>

PreAdvance ==
  /\ stage = "advance"
  /\ AdvanceTime
  /\ stage' = "post"
  /\ UNCHANGED last_out

PostAdvanceWork ==
  /\ stage = "post"
  /\ Output({k \in Kinds : WriteNow(k)})
  /\ stage' = "top"
  /\ UNCHANGED clock_vars

OutputAtFinalTime ==
  /\ stage = "done"
  /\ Output({k \in Kinds : WriteLast(k)})
  /\ stage' = "final"
  /\ UNCHANGED clock_vars

Stopped == stage \in {"final", "abort"} /\ UNCHANGED evolve_vars

Step ==
  \/ NoInitialIterations
  \/ PrepareForTimeIntegration
  \/ StartStep
  \/ PreAdvance
  \/ PostAdvanceWork
  \/ OutputAtFinalTime
  \/ \E c \in CflDts : InitialIterations(c) \/ ComputeDt(c) \/ CflAbort(c)

Next ==
  \/ Step
  \/ \E chk \in Checkpoints : ReadCheckpointFile(chk)
  \/ Stopped

Spec == Init /\ [][Next]_evolve_vars

(* A sequential program keeps running until it returns.                    *)
Fairness == WF_evolve_vars(Step)

FairSpec == Spec /\ Fairness

-----------------------------------------------------------------------------
TypeOK ==
  /\ ClockTypeOK
  /\ stage \in Stages
  /\ last_out \in [Kinds -> [index : Int, time : Int]]

(* The interval of the schedule of kind k that holds time t.               *)
Slot(k, t) == (t - out_start_time[k]) \div cfg.t_interval[k]

TimeBased(k) == cfg.t_interval[k] > 0

Active(k) == cfg.interval[k] > 0 \/ TimeBased(k)

(* No interval of a time-based schedule goes by without its output: when   *)
(* the outputs of a step have been made, the last output lies in the same  *)
(* interval as the present time (write_plot_file compares fractions of the *)
(* interval with dt[0], so this rests on dt[0] being the step just taken). *)
NoIntervalSkipped ==
  \A k \in Kinds :
    stage \in {"top", "dt", "advance", "done"} /\ TimeBased(k)
      /\ cfg.t_delay[k] <= start_time
    => Slot(k, last_out[k].time) = Slot(k, new_time)

(* A time-based output is never made twice in one interval, so a plot      *)
(* period of n intervals holds n plot files; only the output at the final  *)
(* time may fall inside an interval.                                       *)
OncePerInterval ==
  [][\A k \in Kinds :
       stage = "post" /\ TimeBased(k) /\ last_out'[k] # last_out[k]
       => Slot(k, new_time) > Slot(k, last_out[k].time)]_evolve_vars

(* A run that has taken a step and was given no output delay ends with its *)
(* final state in every active kind of file, whichever schedule it has;    *)
(* and whatever the delays are, the output at the final time is made only  *)
(* when the last step has not made it.                                     *)
FinalStateSavedOnce ==
  [][stage = "done" /\ stage' = "final" =>
       \A k \in Kinds :
         /\ Active(k) /\ ~is_init /\ new_time > start_time
              /\ cfg.delay[k] <= 0 /\ cfg.t_delay[k] <= 0
            => last_out'[k].index = time_index
         /\ WriteLast(k) => last_out[k].index < time_index]_evolve_vars

(* inputs_time.rst: "If plotfile output is active, a plotfile will be      *)
(* written at the end of a simulation [...] regardless of the output       *)
(* timing parameters."                                                     *)
FinalStateSavedRegardlessOfDelay ==
  \A k \in Kinds :
    stage = "final" /\ Active(k) /\ new_time > start_time
    => last_out[k].index = time_index

OutputOnSchedule(k) ==
  stage = "post" /\ cfg.force_dt[k] /\ last_out'[k] # last_out[k]
  => (new_time - out_start_time[k]) % cfg.t_interval[k] = 0

(* inputs_time.rst on enforce_plot_time_dt: "the time step size (dt) will  *)
(* be shortened when necessary to enforce the simulation time to match the *)
(* plot time interval": every output of the enforced kind made after a     *)
(* step is made exactly at a time of its schedule.                         *)
EnforcedOutputOnSchedule ==
  [][\A k \in Kinds : OutputOnSchedule(k)]_evolve_vars

(* The same where the schedule starts at a multiple of the interval, which *)
(* is what set_current_cfl takes for granted, and with no delay_time.      *)
EnforcedOutputOnAlignedSchedule ==
  [][\A k \in Kinds :
       TimeBased(k) /\ out_start_time[k] % cfg.t_interval[k] = 0
         /\ cfg.delay_time <= 0
       => OutputOnSchedule(k)]_evolve_vars

(* "Don't overshoot stop time": an adaptive run ends at stop_time exactly  *)
(* or before it, although the step is changed again by the enforced        *)
(* outputs and the first one by initial_dt after it has been clipped.      *)
(* (With delay_time the step is initial_dt, unclipped.)                    *)
NoOvershootWithoutDelay ==
  cfg.delay_time <= 0 /\ Adaptive /\ cfg.stop_time > 0 /\ new_time > start_time
    => new_time <= cfg.stop_time

(* inputs_time.rst on initial_dt: "Only activated if time.fixed_dt is      *)
(* negative [...] and if time.initial_dt is positive": a run with a fixed  *)
(* time step takes no other.                                               *)
FixedRunsUseFixedDt == stage = "post" /\ ~Adaptive => dt[0] = cfg.fixed_dt

(* Every run with a stop criterion ends.                                   *)
Termination == <>(stage \in {"final", "abort"})

-----------------------------------------------------------------------------
(* The loop implements Timeline.  A step counts once it has its new_time:  *)
(* from NewTimestep to AdvanceTime the index is one ahead of the solution. *)

StepInProgress == stage \in {"dt", "advance"} \/ (stage = "abort" /\ ~is_init)

StepsMade == IF StepInProgress THEN time_index - 1 ELSE time_index

Status ==
  IF stage \in {"init", "init_out"} THEN "before"
  ELSE IF stage \in {"done", "final"} THEN "ended"
  ELSE IF stage = "abort" THEN "aborted" ELSE "running"

TL == INSTANCE Timeline WITH
  ends   <- [time |-> cfg.stop_time, index |-> cfg.max_step],
  time   <- new_time,
  index  <- StepsMade,
  status <- Status

(* Every run of the loop is a run of Timeline.  A run with a delay_time    *)
(* and no initial_dt is left out: parse_parameters accepts it, and its     *)
(* steps are initial_dt = -1.                                              *)
ImplementsTimeline == TL!Spec

DelaysHaveDt == \A in \in Inputs : in.delay_time > 0 => in.initial_dt > 0

(* Why it does: from the test of the loop to the end of the step nothing   *)
(* moves the clock, so what the test established still holds when the step *)
(* is made, and the step that was chosen is positive and inside the run.   *)
LoopInv ==
  /\ 0 <= cur_time /\ cur_time <= new_time /\ start_time <= new_time
  /\ stage \in {"init", "init_out"} =>
       is_init /\ cur_time = 0 /\ new_time = 0 /\ start_time = 0 /\ time_index = 0
  /\ stage \in {"dt", "advance", "post"} => ~is_init
  /\ stage \in {"dt", "advance"} =>
       /\ cur_time = new_time
       /\ cfg.max_step # 0
       /\ cfg.stop_time > 0 => new_time < cfg.stop_time
       /\ cfg.max_step > 0 => time_index - 1 < cfg.max_step
  /\ stage = "advance" =>
       /\ dt[0] >= 1
       /\ Adaptive /\ cfg.delay_time <= 0 /\ cfg.stop_time > 0
            => cur_time + dt[0] <= cfg.stop_time
  /\ stage \in {"done", "final"} => ~ContinueSimulation
  /\ Adaptive /\ cfg.delay_time <= 0 /\ cfg.stop_time > 0 /\ new_time > start_time
       => new_time <= cfg.stop_time

(* The time and the index up to which the outputs have been made: a step's *)
(* own are made last of all.                                               *)
Reached == IF stage = "post" THEN cur_time ELSE new_time
SettledIndex == IF stage \in {"dt", "advance", "post"} THEN time_index - 1 ELSE time_index

(* Why no interval is skipped and none is written twice: the last output   *)
(* is never ahead of the time reached, lies in its interval, and the step  *)
(* with which write_plot_file compares is the one from there to new_time.  *)
ScheduleInv ==
  /\ stage = "post" => new_time = cur_time + dt[0] /\ dt[0] >= 1 /\ start_time <= cur_time
  /\ \A k \in Kinds : last_out[k].time <= Reached
  /\ \A k \in Kinds :
       TimeBased(k) /\ cfg.t_delay[k] <= start_time /\ stage \notin {"final", "abort"}
       => Slot(k, last_out[k].time) = Slot(k, Reached)

(* Why the final state is saved once: an output of the present index is in *)
(* the files exactly when the tests of write_plot_file hold, also after    *)
(* NewTimestep has been called once more to find that the run is over.     *)
OutputsInv ==
  /\ time_index \in Nat
  /\ \A k \in Kinds :
       /\ stage \in {"init", "init_out"} => last_out[k].index = -1
       /\ stage \in {"dt", "advance", "post"} => last_out[k].index < time_index
       /\ stage \in {"top", "done"} =>
            /\ last_out[k].index <= time_index
            /\ last_out[k].index = time_index => WriteNow(k)
            /\ WriteNow(k) /\ new_time > start_time => last_out[k].index = time_index

(* Why enforced outputs are on time: the step that has been chosen ends at *)
(* the next multiple of the interval or before it, or before the delay.    *)
EnforcedInv ==
  \A k \in Kinds :
    stage \in {"advance", "post"} /\ cfg.delay_time <= 0 /\ cfg.force_dt[k]
    => \/ dt[0] <= cfg.t_interval[k] - (cur_time % cfg.t_interval[k])
       \/ cur_time + dt[0] < cfg.t_delay[k]

(* Why a run with a stop criterion ends: a step that is made brings the    *)
(* end nearer, and the other calls come closer to making it.               *)
HasStop == cfg.stop_time > 0 \/ cfg.max_step >= 0

Left == IF cfg.stop_time > 0 THEN Max2(cfg.stop_time - new_time, 0)
                             ELSE Max2(cfg.max_step - StepsMade, 0)

CallsLeft ==
  CASE stage = "init"                -> 6
    [] stage = "init_out"            -> 5
    [] stage = "post"                -> 4
    [] stage = "top"                 -> 3
    [] stage = "dt"                  -> 2
    [] stage \in {"advance", "done"} -> 1
    [] stage \in {"final", "abort"}  -> 0

Measure == 4 * Left + CallsLeft

=============================================================================
