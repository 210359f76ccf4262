--------------------------- MODULE PostProcessing ---------------------------
(***************************************************************************)
(* One post-processing object (PostProcessBase) driven by the time loop    *)
(* through PostProcessManager: its first output when the modules are       *)
(* initialised, its outputs after the steps, and the final one.            *)
(*                                                                         *)
(* The tolerances are below one tick, as in SimTime.                       *)
(***************************************************************************)
EXTENDS Evolve

CONSTANT Posts   \* the parameters of the objects considered, defaults filled in

Post ==
  [ interval : Int, t_interval : Int, delay : Int, t_delay : Int,
    from_restart : BOOLEAN, start : Int, start_time : Int,
    enforce_dt : BOOLEAN, final_output : BOOLEAN ]

ASSUME PostsAssumption == Posts \subseteq Post

VARIABLES
  post,         \* its parameters, never changed
  start_index,  \* m_start_time_index of SimTime
  post_out      \* history: index and time of its last output, and how many

post_vars == << evolve_vars, post, start_index, post_out >>

(* populate_output_parameters: the combinations that abort.                *)
PostAborts(p) ==
  \/ p.from_restart /\ (p.start # Unset \/ p.start_time # Unset)
  \/ p.interval <= 0 /\ p.t_interval <= 0
  \/ p.interval > 0 /\ p.t_interval > 0
  \/ p.t_interval <= 0 /\ p.enforce_dt

(* add_postproc_dt_parameters: what set_current_cfl knows of the object.   *)
KnownToClock(p) ==
  cfg.post = [t_interval |-> p.t_interval, t_delay |-> p.t_delay,
              enforce_dt |-> p.enforce_dt]

PostInit ==
  /\ Init
  /\ post \in {p \in Posts : ~PostAborts(p) /\ KnownToClock(p)}
  /\ start_index = 0
  /\ post_out = [index |-> -1, time |-> Unset, count |-> 0]

-----------------------------------------------------------------------------
(* do_output_now(ntime, ntime0_in, time, time0_in, dt) *)

\* Mutant: the schedule counts from the start of the run, as plot files do.
IndexOrigin_OfRun(n0) == Or(post.start, n0)

IndexOrigin(n0) == Or(post.start, IF post.from_restart THEN n0 ELSE 0)

TimeOrigin(t0) == Or(post.start_time, IF post.from_restart THEN t0 ELSE 0)

\* Mutant: the output is made when a step as long as this one would pass
\* the next multiple of the interval.
TimeBasedOutput_Ahead(t, t0, d) ==
  /\ post.t_interval > 0
  /\ t >= post.t_delay
  /\ ((t - TimeOrigin(t0)) % post.t_interval) + d >= post.t_interval

TimeBasedOutput(t, t0, d) ==
  /\ post.t_interval > 0
  /\ t >= post.t_delay
  /\ (t - TimeOrigin(t0)) % post.t_interval < d

StepBasedOutput(n, n0) ==
  /\ post.interval > 0
  /\ n >= post.delay
  /\ (n - IndexOrigin(n0)) % post.interval = 0

DoOutputNow(n, n0, t, t0, d) == StepBasedOutput(n, n0) \/ TimeBasedOutput(t, t0, d)

OutputDue == DoOutputNow(time_index, start_index, new_time, start_time, dt[0])

OutputActions(n, t) == post_out' = [index |-> n, time |-> t, count |-> post_out.count + 1]

-----------------------------------------------------------------------------
(* The hooks of PostProcessManager in the life of a run *)

(* post_init_actions, called before the initial iterations have set dt:    *)
(* dt[0] is fixed_dt, or -1 in an adaptive run, where no time-based output *)
(* is due then.                                                            *)
PostInitActions ==
  IF OutputDue THEN OutputActions(time_index, new_time) ELSE UNCHANGED post_out

PostStart(c) ==
  /\ NoInitialIterations \/ InitialIterations(c) \/ (stage = "init" /\ CflAbort(c))
  /\ PostInitActions
  /\ UNCHANGED << post, start_index >>

PostRestart(chk) ==
  /\ ReadCheckpointFile(chk)
  /\ start_index' = chk.time_index
  /\ IF DoOutputNow(chk.time_index, chk.time_index, chk.time, chk.time, dt[0])
     THEN OutputActions(chk.time_index, chk.time)
     ELSE UNCHANGED post_out
  /\ UNCHANGED post

PostStep(c) ==
  /\ \/ PrepareForTimeIntegration \/ StartStep \/ PreAdvance \/ ComputeDt(c)
     \/ stage = "dt" /\ CflAbort(c)
  /\ UNCHANGED << post, start_index, post_out >>

PostAdvance ==
  /\ PostAdvanceWork
  /\ IF OutputDue THEN OutputActions(time_index, new_time) ELSE UNCHANGED post_out
  /\ UNCHANGED << post, start_index >>

\* Mutant: the final output does not ask whether the last step has made it.
FinalDue_Always == post.final_output

FinalDue == post.final_output /\ ~OutputDue

PostFinal ==
  /\ OutputAtFinalTime
  /\ IF FinalDue THEN OutputActions(time_index, new_time) ELSE UNCHANGED post_out
  /\ UNCHANGED << post, start_index >>

PostNext ==
  \/ \E c \in CflDts : PostStart(c) \/ PostStep(c)
  \/ \E chk \in Checkpoints : PostRestart(chk)
  \/ PostAdvance
  \/ PostFinal
  \/ Stopped /\ UNCHANGED post_vars

PostSpec == PostInit /\ [][PostNext]_post_vars

-----------------------------------------------------------------------------
PostSlot(t) == (t - TimeOrigin(start_time)) \div post.t_interval

(* The run starts on the object's schedule and with steps of a known       *)
(* length, so that an output is due at its start.                          *)
OutputAtStart == ~Adaptive /\ (start_time - TimeOrigin(start_time)) % post.t_interval = 0

(* Once a run has gone beyond the interval it started in, every interval   *)
(* of a time-based object's own schedule that it enters has its output,    *)
(* made in that interval; the one it starts in has one where the start is  *)
(* on schedule and the steps are fixed.  The schedule (by default) counts  *)
(* from time zero also after a restart.                                    *)
PostNoIntervalSkipped ==
  stage \in {"top", "dt", "advance", "done"} /\ post.t_interval > 0
    /\ post.t_delay <= start_time
    /\ (OutputAtStart \/ PostSlot(new_time) # PostSlot(start_time))
  => post_out.count > 0 /\ PostSlot(post_out.time) = PostSlot(new_time)

(* "outputs will take place when the difference between the current time   *)
(* and the initial time matches up with the specified time interval"       *)
(* (inputs_post_processing.rst:109-111): not at the start of an adaptive   *)
(* run, where the interval it starts in goes by without an output.         *)
PostStartOnScheduleIsWritten ==
  stage \in {"top", "dt", "advance", "done"} /\ post.t_interval > 0
    /\ post.t_delay <= start_time
    /\ (start_time - TimeOrigin(start_time)) % post.t_interval = 0
  => post_out.count > 0

(* Every multiple of the interval up to index n has had its output, and    *)
(* nothing else has.                                                       *)
StepOutputsUpTo(n) ==
  LET due == {i \in start_index..n : i % post.interval = 0}
  IN  /\ \A i \in due : i <= post_out.index
      /\ post_out.index \in due \cup {-1}

CountsFromZero ==
  post.interval > 0 /\ post.delay <= 0 /\ post.start = Unset /\ ~post.from_restart

(* By default the outputs do not depend on where a run was restarted: a    *)
(* step-based object writes at every multiple of its interval and nowhere  *)
(* else, so a run in several pieces makes the outputs of a run in one.     *)
PostStepsComplete == stage = "top" /\ CountsFromZero => StepOutputsUpTo(time_index)

(* With output_after_final_step the final state is written, whatever the   *)
(* intervals and delays are, and exactly once.  (With max_step = 0 it may  *)
(* be missing: the step on which OutputDue depends is set by the initial   *)
(* iterations, after the first outputs.)                                   *)
PostFinalStateOnce ==
  [][stage = "done" /\ stage' = "final" /\ post.final_output /\ cfg.max_step # 0
     => /\ post_out'.index = time_index
        /\ post_out' # post_out => post_out.index < time_index]_post_vars

PostOnSchedule ==
  stage = "post" /\ post.enforce_dt /\ Adaptive /\ post_out' # post_out
  => (new_time - TimeOrigin(start_time)) % post.t_interval = 0

(* With enforce_output_time_dt the outputs of an adaptive run are made     *)
(* exactly on schedule, where the schedule starts at a multiple of the     *)
(* interval; by default also after a restart at any time.                  *)
PostEnforcedAligned ==
  [][post.t_interval > 0 /\ TimeOrigin(start_time) % post.t_interval = 0
       /\ cfg.delay_time <= 0
     => PostOnSchedule]_post_vars

-----------------------------------------------------------------------------
(* Why these hold. *)

PostTypeOK ==
  /\ post \in Posts /\ ~PostAborts(post) /\ KnownToClock(post)
  /\ start_index \in Nat
  /\ post_out \in [index : Int, time : Int, count : Nat]

(* As ScheduleInv and OutputsInv of the plot files, for one object.  After *)
(* the initial iterations OutputDue is not what it was when the first      *)
(* output was made, but a run with a step to make does not ask again       *)
(* before it is made.                                                      *)
PostScheduleInv ==
  /\ post_out.count > 0 => post_out.time <= Reached
  /\ stage = "init" => dt = UnsetDt
  /\ post.t_interval > 0 /\ post.t_delay <= start_time
       /\ stage \notin {"init", "final", "abort"}
       /\ (OutputAtStart \/ PostSlot(Reached) # PostSlot(start_time))
     => post_out.count > 0 /\ PostSlot(post_out.time) = PostSlot(Reached)

PostStepsInv ==
  stage \notin {"init", "final", "abort"} /\ CountsFromZero => StepOutputsUpTo(SettledIndex)

DueIfMade == post_out.index = time_index <=> OutputDue

PostOutputsInv ==
  /\ stage = "init" =>
       start_index = 0 /\ post_out = [index |-> -1, time |-> Unset, count |-> 0]
  /\ stage # "abort" => start_index <= SettledIndex
  /\ stage \notin {"final", "abort"} => post_out.index <= SettledIndex
  /\ stage = "top" => DueIfMade \/ (time_index = 0 /\ new_time = 0)
  /\ stage = "done" /\ cfg.max_step # 0 => DueIfMade

(* As EnforcedInv, for the object whose interval the clock knows.          *)
PostEnforcedInv ==
  stage \in {"advance", "post"} /\ cfg.delay_time <= 0 /\ Adaptive /\ cfg.post.enforce_dt
  => \/ dt[0] <= cfg.post.t_interval - (cur_time % cfg.post.t_interval)
     \/ cur_time + dt[0] < cfg.post.t_delay

PostInv == PostTypeOK /\ PostScheduleInv /\ PostStepsInv /\ PostOutputsInv /\ PostEnforcedInv

=============================================================================
