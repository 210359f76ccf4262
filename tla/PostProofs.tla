----------------------------- MODULE PostProofs -----------------------------
(***************************************************************************)
(* Theorems about post-processing: the schedules and outputs of its        *)
(* objects, the instruments that scan, and the running means of fields,    *)
(* for every set of objects, instruments, averages, input files and        *)
(* checkpoints and every sequence of CFL steps.                            *)
(***************************************************************************)
EXTENDS Scanning, TimeAveraging, EvolveProofs

USE InputsAssumption, CflAssumption, CheckpointsAssumption
USE PostsAssumption, InstrumentsAssumption, AveragesAssumption

-----------------------------------------------------------------------------
(* What a step does, as the proofs need it. *)

LEMMA PostTypes ==
  ASSUME PostTypeOK
  PROVE  /\ post.interval \in Int /\ post.t_interval \in Int
         /\ post.delay \in Int /\ post.t_delay \in Int
         /\ post.start \in Int /\ post.start_time \in Int
         /\ post.from_restart \in BOOLEAN /\ post.enforce_dt \in BOOLEAN
         /\ post.final_output \in BOOLEAN
         /\ post.interval > 0 => ~(post.t_interval > 0)
         /\ post.enforce_dt => post.t_interval > 0
         /\ start_index \in Nat
         /\ post_out.index \in Int /\ post_out.time \in Int /\ post_out.count \in Nat
<1>1. post \in Post
  BY DEF PostTypeOK
<1>2. QED
  BY <1>1 DEF PostTypeOK, PostAborts, Post

LEMMA OriginTypes ==
  ASSUME PostTypeOK
  PROVE  /\ \A n \in Int : IndexOrigin(n) \in Int
         /\ \A t \in Int : TimeOrigin(t) \in Int
BY PostTypes DEF IndexOrigin, TimeOrigin, Or

LEMMA CfgStays ==
  ASSUME AnyStep
  PROVE  cfg' = cfg
<1>1. CASE Step
  BY <1>1 DEF Step, NoInitialIterations, PrepareForTimeIntegration, StartStep, NewTimestep,
       PreAdvance, AdvanceTime, PostAdvanceWork, OutputAtFinalTime, InitialIterations,
       ComputeDt, SetCurrentCfl, CflAbort, clock_vars
<1>2. ASSUME NEW chk \in Header, ReadCheckpointFile(chk)
      PROVE  cfg' = cfg
  BY <1>2 DEF ReadCheckpointFile, SetRestartTime
<1>3. QED
  BY <1>1, <1>2 DEF AnyStep, evolve_vars, clock_vars

(* The calls between two outputs leave the object alone, and the time and  *)
(* index up to which it has made its outputs.                              *)
Quiet ==
  /\ UNCHANGED << cfg, start_time, post, start_index, post_out >>
  /\ Reached' = Reached
  /\ stage \in {"init_out", "top", "dt", "advance"}
  /\ stage' \in {"top", "dt", "done", "advance", "post", "abort"}
  /\ stage' # "abort" => SettledIndex' = SettledIndex
  /\ stage' = "top" => stage = "init_out" /\ UNCHANGED << time_index, new_time >>
  /\ stage' = "done" =>
       stage = "top" /\ ~ContinueSimulation /\ UNCHANGED << dt, time_index, new_time >>

LEMMA PostStepQuiet ==
  ASSUME TypeOK, LoopInv, NEW c \in CflDts, PostStep(c)
  PROVE  Quiet
<1>1. UNCHANGED << post, start_index, post_out >> /\ time_index \in Int
  BY DEF PostStep, TypeOK, ClockTypeOK
<1>2. CASE PrepareForTimeIntegration
  BY <1>1, <1>2 DEF PrepareForTimeIntegration, clock_vars, Quiet, Reached, SettledIndex
<1>3. CASE StartStep
  BY <1>1, <1>3 DEF StartStep, NewTimestep, Quiet, Reached, SettledIndex
<1>4. CASE PreAdvance
  <2>1. stage = "advance" /\ cur_time = new_time
    BY <1>4 DEF PreAdvance, LoopInv
  <2>2. QED
    BY <1>1, <1>4, <2>1 DEF PreAdvance, AdvanceTime, Quiet, Reached, SettledIndex
<1>5. CASE ComputeDt(c)
  BY <1>1, <1>5 DEF ComputeDt, SetCurrentCfl, Quiet, Reached, SettledIndex
<1>6. CASE stage = "dt" /\ CflAbort(c)
  BY <1>1, <1>6 DEF CflAbort, clock_vars, Quiet, Reached
<1>7. QED
  BY <1>2, <1>3, <1>4, <1>5, <1>6 DEF PostStep

(* The start of a run, with the outputs of post_init_actions.              *)
Started ==
  /\ stage = "init" /\ stage' \in {"init_out", "abort"}
  /\ UNCHANGED << cfg, cur_time, new_time, start_time, time_index, post, start_index >>
  /\ PostInitActions

LEMMA PostStartStarted ==
  ASSUME NEW c \in CflDts, PostStart(c)
  PROVE  Started
BY DEF PostStart, Started, NoInitialIterations, InitialIterations, SetCurrentCfl, CflAbort,
       clock_vars

(* A step of an object is a step of the loop, and one of these.            *)
LEMMA PostSteps ==
  ASSUME TypeOK, LoopInv, [PostNext]_post_vars
  PROVE  /\ AnyStep
         /\ post' = post
         /\ \/ Started
            \/ Quiet
            \/ \E chk \in Header : PostRestart(chk)
            \/ PostAdvance
            \/ PostFinal
            \/ UNCHANGED post_vars
<1>1. ASSUME NEW c \in CflDts, PostStart(c)
      PROVE  AnyStep /\ Started /\ post' = post
  BY <1>1, PostStartStarted DEF PostStart, AnyStep, Step
<1>2. ASSUME NEW c \in CflDts, PostStep(c)
      PROVE  AnyStep /\ Quiet /\ post' = post
  BY <1>2, PostStepQuiet DEF PostStep, AnyStep, Step
<1>3. ASSUME NEW chk \in Checkpoints, PostRestart(chk)
      PROVE  chk \in Header /\ AnyStep /\ post' = post
  BY <1>3 DEF PostRestart, AnyStep
<1>4. CASE PostAdvance
  BY <1>4 DEF PostAdvance, AnyStep, Step
<1>5. CASE PostFinal
  BY <1>5 DEF PostFinal, AnyStep, Step
<1>6. CASE UNCHANGED post_vars
  BY <1>6 DEF post_vars, AnyStep
<1>7. QED
  BY <1>1, <1>2, <1>3, <1>4, <1>5, <1>6 DEF PostNext

-----------------------------------------------------------------------------
(* Types *)

LEMMA InitPostTypeOK == PostInit => PostTypeOK
BY DEF PostInit, PostTypeOK, Unset, KnownToClock, PostAborts

LEMMA NextPostTypeOK ==
  ASSUME TypeOK, LoopInv, PostTypeOK, [PostNext]_post_vars
  PROVE  PostTypeOK'
<1>0. /\ time_index \in Int /\ new_time \in Int
      /\ post_out \in [index : Int, time : Int, count : Nat]
  BY DEF TypeOK, ClockTypeOK, PostTypeOK
<1>1. cfg' = cfg
  BY PostSteps, CfgStays
<1>2. post' \in Posts /\ ~PostAborts(post)' /\ KnownToClock(post)'
  BY <1>1, PostSteps DEF PostTypeOK, PostAborts, KnownToClock
<1> SUFFICES start_index' \in Nat /\ post_out' \in [index : Int, time : Int, count : Nat]
  BY <1>2 DEF PostTypeOK
<1>3. CASE Started
  BY <1>0, <1>3 DEF Started, PostInitActions, OutputActions, PostTypeOK
<1>4. CASE Quiet
  BY <1>4 DEF Quiet, PostTypeOK
<1>5. ASSUME NEW chk \in Header, PostRestart(chk)
      PROVE  start_index' \in Nat /\ post_out' \in [index : Int, time : Int, count : Nat]
  <2>1. chk.time_index \in Nat /\ chk.time \in Nat
    BY DEF Header
  <2>2. QED
    BY <1>0, <1>5, <2>1 DEF PostRestart, OutputActions
<1>6. CASE PostAdvance
  BY <1>0, <1>6 DEF PostAdvance, OutputActions, PostTypeOK
<1>7. CASE PostFinal
  BY <1>0, <1>7 DEF PostFinal, OutputActions, PostTypeOK
<1>8. CASE UNCHANGED post_vars
  BY <1>8 DEF post_vars, PostTypeOK
<1>9. QED
  BY <1>3, <1>4, <1>5, <1>6, <1>7, <1>8, PostSteps

(* What is known of the loop an object is driven by.                       *)
DrivenInv == TypeOK /\ LoopInv /\ ScheduleInv /\ OutputsInv /\ PostTypeOK

LEMMA InitDriven == PostInit => DrivenInv
BY InitTypeOK, InitLoopInv, InitScheduleInv, InitOutputsInv, InitPostTypeOK DEF PostInit, DrivenInv

LEMMA NextDriven ==
  ASSUME DelaysHaveDt, DrivenInv, [PostNext]_post_vars
  PROVE  DrivenInv'
BY PostSteps, NextTypeOK, NextLoopInv, NextScheduleInv, NextOutputsInv, NextPostTypeOK
   DEF DrivenInv

LEMMA DrivenInvariant == DelaysHaveDt => (PostSpec => []DrivenInv)
<1> SUFFICES ASSUME DelaysHaveDt PROVE PostSpec => []DrivenInv
  OBVIOUS
<1>1. DrivenInv /\ [PostNext]_post_vars => DrivenInv'
  BY NextDriven
<1>2. QED
  BY <1>1, InitDriven, PTL DEF PostSpec

-----------------------------------------------------------------------------
(* The final output. *)

LEMMA InitPostOutputs == PostInit => PostOutputsInv
BY DEF PostInit, Init, ClockInit, PostOutputsInv, SettledIndex

(* do_output_now after calls that leave what it reads alone.               *)
LEMMA SameDue ==
  ASSUME UNCHANGED << post, time_index, start_index, new_time, start_time >>, dt'[0] = dt[0]
  PROVE  OutputDue' <=> OutputDue
BY DEF OutputDue, DoOutputNow, StepBasedOutput, TimeBasedOutput, IndexOrigin, TimeOrigin

(* A run that has made no step and ends makes none at all.                 *)
LEMMA NoStepNoRun ==
  ASSUME TypeOK, time_index = 0, new_time = 0, ~ContinueSimulation
  PROVE  cfg.max_step = 0
BY CfgType DEF ContinueSimulation, TypeOK

LEMMA NextPostOutputs ==
  ASSUME DrivenInv, PostOutputsInv, [PostNext]_post_vars
  PROVE  PostOutputsInv'
<1>0. /\ TypeOK /\ LoopInv /\ PostTypeOK
      /\ time_index \in Nat /\ start_index \in Nat /\ post_out.index \in Int
      /\ post_out \in [index : Int, time : Int, count : Nat]
      /\ dt \in [0..2 -> Int]
  BY PostTypes DEF DrivenInv, OutputsInv, PostTypeOK, TypeOK, ClockTypeOK
<1>1. CASE Started
  <2>1. /\ stage = "init" /\ stage' \in {"init_out", "abort"}
        /\ UNCHANGED << time_index, start_index >>
        /\ time_index = 0 /\ start_index = 0 /\ post_out.index = -1
    BY <1>0, <1>1 DEF Started, LoopInv, PostOutputsInv
  <2>2. post_out'.index \in {-1, 0}
    BY <1>1, <2>1 DEF Started, PostInitActions, OutputActions
  <2>3. QED
    BY <2>1, <2>2 DEF PostOutputsInv, SettledIndex
<1>2. CASE Quiet
  <2>1. /\ UNCHANGED << cfg, start_time, post, start_index, post_out >>
        /\ stage \notin {"init", "final", "abort"} /\ stage' # "init"
        /\ stage' # "abort" => SettledIndex' = SettledIndex
    BY <1>2 DEF Quiet
  <2>2. CASE stage' = "top"
    <3>1. time_index' = 0 /\ new_time' = 0
      BY <1>0, <1>2, <2>2 DEF Quiet, LoopInv
    <3>2. QED
      BY <2>1, <2>2, <3>1 DEF PostOutputsInv
  <2>3. CASE stage' = "done"
    <3>1. /\ stage = "top" /\ ~ContinueSimulation
          /\ UNCHANGED << dt, time_index, new_time >>
      BY <1>2, <2>3 DEF Quiet
    <3>2. OutputDue' <=> OutputDue
      BY <2>1, <3>1, SameDue
    <3>3. time_index = 0 /\ new_time = 0 => cfg.max_step = 0
      BY <1>0, <3>1, NoStepNoRun
    <3>4. QED
      BY <2>1, <2>3, <3>1, <3>2, <3>3 DEF PostOutputsInv, DueIfMade
  <2>4. CASE stage' \notin {"top", "done"}
    BY <2>1, <2>4 DEF PostOutputsInv
  <2>5. QED
    BY <2>2, <2>3, <2>4
<1>3. ASSUME NEW chk \in Header, PostRestart(chk)
      PROVE  PostOutputsInv'
  <2> DEFINE due == DoOutputNow(chk.time_index, chk.time_index, chk.time, chk.time, dt[0])
  <2>1. chk.time_index \in Nat
    BY DEF Header
  <2>2. /\ stage = "init" /\ stage' = "top" /\ start_index' = chk.time_index
        /\ time_index' = chk.time_index /\ new_time' = chk.time /\ start_time' = chk.time
        /\ post' = post /\ dt'[0] = dt[0]
    BY <1>0, <1>3 DEF PostRestart, ReadCheckpointFile, SetRestartTime
  <2>3. post_out.index = -1
    BY <2>2 DEF PostOutputsInv
  <2>4. post_out'.index = IF due THEN chk.time_index ELSE -1
    BY <1>0, <1>3, <2>3 DEF PostRestart, OutputActions
  <2>5. OutputDue' <=> due
    BY <2>2 DEF OutputDue, DoOutputNow, StepBasedOutput, TimeBasedOutput, IndexOrigin, TimeOrigin
  <2> HIDE DEF due
  <2>6. DueIfMade'
    BY <2>1, <2>2, <2>4, <2>5 DEF DueIfMade
  <2>7. QED
    BY <2>1, <2>2, <2>4, <2>6 DEF PostOutputsInv, SettledIndex
<1>4. CASE PostAdvance
  <2>1. /\ stage = "post" /\ stage' = "top"
        /\ UNCHANGED << dt, time_index, new_time, start_time, post, start_index >>
    BY <1>4 DEF PostAdvance, PostAdvanceWork, clock_vars
  <2>2. post_out'.index = IF OutputDue THEN time_index ELSE post_out.index
    BY <1>4 DEF PostAdvance, OutputActions
  <2>3. OutputDue' <=> OutputDue
    BY <2>1, SameDue
  <2>4. post_out.index <= time_index - 1 /\ start_index <= time_index - 1
    BY <2>1 DEF PostOutputsInv, SettledIndex
  <2>5. DueIfMade'
    BY <1>0, <2>1, <2>2, <2>3, <2>4 DEF DueIfMade
  <2>6. QED
    BY <1>0, <2>1, <2>2, <2>4, <2>5 DEF PostOutputsInv, SettledIndex
<1>5. CASE PostFinal
  <2>1. stage = "done" /\ stage' = "final" /\ UNCHANGED << time_index, start_index >>
    BY <1>5 DEF PostFinal, OutputAtFinalTime, clock_vars
  <2>2. QED
    BY <2>1 DEF PostOutputsInv, SettledIndex
<1>6. CASE UNCHANGED post_vars
  <2>1. OutputDue' <=> OutputDue
    BY <1>6, SameDue DEF post_vars, evolve_vars, clock_vars
  <2>2. UNCHANGED << cfg, stage, time_index, new_time, start_index, post_out >>
    BY <1>6 DEF post_vars, evolve_vars, clock_vars
  <2>3. QED
    BY <2>1, <2>2 DEF PostOutputsInv, SettledIndex, DueIfMade
<1>7. QED
  BY <1>0, <1>1, <1>2, <1>3, <1>4, <1>5, <1>6, PostSteps

LEMMA PostOutputsInvariant == DelaysHaveDt => (PostSpec => []PostOutputsInv)
<1> SUFFICES ASSUME DelaysHaveDt PROVE PostSpec => []PostOutputsInv
  OBVIOUS
<1>1. DrivenInv /\ PostOutputsInv /\ [PostNext]_post_vars => PostOutputsInv'
  BY NextPostOutputs
<1>2. QED
  BY <1>1, InitPostOutputs, DrivenInvariant, PTL DEF PostSpec

LEMMA PostFinalStep ==
  ASSUME DrivenInv, PostOutputsInv, [PostNext]_post_vars,
         stage = "done", stage' = "final", post.final_output, cfg.max_step # 0
  PROVE  /\ post_out'.index = time_index
         /\ post_out' # post_out => post_out.index < time_index
<1>1. PostFinal
  BY DEF PostNext, PostStart, PostStep, PostRestart, PostAdvance, Stopped, post_vars,
         evolve_vars, NoInitialIterations, PrepareForTimeIntegration, StartStep, PreAdvance,
         PostAdvanceWork, InitialIterations, ComputeDt, CflAbort, ReadCheckpointFile
<1>2. post_out.index <= time_index /\ (post_out.index = time_index <=> OutputDue)
  BY DEF PostOutputsInv, DueIfMade, SettledIndex
<1>3. /\ ~OutputDue => post_out'.index = time_index
      /\ OutputDue => post_out' = post_out
  BY <1>1 DEF PostFinal, FinalDue, OutputActions
<1>4. post_out.index \in Int /\ time_index \in Nat
  BY PostTypes DEF DrivenInv, OutputsInv
<1>5. QED
  BY <1>2, <1>3, <1>4

(* With output_after_final_step the final state is written once, whatever  *)
(* the schedule and its delays: the test of PostProcessManager for an      *)
(* output already made is right in every run that may make a step.         *)
THEOREM PostFinalStateIsWrittenOnce == DelaysHaveDt => (PostSpec => PostFinalStateOnce)
<1> SUFFICES ASSUME DelaysHaveDt PROVE PostSpec => PostFinalStateOnce
  OBVIOUS
<1> DEFINE Once == stage = "done" /\ stage' = "final" /\ post.final_output /\ cfg.max_step # 0
                   => /\ post_out'.index = time_index
                      /\ post_out' # post_out => post_out.index < time_index
<1>1. DrivenInv /\ PostOutputsInv /\ [PostNext]_post_vars => [Once]_post_vars
  BY PostFinalStep
<1>2. PostSpec => []DrivenInv /\ []PostOutputsInv
  BY DrivenInvariant, PostOutputsInvariant
<1>3. QED
  BY <1>1, <1>2, PTL DEF PostSpec, PostFinalStateOnce

-----------------------------------------------------------------------------
(* No interval without its output. *)

(* The test of do_output_now for a schedule in time holds exactly when the *)
(* step has entered a new interval of the object's own schedule.           *)
LEMMA PostIntervalPassed ==
  ASSUME DrivenInv, stage = "post", post.t_interval > 0, post.t_delay <= new_time
  PROVE  OutputDue \/ PostSlot(new_time) = PostSlot(cur_time)
<1> DEFINE a == new_time - TimeOrigin(start_time)
<1>1. /\ new_time \in Int /\ start_time \in Int /\ dt[0] \in Int
      /\ dt[0] > 0 /\ cur_time \in Int /\ new_time = cur_time + dt[0]
  BY ScheduleTypes DEF DrivenInv, ScheduleInv
<1>2. TimeOrigin(start_time) \in Int /\ post.t_interval \in Int
      /\ post.t_delay \in Int
  BY <1>1, PostTypes, OriginTypes DEF DrivenInv
<1> HIDE DEF a
<1>3. a \in Int /\ a - dt[0] = cur_time - TimeOrigin(start_time)
  BY <1>1, <1>2 DEF a
<1>4. a % post.t_interval \in Int
  BY <1>2, <1>3, RemainderRange
<1>5. a % post.t_interval >= dt[0]
        => a \div post.t_interval = (a - dt[0]) \div post.t_interval
  BY <1>1, <1>2, <1>3, PassedMultiple
<1>6. a % post.t_interval < dt[0] => OutputDue
  BY DEF a, OutputDue, DoOutputNow, TimeBasedOutput
<1>7. QED
  BY <1>1, <1>3, <1>4, <1>5, <1>6 DEF PostSlot, a

LEMMA InitPostSchedule == PostInit => PostScheduleInv
BY DEF PostInit, Init, ClockInit, PostScheduleInv

NothingMade == post_out = [index |-> -1, time |-> Unset, count |-> 0]

(* The interval has had its output, where it must have had one.            *)
Covered ==
  post.t_interval > 0 /\ post.t_delay <= start_time
    /\ (OutputAtStart \/ PostSlot(Reached) # PostSlot(start_time))
  => post_out.count > 0 /\ PostSlot(post_out.time) = PostSlot(Reached)

(* Where an output is due at the start of a run, the test for one holds.   *)
LEMMA DueAtStart ==
  ASSUME TypeOK, PostTypeOK, dt = UnsetDt, NEW n, NEW n0, NEW t \in Int,
         post.t_interval > 0, post.t_delay <= t, ~Adaptive,
         (t - TimeOrigin(t)) % post.t_interval = 0
  PROVE  DoOutputNow(n, n0, t, t, dt[0])
<1>1. dt[0] = cfg.fixed_dt /\ cfg.fixed_dt > 0
  BY CfgType DEF UnsetDt, Adaptive, IsAdaptive, TypeOK
<1>2. cfg.fixed_dt \in Int
  BY CfgType DEF TypeOK
<1>3. QED
  BY <1>1, <1>2 DEF DoOutputNow, TimeBasedOutput

(* Calls that leave the time reached alone, and move the output up to it   *)
(* or not at all.                                                          *)
LEMMA PostUpToDate ==
  ASSUME DrivenInv, PostScheduleInv, UNCHANGED << cfg, post, start_time >>, Reached' = Reached,
         stage # "init", stage' # "init",
         stage \in {"final", "abort"} => stage' \in {"final", "abort"},
         \/ post_out' = post_out
         \/ post_out'.count > 0 /\ post_out'.time = Reached
  PROVE  PostScheduleInv'
<1>1. Reached \in Int /\ post_out.time \in Int
  BY ScheduleTypes, PostTypes DEF DrivenInv, Reached
<1>2. post_out'.count > 0 => post_out'.time <= Reached'
  BY <1>1 DEF PostScheduleInv
<1>3. /\ PostSlot(Reached)' = PostSlot(Reached)
      /\ PostSlot(start_time)' = PostSlot(start_time)
      /\ OutputAtStart' = OutputAtStart
  BY DEF PostSlot, TimeOrigin, OutputAtStart, Adaptive
<1>4. ASSUME stage' \notin {"final", "abort"}
      PROVE  Covered'
  <2>1. Covered
    BY <1>4 DEF Covered, PostScheduleInv
  <2>2. CASE post_out' = post_out
    <3>1. PostSlot(post_out.time)' = PostSlot(post_out.time)
      BY <2>2 DEF PostSlot, TimeOrigin
    <3>2. QED
      BY <1>3, <2>1, <2>2, <3>1 DEF Covered
  <2>3. CASE post_out'.count > 0 /\ post_out'.time = Reached
    <3>1. PostSlot(post_out.time)' = PostSlot(Reached)
      BY <2>3 DEF PostSlot, TimeOrigin
    <3>2. QED
      BY <1>3, <2>3, <3>1 DEF Covered
  <2>4. QED
    BY <2>2, <2>3
<1>5. QED
  BY <1>2, <1>4 DEF PostScheduleInv, Covered

(* The outputs made when a run starts, anew or again.                      *)
LEMMA PostAtStart ==
  ASSUME DrivenInv, PostScheduleInv, UNCHANGED << cfg, post >>, stage = "init",
         stage' # "init", NothingMade, NEW t \in Int, NEW n, NEW n0,
         start_time' = t, Reached' = t,
         IF DoOutputNow(n, n0, t, t, dt[0]) THEN OutputActions(n, t) ELSE UNCHANGED post_out
  PROVE  PostScheduleInv'
<1> DEFINE due == DoOutputNow(n, n0, t, t, dt[0])
<1>1. dt = UnsetDt /\ TypeOK /\ PostTypeOK
  BY DEF PostScheduleInv, DrivenInv
<1>2. post.t_interval > 0 /\ post.t_delay <= t /\ ~Adaptive
        /\ (t - TimeOrigin(t)) % post.t_interval = 0
      => due
  BY <1>1, DueAtStart
<1> HIDE DEF due
<1>3. due => post_out'.count = 1 /\ post_out'.time = t
  BY DEF due, OutputActions, NothingMade
<1>4. ~due => post_out'.count = 0
  BY DEF due, NothingMade
<1>5. OutputAtStart' <=> ~Adaptive /\ (t - TimeOrigin(t)) % post.t_interval = 0
  BY DEF OutputAtStart, Adaptive, TimeOrigin
<1>6. PostSlot(Reached)' = PostSlot(start_time)'
  BY DEF PostSlot, TimeOrigin
<1>7. ASSUME (post.t_interval > 0 /\ post.t_delay <= start_time)', OutputAtStart'
      PROVE  post_out'.count > 0 /\ PostSlot(post_out.time)' = PostSlot(Reached)'
  <2>1. due
    BY <1>2, <1>5, <1>7
  <2>2. QED
    BY <1>3, <2>1 DEF PostSlot, TimeOrigin
<1>8. post_out'.count > 0 => post_out'.time <= Reached'
  BY <1>3, <1>4
<1>9. QED
  BY <1>6, <1>7, <1>8 DEF PostScheduleInv

LEMMA NextPostSchedule ==
  ASSUME DrivenInv, PostScheduleInv, stage = "init" => NothingMade,
         [PostNext]_post_vars
  PROVE  PostScheduleInv'
<1>0. TypeOK /\ LoopInv /\ PostTypeOK
  BY DEF DrivenInv
<1>c. cfg' = cfg
  BY <1>0, PostSteps, CfgStays
<1>1. CASE Started
  <2>1. /\ UNCHANGED << post, start_time >> /\ Reached' = Reached /\ stage = "init"
        /\ Reached = new_time /\ stage' # "init"
    BY <1>1 DEF Started, Reached
  <2>2. new_time = start_time /\ new_time \in Int
    BY <1>0, <2>1, ScheduleTypes DEF LoopInv
  <2>3. IF DoOutputNow(time_index, start_index, new_time, new_time, dt[0])
        THEN OutputActions(time_index, new_time) ELSE UNCHANGED post_out
    BY <1>1, <2>2 DEF Started, PostInitActions, OutputDue
  <2>4. QED
    BY <1>c, <2>1, <2>2, <2>3, PostAtStart
<1>2. CASE Quiet
  BY <1>2, PostUpToDate DEF Quiet
<1>3. ASSUME NEW chk \in Header, PostRestart(chk)
      PROVE  PostScheduleInv'
  <2>1. chk.time \in Int
    BY DEF Header
  <2>2. /\ stage = "init" /\ stage' = "top" /\ post' = post
        /\ new_time' = chk.time /\ start_time' = chk.time
    BY <1>3 DEF PostRestart, ReadCheckpointFile, SetRestartTime
  <2>3. Reached' = chk.time
    BY <2>2 DEF Reached
  <2>4. IF DoOutputNow(chk.time_index, chk.time_index, chk.time, chk.time, dt[0])
        THEN OutputActions(chk.time_index, chk.time) ELSE UNCHANGED post_out
    BY <1>3 DEF PostRestart
  <2>5. QED
    BY <1>c, <2>1, <2>2, <2>3, <2>4, PostAtStart
<1>4. CASE PostAdvance
  <2>1. /\ stage = "post" /\ stage' = "top" /\ UNCHANGED << post, start_time, new_time >>
    BY <1>4 DEF PostAdvance, PostAdvanceWork, clock_vars
  <2>2. /\ cur_time < new_time /\ start_time <= cur_time
        /\ cur_time \in Int /\ new_time \in Int /\ start_time \in Int
        /\ post_out.time \in Int /\ post_out.count \in Nat
        /\ post_out.count > 0 => post_out.time <= cur_time
        /\ post.t_delay \in Int
    BY <1>0, <2>1, ScheduleTypes, PostTypes DEF DrivenInv, ScheduleInv, PostScheduleInv, Reached
  <2>3. Reached = cur_time /\ Reached' = new_time
    BY <2>1 DEF Reached
  <2>4. CASE OutputDue
    <3>1. post_out'.time = new_time /\ post_out'.count > 0
      BY <1>4, <2>2, <2>4 DEF PostAdvance, OutputActions
    <3>2. QED
      BY <2>1, <2>2, <2>3, <3>1 DEF PostScheduleInv
  <2>5. CASE ~OutputDue
    <3>1. post_out' = post_out
      BY <1>4, <2>5 DEF PostAdvance
    <3>2. post_out'.count > 0 => post_out'.time <= Reached'
      BY <2>2, <2>3, <3>1
    <3>3. ASSUME post.t_interval > 0, post.t_delay <= start_time
          PROVE  Covered'
      <4>1. PostSlot(new_time) = PostSlot(cur_time)
        BY <2>1, <2>2, <2>5, <3>3, PostIntervalPassed
      <4>2. Covered
        BY <2>1 DEF PostScheduleInv, Covered
      <4>3. /\ PostSlot(post_out.time)' = PostSlot(post_out.time)
            /\ PostSlot(Reached)' = PostSlot(new_time)
            /\ PostSlot(Reached) = PostSlot(cur_time)
            /\ PostSlot(start_time)' = PostSlot(start_time)
            /\ OutputAtStart' = OutputAtStart
        BY <1>c, <2>1, <2>3, <3>1 DEF PostSlot, TimeOrigin, OutputAtStart, Adaptive
      <4>4. QED
        BY <2>1, <3>1, <4>1, <4>2, <4>3 DEF Covered
    <3>4. QED
      BY <2>1, <3>2, <3>3 DEF PostScheduleInv, Covered
  <2>6. QED
    BY <2>4, <2>5
<1>5. CASE PostFinal
  <2>1. UNCHANGED << post, start_time >> /\ Reached' = Reached /\ Reached = new_time
        /\ stage = "done" /\ stage' = "final"
    BY <1>5 DEF PostFinal, OutputAtFinalTime, clock_vars, Reached
  <2>2. post_out' = post_out \/ (post_out'.count > 0 /\ post_out'.time = Reached)
    BY <1>0, <1>5, <2>1, PostTypes DEF PostFinal, OutputActions
  <2>3. QED
    BY <1>c, <2>1, <2>2, PostUpToDate
<1>6. CASE UNCHANGED post_vars
  <2>1. UNCHANGED << stage, dt, cfg, new_time, cur_time, start_time, post, post_out >>
    BY <1>6 DEF post_vars, evolve_vars, clock_vars
  <2>2. QED
    BY <2>1 DEF PostScheduleInv, Reached, PostSlot, TimeOrigin, OutputAtStart, Adaptive, UnsetDt
<1>7. QED
  BY <1>0, <1>1, <1>2, <1>3, <1>4, <1>5, <1>6, PostSteps

(* A time-based object misses no interval of its own schedule that the run *)
(* enters after the one it starts in, wherever it is restarted and however *)
(* long its steps are; nor that one, where its first output is due.        *)
THEOREM PostNoIntervalIsSkipped == DelaysHaveDt => (PostSpec => []PostNoIntervalSkipped)
<1> SUFFICES ASSUME DelaysHaveDt PROVE PostSpec => []PostNoIntervalSkipped
  OBVIOUS
<1>1. DrivenInv /\ PostOutputsInv /\ PostScheduleInv /\ [PostNext]_post_vars => PostScheduleInv'
  BY NextPostSchedule DEF PostOutputsInv, NothingMade
<1>2. PostScheduleInv => PostNoIntervalSkipped
  BY DEF PostScheduleInv, PostNoIntervalSkipped, Reached
<1>3. QED
  BY <1>1, <1>2, InitPostSchedule, DrivenInvariant, PostOutputsInvariant, PTL DEF PostSpec

-----------------------------------------------------------------------------
(* Step-based objects that count from zero. *)

LEMMA StepDue ==
  ASSUME PostTypeOK, CountsFromZero, NEW n \in Nat, NEW n0, NEW t, NEW t0, NEW d
  PROVE  DoOutputNow(n, n0, t, t0, d) <=> n % post.interval = 0
<1>1. post.interval \in Int /\ post.interval > 0 /\ ~(post.t_interval > 0)
      /\ post.delay \in Int /\ post.delay <= 0
  BY PostTypes DEF CountsFromZero
<1>2. IndexOrigin(n0) = 0 /\ n - 0 = n /\ n >= post.delay
  BY <1>1 DEF CountsFromZero, IndexOrigin, Or
<1>3. QED
  BY <1>1, <1>2 DEF DoOutputNow, StepBasedOutput, TimeBasedOutput

(* The next index adds itself to the outputs that are due, or nothing.     *)
LEMMA NextStepOutput ==
  ASSUME PostTypeOK, CountsFromZero, NEW n \in Nat, start_index < n,
         StepOutputsUpTo(n - 1), UNCHANGED << post, start_index >>,
         post_out'.index = IF n % post.interval = 0 THEN n ELSE post_out.index
  PROVE  StepOutputsUpTo(n)'
<1> DEFINE before == {i \in start_index..(n - 1) : i % post.interval = 0}
           due == {i \in start_index..n : i % post.interval = 0}
<1>1. start_index \in Nat /\ post_out.index \in Int
  BY PostTypes
<1>2. (\A i \in before : i <= post_out.index) /\ post_out.index \in before \cup {-1}
  BY DEF StepOutputsUpTo
<1>3. due = before \cup {i \in {n} : i % post.interval = 0}
  BY <1>1
<1>4. \A i \in before : i < n
  BY <1>1
<1> SUFFICES (\A i \in due : i <= post_out'.index) /\ post_out'.index \in due \cup {-1}
  BY DEF StepOutputsUpTo
<1> HIDE DEF before, due
<1>5. CASE n % post.interval = 0
  <2>1. due = before \cup {n}
    BY <1>3, <1>5
  <2>2. \A i \in before : i <= n
    BY <1>1, <1>4 DEF before
  <2>3. QED
    BY <1>5, <2>1, <2>2
<1>6. CASE n % post.interval # 0
  <2>1. due = before
    BY <1>3, <1>6
  <2>2. QED
    BY <1>2, <1>6, <2>1
<1>7. QED
  BY <1>5, <1>6

(* The first index of a run, at zero or at a checkpoint.                   *)
LEMMA FirstStepOutput ==
  ASSUME PostTypeOK, CountsFromZero, NEW n \in Nat, start_index' = n, post' = post,
         post_out'.index = IF n % post.interval = 0 THEN n ELSE -1
  PROVE  StepOutputsUpTo(n)'
<1> DEFINE due == {i \in n..n : i % post.interval = 0}
<1>1. due = {i \in {n} : i % post.interval = 0}
  OBVIOUS
<1> SUFFICES (\A i \in due : i <= post_out'.index) /\ post_out'.index \in due \cup {-1}
  BY DEF StepOutputsUpTo
<1> HIDE DEF due
<1>2. CASE n % post.interval = 0
  BY <1>1, <1>2
<1>3. CASE n % post.interval # 0
  BY <1>1, <1>3
<1>4. QED
  BY <1>2, <1>3

LEMMA NextPostSteps ==
  ASSUME DrivenInv, PostOutputsInv, PostStepsInv, [PostNext]_post_vars
  PROVE  PostStepsInv'
<1>0. /\ TypeOK /\ LoopInv /\ PostTypeOK /\ time_index \in Nat
      /\ dt \in [0..2 -> Int] /\ post' = post
      /\ post_out \in [index : Int, time : Int, count : Nat]
  BY PostSteps DEF DrivenInv, OutputsInv, TypeOK, ClockTypeOK, PostTypeOK
<1> SUFFICES ASSUME stage' \notin {"init", "final", "abort"}, CountsFromZero
             PROVE  StepOutputsUpTo(SettledIndex)'
  BY <1>0 DEF PostStepsInv, CountsFromZero
<1>1. CASE Started
  <2>1. /\ stage = "init" /\ stage' = "init_out" /\ UNCHANGED << post, start_index, time_index >>
        /\ time_index = 0 /\ start_index = 0 /\ post_out.index = -1
    BY <1>0, <1>1 DEF Started, LoopInv, PostOutputsInv
  <2>2. OutputDue <=> 0 % post.interval = 0
    BY <1>0, <2>1, StepDue DEF OutputDue
  <2>3. post_out'.index = IF 0 % post.interval = 0 THEN 0 ELSE -1
    BY <1>1, <2>1, <2>2 DEF Started, PostInitActions, OutputActions
  <2>4. StepOutputsUpTo(0)'
    BY <1>0, <2>1, <2>3, FirstStepOutput
  <2>5. SettledIndex' = 0
    BY <2>1 DEF SettledIndex
  <2>6. QED
    BY <2>4, <2>5 DEF StepOutputsUpTo
<1>2. CASE Quiet
  BY <1>2 DEF Quiet, PostStepsInv, StepOutputsUpTo
<1>3. ASSUME NEW chk \in Header, PostRestart(chk)
      PROVE  StepOutputsUpTo(SettledIndex)'
  <2> DEFINE n == chk.time_index
  <2>1. n \in Nat
    BY DEF Header
  <2>2. /\ stage = "init" /\ stage' = "top" /\ start_index' = n /\ time_index' = n
    BY <1>3 DEF PostRestart, ReadCheckpointFile, SetRestartTime
  <2>3. post_out.index = -1
    BY <2>2 DEF PostOutputsInv
  <2>4. DoOutputNow(n, n, chk.time, chk.time, dt[0]) <=> n % post.interval = 0
    BY <1>0, <2>1, StepDue
  <2>5. post_out'.index = IF n % post.interval = 0 THEN n ELSE -1
    BY <1>0, <1>3, <2>3, <2>4 DEF PostRestart, OutputActions
  <2> HIDE DEF n
  <2>6. StepOutputsUpTo(n)'
    BY <1>0, <2>1, <2>2, <2>5, FirstStepOutput
  <2>7. SettledIndex' = n
    BY <2>2 DEF SettledIndex
  <2>8. QED
    BY <2>6, <2>7 DEF StepOutputsUpTo, n
<1>4. CASE PostAdvance
  <2>1. stage = "post" /\ stage' = "top" /\ UNCHANGED << time_index, post, start_index >>
    BY <1>4 DEF PostAdvance, PostAdvanceWork, clock_vars
  <2>2. OutputDue <=> time_index % post.interval = 0
    BY <1>0, StepDue DEF OutputDue
  <2>3. post_out'.index = IF time_index % post.interval = 0 THEN time_index ELSE post_out.index
    BY <1>4, <2>2 DEF PostAdvance, OutputActions
  <2>4. start_index < time_index
    BY <1>0, <2>1, PostTypes DEF PostOutputsInv, SettledIndex
  <2>5. StepOutputsUpTo(time_index - 1)
    BY <2>1 DEF PostStepsInv, SettledIndex
  <2>6. StepOutputsUpTo(time_index)'
    BY <1>0, <2>1, <2>3, <2>4, <2>5, NextStepOutput DEF StepOutputsUpTo
  <2>7. QED
    BY <2>1, <2>6 DEF StepOutputsUpTo, SettledIndex
<1>5. CASE PostFinal
  BY <1>5 DEF PostFinal, OutputAtFinalTime
<1>6. CASE UNCHANGED post_vars
  BY <1>6 DEF post_vars, evolve_vars, clock_vars, PostStepsInv, StepOutputsUpTo, SettledIndex
<1>7. QED
  BY <1>0, <1>1, <1>2, <1>3, <1>4, <1>5, <1>6, PostSteps

(* By default a step-based object writes at every multiple of its interval *)
(* and nowhere else, also in a run that was restarted in between.          *)
THEOREM PostStepsAreComplete == DelaysHaveDt => (PostSpec => []PostStepsComplete)
<1> SUFFICES ASSUME DelaysHaveDt PROVE PostSpec => []PostStepsComplete
  OBVIOUS
<1>1. PostInit => PostStepsInv
  BY DEF PostInit, Init, PostStepsInv
<1>2. DrivenInv /\ PostOutputsInv /\ PostStepsInv /\ [PostNext]_post_vars => PostStepsInv'
  BY NextPostSteps
<1>3. PostStepsInv => PostStepsComplete
  BY DEF PostStepsInv, PostStepsComplete, SettledIndex
<1>4. QED
  BY <1>1, <1>2, <1>3, DrivenInvariant, PostOutputsInvariant, PTL DEF PostSpec

-----------------------------------------------------------------------------
(* Enforced outputs. *)

(* The step set_current_cfl chooses ends on the object's next multiple or  *)
(* before it, unless its schedule is still delayed.                        *)
LEMMA AdaptiveDtOnPostTime ==
  ASSUME TypeOK, NEW c \in CflDts, cfg.post.enforce_dt
  PROVE  \/ AdaptiveDt(c) <= cfg.post.t_interval - (cur_time % cfg.post.t_interval)
         \/ cur_time + AdaptiveDt(c) < cfg.post.t_delay
<1> DEFINE i == cfg.post.t_interval
           w == cfg.post.t_delay
           d1 == EnforcedFor(ClippedToStop(LimitedDt(c)), "chkpt")
           d2 == EnforcedFor(d1, "plt")
           d3 == Enforced(d2, i, w, TRUE)
<1>1. ClockTypeOK /\ cur_time \in Int /\ "chkpt" \in Kinds /\ "plt" \in Kinds
  BY DEF TypeOK, ClockTypeOK, Kinds
<1>2. i \in Int /\ i > 0 /\ w \in Int /\ cfg.initial_dt \in Int
      /\ cfg.post.enforce_dt = TRUE
  BY <1>1, CfgType DEF ClockTypeOK, ParseAborts
<1>3. cur_time % i \in Int
  BY <1>1, <1>2, RemainderRange
<1>4. d2 \in Int
  <2>1. d1 \in Int
    BY <1>1, CfgType, AdaptiveDtType, EnforcedType DEF EnforcedFor
  <2>2. QED
    BY <1>1, <2>1, CfgType, EnforcedType DEF EnforcedFor
<1>5. AdaptiveDt(c) = IF is_init /\ cfg.initial_dt > 0 THEN Min2(d3, cfg.initial_dt) ELSE d3
  BY <1>2 DEF AdaptiveDt
<1> HIDE DEF i, w, d1, d2, d3
<1>6. d3 \in Int /\ (d3 <= i - (cur_time % i) \/ cur_time + d3 < w)
  BY <1>1, <1>2, <1>4, EnforcedType, EnforcedOnTime DEF d3
<1>7. AdaptiveDt(c) \in Int /\ AdaptiveDt(c) <= d3
  BY <1>2, <1>5, <1>6 DEF Min2
<1>8. AdaptiveDt(c) <= i - (cur_time % i) \/ cur_time + AdaptiveDt(c) < w
  BY <1>1, <1>2, <1>3, <1>6, <1>7
<1>9. QED
  BY <1>8 DEF i, w

LEMMA NextPostEnforced ==
  ASSUME TypeOK, LoopInv, PostEnforcedInv, AnyStep
  PROVE  PostEnforcedInv'
<1>0. ClockTypeOK /\ cur_time \in Int /\ cur_time >= 0 /\ dt \in [0..2 -> Int]
  BY DEF TypeOK, ClockTypeOK, LoopInv
<1>1. ASSUME NEW c \in CflDts, ComputeDt(c)
      PROVE  PostEnforcedInv'
  <2>1. dt'[0] = CflDt(c) /\ UNCHANGED << cfg, cur_time >>
    BY <1>0, <1>1 DEF ComputeDt, SetCurrentCfl
  <2>2. cfg.delay_time <= 0 /\ Adaptive => CflDt(c) = AdaptiveDt(c)
    BY <1>0, CfgType, InDelayHasDelay DEF CflDt
  <2>3. QED
    BY <2>1, <2>2, AdaptiveDtOnPostTime DEF PostEnforcedInv, Adaptive
<1>2. CASE PreAdvance
  BY <1>2 DEF PreAdvance, AdvanceTime, PostEnforcedInv, Adaptive
<1>3. CASE UNCHANGED evolve_vars
  BY <1>3 DEF evolve_vars, clock_vars, PostEnforcedInv, Adaptive
<1>4. ASSUME stage' \notin {"advance", "post"} PROVE PostEnforcedInv'
  BY <1>4 DEF PostEnforcedInv
<1>5. QED
  BY <1>1, <1>2, <1>3, <1>4
     DEF AnyStep, Step, NoInitialIterations, PrepareForTimeIntegration, StartStep,
         PostAdvanceWork, OutputAtFinalTime, InitialIterations, CflAbort, ReadCheckpointFile

LEMMA PostOutputAligned ==
  ASSUME DrivenInv, PostEnforcedInv, [PostNext]_post_vars,
         post.t_interval > 0, TimeOrigin(start_time) % post.t_interval = 0, cfg.delay_time <= 0
  PROVE  PostOnSchedule
<1> SUFFICES ASSUME stage = "post", post.enforce_dt, Adaptive, post_out' # post_out
             PROVE  (new_time - TimeOrigin(start_time)) % post.t_interval = 0
  BY DEF PostOnSchedule
<1> DEFINE i == post.t_interval
           s == TimeOrigin(start_time)
<1>1. PostAdvance
  BY DEF PostNext, PostStart, PostStep, PostRestart, PostFinal, Stopped, post_vars,
         evolve_vars, NoInitialIterations, PrepareForTimeIntegration, StartStep, PreAdvance,
         OutputAtFinalTime, InitialIterations, ComputeDt, CflAbort, ReadCheckpointFile
<1>2. OutputDue
  BY <1>1 DEF PostAdvance
<1>3. i \in Int /\ i > 0 /\ ~(post.interval > 0) /\ post.t_delay \in Int
  BY PostTypes DEF DrivenInv
<1>4. s \in Int /\ s % i = 0
  BY OriginTypes, ScheduleTypes DEF DrivenInv
<1>5. /\ cur_time \in Int /\ dt[0] \in Int /\ dt[0] >= 1
      /\ new_time \in Int /\ new_time = cur_time + dt[0]
  BY ScheduleTypes DEF DrivenInv, ScheduleInv
<1>6. new_time >= post.t_delay /\ (new_time - s) % i < dt[0]
  BY <1>2, <1>3 DEF OutputDue, DoOutputNow, StepBasedOutput, TimeBasedOutput
<1>7. cfg.post.t_interval = i /\ cfg.post.t_delay = post.t_delay /\ cfg.post.enforce_dt
  BY DEF DrivenInv, PostTypeOK, KnownToClock
<1>8. dt[0] <= i - (cur_time % i)
  BY <1>3, <1>5, <1>6, <1>7 DEF PostEnforcedInv
<1> HIDE DEF i, s
<1>9. (new_time - s) % i = new_time % i
  BY <1>3, <1>4, <1>5, ShiftedRemainder
<1>10. new_time % i = 0
  BY <1>3, <1>5, <1>6, <1>8, <1>9, RemainderOfStep
<1>11. QED
  BY <1>9, <1>10 DEF i, s

(* With enforce_output_time_dt the outputs of an adaptive run are exactly  *)
(* on the object's schedule, where that starts at a multiple of the        *)
(* interval and there is no delay_time, however plot files, checkpoints    *)
(* and the stop time shorten the steps.                                    *)
THEOREM PostEnforcedOutputsAreAligned == DelaysHaveDt => (PostSpec => PostEnforcedAligned)
<1> SUFFICES ASSUME DelaysHaveDt PROVE PostSpec => PostEnforcedAligned
  OBVIOUS
<1> DEFINE Aligned == post.t_interval > 0 /\ TimeOrigin(start_time) % post.t_interval = 0
                        /\ cfg.delay_time <= 0
                      => PostOnSchedule
<1>1. DrivenInv /\ PostEnforcedInv /\ [PostNext]_post_vars => [Aligned]_post_vars
  BY PostOutputAligned
<1>2. PostInit => PostEnforcedInv
  BY DEF PostInit, Init, PostEnforcedInv
<1>3. DrivenInv /\ PostEnforcedInv /\ [PostNext]_post_vars => PostEnforcedInv'
  BY NextPostEnforced, PostSteps DEF DrivenInv
<1>4. QED
  BY <1>1, <1>2, <1>3, DrivenInvariant, PTL DEF PostSpec, PostEnforcedAligned

-----------------------------------------------------------------------------
(* Instruments.  A run of a Sampling object with instruments is a run of   *)
(* the object.                                                             *)

LEMMA ScanIsPost ==
  /\ ScanInit => PostInit
  /\ [ScanNext]_scan_vars => [PostNext]_post_vars
<1>1. ScanInit => PostInit
  BY DEF ScanInit
<1>2. ScanNext => PostNext
  BY DEF ScanNext, PostNext, ScanStart, ScanStep, ScanRestart, ScanAdvance, ScanFinal, Stopped,
         scan_vars
<1>3. QED
  BY <1>1, <1>2 DEF scan_vars

LEMMA ScanDriven == DelaysHaveDt => (ScanSpec => []DrivenInv /\ []PostOutputsInv)
<1> SUFFICES ASSUME DelaysHaveDt PROVE ScanSpec => []DrivenInv /\ []PostOutputsInv
  OBVIOUS
<1>1. PostSpec => []DrivenInv /\ []PostOutputsInv
  BY DrivenInvariant, PostOutputsInvariant
<1>2. QED
  BY <1>1, ScanIsPost, PTL DEF ScanSpec, PostSpec

SamplersOK(s) ==
  /\ DOMAIN s = {"lidar", "spinner", "radar", "written"}
  /\ DOMAIN s.radar = {"clock", "current_cones", "prior_cones", "los", "los_next", "los_prior"}

(* One sampling: where each instrument has been moved to.                  *)
Moved(s, w, new, cur, start) ==
  /\ w.lidar = IF Has("lidar") THEN LidarAt(cur) ELSE NoBeams
  /\ w.spinner \in IF Has("spinner") THEN SpinnerUpdates(s.spinner, new) ELSE {s.spinner}
  /\ Has("radar") => \E ra \in RadarUpdates(s.radar, cur, start) :
                       w.radar.clock = ra.clock /\ w.radar.current_cones = ra.current_cones
  /\ ~Has("radar") => w.radar.current_cones = s.radar.current_cones

(* What the radar keeps of it.                                             *)
Kept(s, w, new) ==
  /\ w.radar.prior_cones = w.radar.current_cones
  /\ Has("radar") =>
       /\ w.radar.los_prior.beams = w.radar.current_cones
       /\ w.radar.los_prior.at = new

(* What it has written: the line of sight of the last output, and of the   *)
(* same cones now.                                                         *)
Written(s, w, new) ==
  Has("radar") =>
    /\ w.written[1] = s.radar.los_prior
    /\ w.written[2].beams = s.radar.prior_cones
    /\ w.written[2].at = new

LEMMA RadarUpdateParts ==
  ASSUME NEW s, SamplersOK(s), NEW cur, NEW start, NEW ra \in RadarUpdates(s.radar, cur, start)
  PROVE  /\ DOMAIN ra = DOMAIN s.radar
         /\ ra.prior_cones = s.radar.prior_cones
         /\ ra.los_prior = s.radar.los_prior
BY DEF RadarUpdates, SamplersOK

LEMMA InstrumentsReplaced ==
  ASSUME NEW s, SamplersOK(s), NEW l, NEW p, NEW r
  PROVE  LET w == [s EXCEPT !.lidar = l, !.spinner = p, !.radar = r]
         IN  DOMAIN w = DOMAIN s /\ w.lidar = l /\ w.spinner = p /\ w.radar = r
<1> DEFINE a == [s EXCEPT !.lidar = l]
           b == [a EXCEPT !.spinner = p]
           w == [b EXCEPT !.radar = r]
<1>1. DOMAIN a = DOMAIN s /\ a.lidar = l
  BY DEF SamplersOK
<1>2. DOMAIN b = DOMAIN a /\ b.lidar = a.lidar /\ b.spinner = p
  <2> HIDE DEF a
  <2>1. QED
    BY <1>1 DEF SamplersOK
<1>3. DOMAIN w = DOMAIN b /\ w.lidar = b.lidar /\ w.spinner = b.spinner /\ w.radar = r
  <2> HIDE DEF a, b
  <2>1. QED
    BY <1>1, <1>2 DEF SamplersOK
<1>4. [s EXCEPT !.lidar = l, !.spinner = p, !.radar = r] = w
  BY Zenon
<1> HIDE DEF a, b, w
<1>5. QED
  BY <1>1, <1>2, <1>3, <1>4

LEMMA WorkflowParts ==
  ASSUME NEW s, SamplersOK(s), NEW new, NEW cur, NEW start,
         NEW w \in SamplingWorkflow(s, new, cur, start)
  PROVE  /\ SamplersOK(w)
         /\ Moved(s, w, new, cur, start)
         /\ w.radar.prior_cones = s.radar.prior_cones
         /\ w.radar.los_prior = s.radar.los_prior
         /\ Has("radar") =>
              /\ w.radar.los.beams = s.radar.prior_cones /\ w.radar.los.at = new
              /\ w.radar.los_next.beams = w.radar.current_cones /\ w.radar.los_next.at = new
<1> DEFINE l == IF Has("lidar") THEN LidarAt(cur) ELSE NoBeams
           R(ra) == IF Has("radar") THEN ConvertVelocity(ra, new) ELSE s.radar
<1>1. PICK sp \in IF Has("spinner") THEN SpinnerUpdates(s.spinner, new) ELSE {s.spinner},
           ra \in IF Has("radar") THEN RadarUpdates(s.radar, cur, start) ELSE {s.radar} :
        w = Sampled(s, sp, ra, new, cur)
  BY DEF SamplingWorkflow
<1> DEFINE r == R(ra)
<1>2. DOMAIN w = DOMAIN s /\ w.lidar = l /\ w.spinner = sp /\ w.radar = r
  <2>1. w = [s EXCEPT !.lidar = l, !.spinner = sp, !.radar = r]
    BY <1>1, Zenon DEF Sampled
  <2> HIDE DEF l, r
  <2>2. QED
    BY <2>1, InstrumentsReplaced
<1>3. CASE Has("radar")
  <2>1. /\ ra \in RadarUpdates(s.radar, cur, start) /\ DOMAIN ra = DOMAIN s.radar
        /\ ra.prior_cones = s.radar.prior_cones /\ ra.los_prior = s.radar.los_prior
    BY <1>3, RadarUpdateParts
  <2>2. /\ DOMAIN w.radar = DOMAIN s.radar
        /\ w.radar.clock = ra.clock /\ w.radar.current_cones = ra.current_cones
        /\ w.radar.prior_cones = ra.prior_cones /\ w.radar.los_prior = ra.los_prior
        /\ w.radar.los = LineOfSight(ra.prior_cones, ra, new)
        /\ w.radar.los_next = LineOfSight(ra.current_cones, ra, new)
    BY <1>2, <1>3, <2>1 DEF ConvertVelocity, SamplersOK
  <2>3. QED
    BY <1>2, <1>3, <2>1, <2>2 DEF SamplersOK, Moved, LineOfSight
<1>4. CASE ~Has("radar")
  BY <1>2, <1>4 DEF SamplersOK, Moved
<1>5. QED
  BY <1>3, <1>4

LEMMA SamplingPostParts ==
  ASSUME NEW s, SamplersOK(s)
  PROVE  LET w == SamplingPost(s)
         IN  /\ SamplersOK(w)
             /\ w.lidar = s.lidar /\ w.spinner = s.spinner /\ w.written = s.written
             /\ w.radar.clock = s.radar.clock
             /\ w.radar.current_cones = s.radar.current_cones
             /\ w.radar.prior_cones = s.radar.current_cones
             /\ w.radar.los_prior = s.radar.los_next
BY DEF SamplersOK, SamplingPost, PostSampleActions

LEMMA ProcessOutputParts ==
  ASSUME NEW s, SamplersOK(s)
  PROVE  LET w == ProcessOutput(s)
         IN  /\ SamplersOK(w)
             /\ w.lidar = s.lidar /\ w.spinner = s.spinner /\ w.radar = s.radar
             /\ w.written[1] = s.radar.los_prior /\ w.written[2] = s.radar.los
BY DEF SamplersOK, ProcessOutput

LEMMA SampleOutputParts ==
  ASSUME NEW s, SamplersOK(s), NEW new, NEW cur, NEW start,
         NEW w \in SampleOutput(s, new, cur, start)
  PROVE  SamplersOK(w) /\ Moved(s, w, new, cur, start) /\ Kept(s, w, new) /\ Written(s, w, new)
<1>1. PICK v \in SamplingWorkflow(s, new, cur, start) : w = SamplingPost(ProcessOutput(v))
  BY DEF SampleOutput
<1>2. /\ SamplersOK(v) /\ Moved(s, v, new, cur, start)
      /\ v.radar.los_prior = s.radar.los_prior
      /\ Has("radar") =>
           /\ v.radar.los.beams = s.radar.prior_cones /\ v.radar.los.at = new
           /\ v.radar.los_next.beams = v.radar.current_cones /\ v.radar.los_next.at = new
  BY WorkflowParts
<1> DEFINE u == ProcessOutput(v)
<1>3. /\ SamplersOK(u)
      /\ u.lidar = v.lidar /\ u.spinner = v.spinner /\ u.radar = v.radar
      /\ u.written[1] = v.radar.los_prior /\ u.written[2] = v.radar.los
  BY <1>2, ProcessOutputParts
<1>4. w = SamplingPost(u)
  BY <1>1
<1> HIDE DEF u
<1>5. /\ SamplersOK(w)
      /\ w.lidar = u.lidar /\ w.spinner = u.spinner /\ w.written = u.written
      /\ w.radar.clock = u.radar.clock /\ w.radar.current_cones = u.radar.current_cones
      /\ w.radar.prior_cones = u.radar.current_cones /\ w.radar.los_prior = u.radar.los_next
  BY <1>3, <1>4, SamplingPostParts
<1>6. QED
  BY <1>2, <1>3, <1>5 DEF Moved, Kept, Written

LEMMA FreshParts ==
  ASSUME NEW new, NEW s \in Fresh(new)
  PROVE  /\ SamplersOK(s)
         /\ s.lidar = NoBeams /\ s.spinner = SpinnerAtStart(new)
         /\ s.radar.current_cones = NoBeams /\ s.radar.prior_cones = NoBeams
BY DEF Fresh, SamplersOK, RadarAtStart

(* What initialize makes of new samplers, with the first sampling of       *)
(* restart_sample.                                                         *)
LEMMA InitializeParts ==
  ASSUME NEW new, NEW w \in InitializeSampling(new)
  PROVE  /\ SamplersOK(w)
         /\ \/ w \in Fresh(new)
            \/ /\ instr.restart_sample
               /\ \E s \in Fresh(new) :
                    Moved(s, w, new, new, new) /\ w.radar.prior_cones = w.radar.current_cones
<1>1. CASE instr.restart_sample
  <2>1. PICK s \in Fresh(new) : \E v \in SamplingWorkflow(s, new, new, new) : w = SamplingPost(v)
    BY <1>1 DEF InitializeSampling
  <2>0. PICK v \in SamplingWorkflow(s, new, new, new) : w = SamplingPost(v)
    BY <2>1
  <2>2. SamplersOK(s)
    BY FreshParts
  <2>3. SamplersOK(v) /\ Moved(s, v, new, new, new)
    BY <2>2, WorkflowParts
  <2>4. /\ SamplersOK(w) /\ w.lidar = v.lidar /\ w.spinner = v.spinner
        /\ w.radar.clock = v.radar.clock /\ w.radar.current_cones = v.radar.current_cones
        /\ w.radar.prior_cones = v.radar.current_cones
    BY <2>0, <2>3, SamplingPostParts
  <2>5. Moved(s, w, new, new, new)
    BY <2>3, <2>4 DEF Moved
  <2>6. QED
    BY <1>1, <2>4, <2>5
<1>2. CASE ~instr.restart_sample
  BY <1>2, FreshParts DEF InitializeSampling
<1>3. QED
  BY <1>1, <1>2

LEMMA SetUpParts ==
  ASSUME NEW due, NEW new, NEW w \in SetUp(due, new)
  PROVE  /\ ~due => w \in InitializeSampling(new)
         /\ due => \E s \in InitializeSampling(new) :
                     /\ SamplersOK(s) /\ SamplersOK(w)
                     /\ Moved(s, w, new, new, new) /\ Kept(s, w, new)
<1>1. CASE due
  <2>1. PICK s \in InitializeSampling(new) : w \in SampleOutput(s, new, new, new)
    BY <1>1 DEF SetUp
  <2>2. SamplersOK(s)
    BY InitializeParts
  <2>3. QED
    BY <1>1, <2>1, <2>2, SampleOutputParts
<1>2. CASE ~due
  BY <1>2 DEF SetUp
<1>3. QED
  BY <1>1, <1>2

(* A step of the samplers: they are set up, left alone, or sampled at an   *)
(* output.                                                                 *)
SettingUp(new) ==
  /\ stage = "init" /\ stage' \in {"init_out", "top", "abort"}
  /\ new \in Int /\ new_time' = new /\ start_time' = new
  /\ EveryStep => post_out'.count > post_out.count
  /\ post_out'.count > post_out.count => post_out'.time = new
  /\ samplers' \in SetUp(post_out'.count > post_out.count, new)

Resting ==
  /\ UNCHANGED << samplers, post_out, start_time >>
  /\ stage \in {"init", "abort"} => stage' \in {"init", "abort"}
  /\ EveryStep => Reached' = Reached

Sampling ==
  /\ stage \in {"post", "done"} /\ (EveryStep => stage = "post")
  /\ start_time' = start_time /\ Reached' = new_time
  /\ post_out'.time = new_time /\ post_out'.count = post_out.count + 1
  /\ samplers' \in SampleOutput(samplers, new_time, cur_time, start_time)

LEMMA EveryStepDue ==
  ASSUME PostTypeOK, EveryStep, NEW n \in Nat, NEW n0 \in Int, NEW t, NEW t0, NEW d
  PROVE  DoOutputNow(n, n0, t, t0, d)
<1>1. n - IndexOrigin(n0) \in Int /\ post.delay \in Int
  BY OriginTypes, PostTypes
<1>2. \A x \in Int : x % 1 = 0
  OBVIOUS
<1>3. StepBasedOutput(n, n0)
  BY <1>1, <1>2 DEF StepBasedOutput, EveryStep
<1>4. QED
  BY <1>3 DEF DoOutputNow

LEMMA ScanSteps ==
  ASSUME DrivenInv, PostOutputsInv, [ScanNext]_scan_vars
  PROVE  /\ instr' = instr /\ post' = post
         /\ (\E new : SettingUp(new)) \/ Resting \/ Sampling
<1>0. /\ TypeOK /\ LoopInv /\ PostTypeOK /\ post_out \in [index : Int, time : Int, count : Nat]
      /\ time_index \in Nat /\ start_index \in Int /\ new_time \in Int
  BY DEF DrivenInv, PostTypeOK, OutputsInv, TypeOK, ClockTypeOK
<1>d. EveryStep => OutputDue
  BY <1>0, EveryStepDue DEF OutputDue
<1>p. post' = post
  BY <1>0, ScanIsPost, PostSteps
<1>1. ASSUME NEW c \in CflDts, ScanStart(c)
      PROVE  instr' = instr /\ SettingUp(new_time)
  <2>1. /\ stage = "init" /\ stage' \in {"init_out", "abort"} /\ PostInitActions
        /\ new_time' = new_time /\ start_time' = start_time
    BY <1>1, PostStartStarted DEF ScanStart, Started
  <2>2. start_time = new_time
    BY <1>0, <2>1 DEF LoopInv
  <2>3. OutputDue = (post_out'.count > post_out.count)
        /\ (OutputDue => post_out'.time = new_time)
    BY <1>0, <2>1 DEF PostInitActions, OutputActions, OutputDue, DoOutputNow
  <2>4. QED
    BY <1>0, <1>1, <1>d, <2>1, <2>2, <2>3 DEF ScanStart, SettingUp
<1>2. ASSUME NEW c \in CflDts, ScanStep(c)
      PROVE  instr' = instr /\ Resting
  <2>1. Quiet
    BY <1>0, <1>2, PostStepQuiet DEF ScanStep
  <2>2. QED
    BY <1>2, <2>1 DEF ScanStep, Quiet, Resting
<1>3. ASSUME NEW chk \in Checkpoints, ScanRestart(chk)
      PROVE  instr' = instr /\ SettingUp(chk.time)
  <2>1. chk.time_index \in Nat /\ chk.time \in Int
    BY DEF Header
  <2>2. stage = "init" /\ stage' = "top" /\ new_time' = chk.time /\ start_time' = chk.time
    BY <1>3 DEF ScanRestart, PostRestart, ReadCheckpointFile, SetRestartTime
  <2>3. EveryStep => DoOutputNow(chk.time_index, chk.time_index, chk.time, chk.time, dt[0])
    BY <1>0, <2>1, EveryStepDue
  <2>4. /\ EveryStep => post_out'.count > post_out.count
        /\ post_out'.count > post_out.count => post_out'.time = chk.time
    BY <1>0, <1>3, <2>3 DEF ScanRestart, PostRestart, OutputActions
  <2>5. QED
    BY <1>3, <2>1, <2>2, <2>4 DEF ScanRestart, SettingUp
<1>4. CASE ScanAdvance
  <2>1. stage = "post" /\ stage' = "top" /\ UNCHANGED << new_time, start_time >>
    BY <1>4 DEF ScanAdvance, PostAdvance, PostAdvanceWork, clock_vars
  <2>2. CASE OutputDue
    BY <1>4, <2>1, <2>2
       DEF ScanAdvance, ScanIfOutput, PostAdvance, OutputActions, Sampling, Reached
  <2>3. CASE ~OutputDue
    BY <1>4, <1>d, <2>1, <2>3 DEF ScanAdvance, ScanIfOutput, PostAdvance, Resting
  <2>4. QED
    BY <1>4, <1>p, <2>2, <2>3 DEF ScanAdvance, ScanIfOutput
<1>5. CASE ScanFinal
  <2>1. stage = "done" /\ stage' = "final" /\ UNCHANGED << new_time, start_time >>
    BY <1>5 DEF ScanFinal, PostFinal, OutputAtFinalTime, clock_vars
  <2>2. CASE FinalDue
    <3>1. ~EveryStep
      BY <1>d, <2>2 DEF FinalDue
    <3>2. QED
      BY <1>5, <2>1, <2>2, <3>1
         DEF ScanFinal, ScanIfOutput, PostFinal, OutputActions, Sampling, Reached
  <2>3. CASE ~FinalDue
    BY <1>5, <2>1, <2>3 DEF ScanFinal, ScanIfOutput, PostFinal, Resting, Reached
  <2>4. QED
    BY <1>5, <1>p, <2>2, <2>3 DEF ScanFinal, ScanIfOutput
<1>6. CASE UNCHANGED scan_vars
  BY <1>6 DEF scan_vars, post_vars, evolve_vars, clock_vars, Resting, Reached
<1>7. QED
  BY <1>1, <1>2, <1>3, <1>4, <1>5, <1>6, <1>p DEF ScanNext

LEMMA InitScanTypeOK == ScanInit => ScanTypeOK
BY FreshParts DEF ScanInit, ScanTypeOK, SamplersOK

LEMMA NextScanTypeOK ==
  ASSUME DrivenInv, PostOutputsInv, ScanTypeOK, [ScanNext]_scan_vars
  PROVE  ScanTypeOK'
<1>1. ASSUME NEW new, SettingUp(new)
      PROVE  SamplersOK(samplers')
  <2> DEFINE due == post_out'.count > post_out.count
  <2>1. samplers' \in SetUp(due, new)
    BY <1>1 DEF SettingUp
  <2> HIDE DEF due
  <2>2. QED
    BY <2>1, SetUpParts, InitializeParts
<1>2. ASSUME Resting PROVE SamplersOK(samplers')
  BY <1>2 DEF Resting, ScanTypeOK, SamplersOK
<1>3. ASSUME Sampling PROVE SamplersOK(samplers')
  <2>1. SamplersOK(samplers)
    BY DEF ScanTypeOK, SamplersOK
  <2>2. QED
    BY <1>3, <2>1, SampleOutputParts DEF Sampling
<1>4. instr' = instr /\ SamplersOK(samplers')
  BY <1>1, <1>2, <1>3, ScanSteps
<1>5. QED
  BY <1>4 DEF ScanTypeOK, SamplersOK

LEMMA NextCones ==
  ASSUME DrivenInv, PostOutputsInv, ScanTypeOK, ConesInv, [ScanNext]_scan_vars
  PROVE  ConesInv'
<1>1. post_out.count \in Nat /\ post_out'.count \in Nat /\ instr' = instr
      /\ (stage = "init" => post_out.count = 0)
  <2>1. PostTypeOK /\ PostTypeOK'
    BY ScanIsPost, NextPostTypeOK DEF DrivenInv
  <2>2. QED
    BY <2>1, ScanSteps DEF PostTypeOK, PostOutputsInv
<1>2. ASSUME NEW new, SettingUp(new)
      PROVE  ConesInv'
  <2>1. CASE post_out'.count > post_out.count
    <3>1. PICK s \in InitializeSampling(new) : Kept(s, samplers', new)
      BY <1>2, <2>1, SetUpParts DEF SettingUp
    <3>2. QED
      BY <1>1, <1>2, <2>1, <3>1 DEF SettingUp, ConesInv, Kept, Has
  <2>2. CASE ~(post_out'.count > post_out.count)
    BY <1>1, <1>2, <2>2 DEF SettingUp, ConesInv
  <2>3. QED
    BY <2>1, <2>2
<1>3. CASE Resting
  BY <1>1, <1>3 DEF Resting, ConesInv, Has
<1>4. CASE Sampling
  <2>1. Kept(samplers, samplers', new_time)
    BY <1>4, SampleOutputParts DEF Sampling, ScanTypeOK, SamplersOK
  <2>2. QED
    BY <1>1, <1>4, <2>1 DEF Sampling, ConesInv, Kept, Has
<1>5. QED
  BY <1>2, <1>3, <1>4, ScanSteps

LEMMA ConesTwice ==
  ASSUME DrivenInv, PostOutputsInv, ScanTypeOK, ConesInv, [ScanNext]_scan_vars,
         Has("radar"), post_out.count > 0, post_out'.count > post_out.count
  PROVE  /\ samplers'.written[1].beams = samplers'.written[2].beams
         /\ samplers'.written[1].at = post_out.time
         /\ samplers'.written[2].at = post_out'.time
<1>1. Sampling
  <2>1. post_out.count \in Nat
    BY DEF DrivenInv, PostTypeOK
  <2>2. ~Resting /\ stage # "init"
    BY <2>1 DEF Resting, PostOutputsInv
  <2>3. QED
    BY <2>2, ScanSteps DEF SettingUp
<1>2. Written(samplers, samplers', new_time)
  BY <1>1, SampleOutputParts DEF Sampling, ScanTypeOK, SamplersOK
<1>3. QED
  BY <1>1, <1>2 DEF Sampling, Written, ConesInv

(* The two lines of sight the radar interpolates between are always of the *)
(* same cones, at the times of the last output and of this one.            *)
THEOREM RadarConesAreSeenTwice == DelaysHaveDt => (ScanSpec => ConesSeenTwice)
<1> SUFFICES ASSUME DelaysHaveDt PROVE ScanSpec => ConesSeenTwice
  OBVIOUS
<1> DEFINE Twice == Has("radar") /\ post_out.count > 0 /\ post_out'.count > post_out.count
                    => LET then == samplers'.written[1]
                           now  == samplers'.written[2]
                       IN  /\ then.beams = now.beams
                           /\ then.at = post_out.time
                           /\ now.at = post_out'.time
<1>1. DrivenInv /\ PostOutputsInv /\ ScanTypeOK /\ ConesInv /\ [ScanNext]_scan_vars
      => [Twice]_scan_vars
  BY ConesTwice
<1>2. DrivenInv /\ PostOutputsInv /\ ScanTypeOK /\ ConesInv /\ [ScanNext]_scan_vars
      => ScanTypeOK' /\ ConesInv'
  BY NextScanTypeOK, NextCones
<1>3. ScanInit => ScanTypeOK /\ ConesInv
  <2>1. ScanInit => post_out.count = 0
    BY DEF ScanInit, PostInit
  <2>2. QED
    BY <2>1, InitScanTypeOK DEF ConesInv
<1>4. ScanSpec => []DrivenInv /\ []PostOutputsInv
  BY ScanDriven
<1>5. QED
  BY <1>1, <1>2, <1>3, <1>4, PTL DEF ScanSpec, ConesSeenTwice

-----------------------------------------------------------------------------
(* Instruments that keep pace. *)

Near(beams, t, behind, ahead) ==
  \A k \in DOMAIN beams : beams[k] # Outside => beams[k] \in (t - behind) .. (t + ahead)

(* The samplers s after an output at time t: PaceInv and what is wanted of *)
(* their beams.                                                            *)
AtPace(s, t) ==
  /\ Has("spinner") =>
       s.spinner.clock \in (t + dt[0] - 2 * instr.period) .. (t + StartSamples * dt[0])
  /\ ~Has("spinner") => s.spinner.beams = NoBeams
  /\ ~Has("radar") => s.radar.current_cones = NoBeams
  /\ Near(s.lidar, t, dt[0], 0)
  /\ Near(s.spinner.beams, t, 2 * instr.period, StartSamples * dt[0])
  /\ Near(s.radar.prior_cones, t, dt[0] + 2 * instr.period, dt[0])

RadarAtPace(s, t) ==
  Has("radar") => s.radar.clock \in (t - 2 * instr.period) .. t

Paced == PaceInv /\ InstrumentsKeepPace

LEMMA PacedParts ==
  Paced <=>
    (EveryStep /\ EqualSteps /\ stage \notin {"init", "abort"} =>
       /\ post_out.time = Reached
       /\ AtPace(samplers, post_out.time)
       /\ post_out.time > start_time => RadarAtPace(samplers, post_out.time))
BY DEF Paced, PaceInv, InstrumentsKeepPace, AtPace, RadarAtPace, Near, BeamsAreRecent

(* A step and a sample period of instruments in use. *)
Scans == /\ instr.period \in Int /\ instr.period >= 1
         /\ instr.rounded \in Int /\ instr.restart_sample \in BOOLEAN
         /\ dt[0] \in Int /\ dt[0] >= 1

LEMMA BeamsOfStep ==
  ASSUME Scans, NEW lag \in Int, NEW c \in TimeCorrections(lag)
  PROVE  LET n == BeamsTaken(c)
             p == instr.period
             d == dt[0]
         IN  /\ n \in Int /\ n * p \in Int /\ n * p <= d + p
             /\ lag <= 2 * p => lag + d - (n * p) <= 2 * p
             /\ lag >= 0 => lag + d - (n * p) >= 0
             /\ lag < 0 => lag + d - (n * p) >= lag
<1> DEFINE n == BeamsTaken(c)
           p == instr.period
           d == dt[0]
           q == d \div p
           r == d % p
           u == lag \div p
           v == lag % p
           e == IF WholeRatio /\ instr.rounded < 0 THEN 1 ELSE 0
           f == IF WholeRatio /\ instr.rounded <= 0 THEN 0 ELSE 1
<1>1. p \in Int /\ p >= 1 /\ d \in Int /\ d >= 1 /\ p > 0
  BY DEF Scans
<1>2. /\ q \in Int /\ r \in Int /\ d = (p * q) + r /\ 0 <= r /\ r < p
      /\ u \in Int /\ v \in Int /\ lag = (p * u) + v /\ 0 <= v /\ v < p
  <2> HIDE DEF p, d
  <2>1. QED
    BY <1>1, RemainderRange, QuotientRemainder
<1>3. /\ e \in {0, 1} /\ (e = 1 => r = 0)
      /\ f \in {0, 1} /\ (f = 0 => r = 0)
  BY DEF WholeRatio
<1>4. /\ lag <= 0 => c = 0
      /\ lag > 0 => c = u \/ (c = u - 1 /\ v = 0)
  BY DEF TimeCorrections
<1>5. n = Min2(q - e + c, q + f)
  BY DEF BeamsTaken, SamplesPerStep, SlotsPerStep
<1> HIDE DEF n, p, d, q, r, u, v, e, f
<1>6. c \in Int
  BY <1>2, <1>4
<1>7. n \in Int /\ (n = q - e + c \/ n = q + f) /\ n <= q - e + c /\ n <= q + f
  BY <1>2, <1>3, <1>5, <1>6 DEF Min2
<1>8. /\ n * p \in Int /\ n * p <= d + p
      /\ lag <= 2 * p => lag + d - (n * p) <= 2 * p
      /\ lag >= 0 => lag + d - (n * p) >= 0
      /\ lag < 0 => lag + d - (n * p) >= lag
  BY <1>1, <1>2, <1>3, <1>4, <1>6, <1>7, SamplesInStep
<1>9. QED
  BY <1>7, <1>8 DEF n, p, d

LEMMA BeamsNear ==
  ASSUME Scans, NEW from \in Int, NEW n \in Int, n * instr.period <= dt[0] + instr.period,
         NEW t \in Int, NEW behind \in Int, NEW ahead \in Int,
         t - behind <= from, from + dt[0] <= t + ahead
  PROVE  Near(Beams(from, n), t, behind, ahead)
<1> DEFINE p == instr.period
           d == dt[0]
<1>1. p \in Int /\ p >= 1 /\ d \in Int /\ n * p <= d + p /\ from + d <= t + ahead
  BY DEF Scans
<1>2. SlotsPerStep \in Int
  <2>1. d \div p \in Int
    <3> HIDE DEF p, d
    <3>1. p > 0
      BY <1>1
    <3>2. QED
      BY <1>1, <3>1, QuotientRemainder
  <2>2. QED
    BY <2>1 DEF SlotsPerStep
<1> SUFFICES ASSUME NEW k \in 1..SlotsPerStep, Beams(from, n)[k] # Outside
             PROVE  Beams(from, n)[k] \in (t - behind) .. (t + ahead)
  BY DEF Near, Beams
<1>3. k \in Int /\ 1 <= k /\ k <= n /\ Beams(from, n)[k] = from + ((k - 1) * p)
  <2>1. k \in Int /\ 1 <= k
    BY <1>2
  <2>2. Beams(from, n)[k] = IF k <= n THEN from + ((k - 1) * p) ELSE Outside
    BY DEF Beams
  <2>3. QED
    BY <2>1, <2>2
<1> HIDE DEF p, d
<1>4. (k - 1) * p \in Int /\ 0 <= (k - 1) * p /\ (k - 1) * p <= d
  BY <1>1, <1>3, SampleTime
<1> DEFINE x == (k - 1) * p
<1>5. x \in Int /\ 0 <= x /\ x <= d /\ Beams(from, n)[k] = from + x
  BY <1>3, <1>4
<1> HIDE DEF x
<1>6. QED
  BY <1>1, <1>5

LEMMA SpinnerPace ==
  ASSUME Scans, NEW s, NEW new \in Int, NEW a \in Int, a >= 0,
         s.clock \in (new - 2 * instr.period) .. (new + a), NEW w \in SpinnerUpdates(s, new)
  PROVE  /\ w.clock \in (new + dt[0] - 2 * instr.period) .. (new + dt[0] + a)
         /\ Near(w.beams, new, 2 * instr.period, dt[0] + a)
<1>1. PICK c \in TimeCorrections(new - s.clock) :
        /\ w.clock = s.clock + BeamsTaken(c) * instr.period
        /\ w.beams = Beams(s.clock, BeamsTaken(c))
  BY DEF SpinnerUpdates
<1> DEFINE n == BeamsTaken(c)
           p == instr.period
           d == dt[0]
           lag == new - s.clock
           x == n * p
<1>2. p \in Int /\ p >= 1 /\ d \in Int /\ d >= 1 /\ lag \in Int /\ s.clock \in Int
      /\ s.clock = new - lag /\ lag <= 2 * p /\ lag >= -a
  BY DEF Scans
<1>3. /\ n \in Int /\ x \in Int /\ x <= d + p
      /\ lag + d - x <= 2 * p
      /\ lag >= 0 => lag + d - x >= 0
      /\ lag < 0 => lag + d - x >= lag
  BY <1>1, <1>2, BeamsOfStep
<1>4. Near(Beams(s.clock, n), new, 2 * p, d + a)
  <2>1. 2 * p \in Int /\ d + a \in Int /\ new - 2 * p <= s.clock /\ s.clock + d <= new + (d + a)
    BY <1>2
  <2>2. QED
    BY <1>2, <1>3, <2>1, BeamsNear
<1>5. w.clock = s.clock + x
  BY <1>1
<1> HIDE DEF n, p, d, lag, x
<1>6. w.clock \in (new + d - 2 * p) .. (new + d + a)
  BY <1>2, <1>3, <1>5
<1>7. QED
  BY <1>1, <1>4, <1>6 DEF n, p, d

LEMMA RadarPace ==
  ASSUME Scans, NEW r, NEW cur \in Int, NEW start \in Int,
         cur # start => r.clock \in (cur - 2 * instr.period) .. cur,
         NEW w \in RadarUpdates(r, cur, start),
         DOMAIN r = {"clock", "current_cones", "prior_cones", "los", "los_next", "los_prior"}
  PROVE  /\ w.clock \in (cur + dt[0] - 2 * instr.period) .. (cur + dt[0])
         /\ Near(w.current_cones, cur, 2 * instr.period, dt[0])
<1> DEFINE from == IF cur = start THEN cur ELSE r.clock
<1>1. PICK c \in TimeCorrections(cur - from) :
        /\ w.clock = from + BeamsTaken(c) * instr.period
        /\ w.current_cones = Beams(from, BeamsTaken(c))
  BY DEF RadarUpdates
<1> DEFINE n == BeamsTaken(c)
           p == instr.period
           d == dt[0]
           lag == cur - from
           x == n * p
<1>2. p \in Int /\ p >= 1 /\ d \in Int /\ d >= 1 /\ lag \in Int /\ from \in Int
      /\ from = cur - lag /\ lag <= 2 * p /\ lag >= 0
  BY DEF Scans
<1> HIDE DEF from
<1>3. /\ n \in Int /\ x \in Int /\ x <= d + p
      /\ lag + d - x <= 2 * p
      /\ lag >= 0 => lag + d - x >= 0
  BY <1>1, <1>2, BeamsOfStep
<1>4. Near(Beams(from, n), cur, 2 * p, d)
  <2>1. 2 * p \in Int /\ cur - 2 * p <= from /\ from + d <= cur + d
    BY <1>2
  <2>2. QED
    BY <1>2, <1>3, <2>1, BeamsNear
<1>5. w.clock = from + x
  BY <1>1
<1> HIDE DEF n, p, d, lag, x
<1>6. w.clock \in (cur + d - 2 * p) .. (cur + d)
  BY <1>2, <1>3, <1>5
<1>7. QED
  BY <1>1, <1>4, <1>6 DEF n, p, d

LEMMA NearWider ==
  ASSUME NEW beams, NEW t \in Int, NEW behind \in Int, NEW ahead \in Int,
         NEW u \in Int, NEW back \in Int, NEW on \in Int,
         Near(beams, t, behind, ahead), u - back <= t - behind, t + ahead <= u + on
  PROVE  Near(beams, u, back, on)
<1> SUFFICES ASSUME NEW k \in DOMAIN beams, beams[k] # Outside
             PROVE  beams[k] \in (u - back) .. (u + on)
  BY DEF Near
<1>1. beams[k] \in (t - behind) .. (t + ahead)
  BY DEF Near
<1>2. QED
  BY <1>1

LEMMA LidarNear ==
  ASSUME NEW t \in Int, NEW d \in Int, d >= 0
  PROVE  Near(LidarAt(t), t, d, 0) /\ Near(LidarAt(t), t + d, d, 0)
BY DEF Near, LidarAt

LEMMA NothingNear == \A t, x, y : Near(NoBeams, t, x, y)
BY DEF Near, NoBeams

(* How much of a step an instrument may be ahead.                          *)
LEMMA StartAhead ==
  ASSUME Scans
  PROVE  /\ StartSamples * dt[0] = IF instr.restart_sample THEN dt[0] + dt[0] ELSE dt[0]
         /\ StartSamples * dt[0] \in Int
BY DEF Scans, StartSamples

(* A radar that has been moved looks at beams near the time it was moved   *)
(* at.                                                                     *)
LEMMA RadarMoved ==
  ASSUME Scans, Has("radar"), NEW s, SamplersOK(s), NEW cur \in Int, NEW start \in Int,
         cur # start => RadarAtPace(s, cur),
         NEW new, NEW w, Moved(s, w, new, cur, start)
  PROVE  /\ w.radar.clock \in (cur + dt[0] - 2 * instr.period) .. (cur + dt[0])
         /\ Near(w.radar.current_cones, cur, 2 * instr.period, dt[0])
<1>1. PICK ra \in RadarUpdates(s.radar, cur, start) :
        w.radar.clock = ra.clock /\ w.radar.current_cones = ra.current_cones
  BY DEF Moved
<1>2. cur # start => s.radar.clock \in (cur - 2 * instr.period) .. cur
  BY DEF RadarAtPace
<1>3. QED
  BY <1>1, <1>2, RadarPace DEF SamplersOK

(* An output keeps the pace.                                               *)
LEMMA OutputPace ==
  ASSUME Scans, NEW s, SamplersOK(s), NEW t \in Int, NEW start \in Int, start <= t,
         AtPace(s, t), t > start => RadarAtPace(s, t),
         NEW w, Moved(s, w, t + dt[0], t, start), w.radar.prior_cones = w.radar.current_cones
  PROVE  AtPace(w, t + dt[0]) /\ RadarAtPace(w, t + dt[0])
<1> DEFINE d == dt[0]
           p == instr.period
           a == IF instr.restart_sample THEN d ELSE 0
           new == t + d
<1>1. /\ p \in Int /\ p >= 1 /\ d \in Int /\ d >= 1 /\ new \in Int
      /\ a \in Int /\ a >= 0 /\ StartSamples * dt[0] = d + a
  BY StartAhead DEF Scans
<1>4. /\ Has("spinner") =>
           w.spinner.clock \in (new + dt[0] - 2 * instr.period) .. (new + StartSamples * dt[0])
      /\ ~Has("spinner") => w.spinner.beams = NoBeams
      /\ Near(w.spinner.beams, new, 2 * instr.period, StartSamples * dt[0])
  <2>1. CASE Has("spinner")
    <3>1. s.spinner.clock \in (t + d - 2 * p) .. (t + (d + a))
      BY <1>1, <2>1 DEF AtPace
    <3>2. s.spinner.clock \in (new - 2 * instr.period) .. (new + a)
      BY <1>1, <3>1
    <3>3. w.spinner \in SpinnerUpdates(s.spinner, new)
      BY <2>1 DEF Moved
    <3>4. /\ w.spinner.clock \in (new + d - 2 * p) .. (new + d + a)
          /\ Near(w.spinner.beams, new, 2 * p, d + a)
      BY <1>1, <3>2, <3>3, SpinnerPace
    <3>5. new + d + a = new + (d + a)
      BY <1>1
    <3>6. QED
      BY <1>1, <2>1, <3>4, <3>5
  <2>2. CASE ~Has("spinner")
    BY <2>2, NothingNear DEF Moved, AtPace
  <2>3. QED
    BY <2>1, <2>2
<1>5. /\ Near(w.radar.prior_cones, new, d + 2 * p, d)
      /\ RadarAtPace(w, new)
      /\ ~Has("radar") => w.radar.current_cones = NoBeams
  <2>1. CASE Has("radar")
    <3>1. t # start => RadarAtPace(s, t)
      OBVIOUS
    <3>2. /\ w.radar.clock \in (t + d - 2 * p) .. (t + d)
          /\ Near(w.radar.current_cones, t, 2 * p, d)
      BY <2>1, <3>1, RadarMoved
    <3>3. RadarAtPace(w, new)
      <4>1. w.radar.clock \in (new - 2 * p) .. new
        BY <1>1, <3>2
      <4> HIDE DEF new
      <4>2. QED
        BY <4>1 DEF RadarAtPace
    <3>4. /\ 2 * p \in Int /\ d + 2 * p \in Int
          /\ new - (d + 2 * p) <= t - 2 * p /\ t + d <= new + d
      BY <1>1
    <3>5. Near(w.radar.current_cones, new, d + 2 * p, d)
      <4> HIDE DEF d, p, new
      <4>1. QED
        BY <1>1, <3>2, <3>4, NearWider
    <3>6. QED
      BY <2>1, <3>3, <3>5
  <2>2. CASE ~Has("radar")
    BY <2>2, NothingNear DEF Moved, AtPace, RadarAtPace
  <2>3. QED
    BY <2>1, <2>2
<1>6. Near(w.lidar, new, d, 0)
  <2>1. w.lidar \in {LidarAt(t), NoBeams}
    BY DEF Moved
  <2>2. QED
    <3>1. Near(LidarAt(t), new, d, 0)
      BY <1>1, LidarNear
    <3>2. QED
      BY <2>1, <3>1, NothingNear
<1>7. QED
  BY <1>4, <1>5, <1>6 DEF AtPace

(* So does the set-up, with an output there: the samplers are at the start *)
(* and once or twice sampled in it.                                        *)
LEMMA StartPace ==
  ASSUME Scans, NEW new \in Int, NEW s \in InitializeSampling(new),
         NEW w, Moved(s, w, new, new, new), w.radar.prior_cones = w.radar.current_cones
  PROVE  AtPace(w, new)
<1> DEFINE d == dt[0]
           p == instr.period
<1>1. /\ p \in Int /\ p >= 1 /\ d \in Int /\ d >= 1
      /\ StartSamples * dt[0] = (IF instr.restart_sample THEN d + d ELSE d)
  BY StartAhead DEF Scans
<1>2. PICK f \in Fresh(new) :
        s = f \/ (instr.restart_sample /\ Moved(f, s, new, new, new))
  BY InitializeParts
<1>3. /\ SamplersOK(s) /\ f.spinner.clock = new /\ f.spinner.beams = NoBeams
      /\ f.radar.current_cones = NoBeams
  <2>1. f.spinner = SpinnerAtStart(new) /\ f.radar.current_cones = NoBeams
    BY FreshParts
  <2>2. SamplersOK(s)
    BY InitializeParts
  <2>3. QED
    BY <2>1, <2>2 DEF SpinnerAtStart
<1>4. /\ Has("spinner") =>
           w.spinner.clock \in (new + d - 2 * p) .. (new + StartSamples * dt[0])
      /\ ~Has("spinner") => w.spinner.beams = NoBeams
      /\ Near(w.spinner.beams, new, 2 * p, StartSamples * dt[0])
  <2>1. CASE Has("spinner")
    <3>1. w.spinner \in SpinnerUpdates(s.spinner, new)
      BY <2>1 DEF Moved
    <3> DEFINE a == IF s = f THEN 0 ELSE d
    <3>2. a \in Int /\ a >= 0 /\ d + a \in Int /\ d + a <= StartSamples * dt[0]
          /\ StartSamples * dt[0] \in Int
      BY <1>1, <1>2
    <3>3. s.spinner.clock \in (new - 2 * instr.period) .. (new + a)
      <4>1. CASE s = f
        BY <1>1, <1>3, <4>1
      <4>2. CASE s # f
        <5>1. s.spinner \in SpinnerUpdates(f.spinner, new)
          BY <1>2, <2>1, <4>2 DEF Moved
        <5>2. f.spinner.clock \in (new - 2 * instr.period) .. (new + 0)
          BY <1>1, <1>3
        <5>3. s.spinner.clock \in (new + d - 2 * p) .. (new + d + 0)
          BY <5>1, <5>2, SpinnerPace
        <5>4. QED
          BY <1>1, <4>2, <5>3
      <4>3. QED
        BY <4>1, <4>2
    <3> HIDE DEF a
    <3>4. /\ w.spinner.clock \in (new + d - 2 * p) .. (new + d + a)
          /\ Near(w.spinner.beams, new, 2 * p, d + a)
      BY <3>1, <3>2, <3>3, SpinnerPace
    <3>5. Near(w.spinner.beams, new, 2 * p, StartSamples * dt[0])
      <4>1. 2 * p \in Int /\ new - 2 * p <= new - 2 * p
            /\ new + (d + a) <= new + StartSamples * dt[0]
        BY <1>1, <3>2
      <4>2. QED
        BY <3>2, <3>4, <4>1, NearWider
    <3>6. w.spinner.clock \in (new + d - 2 * p) .. (new + StartSamples * dt[0])
      BY <1>1, <3>2, <3>4
    <3>7. QED
      BY <2>1, <3>5, <3>6
  <2>2. CASE ~Has("spinner")
    <3>1. w.spinner = s.spinner /\ s.spinner = f.spinner
      BY <1>2, <2>2 DEF Moved
    <3>2. QED
      BY <1>3, <2>2, <3>1, NothingNear
  <2>3. QED
    BY <2>1, <2>2
<1>5. /\ Near(w.radar.prior_cones, new, d + 2 * p, d)
      /\ ~Has("radar") => w.radar.current_cones = NoBeams
  <2>1. CASE Has("radar")
    <3>1. Near(w.radar.current_cones, new, 2 * p, d)
      BY <1>3, <2>1, RadarMoved
    <3>2. /\ 2 * p \in Int /\ d + 2 * p \in Int
          /\ new - (d + 2 * p) <= new - 2 * p /\ new + d <= new + d
      BY <1>1
    <3>3. QED
      BY <1>1, <2>1, <3>1, <3>2, NearWider
  <2>2. CASE ~Has("radar")
    <3>1. w.radar.current_cones = s.radar.current_cones
          /\ s.radar.current_cones = f.radar.current_cones
      BY <1>2, <2>2 DEF Moved
    <3>2. QED
      BY <1>3, <2>2, <3>1, NothingNear
  <2>3. QED
    BY <2>1, <2>2
<1>6. Near(w.lidar, new, d, 0)
  <2>1. w.lidar \in {LidarAt(new), NoBeams}
    BY DEF Moved
  <2>2. Near(LidarAt(new), new, d, 0)
    BY <1>1, LidarNear
  <2>3. QED
    BY <2>1, <2>2, NothingNear
<1>7. QED
  BY <1>4, <1>5, <1>6 DEF AtPace

(* In a run with equal steps dt[0] is fixed_dt from the start.             *)
LEMMA InitEqualSteps == Init => EqualStepsInv
BY DEF Init, ClockInit, UnsetDt, EqualStepsInv, EqualSteps

LEMMA NextEqualSteps ==
  ASSUME TypeOK, LoopInv, EqualStepsInv, AnyStep
  PROVE  EqualStepsInv'
<1>0. /\ dt \in [0..2 -> Int] /\ cfg' = cfg /\ ClockTypeOK
      /\ cur_time \in Int /\ cur_time >= 0
  BY CfgStays DEF TypeOK, ClockTypeOK, LoopInv
<1>1. ASSUME NEW c \in CflDts, SetCurrentCfl(c), EqualSteps
      PROVE  dt'[0] = cfg.fixed_dt
  <2>1. CflDt(c) = cfg.fixed_dt
    BY <1>0, <1>1, CfgType, InDelayHasDelay DEF CflDt, EqualSteps
  <2>2. QED
    BY <1>0, <1>1, <2>1 DEF SetCurrentCfl
<1>2. CASE dt'[0] = dt[0]
  BY <1>0, <1>2 DEF EqualStepsInv, EqualSteps, Adaptive
<1>3. ASSUME NEW c \in CflDts, SetCurrentCfl(c)
      PROVE  EqualStepsInv'
  BY <1>0, <1>1, <1>3 DEF EqualStepsInv, EqualSteps, Adaptive
<1>4. ASSUME NEW chk \in Header, ReadCheckpointFile(chk)
      PROVE  EqualStepsInv'
  <2>1. dt'[0] = dt[0]
    BY <1>0, <1>4 DEF ReadCheckpointFile, SetRestartTime
  <2>2. QED
    BY <1>2, <2>1
<1>5. CASE StartStep
  <2>1. dt'[0] = dt[0]
    BY <1>0, <1>5 DEF StartStep, NewTimestep
  <2>2. QED
    BY <1>2, <2>1
<1>6. QED
  BY <1>2, <1>3, <1>4, <1>5
     DEF AnyStep, Step, NoInitialIterations, PrepareForTimeIntegration, PreAdvance, AdvanceTime,
         PostAdvanceWork, OutputAtFinalTime, InitialIterations, ComputeDt, CflAbort,
         evolve_vars, clock_vars

LEMMA ScanTypes ==
  ASSUME ScanTypeOK
  PROVE  /\ instr.period \in Int /\ instr.period >= 1
         /\ instr.rounded \in Int /\ instr.restart_sample \in BOOLEAN
<1>1. instr \in Instrument
  BY DEF ScanTypeOK
<1>2. QED
  BY <1>1 DEF Instrument

LEMMA SameCircumstances ==
  ASSUME DrivenInv, PostOutputsInv, EqualStepsInv, [ScanNext]_scan_vars, EveryStep, EqualSteps
  PROVE  EveryStep' /\ EqualSteps' /\ dt'[0] = dt[0]
<1>1. AnyStep /\ post' = post
  BY ScanIsPost, PostSteps DEF DrivenInv
<1>2. cfg' = cfg /\ EqualStepsInv'
  BY <1>1, CfgStays, NextEqualSteps DEF DrivenInv
<1>3. EveryStep' /\ EqualSteps'
  BY <1>1, <1>2 DEF EveryStep, EqualSteps, Adaptive
<1>4. QED
  BY <1>2, <1>3 DEF EqualStepsInv

LEMMA NextPaced ==
  ASSUME DrivenInv, PostOutputsInv, ScanTypeOK, EqualStepsInv, Paced, [ScanNext]_scan_vars
  PROVE  Paced'
<1> SUFFICES ASSUME EveryStep', EqualSteps', stage' \notin {"init", "abort"}
             PROVE  /\ post_out'.time = Reached'
                    /\ AtPace(samplers, post_out.time)'
                    /\ (post_out.time > start_time)' => RadarAtPace(samplers, post_out.time)'
  BY DEF Paced, PaceInv, InstrumentsKeepPace, AtPace, RadarAtPace, Near, BeamsAreRecent
<1>1. AnyStep /\ post' = post /\ instr' = instr /\ cfg' = cfg
  BY ScanIsPost, PostSteps, ScanSteps, CfgStays DEF DrivenInv
<1>2. EveryStep /\ EqualSteps
  BY <1>1 DEF EveryStep, EqualSteps, Adaptive
<1>3. dt'[0] = dt[0]
  BY <1>2, SameCircumstances
<1>4. dt[0] \in Int /\ dt[0] >= 1 /\ Scans
  <2>1. dt[0] = cfg.fixed_dt /\ cfg.fixed_dt >= 1 /\ cfg.fixed_dt \in Int
    BY <1>2, CfgType DEF EqualStepsInv, EqualSteps, Adaptive, IsAdaptive, DrivenInv, TypeOK
  <2>2. QED
    BY <2>1, ScanTypes DEF Scans
<1>5. SamplersOK(samplers) /\ post_out.count \in Nat
  BY DEF ScanTypeOK, SamplersOK, DrivenInv, PostTypeOK
<1>6. SUFFICES /\ post_out'.time = Reached'
               /\ AtPace(samplers', post_out'.time)
               /\ post_out'.time > start_time' => RadarAtPace(samplers', post_out'.time)
  BY <1>1, <1>3 DEF AtPace, RadarAtPace, Near, Has, StartSamples
<1>7. ASSUME NEW new, SettingUp(new)
      PROVE  /\ post_out'.time = Reached'
             /\ AtPace(samplers', post_out'.time)
             /\ post_out'.time > start_time' => RadarAtPace(samplers', post_out'.time)
  <2> DEFINE due == post_out'.count > post_out.count
  <2>1. /\ due /\ samplers' \in SetUp(due, new) /\ post_out'.time = new
        /\ Reached' = new /\ start_time' = new /\ new \in Int
    BY <1>2, <1>7 DEF SettingUp, Reached
  <2> HIDE DEF due
  <2>2. PICK s \in InitializeSampling(new) :
          Moved(s, samplers', new, new, new) /\ Kept(s, samplers', new)
    BY <2>1, SetUpParts
  <2>3. AtPace(samplers', new)
    BY <1>4, <2>1, <2>2, StartPace DEF Kept
  <2>4. QED
    BY <2>1, <2>3
<1>8. ASSUME Resting
      PROVE  /\ post_out'.time = Reached'
             /\ AtPace(samplers', post_out'.time)
             /\ post_out'.time > start_time' => RadarAtPace(samplers', post_out'.time)
  BY <1>2, <1>8, PacedParts DEF Resting
<1>9. ASSUME Sampling
      PROVE  /\ post_out'.time = Reached'
             /\ AtPace(samplers', post_out'.time)
             /\ post_out'.time > start_time' => RadarAtPace(samplers', post_out'.time)
  <2>1. stage = "post" /\ Reached = cur_time
    BY <1>2, <1>9 DEF Sampling, Reached
  <2>2. /\ cur_time \in Int /\ start_time \in Int /\ start_time <= cur_time
        /\ new_time = cur_time + dt[0]
    BY <2>1, ScheduleTypes DEF DrivenInv, ScheduleInv
  <2>3. /\ AtPace(samplers, cur_time)
        /\ cur_time > start_time => RadarAtPace(samplers, cur_time)
    BY <1>2, <2>1, PacedParts
  <2>4. Moved(samplers, samplers', new_time, cur_time, start_time)
        /\ Kept(samplers, samplers', new_time)
    BY <1>5, <1>9, SampleOutputParts DEF Sampling
  <2>5. AtPace(samplers', new_time) /\ RadarAtPace(samplers', new_time)
    BY <1>4, <1>5, <2>2, <2>3, <2>4, OutputPace DEF Kept
  <2>6. QED
    BY <1>9, <2>5 DEF Sampling
<1>10. QED
  BY <1>7, <1>8, <1>9, ScanSteps

(* An object that is sampled in every step of a run with equal steps keeps *)
(* spinner, radar and lidar with the flow, however long the run is and     *)
(* however step and sample period divide and are rounded.                  *)
THEOREM InstrumentsStayInPace == DelaysHaveDt => (ScanSpec => []InstrumentsKeepPace)
<1> SUFFICES ASSUME DelaysHaveDt PROVE ScanSpec => []InstrumentsKeepPace
  OBVIOUS
<1>1. ScanSpec => []DrivenInv /\ []PostOutputsInv
  BY ScanDriven
<1>2. ScanInit => ScanTypeOK /\ EqualStepsInv /\ Paced
  <2>1. ScanInit => Init
    BY DEF ScanInit, PostInit
  <2>2. Init => stage = "init"
    BY DEF Init
  <2>3. QED
    BY <2>1, <2>2, InitScanTypeOK, InitEqualSteps DEF Paced, PaceInv, InstrumentsKeepPace
<1>3. DrivenInv /\ PostOutputsInv /\ ScanTypeOK /\ EqualStepsInv /\ Paced /\ [ScanNext]_scan_vars
      => ScanTypeOK' /\ EqualStepsInv' /\ Paced'
  <2>1. DrivenInv /\ [ScanNext]_scan_vars => AnyStep
    BY ScanIsPost, PostSteps DEF DrivenInv
  <2>2. QED
    BY <2>1, NextScanTypeOK, NextEqualSteps, NextPaced DEF DrivenInv
<1>4. Paced => InstrumentsKeepPace
  BY DEF Paced
<1>5. QED
  BY <1>1, <1>2, <1>3, <1>4, PTL DEF ScanSpec

-----------------------------------------------------------------------------
(* Running means: arithmetic of the weights. *)

(* A weight keeps its share w / e of the mean when the time averaged grows *)
(* from e to e + i and the others are scaled with it.                      *)
LEMMA ScaledWeight ==
  ASSUME NEW n \in Int, NEW e \in Int, NEW D \in Int, NEW w \in Int, NEW i \in Int,
         n * e = D * w
  PROVE  (n * e) * (e + i) = (D * (e + i)) * w
<1>1. (n * e) * (e + i) = (D * w) * (e + i)
  OBVIOUS
<1>2. (D * w) * (e + i) = (D * (e + i)) * w
  OBVIOUS
<1>3. QED
  BY <1>1, <1>2

LEMMA ProductPositive == \A a, b \in Int : a > 0 /\ b > 0 => a * b \in Int /\ a * b > 0
OBVIOUS

LEMMA NewWeight == \A i, D, e \in Int : (i * D) * e = (D * e) * i
OBVIOUS

-----------------------------------------------------------------------------
(* What AvgWork does with a sample. *)

LEMMA AverageTypes ==
  ASSUME AvgTypeOK
  PROVE  /\ avg.start_time \in Nat /\ avg.stop_time \in Nat
         /\ avg.time_interval \in Int /\ avg.window \in Nat
         /\ MaxTime \in Nat
         /\ accumulated \in Int
         /\ mean.den \in Int /\ \A s \in SampleIds : mean.num[s] \in Int
         /\ Len(samples) \in Nat /\ DOMAIN samples = 1..Len(samples)
         /\ \A i \in DOMAIN samples : samples[i] \in Int
         /\ samples # << >> => Len(samples) \in DOMAIN samples /\ LastSample \in Int
<1>1. /\ avg.start_time \in Nat /\ avg.stop_time \in Nat
      /\ avg.time_interval \in Int /\ avg.window \in Nat
  BY DEF AvgTypeOK, Average
<1>2. mean.den \in Int /\ \A s \in SampleIds : mean.num[s] \in Int
  BY DEF AvgTypeOK
<1>3. samples \in Seq(Int) /\ accumulated \in Int
  BY DEF AvgTypeOK
<1>4. QED
  BY <1>1, <1>2, <1>3 DEF LastSample

(* The weights of the new mean, where the old one is defined.              *)
LEMMA MeanOfSample ==
  ASSUME NEW old \in [num : [SampleIds -> Int], den : Int], NEW t \in Int,
         NEW interval \in Int, NEW elapsed \in Int, interval >= 1, old.den > 0,
         avg.window \in Nat
  PROVE  LET new == MeanWith(old, t, interval, elapsed)
             f   == Filter(interval, elapsed)
         IN  /\ f \in Int /\ f >= 1
             /\ new.den = old.den * f /\ new.den \in Int /\ new.den > 0
             /\ \A s \in SampleIds :
                  new.num[s] = old.num[s] * Factor(interval, elapsed)
                               + (IF s = t THEN interval * old.den ELSE 0)
             /\ new \in [num : [SampleIds -> Int], den : Int]
<1> DEFINE new == MeanWith(old, t, interval, elapsed)
           f   == Filter(interval, elapsed)
           g   == Factor(interval, elapsed)
<1>1. f \in Int /\ f >= 1
  BY DEF Filter, Max2, Min2
<1>2. g \in Int
  BY <1>1 DEF Factor, Max2
<1>3. new = [num |-> [s \in SampleIds |->
                        old.num[s] * g + (IF s = t THEN interval * old.den ELSE 0)],
             den |-> old.den * f]
  <2> HIDE DEF f, g
  <2>1. ~(old.den = 0 \/ f = 0)
    BY <1>1
  <2>2. QED
    BY <2>1 DEF MeanWith, f, g
<1>4. old.den \in Int /\ \A s \in SampleIds : old.num[s] \in Int
  OBVIOUS
<1> HIDE DEF new, f, g
<1>5. old.den * f \in Int /\ old.den * f > 0
  BY <1>1, <1>4, ProductPositive
<1>6. \A s \in SampleIds :
        old.num[s] * g + (IF s = t THEN interval * old.den ELSE 0) \in Int
  BY <1>2, <1>4
<1>7. QED
  BY <1>1, <1>3, <1>5, <1>6 DEF new, f, g

LEMMA MeanWithType ==
  ASSUME avg \in Average, NEW old \in [num : [SampleIds -> Int], den : Int],
         NEW t \in Int, NEW interval \in Int, NEW elapsed \in Int
  PROVE  MeanWith(old, t, interval, elapsed) \in [num : [SampleIds -> Int], den : Int]
<1> DEFINE f == Filter(interval, elapsed)
           g == Factor(interval, elapsed)
<1>1. f \in Int /\ g \in Int
  <2>1. avg.window \in Int
    BY DEF Average
  <2>2. QED
    BY <2>1 DEF Filter, Factor, Max2, Min2
<1>2. Undefined \in [num : [SampleIds -> Int], den : Int]
  BY DEF Undefined
<1>3. old.den \in Int /\ \A s \in SampleIds : old.num[s] \in Int
  OBVIOUS
<1>4. old.den * f \in Int
      /\ \A s \in SampleIds :
           old.num[s] * g + (IF s = t THEN interval * old.den ELSE 0) \in Int
  <2> HIDE DEF f, g
  <2>1. QED
    BY <1>1, <1>3
<1>5. MeanWith(old, t, interval, elapsed) =
        IF old.den = 0 \/ f = 0 THEN Undefined
        ELSE [num |-> [s \in SampleIds |->
                         old.num[s] * g + (IF s = t THEN interval * old.den ELSE 0)],
              den |-> old.den * f]
  BY DEF MeanWith
<1> HIDE DEF f, g
<1>6. QED
  BY <1>2, <1>4, <1>5

LEMMA WorkType ==
  ASSUME AvgTypeOK, avg' = avg, NEW old \in [num : [SampleIds -> Int], den : Int],
         NEW t \in Int, NEW d \in Int, AvgWork(old, t, d)
  PROVE  AvgTypeOK'
<1>1. accumulated \in Int /\ avg \in Average /\ avg.start_time \in Int /\ samples \in Seq(Int)
  BY AverageTypes DEF AvgTypeOK
<1>2. accumulated' \in Int
  BY <1>1 DEF AvgWork, Accumulate
<1>3. CASE DoAvg(t, d)
  <2>1. SampledInterval(d) \in Int /\ t - avg.start_time \in Int
    BY <1>1 DEF SampledInterval
  <2>2. MeanWith(old, t, SampledInterval(d), t - avg.start_time)
          \in [num : [SampleIds -> Int], den : Int]
    BY <1>1, <2>1, MeanWithType
  <2>3. /\ mean' = MeanWith(old, t, SampledInterval(d), t - avg.start_time)
        /\ samples' = Append(samples, t)
    BY <1>3 DEF AvgWork
  <2>4. samples' \in Seq(Int)
    BY <1>1, <2>3
  <2>5. QED
    BY <1>1, <1>2, <2>2, <2>3, <2>4 DEF AvgTypeOK
<1>4. CASE ~DoAvg(t, d)
  BY <1>1, <1>2, <1>4 DEF AvgWork, AvgTypeOK
<1>5. QED
  BY <1>3, <1>4

(* The samples after one more.                                             *)
LEMMA OneMoreSample ==
  ASSUME AvgTypeOK, NEW t \in Int, samples' = Append(samples, t)
  PROVE  /\ Len(samples') = Len(samples) + 1
         /\ DOMAIN samples' = 1..(Len(samples) + 1)
         /\ samples' # << >> /\ LastSample' = t
         /\ samples'[Len(samples) + 1] = t
         /\ \A i \in 1..Len(samples) : samples'[i] = samples[i]
<1>1. samples \in Seq(Int)
  BY DEF AvgTypeOK
<1>2. QED
  BY <1>1 DEF LastSample

-----------------------------------------------------------------------------
(* One call of post_advance_work. *)

(* The first sample is the mean: the interval accumulated before it is at  *)
(* least the time averaged, and nothing is left of the field as created or *)
(* as restored.                                                            *)
LEMMA FirstSampleTaken ==
  ASSUME AvgTypeOK, avg' = avg, NEW old \in [num : [SampleIds -> Int], den : Int],
         NEW t \in Nat, NEW d \in Int, AvgWork(old, t, d), DoAvg(t, d), samples = << >>,
         SampledInterval(d) >= 1, SampledInterval(d) >= t - avg.start_time,
         avg.window >= MaxTime /\ t <= MaxTime => old.den > 0
  PROVE  SamplesUpTo(t)' /\ PhasesUpTo(t)' /\ WeightsUpTo(t)'
<1> DEFINE I == SampledInterval(d)
           e == t - avg.start_time
<1>1. /\ avg.start_time \in Nat /\ avg.window \in Nat /\ MaxTime \in Nat
      /\ I \in Int /\ e \in Int /\ e >= 0 /\ I >= 1 /\ I >= e
  BY AverageTypes DEF SampledInterval, DoAvg
<1>2. /\ accumulated' = 0
      /\ mean' = MeanWith(old, t, I, e)
      /\ samples' = Append(samples, t)
  BY DEF AvgWork, Accumulate
<1>3. Len(samples) = 0
  OBVIOUS
<1>4. /\ DOMAIN samples' = 1..1 /\ samples' # << >> /\ LastSample' = t /\ samples'[1] = t
  BY <1>2, <1>3, OneMoreSample
<1>5. SamplesUpTo(t)'
  BY <1>1, <1>2, <1>4 DEF SamplesUpTo
<1>6. PhasesUpTo(t)'
  BY <1>4 DEF PhasesUpTo
<1>7. ASSUME avg.window >= MaxTime, t <= MaxTime
      PROVE  /\ mean'.den > 0
             /\ \A s \in SampleIds : s > t => mean'.num[s] = 0
             /\ mean'.num[t] * (t - avg.start_time) = mean'.den * (t - avg.start_time)
  <2>1. Filter(I, e) = I /\ Factor(I, e) = 0
    <3>1. Filter(I, e) = I
      <4> HIDE DEF I, e
      <4>1. QED
        BY <1>1, <1>7 DEF Filter, Max2, Min2
    <3>2. QED
      <4> HIDE DEF I, e
      <4>1. QED
        BY <1>1, <3>1 DEF Factor, Max2
  <2> HIDE DEF I, e
  <2>2. /\ mean'.den = old.den * I /\ mean'.den > 0 /\ mean'.den \in Int
        /\ \A s \in SampleIds :
             mean'.num[s] = old.num[s] * 0 + (IF s = t THEN I * old.den ELSE 0)
    BY <1>1, <1>2, <1>7, <2>1, MeanOfSample
  <2>3. old.den \in Int /\ \A s \in SampleIds : old.num[s] \in Int
    OBVIOUS
  <2>4. t \in SampleIds
    BY <1>7 DEF SampleIds
  <2>5. mean'.num[t] = I * old.den
    BY <1>1, <2>2, <2>3, <2>4
  <2>6. \A s \in SampleIds : s > t => mean'.num[s] = 0
    BY <2>2, <2>3
  <2>7. I * old.den = old.den * I
    BY <1>1, <2>3
  <2>8. QED
    BY <2>2, <2>5, <2>6, <2>7
<1>8. WeightsUpTo(t)'
  BY <1>4, <1>7 DEF WeightsUpTo
<1>9. QED
  BY <1>5, <1>6, <1>8

(* The step from t - d to t contains the end of a period where a sample is *)
(* taken, and none where it is not.                                        *)
LEMMA PhaseOfStep ==
  ASSUME AvgTypeOK, NEW t \in Nat, NEW d \in Int, d >= 1, t >= avg.start_time,
         avg.time_interval > 0
  PROVE  /\ Phase(t) \in Int /\ Phase(t - d) \in Int
         /\ OnPhase(t, d) => Phase(t) > Phase(t - d)
         /\ ~OnPhase(t, d) => Phase(t) = Phase(t - d) /\ t - d >= avg.start_time
<1> DEFINE p == avg.time_interval
           a == t - avg.start_time
<1>1. p \in Int /\ p > 0 /\ avg.start_time \in Nat /\ a \in Nat
  BY AverageTypes
<1>2. (t - d) - avg.start_time = a - d /\ a - d \in Int
  BY <1>1
<1>3. a \div p \in Int /\ (a - d) \div p \in Int /\ a = (p * (a \div p)) + (a % p)
      /\ a % p \in Int /\ 0 <= a % p
  <2> HIDE DEF a, p
  <2>1. QED
    BY <1>1, <1>2, QuotientRemainder, RemainderRange
<1>4. /\ a % p < d => a \div p > (a - d) \div p
      /\ a % p >= d => a \div p = (a - d) \div p
  <2> HIDE DEF a, p
  <2>1. QED
    BY <1>1, PassedMultiple
<1>5. a % p <= a
  <2> HIDE DEF a
  <2>1. a \div p >= 0
    <3>1. 0 \div p = 0
      BY <1>1
    <3>2. QED
      BY <1>1, <3>1, QuotientMonotone
  <2> DEFINE q == a \div p
  <2>2. p * q >= 0
    <3> HIDE DEF q, p
    <3>1. QED
      BY <1>1, <1>3, <2>1, MultipleAtLeastOne DEF q
  <2>3. QED
    BY <1>1, <1>3, <2>2
<1>6. Phase(t) = a \div p /\ Phase(t - d) = (a - d) \div p
  BY <1>2 DEF Phase
<1>7. OnPhase(t, d) <=> a % p < d
  BY <1>1 DEF OnPhase
<1> HIDE DEF p, a
<1>8. QED
  BY <1>1, <1>2, <1>3, <1>4, <1>5, <1>6, <1>7 DEF a

LEMMA PhaseMonotone ==
  ASSUME AvgTypeOK, avg.time_interval > 0, NEW s \in Int, NEW t \in Int, s <= t
  PROVE  Phase(s) \in Int /\ Phase(s) <= Phase(t)
<1>1. /\ avg.time_interval \in Int /\ avg.start_time \in Int
      /\ s - avg.start_time \in Int /\ t - avg.start_time \in Int
      /\ s - avg.start_time <= t - avg.start_time
  BY AverageTypes
<1>2. QED
  BY <1>1, QuotientMonotone, QuotientRemainder DEF Phase

(* The order of the samples and of their phases, with one more.            *)
LEMMA LaterSampleOrdered ==
  ASSUME AvgTypeOK, avg' = avg, NEW old \in [num : [SampleIds -> Int], den : Int],
         NEW t \in Nat, NEW d \in Int, AvgWork(old, t, d), DoAvg(t, d), samples # << >>,
         d >= 1, SamplesUpTo(t - d), PhasesUpTo(t - d)
  PROVE  SamplesUpTo(t)' /\ PhasesUpTo(t)'
<1>1. /\ accumulated' = 0 /\ samples' = Append(samples, t)
      /\ t >= avg.start_time /\ OnPhase(t, d) /\ avg.start_time \in Nat
  BY AverageTypes DEF AvgWork, Accumulate, DoAvg
<1> DEFINE n == Len(samples)
<1>2. /\ n \in Nat /\ DOMAIN samples = 1..n
      /\ \A i \in 1..n : samples[i] \in Int
      /\ DOMAIN samples' = 1..(n + 1)
      /\ samples' # << >> /\ LastSample' = t /\ samples'[n + 1] = t
      /\ \A i \in 1..n : samples'[i] = samples[i]
  <2>1. samples' = Append(samples, t) /\ t \in Int
    BY <1>1
  <2>2. QED
    BY <2>1, AverageTypes, OneMoreSample
<1>3. /\ \A i \in 1..n : avg.start_time <= samples[i] /\ samples[i] <= t - d
      /\ \A i, j \in 1..n : i < j => samples[i] < samples[j]
  BY <1>2 DEF SamplesUpTo
<1> HIDE DEF n
<1>4. ASSUME NEW i \in 1..(n + 1)
      PROVE  avg.start_time <= samples'[i] /\ samples'[i] <= t
  <2>1. CASE i = n + 1
    BY <1>1, <1>2, <2>1
  <2>2. CASE i \in 1..n
    BY <1>1, <1>2, <1>3, <2>2
  <2>3. QED
    BY <1>2, <2>1, <2>2
<1>5. ASSUME NEW i \in 1..(n + 1), NEW j \in 1..(n + 1), i < j
      PROVE  i \in 1..n /\ (j \in 1..n \/ j = n + 1)
  BY <1>2, <1>5
<1>6. ASSUME NEW i \in 1..(n + 1), NEW j \in 1..(n + 1), i < j
      PROVE  samples'[i] < samples'[j]
  <2>1. i \in 1..n
    BY <1>5, <1>6
  <2>2. CASE j = n + 1
    BY <1>2, <1>3, <2>1, <2>2
  <2>3. CASE j \in 1..n
    BY <1>2, <1>3, <1>6, <2>1, <2>3
  <2>4. QED
    BY <1>5, <1>6, <2>2, <2>3
<1>7. SamplesUpTo(t)'
  <2>1. accumulated' = t - LastSample'
    BY <1>1, <1>2
  <2>2. QED
    BY <1>2, <1>4, <1>6, <2>1 DEF SamplesUpTo
<1>8. ASSUME avg.time_interval > 0
      PROVE  \A i, j \in 1..(n + 1) : i < j => Phase(samples'[i]) < Phase(samples'[j])
  <2>1. Phase(t) \in Int /\ Phase(t - d) \in Int /\ Phase(t) > Phase(t - d)
    BY <1>1, <1>8, PhaseOfStep
  <2>2. SUFFICES ASSUME NEW i \in 1..(n + 1), NEW j \in 1..(n + 1), i < j
                 PROVE  Phase(samples'[i]) < Phase(samples'[j])
    OBVIOUS
  <2>3. i \in 1..n
    BY <1>5, <2>2
  <2>4. CASE j = n + 1
    <3>1. t - d \in Int /\ samples[i] \in Int /\ samples[i] <= t - d
      BY <1>2, <1>3, <2>3
    <3>2. Phase(samples[i]) \in Int /\ Phase(samples[i]) <= Phase(t - d)
      BY <1>8, <3>1, PhaseMonotone
    <3>3. QED
      BY <1>2, <2>1, <2>3, <2>4, <3>2
  <2>5. CASE j \in 1..n
    BY <1>2, <1>8, <2>2, <2>3, <2>5 DEF PhasesUpTo
  <2>6. QED
    BY <1>5, <2>2, <2>4, <2>5
<1>9. PhasesUpTo(t)'
  BY <1>2, <1>8 DEF PhasesUpTo, Phase
<1>10. QED
  BY <1>7, <1>9

(* The weights with one more sample: the others keep their share of a time *)
(* that is longer by the interval since the last of them.                  *)
LEMMA LaterSampleWeighted ==
  ASSUME AvgTypeOK, avg' = avg, NEW t \in Nat, NEW d \in Int, AvgWork(mean, t, d),
         DoAvg(t, d), samples # << >>, d >= 1, SamplesUpTo(t - d), WeightsUpTo(t - d)
  PROVE  WeightsUpTo(t)'
<1> DEFINE n == Len(samples)
           e == LastSample - avg.start_time
           I == t - LastSample
           wt(i) == samples[i] - (IF i = 1 THEN avg.start_time ELSE samples[i - 1])
<1>1. /\ n \in Nat /\ n >= 1 /\ DOMAIN samples = 1..n /\ n \in DOMAIN samples
      /\ LastSample = samples[n] /\ LastSample \in Int
      /\ \A i \in 1..n : samples[i] \in Int
      /\ avg.start_time \in Nat /\ avg.window \in Nat /\ MaxTime \in Nat
      /\ accumulated \in Int
  BY AverageTypes DEF LastSample
<1>2. /\ \A i \in 1..n : avg.start_time <= samples[i] /\ samples[i] <= t - d
      /\ accumulated = (t - d) - LastSample
  BY <1>1 DEF SamplesUpTo
<1>3. /\ e \in Int /\ I \in Int /\ e >= 0 /\ I >= 1
      /\ t - avg.start_time = e + I /\ SampledInterval(d) = I
  <2>1. avg.start_time <= LastSample /\ LastSample <= t - d
    BY <1>1, <1>2
  <2>2. SampledInterval(d) = ((t - d) - LastSample) + d
    BY <1>2 DEF SampledInterval
  <2>3. LastSample \in Int /\ avg.start_time \in Int /\ t \in Int /\ d \in Int /\ d >= 1
    BY <1>1
  <2>4. e \in Int /\ I \in Int
    BY <2>3
  <2>5. e >= 0 /\ I >= 1
    BY <2>1, <2>3
  <2>6. t - avg.start_time = e + I
    BY <2>3
  <2>7. SampledInterval(d) = I
    BY <2>2, <2>3
  <2>8. QED
    BY <2>4, <2>5, <2>6, <2>7
<1>4. /\ samples' = Append(samples, t)
      /\ mean' = MeanWith(mean, t, I, e + I)
  BY <1>3 DEF AvgWork
<1>5. /\ DOMAIN samples' = 1..(n + 1)
      /\ samples' # << >> /\ LastSample' = t /\ samples'[n + 1] = t
      /\ \A i \in 1..n : samples'[i] = samples[i]
  BY <1>4, OneMoreSample
<1> SUFFICES ASSUME avg.window >= MaxTime, t <= MaxTime PROVE WeightsUpTo(t)'
  BY DEF WeightsUpTo
<1> HIDE DEF n, e, I
<1>6. Filter(I, e + I) = e + I /\ Factor(I, e + I) = e
  <2>1. Filter(I, e + I) = e + I
    <3>1. e + I <= avg.window
      BY <1>1, <1>3
    <3>2. QED
      BY <1>1, <1>3, <3>1 DEF Filter, Max2, Min2
  <2>2. QED
    BY <1>3, <2>1 DEF Factor, Max2
<1>7. /\ mean.den \in Int /\ mean.den > 0
      /\ \A s \in SampleIds : mean.num[s] \in Int
      /\ \A s \in SampleIds : s > t - d => mean.num[s] = 0
      /\ \A i \in 1..n : mean.num[samples[i]] * e = mean.den * wt(i)
  <2>1. t - d <= MaxTime
    BY <1>1
  <2>2. QED
    BY <1>1, <2>1, AverageTypes DEF WeightsUpTo, e
<1> PICK old \in [num : [SampleIds -> Int], den : Int] : old = mean
  BY DEF AvgTypeOK
<1>8. /\ mean'.den = mean.den * (e + I) /\ mean'.den > 0 /\ mean'.den \in Int
      /\ \A s \in SampleIds :
           mean'.num[s] = mean.num[s] * e + (IF s = t THEN I * mean.den ELSE 0)
  <2>1. old.den > 0 /\ old.den = mean.den /\ old.num = mean.num
    BY <1>7
  <2> DEFINE E == e + I
  <2>2. E \in Int /\ mean' = MeanWith(old, t, I, E)
        /\ Filter(I, E) = E /\ Factor(I, E) = e
    BY <1>3, <1>4, <1>6
  <2> HIDE DEF E
  <2>3. /\ mean'.den = mean.den * E /\ mean'.den > 0 /\ mean'.den \in Int
        /\ \A s \in SampleIds :
             mean'.num[s] = mean.num[s] * e + (IF s = t THEN I * mean.den ELSE 0)
    <3>1. I \in Int /\ I >= 1 /\ E \in Int /\ old.den > 0 /\ avg.window \in Nat
      BY <1>1, <1>3, <2>1, <2>2
    <3> DEFINE new == MeanWith(old, t, I, E)
    <3>2. /\ new.den = old.den * E /\ new.den > 0 /\ new.den \in Int
          /\ \A s \in SampleIds :
               new.num[s] = old.num[s] * e + (IF s = t THEN I * old.den ELSE 0)
      BY <2>2, <3>1, MeanOfSample
    <3> HIDE DEF new
    <3>3. mean' = new
      BY <2>2 DEF new
    <3>4. QED
      BY <2>1, <3>2, <3>3
  <2>4. QED
    BY <2>3 DEF E
<1>9. ASSUME NEW s \in SampleIds, s > t
      PROVE  mean'.num[s] = 0
  <2>1. s \in Int
    BY <1>1 DEF SampleIds, Restored
  <2>2. mean.num[s] = 0 /\ s # t
    BY <1>7, <1>9, <2>1
  <2>3. mean'.num[s] = mean.num[s] * e + 0
    BY <1>8, <2>2
  <2>4. 0 * e + 0 = 0
    BY <1>3
  <2>5. QED
    BY <2>2, <2>3, <2>4
<1> DEFINE wtp(i) == samples'[i] - (IF i = 1 THEN avg.start_time ELSE samples'[i - 1])
<1>10. ASSUME NEW i \in 1..n
       PROVE  mean'.num[samples'[i]] * (t - avg.start_time) = mean'.den * wtp(i)
  <2>1. wtp(i) = wt(i) /\ wt(i) \in Int
    <3>1. i = 1 \/ (i - 1) \in 1..n
      BY <1>1
    <3>2. QED
      BY <1>1, <1>5, <3>1
  <2>2. samples'[i] = samples[i] /\ samples[i] \in SampleIds /\ samples[i] # t
    <3>1. samples'[i] = samples[i] /\ samples[i] \in Int
      BY <1>1, <1>5
    <3>2. avg.start_time <= samples[i] /\ samples[i] <= t - d
      BY <1>2
    <3>3. avg.start_time \in Nat /\ MaxTime \in Nat
      BY <1>1
    <3> DEFINE s == samples[i]
    <3> HIDE DEF s
    <3>4. s \in Int /\ avg.start_time <= s /\ s <= t - d
      BY <3>1, <3>2 DEF s
    <3>5. s \in 0..MaxTime /\ s # t
      BY <3>3, <3>4
    <3>6. QED
      BY <3>1, <3>5 DEF SampleIds, s
  <2>3. mean'.num[samples[i]] = mean.num[samples[i]] * e /\ mean.num[samples[i]] \in Int
    <3> DEFINE m == mean.num[samples[i]]
    <3>1. mean'.num[samples[i]] = m * e + 0 /\ m \in Int
      BY <1>7, <1>8, <2>2
    <3> HIDE DEF m
    <3>2. m * e + 0 = m * e
      BY <1>3, <3>1
    <3>3. QED
      BY <3>1, <3>2 DEF m
  <2>4. mean.num[samples[i]] * e = mean.den * wt(i)
    BY <1>7
  <2> HIDE DEF wt, wtp
  <2>5. (mean.num[samples[i]] * e) * (e + I) = (mean.den * (e + I)) * wt(i)
    BY <1>3, <1>7, <2>1, <2>3, <2>4, ScaledWeight
  <2>6. QED
    BY <1>3, <1>8, <2>1, <2>2, <2>3, <2>5
<1>11. mean'.num[samples'[n + 1]] * (t - avg.start_time) = mean'.den * wtp(n + 1)
  <2>1. wtp(n + 1) = I
    BY <1>1, <1>5 DEF I
  <2>2. t \in SampleIds /\ mean.num[t] = 0
    BY <1>7 DEF SampleIds
  <2>3. mean'.num[t] = I * mean.den
    BY <1>3, <1>7, <1>8, <2>2
  <2> HIDE DEF wtp
  <2>4. (I * mean.den) * (e + I) = (mean.den * (e + I)) * I
    <3>1. e + I \in Int
      BY <1>3
    <3>2. QED
      BY <1>3, <1>7, <3>1, NewWeight
  <2>5. QED
    BY <1>3, <1>5, <1>8, <2>1, <2>3, <2>4
<1>12. \A i \in 1..(n + 1) :
         mean'.num[samples'[i]] * (t - avg.start_time) = mean'.den * wtp(i)
  <2>1. \A i \in 1..(n + 1) : i \in 1..n \/ i = n + 1
    BY <1>1
  <2> HIDE DEF wtp
  <2>2. QED
    BY <1>10, <1>11, <2>1
<1>13. QED
  BY <1>5, <1>8, <1>9, <1>12 DEF WeightsUpTo

(* Where no sample is taken, time goes on in the period of the last one.   *)
LEMMA NoSampleTaken ==
  ASSUME AvgTypeOK, avg' = avg, cfg' = cfg, NEW t \in Nat, NEW d \in Int,
         AvgWork(mean, t, d), ~DoAvg(t, d), d >= 1,
         SamplesUpTo(t - d), PhasesUpTo(t - d), WeightsUpTo(t - d)
  PROVE  SamplesUpTo(t)' /\ PhasesUpTo(t)' /\ WeightsUpTo(t)'
<1>1. /\ accumulated' = accumulated + d /\ mean' = mean /\ samples' = samples
      /\ LastSample' = LastSample /\ Adaptive' = Adaptive
  BY DEF AvgWork, Accumulate, LastSample, Adaptive
<1>2. /\ avg.start_time \in Nat /\ accumulated \in Int
      /\ \A i \in DOMAIN samples : samples[i] \in Int
      /\ samples # << >> => LastSample \in Int
  BY AverageTypes
<1>3. SamplesUpTo(t)'
  <2>1. \A i \in DOMAIN samples : avg.start_time <= samples[i] /\ samples[i] <= t
    BY <1>2 DEF SamplesUpTo
  <2>2. CASE samples = << >>
    <3>1. accumulated >= (IF Adaptive THEN (t - d) - 1 ELSE (t - d) + 1)
      BY <2>2 DEF SamplesUpTo
    <3>2. accumulated + d >= (IF Adaptive THEN t - 1 ELSE t + 1)
      BY <1>2, <3>1
    <3>3. QED
      BY <1>1, <2>1, <2>2, <3>2 DEF SamplesUpTo
  <2>3. CASE samples # << >>
    <3>1. accumulated = (t - d) - LastSample
      BY <2>3 DEF SamplesUpTo
    <3>2. accumulated + d = t - LastSample
      BY <1>2, <2>3, <3>1
    <3>3. QED
      BY <1>1, <2>1, <2>3, <3>2 DEF SamplesUpTo
  <2>4. QED
    BY <2>2, <2>3
<1>4. PhasesUpTo(t)'
  <2>1. ASSUME avg.time_interval > 0, t >= avg.start_time, t < avg.stop_time
        PROVE  samples # << >> /\ Phase(LastSample) = Phase(t)
    <3>1. ~OnPhase(t, d)
      BY <2>1 DEF DoAvg
    <3>2. Phase(t) = Phase(t - d) /\ t - d >= avg.start_time
      BY <2>1, <3>1, PhaseOfStep
    <3>3. t - d < avg.stop_time
      BY <2>1, AverageTypes
    <3>4. QED
      BY <2>1, <3>2, <3>3 DEF PhasesUpTo
  <2>2. QED
    BY <1>1, <2>1 DEF PhasesUpTo, Phase
<1>5. WeightsUpTo(t)'
  <2>1. \A s \in SampleIds : s \in Int
    BY DEF SampleIds, Restored
  <2>2. \A s \in SampleIds : s > t => s > t - d
    BY <2>1
  <2>3. t - d <= t
    OBVIOUS
  <2>4. t <= MaxTime => t - d <= MaxTime
    BY <2>3
  <2>5. QED
    BY <1>1, <2>2, <2>4 DEF WeightsUpTo
<1>6. QED
  BY <1>3, <1>4, <1>5

(* The step that ends at t.                                                *)
LEMMA StepSampled ==
  ASSUME AvgTypeOK, avg' = avg, cfg' = cfg, NEW t \in Nat, NEW d \in Int,
         AvgWork(mean, t, d), d >= 1, StepsKnown,
         SamplesUpTo(t - d), PhasesUpTo(t - d), WeightsUpTo(t - d)
  PROVE  SamplesUpTo(t)' /\ PhasesUpTo(t)' /\ WeightsUpTo(t)'
<1>1. CASE ~DoAvg(t, d)
  BY <1>1, NoSampleTaken
<1>2. CASE DoAvg(t, d) /\ samples = << >>
  <2>1. avg.start_time \in Nat /\ accumulated \in Int /\ t >= avg.start_time
    BY <1>2, AverageTypes DEF DoAvg
  <2>2. accumulated >= (IF Adaptive THEN (t - d) - 1 ELSE (t - d) + 1)
    BY <1>2 DEF SamplesUpTo
  <2>3. Adaptive => avg.start_time > 1
    BY DEF StepsKnown
  <2>4. accumulated + d >= 1 /\ accumulated + d >= t - avg.start_time
    BY <2>1, <2>2, <2>3
  <2>5. avg.window >= MaxTime /\ t <= MaxTime => mean.den > 0
    <3>1. t <= MaxTime => t - d <= MaxTime
      OBVIOUS
    <3>2. QED
      BY <3>1 DEF WeightsUpTo
  <2>6. PICK old \in [num : [SampleIds -> Int], den : Int] : old = mean
    BY DEF AvgTypeOK
  <2>7. AvgWork(old, t, d)
    BY <2>6 DEF AvgWork
  <2>8. QED
    BY <1>2, <2>4, <2>5, <2>6, <2>7, FirstSampleTaken DEF SampledInterval
<1>3. CASE DoAvg(t, d) /\ samples # << >>
  <2>1. PICK old \in [num : [SampleIds -> Int], den : Int] : old = mean
    BY DEF AvgTypeOK
  <2>2. AvgWork(old, t, d)
    BY <2>1 DEF AvgWork
  <2>3. SamplesUpTo(t)' /\ PhasesUpTo(t)'
    BY <1>3, <2>2, LaterSampleOrdered
  <2>4. QED
    BY <1>3, <2>3, LaterSampleWeighted
<1>4. QED
  BY <1>1, <1>2, <1>3

(* The start of a run, at time zero with a mean that is new or restored.   *)
LEMMA StartSampled ==
  ASSUME AvgTypeOK, avg' = avg, cfg' = cfg, NEW old \in [num : [SampleIds -> Int], den : Int],
         NEW d \in Int, AvgWork(old, 0, d), samples = << >>, accumulated = 0,
         old.den > 0, \A s \in SampleIds : s > 0 => old.num[s] = 0,
         Adaptive => avg.start_time > 1 /\ d = -1, ~Adaptive => d >= 1
  PROVE  SamplesUpTo(0)' /\ PhasesUpTo(0)' /\ WeightsUpTo(0)'
<1>1. avg.start_time \in Nat /\ avg.stop_time \in Nat /\ avg.time_interval \in Int
  BY AverageTypes
<1>2. CASE DoAvg(0, d)
  <2>1. avg.start_time = 0 /\ d >= 1
    BY <1>1, <1>2 DEF DoAvg
  <2>2. SampledInterval(d) = d
    BY DEF SampledInterval
  <2>3. QED
    BY <1>2, <2>1, <2>2, FirstSampleTaken
<1>3. CASE ~DoAvg(0, d)
  <2>1. accumulated' = d /\ mean' = old /\ samples' = << >> /\ Adaptive' = Adaptive
    BY <1>3 DEF AvgWork, Accumulate, Adaptive
  <2>2. SamplesUpTo(0)'
    BY <2>1 DEF SamplesUpTo
  <2>3. ~(avg.time_interval > 0 /\ 0 >= avg.start_time /\ 0 < avg.stop_time)
    <3>1. SUFFICES ASSUME avg.time_interval > 0, avg.start_time = 0, 0 < avg.stop_time
                   PROVE  FALSE
      BY <1>1
    <3>2. d >= 1 /\ (0 - avg.start_time) % avg.time_interval = 0
      BY <1>1, <3>1, RemainderOfZero
    <3>3. QED
      BY <1>3, <3>1, <3>2 DEF DoAvg, OnPhase
  <2>4. PhasesUpTo(0)'
    BY <2>1, <2>3 DEF PhasesUpTo
  <2>5. WeightsUpTo(0)'
    BY <2>1 DEF WeightsUpTo
  <2>6. QED
    BY <2>2, <2>4, <2>5
<1>4. QED
  BY <1>2, <1>3

-----------------------------------------------------------------------------
(* AvgInv is inductive. *)

LEMMA FieldsOfMean ==
  /\ ZeroField \in [num : [SampleIds -> Int], den : Int]
  /\ RestoredField \in [num : [SampleIds -> Int], den : Int]
  /\ ZeroField.den > 0 /\ \A s \in SampleIds : s > 0 => ZeroField.num[s] = 0
  /\ RestoredField.den > 0 /\ \A s \in SampleIds : s > 0 => RestoredField.num[s] = 0
BY DEF ZeroField, RestoredField, Restored

LEMMA InitAvgInv == AvgInit => AvgTypeOK /\ AvgInv
<1> SUFFICES ASSUME AvgInit PROVE AvgTypeOK /\ AvgInv
  OBVIOUS
<1>1. AvgTypeOK
  BY FieldsOfMean DEF AvgInit, AvgTypeOK
<1>2. ClockTypeOK /\ stage = "init" /\ dt = UnsetDt
  BY InitTypeOK DEF AvgInit, Init, ClockInit, TypeOK
<1>3. cfg.fixed_dt \in Int
  BY <1>2, CfgType
<1>4. dt[0] = IF ~Adaptive THEN cfg.fixed_dt ELSE -1
  BY <1>2 DEF UnsetDt
<1>5. (~Adaptive => dt[0] >= 1) /\ (Adaptive => dt[0] = -1)
  BY <1>3, <1>4 DEF Adaptive, IsAdaptive
<1>6. QED
  BY <1>1, <1>2, <1>5 DEF AvgInit, AvgInv

(* The calls between two samples. *)
AvgQuiet ==
  /\ UNCHANGED << cfg, start_time, avg, accumulated, mean, samples >>
  /\ Reached' = Reached
  /\ stage # "init" /\ stage' # "init"

LEMMA AvgStepQuiet ==
  ASSUME LoopInv, NEW c \in CflDts, AvgStep(c)
  PROVE  AvgQuiet
<1>1. UNCHANGED << avg, accumulated, mean, samples >>
  BY DEF AvgStep
<1>2. CASE PrepareForTimeIntegration
  BY <1>1, <1>2 DEF PrepareForTimeIntegration, clock_vars, AvgQuiet, Reached
<1>3. CASE StartStep
  BY <1>1, <1>3 DEF StartStep, NewTimestep, AvgQuiet, Reached
<1>4. CASE PreAdvance
  <2>1. stage = "advance" /\ cur_time = new_time
    BY <1>4 DEF PreAdvance, LoopInv
  <2>2. QED
    BY <1>1, <1>4, <2>1 DEF PreAdvance, AdvanceTime, AvgQuiet, Reached
<1>5. CASE ComputeDt(c)
  BY <1>1, <1>5 DEF ComputeDt, SetCurrentCfl, AvgQuiet, Reached
<1>6. CASE OutputAtFinalTime
  BY <1>1, <1>6 DEF OutputAtFinalTime, clock_vars, AvgQuiet, Reached
<1>7. CASE stage = "dt" /\ CflAbort(c)
  BY <1>1, <1>7 DEF CflAbort, clock_vars, AvgQuiet, Reached
<1>8. QED
  BY <1>2, <1>3, <1>4, <1>5, <1>6, <1>7 DEF AvgStep

LEMMA AvgStarted ==
  ASSUME NEW c \in CflDts, AvgStart(c)
  PROVE  /\ stage = "init" /\ stage' \in {"init_out", "abort"}
         /\ UNCHANGED << cfg, new_time, start_time, avg >>
         /\ AvgWork(mean, new_time, dt[0])
BY DEF AvgStart, NoInitialIterations, InitialIterations, SetCurrentCfl, CflAbort, clock_vars

LEMMA AvgNextIsNext == [AvgNext]_avg_vars => [Next]_evolve_vars
<1>1. ASSUME NEW c \in CflDts, AvgStart(c) \/ AvgStep(c)
      PROVE  Step
  BY <1>1 DEF AvgStart, AvgStep, Step
<1>2. ASSUME NEW chk \in Checkpoints, AvgRestart(chk)
      PROVE  ReadCheckpointFile(chk)
  BY <1>2 DEF AvgRestart
<1>3. CASE AvgAdvance
  BY <1>3 DEF AvgAdvance, Next, Step
<1>4. CASE UNCHANGED avg_vars
  BY <1>4 DEF avg_vars
<1>5. QED
  BY <1>1, <1>2, <1>3, <1>4 DEF AvgNext, Next

LEMMA NextAvgTypeOK ==
  ASSUME TypeOK, AvgTypeOK, [AvgNext]_avg_vars
  PROVE  AvgTypeOK'
<1>1. new_time \in Int /\ dt[0] \in Int /\ mean \in [num : [SampleIds -> Int], den : Int]
  BY ScheduleTypes DEF AvgTypeOK
<1>2. PICK old \in [num : [SampleIds -> Int], den : Int], t \in Int, d \in Int :
        old = mean /\ t = new_time /\ d = dt[0]
  BY <1>1
<1>3. ASSUME avg' = avg, AvgWork(mean, new_time, dt[0])
      PROVE  AvgTypeOK'
  <2>1. AvgWork(old, t, d)
    BY <1>2, <1>3
  <2>2. QED
    BY <1>3, <2>1, WorkType
<1>4. ASSUME NEW c \in CflDts, AvgStart(c)
      PROVE  AvgTypeOK'
  BY <1>3, <1>4 DEF AvgStart
<1>5. ASSUME NEW c \in CflDts, AvgStep(c)
      PROVE  AvgTypeOK'
  BY <1>5 DEF AvgStep, AvgTypeOK
<1>6. ASSUME NEW chk \in Checkpoints, AvgRestart(chk)
      PROVE  AvgTypeOK'
  <2>1. chk.time \in Int
    BY DEF Header
  <2>2. AvgWork(RestoredField, chk.time, d) /\ avg' = avg
    BY <1>2, <1>6 DEF AvgRestart
  <2>3. QED
    BY <2>1, <2>2, FieldsOfMean, WorkType
<1>7. CASE AvgAdvance
  BY <1>3, <1>7 DEF AvgAdvance
<1>8. CASE UNCHANGED avg_vars
  BY <1>8 DEF avg_vars, AvgTypeOK
<1>9. QED
  BY <1>4, <1>5, <1>6, <1>7, <1>8 DEF AvgNext

LEMMA NextAvgInv ==
  ASSUME TypeOK, LoopInv, ScheduleInv, AvgTypeOK, AvgInv, [AvgNext]_avg_vars
  PROVE  AvgInv'
<1>0. cur_time \in Int /\ new_time \in Int /\ start_time \in Int /\ dt[0] \in Int
  BY ScheduleTypes
<1>1. ASSUME NEW c \in CflDts, AvgStart(c)
      PROVE  AvgInv'
  <2>1. /\ stage = "init" /\ stage' \in {"init_out", "abort"} /\ new_time = 0
        /\ UNCHANGED << cfg, new_time, start_time, avg >>
        /\ AvgWork(mean, 0, dt[0])
    <3>1. stage = "init" => new_time = 0
      BY DEF LoopInv
    <3>2. QED
      BY <1>1, <3>1, AvgStarted
  <2>2. samples = << >> /\ accumulated = 0 /\ mean = ZeroField
        /\ (~Adaptive => dt[0] >= 1) /\ (Adaptive => dt[0] = -1)
    BY <2>1 DEF AvgInv
  <2>3. PICK d \in Int : d = dt[0]
    BY <1>0
  <2>4. AvgWork(ZeroField, 0, d)
    BY <2>1, <2>2, <2>3
  <2>5. ASSUME StepsKnown
        PROVE  SamplesUpTo(0)' /\ PhasesUpTo(0)' /\ WeightsUpTo(0)'
    <3>1. Adaptive => avg.start_time > 1
      BY <2>5 DEF StepsKnown
    <3>2. QED
      BY <2>1, <2>2, <2>3, <2>4, <3>1, FieldsOfMean, StartSampled
  <2>6. Reached' = 0 /\ stage' # "init" /\ (StepsKnown' => StepsKnown)
    BY <2>1 DEF Reached, StepsKnown, Adaptive, FirstRun
  <2>7. StepsKnown' => SamplesUpTo(Reached)' /\ PhasesUpTo(Reached)' /\ WeightsUpTo(Reached)'
    BY <2>5, <2>6 DEF SamplesUpTo, PhasesUpTo, WeightsUpTo, Phase
  <2>8. QED
    BY <2>6, <2>7 DEF AvgInv
<1>2. ASSUME NEW chk \in Checkpoints, AvgRestart(chk)
      PROVE  AvgInv'
  <2>1. /\ stage = "init" /\ stage' = "top"
        /\ new_time' = chk.time /\ start_time' = chk.time
        /\ UNCHANGED << cfg, avg >>
        /\ AvgWork(RestoredField, chk.time, dt[0])
    BY <1>2 DEF AvgRestart, ReadCheckpointFile, SetRestartTime
  <2>2. samples = << >> /\ accumulated = 0
        /\ (~Adaptive => dt[0] >= 1) /\ (Adaptive => dt[0] = -1)
    BY <2>1 DEF AvgInv
  <2>3. PICK d \in Int : d = dt[0]
    BY <1>0
  <2>4. ASSUME StepsKnown', FirstRun'
        PROVE  SamplesUpTo(0)' /\ PhasesUpTo(0)' /\ WeightsUpTo(0)'
    <3>1. chk.time = 0
      BY <2>1, <2>4 DEF FirstRun
    <3>2. AvgWork(RestoredField, 0, d)
      BY <2>1, <2>3, <3>1
    <3>3. Adaptive => avg.start_time > 1
      BY <2>1, <2>4 DEF StepsKnown, Adaptive
    <3>4. QED
      BY <2>1, <2>2, <2>3, <3>2, <3>3, FieldsOfMean, StartSampled
  <2>5. FirstRun' => Reached' = 0
    BY <2>1 DEF Reached, FirstRun
  <2>6. StepsKnown' /\ FirstRun' =>
          SamplesUpTo(Reached)' /\ PhasesUpTo(Reached)' /\ WeightsUpTo(Reached)'
    BY <2>4, <2>5 DEF SamplesUpTo, PhasesUpTo, WeightsUpTo, Phase
  <2>7. QED
    BY <2>1, <2>6 DEF AvgInv
<1>3. ASSUME AvgQuiet
      PROVE  AvgInv'
  <2>1. /\ UNCHANGED << cfg, start_time, avg, accumulated, mean, samples >>
        /\ Reached' = Reached /\ stage # "init" /\ stage' # "init"
    BY <1>3 DEF AvgQuiet
  <2>2. StepsKnown' = StepsKnown /\ FirstRun' = FirstRun
    BY <2>1 DEF StepsKnown, Adaptive, FirstRun
  <2>3. /\ SamplesUpTo(Reached)' = SamplesUpTo(Reached)
        /\ PhasesUpTo(Reached)' = PhasesUpTo(Reached)
        /\ WeightsUpTo(Reached)' = WeightsUpTo(Reached)
    BY <2>1 DEF SamplesUpTo, PhasesUpTo, WeightsUpTo, Phase, LastSample, Adaptive
  <2>4. QED
    BY <2>1, <2>2, <2>3 DEF AvgInv
<1>4. CASE AvgAdvance
  <2>1. /\ stage = "post" /\ stage' = "top"
        /\ UNCHANGED << cfg, new_time, start_time, avg >>
        /\ AvgWork(mean, new_time, dt[0])
    BY <1>4 DEF AvgAdvance, PostAdvanceWork, clock_vars
  <2>2. new_time = cur_time + dt[0] /\ dt[0] >= 1 /\ cur_time >= 0
    BY <2>1 DEF ScheduleInv, LoopInv
  <2>3. PICK t \in Nat : t = new_time
    BY <1>0, <2>2
  <2>4. PICK d \in Int : d = dt[0]
    BY <1>0
  <2>5. t - d = cur_time /\ Reached = cur_time /\ Reached' = t
    BY <1>0, <2>1, <2>2, <2>3, <2>4 DEF Reached
  <2>6. StepsKnown' = StepsKnown /\ FirstRun' = FirstRun
    BY <2>1 DEF StepsKnown, Adaptive, FirstRun
  <2>7. ASSUME StepsKnown, FirstRun
        PROVE  SamplesUpTo(t)' /\ PhasesUpTo(t)' /\ WeightsUpTo(t)'
    <3>1. SamplesUpTo(t - d) /\ PhasesUpTo(t - d) /\ WeightsUpTo(t - d)
      BY <2>1, <2>5, <2>7 DEF AvgInv
    <3>2. AvgWork(mean, t, d) /\ d >= 1
      BY <2>1, <2>2, <2>3, <2>4
    <3>3. QED
      BY <2>1, <2>7, <3>1, <3>2, StepSampled
  <2>8. StepsKnown /\ FirstRun =>
          SamplesUpTo(Reached)' /\ PhasesUpTo(Reached)' /\ WeightsUpTo(Reached)'
    BY <2>5, <2>7 DEF SamplesUpTo, PhasesUpTo, WeightsUpTo, Phase
  <2>9. QED
    BY <2>1, <2>6, <2>8 DEF AvgInv
<1>5. CASE UNCHANGED avg_vars
  BY <1>5 DEF avg_vars, evolve_vars, clock_vars, AvgInv, SamplesUpTo, PhasesUpTo, WeightsUpTo,
              Phase, LastSample, Reached, StepsKnown, FirstRun, Adaptive
<1>6. QED
  BY <1>1, <1>2, <1>3, <1>4, <1>5, AvgStepQuiet DEF AvgNext

LEMMA AvgInvariant == DelaysHaveDt => (AvgSpec => []AvgTypeOK /\ []AvgInv)
<1> SUFFICES ASSUME DelaysHaveDt PROVE AvgSpec => []AvgTypeOK /\ []AvgInv
  OBVIOUS
<1>1. AvgInit => Init
  BY DEF AvgInit
<1>2. AvgSpec => Spec
  BY <1>1, AvgNextIsNext, PTL DEF AvgSpec, Spec
<1>3. Spec => []LoopInv /\ []ScheduleInv
  BY LoopInvariant, ScheduleInvariant, PTL
<1>4. TypeOK /\ AvgTypeOK /\ [AvgNext]_avg_vars => AvgTypeOK'
  BY NextAvgTypeOK
<1>5. TypeOK /\ LoopInv /\ ScheduleInv /\ AvgTypeOK /\ AvgInv /\ [AvgNext]_avg_vars => AvgInv'
  BY NextAvgInv
<1>6. QED
  BY <1>2, <1>3, <1>4, <1>5, InitAvgInv, TypeCorrect, PTL DEF AvgSpec

-----------------------------------------------------------------------------
(* Phase averaging (time_interval of TimeAveraging) takes one sample in    *)
(* every period in which a step ends: post_advance_work takes the fraction *)
(* of the period for the present time and compares it with the step, as    *)
(* write_plot_file does.                                                   *)
THEOREM OneSampleInEachPhase == DelaysHaveDt => (AvgSpec => []OneSamplePerPhase)
<1> SUFFICES ASSUME DelaysHaveDt PROVE AvgSpec => []OneSamplePerPhase
  OBVIOUS
<1>1. AvgInv => OneSamplePerPhase
  <2> SUFFICES ASSUME AvgInv, StepsKnown, FirstRun, avg.time_interval > 0
               PROVE  /\ \A i, j \in DOMAIN samples :
                           i < j => Phase(samples[i]) < Phase(samples[j])
                      /\ stage = "top" /\ ~is_init /\ new_time >= avg.start_time
                           /\ new_time < avg.stop_time
                         => samples # << >> /\ Phase(LastSample) = Phase(new_time)
    BY DEF OneSamplePerPhase, LastSample
  <2>1. CASE stage = "init"
    BY <2>1 DEF AvgInv
  <2>2. CASE stage # "init"
    BY <2>2 DEF AvgInv, PhasesUpTo, Reached
  <2>3. QED
    BY <2>1, <2>2
<1>2. QED
  BY <1>1, AvgInvariant, PTL

(* Without a window the mean of ReAveraging is the time average, however   *)
(* the steps vary and whatever phases are sampled: the weight of a sample  *)
(* is the time since the one before it.  (MaxTime bounds the times that    *)
(* the model gives weights to.)                                            *)
THEOREM MeanIsTimeWeighted ==
  DelaysHaveDt => (AvgSpec /\ [](new_time <= MaxTime) => []MeanIsTimeAverage)
<1> SUFFICES ASSUME DelaysHaveDt
             PROVE  AvgSpec /\ [](new_time <= MaxTime) => []MeanIsTimeAverage
  OBVIOUS
<1>1. TypeOK /\ LoopInv /\ AvgInv /\ new_time <= MaxTime => MeanIsTimeAverage
  <2> SUFFICES ASSUME TypeOK, LoopInv, AvgInv, new_time <= MaxTime,
                      StepsKnown, FirstRun, avg.window >= MaxTime, samples # << >>
               PROVE  \A i \in DOMAIN samples :
                        mean.num[samples[i]] * (LastSample - avg.start_time)
                          = mean.den * (samples[i] - (IF i = 1 THEN avg.start_time
                                                              ELSE samples[i - 1]))
    BY DEF MeanIsTimeAverage, LastSample
  <2>1. stage # "init"
    BY DEF AvgInv
  <2>2. WeightsUpTo(Reached)
    BY <2>1 DEF AvgInv
  <2>3. Reached <= MaxTime
    BY ScheduleTypes DEF Reached, LoopInv
  <2>4. QED
    BY <2>2, <2>3 DEF WeightsUpTo
<1>2. AvgSpec => Spec
  <2>1. AvgInit => Init
    BY DEF AvgInit
  <2>2. QED
    BY <2>1, AvgNextIsNext, PTL DEF AvgSpec, Spec
<1>3. QED
  BY <1>1, <1>2, AvgInvariant, LoopInvariant, TypeCorrect, PTL


-----------------------------------------------------------------------------
(* The sum of the weights (SumOf) is linear in them. *)

LEMMA IdsAreInterval == SampleIds = (-1)..MaxTime /\ MaxTime \in Nat
BY AveragesAssumption DEF SampleIds, Restored

(* A function g of the sums up to each time exists.                        *)
LEMMA PrefixSums ==
  ASSUME NEW num \in [SampleIds -> Int]
  PROVE  \E g \in [SampleIds -> Int] :
           g = [s \in SampleIds |-> num[s] + (IF s = Restored THEN 0 ELSE g[s - 1])]
<1> DEFINE Sums(g, n) ==
             /\ g \in [(-1)..n -> Int]
             /\ \A s \in (-1)..n : g[s] = num[s] + (IF s = -1 THEN 0 ELSE g[s - 1])
           S == {n \in (-1)..MaxTime : \E g \in [(-1)..n -> Int] : Sums(g, n)}
<1>1. -1 \in S
  <2> DEFINE g == [s \in (-1)..(-1) |-> num[s]]
  <2>1. -1 \in SampleIds /\ num[-1] \in Int /\ (-1)..(-1) = {-1} /\ -1 \in (-1)..MaxTime
    BY IdsAreInterval
  <2>2. g \in [(-1)..(-1) -> Int]
    BY <2>1
  <2>3. \A s \in (-1)..(-1) : g[s] = num[s] + (IF s = -1 THEN 0 ELSE g[s - 1])
    <3>1. g[-1] = num[-1]
      BY <2>1
    <3> HIDE DEF g
    <3>2. QED
      BY <2>1, <3>1
  <2> HIDE DEF g
  <2>4. QED
    BY <2>1, <2>2, <2>3
<1>2. ASSUME NEW n \in (-1)..(MaxTime - 1), n \in S
      PROVE  n + 1 \in S
  <2>1. PICK g \in [(-1)..n -> Int] : Sums(g, n)
    BY <1>2
  <2> DEFINE h == [s \in (-1)..(n + 1) |-> IF s = n + 1 THEN num[n + 1] + g[n] ELSE g[s]]
  <2>2. num[n + 1] \in Int /\ g[n] \in Int
    BY IdsAreInterval
  <2>3. h \in [(-1)..(n + 1) -> Int]
    BY <2>1, <2>2
  <2>4. \A s \in (-1)..(n + 1) : h[s] = num[s] + (IF s = -1 THEN 0 ELSE h[s - 1])
    BY <2>1, <2>2
  <2>5. n + 1 \in (-1)..MaxTime
    BY IdsAreInterval
  <2> HIDE DEF h
  <2>6. QED
    BY <2>3, <2>4, <2>5
<1> HIDE DEF S
<1>3. MaxTime \in (-1)..MaxTime /\ -1 \in Int /\ MaxTime \in Int
  BY IdsAreInterval
<1>4. MaxTime \in S
  BY <1>1, <1>2, <1>3, IntervalInduction
<1>5. PICK g \in [(-1)..MaxTime -> Int] : Sums(g, MaxTime)
  BY <1>4 DEF S
<1>6. g = [s \in SampleIds |-> num[s] + (IF s = Restored THEN 0 ELSE g[s - 1])]
  BY <1>5, IdsAreInterval DEF Restored
<1>7. QED
  BY <1>5, <1>6, IdsAreInterval

LEMMA SumOfPrefix ==
  ASSUME NEW num \in [SampleIds -> Int]
  PROVE  \E g : /\ \A s \in SampleIds : g[s] = num[s] + (IF s = -1 THEN 0 ELSE g[s - 1])
                /\ \A s \in SampleIds : g[s] \in Int
                /\ SumOf(num) = g[MaxTime]
<1> DEFINE f == CHOOSE g : g = [s \in SampleIds |-> num[s] + (IF s = Restored THEN 0 ELSE g[s - 1])]
<1>1. \E g : g = [s \in SampleIds |-> num[s] + (IF s = Restored THEN 0 ELSE g[s - 1])]
  BY PrefixSums
<1>2. f = [s \in SampleIds |-> num[s] + (IF s = Restored THEN 0 ELSE f[s - 1])]
  BY <1>1, Zenon
<1>3. SumOf(num) = f[MaxTime]
  BY Zenon DEF SumOf
<1> HIDE DEF f
<1>4. \A s \in SampleIds : f[s] = num[s] + (IF s = -1 THEN 0 ELSE f[s - 1])
  BY <1>2 DEF Restored
<1> DEFINE S == {s \in SampleIds : f[s] \in Int}
<1>5. -1 \in S
  <2>1. -1 \in SampleIds /\ num[-1] \in Int
    BY IdsAreInterval
  <2>2. f[-1] = num[-1] + 0
    BY <1>4, <2>1
  <2>3. QED
    BY <2>1, <2>2
<1>6. ASSUME NEW n \in (-1)..(MaxTime - 1), n \in S
      PROVE  n + 1 \in S
  <2>1. n + 1 \in SampleIds /\ n + 1 # -1 /\ (n + 1) - 1 = n
    BY IdsAreInterval
  <2>2. f[n + 1] = num[n + 1] + f[n]
    BY <1>4, <2>1
  <2>3. num[n + 1] \in Int /\ f[n] \in Int
    BY <1>6, <2>1
  <2>4. QED
    BY <2>1, <2>2, <2>3
<1> HIDE DEF S
<1>7. \A s \in (-1)..MaxTime : s \in S
  <2>1. -1 \in Int /\ MaxTime \in Int
    BY IdsAreInterval
  <2>2. QED
    BY <1>5, <1>6, <2>1, IntervalInduction
<1>8. QED
  BY <1>3, <1>4, <1>7, IdsAreInterval DEF S

(* The sum is linear: with all weights scaled and something added to one.  *)
Scaled(w, num, t, a, b) ==
  \A s \in SampleIds : w[s] = num[s] * a + (IF s = t THEN b ELSE 0)

LEMMA SumOfScaled ==
  ASSUME NEW num \in [SampleIds -> Int], NEW w \in [SampleIds -> Int], NEW t \in SampleIds,
         NEW a \in Int, NEW b \in Int,
         Scaled(w, num, t, a, b)
  PROVE  SumOf(num) \in Int /\ SumOf(w) = SumOf(num) * a + b
<1>0. \A s \in SampleIds : w[s] = num[s] * a + (IF s = t THEN b ELSE 0)
  BY DEF Scaled
<1>1. PICK g : /\ \A s \in SampleIds : g[s] = num[s] + (IF s = -1 THEN 0 ELSE g[s - 1])
               /\ \A s \in SampleIds : g[s] \in Int
               /\ SumOf(num) = g[MaxTime]
  BY SumOfPrefix
<1>2. PICK h : /\ \A s \in SampleIds : h[s] = w[s] + (IF s = -1 THEN 0 ELSE h[s - 1])
               /\ \A s \in SampleIds : h[s] \in Int
               /\ SumOf(w) = h[MaxTime]
  BY SumOfPrefix
<1> DEFINE S == {s \in SampleIds : h[s] = g[s] * a + (IF t <= s THEN b ELSE 0)}
<1>3. -1 \in S
  <2>1. -1 \in SampleIds /\ num[-1] \in Int /\ t \in Int /\ -1 <= t
    BY IdsAreInterval
  <2>2. g[-1] = num[-1] + 0 /\ h[-1] = w[-1] + 0
    BY <1>1, <1>2, <2>1
  <2>3. w[-1] = num[-1] * a + (IF -1 = t THEN b ELSE 0)
    BY <1>0, <2>1
  <2>4. num[-1] * a \in Int /\ (t <= -1 <=> -1 = t)
    BY <2>1
  <2>5. h[-1] = num[-1] * a + (IF t <= -1 THEN b ELSE 0)
    BY <2>2, <2>3, <2>4
  <2>6. g[-1] = num[-1]
    BY <2>1, <2>2
  <2>7. QED
    BY <2>1, <2>5, <2>6
<1>4. ASSUME NEW n \in (-1)..(MaxTime - 1), n \in S
      PROVE  n + 1 \in S
  <2>1. n \in SampleIds /\ n + 1 \in SampleIds /\ n \in Int /\ n + 1 # -1 /\ (n + 1) - 1 = n /\ t \in Int
    BY IdsAreInterval
  <2>2. h[n] = g[n] * a + (IF t <= n THEN b ELSE 0)
    BY <1>4
  <2>3. h[n + 1] = (num[n + 1] * a + (IF n + 1 = t THEN b ELSE 0)) + h[n]
    BY <1>0, <1>2, <2>1
  <2>4. g[n + 1] = num[n + 1] + g[n] /\ g[n] \in Int /\ num[n + 1] \in Int
    BY <1>1, <2>1
  <2>5. g[n + 1] * a = num[n + 1] * a + g[n] * a /\ num[n + 1] * a \in Int /\ g[n] * a \in Int
    BY <2>4
  <2>6. (IF n + 1 = t THEN b ELSE 0) + (IF t <= n THEN b ELSE 0) = (IF t <= n + 1 THEN b ELSE 0)
    BY <2>1
  <2>7. h[n + 1] = g[n + 1] * a + (IF t <= n + 1 THEN b ELSE 0)
    BY <2>2, <2>3, <2>5, <2>6
  <2>8. QED
    BY <2>1, <2>7
<1> HIDE DEF S
<1>5. \A s \in (-1)..MaxTime : s \in S
  <2>1. -1 \in Int /\ MaxTime \in Int
    BY IdsAreInterval
  <2>2. QED
    BY <1>3, <1>4, <2>1, IntervalInduction
<1>6. MaxTime \in SampleIds /\ MaxTime \in S /\ t <= MaxTime
  BY <1>5, IdsAreInterval
<1>7. h[MaxTime] = g[MaxTime] * a + b
  BY <1>6 DEF S
<1>8. QED
  BY <1>1, <1>2, <1>6, <1>7

(* A mean with one sample more: the weights of the old mean add up to one, *)
(* or it loses all its weight.                                             *)
LEMMA RestoredSum == SumOf(RestoredField.num) = 1
<1> DEFINE num == RestoredField.num
<1>1. num \in [SampleIds -> Int] /\ num[-1] = 1 /\ \A s \in SampleIds : s # -1 => num[s] = 0
  BY IdsAreInterval DEF RestoredField, Restored
<1> HIDE DEF num
<1>2. PICK g : /\ \A s \in SampleIds : g[s] = num[s] + (IF s = -1 THEN 0 ELSE g[s - 1])
               /\ \A s \in SampleIds : g[s] \in Int
               /\ SumOf(num) = g[MaxTime]
  BY <1>1, SumOfPrefix
<1> DEFINE S == {s \in SampleIds : g[s] = 1}
<1>3. -1 \in S
  <2>1. -1 \in SampleIds
    BY IdsAreInterval
  <2>2. g[-1] = num[-1] + 0
    BY <1>2, <2>1
  <2>3. QED
    BY <1>1, <2>1, <2>2
<1>4. ASSUME NEW n \in (-1)..(MaxTime - 1), n \in S
      PROVE  n + 1 \in S
  <2>1. n + 1 \in SampleIds /\ n + 1 # -1 /\ (n + 1) - 1 = n
    BY IdsAreInterval
  <2>2. g[n + 1] = num[n + 1] + g[n]
    BY <1>2, <2>1
  <2>3. num[n + 1] = 0 /\ g[n] = 1
    BY <1>1, <1>4, <2>1
  <2>4. QED
    BY <2>1, <2>2, <2>3
<1> HIDE DEF S
<1>5. \A s \in (-1)..MaxTime : s \in S
  <2>1. -1 \in Int /\ MaxTime \in Int
    BY IdsAreInterval
  <2>2. QED
    BY <1>3, <1>4, <2>1, IntervalInduction
<1>6. MaxTime \in S
  BY <1>5, IdsAreInterval
<1>7. SumOf(num) = 1
  BY <1>2, <1>6 DEF S
<1>8. QED
  BY <1>7 DEF num


(* A mean with one sample more is an average again: of the weights of the  *)
(* old mean the filter's width less the interval is kept.                  *)
LEMMA SampleAverages ==
  ASSUME NEW old \in [num : [SampleIds -> Int], den : Int], NEW t \in SampleIds,
         NEW interval \in Int, NEW elapsed \in Int, interval >= 1, old.den > 0,
         avg.window \in Nat,
         \A s \in SampleIds : old.num[s] >= 0,
         SumOf(old.num) = old.den \/ interval >= elapsed,
         NEW w, w = MeanWith(old, t, interval, elapsed)
  PROVE  /\ w.den > 0
         /\ \A s \in SampleIds : w.num[s] >= 0
         /\ SumOf(w.num) = w.den
<1>1. PICK f \in Int, g \in Int : f = Filter(interval, elapsed) /\ g = Factor(interval, elapsed)
  BY DEF Filter, Factor, Max2, Min2
<1>2. t \in Int
  BY IdsAreInterval
<1>3. /\ f >= 1
      /\ w.den = old.den * f /\ w.den > 0
      /\ \A s \in SampleIds :
           w.num[s] = old.num[s] * g + (IF s = t THEN interval * old.den ELSE 0)
      /\ w.num \in [SampleIds -> Int]
  BY <1>1, <1>2, MeanOfSample
<1>4. f >= interval /\ g = f - interval /\ g >= 0 /\ (interval >= elapsed => g = 0 /\ f = interval)
  BY <1>1 DEF Filter, Factor, Max2, Min2
<1>5. PICK D \in Int, b \in Int : D = old.den /\ b = interval * D /\ b >= 0 /\ D > 0
  BY ProductPositive
<1>6. old.num \in [SampleIds -> Int]
  OBVIOUS
<1>7. SumOf(old.num) \in Int /\ SumOf(w.num) = SumOf(old.num) * g + b
  <2>1. PICK n \in [SampleIds -> Int], m \in [SampleIds -> Int] : n = old.num /\ m = w.num
    BY <1>3, <1>6
  <2>2. Scaled(m, n, t, g, b)
    BY <1>3, <1>5, <2>1 DEF Scaled
  <2>3. SumOf(n) \in Int /\ SumOf(m) = SumOf(n) * g + b
    BY <2>2, SumOfScaled
  <2>4. QED
    BY <2>1, <2>3
<1>8. SumOf(w.num) = D * f
  <2>1. PICK sum \in Int : sum = SumOf(old.num)
    BY <1>7
  <2>2. CASE sum = D
    <3>1. D * (f - interval) + interval * D = D * f
      OBVIOUS
    <3>2. QED
      BY <1>4, <1>5, <1>7, <2>1, <2>2, <3>1
  <2>3. CASE interval >= elapsed
    <3>1. sum * 0 = 0 /\ interval * D = D * interval
      OBVIOUS
    <3>2. QED
      BY <1>4, <1>5, <1>7, <2>1, <2>3, <3>1
  <2>4. QED
    BY <1>5, <2>1, <2>2, <2>3
<1>9. ASSUME NEW s \in SampleIds
      PROVE  w.num[s] >= 0
  <2>1. PICK x \in Int : x = old.num[s] /\ x >= 0
    BY <1>6
  <2>2. x * g >= 0 /\ x * g \in Int
    BY <1>4, <2>1
  <2>3. w.num[s] = x * g + (IF s = t THEN b ELSE 0)
    BY <1>3, <1>5, <2>1
  <2>4. QED
    BY <1>5, <2>2, <2>3
<1>10. QED
  BY <1>3, <1>5, <1>8, <1>9

(* So it is after a call of post_advance_work that samples or not.         *)
LEMMA WorkAverages ==
  ASSUME AvgTypeOK, NEW old \in [num : [SampleIds -> Int], den : Int], NEW t \in SampleIds,
         NEW d \in Int, AvgWork(old, t, d),
         old.den > 0, \A s \in SampleIds : old.num[s] >= 0,
         DoAvg(t, d) => /\ accumulated + d >= 1
                        /\ \/ SumOf(old.num) = old.den
                           \/ accumulated + d >= t - avg.start_time
  PROVE  /\ mean'.den > 0
         /\ \A s \in SampleIds : mean'.num[s] >= 0
         /\ DoAvg(t, d) \/ SumOf(old.num) = old.den => SumOf(mean'.num) = mean'.den
         /\ samples' # << >> => DoAvg(t, d) \/ samples # << >>
<1>1. CASE DoAvg(t, d)
  <2>1. t \in Int /\ accumulated \in Int /\ avg.start_time \in Int /\ avg.window \in Nat
    BY AverageTypes, IdsAreInterval
  <2>2. PICK i \in Int, e \in Int : i = accumulated + d /\ e = t - avg.start_time
    BY <2>1
  <2>3. mean' = MeanWith(old, t, i, e)
    BY <1>1, <2>2 DEF AvgWork, SampledInterval
  <2>4. PICK w : w = MeanWith(old, t, i, e)
    OBVIOUS
  <2>5. i >= 1 /\ (SumOf(old.num) = old.den \/ i >= e)
    BY <1>1, <2>2
  <2>6. /\ w.den > 0
        /\ \A s \in SampleIds : w.num[s] >= 0
        /\ SumOf(w.num) = w.den
    BY <2>1, <2>4, <2>5, SampleAverages
  <2>7. QED
    BY <1>1, <2>3, <2>4, <2>6
<1>2. CASE ~DoAvg(t, d)
  BY <1>2 DEF AvgWork
<1>3. QED
  BY <1>1, <1>2


-----------------------------------------------------------------------------
(* MeanInv is inductive. *)

\* What MeanInv says of the weights.
Averaged ==
  /\ mean.den > 0
  /\ \A s \in SampleIds : mean.num[s] >= 0
  /\ samples # << >> \/ ~FirstRun => SumOf(mean.num) = mean.den

LEMMA NewFields ==
  /\ \A s \in SampleIds : ZeroField.num[s] >= 0
  /\ \A s \in SampleIds : RestoredField.num[s] >= 0
  /\ SumOf(RestoredField.num) = RestoredField.den
BY RestoredSum DEF ZeroField, RestoredField

LEMMA StartAveraged ==
  ASSUME LoopInv, AvgTypeOK, AvgInv, NEW c \in CflDts, AvgStart(c), dt[0] \in Int
  PROVE  MeanInv'
<1>1. stage = "init" => new_time = 0 /\ start_time = 0
  BY DEF LoopInv
<1>2. /\ stage = "init" /\ new_time = 0 /\ start_time = 0
      /\ UNCHANGED << cfg, start_time, avg >>
      /\ AvgWork(mean, 0, dt[0])
  BY <1>1, AvgStarted
<1>3. samples = << >> /\ accumulated = 0 /\ mean = ZeroField
      /\ (~Adaptive => dt[0] >= 1)
  BY <1>2 DEF AvgInv
<1>4. PICK d \in Int : d = dt[0]
  OBVIOUS
<1>5. AvgWork(ZeroField, 0, d) /\ 0 \in SampleIds /\ 0 \in Int /\ avg.start_time \in Nat
  BY <1>2, <1>3, <1>4, IdsAreInterval, AverageTypes
<1>6. FirstRun /\ FirstRun' /\ StepsKnown' = StepsKnown
  BY <1>2 DEF StepsKnown, Adaptive, FirstRun
<1>7. ASSUME StepsKnown
      PROVE  Averaged'
  <2>1. ASSUME DoAvg(0, d)
        PROVE  accumulated + d >= 1 /\ accumulated + d >= 0 - avg.start_time
    <3>1. avg.start_time = 0
      BY <1>5, <2>1 DEF DoAvg
    <3>2. d >= 1
      BY <1>3, <1>4, <1>7, <3>1 DEF StepsKnown
    <3>3. QED
      BY <1>3, <3>1, <3>2
  <2>2. /\ mean'.den > 0
        /\ \A s \in SampleIds : mean'.num[s] >= 0
        /\ DoAvg(0, d) \/ SumOf(ZeroField.num) = ZeroField.den => SumOf(mean'.num) = mean'.den
        /\ samples' # << >> => DoAvg(0, d) \/ samples # << >>
    BY <1>5, <2>1, FieldsOfMean, NewFields, WorkAverages
  <2>3. QED
    BY <1>3, <1>6, <2>2 DEF Averaged
<1>8. QED
  BY <1>6, <1>7 DEF MeanInv, Averaged

LEMMA RestartAveraged ==
  ASSUME AvgTypeOK, AvgInv, NEW chk \in Checkpoints, AvgRestart(chk), dt[0] \in Int,
         new_time' <= MaxTime
  PROVE  MeanInv'
<1>1. /\ stage = "init" /\ new_time' = chk.time /\ start_time' = chk.time
      /\ UNCHANGED << cfg, avg >>
      /\ AvgWork(RestoredField, chk.time, dt[0])
  BY DEF AvgRestart, ReadCheckpointFile, SetRestartTime
<1>2. samples = << >> /\ accumulated = 0 /\ (~Adaptive => dt[0] >= 1)
  BY <1>1 DEF AvgInv
<1>3. PICK d \in Int : d = dt[0]
  OBVIOUS
<1>4. PICK t \in Nat : t = chk.time
  BY DEF Header
<1>5. AvgWork(RestoredField, t, d) /\ t \in SampleIds /\ avg.start_time \in Nat
  BY <1>1, <1>3, <1>4, IdsAreInterval, AverageTypes
<1>6. Adaptive' = Adaptive /\ (FirstRun' <=> t = 0)
  BY <1>1, <1>4 DEF Adaptive, FirstRun
<1>7. ASSUME StepsKnown'
      PROVE  Averaged' /\ (~FirstRun' => accumulated' >= 0)
  <2>1. ~Adaptive \/ (t = 0 /\ avg.start_time > 1)
    BY <1>1, <1>6, <1>7 DEF StepsKnown
  <2>2. ASSUME DoAvg(t, d)
        PROVE  accumulated + d >= 1
    <3>1. t >= avg.start_time
      BY <2>2 DEF DoAvg
    <3>2. d >= 1
      BY <1>2, <1>3, <1>5, <2>1, <3>1
    <3>3. QED
      BY <1>2, <3>2
  <2>3. /\ mean'.den > 0
        /\ \A s \in SampleIds : mean'.num[s] >= 0
        /\ SumOf(mean'.num) = mean'.den
    BY <1>5, <2>2, FieldsOfMean, NewFields, WorkAverages
  <2>4. ASSUME ~FirstRun'
        PROVE  accumulated' >= 0
    <3>1. d >= 1
      BY <1>2, <1>3, <1>6, <2>1, <2>4
    <3>2. accumulated' = IF DoAvg(t, d) THEN 0 ELSE 0 + d
      BY <1>2, <1>5 DEF AvgWork, Accumulate
    <3>3. QED
      BY <3>1, <3>2
  <2>5. QED
    BY <2>3, <2>4 DEF Averaged
<1>8. QED
  BY <1>7 DEF MeanInv, Averaged

LEMMA AdvanceAveraged ==
  ASSUME LoopInv, ScheduleInv, AvgTypeOK, AvgInv, MeanInv, AvgAdvance, dt[0] \in Int,
         cur_time \in Int, new_time \in Int, start_time \in Int, new_time <= MaxTime
  PROVE  MeanInv'
<1>1. /\ stage = "post" /\ stage' = "top"
      /\ UNCHANGED << cfg, start_time, avg >>
      /\ AvgWork(mean, new_time, dt[0])
  BY DEF AvgAdvance, PostAdvanceWork, clock_vars
<1>2. new_time = cur_time + dt[0] /\ dt[0] >= 1 /\ cur_time >= 0
  BY <1>1 DEF ScheduleInv, LoopInv
<1>3. PICK t \in Nat, d \in Int : t = new_time /\ d = dt[0]
  BY <1>2
<1>4. PICK old \in [num : [SampleIds -> Int], den : Int] : old = mean
  BY DEF AvgTypeOK
<1>5. /\ AvgWork(old, t, d) /\ t \in SampleIds /\ avg.start_time \in Nat
      /\ accumulated \in Int /\ d >= 1 /\ Reached = t - d
  <2>1. AvgWork(old, t, d)
    BY <1>1, <1>3, <1>4
  <2>2. t \in SampleIds
    BY <1>3, IdsAreInterval
  <2>3. d >= 1 /\ Reached = t - d
    BY <1>1, <1>2, <1>3 DEF Reached
  <2>4. QED
    BY <2>1, <2>2, <2>3, AverageTypes
<1>6. StepsKnown' = StepsKnown /\ FirstRun' = FirstRun
  BY <1>1 DEF StepsKnown, Adaptive, FirstRun
<1>7. ASSUME StepsKnown
      PROVE  Averaged' /\ (~FirstRun' => accumulated' >= 0)
  <2>1. Averaged /\ (~FirstRun => accumulated >= 0)
    BY <1>1, <1>7 DEF MeanInv, Averaged
  <2>2. ASSUME DoAvg(t, d)
        PROVE  /\ accumulated + d >= 1
               /\ SumOf(old.num) = old.den \/ accumulated + d >= t - avg.start_time
    <3>1. t >= avg.start_time
      BY <2>2 DEF DoAvg
    <3>2. CASE ~FirstRun
      BY <1>4, <1>5, <2>1, <3>2 DEF Averaged
    <3>3. CASE FirstRun /\ samples = << >>
      <4>1. accumulated >= (IF Adaptive THEN (t - d) - 1 ELSE (t - d) + 1)
        BY <1>1, <1>5, <1>7, <3>3 DEF AvgInv, SamplesUpTo
      <4>2. Adaptive => avg.start_time > 1
        BY <1>7 DEF StepsKnown
      <4>3. QED
        BY <1>5, <3>1, <4>1, <4>2
    <3>4. CASE FirstRun /\ samples # << >>
      <4>1. SamplesUpTo(t - d)
        BY <1>1, <1>5, <1>7, <3>4 DEF AvgInv
      <4>2. accumulated = (t - d) - LastSample /\ LastSample \in Int /\ LastSample <= t - d
        BY <3>4, <4>1, AverageTypes DEF SamplesUpTo, LastSample
      <4>3. SumOf(old.num) = old.den
        BY <1>4, <2>1, <3>4 DEF Averaged
      <4>4. QED
        BY <1>5, <4>2, <4>3
    <3>5. QED
      BY <3>2, <3>3, <3>4
  <2>3. old.den > 0 /\ \A s \in SampleIds : old.num[s] >= 0
    BY <1>4, <2>1 DEF Averaged
  <2>4. /\ mean'.den > 0
        /\ \A s \in SampleIds : mean'.num[s] >= 0
        /\ DoAvg(t, d) \/ SumOf(old.num) = old.den => SumOf(mean'.num) = mean'.den
        /\ samples' # << >> => DoAvg(t, d) \/ samples # << >>
    BY <1>5, <2>2, <2>3, WorkAverages
  <2>5. samples # << >> \/ ~FirstRun => SumOf(old.num) = old.den
    BY <1>4, <2>1 DEF Averaged
  <2>6. Averaged'
    BY <1>6, <2>4, <2>5 DEF Averaged
  <2>7. ~FirstRun => accumulated' >= 0
    BY <1>5, <2>1 DEF AvgWork, Accumulate
  <2>8. QED
    BY <1>6, <2>6, <2>7
<1>8. QED
  BY <1>6, <1>7 DEF MeanInv, Averaged

LEMMA NextMeanInv ==
  ASSUME TypeOK, LoopInv, ScheduleInv, AvgTypeOK, AvgInv, MeanInv, [AvgNext]_avg_vars,
         new_time <= MaxTime, new_time' <= MaxTime
  PROVE  MeanInv'
<1>1. cur_time \in Int /\ new_time \in Int /\ start_time \in Int /\ dt[0] \in Int
  BY ScheduleTypes
<1>2. ASSUME NEW c \in CflDts, AvgStart(c)
      PROVE  MeanInv'
  BY <1>1, <1>2, StartAveraged
<1>3. ASSUME NEW chk \in Checkpoints, AvgRestart(chk)
      PROVE  MeanInv'
  BY <1>1, <1>3, RestartAveraged
<1>4. ASSUME AvgQuiet
      PROVE  MeanInv'
  BY <1>4 DEF AvgQuiet, MeanInv, StepsKnown, FirstRun, Adaptive
<1>5. CASE AvgAdvance
  BY <1>1, <1>5, AdvanceAveraged
<1>6. CASE UNCHANGED avg_vars
  BY <1>6 DEF avg_vars, evolve_vars, clock_vars, MeanInv, StepsKnown, FirstRun, Adaptive
<1>7. QED
  BY <1>2, <1>3, <1>4, <1>5, <1>6, AvgStepQuiet DEF AvgNext

(* The mean of ReAveraging is a mean: with and without a window, after a   *)
(* restart, with fixed and with adaptive steps, its weights are never      *)
(* negative and add up to one.  It cannot leave the range of the samples,  *)
(* and the mean of a constant field is that constant.                      *)
THEOREM MeanIsAnAverage ==
  DelaysHaveDt => (AvgSpec /\ [](new_time <= MaxTime) => []MeanIsAverage)
<1> SUFFICES ASSUME DelaysHaveDt
             PROVE  AvgSpec /\ [](new_time <= MaxTime) => []MeanIsAverage
  OBVIOUS
<1>1. AvgSpec => Spec
  <2>1. AvgInit => Init
    BY DEF AvgInit
  <2>2. QED
    BY <2>1, AvgNextIsNext, PTL DEF AvgSpec, Spec
<1>2. AvgInit => MeanInv
  BY DEF AvgInit, Init, MeanInv
<1>3. TypeOK /\ LoopInv /\ ScheduleInv /\ AvgTypeOK /\ AvgInv /\ MeanInv /\ [AvgNext]_avg_vars
        /\ new_time <= MaxTime /\ (new_time <= MaxTime)' => MeanInv'
  BY NextMeanInv
<1>4. AvgInv /\ MeanInv => MeanIsAverage
  BY DEF AvgInv, MeanInv, MeanIsAverage, IsAverage
<1>5. Spec => []LoopInv /\ []ScheduleInv
  BY LoopInvariant, ScheduleInvariant, PTL
<1>6. QED
  BY <1>1, <1>2, <1>3, <1>4, <1>5, AvgInvariant, TypeCorrect, PTL DEF AvgSpec

=============================================================================
