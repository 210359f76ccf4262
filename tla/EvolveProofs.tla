---------------------------- MODULE EvolveProofs ----------------------------
(***************************************************************************)
(* Theorems about the clock and the time loop, for every set of input      *)
(* files, CFL steps and checkpoints.                                       *)
(***************************************************************************)
EXTENDS Evolve, IntervalLemmas

USE InputsAssumption, CflAssumption, CheckpointsAssumption

LEMMA CfgType ==
  ASSUME ClockTypeOK
  PROVE  /\ cfg.stop_time \in Int /\ cfg.max_step \in Int /\ cfg.delay_time \in Int
         /\ cfg.fixed_dt \in Int /\ cfg.initial_dt \in Int /\ cfg.max_dt \in Int
         /\ cfg.min_dt \in Int /\ cfg.init_shrink \in Nat /\ cfg.dt_growth \in Nat
         /\ \A k \in Kinds :
              /\ cfg.interval[k] \in Int /\ cfg.t_interval[k] \in Int
              /\ cfg.delay[k] \in Int /\ cfg.t_delay[k] \in Int
              /\ cfg.force_dt[k] \in BOOLEAN
              /\ cfg.start[k] \in Int /\ cfg.start_time[k] \in Int
         /\ cfg.regrid_start \in Int
         /\ cfg.post.t_interval \in Int /\ cfg.post.t_delay \in Int
         /\ cfg.post.enforce_dt \in BOOLEAN
         /\ cfg.initial_iterations \in BOOLEAN
         /\ cfg \in Inputs
<1>1. cfg \in Input
  BY DEF ClockTypeOK
<1>2. QED
  BY <1>1 DEF Input, ClockTypeOK

(* Nothing set_current_cfl does to a step makes it anything but a number.  *)
LEMMA LimitedDtType ==
  ASSUME ClockTypeOK, NEW c \in CflDts
  PROVE  LimitedDt(c) \in Int
<1> USE CfgType
<1>1. AllowedDt(c) \in Int
  <2>1. c \in Int /\ HugeDt \in Int /\ cfg.initial_dt \in Int
    OBVIOUS
  <2>2. CASE ~AtRest(c)
    BY <2>1, <2>2 DEF AllowedDt
  <2>3. CASE AtRest(c) /\ Adaptive /\ ~is_init
    BY <2>1, <2>3 DEF AllowedDt
  <2>4. CASE AtRest(c) /\ ~(Adaptive /\ ~is_init)
    BY <2>1, <2>4 DEF AllowedDt
  <2>5. QED
    BY <2>2, <2>3, <2>4
<1>2. Shrunk(AllowedDt(c)) \in Int
  BY <1>1 DEF Shrunk, Max2
<1>3. dt[0] \in Int
  BY DEF ClockTypeOK
<1>4. Growth(dt[0]) \in Int
  BY <1>3 DEF Growth
<1>5. GrowthLimited(Shrunk(AllowedDt(c))) \in Int
  BY <1>2, <1>3, <1>4 DEF GrowthLimited, Min2
<1>6. QED
  BY <1>5 DEF LimitedDt, Min2

LEMMA EnforcedType ==
  ASSUME cur_time \in Int, NEW d \in Int, NEW i \in Int, NEW w \in Int, NEW e \in BOOLEAN
  PROVE  Enforced(d, i, w, e) \in Int /\ Enforced(d, i, w, e) <= d
<1>1. CASE i > 0
  BY <1>1, RemainderRange DEF Enforced, Min2
<1>2. CASE ~(i > 0)
  BY <1>2 DEF Enforced
<1>3. QED
  BY <1>1, <1>2

(* An enforced output time shortens a step, to one tick at least, and      *)
(* keeps it from passing the next multiple of the interval.                *)
LEMMA EnforcedBounds ==
  ASSUME cur_time \in Int, NEW d \in Int, d >= 1,
         NEW i \in Int, NEW w \in Int, NEW e \in BOOLEAN
  PROVE  Enforced(d, i, w, e) >= 1
<1>1. CASE i > 0
  BY <1>1, RemainderRange DEF Enforced, Min2
<1>2. CASE ~(i > 0)
  BY <1>2 DEF Enforced
<1>3. QED
  BY <1>1, <1>2

LEMMA AdaptiveDtType ==
  ASSUME ClockTypeOK, NEW c \in CflDts
  PROVE  /\ AdaptiveDt(c) \in Int
         /\ AdaptiveDt(c) <= ClippedToStop(LimitedDt(c))
         /\ ClippedToStop(LimitedDt(c)) \in Int
<1> USE CfgType
<1>0. "chkpt" \in Kinds /\ "plt" \in Kinds
  BY DEF Kinds
<1> DEFINE d0 == ClippedToStop(LimitedDt(c))
           d1 == EnforcedFor(d0, "chkpt")
           d2 == EnforcedFor(d1, "plt")
           d3 == Enforced(d2, cfg.post.t_interval, cfg.post.t_delay, cfg.post.enforce_dt)
<1>1. cur_time \in Int
  BY DEF ClockTypeOK
<1>2. d0 \in Int
  BY <1>1, LimitedDtType DEF ClippedToStop
<1>3. d1 \in Int /\ d1 <= d0
  <2> HIDE DEF d0
  <2>1. QED
    BY <1>0, <1>1, <1>2, EnforcedType DEF EnforcedFor
<1>4. d2 \in Int /\ d2 <= d1
  <2> HIDE DEF d1
  <2>1. QED
    BY <1>0, <1>1, <1>3, EnforcedType DEF EnforcedFor
<1>5. d3 \in Int /\ d3 <= d2
  <2> HIDE DEF d2
  <2>1. QED
    BY <1>0, <1>1, <1>4, EnforcedType
<1>6. AdaptiveDt(c) = IF is_init /\ cfg.initial_dt > 0 THEN Min2(d3, cfg.initial_dt) ELSE d3
  BY DEF AdaptiveDt
<1> HIDE DEF d0, d1, d2, d3
<1>7. AdaptiveDt(c) \in Int /\ AdaptiveDt(c) <= d0
  BY <1>2, <1>3, <1>4, <1>5, <1>6 DEF Min2
<1>8. QED
  BY <1>2, <1>7 DEF d0

LEMMA CflDtType ==
  ASSUME ClockTypeOK, NEW c \in CflDts
  PROVE  CflDt(c) \in Int
<1> USE CfgType, AdaptiveDtType
<1>1. CASE InDelay
  BY <1>1 DEF CflDt
<1>2. CASE ~InDelay /\ Adaptive
  BY <1>2 DEF CflDt
<1>3. CASE ~InDelay /\ ~Adaptive
  BY <1>3 DEF CflDt
<1>4. QED
  BY <1>1, <1>2, <1>3

-----------------------------------------------------------------------------
(* Type correctness.  The lemmas about single steps hold for a restart     *)
(* from any header, so that they also serve Simulation, whose runs are     *)
(* restarted from the headers they have written.                           *)

AnyStep ==
  \/ Step
  \/ \E chk \in Header : ReadCheckpointFile(chk)
  \/ UNCHANGED evolve_vars

LEMMA NextIsAnyStep == [Next]_evolve_vars => AnyStep
BY DEF Next, AnyStep, Stopped

LEMMA InitTypeOK == Init => TypeOK
<1> SUFFICES ASSUME Init PROVE TypeOK
  OBVIOUS
<1>1. cfg \in Input
  BY DEF Init, ClockInit
<1>2. cfg.fixed_dt \in Int /\ cfg.regrid_start \in Int
      /\ \A k \in Kinds : cfg.start[k] \in Int /\ cfg.start_time[k] \in Int
  BY <1>1 DEF Input
<1>3. ClockTypeOK
  BY <1>2 DEF Init, ClockInit, ClockTypeOK, Or, UnsetDt, StartIndices, StartTimes
<1>4. QED
  BY <1>3 DEF Init, TypeOK, Stages, NoOutput

LEMMA SetCurrentCflType ==
  ASSUME ClockTypeOK, NEW c \in CflDts, SetCurrentCfl(c)
  PROVE  ClockTypeOK'
BY CflDtType DEF SetCurrentCfl, ClockTypeOK

LEMMA NextTypeOK ==
  ASSUME TypeOK, AnyStep
  PROVE  TypeOK'
<1> USE DEF TypeOK, Stages
<1>1. CASE NoInitialIterations
  BY <1>1 DEF NoInitialIterations, ClockTypeOK, clock_vars
<1>2. CASE PrepareForTimeIntegration
  <2>1. ClockTypeOK'
    BY <1>2 DEF PrepareForTimeIntegration, ClockTypeOK, clock_vars
  <2>2. QED
    BY <1>2, <2>1 DEF PrepareForTimeIntegration, Output, ClockTypeOK
<1>3. CASE StartStep
  <2>1. dt' \in [0..2 -> Int] /\ time_index' \in Int
    BY <1>3 DEF StartStep, NewTimestep, ClockTypeOK
  <2>2. ClockTypeOK'
    BY <1>3, <2>1 DEF StartStep, NewTimestep, ClockTypeOK
  <2>3. QED
    BY <1>3, <2>2 DEF StartStep
<1>4. CASE PreAdvance
  BY <1>4 DEF PreAdvance, AdvanceTime, ClockTypeOK
<1>5. CASE PostAdvanceWork
  <2>1. ClockTypeOK'
    BY <1>5 DEF PostAdvanceWork, ClockTypeOK, clock_vars
  <2>2. QED
    BY <1>5, <2>1 DEF PostAdvanceWork, Output, ClockTypeOK
<1>6. CASE OutputAtFinalTime
  <2>1. ClockTypeOK'
    BY <1>6 DEF OutputAtFinalTime, ClockTypeOK, clock_vars
  <2>2. QED
    BY <1>6, <2>1 DEF OutputAtFinalTime, Output, ClockTypeOK
<1>7. ASSUME NEW c \in CflDts, InitialIterations(c) \/ ComputeDt(c)
      PROVE  TypeOK'
  BY <1>7, SetCurrentCflType DEF InitialIterations, ComputeDt
<1>8. ASSUME NEW c \in CflDts, CflAbort(c)
      PROVE  TypeOK'
  BY <1>8 DEF CflAbort, ClockTypeOK, clock_vars
<1>9. ASSUME NEW chk \in Header, ReadCheckpointFile(chk)
      PROVE  TypeOK'
  <2>1. chk \in Header
    BY <1>9
  <2>2. ClockTypeOK'
    BY <1>9, <2>1, CfgType DEF ReadCheckpointFile, SetRestartTime, ClockTypeOK, Header, Or,
                                  StartIndices, StartTimes
  <2>3. QED
    BY <1>9, <2>1, <2>2 DEF ReadCheckpointFile, NoOutput, Header
<1>10. CASE UNCHANGED evolve_vars
  BY <1>10 DEF evolve_vars, clock_vars, ClockTypeOK
<1>11. QED
  BY <1>1, <1>2, <1>3, <1>4, <1>5, <1>6, <1>7, <1>8, <1>9, <1>10
     DEF AnyStep, Step

(* Every variable of the clock and the loop keeps its type.                *)
THEOREM TypeCorrect == Spec => []TypeOK
<1>1. QED
  BY InitTypeOK, NextIsAnyStep, NextTypeOK, PTL DEF Spec

-----------------------------------------------------------------------------
(* The clock between two tests of the loop. *)

(* The step that compute_dt chooses is positive, and an adaptive run with  *)
(* no delay_time does not pass its stop time with it.                      *)
LEMMA LimitedDtPositive ==
  ASSUME ClockTypeOK, NEW c \in CflDts, ~CflAborts(c)
  PROVE  Adaptive => LimitedDt(c) >= 1
<1> USE CfgType
<1> SUFFICES ASSUME Adaptive PROVE LimitedDt(c) >= 1
  OBVIOUS
<1>1. AllowedDt(c) \in Int /\ AllowedDt(c) >= 1
  <2>1. c \in Nat /\ HugeDt \in Nat \ {0} /\ cfg.initial_dt \in Int
    OBVIOUS
  <2>2. CASE ~AtRest(c)
    BY <2>1, <2>2 DEF AllowedDt, AtRest
  <2>3. CASE AtRest(c) /\ Adaptive /\ ~is_init
    <3>1. cfg.initial_dt > 0
      BY <2>3 DEF CflAborts, RestAborts
    <3>2. AllowedDt(c) = cfg.initial_dt
      BY <2>3 DEF AllowedDt
    <3>3. QED
      BY <2>1, <3>1, <3>2
  <2>4. CASE AtRest(c) /\ ~(Adaptive /\ ~is_init)
    BY <2>1, <2>4 DEF AllowedDt
  <2>5. QED
    BY <2>2, <2>3, <2>4
<1>2. Shrunk(AllowedDt(c)) \in Int /\ Shrunk(AllowedDt(c)) >= 1
  BY <1>1 DEF Shrunk, Max2
<1>3. dt[0] \in Int
  BY DEF ClockTypeOK
<1>4. dt[0] > 0 => Growth(dt[0]) \in Int /\ Growth(dt[0]) >= 1
  BY <1>3, PerCentOfNat DEF Growth
<1>5. GrowthLimited(Shrunk(AllowedDt(c))) \in Int /\ GrowthLimited(Shrunk(AllowedDt(c))) >= 1
  BY <1>2, <1>3, <1>4 DEF GrowthLimited, Min2
<1>6. QED
  BY <1>5 DEF LimitedDt, Min2

LEMMA AdaptiveDtPositive ==
  ASSUME ClockTypeOK, NEW c \in CflDts, Adaptive, ~CflAborts(c),
         cfg.stop_time > 0 => cur_time < cfg.stop_time
  PROVE  AdaptiveDt(c) >= 1
<1> USE CfgType
<1>0. "chkpt" \in Kinds /\ "plt" \in Kinds /\ cur_time \in Int
  BY DEF Kinds, ClockTypeOK
<1> DEFINE d0 == ClippedToStop(LimitedDt(c))
           d1 == EnforcedFor(d0, "chkpt")
           d2 == EnforcedFor(d1, "plt")
           d3 == Enforced(d2, cfg.post.t_interval, cfg.post.t_delay, cfg.post.enforce_dt)
<1>1. d0 \in Int /\ d0 >= 1
  <2> DEFINE d == LimitedDt(c)
  <2>1. d \in Int /\ d >= 1
    BY LimitedDtType, LimitedDtPositive
  <2>2. d0 = IF cfg.stop_time > 0 /\ cur_time + d > cfg.stop_time
             THEN cfg.stop_time - cur_time ELSE d
    BY DEF ClippedToStop
  <2> HIDE DEF d, d0
  <2>3. QED
    BY <1>0, <2>1, <2>2
<1>2. d1 \in Int /\ d1 >= 1
  <2> HIDE DEF d0
  <2>1. QED
    BY <1>0, <1>1, EnforcedType, EnforcedBounds DEF EnforcedFor
<1>3. d2 \in Int /\ d2 >= 1
  <2> HIDE DEF d1
  <2>1. QED
    BY <1>0, <1>2, EnforcedType, EnforcedBounds DEF EnforcedFor
<1>4. d3 \in Int /\ d3 >= 1
  <2> HIDE DEF d2
  <2>1. QED
    BY <1>0, <1>3, EnforcedType, EnforcedBounds
<1>5. AdaptiveDt(c) = IF is_init /\ cfg.initial_dt > 0 THEN Min2(d3, cfg.initial_dt) ELSE d3
  BY DEF AdaptiveDt
<1> HIDE DEF d3
<1>6. QED
  BY <1>4, <1>5 DEF Min2

(* cur_time is before delay_time only where there is a delay_time.         *)
LEMMA InDelayHasDelay ==
  ASSUME ClockTypeOK, cur_time >= 0, InDelay
  PROVE  cfg.delay_time > 0
BY CfgType DEF InDelay, Max2, ClockTypeOK

LEMMA CflDtPositive ==
  ASSUME ClockTypeOK, NEW c \in CflDts, ~CflAborts(c), cur_time >= 0,
         cfg.delay_time > 0 => cfg.initial_dt > 0,
         cfg.stop_time > 0 => cur_time < cfg.stop_time
  PROVE  CflDt(c) >= 1
<1> USE CfgType
<1>1. CASE InDelay
  <2>1. CflDt(c) = cfg.initial_dt
    BY <1>1 DEF CflDt
  <2>2. QED
    BY <1>1, <2>1, InDelayHasDelay
<1>2. CASE ~InDelay /\ Adaptive
  <2>1. CflDt(c) = AdaptiveDt(c)
    BY <1>2 DEF CflDt
  <2>2. QED
    BY <1>2, <2>1, AdaptiveDtPositive
<1>3. CASE ~InDelay /\ ~Adaptive
  <2>1. CflDt(c) = cfg.fixed_dt
    BY <1>3 DEF CflDt
  <2>2. QED
    BY <1>3, <2>1 DEF Adaptive, IsAdaptive
<1>4. QED
  BY <1>1, <1>2, <1>3

LEMMA CflDtInsideRun ==
  ASSUME ClockTypeOK, NEW c \in CflDts, cur_time >= 0,
         Adaptive, cfg.delay_time <= 0, cfg.stop_time > 0
  PROVE  cur_time + CflDt(c) <= cfg.stop_time
<1> USE CfgType
<1>1. ~InDelay
  BY InDelayHasDelay
<1>2. CflDt(c) = AdaptiveDt(c)
  BY <1>1 DEF CflDt
<1>3. cur_time + ClippedToStop(LimitedDt(c)) <= cfg.stop_time
  BY LimitedDtType DEF ClippedToStop, ClockTypeOK
<1>4. QED
  BY <1>2, <1>3, AdaptiveDtType DEF ClockTypeOK

-----------------------------------------------------------------------------
(* LoopInv is inductive. *)

LEMMA InitLoopInv == Init => LoopInv
BY DEF Init, ClockInit, LoopInv

LEMMA DelayOfRun ==
  ASSUME DelaysHaveDt, ClockTypeOK
  PROVE  cfg.delay_time > 0 => cfg.initial_dt > 0
BY CfgType DEF DelaysHaveDt

LEMMA NextLoopInv ==
  ASSUME DelaysHaveDt, TypeOK, LoopInv, AnyStep
  PROVE  LoopInv'
<1> USE CfgType, DelayOfRun DEF TypeOK
<1> USE DEF LoopInv
<1>0. /\ cur_time \in Int /\ new_time \in Int /\ start_time \in Int /\ time_index \in Int
      /\ dt \in [0..2 -> Int] /\ dt[0] \in Int
  BY DEF ClockTypeOK
<1>1. CASE NoInitialIterations
  BY <1>1 DEF NoInitialIterations, clock_vars, Adaptive, ContinueSimulation
<1>2. CASE PrepareForTimeIntegration
  BY <1>2 DEF PrepareForTimeIntegration, clock_vars, Adaptive, ContinueSimulation
<1>3. CASE StartStep
  <2>1. CASE ContinueSimulation
    <3>1. stage' = "dt" /\ is_init' = FALSE /\ time_index' = time_index + 1
          /\ cur_time' = new_time
          /\ UNCHANGED << cfg, new_time, start_time >>
      BY <1>3, <2>1 DEF StartStep, NewTimestep
    <3>2. QED
      BY <1>0, <2>1, <3>1 DEF ContinueSimulation, Adaptive
  <2>2. CASE ~ContinueSimulation
    <3>1. stage' = "done" /\ is_init' = FALSE /\ cur_time' = new_time
          /\ UNCHANGED << cfg, new_time, start_time, time_index >>
      BY <1>3, <2>2 DEF StartStep, NewTimestep
    <3>2. QED
      BY <1>0, <2>2, <3>1 DEF ContinueSimulation, Adaptive
  <2>3. QED
    BY <2>1, <2>2
<1>4. CASE PreAdvance
  <2>1. stage = "advance" /\ stage' = "post" /\ new_time' = cur_time + dt[0]
        /\ UNCHANGED << cfg, cur_time, start_time, time_index, is_init >>
    BY <1>4 DEF PreAdvance, AdvanceTime
  <2>2. QED
    BY <1>0, <2>1 DEF Adaptive
<1>5. CASE PostAdvanceWork
  BY <1>5 DEF PostAdvanceWork, clock_vars, Adaptive, ContinueSimulation
<1>6. CASE OutputAtFinalTime
  BY <1>6 DEF OutputAtFinalTime, clock_vars, Adaptive, ContinueSimulation
<1>7. ASSUME NEW c \in CflDts, InitialIterations(c)
      PROVE  LoopInv'
  <2>1. stage = "init" /\ stage' = "init_out"
        /\ UNCHANGED << cfg, cur_time, new_time, start_time, time_index, is_init >>
    BY <1>7 DEF InitialIterations, SetCurrentCfl
  <2>2. QED
    BY <1>0, <2>1 DEF Adaptive
<1>8. ASSUME NEW c \in CflDts, ComputeDt(c)
      PROVE  LoopInv'
  <2>1. stage = "dt" /\ stage' = "advance" /\ ~CflAborts(c)
        /\ dt'[0] = CflDt(c)
        /\ UNCHANGED << cfg, cur_time, new_time, start_time, time_index, is_init >>
    BY <1>0, <1>8 DEF ComputeDt, SetCurrentCfl
  <2>2. CflDt(c) >= 1
    BY <1>0, <2>1, CflDtPositive
  <2>3. Adaptive /\ cfg.delay_time <= 0 /\ cfg.stop_time > 0
          => cur_time + CflDt(c) <= cfg.stop_time
    BY <2>1, CflDtInsideRun
  <2>4. QED
    BY <1>0, <2>1, <2>2, <2>3 DEF Adaptive
<1>9. ASSUME NEW c \in CflDts, CflAbort(c)
      PROVE  LoopInv'
  BY <1>9 DEF CflAbort, clock_vars, Adaptive
<1>10. ASSUME NEW chk \in Header, ReadCheckpointFile(chk)
       PROVE  LoopInv'
  <2>1. chk.time \in Nat
    BY DEF Header
  <2>2. stage' = "top" /\ cur_time' = chk.time /\ new_time' = chk.time
        /\ start_time' = chk.time /\ UNCHANGED cfg
    BY <1>10 DEF ReadCheckpointFile, SetRestartTime
  <2>3. QED
    BY <2>1, <2>2 DEF Adaptive
<1>11. CASE UNCHANGED evolve_vars
  BY <1>11 DEF evolve_vars, clock_vars, Adaptive, ContinueSimulation
<1>12. QED
  BY <1>1, <1>2, <1>3, <1>4, <1>5, <1>6, <1>7, <1>8, <1>9, <1>10, <1>11
     DEF AnyStep, Step

LEMMA LoopInvariant == DelaysHaveDt => (Spec => []LoopInv)
<1> SUFFICES ASSUME DelaysHaveDt PROVE Spec => []LoopInv
  OBVIOUS
<1>1. TypeOK /\ LoopInv /\ [Next]_evolve_vars => LoopInv'
  BY NextLoopInv, NextIsAnyStep
<1>2. QED
  BY TypeCorrect, InitLoopInv, <1>1, PTL DEF Spec

(* An adaptive run with no delay_time never computes past its stop time.   *)
THEOREM StopTimeNotPassed == DelaysHaveDt => (Spec => []NoOvershootWithoutDelay)
<1>1. LoopInv => NoOvershootWithoutDelay
  BY DEF LoopInv, NoOvershootWithoutDelay
<1>2. QED
  BY <1>1, LoopInvariant, PTL

-----------------------------------------------------------------------------
(* The loop implements Timeline. *)

LEMMA InitTimeline == Init => TL!Init
<1> SUFFICES ASSUME Init PROVE TL!Init
  OBVIOUS
<1>1. ClockTypeOK
  BY InitTypeOK DEF TypeOK
<1>2. cfg.stop_time \in Int /\ cfg.max_step \in Int
  BY <1>1, CfgType
<1>3. stage = "init" /\ new_time = 0 /\ time_index = 0
  BY DEF Init, ClockInit
<1>4. Status = "before" /\ StepsMade = 0
  BY <1>3 DEF Status, StepsMade, StepInProgress
<1>5. QED
  BY <1>2, <1>3, <1>4 DEF TL!Init

LEMMA StepTimeline ==
  ASSUME TypeOK, TypeOK', LoopInv, LoopInv', [Next]_evolve_vars
  PROVE  [TL!Next]_(TL!timeline_vars)
<1> USE CfgType DEF TypeOK
<1>0. /\ cur_time \in Int /\ new_time \in Int /\ time_index \in Int /\ dt[0] \in Int
      /\ new_time' \in Int /\ time_index' \in Int
  BY DEF ClockTypeOK
<1> DEFINE Same == UNCHANGED << cfg, new_time >> /\ StepsMade' = StepsMade
<1>a. Same /\ Status' = Status => [TL!Next]_(TL!timeline_vars)
  BY DEF TL!timeline_vars
<1>1. CASE NoInitialIterations
  <2>1. Same /\ Status' = Status
    BY <1>1 DEF NoInitialIterations, clock_vars, Status, StepsMade, StepInProgress
  <2>2. QED
    BY <2>1, <1>a
<1>2. CASE PrepareForTimeIntegration
  <2>1. Same /\ Status = "before" /\ Status' = "running" /\ new_time = 0 /\ StepsMade = 0
    BY <1>2 DEF PrepareForTimeIntegration, clock_vars, LoopInv, Status, StepsMade, StepInProgress
  <2>2. TL!Begin
    BY <2>1 DEF TL!Begin
  <2>3. QED
    BY <2>2 DEF TL!Next
<1>3. CASE StartStep
  <2>1. CASE ContinueSimulation
    <3>1. Same /\ Status' = Status
      BY <1>0, <1>3, <2>1 DEF StartStep, NewTimestep, Status, StepsMade, StepInProgress
    <3>2. QED
      BY <3>1, <1>a
  <2>2. CASE ~ContinueSimulation
    <3>1. Same /\ Status = "running" /\ Status' = "ended" /\ StepsMade = time_index
      BY <1>3, <2>2 DEF StartStep, NewTimestep, Status, StepsMade, StepInProgress
    <3>2. ~TL!StepsLeft
      BY <1>0, <2>2, <3>1 DEF ContinueSimulation, TL!StepsLeft
    <3>3. TL!End
      BY <3>1, <3>2 DEF TL!End
    <3>4. QED
      BY <3>3 DEF TL!Next
  <2>3. QED
    BY <2>1, <2>2
<1>4. CASE PreAdvance
  <2>1. /\ stage = "advance" /\ stage' = "post" /\ new_time' = cur_time + dt[0]
        /\ UNCHANGED << cfg, time_index >>
    BY <1>4 DEF PreAdvance, AdvanceTime
  <2>2. StepsMade = time_index - 1 /\ StepsMade' = time_index
        /\ Status = "running" /\ Status' = "running"
    BY <2>1 DEF Status, StepsMade, StepInProgress
  <2>3. new_time' > new_time
    BY <1>0, <2>1 DEF LoopInv
  <2>4. TL!StepsLeft
    BY <1>0, <2>1, <2>2 DEF LoopInv, TL!StepsLeft
  <2>5. TL!Advance
    BY <1>0, <2>1, <2>2, <2>3, <2>4 DEF TL!Advance
  <2>6. QED
    BY <2>5 DEF TL!Next
<1>5. CASE PostAdvanceWork
  <2>1. Same /\ Status' = Status
    BY <1>5 DEF PostAdvanceWork, clock_vars, Status, StepsMade, StepInProgress
  <2>2. QED
    BY <2>1, <1>a
<1>6. CASE OutputAtFinalTime
  <2>1. Same /\ Status' = Status
    BY <1>6 DEF OutputAtFinalTime, clock_vars, Status, StepsMade, StepInProgress
  <2>2. QED
    BY <2>1, <1>a
<1>7. ASSUME NEW c \in CflDts, InitialIterations(c) \/ ComputeDt(c)
      PROVE  [TL!Next]_(TL!timeline_vars)
  <2>1. Same /\ Status' = Status
    BY <1>7 DEF InitialIterations, ComputeDt, SetCurrentCfl, Status, StepsMade, StepInProgress
  <2>2. QED
    BY <2>1, <1>a
<1>8. ASSUME NEW c \in CflDts, CflAbort(c)
      PROVE  [TL!Next]_(TL!timeline_vars)
  <2>1. /\ Same /\ Status \in {"before", "running"} /\ Status' = "aborted"
    BY <1>8 DEF CflAbort, clock_vars, LoopInv, Status, StepsMade, StepInProgress
  <2>2. TL!Abort
    BY <2>1 DEF TL!Abort
  <2>3. QED
    BY <2>2 DEF TL!Next
<1>9. ASSUME NEW chk \in Checkpoints, ReadCheckpointFile(chk)
      PROVE  [TL!Next]_(TL!timeline_vars)
  <2>1. chk.time \in Nat /\ chk.time_index \in Nat
    BY DEF Header
  <2>2. /\ stage = "init" /\ stage' = "top" /\ new_time' = chk.time
        /\ time_index' = chk.time_index /\ UNCHANGED cfg
    BY <1>9 DEF ReadCheckpointFile, SetRestartTime
  <2>3. Status = "before" /\ Status' = "running" /\ StepsMade' = chk.time_index
    BY <2>2 DEF Status, StepsMade, StepInProgress
  <2>4. TL!Begin
    BY <2>1, <2>2, <2>3 DEF TL!Begin
  <2>5. QED
    BY <2>4 DEF TL!Next
<1>10. CASE UNCHANGED evolve_vars
  <2>1. Same /\ Status' = Status
    BY <1>10 DEF evolve_vars, clock_vars, Status, StepsMade, StepInProgress
  <2>2. QED
    BY <2>1, <1>a
<1>11. QED
  BY <1>1, <1>2, <1>3, <1>4, <1>5, <1>6, <1>7, <1>8, <1>9, <1>10
     DEF Next, Step, Stopped

(* Where every delay_time comes with an initial_dt, the time loop          *)
(* implements Timeline: time moves forward step by step inside the run,    *)
(* whatever the CFL number, the output intervals and the limits on dt do.  *)
THEOREM TimelineImplemented == DelaysHaveDt => (Spec => ImplementsTimeline)
<1>1. TypeOK /\ TypeOK' /\ LoopInv /\ LoopInv' /\ [Next]_evolve_vars
        => [TL!Next]_(TL!timeline_vars)
  BY StepTimeline
<1> SUFFICES ASSUME DelaysHaveDt PROVE Spec => TL!Spec
  BY DEF ImplementsTimeline
<1>2. Spec => []LoopInv
  BY LoopInvariant
<1>3. QED
  BY <1>1, <1>2, TypeCorrect, InitTimeline, PTL DEF Spec, TL!Spec

-----------------------------------------------------------------------------
(* The time-based schedules of plot files and checkpoints: no interval is *)
(* skipped and none is written twice.                                      *)

(* What both parts of the proof need of the types.                         *)
LEMMA ScheduleTypes ==
  ASSUME TypeOK
  PROVE  /\ cur_time \in Int /\ new_time \in Int /\ start_time \in Int
         /\ time_index \in Int /\ dt[0] \in Int
         /\ \A k \in Kinds :
              /\ out_start_time[k] \in Int
              /\ last_out[k].index \in Int /\ last_out[k].time \in Int
BY DEF TypeOK, ClockTypeOK

(* A schedule is time-based or step-based, not both.                       *)
LEMMA OneSchedule ==
  ASSUME TypeOK, NEW k \in Kinds, TimeBased(k)
  PROVE  /\ cfg.t_interval[k] \in Int /\ cfg.t_interval[k] > 0
         /\ ~(cfg.interval[k] > 0)
BY CfgType DEF TypeOK, ClockTypeOK, ParseAborts, TimeBased

(* The test of write_plot_file at the end of a step from cur_time: it      *)
(* holds exactly when the step has entered a new interval.                 *)
LEMMA OnIntervalPassed ==
  ASSUME TypeOK, ScheduleInv, stage = "post", NEW k \in Kinds, TimeBased(k)
  PROVE  /\ OnInterval(k) => Slot(k, new_time) > Slot(k, cur_time)
         /\ ~OnInterval(k) => Slot(k, new_time) = Slot(k, cur_time)
<1> DEFINE a == new_time - out_start_time[k]
<1>1. /\ a \in Int /\ dt[0] \in Int /\ dt[0] > 0
      /\ a - dt[0] = cur_time - out_start_time[k]
  BY ScheduleTypes DEF ScheduleInv
<1>2. cfg.t_interval[k] \in Int /\ cfg.t_interval[k] > 0
  BY OneSchedule
<1>3. a % cfg.t_interval[k] \in Int
  BY <1>1, <1>2, RemainderRange
<1>4. /\ a % cfg.t_interval[k] < dt[0]
           => a \div cfg.t_interval[k] > (a - dt[0]) \div cfg.t_interval[k]
      /\ a % cfg.t_interval[k] >= dt[0]
           => a \div cfg.t_interval[k] = (a - dt[0]) \div cfg.t_interval[k]
  BY <1>1, <1>2, PassedMultiple
<1>5. QED
  BY <1>1, <1>3, <1>4 DEF OnInterval, Slot

-----------------------------------------------------------------------------
(* ScheduleInv is inductive. *)

LEMMA InitScheduleInv == Init => ScheduleInv
BY DEF Init, ClockInit, ScheduleInv, Reached, NoOutput

(* An action that leaves the time reached and the outputs alone, or moves  *)
(* the outputs up to it, preserves the schedule.                           *)
LEMMA OutputsUpToDate ==
  ASSUME TypeOK, ScheduleInv, stage' # "post", Reached' = Reached,
         UNCHANGED << cfg, out_start_time, start_time >>,
         stage \in {"final", "abort"} => stage' \in {"final", "abort"},
         \A k \in Kinds : last_out'[k].time = last_out[k].time \/ last_out'[k].time = Reached
  PROVE  ScheduleInv'
<1>1. Reached \in Int
  BY ScheduleTypes DEF Reached
<1>2. \A k \in Kinds : last_out'[k].time <= Reached'
  BY <1>1, ScheduleTypes DEF ScheduleInv
<1>3. ASSUME NEW k \in Kinds, TimeBased(k)', cfg'.t_delay[k] <= start_time',
             stage' \notin {"final", "abort"}
      PROVE  Slot(k, last_out[k].time)' = Slot(k, Reached)'
  <2>1. Slot(k, last_out[k].time) = Slot(k, Reached)
    BY <1>3 DEF ScheduleInv, TimeBased
  <2>2. CASE last_out'[k].time = last_out[k].time
    BY <2>1, <2>2 DEF Slot
  <2>3. CASE last_out'[k].time = Reached
    BY <2>3 DEF Slot
  <2>4. QED
    BY <2>2, <2>3
<1>4. QED
  BY <1>2, <1>3 DEF ScheduleInv

(* After the outputs of a step: those that were not due had no new         *)
(* interval to be in.                                                      *)
LEMMA PostAdvanceSchedule ==
  ASSUME TypeOK, ScheduleInv, PostAdvanceWork
  PROVE  ScheduleInv'
<1>1. /\ stage = "post" /\ stage' = "top"
      /\ UNCHANGED << cfg, out_start_time, start_time, new_time >>
  BY DEF PostAdvanceWork, clock_vars
<1>2. \A k \in Kinds : last_out'[k].time = IF WriteNow(k) THEN new_time
                                           ELSE last_out[k].time
  BY DEF PostAdvanceWork, Output
<1>3. cur_time < new_time /\ start_time <= cur_time /\ Reached = cur_time
      /\ cur_time \in Int /\ new_time \in Int /\ start_time \in Int
  BY <1>1, ScheduleTypes DEF ScheduleInv, Reached
<1>4. Reached' = new_time
  BY <1>1 DEF Reached
<1>5. \A k \in Kinds : last_out'[k].time <= Reached'
  BY <1>2, <1>3, <1>4, ScheduleTypes DEF ScheduleInv
<1>6. ASSUME NEW k \in Kinds, TimeBased(k)', cfg'.t_delay[k] <= start_time'
      PROVE  Slot(k, last_out[k].time)' = Slot(k, Reached)'
  <2>1. TimeBased(k) /\ cfg.t_delay[k] <= start_time
    BY <1>1, <1>6 DEF TimeBased
  <2>2. CASE WriteNow(k)
    BY <1>1, <1>2, <1>4, <2>2 DEF Slot
  <2>3. CASE ~WriteNow(k)
    <3>1. new_time >= cfg.t_delay[k]
      BY <1>3, <2>1, CfgType DEF TypeOK
    <3>2. ~OnInterval(k)
      BY <2>1, <2>3, <3>1 DEF WriteNow, TimeBased
    <3>3. Slot(k, new_time) = Slot(k, cur_time)
      BY <1>1, <2>1, <3>2, OnIntervalPassed
    <3>4. Slot(k, last_out[k].time) = Slot(k, cur_time)
      BY <1>1, <1>3, <2>1 DEF ScheduleInv
    <3>5. QED
      BY <1>1, <1>2, <1>4, <2>3, <3>3, <3>4 DEF Slot
  <2>4. QED
    BY <2>2, <2>3
<1>7. QED
  BY <1>1, <1>5, <1>6 DEF ScheduleInv

LEMMA NextScheduleInv ==
  ASSUME TypeOK, LoopInv, ScheduleInv, AnyStep
  PROVE  ScheduleInv'
<1>1. CASE NoInitialIterations
  <2>1. stage = "init" /\ stage' = "init_out" /\ UNCHANGED << clock_vars, last_out >>
    BY <1>1 DEF NoInitialIterations
  <2>2. QED
    BY <2>1, OutputsUpToDate DEF clock_vars, Reached
<1>2. CASE PrepareForTimeIntegration
  <2>1. stage = "init_out" /\ stage' = "top" /\ UNCHANGED clock_vars
    BY <1>2 DEF PrepareForTimeIntegration
  <2>2. \A k \in Kinds : last_out'[k].time \in {last_out[k].time, new_time}
    BY <1>2 DEF PrepareForTimeIntegration, Output
  <2>3. QED
    BY <2>1, <2>2, OutputsUpToDate DEF clock_vars, Reached
<1>3. CASE StartStep
  <2>1. /\ stage = "top" /\ stage' \in {"dt", "done"}
        /\ UNCHANGED << cfg, out_start_time, start_time, new_time, last_out >>
    BY <1>3 DEF StartStep, NewTimestep
  <2>2. QED
    BY <2>1, OutputsUpToDate DEF Reached
<1>4. CASE PreAdvance
  <2>1. /\ stage = "advance" /\ stage' = "post" /\ new_time' = cur_time + dt[0]
        /\ UNCHANGED << cfg, dt, cur_time, out_start_time, start_time, last_out >>
    BY <1>4 DEF PreAdvance, AdvanceTime
  <2>2. cur_time = new_time /\ dt[0] >= 1 /\ start_time <= cur_time
    BY <2>1 DEF LoopInv
  <2>3. Reached = cur_time /\ Reached' = cur_time
    BY <2>1, <2>2 DEF Reached
  <2>4. QED
    BY <2>1, <2>2, <2>3 DEF ScheduleInv, TimeBased, Slot
<1>5. CASE PostAdvanceWork
  BY <1>5, PostAdvanceSchedule
<1>6. CASE OutputAtFinalTime
  <2>1. stage = "done" /\ stage' = "final" /\ UNCHANGED clock_vars
    BY <1>6 DEF OutputAtFinalTime
  <2>2. \A k \in Kinds : last_out'[k].time \in {last_out[k].time, new_time}
    BY <1>6 DEF OutputAtFinalTime, Output
  <2>3. QED
    BY <2>1, <2>2, OutputsUpToDate DEF clock_vars, Reached
<1>7. ASSUME NEW c \in CflDts, InitialIterations(c) \/ ComputeDt(c)
      PROVE  ScheduleInv'
  <2>1. /\ stage \in {"init", "dt"} /\ stage' \in {"init_out", "advance"}
        /\ UNCHANGED << cfg, new_time, out_start_time, start_time, last_out >>
    BY <1>7 DEF InitialIterations, ComputeDt, SetCurrentCfl
  <2>2. QED
    BY <2>1, OutputsUpToDate DEF Reached
<1>8. ASSUME NEW c \in CflDts, CflAbort(c)
      PROVE  ScheduleInv'
  <2>1. stage \in {"init", "dt"} /\ stage' = "abort" /\ UNCHANGED << clock_vars, last_out >>
    BY <1>8 DEF CflAbort
  <2>2. QED
    BY <2>1, OutputsUpToDate DEF clock_vars, Reached
<1>9. ASSUME NEW chk \in Header, ReadCheckpointFile(chk)
      PROVE  ScheduleInv'
  <2>1. chk \in Header
    BY <1>9
  <2>2. chk.time \in Int
    BY <2>1 DEF Header
  <2>3. stage' = "top" /\ new_time' = chk.time
    BY <1>9 DEF ReadCheckpointFile, SetRestartTime
  <2>4. \A k \in Kinds : last_out'[k].time = chk.time
    BY <1>9 DEF ReadCheckpointFile, NoOutput
  <2>5. QED
    BY <2>2, <2>3, <2>4 DEF ScheduleInv, Reached, Slot
<1>10. CASE UNCHANGED evolve_vars
  BY <1>10 DEF evolve_vars, clock_vars, ScheduleInv, Reached, TimeBased, Slot
<1>11. QED
  BY <1>1, <1>2, <1>3, <1>4, <1>5, <1>6, <1>7, <1>8, <1>9, <1>10
     DEF AnyStep, Step

LEMMA ScheduleInvariant == DelaysHaveDt => (Spec => []ScheduleInv)
<1> SUFFICES ASSUME DelaysHaveDt PROVE Spec => []ScheduleInv
  OBVIOUS
<1>1. TypeOK /\ LoopInv /\ ScheduleInv /\ [Next]_evolve_vars => ScheduleInv'
  BY NextScheduleInv, NextIsAnyStep
<1>2. Spec => []LoopInv
  BY LoopInvariant
<1>3. QED
  BY <1>1, <1>2, TypeCorrect, InitScheduleInv, PTL DEF Spec

-----------------------------------------------------------------------------
(* When the outputs of a step have been made, the last output of every     *)
(* time-based schedule that is not delayed lies in the present interval:   *)
(* write_plot_file and write_checkpoint skip none.                         *)
THEOREM NoIntervalIsSkipped == DelaysHaveDt => (Spec => []NoIntervalSkipped)
<1>1. ScheduleInv => NoIntervalSkipped
  BY DEF ScheduleInv, NoIntervalSkipped, Reached
<1>2. QED
  BY <1>1, ScheduleInvariant, PTL

(* A step writes an output of a time-based schedule only where its         *)
(* interval is later than that of the last one.                            *)
LEMMA StepOncePerInterval ==
  ASSUME TypeOK, ScheduleInv, [Next]_evolve_vars, NEW k \in Kinds,
         stage = "post", TimeBased(k), last_out'[k] # last_out[k]
  PROVE  Slot(k, new_time) > Slot(k, last_out[k].time)
<1>1. PostAdvanceWork
  BY DEF Next, Step, Stopped, evolve_vars, NoInitialIterations, PrepareForTimeIntegration,
         StartStep, PreAdvance, OutputAtFinalTime, InitialIterations, ComputeDt, CflAbort,
         ReadCheckpointFile
<1>2. WriteNow(k)
  BY <1>1 DEF PostAdvanceWork, Output
<1>3. OnInterval(k)
  BY <1>2, OneSchedule DEF WriteNow
<1>4. Slot(k, new_time) > Slot(k, cur_time)
  BY <1>3, OnIntervalPassed
<1>5. last_out[k].time <= cur_time
  BY DEF ScheduleInv, Reached
<1>6. Slot(k, last_out[k].time) <= Slot(k, cur_time)
  <2>1. /\ last_out[k].time - out_start_time[k] \in Int
        /\ cur_time - out_start_time[k] \in Int
        /\ last_out[k].time - out_start_time[k] <= cur_time - out_start_time[k]
    BY <1>5, ScheduleTypes
  <2>2. QED
    BY <2>1, OneSchedule, QuotientMonotone DEF Slot
<1>7. \A t \in Int : Slot(k, t) \in Int
  <2>1. \A t \in Int : t - out_start_time[k] \in Int
    BY ScheduleTypes
  <2>2. QED
    BY <2>1, OneSchedule, QuotientRemainder DEF Slot
<1>8. QED
  BY <1>4, <1>6, <1>7, ScheduleTypes

(* No time-based output is made twice in one interval.                     *)
THEOREM WrittenOncePerInterval == DelaysHaveDt => (Spec => OncePerInterval)
<1> SUFFICES ASSUME DelaysHaveDt PROVE Spec => OncePerInterval
  OBVIOUS
<1> DEFINE Once == \A k \in Kinds :
                     stage = "post" /\ TimeBased(k) /\ last_out'[k] # last_out[k]
                     => Slot(k, new_time) > Slot(k, last_out[k].time)
<1>1. TypeOK /\ ScheduleInv /\ [Next]_evolve_vars => [Once]_evolve_vars
  BY StepOncePerInterval
<1>2. Spec => []ScheduleInv
  BY ScheduleInvariant
<1>3. QED
  BY <1>1, <1>2, TypeCorrect, PTL DEF Spec, OncePerInterval

-----------------------------------------------------------------------------
(* The outputs at the final time. *)

LEMMA InitOutputsInv == Init => OutputsInv
BY DEF Init, ClockInit, OutputsInv, NoOutput

(* The output tests after calls that leave what they read alone.           *)
LEMMA SameTests ==
  ASSUME UNCHANGED << cfg, time_index, new_time, out_start, out_start_time >>, dt'[0] = dt[0],
         NEW k \in Kinds
  PROVE  WriteNow(k)' <=> WriteNow(k)
BY DEF WriteNow, OnIndex, OnInterval

LEMMA NextOutputsInv ==
  ASSUME TypeOK, LoopInv, OutputsInv, AnyStep
  PROVE  OutputsInv'
<1>0. /\ time_index \in Nat /\ new_time \in Int /\ start_time \in Int
      /\ \A k \in Kinds : last_out[k].index \in Int
  BY ScheduleTypes DEF OutputsInv
<1>1. CASE NoInitialIterations
  <2>1. /\ stage = "init" /\ stage' = "init_out"
        /\ UNCHANGED << time_index, last_out >>
    BY <1>1 DEF NoInitialIterations, clock_vars
  <2>2. QED
    BY <2>1 DEF OutputsInv
<1>2. CASE PrepareForTimeIntegration
  <2>1. /\ stage = "init_out" /\ stage' = "top" /\ UNCHANGED clock_vars
        /\ new_time = 0 /\ start_time = 0 /\ time_index = 0
    BY <1>2 DEF PrepareForTimeIntegration, LoopInv
  <2>2. \A k \in Kinds : last_out'[k].index = IF WriteNow(k) THEN time_index
                                              ELSE last_out[k].index
    BY <1>2 DEF PrepareForTimeIntegration, Output
  <2>3. \A k \in Kinds : WriteNow(k)' <=> WriteNow(k)
    BY <2>1, SameTests DEF clock_vars
  <2>4. QED
    BY <1>0, <2>1, <2>2, <2>3 DEF OutputsInv, clock_vars
<1>3. CASE StartStep
  <2>1. CASE ContinueSimulation
    <3>1. /\ stage = "top" /\ stage' = "dt" /\ time_index' = time_index + 1
          /\ UNCHANGED last_out
      BY <1>3, <2>1 DEF StartStep, NewTimestep
    <3>2. QED
      BY <1>0, <3>1 DEF OutputsInv
  <2>2. CASE ~ContinueSimulation
    <3>1. /\ stage = "top" /\ stage' = "done"
          /\ UNCHANGED << cfg, dt, time_index, new_time, start_time, out_start,
                          out_start_time, last_out >>
      BY <1>3, <2>2 DEF StartStep, NewTimestep
    <3>2. \A k \in Kinds : WriteNow(k)' <=> WriteNow(k)
      BY <3>1, SameTests
    <3>3. QED
      BY <1>0, <3>1, <3>2 DEF OutputsInv
  <2>3. QED
    BY <2>1, <2>2
<1>4. CASE PreAdvance
  <2>1. stage = "advance" /\ stage' = "post" /\ UNCHANGED << time_index, last_out >>
    BY <1>4 DEF PreAdvance, AdvanceTime
  <2>2. QED
    BY <2>1 DEF OutputsInv
<1>5. CASE PostAdvanceWork
  <2>1. stage = "post" /\ stage' = "top" /\ UNCHANGED clock_vars
    BY <1>5 DEF PostAdvanceWork
  <2>2. \A k \in Kinds : last_out'[k].index = IF WriteNow(k) THEN time_index
                                              ELSE last_out[k].index
    BY <1>5 DEF PostAdvanceWork, Output
  <2>3. \A k \in Kinds : WriteNow(k)' <=> WriteNow(k)
    BY <2>1, SameTests DEF clock_vars
  <2>4. QED
    BY <1>0, <2>1, <2>2, <2>3 DEF OutputsInv, clock_vars
<1>6. CASE OutputAtFinalTime
  BY <1>6 DEF OutputAtFinalTime, clock_vars, OutputsInv
<1>7. ASSUME NEW c \in CflDts, InitialIterations(c) \/ ComputeDt(c) \/ CflAbort(c)
      PROVE  OutputsInv'
  <2>1. /\ stage \in {"init", "dt"} /\ UNCHANGED << time_index, last_out >>
        /\ \/ stage = "init" /\ stage' = "init_out"
           \/ stage = "dt" /\ stage' = "advance"
           \/ stage' = "abort"
    BY <1>7 DEF InitialIterations, ComputeDt, CflAbort, SetCurrentCfl, clock_vars
  <2>2. QED
    BY <2>1 DEF OutputsInv
<1>8. ASSUME NEW chk \in Header, ReadCheckpointFile(chk)
      PROVE  OutputsInv'
  <2>1. chk.time_index \in Nat /\ chk.time \in Nat
    BY DEF Header
  <2>2. /\ stage' = "top" /\ time_index' = chk.time_index
        /\ new_time' = chk.time /\ start_time' = chk.time
        /\ \A k \in Kinds : last_out'[k].index = -1
    BY <1>8 DEF ReadCheckpointFile, SetRestartTime, NoOutput
  <2>3. QED
    BY <2>1, <2>2 DEF OutputsInv
<1>9. CASE UNCHANGED evolve_vars
  <2>1. \A k \in Kinds : WriteNow(k)' <=> WriteNow(k)
    BY <1>9, SameTests DEF evolve_vars, clock_vars
  <2>2. QED
    BY <1>9, <2>1 DEF evolve_vars, clock_vars, OutputsInv
<1>10. QED
  BY <1>1, <1>2, <1>3, <1>4, <1>5, <1>6, <1>7, <1>8, <1>9 DEF AnyStep, Step

LEMMA OutputsInvariant == DelaysHaveDt => (Spec => []OutputsInv)
<1> SUFFICES ASSUME DelaysHaveDt PROVE Spec => []OutputsInv
  OBVIOUS
<1>1. TypeOK /\ LoopInv /\ OutputsInv /\ [Next]_evolve_vars => OutputsInv'
  BY NextOutputsInv, NextIsAnyStep
<1>2. Spec => []LoopInv
  BY LoopInvariant
<1>3. QED
  BY <1>1, <1>2, TypeCorrect, InitOutputsInv, PTL DEF Spec

LEMMA FinalOutputs ==
  ASSUME TypeOK, LoopInv, OutputsInv, [Next]_evolve_vars, stage = "done", stage' = "final",
         NEW k \in Kinds
  PROVE  /\ Active(k) /\ ~is_init /\ new_time > start_time
              /\ cfg.delay[k] <= 0 /\ cfg.t_delay[k] <= 0
            => last_out'[k].index = time_index
         /\ WriteLast(k) => last_out[k].index < time_index
<1>1. OutputAtFinalTime
  BY DEF Next, Step, Stopped, evolve_vars, NoInitialIterations, PrepareForTimeIntegration,
         StartStep, PreAdvance, PostAdvanceWork, InitialIterations, ComputeDt, CflAbort,
         ReadCheckpointFile
<1>2. last_out'[k].index = IF WriteLast(k) THEN time_index ELSE last_out[k].index
  BY <1>1 DEF OutputAtFinalTime, Output
<1>3. /\ time_index \in Nat /\ new_time \in Nat /\ last_out[k].index \in Int
      /\ cfg.delay[k] \in Int /\ cfg.t_delay[k] \in Int
      /\ cfg.interval[k] \in Int /\ cfg.t_interval[k] \in Int
  BY ScheduleTypes, CfgType DEF OutputsInv, LoopInv, TypeOK
<1>4. ~(cfg.interval[k] > 0 /\ cfg.t_interval[k] > 0)
  BY OneSchedule, <1>3 DEF TimeBased
<1>5. WriteLast(k) => ~WriteNow(k)
  BY <1>4 DEF WriteLast, WriteNow
<1>6. Active(k) /\ cfg.delay[k] <= 0 /\ cfg.t_delay[k] <= 0 /\ ~WriteLast(k) => WriteNow(k)
  BY <1>3 DEF Active, TimeBased, WriteLast, WriteNow
<1>7. QED
  BY <1>2, <1>3, <1>5, <1>6 DEF OutputsInv

(* A run that has taken a step and was given no output delay ends with its *)
(* final state in every active kind of file, and write_last_plot_file and  *)
(* write_last_checkpoint never write what the last step has written.       *)
THEOREM FinalStateIsSavedOnce == DelaysHaveDt => (Spec => FinalStateSavedOnce)
<1> SUFFICES ASSUME DelaysHaveDt PROVE Spec => FinalStateSavedOnce
  OBVIOUS
<1> DEFINE Final == stage = "done" /\ stage' = "final" =>
                      \A k \in Kinds :
                        /\ Active(k) /\ ~is_init /\ new_time > start_time
                             /\ cfg.delay[k] <= 0 /\ cfg.t_delay[k] <= 0
                           => last_out'[k].index = time_index
                        /\ WriteLast(k) => last_out[k].index < time_index
<1>1. TypeOK /\ LoopInv /\ OutputsInv /\ [Next]_evolve_vars => [Final]_evolve_vars
  BY FinalOutputs
<1>2. Spec => []LoopInv /\ []OutputsInv
  BY LoopInvariant, OutputsInvariant
<1>3. QED
  BY <1>1, <1>2, TypeCorrect, PTL DEF Spec, FinalStateSavedOnce

-----------------------------------------------------------------------------
(* Enforced outputs. *)

(* Only adaptive runs are enforced, and only schedules in time.            *)
LEMMA ForcedType ==
  ASSUME TypeOK, NEW k \in Kinds, cfg.force_dt[k]
  PROVE  /\ Adaptive /\ TimeBased(k) /\ ~(cfg.interval[k] > 0)
         /\ cfg.t_interval[k] \in Int /\ cfg.t_interval[k] > 0 /\ cfg.t_delay[k] \in Int
BY CfgType DEF TypeOK, ClockTypeOK, ParseAborts, TimeBased, Adaptive

(* An enforced schedule bounds the step, unless it is still delayed.       *)
LEMMA EnforcedOnTime ==
  ASSUME cur_time \in Int, NEW d \in Int, NEW i \in Int, i > 0, NEW w \in Int
  PROVE  \/ Enforced(d, i, w, TRUE) <= i - (cur_time % i)
         \/ cur_time + Enforced(d, i, w, TRUE) < w
BY RemainderRange DEF Enforced, Min2

LEMMA AdaptiveDtOnTime ==
  ASSUME TypeOK, NEW c \in CflDts, NEW k \in Kinds, cfg.force_dt[k]
  PROVE  \/ AdaptiveDt(c) <= cfg.t_interval[k] - (cur_time % cfg.t_interval[k])
         \/ cur_time + AdaptiveDt(c) < cfg.t_delay[k]
<1>0. ClockTypeOK /\ cur_time \in Int /\ "chkpt" \in Kinds /\ "plt" \in Kinds
  BY DEF TypeOK, ClockTypeOK, Kinds
<1> USE CfgType
<1> DEFINE d0 == ClippedToStop(LimitedDt(c))
           d1 == EnforcedFor(d0, "chkpt")
           d2 == EnforcedFor(d1, "plt")
           d3 == Enforced(d2, cfg.post.t_interval, cfg.post.t_delay, cfg.post.enforce_dt)
           i == cfg.t_interval[k]
           w == cfg.t_delay[k]
           OnTime(d) == d <= i - (cur_time % i) \/ cur_time + d < w
<1>1. i \in Int /\ i > 0 /\ w \in Int
  BY ForcedType
<1>2. cur_time % i \in Int
  BY <1>0, <1>1, RemainderRange
<1>3. d0 \in Int
  BY <1>0, AdaptiveDtType
<1>4. d1 \in Int /\ (k = "chkpt" => OnTime(d1))
  <2> HIDE DEF d0
  <2>1. d1 \in Int
    BY <1>0, <1>3, EnforcedType DEF EnforcedFor
  <2>2. QED
    BY <1>0, <1>1, <1>3, <2>1, EnforcedOnTime DEF EnforcedFor
<1>5. d2 \in Int /\ d2 <= d1 /\ (k = "plt" => OnTime(d2))
  <2> HIDE DEF d1
  <2>1. d2 \in Int /\ d2 <= d1
    BY <1>0, <1>4, EnforcedType DEF EnforcedFor
  <2>2. QED
    BY <1>0, <1>1, <1>4, <2>1, EnforcedOnTime DEF EnforcedFor
<1>6. d3 \in Int /\ d3 <= d2
  <2> HIDE DEF d2
  <2>1. QED
    BY <1>0, <1>5, EnforcedType
<1>7. AdaptiveDt(c) = IF is_init /\ cfg.initial_dt > 0 THEN Min2(d3, cfg.initial_dt) ELSE d3
  BY DEF AdaptiveDt
<1> HIDE DEF d0, d1, d2, d3
<1>8. AdaptiveDt(c) \in Int /\ AdaptiveDt(c) <= d3 /\ cfg.initial_dt \in Int
  BY <1>0, <1>6, <1>7 DEF Min2
<1>9. OnTime(d2)
  <2>1. k = "chkpt" \/ k = "plt"
    BY DEF Kinds
  <2>2. QED
    BY <1>0, <1>1, <1>2, <1>4, <1>5, <2>1
<1>10. QED
  BY <1>0, <1>1, <1>2, <1>5, <1>6, <1>8, <1>9

LEMMA InitEnforcedInv == Init => EnforcedInv
BY DEF Init, EnforcedInv

LEMMA NextEnforcedInv ==
  ASSUME TypeOK, LoopInv, EnforcedInv, AnyStep
  PROVE  EnforcedInv'
<1>0. ClockTypeOK /\ cur_time \in Int /\ cur_time >= 0 /\ dt \in [0..2 -> Int]
  BY DEF TypeOK, ClockTypeOK, LoopInv
<1>1. ASSUME NEW c \in CflDts, ComputeDt(c)
      PROVE  EnforcedInv'
  <2>1. /\ dt'[0] = CflDt(c)
        /\ UNCHANGED << cfg, cur_time >>
    BY <1>0, <1>1 DEF ComputeDt, SetCurrentCfl
  <2>2. ASSUME NEW k \in Kinds, cfg.delay_time <= 0, cfg.force_dt[k]
        PROVE  CflDt(c) = AdaptiveDt(c)
    <3>1. cfg.delay_time \in Int
      BY <1>0, CfgType
    <3>2. ~InDelay
      BY <1>0, <2>2, <3>1, InDelayHasDelay
    <3>3. QED
      BY <2>2, <3>2, ForcedType DEF CflDt
  <2>3. QED
    BY <2>1, <2>2, AdaptiveDtOnTime DEF EnforcedInv
<1>2. CASE PreAdvance
  BY <1>2 DEF PreAdvance, AdvanceTime, EnforcedInv
<1>3. CASE UNCHANGED evolve_vars
  BY <1>3 DEF evolve_vars, clock_vars, EnforcedInv
<1>4. ASSUME stage' \notin {"advance", "post"} PROVE EnforcedInv'
  BY <1>4 DEF EnforcedInv
<1>5. QED
  BY <1>1, <1>2, <1>3, <1>4
     DEF AnyStep, Step, NoInitialIterations, PrepareForTimeIntegration, StartStep,
         PostAdvanceWork, OutputAtFinalTime, InitialIterations, CflAbort, ReadCheckpointFile

LEMMA EnforcedInvariant == DelaysHaveDt => (Spec => []EnforcedInv)
<1> SUFFICES ASSUME DelaysHaveDt PROVE Spec => []EnforcedInv
  OBVIOUS
<1>1. TypeOK /\ LoopInv /\ EnforcedInv /\ [Next]_evolve_vars => EnforcedInv'
  BY NextEnforcedInv, NextIsAnyStep
<1>2. Spec => []LoopInv
  BY LoopInvariant
<1>3. QED
  BY <1>1, <1>2, TypeCorrect, InitEnforcedInv, PTL DEF Spec

LEMMA EnforcedOutputAligned ==
  ASSUME TypeOK, ScheduleInv, EnforcedInv, [Next]_evolve_vars, NEW k \in Kinds,
         TimeBased(k), out_start_time[k] % cfg.t_interval[k] = 0, cfg.delay_time <= 0
  PROVE  OutputOnSchedule(k)
<1> SUFFICES ASSUME stage = "post", cfg.force_dt[k], last_out'[k] # last_out[k]
             PROVE  (new_time - out_start_time[k]) % cfg.t_interval[k] = 0
  BY DEF OutputOnSchedule
<1> DEFINE i == cfg.t_interval[k]
           s == out_start_time[k]
<1>1. PostAdvanceWork
  BY DEF Next, Step, Stopped, evolve_vars, NoInitialIterations, PrepareForTimeIntegration,
         StartStep, PreAdvance, OutputAtFinalTime, InitialIterations, ComputeDt, CflAbort,
         ReadCheckpointFile
<1>2. WriteNow(k)
  BY <1>1 DEF PostAdvanceWork, Output
<1>3. /\ i \in Int /\ i > 0 /\ ~(cfg.interval[k] > 0) /\ cfg.t_delay[k] \in Int
      /\ s \in Int /\ s % i = 0
  BY ForcedType, ScheduleTypes
<1>4. /\ cur_time \in Int /\ dt[0] \in Int /\ dt[0] >= 1
      /\ new_time \in Int /\ new_time = cur_time + dt[0]
  BY ScheduleTypes DEF ScheduleInv
<1>5. new_time >= cfg.t_delay[k] /\ (new_time - s) % i < dt[0]
  BY <1>2, <1>3 DEF WriteNow, OnInterval
<1>6. dt[0] <= i - (cur_time % i)
  BY <1>3, <1>4, <1>5 DEF EnforcedInv
<1> HIDE DEF i, s
<1>7. (new_time - s) % i = new_time % i
  BY <1>3, <1>4, ShiftedRemainder
<1>8. new_time % i < dt[0]
  BY <1>5, <1>7
<1>9. new_time % i = 0
  BY <1>3, <1>4, <1>6, <1>8, RemainderOfStep
<1>10. QED
  BY <1>7, <1>9 DEF i, s

(* With enforce_plot_time_dt (or the same for checkpoints), where the      *)
(* schedule starts at a multiple of its interval and there is no           *)
(* delay_time, every output after a step is exactly on time.               *)
THEOREM EnforcedOutputsAreOnTime ==
  DelaysHaveDt => (Spec => EnforcedOutputOnAlignedSchedule)
<1> SUFFICES ASSUME DelaysHaveDt PROVE Spec => EnforcedOutputOnAlignedSchedule
  OBVIOUS
<1> DEFINE OnTime == \A k \in Kinds :
                       TimeBased(k) /\ out_start_time[k] % cfg.t_interval[k] = 0
                         /\ cfg.delay_time <= 0
                       => OutputOnSchedule(k)
<1>1. TypeOK /\ ScheduleInv /\ EnforcedInv /\ [Next]_evolve_vars => [OnTime]_evolve_vars
  BY EnforcedOutputAligned
<1>2. Spec => []ScheduleInv /\ []EnforcedInv
  BY ScheduleInvariant, EnforcedInvariant
<1>3. QED
  BY <1>1, <1>2, TypeCorrect, PTL DEF Spec, EnforcedOutputOnAlignedSchedule


-----------------------------------------------------------------------------
(* The end of the run *)

LEMMA LeftType == TypeOK => Left \in Nat /\ CallsLeft \in 0..6
<1> SUFFICES ASSUME TypeOK PROVE Left \in Nat /\ CallsLeft \in 0..6
  OBVIOUS
<1>1. cfg.stop_time \in Int /\ cfg.max_step \in Int /\ new_time \in Int /\ time_index \in Int
  BY CfgType DEF TypeOK, ClockTypeOK
<1>2. StepsMade \in Int
  BY <1>1 DEF StepsMade
<1>3. Left \in Nat
  BY <1>1, <1>2 DEF Left, Max2
<1>4. CallsLeft \in 0..6
  BY DEF TypeOK, Stages, CallsLeft
<1>5. QED
  BY <1>3, <1>4

\* No more is left than before, and less where a step has been made.
LEMMA NothingLost ==
  ASSUME TypeOK, cfg' = cfg, new_time' >= new_time, StepsMade' >= StepsMade,
         new_time' \in Int, StepsMade \in Int, StepsMade' \in Int
  PROVE  Left' <= Left
<1>1. cfg.stop_time \in Int /\ cfg.max_step \in Int /\ new_time \in Int
  BY CfgType DEF TypeOK, ClockTypeOK
<1>2. QED
  BY <1>1 DEF Left, Max2

LEMMA StepComesCloser ==
  ASSUME TypeOK, LoopInv, HasStop, Next, evolve_vars' # evolve_vars
  PROVE  Measure \in Nat /\ Measure' < Measure
<1>0. /\ cur_time \in Int /\ new_time \in Int /\ start_time \in Int /\ time_index \in Int
      /\ dt \in [0..2 -> Int] /\ dt[0] \in Int
      /\ cfg.stop_time \in Int /\ cfg.max_step \in Int
  BY CfgType DEF TypeOK, ClockTypeOK
<1>1. TypeOK'
  BY NextTypeOK, NextIsAnyStep
<1>2. Left \in Nat /\ CallsLeft \in 0..6 /\ Left' \in Nat /\ CallsLeft' \in 0..6
  <2>1. (TypeOK => Left \in Nat /\ CallsLeft \in 0..6)'
    BY LeftType, PTL
  <2>2. QED
    BY <1>1, <2>1, LeftType
<1>a. PICK l \in Nat, r \in Nat, m \in Nat, q \in Nat :
        l = Left /\ r = CallsLeft /\ m = Left' /\ q = CallsLeft'
  BY <1>2
<1>b. Measure = 4 * l + r /\ Measure' = 4 * m + q
  BY <1>a DEF Measure
<1>3. ASSUME Left' <= Left, CallsLeft' < CallsLeft
      PROVE  Measure \in Nat /\ Measure' < Measure
  <2>1. m <= l /\ q < r
    BY <1>a, <1>3
  <2>2. 4 * l + r \in Nat /\ 4 * m + q < 4 * l + r
    BY <2>1
  <2>3. QED
    BY <1>b, <2>2
<1>4. CASE NoInitialIterations \/ \E c \in CflDts : InitialIterations(c)
  <2>1. stage = "init" /\ stage' = "init_out" /\ UNCHANGED << cfg, new_time, time_index, is_init >>
    BY <1>4 DEF NoInitialIterations, InitialIterations, SetCurrentCfl, clock_vars
  <2>2. Left' = Left /\ CallsLeft' < CallsLeft
    BY <2>1 DEF Left, StepsMade, StepInProgress, CallsLeft
  <2>3. QED
    BY <1>2, <1>3, <2>2
<1>5. CASE PrepareForTimeIntegration \/ PostAdvanceWork \/ OutputAtFinalTime
  <2>1. /\ << stage, stage' >> \in { << "init_out", "top" >>, << "post", "top" >>, << "done", "final" >> }
        /\ UNCHANGED << cfg, new_time, time_index, is_init >>
    BY <1>5 DEF PrepareForTimeIntegration, PostAdvanceWork, OutputAtFinalTime, clock_vars
  <2>2. Left' = Left
    BY <2>1 DEF Left, StepsMade, StepInProgress
  <2>3. CallsLeft' < CallsLeft
    BY <2>1 DEF CallsLeft
  <2>4. QED
    BY <1>2, <1>3, <2>2, <2>3
<1>6. CASE StartStep
  <2>1. CASE ContinueSimulation
    <3>1. stage = "top" /\ stage' = "dt" /\ UNCHANGED << cfg, new_time >>
          /\ time_index' = time_index + 1
      BY <1>6, <2>1 DEF StartStep, NewTimestep
    <3>2. Left' = Left /\ CallsLeft' < CallsLeft
      BY <1>0, <3>1 DEF Left, StepsMade, StepInProgress, CallsLeft
    <3>3. QED
      BY <1>2, <1>3, <3>2
  <2>2. CASE ~ContinueSimulation
    <3>1. stage = "top" /\ stage' = "done" /\ UNCHANGED << cfg, new_time, time_index >>
      BY <1>6, <2>2 DEF StartStep, NewTimestep
    <3>2. Left' = Left /\ CallsLeft' < CallsLeft
      BY <3>1 DEF Left, StepsMade, StepInProgress, CallsLeft
    <3>3. QED
      BY <1>2, <1>3, <3>2
  <2>3. QED
    BY <2>1, <2>2
<1>7. ASSUME NEW c \in CflDts, ComputeDt(c)
      PROVE  Measure \in Nat /\ Measure' < Measure
  <2>1. stage = "dt" /\ stage' = "advance" /\ UNCHANGED << cfg, new_time, time_index >>
    BY <1>7 DEF ComputeDt, SetCurrentCfl
  <2>2. Left' = Left /\ CallsLeft' < CallsLeft
    BY <2>1 DEF Left, StepsMade, StepInProgress, CallsLeft
  <2>3. QED
    BY <1>2, <1>3, <2>2
<1>8. ASSUME NEW c \in CflDts, CflAbort(c)
      PROVE  Measure \in Nat /\ Measure' < Measure
  <2>1. stage \in {"init", "dt"} /\ stage' = "abort"
        /\ UNCHANGED << cfg, new_time, time_index, is_init >>
    BY <1>8 DEF CflAbort, clock_vars
  <2>2. StepsMade' = StepsMade
    BY <2>1 DEF StepsMade, StepInProgress, LoopInv
  <2>3. Left' = Left /\ CallsLeft' < CallsLeft
    BY <2>1, <2>2 DEF Left, CallsLeft
  <2>4. QED
    BY <1>2, <1>3, <2>3
<1>9. CASE PreAdvance
  <2>1. /\ stage = "advance" /\ stage' = "post" /\ new_time' = cur_time + dt[0]
        /\ UNCHANGED << cfg, time_index >>
    BY <1>9 DEF PreAdvance, AdvanceTime
  <2>2. /\ cur_time = new_time /\ dt[0] >= 1
        /\ cfg.stop_time > 0 => new_time < cfg.stop_time
        /\ cfg.max_step # 0 /\ (cfg.max_step > 0 => time_index - 1 < cfg.max_step)
    BY <2>1 DEF LoopInv
  <2>3. StepsMade = time_index - 1 /\ StepsMade' = time_index
    BY <2>1 DEF StepsMade, StepInProgress
  <2>4. Left' <= Left - 1
    BY <1>0, <2>1, <2>2, <2>3 DEF Left, Max2, HasStop
  <2>5. CallsLeft = 1 /\ CallsLeft' = 4
    BY <2>1 DEF CallsLeft
  <2>6. QED
    <3>1. m <= l - 1 /\ r = 1 /\ q = 4
      BY <1>a, <2>4, <2>5
    <3>2. 4 * l + r \in Nat /\ 4 * m + q < 4 * l + r
      BY <3>1
    <3>3. QED
      BY <1>b, <3>2
<1>10. ASSUME NEW chk \in Checkpoints, ReadCheckpointFile(chk)
       PROVE  Measure \in Nat /\ Measure' < Measure
  <2>1. chk.time \in Nat /\ chk.time_index \in Nat
    BY DEF Header
  <2>2. /\ stage = "init" /\ stage' = "top" /\ cfg' = cfg
        /\ new_time' = chk.time /\ time_index' = chk.time_index
    BY <1>10 DEF ReadCheckpointFile, SetRestartTime
  <2>3. new_time = 0 /\ time_index = 0
    BY <2>2 DEF LoopInv
  <2>4. StepsMade = 0 /\ StepsMade' = chk.time_index
    BY <2>2, <2>3 DEF StepsMade, StepInProgress
  <2>5. Left' <= Left
    BY <2>1, <2>2, <2>3, <2>4, NothingLost
  <2>6. CallsLeft' < CallsLeft
    BY <2>2 DEF CallsLeft
  <2>7. QED
    BY <1>3, <2>5, <2>6
<1>11. CASE Stopped
  BY <1>11 DEF Stopped
<1>12. QED
  BY <1>4, <1>5, <1>6, <1>7, <1>8, <1>9, <1>10, <1>11 DEF Next, Step

(* A run of incflo::Evolve with a stop_time or a max_step makes at most    *)
(* Measure further calls: every call that changes the state, restarts      *)
(* included, makes a natural number smaller, however the steps are chosen. *)
THEOREM EveryCallComesCloser ==
  DelaysHaveDt =>
    (Spec => [][HasStop => Measure \in Nat /\ Measure' < Measure]_evolve_vars)
<1> SUFFICES ASSUME DelaysHaveDt
             PROVE  Spec => [][HasStop => Measure \in Nat /\ Measure' < Measure]_evolve_vars
  OBVIOUS
<1> DEFINE Closer == HasStop => Measure \in Nat /\ Measure' < Measure
<1>1. TypeOK /\ LoopInv /\ [Next]_evolve_vars => [Closer]_evolve_vars
  BY StepComesCloser
<1>2. Spec => []LoopInv
  BY LoopInvariant
<1>3. QED
  BY <1>1, <1>2, TypeCorrect, PTL DEF Spec

=============================================================================
