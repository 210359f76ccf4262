----------------------------- MODULE TurbineProofs -----------------------------
(***************************************************************************)
(* The properties of Turbine for every number of sub-steps, every interval *)
(* of the checkpoints and any number of runs.  Each is carried from stage  *)
(* to stage by an invariant that says what holds inside a step.            *)
(***************************************************************************)
EXTENDS Turbine, IntervalLemmas, TLAPS

-----------------------------------------------------------------------------
(* Arithmetic *)

LEMMA QuotientOfMultiple ==
  ASSUME NEW a \in Int, a > 0, NEW b \in Int
  PROVE  (a * b) \div a = b
<1> DEFINE q == (a * b) \div a
           r == (a * b) % a
<1>1. q \in Int /\ r \in Int /\ 0 <= r /\ r < a /\ (a * q) + r = (a * b) + 0
  <2>1. a * b \in Int
    OBVIOUS
  <2> QED
    BY <2>1, QuotientRemainder, RemainderRange
<1> HIDE DEF q, r
<1>2. q = b
  BY <1>1, QuotientUnique
<1> QED
  BY <1>2 DEF q

LEMMA SameRemainder ==
  ASSUME NEW k \in Int, k > 0, NEW o \in Int, o % k = 0, NEW m \in Int, m % k = 0
  PROVE  (m - o) % k = 0
<1> DEFINE qm == m \div k
           qo == o \div k
           qd == (m - o) \div k
           rd == (m - o) % k
<1>1. /\ qm \in Int /\ qo \in Int /\ m = k * qm /\ o = k * qo
      /\ qd \in Int /\ rd \in Int /\ 0 <= rd /\ rd < k /\ m - o = (k * qd) + rd
  <2>1. m - o \in Int
    OBVIOUS
  <2> QED
    BY <2>1, QuotientRemainder, RemainderRange
<1> HIDE DEF qm, qo, qd, rd
<1>2. (k * qd) + rd = (k * (qm - qo)) + 0
  BY <1>1
<1>3. qd = qm - qo
  BY <1>1, <1>2, QuotientUnique
<1>4. rd = 0
  BY <1>1, <1>2, <1>3
<1> QED
  BY <1>4 DEF rd

-----------------------------------------------------------------------------
(* Types, and where the checkpoints of the flow lie.                       *)

TurbineTypeOK ==
  /\ kind \in {"fast", "kynema_fmb"}
  /\ sim_mode \in {"init", "restart", "replay"}
  /\ stage \in Stages /\ starting \in BOOLEAN /\ replayed \in BOOLEAN
  /\ n \in Nat /\ origin \in Nat /\ runs \in Int
  /\ checkpoint_start \in Int /\ chkpt_start_index \in Int
  /\ time_index \in Int /\ is_solution0 \in BOOLEAN /\ substep_counter \in Int
  /\ substep \in 0..num_substeps
  /\ container \in {"none", "home", "scattered"}
  /\ velocity \in Int /\ loads \in Int /\ force \in Int /\ source \in Int
  /\ rows \in Seq(Int) /\ turbine_chkpts \subseteq Int /\ flow_chkpts \subseteq Nat
  /\ origin <= n /\ (sim_mode = "replay" => kind = "fast" /\ origin < n)
  /\ kind = "fast" => \A step \in flow_chkpts : origin <= step

LEMMA CfdSteps ==
  TurbineTypeOK => NumCfdSteps = n - origin /\ NumSteps = num_substeps * (n - origin)
<1> SUFFICES ASSUME TurbineTypeOK PROVE NumCfdSteps = n - origin
  BY DEF NumSteps
<1>1. n - origin \in Int /\ num_substeps \in Int /\ num_substeps > 0
  BY SubstepsAssumption DEF TurbineTypeOK
<1>2. (num_substeps * (n - origin)) \div num_substeps = n - origin
  BY <1>1, QuotientOfMultiple
<1> QED
  BY <1>2 DEF NumCfdSteps, NumSteps

LEMMA TurbineTypesHold == Spec => []TurbineTypeOK
<1> USE SubstepsAssumption DEF TurbineTypeOK
<1>1. Init => TurbineTypeOK
  <2> SUFFICES ASSUME Init PROVE TurbineTypeOK
    OBVIOUS
  <2>1. kind \in {"fast", "kynema_fmb"} /\ n \in Nat /\ origin \in Nat /\ rows \in Seq(Int)
    BY KindsAssumption, EntriesAssumption DEF Init
  <2>2. /\ stage \in Stages /\ starting \in BOOLEAN /\ replayed \in BOOLEAN
        /\ is_solution0 \in BOOLEAN
    BY DEF Init, Stages
  <2>3. /\ time_index \in Int /\ substep_counter \in Int /\ substep \in 0..num_substeps
        /\ velocity \in Int /\ loads \in Int /\ force \in Int /\ source \in Int /\ runs \in Int
    BY DEF Init, Zero, Unset
  <2>4. /\ sim_mode \in {"init", "restart", "replay"} /\ container \in {"none", "home", "scattered"}
        /\ turbine_chkpts \subseteq Int /\ flow_chkpts \subseteq Nat
    BY DEF Init
  <2>5. checkpoint_start \in Int /\ chkpt_start_index \in Int
    BY <2>1, StartsAssumption DEF Init, StartIndex
  <2>6. origin <= n /\ sim_mode = "init" /\ flow_chkpts = {}
    BY <2>1 DEF Init
  <2> QED
    BY <2>1, <2>2, <2>3, <2>4, <2>5, <2>6
<1>2. TurbineTypeOK /\ [Next]_vars => TurbineTypeOK'
  <2> SUFFICES ASSUME TurbineTypeOK, [Next]_vars PROVE TurbineTypeOK'
    OBVIOUS
  <2> USE DEF Stages, Then, setting, schedule, solver, samples, files
  <2>1. CASE InitTurbine
    BY <2>1 DEF InitTurbine, PrepareNetcdfFile
  <2>2. CASE ReplayTurbine
    <3>1. NumCfdSteps \in Nat \ {0}
      BY <2>2, CfdSteps DEF ReplayTurbine
    <3>2. time_index' \in Int /\ stage' \in Stages
      BY <2>2, <3>1 DEF ReplayTurbine, Assert
    <3>3. velocity' \in Int
      <4>1. Len(rows) >= NumCfdSteps => rows[NumCfdSteps] \in Int
        BY <3>1
      <4> QED
        BY <2>2, <4>1 DEF ReplayTurbine
    <3>4. loads' \in Int /\ force' \in Int
      BY <2>2, <3>2, <3>3 DEF ReplayTurbine
    <3>5. is_solution0' = FALSE /\ replayed' = TRUE
      BY <2>2 DEF ReplayTurbine
    <3> QED
      BY <2>2, <3>2, <3>3, <3>4, <3>5 DEF ReplayTurbine
  <2>3. CASE RestartTurbine
    BY <2>3 DEF RestartTurbine, PrepareNetcdfFile, Solution0Left
  <2>4. CASE SetupContainer
    BY <2>4 DEF SetupContainer
  <2>5. CASE ResetContainer
    BY <2>5 DEF ResetContainer
  <2>6. CASE UpdatePositions
    BY <2>6 DEF UpdatePositions, Assert
  <2>7. CASE SampleFields
    BY <2>7 DEF SampleFields, Assert
  <2>8. CASE InitSolution
    <3>1. substep_counter' \in Int /\ loads' \in Int /\ force' \in Int
      <4>1. DoTurbineStep(FALSE)
        BY <2>8 DEF InitSolution
      <4> QED
        BY <4>1 DEF DoTurbineStep, FastStep, UpdateTurbine, CounterAfter, BuffersDue
    <3> QED
      BY <2>8, <3>1 DEF InitSolution
  <2>9. CASE AdvanceTurbine
    <3>1. rows' \in Seq(Int)
      BY <2>9 DEF AdvanceTurbine
    <3> QED
      BY <2>9, <3>1 DEF AdvanceTurbine
  <2>10. CASE TurbineSubstep
    BY <2>10 DEF TurbineSubstep, DoTurbineStep, FastStep, UpdateTurbine, CounterAfter, BuffersDue
  <2>11. CASE TurbineCheckpoint
    BY <2>11 DEF TurbineCheckpoint
  <2>12. CASE ComputeSourceTerm
    BY <2>12 DEF ComputeSourceTerm
  <2>13. CASE NewStep
    BY <2>13 DEF NewStep
  <2>14. CASE Regrid
    BY <2>14 DEF Regrid, Zero
  <2>15. CASE Solve
    BY <2>15 DEF Solve
  <2>16. CASE Restart
    <3>1. PICK step \in flow_chkpts :
            \E mode \in {"init"} \cup (IF kind = "fast" THEN Modes ELSE {}) : Resume(step, mode)
      BY <2>16 DEF Restart
    <3>2. PICK mode \in {"init"} \cup (IF kind = "fast" THEN Modes ELSE {}) : Resume(step, mode)
      BY <3>1
    <3>3. mode \in {"init", "restart", "replay"} /\ (mode # "init" => kind = "fast")
      BY ModesAssumption
    <3>4. n' = step /\ sim_mode' = mode /\ n' \in Nat /\ origin' \in Nat
      BY <3>2 DEF Resume
    <3>5. origin' <= n' /\ (mode = "replay" => origin' < n') /\ (kind = "fast" => origin' = origin)
      <4>1. CASE mode = "init"
        BY <3>2, <3>4, <4>1 DEF Resume, CanResume
      <4>2. CASE mode # "init"
        <5>1. kind = "fast" /\ origin' = origin /\ origin <= step
          BY <3>1, <3>2, <3>3, <4>2 DEF Resume
        <5>2. mode = "replay" => step > origin
          BY <3>2 DEF Resume, CanResume
        <5> QED
          BY <3>4, <4>2, <5>1, <5>2
      <4> QED
        BY <4>1, <4>2
    <3>6. chkpt_start_index' \in Int
      BY <2>16, <3>4 DEF Restart, StartIndex
    <3> QED
      BY <2>16, <3>3, <3>4, <3>5, <3>6 DEF Restart, Zero, Unset
  <2>17. CASE UNCHANGED vars
    BY <2>17 DEF vars
  <2>18. CASE PrepareForTimeIntegration
    BY <2>18 DEF PrepareForTimeIntegration
  <2> QED
    BY <2>1, <2>2, <2>3, <2>4, <2>5, <2>6, <2>7, <2>8, <2>9, <2>10, <2>11, <2>12, <2>13,
       <2>14, <2>15, <2>16, <2>17, <2>18 DEF Next, Finished
<1> QED
  BY <1>1, <1>2, PTL DEF Spec

-----------------------------------------------------------------------------
(* A restart: which step, and which schedule of the flow.                  *)

LEMMA RestartKeepsOrigin ==
  ASSUME TurbineTypeOK, Restart
  PROVE  /\ n' \in flow_chkpts /\ (kind = "fast" => origin' = origin)
         /\ sim_mode' \in {"init", "restart", "replay"}
         /\ kind = "fast" /\ sim_mode' = "init" => n' = origin
         /\ sim_mode' = "restart" => num_substeps * (n' - origin) \in turbine_chkpts
<1>1. PICK step \in flow_chkpts :
        \E mode \in {"init"} \cup (IF kind = "fast" THEN Modes ELSE {}) : Resume(step, mode)
  BY DEF Restart
<1>2. PICK mode \in {"init"} \cup (IF kind = "fast" THEN Modes ELSE {}) : Resume(step, mode)
  BY <1>1
<1>3. mode \in {"init", "restart", "replay"}
  BY ModesAssumption
<1>4. n' = step /\ sim_mode' = mode
  BY <1>2 DEF Resume
<1> QED
  BY <1>1, <1>2, <1>3, <1>4 DEF Resume, CanResume

-----------------------------------------------------------------------------
(* The turbine and the flow are in step.  The invariant names the time of  *)
(* the turbine in every stage, and when its first solution is due.         *)

LEMMA DueNext == TurbineTypeOK => Due(n + 1) = Due(n) + num_substeps /\ Due(n) \in Int
BY SubstepsAssumption DEF TurbineTypeOK, Due

LEMMA DueAtEntry == TurbineTypeOK /\ n = origin => Due(n) = 0
BY SubstepsAssumption DEF TurbineTypeOK, Due

Advanced == stage = "solve" \/ (stage = "source" /\ ~starting)

StartStages == {"init_turbine", "container"}
LoopStages == {"prepare", "pre_advance", "loop", "solve"}

FirstSolution ==
  /\ stage \in StartStages => starting
  /\ stage \in LoopStages => ~starting
  /\ runs >= 1 /\ (runs = 1 /\ (starting \/ stage = "prepare") => n = origin)
  /\ ~replayed /\ stage # "aborted" =>
       /\ starting /\ stage # "source" => is_solution0
       /\ ~starting \/ stage = "source" => ~is_solution0
       /\ stage = "substeps" => ~starting

TurbineTime ==
  ~replayed =>
    /\ stage = "init_turbine" /\ sim_mode = "init" => n = origin /\ time_index = 0
    /\ stage = "substeps" => time_index = Due(n) + substep
    /\ Advanced => time_index = Due(n + 1)
    /\ stage \notin {"init_turbine", "substeps", "aborted"} /\ ~Advanced => time_index = Due(n)

LEMMA FirstSolutionHolds ==
  ASSUME TurbineTypeOK, FirstSolution, [Next]_vars
  PROVE  FirstSolution'
<1> USE DEF TurbineTypeOK
<1> USE DEF FirstSolution, StartStages, LoopStages, Then, setting, schedule, solver, samples, files
<1>1. CASE InitTurbine
  BY <1>1 DEF InitTurbine
<1>2. CASE ReplayTurbine
  BY <1>2 DEF ReplayTurbine, Assert
<1>3. CASE RestartTurbine
  BY <1>3 DEF RestartTurbine, Solution0Left
<1>4. CASE SetupContainer
  BY <1>4 DEF SetupContainer
<1>5. CASE ResetContainer
  BY <1>5 DEF ResetContainer
<1>6. CASE UpdatePositions
  BY <1>6 DEF UpdatePositions, Assert
<1>7. CASE SampleFields
  BY <1>7 DEF SampleFields, Assert
<1>8. CASE InitSolution
  <2>1. ~is_solution0' /\ stage' = "source" /\ UNCHANGED << starting, replayed, runs, n, origin >>
        /\ stage = "forces"
    BY <1>8 DEF InitSolution
  <2> QED
    BY <2>1
<1>9. CASE AdvanceTurbine
  BY <1>9 DEF AdvanceTurbine
<1>10. CASE TurbineSubstep
  BY <1>10 DEF TurbineSubstep
<1>11. CASE TurbineCheckpoint
  BY <1>11 DEF TurbineCheckpoint
<1>12. CASE ComputeSourceTerm
  BY <1>12 DEF ComputeSourceTerm
<1>13. CASE NewStep
  BY <1>13 DEF NewStep
<1>14. CASE Regrid
  BY <1>14 DEF Regrid
<1>15. CASE Solve
  BY <1>15 DEF Solve
<1>16. CASE Restart
  BY <1>16 DEF Restart, Resume
<1>17. CASE UNCHANGED vars
  BY <1>17 DEF vars
<1>18. CASE PrepareForTimeIntegration
  BY <1>18 DEF PrepareForTimeIntegration
<1> QED
  BY <1>1, <1>2, <1>3, <1>4, <1>5, <1>6, <1>7, <1>8, <1>9, <1>10, <1>11, <1>12, <1>13,
     <1>14, <1>15, <1>16, <1>17, <1>18 DEF Next, Finished

LEMMA TurbineTimeHolds ==
  ASSUME TurbineTypeOK, FirstSolution, TurbineTime, [Next]_vars
  PROVE  TurbineTime'
<1> USE SubstepsAssumption DEF TurbineTime, Advanced, Then, setting, schedule, solver, samples, files
<1> USE DEF TurbineTypeOK
<1>0. Due(n + 1) = Due(n) + num_substeps /\ Due(n) \in Int
  BY DueNext
<1>1. CASE InitTurbine
  <2>1. n = origin => Due(n)' = 0
    BY <1>1 DEF InitTurbine, Due
  <2> QED
    BY <1>1, <2>1 DEF InitTurbine
<1>2. CASE ReplayTurbine
  BY <1>2 DEF ReplayTurbine
<1>3. CASE RestartTurbine
  BY <1>3 DEF RestartTurbine, Due
<1>4. CASE SetupContainer
  BY <1>4 DEF SetupContainer, Due
<1>5. CASE ResetContainer
  BY <1>5 DEF ResetContainer, Due
<1>6. CASE UpdatePositions
  BY <1>6 DEF UpdatePositions, Assert, Due
<1>7. CASE SampleFields
  BY <1>7 DEF SampleFields, Assert, Due
<1>8. CASE InitSolution
  <2>1. ~replayed => starting
    BY <1>8 DEF InitSolution, FirstSolution
  <2>2. UNCHANGED << time_index, n, origin, starting, replayed >> /\ stage' = "source"
    BY <1>8 DEF InitSolution
  <2>3. Due(n)' = Due(n)
    BY <2>2 DEF Due
  <2> QED
    BY <1>8, <2>1, <2>2, <2>3 DEF InitSolution
<1>9. CASE AdvanceTurbine
  <2>1. Due(n)' = Due(n)
    BY <1>9 DEF AdvanceTurbine, Due
  <2> QED
    BY <1>9, <2>1, <1>0 DEF AdvanceTurbine
<1>10. CASE TurbineSubstep
  <2>1. Due(n)' = Due(n)
    BY <1>10 DEF TurbineSubstep, Due
  <2> QED
    BY <1>10, <2>1, <1>0 DEF TurbineSubstep
<1>11. CASE TurbineCheckpoint
  <2>1. Due(n)' = Due(n) /\ Due(n + 1)' = Due(n + 1)
    BY <1>11 DEF TurbineCheckpoint, Due
  <2>2. ~replayed => ~starting
    BY <1>11 DEF TurbineCheckpoint, FirstSolution
  <2> QED
    BY <1>11, <2>1, <2>2, <1>0 DEF TurbineCheckpoint
<1>12. CASE ComputeSourceTerm
  <2>1. Due(n)' = Due(n) /\ Due(n + 1)' = Due(n + 1)
    BY <1>12 DEF ComputeSourceTerm, Due
  <2> QED
    BY <1>12, <2>1, <1>0 DEF ComputeSourceTerm
<1>13. CASE NewStep
  BY <1>13 DEF NewStep, Due
<1>14. CASE Regrid
  BY <1>14 DEF Regrid, Due
<1>15. CASE Solve
  <2>1. Due(n)' = Due(n + 1)
    BY <1>15 DEF Solve, Due
  <2> QED
    BY <1>15, <2>1 DEF Solve
<1>16. CASE Restart
  BY <1>16 DEF Restart, Resume
<1>17. CASE UNCHANGED vars
  BY <1>17 DEF vars, Due
<1>18. CASE PrepareForTimeIntegration
  BY <1>18 DEF PrepareForTimeIntegration, Due
<1> QED
  BY <1>1, <1>2, <1>3, <1>4, <1>5, <1>6, <1>7, <1>8, <1>9, <1>10, <1>11, <1>12, <1>13,
     <1>14, <1>15, <1>16, <1>17, <1>18 DEF Next, Finished

(* Neither a regrid, nor a kill at any point and a restart from a pair of  *)
(* checkpoints, puts the turbine ahead of the flow or behind it.           *)
THEOREM TurbineStaysInStep == Spec => []TurbineInStep
<1>1. Init /\ TurbineTypeOK => FirstSolution /\ TurbineTime
  BY DEF Init, FirstSolution, TurbineTime, Advanced, StartStages, LoopStages
<1>2. TurbineTypeOK /\ (FirstSolution /\ TurbineTime) /\ [Next]_vars => (FirstSolution /\ TurbineTime)'
  BY FirstSolutionHolds, TurbineTimeHolds
<1>3. TurbineTypeOK /\ FirstSolution /\ TurbineTime => TurbineInStep
  BY DEF TurbineTime, TurbineInStep, InStep, Advanced
<1> QED
  BY <1>1, <1>2, <1>3, TurbineTypesHold, PTL DEF Spec

-----------------------------------------------------------------------------
(* The assertions, and the length of the file of velocities.               *)

LEMMA RowAppended ==
  ASSUME TurbineTypeOK, AdvanceTurbine
  PROVE  /\ Len(rows) \in Nat /\ Len(rows') = Len(rows) + 1
         /\ \A i \in 1..Len(rows) : rows'[i] = rows[i]
         /\ rows'[Len(rows) + 1] = velocity
BY DEF TurbineTypeOK, AdvanceTurbine

(* A replay finds its rows: there is one for every step up to any          *)
(* checkpoint of the flow.                                                 *)
Solution0First ==
  /\ is_solution0 => starting
  /\ stage \in {"substeps", "source"} => ~is_solution0

ReplayInv ==
  kind = "fast" =>
    /\ \A step \in flow_chkpts : step - origin <= Len(rows)
    /\ n - origin <= Len(rows)
    /\ stage = "substeps" \/ Advanced => (n - origin) + 1 <= Len(rows)

ContainerInv ==
  /\ stage = "positions" => container = "home"
  /\ stage = "sample" => container = "scattered"

Ready == Solution0First /\ ReplayInv /\ ContainerInv /\ AssertsHold

LEMMA ReadyHolds ==
  ASSUME TurbineTypeOK, Ready, [Next]_vars
  PROVE  Ready'
<1> USE DEF Ready, Solution0First, ReplayInv, ContainerInv, AssertsHold, Advanced, Then,
            setting, schedule, solver, samples, files
<1> USE DEF TurbineTypeOK
<1>0. Len(rows) \in Nat
  OBVIOUS
<1>1. CASE InitTurbine
  BY <1>1 DEF InitTurbine, PrepareNetcdfFile
<1>2. CASE ReplayTurbine
  <2>1. NumCfdSteps <= Len(rows) /\ time_index' = NumSteps
    BY <1>2, CfdSteps DEF ReplayTurbine
  <2>2. stage' = "container"
    BY <1>2, <2>1, <1>0, CfdSteps DEF ReplayTurbine, Assert
  <2>3. UNCHANGED << sim_mode, kind, starting, flow_chkpts, n, origin, rows >> /\ is_solution0' = FALSE
    BY <1>2 DEF ReplayTurbine
  <2> QED
    BY <2>2, <2>3
<1>3. CASE RestartTurbine
  BY <1>3 DEF RestartTurbine, PrepareNetcdfFile, Solution0Left
<1>4. CASE SetupContainer
  BY <1>4 DEF SetupContainer
<1>5. CASE ResetContainer
  BY <1>5 DEF ResetContainer
<1>6. CASE UpdatePositions
  BY <1>6 DEF UpdatePositions, Assert
<1>7. CASE SampleFields
  BY <1>7 DEF SampleFields, Assert
<1>8. CASE InitSolution
  <2>1. UNCHANGED << sim_mode, kind, starting, flow_chkpts, n, origin, rows >>
        /\ is_solution0' = FALSE /\ stage' = "source" /\ starting
    BY <1>8 DEF InitSolution
  <2> QED
    BY <2>1
<1>9. CASE AdvanceTurbine
  <2>1. UNCHANGED << sim_mode, kind, starting, is_solution0, flow_chkpts, n, origin >>
        /\ stage' = "substeps" /\ ~is_solution0
    BY <1>9 DEF AdvanceTurbine
  <2>2. Len(rows') = Len(rows) + 1
    BY <1>9, RowAppended
  <2> QED
    BY <2>1, <2>2, <1>0
<1>10. CASE TurbineSubstep
  BY <1>10 DEF TurbineSubstep
<1>11. CASE TurbineCheckpoint
  BY <1>11 DEF TurbineCheckpoint
<1>12. CASE ComputeSourceTerm
  BY <1>12 DEF ComputeSourceTerm
<1>13. CASE NewStep
  BY <1>13 DEF NewStep
<1>14. CASE Regrid
  BY <1>14 DEF Regrid
<1>15. CASE Solve
  <2>1. UNCHANGED << sim_mode, kind, starting, is_solution0, origin, rows, container >>
        /\ stage' = "loop" /\ stage = "solve" /\ n' = n + 1 /\ flow_chkpts' \subseteq flow_chkpts \cup {n + 1}
    BY <1>15 DEF Solve
  <2>2. kind = "fast" => (n + 1) - origin <= Len(rows)
    BY <2>1
  <2>3. kind = "fast" => \A step \in flow_chkpts' : step - origin <= Len(rows)
    BY <2>1, <2>2
  <2> QED
    BY <2>1, <2>2, <2>3
<1>16. CASE Restart
  <2>1. /\ stage' = "init_turbine" /\ starting' = TRUE /\ is_solution0' = TRUE
        /\ UNCHANGED << kind, rows, flow_chkpts >>
    BY <1>16 DEF Restart
  <2>2. n' \in flow_chkpts /\ (kind = "fast" => origin' = origin)
    BY <1>16, RestartKeepsOrigin
  <2> QED
    BY <2>1, <2>2
<1>17. CASE UNCHANGED vars
  BY <1>17 DEF vars
<1>18. CASE PrepareForTimeIntegration
  BY <1>18 DEF PrepareForTimeIntegration
<1> QED
  BY <1>1, <1>2, <1>3, <1>4, <1>5, <1>6, <1>7, <1>8, <1>9, <1>10, <1>11, <1>12, <1>13,
     <1>14, <1>15, <1>16, <1>17, <1>18 DEF Next, Finished

(* The calls of the container come in the order it expects, and a replay   *)
(* finds its rows: no assertion of the code fails.                         *)
THEOREM NoAssertFails == Spec => []AssertsHold
<1>1. Init /\ TurbineTypeOK => Ready
  BY DEF Init, TurbineTypeOK, Ready, Solution0First, ReplayInv, ContainerInv, AssertsHold, Advanced
<1>2. TurbineTypeOK /\ Ready /\ [Next]_vars => Ready'
  BY ReadyHolds
<1>3. Ready => AssertsHold
  BY DEF Ready
<1> QED
  BY <1>1, <1>2, <1>3, TurbineTypesHold, PTL DEF Spec

-----------------------------------------------------------------------------
(* The forces of a step.                                                   *)

(* The counter of Kynema-FMB goes along with the sub-steps, and OpenFAST   *)
(* does not use its own.                                                   *)
Counter ==
  substep_counter = IF kind = "kynema_fmb" /\ stage = "substeps" /\ substep < num_substeps
                    THEN substep ELSE 0

ForcesInv ==
  /\ stage \in {"forces", "substeps"} => velocity = n
  /\ stage = "substeps" =>
       /\ substep > 0 => loads = n
       /\ substep = num_substeps => force = time_index
  /\ stage = "source" /\ ~starting => force = time_index /\ loads = n /\ velocity = n
  /\ stage = "solve" => source = time_index /\ loads = n /\ velocity = n

Forced == Solution0First /\ Counter /\ ForcesInv

LEMMA SubstepForces ==
  ASSUME TurbineTypeOK, Forced, TurbineSubstep
  PROVE  Counter' /\ ForcesInv'
<1> USE SubstepsAssumption DEF TurbineTypeOK
<1>1. /\ stage = "substeps" /\ substep < num_substeps /\ velocity = n
      /\ substep' = substep + 1 /\ time_index' = time_index + 1
      /\ UNCHANGED << kind, n, stage, velocity >>
  BY DEF TurbineSubstep, Forced, ForcesInv, setting
<1>2. DoTurbineStep(TRUE)
  BY DEF TurbineSubstep
<1>3. CASE kind = "fast"
  <2>1. substep_counter' = 0 /\ loads' = n /\ force' = time_index'
    BY <1>1, <1>2, <1>3 DEF DoTurbineStep, FastStep, Forced, Counter
  <2> QED
    BY <1>1, <1>3, <2>1 DEF Counter, ForcesInv
<1>4. CASE kind = "kynema_fmb"
  <2>1. substep_counter = substep
    BY <1>1, <1>4 DEF Forced, Counter
  <2>2. UpdateTurbine(TRUE)
    BY <1>2, <1>4 DEF DoTurbineStep
  <2>3. substep_counter' = IF substep + 1 = num_substeps THEN 0 ELSE substep + 1
    BY <2>1, <2>2 DEF UpdateTurbine, CounterAfter
  <2>4. loads' = n
    BY <1>1, <2>1, <2>2 DEF UpdateTurbine, Forced, ForcesInv
  <2>5. substep' = num_substeps => force' = time_index'
    BY <1>1, <2>2, <2>3 DEF UpdateTurbine, BuffersDue
  <2> QED
    BY <1>1, <1>4, <2>3, <2>4, <2>5 DEF Counter, ForcesInv
<1> QED
  BY <1>3, <1>4

LEMMA ForcedHolds ==
  ASSUME TurbineTypeOK, Forced, [Next]_vars
  PROVE  (Counter /\ ForcesInv)'
<1> USE SubstepsAssumption DEF Forced, Counter, ForcesInv, Then, setting, schedule, solver, samples, files
<1> USE DEF TurbineTypeOK
<1>1. CASE InitTurbine
  BY <1>1 DEF InitTurbine
<1>2. CASE ReplayTurbine
  BY <1>2 DEF ReplayTurbine, Assert
<1>3. CASE RestartTurbine
  BY <1>3 DEF RestartTurbine
<1>4. CASE SetupContainer
  BY <1>4 DEF SetupContainer
<1>5. CASE ResetContainer
  BY <1>5 DEF ResetContainer
<1>6. CASE UpdatePositions
  BY <1>6 DEF UpdatePositions, Assert
<1>7. CASE SampleFields
  BY <1>7 DEF SampleFields, Assert
<1>8. CASE InitSolution
  <2>1. stage' = "source" /\ starting' /\ stage = "forces" /\ DoTurbineStep(FALSE)
    BY <1>8 DEF InitSolution, Solution0First
  <2>2. substep_counter = 0
    BY <2>1
  <2>3. substep_counter' = 0
    BY <2>1, <2>2 DEF DoTurbineStep, FastStep, UpdateTurbine, CounterAfter
  <2> QED
    BY <2>1, <2>3
<1>9. CASE AdvanceTurbine
  BY <1>9 DEF AdvanceTurbine
<1>10. CASE TurbineSubstep
  BY <1>10, SubstepForces
<1>11. CASE TurbineCheckpoint
  BY <1>11 DEF TurbineCheckpoint
<1>12. CASE ComputeSourceTerm
  BY <1>12 DEF ComputeSourceTerm
<1>13. CASE NewStep
  BY <1>13 DEF NewStep
<1>14. CASE Regrid
  BY <1>14 DEF Regrid
<1>15. CASE Solve
  BY <1>15 DEF Solve
<1>16. CASE Restart
  BY <1>16 DEF Restart
<1>17. CASE UNCHANGED vars
  BY <1>17 DEF vars
<1>18. CASE PrepareForTimeIntegration
  BY <1>18 DEF PrepareForTimeIntegration
<1> QED
  BY <1>1, <1>2, <1>3, <1>4, <1>5, <1>6, <1>7, <1>8, <1>9, <1>10, <1>11, <1>12, <1>13,
     <1>14, <1>15, <1>16, <1>17, <1>18 DEF Next, Finished

(* The loads of every sub-step come from the flow at the start of the      *)
(* step, and the step is solved with the forces of its last sub-step, for  *)
(* both solvers and any number of sub-steps.                               *)
THEOREM ForcesBelongToTheStep == Spec => []ForcesOfTheStep
<1>1. Init /\ TurbineTypeOK => Ready /\ Counter /\ ForcesInv
  BY DEF Init, TurbineTypeOK, Ready, Solution0First, ReplayInv, ContainerInv, AssertsHold,
     Advanced, Counter, ForcesInv
<1>2. TurbineTypeOK /\ (Ready /\ Counter /\ ForcesInv) /\ [Next]_vars => (Ready /\ Counter /\ ForcesInv)'
  BY ReadyHolds, ForcedHolds DEF Forced, Ready
<1>3. ForcesInv => ForcesOfTheStep
  BY DEF ForcesInv, ForcesOfTheStep
<1> QED
  BY <1>1, <1>2, <1>3, TurbineTypesHold, PTL DEF Spec

-----------------------------------------------------------------------------
(* The rows of sampled velocities, and what a replay reads.                *)

PlacesInv ==
  kind = "fast" /\ NoneTwice =>
    /\ \A i \in 1..Len(rows) : rows[i] = (origin + i) - 1
    /\ stage = "container" /\ sim_mode = "replay" => loads = n - 1

LEMMA PlaceOfTheNext ==
  ASSUME TurbineTypeOK, Ready, Forced, PlacesInv, AdvanceTurbine
  PROVE  PlacesInv'
<1> USE DEF TurbineTypeOK
<1> SUFFICES ASSUME (kind = "fast" /\ NoneTwice)'
             PROVE  \A i \in 1..Len(rows') : rows'[i] = (origin + i) - 1
  BY DEF PlacesInv, AdvanceTurbine, setting, Then
<1>1. /\ Len(rows) \in Nat /\ Len(rows') = Len(rows) + 1
      /\ \A i \in 1..Len(rows) : rows'[i] = rows[i]
      /\ rows'[Len(rows) + 1] = n
  BY RowAppended DEF Forced, ForcesInv, AdvanceTurbine
<1>2. kind = "fast" /\ \A i, j \in 1..Len(rows') : rows'[i] = rows'[j] => i = j
  <2>1. kind = "fast" /\ rows' \in Seq(Int)
    BY DEF AdvanceTurbine, setting
  <2> QED
    BY <2>1 DEF NoneTwice
<1>3. \A i \in 1..Len(rows) : rows[i] = (origin + i) - 1
  <2>1. \A i, j \in 1..Len(rows) : rows[i] = rows[j] => i = j
    BY <1>1, <1>2
  <2> QED
    BY <1>2, <2>1 DEF PlacesInv, NoneTwice
<1>4. n - origin = Len(rows)
  <2>1. n - origin <= Len(rows) /\ 0 <= n - origin /\ n - origin \in Int
    BY <1>2 DEF Ready, ReplayInv
  <2>2. ASSUME n - origin < Len(rows) PROVE FALSE
    <3> DEFINE k == (n - origin) + 1
    <3>1. k \in 1..Len(rows) /\ (origin + k) - 1 = n
      BY <1>1, <2>1, <2>2
    <3>2. rows'[k] = rows'[Len(rows) + 1]
      BY <1>1, <1>3, <3>1
    <3> HIDE DEF k
    <3>3. k \in 1..Len(rows') /\ Len(rows) + 1 \in 1..Len(rows') /\ k # Len(rows) + 1
      BY <1>1, <3>1
    <3> QED
      BY <1>2, <3>2, <3>3
  <2> QED
    BY <1>1, <2>1, <2>2
<1> QED
  BY <1>1, <1>3, <1>4

LEMMA PlacesHold ==
  ASSUME TurbineTypeOK, Ready, Forced, PlacesInv, [Next]_vars
  PROVE  PlacesInv'
<1> USE DEF PlacesInv, NoneTwice, Then, setting, schedule, solver, samples, files
<1> USE DEF TurbineTypeOK
<1>k. UNCHANGED << kind, rows, origin >> /\ stage' # "container" => PlacesInv'
  OBVIOUS
<1>1. CASE InitTurbine
  BY <1>1 DEF InitTurbine, PrepareNetcdfFile
<1>2. CASE ReplayTurbine
  <2>1. UNCHANGED << kind, rows, origin, n, sim_mode >> /\ sim_mode = "replay"
    BY <1>2 DEF ReplayTurbine
  <2>2. kind = "fast" /\ n - origin \in 1..Len(rows)
    BY <2>1 DEF Ready, ReplayInv
  <2>3. loads' = rows[n - origin]
    BY <1>2, <2>2, CfdSteps DEF ReplayTurbine
  <2>4. NoneTwice => rows[n - origin] = n - 1
    BY <2>2
  <2> QED
    BY <2>1, <2>2, <2>3, <2>4
<1>3. CASE RestartTurbine
  BY <1>3 DEF RestartTurbine, PrepareNetcdfFile
<1>4. CASE SetupContainer
  BY <1>4, <1>k DEF SetupContainer
<1>5. CASE ResetContainer
  BY <1>5, <1>k DEF ResetContainer
<1>6. CASE UpdatePositions
  BY <1>6, <1>k DEF UpdatePositions, Assert
<1>7. CASE SampleFields
  BY <1>7, <1>k DEF SampleFields, Assert
<1>8. CASE InitSolution
  <2>1. UNCHANGED << kind, rows, origin >> /\ stage' = "source"
    BY <1>8 DEF InitSolution
  <2> QED
    BY <2>1, <1>k
<1>9. CASE AdvanceTurbine
  BY <1>9, PlaceOfTheNext
<1>10. CASE TurbineSubstep
  <2>1. UNCHANGED << kind, rows, origin >> /\ stage' = "substeps"
    BY <1>10 DEF TurbineSubstep
  <2> QED
    BY <2>1, <1>k
<1>11. CASE TurbineCheckpoint
  BY <1>11, <1>k DEF TurbineCheckpoint
<1>12. CASE ComputeSourceTerm
  BY <1>12, <1>k DEF ComputeSourceTerm
<1>13. CASE NewStep
  BY <1>13, <1>k DEF NewStep
<1>14. CASE Regrid
  BY <1>14, <1>k DEF Regrid
<1>15. CASE Solve
  BY <1>15, <1>k DEF Solve
<1>16. CASE Restart
  <2>1. UNCHANGED << kind, rows >> /\ stage' = "init_turbine" /\ (kind = "fast" => origin' = origin)
    BY <1>16, RestartKeepsOrigin DEF Restart
  <2> QED
    BY <2>1
<1>17. CASE UNCHANGED vars
  BY <1>17 DEF vars
<1>18. CASE PrepareForTimeIntegration
  BY <1>18, <1>k DEF PrepareForTimeIntegration
<1> QED
  BY <1>1, <1>2, <1>3, <1>4, <1>5, <1>6, <1>7, <1>8, <1>9, <1>10, <1>11, <1>12, <1>13,
     <1>14, <1>15, <1>16, <1>17, <1>18 DEF Next, Finished

(* As long as no step is in the file twice, over all runs a replay reads   *)
(* the velocities of its steps, one row for each in their order.           *)
THEOREM RowsAreInTheirPlaces == Spec => []RowsOfTheSteps
<1> DEFINE Inv == Ready /\ Counter /\ ForcesInv /\ PlacesInv
<1>1. Init /\ TurbineTypeOK => Inv
  <2>1. Init /\ TurbineTypeOK => PlacesInv
    BY DEF Init, PlacesInv
  <2> QED
    BY <2>1 DEF Init, TurbineTypeOK, Ready, Solution0First, ReplayInv, ContainerInv, AssertsHold,
       Advanced, Counter, ForcesInv
<1>2. TurbineTypeOK /\ Inv /\ [Next]_vars => Inv'
  BY ReadyHolds, ForcedHolds, PlacesHold DEF Forced, Ready
<1>3. TurbineTypeOK /\ Inv => RowsOfTheSteps
  <2> SUFFICES ASSUME TurbineTypeOK, Inv, kind = "fast", NoneTwice
               PROVE  /\ n - origin <= Len(rows)
                      /\ \A i \in DOMAIN rows : rows[i] = (origin + i) - 1
                      /\ stage = "container" /\ sim_mode = "replay" => loads = n - 1
    BY DEF RowsOfTheSteps
  <2>1. n - origin <= Len(rows)
    BY DEF Ready, ReplayInv
  <2>2. DOMAIN rows = 1..Len(rows)
    BY DEF TurbineTypeOK
  <2> QED
    BY <2>1, <2>2 DEF PlacesInv
<1> HIDE DEF Inv
<1> QED
  BY <1>1, <1>2, <1>3, TurbineTypesHold, PTL DEF Spec

-----------------------------------------------------------------------------
(* The pairs of checkpoints.                                               *)

(* The flow counts its interval from a step of the turbine's schedule, and *)
(* the turbine's checkpoints are of steps on that schedule: this is why a  *)
(* restart from a pair keeps the two together.                             *)
OnSchedule(index) == \E steps \in Int : index = num_substeps * steps /\ steps % chkpt_interval = 0

PairsInv ==
  kind = "fast" /\ ~replayed /\ StartsAgree =>
    /\ sim_mode # "replay" => (chkpt_start_index - origin) % chkpt_interval = 0
    /\ sim_mode = "replay" => stage = "init_turbine"
    /\ \A index \in turbine_chkpts : OnSchedule(index)
    /\ \A step \in flow_chkpts : origin < step /\ step < MaxStep => Due(step) \in turbine_chkpts
    /\ Advanced /\ WriteCheckpoint(n + 1) => Due(n + 1) \in turbine_chkpts

Paired == FirstSolution /\ TurbineTime /\ PairsInv

LEMMA SameSchedule ==
  ASSUME TurbineTypeOK, NEW step \in Int, WriteCheckpoint(step),
         (chkpt_start_index - origin) % chkpt_interval = 0
  PROVE  (step - origin) % chkpt_interval = 0
<1> DEFINE k == chkpt_interval
           back == 0 - (chkpt_start_index - origin)
           since == step - chkpt_start_index
<1>1. k \in Int /\ k > 0 /\ back \in Int /\ since \in Int /\ chkpt_start_index - origin \in Int
  BY IntervalAssumption DEF TurbineTypeOK
<1>2. 0 % k = 0
  BY <1>1
<1>3. back % k = 0
  BY <1>1, <1>2, SameRemainder
<1>4. since % k = 0
  BY DEF WriteCheckpoint
<1>5. (since - back) % k = 0
  <2> HIDE DEF k, back, since
  <2> QED
    BY <1>1, <1>3, <1>4, SameRemainder
<1>6. since - back = step - origin
  BY DEF TurbineTypeOK
<1> QED
  BY <1>5, <1>6

LEMMA CheckpointWritten ==
  ASSUME TurbineTypeOK, Paired, TurbineCheckpoint, kind = "fast", ~replayed, StartsAgree
  PROVE  /\ WriteCheckpoint(n + 1) => Due(n + 1) \in turbine_chkpts'
         /\ \A index \in turbine_chkpts' : OnSchedule(index)
<1> USE SubstepsAssumption, IntervalAssumption DEF TurbineTypeOK
<1>1. stage = "substeps" /\ substep = num_substeps
  BY DEF TurbineCheckpoint
<1>2. time_index = Due(n + 1)
  BY <1>1, DueNext DEF Paired, TurbineTime
<1>3. time_index \div num_substeps = (n + 1) - origin
  BY <1>2, QuotientOfMultiple DEF Due
<1>4. WriteCheckpoint(n + 1) => TurbineCheckpointDue
  <2> SUFFICES ASSUME WriteCheckpoint(n + 1) PROVE TurbineCheckpointDue
    OBVIOUS
  <2>1. (chkpt_start_index - origin) % chkpt_interval = 0
    BY <1>1 DEF Paired, PairsInv
  <2>2. n + 1 \in Int
    OBVIOUS
  <2>3. ((n + 1) - origin) % chkpt_interval = 0
    BY <2>1, <2>2, SameSchedule
  <2> QED
    BY <2>3, <1>3 DEF TurbineCheckpointDue
<1>5. TurbineCheckpointDue => OnSchedule(time_index)
  <2> SUFFICES ASSUME TurbineCheckpointDue PROVE OnSchedule(time_index)
    OBVIOUS
  <2>1. (n + 1) - origin \in Int /\ ((n + 1) - origin) % chkpt_interval = 0
    BY <1>3 DEF TurbineCheckpointDue
  <2>2. time_index = num_substeps * ((n + 1) - origin)
    BY <1>2 DEF Due
  <2> QED
    BY <2>1, <2>2 DEF OnSchedule
<1>6. turbine_chkpts' = IF TurbineCheckpointDue THEN turbine_chkpts \cup {time_index} ELSE turbine_chkpts
  BY DEF TurbineCheckpoint
<1>7. \A index \in turbine_chkpts : OnSchedule(index)
  BY DEF Paired, PairsInv
<1> QED
  BY <1>2, <1>4, <1>5, <1>6, <1>7

LEMMA RestartsOnSchedule ==
  ASSUME TurbineTypeOK, PairsInv, Restart, kind = "fast", ~replayed, StartsAgree,
         sim_mode' # "replay"
  PROVE  (chkpt_start_index' - origin) % chkpt_interval = 0
<1> USE SubstepsAssumption, IntervalAssumption DEF TurbineTypeOK
<1>1. chkpt_start_index' = IF checkpoint_start = NotGiven THEN n' ELSE checkpoint_start
  BY DEF Restart, StartIndex
<1>2. CASE checkpoint_start # NotGiven
  BY <1>1, <1>2 DEF StartsAgree
<1>3. CASE checkpoint_start = NotGiven /\ sim_mode' = "init"
  <2>1. n' = origin
    BY <1>3, RestartKeepsOrigin
  <2>2. chkpt_start_index' - origin = 0
    BY <1>1, <1>3, <2>1
  <2> QED
    BY <2>2
<1>4. CASE checkpoint_start = NotGiven /\ sim_mode' = "restart"
  <2>1. num_substeps * (n' - origin) \in turbine_chkpts /\ n' \in flow_chkpts
    BY <1>4, RestartKeepsOrigin
  <2>2. OnSchedule(num_substeps * (n' - origin))
    BY <2>1 DEF PairsInv
  <2>3. PICK steps \in Int :
          num_substeps * (n' - origin) = num_substeps * steps /\ steps % chkpt_interval = 0
    BY <2>2 DEF OnSchedule
  <2>4. n' - origin \in Int
    BY <2>1
  <2>5. (num_substeps * (n' - origin)) \div num_substeps = n' - origin
    BY <2>4, QuotientOfMultiple
  <2>6. (num_substeps * steps) \div num_substeps = steps
    BY QuotientOfMultiple
  <2>7. n' - origin = steps
    BY <2>3, <2>5, <2>6
  <2> QED
    BY <1>1, <1>4, <2>3, <2>7
<1> QED
  BY <1>2, <1>3, <1>4, RestartKeepsOrigin

LEMMA PairsInvHolds ==
  ASSUME TurbineTypeOK, Paired, [Next]_vars
  PROVE  PairsInv'
<1> USE DEF Paired, Advanced, Then, setting, schedule, solver, samples, files
<1>s. UNCHANGED << origin, checkpoint_start >> => (StartsAgree' <=> StartsAgree)
  BY DEF StartsAgree
<1>k. UNCHANGED << kind, sim_mode, replayed, origin, schedule, flow_chkpts, turbine_chkpts, n >>
      /\ (Advanced' => Advanced) /\ (stage = "init_turbine" /\ sim_mode = "replay" => UNCHANGED stage)
      => PairsInv'
  BY <1>s DEF Due, PairsInv, WriteCheckpoint, OnSchedule
<1>1. CASE InitTurbine
  BY <1>1, <1>k DEF InitTurbine
<1>2. CASE ReplayTurbine
  BY <1>2 DEF ReplayTurbine, PairsInv
<1>3. CASE RestartTurbine
  BY <1>3, <1>k DEF RestartTurbine
<1>4. CASE SetupContainer
  BY <1>4, <1>k DEF SetupContainer
<1>5. CASE ResetContainer
  BY <1>5, <1>k DEF ResetContainer
<1>6. CASE UpdatePositions
  BY <1>6, <1>k DEF UpdatePositions, Assert
<1>7. CASE SampleFields
  BY <1>7, <1>k DEF SampleFields, Assert
<1>8. CASE InitSolution
  <2>1. ~replayed => starting'
    BY <1>8 DEF InitSolution, FirstSolution, TurbineTypeOK
  <2>2. UNCHANGED << kind, sim_mode, replayed, origin, schedule, flow_chkpts, turbine_chkpts, n >>
        /\ stage' = "source" /\ stage = "forces"
    BY <1>8 DEF InitSolution
  <2> QED
    BY <2>1, <2>2, <1>s DEF Due, PairsInv, WriteCheckpoint, OnSchedule
<1>9. CASE AdvanceTurbine
  BY <1>9, <1>k DEF AdvanceTurbine
<1>10. CASE TurbineSubstep
  BY <1>10, <1>k DEF TurbineSubstep
<1>11. CASE TurbineCheckpoint
  <2>1. UNCHANGED << kind, sim_mode, replayed, origin, schedule, flow_chkpts, n >>
        /\ turbine_chkpts \subseteq turbine_chkpts' /\ stage = "substeps"
    BY <1>11 DEF TurbineCheckpoint
  <2> QED
    BY <1>11, <2>1, <1>s, CheckpointWritten DEF Due, PairsInv, WriteCheckpoint, OnSchedule
<1>12. CASE ComputeSourceTerm
  BY <1>12, <1>k DEF ComputeSourceTerm
<1>13. CASE NewStep
  BY <1>13, <1>k DEF NewStep
<1>14. CASE Regrid
  BY <1>14, <1>k DEF Regrid
<1>15. CASE Solve
  <2>1. UNCHANGED << kind, sim_mode, replayed, origin, schedule, turbine_chkpts >>
        /\ stage = "solve" /\ stage' = "loop"
    BY <1>15 DEF Solve
  <2>2. \A step \in flow_chkpts' :
          step \in flow_chkpts \/ (step = n + 1 /\ (WriteCheckpoint(n + 1) \/ step = MaxStep))
    BY <1>15 DEF Solve, CheckpointDue
  <2>3. MaxStep \in Int /\ \A step \in Int : Due(step)' = Due(step)
    BY <2>1, BoundsAssumption DEF Due
  <2>4. flow_chkpts \subseteq Int /\ n + 1 \in Int
    BY DEF TurbineTypeOK
  <2>5. ASSUME kind = "fast", ~replayed, StartsAgree, NEW step \in flow_chkpts', origin < step, step < MaxStep
        PROVE  Due(step)' \in turbine_chkpts'
    <3>1. Due(step) \in turbine_chkpts
      <4>1. CASE step \in flow_chkpts
        BY <2>5, <4>1 DEF PairsInv
      <4>2. CASE step = n + 1 /\ WriteCheckpoint(n + 1)
        BY <2>1, <2>5, <4>2 DEF PairsInv
      <4> QED
        BY <2>2, <2>3, <2>4, <2>5, <4>1, <4>2
    <3>2. step \in Int
      BY <2>2, <2>4
    <3> QED
      BY <2>1, <2>3, <3>1, <3>2
  <2> QED
    BY <2>1, <2>5, <1>s DEF PairsInv, OnSchedule
<1>16. CASE Restart
  <2>1. UNCHANGED << kind, replayed, flow_chkpts, turbine_chkpts, checkpoint_start >>
        /\ stage' = "init_turbine"
    BY <1>16 DEF Restart
  <2>2. kind = "fast" => origin' = origin
    BY <1>16, RestartKeepsOrigin
  <2>3. kind = "fast" /\ ~replayed /\ StartsAgree /\ sim_mode' # "replay" =>
          (chkpt_start_index' - origin) % chkpt_interval = 0
    BY <1>16, RestartsOnSchedule
  <2> QED
    BY <2>1, <2>2, <2>3, <1>s DEF Due, PairsInv, OnSchedule
<1>17. CASE UNCHANGED vars
  BY <1>17, <1>k DEF vars
<1>18. CASE PrepareForTimeIntegration
  <2>1. UNCHANGED << kind, sim_mode, replayed, origin, schedule, turbine_chkpts, n >>
        /\ stage = "prepare" /\ stage' = "loop"
    BY <1>18 DEF PrepareForTimeIntegration
  <2>2. flow_chkpts' \subseteq flow_chkpts \cup {n} /\ (flow_chkpts' # flow_chkpts => ~IsRestart)
    BY <1>18 DEF PrepareForTimeIntegration
  <2>3. \A step \in flow_chkpts' : step \in flow_chkpts \/ step = origin
    BY <2>1, <2>2 DEF FirstSolution, IsRestart, TurbineTypeOK
  <2>4. flow_chkpts \subseteq Int /\ origin \in Int
    BY DEF TurbineTypeOK
  <2>5. ASSUME kind = "fast", ~replayed, StartsAgree, NEW step \in flow_chkpts', origin < step, step < MaxStep
        PROVE  Due(step)' \in turbine_chkpts'
    <3>1. step \in flow_chkpts
      BY <2>3, <2>4, <2>5
    <3>2. Due(step) \in turbine_chkpts
      BY <2>5, <3>1 DEF PairsInv
    <3> QED
      BY <2>1, <3>2 DEF Due
  <2> QED
    BY <2>1, <2>5, <1>s DEF Due, PairsInv, WriteCheckpoint, OnSchedule
<1> QED
  BY <1>1, <1>2, <1>3, <1>4, <1>5, <1>6, <1>7, <1>8, <1>9, <1>10, <1>11, <1>12, <1>13,
     <1>14, <1>15, <1>16, <1>17, <1>18 DEF Next, Finished

(* Every checkpoint of the flow but the first and the last has one of      *)
(* OpenFAST beside it: the flow's schedule moves with each restart, and a  *)
(* restart from a pair leaves it on the turbine's.                         *)
THEOREM CheckpointsArePairs == Spec => []CheckpointsPair
<1>1. Init /\ TurbineTypeOK => Paired
  <2> SUFFICES ASSUME Init, TurbineTypeOK PROVE PairsInv
    <3>1. Init /\ TurbineTypeOK => FirstSolution
      BY DEF Init, FirstSolution, StartStages, LoopStages
    <3>2. Init /\ TurbineTypeOK => TurbineTime
      BY DEF Init, TurbineTime, Advanced
    <3> QED
      BY <3>1, <3>2 DEF Paired
  <2>1. StartsAgree => (chkpt_start_index - origin) % chkpt_interval = 0
    <3>1. CASE checkpoint_start = NotGiven
      <4>1. chkpt_start_index - origin = 0
        BY <3>1 DEF Init, StartIndex, TurbineTypeOK
      <4> QED
        BY <4>1, IntervalAssumption
    <3>2. CASE checkpoint_start # NotGiven
      BY <3>2 DEF Init, StartIndex, StartsAgree
    <3> QED
      BY <3>1, <3>2
  <2> QED
    BY <2>1 DEF Init, PairsInv, Advanced
<1>2. TurbineTypeOK /\ Paired /\ [Next]_vars => Paired'
  BY FirstSolutionHolds, TurbineTimeHolds, PairsInvHolds DEF Paired
<1>3. Paired => CheckpointsPair
  BY DEF Paired, PairsInv, CheckpointsPair
<1> QED
  BY <1>1, <1>2, <1>3, TurbineTypesHold, PTL DEF Spec

=============================================================================
