-------------------------- MODULE SimulationProofs --------------------------
(***************************************************************************)
(* Theorems about checkpoints, crashes and restarts, for every number of   *)
(* field files and launches and every set of input files.                  *)
(***************************************************************************)
EXTENDS Simulation, EvolveProofs

USE FilesAssumption

-----------------------------------------------------------------------------
(* What a step of the simulation does, as the proofs need it. *)

(* A run that has crashed is, for the loop, in its initial state.          *)
LEMMA CrashIsInit ==
  ASSUME TypeOK, Crash
  PROVE  Init'
<1>1. cfg' = cfg /\ cfg \in Inputs /\ ~ParseAborts(cfg)
  BY DEF Crash, MemoryLost, TypeOK, ClockTypeOK
<1>2. ClockInit'
  BY <1>1 DEF Crash, MemoryLost, ClockInit, UnsetDt, Adaptive, StartIndices, StartTimes
<1>3. QED
  BY <1>2 DEF Crash, MemoryLost, Init

(* A restart reads a directory that is there.                              *)
LEMMA RestartDirectory ==
  ASSUME SimTypeOK, restart_file # Unset
  PROVE  /\ disk[restart_file] \in Directories
         /\ disk[restart_file] \in Directory /\ disk[restart_file].header \in Header
BY DEF SimTypeOK, Directories, Directory

(* The loop, seen from the simulation: its own steps, a restart from any   *)
(* header, an aborted restart, or the beginning again.                     *)
LEMMA SimSteps ==
  ASSUME SimTypeOK, [SimNext]_sim_vars
  PROVE  AnyStep \/ RestartAborts \/ Crash
<1>1. CASE SimPrepare \/ SimPostAdvanceWork \/ SimOutputAtFinalTime
  BY <1>1 DEF SimPrepare, SimPostAdvanceWork, SimOutputAtFinalTime, WritesCheckpoint, Solver,
              AnyStep, Step
<1>2. CASE SimAdvance \/ SimCfl \/ SimNoIterations
  BY <1>2 DEF SimAdvance, SimCfl, SimNoIterations, Solver, AnyStep, Step
<1>3. CASE WriteHeader \/ WriteField \/ SimStopped \/ UNCHANGED sim_vars
  BY <1>3 DEF WriteHeader, WriteField, SimStopped, sim_vars, AnyStep
<1>4. CASE SimRestart
  BY <1>4, RestartDirectory DEF SimRestart, AnyStep
<1>5. ASSUME NEW i \in DOMAIN disk \cup {Unset}, Launch(i)
      PROVE  AnyStep
  BY <1>5 DEF Launch, AnyStep
<1>6. QED
  BY <1>1, <1>2, <1>3, <1>4, <1>5 DEF SimNext

LEMMA NextEvolveInv ==
  ASSUME DelaysHaveDt, EvolveInv, SimTypeOK, [SimNext]_sim_vars
  PROVE  EvolveInv'
<1>1. CASE AnyStep
  BY <1>1, NextTypeOK, NextLoopInv, NextScheduleInv, NextOutputsInv DEF EvolveInv
<1>2. CASE RestartAborts
  <2>1. stage = "init" /\ stage' = "abort" /\ UNCHANGED << clock_vars, last_out >>
    BY <1>2 DEF RestartAborts
  <2>2. TypeOK'
    BY <2>1 DEF EvolveInv, TypeOK, ClockTypeOK, clock_vars, Stages
  <2>3. LoopInv'
    BY <2>1 DEF EvolveInv, LoopInv, clock_vars, Adaptive
  <2>4. ScheduleInv'
    BY <2>1, OutputsUpToDate DEF EvolveInv, clock_vars, Reached
  <2>5. OutputsInv'
    BY <2>1 DEF EvolveInv, OutputsInv, clock_vars
  <2>6. QED
    BY <2>2, <2>3, <2>4, <2>5 DEF EvolveInv
<1>3. CASE Crash
  <2>1. Init'
    BY <1>3, CrashIsInit DEF EvolveInv
  <2>2. QED
    BY <2>1, InitTypeOK, InitLoopInv, InitScheduleInv, InitOutputsInv, PTL DEF EvolveInv
<1>4. QED
  BY <1>1, <1>2, <1>3, SimSteps

-----------------------------------------------------------------------------
(* The directories on disk. *)

LEMMA PutDirectories ==
  ASSUME NEW i, NEW d, disk' = Put(i, d)
  PROVE  /\ DOMAIN disk' = DOMAIN disk \cup {i}
         /\ disk'[i] = d
         /\ \A j \in DOMAIN disk \ {i} : disk'[j] = disk[j]
         /\ Directories' = {d} \cup {disk[j] : j \in DOMAIN disk \ {i}}
<1>1. DOMAIN disk' = DOMAIN disk \cup {i} /\ disk'[i] = d
      /\ \A j \in DOMAIN disk \ {i} : disk'[j] = disk[j]
  BY DEF Put
<1>2. ASSUME NEW e \in Directories'
      PROVE  e \in {d} \cup {disk[j] : j \in DOMAIN disk \ {i}}
  <2>1. PICK j \in DOMAIN disk' : e = disk'[j]
    BY DEF Directories
  <2>2. CASE j = i
    BY <1>1, <2>1, <2>2
  <2>3. CASE j # i
    BY <1>1, <2>1, <2>3
  <2>4. QED
    BY <2>2, <2>3
<1>3. ASSUME NEW e \in {d} \cup {disk[j] : j \in DOMAIN disk \ {i}}
      PROVE  e \in Directories'
  <2>1. CASE e = d
    BY <1>1, <2>1 DEF Directories
  <2>2. CASE e \in {disk[j] : j \in DOMAIN disk \ {i}}
    <3>1. PICK j \in DOMAIN disk \ {i} : e = disk[j]
      BY <2>2
    <3>2. j \in DOMAIN disk' /\ disk'[j] = e
      BY <1>1, <3>1
    <3>3. QED
      BY <3>2 DEF Directories
  <2>3. QED
    BY <1>3, <2>1, <2>2
<1>4. QED
  BY <1>1, <1>2, <1>3

LEMMA HeaderNowType ==
  ASSUME TypeOK, LoopInv, OutputsInv
  PROVE  HeaderNow \in Header
<1>1. /\ time_index \in Nat /\ new_time \in Int /\ cur_time \in Int
      /\ dt[0] \in Int /\ dt[1] \in Int /\ dt[2] \in Int
  BY DEF TypeOK, ClockTypeOK, OutputsInv
<1>2. new_time \in Nat
  BY <1>1 DEF LoopInv
<1>3. QED
  BY <1>1, <1>2 DEF HeaderNow, Header

LEMMA EmptyDirectoryType ==
  EmptyDirectory \in Directory /\ ~Complete(EmptyDirectory)
BY DEF EmptyDirectory, BlankHeader, NoFiles, Directory, Header, Complete, HasHeader, Missing

LEMMA PartialType ==
  ASSUME EvolveInv, SimTypeOK, NEW n \in 1..(NumFiles + 1)
  PROVE  /\ Partial(n) \in Directory
         /\ \A k \in FileIds : Partial(n).files[k] \in {Missing, Partial(n).by}
         /\ n \in FileIds => ~Complete(Partial(n))
         /\ n = NumFiles + 1 => Complete(Partial(n))
<1>1. HeaderNow \in Header /\ run \in Nat /\ run > 0 /\ NumFiles \in Nat
  BY HeaderNowType DEF EvolveInv, SimTypeOK
<1>2. Partial(n) \in Directory
  BY <1>1 DEF Partial, Directory, Missing
<1>3. \A k \in FileIds : Partial(n).files[k] = IF k < n THEN run ELSE Missing
  BY DEF Partial
<1>4. n \in FileIds => Partial(n).files[n] = Missing
  BY <1>3 DEF FileIds
<1>5. n = NumFiles + 1 => \A k \in FileIds : Partial(n).files[k] = run
  BY <1>1, <1>3 DEF FileIds
<1>6. Partial(n).by = run
  BY DEF Partial
<1>7. QED
  BY <1>1, <1>2, <1>3, <1>4, <1>5, <1>6 DEF Complete, HasHeader, Missing

(* WriteHeader and WriteField add the next file of the checkpoint to a     *)
(* directory that is not complete.                                         *)
FileWritten(n) ==
  /\ io # Idle /\ stage \in {"top", "final"}
  /\ time_index \in DOMAIN disk /\ ~Complete(disk[time_index])
  /\ disk' = Put(time_index, Partial(n))
  /\ io' = IF n \in FileIds THEN n ELSE Idle
  /\ UNCHANGED << evolve_vars, renamed, job_vars, loaded >>

LEMMA HeaderWritten ==
  ASSUME EvolveInv, SimTypeOK, DiskInv, WriteHeader
  PROVE  FileWritten(1)
<1>1. io = HeaderNext /\ io # Idle /\ 1 \in FileIds
  BY DEF WriteHeader, HeaderNext, Idle, FileIds
<1>2. disk[time_index] = EmptyDirectory /\ time_index \in DOMAIN disk
      /\ stage \in {"top", "final"}
  BY <1>1 DEF DiskInv
<1>3. NoFiles = [k \in FileIds |-> IF k < 1 THEN run ELSE Missing]
  BY DEF NoFiles, FileIds
<1>4. [EmptyDirectory EXCEPT !.by = run, !.header = HeaderNow] = Partial(1)
  <2> DEFINE d == [EmptyDirectory EXCEPT !.by = run]
  <2>1. d = [by |-> run, header |-> BlankHeader, files |-> NoFiles]
    BY DEF EmptyDirectory
  <2>2. [EmptyDirectory EXCEPT !.by = run, !.header = HeaderNow] = [d EXCEPT !.header = HeaderNow]
    OBVIOUS
  <2> HIDE DEF d
  <2>3. [d EXCEPT !.header = HeaderNow] = [by |-> run, header |-> HeaderNow, files |-> NoFiles]
    BY <2>1
  <2>4. QED
    BY <1>3, <2>2, <2>3 DEF Partial
<1>5. QED
  BY <1>1, <1>2, <1>4, EmptyDirectoryType DEF WriteHeader, FileWritten

LEMMA FieldWritten ==
  ASSUME EvolveInv, SimTypeOK, DiskInv, WriteField
  PROVE  io + 1 \in 1..(NumFiles + 1) /\ FileWritten(io + 1)
<1>1. io \in FileIds /\ io # Idle /\ NumFiles \in Nat /\ io \in Nat
      /\ io \in 1..(NumFiles + 1)
      /\ io + 1 \in 1..(NumFiles + 1) /\ (io = NumFiles <=> io + 1 \notin FileIds)
  BY DEF WriteField, FileIds, Idle
<1>2. disk[time_index] = Partial(io) /\ time_index \in DOMAIN disk
      /\ stage \in {"top", "final"}
  BY <1>1 DEF DiskInv
<1>3. [Partial(io) EXCEPT !.files[io] = run] = Partial(io + 1)
  <2> DEFINE f == [k \in FileIds |-> IF k < io THEN run ELSE Missing]
             g == [k \in FileIds |-> IF k < io + 1 THEN run ELSE Missing]
  <2>1. \A k \in FileIds : [f EXCEPT ![io] = run][k] = g[k]
    BY <1>1 DEF FileIds
  <2>2. [f EXCEPT ![io] = run] = g
    BY <2>1
  <2>3. [Partial(io) EXCEPT !.files[io] = run]
          = [by |-> run, header |-> HeaderNow, files |-> [f EXCEPT ![io] = run]]
    <3>1. Partial(io) = [by |-> run, header |-> HeaderNow, files |-> f]
      BY DEF Partial
    <3> HIDE DEF f
    <3>2. QED
      BY <3>1
  <2>4. QED
    BY <2>2, <2>3 DEF Partial
<1>4. ~Complete(disk[time_index])
  BY <1>1, <1>2, PartialType
<1>5. io' = IF io + 1 \in FileIds THEN io + 1 ELSE Idle
  BY <1>1 DEF WriteField
<1>6. disk' = Put(time_index, Partial(io + 1))
  BY <1>2, <1>3 DEF WriteField
<1>7. QED
  BY <1>1, <1>2, <1>4, <1>5, <1>6 DEF WriteField, FileWritten

(* What the steps of the simulation do to the files.                       *)
DirectoryMade ==
  /\ alive /\ io = Idle /\ stage' \in {"top", "final"}
  /\ PreBuildDirectories
  /\ UNCHANGED << clock_vars, job_vars, loaded >>

NoFileWritten ==
  /\ UNCHANGED << disk, renamed, io, alive, run, restart_file, allow_missing >>
  /\ \/ io = Idle /\ alive
     \/ UNCHANGED << evolve_vars, loaded >>

LEMMA DiskSteps ==
  ASSUME EvolveInv, SimTypeOK, DiskInv, [SimNext]_sim_vars
  PROVE  \/ DirectoryMade
         \/ \E n \in 1..(NumFiles + 1) : FileWritten(n)
         \/ Crash
         \/ \E i \in DOMAIN disk \cup {Unset} : Launch(i)
         \/ NoFileWritten
<1>1. CASE SimPrepare \/ SimPostAdvanceWork \/ SimOutputAtFinalTime
  BY <1>1 DEF SimPrepare, SimPostAdvanceWork, SimOutputAtFinalTime, WritesCheckpoint, Solver,
              PrepareForTimeIntegration, PostAdvanceWork, OutputAtFinalTime, DirectoryMade,
              NoFileWritten, io_vars, job_vars
<1>2. CASE SimAdvance \/ SimCfl \/ SimNoIterations
  BY <1>2 DEF SimAdvance, SimCfl, SimNoIterations, Solver, NoFileWritten, io_vars, job_vars
<1>3. CASE WriteHeader
  <2>1. 1 \in 1..(NumFiles + 1)
    OBVIOUS
  <2>2. QED
    BY <1>3, <2>1, HeaderWritten
<1>4. CASE WriteField
  BY <1>4, FieldWritten
<1>5. CASE SimRestart \/ RestartAborts
  <2>1. stage = "init" /\ alive /\ UNCHANGED << io_vars, job_vars >>
    BY <1>5 DEF SimRestart, RestartAborts, ReadCheckpointFile
  <2>2. io = Idle
    BY <2>1 DEF DiskInv
  <2>3. QED
    BY <2>1, <2>2 DEF NoFileWritten, io_vars, job_vars
<1>6. CASE SimStopped \/ UNCHANGED sim_vars
  BY <1>6 DEF SimStopped, sim_vars, NoFileWritten, io_vars, job_vars
<1>7. QED
  BY <1>1, <1>2, <1>3, <1>4, <1>5, <1>6 DEF SimNext

(* What a step leaves on disk: the directories there were, except for the  *)
(* one that is written to, or made anew.                                   *)
LEMMA DirectoriesAfter ==
  ASSUME EvolveInv, SimTypeOK, DiskInv, [SimNext]_sim_vars
  PROVE  \A d \in Directories' \cup renamed' :
           \/ d \in Directories \cup renamed
           \/ d = EmptyDirectory
           \/ \E n \in 1..(NumFiles + 1) : FileWritten(n) /\ d = Partial(n)
<1> SUFFICES ASSUME NEW d \in Directories' \cup renamed'
             PROVE  \/ d \in Directories \cup renamed
                    \/ d = EmptyDirectory
                    \/ \E n \in 1..(NumFiles + 1) : FileWritten(n) /\ d = Partial(n)
  OBVIOUS
<1>1. CASE DirectoryMade
  <2>1. Directories' = {EmptyDirectory} \cup {disk[j] : j \in DOMAIN disk \ {time_index}}
    BY <1>1, PutDirectories DEF DirectoryMade, PreBuildDirectories, NewDirectory
  <2>2. renamed' \subseteq renamed \cup Directories
    BY <1>1 DEF DirectoryMade, PreBuildDirectories, KeepOld, Directories
  <2>3. QED
    BY <2>1, <2>2 DEF Directories
<1>2. ASSUME NEW n \in 1..(NumFiles + 1), FileWritten(n)
      PROVE  d \in Directories \cup renamed \/ d = Partial(n)
  <2>1. Directories' = {Partial(n)} \cup {disk[j] : j \in DOMAIN disk \ {time_index}}
        /\ renamed' = renamed
    BY <1>2, PutDirectories DEF FileWritten
  <2>2. QED
    BY <2>1 DEF Directories
<1>3. CASE UNCHANGED << disk, renamed >>
  BY <1>3 DEF Directories
<1>4. QED
  BY <1>1, <1>2, <1>3, DiskSteps DEF Crash, Launch, NoFileWritten, io_vars

(* Nothing that is complete is lost.                                       *)
LEMMA SavedKept ==
  ASSUME EvolveInv, SimTypeOK, DiskInv, [SimNext]_sim_vars,
         NEW d \in Directories \cup renamed, Complete(d)
  PROVE  d \in Directories' \cup renamed'
<1>1. CASE DirectoryMade
  <2>1. Directories' = {EmptyDirectory} \cup {disk[j] : j \in DOMAIN disk \ {time_index}}
    BY <1>1, PutDirectories DEF DirectoryMade, PreBuildDirectories, NewDirectory
  <2>2. renamed' = IF time_index \in DOMAIN disk /\ Complete(disk[time_index])
                   THEN renamed \cup {disk[time_index]} ELSE renamed
    BY <1>1 DEF DirectoryMade, PreBuildDirectories, KeepOld
  <2>3. QED
    BY <2>1, <2>2 DEF Directories
<1>2. ASSUME NEW n \in 1..(NumFiles + 1), FileWritten(n)
      PROVE  d \in Directories' \cup renamed'
  <2>1. Directories' = {Partial(n)} \cup {disk[j] : j \in DOMAIN disk \ {time_index}}
        /\ renamed' = renamed /\ ~Complete(disk[time_index])
    BY <1>2, PutDirectories DEF FileWritten
  <2>2. QED
    BY <2>1 DEF Directories
<1>3. CASE UNCHANGED << disk, renamed >>
  BY <1>3 DEF Directories
<1>4. QED
  BY <1>1, <1>2, <1>3, DiskSteps DEF Crash, Launch, NoFileWritten, io_vars

-----------------------------------------------------------------------------
(* SimInv is inductive. *)

LEMMA InitSimInv == SimInit => SimInv
<1> SUFFICES ASSUME SimInit PROVE SimInv
  OBVIOUS
<1>1. EvolveInv
  BY InitTypeOK, InitLoopInv, InitScheduleInv, InitOutputsInv DEF SimInit, EvolveInv
<1>2. DOMAIN disk = {} /\ Directories = {}
  BY DEF SimInit, Directories
<1>3. SimTypeOK
  BY <1>2 DEF SimInit, SimTypeOK, NoFiles, Missing, Idle
<1>4. DiskInv
  BY <1>2 DEF SimInit, DiskInv, Idle, HeaderNext, FileIds
<1>5. QED
  BY <1>1, <1>3, <1>4 DEF SimInv

LEMMA NextSimTypeOK ==
  ASSUME EvolveInv, SimTypeOK, DiskInv, [SimNext]_sim_vars
  PROVE  SimTypeOK'
<1>1. Directories' \cup renamed' \subseteq Directory
  BY DirectoriesAfter, EmptyDirectoryType, PartialType DEF SimTypeOK
<1>2. time_index \in Nat
  BY DEF EvolveInv, OutputsInv
<1> DEFINE Types ==
            /\ DOMAIN disk' \subseteq Nat /\ DOMAIN disk \subseteq DOMAIN disk'
            /\ io' \in {Idle, HeaderNext} \cup FileIds
            /\ alive' \in BOOLEAN /\ run' \in Nat \ {0}
            /\ restart_file' \in DOMAIN disk \cup {Unset}
            /\ allow_missing' \in BOOLEAN
<1>3. Types
  <2>1. CASE DirectoryMade
    <3>1. DOMAIN disk' = DOMAIN disk \cup {time_index}
      BY <2>1, PutDirectories DEF DirectoryMade, PreBuildDirectories, NewDirectory
    <3>2. QED
      BY <1>2, <2>1, <3>1 DEF DirectoryMade, PreBuildDirectories, SimTypeOK, job_vars
  <2>2. ASSUME NEW n \in 1..(NumFiles + 1), FileWritten(n)
        PROVE  Types
    <3>1. DOMAIN disk' = DOMAIN disk \cup {time_index}
      BY <2>2, PutDirectories DEF FileWritten
    <3>2. QED
      BY <1>2, <2>2, <3>1 DEF FileWritten, SimTypeOK, job_vars
  <2>3. CASE Crash
    BY <2>3 DEF Crash, MemoryLost, SimTypeOK
  <2>4. ASSUME NEW i \in DOMAIN disk \cup {Unset}, Launch(i)
        PROVE  Types
    BY <2>4 DEF Launch, SimTypeOK, io_vars
  <2>5. CASE NoFileWritten
    BY <2>5 DEF SimTypeOK, NoFileWritten
  <2>6. QED
    BY <2>1, <2>2, <2>3, <2>4, <2>5, DiskSteps
<1>4. loaded' \in [FileIds -> Nat]
  <2>1. CASE SimRestart
    <3>1. loaded' = disk[restart_file].files
      BY <2>1 DEF SimRestart
    <3>2. QED
      BY <2>1, <3>1, RestartDirectory DEF SimRestart, Directory
  <2>2. CASE Crash
    BY <2>2 DEF Crash, MemoryLost, NoFiles, Missing
  <2>3. CASE UNCHANGED loaded
    BY <2>3 DEF SimTypeOK
  <2>4. QED
    BY <2>1, <2>2, <2>3 DEF SimNext, SimPrepare, SimPostAdvanceWork, SimOutputAtFinalTime,
       WritesCheckpoint, SimAdvance, SimCfl, SimNoIterations, Solver, WriteHeader, WriteField,
       RestartAborts, Launch, SimStopped, sim_vars
<1>5. QED
  BY <1>1, <1>3, <1>4 DEF SimTypeOK

LEMMA NextDiskInv ==
  ASSUME EvolveInv, SimTypeOK, DiskInv, [SimNext]_sim_vars
  PROVE  DiskInv'
<1>1. \A d \in Directories' \cup renamed' : \A k \in FileIds : d.files[k] \in {Missing, d.by}
  <2>1. \A k \in FileIds : EmptyDirectory.files[k] = Missing
    BY DEF EmptyDirectory, NoFiles
  <2>2. QED
    BY <2>1, DirectoriesAfter, PartialType DEF DiskInv
<1> DEFINE Shape ==
            /\ ~alive' => stage' = "init" /\ io' = Idle
            /\ io' # Idle => stage' \in {"top", "final"} /\ time_index' \in DOMAIN disk'
            /\ io' = HeaderNext => disk'[time_index'] = EmptyDirectory
            /\ io' \in FileIds => disk'[time_index'] = Partial(io)'
<1>2. Shape
  <2>1. CASE DirectoryMade
    <3>1. /\ DOMAIN disk' = DOMAIN disk \cup {time_index} /\ disk'[time_index] = EmptyDirectory
          /\ io' = HeaderNext
      BY <2>1, PutDirectories DEF DirectoryMade, PreBuildDirectories, NewDirectory
    <3>2. alive' = alive /\ alive /\ time_index' = time_index /\ stage' \in {"top", "final"}
      BY <2>1 DEF DirectoryMade, clock_vars, job_vars
    <3>3. io' \notin FileIds
      BY <3>1 DEF HeaderNext, FileIds
    <3>4. QED
      BY <3>1, <3>2, <3>3
  <2>2. ASSUME NEW n \in 1..(NumFiles + 1), FileWritten(n)
        PROVE  Shape
    <3>0. disk' = Put(time_index, Partial(n)) /\ io' = (IF n \in FileIds THEN n ELSE Idle)
      BY <2>2 DEF FileWritten
    <3>1. /\ DOMAIN disk' = DOMAIN disk \cup {time_index} /\ disk'[time_index] = Partial(n)
          /\ io' = (IF n \in FileIds THEN n ELSE Idle) /\ io' # HeaderNext
      <4>1. DOMAIN disk' = DOMAIN disk \cup {time_index} /\ disk'[time_index] = Partial(n)
        BY <3>0, PutDirectories
      <4>2. io' # HeaderNext
        BY <3>0 DEF HeaderNext, FileIds, Idle
      <4>3. QED
        BY <3>0, <4>1, <4>2
    <3>2. /\ UNCHANGED << alive, run, stage, time_index, new_time, dt >>
          /\ stage \in {"top", "final"} /\ io # Idle
      BY <2>2 DEF FileWritten, evolve_vars, clock_vars, job_vars
    <3>3. \A m : Partial(m)' = Partial(m)
      BY <3>2 DEF Partial, HeaderNow
    <3>4. io' \in FileIds => io' = n
      BY <3>1 DEF Idle, FileIds
    <3>5. alive'
      BY <3>2 DEF DiskInv, SimTypeOK
    <3>6. io' \in FileIds => disk'[time_index'] = Partial(io)'
      BY <3>1, <3>2, <3>3, <3>4 DEF Partial, HeaderNow
    <3>7. QED
      BY <3>1, <3>2, <3>5, <3>6
  <2>3. CASE Crash
    BY <2>3 DEF Crash, MemoryLost, Idle, HeaderNext, FileIds
  <2>4. ASSUME NEW i \in DOMAIN disk \cup {Unset}, Launch(i)
        PROVE  Shape
    BY <2>4 DEF Launch, DiskInv, io_vars, Idle, HeaderNext, FileIds
  <2>5. CASE NoFileWritten /\ io = Idle /\ alive
    BY <2>5 DEF NoFileWritten, Idle, HeaderNext, FileIds
  <2>6. CASE NoFileWritten /\ UNCHANGED evolve_vars
    <3>1. /\ UNCHANGED << disk, io, alive, run, stage, time_index, new_time, dt >>
      BY <2>6 DEF NoFileWritten, evolve_vars, clock_vars
    <3>2. Partial(io)' = Partial(io)
      BY <3>1 DEF Partial, HeaderNow
    <3>3. QED
      BY <3>1, <3>2 DEF DiskInv
  <2>7. NoFileWritten => (io = Idle /\ alive) \/ UNCHANGED evolve_vars
    BY DEF NoFileWritten
  <2>8. QED
    BY <2>1, <2>2, <2>3, <2>4, <2>5, <2>6, <2>7, DiskSteps
<1>3. QED
  BY <1>1, <1>2 DEF DiskInv

LEMMA SimInvariant == DelaysHaveDt => (SimSpec => []SimInv)
<1> SUFFICES ASSUME DelaysHaveDt PROVE SimSpec => []SimInv
  OBVIOUS
<1>1. SimInv /\ [SimNext]_sim_vars => SimInv'
  BY NextEvolveInv, NextSimTypeOK, NextDiskInv DEF SimInv
<1>2. QED
  BY <1>1, InitSimInv, PTL DEF SimSpec

(* The clock, the loop, the directories and the loaded files keep their    *)
(* types over any sequence of crashes and launches.                        *)
THEOREM SimTypeCorrect == DelaysHaveDt => (SimSpec => [](TypeOK /\ SimTypeOK))
<1>1. SimInv => TypeOK /\ SimTypeOK
  BY DEF SimInv, EvolveInv
<1>2. QED
  BY <1>1, SimInvariant, PTL

-----------------------------------------------------------------------------
(* A checkpoint that has been completed is never lost: neither the next    *)
(* one of its name, nor a crash in the middle of it, nor the runs after    *)
(* that take it from disk.                                                 *)
THEOREM SavedIsNeverLost == DelaysHaveDt => (SimSpec => SavedStaysSaved)
<1> SUFFICES ASSUME DelaysHaveDt PROVE SimSpec => SavedStaysSaved
  OBVIOUS
<1> DEFINE Kept == \A d \in Directories \cup renamed :
                     Complete(d) => d \in Directories' \cup renamed'
<1>1. SimInv /\ [SimNext]_sim_vars => [Kept]_sim_vars
  BY SavedKept DEF SimInv
<1>2. QED
  BY <1>1, SimInvariant, PTL DEF SimSpec, SavedStaysSaved

-----------------------------------------------------------------------------
(* What a restarted run has been started from. *)

LEMMA NextSnapshot ==
  ASSUME SimInv, ResumesOneSnapshot, [SimNext]_sim_vars
  PROVE  ResumesOneSnapshot'
<1>1. CASE SimRestart
  <2> DEFINE d == disk[restart_file]
  <2>1. d \in Directories /\ loaded' = d.files /\ ~FieldsMissing(d)
        /\ UNCHANGED allow_missing
    BY <1>1, RestartDirectory DEF SimInv, SimRestart, job_vars
  <2>2. \A k \in FileIds : d.files[k] \in {Missing, d.by}
    BY <2>1 DEF SimInv, DiskInv
  <2> HIDE DEF d
  <2>3. QED
    BY <2>1, <2>2 DEF ResumesOneSnapshot, FieldsMissing
<1>2. ASSUME stage' \in {"init", "abort"} PROVE ResumesOneSnapshot'
  BY <1>2 DEF ResumesOneSnapshot, Restarted
<1>3. ASSUME UNCHANGED << restart_file, allow_missing, loaded >>,
             restart_file = Unset \/ stage \notin {"init", "abort"}
      PROVE  ResumesOneSnapshot'
  BY <1>3 DEF ResumesOneSnapshot, Restarted
<1>4. CASE SimPrepare \/ SimPostAdvanceWork \/ SimOutputAtFinalTime
  BY <1>3, <1>4 DEF SimPrepare, SimPostAdvanceWork, SimOutputAtFinalTime, WritesCheckpoint, Solver,
              PrepareForTimeIntegration, PostAdvanceWork, OutputAtFinalTime, job_vars
<1>5. CASE SimAdvance \/ SimCfl \/ SimNoIterations
  BY <1>2, <1>3, <1>5 DEF SimAdvance, SimCfl, SimNoIterations, Solver, StartStep, PreAdvance,
              ComputeDt, CflAbort, job_vars
<1>6. CASE WriteHeader \/ WriteField
  <2>1. io # Idle /\ UNCHANGED << job_vars, loaded >>
    BY <1>6 DEF WriteHeader, WriteField, Idle, HeaderNext, FileIds
  <2>2. stage \in {"top", "final"}
    BY <2>1 DEF SimInv, DiskInv
  <2>3. QED
    BY <1>3, <2>1, <2>2 DEF job_vars
<1>7. CASE RestartAborts \/ Crash
  BY <1>2, <1>7 DEF RestartAborts, Crash, MemoryLost
<1>8. ASSUME NEW i \in DOMAIN disk \cup {Unset}, Launch(i)
      PROVE  ResumesOneSnapshot'
  <2>1. stage = "init" /\ stage' = stage
    BY <1>8 DEF Launch, SimInv, DiskInv, evolve_vars
  <2>2. QED
    BY <1>2, <2>1
<1>9. CASE SimStopped \/ UNCHANGED sim_vars
  BY <1>9 DEF SimStopped, sim_vars, evolve_vars, job_vars, ResumesOneSnapshot, Restarted
<1>10. QED
  BY <1>1, <1>4, <1>5, <1>6, <1>7, <1>8, <1>9 DEF SimNext

(* The files a run is restarted from were all written by one run, however  *)
(* many runs have been killed while writing checkpoints of that name; and  *)
(* all of them were there, if missing fields are not allowed.              *)
THEOREM ResumedFromOneSnapshot == DelaysHaveDt => (SimSpec => []ResumesOneSnapshot)
<1> SUFFICES ASSUME DelaysHaveDt PROVE SimSpec => []ResumesOneSnapshot
  OBVIOUS
<1>1. SimInit => ResumesOneSnapshot
  BY DEF SimInit, ResumesOneSnapshot, Restarted
<1>2. SimInv /\ ResumesOneSnapshot /\ [SimNext]_sim_vars => ResumesOneSnapshot'
  BY NextSnapshot
<1>3. QED
  BY <1>1, <1>2, SimInvariant, PTL DEF SimSpec

-----------------------------------------------------------------------------
(* Time in runs with a fixed step. *)

LEMMA OneMoreStep ==
  \A n, f \in Int : (n - 1) * f + f = n * f /\ 0 * f = 0
OBVIOUS

(* The headers of directories that were not there before are those of the  *)
(* present state or blank.                                                 *)
LEMMA HeadersAfter ==
  ASSUME SimInv, [SimNext]_sim_vars, NEW d \in Directories' \cup renamed'
  PROVE  \/ d \in Directories \cup renamed
         \/ d.header = BlankHeader
         \/ d.header = HeaderNow /\ stage \in {"top", "final"}
<1>1. EmptyDirectory.header = BlankHeader /\ \A n : Partial(n).header = HeaderNow
  BY DEF EmptyDirectory, Partial
<1>2. QED
  BY <1>1, DirectoriesAfter DEF SimInv, FileWritten

LEMMA NextFixedStep ==
  ASSUME SimInv, FixedStepInv, [SimNext]_sim_vars
  PROVE  FixedStepInv'
<1>0. cfg' = cfg
  BY DEF SimNext, SimPrepare, SimPostAdvanceWork, SimOutputAtFinalTime, WritesCheckpoint, Solver,
    PrepareForTimeIntegration, PostAdvanceWork, OutputAtFinalTime, SimAdvance, SimCfl,
    SimNoIterations, StartStep, NewTimestep, PreAdvance, AdvanceTime, ComputeDt, SetCurrentCfl,
    CflAbort, InitialIterations, NoInitialIterations, WriteHeader, WriteField, SimRestart,
    ReadCheckpointFile, SetRestartTime, RestartAborts, Crash, MemoryLost, Launch, SimStopped,
    sim_vars, evolve_vars, clock_vars
<1> SUFFICES ASSUME ~Adaptive, cfg.delay_time <= 0
             PROVE  /\ new_time' = StepsMade' * cfg.fixed_dt
                    /\ \A d \in Directories' \cup renamed' :
                         d.header.time = d.header.time_index * cfg.fixed_dt
                    /\ stage' = "advance" => dt'[0] = cfg.fixed_dt
  BY <1>0 DEF FixedStepInv, FixedStepsKeepTime, Adaptive
<1> DEFINE f == cfg.fixed_dt
<1>1. /\ ClockTypeOK /\ f \in Int /\ time_index \in Int /\ new_time \in Int /\ cur_time \in Int
      /\ dt \in [0..2 -> Int] /\ dt[0] \in Int /\ LoopInv
  BY CfgType DEF SimInv, EvolveInv, TypeOK, ClockTypeOK
<1>2. /\ new_time = StepsMade * f
      /\ \A d \in Directories \cup renamed : d.header.time = d.header.time_index * f
      /\ stage = "advance" => dt[0] = f
  BY DEF FixedStepInv, FixedStepsKeepTime
<1> HIDE DEF f
<1>3. \A d \in Directories' \cup renamed' : d.header.time = d.header.time_index * f
  <2>1. BlankHeader.time = BlankHeader.time_index * f
    BY <1>1, OneMoreStep DEF BlankHeader
  <2>2. stage \in {"top", "final"} => HeaderNow.time = HeaderNow.time_index * f
    BY <1>2 DEF HeaderNow, StepsMade, StepInProgress
  <2>3. QED
    BY <1>2, <2>1, <2>2, HeadersAfter
<1> DEFINE Kept == UNCHANGED new_time /\ StepsMade' = StepsMade
<1>4. (Kept \/ (new_time' = 0 /\ StepsMade' = 0)) => new_time' = StepsMade' * f
  BY <1>1, <1>2, OneMoreStep
<1> DEFINE Goal == new_time' = StepsMade' * f /\ (stage' = "advance" => dt'[0] = f)
<1>5. CASE SimPrepare \/ SimPostAdvanceWork \/ SimOutputAtFinalTime
  <2>1. Kept /\ stage' # "advance"
    BY <1>5 DEF SimPrepare, SimPostAdvanceWork, SimOutputAtFinalTime, WritesCheckpoint, Solver,
       PrepareForTimeIntegration, PostAdvanceWork, OutputAtFinalTime, clock_vars,
       StepsMade, StepInProgress
  <2>2. Goal
    BY <1>4, <2>1
  <2>3. QED
    BY <1>3, <2>2 DEF f
<1>6. CASE SimNoIterations \/ \E c \in CflDts : InitialIterations(c)
  <2>1. Kept /\ stage' # "advance"
    BY <1>6 DEF SimNoIterations, Solver, NoInitialIterations, InitialIterations, SetCurrentCfl,
       clock_vars, StepsMade, StepInProgress
  <2>2. Goal
    BY <1>4, <2>1
  <2>3. QED
    BY <1>3, <2>2 DEF f
<1>7. CASE StartStep
  <2>1. Kept /\ stage' # "advance"
    BY <1>1, <1>7 DEF StartStep, NewTimestep, StepsMade, StepInProgress
  <2>2. Goal
    BY <1>4, <2>1
  <2>3. QED
    BY <1>3, <2>2 DEF f
<1>8. CASE PreAdvance
  <2>1. /\ stage = "advance" /\ stage' = "post" /\ new_time' = cur_time + dt[0]
        /\ UNCHANGED << cfg, time_index >>
    BY <1>8 DEF PreAdvance, AdvanceTime
  <2>2. StepsMade = time_index - 1 /\ StepsMade' = time_index /\ cur_time = new_time
    BY <1>1, <2>1 DEF StepsMade, StepInProgress, LoopInv
  <2>3. new_time' = (time_index - 1) * f + f
    BY <1>2, <2>1, <2>2
  <2>4. Goal
    BY <1>1, <2>1, <2>2, <2>3, OneMoreStep
  <2>5. QED
    BY <1>3, <2>4 DEF f
<1>9. ASSUME NEW c \in CflDts, ComputeDt(c)
      PROVE  Goal
  <2>1. Kept /\ dt'[0] = CflDt(c)
    BY <1>1, <1>9 DEF ComputeDt, SetCurrentCfl, StepsMade, StepInProgress
  <2>2. ~InDelay
    BY <1>1, InDelayHasDelay, CfgType DEF LoopInv
  <2>3. CflDt(c) = f
    BY <2>2 DEF CflDt, f
  <2>4. QED
    BY <1>4, <2>1, <2>3
<1>10. CASE RestartAborts \/ \E c \in CflDts : CflAbort(c)
  <2>1. /\ stage \in {"init", "dt"} /\ stage' = "abort"
        /\ UNCHANGED << new_time, time_index, is_init >>
    BY <1>10 DEF RestartAborts, CflAbort, clock_vars
  <2>2. (stage = "dt" <=> ~is_init)
    BY <1>1, <2>1 DEF LoopInv
  <2>3. Kept
    BY <2>1, <2>2 DEF StepsMade, StepInProgress
  <2>4. Goal
    BY <1>4, <2>1, <2>3
  <2>5. QED
    BY <1>3, <2>4 DEF f
<1>11. CASE SimRestart
  <2> DEFINE h == disk[restart_file].header
  <2>1. disk[restart_file] \in Directories
    BY <1>11, RestartDirectory DEF SimInv, SimRestart
  <2>2. stage' = "top" /\ new_time' = h.time /\ time_index' = h.time_index
    BY <1>11 DEF SimRestart, ReadCheckpointFile, SetRestartTime
  <2>3. Goal
    BY <1>2, <2>1, <2>2 DEF StepsMade, StepInProgress
  <2>4. QED
    BY <1>3, <2>3 DEF f
<1>12. CASE Crash
  <2>1. stage' = "init" /\ new_time' = 0 /\ StepsMade' = 0
    BY <1>12 DEF Crash, MemoryLost, StepsMade, StepInProgress
  <2>2. Goal
    BY <1>4, <2>1
  <2>3. QED
    BY <1>3, <2>2 DEF f
<1>13. CASE UNCHANGED evolve_vars
  <2>1. Kept /\ UNCHANGED << stage, dt >>
    BY <1>13 DEF evolve_vars, clock_vars, StepsMade, StepInProgress
  <2>2. Goal
    BY <1>2, <1>4, <2>1
  <2>3. QED
    BY <1>3, <2>2 DEF f
<1>14. SimNext => \/ SimPrepare \/ SimPostAdvanceWork \/ SimOutputAtFinalTime
                  \/ SimNoIterations \/ (\E c \in CflDts : InitialIterations(c))
                  \/ StartStep \/ PreAdvance \/ (\E c \in CflDts : ComputeDt(c))
                  \/ RestartAborts \/ (\E c \in CflDts : CflAbort(c))
                  \/ SimRestart \/ Crash \/ UNCHANGED evolve_vars
  BY DEF SimNext, SimAdvance, SimCfl, Solver, WriteHeader, WriteField, Launch, SimStopped, sim_vars
<1>15. UNCHANGED sim_vars => UNCHANGED evolve_vars
  BY DEF sim_vars
<1>16. QED
  BY <1>3, <1>5, <1>6, <1>7, <1>8, <1>9, <1>10, <1>11, <1>12, <1>13, <1>14, <1>15 DEF f

(* In runs with a fixed step and no delay_time, time is the number of      *)
(* steps times the step, now and in every header on disk, whatever has     *)
(* crashed and been restarted.                                             *)
THEOREM TimeOfFixedSteps == DelaysHaveDt => (SimSpec => []FixedStepsKeepTime)
<1> SUFFICES ASSUME DelaysHaveDt PROVE SimSpec => []FixedStepsKeepTime
  OBVIOUS
<1>1. SimInit => FixedStepInv
  <2> SUFFICES ASSUME SimInit PROVE FixedStepInv
    OBVIOUS
  <2>1. Directories = {} /\ renamed = {} /\ stage = "init" /\ new_time = 0 /\ StepsMade = 0
    BY DEF SimInit, Init, ClockInit, Directories, StepsMade, StepInProgress
  <2>2. cfg.fixed_dt \in Int
    BY InitTypeOK, CfgType DEF SimInit, TypeOK
  <2>3. QED
    BY <2>1, <2>2, OneMoreStep DEF FixedStepInv, FixedStepsKeepTime
<1>2. SimInv /\ FixedStepInv /\ [SimNext]_sim_vars => FixedStepInv'
  BY NextFixedStep
<1>3. FixedStepInv => FixedStepsKeepTime
  BY DEF FixedStepInv
<1>4. QED
  BY <1>1, <1>2, <1>3, SimInvariant, PTL DEF SimSpec

-----------------------------------------------------------------------------
(* The schedules of a run in pieces. *)

LEMMA SimStartsInit == SimInit => StartsInv
<1> SUFFICES ASSUME SimInit PROVE StartsInv
  OBVIOUS
<1>1. out_start = StartIndices(0) /\ out_start_time = StartTimes(0)
  BY DEF SimInit, Init, ClockInit
<1>2. QED
  BY <1>1 DEF StartsInv, StartIndices, Or

LEMMA NextStarts ==
  ASSUME SimInv, StartsInv, [SimNext]_sim_vars
  PROVE  StartsInv'
<1>1. CASE SimRestart
  <2> DEFINE n == disk[restart_file].header.time_index
  <2>1. stage' = "top" /\ cfg' = cfg /\ out_start' = StartIndices(n)
    BY <1>1 DEF SimRestart, ReadCheckpointFile, SetRestartTime
  <2>2. QED
    BY <2>1 DEF StartsInv, StartIndices, Or
<1>2. CASE Crash
  <2>1. /\ cfg' = cfg /\ out_start' = StartIndices(0) /\ out_start_time' = StartTimes(0)
    BY <1>2 DEF Crash, MemoryLost
  <2>2. QED
    BY <2>1 DEF StartsInv, StartIndices, StartTimes, Or
<1>3. ASSUME UNCHANGED << cfg, out_start, out_start_time >>, stage' # "init" \/ stage = "init"
      PROVE  StartsInv'
  BY <1>3 DEF StartsInv, StartIndices, StartTimes
<1>4. SimNext => SimRestart \/ Crash \/ ( /\ UNCHANGED << cfg, out_start, out_start_time >>
                                          /\ stage' # "init" \/ stage = "init" )
  BY DEF SimNext, SimPrepare, SimPostAdvanceWork, SimOutputAtFinalTime, WritesCheckpoint, Solver,
    PrepareForTimeIntegration, PostAdvanceWork, OutputAtFinalTime, SimAdvance, SimCfl,
    SimNoIterations, StartStep, NewTimestep, PreAdvance, AdvanceTime, ComputeDt, SetCurrentCfl,
    CflAbort, InitialIterations, NoInitialIterations, WriteHeader, WriteField,
    RestartAborts, Launch, SimStopped, sim_vars, evolve_vars, clock_vars
<1>5. UNCHANGED sim_vars => UNCHANGED << cfg, out_start, out_start_time, stage >>
  BY DEF sim_vars, evolve_vars, clock_vars
<1>6. QED
  BY <1>1, <1>2, <1>3, <1>4, <1>5

LEMMA NextPlots ==
  ASSUME SimInv, StartsInv, PlotsStayOnSchedule, [SimNext]_sim_vars
  PROVE  PlotsStayOnSchedule'
<1> DEFINE k == "plt"
<1>0. k \in Kinds /\ TypeOK
  BY DEF Kinds, SimInv, EvolveInv
<1>1. CASE SimPrepare \/ SimPostAdvanceWork \/ SimOutputAtFinalTime
  <2>1. /\ stage \in {"init_out", "post", "done"} /\ UNCHANGED clock_vars
        /\ \/ last_out'[k] = last_out[k]
           \/ stage' = "final"
           \/ WriteNow(k) /\ last_out'[k].index = time_index
    BY <1>0, <1>1 DEF SimPrepare, SimPostAdvanceWork, SimOutputAtFinalTime, WritesCheckpoint,
       Solver, PrepareForTimeIntegration, PostAdvanceWork, OutputAtFinalTime, Output
  <2>2. CASE last_out'[k] = last_out[k] /\ stage # "init_out"
    BY <2>1, <2>2 DEF PlotsStayOnSchedule, clock_vars
  <2>3. CASE last_out'[k] = last_out[k] /\ stage = "init_out"
    <3>1. last_out'[k].index = -1
      BY <1>0, <2>3 DEF SimInv, EvolveInv, OutputsInv
    <3>2. QED
      BY <3>1 DEF PlotsStayOnSchedule
  <2>4. CASE stage' = "final"
    BY <2>4 DEF PlotsStayOnSchedule
  <2>5. CASE WriteNow(k) /\ last_out'[k].index = time_index
    <3>1. cfg.interval[k] > 0 => OnIndex(k)
      BY <1>0, <2>5, OneSchedule DEF WriteNow, TimeBased
    <3>2. cfg.start[k] # Unset => out_start[k] = cfg.start[k]
      BY <1>0 DEF StartsInv
    <3>3. QED
      BY <2>1, <2>5, <3>1, <3>2 DEF PlotsStayOnSchedule, OnIndex, clock_vars
  <2>6. QED
    BY <2>1, <2>2, <2>3, <2>4, <2>5
<1>2. CASE SimRestart \/ Crash
  <2>1. last_out'[k].index = -1
    BY <1>0, <1>2 DEF SimRestart, ReadCheckpointFile, Crash, MemoryLost, NoOutput
  <2>2. QED
    BY <2>1 DEF PlotsStayOnSchedule
<1>3. ASSUME UNCHANGED << cfg, last_out >>,
             \/ stage' \in {"init", "init_out", "abort", "final"}
             \/ stage \in {"top", "dt", "advance", "post", "done"}
      PROVE  PlotsStayOnSchedule'
  BY <1>3 DEF PlotsStayOnSchedule
<1>4. SimNext => \/ SimPrepare \/ SimPostAdvanceWork \/ SimOutputAtFinalTime
                 \/ SimRestart \/ Crash
                 \/ UNCHANGED evolve_vars
                 \/ /\ UNCHANGED << cfg, last_out >>
                    /\ \/ stage' \in {"init", "init_out", "abort", "final"}
                       \/ stage \in {"top", "dt", "advance", "post", "done"}
  BY DEF SimNext, Solver, SimAdvance, SimCfl, SimNoIterations, StartStep, NewTimestep,
    PreAdvance, AdvanceTime, ComputeDt, SetCurrentCfl,
    CflAbort, InitialIterations, NoInitialIterations, WriteHeader, WriteField,
    RestartAborts, Launch, SimStopped, sim_vars, clock_vars
<1>5. UNCHANGED evolve_vars => PlotsStayOnSchedule'
  BY DEF evolve_vars, clock_vars, PlotsStayOnSchedule
<1>6. UNCHANGED sim_vars => UNCHANGED evolve_vars
  BY DEF sim_vars
<1>7. QED
  BY <1>1, <1>2, <1>3, <1>4, <1>5, <1>6

LEMMA StartsInvariant == DelaysHaveDt => (SimSpec => []StartsInv)
<1> SUFFICES ASSUME DelaysHaveDt PROVE SimSpec => []StartsInv
  OBVIOUS
<1>1. SimInv /\ StartsInv /\ [SimNext]_sim_vars => StartsInv'
  BY NextStarts
<1>2. QED
  BY <1>1, SimStartsInit, SimInvariant, PTL DEF SimSpec

(* With plot_start given, the plot files of restarted runs lie on the same *)
(* steps as those of a run that was never interrupted.                     *)
THEOREM PlotsOnSchedule == DelaysHaveDt => (SimSpec => []PlotsStayOnSchedule)
<1> SUFFICES ASSUME DelaysHaveDt PROVE SimSpec => []PlotsStayOnSchedule
  OBVIOUS
<1>1. SimInit => PlotsStayOnSchedule
  BY DEF SimInit, Init, PlotsStayOnSchedule
<1>2. SimInv /\ StartsInv /\ PlotsStayOnSchedule /\ [SimNext]_sim_vars => PlotsStayOnSchedule'
  BY NextPlots
<1>3. QED
  BY <1>1, <1>2, SimInvariant, StartsInvariant, PTL DEF SimSpec

-----------------------------------------------------------------------------
(* The work that a crash can destroy. *)

(* What is complete now is complete after any step, under some name.       *)
LEMMA SavedHeadersKept ==
  ASSUME SimInv, [SimNext]_sim_vars
  PROVE  SavedHeaders \subseteq SavedHeaders'
<1> SUFFICES ASSUME NEW d \in Directories \cup renamed, Complete(d)
             PROVE  d.header \in SavedHeaders'
  BY DEF SavedHeaders
<1>1. d \in Directories' \cup renamed'
  BY SavedKept DEF SimInv
<1>2. QED
  BY <1>1 DEF SavedHeaders

(* The schedules of the checkpoints in a run where nothing is delayed.     *)
IndexSaved(n) == \E h \in SavedHeaders \cup {BlankHeader} : h.time_index = n

SlotSaved(t) == \E h \in SavedHeaders \cup {BlankHeader} : Slot("chkpt", h.time) = Slot("chkpt", t)

(* SavedInv, in parts.                                                     *)
Counting == alive /\ stage \notin {"init", "abort"} /\ PlainCheckpoints

IndexInv ==
  cfg.interval["chkpt"] > 0 =>
    IF WritingScheduled
    THEN OnIndex("chkpt") /\ (IndexSaved(time_index) \/ IndexSaved(time_index - cfg.interval["chkpt"]))
    ELSE IndexSaved(LastScheduled(SettledIndex))

SlotInv ==
  TimeBased("chkpt") =>
    IF WritingScheduled THEN SlotSaved(cur_time) \/ SlotSaved(new_time) ELSE SlotSaved(Reached)

LEMMA SavedInvParts == SavedInv <=> (Counting => IndexInv /\ SlotInv)
BY DEF SavedInv, Counting, IndexInv, SlotInv, IndexSaved, SlotSaved

LEMMA CheckpointTypes ==
  ASSUME SimInv
  PROVE  /\ "chkpt" \in Kinds /\ TypeOK /\ ClockTypeOK
         /\ time_index \in Nat /\ new_time \in Nat /\ cur_time \in Nat
         /\ out_start["chkpt"] \in Int /\ out_start_time["chkpt"] \in Int
         /\ cfg.interval["chkpt"] \in Int /\ cfg.t_interval["chkpt"] \in Int
         /\ cfg.delay["chkpt"] \in Int /\ cfg.t_delay["chkpt"] \in Int
         /\ TimeBased("chkpt") => ~(cfg.interval["chkpt"] > 0)
<1>1. "chkpt" \in Kinds /\ TypeOK /\ ClockTypeOK /\ LoopInv /\ OutputsInv
  BY DEF Kinds, SimInv, EvolveInv, TypeOK
<1>2. /\ time_index \in Nat /\ new_time \in Int /\ cur_time \in Int
      /\ out_start["chkpt"] \in Int /\ out_start_time["chkpt"] \in Int
  BY <1>1 DEF ClockTypeOK, OutputsInv
<1>3. QED
  BY <1>1, <1>2, CfgType, OneSchedule DEF LoopInv

(* A checkpoint of the schedule is written at a last scheduled index, and  *)
(* the one before lies one interval earlier; between them the last one     *)
(* stays the same.                                                         *)
LEMMA LastScheduledMoves ==
  ASSUME SimInv, cfg.interval["chkpt"] > 0
  PROVE  /\ OnIndex("chkpt") => /\ LastScheduled(time_index) = time_index
                                /\ LastScheduled(time_index - 1) = time_index - cfg.interval["chkpt"]
         /\ ~OnIndex("chkpt") => LastScheduled(time_index) = LastScheduled(time_index - 1)
         /\ \A n \in Int : LastScheduled(n) \in Int /\ n - LastScheduled(n) >= 0
                             /\ n - LastScheduled(n) < cfg.interval["chkpt"]
<1> DEFINE b == cfg.interval["chkpt"]
           s == out_start["chkpt"]
<1>1. b \in Int /\ s \in Int /\ b > 0 /\ time_index \in Int
  BY CheckpointTypes
<1>2. \A n \in Int : n - s \in Int /\ (n - s) % b \in Int /\ 0 <= (n - s) % b /\ (n - s) % b < b
  BY <1>1, RemainderRange
<1>3. (time_index - 1) - s = (time_index - s) - 1
  BY <1>1
<1>4. /\ (time_index - s) % b = 0 => ((time_index - 1) - s) % b = b - 1
      /\ (time_index - s) % b # 0 => ((time_index - 1) - s) % b = ((time_index - s) % b) - 1
  <2> DEFINE x == time_index - s
  <2>1. x \in Int
    BY <1>1
  <2> HIDE DEF x, b
  <2>2. (x % b = 0 => (x - 1) % b = b - 1) /\ (x % b # 0 => (x - 1) % b = (x % b) - 1)
    BY <1>1, <2>1, PreviousRemainder
  <2>3. QED
    BY <1>3, <2>2 DEF x
<1>5. \A n \in Int : LastScheduled(n) = n - ((n - s) % b)
  BY DEF LastScheduled
<1>6. OnIndex("chkpt") <=> (time_index - s) % b = 0
  BY DEF OnIndex
<1>7. time_index - 1 \in Int
  BY <1>1
<1> HIDE DEF b, s
<1>8. /\ OnIndex("chkpt") => /\ LastScheduled(time_index) = time_index
                             /\ LastScheduled(time_index - 1) = time_index - b
      /\ ~OnIndex("chkpt") => LastScheduled(time_index) = LastScheduled(time_index - 1)
  <2> DEFINE r == (time_index - s) % b
             q == ((time_index - 1) - s) % b
             t == time_index
  <2>1. LastScheduled(t) = t - r /\ LastScheduled(t - 1) = (t - 1) - q
        /\ r \in Int /\ q \in Int /\ t \in Int
    BY <1>1, <1>2, <1>5, <1>7
  <2>2. (r = 0 => q = b - 1) /\ (r # 0 => q = r - 1) /\ (OnIndex("chkpt") <=> r = 0)
    BY <1>4, <1>6
  <2> HIDE DEF r, q, t
  <2>3. /\ OnIndex("chkpt") => LastScheduled(t) = t /\ LastScheduled(t - 1) = t - b
        /\ ~OnIndex("chkpt") => LastScheduled(t) = LastScheduled(t - 1)
    BY <1>1, <2>1, <2>2
  <2>4. QED
    BY <2>3 DEF t
<1>9. \A n \in Int : LastScheduled(n) \in Int /\ n - LastScheduled(n) >= 0 /\ n - LastScheduled(n) < b
  <2> TAKE n \in Int
  <2> DEFINE r == (n - s) % b
  <2>1. r \in Int /\ 0 <= r /\ r < b /\ LastScheduled(n) = n - r
    BY <1>2, <1>5
  <2> HIDE DEF r
  <2>2. QED
    BY <1>1, <2>1
<1>10. QED
  BY <1>8, <1>9 DEF b

(* The bound follows: a step away from the last scheduled state, or one    *)
(* interval while that is written.                                         *)
LEMMA SavedBoundsWork ==
  ASSUME SimInv, SavedInv
  PROVE  WorkLostBounded
<1> SUFFICES ASSUME Counting
             PROVE  \E h \in SavedHeaders \cup {BlankHeader} :
                      \/ cfg.interval["chkpt"] > 0
                           /\ time_index - h.time_index \in 0..cfg.interval["chkpt"]
                      \/ TimeBased("chkpt")
                           /\ Slot("chkpt", h.time) \in {Slot("chkpt", cur_time), Slot("chkpt", new_time)}
                      \/ ~Active("chkpt")
  BY DEF WorkLostBounded, Counting
<1>1. IndexInv /\ SlotInv
  BY SavedInvParts
<1>2. CASE cfg.interval["chkpt"] > 0
  <2> DEFINE b == cfg.interval["chkpt"]
  <2>1. b \in Int /\ time_index \in Int
    BY CheckpointTypes
  <2>2. ASSUME NEW n \in Int, IndexSaved(n), time_index - n \in 0..b
        PROVE  \E h \in SavedHeaders \cup {BlankHeader} : time_index - h.time_index \in 0..b
    BY <2>2 DEF IndexSaved
  <2>3. CASE WritingScheduled
    <3>1. time_index - b \in Int /\ time_index - time_index = 0 /\ time_index - (time_index - b) = b
      BY <2>1
    <3>2. 0 \in 0..b /\ b \in 0..b
      BY <1>2, <2>1
    <3>3. IndexSaved(time_index) \/ IndexSaved(time_index - b)
      BY <1>1, <1>2, <2>3 DEF IndexInv
    <3>4. QED
      BY <1>2, <2>1, <2>2, <3>1, <3>2, <3>3
  <2>4. CASE ~WritingScheduled
    <3> DEFINE n == LastScheduled(SettledIndex)
    <3>1. SettledIndex \in Int /\ time_index - SettledIndex \in {0, 1}
      BY <2>1 DEF SettledIndex
    <3>2. n \in Int /\ SettledIndex - n >= 0 /\ SettledIndex - n < b
      BY <1>2, <3>1, LastScheduledMoves
    <3>3. IndexSaved(n)
      BY <1>1, <1>2, <2>4 DEF IndexInv
    <3> HIDE DEF n
    <3>4. time_index - n \in 0..b
      BY <2>1, <3>1, <3>2
    <3>5. QED
      BY <1>2, <2>2, <3>2, <3>3, <3>4
  <2>5. QED
    BY <2>3, <2>4
<1>3. CASE TimeBased("chkpt")
  <2>1. SlotSaved(cur_time) \/ SlotSaved(new_time)
    BY <1>1, <1>3 DEF SlotInv, Reached
  <2>2. QED
    BY <1>3, <2>1 DEF SlotSaved
<1>4. CASE ~Active("chkpt")
  BY <1>4
<1>5. QED
  BY <1>2, <1>3, <1>4 DEF Active

(* SavedInv is inductive.  What is saved for an index or a time stays so   *)
(* during a run.                                                           *)
LEMMA StaysSaved ==
  ASSUME SimInv, [SimNext]_sim_vars, UNCHANGED << cfg, out_start_time >>
  PROVE  /\ \A n : IndexSaved(n) => \E h \in SavedHeaders' \cup {BlankHeader} : h.time_index = n
         /\ \A t : SlotSaved(t) => \E h \in SavedHeaders' \cup {BlankHeader} :
                                     Slot("chkpt", h.time)' = Slot("chkpt", t)
BY SavedHeadersKept DEF IndexSaved, SlotSaved, Slot

(* A step within a run that makes no output.                               *)
LEMMA SavedQuiet ==
  ASSUME SimInv, SavedInv, [SimNext]_sim_vars,
         UNCHANGED << cfg, out_start, out_start_time, alive, allow_missing >>,
         stage \notin {"init", "abort"}, ~WritingScheduled, ~WritingScheduled',
         SettledIndex' = SettledIndex, Reached' = Reached
  PROVE  SavedInv'
<1> SUFFICES ASSUME Counting' PROVE IndexInv' /\ SlotInv'
  BY DEF SavedInv, Counting, IndexInv, SlotInv, IndexSaved, SlotSaved
<1>1. Counting
  BY DEF Counting, PlainCheckpoints
<1>2. IndexInv /\ SlotInv
  BY <1>1, SavedInvParts
<1>3. IndexInv'
  <2>1. cfg.interval["chkpt"] > 0 => IndexSaved(LastScheduled(SettledIndex))
    BY <1>2 DEF IndexInv
  <2>2. LastScheduled(SettledIndex)' = LastScheduled(SettledIndex)
    BY DEF LastScheduled
  <2>3. QED
    BY <2>1, <2>2, StaysSaved DEF IndexInv, IndexSaved
<1>4. SlotInv'
  <2>1. TimeBased("chkpt") => SlotSaved(Reached)
    BY <1>2 DEF SlotInv
  <2>2. Slot("chkpt", Reached)' = Slot("chkpt", Reached) /\ TimeBased("chkpt")' = TimeBased("chkpt")
    BY DEF Slot, TimeBased
  <2>3. QED
    BY <2>1, <2>2, StaysSaved DEF SlotInv, SlotSaved
<1>5. QED
  BY <1>3, <1>4

(* The step of the loop is over: a checkpoint is due, and the last one is  *)
(* an interval old, or none is, and the last one is the last of the        *)
(* schedule still.                                                         *)
LEMMA SavedAfterStep ==
  ASSUME SimInv, SavedInv, SimPostAdvanceWork
  PROVE  SavedInv'
<1> SUFFICES ASSUME Counting' PROVE IndexInv' /\ SlotInv'
  BY DEF SavedInv, Counting, IndexInv, SlotInv, IndexSaved, SlotSaved
<1> DEFINE k == "chkpt"
<1>0. [SimNext]_sim_vars
  BY DEF SimNext
<1>1. /\ stage = "post" /\ stage' = "top" /\ io = Idle
      /\ UNCHANGED << cfg, dt, cur_time, new_time, time_index, out_start, out_start_time >>
      /\ io' = IF WriteNow(k) THEN HeaderNext ELSE Idle
      /\ UNCHANGED << alive, allow_missing >>
  BY DEF SimPostAdvanceWork, WritesCheckpoint, Solver, PostAdvanceWork, PreBuildDirectories,
         io_vars, job_vars, clock_vars
<1>2. WritingScheduled' <=> WriteNow(k)
  BY <1>1 DEF WritingScheduled, HeaderNext, Idle
<1>3. Counting /\ cfg.delay[k] <= 0 /\ cfg.t_delay[k] <= 0
  BY <1>1 DEF Counting, PlainCheckpoints
<1>4. IndexInv /\ SlotInv /\ ~WritingScheduled
  BY <1>1, <1>3, SavedInvParts DEF WritingScheduled
<1>5. IndexInv'
  <2> SUFFICES ASSUME cfg.interval[k] > 0
               PROVE  IF WriteNow(k)
                      THEN OnIndex(k)' /\ \E h \in SavedHeaders' \cup {BlankHeader} :
                                            h.time_index = time_index - cfg.interval[k]
                      ELSE \E h \in SavedHeaders' \cup {BlankHeader} :
                             h.time_index = LastScheduled(time_index)
    BY <1>1, <1>2 DEF IndexInv, IndexSaved, LastScheduled, SettledIndex
  <2>1. OnIndex(k)' <=> OnIndex(k)
    BY <1>1 DEF OnIndex
  <2>2. WriteNow(k) <=> OnIndex(k)
    <3>1. ~(cfg.t_interval[k] > 0) /\ time_index >= cfg.delay[k]
      BY <1>3, CheckpointTypes DEF TimeBased
    <3>2. QED
      BY <3>1 DEF WriteNow
  <2>3. IndexSaved(LastScheduled(time_index - 1))
    BY <1>1, <1>4 DEF IndexInv, SettledIndex
  <2>4. IndexSaved(IF OnIndex(k) THEN time_index - cfg.interval[k] ELSE LastScheduled(time_index))
    BY <2>3, LastScheduledMoves
  <2>5. QED
    BY <1>0, <1>1, <2>1, <2>2, <2>4, StaysSaved
<1>6. SlotInv'
  <2> SUFFICES ASSUME TimeBased(k)
               PROVE  \E h \in SavedHeaders' \cup {BlankHeader} :
                        Slot(k, h.time)' = IF WriteNow(k) THEN Slot(k, cur_time)
                                                          ELSE Slot(k, new_time)
    BY <1>1, <1>2 DEF SlotInv, SlotSaved, Slot, TimeBased, Reached
  <2>1. SlotSaved(cur_time)
    BY <1>1, <1>4 DEF SlotInv, Reached
  <2>2. ~WriteNow(k) => ~OnInterval(k)
    BY <1>3, CheckpointTypes DEF WriteNow, TimeBased
  <2>3. ~WriteNow(k) => Slot(k, new_time) = Slot(k, cur_time)
    BY <1>1, <2>2, OnIntervalPassed, CheckpointTypes DEF SimInv, EvolveInv
  <2>4. QED
    BY <1>0, <1>1, <2>1, <2>3, StaysSaved
<1>7. QED
  BY <1>5, <1>6

(* The first outputs of a run that was not restarted: the beginning is     *)
(* saved by being the beginning.                                           *)
LEMMA SavedAtStart ==
  ASSUME SimInv, SavedInv, SimPrepare
  PROVE  SavedInv'
<1> SUFFICES ASSUME Counting' PROVE IndexInv' /\ SlotInv'
  BY DEF SavedInv, Counting, IndexInv, SlotInv, IndexSaved, SlotSaved
<1> DEFINE k == "chkpt"
<1>0. [SimNext]_sim_vars
  BY DEF SimNext
<1>1. /\ stage = "init_out" /\ stage' = "top" /\ io = Idle
      /\ UNCHANGED << cfg, dt, cur_time, new_time, time_index, out_start, out_start_time >>
      /\ io' = IF WriteNow(k) THEN HeaderNext ELSE Idle
      /\ UNCHANGED << alive, allow_missing >>
  BY DEF SimPrepare, WritesCheckpoint, Solver, PrepareForTimeIntegration, PreBuildDirectories,
         io_vars, job_vars, clock_vars
<1>2. WritingScheduled' <=> WriteNow(k)
  BY <1>1 DEF WritingScheduled, HeaderNext, Idle
<1>3. Counting
  BY <1>1 DEF Counting, PlainCheckpoints
<1>4. IndexInv /\ SlotInv /\ ~WritingScheduled
  BY <1>1, <1>3, SavedInvParts DEF WritingScheduled
<1>5. IndexInv'
  <2> SUFFICES ASSUME cfg.interval[k] > 0
               PROVE  /\ WriteNow(k) => OnIndex(k)'
                      /\ \E h \in SavedHeaders' \cup {BlankHeader} :
                           h.time_index = IF WriteNow(k) THEN time_index
                                                         ELSE LastScheduled(time_index)
    BY <1>1, <1>2 DEF IndexInv, IndexSaved, LastScheduled, SettledIndex
  <2>1. OnIndex(k)' <=> OnIndex(k)
    BY <1>1 DEF OnIndex
  <2>2. WriteNow(k) => OnIndex(k)
    BY CheckpointTypes DEF WriteNow, TimeBased
  <2>3. IndexSaved(LastScheduled(time_index))
    BY <1>1, <1>4 DEF IndexInv, SettledIndex
  <2>4. IndexSaved(IF WriteNow(k) THEN time_index ELSE LastScheduled(time_index))
    BY <2>2, <2>3, LastScheduledMoves
  <2>5. QED
    BY <1>0, <1>1, <2>1, <2>2, <2>4, StaysSaved
<1>6. SlotInv'
  <2> SUFFICES ASSUME TimeBased(k)
               PROVE  \E h \in SavedHeaders' \cup {BlankHeader} :
                        Slot(k, h.time)' = Slot(k, new_time)
    BY <1>1, <1>2 DEF SlotInv, SlotSaved, Slot, TimeBased, Reached
  <2>1. SlotSaved(new_time)
    BY <1>1, <1>4 DEF SlotInv, Reached
  <2>2. QED
    BY <1>0, <1>1, <2>1, StaysSaved
<1>7. QED
  BY <1>5, <1>6

(* With its last file a checkpoint is complete, and the next of its        *)
(* schedule.                                                               *)
LEMMA SavedByWriting ==
  ASSUME SimInv, SavedInv, [SimNext]_sim_vars, NEW n \in 1..(NumFiles + 1), FileWritten(n)
  PROVE  SavedInv'
<1>1. /\ UNCHANGED << cfg, dt, cur_time, new_time, time_index, out_start, out_start_time, stage >>
      /\ UNCHANGED << alive, allow_missing, run >>
      /\ io # Idle /\ stage \in {"top", "final"}
  BY DEF FileWritten, evolve_vars, clock_vars, job_vars
<1>2. CASE stage = "final"
  <2>1. SettledIndex' = SettledIndex /\ Reached' = Reached /\ ~WritingScheduled /\ ~WritingScheduled'
    BY <1>1, <1>2 DEF SettledIndex, Reached, WritingScheduled
  <2>2. QED
    BY <1>1, <1>2, <2>1, SavedQuiet
<1>3. CASE stage = "top"
  <2> SUFFICES ASSUME Counting' PROVE IndexInv' /\ SlotInv'
    BY DEF SavedInv, Counting, IndexInv, SlotInv, IndexSaved, SlotSaved
  <2>1. Counting
    BY <1>1 DEF Counting, PlainCheckpoints
  <2>2. IndexInv /\ SlotInv /\ WritingScheduled
    BY <1>1, <1>3, <2>1, SavedInvParts DEF WritingScheduled
  <2>3. OnIndex("chkpt")' <=> OnIndex("chkpt")
    BY <1>1 DEF OnIndex
  <2>4. CASE n \in FileIds
    <3>1. WritingScheduled'
      BY <1>1, <1>3, <2>4 DEF FileWritten, WritingScheduled, FileIds, Idle
    <3>2. IndexInv'
      <4>1. cfg.interval["chkpt"] > 0 =>
              OnIndex("chkpt")' /\ \E h \in SavedHeaders' \cup {BlankHeader} :
                                     h.time_index \in {time_index, time_index - cfg.interval["chkpt"]}
        BY <1>1, <2>2, <2>3, StaysSaved DEF IndexInv
      <4>2. QED
        BY <1>1, <3>1, <4>1 DEF IndexInv, IndexSaved
    <3>3. SlotInv'
      <4>1. TimeBased("chkpt") =>
              \E h \in SavedHeaders' \cup {BlankHeader} :
                Slot("chkpt", h.time)' \in {Slot("chkpt", cur_time), Slot("chkpt", new_time)}
        BY <1>1, <2>2, StaysSaved DEF SlotInv
      <4>2. QED
        BY <1>1, <3>1, <4>1 DEF SlotInv, SlotSaved, Slot, TimeBased
    <3>4. QED
      BY <3>2, <3>3
  <2>5. CASE n \notin FileIds
    <3>1. n = NumFiles + 1 /\ io' = Idle
      BY <2>5 DEF FileWritten, FileIds
    <3>2. ~WritingScheduled'
      BY <3>1 DEF WritingScheduled
    <3>3. HeaderNow \in SavedHeaders'
      <4>1. Partial(n) \in Directories'
        <5>1. Directories' = {Partial(n)} \cup {disk[j] : j \in DOMAIN disk \ {time_index}}
          BY PutDirectories DEF FileWritten
        <5>2. QED
          BY <5>1
      <4>2. Complete(Partial(n)) /\ Partial(n).header = HeaderNow
        BY <3>1, PartialType DEF SimInv, Partial
      <4>3. QED
        BY <4>1, <4>2 DEF SavedHeaders
    <3>4. HeaderNow.time_index = time_index /\ HeaderNow.time = new_time
      BY DEF HeaderNow
    <3>5. IndexInv'
      <4>1. cfg.interval["chkpt"] > 0 => LastScheduled(time_index) = time_index
        BY <2>2, LastScheduledMoves DEF IndexInv
      <4>2. LastScheduled(SettledIndex)' = LastScheduled(time_index)
        BY <1>1, <1>3 DEF LastScheduled, SettledIndex
      <4>3. QED
        BY <1>1, <3>2, <3>3, <3>4, <4>1, <4>2 DEF IndexInv, IndexSaved
    <3>6. SlotInv'
      <4>1. Reached' = HeaderNow.time
        BY <1>1, <1>3, <3>4 DEF Reached
      <4>2. QED
        BY <3>2, <3>3, <4>1 DEF SlotInv, SlotSaved, Slot
    <3>7. QED
      BY <3>5, <3>6
  <2>6. QED
    BY <2>4, <2>5
<1>4. QED
  BY <1>1, <1>2, <1>3

(* A run restarted from a complete checkpoint starts its schedule there.   *)
LEMMA SavedAtRestart ==
  ASSUME SimInv, SimRestart
  PROVE  SavedInv'
<1> SUFFICES ASSUME Counting' PROVE IndexInv' /\ SlotInv'
  BY DEF SavedInv, Counting, IndexInv, SlotInv, IndexSaved, SlotSaved
<1> DEFINE d == disk[restart_file]
           h == d.header
<1>1. /\ d \in Directories /\ HasHeader(d) /\ ~FieldsMissing(d) /\ h \in Header
      /\ stage = "init" /\ stage' = "top"
      /\ time_index' = h.time_index /\ new_time' = h.time
      /\ out_start' = StartIndices(h.time_index) /\ out_start_time' = StartTimes(h.time)
      /\ UNCHANGED << cfg, disk, renamed, io, alive, allow_missing >>
  BY RestartDirectory DEF SimInv, SimRestart, ReadCheckpointFile, SetRestartTime, io_vars, job_vars
<1>2. io = Idle /\ ~WritingScheduled'
  BY <1>1 DEF SimInv, DiskInv, WritingScheduled
<1>3. ~allow_missing /\ cfg.start["chkpt"] = Unset /\ cfg.start_time["chkpt"] = Unset
  BY <1>1 DEF Counting, PlainCheckpoints
<1>4. Complete(d)
  BY <1>1, <1>3 DEF Complete, FieldsMissing
<1>5. d \in Directories'
  BY <1>1 DEF Directories
<1>6. h \in SavedHeaders'
  BY <1>4, <1>5 DEF SavedHeaders
<1>7. out_start'["chkpt"] = h.time_index
  BY <1>1, <1>3, CheckpointTypes DEF StartIndices, Or
<1>8. h.time_index \in Nat
  BY <1>1 DEF Header
<1> HIDE DEF d, h
<1>9. IndexInv'
  <2>1. SettledIndex' = h.time_index
    BY <1>1 DEF SettledIndex
  <2>2. cfg.interval["chkpt"] > 0 => LastScheduled(SettledIndex)' = h.time_index
    <3>1. h.time_index - h.time_index = 0 /\ h.time_index - 0 = h.time_index
      BY <1>8
    <3>2. cfg.interval["chkpt"] > 0 => 0 % cfg.interval["chkpt"] = 0
      BY CheckpointTypes, RemainderOfZero
    <3>3. LastScheduled(SettledIndex)'
            = h.time_index - ((h.time_index - h.time_index) % cfg.interval["chkpt"])
      BY <1>1, <1>7, <2>1 DEF LastScheduled
    <3>4. QED
      BY <3>1, <3>2, <3>3
  <2>3. QED
    BY <1>1, <1>2, <1>6, <2>2 DEF IndexInv, IndexSaved
<1>10. SlotInv'
  <2>1. Reached' = h.time
    BY <1>1 DEF Reached
  <2>2. QED
    BY <1>2, <1>6, <2>1 DEF SlotInv, SlotSaved, Slot
<1>11. QED
  BY <1>9, <1>10

(* A run that was not restarted starts its schedules at zero.              *)
LEMMA SavedAtInit ==
  ASSUME SimInv, StartsInv, stage = "init", stage' = "init_out",
         UNCHANGED << cfg, time_index, new_time, out_start, out_start_time >>
  PROVE  SavedInv'
<1> SUFFICES ASSUME Counting' PROVE IndexInv' /\ SlotInv'
  BY DEF SavedInv, Counting, IndexInv, SlotInv, IndexSaved, SlotSaved
<1>1. cfg.start["chkpt"] = Unset
  BY DEF Counting, PlainCheckpoints
<1>2. time_index = 0 /\ new_time = 0
  BY DEF SimInv, EvolveInv, LoopInv
<1>3. out_start["chkpt"] = 0
  BY <1>1, CheckpointTypes DEF StartsInv, StartIndices, Or
<1>4. ~WritingScheduled' /\ SettledIndex' = 0 /\ Reached' = 0
  BY <1>2 DEF WritingScheduled, SettledIndex, Reached
<1>5. BlankHeader.time_index = 0 /\ BlankHeader.time = 0
  BY DEF BlankHeader
<1>6. cfg.interval["chkpt"] > 0 => LastScheduled(SettledIndex)' = 0
  <2>1. LastScheduled(SettledIndex)' = 0 - ((0 - 0) % cfg.interval["chkpt"])
    BY <1>3, <1>4 DEF LastScheduled
  <2>2. cfg.interval["chkpt"] > 0 => 0 % cfg.interval["chkpt"] = 0
    BY CheckpointTypes, RemainderOfZero
  <2>3. 0 - 0 = 0
    OBVIOUS
  <2>4. QED
    BY <2>1, <2>2, <2>3
<1>7. IndexInv'
  BY <1>4, <1>5, <1>6 DEF IndexInv, IndexSaved
<1>8. SlotInv'
  BY <1>4, <1>5 DEF SlotInv, SlotSaved
<1>9. QED
  BY <1>7, <1>8

LEMMA NextSaved ==
  ASSUME SimInv, StartsInv, SavedInv, [SimNext]_sim_vars
  PROVE  SavedInv'
<1>1. CASE SimPrepare
  BY <1>1, SavedAtStart
<1>2. CASE SimPostAdvanceWork
  BY <1>2, SavedAfterStep
<1>3. CASE SimOutputAtFinalTime
  <2>1. /\ stage = "done" /\ stage' = "final"
        /\ UNCHANGED << clock_vars, alive, allow_missing >>
    BY <1>3 DEF SimOutputAtFinalTime, WritesCheckpoint, Solver, OutputAtFinalTime, job_vars
  <2>2. /\ SettledIndex' = SettledIndex /\ Reached' = Reached
        /\ ~WritingScheduled /\ ~WritingScheduled'
    BY <2>1 DEF SettledIndex, Reached, WritingScheduled, clock_vars
  <2>3. QED
    BY <2>1, <2>2, SavedQuiet DEF clock_vars
<1>4. CASE SimAdvance
  <2>1. /\ stage \in {"top", "advance"} /\ io = Idle /\ io' = io
        /\ UNCHANGED << cfg, out_start, out_start_time, alive, allow_missing >>
    BY <1>4 DEF SimAdvance, Solver, StartStep, NewTimestep, PreAdvance, AdvanceTime,
                io_vars, job_vars
  <2>2. time_index \in Nat /\ (stage = "advance" => cur_time = new_time)
    BY CheckpointTypes DEF SimInv, EvolveInv, LoopInv
  <2>3. SettledIndex' = SettledIndex /\ Reached' = Reached
    BY <1>4, <2>2 DEF SimAdvance, Solver, StartStep, NewTimestep, PreAdvance, AdvanceTime,
                      SettledIndex, Reached
  <2>4. ~WritingScheduled /\ ~WritingScheduled'
    BY <2>1 DEF WritingScheduled
  <2>5. QED
    BY <2>1, <2>3, <2>4, SavedQuiet
<1>5. ASSUME NEW c \in CflDts, SimCfl, ComputeDt(c)
      PROVE  SavedInv'
  <2>1. /\ stage = "dt" /\ stage' = "advance" /\ io = Idle /\ io' = io
        /\ UNCHANGED << cfg, out_start, out_start_time, alive, allow_missing, time_index,
                        new_time, cur_time >>
    BY <1>5 DEF SimCfl, Solver, ComputeDt, SetCurrentCfl, io_vars, job_vars
  <2>2. /\ SettledIndex' = SettledIndex /\ Reached' = Reached
        /\ ~WritingScheduled /\ ~WritingScheduled'
    BY <2>1 DEF SettledIndex, Reached, WritingScheduled
  <2>3. QED
    BY <2>1, <2>2, SavedQuiet
<1>6. CASE SimNoIterations \/ \E c \in CflDts : InitialIterations(c)
  BY <1>6, SavedAtInit DEF SimNoIterations, Solver, NoInitialIterations, InitialIterations,
                           SetCurrentCfl, clock_vars
<1>7. CASE WriteHeader
  <2>1. FileWritten(1) /\ 1 \in 1..(NumFiles + 1)
    BY <1>7, HeaderWritten DEF SimInv
  <2>2. QED
    BY <2>1, SavedByWriting
<1>8. CASE WriteField
  <2>1. FileWritten(io + 1) /\ io + 1 \in 1..(NumFiles + 1)
    BY <1>8, FieldWritten DEF SimInv
  <2>2. QED
    BY <2>1, SavedByWriting
<1>9. CASE SimRestart
  BY <1>9, SavedAtRestart
<1>10. ASSUME stage' \in {"init", "abort"} PROVE SavedInv'
  BY <1>10 DEF SavedInv
<1>11. CASE RestartAborts \/ Crash \/ (\E c \in CflDts : CflAbort(c))
  BY <1>10, <1>11 DEF RestartAborts, Crash, MemoryLost, CflAbort
<1>12. ASSUME NEW i \in DOMAIN disk \cup {Unset}, Launch(i)
       PROVE  SavedInv'
  <2>1. stage = "init" /\ stage' = stage
    BY <1>12 DEF Launch, SimInv, DiskInv, evolve_vars
  <2>2. QED
    BY <1>10, <2>1
<1>13. CASE SimStopped \/ UNCHANGED sim_vars
  <2>1. UNCHANGED << cfg, dt, cur_time, new_time, time_index, out_start, out_start_time, stage,
                     disk, renamed, io, alive, allow_missing >>
    BY <1>13 DEF SimStopped, sim_vars, evolve_vars, clock_vars, io_vars, job_vars
  <2>2. SavedHeaders' = SavedHeaders
    BY <2>1 DEF SavedHeaders, Directories
  <2>3. QED
    BY <2>1, <2>2 DEF SavedInv, PlainCheckpoints, WritingScheduled, OnIndex, LastScheduled,
                      SettledIndex, TimeBased, Slot, Reached
<1>14. SimCfl => \/ \E c \in CflDts : ComputeDt(c) \/ CflAbort(c) \/ InitialIterations(c)
  BY DEF SimCfl, Solver
<1>15. QED
  BY <1>1, <1>2, <1>3, <1>4, <1>5, <1>6, <1>7, <1>8, <1>9, <1>11, <1>12, <1>13, <1>14 DEF SimNext

LEMMA SavedInvariant == DelaysHaveDt => (SimSpec => []SavedInv)
<1> SUFFICES ASSUME DelaysHaveDt PROVE SimSpec => []SavedInv
  OBVIOUS
<1>1. SimInit => SavedInv
  BY DEF SimInit, Init, SavedInv
<1>2. SimInv /\ StartsInv /\ SavedInv /\ [SimNext]_sim_vars => SavedInv'
  BY NextSaved
<1>3. QED
  BY <1>1, <1>2, SimInvariant, StartsInvariant, PTL DEF SimSpec

(* At any moment of any run a complete checkpoint, or the beginning, is at *)
(* most one interval (or one step) away, also while the next is written    *)
(* and whatever earlier crashes have left behind.                          *)
THEOREM WorkLostIsBounded == DelaysHaveDt => (SimSpec => []WorkLostBounded)
<1> SUFFICES ASSUME DelaysHaveDt PROVE SimSpec => []WorkLostBounded
  OBVIOUS
<1>1. SimInv /\ SavedInv => WorkLostBounded
  BY SavedBoundsWork
<1>2. QED
  BY <1>1, SimInvariant, SavedInvariant, PTL

=============================================================================
