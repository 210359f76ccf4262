----------------------------- MODULE Simulation -----------------------------
(***************************************************************************)
(* A simulation as its user lives it: runs of the program (Evolve) that    *)
(* write checkpoints file by file, may be killed between any two files,    *)
(* and are launched again from a checkpoint on disk.  It models            *)
(* IOManager::write_checkpoint_file and read_checkpoint_fields and the     *)
(* restart branch of incflo::init_mesh.                                    *)
(*                                                                         *)
(* The contents of a field file is the number of the run that wrote it.    *)
(* The header is written in one step; VisMF is taken to make a field file  *)
(* visible when all of it is written.                                      *)
(***************************************************************************)
EXTENDS Evolve

CONSTANTS
  NumFiles,     \* field files of a checkpoint: fields times levels
  MaxLaunches   \* how often the user launches the program (a bound)

ASSUME FilesAssumption == NumFiles \in Nat \ {0} /\ MaxLaunches \in Nat \ {0}

VARIABLES
  disk,      \* the checkpoint directories by time index
  renamed,   \* complete directories moved away to <name>.old.<number>
  io,        \* what write_checkpoint_file does next (see Idle)
  alive,     \* the program is running
  run,       \* the number of the present run
  restart_file,   \* index of the directory named by io.restart_file, or Unset
  allow_missing,  \* io.allow_missing_restart_fields
  loaded     \* the field files this run was started from

io_vars == << disk, renamed, io >>
job_vars == << alive, run, restart_file, allow_missing >>
sim_vars == << evolve_vars, io_vars, job_vars, loaded >>

Idle == -1            \* no checkpoint is being written
HeaderNext == 0       \* then k in 1..NumFiles: field file k is next

FileIds == 1..NumFiles
Missing == 0          \* a field file that is not there; runs count from 1

Directory == [ by : Nat, header : Header, files : [FileIds -> Nat] ]

NoFiles == [k \in FileIds |-> Missing]

HasHeader(d) == d.by > 0

Complete(d) == HasHeader(d) /\ \A k \in FileIds : d.files[k] # Missing

Directories == {disk[i] : i \in DOMAIN disk}

Put(i, d) == [j \in DOMAIN disk \cup {i} |-> IF j = i THEN d ELSE disk[j]]

BlankHeader == [time_index |-> 0, time |-> 0, dt |-> -1, dt_nm1 |-> -1, dt_nm2 |-> -1]

EmptyDirectory == [by |-> 0, header |-> BlankHeader, files |-> NoFiles]

SimInit ==
  /\ Init
  /\ disk = << >> /\ renamed = {} /\ io = Idle
  /\ alive = TRUE /\ run = 1
  /\ restart_file = Unset
  /\ allow_missing \in BOOLEAN
  /\ loaded = NoFiles

-----------------------------------------------------------------------------
(* write_checkpoint_file *)

NewDirectory == disk' = Put(time_index, EmptyDirectory)

(* Directories that were never complete are moved away too; they are not   *)
(* followed further.                                                       *)
KeepOld ==
  renamed' = IF time_index \in DOMAIN disk /\ Complete(disk[time_index])
             THEN renamed \cup {disk[time_index]} ELSE renamed

\* Mutant: a directory of that name is used again as it is.
PreBuildDirectories_Reused ==
  /\ IF time_index \in DOMAIN disk THEN UNCHANGED disk ELSE NewDirectory
  /\ UNCHANGED renamed
  /\ io' = HeaderNext

(* PreBuildDirectorHierarchy: a directory of that name is renamed first.   *)
PreBuildDirectories ==
  /\ NewDirectory
  /\ KeepOld
  /\ io' = HeaderNext

\* Mutant: the header holds the time at the start of the step.
HeaderNow_CurTime ==
  [ time_index |-> time_index, time |-> cur_time,
    dt |-> dt[0], dt_nm1 |-> dt[1], dt_nm2 |-> dt[2] ]

HeaderNow ==
  [ time_index |-> time_index, time |-> new_time,
    dt |-> dt[0], dt_nm1 |-> dt[1], dt_nm2 |-> dt[2] ]

WriteHeader ==
  /\ alive /\ io = HeaderNext
  /\ disk' = Put(time_index, [disk[time_index] EXCEPT !.by = run, !.header = HeaderNow])
  /\ io' = 1
  /\ UNCHANGED << evolve_vars, renamed, job_vars, loaded >>

\* Mutant: the loop over the levels stops one short.
WriteField_OneLess ==
  /\ alive /\ io \in FileIds
  /\ disk' = Put(time_index, [disk[time_index] EXCEPT !.files[io] = run])
  /\ io' = IF io >= NumFiles - 1 THEN Idle ELSE io + 1
  /\ UNCHANGED << evolve_vars, renamed, job_vars, loaded >>

WriteField ==
  /\ alive /\ io \in FileIds
  /\ disk' = Put(time_index, [disk[time_index] EXCEPT !.files[io] = run])
  /\ io' = IF io = NumFiles THEN Idle ELSE io + 1
  /\ UNCHANGED << evolve_vars, renamed, job_vars, loaded >>

-----------------------------------------------------------------------------
(* The program between checkpoints *)

Solver(action) == alive /\ io = Idle /\ action /\ UNCHANGED << job_vars, loaded >>

(* The outputs of the step: plot files first, then the checkpoint.         *)
WritesCheckpoint(action, due) ==
  /\ Solver(action)
  /\ IF due THEN PreBuildDirectories ELSE UNCHANGED io_vars

SimPrepare == WritesCheckpoint(PrepareForTimeIntegration, WriteNow("chkpt"))
SimPostAdvanceWork == WritesCheckpoint(PostAdvanceWork, WriteNow("chkpt"))
SimOutputAtFinalTime == WritesCheckpoint(OutputAtFinalTime, WriteLast("chkpt"))

SimAdvance == Solver(StartStep \/ PreAdvance) /\ UNCHANGED io_vars

SimCfl ==
  /\ Solver(\E c \in CflDts :
              \/ ComputeDt(c) \/ CflAbort(c)
              \/ restart_file = Unset /\ InitialIterations(c))
  /\ UNCHANGED io_vars

SimNoIterations == Solver(restart_file = Unset /\ NoInitialIterations) /\ UNCHANGED io_vars

-----------------------------------------------------------------------------
(* Restart: incflo::init_mesh with io.restart_file *)

\* Mutant: a missing field file is reported and the run goes on.
FieldsMissing_Ignored(d) == FALSE

FieldsMissing(d) == ~allow_missing /\ \E k \in FileIds : d.files[k] = Missing

SimRestart ==
  /\ alive /\ restart_file # Unset
  /\ LET d == disk[restart_file]
     IN  /\ HasHeader(d) /\ ~FieldsMissing(d)
         /\ ReadCheckpointFile(d.header)
         /\ loaded' = d.files
  /\ UNCHANGED << io_vars, job_vars >>

(* No header to read, or "Missing fields in restart file."                 *)
RestartAborts ==
  /\ alive /\ restart_file # Unset /\ stage = "init"
  /\ LET d == disk[restart_file] IN ~HasHeader(d) \/ FieldsMissing(d)
  /\ stage' = "abort"
  /\ UNCHANGED << clock_vars, last_out, io_vars, job_vars, loaded >>

-----------------------------------------------------------------------------
(* The user and the machine *)

(* Nothing of a dead program is left but its files.                        *)
MemoryLost ==
  /\ dt' = UnsetDt
  /\ cur_time' = 0 /\ new_time' = 0 /\ start_time' = 0
  /\ time_index' = 0
  /\ out_start' = StartIndices(0) /\ out_start_time' = StartTimes(0)
  /\ regrid_start' = Or(cfg.regrid_start, 0)
  /\ is_init' = TRUE
  /\ stage' = "init"
  /\ last_out' = [k \in Kinds |-> NoOutput(0)]
  /\ io' = Idle
  /\ loaded' = NoFiles
  /\ UNCHANGED cfg

(* The job is killed by its time limit, a signal or a node that fails, or  *)
(* has aborted.                                                            *)
Crash ==
  /\ alive /\ run < MaxLaunches
  /\ stage # "init" /\ (stage = "final" => io # Idle)
  /\ alive' = FALSE
  /\ MemoryLost
  /\ restart_file' = Unset
  /\ UNCHANGED << disk, renamed, run, allow_missing >>

(* The job is launched again with the same input file, from the beginning  *)
(* or from any of the directories on disk.                                 *)
Launch(i) ==
  /\ ~alive
  /\ restart_file' = i
  /\ alive' = TRUE /\ run' = run + 1
  /\ UNCHANGED << evolve_vars, io_vars, allow_missing, loaded >>

SimStopped ==
  /\ alive /\ io = Idle /\ stage \in {"final", "abort"}
  /\ UNCHANGED sim_vars

SimNext ==
  \/ SimPrepare \/ SimPostAdvanceWork \/ SimOutputAtFinalTime
  \/ SimAdvance \/ SimCfl \/ SimNoIterations
  \/ WriteHeader \/ WriteField
  \/ SimRestart \/ RestartAborts
  \/ Crash \/ \E i \in DOMAIN disk \cup {Unset} : Launch(i)
  \/ SimStopped

SimSpec == SimInit /\ [][SimNext]_sim_vars

-----------------------------------------------------------------------------
Restarted == restart_file # Unset /\ stage \notin {"init", "abort"}

(* The state a run is resumed from was written as a whole, by one run: no  *)
(* sequence of crashes, relaunches and checkpoints written again under the *)
(* same name lets a run start from the files of two different runs, nor,   *)
(* unless the user allows missing fields, from a checkpoint whose writing  *)
(* was cut short.                                                          *)
ResumesOneSnapshot ==
  Restarted =>
    /\ \A j, k \in FileIds :
         loaded[j] # Missing /\ loaded[k] # Missing => loaded[j] = loaded[k]
    /\ ~allow_missing => \A k \in FileIds : loaded[k] # Missing

(* What has once been saved completely stays on disk, under its own name   *)
(* or a new one, whatever is written or killed afterwards.                 *)
SavedStaysSaved ==
  [][\A d \in Directories \cup renamed :
       Complete(d) => d \in Directories' \cup renamed']_sim_vars

SavedHeaders == {d.header : d \in {e \in Directories \cup renamed : Complete(e)}}

(* No delayed checkpoints, none on a start of their own, and no restart    *)
(* from a part of one.                                                     *)
PlainCheckpoints ==
  /\ ~allow_missing
  /\ cfg.start["chkpt"] = Unset /\ cfg.start_time["chkpt"] = Unset
  /\ cfg.delay["chkpt"] <= 0 /\ cfg.t_delay["chkpt"] <= 0

(* The work a crash can destroy: from any moment of a run a checkpoint     *)
(* that is complete (or the beginning) is at most one interval away, also  *)
(* while the next one is being written, and also when earlier crashes have *)
(* left broken ones behind.  On a schedule in time it lies in the interval *)
(* of the present time or in that of the start of the last step, which may *)
(* pass several.                                                           *)
WorkLostBounded ==
  alive /\ stage \in {"top", "dt", "advance", "post", "done", "final"} /\ PlainCheckpoints
  => \E h \in SavedHeaders \cup {BlankHeader} :
       \/ cfg.interval["chkpt"] > 0
            /\ time_index - h.time_index \in 0..cfg.interval["chkpt"]
       \/ TimeBased("chkpt")
            /\ Slot("chkpt", h.time) \in {Slot("chkpt", cur_time), Slot("chkpt", new_time)}
       \/ ~Active("chkpt")

(* Crashes leave no trace in a run with a fixed step: at every step, and   *)
(* in every header on disk, time is what it would be without them.         *)
FixedStepsKeepTime ==
  ~Adaptive /\ cfg.delay_time <= 0 =>
    /\ new_time = StepsMade * cfg.fixed_dt
    /\ \A d \in Directories \cup renamed :
         d.header.time = d.header.time_index * cfg.fixed_dt

(* With plot_start given, the plot files of restarted runs lie on the same *)
(* steps as those of a run that was never interrupted.                     *)
PlotsStayOnSchedule ==
  cfg.interval["plt"] > 0 /\ cfg.start["plt"] # Unset
    /\ stage \in {"top", "dt", "advance", "post", "done"}
    /\ last_out["plt"].index # -1
  => (last_out["plt"].index - cfg.start["plt"]) % cfg.interval["plt"] = 0

-----------------------------------------------------------------------------
(* Why these hold. *)

SimTypeOK ==
  /\ DOMAIN disk \subseteq Nat
  /\ Directories \cup renamed \subseteq Directory
  /\ io \in {Idle, HeaderNext} \cup FileIds
  /\ alive \in BOOLEAN /\ run \in Nat \ {0}
  /\ restart_file \in DOMAIN disk \cup {Unset}
  /\ allow_missing \in BOOLEAN
  /\ loaded \in [FileIds -> Nat]

(* A checkpoint of which the header and the field files before n are       *)
(* written.                                                                *)
Partial(n) ==
  [ by |-> run, header |-> HeaderNow, files |-> [k \in FileIds |-> IF k < n THEN run ELSE Missing] ]

(* The files of a directory are those of the run that wrote its header.    *)
(* While one is written it holds the files so far and no others: it is not *)
(* complete, so nothing is lost when it is written to, and it is complete  *)
(* when the last file is there.                                            *)
DiskInv ==
  /\ \A d \in Directories \cup renamed : \A k \in FileIds : d.files[k] \in {Missing, d.by}
  /\ ~alive => stage = "init" /\ io = Idle
  /\ io # Idle => stage \in {"top", "final"} /\ time_index \in DOMAIN disk
  /\ io = HeaderNext => disk[time_index] = EmptyDirectory
  /\ io \in FileIds => disk[time_index] = Partial(io)

EvolveInv == TypeOK /\ LoopInv /\ ScheduleInv /\ OutputsInv

SimInv == EvolveInv /\ SimTypeOK /\ DiskInv

(* A chosen step of a run with a fixed step is that step.                  *)
FixedStepInv ==
  /\ FixedStepsKeepTime
  /\ ~Adaptive /\ cfg.delay_time <= 0 /\ stage = "advance" => dt[0] = cfg.fixed_dt

(* Before the run has read anything its schedules start at zero or where   *)
(* the input file says, and the latter always.                             *)
StartsInv ==
  /\ stage = "init" => out_start = StartIndices(0) /\ out_start_time = StartTimes(0)
  /\ \A k \in Kinds : cfg.start[k] # Unset => out_start[k] = cfg.start[k]

(* The last index of the checkpoint schedule up to n.                      *)
LastScheduled(n) == n - ((n - out_start["chkpt"]) % cfg.interval["chkpt"])

(* A checkpoint of the schedule is being written; the one at the final     *)
(* time is not on it.                                                      *)
WritingScheduled == io # Idle /\ stage = "top"

(* A complete checkpoint holds the last state of the schedule, or, while   *)
(* that is being written, the state before it.                             *)
SavedInv ==
  alive /\ stage \notin {"init", "abort"} /\ PlainCheckpoints =>
    /\ cfg.interval["chkpt"] > 0 =>
         \E h \in SavedHeaders \cup {BlankHeader} :
           IF WritingScheduled
           THEN OnIndex("chkpt") /\ h.time_index \in {time_index, time_index - cfg.interval["chkpt"]}
           ELSE h.time_index = LastScheduled(SettledIndex)
    /\ TimeBased("chkpt") =>
         \E h \in SavedHeaders \cup {BlankHeader} :
           IF WritingScheduled
           THEN Slot("chkpt", h.time) \in {Slot("chkpt", cur_time), Slot("chkpt", new_time)}
           ELSE Slot("chkpt", h.time) = Slot("chkpt", Reached)

=============================================================================
