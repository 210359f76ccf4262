------------------------------- MODULE Turbine -------------------------------
(***************************************************************************)
(* A turbine that another solver advances (OpenFAST or Kynema-FMB), beside *)
(* the flow.  In a step of the flow, pre_advance_work samples the flow at  *)
(* the points of the turbine, lets the turbine take its sub-steps, and     *)
(* makes the source term of the step from its forces.  The flow writes a   *)
(* checkpoint when it starts and after its steps, the turbine its own when *)
(* it has advanced; a run that ends or is killed is restarted from one of  *)
(* each, or replays the turbine from the file of sampled velocities.       *)
(*                                                                         *)
(* Time is counted: n is the step of the flow, time_index the sub-step of  *)
(* the turbine.  Velocities and forces are the count they belong to.       *)
(***************************************************************************)
EXTENDS Integers, Sequences

CONSTANTS Kinds,            \* the solvers: subset of {"fast", "kynema_fmb"}
          Modes,            \* the modes of a restart: subset of {"restart", "replay"}
          num_substeps,     \* sub-steps of the turbine in a step of the flow
          chkpt_interval,   \* steps between two checkpoints of the flow
          Entries,          \* the steps of the flow at which a turbine is added
          Starts,           \* what time.checkpoint_start is given as, or NotGiven
          MaxStep,          \* bound: the flow stops there
          MaxRuns           \* bound: the runs, each a restart of the one before

ASSUME SubstepsAssumption == num_substeps \in Nat \ {0}
ASSUME IntervalAssumption == chkpt_interval \in Nat \ {0}
ASSUME ModesAssumption == Modes \subseteq {"restart", "replay"}
ASSUME KindsAssumption == Kinds \subseteq {"fast", "kynema_fmb"}
ASSUME EntriesAssumption == Entries \subseteq Nat
ASSUME StartsAssumption == Starts \subseteq Int
ASSUME BoundsAssumption == MaxStep \in Nat /\ MaxRuns \in Nat

VARIABLES
  kind, sim_mode,       \* the solver of the turbine, and how it is started
  stage, starting,      \* the next call, and whether post_init_actions makes it
  n,                    \* steps of the flow that are completed
  checkpoint_start,     \* of the input file, or NotGiven
  chkpt_start_index,    \* the step that the flow counts its interval from
  origin,               \* the step of the flow that is time zero of the turbine
  time_index, is_solution0, substep_counter,    \* FastTurbine, KynemaFMBTurbine
  substep,              \* sub-steps taken in this advance
  container,            \* of particles: "none", "home" or "scattered"
  velocity,             \* the step of the flow whose velocities were sampled
  loads,                \* the velocities that the turbine's loads come from
  force,                \* the sub-step that the forces of the points belong to
  source,               \* the forces in the source term of the flow, or Zero
  rows,                 \* the file of sampled velocities
  turbine_chkpts, flow_chkpts,                  \* the checkpoints on disk
  runs,                 \* runs so far
  replayed              \* one of them has replayed the turbine

solver == << time_index, is_solution0, substep_counter, substep >>
samples == << velocity, loads, force, source >>
files == << rows, turbine_chkpts, flow_chkpts >>
schedule == << checkpoint_start, chkpt_start_index >>
setting == << kind, sim_mode, starting, n, origin, runs, replayed, schedule >>
vars == << setting, stage, solver, container, samples, files >>

Zero == -1          \* the contents of the source term on a new mesh
Unset == -2
NotGiven == -1

Then(s) == stage' = s

(* AMREX_ALWAYS_ASSERT: the run ends where the condition is false.         *)
Assert(condition, s) == stage' = IF condition THEN s ELSE "aborted"

-----------------------------------------------------------------------------
(* Start *)

(* m_chkpt_start_index: zero at first, the step of the checkpoint in a     *)
(* restarted run, unless the input file gives it.                          *)
StartIndex(step, given) == IF given = NotGiven THEN step ELSE given

Init ==
  /\ kind \in Kinds /\ sim_mode = "init"
  /\ stage = "init_turbine" /\ starting = TRUE
  /\ n \in Entries /\ origin = n
  /\ checkpoint_start \in Starts /\ chkpt_start_index = StartIndex(n, checkpoint_start)
  /\ time_index = 0 /\ is_solution0 = TRUE /\ substep_counter = 0 /\ substep = 0
  /\ container = "none"
  /\ velocity = Unset /\ loads = Unset /\ force = Unset /\ source = Zero
  /\ rows = << >> /\ turbine_chkpts = {} /\ flow_chkpts = {}
  /\ runs = 1 /\ replayed = FALSE

\* Mutant: the file is created anew.
PrepareNetcdfFile_Clobber == rows' = << >>

(* "Don't overwrite existing" *)
PrepareNetcdfFile == rows' = rows

(* ext_init_turbine: both solvers start at time zero.  Kynema-FMB computes *)
(* its first forces here, without flow; its sub-step counter is reset.     *)
InitTurbine ==
  /\ stage = "init_turbine" /\ sim_mode = "init"
  /\ PrepareNetcdfFile
  /\ force' = IF kind = "kynema_fmb" THEN 0 ELSE force
  /\ Then("container")
  /\ UNCHANGED << setting, solver, container, velocity, loads, source,
                  turbine_chkpts, flow_chkpts >>

(* num_steps: openfast_start_time is the time of the flow's checkpoint     *)
(* since the turbine was added.                                            *)
NumSteps == num_substeps * (n - origin)

\* Mutant: rounded up.
NumCfdSteps_RoundedUp == (NumSteps + num_substeps) \div num_substeps

NumCfdSteps == NumSteps \div num_substeps

(* ext_replay_turbine: FAST_Solution0 with the first row, then in the      *)
(* order of the file the sub-steps of each row.                            *)
ReplayTurbine ==
  /\ stage = "init_turbine" /\ sim_mode = "replay"
  /\ time_index' = num_substeps * NumCfdSteps
  /\ Assert(Len(rows) >= NumCfdSteps /\ time_index' = NumSteps, "container")
  /\ velocity' = IF Len(rows) >= NumCfdSteps THEN rows[NumCfdSteps] ELSE velocity
  /\ loads' = velocity' /\ force' = time_index'
  /\ is_solution0' = FALSE /\ replayed' = TRUE
  /\ UNCHANGED << kind, sim_mode, starting, n, origin, runs, schedule, substep_counter, substep,
                  container, source, files >>

\* Mutant: a restarted turbine has had its first solution.
Solution0Left_Cleared == is_solution0' = FALSE

(* ext_restart_turbine does not touch is_solution0: post_init_actions asks *)
(* the solver for FAST_Solution0 again.                                    *)
Solution0Left == is_solution0' = is_solution0

(* ext_restart_turbine: the solver reads its checkpoint, with its index.   *)
RestartTurbine ==
  /\ stage = "init_turbine" /\ sim_mode = "restart"
  /\ \E index \in turbine_chkpts :
       index = num_substeps * (n - origin) /\ time_index' = index
  /\ Solution0Left
  /\ PrepareNetcdfFile
  /\ Then("container")
  /\ UNCHANGED << setting, substep_counter, substep, container, samples,
                  turbine_chkpts, flow_chkpts >>

(* setup_container: initialize_container with the points of all actuators  *)
SetupContainer ==
  /\ stage = "container"
  /\ container' = "home"
  /\ Then("positions")
  /\ UNCHANGED << setting, solver, samples, files >>

-----------------------------------------------------------------------------
(* update_positions ... compute_source_term, in post_init_actions and in   *)
(* every pre_advance_work                                                  *)

ResetContainer ==
  /\ stage = "pre_advance"
  /\ container' = "home"
  /\ Then("positions")
  /\ UNCHANGED << setting, solver, samples, files >>

UpdatePositions ==
  /\ stage = "positions"
  /\ Assert(container = "home", "sample")
  /\ container' = "scattered"
  /\ UNCHANGED << setting, solver, samples, files >>

(* interpolate_fields and populate_field_buffers, then the particles are   *)
(* back with their ranks.                                                  *)
SampleFields ==
  /\ stage = "sample"
  /\ Assert(container = "scattered", "forces")
  /\ container' = "home"
  /\ velocity' = n
  /\ UNCHANGED << setting, solver, loads, force, source, files >>

\* Mutant: the counter goes on from the call without advance.
CounterAfter_NoReset(advance) ==
  IF substep_counter + 1 = num_substeps THEN 0 ELSE substep_counter + 1

(* update_turbine of Kynema-FMB: the inflow is passed and the loads are    *)
(* computed in the first sub-step, the buffers are filled after the last.  *)
CounterAfter(advance) ==
  IF substep_counter + 1 = num_substeps \/ ~advance THEN 0 ELSE substep_counter + 1

BuffersDue(before, after) == after = 0

UpdateTurbine(advance) ==
  /\ substep_counter' = CounterAfter(advance)
  /\ loads' = IF substep_counter = 0 THEN velocity ELSE loads
  /\ force' = IF BuffersDue(substep_counter, substep_counter')
              THEN time_index + IF advance THEN 1 ELSE 0
              ELSE force

(* FAST_Step and FAST_Solution0: the loads are of the velocities that are  *)
(* in the buffer.                                                          *)
FastStep(advance) ==
  /\ substep_counter' = substep_counter
  /\ loads' = velocity
  /\ force' = time_index + IF advance THEN 1 ELSE 0

DoTurbineStep(advance) ==
  \/ kind = "fast" /\ FastStep(advance)
  \/ kind = "kynema_fmb" /\ UpdateTurbine(advance)

(* ext_step, the first time: init_solution *)
InitSolution ==
  /\ stage = "forces" /\ is_solution0
  /\ DoTurbineStep(FALSE)
  /\ is_solution0' = FALSE
  /\ Then("source")
  /\ UNCHANGED << setting, time_index, substep, container, velocity, source, files >>

(* write_velocity_data, before the sub-steps *)
AdvanceTurbine ==
  /\ stage = "forces" /\ ~is_solution0
  /\ rows' = Append(rows, velocity)
  /\ substep' = 0
  /\ Then("substeps")
  /\ UNCHANGED << setting, time_index, is_solution0, substep_counter, container, samples,
                  turbine_chkpts, flow_chkpts >>

TurbineSubstep ==
  /\ stage = "substeps" /\ substep < num_substeps
  /\ DoTurbineStep(TRUE)
  /\ time_index' = time_index + 1 /\ substep' = substep + 1
  /\ UNCHANGED << setting, stage, is_solution0, container, velocity, source, files >>

\* Mutant: the step that comes next is counted.
TurbineCheckpointDue_Substeps == (time_index \div num_substeps + 1) % chkpt_interval = 0

TurbineCheckpointDue == (time_index \div num_substeps) % chkpt_interval = 0

(* FAST_CreateCheckpoint; Kynema-FMB writes nothing.                       *)
TurbineCheckpoint ==
  /\ stage = "substeps" /\ substep = num_substeps
  /\ turbine_chkpts' =
       IF TurbineCheckpointDue /\ kind = "fast" THEN turbine_chkpts \cup {time_index}
       ELSE turbine_chkpts
  /\ Then("source")
  /\ UNCHANGED << setting, solver, container, samples, rows, flow_chkpts >>

ComputeSourceTerm ==
  /\ stage = "source"
  /\ source' = force
  /\ Then(IF starting THEN "prepare" ELSE "solve")
  /\ starting' = FALSE
  /\ UNCHANGED << kind, sim_mode, n, origin, runs, replayed, schedule, solver, container,
                  velocity, loads, force, files >>

-----------------------------------------------------------------------------
(* The flow *)

WriteCheckpoint(step) == (step - chkpt_start_index) % chkpt_interval = 0

IsRestart == runs > 1 \/ origin > 0

(* prepare_for_time_integration returns early in a restarted run; a run    *)
(* from the start writes its initial state when that is on the schedule.   *)
PrepareForTimeIntegration ==
  /\ stage = "prepare"
  /\ flow_chkpts' = IF ~IsRestart /\ WriteCheckpoint(n) THEN flow_chkpts \cup {n} ELSE flow_chkpts
  /\ Then("loop")
  /\ UNCHANGED << setting, solver, container, samples, rows, turbine_chkpts >>

NewStep ==
  /\ stage = "loop" /\ n < MaxStep
  /\ Then("pre_advance")
  /\ UNCHANGED << setting, solver, container, samples, files >>

(* A new mesh: the source term is zero on it; post_regrid_actions makes    *)
(* the container anew.                                                     *)
Regrid ==
  /\ stage = "loop" /\ n < MaxStep
  /\ source' = Zero
  /\ container' = "home"
  /\ Then("pre_advance")
  /\ UNCHANGED << setting, solver, velocity, loads, force, files >>

(* On the schedule, or the last state (write_last_checkpoint). *)
CheckpointDue(step) == WriteCheckpoint(step) \/ step = MaxStep

(* The step is solved with the source term, and saved when it is due. *)
Solve ==
  /\ stage = "solve"
  /\ n' = n + 1
  /\ flow_chkpts' = IF CheckpointDue(n + 1) THEN flow_chkpts \cup {n + 1} ELSE flow_chkpts
  /\ Then("loop")
  /\ UNCHANGED << kind, sim_mode, starting, origin, runs, replayed, schedule, solver, container,
                  samples, rows, turbine_chkpts >>

(* The user names a checkpoint of the flow and, to restart the turbine,    *)
(* that of the turbine for the same time.  With openfast_start_time zero   *)
(* the turbine is initialized again; Kynema-FMB has no other mode.         *)
CanResume(step, mode) ==
  CASE mode = "restart" -> num_substeps * (step - origin) \in turbine_chkpts
    [] mode = "replay" -> step > origin
    [] mode = "init" -> kind = "fast" => step = origin

Resume(step, mode) ==
  /\ CanResume(step, mode)
  /\ n' = step /\ sim_mode' = mode
  /\ origin' = IF mode = "init" THEN step ELSE origin

(* The run is over, or is killed anywhere; set_restart_time moves the      *)
(* schedule of the flow.                                                   *)
Restart ==
  /\ stage # "aborted" /\ runs < MaxRuns
  /\ \E step \in flow_chkpts :
       \E mode \in {"init"} \cup (IF kind = "fast" THEN Modes ELSE {}) : Resume(step, mode)
  /\ chkpt_start_index' = StartIndex(n', checkpoint_start)
  /\ runs' = runs + 1
  /\ starting' = TRUE
  /\ time_index' = 0 /\ is_solution0' = TRUE /\ substep_counter' = 0 /\ substep' = 0
  /\ container' = "none"
  /\ velocity' = Unset /\ loads' = Unset /\ force' = Unset /\ source' = Zero
  /\ Then("init_turbine")
  /\ UNCHANGED << kind, replayed, checkpoint_start, files >>

Finished == stage = "loop" /\ n >= MaxStep /\ UNCHANGED vars

Next ==
  \/ InitTurbine \/ ReplayTurbine \/ RestartTurbine \/ SetupContainer
  \/ ResetContainer \/ UpdatePositions \/ SampleFields \/ InitSolution \/ AdvanceTurbine
  \/ TurbineSubstep \/ TurbineCheckpoint \/ ComputeSourceTerm
  \/ PrepareForTimeIntegration \/ NewStep \/ Regrid \/ Solve \/ Restart \/ Finished

Spec == Init /\ [][Next]_vars

-----------------------------------------------------------------------------
(* Properties *)

Stages ==
  {"init_turbine", "container", "pre_advance", "positions", "sample", "forces", "substeps",
   "source", "prepare", "loop", "solve", "aborted"}

(* The turbine's own count of what it has been through, in sub-steps.      *)
Due(step) == num_substeps * (step - origin)

InStep ==
  /\ stage = "loop" => time_index = Due(n)
  /\ stage = "solve" => time_index = Due(n + 1)

(* Between two steps the flow and the turbine are at the same time, and    *)
(* when the flow is solved the turbine is at the end of the step: neither  *)
(* a regrid, nor a kill at any point and a restart from a pair of          *)
(* checkpoints puts one ahead of the other (advance_turbine, init_turbine).*)
(* Runs after a replay are left to the next property.                      *)
TurbineInStep == ~replayed => InStep

(* "Replay OpenFAST simulation for the desired number of timesteps to      *)
(* mimic restart" (FastIface.cpp): a replayed turbine is in step as well.  *)
ReplayMimicsRestart == InStep

(* In every sub-step the loads of the turbine are those of the flow at the *)
(* start of the step, and the step is solved with a source term of forces  *)
(* that the turbine reached at its end, whatever a regrid has zeroed       *)
(* (update_turbine, compute_source_term).                                  *)
ForcesOfTheStep ==
  /\ stage = "substeps" /\ substep > 0 => loads = n
  /\ stage = "solve" => source = time_index /\ loads = n /\ velocity = n

(* checkpoint_start, where it is given, is on the schedule of the turbine, *)
(* which counts from its own start.                                        *)
StartsAgree == checkpoint_start = NotGiven \/ (checkpoint_start - origin) % chkpt_interval = 0

(* The flow counts its interval from checkpoint_start or from the restart, *)
(* the turbine from when it was added: still, through any kills and        *)
(* restarts from pairs, every checkpoint of the flow has one of OpenFAST   *)
(* beside it, but for that of the start and that of the last step          *)
(* (SimTime::write_checkpoint, set_restart_time, advance_turbine).         *)
CheckpointsPair ==
  kind = "fast" /\ ~replayed /\ StartsAgree =>
    \A step \in flow_chkpts : origin < step /\ step < MaxStep => Due(step) \in turbine_chkpts

(* "automatically creates an OpenFAST .chkp file for every Kynema-SGF      *)
(* checkpoint" (docs/sphinx/user/run.rst)                                  *)
EveryCheckpointHasItsTurbine ==
  kind = "fast" /\ ~replayed => \A step \in flow_chkpts : Due(step) \in turbine_chkpts

(* No step has been taken again since, by a restart before the end of the  *)
(* file or by a replay.                                                    *)
NoneTwice == \A i, j \in DOMAIN rows : rows[i] = rows[j] => i = j

(* Over all runs, the file of velocities has the row of each step where a  *)
(* replay looks for it, in the place of the step, as long as no step has   *)
(* been taken twice; a replay ends with the loads of the last step before  *)
(* the checkpoint (write_velocity_data, prepare_netcdf_file,               *)
(* ext_replay_turbine).                                                    *)
RowsOfTheSteps ==
  kind = "fast" /\ NoneTwice =>
    /\ n - origin <= Len(rows)
    /\ \A i \in DOMAIN rows : rows[i] = (origin + i) - 1
    /\ stage = "container" /\ sim_mode = "replay" => loads = n - 1

(* "Replay OpenFAST simulation for the desired number of timesteps to      *)
(* mimic restart": the rows that are read are those of the steps.          *)
ReplayReadsItsSteps ==
  stage = "container" /\ sim_mode = "replay" =>
    \A i \in 1..(n - origin) : rows[i] = (origin + i) - 1

(* No assertion fails: the particles are where each call of the container  *)
(* expects them, and a replay finds its rows and takes all its sub-steps.  *)
AssertsHold == stage # "aborted"

=============================================================================
