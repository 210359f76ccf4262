# A formal model of the solver's control

This directory holds TLA+ modules that model the control of the flow solver in
`src/`: what happens in which order, which state each step reads and leaves
behind, and what survives a restart, a crash or a change of the mesh. The
arithmetic of the floating-point kernels is not modelled; which fields a kernel
reads and writes, and of which time, is. TLC checks the modules on small
instances; TLAPS proves theorems about the time loop, kills and restarts,
post-processing and scanning instruments, time averages, the field repository,
changes of the mesh, the turbine coupling and the reader of
ocean waves for every value of the constants.

## 1. The system

One run of the program is sequential on every process, and all processes take
the same control decisions (the numbers they branch on are reduced over all of
them). `main` builds an `incflo`, which is an AMReX `AmrCore`. `InitData` makes
or reads the mesh and the fields; `Evolve` runs the time loop; the loop calls
every module of the program through hooks. What is hard here is not
parallelism. It is that many modules share one clock, one set of fields and one
set of schedules, that each module was tested on its own, and that runs are
delayed, shortened, killed and restarted.

```
 main -> incflo::InitData --> mesh (AmrCore callbacks) --> FieldRepo
      |                   \-> checkpoint (IOManager)   --> SimTime.set_restart_time
      \-> incflo::Evolve
            while SimTime.new_timestep:
               regrid_and_update  -> AmrCore -> FieldRepo, modules' post_regrid
               compute_dt         -> SimTime.set_current_cfl
               advance            -> equation systems, actuators, projection
               post_advance_work  -> post-processing, plot files, checkpoints
```

### Components

The state, the operations, the difficulties and what makes each part correct.
`PROJECT.json` lists the same parts with their source files and status.

| component | state | operations | what is hard | correct when | status |
|---|---|---|---|---|---|
| simulation clock (`core/SimTime`) | current, new and start time, index, three time steps, starts of the schedules | `new_timestep`, `set_current_cfl`, `advance_time`, `set_restart_time`, `write_*`, `do_regrid` | seven limits on dt applied one after the other; time-based schedules from fractions; restarts | it ends, at the stop time; no interval is skipped or written twice; enforced outputs are on time | modelled |
| time loop (`incflo`, `setup/init`) | the position in the loop | `InitData`, `Evolve`, `compute_dt`, `regrid_and_update`, `post_advance_work` | which hook sees which dt and which time | the loop is a run of an ever-advancing clock | partly |
| checkpoints and restart (`utilities/IOManager`, `io`) | directories on disk | `write_checkpoint_file`, `read_checkpoint_header`, `read_checkpoint_fields` | files written one by one, kills, directories used again, missing fields | a restart resumes one whole state; what was saved stays saved | partly |
| post-processing manager | schedule of each object | `post_init_actions`, `post_advance_work`, `final_output` | first output before dt is known; origin of the schedule in restarted runs | outputs of a run in pieces are those of a run in one | modelled |
| time averaging | mean fields, accumulated interval | `post_advance_work`, `ReAveraging` | windows, phases, the first sample | the mean is an average | partly |
| field repository (`core/FieldRepo`, `Field`) | fields by number, their data on each level | `declare_field`, `create_state`, level callbacks, `advance_states` | declarations before and after the mesh, levels that come and go | numbers and data stay matched; kept fields survive | partly |
| AMReX | grids, level by level | order of callbacks, directory renaming | external | - | from its use |
| equation systems (`equation_systems`) | New, Old and half-time states, terms of each equation | `pre_advance_work`, advection, diffusion, sources, solves, `post_solve_actions` | which state each operator reads, in which order the equations go | half-time values are centred; terms are those of the state they claim | partly |
| fluid step (`incflo_advance`, `setup/init`) | position in the step, fixed-point iteration | predictor, corrector, prescribed step, projection, initial iterations | repeated iterations around states advanced once; start, regrid and restart differ | every step starts from the last solution, with every field set | partly |
| tagging and refinement | criteria | `ErrorEst` | read in the middle of a regrid | the fields it reads are set | partly |
| sampling, subvolumes, derived and integrated quantities | buffers, scan clocks | output, `post_regrid_actions` | output of several modules at one time; instruments faster than the step | all output is of the new time; instruments keep pace with the flow | partly |
| boundary planes (`BoundaryPlane`) | two planes in time, interpolated data | read, interpolate, fill, write | three fill times per step; regrids and restarts | data has the time of the fill | partly |
| other boundary conditions, wall models | turning inflow, stress | fill, wall stress | filled before what they read is there | filled for the time of the field | partly |
| atmospheric boundary layer (`wind_energy/ABL*`) | statistics, mesoscale forcing, wall data | hooks, forcing | statistics made in one hook are read in others | forcing sees the present profiles; statistics are of one time | partly |
| actuators (`actuator`) | points, forces, particle container | stages of the container, models, source term | order of stages, regrid in between | forces of the present flow and positions | partly |
| OpenFAST and Kynema-FMB coupling | the turbine's clock, checkpoints, velocity file | `init_turbine`, `advance_turbine`, checkpoints, replay | sub-steps, kills between two checkpoints, two clocks | both clocks agree, checkpoints pair | partly |
| HELICS controller | last answer | one exchange per step | answer of the last step | only where meant | partly |
| overset (TIOGA) | blanking, exchanged fields, pressure gradient | pre- and post-connectivity, exchange | repeated around iterations | exchange of the present state | partly |
| multiphase, ocean waves | interface, density, targets, HOS reader | hooks, relaxation, time interpolation | targets moved within a step; a reader with memory | targets have the time asked for | partly |
| other physics, immersed boundaries | terrain, forest, transition, body | hooks | a regrid zeroes what no hook restores | read after they are set | partly |
| turbulence models | viscosity, tke, sdr | `update_turbulent_viscosity`, effective diffusivities | which state, before or after which equation | viscosity of the present state | partly |
| convection, diffusion, projection kernels; mesh mapping | fields | kernels | floating point | - | not modelled |
| parameters, factories, NetCDF, console | - | set-up, I/O | none | - | not modelled |

`PROJECT.json` lists the hazards, at the line where each bites, with the
properties that watch it or, where no property does yet, the reason.

## 2. Modules and how they correspond to the code

| module | models | composes |
|---|---|---|
| `SimTime` | the class `SimTime`: one operator per method | - |
| `Evolve` | `InitData` and `Evolve` as one run of the program | extends `SimTime` |
| `Timeline` | what the clock promises, with no word of how steps are chosen | refined by `Evolve` |
| `Simulation` | checkpoint directories, kills, relaunches | extends `Evolve` |
| `PostProcessing` | one `PostProcessBase` and its manager's hooks | extends `Evolve` |
| `Scanning` | a `Sampling` object with lidar, spinner and radar | extends `PostProcessing` |
| `TimeAveraging` | `TimeAveraging` and `ReAveraging` | extends `Evolve` |
| `FieldRepo` | `FieldRepo`, `Field`, the level callbacks | - |
| `FieldStates` | slots, kernels and the time of what they write | - |
| `Turbulence` | transport and turbulence models as kernels | extends `FieldStates` |
| `SourceTerms` | source terms of all equations | extends `Turbulence` |
| `Inflow` | boundary fills, boundary planes, turning inflow, ghost cells | extends `SourceTerms` |
| `Waves` | targets, relaxation zones and boundaries of ocean waves | extends `Inflow` |
| `Actuators` | container and models of disks, wings, turbines, HELICS | extends `Waves` |
| `Averages` | plane averages, ABL statistics, mesoscale forcing | extends `Actuators` |
| `Physics` | the hooks of each physics module | extends `Averages` |
| `Equations` | advection, diffusion, boundary and solve operators | extends `Physics` |
| `FluidStep` | the stages of a step and of the projection | extends `Equations` |
| `Overset` | the exchange with an overlapping mesh | extends `FluidStep` |
| `Outputs` | post-processing, sampling, tagging criteria | extends `Overset` |
| `Hooks` | which physics does what in which hook | extends `Outputs` |
| `StepData` | the program as a state machine over the contents of its fields | extends `Hooks` |
| `Integrator` | what the time integration promises | refined by `StepData` |
| `Turbine` | one turbine solver beside the flow, over several runs | - |
| `W2AWaves` | the reader of HOS modes files on several processors | - |
| `IntervalLemmas` | quotients, remainders and intervals of integers, for the proofs | - |
| `EvolveProofs` | types, stop time, refinement of `Timeline`, schedules, outputs | extends `Evolve` |
| `SimulationProofs` | checkpoints, kills and restarts | extends `Simulation`, `EvolveProofs` |
| `PostProofs` | post-processing objects, instruments and running means | extends `Scanning`, `TimeAveraging`, `EvolveProofs` |
| `FieldRepoProofs` | numbers and data of the fields stay matched; contents after a regrid | extends `FieldRepo` |
| `StepDataProofs` | a new mesh keeps the solution, but for what its hooks set | extends `StepData`, `IntervalLemmas` |
| `TurbineProofs` | the properties of `Turbine` | extends `Turbine` |
| `W2AProofs` | times and turns of the waves that are read | extends `W2AWaves`, `IntervalLemmas` |
| `MC*` | instances for TLC | extend the module they check |

**SimTime.** The variables are the members of the class: `dt` is `m_dt` (`dt[0]`
the step in use), `cur_time`, `new_time`, `start_time`, `time_index`, `is_init`;
`out_start` and `out_start_time` are the start indices and times of plot files
and checkpoints. `cfg` is the input file after parsing; `ParseAborts` are the
combinations that `parse_parameters` rejects. `set_current_cfl` is
`SetCurrentCfl(c)`, where `c` is the step the CFL number allows (0: a flow at
rest): `LimitedDt`, `ClippedToStop`, `EnforcedFor` and `InDelay` are the parts
of the function in their order.

*Ticks.* Time is an integer number of ticks. A run whose times are all multiples
of a tick is represented exactly; the growth and shrink factors are rounded down
to a tick, and a step is at least one tick long. The tolerances of the code
(`1e-2 dt` and `1e-3` of an interval by default) make comparisons robust against
rounding. For steps and intervals below 100 ticks they are less than a tick and
change no comparison between multiples of it. Rounding errors themselves, and
tolerances set larger than that, are not modelled. The model allows the CFL step
to be any of `CflDts` in every step, so it covers all histories of the flow.

**Evolve.** `stage` is the next call of the program; each action is one call
with all it does to the clock and the outputs: `ReadCheckpointFile`,
`InitialIterations` or `NoInitialIterations`, `PrepareForTimeIntegration`, then
`StartStep` (`new_timestep`), `ComputeDt`, `PreAdvance` (`advance_time`, first
call of the advance), `PostAdvanceWork`, and at the end `OutputAtFinalTime`.
`last_out` is a history variable: index and time of the last output of each
kind. A regrid between `new_timestep` and `compute_dt` does not touch the clock;
`DoRegrid` is there for the module that composes the clock with the fields. A
prescribed-velocity run calls the same methods in the same order as far as the
clock is concerned. The dry run (write and exit) is not modelled.

**Simulation.** The disk is a function from time indices to directories. A
directory has a header (the step and run that wrote it) and `NumFiles` field
files, whose contents is the number of the run that wrote them. `WriteHeader`
and `WriteField` follow `write_checkpoint_file`; `PreBuildDirectories` renames a
directory of the same name, as AMReX does; `Crash` may come between any two of
them; `Launch(i)` starts the next run from any directory on disk, complete or
not, or from the beginning; `SimRestart` and `RestartAborts` are the restart
branch of `init_mesh` with the test of `allow_missing_restart_fields`. Of the
model's environment two things are assumed: the header is on disk before the
first field file and is not torn, and a field file is not seen before it is
complete.

**PostProcessing.** One object with its parameters, after
`populate_output_parameters`; `post_out` is a history variable, with the number of
outputs so far: none before `post_init_actions` has made one. That call comes before
`compute_dt`, with dt = -1 in an adaptive run, and then no time-based output is due
(`PostInitActions`). `DoOutputNow` is `SimTime::do_output_now`. The manager calls the objects of its list in turn, and
they share nothing, so one stands for all.

**Scanning.** Lidar, DTU spinner and radar, as samplers of one post-processing
object; `ScanNext` is `PostNext` with what each output does to them. A beam (or
cone) is its scan time, from which the code computes its direction. Spinner and
radar have a clock of their own and place, in every output, `m_ns` beams of at
most `m_ntotal` along it. Both numbers and the correction for a "time mismatch"
come from rounded quotients, so a whole ratio may come out just below or above
(`rounded`, fixed in a run, and `TimeCorrections`, at every output). The radar
samples its new cones and those of the last output, and `written` is the pair of
line-of-sight velocities it interpolates between. The order in
`post_init_actions` (initialize, optional `restart_sample`, first output) is in
`SetUp`. Spinner and radar need a fixed step: with dt = -1 neither can be set up.
A radar needs a spinner in the same object: otherwise `SamplingContainer` asserts
that every point lies in the domain, which those of cones not taken do not.

**TimeAveraging.** The mean is linear in the samples. `mean.num[t] / mean.den`
is the weight of the sample at time `t`, and one more weight is that of the mean
read from a checkpoint; the update is the expression of `ReAveraging` on those
weights, with a division by zero giving `Undefined`. A tick is one unit of time
here, because the unset step of an adaptive run is the number -1.0.

**FieldRepo.** Field number `id` is element `id` of `field_vec` and of every
level's data, as in `m_field_vec` and `m_leveldata`. What a MultiFab holds is a
label: `Zero` when it is made, the label last written, or `Mixed`. `mesh` stands
for the `AmrCore`: the levels are made from scratch one by one (a restart knows
`finest_level` from the start), and a regrid goes up level by level, remaking,
leaving, adding or clearing each. Physics modules and `read_checkpoint_fields`
write fields after the mesh is ready; `SetVal` stands for all such writes.
`AdvanceStates`, `SaveState` and `RecallState` are the copies between time
states that a step and the initial iterations make. The Old state is read only
after it has been set since the last regrid (`stepped`), which is the order the
loop has: regrid, then `advance_states`, then the step.

**The kernels: FieldStates to Hooks.** A *slot* is a field in one of its time
states, `<<"velocity", "Old">>`, or an array of a module (`<<"m_mo", "host">>`).
The state of the fields is a function from slots to the *time* their contents
belong to, in half steps: `2 * n` after `n` steps, `2 * n + 1` half a step later;
`Static` is what depends on no time. A slot that is not in the domain holds the
zero of the allocation (`setVal(0)` in `FieldRepo::allocate_field_data`). The
code is a sequence of *kernels*, loops over cells that read slots and write
slots. A kernel is a record: name, slots read, slots written, and how the time of
the result follows from its operands (`oldest`, `mean`, `next` step after Old,
or a time of the clock the code passes explicitly). So the operators of these
modules stand for functions of the code, one for one, with the reads, the
writes, the conditions and the order of the code, and without its arithmetic.
Data local to a function is left out unless it outlives the function. All
fields are on the finest level: where a regrid makes the level anew only what
`fillpatch_on_regrid` names and the hooks write is there.

`c` is the configuration, a record with the choices of an input file: physics in
their order, turbulence model, scheme (Godunov or method of lines), interface,
diffusion type and operator, sources per equation, overset, planes, turbines,
outputs, criteria. `Hooks` dispatches a hook over `c.physics` in that order.

**StepData.** `stage` is the next block of the program; an action performs the
kernels of its block through `Perform`, which also records in `used` every slot a
kernel has read, the time of its contents and the time it was needed for. Blocks
follow `init_mesh`, `init_kynema_sgf_modules`, `prepare_for_time_integration`,
`InitialProjection`, `InitialIterations`, `Evolve` with `regrid_and_update`,
`pre_advance_stage1` and `2`, `do_advance`, `ApplyPredictor`, `ApplyCorrector`,
`ApplyPrescribeStep`, the fixed-point loop and `post_advance_work`. `Regrid` may
happen in every step and keeps `FilledOnRegrid`; every step may leave a
checkpoint of `Checkpointed`; `Restart` starts again from the last one through
`ReadCheckpointFile`, which first initializes all levels and then overwrites
them, and `RestartMesh`, which may add a level. The driver of an overset run is
external: it is modelled by the order in which it calls the hooks.

The first six properties are about `used`: nothing is read before it is set, stale,
or of another time than the one it stands for. `KnownZeros`, `Lagging`,
`OfTheLastStep` and `OfTheStep` name the exceptions the code has, each with its
reason; they are the list a reviewer should look at first, and every one was found
by TLC. What they except no property watches:

- `KnownZeros`: what `compute_dt` reads after a regrid, the level set of immersed
  boundaries, the targets of waves and the terrain made from them before the first
  update of their levels;
- `OfTheLastStep`: the wind and yaw of the controller, the forces of `fllc`;
- `OfTheStep`: in the outputs, what belongs to the step and not to its end (forces,
  fluxes, viscosity), and with it the energy budget of the turbulence;
- `Lagging`: the velocity of a prescribed run, and the scalar by which actuators are
  tagged;
- `FilledAtTheirTime` does not look at the inflow values on the faces of the
  advection (`MacInflowIsCentred`, refuted below).

*Density.* `ConstantDensity` is `m_constant_density` after the constructor of the
equation systems: false where density is an equation and in every anelastic run,
whose density equation `incflo.cpp:486-493` adds. Such a density is evolved in each
step, and then each regrid and restart replaces it by the reference profile
(`ABLPostRegrid`). `SetOnNewMesh` lists all that the hooks of a new mesh set
again: density in runs with a volume fraction, a level set or an anelastic reference
state, and the fields of `ChannelBuilder`. `RegridKeepsState` is about the rest, and
`Integrates` promises nothing of the density of an anelastic run.

*Pressure.* Where the true pressure is reconstructed, the initial iterations begin by
taking the reference pressure p0 out of an initialized p (`StartIterations`), and it is
added back after the last of them in any case (`TakeBack`).

**Integrator** has no scheme at all: fields with a New and an Old time, `Begin`
(states advanced), `Work` (any field moved between the two ends of the step, in
any order, also back), `Finish` only when all have arrived, `Undo` for the initial
iterations, `Restart` to an earlier step. `StepData` implements it under the
mapping `Abstract`: the time of each field in `data`, and `busy` between the
advance of the states and the end of the step. Fields that a configuration does
not solve for, and those nothing is promised of, are mapped to one it does.

**Turbine.** `n` counts steps of the flow, `time_index` sub-steps of the turbine
(the code's name), and velocities, loads, forces and the source term carry the count
they belong to. `stage` follows `post_init_actions` and `pre_advance_work` of
`Actuator`: particle positions, sampling, forces (`ext_step`, with
`init_solution` the first time), sub-steps, the turbine's checkpoint, the source
term; then the flow is solved and may write its own. The flow also writes one when a
run that is no restart begins (`PrepareForTimeIntegration`), and it counts its
interval from `checkpoint_start`, or else from the step at which this run was
restarted (`set_restart_time`); OpenFAST counts from when its turbine was added.
`Regrid` zeroes the source term and makes the container anew. `Restart` may come at
any stage: the run is killed, and another begins with any checkpoint of the flow and,
as `sim_mode` says, the turbine's checkpoint for the same time, or a replay from the
velocity file. `ReplayTurbine` reads the first rows of the file in their order and
takes the loads from them: `rows[i]` is the step whose velocities were written there.
Kynema-FMB has no restart: its turbine starts again at the flow's checkpoint
(`origin`). `Assert` ends the run where an assertion of the code fails. The
checkpoints of the flow are those by steps, without a delay; its time-based ones give
no OpenFAST checkpoint at all.

**W2AWaves.** Time is in units of which the step of the modes file has
`dt_modes`. `wdata` has the fields of `W2AWavesData` with `n_offset` and
`do_interp` per processor; `field[r]` holds, for each processor, what is in
`w2a_*` Old, `w2a_*` New and the target: the time and file step of a wave, the
quiescent default, zero after a regrid, or `Wrong`. `evaluate_read_resize`,
`update_offset_timestep` and `time_interpolate_wave_fields` are the functions of
that name. The last step of the file may be the one its header announces or an
earlier one; processors whose boxes do not reach the wave zones do not read.

## 3. Runs

Every property has a mutant in `PROJECT.json`: a plausible bug in a mapped
definition that makes TLC report the property violated under the same
configuration. "Violation" runs show a disagreement between the code and a
statement in its documentation.

| run | shows | bounds |
|---|---|---|
| `evolve` | schedules, enforcement, stop time, termination and refinement of `Timeline` | 102 input files, stop time 11 ticks, CFL steps {0,1,2,5}, three checkpoints |
| `simulation` | restarts resume one snapshot, saved states stay, bounded loss, fixed runs and plots unaffected by kills | 3 launches, 2 field files, 4 fixed steps or 5 ticks; a fixed step that passes several intervals |
| `post_processing` | schedules of post-processing objects over restarts, final outputs; scanning instruments | 80 time-based and step-based objects, stop time 9, max_step 8 and 0; fixed steps of 1 to 3 ticks and adaptive ones, sample periods of 1 to 4 |
| `time_averaging` | means are averages, and time averages without a window; one sample per phase | stop time 7, periods {none,2,3}, windows {2,100} |
| `field_repo` | data stays matched to fields; kept fields survive; others are current or zero | 2 names, up to 4 fields, 3 levels, 2 values |
| `step_data` | no field is read unset, stale or at a wrong time, named exceptions apart; a new mesh changes nothing but what its hooks set again; refinement of `Integrator` | 46 configurations, 3 steps, a regrid in every step, checkpoints anywhere, a restart |
| `turbine` | clocks, forces, checkpoint pairs, places of the rows and assertions over kills, restarts and replays | 2 solvers, 2 sub-steps, checkpoints every 2 of 5 steps, `checkpoint_start` not given, 0 or 1, 3 runs, turbines added at step 0 or 2 |
| `waves2amr` | targets have the time asked for; the file repeats step by step | 2 processors (symmetric), 4 or 5 steps in the file, flow steps 1/2 to 5/2 of a file step, 28 units (7 file steps), 2 launches, 1 regrid |
| `delayed_output` | the final state is not written if it falls on a delayed schedule | doc: `inputs_time.rst:114` |
| `enforced_after_restart` | enforced outputs miss the schedule of a restarted run | doc: `inputs_time.rst:268` |
| `averaging_adaptive` | the first mean of an adaptive run uses dt = -1 | code bug, `TimeAveraging.cpp:89` |
| `waves2amr_init` | waves that begin inside the file are interpolated for a wrong time | code bug, `waves2amr_ops.H:913` |

### Further counterexamples

Configurations in this directory that TLC also refutes. They are not among the
runs above; `tlc -config X.cfg M` shows the trace (of the invariant that fails
after the fewest steps, where there are several: comment the others out).

| configuration | property | what the code does |
|---|---|---|
| `MCEvolve_fixed_delayed` | `FixedRunsUseFixedDt` | with `delay_time` a fixed-step run takes other steps (`SimTime.cpp:263`; `inputs_time.rst:42-44`) |
| `MCFieldRepo_ghost` | `GhostCellsAsAsked` | a second declaration with more ghost cells gets fewer (`FieldRepo.cpp:100`; `FieldRepo.H:69-73`) |
| `MCStepData_refuted`, invariant | `MacInflowIsCentred` | "ow values at nph time for advection boundaries" (`OceanWavesBoundary.cpp:63`), but `pre_predictor_work` (`OceanWaves.cpp:156-162`) has moved the targets to the new time before the advection asks for them |
| `MCStepData_refuted`, property | `HooksKeepState` | "If regrid happened, call post regrid actions" (`incflo.cpp:112`): those of an anelastic run replace the density it has evolved (`ABLAnelastic.cpp:84`), and they are always called in a restart, where those of `ChannelBuilder` (`ChannelBuilder.cpp:548`) start the flow again |
| `MCTurbine_refuted`, first invariant | `EveryCheckpointHasItsTurbine` | "automatically creates an OpenFAST .chkp file for every ... checkpoint" (`docs/sphinx/user/run.rst`): not for the one at the start (`incflo.cpp:206`), nor for the last one off the interval |
| `MCTurbine_refuted`, second invariant | `ReplayMimicsRestart` | "Replay OpenFAST simulation for the desired number of timesteps to mimic restart" (`FastIface.cpp:379`): the replay clears `is_solution0`, so the start then takes a whole step, and the turbine is one step ahead |
| `MCTurbine_refuted`, third invariant | `ReplayReadsItsSteps` | the same comment: steps that are taken again after a restart append their rows a second time, and the replay reads the first rows in order (`FastIface.cpp:386-387`), so it replays a step twice and another not at all |
| `MCPostProcessing_scans`, first invariant | `PostStartOnScheduleIsWritten` | "outputs will take place when the difference between the current time and the initial time matches up with the specified time interval" (`inputs_post_processing.rst:109-111`): not at the start of an adaptive run, since `post_init_actions` compares with dt = -1 (`PostProcessing.cpp:60`) |
| `MCPostProcessing_scans`, second invariant | `InstrumentsCatchUp` | "Correction for time mismatch" (`DTUSpinnerSampler.cpp:334`): the loop ends at `m_ntotal` beams, so an instrument that is not sampled in every step, or from a later step on, does not catch up |
| `MCPostProcessing_scans`, third invariant | `ProjectedAlongItsCone` | "Add a single cap to help calc line of sight" (`RadarSampler.cpp:276`): the projections of every cone are kept, and those of the first are used for all (`RadarSampler.cpp:399`), also for the cones of the last output |

### Observations without a run

Clock and outputs:

- with `delay_time` the step is `initial_dt` and not clipped, so an adaptive run
  may pass `stop_time` (`SimTime.cpp:257`); `NoOvershootWithoutDelay` leaves it
  out;
- the step in a checkpoint's header is read and dropped (`io.cpp:61`), so
  `max_dt_growth` does not limit the first step of a restarted adaptive run;
- for plot files and checkpoints the start of a run counts as an output
  (`NoOutput(0)` in `Evolve`), also with dt = -1, where `write_plot_file` and
  `write_checkpoint` are not due by time: `NoIntervalSkipped` does not look at the
  interval in which an adaptive run starts, of which `PostNoIntervalSkipped` says
  openly that it leaves it out;
- post-processing objects with `output_from_restart` share the disagreement that
  `enforced_after_restart` shows; `PostEnforcedAligned` leaves it out;
- `inputs_post_processing.rst:32-35` promises an output of the final state by
  default; the code makes none, and lines 115-122 of the page agree with it;
- with `max_step = 0` an object with `output_after_final_step` may miss the final
  state: the first outputs are made before the initial iterations have set the
  step from which the manager decides, and at the end it looks as if they had been
  made (`PostProcessing.cpp:84`); `PostFinalStateOnce` leaves it out.

Contents of fields (the model has the code's behaviour; most are named in
`KnownZeros`, `Lagging` or `OfTheLastStep`):

- `compute_dt` after a start or regrid sees no forces and no viscosity on new
  levels (`incflo_compute_dt.cpp:55`);
- the density of an anelastic run is advanced by its equation and then reset to the
  reference profile by the next regrid or restart (`ABLAnelastic.cpp:84`);
- a regrid zeroes the level set of immersed boundaries (`IB.cpp:69`), the forcing
  of the Burggraf cavity (`BurggrafFlow.H:61`), the `w2a_*` and `ow_*` fields, and
  in overset runs the pressure;
- `Physics::post_pressure_correction_work` (`Physics.H`) is never called;
- reading boundary planes aborts with two or more fixed-point iterations
  (`BoundaryPlane.cpp` around 1490), since the second asks for an earlier time;
- with `use_tensor_operator = false` the diffusion operators of the momentum
  equation do not call `setup_operator`, so neither the boundaries nor the wall
  model are applied before them (`icns_diffusion.H`);
- the averages of sub-grid stresses and viscosity at the end of a step use the
  viscosity of its start; the buoyancy production in the energy budget is written
  from the dissipation (`ABLStats.cpp` around 768);
- plane averages in ASCII are stamped with `current_time`, the statistics around
  them with `new_time`; `FieldPlaneAveraging` writes its header in step 1 only;
- `compute_zi` on a CPU takes the loop index of the last cell (`ABLStats.cpp`
  around 358); the transition height of a direct mesoscale forcing with a
  constant upper part is never read (`ABLMesoscaleForcing.cpp:31-84`);
- moving wings and `ModulatedPowerLaw` start from their first position and
  direction in a restart;
- a tendency forcing with an empty `forcing_scheme` returns before it is used.

Instruments (`Scanning` has the code's behaviour): the radar's clock is read
uninitialized if its first output comes after the first step
(`RadarSampler.H:203`); its cones are placed at the start twice, since
`current_time` is still the start in the first step's output; lidar and radar
look at `current_time`, where the spinner says it "should be new_time"
(`DTUSpinnerSampler.cpp:314`); every sampling at the start, also that of
`restart_sample`, moves the spinner's clock a step ahead.

Turbines and waves: turbine checkpoints follow the turbine's own count. They pair
with the flow's between the start and the last step; with a given `checkpoint_start`
only if it lies on the turbine's schedule (`StartsAgree`), and never with time-based
checkpoints. The velocity file has its rows in their places until a step is taken
again (`NoneTwice`). Processors that meet an early end of the modes file take over the
offset of those that do not read (`ReduceIntMax` of negative offsets), and a
restart beyond the end shifts the waves: `WavesRepeat` leaves both out
(`astray`), so it does not watch what processors that disagree then read.

**Why the bounds are enough.** The schedules compare remainders modulo the
intervals (2 to 5 ticks). A run of 11 ticks passes every residue of the clock
against intervals 3 and 4 at least twice, with steps shorter than, equal to and
longer than the intervals; checkpoints lie on and off the schedules, and one
(time 12) lies past the stop time, so that a run with no step is covered. Step
5 jumps over whole intervals. For the schedules the proofs remove the bounds
altogether. Three launches allow a directory written by a first run, broken by a
second and read by a third; two field files are the least that can be mixed.
Three levels allow a level to be remade from one that has itself just been
remade, and to disappear below one that stays; the labels tell data of the
present from data of a level that has been cleared. Velocity has two states and
a half-step state and mueff none, so that fields added late sit between others.

For `step_data` three steps let a regrid, a checkpoint, a restart and a full step
after it follow each other in any order; times are relative to the step, so a
longer run repeats. The 46 configurations name every scheme, equation, turbulence
model, physics, turbine type, source and criterion at least once, together with
the options that touch the same fields; not every combination of them. `turbine`
has room for a kill in the second step after a checkpoint, for a restart of a
restart and for a replay of a file to which a step was appended twice; schedules that
start on and off the turbine's both occur. The proofs remove its bounds. In `waves2amr` the flow passes the end of
the file once at every step size, and steps longer than two file steps skip some.

**Fairness.** `Evolve` is sequential: while it has not returned, its next call
is made and returns. That is `WF(Step)`, and only `Termination` needs it. It
would not hold for a program that may hang in a collective call; no property
here says that it does not. `Simulation` has no fairness: nothing obliges a user
to relaunch a job. `StepData`, `Turbine` and `W2AWaves` state safety only: a
step there is a fixed sequence of calls, and whether the loop ends is the clock's
business.

**Deadlock** is checked in every run: terminal states stutter explicitly.

## 4. Proofs

Each theorem is for every value of the constants that satisfies the named
assumptions of the module. They say that the inputs are input files:
`InputsAssumption`, `CflAssumption` and `CheckpointsAssumption` for `Evolve`;
besides these `FilesAssumption` (at least one field file and one launch) for
`Simulation`, `PostsAssumption` and `InstrumentsAssumption` for `PostProcessing`
and `Scanning`, `AveragesAssumption` for `TimeAveraging`. `ConfigsAssumption` says
that the configurations of `StepData` list scalar equations and refinement criteria
that the code has, with density first among them exactly where it is not constant
(`incflo.cpp:486-493` adds it). `RepoAssumption` is that of `FieldRepo`; `Turbine`
needs a positive number of sub-steps and a positive interval. `ModesAssumption` says of `W2AWaves` that the waves
begin at a step that the file has, that the file does not go beyond what its header
announces, and that half a step of the flow is a whole number of units of time.

| theorem | states |
|---|---|
| `TypeCorrect` | `Spec => []TypeOK` |
| `StopTimeNotPassed` | an adaptive run without `delay_time` does not pass `stop_time` |
| `TimelineImplemented` | the loop implements `Timeline` under the mapping in `Evolve` |
| `NoIntervalIsSkipped` | no interval of a time-based schedule goes by without its output |
| `WrittenOncePerInterval` | and none is written twice by the steps of the loop |
| `FinalStateIsSavedOnce` | a run without output delays ends with its last state saved, once |
| `EnforcedOutputsAreOnTime` | enforced outputs lie on a schedule that starts on the interval |
| `EveryCallComesCloser` | every call of the loop makes a natural number smaller: what `Termination` rests on |
| `SimTypeCorrect` | `SimSpec => [](TypeOK /\ SimTypeOK)` |
| `SavedIsNeverLost` | `SavedStaysSaved`: no launch or kill destroys a complete checkpoint |
| `ResumedFromOneSnapshot` | a restart goes on from the files of one run and one step |
| `TimeOfFixedSteps` | with a fixed step, time is index times step, in the run and on disk |
| `PlotsOnSchedule` | restarted runs plot at the steps of an uninterrupted one |
| `WorkLostIsBounded` | a complete checkpoint is at most one interval away |
| `PostNoIntervalIsSkipped` | time-based objects miss no interval after the one a run starts in, nor that one with fixed steps and a start on schedule |
| `PostFinalStateIsWrittenOnce` | objects with final output end with the last state, once |
| `PostStepsAreComplete` | step-based outputs do not depend on where a run was restarted |
| `PostEnforcedOutputsAreAligned` | enforced outputs of an object lie on its schedule |
| `RadarConesAreSeenTwice` | the radar interpolates between velocities of the same cones |
| `InstrumentsStayInPace` | sampled in every step, the instruments keep pace with the flow |
| `OneSampleInEachPhase` | phase averaging samples every period once |
| `MeanIsTimeWeighted` | without a window the mean is the time average |
| `MeanIsAnAverage` | the weights of a mean are not negative and add up to one |
| `RegridsKeepTheState` | `Spec => RegridKeepsState`, for every configuration |
| `DataStaysMatched` | `RepoSpec => []LevelDataMatchesFields` |
| `RegridIsInvariant` | the inductive invariant of the contents of all levels |
| `KeptContentsSurvive` | `RepoSpec => []KeptFieldsSurviveRegrid` |
| `OthersCurrentOrZero` | `RepoSpec => []OtherFieldsCurrentOrZero` |
| `TurbineStaysInStep` | `Spec => []TurbineInStep` |
| `ForcesBelongToTheStep` | `Spec => []ForcesOfTheStep` |
| `RowsAreInTheirPlaces` | `Spec => []RowsOfTheSteps`: rows lie at the places of their steps, and a replay ends with the loads of the last one, until a step is taken twice |
| `NoAssertFails` | `Spec => []AssertsHold` |
| `CheckpointsArePairs` | `Spec => []CheckpointsPair`: checkpoints between start and last step pair, over restarts that move the flow's schedule |
| `TargetsAreOfTheirTime` | the targets of the waves have the time they were asked for |
| `TurnsRepeat` | the steps of the modes file are used in turn, over its end |

The theorems on `Evolve` other than `TypeCorrect`, and those on the modules that
extend it, assume `DelaysHaveDt`: a run with a `delay_time` gives an `initial_dt`.
Without it the code takes steps of -1, which `parse_parameters` accepts.

*Argument for the clock.* `LoopInv` carries what `new_timestep` has tested over
the calls that follow. Between the test and the end of the step nothing moves
the clock (`cur_time = new_time` while `stage` is `"dt"` or `"advance"`), so the
index and the time are still inside the run when the step is made; the chosen
step is at least a tick, and, if adaptive, inside the stop time. `NoOvershootWithoutDelay`
alone is not inductive: it says nothing of a step that has been chosen and not
yet made. That the enforced outputs leave a positive step is the lemma on
`Enforced`: the rest up to the next multiple of the interval is never zero.

*Argument for the schedules.* The code decides that an output is due from the
remainder of `new_time` by the interval and from `dt[0]`. `ScheduleInv` says
that `dt[0]` is then the step from `cur_time` to `new_time` (it would not be, if
anything changed it between `compute_dt` and the outputs), and that the last
output lies in the interval of the time reached so far. `PassedMultiple` in
`IntervalLemmas` is the arithmetic: the remainder is below the step exactly when
the step has entered a new interval. A step without output stays in the
interval, a step with one enters a later one; both theorems follow.

*Argument for final and enforced outputs.* Whether the final state is written is
decided by the same tests that decided, a call of `new_timestep` earlier, whether
the last step was. `OutputsInv` says that these tests hold at the top of the loop
exactly when the last output is of the present index. The call in between has
moved the index on and back and left the step alone, and so they still do
(`SettledIndex` is the index without that move). `EnforcedInv` says that the step
that has been chosen ends at the next multiple of the interval at the latest,
unless the delay of the schedule is not over; an output is due when a multiple has
been passed or met, so it has been met.

*Argument for the end of a run.* `Measure` counts four for every tick (or step) that
is left before `stop_time` (or `max_step`), and one for every call that is left of the
present step. A step is made by the call in stage `"advance"`, which is reached only
with a positive step (`LoopInv`) and takes at least a tick off what is left; every
other call moves on in the step and adds nothing to what is left (`NothingLost`).
`Left` is cut off at zero, since a fixed step may go beyond the stop time. With weak
fairness of `Step` no run can go on for ever; that last inference is `Termination`,
which TLC checks.

`IntervalLemmas` proves the few facts about `\div` and `%` from their definition, and
from the well-foundedness of the natural numbers induction over an interval, with a
set in place of the predicate (`IntervalInduction`). The proofs about sums and about
sequences of kernels are by it.

*Argument for kills and restarts.* A kill puts the loop back into its initial
state, so the invariants of `Evolve` hold in `Simulation` too; what is added is
the disk. `DiskInv` says that all files of a directory are those of the run that
wrote its header, and that the directory being written holds the header and the
first files and no others (`Partial`). So the directory that is written to is
never complete before its last file, nothing that is complete is written to, and
a directory whose files are all there is one snapshot: `SavedStaysSaved` and
`ResumesOneSnapshot`. For the work that is lost `SavedInv` gives the index and
the time of a complete checkpoint exactly: the last one of the schedule, or, while
that one is being written, the one before. The attempt to prove an earlier form of
`WorkLostBounded` failed, rightly: where steps are longer than the interval and
the program is killed during its checkpoint, several intervals are lost at once.
The property now says so, and `MCSimulation` has such a run.

*Argument for post-processing.* An object is driven by the loop; `DrivenInv` is
the invariant of the loop with the types of the object. `PostScheduleInv` is
`ScheduleInv` for one object, with one difference: the run may begin without an
output, so up to the first one nothing is known but that the run has not left the
interval it started in; where the start is on schedule and the step is known then,
the first output is due there (`DueAtStart`). For the final output one needs to know that the
manager's question has the same answer after the last step and at the end
(`PostOutputsInv`); it does not if no step was made, see the observation on
`max_step = 0` above, which the failed proof found. `PostStepsInv` counts with
`SettledIndex` again.

*Argument for the instruments.* `PaceInv` bounds the clock of the spinner, and
after the first step that of the radar, at every output: two sample periods behind the
next output at most, and ahead by at most the samplings at the start. It is
inductive for equal steps: the beams of a step cover it but for a period, the
correction for a time mismatch makes up for what is behind, and no more beams are
placed than fill the step. `ConesInv` says that what the
radar keeps from its last output was sampled there in the cones it keeps.

*Argument for the averages.* Neither property is inductive: each speaks of
moments when a step is complete and says nothing of what has been accumulated.
`SamplesUpTo`, `PhasesUpTo` and `WeightsUpTo` describe samples, phases and weights
for a time up to which the flow has been seen, and one lemma says how each is taken
from `t - d` to `t` by a sample and by a step without one. The weights are
multiplied out, so that the update of the mean becomes the identity
(m e)(e + I) = (D (e + I)) w from m e = D w (`ScaledWeight`). `MeanIsTimeWeighted` and
`MeanIsAnAverage` have one more hypothesis, that time stays below `MaxTime`: the model
keeps a weight for every time up to that bound.

That the weights add up to one needs no such description. `MeanInv` says that none is
negative and that their sum is the denominator from the first sample on, or from the
restart on, whose mean is the weight of what was restored. A sample scales all weights
and adds one (`SampleAverages`); that the sum follows is induction over the times
(`SumOf` is a recursive function, `SumOfScaled` and `SumOfPrefix` are its lemmas).
The interval that is sampled is at least a tick, so that no denominator vanishes.

*Argument for the field repository.* `LevelDataMatchesFields` is not inductive:
a level that is made takes its data from the tables, so every field must have its
`FieldInfo` and all its states (`TablesMatch`: a copy between states reads a state
that exists), and a declaration allocates on `finest_level` and below, which must
be the levels with data (`MeshInOrder` says how far an operation of the mesh has
come). `AllocatingKeepsTheMatch` is the heart: appended fields keep the numbers of
those before them, on every level. One lemma per kind of step follows.

For the contents `RegridInv` adds what a copy between states needs. Only New
states are kept on regrid (`KeptAreNew`), so a New state that is filled may come
back from an Old one that was zeroed: `RecallState` would break
`KeptFieldsSurviveRegrid`, were the Old state not saved again after every regrid
(`SavedSinceRegrid`). Until the mesh is ready all contents are zero
(`ZeroUntilReady`), and a state belongs to one field (`EntriesUnique`), so that a
copy changes the same field on all levels.

*Argument for a new mesh.* The property is about labels after a stage, and a stage is
a sequence of kernels that is put together from the lists of the configuration.
`Quiet(ks, S)` says that the kernels of `ks` write nothing in `S`. It is inherited by
concatenation and by `ForEach` (`QuietJoin`, `QuietFlatten`), and what `Perform` does
to a slot of `S` is nothing (`PerformQuiet`); both are inductions over the length of
the sequence. It remains to go through everything a change of the mesh calls: tagging,
`remake_level`, masks, ghost cells, the operators and `post_solve_actions` of each
equation, the `post_regrid_actions` of each physics and of post-processing. For
`KeptFields` all of it is quiet, and `Restricted` drops none of them, because they are
registered to be filled. The theorem excludes no configuration. What it excepts are
the fields of `SetOnNewMesh`, and only in the configurations whose hooks write them:
density where it follows the volume fraction, the level set or the anelastic reference
profile, and the fields of `ChannelBuilder`. In those configurations velocity, the
scalars and the pressure gradient (with `ChannelBuilder`, those it does not build) are
still shown to be kept. That the exceptions are not kept is `HooksKeepState`.

*Argument for the turbine.* Each property says something at two or three stages
only; the invariants carry it in between. `TurbineTime` adds what `time_index` is
within the sub-steps and that the first solution is asked for exactly when the
turbine has not advanced in this run, and that every checkpoint on disk is for a
sub-step where a flow step ends. For the rows `PlacesInv` says that row `i` is that of
the `i`-th step. A step appends its row at the end of the file; if the end is not its
place, the file is longer than the flow has come, so it has a row of this step
already, and from then on a row occurs twice (`PlaceOfTheNext`). For the pairs,
`time_index \div num_substeps` is the step since the turbine was added
(`IntervalLemmas`), and `PairsInv` says that the flow's schedule starts on the
turbine's: at first since it starts with it, or since `checkpoint_start` agrees; after
a restart since the step it starts from has a turbine checkpoint, which are only
written on the turbine's schedule (`RestartsOnSchedule`). A step on the flow's
schedule is then on the turbine's (`SameSchedule`). Runs after a replay are outside
`TurbineInStep` and `CheckpointsPair`, since there they do not hold.

*Argument for the waves.* `TargetsAtTheirTime` looks at one moment; what makes it
true is spread over the reader. `TimesInv` says that the reader is at the first step
of the file that is not before the last update (`StepOfTime`), so the two steps that
are held lie around the time asked for. `ReadersInv` says that a processor that needs
the waves reads them the next time any are read: after a regrid that is not yet so in
`do_interp`, but `regrid_occurred` is still set when the first update comes. With
these `FieldsInv` is inductive: w2a New is the wave at the step of the file, w2a Old
the wave at the last update, or zero until two steps have been read on new levels.
`Interpolated` is the arithmetic. An update that reads one step finds in w2a New what
it needs as w2a Old, since it is then exactly one step ahead; one that skips steps
reads both; and one that skips steps to a time on a step of the file interpolates
with weight 1 and never looks at w2a Old. `TurnsInv` says that all offsets are the
one that makes the step read a step of the file in its turn (`TurnOfSteps`). The
return to the first step may be made in two places, the check of the nominal end and
the read that fails; both set the same offset. The invariant needs `~astray`: an
update that skips the end sets the offset for the wrong step.

**Model-checked only.** `Termination` (liveness: fairness and ENABLED; its measure is
proved). Of `StepData`: that it implements `Integrator` (the mapping goes through the
labels that every stage gives), and `ReadsAreSet`,
`ReadsAreCurrent`, `HalfTimeIsCentred`, `DiffusionOfStart`, `FilledAtTheirTime` and
`OutputsOfNewTime`. They need the label of every slot at every stage of a step, for
configurations that go together (a source term needs the physics that makes its
field); an invariant that says so repeats the model, and a wrong combination of
options, which no assumption excludes, refutes it.

## 5. Not modelled

- the arithmetic of kernels (advection, diffusion, projection, wall models,
  turbulence closures, wave theories), geometry and the formats of files: neither
  prover says anything of floating-point arrays, and the control around them is in
  the modules above;
- rounding errors of time (but for the quotients in `Scanning`), and tolerances of
  a tick or more;
- several post-processing objects at once, replication of a restarted domain,
  the dry run, `use_force_cfl` (it is part of the choice of the CFL step);
- integer and scratch fields as such (scratch data that one function makes and
  drops has no state), mesh mapping (the switch of a field between uniform and
  stretched space), and levels below the finest in `StepData`;
- distribution over processes: particles, samplers and boxes of a turbine are
  taken as one, except in `W2AWaves`, where processors differ in what they read;
- files of boundary planes and statistics: a killed precursor, and the search for a
  pair of planes in `time.dat`;
- the other solvers (OpenFAST, Kynema-FMB, TIOGA, HELICS, ERF): external, as far as
  they are called; a failure inside one ends the job;
- combinations of a prescribed velocity with several fixed-point iterations, which
  the code treats inconsistently (`incflo.cpp:411`);
- failures of single processes: a job that loses one is killed as a whole.

## 6. Plan

Done: everything in the table of modules.

What is left, most useful first:

1. The files of boundary planes: a writer that is killed and restarted, and a
   reader that searches `time.dat`.
2. Pure algorithms against reference definitions: linear interpolation in tables,
   the direction sequence of the split advection, the phase of a moving wing.
3. The distribution of turbines and sampling particles over processes.
4. The sweep of the radar (phases, angle, elevation) as a function of scan time,
   and the centre of a spinner on a moving hub.
