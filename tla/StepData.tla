------------------------------ MODULE StepData ------------------------------
(***************************************************************************)
(* A run of the flow solver as a state machine over the contents of its    *)
(* fields: start or restart, projection and iterations at the start, and   *)
(* the steps, each with its regrid, hooks, fixed-point iterations, output  *)
(* and checkpoint.  An action is one stage of the code in incflo.cpp,      *)
(* init.cpp and incflo_advance.cpp: it performs the kernels of the stage   *)
(* in their order.  The mesh may change at the start of every step, and    *)
(* the run may be killed between two steps and restarted.                  *)
(*                                                                         *)
(* c is the configuration, one record of Configs, with the physics of the  *)
(* run, its models and its numerical scheme.                               *)
(***************************************************************************)
EXTENDS Hooks

CONSTANTS Configs,      \* the configurations that are run
          MaxSteps      \* bound: the steps of a run

VARIABLES c,            \* the configuration
          data,         \* the contents of the fields (FieldStates)
          used,         \* what the last stage has read
          did, stage,   \* the last stage, and the next one
          k,            \* the scalar equation that is next, in a loop over them
          it,           \* the fixed-point iteration, or the initial iteration
          starting,     \* the initial iterations are under way
          n,            \* steps completed
          t,            \* the clock of the step
          saved         \* the last checkpoint

(* What the input files ask for: lists of names.  A criterion is one of    *)
(* those the code has.  "Register density first so that we can compute its  *)
(* `n+1/2` state before other scalars attempt to use it" (incflo.cpp:480). *)
ScalarEquationNames ==
  {"temperature", "tke", "sdr", "passive_scalar", "vof", "levelset", "density"}

Criteria ==
  {"FieldRefinement", "GradientMagRefinement", "CurvatureRefinement", "VorticityMagRefinement",
   "QCriterionRefinement", "OversetRefinement", "GeometryRefinement", "CartBoxRefinement"}

ASSUME ConfigsAssumption ==
  \A cfg \in Configs :
    /\ cfg.scalars \in Seq(ScalarEquationNames) /\ cfg.criteria \in Seq(Criteria)
    /\ cfg.physics \in Seq(STRING) /\ cfg.outputs \in Seq(STRING)
    /\ ~ConstantDensity(cfg) => cfg.scalars # << >>
    /\ \A i \in DOMAIN cfg.scalars :
         cfg.scalars[i] = "density" <=> (i = 1 /\ ~ConstantDensity(cfg))

vars == << c, data, used, did, stage, k, it, starting, n, t, saved >>

None == [data |-> << >>, n |-> -1]

-----------------------------------------------------------------------------
(* What survives: the fields that a new mesh is filled with, and those of  *)
(* a checkpoint.                                                           *)

Solved == {"velocity"} \cup {c.scalars[i] : i \in DOMAIN c.scalars}

\* Mutant: density and the pressure gradient are not registered to be filled.
FilledOnRegrid_SolvedOnly == States(Solved, "New")

FilledOnRegrid == States(Solved \cup {"density", "gp", "wall_dist"}, "New")

OnHost(d) == {s \in DOMAIN d : s[2] \in {"host", "bc", "src bc"} \/ OnActuator(s) \/ OnLine(s) \/ OnMeso(s)}

Checkpointed ==
  States(Solved \cup {"density", "p", "gp"}, "New") \cup
  IfThere(c.turbulence # "Laminar", {New("mu_turb"), Mueff("velocity")}) \cup
  IfThere(c.turbulence = "Kosovic", States({"Nij", "divNij"}, "New")) \cup
  Terrain(c, {"terrainz0", "terrain_height", "terrain_damping"})

Restricted(d, slots) == [s \in DOMAIN d \cap slots |-> d[s]]

(* A density that no equation advances belongs to no time.                 *)
Timeless(d) ==
  [s \in DOMAIN d |->
     IF s[1] = "density" /\ ConstantDensity(c) /\ c.interface = "none" THEN Static ELSE d[s]]

Merged(d, e) == [s \in DOMAIN d \cup DOMAIN e |-> IF s \in DOMAIN e THEN e[s] ELSE d[s]]

-----------------------------------------------------------------------------
(* A stage: the kernels it performs, and what comes next.                  *)

At(s) == stage = s /\ did' = s

Performs(kernels) ==
  LET done == Perform(data, kernels, t) IN data' = done.data /\ used' = done.used

Goto(s) == stage' = s

Same == UNCHANGED << c, k, it, starting, n, t, saved >>

Stage(s, kernels, next) == At(s) /\ Performs(kernels) /\ Goto(next) /\ Same

Scalars == Len(c.scalars)

(* One stage per scalar equation. *)
EachScalar(s, kernels, next) ==
  /\ At(s)
  /\ UNCHANGED << c, it, starting, n, t, saved >>
  /\ \/ k <= Scalars /\ Performs(kernels) /\ k' = k + 1 /\ Goto(s)
     \/ k > Scalars /\ k' = 1 /\ Goto(next) /\ data' = data /\ used' = {}

-----------------------------------------------------------------------------
(* Start *)

Init ==
  /\ c \in Configs
  /\ data = << >> /\ used = {}
  /\ did = "none" /\ stage = "mesh"
  /\ k = 1 /\ it = 0 /\ starting = FALSE /\ n = 0
  /\ t = [cur |-> 0, new |-> 0, dt |-> 2]
  /\ saved = None

InitializeFields == AllPhysics(c, LAMBDA p : InitializeFieldsOf(p, c))

PhysicsPostRegrid == AllPhysics(c, LAMBDA p : PostRegridOf(p, c))

(* init_mesh, without a checkpoint *)
InitMesh ==
  /\ At("mesh") /\ Goto("modules") /\ Same
  /\ LET done == Perform(data, InitBCs(c) \o MPLInit(c) \o If(Has("ABL", c), ABLFieldInit(c)) \o InitializeFields, t)
     IN data' = Timeless(done.data) /\ used' = done.used

(* ReadCheckpointFile: levels are made from scratch, initialized, and then *)
(* overwritten with the fields of the file.                                *)
ReadCheckpointFile ==
  /\ At("restart") /\ Goto("restart mesh") /\ Same
  /\ LET fresh == Perform(<< >>, InitBCs(c) \o MPLInit(c) \o If(Has("ABL", c), ABLFieldInit(c)) \o InitializeFields, t)
     IN data' = Merged(Timeless(fresh.data), saved.data) /\ used' = fresh.used

(* A finer level than the file has is made from the coarse data.           *)
RestartMesh ==
  /\ At("restart mesh") /\ Goto("modules") /\ Same
  /\ \E d \in {data, Restricted(data, FilledOnRegrid \cup OnHost(data))} :
       LET done == Perform(d, PhysicsPostRegrid, t) IN data' = done.data /\ used' = done.used

SetMasks == IF c.overset THEN ResetMasks ELSE << SetVal("masks", Masks) >>

(* The lifting line correction starts with the first step after time zero. *)
FLLC ==
  [due |-> "fllc" \in c.extra /\ n > 0, on |-> \E s \in DOMAIN data : s[2] = "fllc"]

(* init_kynema_sgf_modules, up to the boundaries *)
InitModules ==
  Stage("modules",
        HelicsInit(c) \o SetMasks \o AllPhysics(c, LAMBDA p : PostInitOf(p, n = 0, FLLC, c)) \o
        WaveBoundaryPostInit(c) \o PlanesPostInit(n = 0, c),
        "equations")

(* init_kynema_sgf_modules, from the equations on *)
InitEquations ==
  Stage("equations",
        EquationInitialize("velocity", c) \o
        AllScalars(c, LAMBDA f : EquationInitialize(f, c)) \o
        FillpatchStateFields("now", c) \o DensityCheck \o PostInitOutputs(c),
        IF c.overset THEN "connect" ELSE "integration")

(* The driver of both solvers finds the overlap and exchanges the solution *)
(* before time integration, and again when the mesh has changed.           *)
Connect ==
  /\ At("connect")
  /\ Performs(PreOversetConnWork \o PostOversetConnWork(c) \o
              RegisterSolution(FALSE, c) \o UpdateSolution(FALSE, c))
  /\ Goto(IF did \in {"equations"} THEN "integration" ELSE "compute dt")
  /\ Same

(* prepare_for_time_integration; nothing of it is done in a restart.       *)
PrepareForTimeIntegration ==
  Stage("integration",
        If(n = 0 /\ c.initial_iterations > 0, PrepareBoundaries(c)),
        IF n > 0 THEN "loop"
        ELSE IF c.initial_projection THEN "initial projection" ELSE "initial iterations")

InitialProjection ==
  Stage("initial projection",
        ApplyProjection("now", FALSE, c) \o << SetVal("zero", States({"p", "gp"}, "New")) >>,
        "initial iterations")

SaveOld(f) == << CopyState(f, "Old", "New") >> \o FillPatch(Old(f), "now", c)

OldFromNew ==
  SaveOld("velocity") \o If(ConstantDensity(c), SaveOld("density")) \o
  AllScalars(c, LAMBDA f : SaveOld(f))

(* "infer that pressure has been initialized": an initial projection leaves *)
(* it zero.                                                                *)
PressureIsSet == New("p") \in DOMAIN data /\ ~c.initial_projection

(* InitialIterations: the mean pressure is taken out for the iterations.   *)
StartIterations ==
  /\ At("initial iterations")
  /\ IF c.initial_iterations = 0
     THEN data' = data /\ used' = {} /\ Goto("loop") /\ UNCHANGED starting
     ELSE /\ Performs(ComputeDt(c) \o OldFromNew \o
                      If("reference_pressure" \in c.extra /\ PressureIsSet,
                         << Update("subtract p0", New("p"), New("reference_pressure")) >>))
          /\ Goto("properties") /\ starting' = TRUE
  /\ it' = 0
  /\ UNCHANGED << c, k, n, t, saved >>

\* Mutant: the fields are not taken back after an iteration.
NewFromOld_VelocityOnly == << CopyState("velocity", "New", "Old") >>

NewFromOld ==
  << CopyState("velocity", "New", "Old") >> \o
  If(ConstantDensity(c), << CopyState("density", "New", "Old") >>) \o
  AllScalars(c, LAMBDA f : << CopyState(f, "New", "Old") >>)

(* The end of an initial iteration: only the pressure is kept of it.  After *)
(* the last one the mean pressure is added.                                *)
TakeBack ==
  /\ At("take back")
  /\ Performs(NewFromOld \o If(it + 1 >= c.initial_iterations, AddReferencePressure(c)))
  /\ it' = IF it + 1 < c.initial_iterations THEN it + 1 ELSE 0
  /\ starting' = (it + 1 < c.initial_iterations)
  /\ Goto(IF it + 1 < c.initial_iterations THEN "properties" ELSE "loop")
  /\ UNCHANGED << c, k, n, t, saved >>

-----------------------------------------------------------------------------
(* The beginning of a step *)

(* SimTime::new_timestep *)
NewTimestep ==
  /\ At("loop") /\ n < MaxSteps
  /\ t' = [t EXCEPT !.cur = t.new]
  /\ Goto("mesh changes?") /\ data' = data /\ used' = {}
  /\ UNCHANGED << c, k, it, starting, n, saved >>

AfterRegrid == IF c.prescribed THEN "pre advance" ELSE "compute dt"

KeepMesh == Stage("mesh changes?", << >>, AfterRegrid)

(* remake_level: the fields that are filled are interpolated from the old  *)
(* mesh, where the inflow boundary has its targets.                        *)
Remake ==
  ForEach(<< "velocity", "density", "gp" >> \o c.scalars, LAMBDA f : FillPatch(New(f), "now", c))

(* regrid_and_update: the mesh, the masks and the ghost cells.             *)
Regrid ==
  /\ At("mesh changes?") /\ c.regrid
  /\ Goto("regridded") /\ Same
  /\ LET before == Perform(data, TagCells(c) \o Remake, t)
         after == Perform(Restricted(before.data, FilledOnRegrid \cup OnHost(data)),
                          SetMasks \o FillpatchStateFields("now", c), t)
     IN data' = after.data /\ used' = before.used \cup after.used

(* regrid_and_update: equations, physics and post-processing.              *)
Regridded ==
  Stage("regridded",
        EquationPostRegrid("velocity", c) \o
        AllScalars(c, LAMBDA f : EquationPostRegrid(f, c)) \o
        PhysicsPostRegrid \o PostRegridOutputs(c),
        IF c.overset THEN "connect" ELSE AfterRegrid)

(* compute_dt or compute_prescribe_dt, and advance_time *)
StartStep ==
  /\ At("compute dt")
  /\ Performs(IF c.prescribed THEN ComputePrescribeDt(c) ELSE ComputeDt(c))
  /\ t' = [t EXCEPT !.new = t.cur + t.dt]
  /\ it' = 0
  /\ Goto(IF c.prescribed THEN "iteration" ELSE "pre advance")
  /\ UNCHANGED << c, k, starting, n, saved >>

(* pre_advance_stage2; with a prescribed velocity before advance_time.     *)
PreAdvance ==
  Stage("pre advance",
        AllPhysics(c, LAMBDA p : PreAdvanceOf(p, "half", FLLC, c)) \o
        PlanesPreAdvance(c) \o MPLPreAdvance(c) \o RecvMessages(c),
        IF c.prescribed THEN "compute dt" ELSE "iteration")

-----------------------------------------------------------------------------
(* do_advance *)

PrepareTimeStep ==
  AdvanceAllStates(c) \o PrepareBoundaries(c) \o
  AllPhysics(c, LAMBDA p : PrePredictorOf(p, c)) \o PlanesPrePredictor(c)

(* The exchange with the other solver, OversetOps, and in the first        *)
(* fixed-point iteration prepare_time_step.                                *)
StartIteration ==
  Stage("iteration",
        If(c.overset, RegisterSolution(it > 0, c) \o UpdateSolution(it > 0, c) \o
                      OversetPreAdvance(c)) \o
        If(it = 0, PrepareTimeStep),
        IF c.prescribed /\ it = 0 THEN "prescribe properties" ELSE "properties")

\* The fixed-point iteration of a predictor: those of the start count as the first.
Iteration == IF starting THEN 0 ELSE it

Properties ==
  Stage("properties",
        If(Iteration > 0, RefreshHalfTimeVelocity(c)) \o TurbulentProperties("Old", c), "sources")

SourcesOfOldState == Stage("sources", OldSources(c), "diffusion")

DiffusionOfOldState == Stage("diffusion", OldDiffusion(c), "pre advection")

\* The targets of the waves are ahead of the half time, except at the start.
FaceVelocities == Stage("pre advection", PreAdvection(Iteration, ~starting, c), "scalars")

ScalarEquations == EachScalar("scalars", AdvanceScalar(c.scalars[k], c), "momentum")

Momentum == Stage("momentum", AdvanceMomentum(Iteration, c), "projection")

(* In the initial iterations the projection is incremental.                *)
Projection ==
  Stage("projection", ApplyProjection("new", starting, c),
        IF starting THEN "take back"
        ELSE IF Godunov(c) THEN "iteration done" ELSE "corrector advection")

CorrectAdvection == Stage("corrector advection", CorrectorAdvection(c), "corrector properties")

CorrectProperties == Stage("corrector properties", CorrectorProperties(c), "corrector scalars")

CorrectScalars ==
  EachScalar("corrector scalars", CorrectScalar(c.scalars[k], c), "corrector momentum")

CorrectVelocity == Stage("corrector momentum", CorrectMomentum(c), "corrector projection")

CorrectProjection ==
  Stage("corrector projection", ApplyProjection("new", FALSE, c), "iteration done")

Prescribe ==
  Stage("prescribe properties", PrescribeProperties(c) \o PrescribeAdvection(c),
        "prescribe scalars")

PrescribeScalars ==
  EachScalar("prescribe scalars", PrescribeScalar(c.scalars[k], c), "prescribe momentum")

PrescribeVelocity == Stage("prescribe momentum", PrescribeMomentum(c), "iteration done")

(* The loop of Evolve over do_advance *)
NextIteration ==
  /\ At("iteration done")
  /\ Performs(If(c.overset, OversetPostAdvance(c)))
  /\ it' = it + 1
  /\ Goto(IF it + 1 < c.fixed_point THEN "iteration" ELSE "post advance")
  /\ UNCHANGED << c, k, starting, n, t, saved >>

-----------------------------------------------------------------------------
(* The end of a step *)

PostAdvance ==
  Stage("post advance",
        TurbulencePostAdvance(c) \o AllPhysics(c, LAMBDA p : PostAdvanceOf(p, n + 1, c)) \o
        PlanesPostAdvance(c),
        "outputs")

(* The post-processing, and a checkpoint when it is due. *)
WriteOutputs ==
  /\ At("outputs")
  /\ Performs(PostAdvanceOutputs(c))
  /\ n' = n + 1 /\ it' = 0
  /\ saved' \in {saved, [data |-> Restricted(data, Checkpointed), n |-> n + 1]}
  /\ Goto("loop")
  /\ UNCHANGED << c, k, starting, t >>

(* The run ends between two steps, and another one starts from its files.  *)
Restart ==
  /\ At("loop") /\ n = MaxSteps - 1 /\ saved # None /\ c.restarted
  /\ data' = << >> /\ used' = {}
  /\ k' = 1 /\ it' = 0 /\ starting' = FALSE
  /\ n' = saved.n
  /\ t' = [cur |-> 2 * saved.n, new |-> 2 * saved.n, dt |-> 2]
  /\ saved' = saved
  /\ Goto("restart") /\ UNCHANGED c

Finished == stage = "loop" /\ n = MaxSteps /\ UNCHANGED vars

Start ==
  \/ InitMesh \/ ReadCheckpointFile \/ RestartMesh \/ InitModules \/ InitEquations
  \/ Connect \/ PrepareForTimeIntegration \/ InitialProjection \/ StartIterations \/ TakeBack

Predictor ==
  \/ Properties \/ SourcesOfOldState \/ DiffusionOfOldState \/ FaceVelocities
  \/ ScalarEquations \/ Momentum \/ Projection

Corrector ==
  \/ CorrectAdvection \/ CorrectProperties \/ CorrectScalars \/ CorrectVelocity
  \/ CorrectProjection

Prescribed == Prescribe \/ PrescribeScalars \/ PrescribeVelocity

Step ==
  \/ NewTimestep \/ KeepMesh \/ Regrid \/ Regridded \/ StartStep \/ PreAdvance
  \/ StartIteration \/ Predictor \/ Corrector \/ Prescribed \/ NextIteration
  \/ PostAdvance \/ WriteOutputs

Next == Start \/ Step \/ Restart \/ Finished

Spec == Init /\ [][Next]_vars

-----------------------------------------------------------------------------
(* Properties.  InStep: the states have been advanced for the step, or for *)
(* an initial iteration, that is under way.                                *)

Setup == {"mesh", "restart", "restart mesh", "modules"}

BetweenSteps ==
  Setup \cup {"equations", "connect", "integration", "initial projection", "initial iterations",
              "loop", "mesh changes?", "regridded", "pre advance", "compute dt"}

InStep == IF stage = "iteration" THEN it > 0 ELSE stage \notin BetweenSteps

(* A velocity that is prescribed is a function of current_time, and what   *)
(* ActuatorSourceTagging marks depends on forces of the old time.          *)
Lagging ==
  IfThere(c.prescribed, {New("velocity"), Old("velocity"), NPH("velocity"), Conv("velocity", "New"),
                         Src("velocity")}) \cup
  IfThere(Has("ActuatorSourceTagging", c),
          {<< "passive_scalar", s >> : s \in {"New", "Old", "NPH", "src", "diff", "conv"}})

Evolved == {f \in Solved : New(f) \notin Lagging}

(* What is read as zero, because nobody has written it since the mesh was  *)
(* made.  The code relies on some of it; the rest are its known gaps:      *)
(*  - the time step after a start or a regrid is chosen without forces,    *)
(*    and without viscosity;                                               *)
(*  - a start has no pressure, and overset meshes lose it in a regrid;     *)
(*  - wave targets on new levels are zero until the next pre-advance, and  *)
(*    so is the terrain that is made of them; damping is never set there;  *)
(*  - the detached-eddy model has no buoyancy;                             *)
(*  - the immersed boundary loses its level set in a regrid (IB.cpp:69),   *)
(*    and the cavity its forcing (BurggrafFlow.H:61);                      *)
(*  - tke is clipped before the terrain is there again;                    *)
(*  - the half-time density is averaged before Old is set: it is set again *)
(*    before it is used;                                                   *)
(*  - a prescribed step has no sources, and no diffusion, of the velocity; *)
(*  - a regrid fills the boundaries before the terrain is there again;     *)
(*  - with inflow-outflow faces the first projection also asks the wall    *)
(*    model, which has no old velocity and no viscosity yet;               *)
(*  - the transition layer of a direct mesoscale forcing is never read     *)
(*    from the input.                                                      *)
KnownZeros ==
  IfThere(did = "initial projection", {"ABLVelWallFunc"} \X {Old("velocity"), Mueff("velocity")}) \cup
  ({"compute_dt"} \X {Src("velocity"), Mueff("velocity")}) \cup
  {<< "mueff_plane", Mueff("velocity") >>} \cup
  IfThere(~Indirect(c), {"constant_forcing_transition"} \X {Heights("meso_mom"), Heights("meso_temp")}) \cup
  IfThere(n = 0 \/ c.prescribed,
          {"add pressure gradient", "pressure gradient", "fillpatch", "update_gradp"} \X {New("gp")}) \cup
  IfThere(c.overset, {"overset solution", "register_solution", "update_gradp"} \X {New("p")}) \cup
  IfThere(stage # "iteration", {"wave inflow", "waves to terrain"} \X
          States({"ow_velocity", "ow_vof", "ow_levelset"}, "New")) \cup
  IfThere(c.turbulence = "KOmegaSSTIDDES", {<< "KwSSTSrc", New("buoyancy_term") >>}) \cup
  IfThere(WavesAsTerrain(c), {<< "DragForcing", New("terrain_damping") >>}) \cup
  {<< "BurggrafFlowForcing", New("bf_src_term") >>} \cup
  ({"apply_dirichlet_vel", "ib_normal"} \X States({"ib_levelset", "ib_normal"}, "New")) \cup
  IfThere(did \in {"mesh changes?", "regridded"}, {<< "plane gate", New("terrain_blank") >>}) \cup
  {<< "clip tke", New("terrain_blank") >>, << "lincomb", Old("density") >>} \cup
  IfThere(c.prescribed, {"advection", "hybrid_fluxes", "predictor_rhs"} \X
          {Src("velocity"), Diff("velocity", "New")})

(* Nothing is computed from a field that was zeroed with the mesh, or that *)
(* a checkpoint does not have, except for the known cases: every other     *)
(* field has been written before any kernel reads it, after a start, a     *)
(* regrid and a restart alike (FieldRepo::make_new_level_from_scratch,     *)
(* remake_level and the hooks that fill in what they do not).              *)
ReadsAreSet == \A u \in used : u.label = Unset => << u.op, u.slot >> \in KnownZeros

(* Nothing is computed from a field that still has the contents of an      *)
(* earlier step, except the time step, which is chosen with the forces and *)
(* the viscosity of the last one (compute_dt), and what the actuators and  *)
(* their controller take from the last step on purpose.                    *)
OfTheLastStep == {"compute_dt", "mueff_plane", "yaw", "target wind", "fllc forces", "fllc buffer"}

ReadsAreCurrent ==
  \A u \in used :
    u.label < t.cur /\ u.label # Unset =>
      u.op \in OfTheLastStep \/ u.slot \in Lagging

(* When the momentum equation is advanced, the half-time states of the     *)
(* scalars are the mean of both ends of the step, and from the second      *)
(* fixed-point iteration on that of the velocity too: this is what makes   *)
(* the scheme second order (ApplyPredictor, ApplyCorrector).  A density    *)
(* from the level set has no half-time state of its own.                   *)
Centred ==
  {NPH(f) : f \in Evolved \ {"velocity"}} \cup
  IfThere(c.interface = "VOF", {NPH("density")}) \cup
  IfThere(it > 0 /\ ~starting, {NPH("velocity")})

HalfTimeIsCentred ==
  did \in {"momentum", "corrector momentum"} =>
    \A u \in used : u.slot \in Centred => u.label = 2 * n + 1

(* The first diffusion term of a step is that of the old state, although   *)
(* the operator is applied to the New field, which a fixed-point iteration *)
(* or an initial iteration has already moved (ApplyPredictor copies Old to *)
(* New before).                                                            *)
DiffusionOfStart ==
  did \in {"diffusion", "prescribe properties"} =>
    \A u \in used : u.op = "diffusion" /\ u.slot \in States(Evolved, "New") => u.label = t.cur

(* Ghost cells are filled for the time their field has, on the mesh and at *)
(* the boundaries that depend on time, and other solvers get them for that *)
(* time.  Not so in the initial iterations, which do not move the clock,   *)
(* and for a volume fraction between two sweeps.                           *)
Fills == {"fillpatch", "wave inflow", "plane inflow", "nodal inflow", "register_solution", "update_solution",
          "abl statistics"}

FilledAtTheirTime ==
  ~starting =>
    \A u \in used :
      u.op \in Fills /\ u.slot \notin Lagging \cup {NPH("vof")} => u.label \in {u.at, Static, Unset}

(* Statistics and post-processing see one time only: that of the step that *)
(* is complete.  The forces, surface fluxes and diffusivities that are     *)
(* written are those the step was made with; the energy budget is that of  *)
(* a step.                                                                 *)
OfTheStep(s) ==
  OnActuator(s) \/ s[2] = "mueff" \/ s = New("actuator_src_term") \/
  s \in Hosts({"m_mo", "abl_forcing", "meso_mom", "meso_temp", "mueff_plane", "sfs_stress", "tsfs_stress"})

OutputsOfNewTime ==
  did \in {"post advance", "outputs"} =>
    \A u \in used :
      \/ u.label \in {t.new, Static}
      \/ u.slot \in Lagging \/ OfTheStep(u.slot) \/ u.op = "tke budget"

(* What the hooks of a new mesh set again: density, which an anelastic     *)
(* boundary layer takes from its reference profile (ABLAnelastic.cpp:84)   *)
(* and two fluids from the volume fraction or the level set; and the flow  *)
(* in a channel that is built (ChannelBuilder).                            *)
DensityFollows == \E i \in DOMAIN c.scalars : c.scalars[i] \in {"vof", "levelset"}

BuiltFields == {"velocity", "density", "levelset"}

SetOnNewMesh ==
  IfThere("anelastic" \in c.extra \/ DensityFollows, {"density"}) \cup
  IfThere(Has("ChannelBuilder", c), BuiltFields)

State == Solved \cup {"density", "gp"}

KeptFields == State \ SetOnNewMesh

NewMeshStages == {"mesh changes?", "regridded", "restart mesh"}

Keeps(fields) == \A f \in fields : Get(data', New(f)) = Get(data, New(f))

(* A new mesh changes nothing of the solution but what its hooks set       *)
(* again: every other field that is solved for, density and the pressure   *)
(* gradient keep their time through remake_level and all that is done      *)
(* after it, in a regrid and in a restart ("If regrid happened, call post  *)
(* regrid actions", incflo.cpp:112).                                       *)
RegridKeepsState == [][did' \in NewMeshStages => Keeps(KeptFields)]_vars

(* Nor is any of it set again.  Not so: the density that an anelastic run  *)
(* has evolved is replaced in a regrid, and a restart always calls the     *)
(* hooks of a regrid, of which ChannelBuilder's start the flow again.      *)
HooksKeepState == [][did' \in NewMeshStages => Keeps(State)]_vars

(* On the faces of an inflow, the values for the advection are those of    *)
(* the half time: "ow values at nph time for advection boundaries"         *)
(* (OceanWavesBoundary.cpp:63).  They are read after pre_predictor_work    *)
(* has moved the targets on to the new time.                               *)
MacInflowIsCentred ==
  \A u \in used : u.op \in {"mac inflow", "mac ghosts"} => u.label \in {u.at, Static}

(* The run implements Integrator.  It promises nothing of the density of   *)
(* an anelastic run, which is advanced within a step but replaced with the *)
(* mesh.  Fields that a configuration does not have, that lag, or that     *)
(* nothing is promised of go with one that it solves for.                  *)
AllFields == {"velocity"} \cup UNION {{cfg.scalars[i] : i \in DOMAIN cfg.scalars} : cfg \in Configs}

Promised == Evolved \ IfThere("anelastic" \in c.extra, {"density"})

TimeOfField(f, st) ==
  LET own == IF f \in Promised THEN f ELSE IF c.prescribed THEN "vof" ELSE "velocity"
  IN IF stage \in Setup THEN 2 * n ELSE Get(data, << own, st >>)

Abstract ==
  INSTANCE Integrator WITH
    Fields <- AllFields, busy <- InStep,
    new <- [f \in AllFields |-> TimeOfField(f, "New")],
    old <- [f \in AllFields |-> TimeOfField(f, "Old")]

(* Every start, regrid, step, fixed-point iteration and restart moves the  *)
(* states as the abstract integrator allows.                               *)
Integrates == Abstract!Spec

=============================================================================
