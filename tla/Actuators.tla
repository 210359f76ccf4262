------------------------------ MODULE Actuators ------------------------------
(***************************************************************************)
(* The actuators of a run (c.actuators, the names of their models): before *)
(* each step they sample the flow at their points, compute forces, and     *)
(* spread these over the cells around them as a source of momentum.  A     *)
(* model is the operations of ActModel: positions, velocities, forces,     *)
(* source, outputs.  The data of an actuator is on the host; the time of   *)
(* its points matters where they move.                                     *)
(***************************************************************************)
EXTENDS Waves

Act(a, what) == << a, what >>

Disks == {"UniformCtDisk", "JoukowskyDisk"}
Wings == {"FixedWingLine", "FlatPlateLine"}
External == {"TurbineFastLine", "TurbineFastDisk", "TurbineKynemaFMBLine"}

(* The points of a wing are two states: where it is, and where it was.     *)
ActuatorSlots == {"vel_pos", "sampled", "meta", "force", "fllc", "row", "output"}

OnActuator(s) == s[2] \in ActuatorSlots \/ s[1] \in Wings

Helics(c) == "helics" \in c.extra

-----------------------------------------------------------------------------
(* ActuatorContainer: particles carry the points to the ranks that have    *)
(* the cells around them, and the samples back.                            *)

Particles == Host("particles")

InitializeContainer == << Kernel("initialize_container", {}, {Host("actuator_data")}, "zero") >>

InitializeParticles == << Kernel("initialize_particles", {}, {Particles}, "zero") >>

ResetContainer == << Kernel("reset_container", {}, {Particles}, "zero") >> \o InitializeParticles

SetupContainer == InitializeContainer \o InitializeParticles

ScatterActuatorPoints(c) ==
  << Compute("scatter", {Act(c.actuators[i], "vel_pos") : i \in DOMAIN c.actuators}, {Particles}) >>

InterpolateAtActuators ==
  << Compute("interpolate_fields", {New("velocity"), New("density"), Particles},
             {Host("particle_values")}) >>

PopulateFieldBuffers(c) ==
  << Compute("populate_field_buffers", {Host("particle_values")},
             {Act(c.actuators[i], "sampled") : i \in DOMAIN c.actuators}) >>

ActuatorSampleFields(c) == InterpolateAtActuators \o PopulateFieldBuffers(c)

-----------------------------------------------------------------------------
(* The filtered lifting line correction: it takes the velocity that the    *)
(* blade induces out of the samples, from the forces of the step before.   *)

FLLCInit(a, fllc) ==
  If(fllc.due, << Kernel("fllc_init", {}, {Act(a, "fllc")}, "static") >>)

ConstantChord(a) ==
  << Compute("fllc constant chord", {Act(a, "sampled"), Act(a, "fllc")}, {Act(a, "sampled")}) >>

VariableChord(a) ==
  << Compute("fllc variable chord", {Act(a, "sampled"), Act(a, "fllc")}, {Act(a, "sampled")}) >>

(* The correction starts when its data has been initialized, at the end of *)
(* the forces of a step that starts after fllc_start_time.  fllc is        *)
(* whether this step does that, and whether an earlier one has.            *)
NoFLLC == [due |-> FALSE, on |-> FALSE]

FLLCCorrect(a, fllc) ==
  If(fllc.on,
     << Look("fllc forces", {Act(a, "force")}) >> \o
     (IF a \in Wings THEN ConstantChord(a) ELSE VariableChord(a)))

-----------------------------------------------------------------------------
(* Disks *)

(* Points around the centre for one axis: upstream, and on the disk. *)
ComputeDiskPoints(a) ==
  << Compute("disk points", {Act(a, "meta")}, {Act(a, "vel_pos")}) >>

UniformDiskPoints(a) ==
  << Compute("force points", {Act(a, "meta")}, {Act(a, "output")}) >> \o ComputeDiskPoints(a)

JoukowskyDiskPoints(a) ==
  << Compute("force points", {Act(a, "meta")}, {Act(a, "output")}) >> \o ComputeDiskPoints(a)

DiskParameters(a) == << Kernel("disk parameters", {}, {Act(a, "meta")}, "static") >>

UniformCtInit(a) == DiskParameters(a) \o UniformDiskPoints(a)

(* The tip correction is a function of the wind, the root correction not. *)
JoukowskyInit(a) == DiskParameters(a) \o JoukowskyDiskPoints(a)

(* With a controller the disk is turned to the yaw of its last message,    *)
(* which is that of the step before.                                       *)
UniformCtUpdatePos(a, c) ==
  If(Helics(c),
     << Look("yaw", {Host("yaw")}) >> \o UniformDiskPoints(a))

JoukowskyUpdatePos(a, c) ==
  If(Helics(c),
     << Look("yaw", {Host("yaw")}) >> \o JoukowskyDiskPoints(a))

(* Weighted means of the samples: upstream for the reference velocity, on  *)
(* the disk for the others.                                                *)
DiskUpdateVel(a) ==
  << Compute("disk averages", {Act(a, "sampled")}, {Act(a, "row")}) >>

(* What the controller is told: power and wind direction. *)
ToController(a, c) ==
  If(Helics(c), << Compute("power", {Act(a, "row")}, {Host("power")}) >>)

UniformCtForce(a, c) ==
  << Compute("uniform ct force", {Act(a, "row"), Act(a, "meta")}, {Act(a, "force")}) >> \o
  ToController(a, c)

(* The active wake control turns with current_time. *)
JoukowskyForce(a, c) ==
  << Kernel("joukowsky clock", {Act(a, "row")}, {}, "now"),
     Compute("joukowsky force", {Act(a, "row"), Act(a, "meta")}, {Act(a, "force")}) >> \o
  ToController(a, c)

SpreadUniformGaussian(a) == Look("uniform gaussian", {Act(a, "force"), Act(a, "output")})

SpreadLinearBasis(a) == Look("linear basis", {Act(a, "force"), Act(a, "output")})

SpreadLinearBasisInTheta(a) == Look("linear basis in theta", {Act(a, "force"), Act(a, "output")})

SpreadDisk(a) ==
  << CASE a = "UniformCtDisk" -> SpreadUniformGaussian(a)
       [] a = "JoukowskyDisk" -> SpreadLinearBasisInTheta(a),
     Compute("spread", {Act(a, "force"), New("actuator_src_term")}, {New("actuator_src_term")}) >>

DiskOutput(a) == << Look("disk output", {Act(a, "row"), Act(a, "force"), Act(a, "vel_pos")}) >>

JoukowskyOutput(a) ==
  << Look("joukowsky output", {Act(a, "row"), Act(a, "force"), Act(a, "vel_pos")}) >>

-----------------------------------------------------------------------------
(* Wings, which may move.  Their first points are those of the input file, *)
(* also in a restart.                                                      *)

Moving(c) == c.motion # "none"

WingInit(a, c) ==
  << Kernel("wing points", {}, {New(a)}, IF Moving(c) THEN "start" ELSE "static"),
     Kernel("wing", {}, {Act(a, "meta")}, "static") >>

FixedWingInit(a, c) == WingInit(a, c) \o << Look("airfoil", {Act(a, "meta")}) >>

FlatPlateInit(a, c) == WingInit(a, c)

LoadAirfoil(a) == << Kernel("airfoil table", {}, {Act(a, "meta")}, "static") >>

RefreshWingPosition(a) ==
  << CopyState(a, "Old", "New"), Compute("wing position", {New(a)}, {Act(a, "vel_pos")}) >>

(* "Put wing at current (time n) position from force points" *)
WingUpdatePos(a) == RefreshWingPosition(a)

WingUpdateVel(a, fllc) == FLLCCorrect(a, fllc)

(* "Get displacement of points from n to n+1": nothing at a start, where   *)
(* both times are the same.                                                *)
NewWingPosition(a, moving) ==
  << IF moving THEN Kernel("move wing", {}, {New(a)}, "next")
     ELSE Compute("move wing", {New(a)}, {New(a)}) >>

(* The pitch is taken from its table for the half time. *)
WingForce(a, moving, fllc) ==
  NewWingPosition(a, moving) \o
  << Look("pitch", {Act(a, "meta")}),
     Compute("wing force", {Act(a, "sampled"), Act(a, "meta")}, {Act(a, "force")}) >> \o
  FLLCInit(a, fllc)

CopyWingToDevice(a) == << Look("wing to device", {New(a), Old(a), Act(a, "force")}) >>

(* The force is spread around the mean of both positions, "n+1/2". *)
SpreadWing(a) ==
  CopyWingToDevice(a) \o
  << Kernel("wing midpoint", {Old(a), New(a)}, {NPH(a)}, "mean"),
     Compute("spread", {Act(a, "force"), New("actuator_src_term")}, {New("actuator_src_term")}) >>

WingOutput(a) == << Look("wing output", {New(a), Act(a, "force"), Act(a, "sampled")}) >>

-----------------------------------------------------------------------------
(* Turbines of another solver.  Their steps are in Turbine; here they turn *)
(* the samples of the start of the step into points and forces of its end. *)

BuildTurbine(a) == << Kernel("build turbine", {}, {Act(a, "meta")}, "static") >>

BuildAero(a) == << Kernel("build aerodynamics", {}, {Act(a, "meta")}, "static") >>

MakeComponentViews(a) == << Look("component views", {Act(a, "meta")}) >>

InitEpsilon(a) == << Compute("init_epsilon", {Act(a, "meta")}, {Act(a, "output")}) >>

ExternalInit(a, c) ==
  If(a = "TurbineKynemaFMBLine", BuildTurbine(a) \o BuildAero(a)) \o
  If(a # "TurbineKynemaFMBLine", << Kernel("init turbine", {}, {Act(a, "meta")}, "static") >>) \o
  MakeComponentViews(a) \o InitEpsilon(a)

ExternalUpdatePos(a) ==
  << Compute("velocity points", {Act(a, "meta")}, {Act(a, "vel_pos")}) >>

(* The correction works on what the turbine has in its buffer, before the  *)
(* samples of this step are copied there.                                  *)
ExternalUpdateVel(a, fllc) ==
  If(fllc.on,
     << Look("fllc buffer", {Act(a, "row"), Act(a, "force")}) >>) \o
  << Compute("pass velocity", {Act(a, "sampled")}, {Act(a, "row")}) >>

ComputeNacelleForce(a) ==
  << Compute("nacelle force", {Act(a, "row"), Act(a, "meta")}, {Act(a, "output")}) >>

PassFluidVelocity(a) ==
  << Look("inflow of the loads", {Act(a, "row"), Act(a, "meta")}) >>

PopulateBuffers(a) == << Look("populate_buffers", {Act(a, "force"), Act(a, "meta")}) >>

ExtStep(a) ==
  If(a = "TurbineKynemaFMBLine", PassFluidVelocity(a)) \o
  << Compute("advance_turbine", {Act(a, "row"), Act(a, "meta")}, {Act(a, "force")}) >> \o
  If(a = "TurbineKynemaFMBLine", PopulateBuffers(a)) \o ComputeNacelleForce(a)

(* The ranks that the turbine touches get its points and its forces.       *)
ScatterData(a) ==
  << Compute("scatter_data", {Act(a, "force"), Act(a, "output")}, {Act(a, "output")}) >>

ExternalForce(a, fllc) == ExtStep(a) \o ScatterData(a) \o FLLCInit(a, fllc)

SpreadTurbineDisk(a) ==
  << Look("disk forces", {Act(a, "force"), Act(a, "output")}),
     Compute("spread", {Act(a, "force"), New("actuator_src_term")}, {New("actuator_src_term")}) >>

SpreadLine(a) ==
  << Compute("spread", {Act(a, "force"), New("actuator_src_term")}, {New("actuator_src_term")}) >>

ExternalOutput(a) == << Look("turbine output", {Act(a, "row"), Act(a, "force")}) >>

-----------------------------------------------------------------------------
(* The operations of one actuator *)

InitDataOf(a, c) ==
  CASE a = "UniformCtDisk" -> UniformCtInit(a)
    [] a = "JoukowskyDisk" -> JoukowskyInit(a)
    [] a = "FixedWingLine" -> LoadAirfoil(a) \o FixedWingInit(a, c)
    [] a = "FlatPlateLine" -> FlatPlateInit(a, c)
    [] a \in External -> ExternalInit(a, c)

UpdatePositionsOf(a, c) ==
  CASE a = "UniformCtDisk" -> UniformCtUpdatePos(a, c)
    [] a = "JoukowskyDisk" -> JoukowskyUpdatePos(a, c)
    [] a \in Wings -> WingUpdatePos(a)
    [] a \in External -> ExternalUpdatePos(a)

UpdateFieldsOf(a, fllc) ==
  CASE a \in Disks -> DiskUpdateVel(a)
    [] a \in Wings -> WingUpdateVel(a, fllc)
    [] a \in External -> ExternalUpdateVel(a, fllc)

ComputeForcesOf(a, moving, fllc, c) ==
  CASE a = "UniformCtDisk" -> UniformCtForce(a, c)
    [] a = "JoukowskyDisk" -> JoukowskyForce(a, c)
    [] a \in Wings -> WingForce(a, moving /\ Moving(c), fllc)
    [] a \in External -> ExternalForce(a, fllc)

SourceTermOf(a) ==
  CASE a \in Disks -> SpreadDisk(a)
    [] a \in Wings -> SpreadWing(a)
    [] a = "TurbineFastDisk" -> SpreadTurbineDisk(a)
    [] OTHER -> SpreadLine(a)

OutputOf(a) ==
  CASE a = "UniformCtDisk" -> DiskOutput(a)
    [] a = "JoukowskyDisk" -> JoukowskyOutput(a)
    [] a \in Wings -> WingOutput(a)
    [] a \in External -> ExternalOutput(a)

-----------------------------------------------------------------------------
(* The physics Actuator *)

UpdatePositions(c) ==
  ForEach(c.actuators, LAMBDA a : UpdatePositionsOf(a, c)) \o ScatterActuatorPoints(c) \o
  ActuatorSampleFields(c)

UpdateVelocities(fllc, c) == ForEach(c.actuators, LAMBDA a : UpdateFieldsOf(a, fllc))

ComputeForces(moving, fllc, c) ==
  ForEach(c.actuators, LAMBDA a : ComputeForcesOf(a, moving, fllc, c))

ActuatorSourceTerm(c) ==
  << SetVal("reset source", {New("actuator_src_term")}) >> \o ForEach(c.actuators, SourceTermOf)

CommunicateTurbineIO(c) == If(Helics(c), << Look("send power", {Host("power")}) >>)

PrepareOutputs(c) == << Look("prepare_outputs", {Act(c.actuators[1], "meta")}) >>

ActuatorPostInit(fllc, c) ==
  ForEach(c.actuators, LAMBDA a : InitDataOf(a, c)) \o SetupContainer \o
  UpdatePositions(c) \o UpdateVelocities(fllc, c) \o ComputeForces(FALSE, fllc, c) \o
  ActuatorSourceTerm(c) \o PrepareOutputs(c)

ActuatorPostRegrid == SetupContainer

\* Mutant: the forces are kept from the step before.
ActuatorPreAdvance_NoSource(fllc, c) ==
  ResetContainer \o UpdatePositions(c) \o UpdateVelocities(fllc, c) \o
  ComputeForces(TRUE, fllc, c)

ActuatorPreAdvance(fllc, c) ==
  ResetContainer \o UpdatePositions(c) \o UpdateVelocities(fllc, c) \o
  ComputeForces(TRUE, fllc, c) \o ActuatorSourceTerm(c) \o CommunicateTurbineIO(c)

ActuatorPostAdvance(c) == ForEach(c.actuators, OutputOf)

(* The controller: helics.pre_advance_work, after the physics.  Its answer *)
(* of this step is the yaw, and the wind of the inflow, of the next one.   *)
RecvMessages(c) ==
  If(Helics(c), << Kernel("recv messages", {}, {Host("yaw"), Host("wind")}, "now") >>)

HelicsInit(c) == If(Helics(c), << Kernel("helics", {}, {Host("yaw"), Host("wind")}, "static") >>)

=============================================================================
