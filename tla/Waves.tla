------------------------------- MODULE Waves -------------------------------
(***************************************************************************)
(* Ocean waves: the target fields of the wave model, the relaxation zones  *)
(* that pull the solution towards them, and the inflow boundary that takes *)
(* its values from them.  c.waves is the wave model ("none" without).      *)
(***************************************************************************)
EXTENDS Inflow

(* MultiPhase is active, with either way to tell the fluids apart. *)
MultiphaseMode(c) == c.interface # "none"

WaveTargets == States({"ow_levelset", "ow_velocity"}, "New")

-----------------------------------------------------------------------------
(* The wave models *)

InitWaves(c) ==
  << Initial("init_waves", {"velocity"} \cup IF MultiphaseMode(c) THEN {"levelset"} ELSE {}) >>

LinearWaves(given) == << Kernel("LinearWaves", {}, WaveTargets, given) >>

StokesWaves(given) == << Kernel("StokesWaves", {}, WaveTargets, given) >>

UpdateTarget(given, c) ==
  CASE c.waves = "LinearWaves" -> LinearWaves(given)
    [] c.waves = "StokesWaves" -> StokesWaves(given)

(* update_target_vof: the volume fraction of the target level set. *)
UpdateTargetVOF == << Compute("update_target_vof", {New("ow_levelset")}, {New("ow_vof")}) >>

(* With an outlet the targets behind the beach are still water. *)
ModifyForBeach == << Compute("modify_for_beach", WaveTargets, WaveTargets) >>

UpdateTargetFields(given, c) ==
  UpdateTarget(given, c) \o If(c.beach /\ HasVOF(c), ModifyForBeach) \o UpdateTargetVOF

Relaxed == States({"vof", "velocity", "density"}, "New")

(* Inside the zones the solution is blended with the targets, except next  *)
(* to terrain.                                                             *)
ApplyRelaxationZones(c) ==
  << Compute("relaxation zones",
             Relaxed \cup States({"ow_vof", "ow_velocity"}, "New") \cup
             Terrain(c, {"terrain_blank", "terrain_drag"}), Relaxed) >>

-----------------------------------------------------------------------------
(* The inflow boundary.  Fields with a fill operation of the waves take    *)
(* the ghost cells of inflow faces from the targets, whatever time they    *)
(* are filled for.                                                         *)

TargetOfVelocity(c) ==
  States({"ow_vof", "ow_velocity"}, "New") \cup
  IfThere(HasVOF(c), Terrain(c, {"terrain_blank"}))

TargetOfVOF == {New("ow_vof")}

TargetOfDensity == {New("ow_vof")}

(* register_fill_patch_op, in post_init_actions *)
WaveInflow(f, c) ==
  CASE ~Waves(c) -> {}
    [] f = "velocity" -> TargetOfVelocity(c)
    [] f = "vof" -> TargetOfVOF
    [] f = "density" /\ HasVOF(c) -> TargetOfDensity
    [] OTHER -> {}

(* OceanWavesFillInflow::fillpatch *)
WaveFill(slot, given, c) ==
  If(WaveInflow(slot[1], c) # {}, << Kernel("wave inflow", WaveInflow(slot[1], c), {}, given) >>)

(* A field has one fill operation: that of the last boundary in the list.  *)
FillPatch(slot, given, c) ==
  FillPatchOf(slot, given) \o BoundaryFill(slot[1], given, c) \o WaveFill(slot, given, c)

(* fillphysbc: boundaries only, the cells next to them may be of another   *)
(* time.                                                                   *)
FillPhysBC(slot, given, c) ==
  BoundaryFill(slot[1], given, c) \o WaveFill(slot, given, c)

(* fillpatch_sibling_fields: the ghost cells of the face velocities.       *)
(* "Avoid trying to read after boundary has already been populated": the   *)
(* targets are read when they are newer than the time of the fill.         *)
FillMacGhosts(given, newer, c) ==
  MacBoundaryFill(given, newer, c) \o
  If(Waves(c) /\ newer, << Kernel("mac ghosts", TargetOfVelocity(c), {}, given) >>)

(* set_inflow_velocity on the faces of the MAC projection, and of the      *)
(* nodal projection.                                                       *)
SetMacInflow(given, c) ==
  If(~MacInflowSkipped(c),
     SetInflow(given) \o
     If(Waves(c), << Kernel("mac inflow", TargetOfVelocity(c), {}, given) >>))

SetNodalInflow(given, c) ==
  SetInflow(given) \o BoundaryFill("velocity", given, c) \o
  If(Waves(c), << Kernel("nodal inflow", TargetOfVelocity(c), {}, given) >>)

-----------------------------------------------------------------------------
(* The hooks of OceanWaves and of OceanWavesBoundary *)

WavesPostInit(c) ==
  UpdateTargetFields("now", c) \o If(MultiphaseMode(c), ApplyRelaxationZones(c))

(* "ow values at nph time for advection boundaries" *)
WavesPreAdvance(given, c) == UpdateTargetFields(given, c)

WavesPrePredictor(c) == UpdateTargetFields("new", c)

WavesPostAdvance(c) ==
  If(MultiphaseMode(c),
     ApplyRelaxationZones(c) \o FillPatch(New("vof"), "new", c) \o
     FillPatch(New("velocity"), "new", c) \o FillPatch(New("density"), "new", c))

WaveBoundaryPostInit(c) ==
  If(Waves(c) /\ HasVOF(c),
     FillPatch(New("vof"), "now", c) \o FillPatch(New("velocity"), "now", c) \o
     FillPatch(New("density"), "now", c))

=============================================================================
