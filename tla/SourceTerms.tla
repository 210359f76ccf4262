---------------------------- MODULE SourceTerms ----------------------------
(***************************************************************************)
(* The source terms of the equations as what their operator() reads, for   *)
(* the state fstate the step asks for.  A term reads its own equation's    *)
(* field through dof_state, other fields through phi_state; many read      *)
(* fields without time states, or tables kept on the host by a physics.    *)
(***************************************************************************)
EXTENDS Turbulence

(* Data of an object of the program that is not on the mesh.               *)
Host(name) == << name, "host" >>

Thermal(c) ==
  (IF "anelastic" \in c.extra THEN {New("reference_temperature")} ELSE {}) \cup
  (IF c.transport = "TwoPhase" THEN {New("vof")} ELSE {})

Waves(c) == c.waves # "none"

IfThere(condition, slots) == IF condition THEN slots ELSE {}

Terrain(c, fs) == IfThere(c.terrain, States(fs, "New"))

-----------------------------------------------------------------------------
(* Momentum *)

(* The phase ramp reads the volume fraction; without one the velocity      *)
(* stands for it.                                                          *)
PhaseRamp(c) == IF c.interface = "VOF" THEN {New("vof")} ELSE {New("velocity")}

ABLForcing(c) == {Host("abl_forcing")} \cup PhaseRamp(c)

GeostrophicForcing(c) == PhaseRamp(c)

ABLMeanBoussinesq(c) == {Host("mean_boussinesq")} \cup Thermal(c)

ABLMesoForcingMom(c) == IfThere(c.meso.scheme # "none", {Host("meso_mom")})

ActuatorForcing == {New("actuator_src_term")}

BodyForce == {}

BoussinesqBuoyancy(st, c) == {Phi("temperature", st)} \cup Thermal(c)

BurggrafFlowForcing == {New("bf_src_term")}

CoriolisForcing(st) == {Dof("velocity", st)}

DensityBuoyancy(st) == {Phi("density", st)}

DragForcing(st, c) ==
  {Dof("velocity", st)} \cup
  States({"terrain_blank", "terrain_drag", "terrainz0", "terrain_damping", "terrain_height"},
         "New") \cup
  IfThere(Waves(c) /\ c.interface = "none", States({"ow_velocity", "ow_levelset"}, "New"))

ForestForcing(st, c) ==
  IfThere(Has("ForestDrag", c), {Dof("velocity", st), New("forest_drag")})

GravityForcing(st, c) ==
  {Phi("density", st)} \cup
  IfThere({"anelastic", "reference_density"} \cap c.extra # {}, {New("reference_density")})

HurricaneForcing == {Host("hurricane")}

MetMastForcing(st, c) == {Dof("velocity", st)} \cup Terrain(c, {"terrain_height"})

NonLinearSGSTerm == {New("divNij")}

RayleighDamping(st) == {Dof("velocity", st)}

SynthTurbForcing == {New("synth_turb_forcing")}

VelocityFreeAtmosphereForcing(st, c) ==
  {Dof("velocity", st)} \cup Terrain(c, {"terrain_height"})

-----------------------------------------------------------------------------
(* Temperature *)

ABLMesoForcingTemp(c) == IfThere(c.meso.scheme # "none", {Host("meso_temp")})

TemperatureBodyForce == {}

DragTempForcing(st) ==
  {Dof("velocity", st), Dof("temperature", st)} \cup
  States({"terrain_blank", "terrain_drag", "terrainz0"}, "New")

HurricaneTempForcing == {Host("hurricane_temp")}

PerturbationForcing(c) == Terrain(c, {"terrain_blank", "terrain_height"})

TemperatureFreeAtmosphereForcing(st, c) ==
  {Dof("temperature", st)} \cup Terrain(c, {"terrain_height", "terrain_blank"})

-----------------------------------------------------------------------------
(* Turbulent kinetic energy and dissipation rate *)

KransAxell(st, c) ==
  States({"turb_lscale", "shear_prod", "buoy_prod", "tke"}, "New") \cup
  {Dof("velocity", st)} \cup Thermal(c) \cup
  Terrain(c, {"terrain_blank", "terrain_drag", "terrain_height", "terrainz0"})

KsgsM84Src == States({"turb_lscale", "shear_prod", "buoy_prod", "tke"}, "New")

KwSSTSrc == States({"shear_prod", "dissipation", "buoyancy_term"}, "New")

SDRSrc == States({"omega_src", "sdr_dissipation"}, "New")

-----------------------------------------------------------------------------

SourceReads(name, st, c) ==
  CASE name = "ABLForcing" -> ABLForcing(c)
    [] name = "ABLMeanBoussinesq" -> ABLMeanBoussinesq(c)
    [] name = "ABLMesoForcingMom" -> ABLMesoForcingMom(c)
    [] name = "ActuatorForcing" -> ActuatorForcing
    [] name = "BodyForce" -> BodyForce
    [] name = "BoussinesqBuoyancy" -> BoussinesqBuoyancy(st, c)
    [] name = "BurggrafFlowForcing" -> BurggrafFlowForcing
    [] name = "CoriolisForcing" -> CoriolisForcing(st)
    [] name = "DensityBuoyancy" -> DensityBuoyancy(st)
    [] name = "DragForcing" -> DragForcing(st, c)
    [] name = "ForestForcing" -> ForestForcing(st, c)
    [] name = "GeostrophicForcing" -> GeostrophicForcing(c)
    [] name = "GravityForcing" -> GravityForcing(st, c)
    [] name = "HurricaneForcing" -> HurricaneForcing
    [] name = "MetMastForcing" -> MetMastForcing(st, c)
    [] name = "NonLinearSGSTerm" -> NonLinearSGSTerm
    [] name = "RayleighDamping" -> RayleighDamping(st)
    [] name = "SynthTurbForcing" -> SynthTurbForcing
    [] name = "VelocityFreeAtmosphereForcing" -> VelocityFreeAtmosphereForcing(st, c)
    [] name = "ABLMesoForcingTemp" -> ABLMesoForcingTemp(c)
    [] name = "TemperatureBodyForce" -> TemperatureBodyForce
    [] name = "DragTempForcing" -> DragTempForcing(st)
    [] name = "HurricaneTempForcing" -> HurricaneTempForcing
    [] name = "PerturbationForcing" -> PerturbationForcing(c)
    [] name = "TemperatureFreeAtmosphereForcing" -> TemperatureFreeAtmosphereForcing(st, c)
    [] name = "KransAxell" -> KransAxell(st, c)
    [] name = "KsgsM84Src" -> KsgsM84Src
    [] name = "KwSSTSrc" -> KwSSTSrc
    [] name = "SDRSrc" -> SDRSrc

(* The dissipation of the one-equation models is a by-product.             *)
SourceWrites(name) ==
  IF name \in {"KransAxell", "KsgsM84Src"} THEN {New("dissipation")} ELSE {}

(* inject_turbulence_src_terms: the one-equation models bring their own    *)
(* term; the others leave that to the input file.                          *)
TurbulenceSources(eqn, c) ==
  CASE eqn = "tke" /\ c.turbulence = "OneEqKsgsM84" -> << "KsgsM84Src" >>
    [] eqn = "tke" /\ c.turbulence = "KLAxell" -> << "KransAxell" >>
    [] OTHER -> << >>

SourcesOf(eqn, c) ==
  (IF eqn \in DOMAIN c.sources THEN c.sources[eqn] ELSE << >>) \o TurbulenceSources(eqn, c)

Src(eqn) == << eqn, "src" >>

(* One source term added to the source of its equation.                    *)
AddSource(eqn, name, st, c) ==
  Compute(name, SourceReads(name, st, c) \cup {Src(eqn)}, SourceWrites(name) \cup {Src(eqn)})

=============================================================================
