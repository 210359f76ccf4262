------------------------------ MODULE Physics ------------------------------
(***************************************************************************)
(* The physics of a run: what each one does in the hooks that the time     *)
(* loop calls (Physics.H).  A hook a physics leaves empty has no operator. *)
(* Actuators and waves have modules of their own.                          *)
(***************************************************************************)
EXTENDS Averages

-----------------------------------------------------------------------------
(* Atmospheric boundary layer *)

(* The surface temperature is a function of the current time, the friction *)
(* velocity of the fine planes.                                            *)
UpdateUmean ==
  << Compute("update_umean",
             LineAverageInterpolated("vel_plane_fine") \cup LineHvelmagInterpolated("vel_plane_fine")
               \cup LineAverageInterpolated("temp_plane_fine"),
             {Host("m_mo")}) >>

(* The reference state, and density, which its equation has advanced until  *)
(* then: every start, restart and regrid of an anelastic run sets it to the *)
(* reference profile.                                                       *)
AnelasticPostInit(c) ==
  If("anelastic" \in c.extra,
     << Kernel("anelastic", {},
               States({"reference_density", "reference_pressure", "reference_temperature"}, "New"),
               "static"),
        Compute("anelastic density", {New("reference_density")}, {New("density")}) >>)

ABLPostInit(c) ==
  If(Has("HybridRANSLESABL", c), << Kernel("init sdr", {}, {New("sdr")}, "static") >>) \o
  StatsPostInit(c) \o UpdateUmean \o AnelasticPostInit(c)

ABLPostRegrid(c) == AnelasticPostInit(c)

ABLPreAdvance(c) ==
  UpdateUmean \o
  If(SourceIn("ABLForcing", c),
     If(Helics(c), << Look("target wind", {Host("wind")}) >>) \o
     << Compute("mean velocity", LineAverageInterpolated("vel_plane_fine"), {Host("abl_forcing")}) >>) \o
  If(SourceIn("ABLMeanBoussinesq", c),
     << Compute("mean theta", {Host("temp_plane")}, {Host("mean_boussinesq")}) >>) \o
  If(SourceIn("ABLMesoForcingMom", c), MeanVelocityHeights(c)) \o
  If(SourceIn("ABLMesoForcingTemp", c), MeanTemperatureHeights(c)) \o
  If(SourceIn("HurricaneForcing", c),
     << Compute("hurricane", {Host("vel_plane")}, {Host("hurricane")}) >>) \o
  If(SourceIn("HurricaneTempForcing", c),
     << Compute("hurricane", {Host("vel_plane")}, {Host("hurricane_temp")}) >>)

ABLPostAdvance(step, c) == StatsPostAdvance(step, c)

-----------------------------------------------------------------------------
(* Terrain, forests, hybrid turbulence *)

TerrainFields ==
  States({"terrain_blank", "terrain_drag", "terrainz0", "terrain_height", "terrain_damping"}, "New")

(* With waves and one phase, the waves are the terrain.                    *)
WavesAsTerrain(c) == Waves(c) /\ c.interface = "none"

BuildTerrain(c) == If(~WavesAsTerrain(c), << Kernel("terrain", {}, TerrainFields, "static") >>)

ConvertWavesToTerrain(c) ==
  If(WavesAsTerrain(c),
     << Kernel("roughness", {}, {New("terrainz0")}, "static"),
        Compute("waves to terrain", States({"ow_vof", "ow_levelset"}, "New"),
                States({"terrain_blank", "terrain_height", "terrain_drag"}, "New")) >>)

TerrainInitializeFields(c) == BuildTerrain(c)

TerrainPostInit(c) == ConvertWavesToTerrain(c)

\* Mutant: the terrain is not built again on the new mesh.
TerrainPostRegrid_Nothing(c) == ConvertWavesToTerrain(c)

TerrainPostRegrid(c) == BuildTerrain(c) \o ConvertWavesToTerrain(c)

TerrainPreAdvance(c) == ConvertWavesToTerrain(c)

ForestFields == States({"forest_drag", "forest_id"}, "New")

ForestInitializeFields == << Kernel("forest", {}, ForestFields, "static") >>

ForestPostRegrid == ForestInitializeFields

SdrFromTke == << Compute("sdr from tke", {New("tke")}, {New("sdr")}) >>

HybridInitializeFields == << Initial("sdr", {"sdr"}) >>

HybridPostInit == SdrFromTke

HybridPostAdvance == SdrFromTke

IntermittencyInitialize == << Kernel("intermittency", {}, {New("intermittency")}, "static") >>

-----------------------------------------------------------------------------
(* Two-phase flow *)

ReferenceState(c) ==
  If("reference_density" \in c.extra,
     << Kernel("define_rho0", {}, {New("reference_density")}, "static") >>) \o
  If("reference_pressure" \in c.extra,
     << Kernel("define_p0", {}, {New("reference_pressure")}, "static") >>)

Levelset2vof == << Compute("levelset2vof", {New("levelset")}, {New("vof")}) >>

SetDensityViaVOF == << Compute("set_density_via_vof", {New("vof")}, {New("density")}) >>

SetDensityViaLevelset ==
  << Compute("set_density_via_levelset", {New("levelset")}, {New("density")}) >>

(* A restart has the volume fraction and the density in its files.         *)
InitializePressure(c) ==
  If("initialize_pressure" \in c.extra, << Kernel("define_p0", {}, {New("p")}, "static") >>)

MultiPhasePostInit(fresh, c) ==
  If(fresh /\ HasVOF(c), Levelset2vof \o SetDensityViaVOF) \o
  If(fresh /\ ~HasVOF(c), SetDensityViaLevelset) \o
  << Look("momentum_sum", {New("velocity"), New("density")}) >> \o
  If(HasVOF(c), << Look("volume_fraction_sum", {New("vof")}) >>) \o
  ReferenceState(c) \o InitializePressure(c)

MultiPhasePostRegrid(c) == ReferenceState(c)

MultiPhasePostAdvance(c) == If(~HasVOF(c), SetDensityViaLevelset)

BreakingWavesInit(c) ==
  << Initial("BreakingWaves", WithExisting({"velocity", "levelset", "density"}, {"tke", "sdr"}, c)) >>

DamBreakInit(c) == << Initial("DamBreak", {"velocity", "levelset", "density"}) >>

RainDropInit(c) == << Initial("RainDrop", WithExisting({"velocity", "levelset"}, {"vof"}, c)) >>

SloshingTankInit == << Initial("SloshingTank", {"velocity", "levelset", "p"}) >>

ChannelBuilderInit(c) ==
  << Initial("ChannelBuilder",
             {"velocity"} \cup IF c.interface = "none" THEN {"density"} ELSE {"levelset"}),
     Kernel("ChannelBuilder walls", {}, {New("terrain_blank")}, "static") >>

(* "Initialize the fields" again, on every level.                          *)
ChannelBuilderPostRegrid(c) == ChannelBuilderInit(c)

(* Advection tests: the face velocities are prescribed for the half time.  *)
VortexPatchInit == << Initial("VortexPatch", {"velocity", "levelset", "density"}) >>

VortexPatchPreAdvance == << Kernel("VortexPatch", {}, {New("u_mac")}, "half ahead") >>

VortexPatchPostAdvance == << Kernel("VortexPatch", {}, {New("velocity")}, "now") >>

VortexPatchScalarVelInit == << Initial("VortexPatchScalarVel", {"velocity", "levelset", "density"}) >>

VortexPatchScalarVelPreAdvance == << Kernel("VortexPatch", {}, {New("u_mac")}, "half ahead") >>

ZalesakDiskInit == << Initial("ZalesakDisk", {"velocity", "levelset", "density"}) >>

ZalesakDiskPreAdvance == << Kernel("ZalesakDisk", {}, {New("u_mac")}, "static") >>

ZalesakDiskPostAdvance == << Kernel("ZalesakDisk", {}, {New("velocity")}, "static") >>

ZalesakDiskScalarVelInit ==
  << Initial("ZalesakDiskScalarVel", {"velocity", "levelset", "density"}) >>

ZalesakDiskScalarVelPreAdvance == << Kernel("ZalesakDisk", {}, {New("u_mac")}, "static") >>

-----------------------------------------------------------------------------
(* Canonical flows *)

FreeStreamInit(c) ==
  << Initial("FreeStream", {"velocity", "density"} \cup {c.scalars[i] : i \in DOMAIN c.scalars}) >>

ChannelFlowInit(c) ==
  << Initial("ChannelFlow", WithExisting({"velocity", "density"}, {"tke", "sdr"}, c)) >> \o
  If("wall_dist" \in c.extra, << Kernel("wall_dist", {}, {New("wall_dist")}, "static") >>)

(* The wall model's shear velocity is a parameter of the run.              *)
ChannelFlowPostInit(c) ==
  << Kernel("wall model", {}, {Host("u_tau")}, "static"), Look("error", {New("velocity")}) >>

ChannelFlowPostAdvance == << Look("error", {New("velocity")}) >>

BoussinesqBubbleInit == << Initial("BoussinesqBubble", {"velocity", "density", "temperature"}) >>

(* The source is written with the initial condition, and nowhere else.     *)
BurggrafFlowInit ==
  << Initial("BurggrafFlow", {"velocity", "density"}),
     Kernel("bf_src_term", {}, {New("bf_src_term")}, "static") >>

TaylorVortexInit == << Initial("ConvectingTaylorVortex", {"velocity", "density", "p", "gp"}) >>

TaylorVortexPostAdvance == << Look("error", {New("velocity")}) >>

ScalarAdvectionInit == << Initial("ScalarAdvection", {"velocity", "density"}) >>

ScalarAdvectionPostInit(fresh) ==
  If(fresh, << Initial("ScalarAdvection", {"temperature"}) >>)

ScalarAdvectionPostAdvance == << Look("error", {New("temperature")}) >>

EkmanSpiralInit == << Initial("EkmanSpiral", {"velocity", "density"}) >>

EkmanSpiralError == << Look("error", {New("velocity")}) >>

SyntheticTurbulencePreAdvance ==
  << Kernel("synthetic turbulence", {New("density")}, {New("synth_turb_forcing")}, "new") >>

RayleighTaylorInit == << Initial("RayleighTaylor", {"velocity", "density"}) >>

TaylorGreenInit == << Initial("TaylorGreenVortex", {"velocity", "density"}) >>

VortexDipoleInit == << Initial("VortexDipole", {"velocity", "density"}) >>

VortexRingInit == << Initial("VortexRing", {"velocity", "density"}) >>

VortexRingPostInit(fresh) == If(fresh, << Initial("VortexRing", {"velocity"}) >>)

MMSInit == << Initial("MMS", {"velocity", "density"}) >>

FillMMSSource == << Kernel("fill_src", {}, {New("mms_vel_src")}, "static") >>

MMSPostAdvance == << Look("error", {New("velocity")}) >>

TaggingInit == << Kernel("ActuatorSourceTagging", {}, {New("passive_scalar")}, "zero") >>

(* The tracer marks what the actuators and the other solver's mesh touch.  *)
TaggingPostAdvance(c) ==
  << Compute("tag actuators",
             {New("passive_scalar")} \cup IfThere(Has("Actuator", c), {New("actuator_src_term")})
               \cup IfThere(c.overset, {New("iblank_cell")}),
             {New("passive_scalar")}) >>

-----------------------------------------------------------------------------
(* Immersed boundaries: the level set of the bodies is made at the start;  *)
(* the velocity near the body is set before and after the projection.      *)

IBPostInit ==
  << Kernel("ib_levelset", {}, {New("ib_levelset"), New("mask_node")}, "static") >>

IBUpdateVelocities ==
  << Compute("ib_normal", {New("ib_levelset")}, {New("ib_normal")}),
     Compute("apply_dirichlet_vel", {New("velocity"), New("ib_levelset"), New("ib_normal")},
             {New("velocity")}) >>

=============================================================================
