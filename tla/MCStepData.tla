----------------------------- MODULE MCStepData -----------------------------
(***************************************************************************)
(* Configurations of the flow solver, after the regression tests of the    *)
(* repository: atmospheric boundary layers with different turbulence       *)
(* models, terrain, actuators, two-phase flows with waves, canonical flows *)
(* with the method of lines, prescribed velocities and overset meshes.     *)
(***************************************************************************)
EXTENDS StepData

Plain ==
  [physics |-> << "TaylorGreenVortex" >>, turbulence |-> "Laminar", transport |-> "Constant",
   interface |-> "none", scheme |-> "godunov", scalars |-> << >>, constant_density |-> TRUE,
   sources |-> [velocity |-> << >>], terrain |-> FALSE, waves |-> "none", beach |-> FALSE,
   overset |-> FALSE, wall |-> "none", extra |-> {}, diffusion |-> "explicit", operator |-> "tensor",
   fixed_point |-> 1, prescribed |-> FALSE, initial_iterations |-> 0,
   initial_projection |-> FALSE, regrid |-> TRUE, outputs |-> << "KineticEnergy" >>,
   criteria |-> << >>, tagged |-> "velocity", sampled |-> {"velocity"},
   actuators |-> << >>, motion |-> "none", restarted |-> TRUE,
   planes |-> "none", plane_fields |-> {}, mpl |-> FALSE, faces |-> {},
   stats |-> [interval |-> 100, format |-> "ascii", budget |-> FALSE],
   meso |-> [scheme |-> "none", tendency |-> FALSE, transition |-> "none", upper |-> "none"]]

With(base, changes) == [f \in DOMAIN base |-> IF f \in DOMAIN changes THEN changes[f] ELSE base[f]]

ABLSources ==
  [velocity |-> << "ABLForcing", "BoussinesqBuoyancy", "CoriolisForcing" >>,
   temperature |-> << >>]

EachStep(format) == [interval |-> 1, format |-> format, budget |-> FALSE]

\* A neutral boundary layer with a second fixed-point iteration.
ABLNeutral ==
  With(Plain,
       [physics |-> << "ABL" >>, turbulence |-> "Smagorinsky", scalars |-> << "temperature" >>,
        sources |-> ABLSources, wall |-> "abl", fixed_point |-> 2, initial_iterations |-> 2,
        initial_projection |-> TRUE, outputs |-> << "Sampling", "Subvolume", "FieldNorms" >>,
        stats |-> EachStep("ascii"), sampled |-> {"velocity", "temperature"},
        criteria |-> << "VorticityMagRefinement", "CartBoxRefinement" >>])

\* A hybrid model with actuators, which mark the cells they touch.
ABLHybrid ==
  With(ABLNeutral,
       [physics |-> << "ABL", "HybridRANSLESABL", "Actuator", "ActuatorSourceTagging" >>,
        turbulence |-> "OneEqKsgsM84", scalars |-> << "temperature", "tke", "passive_scalar" >>,
        sources |-> [velocity |-> << "ABLForcing", "ABLMeanBoussinesq", "ActuatorForcing",
                                     "GeostrophicForcing" >>,
                     tke |-> << >>],
        diffusion |-> "crank_nicolson", fixed_point |-> 1, extra |-> {"tke"},
        stats |-> [EachStep("netcdf") EXCEPT !.budget = TRUE],
        actuators |-> << "TurbineFastLine", "TurbineKynemaFMBLine" >>,
        tagged |-> "passive_scalar",
        criteria |-> << "FieldRefinement", "QCriterionRefinement" >>])

\* Terrain and forest, with an implicit diffusion.
ABLTerrain ==
  With(ABLNeutral,
       [physics |-> << "ABL", "TerrainDrag", "ForestDrag" >>, turbulence |-> "KLAxell",
        scalars |-> << "temperature", "tke" >>, terrain |-> TRUE, diffusion |-> "implicit",
        sources |-> [velocity |-> << "DragForcing", "ForestForcing", "MetMastForcing",
                                     "VelocityFreeAtmosphereForcing" >>,
                     temperature |-> << "DragTempForcing", "PerturbationForcing",
                                        "TemperatureFreeAtmosphereForcing" >>],
        stats |-> [EachStep("ascii") EXCEPT !.interval = -1],
        fixed_point |-> 1, extra |-> {"tke"}])

\* An anelastic boundary layer, driven by mesoscale data.
ABLAnelastic ==
  With(ABLNeutral,
       [turbulence |-> "AMD", scalars |-> << "density", "temperature" >>,
        sources |-> [velocity |-> << "ABLMesoForcingMom", "HurricaneForcing", "GravityForcing",
                                     "RayleighDamping", "BodyForce" >>,
                     temperature |-> << "ABLMesoForcingTemp", "HurricaneTempForcing",
                                        "TemperatureBodyForce" >>],
        extra |-> {"anelastic"},
        meso |-> [scheme |-> "indirect", tendency |-> FALSE, transition |-> "moving", upper |-> "direct"],
        stats |-> EachStep("netcdf"), fixed_point |-> 1, initial_iterations |-> 0])

\* Other ways towards mesoscale profiles.
Assimilated ==
  With(ABLAnelastic,
       [meso |-> [scheme |-> "indirect", tendency |-> FALSE, transition |-> "fixed", upper |-> "constant"]])

Uniform ==
  With(ABLAnelastic,
       [meso |-> [scheme |-> "indirect", tendency |-> FALSE, transition |-> "none", upper |-> "none"],
        stats |-> [EachStep("netcdf") EXCEPT !.interval = 2]])

Tendencies ==
  With(ABLAnelastic,
       [meso |-> [scheme |-> "direct", tendency |-> TRUE, transition |-> "none", upper |-> "none"]])

\* "directToConstant" has no transition height (see KnownZeros).
DirectToConstant ==
  With(ABLAnelastic,
       [meso |-> [scheme |-> "direct", tendency |-> FALSE, transition |-> "fixed", upper |-> "constant"]])

\* The nonlinear model, with the method of lines.
ABLKosovic ==
  With(ABLNeutral,
       [turbulence |-> "Kosovic", scheme |-> "mol", fixed_point |-> 1,
        sources |-> [velocity |-> << "NonLinearSGSTerm", "BoussinesqBuoyancy" >>]])

TwoPhase ==
  With(Plain,
       [physics |-> << "MultiPhase", "DamBreak" >>, transport |-> "TwoPhase",
        interface |-> "VOF", scalars |-> << "vof" >>,
        sources |-> [velocity |-> << "GravityForcing" >>],
        extra |-> {"reference_density", "reference_pressure"},
        initial_iterations |-> 1, initial_projection |-> TRUE, fixed_point |-> 2,
        outputs |-> << "WaveEnergy", "FreeSurface" >>, sampled |-> {"velocity", "vof"}])

\* Waves that enter the domain and are absorbed by a beach.
WaveTank ==
  With(TwoPhase,
       [physics |-> << "MultiPhase", "OceanWaves" >>, waves |-> "LinearWaves", beach |-> TRUE,
        tagged |-> "vof", criteria |-> << "FieldRefinement", "GradientMagRefinement" >>])

LevelSet ==
  With(TwoPhase,
       [interface |-> "LS", transport |-> "TwoPhase", scalars |-> << "levelset" >>,
        fixed_point |-> 1, outputs |-> << "Enstrophy" >>, sampled |-> {"velocity"},
        diffusion |-> "crank_nicolson"])

\* One phase over moving waves, which act as terrain.
OverWaves ==
  With(ABLTerrain,
       [physics |-> << "ABL", "OceanWaves", "TerrainDrag" >>, waves |-> "StokesWaves",
        turbulence |-> "Smagorinsky", scalars |-> << "temperature" >>, diffusion |-> "explicit",
        sources |-> [velocity |-> << "DragForcing" >>], extra |-> {}, fixed_point |-> 2])

\* A channel with a two-equation model, wall model and method of lines.
Channel ==
  With(Plain,
       [physics |-> << "ChannelFlow" >>, turbulence |-> "KOmegaSST",
        scalars |-> << "tke", "sdr" >>, scheme |-> "mol", wall |-> "channel",
        sources |-> [velocity |-> << "BodyForce" >>, tke |-> << "KwSSTSrc" >>,
                     sdr |-> << "SDRSrc" >>],
        extra |-> {"tke", "sdr", "wall_dist"}, diffusion |-> "implicit"])

\* A stratified flow of variable density.
RayleighTaylor ==
  With(Plain,
       [operator |-> "segregated", physics |-> << "RayleighTaylor" >>, scalars |-> << "density" >>,
        constant_density |-> FALSE, scheme |-> "mol", diffusion |-> "explicit",
        sources |-> [velocity |-> << "DensityBuoyancy" >>]])

VortexPatch ==
  With(TwoPhase,
       [physics |-> << "MultiPhase", "VortexPatch" >>, prescribed |-> TRUE, fixed_point |-> 1,
        initial_iterations |-> 0, initial_projection |-> FALSE,
        sources |-> [velocity |-> << >>]])

\* The other solver owns part of the domain.
Overlapping ==
  With(ABLNeutral,
       [overset |-> TRUE, criteria |-> << "OversetRefinement" >>, fixed_point |-> 2,
        initial_iterations |-> 0])

\* Two fluids that share the domain, with a pressure to start from.
OverlappingTwoPhase ==
  With(TwoPhase,
       [overset |-> TRUE, criteria |-> << "OversetRefinement" >>, fixed_point |-> 2,
        initial_projection |-> FALSE,
        extra |-> {"reference_density", "reference_pressure", "initialize_pressure"}])

\* A cylinder in a uniform flow.
ImmersedBody ==
  With(Plain, [physics |-> << "FreeStream", "IB" >>, initial_projection |-> TRUE])

\* The detached-eddy variant, with transition and a precursor of eddies.
ChannelIDDES ==
  With(Channel,
       [physics |-> << "ChannelFlow", "SyntheticTurbulence", "Intermittency" >>,
        turbulence |-> "KOmegaSSTIDDES", scheme |-> "godunov", diffusion |-> "crank_nicolson",
        sources |-> [velocity |-> << "SynthTurbForcing" >>, tke |-> << "KwSSTSrc" >>,
                     sdr |-> << "SDRSrc" >>]])

\* Heat in a free stream, over a forest, at a low Rayleigh number.
HeatedStream ==
  With(Plain,
       [physics |-> << "FreeStream", "BoussinesqBubble", "ScalarAdvection", "ForestDrag" >>,
        turbulence |-> "AMDNoTherm", scalars |-> << "temperature" >>,
        sources |-> [velocity |-> << "BoussinesqBuoyancy", "ForestForcing" >>,
                     temperature |-> << >>], outputs |-> << "Enstrophy" >>])

HeatedTerrain == With(ABLTerrain, [turbulence |-> "OneEqKsgsM84", physics |-> << "ABL", "TerrainDrag" >>,
                              sources |-> [velocity |-> << "DragForcing", "MetMastForcing" >>,
                                           temperature |-> << >>]])

\* A wind farm of disks, with a controller.
Farm ==
  With(ABLNeutral,
       [physics |-> << "ABL", "Actuator" >>, actuators |-> << "UniformCtDisk", "JoukowskyDisk" >>,
        sources |-> [velocity |-> << "ABLForcing", "ActuatorForcing" >>, temperature |-> << >>],
        extra |-> {"helics"}, fixed_point |-> 1])

Wing ==
  With(Plain,
       [physics |-> << "FreeStream", "Actuator" >>,
        actuators |-> << "FixedWingLine", "FlatPlateLine", "TurbineFastDisk" >>, extra |-> {"fllc"},
        sources |-> [velocity |-> << "ActuatorForcing" >>]])

\* A wing that moves.  It starts from its first position again in a restart.
MovingWing == With(Wing, [motion |-> "sine", restarted |-> FALSE])

\* A boundary layer that writes planes, and those that run on them.
Precursor == With(ABLNeutral, [planes |-> "output", plane_fields |-> {"velocity", "temperature"}])

Inlet ==
  With(ABLNeutral,
       [planes |-> "input", plane_fields |-> {"velocity", "temperature"}, fixed_point |-> 1,
        faces |-> {"inflow-outflow"}])

InletTerrain == With(Inlet, [physics |-> << "ABL", "TerrainDrag" >>, terrain |-> TRUE, planes |-> "static"])

InletOverset == With(Inlet, [overset |-> TRUE, initial_iterations |-> 0, criteria |-> << "OversetRefinement" >>])

\* Two phases that enter as the run started.
InletTwoPhase ==
  With(TwoPhase, [planes |-> "initial", plane_fields |-> {"velocity", "vof"}, faces |-> {"fixed gradient"}])

\* The wind turns.  A restart starts from the first direction again.
Turning == With(ABLNeutral, [mpl |-> TRUE, restarted |-> FALSE])

\* The wind of a controller, which a restart does not have at first either.
Controlled == With(Farm, [mpl |-> TRUE, restarted |-> FALSE])

Flowing(name) == With(Plain, [physics |-> << name >>])

\* A cavity whose forcing is a field of its own.
Burggraf ==
  With(Flowing("BurggrafFlow"),
       [sources |-> [velocity |-> << "BurggrafFlowForcing" >>],
        criteria |-> << "GeometryRefinement", "CurvatureRefinement" >>])

\* The operator that a mapped mesh requires.
Components ==
  {With(Flowing("ConvectingTaylorVortex"), [operator |-> "multi-component", diffusion |-> d]) :
     d \in {"explicit", "implicit"}}

Canonical ==
  {Flowing(name) : name \in {"ConvectingTaylorVortex", "EkmanSpiral", "VortexDipole", "VortexRing",
                            "MMS"}} \cup {Burggraf}

Interface(name) == With(TwoPhase, [physics |-> << "MultiPhase", name >>, fixed_point |-> 1])

Interfaces == {Interface(name) : name \in {"BreakingWaves", "RainDrop", "SloshingTank"}}

Carried(name) == With(VortexPatch, [physics |-> << "MultiPhase", name >>])

Advected == {Carried(name) : name \in {"VortexPatchScalarVel", "ZalesakDisk", "ZalesakDiskScalarVel"}}

All ==
  {ABLNeutral, ABLHybrid, ABLTerrain, ABLAnelastic, Assimilated, Uniform, Tendencies,
   DirectToConstant, ABLKosovic, TwoPhase, WaveTank, LevelSet,
   OverWaves, Channel, ChannelIDDES, HeatedStream, HeatedTerrain, RayleighTaylor, VortexPatch,
   Overlapping, OverlappingTwoPhase, ImmersedBody, Farm, Wing, MovingWing, Precursor,
   Inlet, InletTerrain, InletOverset, InletTwoPhase, Turning, Controlled}
  \cup Components \cup Canonical \cup Interfaces \cup Advected

(* A wave tank, a channel that is not regridded and is restarted, and an   *)
(* anelastic boundary layer.                                               *)
WavingOrBuilt ==
  {WaveTank, With(Interface("ChannelBuilder"), [regrid |-> FALSE]), ABLAnelastic}

=============================================================================
