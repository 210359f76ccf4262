------------------------------- MODULE Hooks -------------------------------
(***************************************************************************)
(* What the physics of a run do in each hook of the time loop, in the      *)
(* order of the input file.  A physics that is not named in a hook leaves  *)
(* it empty.                                                               *)
(***************************************************************************)
EXTENDS Outputs

InitializeFieldsOf(name, c) ==
  CASE name = "ABL" -> ABLInitializeFields(c)
    [] name = "TerrainDrag" -> TerrainInitializeFields(c)
    [] name = "ForestDrag" -> ForestInitializeFields
    [] name = "HybridRANSLESABL" -> HybridInitializeFields
    [] name = "Intermittency" -> IntermittencyInitialize
    [] name = "OceanWaves" -> InitWaves(c)
    [] name = "BreakingWaves" -> BreakingWavesInit(c)
    [] name = "DamBreak" -> DamBreakInit(c)
    [] name = "RainDrop" -> RainDropInit(c)
    [] name = "SloshingTank" -> SloshingTankInit
    [] name = "ChannelBuilder" -> ChannelBuilderInit(c)
    [] name = "VortexPatch" -> VortexPatchInit
    [] name = "VortexPatchScalarVel" -> VortexPatchScalarVelInit
    [] name = "ZalesakDisk" -> ZalesakDiskInit
    [] name = "ZalesakDiskScalarVel" -> ZalesakDiskScalarVelInit
    [] name = "FreeStream" -> FreeStreamInit(c)
    [] name = "ChannelFlow" -> ChannelFlowInit(c)
    [] name = "BoussinesqBubble" -> BoussinesqBubbleInit
    [] name = "BurggrafFlow" -> BurggrafFlowInit
    [] name = "ConvectingTaylorVortex" -> TaylorVortexInit
    [] name = "ScalarAdvection" -> ScalarAdvectionInit
    [] name = "EkmanSpiral" -> EkmanSpiralInit
    [] name = "RayleighTaylor" -> RayleighTaylorInit
    [] name = "TaylorGreenVortex" -> TaylorGreenInit
    [] name = "VortexDipole" -> VortexDipoleInit
    [] name = "VortexRing" -> VortexRingInit
    [] name = "MMS" -> MMSInit
    [] name = "ActuatorSourceTagging" -> TaggingInit
    [] OTHER -> << >>

PostInitOf(name, fresh, fllc, c) ==
  CASE name = "ABL" -> ABLPostInit(c)
    [] name = "TerrainDrag" -> TerrainPostInit(c)
    [] name = "HybridRANSLESABL" -> HybridPostInit
    [] name = "OceanWaves" -> WavesPostInit(c)
    [] name = "MultiPhase" -> MultiPhasePostInit(fresh, c)
    [] name = "ChannelFlow" -> ChannelFlowPostInit(c)
    [] name = "ScalarAdvection" -> ScalarAdvectionPostInit(fresh)
    [] name = "EkmanSpiral" -> EkmanSpiralError
    [] name = "ConvectingTaylorVortex" -> TaylorVortexPostAdvance
    [] name = "VortexRing" -> VortexRingPostInit(fresh)
    [] name = "MMS" -> FillMMSSource
    [] name = "Actuator" -> ActuatorPostInit(fllc, c)
    [] name = "IB" -> IBPostInit
    [] OTHER -> << >>

PostRegridOf(name, c) ==
  CASE name = "ABL" -> ABLPostRegrid(c)
    [] name = "TerrainDrag" -> TerrainPostRegrid(c)
    [] name = "ForestDrag" -> ForestPostRegrid
    [] name = "MultiPhase" -> MultiPhasePostRegrid(c)
    [] name = "ChannelBuilder" -> ChannelBuilderPostRegrid(c)
    [] name = "MMS" -> FillMMSSource
    [] name = "Actuator" -> ActuatorPostRegrid
    [] OTHER -> << >>

PreAdvanceOf(name, given, fllc, c) ==
  CASE name = "ABL" -> ABLPreAdvance(c)
    [] name = "TerrainDrag" -> TerrainPreAdvance(c)
    [] name = "OceanWaves" -> WavesPreAdvance(given, c)
    [] name = "SyntheticTurbulence" -> SyntheticTurbulencePreAdvance
    [] name = "Actuator" -> ActuatorPreAdvance(fllc, c)
    [] name = "VortexPatch" -> VortexPatchPreAdvance
    [] name = "VortexPatchScalarVel" -> VortexPatchScalarVelPreAdvance
    [] name = "ZalesakDisk" -> ZalesakDiskPreAdvance
    [] name = "ZalesakDiskScalarVel" -> ZalesakDiskScalarVelPreAdvance
    [] OTHER -> << >>

PrePredictorOf(name, c) == If(name = "OceanWaves", WavesPrePredictor(c))

PostAdvanceOf(name, step, c) ==
  CASE name = "ABL" -> ABLPostAdvance(step, c)
    [] name = "HybridRANSLESABL" -> HybridPostAdvance
    [] name = "OceanWaves" -> WavesPostAdvance(c)
    [] name = "MultiPhase" -> MultiPhasePostAdvance(c)
    [] name = "VortexPatch" -> VortexPatchPostAdvance
    [] name = "ZalesakDisk" -> ZalesakDiskPostAdvance
    [] name = "ChannelFlow" -> ChannelFlowPostAdvance
    [] name = "ConvectingTaylorVortex" -> TaylorVortexPostAdvance
    [] name = "ScalarAdvection" -> ScalarAdvectionPostAdvance
    [] name = "EkmanSpiral" -> EkmanSpiralError
    [] name = "MMS" -> MMSPostAdvance
    [] name = "Actuator" -> ActuatorPostAdvance(c)
    [] name = "ActuatorSourceTagging" -> TaggingPostAdvance(c)
    [] OTHER -> << >>

AllPhysics(c, Kernels(_)) == ForEach(c.physics, Kernels)

=============================================================================
