----------------------------- MODULE Equations -----------------------------
(***************************************************************************)
(* The operations of the equation systems (PDESystem and its operators) as *)
(* sequences of kernels.  An equation is named by its field: "velocity" is *)
(* the momentum equation, the others are the scalar equations of the run.  *)
(* In c, the configuration: scheme is "godunov" or "mol", interface the    *)
(* way the two fluids are told apart ("none", "VOF" or "LS").              *)
(***************************************************************************)
EXTENDS Physics

(* Traits of the equations. *)
HasDiffusion(eqn) == eqn \in {"velocity", "temperature", "tke", "sdr", "passive_scalar"}

MultiplyRho(eqn) == HasDiffusion(eqn)

Godunov(c) == c.scheme = "godunov"

(* "Anelastic implies variable density" (PDEBase.cpp:41).  Where density is *)
(* not constant it has an equation, the first of the scalar equations.     *)
ConstantDensity(c) == c.constant_density /\ "anelastic" \notin c.extra

(* diff_term and conv_term: MOL keeps their Old states.                    *)
Diff(eqn, st) == << eqn, IF st = "Old" THEN "diff_old" ELSE "diff" >>

Conv(eqn, st) == << eqn, IF st = "Old" THEN "conv_old" ELSE "conv" >>

TermState(st, c) == IF Godunov(c) THEN "New" ELSE st

MacVelocity == New("u_mac")

MaskCell == New("mask_cell")

MaskNode == New("mask_node")

-----------------------------------------------------------------------------
(* Source terms *)

MultiplyByRho(eqn, st) == << Update("multiply_rho", Src(eqn), Phi("density", st)) >>

ComputeMomentumSource(st, c) ==
  << Compute("pressure gradient", {New("gp"), Phi("density", st)}, {Src("velocity")}) >> \o
  ForEach(SourcesOf("velocity", c),
          LAMBDA name : << AddSource("velocity", name, st, c) >>) \o
  MultiplyByRho("velocity", st)

(* "Return early if there are no source terms to process" *)
ComputeScalarSource(eqn, st, c) ==
  << SetVal("src", {Src(eqn)}) >> \o
  If(SourcesOf(eqn, c) # << >>,
     ForEach(SourcesOf(eqn, c), LAMBDA name : << AddSource(eqn, name, st, c) >>) \o
     If(MultiplyRho(eqn), MultiplyByRho(eqn, st)))

ComputeSourceTerm(eqn, st, c) ==
  IF eqn = "velocity" THEN ComputeMomentumSource(st, c) ELSE ComputeScalarSource(eqn, st, c)

-----------------------------------------------------------------------------
(* Boundary conditions that are functions: the wall models write ghost     *)
(* cells only.                                                             *)

ABLVelWallFunc(st, c) ==
  << Look("ABLVelWallFunc",
          {<< "density", st >>, Mueff("velocity"), Old("velocity"), Host("m_mo")} \cup
          Terrain(c, {"terrain_blank"})) >>

ABLTempWallFunc(st, c) ==
  << Look("ABLTempWallFunc",
          {<< "density", st >>, Mueff("temperature"), Old("velocity"), Old("temperature"),
           Host("m_mo")} \cup Terrain(c, {"terrain_blank"})) >>

WallFunction(st) ==
  << Look("WallFunction", {<< "density", st >>, Mueff("velocity"), Old("velocity"),
                           Host("u_tau")}) >>

WallModel(eqn, st, c) ==
  CASE eqn = "velocity" /\ c.wall = "abl" -> ABLVelWallFunc(st, c)
    [] eqn = "temperature" /\ c.wall = "abl" -> ABLTempWallFunc(st, c)
    [] eqn = "velocity" /\ c.wall = "channel" -> WallFunction(st)
    [] OTHER -> << >>

ApplyBCFuncs(eqn, st, c) == WallModel(eqn, st, c) \o CustomBCs(eqn, c)

\* Mutant: the ghost cells are filled for the start of the step.
ApplyBCs_OldTime(eqn, st, c) ==
  If(st = "New", FillPatch(New(eqn), "now", c)) \o ApplyBCFuncs(eqn, st, c)

ApplyBCs(eqn, st, c) ==
  If(st = "New", FillPatch(New(eqn), "new", c)) \o ApplyBCFuncs(eqn, st, c)

-----------------------------------------------------------------------------
(* Diffusion *)

(* set_acoeffs: the density, plus an implicit source in tke and sdr.       *)
Acoeffs(eqn, st) ==
  {<< "density", st >>} \cup
  (CASE eqn = "tke" -> {New("tke_lhs_src_term")} [] eqn = "sdr" -> {New("sdr_lhs_src_term")}
     [] OTHER -> {})

(* compute_diff_term applies the operator to the New field, whatever state *)
(* it is asked for: the step copies Old to New before it asks for Old.     *)
ApplyOperator(eqn, st, c) ==
  << Compute("diffusion", {New(eqn), Mueff(eqn)} \cup Acoeffs(eqn, st),
             {Diff(eqn, TermState(st, c))}) >>

(* The New field is the first guess of the solver and becomes the result.  *)
SolveWith(eqn) == << Look("solve", {Mueff(eqn)} \cup Acoeffs(eqn, "New")) >>

(* The operator of the scalars, and of the three components of the         *)
(* velocity with the cross terms of the stress.                            *)
TensorDiffusion(eqn, st, c) == ApplyBCs(eqn, st, c) \o ApplyOperator(eqn, st, c)

TensorSolve(eqn, c) == ApplyBCs(eqn, "New", c) \o SolveWith(eqn)

(* Without the cross terms, for all components at once or for one after    *)
(* the other: the boundary conditions are whatever the ghost cells hold,   *)
(* neither the fill nor the wall models are called.                        *)
MultiComponentDiffusion(st, c) == ApplyOperator("velocity", st, c)

MultiComponentSolve == SolveWith("velocity")

SegregatedDiffusion(st, c) == ApplyOperator("velocity", st, c)

SegregatedSolve == SolveWith("velocity")

ComputeDiffusionTerm(eqn, st, c) ==
  CASE ~HasDiffusion(eqn) -> << >>
    [] eqn = "velocity" /\ c.operator = "multi-component" -> MultiComponentDiffusion(st, c)
    [] eqn = "velocity" /\ c.operator = "segregated" -> SegregatedDiffusion(st, c)
    [] OTHER -> TensorDiffusion(eqn, st, c)

(* linsys_solve *)
Solve(eqn, c) ==
  CASE ~HasDiffusion(eqn) -> << >>
    [] eqn = "velocity" /\ c.operator = "multi-component" -> MultiComponentSolve
    [] eqn = "velocity" /\ c.operator = "segregated" -> SegregatedSolve
    [] OTHER -> TensorSolve(eqn, c)

-----------------------------------------------------------------------------
(* Advection *)

(* The projection of the face velocities. *)
MacProject(st, c) ==
  << Compute("mac projection",
             {MacVelocity} \cup
             (IF ConstantDensity(c) /\ c.interface = "none" /\ ~c.overset
              THEN {} ELSE {<< "density", st >>}) \cup
             (IF c.overset THEN {MaskCell} ELSE {}) \cup
             (IF "anelastic" \in c.extra THEN {New("reference_density")} ELSE {}),
             {MacVelocity}) >>

(* The valid faces of an inflow are set before the projection, the ghost   *)
(* cells after it.                                                         *)
PreAdvectionGodunov(st, newer, c) ==
  << Compute("extrapolate", {<< "velocity", st >>, Src("velocity")}, {MacVelocity}) >> \o
  SetMacInflow("half", c) \o MacProject(st, c) \o FillMacGhosts("half", newer, c)

PreAdvectionMOL(st, c) ==
  << Compute("extrapolate", {<< "velocity", st >>}, {MacVelocity}) >> \o MacProject(st, c)

PreAdvectionActions(st, newer, c) ==
  IF Godunov(c) THEN PreAdvectionGodunov(st, newer, c) ELSE PreAdvectionMOL(st, c)

(* hybrid_fluxes: near an interface the fluxes come from the advected      *)
(* volume fraction.                                                        *)
HybridFluxes(eqn, st) ==
  << Look("hybrid_fluxes",
          {New("advalpha"), Old("vof"), << eqn, st >>, NPH(eqn), Old("density"),
           NPH("density"), Src(eqn), MacVelocity}) >>

MomentumAdvectionGodunov(st, c) ==
  If(c.interface = "VOF", HybridFluxes("velocity", st)) \o
  << Compute("advection",
             {<< "velocity", st >>, NPH("velocity"), Src("velocity"), MacVelocity,
              Old("density"), NPH("density")},
             {Conv("velocity", "New")}) >>

MomentumAdvectionMOL(st) ==
  << Compute("advection", {<< "velocity", st >>, << "density", st >>, MacVelocity},
             {Conv("velocity", st)}) >>

ScalarAdvectionGodunov(eqn, st, c) ==
  If(c.interface = "VOF" /\ MultiplyRho(eqn), HybridFluxes(eqn, st)) \o
  << Compute("advection",
             {<< eqn, st >>, NPH(eqn), Src(eqn), MacVelocity} \cup
             (IF MultiplyRho(eqn) THEN {<< "density", st >>, NPH("density")} ELSE {}),
             {Conv(eqn, "New")}) >>

ScalarAdvectionMOL(eqn, st) ==
  << Compute("advection",
             {<< eqn, st >>, MacVelocity} \cup
             (IF MultiplyRho(eqn) THEN {<< "density", st >>} ELSE {}),
             {Conv(eqn, st)}) >>

(* One direction of the split advection: NPH is filled, its fluxes and the *)
(* volume fraction they carry are kept for the momentum, NPH is updated.   *)
SplitAdvectionStep(c) ==
  FillPatch(NPH("vof"), "new", c) \o
  << Compute("sweep_fluxes", {NPH("vof"), MacVelocity}, {New("advalpha")}),
     Compute("sweep", {NPH("vof"), MacVelocity}, {NPH("vof")}) >>

(* The cells that the other solver owns keep their volume fraction.        *)
ReplaceMaskedVOF == << Compute("replace_masked_vof", {New("iblank_cell"), New("vof"), NPH("vof")}, {NPH("vof")}) >>

(* The volume fraction is advected geometrically, through NPH; the three   *)
(* sweeps together are one step.                                           *)
AdvectVOF(c) ==
  << Copy(NPH("vof"), Old("vof")) >> \o
  SplitAdvectionStep(c) \o SplitAdvectionStep(c) \o SplitAdvectionStep(c) \o
  If(c.overset, ReplaceMaskedVOF) \o
  << Kernel("advect vof", {NPH("vof"), Old("vof")}, States({"vof"}, "New") \cup {NPH("vof")}, "next") >>

ComputeAdvectionTerm(eqn, st, c) ==
  CASE eqn = "velocity" /\ Godunov(c) -> MomentumAdvectionGodunov(st, c)
    [] eqn = "velocity" -> MomentumAdvectionMOL(st)
    [] eqn = "vof" -> AdvectVOF(c)
    [] Godunov(c) -> ScalarAdvectionGodunov(eqn, st, c)
    [] OTHER -> ScalarAdvectionMOL(eqn, st)

-----------------------------------------------------------------------------
(* Right-hand sides *)

UsesOldDiffusion(diffusion) == diffusion # "implicit"

Advance(eqn, op, reads) == << Kernel(op, reads, {New(eqn)}, "next") >>

PredictorRHS(eqn, diffusion, c) ==
  Advance(eqn, "predictor_rhs",
          {Old(eqn), Src(eqn), Conv(eqn, TermState("Old", c)), MaskCell,
           Old("density"), New("density")} \cup
          (IF UsesOldDiffusion(diffusion) THEN {Diff(eqn, TermState("Old", c))} ELSE {}))

CorrectorRHS(eqn, diffusion) ==
  Advance(eqn, "corrector_rhs",
          {Old(eqn), Src(eqn), Conv(eqn, "Old"), Conv(eqn, "New"), MaskCell,
           Old("density"), New("density")} \cup
          (IF UsesOldDiffusion(diffusion) THEN {Diff(eqn, "Old")} ELSE {}) \cup
          (IF diffusion = "explicit" THEN {Diff(eqn, "New")} ELSE {}))

DensityRHS(c) ==
  Advance("density", "predictor_rhs",
          {Old("density"), Conv("density", TermState("Old", c)), Src("density")})

DensityCorrectorRHS ==
  Advance("density", "corrector_rhs",
          {Old("density"), Conv("density", "Old"), Conv("density", "New"), Src("density")})

LevelsetRHS(c) ==
  Advance("levelset", "predictor_rhs", {Old("levelset"), Conv("levelset", TermState("Old", c))})

LevelsetCorrectorRHS ==
  Advance("levelset", "corrector_rhs",
          {Old("levelset"), Conv("levelset", "Old"), Conv("levelset", "New")})

ComputePredictorRHS(eqn, diffusion, c) ==
  CASE eqn = "vof" -> << >>
    [] eqn = "density" -> DensityRHS(c)
    [] eqn = "levelset" -> LevelsetRHS(c)
    [] OTHER -> PredictorRHS(eqn, diffusion, c)

ComputeCorrectorRHS(eqn, diffusion) ==
  CASE eqn = "vof" -> << >>
    [] eqn = "density" -> DensityCorrectorRHS
    [] eqn = "levelset" -> LevelsetCorrectorRHS
    [] OTHER -> CorrectorRHS(eqn, diffusion)

(* Explicit diffusion with Godunov: the average of both ends of the step.  *)
ImproveExplicitDiffusion(eqn, c) ==
  If(HasDiffusion(eqn),
     << Copy(New("diff_old"), Diff(eqn, "New")) >> \o
     ComputeDiffusionTerm(eqn, "New", c) \o
     << Look("improve_explicit_diff",
             {Diff(eqn, "New"), New("diff_old"), MaskCell} \cup
             (IF MultiplyRho(eqn) THEN {New("density")} ELSE {})) >>)

-----------------------------------------------------------------------------
(* What follows the solution of an equation, at init and regrid as well.   *)

SetNphDensity == << Midpoint("density") >>

AdvectedFaceDensity ==
  << Compute("advected_facedensity", {New("advalpha")}, {New("advalpha")}) >>

(* tke is clipped, except in the terrain. *)
PostSolveTke(given, c) ==
  << Look("clip tke", {New("tke")} \cup Terrain(c, {"terrain_blank"})) >> \o
  FillPatch(New("tke"), given, c)

PostSolveSdr(given, c) == << Look("clip sdr", {New("sdr")}) >> \o FillPatch(New("sdr"), given, c)

PostSolveVOF(c) ==
  FillPatch(New("vof"), "new", c) \o SetDensityViaVOF \o SetNphDensity \o AdvectedFaceDensity

(* The level set is filled for the current time, also after the step.      *)
PostSolveLevelset == << Kernel("levelset fill", {New("levelset")}, {}, "now") >> \o SetDensityViaLevelset

PostSolve(eqn, given, c) ==
  CASE eqn = "vof" -> PostSolveVOF(c)
    [] eqn = "levelset" -> PostSolveLevelset
    [] eqn = "tke" -> PostSolveTke(given, c)
    [] eqn = "sdr" -> PostSolveSdr(given, c)
    [] OTHER -> FillPatch(New(eqn), given, c)

(* The operators of an equation are made again when the mesh changes; the  *)
(* diffusion operator of tke and sdr clears the implicit source.           *)
ResetOperators(eqn) ==
  CASE eqn = "tke" -> << SetVal("reset", {New("tke_lhs_src_term")}) >>
    [] eqn = "sdr" -> << SetVal("reset", {New("sdr_lhs_src_term")}) >>
    [] eqn = "vof" -> << SetVal("reset", {New("advalpha")}) >>
    [] OTHER -> << >>

(* init_source_terms: the terms are made after the physics have started,   *)
(* and some start from the averages there are.                             *)
InitSourceTerms(eqn, c) ==
  If(eqn = "velocity" /\ SourceIn("ABLForcing", c),
     << SetVal("ABLForcing", {Host("abl_forcing")}) >>) \o
  If(eqn = "velocity" /\ SourceIn("ABLMeanBoussinesq", c),
     << Compute("mean_temperature_init", {Host("temp_plane")}, {Host("mean_boussinesq")}) >>) \o
  If(eqn = "velocity" /\ SourceIn("ABLMesoForcingMom", c), MesoscaleForcing("meso_mom", c)) \o
  If(eqn = "temperature" /\ SourceIn("ABLMesoForcingTemp", c), MesoscaleForcing("meso_temp", c)) \o
  If(eqn = "velocity" /\ SourceIn("HurricaneForcing", c),
     << Compute("mean_velocity_init", {Host("vel_plane")}, {Host("hurricane")}) >>) \o
  If(eqn = "temperature" /\ SourceIn("HurricaneTempForcing", c),
     << Compute("mean_velocity_init", {Host("vel_plane")}, {Host("hurricane_temp")}) >>)

EquationInitialize(eqn, c) ==
  ResetOperators(eqn) \o InitSourceTerms(eqn, c) \o PostSolve(eqn, "now", c)

EquationPostRegrid(eqn, c) == ResetOperators(eqn) \o PostSolve(eqn, "now", c)

=============================================================================
