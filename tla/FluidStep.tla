----------------------------- MODULE FluidStep -----------------------------
(***************************************************************************)
(* One step of the flow solver (incflo_advance.cpp and the projection) as  *)
(* sequences of kernels, in the stages of the code: what is done once      *)
(* before a step, the predictor, the corrector of the method of lines, and *)
(* the step with a prescribed velocity.                                    *)
(***************************************************************************)
EXTENDS Equations

AllScalars(c, Kernels(_)) == ForEach(c.scalars, Kernels)

NeedDivtau(c) == Godunov(c) \/ c.diffusion # "implicit"

-----------------------------------------------------------------------------
(* PDEMgr *)

AdvanceAllStates(c) ==
  If(ConstantDensity(c), AdvanceStates("density")) \o AdvanceStates("velocity") \o
  AllScalars(c, LAMBDA f : AdvanceStates(f))

(* The boundaries of the half time, on top of the cells of the old one.    *)
PrepareBoundaries(c) ==
  If(ConstantDensity(c), << Copy(NPH("density"), New("density")) >>) \o
  << Copy(NPH("velocity"), New("velocity")) >> \o FillPhysBC(NPH("velocity"), "half", c) \o
  AllScalars(c, LAMBDA f :
    AdvanceStates(f) \o << Copy(NPH(f), New(f)) >> \o FillPhysBC(NPH(f), "half", c)) \o
  FillMacGhosts("half", FALSE, c)

FillpatchStateFields(given, c) ==
  If(ConstantDensity(c), FillPatch(New("density"), given, c)) \o
  FillPatch(New("velocity"), given, c) \o
  AllScalars(c, LAMBDA f : FillPatch(New(f), given, c))

DensityCheck == << Look("density_check", {New("density")}) >>

-----------------------------------------------------------------------------
(* compute_dt *)

ComputeDt(c) ==
  << Look("compute_dt", {New("velocity"), Src("velocity"), New("density"), MaskCell} \cup
                        IfThere(HasVOF(c), {New("vof")}) \cup
                        IfThere(c.diffusion = "explicit", {Mueff("velocity")})) >>

ComputePrescribeDt(c) ==
  << Look("compute_prescribe_dt", {MacVelocity, MaskCell} \cup IfThere(HasVOF(c), {New("vof")})) >>

-----------------------------------------------------------------------------
(* The nodal projection *)

VariableDensity(c) == ~ConstantDensity(c) \/ c.interface # "none"

PrePressureCorrection(c) == If(Has("IB", c), IBUpdateVelocities)

(* The mean pressure, where the true pressure is reconstructed.            *)
AddReferencePressure(c) ==
  If("reference_pressure" \in c.extra,
     << Update("add p0", New("p"), New("reference_pressure")) >>)

(* The velocity keeps its time; the pressure gradient is of the new one.   *)
(* At time zero, for the initial projection and the initial iterations, p0 *)
(* is not added.                                                           *)
ApplyProjection(given, incremental, c) ==
  PrePressureCorrection(c) \o
  If(~incremental, << Look("add pressure gradient",
                           States({"velocity", "gp", "density"}, "New")) >>) \o
  If(incremental, << Look("subtract old velocity", {Old("velocity")}) >>) \o
  If(VariableDensity(c), << Look("sigma", {New("density")} \cup
       IfThere("anelastic" \in c.extra, {New("reference_density")})) >>) \o
  If(~incremental, SetNodalInflow(given, c) \o If(HasInOut("velocity", c), ApplyBCFuncs("velocity", "New", c))) \o
  If(Has("IB", c) \/ c.overset, << Look("mask", {MaskNode}) >>) \o
  If(c.overset /\ ~incremental, << Look("first guess", {New("p")}) >>) \o
  << Kernel("project", {New("velocity")}, States({"gp", "p"}, "New"), given) >> \o
  If(given = "new" /\ ~incremental, AddReferencePressure(c)) \o
  FillPatch(New("velocity"), "new", c)

-----------------------------------------------------------------------------
(* The predictor *)

(* From the second fixed-point iteration on, the velocity of the half time *)
(* is the mean of both ends of the step.                                   *)
RefreshHalfTimeVelocity(c) ==
  << Kernel("stale fill", {New("velocity")}, {}, "now") >> \o
  BoundaryFill("velocity", "now", c) \o << Midpoint("velocity") >>

TurbulentProperties(st, c) ==
  UpdateTurbulentViscosity(st, c) \o ComputeMueff("velocity", c) \o
  AllScalars(c, LAMBDA f : ComputeMueff(f, c))

OldSources(c) ==
  If(Godunov(c), ComputeSourceTerm("velocity", "Old", c) \o
                 AllScalars(c, LAMBDA f : ComputeSourceTerm(f, "Old", c)))

\* Mutant: the diffusion is computed from what the last iteration left.
OldDiffusionOf_NoCopy(eqn, c) ==
  ComputeDiffusionTerm(eqn, "Old", c) \o
  If(Godunov(c) /\ HasDiffusion(eqn), << Update("add", Src(eqn), Diff(eqn, "New")) >>)

OldDiffusionOf(eqn, c) ==
  << CopyState(eqn, "New", "Old") >> \o ComputeDiffusionTerm(eqn, "Old", c) \o
  If(Godunov(c) /\ HasDiffusion(eqn), << Update("add", Src(eqn), Diff(eqn, "New")) >>)

OldDiffusion(c) ==
  If(NeedDivtau(c), OldDiffusionOf("velocity", c) \o
                    AllScalars(c, LAMBDA f : OldDiffusionOf(f, c)))

FillSource(eqn, c) == FillPatchOf(Src(eqn), "now")

PreAdvection(it, newer, c) ==
  If(Godunov(c), << Update("divide", Src("velocity"), Old("density")) >> \o
                 FillSource("velocity", c) \o AllScalars(c, LAMBDA f : FillSource(f, c))) \o
  PreAdvectionActions(IF it = 0 THEN "Old" ELSE "NPH", newer, c) \o
  If(ConstantDensity(c), << Copy(NPH("density"), Old("density")) >>)

(* Crank-Nicolson and implicit diffusion solve for it; explicit diffusion  *)
(* with Godunov is made second order.                                      *)
FinishDiffusion(eqn, c) ==
  IF c.diffusion # "explicit" THEN Solve(eqn, c)
  ELSE If(Godunov(c), ImproveExplicitDiffusion(eqn, c))

\* Mutant: the half-time state is left as the boundaries prepared it.
AdvanceScalar_NoMidpoint(eqn, c) ==
  ComputeAdvectionTerm(eqn, "Old", c) \o ComputeSourceTerm(eqn, "NPH", c) \o
  ComputePredictorRHS(eqn, c.diffusion, c) \o FinishDiffusion(eqn, c) \o PostSolve(eqn, "new", c)

AdvanceScalar(eqn, c) ==
  ComputeAdvectionTerm(eqn, "Old", c) \o ComputeSourceTerm(eqn, "NPH", c) \o
  ComputePredictorRHS(eqn, c.diffusion, c) \o FinishDiffusion(eqn, c) \o
  PostSolve(eqn, "new", c) \o << Midpoint(eqn) >>

AdvanceMomentum(it, c) ==
  ComputeAdvectionTerm("velocity", IF it = 0 THEN "Old" ELSE "NPH", c) \o
  ComputeSourceTerm("velocity", "NPH", c) \o ComputeDiffusionTerm("velocity", "Old", c) \o
  ComputePredictorRHS("velocity", c.diffusion, c) \o FinishDiffusion("velocity", c) \o
  PostSolve("velocity", "new", c)

-----------------------------------------------------------------------------
(* The corrector of the method of lines *)

CorrectorAdvection(c) ==
  PreAdvectionActions("New", TRUE, c) \o
  AllScalars(c, LAMBDA f : ComputeAdvectionTerm(f, "New", c)) \o
  ComputeAdvectionTerm("velocity", "New", c)

CorrectorProperties(c) ==
  TurbulentProperties("New", c) \o
  If(c.diffusion = "explicit",
     ComputeDiffusionTerm("velocity", "New", c) \o
     AllScalars(c, LAMBDA f : ComputeDiffusionTerm(f, "New", c))) \o
  If(ConstantDensity(c), << Copy(NPH("density"), Old("density")) >>)

CorrectScalar(eqn, c) ==
  ComputeSourceTerm(eqn, "New", c) \o ComputeCorrectorRHS(eqn, c.diffusion) \o
  If(c.diffusion # "explicit", Solve(eqn, c)) \o PostSolve(eqn, "new", c) \o << Midpoint(eqn) >>

CorrectMomentum(c) ==
  ComputeSourceTerm("velocity", "New", c) \o ComputeCorrectorRHS("velocity", c.diffusion) \o
  If(c.diffusion # "explicit", Solve("velocity", c)) \o PostSolve("velocity", "new", c)

-----------------------------------------------------------------------------
(* The step with a prescribed velocity: no source and no projection for    *)
(* the momentum.                                                           *)

PrescribeProperties(c) ==
  UpdateTurbulentViscosity("Old", c) \o AllScalars(c, LAMBDA f : ComputeMueff(f, c)) \o
  If(Godunov(c), AllScalars(c, LAMBDA f : ComputeSourceTerm(f, "Old", c))) \o
  If(NeedDivtau(c), AllScalars(c, LAMBDA f : OldDiffusionOf(f, c))) \o
  If(Godunov(c), AllScalars(c, LAMBDA f : FillSource(f, c)))

PrescribeAdvection(c) ==
  AllScalars(c, LAMBDA f : ComputeAdvectionTerm(f, "Old", c)) \o
  If(ConstantDensity(c), << Copy(NPH("density"), Old("density")) >>)

PrescribeScalar(eqn, c) ==
  ComputeSourceTerm(eqn, "NPH", c) \o ComputePredictorRHS(eqn, c.diffusion, c) \o
  If(c.diffusion # "explicit", Solve(eqn, c)) \o PostSolve(eqn, "new", c) \o << Midpoint(eqn) >>

PrescribeMomentum(c) ==
  ComputeAdvectionTerm("velocity", "Old", c) \o
  ComputePredictorRHS("velocity", "explicit", c) \o PostSolve("velocity", "new", c)

=============================================================================
