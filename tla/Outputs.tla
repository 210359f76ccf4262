------------------------------ MODULE Outputs ------------------------------
(***************************************************************************)
(* What looks at the solution without being part of it, as kernels: the    *)
(* criteria that tag cells for refinement and the post-processing of a     *)
(* step.  c.criteria and c.outputs are the lists of the input file,        *)
(* c.tagged and c.sampled the fields they are about.                       *)
(***************************************************************************)
EXTENDS Overset

-----------------------------------------------------------------------------
(* Refinement criteria.  A criterion on gradients fills the ghost cells of *)
(* its field on the mesh that is about to be replaced.                     *)

TagGradient(f, c) == FillPatch(New(f), "now", c) \o << Look("tag gradient", {New(f)}) >>

FieldRefinement(c) == TagGradient(c.tagged, c)

GradientMagRefinement(c) == TagGradient(c.tagged, c)

CurvatureRefinement(c) == TagGradient(c.tagged, c)

VorticityMagRefinement(c) == TagGradient("velocity", c)

QCriterionRefinement(c) == TagGradient("velocity", c)

OversetRefinement == << Look("tag iblank", {New("iblank_cell")}) >>

(* Boxes, cylinders and planes in space need no field. *)
GeometryRefinement == << >>

CartBoxRefinement == << >>

TagOne(name, c) ==
  CASE name = "FieldRefinement" -> FieldRefinement(c)
    [] name = "GradientMagRefinement" -> GradientMagRefinement(c)
    [] name = "CurvatureRefinement" -> CurvatureRefinement(c)
    [] name = "VorticityMagRefinement" -> VorticityMagRefinement(c)
    [] name = "QCriterionRefinement" -> QCriterionRefinement(c)
    [] name = "OversetRefinement" -> OversetRefinement
    [] name = "GeometryRefinement" -> GeometryRefinement
    [] name = "CartBoxRefinement" -> CartBoxRefinement

TagCells(c) == ForEach(c.criteria, LAMBDA name : TagOne(name, c))

-----------------------------------------------------------------------------
(* Post-processing *)

SampleLocations == New("sample_loc")

InterpolateFields(c) == << Look("interpolate_fields", States(c.sampled, "New")) >>

(* The samplers of fixed points: lines, planes, volumes, probes, lidars.   *)
SamplingWorkflow(c) == InterpolateFields(c)

(* The points of the free surface sampler follow the interface; where each *)
(* cell has its points is kept in a field of the sampler.                  *)
FreeSurfaceInit == << Kernel("free surface setup", {}, {SampleLocations}, "static") >>

\* Mutant: the field of the sampler is left as the new mesh has it.
FreeSurfacePostRegrid_Nothing == << >>

FreeSurfacePostRegrid == FreeSurfaceInit

UpdateSamplingLocations ==
  << Look("update_sampling_locations", {SampleLocations, New("vof")}) >>

(* Derived quantities: gradients of the sampled field. *)
DerivedQuantities == << Look("derived quantities", {New("velocity")}) >>

Enstrophy == << Look("enstrophy", States({"velocity", "density"}, "New")) >>

KineticEnergy == << Look("kinetic energy", States({"velocity", "density"}, "New")) >>

WaveKineticEnergy == << Look("wave kinetic energy", States({"velocity", "vof"}, "New")) >>

WavePotentialEnergy == << Look("wave potential energy", {New("vof")}) >>

FieldNorms(c) == << Look("field norms", States(c.sampled, "New")) >>

SubvolumeOutput(c) == << Look("subvolume", States(c.sampled, "New")) >>

OutputInit(name) == If(name = "FreeSurface", FreeSurfaceInit)

OutputPostRegrid(name) == If(name = "FreeSurface", FreeSurfacePostRegrid)

OutputActions(name, c) ==
  CASE name = "Sampling" -> SamplingWorkflow(c) \o DerivedQuantities
    [] name = "FreeSurface" -> UpdateSamplingLocations \o InterpolateFields(c)
    [] name = "Enstrophy" -> Enstrophy
    [] name = "KineticEnergy" -> KineticEnergy
    [] name = "WaveEnergy" -> WaveKineticEnergy \o WavePotentialEnergy
    [] name = "FieldNorms" -> FieldNorms(c)
    [] name = "Subvolume" -> SubvolumeOutput(c)

PostInitOutputs(c) == ForEach(c.outputs, OutputInit)

PostRegridOutputs(c) == ForEach(c.outputs, OutputPostRegrid)

PostAdvanceOutputs(c) == ForEach(c.outputs, LAMBDA name : OutputActions(name, c))

=============================================================================
