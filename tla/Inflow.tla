------------------------------- MODULE Inflow -------------------------------
(***************************************************************************)
(* Boundary conditions and how ghost cells get them: the conditions that   *)
(* the input file asks for, the fill operations of a field, the planes of  *)
(* a precursor run that are written and read (BoundaryPlane), and the      *)
(* power law whose direction turns with time (ModulatedPowerLaw).          *)
(*                                                                         *)
(* c.planes is "none", "output", "input" (a plane for every time),         *)
(* "static" (one plane of a file) or "initial" (one plane of the start of  *)
(* this run); c.plane_fields are its fields.  c.mpl tells whether the      *)
(* power law is there; c.faces are the kinds of faces of the domain.       *)
(***************************************************************************)
EXTENDS SourceTerms

HasVOF(c) == c.interface = "VOF"

-----------------------------------------------------------------------------
(* The boundary conditions of a field: types, values and the functions     *)
(* that replace values.  A source term has its own.                        *)

BC(f) == << f, "bc" >>

SourceBC(f) == << f, "src bc" >>

BCOf(slot) == IF slot[2] = "src" THEN SourceBC(slot[1]) ELSE BC(slot[1])

SetBC(op, slots) == << Kernel(op, {}, slots, "static") >>

(* BCIface::operator(): default value, types, records, values, functions.  *)
BCVelocity == SetBC("BCVelocity", {BC("velocity")})

BCScalar(f) == SetBC("BCScalar", {BC(f)})

BCPressure == SetBC("BCPressure", {BC("p")})

BCSrcTerm(eqn) == SetBC("BCSrcTerm", {SourceBC(eqn)})

BCFillPatchExtrap(fs) == SetBC("BCFillPatchExtrap", {BC(f) : f \in fs})

(* init_bcs of the momentum equation *)
MomentumBCs ==
  BCVelocity \o BCScalar("density") \o BCPressure \o BCSrcTerm("velocity") \o
  BCFillPatchExtrap({"gp"})

(* init_bcs of a scalar equation *)
ScalarBCs(f) == BCScalar(f) \o BCSrcTerm(f)

(* set_default_fillpatch_bc of the fields that the models declare. *)
ModelBCs(c) ==
  BCFillPatchExtrap({"wall_dist", "mu_turb"} \cup
                    IF HasVOF(c) THEN {"levelset", "interface_curvature"} ELSE {})

InitBCs(c) == MomentumBCs \o ForEach(c.scalars, LAMBDA f : ScalarBCs(f)) \o ModelBCs(c)

-----------------------------------------------------------------------------
(* Boundary conditions that look at the flow *)

(* set_bcfuncs: which faces have them. *)
HasInOut(eqn, c) == "inflow-outflow" \in c.faces /\ eqn \in {"velocity", "temperature"}

(* Where the velocity leaves the domain, the ghost cells get the value     *)
(* inside.                                                                 *)
MassInflowOutflowBC(eqn) == << Look("MassInflowOutflowBC", States({eqn, "velocity"}, "New")) >>

FixedGradientBC(eqn) == << Look("FixedGradientBC", {BC(eqn)}) >>

CustomBCs(eqn, c) ==
  If("fixed gradient" \in c.faces, FixedGradientBC(eqn)) \o
  If(HasInOut(eqn, c), MassInflowOutflowBC(eqn))

-----------------------------------------------------------------------------
(* BoundaryPlane.  The file is what a run leaves behind; the window are    *)
(* the two planes around a time; the planes are interpolated in it.        *)

PlaneFile == Host("plane file")

PlaneTimes == Host("plane times")

PlaneWindow == Host("plane window")

Planes == Host("planes")

ReadsPlanes(c) == c.planes \in {"input", "static", "initial"}

IsStatic(c) == c.planes \in {"static", "initial"}

(* initialize_data: the fields of the input file take their ghost cells    *)
(* from the planes.                                                        *)
FromPlanes(f, c) == ReadsPlanes(c) /\ f \in c.plane_fields

WritesPlanes(fresh, c) == c.planes = "output" \/ (c.planes = "initial" /\ fresh)

WriteHeader(fresh, c) ==
  If(WritesPlanes(fresh, c), << Kernel("write_header", {}, {Host("plane header")}, "static") >>)

(* The boxes of the levels that the planes are cut from. *)
WriteNativeHeader == << Kernel("write_bndry_native_header", {}, {Host("plane boxes")}, "static") >>

(* The cells next to the faces, with their ghost cells.                    *)
WriteData(c) ==
  << Compute("write_data", States(c.plane_fields, "New") \cup {Host("plane header")}, {PlaneFile}) >>

(* post_advance_work: the fields are filled for the current time again.    *)
WriteFile(c) ==
  If(c.planes = "output",
     << Kernel("stale fill", States(c.plane_fields, "New"), {}, "now") >> \o
     WriteNativeHeader \o WriteData(c))

(* output_and_use_initial_plane: the plane is extrapolated from inside.    *)
WriteInitialPlane(c) ==
  << Kernel("fillphysbc_type", States(c.plane_fields, "New"), {}, "now") >> \o
  WriteNativeHeader \o WriteData(c)

(* The times of the file; a single plane gets a second time, far ahead.    *)
ReadTimes == << Kernel("read times", {}, {PlaneTimes}, "static") >>

(* Every level that the file has gets room for the data of its faces.      *)
DefinePlanes == << Compute("define_plane", {PlaneTimes}, {Host("plane data")}) >>

ReadHeader == ReadTimes \o DefinePlanes

(* Without a header file, the planes cover the domain. *)
ReadBoxes == << Kernel("read_bndry_native_boxarrays", {}, {Host("plane boxes")}, "static") >>

(* closest_index finds the window of a time; where another time of it has  *)
(* been asked for before, its planes are still there.                      *)
FindWindow == << Look("closest_index", {PlaneTimes}) >>

(* InletData::read_data_native: the mean of the cells on both sides of a   *)
(* face, for both times.                                                   *)
ReadDataNative ==
  << Compute("read_data_native", {PlaneTimes, Host("plane boxes"), Host("plane data")}, {PlaneWindow}) >>

ReadWindow == FindWindow \o ReadBoxes \o ReadDataNative

(* InletData::interpolate *)
Interpolate(given, c) ==
  << Kernel("interpolate", {PlaneTimes, PlaneWindow}, {Planes}, IF IsStatic(c) THEN "static" ELSE given) >>

(* read_file.  A window that still holds the time is kept: it has the same *)
(* contents.  A static plane is read once, and stays.                      *)
ReadFile(given, c) == If(ReadsPlanes(c), ReadWindow \o Interpolate(given, c))

(* Where the phase or the terrain do not match, nothing is copied.         *)
PlaneGate(f, c) ==
  If(f \notin {"density", "vof"},
     << Look("plane gate", IfThere(HasVOF(c), {New("vof")}) \cup
                           IfThere(f = "velocity", Terrain(c, {"terrain_blank"}))) >>)

(* populate_data aborts unless the planes are of the time of the fill.     *)
PopulateData(f, given, c) == << Kernel("plane inflow", {Planes}, {}, given) >> \o PlaneGate(f, c)

PlanesPostInit(fresh, c) ==
  WriteHeader(fresh, c) \o If(c.planes = "initial" /\ fresh, WriteInitialPlane(c)) \o
  If(ReadsPlanes(c), ReadHeader \o ReadFile("now", c))

(* "this method updates plane data for the sake of the boundaries during   *)
(* advection to nph time"                                                  *)
PlanesInnerCalls(c) == ReadFile("half", c)

PlanesPreAdvance(c) == If(~c.overset, PlanesInnerCalls(c))

PlanesPrePredictor(c) == ReadFile("new", c)

PlanesPostAdvance(c) == WriteFile(c)

-----------------------------------------------------------------------------
(* ModulatedPowerLaw *)

MPL == Host("mpl")

FromMPL(f, c) == c.mpl /\ f \in {"velocity", "temperature"}

MPLInit(c) == If(c.mpl, << Kernel("mpl", {}, {MPL}, "start") >>)

(* The direction turns from step to step; a controller may give it.        *)
MPLPreAdvance(c) ==
  If(c.mpl, IF "helics" \in c.extra
            THEN << Kernel("target wind", {Host("wind")}, {MPL}, "new") >>
            ELSE << Kernel("turn", {MPL}, {MPL}, "new") >>)

(* The profile is a function of height, whatever time it is filled for.    *)
MPLSetVelocity == << Look("mpl inflow", {MPL}) >>

MPLSetTemperature == << Look("mpl temperature", {}) >>

FillMPL(f) == IF f = "velocity" THEN MPLSetVelocity ELSE MPLSetTemperature

-----------------------------------------------------------------------------
(* The fill operations of a field *)

(* FieldFillPatchOps: the neighbours, the coarse level, the boundary.      *)
FillPatchOf(slot, given) == << Kernel("fillpatch", {slot, BCOf(slot)}, {}, given) >>

(* What a fill of a boundary plane or of the power law puts on top.        *)
BoundaryFill(f, given, c) ==
  If(FromPlanes(f, c), PopulateData(f, given, c)) \o If(FromMPL(f, c), FillMPL(f))

(* "Avoid trying to read after planes have already been populated"         *)
MacBoundaryFill(given, newer, c) ==
  If(FromPlanes("velocity", c) /\ ~newer, PopulateData("velocity", given, c)) \o
  If(c.mpl, MPLSetVelocity)

(* "Currently, input boundary planes account for inflow differently"       *)
MacInflowSkipped(c) == ReadsPlanes(c) \/ c.mpl

SetInflow(given) == << Kernel("set inflow", {BC("velocity")}, {}, given) >>

=============================================================================
