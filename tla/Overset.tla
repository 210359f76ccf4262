------------------------------ MODULE Overset ------------------------------
(***************************************************************************)
(* Coupling with another solver on an overlapping mesh, as kernels.  The   *)
(* connectivity and the exchange are called by the program that drives     *)
(* both solvers, which is not part of this code.                           *)
(***************************************************************************)
EXTENDS FluidStep

Masks == States({"mask_cell", "mask_node"}, "New")

Blanks == States({"iblank_cell", "iblank_node"}, "New")

(* The fields that both solvers have. *)
Exchanged(c) == States({"velocity", "p"} \cup IF HasVOF(c) THEN {"vof"} ELSE {}, "New")

-----------------------------------------------------------------------------
(* TiogaInterface *)

ResetMasks == << Kernel("reset masks", {}, Masks, "static") >>

PreOversetConnWork == << Kernel("iblank", {}, Blanks, "static") >>

(* The equations make their operators again for the new masks.             *)
PostOversetConnWork(c) ==
  << Kernel("iblank", {}, Blanks, "static"), Compute("iblank_to_mask", Blanks, Masks) >> \o
  EquationPostRegrid("velocity", c) \o AllScalars(c, LAMBDA f : EquationPostRegrid(f, c))

(* is_during_overset_advance chooses the time of the ghost cells.          *)
ExchangeTime(during) == IF during THEN "new" ELSE "now"

RegisterSolution(during, c) ==
  << Kernel("register_solution", Exchanged(c), {}, ExchangeTime(during)) >>

UpdateSolution(during, c) ==
  << Compute("overset solution", Exchanged(c), Exchanged(c)),
     Kernel("update_solution", Exchanged(c), {}, ExchangeTime(during)) >>

-----------------------------------------------------------------------------
(* OversetOps, around every fixed-point iteration *)

UpdateGradp == << Compute("update_gradp", {New("p")}, {New("gp")}) >>

FormPerturbPressure(c) ==
  If("reference_pressure" \in c.extra,
     << Look("form_perturb_pressure", {New("p"), New("reference_pressure")}) >>)

OversetPreAdvance(c) ==
  UpdateGradp \o
  If(HasVOF(c),
     FormPerturbPressure(c) \o UpdateGradp \o
     << Compute("iblank_node_to_mask_vof", {New("iblank_node"), New("vof")}, {MaskNode}),
        Copy(New("gp_copy"), New("gp")) >>) \o
  PlanesInnerCalls(c)

ReplaceMaskedGradp ==
  << Look("replace_masked_gradp",
          States({"velocity", "density", "gp", "gp_copy", "iblank_cell"}, "New")) >>

OversetPostAdvance(c) == If(HasVOF(c), ReplaceMaskedGradp)

=============================================================================
