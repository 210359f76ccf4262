----------------------------- MODULE Turbulence -----------------------------
(***************************************************************************)
(* The turbulence models and the transport models as the fields that their *)
(* updates read and write.  c is the configuration of the run (StepData).  *)
(***************************************************************************)
EXTENDS FieldStates

(* A physics of the run; c.physics is the list of the input file. *)
Has(physics, c) == \E i \in DOMAIN c.physics : c.physics[i] = physics

-----------------------------------------------------------------------------
(* Transport models: what the laminar properties are computed from.        *)

ConstTransport == {}

(* The volume fraction or the level set decides which fluid a cell is in.  *)
TwoPhaseTransport(c) == IF c.interface = "LS" THEN {New("levelset")} ELSE {New("vof")}

Transport(c) == IF c.transport = "TwoPhase" THEN TwoPhaseTransport(c) ELSE ConstTransport

(* The thermal expansion coefficient, one over the reference temperature.  *)
ConstBeta(c) == IF "anelastic" \in c.extra THEN {New("reference_temperature")} ELSE {}

TwoPhaseBeta(c) == ConstBeta(c) \cup TwoPhaseTransport(c)

Beta(c) == IF c.transport = "TwoPhase" THEN TwoPhaseBeta(c) ELSE ConstBeta(c)

-----------------------------------------------------------------------------
(* update_turbulent_viscosity(fstate), the diffusion type not used           *)

Flow(st) == States({"velocity", "density"}, st)

Smagorinsky(st) == << Compute("Smagorinsky", Flow(st), {New("mu_turb")}) >>

AMDNoTherm(st) == << Compute("AMDNoTherm", Flow(st), {New("mu_turb")}) >>

(* The stratification is measured against the mean of the New temperature. *)
AMD(st, c) ==
  << Compute("AMD", Flow(st) \cup {<< "temperature", st >>, New("temperature")} \cup Beta(c),
             {New("mu_turb")}) >>

Kosovic(st, c) ==
  << Compute("Kosovic",
             Flow(st) \cup {<< "temperature", st >>} \cup
               (IF c.terrain
                THEN States({"terrain_blank", "terrain_drag", "terrain_height", "terrainz0"}, "New")
                ELSE {}),
             States({"mu_turb", "Nij", "divNij"}, "New")) >>

OneEqFields == States({"mu_turb", "turb_lscale", "shear_prod", "buoy_prod"}, "New")

OneEqKsgsM84(st, c) ==
  << Compute("OneEqKsgsM84",
             Flow(st) \cup {<< "temperature", st >>, New("tke")} \cup Beta(c), OneEqFields) >>

KLAxell(st, c) ==
  << Compute("KLAxell",
             Flow(st) \cup {<< "temperature", st >>, New("tke")} \cup Beta(c) \cup
               (IF c.terrain THEN States({"terrain_height", "terrain_blank"}, "New") ELSE {}),
             OneEqFields) >>

SSTReads(st) == Flow(st) \cup States({"tke", "sdr"}, st) \cup {New("wall_dist")}

SSTWrites ==
  States({"mu_turb", "shear_prod", "dissipation", "omega_src", "sdr_dissipation", "f1",
          "tke_lhs_src_term", "sdr_lhs_src_term"}, "New")

KOmegaSST(st, c) ==
  << Compute("KOmegaSST", SSTReads(st) \cup Transport(c),
             SSTWrites \cup {New("buoyancy_term")}) >>

(* The detached-eddy variant has no buoyancy term.                         *)
KOmegaSSTIDDES(st, c) ==
  << Compute("KOmegaSSTIDDES", SSTReads(st) \cup Transport(c),
             SSTWrites \cup {New("rans_indicator")}) >>

UpdateTurbulentViscosity(st, c) ==
  CASE c.turbulence = "Laminar" -> << >>
    [] c.turbulence = "Smagorinsky" -> Smagorinsky(st)
    [] c.turbulence = "AMDNoTherm" -> AMDNoTherm(st)
    [] c.turbulence = "AMD" -> AMD(st, c)
    [] c.turbulence = "Kosovic" -> Kosovic(st, c)
    [] c.turbulence = "OneEqKsgsM84" -> OneEqKsgsM84(st, c)
    [] c.turbulence = "KLAxell" -> KLAxell(st, c)
    [] c.turbulence = "KOmegaSST" -> KOmegaSST(st, c)
    [] c.turbulence = "KOmegaSSTIDDES" -> KOmegaSSTIDDES(st, c)

-----------------------------------------------------------------------------
(* TurbulenceOp: the effective viscosity or diffusivity of an equation     *)

Mueff(eqn) == << eqn, "mueff" >>

(* visc_update, alpha_update and scal_diff_update of TurbModelBase.        *)
FromMuTurb(eqn, c) ==
  << Compute("mueff", {New("mu_turb")} \cup Transport(c), {Mueff(eqn)}) >>

LaminarMueff(eqn, c) == << Compute("mueff", Transport(c), {Mueff(eqn)}) >>

(* AMD computes the diffusivity from the New fields, in every stage.       *)
AMDAlphaeff ==
  << Compute("AMD alphaeff", States({"velocity", "temperature", "density"}, "New"),
             {Mueff("temperature")}) >>

KosovicAlphaeff(c) ==
  << Compute("Kosovic alphaeff", {New("mu_turb")} \cup Transport(c), {Mueff("temperature")}) >>

OneEqAlphaeff(c) ==
  << Compute("OneEq alphaeff", States({"mu_turb", "turb_lscale"}, "New") \cup Transport(c),
             {Mueff("temperature")}) >>

KLAxellAlphaeff(c) ==
  << Compute("KLAxell alphaeff",
             States({"mu_turb", "turb_lscale", "tke", "temperature"}, "New")
               \cup Transport(c) \cup Beta(c),
             {Mueff("temperature")}) >>

UpdateAlphaeff(c) ==
  CASE c.turbulence = "Laminar" -> LaminarMueff("temperature", c)
    [] c.turbulence = "AMD" -> AMDAlphaeff
    [] c.turbulence = "Kosovic" -> KosovicAlphaeff(c)
    [] c.turbulence = "OneEqKsgsM84" -> OneEqAlphaeff(c)
    [] c.turbulence = "KLAxell" -> KLAxellAlphaeff(c)
    [] OTHER -> FromMuTurb("temperature", c)

(* Twice mu_turb, for the turbulent kinetic energy only.                   *)
OneEqScalarDiff(eqn) == << Compute("OneEq diff", {New("mu_turb")}, {Mueff(eqn)}) >>

KLAxellScalarDiff(eqn) == << Compute("KLAxell diff", {New("mu_turb")}, {Mueff(eqn)}) >>

SSTScalarDiff(eqn, c) ==
  << Compute("SST diff", States({"mu_turb", "f1"}, "New") \cup Transport(c), {Mueff(eqn)}) >>

UpdateScalarDiff(eqn, c) ==
  CASE c.turbulence = "Laminar" -> LaminarMueff(eqn, c)
    [] c.turbulence = "OneEqKsgsM84" -> OneEqScalarDiff(eqn)
    [] c.turbulence = "KLAxell" -> KLAxellScalarDiff(eqn)
    [] c.turbulence \in {"KOmegaSST", "KOmegaSSTIDDES"} -> SSTScalarDiff(eqn, c)
    [] OTHER -> FromMuTurb(eqn, c)

(* Equations without diffusion have no turbulence operation.               *)
ComputeMueff(eqn, c) ==
  CASE eqn = "velocity" ->
         IF c.turbulence = "Laminar" THEN LaminarMueff(eqn, c) ELSE FromMuTurb(eqn, c)
    [] eqn = "temperature" -> UpdateAlphaeff(c)
    [] eqn \in {"tke", "sdr", "passive_scalar"} -> UpdateScalarDiff(eqn, c)
    [] OTHER -> << >>

-----------------------------------------------------------------------------
(* Hybrid RANS/LES: OneEqKsgsM84 renews the dissipation rate after a step. *)

TurbulencePostAdvance(c) ==
  If(c.turbulence = "OneEqKsgsM84" /\ Has("HybridRANSLESABL", c),
     << Compute("sdr from tke", {New("tke")}, {New("sdr")}) >>)

=============================================================================
