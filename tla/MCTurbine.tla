------------------------------ MODULE MCTurbine ------------------------------
(* A turbine with two sub-steps in a step, added to the flow at its start  *)
(* or to a flow of two steps; both solvers, and up to three runs.          *)
EXTENDS Turbine

BothKinds == {"fast", "kynema_fmb"}
OnlyFast == {"fast"}
BothModes == {"restart", "replay"}
AtStart == {0, 2}
GivenOrNot == {NotGiven, 0, 1}
=============================================================================
