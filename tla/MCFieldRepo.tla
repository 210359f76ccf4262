---------------------------- MODULE MCFieldRepo ----------------------------
(* A field with states that is kept on regrid, one that is not, and the    *)
(* second declarations that other modules make, right and wrong.           *)
EXTENDS FieldRepo

D(n, s, g, k, keep) == [name |-> n, shape |-> s, ngrow |-> g, nstates |-> k, keep |-> keep]

AllNames == {"velocity", "mueff"}
AllShapes == {"scalar", "vector"}

SomeDecls ==
  { D("velocity", "vector", 3, 2, TRUE), D("velocity", "vector", 3, 1, FALSE),
    D("mueff", "scalar", 1, 1, FALSE), D("mueff", "scalar", 1, 4, FALSE) }

GhostDecls == { D("mueff", "scalar", 1, 1, FALSE), D("mueff", "scalar", 2, 1, FALSE) }

SomeValues == {1, 2}
OneValue == {1}

=============================================================================
