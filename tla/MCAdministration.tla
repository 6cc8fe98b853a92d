-------------------------- MODULE MCAdministration --------------------------
(* Model checking of Administration.                                       *)
EXTENDS Administration, TLC

Symmetry == Permutations(Handler)
=============================================================================
