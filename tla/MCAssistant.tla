---------------------------- MODULE MCAssistant ----------------------------
(* Model checking of Assistant.                                            *)
EXTENDS Assistant, TLC

Symmetry == Permutations(Handler) \cup Permutations(Chat)
=============================================================================
