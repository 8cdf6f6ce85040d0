---------------------------- MODULE MCFederation ----------------------------
(* Model-checking instance of Federation: one peer and two interchangeable  *)
(* handlers, three tokens, or two and a failure.                            *)
EXTENDS Federation, TLC

Symmetry == Permutations(Handler)
=============================================================================
