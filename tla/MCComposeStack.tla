--------------------------- MODULE MCComposeStack ---------------------------
(* Model-checking instance of ComposeStack. *)
EXTENDS ComposeStack, TLC

\* hosts and compose files are interchangeable
Symmetry == Permutations(Host) \cup Permutations(Content)
=============================================================================
