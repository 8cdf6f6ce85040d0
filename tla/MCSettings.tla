----------------------------- MODULE MCSettings -----------------------------
(* Model-checking instance of Settings: two handlers and one registry. *)
EXTENDS Settings
=============================================================================
