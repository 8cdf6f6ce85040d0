---------------------------- MODULE MCSelfDeploy ----------------------------
(* Model-checking instance of SelfDeploy: two jobs. *)
EXTENDS SelfDeploy
=============================================================================
