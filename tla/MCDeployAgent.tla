--------------------------- MODULE MCDeployAgent ---------------------------
(* Model-checking instance of DeployAgent: three Swirl containers, hence   *)
(* up to two successive deploys that create a container each.              *)
EXTENDS DeployAgent
=============================================================================
