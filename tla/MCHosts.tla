------------------------------- MODULE MCHosts -------------------------------
(* Model-checking instance of Hosts: one handler that edits, one that does  *)
(* not, and the probe of the boot.                                          *)
EXTENDS Hosts
=============================================================================
