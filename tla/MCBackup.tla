------------------------------ MODULE MCBackup ------------------------------
(* Model-checking instance of Backup: two handlers, two passphrases, an    *)
(* archive from before fingerprints and one made during the run.           *)
EXTENDS Backup, TLC

Symmetry == Permutations(Proc) \cup Permutations(Key)
=============================================================================
