-------------------------- MODULE MCBackupRestore --------------------------
(* Model-checking instance of BackupRestore: one API handler beside the    *)
(* scheduler, three archives, two days, an edit, a deletion and a failure.  *)
(* A record of each kind a restore treats in its own way: a setting, a      *)
(* built-in chart and one that is created in the run.                       *)
EXTENDS BackupRestore

Components == <<"settings", "charts">>
Records == {"setting", "chart", "builtin"}
Belongs == [r \in Record |-> IF r = "setting" THEN "settings" ELSE "charts"]
Exportable == Record \ {"builtin"}
Charts == {"chart"}
There == Record \ {"chart"}
=============================================================================
