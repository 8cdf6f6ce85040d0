--------------------------- MODULE MCStackSecrets ---------------------------
(* Model-checking instance of StackSecrets: two services, a binding edited *)
(* twice, a Vault entry of up to two fields and three versions.            *)
EXTENDS StackSecrets, TLC

CONSTANTS s1, s2, f1, f2, v1, v2

Started == <<s1, s2>>
\* a variable in every container; a file of one service; one refused
Forms == {[service |-> All, field |-> NoField, store |-> "env"],
          [service |-> s1, field |-> f1, store |-> "init"],
          [service |-> s1, field |-> NoField, store |-> "nfs"]}
\* one field or the other: an append makes both
Payloads == {f1 :> v1, f2 :> v2}
=============================================================================
