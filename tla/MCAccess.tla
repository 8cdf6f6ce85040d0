------------------------------ MODULE MCAccess ------------------------------
(***************************************************************************)
(* One user, one role and one token; a request is identified step by step  *)
(* while two edits, their marks and the clock go on beside it.             *)
(***************************************************************************)
EXTENDS Access

\* One permission, granted or not.
MCPermissions == {<<"stack", "view">>}

=============================================================================
