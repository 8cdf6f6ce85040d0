-------------------------------- MODULE MCDao --------------------------------
(***************************************************************************)
(* Two ids, two names of which one occurs in the other, and a search word   *)
(* for which Mongo's regular expressions find "ab" and Bolt nothing.        *)
(***************************************************************************)
EXTENDS Dao

MCPart == [n \in {"a", "ab"} |-> IF n = "a" THEN {"a"} ELSE {"a", "ab"}]

MCHits == [n \in {"a", "ab"} |-> IF n = "a" THEN {"a"} ELSE {"a", "ab", "a."}]

MCCollections == {"user", "role", "registry", "stack", "setting", "chart", "dashboard", "host",
                  "compose_stack", "version", "event", "backup", "archive", "schedule",
                  "vault_secret", "binding"}

=============================================================================
