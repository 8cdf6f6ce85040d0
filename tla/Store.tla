-------------------------------- MODULE Store --------------------------------
(***************************************************************************)
(* What the callers of dao.Interface rely on, whichever engine is behind   *)
(* it: one row per id; an id is not used twice; an update may change what  *)
(* a form edits, yet leaves alone who created the row and what another     *)
(* flow owns, and never blanks a stored secret.                            *)
(***************************************************************************)
CONSTANTS Nil, Keys, Row, Empty
VARIABLES rows,     \* the collection: a row, or Nil, under each id
          gone      \* ids whose row was deleted

vars == <<rows, gone>>

Init == rows = [k \in Keys |-> Nil] /\ gone = {}

Others(k) == \A j \in Keys \ {k} : rows'[j] = rows[j]

Create(k) ==
    /\ rows[k] = Nil /\ k \notin gone /\ rows'[k] \in Row
    /\ Others(k) /\ UNCHANGED gone

Update(k) ==
    /\ rows[k] # Nil /\ rows'[k] \in Row
    /\ rows'[k].made = rows[k].made
    /\ rows'[k].secret = Empty => rows[k].secret = Empty
    /\ Others(k) /\ UNCHANGED gone

\* The flow a field belongs to may rewrite it; nothing but a form may rename the row.
Own(k) ==
    /\ rows[k] # Nil
    /\ \E o \in {r.owned : r \in Row} : rows' = [rows EXCEPT ![k].owned = o]
    /\ UNCHANGED gone

Delete(k) ==
    /\ rows' = [rows EXCEPT ![k] = Nil]
    /\ gone' = gone \cup {k}

Next == \E k \in Keys :
    \/ Create(k) \/ (Update(k) /\ rows'[k].owned = rows[k].owned)
    \/ Own(k) \/ Delete(k)

Spec == Init /\ [][Next]_vars

=============================================================================
