--------------------------- MODULE SettingsProofs ---------------------------
(* What is proved of the settings and of those who may change them: of      *)
(* Settings for any registries, handlers, connections and passwords and any *)
(* number of failing database calls, of Access for any users, roles, tokens *)
(* and requests and any number of edits; the types and every property of    *)
(* the two runs.                                                            *)
EXTENDS Settings, Access, TLAPS

-----------------------------------------------------------------------------
(* Types. *)

\* The zero values and what the operators return have the types of the setting.
LEMMA Typed ==
  /\ Zero \in Blob
  /\ NoJob \in [blob : Blob, target : Registry \cup {None}, clean : BOOLEAN]
  /\ TypeOK => Stored \in Blob
<1>1. Zero \in Blob
  BY DEF Zero, Blob, Password
<1> QED BY <1>1 DEF NoJob, TypeOK, Stored

\* A registry's entry is none of the marks for a registry that is not there.
LEMMA EntryExists == \A e \in Entry : e \notin {None, Gone}
BY SettingsAssumption

\* The controls keep the types of what a handler does and carries.
LEMMA ControlTyped ==
  ASSUME TypeOK, NEW t \in Handler
  PROVE  /\ \A step \in Steps, b \in Blob : Proceed(t, step, b) =>
              /\ pc' \in [Handler -> Steps]
              /\ job' \in [Handler -> [blob : Blob, target : Registry \cup {None}, clean : BOOLEAN]]
         /\ End(t) =>
              /\ pc' \in [Handler -> Steps]
              /\ job' \in [Handler -> [blob : Blob, target : Registry \cup {None}, clean : BOOLEAN]]
         /\ \A step \in Steps, b \in Blob, r \in Registry \cup {None} : Begin(t, step, b, r) =>
              /\ pc' \in [Handler -> Steps]
              /\ job' \in [Handler -> [blob : Blob, target : Registry \cup {None}, clean : BOOLEAN]]
              /\ stale' \in BOOLEAN
<1>1. "idle" \in Steps
  BY DEF Steps
<1>2. \A step \in Steps, b \in Blob : Proceed(t, step, b) =>
              /\ pc' \in [Handler -> Steps]
              /\ job' \in [Handler -> [blob : Blob, target : Registry \cup {None}, clean : BOOLEAN]]
  BY DEF Proceed, TypeOK
<1>3. End(t) =>
              /\ pc' \in [Handler -> Steps]
              /\ job' \in [Handler -> [blob : Blob, target : Registry \cup {None}, clean : BOOLEAN]]
  BY <1>1, Typed DEF End, TypeOK
<1>4. ASSUME NEW step \in Steps, NEW b \in Blob, NEW r \in Registry \cup {None}, Begin(t, step, b, r)
      PROVE  /\ pc' \in [Handler -> Steps]
             /\ job' \in [Handler -> [blob : Blob, target : Registry \cup {None}, clean : BOOLEAN]]
             /\ stale' \in BOOLEAN
  <2>1. pc' \in [Handler -> Steps]
    BY <1>4 DEF Begin, TypeOK
  <2>2. stale' \in BOOLEAN
    BY <1>4 DEF Begin, TypeOK
  <2>3. (Active = {}) \in BOOLEAN /\ \A u : (u \notin Active) \in BOOLEAN
    OBVIOUS
  <2> HIDE DEF Active
  <2>4. job' \in [Handler -> [blob : Blob, target : Registry \cup {None}, clean : BOOLEAN]]
    BY <1>4, <2>3 DEF Begin, TypeOK
  <2> QED BY <2>1, <2>2, <2>4
<1> QED BY <1>2, <1>3, <1>4

\* The initial state is typed.
LEMMA TypeInit == Init => TypeOK
<1> SUFFICES ASSUME Init PROVE TypeOK
  OBVIOUS
<1>1. "idle" \in Steps
  BY DEF Steps
<1>2. 0 \in 0 .. MaxFaults
  <2>1. MaxFaults \in Nat
    BY SettingsAssumption
  <2> QED BY <2>1
<1>3. reg \in [Registry -> Entry \cup {None, Gone}] /\ blob \in Blob \cup {None} /\ live \in Blob
  <2>1. reg = [r \in Registry |-> None] /\ blob = None /\ live = Zero
    BY DEF Init
  <2>2. Zero \in Blob
    BY Typed
  <2> QED BY <2>1, <2>2
<1>4. /\ pc \in [Handler -> Steps]
      /\ job \in [Handler -> [blob : Blob, target : Registry \cup {None}, clean : BOOLEAN]]
  BY <1>1, Typed DEF Init
<1>5. faults \in 0 .. MaxFaults /\ {drift, stale, blind} \subseteq BOOLEAN
  BY <1>2 DEF Init
<1> QED BY <1>3, <1>4, <1>5 DEF TypeOK

\* Failing calls stay within their bound.
LEMMA FailTyped == TypeOK /\ Fail => faults' \in 0 .. MaxFaults
<1> SUFFICES ASSUME TypeOK, Fail PROVE faults' \in 0 .. MaxFaults
  OBVIOUS
<1>1. MaxFaults \in Nat /\ faults \in 0 .. MaxFaults
  BY SettingsAssumption DEF TypeOK
<1>2. faults < MaxFaults /\ faults' = faults + 1
  BY DEF Fail
<1> QED BY <1>1, <1>2

\* Every request step and every restart keeps the types.
LEMMA TypeStep == TypeOK /\ [Next]_vars => TypeOK'
<1> SUFFICES ASSUME TypeOK, [Next]_vars PROVE TypeOK'
  OBVIOUS
<1>b. Stored \in Blob
  BY Typed
<1>k. /\ {"find", "overlay", "put", "reload", "install", "linked", "erase"} \subseteq Steps
      /\ None \in Registry \cup {None}
  BY DEF Steps
<1>1. ASSUME NEW t \in Handler, settingSave(t) PROVE TypeOK'
  <2>1. PICK link \in Registry \cup {None}, conn \in Conn \cup {""},
             pw \in Password \cup {sanitizeForResponse(Stored.pw)} :
          Begin(t, "find", [link |-> link, conn |-> conn, pw |-> pw], None)
    BY <1>1 DEF settingSave
  <2>2. [link |-> link, conn |-> conn, pw |-> pw] \in Blob
    BY DEF Blob, Password, sanitizeForResponse
  <2>3. drift' \in BOOLEAN
    BY <1>1 DEF settingSave, TypeOK
  <2> QED BY <1>1, <1>k, <2>1, <2>2, <2>3, ControlTyped DEF settingSave, TypeOK
<1>2. ASSUME NEW t \in Handler, Receive(t) PROVE TypeOK'
  <2>1. PICK conn \in Conn : Begin(t, "find", [link |-> None, conn |-> conn, pw |-> ""], None)
    BY <1>2 DEF Receive
  <2>2. [link |-> None, conn |-> conn, pw |-> ""] \in Blob
    BY DEF Blob, Password
  <2>3. drift' \in BOOLEAN
    BY <1>2 DEF Receive, TypeOK
  <2> QED BY <1>2, <1>k, <2>1, <2>2, <2>3, ControlTyped DEF Receive, TypeOK
<1>3. ASSUME NEW t \in Handler, Preserve(t) PROVE TypeOK'
  <2>1. job[t].blob \in Blob
    BY DEF TypeOK
  <2>2. blob # None => preserveSecretsFromExisting(job[t].blob) \in Blob
    BY <2>1 DEF preserveSecretsFromExisting, Blob, TypeOK
  <2>3. faults' \in 0 .. MaxFaults /\ blind' \in BOOLEAN
    BY <1>3, FailTyped DEF Preserve, TypeOK
  <2> HIDE DEF preserveSecretsFromExisting
  <2> QED BY <1>3, <1>k, <2>1, <2>2, <2>3, ControlTyped DEF Preserve, TypeOK
<1>4. ASSUME NEW t \in Handler, Overlay(t) PROVE TypeOK'
  <2>1. job[t].blob \in Blob
    BY DEF TypeOK
  <2>2. \A ok \in BOOLEAN : job[t].blob.link # None =>
           overlay(job[t].blob, ok /\ Exists(job[t].blob.link)) \in Blob
    <3>1. Exists(job[t].blob.link) /\ job[t].blob.link \in Registry => reg[job[t].blob.link] \in Entry
      BY DEF Exists, TypeOK
    <3>2. job[t].blob.link # None => job[t].blob.link \in Registry
      BY <2>1 DEF Blob
    <3> QED BY <2>1, <3>1, <3>2 DEF overlay, Blob, Entry, Password
  <2>3. faults' \in 0 .. MaxFaults
    BY <1>4, FailTyped DEF Overlay, TypeOK
  <2> HIDE DEF overlay
  <2> QED BY <1>4, <1>k, <2>1, <2>2, <2>3, ControlTyped DEF Overlay, TypeOK
<1>5. ASSUME NEW t \in Handler, Put(t) PROVE TypeOK'
  <2>1. job[t].blob \in Blob
    BY DEF TypeOK
  <2>2. faults' \in 0 .. MaxFaults /\ drift' \in BOOLEAN
    BY <1>5, FailTyped DEF Put, TypeOK
  <2> QED BY <1>5, <1>k, <2>1, <2>2, ControlTyped DEF Put, TypeOK
<1>6. ASSUME NEW t \in Handler, Reload(t) PROVE TypeOK'
  <2>1. faults' \in 0 .. MaxFaults /\ stale' \in BOOLEAN
    BY <1>6, FailTyped DEF Reload, TypeOK
  <2> QED BY <1>6, <1>b, <1>k, <2>1, ControlTyped DEF Reload, TypeOK
<1>7. ASSUME NEW t \in Handler, Install(t) PROVE TypeOK'
  <2>1. live' \in Blob /\ drift' \in BOOLEAN /\ stale' \in BOOLEAN
    BY <1>7 DEF Install, TypeOK
  <2> QED BY <1>7, <2>1, ControlTyped DEF Install, TypeOK
<1>8. ASSUME NEW t \in Handler, refreshLinkedRegistryCache(t) PROVE TypeOK'
  BY <1>8, <1>k, ControlTyped DEF refreshLinkedRegistryCache, TypeOK
<1>9. ASSUME NEW t \in Handler, Erase(t) PROVE TypeOK'
  <2>1. faults' \in 0 .. MaxFaults /\ drift' \in BOOLEAN
    BY <1>9, FailTyped DEF Erase, TypeOK
  <2>2. reg' \in [Registry -> Entry \cup {None, Gone}]
    BY <1>9 DEF Erase, TypeOK
  <2> QED BY <1>9, <2>1, <2>2, ControlTyped DEF Erase, TypeOK
<1>10. ASSUME NEW t \in Handler, NEW r \in Registry, RegistryCreate(t, r) PROVE TypeOK'
  BY <1>10 DEF RegistryCreate, TypeOK
<1>11. ASSUME NEW t \in Handler, NEW r \in Registry, RegistryUpdate(t, r) PROVE TypeOK'
  <2>1. reg[r] \in Entry
    BY <1>11 DEF RegistryUpdate, Exists, TypeOK
  <2>2. reg' \in [Registry -> Entry \cup {None, Gone}]
    <3>1. PICK e \in Entry : reg' = [reg EXCEPT ![r] = [conn |-> e.conn,
                                        pw |-> IF e.pw = "" THEN reg[r].pw ELSE e.pw]]
      BY <1>11 DEF RegistryUpdate
    <3>2. [conn |-> e.conn, pw |-> IF e.pw = "" THEN reg[r].pw ELSE e.pw] \in Entry
      BY <2>1 DEF Entry
    <3> QED BY <3>1, <3>2 DEF TypeOK
  <2>3. drift' \in BOOLEAN
    BY <1>11 DEF RegistryUpdate, TypeOK
  <2>4. Begin(t, "linked", Zero, r)
    BY <1>11 DEF RegistryUpdate
  <2> QED BY <1>11, <1>k, <2>2, <2>3, <2>4, ControlTyped, Typed DEF RegistryUpdate, TypeOK
<1>12. ASSUME NEW t \in Handler, NEW r \in Registry, RegistryDelete(t, r) PROVE TypeOK'
  <2>1. drift' \in BOOLEAN
    BY <1>12 DEF RegistryDelete, TypeOK
  <2>2. Begin(t, "erase", Zero, r)
    BY <1>12 DEF RegistryDelete
  <2> QED BY <1>12, <1>k, <2>1, <2>2, ControlTyped, Typed DEF RegistryDelete, TypeOK
<1>13. CASE Restart
  <2>1. "idle" \in Steps
    BY DEF Steps
  <2>2. drift' \in BOOLEAN
    BY <1>13 DEF Restart, TypeOK
  <2> QED BY <1>13, <1>b, <2>1, <2>2, Typed DEF Restart, TypeOK
<1>14. CASE UNCHANGED vars
  BY <1>14 DEF vars, TypeOK
<1> QED
  BY <1>1, <1>2, <1>3, <1>4, <1>5, <1>6, <1>7, <1>8, <1>9, <1>10, <1>11, <1>12, <1>13, <1>14 DEF Next

\* The stored setting, its live copy, the catalog and what the handlers carry
\* keep their types.
THEOREM TypeCorrect == Spec => []TypeOK
<1>1. TypeOK /\ [Next]_vars => TypeOK'
  BY TypeStep
<1> QED BY TypeInit, <1>1, PTL DEF Spec

-----------------------------------------------------------------------------
(* Who is disturbed.  A clean request is the only one at work, and as long  *)
(* as one of the ghosts says that nothing went wrong, every request at work *)
(* is clean.                                                                *)

Sole ==
  \A t, u \in Handler : pc[t] # "idle" /\ job[t].clean /\ pc[u] # "idle" => u = t
Undisturbed ==
  \A t \in Handler : (~stale \/ ~drift) /\ pc[t] # "idle" => job[t].clean
Order == Sole /\ Undisturbed

\* A request that begins while nobody is at work is clean and alone; one that
\* begins beside others makes both ghosts true and nobody clean.
LEMMA BeginOrder ==
  ASSUME TypeOK, Order, NEW t \in Handler, NEW step, step # "idle", NEW b, NEW r,
         Begin(t, step, b, r), Active # {} => drift'
  PROVE  Order'
<1>1. /\ pc[t] = "idle" /\ pc' = [pc EXCEPT ![t] = step]
      /\ stale' = (stale \/ Active # {})
  BY DEF Begin, At
<1>2. CASE Active = {}
  <2>1. \A u \in Handler : pc[u] = "idle"
    BY <1>2 DEF Active
  <2>2. \A u \in Handler : pc'[u] # "idle" => u = t
    BY <1>1, <2>1 DEF TypeOK
  <2>3. job'[t].clean
    BY <1>2 DEF Begin
  <2> QED BY <2>2, <2>3 DEF Order, Sole, Undisturbed
<1>3. CASE Active # {}
  <2>1. stale' /\ drift'
    BY <1>1, <1>3
  <2>2. \A u \in Handler : pc'[u] # "idle" => ~job'[u].clean
    <3>1. ASSUME NEW u \in Handler, u # t, pc'[u] # "idle" PROVE ~job'[u].clean
      <4>1. u \in Active
        BY <1>1, <3>1 DEF Active, TypeOK
      <4>2. job'[u] = [job[u] EXCEPT !.clean = u \notin Active]
        BY <3>1 DEF Begin
      <4> HIDE DEF Active
      <4> QED BY <4>1, <4>2 DEF TypeOK
    <3>2. ~job'[t].clean
      BY <1>3 DEF Begin
    <3> QED BY <3>1, <3>2
  <2> QED BY <2>1, <2>2 DEF Order, Sole, Undisturbed
<1> QED BY <1>2, <1>3

\* A step of a request at work changes nobody's cleanness; the request may end.
LEMMA WorkOrder ==
  ASSUME TypeOK, Order, NEW t \in Handler, pc[t] # "idle",
         (\E step, b : Proceed(t, step, b)) \/ End(t),
         drift /\ ~drift' => job[t].clean /\ End(t),
         stale /\ ~stale' => job[t].clean /\ End(t)
  PROVE  Order'
<1>1. \A u \in Handler : u # t => pc'[u] = pc[u] /\ job'[u] = job[u]
  BY DEF Proceed, End, TypeOK
<1>2. CASE End(t)
  <2>1. pc'[t] = "idle"
    BY <1>2 DEF End, TypeOK
  <2>2. \A u \in Handler : pc'[u] # "idle" => u # t /\ pc[u] # "idle" /\ job'[u].clean = job[u].clean
    BY <1>1, <2>1
  <2>3. Sole'
    BY <2>2 DEF Order, Sole
  <2>4. Undisturbed'
    BY <2>2 DEF Order, Sole, Undisturbed
  <2> QED BY <2>3, <2>4 DEF Order
<1>3. ASSUME NEW step, NEW b, Proceed(t, step, b), ~End(t) PROVE Order'
  <2>1. job'[t].clean = job[t].clean
    BY <1>3 DEF Proceed, TypeOK
  <2>2. \A u \in Handler : pc'[u] # "idle" => pc[u] # "idle" /\ job'[u].clean = job[u].clean
    BY <1>1, <2>1
  <2>3. ~stale' => ~stale
    BY <1>3
  <2>4. ~drift' => ~drift
    BY <1>3
  <2> QED BY <2>2, <2>3, <2>4 DEF Order, Sole, Undisturbed
<1> QED BY <1>2, <1>3

\* Order is kept by every step.
LEMMA OrderStep == TypeOK /\ Order /\ [Next]_vars => Order'
<1> SUFFICES ASSUME TypeOK, Order, [Next]_vars PROVE Order'
  OBVIOUS
<1>1. ASSUME NEW t \in Handler, settingSave(t) PROVE Order'
  <2>1. PICK b : Begin(t, "find", b, None)
    BY <1>1 DEF settingSave
  <2> HIDE DEF Active
  <2>2. Active # {} => drift'
    BY <1>1 DEF settingSave
  <2> QED BY <2>1, <2>2, BeginOrder
<1>2. ASSUME NEW t \in Handler, Receive(t) PROVE Order'
  <2>1. PICK b : Begin(t, "find", b, None)
    BY <1>2 DEF Receive
  <2>2. Active # {} => drift'
    BY <1>2 DEF Receive
  <2> QED BY <2>1, <2>2, BeginOrder
<1>3. ASSUME NEW t \in Handler, Preserve(t) PROVE Order'
  BY <1>3, WorkOrder DEF Preserve, At
<1>4. ASSUME NEW t \in Handler, Overlay(t) PROVE Order'
  <2>1. (\E step, b : Proceed(t, step, b)) \/ End(t)
    BY <1>4 DEF Overlay
  <2> QED BY <1>4, <2>1, WorkOrder DEF Overlay, At
<1>5. ASSUME NEW t \in Handler, Put(t) PROVE Order'
  <2>1. (drift => drift') /\ UNCHANGED stale
    <3>1. \/ drift' = drift
          \/ drift' = (drift \/ job[t].target # None)
      BY <1>5 DEF Put
    <3>2. stale' = stale
      BY <1>5 DEF Put
    <3>3. drift => drift'
      BY <3>1, Zenon
    <3> QED BY <3>2, <3>3
  <2>2. pc[t] # "idle" /\ ((\E step, b : Proceed(t, step, b)) \/ End(t))
    BY <1>5 DEF Put, At
  <2> QED BY <2>1, <2>2, WorkOrder
<1>6. ASSUME NEW t \in Handler, Reload(t) PROVE Order'
  BY <1>6, WorkOrder DEF Reload, At
<1>7. ASSUME NEW t \in Handler, Install(t) PROVE Order'
  <2>1. /\ drift /\ ~drift' => job[t].clean
        /\ stale /\ ~stale' => job[t].clean
        /\ End(t) /\ pc[t] # "idle"
    BY <1>7 DEF Install, At
  <2> QED BY <2>1, WorkOrder
<1>8. ASSUME NEW t \in Handler, refreshLinkedRegistryCache(t) PROVE Order'
  BY <1>8, WorkOrder DEF refreshLinkedRegistryCache, At
<1>9. ASSUME NEW t \in Handler, Erase(t) PROVE Order'
  <2>1. (drift => drift') /\ UNCHANGED stale
    <3>1. drift' = drift \/ drift' = (drift \/ stale)
      BY <1>9 DEF Erase
    <3>2. stale' = stale
      BY <1>9 DEF Erase
    <3>3. drift => drift'
      BY <3>1, Zenon
    <3> QED BY <3>2, <3>3
  <2>2. End(t) /\ pc[t] # "idle"
    BY <1>9 DEF Erase, At
  <2> QED BY <2>1, <2>2, WorkOrder
<1>10. ASSUME NEW t \in Handler, NEW r \in Registry, RegistryCreate(t, r) PROVE Order'
  BY <1>10 DEF RegistryCreate, Order, Sole, Undisturbed
<1>11. ASSUME NEW t \in Handler, NEW r \in Registry, RegistryUpdate(t, r) PROVE Order'
  <2>1. Begin(t, "linked", Zero, r) /\ (Active # {} => drift')
    BY <1>11 DEF RegistryUpdate
  <2> QED BY <2>1, BeginOrder
<1>12. ASSUME NEW t \in Handler, NEW r \in Registry, RegistryDelete(t, r) PROVE Order'
  <2>1. Begin(t, "erase", Zero, r) /\ (Active # {} => drift')
    BY <1>12 DEF RegistryDelete
  <2> QED BY <2>1, BeginOrder
<1>13. CASE Restart
  BY <1>13 DEF Restart, Order, Sole, Undisturbed
<1>14. CASE UNCHANGED vars
  BY <1>14 DEF vars, Order, Sole, Undisturbed
<1> QED
  BY <1>1, <1>2, <1>3, <1>4, <1>5, <1>6, <1>7, <1>8, <1>9, <1>10, <1>11, <1>12, <1>13, <1>14 DEF Next

\* What the beginning of a request leaves of the other requests.
LEMMA BeginEffect ==
  ASSUME TypeOK, NEW t \in Handler, NEW step, NEW b, NEW r, Begin(t, step, b, r)
  PROVE  /\ pc[t] = "idle" /\ pc'[t] = step
         /\ job'[t].blob = b /\ job'[t].target = r /\ (job'[t].clean <=> Active = {})
         /\ stale' = (stale \/ Active # {})
         /\ \A u \in Handler \ {t} : pc'[u] = pc[u] /\ (job'[u].clean => pc[u] = "idle")
                                      /\ job'[u].blob = job[u].blob
<1>1. \A u \in Handler \ {t} : job'[u] = [job[u] EXCEPT !.clean = u \notin Active]
  BY DEF Begin
<1>2. \A u \in Handler : u \in Active <=> pc[u] # "idle"
  BY DEF Active
<1>3. /\ pc[t] = "idle" /\ pc'[t] = step
      /\ \A u \in Handler \ {t} : pc'[u] = pc[u]
      /\ job'[t].blob = b /\ job'[t].target = r /\ (job'[t].clean <=> Active = {})
      /\ stale' = (stale \/ Active # {})
  BY DEF Begin, At, TypeOK
<1>4. \A u \in Handler \ {t} : job'[u].clean => pc[u] = "idle"
  <2> HIDE DEF Active
  <2> QED BY <1>1, <1>2 DEF TypeOK
<1>5. \A u \in Handler \ {t} : job'[u].blob = job[u].blob
  <2> HIDE DEF Active
  <2> TAKE u \in Handler \ {t}
  <2>1. PICK c : job'[u] = [job[u] EXCEPT !.clean = c]
    BY <1>1
  <2>2. job[u] \in [blob : Blob, target : Registry \cup {None}, clean : BOOLEAN]
    BY DEF TypeOK
  <2> QED BY <2>1, <2>2
<1> QED BY <1>3, <1>4, <1>5

\* What a step of a request at work leaves of it and of the others.
LEMMA ProceedEffect ==
  ASSUME TypeOK, NEW t \in Handler, NEW step, NEW b, Proceed(t, step, b)
  PROVE  /\ pc'[t] = step
         /\ job'[t].blob = b /\ job'[t].target = job[t].target /\ (job'[t].clean <=> job[t].clean)
         /\ \A u \in Handler \ {t} : pc'[u] = pc[u] /\ job'[u] = job[u]
BY DEF Proceed, TypeOK

LEMMA EndEffect ==
  ASSUME TypeOK, NEW t \in Handler, End(t)
  PROVE  /\ pc'[t] = "idle"
         /\ \A u \in Handler \ {t} : pc'[u] = pc[u] /\ job'[u] = job[u]
BY DEF End, TypeOK

\* Two requests at work disturb each other.
LEMMA Together ==
  ASSUME Order, NEW t \in Handler, NEW u \in Handler \ {t}, pc[t] # "idle", pc[u] # "idle"
  PROVE  drift /\ stale /\ ~job[t].clean /\ ~job[u].clean
BY DEF Order, Sole, Undisturbed

-----------------------------------------------------------------------------
(* The live copy. *)

LiveInv ==
  /\ \A t \in Handler : At(t, "install") /\ job[t].clean => job[t].blob = Stored
  /\ ~stale /\ (\A t \in Handler : pc[t] \notin {"reload", "install"}) => live = Stored

\* A request that begins reads and writes nothing of the setting.
LEMMA BeginLive ==
  ASSUME TypeOK, LiveInv, NEW t \in Handler, NEW step, step \notin {"install", "idle"}, NEW b, NEW r,
         Begin(t, step, b, r), UNCHANGED <<blob, live>>
  PROVE  LiveInv'
<1> HIDE DEF Active
<1>1. Stored' = Stored
  BY DEF Stored
<1>2. \A u \in Handler : ~(At(u, "install") /\ job[u].clean)'
  BY BeginEffect DEF At
<1>3. ASSUME ~stale' PROVE live' = Stored'
  <2>1. ~stale /\ Active = {}
    BY <1>3, BeginEffect
  <2>2. \A u \in Handler : pc[u] = "idle"
    BY <2>1 DEF Active
  <2> QED BY <1>1, <2>1, <2>2 DEF LiveInv
<1> QED BY <1>2, <1>3 DEF LiveInv

\* A step of a request that is not about to install, nor begins to reload or
\* to install, and leaves the setting alone, leaves the live copy true.
LEMMA WorkLive ==
  ASSUME TypeOK, LiveInv, NEW t \in Handler, pc[t] \notin {"reload", "install"},
         \/ \E step, b : step \notin {"reload", "install"} /\ Proceed(t, step, b)
         \/ End(t),
         ~stale' => ~stale, UNCHANGED <<blob, live>>
  PROVE  LiveInv'
<1>1. Stored' = Stored
  BY DEF Stored
<1>2. /\ pc'[t] \notin {"reload", "install"}
      /\ \A u \in Handler \ {t} : pc'[u] = pc[u] /\ job'[u] = job[u]
  BY ProceedEffect, EndEffect
<1>3. \A u \in Handler : (At(u, "install") /\ job[u].clean)' => At(u, "install") /\ job[u].clean /\ job'[u] = job[u]
  BY <1>2 DEF At
<1>4. (\A u \in Handler : pc'[u] \notin {"reload", "install"})
        => \A u \in Handler : pc[u] \notin {"reload", "install"}
  BY <1>2
<1> QED BY <1>1, <1>3, <1>4 DEF LiveInv

\* LiveInv is kept by every step.
LEMMA LiveStep == TypeOK /\ Order /\ LiveInv /\ [Next]_vars => LiveInv'
<1> SUFFICES ASSUME TypeOK, Order, LiveInv, [Next]_vars PROVE LiveInv'
  OBVIOUS
<1>1. ASSUME NEW t \in Handler, settingSave(t) PROVE LiveInv'
  <2>1. PICK b : Begin(t, "find", b, None)
    BY <1>1 DEF settingSave
  <2>2. UNCHANGED <<blob, live>>
    BY <1>1 DEF settingSave
  <2> QED BY <2>1, <2>2, BeginLive
<1>2. ASSUME NEW t \in Handler, Receive(t) PROVE LiveInv'
  <2>1. PICK b : Begin(t, "find", b, None)
    BY <1>2 DEF Receive
  <2>2. UNCHANGED <<blob, live>>
    BY <1>2 DEF Receive
  <2> QED BY <2>1, <2>2, BeginLive
<1>3. ASSUME NEW t \in Handler, Preserve(t) PROVE LiveInv'
  BY <1>3, WorkLive DEF Preserve, At
<1>4. ASSUME NEW t \in Handler, Overlay(t) PROVE LiveInv'
  <2>1. (\E b : Proceed(t, "put", b)) \/ End(t)
    BY <1>4 DEF Overlay
  <2> QED BY <1>4, <2>1, WorkLive DEF Overlay, At
<1>5. ASSUME NEW t \in Handler, Put(t) PROVE LiveInv'
  <2>1. pc[t] = "put" /\ UNCHANGED <<live, stale>>
    BY <1>5 DEF Put, At
  <2>2. CASE UNCHANGED blob /\ End(t)
    BY <2>1, <2>2, WorkLive
  <2>3. CASE Proceed(t, "reload", job[t].blob)
    <3>1. pc'[t] = "reload" /\ \A u \in Handler \ {t} : pc'[u] = pc[u] /\ job'[u] = job[u]
      BY <2>3, ProceedEffect
    <3>2. \A u \in Handler : ~(At(u, "install") /\ job[u].clean)'
      BY <2>1, <3>1, Together DEF At
    <3> QED BY <3>1, <3>2 DEF LiveInv
  <2> QED BY <1>5, <2>2, <2>3 DEF Put
<1>6. ASSUME NEW t \in Handler, Reload(t) PROVE LiveInv'
  <2>1. pc[t] = "reload" /\ UNCHANGED <<blob, live>> /\ Stored' = Stored
    BY <1>6 DEF Reload, At, Stored
  <2>2. \A u \in Handler \ {t} : pc'[u] = pc[u] /\ job'[u] = job[u]
    BY <1>6, ProceedEffect, EndEffect DEF Reload
  <2>3. \A u \in Handler \ {t} : ~(At(u, "install") /\ job[u].clean)'
    BY <2>1, <2>2, Together DEF At
  <2>4. CASE Proceed(t, "install", Stored)
    <3>1. pc'[t] = "install" /\ job'[t].blob = Stored'
      BY <2>1, <2>4, ProceedEffect
    <3> QED BY <2>3, <3>1 DEF LiveInv
  <2>5. CASE stale' = TRUE /\ End(t)
    BY <2>3, <2>5, EndEffect DEF LiveInv, At
  <2> QED BY <1>6, <2>4, <2>5 DEF Reload
<1>7. ASSUME NEW t \in Handler, Install(t) PROVE LiveInv'
  <2>1. /\ pc[t] = "install" /\ Stored' = Stored /\ live' = job[t].blob
        /\ stale' = (stale /\ ~job[t].clean) /\ End(t)
    BY <1>7 DEF Install, At, Stored
  <2>2. pc'[t] = "idle" /\ \A u \in Handler \ {t} : pc'[u] = pc[u] /\ job'[u] = job[u]
    BY <2>1, EndEffect
  <2>3. \A u \in Handler : ~(At(u, "install") /\ job[u].clean)'
    BY <2>1, <2>2, Together DEF At
  <2>4. ASSUME ~stale' PROVE live' = Stored'
    <3>1. job[t].clean
      BY <2>1, <2>4 DEF Order, Undisturbed
    <3> QED BY <2>1, <3>1 DEF LiveInv, At
  <2> QED BY <2>3, <2>4 DEF LiveInv
<1>8. ASSUME NEW t \in Handler, refreshLinkedRegistryCache(t) PROVE LiveInv'
  BY <1>8, WorkLive DEF refreshLinkedRegistryCache, At
<1>9. ASSUME NEW t \in Handler, Erase(t) PROVE LiveInv'
  <2>1. pc[t] = "erase" /\ End(t) /\ UNCHANGED <<blob, live, stale>>
    BY <1>9 DEF Erase, At
  <2> QED BY <2>1, WorkLive
<1>10. ASSUME NEW t \in Handler, NEW r \in Registry, RegistryCreate(t, r) PROVE LiveInv'
  BY <1>10 DEF RegistryCreate, LiveInv, At, Stored
<1>11. ASSUME NEW t \in Handler, NEW r \in Registry, RegistryUpdate(t, r) PROVE LiveInv'
  <2>1. Begin(t, "linked", Zero, r) /\ UNCHANGED <<blob, live>>
    BY <1>11 DEF RegistryUpdate
  <2> QED BY <2>1, BeginLive
<1>12. ASSUME NEW t \in Handler, NEW r \in Registry, RegistryDelete(t, r) PROVE LiveInv'
  <2>1. Begin(t, "erase", Zero, r) /\ UNCHANGED <<blob, live>>
    BY <1>12 DEF RegistryDelete
  <2> QED BY <2>1, BeginLive
<1>13. CASE Restart
  BY <1>13 DEF Restart, LiveInv, At, Stored
<1>14. CASE UNCHANGED vars
  BY <1>14 DEF vars, LiveInv, At, Stored
<1> QED
  BY <1>1, <1>2, <1>3, <1>4, <1>5, <1>6, <1>7, <1>8, <1>9, <1>10, <1>11, <1>12, <1>13, <1>14 DEF Next

\* The live copy is the stored setting, at rest, for any number of requests,
\* restarts and failed calls, once an overlap or a failed reload is mended.
THEOREM LiveKept == Spec => []LiveIsStored
<1>1. Init => TypeOK /\ Order /\ LiveInv
  BY TypeInit DEF Init, Order, Sole, Undisturbed, LiveInv, At, Stored
<1>2. (TypeOK /\ Order /\ LiveInv) /\ [Next]_vars => (TypeOK /\ Order /\ LiveInv)'
  BY TypeStep, OrderStep, LiveStep
<1>3. LiveInv => LiveIsStored
  BY DEF LiveInv, LiveIsStored, Quiet
<1> QED BY <1>1, <1>2, <1>3, PTL DEF Spec

-----------------------------------------------------------------------------
(* The link. *)

Linked(b) ==
  b.link # None =>
    /\ Exists(b.link)
    /\ b.conn = reg[b.link].conn
    /\ reg[b.link].pw \in {"", b.pw}

\* what a request at work leaves true of the link while drift is false; what
\* a clean one does always
LinkOf(t) ==
  /\ job[t].clean =>
       /\ At(t, "put") => Linked(job[t].blob)
       /\ pc[t] \in {"reload", "install"} => Linked(Stored)
       /\ At(t, "erase") => live.link # job[t].target
  /\ ~drift =>
       /\ pc[t] \in {"find", "overlay", "put"} /\ job[t].target = None => Linked(Stored)
       /\ pc[t] \in {"find", "overlay"} /\ job[t].target # None => job[t].blob.conn # ""
       /\ At(t, "erase") => Linked(Stored)
       /\ At(t, "linked") =>
            /\ ~stale
            /\ IF Stored.link = job[t].target THEN Stored.conn # "" ELSE Linked(Stored)
LinkInv ==
  /\ \A t \in Handler : LinkOf(t)
  /\ Quiet /\ ~drift => Linked(Stored)

\* A request at work beside another one owes nothing.
LEMMA OthersLink ==
  ASSUME NEW u \in Handler, pc'[u] # "idle" => drift' /\ ~job'[u].clean
  PROVE  LinkOf(u)'
BY DEF LinkOf, At

\* A request that begins with a first step of its own owes what it can rely
\* on when it is alone.
LEMMA BeginLink ==
  ASSUME TypeOK, LinkInv, NEW t \in Handler, NEW step, step # "idle", NEW b, NEW r,
         Begin(t, step, b, r), Active # {} => drift',
         Active = {} => LinkOf(t)'
  PROVE  LinkInv'
<1> HIDE DEF Active
<1>1. \A u \in Handler : pc[u] # "idle" => Active # {}
  BY DEF Active
<1>2. \A u \in Handler \ {t} : LinkOf(u)'
  BY <1>1, BeginEffect, OthersLink
<1>3. LinkOf(t)'
  <2>1. CASE Active # {}
    <3>1. ~job'[t].clean
      BY <2>1, BeginEffect
    <3> QED BY <2>1, <3>1, OthersLink
  <2> QED BY <2>1
<1>4. ~Quiet'
  BY BeginEffect DEF Quiet
<1> QED BY <1>2, <1>3, <1>4 DEF LinkInv

\* A step of a request at work: it is enough to look at this request, and at
\* the setting if it ends.
LEMMA WorkLink ==
  ASSUME TypeOK, Order, LinkInv, NEW t \in Handler, pc[t] # "idle",
         \/ \E step, b : step # "idle" /\ Proceed(t, step, b)
         \/ End(t),
         drift /\ ~drift' => job[t].clean,
         LinkOf(t)',
         End(t) /\ ~drift' => Linked(Stored)'
  PROVE  LinkInv'
<1>1. \A u \in Handler \ {t} : pc'[u] = pc[u] /\ job'[u] = job[u]
  BY ProceedEffect, EndEffect
<1>2. \A u \in Handler \ {t} : LinkOf(u)'
  BY <1>1, Together, OthersLink
<1>3. ASSUME Quiet', ~drift' PROVE Linked(Stored)'
  <2>1. CASE End(t)
    BY <1>3, <2>1
  <2>2. ASSUME NEW step, NEW b, step # "idle", Proceed(t, step, b) PROVE FALSE
    BY <1>3, <2>2, ProceedEffect DEF Quiet
  <2> QED BY <2>1, <2>2
<1> QED BY <1>2, <1>3 DEF LinkInv

\* LinkInv is kept by every step.
LEMMA LinkStep == TypeOK /\ Order /\ LiveInv /\ LinkInv /\ [Next]_vars => LinkInv'
<1> SUFFICES ASSUME TypeOK, Order, LiveInv, LinkInv, [Next]_vars PROVE LinkInv'
  OBVIOUS
<1>same. ASSUME UNCHANGED <<reg, blob>> PROVE Linked(Stored)' <=> Linked(Stored)
  BY <1>same DEF Linked, Exists, Stored
<1>alone. Active = {} => Quiet
  BY DEF Active, Quiet
<1>text. \A r \in Registry : Exists(r) => reg[r].conn # "" /\ reg[r].pw # Mask
  <2>1. {"", "mask"} \cap (Conn \cup Secret) = {}
    BY SettingsAssumption
  <2> QED BY <2>1 DEF Exists, Mask, TypeOK, Entry, Password
<1>1. ASSUME NEW t \in Handler, settingSave(t) PROVE LinkInv'
  <2>1. PICK b : Begin(t, "find", b, None)
    BY <1>1 DEF settingSave
  <2> HIDE DEF Active
  <2>2. UNCHANGED <<reg, blob, live>> /\ (drift' <=> drift \/ Active # {})
    BY <1>1 DEF settingSave
  <2>3. Active = {} => LinkOf(t)'
    <3>1. Active = {} /\ ~drift' => Linked(Stored)'
      BY <1>same, <1>alone, <2>2 DEF LinkInv
    <3>2. pc'[t] = "find" /\ job'[t].target = None
      BY <2>1, BeginEffect
    <3> QED BY <3>1, <3>2 DEF LinkOf, At
  <2> QED BY <2>1, <2>2, <2>3, BeginLink
<1>2. ASSUME NEW t \in Handler, Receive(t) PROVE LinkInv'
  <2>1. PICK b : Begin(t, "find", b, None)
    BY <1>2 DEF Receive
  <2> HIDE DEF Active
  <2>2. UNCHANGED <<reg, blob, live>> /\ (drift' <=> drift \/ Active # {})
    BY <1>2 DEF Receive
  <2>3. Active = {} => LinkOf(t)'
    <3>1. Active = {} /\ ~drift' => Linked(Stored)'
      BY <1>same, <1>alone, <2>2 DEF LinkInv
    <3>2. pc'[t] = "find" /\ job'[t].target = None
      BY <2>1, BeginEffect
    <3> QED BY <3>1, <3>2 DEF LinkOf, At
  <2> QED BY <2>1, <2>2, <2>3, BeginLink
<1>3. ASSUME NEW t \in Handler, Preserve(t) PROVE LinkInv'
  <2>1. PICK b : Proceed(t, "overlay", b) /\ b.conn = job[t].blob.conn
    <3>1. preserveSecretsFromExisting(job[t].blob).conn = job[t].blob.conn
      BY DEF preserveSecretsFromExisting, TypeOK, Blob
    <3> QED BY <1>3, <3>1 DEF Preserve
  <2>2. UNCHANGED <<reg, blob, live, drift, stale>> /\ pc[t] = "find"
    BY <1>3 DEF Preserve, At
  <2>3. /\ pc'[t] = "overlay" /\ job'[t].blob.conn = job[t].blob.conn
        /\ job'[t].target = job[t].target
    BY <2>1, ProceedEffect
  <2>4. (drift' => drift) /\ (drift => drift') /\ (Linked(Stored)' <=> Linked(Stored))
    BY <1>same, <2>2
  <2>5. LinkOf(t)
    BY DEF LinkInv
  <2>6. LinkOf(t)'
    BY <2>2, <2>3, <2>4, <2>5 DEF LinkOf, At
  <2> QED BY <2>1, <2>2, <2>6, WorkLink, EndEffect, ProceedEffect
<1>4. ASSUME NEW t \in Handler, Overlay(t) PROVE LinkInv'
  <2>1. UNCHANGED <<reg, blob, live, drift, stale>> /\ pc[t] = "overlay"
    BY <1>4 DEF Overlay, At
  <2>2. PICK ok \in BOOLEAN, enabled \in BOOLEAN :
          LET b == job[t].blob
              out == IF b.link = None THEN b ELSE overlay(b, ok /\ Exists(b.link)) IN
          IF validateRegistryCache(out, enabled) THEN Proceed(t, "put", out) ELSE End(t)
    BY <1>4 DEF Overlay
  <2> DEFINE b == job[t].blob
             out == IF b.link = None THEN b ELSE overlay(b, ok /\ Exists(b.link))
  <2>8. \/ validateRegistryCache(out, enabled) /\ Proceed(t, "put", out)
        \/ ~validateRegistryCache(out, enabled) /\ End(t)
    BY <2>2 DEF b, out
  <2>3. b \in Blob
    BY DEF TypeOK
  <2>4. Linked(out)
    BY <2>3 DEF Linked, overlay, Blob
  <2>5. b.conn # "" => out.conn # ""
    BY <1>text, <2>3 DEF overlay, Blob
  <2> HIDE DEF b, out
  <2>6. CASE validateRegistryCache(out, enabled) /\ Proceed(t, "put", out)
    <3>1. pc'[t] = "put" /\ job'[t].blob = out /\ job'[t].target = job[t].target
      BY <2>6, ProceedEffect
    <3>2. Linked(job[t].blob)'
      BY <2>1, <2>4, <3>1 DEF Linked, Exists
    <3>3. (drift' <=> drift) /\ (Linked(Stored)' <=> Linked(Stored))
      BY <1>same, <2>1
    <3>4. ~drift /\ job[t].target = None => Linked(Stored)
      BY <2>1 DEF LinkInv, LinkOf
    <3>5. LinkOf(t)'
      BY <3>1, <3>2, <3>3, <3>4 DEF LinkOf, At
    <3> QED BY <2>1, <2>6, <3>5, WorkLink, EndEffect, ProceedEffect
  <2>7. CASE ~validateRegistryCache(out, enabled) /\ End(t)
    <3>1. ~drift => Linked(Stored)
      BY <2>1, <2>5, <2>7 DEF LinkInv, LinkOf, At, validateRegistryCache, b
    <3>2. LinkOf(t)'
      BY <2>7, EndEffect DEF LinkOf, At
    <3> QED BY <1>same, <2>1, <2>7, <3>1, <3>2, WorkLink
  <2> QED BY <2>8, <2>6, <2>7

<1>5. ASSUME NEW t \in Handler, Put(t) PROVE LinkInv'
  <2>1. pc[t] = "put" /\ UNCHANGED <<reg, live, stale>> /\ (drift => drift')
    <3>1. drift' = drift \/ drift' = (drift \/ job[t].target # None)
      BY <1>5 DEF Put
    <3>2. drift => drift'
      BY <3>1, Zenon
    <3> QED BY <1>5, <3>2 DEF Put, At
  <2>2. CASE blob' = job[t].blob /\ drift' = drift /\ Proceed(t, "reload", job[t].blob)
    <3>1. Stored' = job[t].blob
      <4>1. job[t].blob # None
        <5>1. job[t].blob \in Blob
          BY DEF TypeOK
        <5> QED BY <5>1, SettingsAssumption
      <4> QED BY <2>2, <4>1 DEF Stored
    <3>2. job[t].clean => Linked(Stored)'
      BY <2>1, <3>1 DEF LinkInv, LinkOf, At, Linked, Exists
    <3>3. pc'[t] = "reload" /\ (job'[t].clean <=> job[t].clean)
      BY <2>2, ProceedEffect
    <3>4. LinkOf(t)'
      BY <3>2, <3>3 DEF LinkOf, At
    <3> QED BY <2>1, <2>2, <3>4, WorkLink, EndEffect, ProceedEffect
  <2>3. CASE UNCHANGED blob /\ drift' = (drift \/ job[t].target # None) /\ End(t)
    <3>1. LinkOf(t)'
      BY <2>3, EndEffect DEF LinkOf, At
    <3>2. ~drift' => Linked(Stored)
      BY <2>1, <2>3 DEF LinkInv, LinkOf
    <3> QED BY <1>same, <2>1, <2>3, <3>1, <3>2, WorkLink
  <2> QED BY <1>5, <2>2, <2>3 DEF Put
<1>6. ASSUME NEW t \in Handler, Reload(t) PROVE LinkInv'
  <2>1. pc[t] = "reload" /\ UNCHANGED <<reg, blob, live, drift>>
    BY <1>6 DEF Reload, At
  <2>2. job[t].clean => Linked(Stored)
    BY <2>1 DEF LinkInv, LinkOf
  <2>3. CASE Proceed(t, "install", Stored)
    <3>1. pc'[t] = "install" /\ (job'[t].clean <=> job[t].clean)
      BY <2>3, ProceedEffect
    <3>2. job[t].clean => Linked(Stored)'
      BY <1>same, <2>1, <2>2
    <3>3. LinkOf(t)'
      BY <3>1, <3>2 DEF LinkOf, At
    <3> QED BY <2>1, <2>3, <3>3, WorkLink, EndEffect, ProceedEffect
  <2>4. CASE End(t)
    <3>1. LinkOf(t)'
      BY <2>4, EndEffect DEF LinkOf, At
    <3>2. ~drift => Linked(Stored)
      BY <2>1, <2>2 DEF Order, Undisturbed
    <3> QED BY <1>same, <2>1, <2>4, <3>1, <3>2, WorkLink
  <2> QED BY <1>6, <2>3, <2>4 DEF Reload
<1>7. ASSUME NEW t \in Handler, Install(t) PROVE LinkInv'
  <2>1. /\ pc[t] = "install" /\ UNCHANGED <<reg, blob>> /\ End(t)
        /\ drift' = (drift /\ ~job[t].clean)
    BY <1>7 DEF Install, At
  <2>2. LinkOf(t)'
    BY <2>1, EndEffect DEF LinkOf, At
  <2>3. ~drift' => Linked(Stored)
    BY <2>1 DEF LinkInv, LinkOf, Order, Undisturbed
  <2> QED BY <1>same, <2>1, <2>2, <2>3, WorkLink
<1>8. ASSUME NEW t \in Handler, refreshLinkedRegistryCache(t) PROVE LinkInv'
  <2>1. pc[t] = "linked" /\ UNCHANGED <<reg, blob, live, drift, stale>>
    BY <1>8 DEF refreshLinkedRegistryCache, At
  <2>2. ASSUME ~drift PROVE live = Stored
    <3>1. ~stale
      BY <2>1, <2>2 DEF LinkInv, LinkOf, At
    <3>2. \A u \in Handler : pc[u] \notin {"reload", "install"}
      BY <2>1, <3>1, Together
    <3> QED BY <3>1, <3>2 DEF LiveInv
  <2>3. ~drift => IF live.link = job[t].target THEN live.conn # "" ELSE Linked(Stored)
    BY <2>1, <2>2 DEF LinkInv, LinkOf, At
  <2>4. CASE live.link = job[t].target /\ Proceed(t, "find", live)
    <3>1. ~drift /\ job[t].target = None => Linked(Stored)
      BY <2>2, <2>4 DEF Linked
    <3>2. pc'[t] = "find" /\ job'[t].blob = live /\ job'[t].target = job[t].target
      BY <2>4, ProceedEffect
    <3>3. (drift' <=> drift) /\ (Linked(Stored)' <=> Linked(Stored))
      BY <1>same, <2>1
    <3>4. LinkOf(t)'
      BY <2>3, <2>4, <3>1, <3>2, <3>3 DEF LinkOf, At
    <3> QED BY <2>1, <2>4, <3>4, WorkLink, EndEffect, ProceedEffect
  <2>5. CASE live.link # job[t].target /\ End(t)
    <3>1. LinkOf(t)'
      BY <2>5, EndEffect DEF LinkOf, At
    <3> QED BY <1>same, <2>1, <2>3, <2>5, <3>1, WorkLink
  <2> QED BY <1>8, <2>4, <2>5 DEF refreshLinkedRegistryCache
<1>9. ASSUME NEW t \in Handler, Erase(t) PROVE LinkInv'
  <2>1. pc[t] = "erase" /\ End(t) /\ UNCHANGED <<blob, live, stale>>
    BY <1>9 DEF Erase, At
  <2>2. LinkOf(t)'
    BY <2>1, EndEffect DEF LinkOf, At
  <2>3. drift => drift'
    <3>1. drift' = drift \/ drift' = (drift \/ stale)
      BY <1>9 DEF Erase
    <3> QED BY <3>1, Zenon
  <2>4. ~drift => Linked(Stored)
    BY <2>1 DEF LinkInv, LinkOf, At
  <2>5. CASE UNCHANGED reg
    BY <1>same, <2>1, <2>2, <2>3, <2>4, <2>5, WorkLink
  <2>6. CASE reg' = [reg EXCEPT ![job[t].target] = Gone] /\ drift' = (drift \/ stale)
    <3>1. ASSUME ~drift' PROVE Linked(Stored)'
      <4>1. ~drift /\ ~stale
        BY <2>6, <3>1
      <4>2. job[t].clean /\ \A u \in Handler : pc[u] \notin {"reload", "install"}
        BY <2>1, <4>1, Together DEF Order, Undisturbed
      <4>3. Stored.link # job[t].target
        BY <2>1, <4>1, <4>2 DEF LiveInv, LinkInv, LinkOf, At
      <4>4. Stored' = Stored /\ Stored \in Blob
        BY <2>1, Typed DEF Stored
      <4>5. Stored.link # None => reg'[Stored.link] = reg[Stored.link]
        BY <2>6, <4>3, <4>4 DEF TypeOK, Blob
      <4> QED BY <2>4, <4>1, <4>4, <4>5 DEF Linked, Exists
    <3> QED BY <2>1, <2>2, <2>3, <3>1, WorkLink
  <2> QED BY <1>9, <2>5, <2>6 DEF Erase
<1>10. ASSUME NEW t \in Handler, NEW r \in Registry, RegistryCreate(t, r) PROVE LinkInv'
  <2>1. reg[r] = None /\ UNCHANGED <<blob, live, pc, job, drift, stale>>
    BY <1>10 DEF RegistryCreate
  <2>2. \A q \in Registry : Exists(q) => reg'[q] = reg[q]
    BY <1>10 DEF RegistryCreate, Exists, TypeOK
  <2>3. \A b \in Blob : Linked(b) => Linked(b)'
    BY <2>2 DEF Linked, Exists, Blob
  <2>4. Stored' = Stored /\ Stored \in Blob /\ \A u \in Handler : job[u].blob \in Blob
    BY <2>1, Typed DEF Stored, TypeOK
  <2>5. Linked(Stored) => Linked(Stored)'
    BY <2>3, <2>4 DEF Linked, Exists
  <2>6. \A u \in Handler : Linked(job[u].blob) => Linked(job[u].blob)'
    BY <2>1, <2>3, <2>4 DEF Linked, Exists
  <2>7. \A u \in Handler : LinkOf(u)'
    BY <2>1, <2>4, <2>5, <2>6 DEF LinkInv, LinkOf, At
  <2> QED BY <2>1, <2>5, <2>7 DEF LinkInv, Quiet
<1>11. ASSUME NEW t \in Handler, NEW r \in Registry, RegistryUpdate(t, r) PROVE LinkInv'
  <2>1. /\ Begin(t, "linked", Zero, r) /\ UNCHANGED <<blob, live>>
        /\ drift' = (drift \/ stale \/ Active # {}) /\ Exists(r)
    BY <1>11 DEF RegistryUpdate
  <2>2. \A q \in Registry \ {r} : reg'[q] = reg[q]
    BY <1>11 DEF RegistryUpdate, TypeOK
  <2>3. Stored' = Stored /\ Stored \in Blob
    BY <2>1, Typed DEF Stored
  <2> HIDE DEF Active
  <2>4. ASSUME Active = {}, ~drift'
        PROVE  ~stale' /\ IF Stored.link = r THEN Stored.conn # "" ELSE Linked(Stored)'
    <3>1. ~drift /\ ~stale
      BY <2>1, <2>4
    <3>2. ~stale'
      BY <2>1, <2>4, <3>1, BeginEffect
    <3>3. Linked(Stored)
      BY <1>alone, <2>4, <3>1 DEF LinkInv
    <3>4. Stored.link = r => Stored.conn # ""
      <4>1. r # None
        BY SettingsAssumption
      <4> QED BY <1>text, <2>1, <3>3, <4>1 DEF Linked
    <3>5. Stored.link # r => Linked(Stored)'
      BY <2>2, <2>3, <3>3 DEF Linked, Exists, Blob
    <3> QED BY <3>2, <3>4, <3>5
  <2>5. Active = {} => LinkOf(t)'
    <3>1. pc'[t] = "linked" /\ job'[t].target = r
      BY <2>1, BeginEffect
    <3> QED BY <2>3, <2>4, <3>1 DEF LinkOf, At
  <2> QED BY <2>1, <2>5, BeginLink
<1>12. ASSUME NEW t \in Handler, NEW r \in Registry, RegistryDelete(t, r) PROVE LinkInv'
  <2> HIDE DEF Active
  <2>1. /\ Begin(t, "erase", Zero, r) /\ UNCHANGED <<reg, blob, live>>
        /\ (drift' <=> drift \/ Active # {}) /\ live.link # r
    BY <1>12 DEF RegistryDelete
  <2>2. Active = {} => LinkOf(t)'
    <3>1. Active = {} /\ ~drift' => Linked(Stored)'
      BY <1>same, <1>alone, <2>1 DEF LinkInv
    <3>2. pc'[t] = "erase" /\ job'[t].target = r /\ live'.link # r
      BY <2>1, BeginEffect
    <3> QED BY <3>1, <3>2 DEF LinkOf, At
  <2> QED BY <2>1, <2>2, BeginLink
<1>13. CASE Restart
  <2>1. /\ \A t \in Handler : pc'[t] = "idle"
        /\ drift' = (drift \/ \E t \in Handler : pc[t] # "idle")
        /\ UNCHANGED <<reg, blob>>
    BY <1>13 DEF Restart
  <2>2. \A t \in Handler : LinkOf(t)'
    BY <2>1 DEF LinkOf, At
  <2>3. ~drift' => Linked(Stored)
    BY <2>1 DEF LinkInv, Quiet
  <2> QED BY <1>same, <2>1, <2>2, <2>3 DEF LinkInv
<1>14. CASE UNCHANGED vars
  BY <1>same, <1>14 DEF vars, LinkInv, LinkOf, At, Linked, Exists, Quiet, Stored
<1> QED
  BY <1>1, <1>2, <1>3, <1>4, <1>5, <1>6, <1>7, <1>8, <1>9, <1>10, <1>11, <1>12, <1>13, <1>14 DEF Next

\* A linked setting carries what the catalog says, at rest, for any number of
\* requests, registries and failed calls, once an overlap is mended.
THEOREM LinkKept == Spec => []LinkTracksCatalog
<1>1. Init => TypeOK /\ Order /\ LiveInv /\ LinkInv
  <2> SUFFICES ASSUME Init PROVE TypeOK /\ Order /\ LiveInv /\ LinkInv
    OBVIOUS
  <2>1. Order /\ LiveInv
    BY DEF Init, Order, Sole, Undisturbed, LiveInv, At, Stored
  <2>2. LinkInv
    BY DEF Init, LinkInv, LinkOf, At, Linked, Stored, Zero
  <2> QED BY <2>1, <2>2, TypeInit
<1>2. (TypeOK /\ Order /\ LiveInv /\ LinkInv) /\ [Next]_vars
        => (TypeOK /\ Order /\ LiveInv /\ LinkInv)'
  BY TypeStep, OrderStep, LiveStep, LinkStep
<1>3. LinkInv => LinkTracksCatalog
  BY DEF LinkInv, LinkTracksCatalog, Linked
<1> QED BY <1>1, <1>2, <1>3, PTL DEF Spec

-----------------------------------------------------------------------------
(* The secret. *)

\* The mask stands for a secret that is there, and once the stored secret was
\* read it stands nowhere; an undisturbed request knows the stored secret.
SecretOf(t) ==
  /\ pc[t] \in {"find", "install"} /\ job[t].blob.pw = Mask => blob # None
  /\ ~blind =>
       /\ pc[t] \in {"overlay", "put", "reload", "install"} => job[t].blob.pw # Mask
       /\ job[t].clean /\ pc[t] \in {"overlay", "put"} /\ Stored.pw # "" => job[t].blob.pw # ""
SecretInv ==
  /\ live.pw = Mask => blob # None
  /\ ~blind => Stored.pw # Mask /\ live.pw # Mask
  /\ \A t \in Handler : SecretOf(t)

\* What a request may rely on stays when another one takes a step.
LEMMA OthersSecret ==
  ASSUME SecretInv, NEW u \in Handler, pc'[u] = pc[u], job'[u].blob = job[u].blob,
         pc[u] # "idle" /\ job'[u].clean => job[u].clean /\ Stored' = Stored,
         blob # None => blob' # None, blind => blind'
  PROVE  SecretOf(u)'
<1>1. SecretOf(u)
  BY DEF SecretInv
<1>2. CASE pc[u] = "idle"
  BY <1>2 DEF SecretOf
<1>3. CASE pc[u] # "idle" /\ ~job'[u].clean
  BY <1>1, <1>3 DEF SecretOf
<1>4. CASE job[u].clean /\ Stored' = Stored
  BY <1>1, <1>4 DEF SecretOf
<1> QED BY <1>2, <1>3, <1>4

\* A request that begins changes nothing of the setting.
LEMMA BeginSecret ==
  ASSUME TypeOK, SecretInv, NEW t \in Handler, NEW step \in {"find", "linked", "erase"}, NEW b, NEW r,
         Begin(t, step, b, r), UNCHANGED <<blob, live>>, blind' <=> blind,
         step = "find" /\ b.pw = Mask => blob # None
  PROVE  SecretInv'
<1> HIDE DEF Active
<1>1. \A u \in Handler \ {t} : SecretOf(u)'
  BY BeginEffect, OthersSecret
<1>2. pc'[t] = step /\ job'[t].blob = b
  BY BeginEffect
<1>3. SecretOf(t)'
  BY <1>2 DEF SecretOf
<1>4. (live.pw = Mask => blob # None)' /\ (~blind => Stored.pw # Mask /\ live.pw # Mask)'
  BY DEF SecretInv, Stored
<1> QED BY <1>1, <1>3, <1>4 DEF SecretInv

\* A step of a request at work that leaves the setting alone.
LEMMA WorkSecret ==
  ASSUME TypeOK, SecretInv, NEW t \in Handler,
         (\E step, b : Proceed(t, step, b)) \/ End(t),
         UNCHANGED <<blob, live>>, blind => blind',
         SecretOf(t)'
  PROVE  SecretInv'
<1>1. \A u \in Handler \ {t} : pc'[u] = pc[u] /\ job'[u] = job[u]
  BY ProceedEffect, EndEffect
<1>2. Stored' = Stored
  BY DEF Stored
<1>3. \A u \in Handler \ {t} : SecretOf(u)'
  BY <1>1, <1>2, OthersSecret
<1>4. (live.pw = Mask => blob # None)' /\ (~blind => Stored.pw # Mask /\ live.pw # Mask)'
  BY <1>2 DEF SecretInv
<1> QED BY <1>3, <1>4 DEF SecretInv

\* SecretInv is kept by every step.
LEMMA SecretStep == TypeOK /\ Order /\ SecretInv /\ [Next]_vars => SecretInv'
<1> SUFFICES ASSUME TypeOK, Order, SecretInv, [Next]_vars PROVE SecretInv'
  OBVIOUS
<1>mask. \A x \in Password : x # Mask
  BY SettingsAssumption DEF Password, Mask
<1>stored. Stored.pw # "" => blob # None
  BY DEF Stored, Zero
<1>end. \A t \in Handler : End(t) => SecretOf(t)'
  BY EndEffect DEF SecretOf
<1>1. ASSUME NEW t \in Handler, settingSave(t) PROVE SecretInv'
  <2>1. PICK b : Begin(t, "find", b, None) /\ b.pw \in Password \cup {sanitizeForResponse(Stored.pw)}
    <3>1. PICK link \in Registry \cup {None}, conn \in Conn \cup {""},
               pw \in Password \cup {sanitizeForResponse(Stored.pw)} :
            Begin(t, "find", [link |-> link, conn |-> conn, pw |-> pw], None)
      BY <1>1 DEF settingSave
    <3> DEFINE b == [link |-> link, conn |-> conn, pw |-> pw]
    <3>2. b.pw = pw
      OBVIOUS
    <3> HIDE DEF b
    <3> QED BY <3>1, <3>2 DEF b
  <2>2. b.pw = Mask => blob # None
    BY <1>mask, <1>stored, <2>1 DEF sanitizeForResponse, Mask
  <2>3. UNCHANGED <<blob, live>> /\ (blind' <=> blind)
    BY <1>1 DEF settingSave
  <2> QED BY <2>1, <2>2, <2>3, BeginSecret
<1>2. ASSUME NEW t \in Handler, Receive(t) PROVE SecretInv'
  <2>1. PICK b : Begin(t, "find", b, None) /\ b.pw = ""
    <3>1. PICK conn \in Conn : Begin(t, "find", [link |-> None, conn |-> conn, pw |-> ""], None)
      BY <1>2 DEF Receive
    <3>2. [link |-> None, conn |-> conn, pw |-> ""].pw = ""
      OBVIOUS
    <3> QED BY <3>1, <3>2
  <2>2. b.pw # Mask
    BY <2>1 DEF Mask
  <2>3. UNCHANGED <<blob, live>> /\ (blind' <=> blind)
    BY <1>2 DEF Receive
  <2> QED BY <2>1, <2>2, <2>3, BeginSecret
<1>3. ASSUME NEW t \in Handler, Preserve(t) PROVE SecretInv'
  <2>1. pc[t] = "find" /\ UNCHANGED <<blob, live>> /\ Stored' = Stored
    BY <1>3 DEF Preserve, At, Stored
  <2>2. job[t].blob.pw = Mask => blob # None
    BY <2>1 DEF SecretInv, SecretOf
  <2> DEFINE b == job[t].blob
  <2>3. CASE /\ Proceed(t, "overlay", IF blob = None THEN b ELSE preserveSecretsFromExisting(b))
             /\ blind' <=> blind
    <3> DEFINE out == IF blob = None THEN b ELSE preserveSecretsFromExisting(b)
    <3>1. ~blind => out.pw # Mask /\ (Stored.pw # "" => out.pw # "")
      <4>1. CASE blob = None
        BY <2>2, <4>1 DEF Stored, Zero
      <4>2. CASE blob # None
        <5>1. out.pw = IF b.pw \in {"", Mask} THEN Stored.pw ELSE b.pw
          BY <4>2 DEF preserveSecretsFromExisting, Stored, TypeOK, Blob
        <5> QED BY <5>1 DEF SecretInv
      <4> QED BY <4>1, <4>2
    <3> HIDE DEF out
    <3>2. pc'[t] = "overlay" /\ job'[t].blob = out
      BY <2>3, ProceedEffect DEF out
    <3>3. SecretOf(t)'
      BY <2>1, <2>3, <3>1, <3>2 DEF SecretOf
    <3> QED BY <2>1, <2>3, <3>3, WorkSecret
  <2>4. CASE /\ Proceed(t, "overlay", b)
             /\ blind' <=> blind \/ b.pw \in {"", Mask}
    <3>1. pc'[t] = "overlay" /\ job'[t].blob = b
      BY <2>4, ProceedEffect
    <3>2. SecretOf(t)'
      BY <2>4, <3>1 DEF SecretOf
    <3> QED BY <2>1, <2>4, <3>2, WorkSecret
  <2>5. \/ /\ Proceed(t, "overlay", IF blob = None THEN b ELSE preserveSecretsFromExisting(b))
           /\ blind' = blind
        \/ /\ Proceed(t, "overlay", b)
           /\ blind' = (blind \/ b.pw \in {"", Mask})
    BY <1>3 DEF Preserve
  <2> QED BY <2>3, <2>4, <2>5
<1>4. ASSUME NEW t \in Handler, Overlay(t) PROVE SecretInv'
  <2>1. pc[t] = "overlay" /\ UNCHANGED <<blob, live>> /\ Stored' = Stored /\ (blind' <=> blind)
    BY <1>4 DEF Overlay, At, Stored
  <2>2. PICK ok \in BOOLEAN, enabled \in BOOLEAN :
          LET b == job[t].blob
              out == IF b.link = None THEN b ELSE overlay(b, ok /\ Exists(b.link)) IN
          Proceed(t, "put", out) \/ End(t)
    BY <1>4 DEF Overlay
  <2> DEFINE b == job[t].blob
             out == IF b.link = None THEN b ELSE overlay(b, ok /\ Exists(b.link))
  <2>3. b \in Blob
    BY DEF TypeOK
  <2>4. out.pw = b.pw \/ out.pw \in Password \ {""}
    <3>1. CASE b.link # None /\ ok /\ Exists(b.link)
      <4>1. reg[b.link] \in Entry
        BY <2>3, <3>1 DEF Exists, TypeOK, Blob
      <4> QED BY <2>3, <3>1, <4>1 DEF overlay, Blob, Entry
    <3> QED BY <2>3, <3>1 DEF overlay, Blob
  <2>5. Proceed(t, "put", out) \/ End(t)
    BY <2>2
  <2>6. SecretOf(t)
    BY DEF SecretInv
  <2> HIDE DEF out
  <2>7. CASE Proceed(t, "put", out)
    <3>1. pc'[t] = "put" /\ job'[t].blob = out /\ (job'[t].clean <=> job[t].clean)
      BY <2>7, ProceedEffect
    <3>2. SecretOf(t)'
      BY <1>mask, <2>1, <2>4, <2>6, <3>1 DEF SecretOf
    <3> QED BY <2>1, <2>7, <3>2, WorkSecret
  <2>8. CASE End(t)
    BY <1>end, <2>1, <2>8, WorkSecret
  <2> QED BY <2>5, <2>7, <2>8
<1>5. ASSUME NEW t \in Handler, Put(t) PROVE SecretInv'
  <2>1. pc[t] = "put" /\ UNCHANGED live /\ (blind' <=> blind) /\ job[t].blob \in Blob
    BY <1>5 DEF Put, At, TypeOK
  <2>2. CASE blob' = job[t].blob /\ Proceed(t, "reload", job[t].blob)
    <3>1. blob' # None /\ Stored' = job[t].blob
      BY <2>1, <2>2, SettingsAssumption DEF Stored
    <3>2. ~blind => job[t].blob.pw # Mask
      BY <2>1 DEF SecretInv, SecretOf
    <3>3. pc'[t] = "reload" /\ job'[t].blob = job[t].blob
          /\ \A u \in Handler \ {t} : pc'[u] = pc[u] /\ job'[u] = job[u]
      BY <2>2, ProceedEffect
    <3>4. SecretOf(t)'
      BY <2>1, <3>2, <3>3 DEF SecretOf
    <3>5. \A u \in Handler \ {t} : pc[u] # "idle" => ~job[u].clean
      BY <2>1, Together
    <3>6. \A u \in Handler \ {t} : SecretOf(u)'
      BY <2>1, <3>1, <3>3, <3>5, OthersSecret
    <3>7. (~blind => Stored.pw # Mask /\ live.pw # Mask)'
      BY <2>1, <3>1, <3>2 DEF SecretInv
    <3> QED BY <3>1, <3>4, <3>6, <3>7 DEF SecretInv
  <2>3. CASE UNCHANGED blob /\ End(t)
    BY <1>end, <2>1, <2>3, WorkSecret
  <2> QED BY <1>5, <2>2, <2>3 DEF Put
<1>6. ASSUME NEW t \in Handler, Reload(t) PROVE SecretInv'
  <2>1. UNCHANGED <<blob, live>> /\ (blind' <=> blind) /\ Stored' = Stored
    BY <1>6 DEF Reload, Stored
  <2>2. CASE Proceed(t, "install", Stored)
    <3>1. pc'[t] = "install" /\ job'[t].blob = Stored
      BY <2>2, ProceedEffect
    <3>2. Stored.pw = Mask => blob # None
      BY <1>stored DEF Mask
    <3>3. ~blind => Stored.pw # Mask
      BY DEF SecretInv
    <3>4. SecretOf(t)'
      BY <2>1, <3>1, <3>2, <3>3 DEF SecretOf
    <3> QED BY <2>1, <2>2, <3>4, WorkSecret
  <2>3. CASE End(t)
    BY <1>end, <2>1, <2>3, WorkSecret
  <2> QED BY <1>6, <2>2, <2>3 DEF Reload
<1>7. ASSUME NEW t \in Handler, Install(t) PROVE SecretInv'
  <2>1. /\ pc[t] = "install" /\ End(t) /\ UNCHANGED blob /\ live' = job[t].blob
        /\ (blind' <=> blind) /\ Stored' = Stored
    BY <1>7 DEF Install, At, Stored
  <2>2. \A u \in Handler \ {t} : pc'[u] = pc[u] /\ job'[u] = job[u]
    BY <2>1, EndEffect
  <2>3. \A u \in Handler : SecretOf(u)'
    BY <1>end, <2>1, <2>2, OthersSecret
  <2>4. (live.pw = Mask => blob # None)' /\ (~blind => Stored.pw # Mask /\ live.pw # Mask)'
    BY <2>1 DEF SecretInv, SecretOf
  <2> QED BY <2>3, <2>4 DEF SecretInv
<1>8. ASSUME NEW t \in Handler, refreshLinkedRegistryCache(t) PROVE SecretInv'
  <2>1. UNCHANGED <<blob, live>> /\ (blind' <=> blind)
    BY <1>8 DEF refreshLinkedRegistryCache
  <2>2. CASE Proceed(t, "find", live)
    <3>1. pc'[t] = "find" /\ job'[t].blob = live
      BY <2>2, ProceedEffect
    <3>2. live.pw = Mask => blob # None
      BY DEF SecretInv
    <3>3. SecretOf(t)'
      BY <2>1, <3>1, <3>2 DEF SecretOf
    <3> QED BY <2>1, <2>2, <3>3, WorkSecret
  <2>3. CASE End(t)
    BY <1>end, <2>1, <2>3, WorkSecret
  <2> QED BY <1>8, <2>2, <2>3 DEF refreshLinkedRegistryCache
<1>9. ASSUME NEW t \in Handler, Erase(t) PROVE SecretInv'
  <2>1. End(t) /\ UNCHANGED <<blob, live>> /\ (blind' <=> blind)
    BY <1>9 DEF Erase
  <2> QED BY <1>end, <2>1, WorkSecret
<1>10. ASSUME NEW t \in Handler, NEW r \in Registry, RegistryCreate(t, r) PROVE SecretInv'
  BY <1>10 DEF RegistryCreate, SecretInv, SecretOf, Stored
<1>11. ASSUME NEW t \in Handler, NEW r \in Registry, RegistryUpdate(t, r) PROVE SecretInv'
  <2>1. Begin(t, "linked", Zero, r) /\ UNCHANGED <<blob, live>> /\ (blind' <=> blind)
    BY <1>11 DEF RegistryUpdate
  <2> QED BY <2>1, BeginSecret
<1>12. ASSUME NEW t \in Handler, NEW r \in Registry, RegistryDelete(t, r) PROVE SecretInv'
  <2>1. Begin(t, "erase", Zero, r) /\ UNCHANGED <<blob, live>> /\ (blind' <=> blind)
    BY <1>12 DEF RegistryDelete
  <2> QED BY <2>1, BeginSecret
<1>13. CASE Restart
  <2>1. /\ UNCHANGED blob /\ live' = Stored /\ (blind' <=> blind) /\ Stored' = Stored
        /\ \A t \in Handler : pc'[t] = "idle"
    BY <1>13 DEF Restart, Stored
  <2>2. \A t \in Handler : SecretOf(t)'
    BY <2>1 DEF SecretOf
  <2>3. (live.pw = Mask => blob # None)' /\ (~blind => Stored.pw # Mask /\ live.pw # Mask)'
    BY <1>stored, <2>1 DEF SecretInv, Mask
  <2> QED BY <2>2, <2>3 DEF SecretInv
<1>14. CASE UNCHANGED vars
  BY <1>14 DEF vars, SecretInv, SecretOf, Stored
<1> QED
  BY <1>1, <1>2, <1>3, <1>4, <1>5, <1>6, <1>7, <1>8, <1>9, <1>10, <1>11, <1>12, <1>13, <1>14 DEF Next

\* Only a write of the setting changes what is stored.
LEMMA OnlyPut ==
  ASSUME TypeOK, [Next]_vars, blob' # blob
  PROVE  \E t \in Handler : pc[t] = "put" /\ blob' = job[t].blob
BY DEF Next, vars, settingSave, Receive, Preserve, Overlay, Put, Reload, Install, At,
       refreshLinkedRegistryCache, Erase, RegistryCreate, RegistryUpdate, RegistryDelete, Restart

\* No masked form, no push of a portal and no registry update costs the
\* stored secret, unless requests overlap or it cannot be read.
THEOREM SecretKept == Spec => SecretSurvives
<1>1. Init => TypeOK /\ Order /\ SecretInv
  <2> SUFFICES ASSUME Init PROVE TypeOK /\ Order /\ SecretInv
    OBVIOUS
  <2>1. Order
    BY DEF Init, Order, Sole, Undisturbed
  <2>2. SecretInv
    BY DEF Init, SecretInv, SecretOf, Stored, Zero, Mask
  <2> QED BY <2>1, <2>2, TypeInit
<1>2. (TypeOK /\ Order /\ SecretInv) /\ [Next]_vars => (TypeOK /\ Order /\ SecretInv)'
  BY TypeStep, OrderStep, SecretStep
<1>3. TypeOK /\ SecretInv /\ [Next]_vars
        => [ /\ blob # None /\ blob.pw # "" /\ blob' # blob /\ ~blind
             /\ \A t \in Handler : job[t].clean
             => blob'.pw \notin {"", Mask} ]_vars
  <2> SUFFICES ASSUME TypeOK, SecretInv, [Next]_vars, blob # None, blob.pw # "", blob' # blob, ~blind,
                      \A t \in Handler : job[t].clean
               PROVE  blob'.pw \notin {"", Mask}
    OBVIOUS
  <2>1. PICK t \in Handler : pc[t] = "put" /\ blob' = job[t].blob
    BY OnlyPut
  <2> QED BY <2>1 DEF SecretInv, SecretOf, Stored
<1> QED BY <1>1, <1>2, <1>3, PTL DEF Spec, SecretSurvives

-----------------------------------------------------------------------------
(* Access: types. *)

\* The requests a step of identification may leave behind: each step carries the row,
\* the token and the permissions it needs.
Sound == {x \in Request :
    /\ x.pc = "idle" => x.kind = Nil
    /\ x.pc \in {"find", "renew"} => x.kind = "session"
    /\ x.pc = "resolve" => x.kind = "signin"
    /\ x.pc \notin {"idle", "find"} => x.row \in SessionRow
    /\ x.pc \notin {"perms", "served"} => x.perms = {}
    /\ x.kind \in {"session", "signin"} => x.token \in Tokens}

AccessTyped == AccessTypeOK /\ req \in [Requests -> Sound]

\* What the permissions of some roles amount to has the type of a session's copy.
LEMMA MapTyped == \A perms \in SUBSET Permissions : NewPermMap(perms) \in PermRow
BY DEF NewPermMap, PermRow

\* The forms of session rows and users that the actions write.
LEMMA RowTyped ==
  /\ AccessTypeOK => \A u \in Users : NewSession(u) \in SessionRow
  /\ \A row \in SessionRow, admin \in BOOLEAN, rs \in SUBSET Roles :
        [row EXCEPT !.admin = admin, !.roles = rs] \in SessionRow
  /\ \A row \in SessionRow : [row EXCEPT !.dirty = FALSE] \in SessionRow
  /\ \A row \in SessionRow : [row EXCEPT !.dirty = TRUE] \in SessionRow
  /\ \A row \in SessionRow, perm \in PermRow : [row EXCEPT !.perm = perm] \in SessionRow
  /\ \A row \in SessionRow, e \in Int : [row EXCEPT !.expiry = e] \in SessionRow
  /\ \A row \in SessionRow : row \in SessionRow \cup {NoRow} /\ row # Nil /\ row # NoRow
<1>1. ASSUME AccessTypeOK, NEW u \in Users PROVE NewSession(u) \in SessionRow
  <2>1. NewPermMap({}) \in PermRow
    BY MapTyped
  <2>2. now + Life \in Int /\ now + Life + Grace \in Int
    BY <1>1, AccessAssumption DEF AccessTypeOK
  <2> HIDE DEF PermRow
  <2> QED BY <1>1, <2>1, <2>2 DEF NewSession, SessionRow
<1> HIDE DEF PermRow
<1>2. \A row \in SessionRow, admin \in BOOLEAN, rs \in SUBSET Roles :
        [row EXCEPT !.admin = admin, !.roles = rs] \in SessionRow
  BY DEF SessionRow
<1>3. \A row \in SessionRow : [row EXCEPT !.dirty = FALSE] \in SessionRow
  BY DEF SessionRow
<1>4. \A row \in SessionRow : [row EXCEPT !.dirty = TRUE] \in SessionRow
  BY DEF SessionRow
<1>5. \A row \in SessionRow, perm \in PermRow : [row EXCEPT !.perm = perm] \in SessionRow
  BY DEF SessionRow
<1>6. \A row \in SessionRow, e \in Int : [row EXCEPT !.expiry = e] \in SessionRow
  BY DEF SessionRow
<1>7. \A row \in SessionRow : row \in SessionRow \cup {NoRow} /\ row # Nil /\ row # NoRow
  BY AccessAssumption DEF SessionRow, NoRow
<1> QED BY <1>1, <1>2, <1>3, <1>4, <1>5, <1>6, <1>7
\* What a step makes of a request is again such a request.
LEMMA TurnTyped ==
  ASSUME NEW x \in Sound
  PROVE  /\ [x EXCEPT !.quiet = FALSE] \in Sound
         /\ x.pc \notin {"idle", "find"} => \A row \in SessionRow : [x EXCEPT !.pc = "served", !.row = row] \in Sound
         /\ x.pc = "find" => \A row \in SessionRow, n \in Int, p \in {"fill", "renew", "served"} :
               [x EXCEPT !.pc = p, !.row = row, !.at = n] \in Sound
         /\ x.pc = "fill" => \A row \in SessionRow, rs \in SUBSET Roles :
               [x EXCEPT !.pc = "perms", !.row = row, !.todo = rs] \in Sound
         /\ x.pc = "perms" => \A rs \in SUBSET Roles, ps \in SUBSET Permissions :
               [x EXCEPT !.todo = rs, !.perms = ps] \in Sound
         /\ x.pc = "resolve" => [x EXCEPT !.pc = "fill"] \in Sound
<1> HIDE DEF SessionRow, UserRow
<1>1. [x EXCEPT !.quiet = FALSE] \in Sound
  BY DEF Sound, Request, Phases
<1>2. x.pc \notin {"idle", "find"} => \A row \in SessionRow : [x EXCEPT !.pc = "served", !.row = row] \in Sound
  BY DEF Sound, Request, Phases
<1>3. x.pc = "find" => \A row \in SessionRow, n \in Int, p \in {"fill", "renew", "served"} :
               [x EXCEPT !.pc = p, !.row = row, !.at = n] \in Sound
  BY AccessAssumption DEF Sound, Request, Phases
<1>4. x.pc = "fill" => \A row \in SessionRow, rs \in SUBSET Roles :
               [x EXCEPT !.pc = "perms", !.row = row, !.todo = rs] \in Sound
  BY DEF Sound, Request, Phases
<1>5. x.pc = "perms" => \A rs \in SUBSET Roles, ps \in SUBSET Permissions :
               [x EXCEPT !.todo = rs, !.perms = ps] \in Sound
  BY DEF Sound, Request, Phases
<1>6. x.pc = "resolve" => [x EXCEPT !.pc = "fill"] \in Sound
  BY DEF Sound, Request, Phases
<1> QED BY <1>1, <1>2, <1>3, <1>4, <1>5, <1>6

\* A request that does not run is of no kind.
LEMMA NoKind == Nil # "session" /\ Nil # "api" /\ Nil # "signin"
BY AccessAssumption

\* What a request begins as.
LEMMA StartTyped ==
  /\ Idle \in Sound /\ Idle.pc = "idle" /\ Idle.perms = {}
  /\ \A t \in Tokens, n \in Int, b \in BOOLEAN :
       [Idle EXCEPT !.pc = "find", !.kind = "session", !.token = t, !.at = n, !.row = NoRow, !.quiet = b] \in Sound
  /\ \A row \in SessionRow, n \in Int, b \in BOOLEAN :
       [Idle EXCEPT !.pc = "fill", !.kind = "api", !.token = Nil, !.at = n, !.row = row, !.quiet = b] \in Sound
  /\ \A t \in Tokens, row \in SessionRow, n \in Int, b \in BOOLEAN :
       [Idle EXCEPT !.pc = "fill", !.kind = "signin", !.token = t, !.at = n, !.row = row, !.quiet = b] \in Sound
  /\ \A t \in Tokens, row \in SessionRow :
       [Idle EXCEPT !.pc = "fill", !.kind = "signin", !.token = t, !.row = row] \in Sound
  /\ \A t \in Tokens, row \in SessionRow, a \in UserRow \cup {Nil}, b \in BOOLEAN :
       [Idle EXCEPT !.pc = "resolve", !.kind = "signin", !.token = t, !.row = row,
                    !.account = a, !.quiet = b] \in Sound
<1> HIDE DEF SessionRow, UserRow
<1>1. Idle \in Sound /\ Idle.pc = "idle" /\ Idle.perms = {}
  BY NoKind DEF Sound, Request, Phases, Idle
<1> HIDE DEF Idle, NoRow
<1>2. \A t \in Tokens, n \in Int, b \in BOOLEAN :
       [Idle EXCEPT !.pc = "find", !.kind = "session", !.token = t, !.at = n, !.row = NoRow, !.quiet = b] \in Sound
  BY <1>1, NoKind DEF Sound, Request, Phases
<1>3. \A row \in SessionRow, n \in Int, b \in BOOLEAN :
       [Idle EXCEPT !.pc = "fill", !.kind = "api", !.token = Nil, !.at = n, !.row = row, !.quiet = b] \in Sound
  BY <1>1, NoKind DEF Sound, Request, Phases
<1>4. \A t \in Tokens, row \in SessionRow, n \in Int, b \in BOOLEAN :
       [Idle EXCEPT !.pc = "fill", !.kind = "signin", !.token = t, !.at = n, !.row = row, !.quiet = b] \in Sound
  BY <1>1, NoKind, ZenonT(60) DEF Sound, Request, Phases
<1>5. \A t \in Tokens, row \in SessionRow :
       [Idle EXCEPT !.pc = "fill", !.kind = "signin", !.token = t, !.row = row] \in Sound
  BY <1>1, NoKind DEF Sound, Request, Phases
<1>6. \A t \in Tokens, row \in SessionRow, a \in UserRow \cup {Nil}, b \in BOOLEAN :
       [Idle EXCEPT !.pc = "resolve", !.kind = "signin", !.token = t, !.row = row,
                    !.account = a, !.quiet = b] \in Sound
  BY <1>1, NoKind, ZenonT(60) DEF Sound, Request, Phases
<1> QED BY <1>1, <1>2, <1>3, <1>4, <1>5, <1>6

\* Ending the quiet time changes nothing else of a request.
LEMMA DisturbedSound ==
  ASSUME NEW rq \in [Requests -> Sound]
  PROVE  Disturbed(rq) \in [Requests -> Sound]
BY TurnTyped DEF Disturbed

\* One request taken from one of these forms to another.
LEMMA OneTurn ==
  ASSUME req \in [Requests -> Sound], NEW q \in Requests, NEW x \in Sound
  PROVE  [req EXCEPT ![q] = x] \in [Requests -> Sound]
OBVIOUS
\* A step that changes requests only keeps the types if they stay sound.
LEMMA RequestsOnly ==
  ASSUME AccessTyped, UNCHANGED <<engine, stores, now, born, edits>>, req' \in [Requests -> Sound]
  PROVE  AccessTyped'
<1>1. AccessTypeOK'
  <2> HIDE DEF SessionRow, UserRow, BirthRow
  <2>1. \A x \in Sound : x \in Request
    BY DEF Sound
  <2> HIDE DEF Sound, Request
  <2> QED BY <2>1 DEF AccessTyped, AccessTypeOK, stores
<1> QED BY <1>1 DEF AccessTyped

LEMMA IdentifyTyped ==
  ASSUME AccessTyped, NEW q \in Requests,
         \/ \E t \in Tokens : BeginSession(q, t)
         \/ IdentifyBySession(q) \/ FillSession(q) \/ GetPerms(q) \/ IdentifyByToken(q) \/ Done(q)
  PROVE  AccessTyped'
<1> USE DEF AccessTyped
<1> HIDE DEF Sound, SessionRow, UserRow, PermRow
<1>1. req[q] \in Sound /\ now \in Int /\ (marks = {} /\ pulls = {}) \in BOOLEAN
  BY AccessAssumption DEF AccessTypeOK
<1>2. Idle \in Sound
  BY StartTyped
<1>3. req' \in [Requests -> Sound]
  <2>1. CASE \E t \in Tokens : BeginSession(q, t)
    <3>1. PICK t \in Tokens : BeginSession(q, t)
      BY <2>1
    <3>2. [Idle EXCEPT !.pc = "find", !.kind = "session", !.token = t, !.at = now, !.row = NoRow,
                       !.quiet = marks = {} /\ pulls = {}] \in Sound
      BY <1>1, StartTyped
    <3> QED BY <3>1, <3>2 DEF BeginSession, Arrive
  <2>2. CASE IdentifyBySession(q)
    <3> DEFINE row == session[req[q].token]
    <3>1. CASE Refuse(q)
      BY <3>1, <1>2 DEF Refuse
    <3>2. CASE /\ Alive(row)
               /\ \E p \in {"fill", "renew", "served"} :
                    req' = [req EXCEPT ![q] = [@ EXCEPT !.pc = p, !.row = row, !.at = now]]
      <4>1. req[q].pc = "find" /\ req[q].token \in Tokens
        BY <2>2, <1>1 DEF IdentifyBySession, Reached, Sound
      <4>2. row # Nil
        BY <3>2 DEF Alive
      <4>3. row \in SessionRow
        BY <4>1, <4>2 DEF AccessTypeOK, Keys
      <4>4. \A p \in {"fill", "renew", "served"} : [req[q] EXCEPT !.pc = p, !.row = row, !.at = now] \in Sound
        BY <4>1, <4>3, <1>1, TurnTyped
      <4> HIDE DEF row
      <4> QED BY <4>4, <3>2
    <3>3. Refuse(q) \/ (Alive(row) /\ \E p \in {"fill", "renew", "served"} :
                    req' = [req EXCEPT ![q] = [@ EXCEPT !.pc = p, !.row = row, !.at = now]])
      BY <2>2, <1>1 DEF IdentifyBySession
    <3> QED BY <3>1, <3>2, <3>3
  <2>3. CASE FillSession(q)
    <3> DEFINE u == req[q].row.user
    <3>1. CASE Refuse(q)
      BY <3>1, <1>2 DEF Refuse
    <3>2. CASE /\ user[u] # Nil
               /\ req' = [req EXCEPT
                    ![q].pc = "perms",
                    ![q].row = [@ EXCEPT !.admin = user[u].admin, !.roles = user[u].roles],
                    ![q].todo = IF user[u].admin /\ req[q].kind # "api" THEN {} ELSE user[u].roles]
      <4>1. req[q].pc = "fill" /\ req[q].row \in SessionRow
        BY <2>3, <1>1 DEF FillSession, Reached, Sound
      <4>2. user[u].admin \in BOOLEAN /\ user[u].roles \in SUBSET Roles
        BY <4>1, <3>2 DEF AccessTypeOK, SessionRow, UserRow
      <4> DEFINE row == [req[q].row EXCEPT !.admin = user[u].admin, !.roles = user[u].roles]
                 rs == IF user[u].admin /\ req[q].kind # "api" THEN {} ELSE user[u].roles
      <4>3. row \in SessionRow /\ rs \in SUBSET Roles
        BY <4>1, <4>2, RowTyped
      <4>4. [req[q] EXCEPT !.pc = "perms", !.row = row, !.todo = rs] \in Sound
        BY <4>1, <4>3, <1>1, TurnTyped
      <4>5. req' = [req EXCEPT ![q] = [@ EXCEPT !.pc = "perms", !.row = row, !.todo = rs]]
        BY <3>2
      <4> HIDE DEF row, rs
      <4> QED BY <4>4, <4>5
    <3> QED BY <2>3, <3>1, <3>2 DEF FillSession
  <2>4. CASE GetPerms(q)
    <3>1. CASE Refuse(q)
      BY <3>1, <1>2 DEF Refuse
    <3>2. ASSUME NEW r \in req[q].todo, role[r] # Nil,
                 req' = [req EXCEPT ![q].todo = @ \ {r}, ![q].perms = @ \cup role[r]]
          PROVE  req' \in [Requests -> Sound]
      <4>1. /\ req[q].pc = "perms" /\ req[q].todo \in SUBSET Roles
            /\ req[q].perms \in SUBSET Permissions
        BY <2>4, <1>1 DEF GetPerms, Reached, Sound, Request
      <4> DEFINE rs == req[q].todo \ {r}
                 ps == req[q].perms \cup role[r]
      <4>2. rs \in SUBSET Roles /\ ps \in SUBSET Permissions
        BY <4>1, <3>2 DEF AccessTypeOK
      <4>3. [req[q] EXCEPT !.todo = rs, !.perms = ps] \in Sound
        BY <4>1, <4>2, <1>1, TurnTyped
      <4>4. req' = [req EXCEPT ![q] = [@ EXCEPT !.todo = rs, !.perms = ps]]
        BY <3>2
      <4> HIDE DEF rs, ps
      <4> QED BY <4>3, <4>4
    <3> QED BY <2>4, <3>1, <3>2 DEF GetPerms
  <2>5. CASE IdentifyByToken(q)
    <3>1. req[q].pc = "perms" /\ req[q].row \in SessionRow /\ req[q].perms \in SUBSET Permissions
      BY <2>5, <1>1 DEF IdentifyByToken, Reached, Sound, Request
    <3>2. Filled(q) \in SessionRow
      <4>1. NewPermMap(req[q].perms) \in PermRow /\ req[q].row.perm \in PermRow
        BY <3>1, MapTyped DEF SessionRow
      <4> QED BY <4>1, <3>1, RowTyped DEF Filled
    <3>3. [req[q] EXCEPT !.pc = "served", !.row = Filled(q)] \in Sound
      BY <3>1, <3>2, <1>1, TurnTyped
    <3>4. req' = [req EXCEPT ![q] = [@ EXCEPT !.pc = "served", !.row = Filled(q)]]
      BY <2>5 DEF IdentifyByToken, SetUser
    <3> QED BY <3>3, <3>4
  <2>6. CASE Done(q)
    BY <2>6, <1>2 DEF Done, Refuse
  <2> QED BY <2>1, <2>2, <2>3, <2>4, <2>5, <2>6
<1>4. UNCHANGED <<engine, stores, now, born, edits>>
  BY DEF BeginSession, IdentifyBySession, FillSession, GetPerms, IdentifyByToken, Done
<1> QED BY <1>3, <1>4, RequestsOnly
LEMMA ReceiveTyped ==
  ASSUME AccessTyped, NEW q \in Requests, NEW u \in Users,
         BeginToken(q, u) \/ \E t \in Tokens : SignIn(q, u, t) \/ FindByName(q, u, t)
  PROVE  AccessTyped'
<1> USE DEF AccessTyped
<1> HIDE DEF Sound, SessionRow, UserRow, PermRow
<1>1. now \in Int /\ (marks = {} /\ pulls = {}) \in BOOLEAN
  BY AccessAssumption DEF AccessTypeOK
<1>2. NewSession(u) \in SessionRow
  BY RowTyped
<1>3. req' \in [Requests -> Sound]
  <2>1. CASE BeginToken(q, u)
    <3> DEFINE row == [user |-> u, admin |-> FALSE, roles |-> {}, perm |-> NewPermMap({}),
                       dirty |-> FALSE, expiry |-> 0, max |-> 0]
    <3>1. row \in SessionRow
      <4>1. NewPermMap({}) \in PermRow
        BY MapTyped
      <4> QED BY <4>1 DEF SessionRow
    <3>2. [Idle EXCEPT !.pc = "fill", !.kind = "api", !.token = Nil, !.at = now, !.row = row,
                       !.quiet = marks = {} /\ pulls = {}] \in Sound
      BY <1>1, <3>1, StartTyped
    <3>3. Arrive(q, "fill", "api", Nil, row)
      BY <2>1 DEF BeginToken
    <3> HIDE DEF row
    <3> QED BY <3>2, <3>3 DEF Arrive
  <2>2. ASSUME NEW t \in Tokens, SignIn(q, u, t) PROVE req' \in [Requests -> Sound]
    <3>1. [Idle EXCEPT !.pc = "fill", !.kind = "signin", !.token = t, !.at = now, !.row = NewSession(u),
                       !.quiet = marks = {} /\ pulls = {}] \in Sound
      BY <1>1, <1>2, StartTyped
    <3> QED BY <2>2, <3>1 DEF SignIn, Arrive
  <2>3. ASSUME NEW t \in Tokens, FindByName(q, u, t) PROVE req' \in [Requests -> Sound]
    <3>1. user[u] \in UserRow \cup {Nil}
      BY DEF AccessTypeOK
    <3>2. [Idle EXCEPT !.pc = "resolve", !.kind = "signin", !.token = t, !.row = NewSession(u),
                       !.account = user[u], !.quiet = marks = {} /\ pulls = {}] \in Sound
      BY <1>1, <1>2, <3>1, StartTyped
    <3> QED BY <2>3, <3>2 DEF FindByName
  <2> QED BY <2>1, <2>2, <2>3
<1>4. UNCHANGED <<engine, stores, now, born, edits>>
  BY DEF BeginToken, SignIn, FindByName
<1> QED BY <1>3, <1>4, RequestsOnly

LEMMA StoreTyped ==
  ASSUME AccessTyped, NEW q \in Requests, RenewSession(q) \/ UpdateSession(q) \/ CreateSession(q)
  PROVE  AccessTyped'
<1> USE DEF AccessTyped
<1> HIDE DEF Sound, SessionRow, UserRow, PermRow, BirthRow
<1>1. /\ req[q] \in Sound /\ req[q].row \in SessionRow /\ req[q].perms \in SUBSET Permissions
      /\ req[q].pc \notin {"idle", "find"}
      /\ req[q].token \in Tokens /\ req[q].quiet \in BOOLEAN
  BY DEF AccessTypeOK, RenewSession, UpdateSession, CreateSession, Reached, Sound, Request
<1>2. Filled(q) \in SessionRow
  <2>1. NewPermMap(req[q].perms) \in PermRow /\ req[q].row.perm \in PermRow
    BY <1>1, MapTyped DEF SessionRow
  <2> QED BY <2>1, <1>1, RowTyped DEF Filled
<1>3. [Filled(q) EXCEPT !.dirty = FALSE] \in SessionRow
  BY <1>2, RowTyped
<1>4. \A row \in SessionRow : [req EXCEPT ![q].pc = "served", ![q].row = row] \in [Requests -> Sound]
  <2> SUFFICES ASSUME NEW row \in SessionRow
               PROVE  [req EXCEPT ![q].pc = "served", ![q].row = row] \in [Requests -> Sound]
    OBVIOUS
  <2>1. [req[q] EXCEPT !.pc = "served", !.row = row] \in Sound
    BY <1>1, TurnTyped
  <2> QED BY <2>1
<1>5. [req EXCEPT ![q] = Idle] \in [Requests -> Sound]
  BY StartTyped
<1>6. req' \in [Requests -> Sound]
  BY <1>1, <1>3, <1>4, <1>5 DEF RenewSession, UpdateSession, CreateSession, SetUser, Refuse
<1>7. session' \in [Keys -> SessionRow \cup {Nil}]
  <2>1. CASE RenewSession(q)
    <3>1. Renewed(req[q].row) \in Int
      BY <1>1, AccessAssumption DEF Renewed, Least, SessionRow, AccessTypeOK
    <3>2. session[req[q].token] # Nil => session[req[q].token] \in SessionRow
      BY <1>1 DEF AccessTypeOK, Keys
    <3>3. session[req[q].token] # Nil =>
            [session[req[q].token] EXCEPT !.expiry = Renewed(req[q].row)] \in SessionRow
      BY <3>1, <3>2, RowTyped
    <3> QED BY <2>1, <3>3 DEF RenewSession, SessionUpdateExpiry, AccessTypeOK
  <2>2. CASE UpdateSession(q)
    BY <2>2, <1>3 DEF UpdateSession, BoltSessionUpdate, MongoSessionUpdate, AccessTypeOK
  <2>3. CASE CreateSession(q)
    BY <2>3, <1>2 DEF CreateSession, AccessTypeOK
  <2> QED BY <2>1, <2>2, <2>3
<1>8. born' \in [Tokens -> BirthRow \cup {Nil}]
  <2>1. [at |-> req[q].row.expiry - Life, alone |-> req[q].quiet] \in BirthRow
    BY <1>1, AccessAssumption DEF SessionRow, BirthRow
  <2> QED BY <2>1 DEF AccessTypeOK, RenewSession, UpdateSession, CreateSession
<1>9. UNCHANGED <<engine, user, role, marks, pulls, now, edits>>
  BY DEF RenewSession, UpdateSession, CreateSession
<1>10. \A x \in Sound : x \in Request
  BY DEF Sound
<1> HIDE DEF Request
<1> QED BY <1>6, <1>7, <1>8, <1>9, <1>10 DEF AccessTypeOK

LEMMA MarkTyped ==
  ASSUME AccessTyped, (\E m \in Users \cup Roles : SessionUpdateDirty(m)) \/ SessionPrune \/ Tick
  PROVE  AccessTyped'
<1> USE DEF AccessTyped
<1> HIDE DEF Sound, SessionRow, UserRow, PermRow, BirthRow, Request
<1>1. session' \in [Keys -> SessionRow \cup {Nil}]
  <2>1. CASE \E m \in Users \cup Roles : SessionUpdateDirty(m)
    <3>1. PICK m \in Users \cup Roles : SessionUpdateDirty(m)
      BY <2>1
    <3>2. \A k \in Keys : session[k] # Nil => [session[k] EXCEPT !.dirty = TRUE] \in SessionRow
      BY RowTyped DEF AccessTypeOK
    <3> QED BY <3>1, <3>2 DEF SessionUpdateDirty, BoltSessionUpdateDirty, MongoSessionUpdateDirty,
                              Concerned, AccessTypeOK
  <2>2. CASE SessionPrune
    BY <2>2 DEF SessionPrune, AccessTypeOK
  <2>3. CASE Tick
    BY <2>3 DEF Tick, stores, AccessTypeOK
  <2> QED BY <2>1, <2>2, <2>3
<1>2. marks' \subseteq marks /\ now' \in 0 .. MaxTime
  BY AccessAssumption DEF SessionUpdateDirty, SessionPrune, Tick, stores, AccessTypeOK
<1>3. UNCHANGED <<engine, user, role, pulls, req, born, edits>>
  BY DEF SessionUpdateDirty, SessionPrune, Tick, stores
<1> QED BY <1>1, <1>2, <1>3 DEF AccessTypeOK
\* The administrator's edits of users and roles.
AdminEdit ==
  \/ \E u \in Users, admin \in BOOLEAN, rs \in SUBSET Roles :
       \/ CreateUser(u, admin, rs)
       \/ \E type \in Types : UpdateUser(u, admin, rs, type)
  \/ \E u \in Users : SetStatus(u) \/ DeleteUser(u)
  \/ \E r \in Roles, perms \in SUBSET Permissions : CreateRole(r, perms) \/ UpdateRole(r, perms)
  \/ \E r \in Roles : DeleteRole(r)

LEMMA AccountTyped ==
  \A admin \in BOOLEAN, rs \in SUBSET Roles, type \in Types : Account(admin, rs, type) \in UserRow
BY DEF Account, UserRow

LEMMA EditTyped ==
  ASSUME AccessTyped, AdminEdit
  PROVE  AccessTyped'
<1> USE DEF AccessTyped
<1> HIDE DEF Sound, SessionRow, PermRow, BirthRow, Request
<1>1. req' \in [Requests -> Sound]
  <2>1. req' = Disturbed(req)
    BY DEF AdminEdit, CreateUser, UpdateUser, SetStatus, DeleteUser, CreateRole, UpdateRole, DeleteRole
  <2> QED BY <2>1, DisturbedSound
<1>2. edits' \in 0 .. MaxEdits
  <2>1. edits < MaxEdits /\ edits' = edits + 1
    BY DEF AdminEdit, CreateUser, UpdateUser, SetStatus, DeleteUser, CreateRole, UpdateRole, DeleteRole, Edit
  <2>2. edits \in 0 .. MaxEdits /\ MaxEdits \in Nat
    BY AccessAssumption DEF AccessTypeOK
  <2> QED BY <2>1, <2>2
<1>3. user' \in [Users -> UserRow \cup {Nil}] /\ marks' \subseteq Users \cup Roles
  <2>1. CASE \E u \in Users, admin \in BOOLEAN, rs \in SUBSET Roles : CreateUser(u, admin, rs)
    BY <2>1, AccountTyped DEF CreateUser, AccessTypeOK, Types
  <2>2. CASE \E u \in Users, admin \in BOOLEAN, rs \in SUBSET Roles, type \in Types :
               UpdateUser(u, admin, rs, type)
    <3>1. PICK u \in Users, admin \in BOOLEAN, rs \in SUBSET Roles, type \in Types :
               UpdateUser(u, admin, rs, type)
      BY <2>2
    <3>2. user[u] \in UserRow
      BY <3>1 DEF UpdateUser, AccessTypeOK
    <3>3. [user[u] EXCEPT !.admin = admin, !.roles = rs, !.type = type] \in UserRow
      BY <3>2 DEF UserRow
    <3> QED BY <3>1, <3>3 DEF UpdateUser, AccessTypeOK
  <2>3. CASE \E u \in Users : SetStatus(u)
    <3>1. PICK u \in Users : SetStatus(u)
      BY <2>3
    <3>2. user[u] \in UserRow
      BY <3>1 DEF SetStatus, AccessTypeOK
    <3>3. [user[u] EXCEPT !.active = ~@] \in UserRow
      BY <3>2 DEF UserRow
    <3> QED BY <3>1, <3>3 DEF SetStatus, AccessTypeOK
  <2>4. CASE \E u \in Users : DeleteUser(u)
    BY <2>4 DEF DeleteUser, AccessTypeOK
  <2>5. CASE \E r \in Roles, perms \in SUBSET Permissions : CreateRole(r, perms) \/ UpdateRole(r, perms)
    BY <2>5 DEF CreateRole, UpdateRole, AccessTypeOK
  <2>6. CASE \E r \in Roles : DeleteRole(r)
    BY <2>6 DEF DeleteRole, AccessTypeOK
  <2> QED BY <2>1, <2>2, <2>3, <2>4, <2>5, <2>6 DEF AdminEdit
<1>4. role' \in [Roles -> {Nil} \cup SUBSET Permissions] /\ pulls' \subseteq Roles
  BY DEF AdminEdit, CreateUser, UpdateUser, SetStatus, DeleteUser, CreateRole, UpdateRole,
         DeleteRole, RoleDelete, AccessTypeOK
<1>5. UNCHANGED <<engine, session, now, born>>
  BY DEF AdminEdit, CreateUser, UpdateUser, SetStatus, DeleteUser, CreateRole, UpdateRole, DeleteRole
<1>6. \A x \in Sound : x \in Request
  BY DEF Sound
<1> QED BY <1>1, <1>2, <1>3, <1>4, <1>5, <1>6 DEF AccessTypeOK

LEMMA RealmTyped ==
  ASSUME AccessTyped,
         \/ \E r \in Roles : RolePull(r)
         \/ \E q \in Requests, u \in Users, t \in Tokens : LdapRealm(q, u, t)
         \/ \E q \in Requests, mapped \in SUBSET Roles : ResolveUser(q, mapped)
  PROVE  AccessTyped'
<1> USE DEF AccessTyped
<1> HIDE DEF Sound, SessionRow, PermRow, BirthRow, Request
<1>1. /\ req' \in [Requests -> Sound] /\ marks' \subseteq Users \cup Roles
      /\ user' \in [Users -> UserRow \cup {Nil}]
  <2>1. CASE \E r \in Roles : RolePull(r)
    <3>1. PICK r \in Roles : RolePull(r)
      BY <2>1
    <3>2. \A u \in Users : user[u] # Nil => [user[u] EXCEPT !.roles = @ \ {r}] \in UserRow
      BY DEF AccessTypeOK, UserRow
    <3>3. user' \in [Users -> UserRow \cup {Nil}]
      BY <3>1, <3>2 DEF RolePull
    <3>4. req' \in [Requests -> Sound]
      BY <3>1, DisturbedSound DEF RolePull
    <3> QED BY <3>1, <3>3, <3>4 DEF RolePull, AccessTypeOK
  <2>2. CASE \E q \in Requests, u \in Users, t \in Tokens : LdapRealm(q, u, t)
    <3>1. PICK q \in Requests, u \in Users, t \in Tokens : LdapRealm(q, u, t)
      BY <2>2
    <3> DEFINE x == [Idle EXCEPT !.pc = "fill", !.kind = "signin", !.token = t, !.row = NewSession(u)]
    <3>2. x \in Sound
      BY RowTyped, StartTyped
    <3>3. req' = Disturbed([req EXCEPT ![q] = x])
      BY <3>1 DEF LdapRealm
    <3>4. user' \in [Users -> UserRow \cup {Nil}] /\ marks' \subseteq Users \cup Roles
      BY <3>1, AccountTyped DEF LdapRealm, AccessTypeOK, Types
    <3> HIDE DEF x
    <3>5. [req EXCEPT ![q] = x] \in [Requests -> Sound]
      BY <3>2
    <3> QED BY <3>3, <3>4, <3>5, DisturbedSound
  <2>3. CASE \E q \in Requests, mapped \in SUBSET Roles : ResolveUser(q, mapped)
    <3>1. PICK q \in Requests, mapped \in SUBSET Roles : ResolveUser(q, mapped)
      BY <2>3
    <3> DEFINE u == req[q].row.user
               a == req[q].account
               rs == IF mapped = {} THEN a.roles ELSE mapped
    <3>2. req[q] \in Sound /\ req[q].pc = "resolve" /\ u \in Users /\ a \in UserRow \cup {Nil}
      <4>1. req[q] \in Sound /\ req[q].pc = "resolve"
        BY <3>1 DEF ResolveUser, Reached
      <4>2. req[q].row \in SessionRow /\ a \in UserRow \cup {Nil}
        BY <4>1 DEF Sound, Request
      <4> QED BY <4>1, <4>2 DEF SessionRow
    <3>3. [req EXCEPT ![q].pc = "fill"] \in [Requests -> Sound] /\ [req EXCEPT ![q] = Idle] \in [Requests -> Sound]
      <4>1. [req[q] EXCEPT !.pc = "fill"] \in Sound /\ Idle \in Sound
        BY <3>2, TurnTyped, StartTyped
      <4> QED BY <4>1
    <3>4. req' = Disturbed([req EXCEPT ![q].pc = "fill"]) \/ req' = Disturbed([req EXCEPT ![q] = Idle])
      BY <3>1 DEF ResolveUser
    <3>5. req' \in [Requests -> Sound]
      BY <3>3, <3>4, DisturbedSound
    <3>6. marks' \in {marks, marks \cup {u}}
      BY <3>1 DEF ResolveUser
    <3>7. a # Nil /\ user[u] # Nil => [a EXCEPT !.roles = rs, !.active = user[u].active] \in UserRow
      BY <3>2 DEF AccessTypeOK, UserRow
    <3>8. Account(FALSE, mapped, "keycloak") \in UserRow
      BY AccountTyped DEF Types
    <3>9. \/ user' = user \/ user' = [user EXCEPT ![u] = Account(FALSE, mapped, "keycloak")]
          \/ /\ a # Nil /\ user[u] # Nil
             /\ user' = [user EXCEPT ![u] = [a EXCEPT !.roles = rs, !.active = user[u].active]]
      BY <3>1 DEF ResolveUser
    <3>10. user' \in [Users -> UserRow \cup {Nil}]
      <4> HIDE DEF rs, a
      <4> QED BY <3>7, <3>8, <3>9 DEF AccessTypeOK
    <3> QED BY <3>2, <3>5, <3>6, <3>10 DEF AccessTypeOK
  <2> QED BY <2>1, <2>2, <2>3
<1>2. UNCHANGED <<engine, role, session, now, born, edits>> /\ pulls' \subseteq pulls
  BY DEF RolePull, LdapRealm, ResolveUser
<1>3. \A x \in Sound : x \in Request
  BY DEF Sound
<1> QED BY <1>1, <1>2, <1>3 DEF AccessTypeOK

\* Every step of the next-state relation, by what it may change.
LEMMA AccessSteps ==
  ASSUME [AccessNext]_accessVars
  PROVE  \/ \E q \in Requests :
              \/ \E t \in Tokens : BeginSession(q, t)
              \/ IdentifyBySession(q) \/ FillSession(q) \/ GetPerms(q) \/ IdentifyByToken(q) \/ Done(q)
         \/ \E q \in Requests, u \in Users, t \in Tokens : SignIn(q, u, t) \/ FindByName(q, u, t)
         \/ \E q \in Requests, u \in Users : BeginToken(q, u)
         \/ \E q \in Requests : RenewSession(q) \/ UpdateSession(q) \/ CreateSession(q)
         \/ (\E m \in Users \cup Roles : SessionUpdateDirty(m)) \/ SessionPrune \/ Tick
         \/ AdminEdit
         \/ \E r \in Roles : RolePull(r)
         \/ \E q \in Requests, u \in Users, t \in Tokens : LdapRealm(q, u, t)
         \/ \E q \in Requests, mapped \in SUBSET Roles : ResolveUser(q, mapped)
         \/ UNCHANGED accessVars
BY DEF AccessNext, AdminEdit

LEMMA AccessTypedInit == AccessInit => AccessTyped
<1> SUFFICES ASSUME AccessInit PROVE AccessTyped
  OBVIOUS
<1>1. user \in [Users -> UserRow \cup {Nil}]
  <2> HIDE DEF UserRow
  <2> QED BY DEF AccessInit
<1>2. req \in [Requests -> Sound] /\ req \in [Requests -> Request]
  <2>1. Idle \in Sound /\ Idle \in Request
    BY StartTyped DEF Sound
  <2> HIDE DEF Sound, Request
  <2> QED BY <2>1 DEF AccessInit
<1>3. /\ engine \in {"bolt", "mongo"} /\ role \in [Roles -> {Nil} \cup SUBSET Permissions]
      /\ session \in [Keys -> SessionRow \cup {Nil}] /\ born \in [Tokens -> BirthRow \cup {Nil}]
      /\ marks \subseteq Users \cup Roles /\ pulls \subseteq Roles
      /\ now \in 0 .. MaxTime /\ edits \in 0 .. MaxEdits
  BY AccessAssumption DEF AccessInit
<1> HIDE DEF Sound, Request, SessionRow, UserRow, BirthRow
<1> QED BY <1>1, <1>2, <1>3 DEF AccessTyped, AccessTypeOK

\* The types of sessions, users, roles and requests hold throughout.
THEOREM AccessTypeCorrect == AccessSpec => []AccessTyped
<1>2. AccessTyped /\ [AccessNext]_accessVars => AccessTyped'
  <2> SUFFICES ASSUME AccessTyped, [AccessNext]_accessVars PROVE AccessTyped'
    OBVIOUS
  <2>1. CASE \E q \in Requests :
              \/ \E t \in Tokens : BeginSession(q, t)
              \/ IdentifyBySession(q) \/ FillSession(q) \/ GetPerms(q) \/ IdentifyByToken(q) \/ Done(q)
    BY <2>1, IdentifyTyped
  <2>2. CASE \E q \in Requests, u \in Users, t \in Tokens : SignIn(q, u, t) \/ FindByName(q, u, t)
    BY <2>2, ReceiveTyped
  <2>3. CASE \E q \in Requests, u \in Users : BeginToken(q, u)
    BY <2>3, ReceiveTyped
  <2>4. CASE \E q \in Requests : RenewSession(q) \/ UpdateSession(q) \/ CreateSession(q)
    BY <2>4, StoreTyped
  <2>5. CASE (\E m \in Users \cup Roles : SessionUpdateDirty(m)) \/ SessionPrune \/ Tick
    BY <2>5, MarkTyped
  <2>6. CASE AdminEdit
    BY <2>6, EditTyped
  <2>7. CASE \/ \E r \in Roles : RolePull(r)
             \/ \E q \in Requests, u \in Users, t \in Tokens : LdapRealm(q, u, t)
             \/ \E q \in Requests, mapped \in SUBSET Roles : ResolveUser(q, mapped)
    BY <2>7, RealmTyped
  <2>8. CASE UNCHANGED accessVars
    BY <2>8 DEF accessVars, AccessTyped, AccessTypeOK
  <2> QED BY <2>1, <2>2, <2>3, <2>4, <2>5, <2>6, <2>7, <2>8, AccessSteps
<1> QED BY AccessTypedInit, <1>2, PTL DEF AccessSpec
-----------------------------------------------------------------------------
(* Access: the lifetime of a session. *)

\* A request that found its session carries the end that the sign-in set for it ...
Dated(x, b) ==
  x.kind = "session" /\ x.pc # "find" =>
    /\ b[x.token] # Nil
    /\ x.row.max = b[x.token].at + Life + Grace
    /\ x.at <= x.row.max

\* ... and a sign-in has a token of its own, of which no session exists yet.
Unborn(x, s, b) ==
  x.kind = "signin" =>
    /\ x.row.max = x.row.expiry + Grace
    /\ s[x.token] = Nil /\ b[x.token] = Nil

\* No stored session expires after its end, and every copy of it has the same end.
Timely ==
  /\ \A t \in Tokens : session[t] # Nil =>
       /\ born[t] # Nil
       /\ session[t].max = born[t].at + Life + Grace
       /\ session[t].expiry <= session[t].max
  /\ \A q \in Requests : Dated(req[q], born) /\ Unborn(req[q], session, born)
  /\ \A q, r \in Requests : q # r /\ req[q].kind = "signin" /\ req[r].kind = "signin"
                              => req[q].token # req[r].token

\* A request goes on with the session it works on, for the same token.
GoesOn(x, y) ==
  /\ y.kind = x.kind /\ y.token = x.token /\ y.at = x.at
  /\ (y.pc = "find") = (x.pc = "find")
  /\ y.row.max = x.row.max /\ y.row.expiry = x.row.expiry

\* What the end of the quiet time leaves as it was.
LEMMA DisturbedKeeps ==
  ASSUME NEW rq \in [Requests -> Sound], NEW q \in Requests
  PROVE  /\ Disturbed(rq)[q].pc = rq[q].pc /\ Disturbed(rq)[q].kind = rq[q].kind
         /\ Disturbed(rq)[q].token = rq[q].token /\ Disturbed(rq)[q].at = rq[q].at
         /\ Disturbed(rq)[q].row = rq[q].row /\ Disturbed(rq)[q].todo = rq[q].todo
         /\ Disturbed(rq)[q].perms = rq[q].perms /\ Disturbed(rq)[q].account = rq[q].account
         /\ Disturbed(rq)[q].quiet = FALSE
<1>1. rq[q] \in Request
  BY DEF Sound
<1> QED BY <1>1 DEF Disturbed, Request

LEMMA TimelyTurn ==
  ASSUME AccessTyped, Timely, UNCHANGED <<session, born>>,
         \A r \in Requests :
            \/ req'[r].kind \notin {"session", "signin"}
            \/ GoesOn(req[r], req'[r])
            \/ req'[r].kind = "session" /\ Dated(req'[r], born)
            \/ /\ req'[r].kind = "signin" /\ Unborn(req'[r], session, born)
               /\ \A s \in Requests \ {r} : req'[s].token # req'[r].token
  PROVE  Timely'
<1>1. \A r \in Requests : Dated(req[r], born) /\ Unborn(req[r], session, born)
  BY DEF Timely
<1>2. \A r \in Requests : Dated(req'[r], born) /\ Unborn(req'[r], session, born)
  BY <1>1 DEF GoesOn, Dated, Unborn
<1>3. \A q, r \in Requests : q # r /\ req'[q].kind = "signin" /\ req'[r].kind = "signin"
                              => req'[q].token # req'[r].token
  <2> SUFFICES ASSUME NEW q \in Requests, NEW r \in Requests, q # r,
                      req'[q].kind = "signin", req'[r].kind = "signin"
               PROVE  req'[q].token # req'[r].token
    OBVIOUS
  <2> QED BY DEF GoesOn, Timely
<1> QED BY <1>2, <1>3 DEF Timely, Dated, Unborn

\* What filling a session and reading a role make of the request, unless it is refused.
LEMMA FillTurn ==
  ASSUME AccessTyped, NEW q \in Requests, FillSession(q), ~Refuse(q)
  PROVE  LET x == req[q]  y == req'[q]  u == x.row.user IN
         /\ x.pc = "fill" /\ y.pc = "perms" /\ y.kind = x.kind /\ y.token = x.token /\ y.at = x.at
         /\ y.perms = x.perms /\ y.quiet = x.quiet
         /\ x.row \in SessionRow /\ user[u] \in UserRow
         /\ y.row = [x.row EXCEPT !.admin = user[u].admin, !.roles = user[u].roles]
         /\ y.todo = IF user[u].admin /\ x.kind # "api" THEN {} ELSE user[u].roles
<1> DEFINE x == req[q]
           u == x.row.user
           row == [x.row EXCEPT !.admin = user[u].admin, !.roles = user[u].roles]
           rs == IF user[u].admin /\ x.kind # "api" THEN {} ELSE user[u].roles
<1> HIDE DEF Sound, SessionRow, UserRow
<1>1. req \in [Requests -> Sound] /\ x \in Sound
  BY DEF AccessTyped
<1>2. x \in Request /\ x.pc = "fill" /\ x.row \in SessionRow
  BY <1>1 DEF Sound, FillSession, Reached
<1>3. u \in Users
  BY <1>2 DEF SessionRow
<1>4. /\ user[u] # Nil
      /\ req' = [req EXCEPT ![q].pc = "perms",
                            ![q].row = [@ EXCEPT !.admin = user[u].admin, !.roles = user[u].roles],
                            ![q].todo = rs]
  BY DEF FillSession
<1>5. user[u] \in UserRow
  BY <1>3, <1>4 DEF AccessTyped, AccessTypeOK
<1>6. req' = [req EXCEPT ![q] = [@ EXCEPT !.pc = "perms", !.row = row, !.todo = rs]]
  BY <1>4
<1> HIDE DEF row, rs
<1>7. req'[q] = [x EXCEPT !.pc = "perms", !.row = row, !.todo = rs]
  BY <1>1, <1>6
<1> HIDE DEF x
<1>8. /\ req'[q].pc = "perms" /\ req'[q].kind = x.kind /\ req'[q].token = x.token /\ req'[q].at = x.at
      /\ req'[q].perms = x.perms /\ req'[q].quiet = x.quiet /\ req'[q].row = row /\ req'[q].todo = rs
  BY <1>2, <1>7 DEF Request
<1> QED BY <1>2, <1>5, <1>8 DEF x, row, rs

LEMMA PermsTurn ==
  ASSUME AccessTyped, NEW q \in Requests, GetPerms(q), ~Refuse(q)
  PROVE  LET x == req[q]  y == req'[q] IN
         /\ x.pc = "perms" /\ y.pc = "perms" /\ y.kind = x.kind /\ y.token = x.token /\ y.at = x.at
         /\ y.row = x.row /\ y.quiet = x.quiet /\ x.row \in SessionRow
         /\ \E r \in x.todo : role[r] # Nil /\ y.todo = x.todo \ {r} /\ y.perms = x.perms \cup role[r]
<1> DEFINE x == req[q]
<1> HIDE DEF Sound, SessionRow
<1>1. req \in [Requests -> Sound] /\ x \in Sound
  BY DEF AccessTyped
<1>2. x \in Request /\ x.pc = "perms" /\ x.row \in SessionRow
  BY <1>1 DEF Sound, GetPerms, Reached
<1>3. PICK r \in x.todo : /\ role[r] # Nil
                          /\ req' = [req EXCEPT ![q].todo = @ \ {r}, ![q].perms = @ \cup role[r]]
  BY DEF GetPerms
<1> DEFINE rs == x.todo \ {r}
           ps == x.perms \cup role[r]
<1>4. req' = [req EXCEPT ![q] = [@ EXCEPT !.todo = rs, !.perms = ps]]
  BY <1>3
<1> HIDE DEF rs, ps
<1>5. req'[q] = [x EXCEPT !.todo = rs, !.perms = ps]
  BY <1>1, <1>4
<1> HIDE DEF x
<1>6. /\ req'[q].pc = "perms" /\ req'[q].kind = x.kind /\ req'[q].token = x.token /\ req'[q].at = x.at
      /\ req'[q].row = x.row /\ req'[q].quiet = x.quiet /\ req'[q].todo = rs /\ req'[q].perms = ps
  BY <1>2, <1>5 DEF Request
<1> QED BY <1>2, <1>3, <1>6 DEF x, rs, ps

\* The steps of identification leave the stored sessions alone.
LEMMA IdentifyTimely ==
  ASSUME AccessTyped, Timely, NEW q \in Requests,
         \/ \E t \in Tokens : BeginSession(q, t)
         \/ IdentifyBySession(q) \/ FillSession(q) \/ GetPerms(q) \/ IdentifyByToken(q) \/ Done(q)
  PROVE  Timely'
<1> HIDE DEF Sound, SessionRow
<1>1. /\ req \in [Requests -> Sound] /\ req[q] \in Sound
      /\ session \in [Keys -> SessionRow \cup {Nil}]
  BY DEF AccessTyped, AccessTypeOK
<1>2. req[q] \in Request
  BY <1>1 DEF Sound
<1>3. UNCHANGED <<session, born>>
  BY DEF BeginSession, IdentifyBySession, FillSession, GetPerms, IdentifyByToken, Done, stores
<1>4. \A r \in Requests \ {q} : req'[r] = req[r]
  BY <1>1 DEF BeginSession, IdentifyBySession, FillSession, GetPerms, IdentifyByToken, Done,
              Arrive, Refuse, SetUser
<1>5. \A r \in Requests \ {q} : GoesOn(req[r], req'[r])
  BY <1>4 DEF GoesOn
<1>6. CASE Refuse(q)
  BY <1>1, <1>3, <1>5, <1>6, NoKind, TimelyTurn DEF Refuse, Idle
<1>7. CASE \E t \in Tokens : BeginSession(q, t)
  <2>1. PICK t \in Tokens : BeginSession(q, t)
    BY <1>7
  <2>2. req'[q].pc = "find" /\ req'[q].kind = "session"
    BY <1>1, <2>1 DEF BeginSession, Arrive, Idle
  <2> QED BY <2>2, <1>3, <1>5, TimelyTurn DEF Dated
<1>8. CASE IdentifyBySession(q) /\ ~Refuse(q)
  <2> DEFINE row == session[req[q].token]
  <2>1. /\ Alive(row)
        /\ \E p \in {"fill", "renew", "served"} :
             req'[q] = [req[q] EXCEPT !.pc = p, !.row = row, !.at = now]
    BY <1>1, <1>8 DEF IdentifyBySession
  <2>2. req[q].kind = "session" /\ req[q].token \in Tokens
    BY <1>1, <1>8 DEF IdentifyBySession, Reached, Sound
  <2> HIDE DEF row
  <2>3. req'[q].row = row /\ req'[q].at = now /\ req'[q].kind = "session" /\ req'[q].token = req[q].token
    BY <2>1, <2>2, <1>2 DEF Request
  <2>4. /\ row \in SessionRow /\ row.expiry >= now /\ born[req[q].token] # Nil
        /\ row.max = born[req[q].token].at + Life + Grace /\ row.expiry <= row.max
    BY <2>1, <2>2, <1>1 DEF Alive, Timely, Keys, row
  <2>5. now \in Int /\ row.expiry \in Int /\ row.max \in Int
    BY <2>4, AccessAssumption DEF SessionRow, AccessTyped, AccessTypeOK
  <2>6. Dated(req'[q], born)
    BY <2>3, <2>4, <2>5 DEF Dated
  <2> QED BY <2>3, <2>6, <1>3, <1>5, TimelyTurn
<1>9. CASE FillSession(q) /\ ~Refuse(q)
  <2>1. GoesOn(req[q], req'[q])
    BY <1>9, FillTurn, ZenonT(60) DEF GoesOn, SessionRow
  <2> QED BY <2>1, <1>3, <1>5, TimelyTurn
<1>10. CASE GetPerms(q) /\ ~Refuse(q)
  <2>1. GoesOn(req[q], req'[q])
    BY <1>10, PermsTurn DEF GoesOn
  <2> QED BY <2>1, <1>3, <1>5, TimelyTurn
<1>11. CASE IdentifyByToken(q)
  <2>1. req'[q].kind = "api"
    BY <1>1, <1>2, <1>11 DEF IdentifyByToken, SetUser, Request
  <2> QED BY <2>1, <1>3, <1>5, TimelyTurn
<1>12. CASE Done(q)
  BY <1>6, <1>12 DEF Done
<1> QED BY <1>6, <1>7, <1>8, <1>9, <1>10, <1>11, <1>12
\* A sign-in takes a token that no session and no request has.
LEMMA ReceiveTimely ==
  ASSUME AccessTyped, Timely, NEW q \in Requests, NEW u \in Users,
         BeginToken(q, u) \/ \E t \in Tokens : SignIn(q, u, t) \/ FindByName(q, u, t) \/ LdapRealm(q, u, t)
  PROVE  Timely'
<1> HIDE DEF Sound, SessionRow
<1>1. req \in [Requests -> Sound]
  BY DEF AccessTyped
<1>2. UNCHANGED <<session, born>>
  BY DEF BeginToken, SignIn, FindByName, LdapRealm, stores
<1>3. CASE BeginToken(q, u)
  <2>1. req'[q].kind = "api" /\ \A r \in Requests \ {q} : req'[r] = req[r]
    BY <1>1, <1>3 DEF BeginToken, Arrive, Idle
  <2> QED BY <2>1, <1>2, TimelyTurn DEF GoesOn
<1>4. ASSUME NEW t \in Tokens, SignIn(q, u, t) \/ FindByName(q, u, t) \/ LdapRealm(q, u, t)
      PROVE  Timely'
  <2>1. /\ req'[q].kind = "signin" /\ req'[q].token = t /\ req'[q].row = NewSession(u)
        /\ \A r \in Requests \ {q} : GoesOn(req[r], req'[r])
    <3>1. CASE SignIn(q, u, t)
      BY <1>1, <3>1 DEF SignIn, Arrive, Idle, GoesOn
    <3>2. CASE FindByName(q, u, t)
      BY <1>1, <3>2 DEF FindByName, Idle, GoesOn
    <3>3. CASE LdapRealm(q, u, t)
      <4> DEFINE rq == [req EXCEPT ![q] = [Idle EXCEPT !.pc = "fill", !.kind = "signin", !.token = t,
                                                       !.row = NewSession(u)]]
      <4>1. rq \in [Requests -> Sound]
        <5>1. [Idle EXCEPT !.pc = "fill", !.kind = "signin", !.token = t, !.row = NewSession(u)] \in Sound
          BY RowTyped, StartTyped DEF AccessTyped
        <5> QED BY <5>1, <1>1
      <4>2. rq[q].kind = "signin" /\ rq[q].token = t /\ rq[q].row = NewSession(u)
        BY <1>1 DEF Idle
      <4>3. \A r \in Requests \ {q} : rq[r] = req[r]
        BY <1>1
      <4>4. req' = Disturbed(rq)
        BY <3>3 DEF LdapRealm
      <4> HIDE DEF rq
      <4>5. \A r \in Requests : GoesOn(rq[r], req'[r]) /\ req'[r].row = rq[r].row
        BY <4>1, <4>4, DisturbedKeeps DEF GoesOn
      <4> QED BY <4>2, <4>3, <4>5 DEF GoesOn
    <3> QED BY <1>4, <3>1, <3>2, <3>3
  <2>2. session[t] = Nil /\ born[t] = Nil /\ \A r \in Requests : req[r].token # t
    BY <1>4 DEF SignIn, FindByName, LdapRealm, Unused
  <2>3. NewSession(u).max = NewSession(u).expiry + Grace
    BY AccessAssumption DEF NewSession, AccessTyped, AccessTypeOK
  <2>4. Unborn(req'[q], session, born) /\ \A r \in Requests \ {q} : req'[r].token # req'[q].token
    BY <2>1, <2>2, <2>3 DEF Unborn, GoesOn
  <2> QED BY <2>1, <2>4, <1>2, TimelyTurn
<1> QED BY <1>3, <1>4

\* An edit does nothing to sessions or to what the requests carry of them.
LEMMA EditTimely ==
  ASSUME AccessTyped, Timely, AdminEdit \/ \E r \in Roles : RolePull(r)
  PROVE  Timely'
<1>1. req \in [Requests -> Sound]
  BY DEF AccessTyped
<1>2. req' = Disturbed(req) /\ UNCHANGED <<session, born>>
  BY DEF AdminEdit, CreateUser, UpdateUser, SetStatus, DeleteUser, CreateRole, UpdateRole, DeleteRole, RolePull
<1>3. \A r \in Requests : GoesOn(req[r], req'[r])
  BY <1>1, <1>2, DisturbedKeeps DEF GoesOn
<1> QED BY <1>2, <1>3, TimelyTurn

LEMMA ResolveTimely ==
  ASSUME AccessTyped, Timely, NEW q \in Requests, NEW mapped \in SUBSET Roles, ResolveUser(q, mapped)
  PROVE  Timely'
<1> HIDE DEF Sound, SessionRow
<1>1. req \in [Requests -> Sound] /\ req[q] \in Sound /\ Idle \in Sound
  BY StartTyped DEF AccessTyped
<1>2. UNCHANGED <<session, born>> /\ req[q].pc = "resolve"
  BY DEF ResolveUser, Reached
<1>3. CASE req' = Disturbed([req EXCEPT ![q].pc = "fill"])
  <2> DEFINE rq == [req EXCEPT ![q].pc = "fill"]
  <2>1. rq \in [Requests -> Sound]
    <3>1. [req[q] EXCEPT !.pc = "fill"] \in Sound
      BY <1>1, <1>2, TurnTyped
    <3> QED BY <3>1, <1>1
  <2>2. GoesOn(req[q], rq[q])
    <3>1. req[q] \in Request
      BY <1>1 DEF Sound
    <3> QED BY <3>1, <1>1, <1>2 DEF GoesOn, Request
  <2>3. \A r \in Requests : r # q => rq[r] = req[r]
    BY <1>1
  <2>4. req' = Disturbed(rq)
    BY <1>3
  <2> HIDE DEF rq
  <2>5. \A r \in Requests : GoesOn(rq[r], req'[r])
    BY <2>1, <2>4, DisturbedKeeps DEF GoesOn
  <2>6. \A r \in Requests : GoesOn(req[r], req'[r])
    BY <2>2, <2>3, <2>5 DEF GoesOn
  <2> QED BY <2>6, <1>2, TimelyTurn
<1>4. CASE req' = Disturbed([req EXCEPT ![q] = Idle])
  <2> DEFINE rq == [req EXCEPT ![q] = Idle]
  <2>1. rq \in [Requests -> Sound] /\ rq[q].kind = Nil /\ \A r \in Requests : r # q => rq[r] = req[r]
    BY <1>1 DEF Idle
  <2>2. req' = Disturbed(rq)
    BY <1>4
  <2> HIDE DEF rq
  <2>5. \A r \in Requests : GoesOn(rq[r], req'[r])
    BY <2>1, <2>2, DisturbedKeeps DEF GoesOn
  <2>3. \A r \in Requests : r # q => GoesOn(req[r], req'[r])
    BY <2>1, <2>5
  <2>4. req'[q].kind = Nil
    BY <2>1, <2>5 DEF GoesOn
  <2> QED BY <2>3, <2>4, <1>2, NoKind, TimelyTurn
<1> QED BY <1>3, <1>4 DEF ResolveUser
\* Stored sessions may go, or change within their end, while the requests go on.
LEMMA TimelyStore ==
  ASSUME AccessTyped, Timely, UNCHANGED born,
         \A t \in Tokens : session'[t] # Nil =>
            /\ session[t] # Nil /\ session'[t].max = session[t].max
            /\ session'[t].expiry <= session'[t].max,
         \A r \in Requests : req'[r].kind = Nil \/ GoesOn(req[r], req'[r])
  PROVE  Timely'
<1>1. \A r \in Requests : /\ Dated(req[r], born) /\ Unborn(req[r], session, born)
                          /\ req[r].kind = "signin" => req[r].token \in Tokens
  BY DEF Timely, AccessTyped, Sound
<1>2. \A r \in Requests : Dated(req'[r], born) /\ Unborn(req'[r], session', born)
  BY <1>1, NoKind DEF GoesOn, Dated, Unborn
<1>3. \A q, r \in Requests : q # r /\ req'[q].kind = "signin" /\ req'[r].kind = "signin"
                              => req'[q].token # req'[r].token
  BY NoKind DEF GoesOn, Timely
<1>4. \A t \in Tokens : session'[t] # Nil =>
       /\ born[t] # Nil
       /\ session'[t].max = born[t].at + Life + Grace
       /\ session'[t].expiry <= session'[t].max
  BY DEF Timely
<1> QED BY <1>2, <1>3, <1>4 DEF Timely, Dated, Unborn

LEMMA RenewTimely ==
  ASSUME AccessTyped, Timely, NEW q \in Requests, RenewSession(q)
  PROVE  Timely'
<1> HIDE DEF Sound, SessionRow
<1> DEFINE t == req[q].token
           row == req[q].row
<1>1. req \in [Requests -> Sound] /\ req[q] \in Sound /\ session \in [Keys -> SessionRow \cup {Nil}]
  BY DEF AccessTyped, AccessTypeOK
<1>2. /\ req[q] \in Request /\ req[q].pc = "renew" /\ req[q].kind = "session" /\ t \in Tokens
      /\ row \in SessionRow
  BY <1>1 DEF RenewSession, Reached, Sound
<1>3. row.max = born[t].at + Life + Grace /\ row.max \in Int
  BY <1>2 DEF Timely, Dated, SessionRow
<1>4. Renewed(row) <= row.max /\ Renewed(row) \in Int
  BY <1>3, AccessAssumption DEF Renewed, Least, AccessTyped, AccessTypeOK
<1>5. session' = IF session[t] = Nil THEN session ELSE [session EXCEPT ![t].expiry = Renewed(row)]
  BY DEF RenewSession, SessionUpdateExpiry
<1>6. t \in Keys /\ Tokens \subseteq Keys
  BY <1>2 DEF Keys
<1>7. /\ \A k \in Tokens : k # t => session'[k] = session[k]
      /\ session'[t] # Nil =>
           /\ session[t] # Nil /\ session'[t].max = session[t].max
           /\ session'[t].expiry = Renewed(row)
  <2>1. CASE session[t] = Nil
    BY <2>1, <1>5
  <2>2. CASE session[t] # Nil
    <3>1. session[t] \in SessionRow
      BY <2>2, <1>1, <1>6
    <3> HIDE DEF t, row
    <3> QED BY <2>2, <3>1, <1>1, <1>5, <1>6 DEF SessionRow
  <2> QED BY <2>1, <2>2
<1>8. \A k \in Tokens : session'[k] # Nil =>
            /\ session[k] # Nil /\ session'[k].max = session[k].max
            /\ session'[k].expiry <= session'[k].max
  <2> HIDE DEF t, row
  <2>1. session[t] # Nil => session[t].max = row.max
    BY <1>2, <1>3 DEF Timely
  <2> QED BY <2>1, <1>2, <1>4, <1>7 DEF Timely
<1>9. \A r \in Requests : GoesOn(req[r], req'[r])
  BY <1>1, <1>2 DEF RenewSession, SetUser, GoesOn, Request
<1>10. UNCHANGED born
  BY DEF RenewSession
<1> QED BY <1>8, <1>9, <1>10, TimelyStore

\* The refreshed copy goes under the user's key, which is no token.
LEMMA UpdateTimely ==
  ASSUME AccessTyped, Timely, NEW q \in Requests, UpdateSession(q)
  PROVE  Timely'
<1> HIDE DEF Sound, SessionRow
<1> DEFINE x == req[q]
           row == [Filled(q) EXCEPT !.dirty = FALSE]
<1>1. req \in [Requests -> Sound] /\ x \in Sound /\ session \in [Keys -> SessionRow \cup {Nil}]
  BY DEF AccessTyped, AccessTypeOK
<1>2. x \in Request /\ x.pc = "perms" /\ x.kind = "session" /\ x.row \in SessionRow
  BY <1>1 DEF UpdateSession, Reached, Sound
<1>3. /\ row.max = x.row.max /\ row.expiry = x.row.expiry /\ row.user = x.row.user
  BY <1>2 DEF Filled, SessionRow
<1>4. row.user \in Users
  BY <1>2, <1>3 DEF SessionRow
<1>5. UNCHANGED session \/ session' = [session EXCEPT ![row.user] = row]
  BY DEF UpdateSession, BoltSessionUpdate, MongoSessionUpdate
<1>6. \A t \in Tokens : session'[t] = session[t]
  <2> HIDE DEF row
  <2> QED BY <1>1, <1>4, <1>5, AccessAssumption DEF Keys
<1>7. req' = [req EXCEPT ![q].pc = "served", ![q].row = row] \/ req' = [req EXCEPT ![q] = Idle]
  BY DEF UpdateSession, SetUser, Refuse
<1>8. req'[q].kind = Nil \/ GoesOn(x, req'[q])
  <2> HIDE DEF row, x
  <2>1. CASE req' = [req EXCEPT ![q].pc = "served", ![q].row = row]
    BY <2>1, <1>1, <1>2, <1>3 DEF GoesOn, Request, x
  <2>2. CASE req' = [req EXCEPT ![q] = Idle]
    BY <2>2, <1>1 DEF Idle
  <2> QED BY <2>1, <2>2, <1>7
<1>9. \A r \in Requests : r # q => GoesOn(req[r], req'[r])
  BY <1>1, <1>7 DEF GoesOn
<1>10. \A t \in Tokens : session'[t] # Nil =>
            /\ session[t] # Nil /\ session'[t].max = session[t].max
            /\ session'[t].expiry <= session'[t].max
  BY <1>6 DEF Timely
<1>11. UNCHANGED born
  BY DEF UpdateSession
<1> QED BY <1>8, <1>9, <1>10, <1>11, TimelyStore

\* A mark makes sessions dirty: those it concerns, on Bolt, and nothing else.
LEMMA DirtyRows ==
  ASSUME NEW m, SessionUpdateDirty(m)
  PROVE  \A k \in Keys :
            \/ session'[k] = session[k] /\ (engine = "bolt" => ~Concerned(m, session[k]))
            \/ session[k] # Nil /\ session'[k] = [session[k] EXCEPT !.dirty = TRUE]
<1> DEFINE Dirtied(row) == [row EXCEPT !.dirty = TRUE]
<1>1. CASE engine = "bolt" /\ BoltSessionUpdateDirty(m)
  <2>1. session' = [k \in Keys |-> IF Concerned(m, session[k]) THEN Dirtied(session[k]) ELSE session[k]]
    BY <1>1 DEF BoltSessionUpdateDirty
  <2> HIDE DEF Dirtied
  <2>2. \A k \in Keys : (session'[k] = session[k] /\ ~Concerned(m, session[k]))
                        \/ (session[k] # Nil /\ session'[k] = Dirtied(session[k]))
    BY <2>1 DEF Concerned
  <2> QED BY <2>2 DEF Dirtied
<1>2. CASE engine = "mongo" /\ MongoSessionUpdateDirty(m)
  BY <1>2 DEF MongoSessionUpdateDirty
<1> QED BY <1>1, <1>2 DEF SessionUpdateDirty

LEMMA MarkTimely ==
  ASSUME AccessTyped, Timely, (\E m \in Users \cup Roles : SessionUpdateDirty(m)) \/ SessionPrune \/ Tick
  PROVE  Timely'
<1> HIDE DEF SessionRow
<1>1. session \in [Keys -> SessionRow \cup {Nil}] /\ Tokens \subseteq Keys
  BY DEF AccessTyped, AccessTypeOK, Keys
<1>2. \A row \in SessionRow : [row EXCEPT !.dirty = TRUE].max = row.max /\ [row EXCEPT !.dirty = TRUE].expiry = row.expiry
  BY DEF SessionRow
<1>3. \A t \in Tokens : session'[t] # Nil =>
         /\ session[t] # Nil /\ session'[t].max = session[t].max /\ session'[t].expiry = session[t].expiry
  <2>1. CASE \E m \in Users \cup Roles : SessionUpdateDirty(m)
    BY <2>1, <1>1, <1>2, DirtyRows
  <2>2. CASE SessionPrune
    <3>1. \A k \in Keys : session'[k] = Nil \/ session'[k] = session[k]
      BY <2>2 DEF SessionPrune
    <3> QED BY <3>1, <1>1
  <2>3. CASE Tick
    BY <2>3 DEF Tick, stores
  <2> QED BY <2>1, <2>2, <2>3
<1>4. UNCHANGED <<req, born>>
  BY DEF SessionUpdateDirty, SessionPrune, Tick
<1>5. \A t \in Tokens : session'[t] # Nil =>
            /\ session[t] # Nil /\ session'[t].max = session[t].max
            /\ session'[t].expiry <= session'[t].max
  BY <1>3 DEF Timely
<1> QED BY <1>4, <1>5, TimelyStore DEF GoesOn

\* A new session ends when its sign-in said; no other request knows its token yet.
LEMMA CreateTimely ==
  ASSUME AccessTyped, Timely, NEW q \in Requests, CreateSession(q)
  PROVE  Timely'
<1> HIDE DEF Sound, SessionRow
<1> DEFINE x == req[q]
           t == req[q].token
<1>1. /\ req \in [Requests -> Sound] /\ x \in Sound /\ session \in [Keys -> SessionRow \cup {Nil}]
      /\ born \in [Tokens -> BirthRow \cup {Nil}]
  BY DEF AccessTyped, AccessTypeOK
<1>2. x \in Request /\ x.pc = "perms" /\ x.kind = "signin" /\ x.row \in SessionRow /\ t \in Tokens
  BY <1>1 DEF CreateSession, Reached, Sound
<1>3. Filled(q).max = x.row.max /\ Filled(q).expiry = x.row.expiry
  BY <1>2 DEF Filled, SessionRow
<1>4. x.row.max = x.row.expiry + Grace /\ x.row.expiry \in Int /\ Life \in Nat /\ Grace \in Nat
  BY <1>2, AccessAssumption DEF Timely, Unborn, SessionRow
<1> DEFINE birth == [at |-> x.row.expiry - Life, alone |-> x.quiet]
<1>5. birth \in BirthRow
  BY <1>2, <1>4 DEF BirthRow, Request
<1>6. birth # Nil /\ birth.at = x.row.expiry - Life
  BY <1>5, AccessAssumption
<1>7. /\ session' = [session EXCEPT ![t] = Filled(q)] /\ born' = [born EXCEPT ![t] = birth]
      /\ req' = [req EXCEPT ![q] = Idle]
  BY DEF CreateSession, Refuse
<1> HIDE DEF birth, x, t
<1>8. /\ session'[t] = Filled(q) /\ born'[t] = birth
      /\ \A s \in Tokens : s # t => session'[s] = session[s] /\ born'[s] = born[s]
  BY <1>1, <1>2, <1>7 DEF Keys
<1>9. \A s \in Tokens : session'[s] # Nil =>
       /\ born'[s] # Nil /\ session'[s].max = born'[s].at + Life + Grace
       /\ session'[s].expiry <= session'[s].max
  <2>1. birth.at + Life + Grace = x.row.max /\ x.row.expiry <= x.row.max
    BY <1>4, <1>6
  <2> QED BY <2>1, <1>3, <1>6, <1>8 DEF Timely
<1>10. req'[q].kind = Nil /\ \A r \in Requests : r # q => req'[r] = req[r]
  BY <1>1, <1>7 DEF Idle
<1>11. \A r \in Requests : r # q => /\ req[r].kind = "signin" => req[r].token # t
                                    /\ req[r].kind = "session" /\ req[r].pc # "find" => req[r].token # t
                                    /\ req[r].kind \in {"session", "signin"} => req[r].token \in Tokens
  BY <1>1, <1>2 DEF Timely, Dated, Unborn, Sound, x, t
<1>12. \A r \in Requests : Dated(req'[r], born') /\ Unborn(req'[r], session', born')
  <2> SUFFICES ASSUME NEW r \in Requests PROVE Dated(req'[r], born') /\ Unborn(req'[r], session', born')
    OBVIOUS
  <2>1. CASE r = q
    BY <2>1, <1>10, NoKind DEF Dated, Unborn
  <2>2. CASE r # q
    <3>1. Dated(req[r], born) /\ Unborn(req[r], session, born)
      BY DEF Timely
    <3> QED BY <2>2, <3>1, <1>8, <1>10, <1>11 DEF Dated, Unborn
  <2> QED BY <2>1, <2>2
<1>13. \A p, r \in Requests : p # r /\ req'[p].kind = "signin" /\ req'[r].kind = "signin"
                               => req'[p].token # req'[r].token
  BY <1>10, NoKind DEF Timely
<1> QED BY <1>9, <1>12, <1>13 DEF Timely

LEMMA TimelyHolds == AccessSpec => [](AccessTyped /\ Timely)
<1>1. AccessInit => AccessTyped /\ Timely
  <2> SUFFICES ASSUME AccessInit, AccessTyped PROVE Timely
    BY AccessTypedInit
  <2>1. /\ \A t \in Tokens : session[t] = Nil
        /\ \A q \in Requests : req[q].kind = Nil
    BY DEF AccessInit, Keys, Idle
  <2> QED BY <2>1, NoKind DEF Timely, Dated, Unborn
<1>2. AccessTyped /\ Timely /\ [AccessNext]_accessVars => Timely'
  <2> SUFFICES ASSUME AccessTyped, Timely, [AccessNext]_accessVars PROVE Timely'
    OBVIOUS
  <2>1. CASE \E q \in Requests :
              \/ \E t \in Tokens : BeginSession(q, t)
              \/ IdentifyBySession(q) \/ FillSession(q) \/ GetPerms(q) \/ IdentifyByToken(q) \/ Done(q)
    BY <2>1, IdentifyTimely
  <2>2. CASE \/ \E q \in Requests, u \in Users, t \in Tokens : SignIn(q, u, t) \/ FindByName(q, u, t)
             \/ \E q \in Requests, u \in Users : BeginToken(q, u)
             \/ \E q \in Requests, u \in Users, t \in Tokens : LdapRealm(q, u, t)
    BY <2>2, ReceiveTimely
  <2>3. CASE \E q \in Requests : RenewSession(q) \/ UpdateSession(q) \/ CreateSession(q)
    BY <2>3, RenewTimely, UpdateTimely, CreateTimely
  <2>4. CASE (\E m \in Users \cup Roles : SessionUpdateDirty(m)) \/ SessionPrune \/ Tick
    BY <2>4, MarkTimely
  <2>5. CASE AdminEdit \/ \E r \in Roles : RolePull(r)
    BY <2>5, EditTimely
  <2>6. CASE \E q \in Requests, mapped \in SUBSET Roles : ResolveUser(q, mapped)
    BY <2>6, ResolveTimely
  <2>7. CASE UNCHANGED accessVars
    BY <2>7 DEF accessVars, Timely, Dated, Unborn
  <2> QED BY <2>1, <2>2, <2>3, <2>4, <2>5, <2>6, <2>7, AccessSteps
<1> QED BY <1>1, <1>2, AccessTypeCorrect, PTL DEF AccessSpec

\* No request is served on a session past the end its sign-in set, however often the
\* session was renewed: renewSession, identifyBySession and createSession together.
THEOREM SessionsEnd == AccessSpec => []ServedInTime
<1>1. AccessTyped /\ Timely => ServedInTime
  <2> SUFFICES ASSUME AccessTyped, Timely, NEW q \in Requests, Reached(q, "served"), req[q].kind = "session"
               PROVE  req[q].at <= born[req[q].token].at + Life + Grace
    BY DEF ServedInTime
  <2>1. Dated(req[q], born) /\ req[q].pc # "find"
    BY DEF Timely, Reached
  <2> QED BY <2>1 DEF Dated
<1> QED BY <1>1, TimelyHolds, PTL
-----------------------------------------------------------------------------
(* Access: every edit reaches the sessions it concerns. *)

\* A sign-in through an identity provider that found no account of that name.
Reserved(x) == x.pc = "resolve" /\ x.account = Nil

\* Nobody else has the id that sign-in will give the account.
Clear(q, us, ss, rq) ==
  /\ us[rq[q].row.user] = Nil
  /\ \A k \in Keys : ss[k] # Nil => ss[k].user # rq[q].row.user
  /\ \A r \in Requests : r # q => rq[r].row.user # rq[q].row.user

Resolving ==
  /\ engine = "bolt" => pulls = {}
  /\ \A q \in Requests : Reserved(req[q]) => Clear(q, user, session, req)

\* A step keeps this unless it makes an account, a session or a request of such an id.
LEMMA ResolvingTurn ==
  ASSUME Resolving, pulls' \subseteq pulls, UNCHANGED engine,
         \A r \in Requests : Reserved(req'[r]) =>
            \/ Reserved(req[r]) /\ req'[r].row.user = req[r].row.user
            \/ Clear(r, user', session', req'),
         \A r \in Requests : Reserved(req'[r]) /\ Reserved(req[r])
            => user'[req[r].row.user] = user[req[r].row.user],
         \A k \in Keys : session'[k] # Nil =>
            \/ \E l \in Keys : session[l] # Nil /\ session[l].user = session'[k].user
            \/ \E s \in Requests : ~Reserved(req'[s]) /\ req[s].row.user = session'[k].user,
         \A s \in Requests :
            \/ req'[s].row.user = Nil /\ \A r \in Requests : Reserved(req[r]) => req[r].row.user # Nil
            \/ req'[s].row.user = req[s].row.user
            \/ user[req'[s].row.user] # Nil
            \/ \E l \in Keys : session[l] # Nil /\ session[l].user = req'[s].row.user
            \/ \A r \in Requests : r # s => req[r].row.user # req'[s].row.user
  PROVE  Resolving'
<1>1. \A r \in Requests : Reserved(req'[r]) => Clear(r, user', session', req')
  <2> SUFFICES ASSUME NEW r \in Requests, Reserved(req'[r]), Reserved(req[r]), req'[r].row.user = req[r].row.user
               PROVE  Clear(r, user', session', req')
    OBVIOUS
  <2>1. Clear(r, user, session, req)
    BY DEF Resolving
  <2> DEFINE u == req[r].row.user
  <2>2. user'[u] = Nil
    BY <2>1 DEF Clear
  <2>3. \A k \in Keys : session'[k] # Nil => session'[k].user # u
    BY <2>1 DEF Clear
  <2>4. \A s \in Requests : s # r => req'[s].row.user # u
    BY <2>1 DEF Clear
  <2> QED BY <2>2, <2>3, <2>4 DEF Clear
<1> QED BY <1>1 DEF Resolving

\* The user of such a sign-in is a user; a request without a row has none.
LEMMA ReservedUser ==
  ASSUME AccessTyped, NEW r \in Requests, Reserved(req[r])
  PROVE  req[r].row.user \in Users /\ req[r].row.user # Nil
BY AccessAssumption DEF Reserved, AccessTyped, Sound, SessionRow

LEMMA IdentifyResolving ==
  ASSUME AccessTyped, Resolving, NEW q \in Requests,
         \/ \E t \in Tokens : BeginSession(q, t)
         \/ IdentifyBySession(q) \/ FillSession(q) \/ GetPerms(q) \/ IdentifyByToken(q) \/ Done(q)
  PROVE  Resolving'
<1> HIDE DEF Sound, SessionRow
<1>1. /\ req \in [Requests -> Sound] /\ req[q] \in Sound /\ req[q] \in Request
      /\ session \in [Keys -> SessionRow \cup {Nil}]
  BY DEF AccessTyped, AccessTypeOK, Sound
<1>2. UNCHANGED <<engine, user, session, pulls>>
  BY DEF BeginSession, IdentifyBySession, FillSession, GetPerms, IdentifyByToken, Done, stores
<1>3. \A r \in Requests \ {q} : req'[r] = req[r]
  BY <1>1 DEF BeginSession, IdentifyBySession, FillSession, GetPerms, IdentifyByToken, Done,
              Arrive, Refuse, SetUser
<1>4. req'[q].pc # "resolve" /\ \/ req'[q].row.user \in {Nil, req[q].row.user}
                                \/ \E l \in Keys : session[l] # Nil /\ session[l].user = req'[q].row.user
  <2>1. CASE Refuse(q)
    BY <2>1, <1>1 DEF Refuse, Idle, NoRow
  <2>2. CASE \E t \in Tokens : BeginSession(q, t)
    <3>1. PICK t \in Tokens : BeginSession(q, t)
      BY <2>2
    <3>2. req'[q].pc = "find" /\ req'[q].row = NoRow
      BY <1>1, <3>1 DEF BeginSession, Arrive, Idle
    <3> QED BY <3>2 DEF NoRow
  <2>3. CASE IdentifyBySession(q) /\ ~Refuse(q)
    <3> DEFINE row == session[req[q].token]
    <3>1. /\ Alive(row)
          /\ \E p \in {"fill", "renew", "served"} :
               req'[q] = [req[q] EXCEPT !.pc = p, !.row = row, !.at = now]
      BY <1>1, <2>3 DEF IdentifyBySession
    <3>2. req[q].token \in Keys
      BY <1>1, <2>3 DEF IdentifyBySession, Reached, Sound, Keys
    <3>3. row # Nil
      BY <3>1 DEF Alive
    <3> HIDE DEF row
    <3>4. req'[q].pc # "resolve" /\ req'[q].row = row
      BY <3>1, <1>1 DEF Request
    <3> QED BY <3>2, <3>3, <3>4 DEF row
  <2>4. CASE FillSession(q) /\ ~Refuse(q)
    BY <2>4, FillTurn, ZenonT(60) DEF SessionRow
  <2>5. CASE GetPerms(q) /\ ~Refuse(q)
    BY <2>5, PermsTurn
  <2>6. CASE IdentifyByToken(q)
    <3>1. req[q].row \in SessionRow
      BY <1>1, <2>6 DEF IdentifyByToken, Reached, Sound
    <3>2. Filled(q).user = req[q].row.user
      BY <3>1 DEF Filled, SessionRow
    <3>3. req'[q].pc = "served" /\ req'[q].row = Filled(q)
      BY <1>1, <2>6 DEF IdentifyByToken, SetUser, Request
    <3> QED BY <3>2, <3>3
  <2> QED BY <2>1, <2>2, <2>3, <2>4, <2>5, <2>6 DEF Done
<1>5. \A r \in Requests : Reserved(req'[r]) => req'[r] = req[r]
  BY <1>3, <1>4 DEF Reserved
<1>6. \A s \in Requests :
            \/ req'[s].row.user = Nil /\ \A r \in Requests : Reserved(req[r]) => req[r].row.user # Nil
            \/ req'[s].row.user = req[s].row.user
            \/ \E l \in Keys : session[l] # Nil /\ session[l].user = req'[s].row.user
  BY <1>3, <1>4, ReservedUser
<1> QED BY <1>2, <1>5, <1>6, ResolvingTurn

LEMMA ReceiveResolving ==
  ASSUME AccessTyped, Resolving, NEW q \in Requests, NEW u \in Users,
         BeginToken(q, u) \/ \E t \in Tokens : SignIn(q, u, t) \/ FindByName(q, u, t) \/ LdapRealm(q, u, t)
  PROVE  Resolving'
<1> HIDE DEF Sound, SessionRow
<1>1. req \in [Requests -> Sound] /\ user \in [Users -> UserRow \cup {Nil}]
  BY DEF AccessTyped, AccessTypeOK
<1>2. UNCHANGED <<engine, session, pulls>>
  BY DEF BeginToken, SignIn, FindByName, LdapRealm, stores
<1>3. CASE BeginToken(q, u) \/ \E t \in Tokens : SignIn(q, u, t)
  <2>1. /\ \A r \in Requests \ {q} : req'[r] = req[r]
        /\ req'[q].pc = "fill" /\ req'[q].row.user = u /\ user[u] # Nil /\ UNCHANGED user
    <3>1. CASE BeginToken(q, u)
      BY <1>1, <3>1 DEF BeginToken, Arrive, Idle, stores
    <3>2. ASSUME NEW t \in Tokens, SignIn(q, u, t)
          PROVE  /\ \A r \in Requests \ {q} : req'[r] = req[r]
                 /\ req'[q].pc = "fill" /\ req'[q].row.user = u /\ user[u] # Nil /\ UNCHANGED user
      <4>1. /\ \A r \in Requests \ {q} : req'[r] = req[r]
            /\ req'[q].pc = "fill" /\ req'[q].row = NewSession(u)
        BY <1>1, <3>2 DEF SignIn, Arrive, Idle
      <4> QED BY <3>2, <4>1 DEF SignIn, NewSession, stores
    <3> QED BY <1>3, <3>1, <3>2
  <2>2. \A r \in Requests : Reserved(req'[r]) => req'[r] = req[r]
    BY <2>1 DEF Reserved
  <2> QED BY <2>1, <2>2, <1>2, ResolvingTurn
<1>4. ASSUME NEW t \in Tokens, FindByName(q, u, t) PROVE Resolving'
  <2>1. /\ \A r \in Requests \ {q} : req'[r] = req[r]
        /\ req'[q].pc = "resolve" /\ req'[q].row.user = u /\ req'[q].account = user[u] /\ UNCHANGED user
    BY <1>1, <1>4 DEF FindByName, Idle, NewSession, stores
  <2>2. CASE user[u] # Nil
    <3>1. \A r \in Requests : Reserved(req'[r]) => req'[r] = req[r]
      BY <2>1, <2>2 DEF Reserved
    <3> QED BY <2>1, <2>2, <3>1, <1>2, ResolvingTurn
  <2>3. CASE user[u] = Nil
    <3>1. FreshUser(u)
      BY <1>4, <2>3 DEF FindByName
    <3>2. Clear(q, user', session', req')
      BY <2>1, <2>3, <3>1, <1>2 DEF FreshUser, Clear
    <3>3. \A r \in Requests : Reserved(req'[r]) => req'[r] = req[r] \/ r = q
      BY <2>1 DEF Reserved
    <3>4. \A r \in Requests : r # q => req[r].row.user # req'[q].row.user
      BY <2>1, <3>1 DEF FreshUser
    <3> QED BY <2>1, <3>2, <3>3, <3>4, <1>2, ResolvingTurn
  <2> QED BY <2>2, <2>3
<1>5. ASSUME NEW t \in Tokens, LdapRealm(q, u, t) PROVE Resolving'
  <2> DEFINE rq == [req EXCEPT ![q] = [Idle EXCEPT !.pc = "fill", !.kind = "signin", !.token = t,
                                                   !.row = NewSession(u)]]
  <2>1. rq \in [Requests -> Sound]
    <3>1. [Idle EXCEPT !.pc = "fill", !.kind = "signin", !.token = t, !.row = NewSession(u)] \in Sound
      BY RowTyped, StartTyped DEF AccessTyped
    <3> QED BY <3>1, <1>1
  <2>2. rq[q].pc = "fill" /\ rq[q].row.user = u
    BY <1>1 DEF Idle, NewSession
  <2>3. \A r \in Requests \ {q} : rq[r] = req[r]
    BY <1>1
  <2>4. /\ req' = Disturbed(rq) /\ FreshUser(u)
        /\ user' = [user EXCEPT ![u] = Account(FALSE, {}, "ldap")]
    BY <1>5 DEF LdapRealm
  <2> HIDE DEF rq
  <2>5. \A r \in Requests : req'[r].pc = rq[r].pc /\ req'[r].account = rq[r].account /\ req'[r].row = rq[r].row
    BY <2>1, <2>4, DisturbedKeeps
  <2>6. \A r \in Requests : r # q => req'[r].row.user = req[r].row.user
    BY <2>3, <2>5
  <2>7. \A r \in Requests : Reserved(req'[r]) => Reserved(req[r]) /\ r # q
    BY <2>2, <2>3, <2>5 DEF Reserved
  <2>8. \A r \in Requests : req[r].row.user # u
    BY <2>4 DEF FreshUser
  <2>9. \A r \in Requests : Reserved(req[r]) => user'[req[r].row.user] = user[req[r].row.user]
    BY <2>4, <2>8, <1>1, ReservedUser
  <2>10. req'[q].row.user = u
    BY <2>2, <2>5
  <2> QED BY <2>6, <2>7, <2>8, <2>9, <2>10, <1>2, ResolvingTurn
<1> QED BY <1>3, <1>4, <1>5
LEMMA StoreResolving ==
  ASSUME AccessTyped, Resolving, NEW q \in Requests, RenewSession(q) \/ UpdateSession(q) \/ CreateSession(q)
  PROVE  Resolving'
<1> HIDE DEF Sound, SessionRow
<1> DEFINE x == req[q]
<1>1. /\ req \in [Requests -> Sound] /\ x \in Sound /\ x \in Request
      /\ session \in [Keys -> SessionRow \cup {Nil}]
  BY DEF AccessTyped, AccessTypeOK, Sound
<1>2. UNCHANGED <<engine, user, pulls>>
  BY DEF RenewSession, UpdateSession, CreateSession
<1>3. x.row \in SessionRow /\ x.token \in Keys
  BY <1>1 DEF RenewSession, UpdateSession, CreateSession, Reached, Sound, Keys
<1>4. Filled(q) \in SessionRow /\ Filled(q).user = x.row.user
  BY <1>3, <1>1, MapTyped, RowTyped, ZenonT(60) DEF Filled, SessionRow, Request
<1>5. [Filled(q) EXCEPT !.dirty = FALSE].user = x.row.user
  BY <1>4 DEF SessionRow
<1>6. \A r \in Requests : r # q => req'[r] = req[r]
  BY <1>1 DEF RenewSession, UpdateSession, CreateSession, SetUser, Refuse
<1>7. req'[q].pc # "resolve" /\ req'[q].row.user \in {Nil, x.row.user}
  <2>1. CASE Refuse(q)
    BY <2>1, <1>1 DEF Refuse, Idle, NoRow
  <2>2. ASSUME NEW row, SetUser(q, row), row.user = x.row.user
        PROVE  req'[q].pc # "resolve" /\ req'[q].row.user \in {Nil, x.row.user}
    <3>1. req'[q].pc = "served" /\ req'[q].row = row
      BY <2>2, <1>1 DEF SetUser, Request
    <3> QED BY <2>2, <3>1
  <2> QED BY <2>1, <2>2, <1>5 DEF RenewSession, UpdateSession, CreateSession
<1>8. \A k \in Keys : session'[k] # Nil =>
            \/ session[k] # Nil /\ session[k].user = session'[k].user
            \/ session'[k].user = x.row.user
  <2>1. CASE RenewSession(q)
    <3> DEFINE t == x.token
               e == Renewed(x.row)
    <3>1. session' = IF session[t] = Nil THEN session ELSE [session EXCEPT ![t].expiry = e]
      BY <2>1 DEF RenewSession, SessionUpdateExpiry
    <3>2. session[t] # Nil => session[t] \in SessionRow
      BY <1>1, <1>3
    <3> HIDE DEF t, e, x
    <3> QED BY <3>1, <3>2, <1>1 DEF SessionRow
  <2>2. CASE UpdateSession(q)
    <3> DEFINE row == [Filled(q) EXCEPT !.dirty = FALSE]
    <3>1. UNCHANGED session \/ session' = [session EXCEPT ![row.user] = row]
      BY <2>2 DEF UpdateSession, BoltSessionUpdate, MongoSessionUpdate
    <3>2. row.user = x.row.user
      BY <1>5
    <3> HIDE DEF row
    <3> QED BY <3>1, <3>2, <1>1
  <2>3. CASE CreateSession(q)
    BY <2>3, <1>1, <1>4 DEF CreateSession
  <2> QED BY <2>1, <2>2, <2>3
<1>9. ~Reserved(req'[q]) /\ \A r \in Requests : Reserved(req'[r]) => req'[r] = req[r]
  BY <1>6, <1>7 DEF Reserved
<1>10. \A s \in Requests :
            \/ req'[s].row.user = Nil /\ \A r \in Requests : Reserved(req[r]) => req[r].row.user # Nil
            \/ req'[s].row.user = req[s].row.user
  BY <1>6, <1>7, ReservedUser
<1> QED BY <1>2, <1>8, <1>9, <1>10, ResolvingTurn

LEMMA MarkResolving ==
  ASSUME AccessTyped, Resolving, (\E m \in Users \cup Roles : SessionUpdateDirty(m)) \/ SessionPrune \/ Tick
  PROVE  Resolving'
<1>1. UNCHANGED <<engine, user, pulls, req>>
  BY DEF SessionUpdateDirty, SessionPrune, Tick, stores
<1>2. \A k \in Keys : session'[k] # Nil => session[k] # Nil /\ session[k].user = session'[k].user
  <2>1. CASE \E m \in Users \cup Roles : SessionUpdateDirty(m)
    BY <2>1, DirtyRows DEF AccessTyped, AccessTypeOK, SessionRow
  <2>2. CASE SessionPrune
    <3>1. \A k \in Keys : session'[k] = Nil \/ session'[k] = session[k]
      BY <2>2 DEF SessionPrune
    <3> QED BY <3>1
  <2>3. CASE Tick
    BY <2>3 DEF Tick, stores
  <2> QED BY <2>1, <2>2, <2>3
<1> QED BY <1>1, <1>2, ResolvingTurn

\* An edit writes users that exist, or one whose id nobody has yet.
LEMMA EditResolving ==
  ASSUME AccessTyped, Resolving, AdminEdit \/ \E r \in Roles : RolePull(r)
  PROVE  Resolving'
<1>1. req \in [Requests -> Sound] /\ user \in [Users -> UserRow \cup {Nil}]
  BY DEF AccessTyped, AccessTypeOK
<1>2. req' = Disturbed(req) /\ UNCHANGED <<engine, session>>
  BY DEF AdminEdit, CreateUser, UpdateUser, SetStatus, DeleteUser, CreateRole, UpdateRole, DeleteRole, RolePull
<1>3. \A r \in Requests : req'[r].pc = req[r].pc /\ req'[r].account = req[r].account /\ req'[r].row = req[r].row
  BY <1>1, <1>2, DisturbedKeeps
<1>4. engine = "bolt" => pulls' = {}
  BY DEF AdminEdit, CreateUser, UpdateUser, SetStatus, DeleteUser, CreateRole, UpdateRole, DeleteRole,
         RoleDelete, RolePull, Resolving
<1>5. \A v \in Users : user[v] = Nil /\ user'[v] # Nil => FreshUser(v)
  <2>1. CASE \E u \in Users, admin \in BOOLEAN, rs \in SUBSET Roles : CreateUser(u, admin, rs)
    BY <2>1, <1>1 DEF CreateUser
  <2>2. CASE ~ \E u \in Users, admin \in BOOLEAN, rs \in SUBSET Roles : CreateUser(u, admin, rs)
    BY <2>2, <1>1 DEF AdminEdit, UpdateUser, SetStatus, DeleteUser, CreateRole, UpdateRole, DeleteRole, RolePull
  <2> QED BY <2>1, <2>2
<1>6. \A r \in Requests : Reserved(req[r]) => user'[req[r].row.user] = Nil
  <2> SUFFICES ASSUME NEW r \in Requests, Reserved(req[r]) PROVE user'[req[r].row.user] = Nil
    OBVIOUS
  <2>1. req[r].row.user \in Users /\ user[req[r].row.user] = Nil
    BY ReservedUser DEF Resolving, Clear
  <2>2. ~FreshUser(req[r].row.user)
    BY DEF FreshUser
  <2> QED BY <2>1, <2>2, <1>5
<1>7. \A r \in Requests : Reserved(req'[r]) => Clear(r, user', session', req')
  BY <1>2, <1>3, <1>6 DEF Reserved, Clear, Resolving
<1> QED BY <1>2, <1>4, <1>7 DEF Resolving

LEMMA ResolveResolving ==
  ASSUME AccessTyped, Resolving, NEW q \in Requests, NEW mapped \in SUBSET Roles, ResolveUser(q, mapped)
  PROVE  Resolving'
<1> HIDE DEF Sound, SessionRow
<1> DEFINE u == req[q].row.user
<1>1. req \in [Requests -> Sound] /\ req[q] \in Sound /\ req[q] \in Request /\ Idle \in Sound
  BY StartTyped DEF AccessTyped, Sound
<1>2. UNCHANGED <<engine, session, pulls>> /\ req[q].pc = "resolve" /\ u \in Users
  BY <1>1 DEF ResolveUser, Reached, Sound, SessionRow
<1>3. /\ \A r \in Requests : r # q => /\ req'[r].pc = req[r].pc /\ req'[r].account = req[r].account
                                      /\ req'[r].row = req[r].row
      /\ req'[q].pc # "resolve" /\ req'[q].row.user \in {Nil, u}
  <2>1. ASSUME NEW rq \in [Requests -> Sound], req' = Disturbed(rq),
               \A r \in Requests : r # q => rq[r] = req[r],
               rq[q].pc # "resolve" /\ rq[q].row.user \in {Nil, u}
        PROVE  /\ \A r \in Requests : r # q => /\ req'[r].pc = req[r].pc /\ req'[r].account = req[r].account
                                               /\ req'[r].row = req[r].row
               /\ req'[q].pc # "resolve" /\ req'[q].row.user \in {Nil, u}
    <3>1. \A r \in Requests : req'[r].pc = rq[r].pc /\ req'[r].account = rq[r].account /\ req'[r].row = rq[r].row
      BY <2>1, DisturbedKeeps
    <3> QED BY <2>1, <3>1
  <2>2. CASE req' = Disturbed([req EXCEPT ![q].pc = "fill"])
    <3>1. [req[q] EXCEPT !.pc = "fill"] \in Sound
      BY <1>1, <1>2, TurnTyped
    <3> DEFINE rq == [req EXCEPT ![q].pc = "fill"]
    <3>2. rq \in [Requests -> Sound] /\ \A r \in Requests : r # q => rq[r] = req[r]
      BY <1>1, <3>1
    <3>3. rq[q].pc = "fill" /\ rq[q].row = req[q].row
      BY <1>1 DEF Request
    <3>4. req' = Disturbed(rq)
      BY <2>2
    <3> HIDE DEF rq
    <3> QED BY <2>1, <3>2, <3>3, <3>4
  <2>3. CASE req' = Disturbed([req EXCEPT ![q] = Idle])
    <3> DEFINE rq == [req EXCEPT ![q] = Idle]
    <3>1. rq \in [Requests -> Sound] /\ \A r \in Requests : r # q => rq[r] = req[r]
      BY <1>1
    <3>2. rq[q].pc = "idle" /\ rq[q].row.user = Nil
      BY <1>1 DEF Idle, NoRow
    <3>3. req' = Disturbed(rq)
      BY <2>3
    <3> HIDE DEF rq
    <3> QED BY <2>1, <3>1, <3>2, <3>3
  <2> QED BY <2>2, <2>3 DEF ResolveUser
<1>4. \A r \in Requests : Reserved(req'[r]) => r # q /\ Reserved(req[r]) /\ req'[r].row.user = req[r].row.user
  BY <1>3 DEF Reserved
<1>5. \A v \in Users : v # u => user'[v] = user[v]
  <2>1. user \in [Users -> UserRow \cup {Nil}]
    BY DEF AccessTyped, AccessTypeOK
  <2>2. user' = user \/ \E a : user' = [user EXCEPT ![u] = a]
    BY DEF ResolveUser
  <2> QED BY <2>1, <2>2
<1>6. \A r \in Requests : r # q /\ Reserved(req[r]) => req[r].row.user # u
  BY DEF Resolving, Clear
<1>7. \A r \in Requests : Reserved(req'[r]) => user'[req[r].row.user] = user[req[r].row.user]
  BY <1>4, <1>5, <1>6, ReservedUser
<1>8. \A s \in Requests :
            \/ req'[s].row.user = Nil /\ \A r \in Requests : Reserved(req[r]) => req[r].row.user # Nil
            \/ req'[s].row.user = req[s].row.user
  BY <1>3, ReservedUser
<1> HIDE DEF u
<1> QED BY <1>2, <1>4, <1>7, <1>8, ResolvingTurn
\* What some users and roles grant a user.
Decides(us, rs, u, p) ==
  us[u].admin \/ Contains(NewPermMap(UNION {rs[r] : r \in us[u].roles}), p)

\* A copy that answers as the users and roles do, and names the roles it depends on.
Fresh(row, us, rs) ==
  /\ row.roles = us[row.user].roles
  /\ \A p \in Permissions : Check(row, p) = Decides(us, rs, row.user, p)

Due(row, ms) == \E m \in ms : Concerned(m, row)

\* A copy is right, or will be found out before it is used.
Caught(row, us, rs, ms) ==
  row.dirty \/ Due(row, ms) \/ us[row.user] = Nil \/ Fresh(row, us, rs)

RowsReached ==
  engine = "bolt" => \A t \in Tokens :
     session[t] # Nil /\ born[t].alone => Caught(session[t], user, role, marks)

\* What a request that no edit overlapped has read of its user and of the roles.
ReadSoFar(x, us, rs) ==
  /\ us[x.row.user] # Nil
  /\ x.row.admin = us[x.row.user].admin /\ x.row.roles = us[x.row.user].roles
  /\ \/ x.row.admin /\ x.kind # "api"
     \/ /\ x.todo \subseteq us[x.row.user].roles
        /\ x.perms = UNION {rs[r] : r \in us[x.row.user].roles \ x.todo}

RightSoFar(x, us, rs, ms, b) ==
  x.quiet =>
    /\ ms = {}
    /\ x.pc = "perms" => ReadSoFar(x, us, rs)
    /\ x.pc \in {"renew", "served"} /\ us[x.row.user] # Nil
         /\ (x.kind = "session" => b[x.token].alone) => Fresh(x.row, us, rs)

ReadRight == engine = "bolt" => \A q \in Requests : RightSoFar(req[q], user, role, marks, born)

Reaching == Timely /\ Resolving /\ RowsReached /\ ReadRight

\* The property's own wording of what is granted now.
LEMMA DecidesNow ==
  ASSUME AccessTypeOK, NEW u \in Users, user[u] # Nil, NEW p
  PROVE  Check(Current(u), p) = Decides(user, role, u, p)
<1>1. user[u].admin \in BOOLEAN
  BY DEF AccessTypeOK, UserRow
<1>2. CASE user[u].admin
  BY <1>2 DEF Check, Current, Decides
<1>3. CASE ~user[u].admin
  BY <1>1, <1>3 DEF Check, Current, Decides, Granted
<1> QED BY <1>2, <1>3

\* Two rows that differ neither in the user nor in the permissions answer alike.
LEMMA FreshAlike ==
  ASSUME NEW row, NEW other, NEW us, NEW rs,
         other.user = row.user, other.roles = row.roles, other.admin = row.admin, other.perm = row.perm,
         Fresh(row, us, rs)
  PROVE  Fresh(other, us, rs)
BY DEF Fresh, Check

LEMMA CaughtAlike ==
  ASSUME NEW row \in SessionRow, NEW other \in SessionRow, NEW us, NEW rs, NEW ms,
         other.user = row.user, other.roles = row.roles, other.admin = row.admin, other.perm = row.perm,
         row.dirty => other.dirty,
         Caught(row, us, rs, ms)
  PROVE  Caught(other, us, rs, ms)
<1>1. row # Nil /\ other # Nil
  BY RowTyped
<1>2. Due(row, ms) => Due(other, ms)
  BY <1>1 DEF Due, Concerned
<1>3. Fresh(row, us, rs) => Fresh(other, us, rs)
  BY FreshAlike
<1> QED BY <1>2, <1>3 DEF Caught

\* A copy stays right while neither its user nor one of its roles changes ...
LEMMA FreshStays ==
  ASSUME NEW row, NEW us, NEW rs, NEW us2, NEW rs2, Fresh(row, us, rs),
         us2[row.user].admin = us[row.user].admin, us2[row.user].roles = us[row.user].roles,
         \A r \in row.roles : rs2[r] = rs[r]
  PROVE  Fresh(row, us2, rs2)
<1> DEFINE S == us[row.user].roles
<1>1. row.roles = S /\ us2[row.user].roles = S
  BY DEF Fresh
<1>2. {rs2[r] : r \in S} = {rs[r] : r \in S}
  BY <1>1
<1>3. \A p : Decides(us2, rs2, row.user, p) = Decides(us, rs, row.user, p)
  BY <1>1, <1>2 DEF Decides
<1> QED BY <1>1, <1>3 DEF Fresh

\* ... and stays caught when what changes is marked.
LEMMA CaughtStays ==
  ASSUME NEW row \in SessionRow, NEW us, NEW rs, NEW ms, NEW us2, NEW rs2, NEW ms2,
         Caught(row, us, rs, ms), ms \subseteq ms2,
         \/ Due(row, ms2) \/ us2[row.user] = Nil
         \/ /\ us[row.user] # Nil
            /\ us2[row.user].admin = us[row.user].admin /\ us2[row.user].roles = us[row.user].roles
            /\ \A r \in row.roles : rs2[r] = rs[r]
  PROVE  Caught(row, us2, rs2, ms2)
<1>1. Due(row, ms) => Due(row, ms2)
  BY DEF Due
<1>2. CASE Due(row, ms2) \/ us2[row.user] = Nil
  BY <1>2 DEF Caught
<1>3. CASE /\ us[row.user] # Nil
           /\ us2[row.user].admin = us[row.user].admin /\ us2[row.user].roles = us[row.user].roles
           /\ \A r \in row.roles : rs2[r] = rs[r]
  <2>1. Fresh(row, us, rs) => Fresh(row, us2, rs2)
    BY <1>3, FreshStays
  <2> QED BY <1>1, <1>3, <2>1 DEF Caught
<1> QED BY <1>2, <1>3

\* The copy made of what was read while nothing was edited answers as the stored rows do.
LEMMA FilledFresh ==
  ASSUME AccessTyped, NEW q \in Requests, req[q].pc = "perms", req[q].todo = {},
         ReadSoFar(req[q], user, role)
  PROVE  /\ Fresh(Filled(q), user, role) /\ Filled(q).user = req[q].row.user
         /\ Fresh([Filled(q) EXCEPT !.dirty = FALSE], user, role)
<1> HIDE DEF Sound, SessionRow, UserRow
<1> DEFINE x == req[q]
           u == x.row.user
<1>1. x \in Sound /\ x.row \in SessionRow /\ x \in Request
  BY DEF AccessTyped, Sound
<1>2. u \in Users /\ user[u] \in UserRow
  BY <1>1 DEF SessionRow, ReadSoFar, AccessTyped, AccessTypeOK
<1>3. x.row.admin \in BOOLEAN /\ x.row.admin = user[u].admin /\ x.row.roles = user[u].roles
  BY <1>1 DEF ReadSoFar, SessionRow
<1>4. /\ Filled(q).user = u /\ Filled(q).admin = x.row.admin /\ Filled(q).roles = x.row.roles
      /\ Filled(q).perm = IF x.row.admin /\ x.kind # "api" THEN x.row.perm ELSE NewPermMap(x.perms)
  BY <1>1 DEF Filled, SessionRow
<1>5. x.row.admin \/ x.perms = UNION {role[r] : r \in user[u].roles}
  BY DEF ReadSoFar
<1>6. \A p : Check(Filled(q), p) = Decides(user, role, u, p)
  <2> SUFFICES ASSUME NEW p PROVE Check(Filled(q), p) = Decides(user, role, u, p)
    OBVIOUS
  <2>1. CASE x.row.admin
    BY <2>1, <1>3, <1>4 DEF Check, Decides
  <2>2. CASE ~x.row.admin
    <3>1. Filled(q).perm = NewPermMap(UNION {role[r] : r \in user[u].roles})
      BY <2>2, <1>4, <1>5
    <3> QED BY <2>2, <3>1, <1>3, <1>4 DEF Check, Decides
  <2> QED BY <2>1, <2>2
<1>7. Fresh(Filled(q), user, role)
  BY <1>3, <1>4, <1>6 DEF Fresh
<1>8. Filled(q) \in SessionRow
  BY <1>1, MapTyped, RowTyped DEF Filled, SessionRow, Request
<1>9. /\ [Filled(q) EXCEPT !.dirty = FALSE].user = Filled(q).user
      /\ [Filled(q) EXCEPT !.dirty = FALSE].roles = Filled(q).roles
      /\ [Filled(q) EXCEPT !.dirty = FALSE].admin = Filled(q).admin
      /\ [Filled(q) EXCEPT !.dirty = FALSE].perm = Filled(q).perm
  BY <1>8 DEF SessionRow
<1>10. Fresh([Filled(q) EXCEPT !.dirty = FALSE], user, role)
  <2> DEFINE other == [Filled(q) EXCEPT !.dirty = FALSE]
  <2> HIDE DEF other
  <2> QED BY <1>7, <1>9, FreshAlike DEF other
<1> QED BY <1>4, <1>7, <1>10
\* A step that edits nothing leaves every other request as right as it was.
LEMMA RightTurn ==
  ASSUME ReadRight, Timely, UNCHANGED <<engine, user, role, marks>>,
         \A r \in Requests :
            \/ engine = "bolt" => RightSoFar(req'[r], user, role, marks, born')
            \/ /\ req'[r] = req[r]
               /\ req[r].kind = "session" /\ req[r].pc \in {"renew", "served"}
                    => born'[req[r].token] = born[req[r].token]
  PROVE  ReadRight'
<1>1. ASSUME engine = "bolt", NEW r \in Requests PROVE RightSoFar(req'[r], user, role, marks, born')
  <2>1. RightSoFar(req[r], user, role, marks, born)
    BY <1>1 DEF ReadRight
  <2> QED BY <1>1, <2>1 DEF RightSoFar
<1> QED BY <1>1 DEF ReadRight

\* One more role read, one more role's permissions.
LEMMA UnionMore ==
  ASSUME NEW rs, NEW S, NEW r
  PROVE  UNION {rs[s] : s \in S \cup {r}} = (UNION {rs[s] : s \in S}) \cup rs[r]
<1>1. \A e : e \in UNION {rs[s] : s \in S \cup {r}} <=> \E s \in S \cup {r} : e \in rs[s]
  BY Zenon
<1>2. \A e : e \in UNION {rs[s] : s \in S} <=> \E s \in S : e \in rs[s]
  BY Zenon
<1>3. \A e : (\E s \in S \cup {r} : e \in rs[s]) <=> (\E s \in S : e \in rs[s]) \/ e \in rs[r]
  BY Zenon
<1> DEFINE A == UNION {rs[s] : s \in S \cup {r}}
           B == UNION {rs[s] : s \in S}
<1>4. \A e : e \in A <=> (e \in B \/ e \in rs[r])
  BY <1>1, <1>2, <1>3
<1> HIDE DEF A, B
<1>5. A = B \cup rs[r]
  BY <1>4
<1> QED BY <1>5 DEF A, B

LEMMA IdentifyRight ==
  ASSUME AccessTyped, Timely, RowsReached, ReadRight, NEW q \in Requests,
         \/ \E t \in Tokens : BeginSession(q, t)
         \/ IdentifyBySession(q) \/ FillSession(q) \/ GetPerms(q) \/ IdentifyByToken(q) \/ Done(q)
  PROVE  RowsReached' /\ ReadRight'
<1> HIDE DEF Sound, SessionRow
<1>1. /\ req \in [Requests -> Sound] /\ req[q] \in Sound /\ req[q] \in Request
      /\ session \in [Keys -> SessionRow \cup {Nil}]
  BY DEF AccessTyped, AccessTypeOK, Sound
<1>2. UNCHANGED <<engine, user, role, session, marks, born>>
  BY DEF BeginSession, IdentifyBySession, FillSession, GetPerms, IdentifyByToken, Done, stores
<1>3. \A r \in Requests \ {q} : req'[r] = req[r]
  BY <1>1 DEF BeginSession, IdentifyBySession, FillSession, GetPerms, IdentifyByToken, Done,
              Arrive, Refuse, SetUser
<1>4. RowsReached'
  BY <1>2 DEF RowsReached
<1>5. ASSUME engine = "bolt", req'[q].quiet
      PROVE  RightSoFar(req'[q], user, role, marks, born)
  <2>1. RightSoFar(req[q], user, role, marks, born)
    BY <1>5 DEF ReadRight
  <2>2. CASE Refuse(q)
    BY <2>2, <1>5, <1>1 DEF Refuse, Idle
  <2>3. CASE \E t \in Tokens : BeginSession(q, t)
    <3>1. PICK t \in Tokens : BeginSession(q, t)
      BY <2>3
    <3>2. req'[q].pc = "find" /\ req'[q].quiet = (marks = {} /\ pulls = {})
      BY <1>1, <3>1 DEF BeginSession, Arrive, Idle
    <3> QED BY <3>2, <1>5 DEF RightSoFar
  <2>4. CASE IdentifyBySession(q) /\ ~Refuse(q)
    <3> DEFINE t == req[q].token
               row == session[t]
    <3>1. /\ Alive(row)
          /\ \E p \in {"fill", "renew", "served"} :
               /\ req'[q] = [req[q] EXCEPT !.pc = p, !.row = row, !.at = now]
               /\ p = "fill" \/ ~row.dirty
      BY <1>1, <2>4 DEF IdentifyBySession
    <3>2. t \in Tokens /\ t \in Keys /\ req[q].kind = "session"
      BY <1>1, <2>4 DEF IdentifyBySession, Reached, Sound, Keys
    <3>3. row # Nil /\ row \in SessionRow
      BY <3>1, <3>2, <1>1 DEF Alive
    <3>4. /\ req'[q].row = row /\ req'[q].token = t /\ req'[q].quiet = req[q].quiet
          /\ req'[q].kind = "session" /\ req'[q].pc \in {"fill", "renew", "served"}
          /\ req'[q].pc = "fill" \/ ~row.dirty
      <4> HIDE DEF row, t
      <4>1. req[q].kind = "session" /\ req[q].token = t
        BY <3>2 DEF t
      <4> QED BY <3>1, <4>1, <1>1 DEF Request
    <3>5. marks = {}
      BY <2>1, <3>4, <1>5 DEF RightSoFar
    <3>6. ~row.dirty /\ born[t].alone => user[row.user] = Nil \/ Fresh(row, user, role)
      <4>1. ~Due(row, marks)
        BY <3>5 DEF Due
      <4> QED BY <4>1, <3>2, <3>3, <1>5 DEF RowsReached, Caught
    <3> HIDE DEF row, t
    <3> QED BY <3>4, <3>5, <3>6 DEF RightSoFar
  <2>5. CASE FillSession(q) /\ ~Refuse(q)
    <3> DEFINE x == req[q]
               y == req'[q]
               u == x.row.user
    <3>1. /\ y.pc = "perms" /\ y.kind = x.kind /\ y.perms = x.perms /\ y.quiet = x.quiet
          /\ x.pc = "fill" /\ x.row \in SessionRow /\ user[u] \in UserRow
          /\ y.row = [x.row EXCEPT !.admin = user[u].admin, !.roles = user[u].roles]
          /\ y.todo = IF user[u].admin /\ x.kind # "api" THEN {} ELSE user[u].roles
      BY <2>5, FillTurn
    <3>2. y.row.user = u /\ y.row.admin = user[u].admin /\ y.row.roles = user[u].roles
      <4> HIDE DEF x, y
      <4> QED BY <3>1 DEF SessionRow
    <3>3. x.perms = {}
      BY <3>1, <1>1 DEF Sound
    <3>4. user[u] # Nil
      BY <3>1, AccessAssumption
    <3>5. user[u].roles \ user[u].roles = {} /\ UNION {role[r] : r \in {}} = {}
      OBVIOUS
    <3>6. ReadSoFar(y, user, role)
      <4> HIDE DEF x, y
      <4>1. CASE user[u].admin /\ x.kind # "api"
        BY <4>1, <3>1, <3>2, <3>4 DEF ReadSoFar
      <4>2. CASE ~(user[u].admin /\ x.kind # "api")
        <5>1. y.todo = user[u].roles /\ y.perms = {}
          BY <4>2, <3>1, <3>3
        <5> QED BY <5>1, <3>2, <3>4, <3>5 DEF ReadSoFar
      <4> QED BY <4>1, <4>2
    <3>7. marks = {}
      BY <2>1, <3>1, <1>5 DEF RightSoFar
    <3> QED BY <3>1, <3>6, <3>7 DEF RightSoFar
  <2>6. CASE GetPerms(q) /\ ~Refuse(q)
    <3> DEFINE x == req[q]
               y == req'[q]
               S == user[x.row.user].roles
    <3>1. x.pc = "perms" /\ y.pc = "perms" /\ y.kind = x.kind /\ y.row = x.row /\ y.quiet = x.quiet
      BY <2>6, PermsTurn
    <3>2. PICK r \in x.todo : y.todo = x.todo \ {r} /\ y.perms = x.perms \cup role[r]
      BY <2>6, PermsTurn
    <3>3. ReadSoFar(x, user, role) /\ marks = {}
      BY <2>1, <3>1, <1>5 DEF RightSoFar
    <3>4. x.todo \subseteq S => S \ (x.todo \ {r}) = (S \ x.todo) \cup {r}
      BY <3>2
    <3>5. UNION {role[s] : s \in (S \ x.todo) \cup {r}} = (UNION {role[s] : s \in S \ x.todo}) \cup role[r]
      BY UnionMore
    <3>6. ReadSoFar(y, user, role)
      <4> HIDE DEF x, y
      <4> QED BY <3>1, <3>2, <3>3, <3>4, <3>5 DEF ReadSoFar
    <3> QED BY <3>1, <3>3, <3>6 DEF RightSoFar
  <2>7. CASE IdentifyByToken(q)
    <3>1. req[q].pc = "perms" /\ req[q].todo = {}
      BY <2>7 DEF IdentifyByToken, Reached
    <3>2. req'[q].pc = "served" /\ req'[q].row = Filled(q) /\ req'[q].quiet = req[q].quiet
      BY <1>1, <2>7 DEF IdentifyByToken, SetUser, Request
    <3>3. Fresh(Filled(q), user, role)
      BY <2>1, <3>1, <3>2, <1>5, FilledFresh DEF RightSoFar
    <3> QED BY <2>1, <3>2, <3>3, <1>5 DEF RightSoFar
  <2> QED BY <2>2, <2>3, <2>4, <2>5, <2>6, <2>7 DEF Done
<1>6. engine = "bolt" => RightSoFar(req'[q], user, role, marks, born')
  BY <1>2, <1>5 DEF RightSoFar
<1> QED BY <1>2, <1>3, <1>4, <1>6, RightTurn

LEMMA ReceiveRight ==
  ASSUME AccessTyped, Timely, RowsReached, ReadRight, NEW q \in Requests, NEW u \in Users,
         BeginToken(q, u) \/ \E t \in Tokens : SignIn(q, u, t) \/ FindByName(q, u, t)
  PROVE  RowsReached' /\ ReadRight'
<1>1. req \in [Requests -> Sound]
  BY DEF AccessTyped
<1>2. UNCHANGED <<engine, user, role, session, marks, born>>
  BY DEF BeginToken, SignIn, FindByName, stores
<1>3. /\ \A r \in Requests \ {q} : req'[r] = req[r]
      /\ req'[q].pc \in {"fill", "resolve"} /\ req'[q].quiet = (marks = {} /\ pulls = {})
  <2>1. CASE BeginToken(q, u)
    <3> DEFINE row == [user |-> u, admin |-> FALSE, roles |-> {}, perm |-> NewPermMap({}),
                       dirty |-> FALSE, expiry |-> 0, max |-> 0]
    <3>1. Arrive(q, "fill", "api", Nil, row)
      BY <2>1 DEF BeginToken
    <3> HIDE DEF row
    <3> QED BY <3>1, <1>1 DEF Arrive, Idle
  <2>2. ASSUME NEW t \in Tokens, SignIn(q, u, t)
        PROVE  /\ \A r \in Requests \ {q} : req'[r] = req[r]
               /\ req'[q].pc \in {"fill", "resolve"} /\ req'[q].quiet = (marks = {} /\ pulls = {})
    BY <2>2, <1>1 DEF SignIn, Arrive, Idle
  <2>3. ASSUME NEW t \in Tokens, FindByName(q, u, t)
        PROVE  /\ \A r \in Requests \ {q} : req'[r] = req[r]
               /\ req'[q].pc \in {"fill", "resolve"} /\ req'[q].quiet = (marks = {} /\ pulls = {})
    BY <2>3, <1>1 DEF FindByName, Idle
  <2> QED BY <2>1, <2>2, <2>3
<1>4. RightSoFar(req'[q], user, role, marks, born')
  BY <1>3 DEF RightSoFar
<1>5. ReadRight'
  BY <1>2, <1>3, <1>4, RightTurn
<1> QED BY <1>2, <1>5 DEF RowsReached
LEMMA RenewRight ==
  ASSUME AccessTyped, Timely, RowsReached, ReadRight, NEW q \in Requests, RenewSession(q)
  PROVE  RowsReached' /\ ReadRight'
<1> HIDE DEF Sound, SessionRow
<1> DEFINE x == req[q]
           t == x.token
           e == Renewed(x.row)
<1>1. /\ req \in [Requests -> Sound] /\ x \in Sound /\ x \in Request
      /\ session \in [Keys -> SessionRow \cup {Nil}]
  BY DEF AccessTyped, AccessTypeOK, Sound
<1>2. UNCHANGED <<engine, user, role, marks, born>> /\ x.pc = "renew"
  BY DEF RenewSession, Reached
<1>3. /\ \A r \in Requests \ {q} : req'[r] = req[r]
      /\ req'[q].pc = "served" /\ req'[q].row = x.row /\ req'[q].quiet = x.quiet
      /\ req'[q].kind = x.kind /\ req'[q].token = x.token
  BY <1>1 DEF RenewSession, SetUser, Request
<1>4. engine = "bolt" => RightSoFar(req'[q], user, role, marks, born')
  <2>1. engine = "bolt" => RightSoFar(x, user, role, marks, born)
    BY DEF ReadRight
  <2> HIDE DEF x
  <2> QED BY <2>1, <1>2, <1>3 DEF RightSoFar
<1>5. ReadRight'
  BY <1>2, <1>3, <1>4, RightTurn
<1>6. session' = IF session[t] = Nil THEN session ELSE [session EXCEPT ![t].expiry = e]
  BY DEF RenewSession, SessionUpdateExpiry
<1>7. \A k \in Keys : \/ session'[k] = session[k]
                      \/ session[k] # Nil /\ session'[k] = [session[k] EXCEPT !.expiry = e]
  <2> HIDE DEF t, e, x
  <2> QED BY <1>1, <1>6
<1>8. \A row \in SessionRow :
         /\ [row EXCEPT !.expiry = e].user = row.user /\ [row EXCEPT !.expiry = e].roles = row.roles
         /\ [row EXCEPT !.expiry = e].admin = row.admin /\ [row EXCEPT !.expiry = e].perm = row.perm
         /\ [row EXCEPT !.expiry = e].dirty = row.dirty
  <2> HIDE DEF e
  <2> QED BY DEF SessionRow
<1>9. session' \in [Keys -> SessionRow \cup {Nil}]
  BY StoreTyped DEF AccessTyped, AccessTypeOK
<1>10. ASSUME engine = "bolt", NEW k \in Tokens, session'[k] # Nil, born[k].alone
       PROVE  Caught(session'[k], user, role, marks)
  <2>1. k \in Keys
    BY DEF Keys
  <2>2. session[k] # Nil /\ session[k] \in SessionRow /\ session'[k] \in SessionRow
    BY <1>1, <1>7, <1>9, <1>10, <2>1
  <2>3. Caught(session[k], user, role, marks)
    BY <1>10, <2>2 DEF RowsReached
  <2>4. /\ session'[k].user = session[k].user /\ session'[k].roles = session[k].roles
        /\ session'[k].admin = session[k].admin /\ session'[k].perm = session[k].perm
        /\ session'[k].dirty = session[k].dirty
    BY <1>7, <1>8, <2>1, <2>2
  <2> QED BY <2>2, <2>3, <2>4, CaughtAlike
<1> QED BY <1>2, <1>5, <1>10 DEF RowsReached

LEMMA UpdateRight ==
  ASSUME AccessTyped, Timely, RowsReached, ReadRight, NEW q \in Requests, UpdateSession(q)
  PROVE  RowsReached' /\ ReadRight'
<1> HIDE DEF Sound, SessionRow
<1> DEFINE x == req[q]
           row == [Filled(q) EXCEPT !.dirty = FALSE]
<1>1. /\ req \in [Requests -> Sound] /\ x \in Sound /\ x \in Request
      /\ session \in [Keys -> SessionRow \cup {Nil}]
  BY DEF AccessTyped, AccessTypeOK, Sound
<1>2. UNCHANGED <<engine, user, role, marks, born>> /\ x.pc = "perms" /\ x.todo = {}
  BY DEF UpdateSession, Reached
<1>3. x.row \in SessionRow
  BY <1>1, <1>2 DEF Sound
<1>4. row.user = x.row.user /\ x.row.user \in Users
  BY <1>3 DEF Filled, SessionRow
<1>5. \A t \in Tokens : session'[t] = session[t]
  <2>1. UNCHANGED session \/ session' = [session EXCEPT ![row.user] = row]
    BY DEF UpdateSession, BoltSessionUpdate, MongoSessionUpdate
  <2> HIDE DEF row
  <2> QED BY <2>1, <1>1, <1>4, AccessAssumption DEF Keys
<1>6. RowsReached'
  BY <1>2, <1>5 DEF RowsReached
<1>7. \A r \in Requests \ {q} : req'[r] = req[r]
  BY <1>1 DEF UpdateSession, SetUser, Refuse
<1>8. engine = "bolt" => RightSoFar(req'[q], user, role, marks, born')
  <2> SUFFICES ASSUME engine = "bolt", req'[q].quiet PROVE RightSoFar(req'[q], user, role, marks, born')
    BY DEF RightSoFar
  <2>1. RightSoFar(x, user, role, marks, born)
    BY DEF ReadRight
  <2>2. req' = [req EXCEPT ![q].pc = "served", ![q].row = row]
    BY DEF UpdateSession, SetUser
  <2> HIDE DEF row
  <2>3. req'[q].pc = "served" /\ req'[q].row = row /\ req'[q].quiet = x.quiet
    BY <2>2, <1>1 DEF Request
  <2>4. marks = {} /\ ReadSoFar(x, user, role)
    BY <2>1, <2>3, <1>2 DEF RightSoFar
  <2>5. Fresh(row, user, role)
    BY <2>4, <1>2, FilledFresh DEF row
  <2> QED BY <2>3, <2>4, <2>5, <1>2 DEF RightSoFar
<1>9. ReadRight'
  BY <1>2, <1>7, <1>8, RightTurn
<1> QED BY <1>6, <1>9

LEMMA CreateRight ==
  ASSUME AccessTyped, Timely, RowsReached, ReadRight, NEW q \in Requests, CreateSession(q)
  PROVE  RowsReached' /\ ReadRight'
<1> HIDE DEF Sound, SessionRow
<1> DEFINE x == req[q]
           t == x.token
<1>1. /\ req \in [Requests -> Sound] /\ x \in Sound /\ x \in Request
      /\ session \in [Keys -> SessionRow \cup {Nil}] /\ born \in [Tokens -> BirthRow \cup {Nil}]
  BY DEF AccessTyped, AccessTypeOK, Sound
<1>2. /\ UNCHANGED <<engine, user, role, marks>> /\ x.pc = "perms" /\ x.todo = {}
      /\ x.kind = "signin" /\ t \in Tokens
  BY <1>1 DEF CreateSession, Reached, Sound
<1>3. /\ session' = [session EXCEPT ![t] = Filled(q)]
      /\ born' = [born EXCEPT ![t] = [at |-> x.row.expiry - Life, alone |-> x.quiet]]
      /\ req' = [req EXCEPT ![q] = Idle]
  BY DEF CreateSession, Refuse
<1>4. /\ session'[t] = Filled(q) /\ born'[t].alone = x.quiet
      /\ \A s \in Tokens : s # t => session'[s] = session[s] /\ born'[s] = born[s]
  BY <1>1, <1>2, <1>3 DEF Keys
<1>5. ASSUME engine = "bolt", x.quiet PROVE Fresh(Filled(q), user, role)
  <2>1. RightSoFar(x, user, role, marks, born)
    BY <1>5 DEF ReadRight
  <2>2. ReadSoFar(x, user, role)
    BY <2>1, <1>2, <1>5 DEF RightSoFar
  <2> QED BY <2>2, <1>2, FilledFresh
<1>6. ASSUME engine = "bolt", NEW k \in Tokens, session'[k] # Nil, born'[k].alone
      PROVE  Caught(session'[k], user, role, marks)
  <2>1. CASE k = t
    BY <2>1, <1>4, <1>5, <1>6 DEF Caught
  <2>2. CASE k # t
    BY <2>2, <1>4, <1>6 DEF RowsReached
  <2> QED BY <2>1, <2>2
<1>7. RowsReached'
  BY <1>2, <1>6 DEF RowsReached
<1>8. \A r \in Requests : r # q => req'[r] = req[r]
  BY <1>1, <1>3
<1>9. ASSUME NEW r \in Requests, r # q, req[r].kind = "session", req[r].pc \in {"renew", "served"}
      PROVE  born'[req[r].token] = born[req[r].token]
  <2>1. req[r].token \in Tokens /\ born[req[r].token] # Nil
    BY <1>9, <1>1 DEF Timely, Dated, Sound
  <2>2. born[t] = Nil
    BY <1>2 DEF Timely, Unborn
  <2> QED BY <2>1, <2>2, <1>4
<1>10. RightSoFar(req'[q], user, role, marks, born')
  BY <1>1, <1>3 DEF RightSoFar, Idle
<1>11. ReadRight'
  BY <1>2, <1>8, <1>9, <1>10, RightTurn
<1> QED BY <1>7, <1>11

LEMMA MarkRight ==
  ASSUME AccessTyped, Timely, RowsReached, ReadRight,
         (\E m \in Users \cup Roles : SessionUpdateDirty(m)) \/ SessionPrune \/ Tick
  PROVE  RowsReached' /\ ReadRight'
<1> HIDE DEF Sound, SessionRow
<1>1. /\ session \in [Keys -> SessionRow \cup {Nil}] /\ session' \in [Keys -> SessionRow \cup {Nil}]
      /\ Tokens \subseteq Keys
  BY MarkTyped DEF AccessTyped, AccessTypeOK, Keys
<1>2. CASE \E m \in Users \cup Roles : SessionUpdateDirty(m)
  <2>1. PICK m \in Users \cup Roles : SessionUpdateDirty(m)
    BY <1>2
  <2>2. m \in marks /\ marks' = marks \ {m} /\ UNCHANGED <<engine, user, role, req, born>>
    BY <2>1 DEF SessionUpdateDirty
  <2>3. ReadRight'
    BY <2>2 DEF ReadRight, RightSoFar
  <2>4. ASSUME engine = "bolt", NEW k \in Tokens, session'[k] # Nil, born[k].alone
        PROVE  Caught(session'[k], user, role, marks')
    <3>1. k \in Keys
      BY <1>1
    <3>2. CASE session'[k] = session[k] /\ (engine = "bolt" => ~Concerned(m, session[k]))
      <4>1. Caught(session[k], user, role, marks)
        BY <2>4, <3>2 DEF RowsReached
      <4>2. Due(session[k], marks) => Due(session[k], marks')
        BY <2>2, <2>4, <3>2 DEF Due
      <4> QED BY <4>1, <4>2, <3>2 DEF Caught
    <3>3. CASE session[k] # Nil /\ session'[k] = [session[k] EXCEPT !.dirty = TRUE]
      <4>1. session[k] \in SessionRow
        BY <3>1, <3>3, <1>1
      <4>2. session'[k].dirty
        BY <3>3, <4>1 DEF SessionRow
      <4> QED BY <4>2 DEF Caught
    <3> QED BY <2>1, <3>1, <3>2, <3>3, DirtyRows
  <2> QED BY <2>2, <2>3, <2>4 DEF RowsReached
<1>3. CASE SessionPrune \/ Tick
  <2>1. UNCHANGED <<engine, user, role, marks, req, born>>
    BY <1>3 DEF SessionPrune, Tick, stores
  <2>2. \A k \in Keys : session'[k] = Nil \/ session'[k] = session[k]
    BY <1>3 DEF SessionPrune, Tick, stores
  <2>3. RowsReached'
    BY <2>1, <2>2, <1>1 DEF RowsReached
  <2> QED BY <2>1, <2>3 DEF ReadRight
<1> QED BY <1>2, <1>3
\* What an edit must see to: the copies that depend on what it changes are marked.
Marked(row) ==
  \/ Due(row, marks') \/ user'[row.user] = Nil
  \/ /\ user[row.user] # Nil
     /\ user'[row.user].admin = user[row.user].admin /\ user'[row.user].roles = user[row.user].roles
     /\ \A r \in row.roles : role'[r] = role[r]

LEMMA EditTurn ==
  ASSUME AccessTyped, RowsReached, UNCHANGED <<engine, session, born>>, marks \subseteq marks',
         \A r \in Requests : req'[r].quiet = FALSE,
         engine = "bolt" => \A k \in Keys : session[k] # Nil => Marked(session[k])
  PROVE  RowsReached' /\ ReadRight'
<1> HIDE DEF SessionRow
<1>1. ReadRight'
  BY DEF ReadRight, RightSoFar
<1>2. ASSUME engine = "bolt", NEW k \in Tokens, session[k] # Nil, born[k].alone
      PROVE  Caught(session[k], user', role', marks')
  <2>1. k \in Keys /\ session[k] \in SessionRow
    BY <1>2 DEF Keys, AccessTyped, AccessTypeOK
  <2>2. Caught(session[k], user, role, marks)
    BY <1>2 DEF RowsReached
  <2>3. Marked(session[k])
    BY <1>2, <2>1
  <2> QED BY <2>1, <2>2, <2>3, CaughtStays DEF Marked
<1> QED BY <1>1, <1>2 DEF RowsReached

\* An account appears only where no session refers to it; a written one is marked.
LEMMA UserMarked ==
  ASSUME AccessTyped, NEW row \in SessionRow, NEW u \in Users, UNCHANGED role,
         \A v \in Users : v # u => user'[v] = user[v],
         row.user # u \/ u \in marks' \/ user'[u] = Nil
           \/ /\ user[u] # Nil
              /\ user'[u].admin = user[u].admin /\ user'[u].roles = user[u].roles
  PROVE  Marked(row)
<1>1. row.user \in Users /\ row # Nil
  BY RowTyped DEF SessionRow
<1>2. CASE row.user # u
  BY <1>1, <1>2 DEF Marked
<1>3. CASE row.user = u /\ u \in marks'
  BY <1>1, <1>3 DEF Marked, Due, Concerned
<1>4. CASE row.user = u /\ u \notin marks'
  BY <1>1, <1>4 DEF Marked
<1> QED BY <1>2, <1>3, <1>4

LEMMA RoleMarked ==
  ASSUME AccessTyped, NEW row \in SessionRow, NEW r \in Roles, UNCHANGED user,
         \A s \in Roles : s # r => role'[s] = role[s],
         r \notin row.roles \/ r \in marks'
  PROVE  Marked(row)
<1>1. row.roles \subseteq Roles /\ row # Nil
  BY RowTyped DEF SessionRow
<1>2. CASE r \in row.roles
  BY <1>1, <1>2 DEF Marked, Due, Concerned
<1>3. CASE r \notin row.roles
  BY <1>1, <1>3 DEF Marked
<1> QED BY <1>2, <1>3

LEMMA EditRight ==
  ASSUME AccessTyped, Resolving, RowsReached, ReadRight, AdminEdit \/ \E r \in Roles : RolePull(r)
  PROVE  RowsReached' /\ ReadRight'
<1> HIDE DEF SessionRow, UserRow
<1>1. /\ req \in [Requests -> Sound] /\ session \in [Keys -> SessionRow \cup {Nil}]
      /\ user \in [Users -> UserRow \cup {Nil}] /\ role \in [Roles -> {Nil} \cup SUBSET Permissions]
  BY DEF AccessTyped, AccessTypeOK
<1>2. req' = Disturbed(req) /\ UNCHANGED <<engine, session, born>> /\ marks \subseteq marks'
  BY DEF AdminEdit, CreateUser, UpdateUser, SetStatus, DeleteUser, CreateRole, UpdateRole, DeleteRole, RolePull
<1>3. \A r \in Requests : req'[r].quiet = FALSE
  BY <1>1, <1>2, DisturbedKeeps
<1>4. ASSUME engine = "bolt", NEW k \in Keys, session[k] # Nil PROVE Marked(session[k])
  <2> DEFINE row == session[k]
  <2>1. row \in SessionRow
    BY <1>1, <1>4
  <2>2. CASE \E u \in Users, admin \in BOOLEAN, rs \in SUBSET Roles : CreateUser(u, admin, rs)
    <3>1. PICK u \in Users, admin \in BOOLEAN, rs \in SUBSET Roles : CreateUser(u, admin, rs)
      BY <2>2
    <3>2. row.user # u /\ UNCHANGED role /\ \A v \in Users : v # u => user'[v] = user[v]
      BY <3>1, <1>1, <1>4 DEF CreateUser, FreshUser
    <3> HIDE DEF row
    <3> QED BY <2>1, <3>2, UserMarked DEF row
  <2>3. CASE \E u \in Users, admin \in BOOLEAN, rs \in SUBSET Roles, type \in Types : UpdateUser(u, admin, rs, type)
    <3>1. PICK u \in Users, admin \in BOOLEAN, rs \in SUBSET Roles, type \in Types : UpdateUser(u, admin, rs, type)
      BY <2>3
    <3>2. u \in marks' /\ UNCHANGED role /\ \A v \in Users : v # u => user'[v] = user[v]
      BY <3>1, <1>1 DEF UpdateUser
    <3> QED BY <2>1, <3>2, UserMarked
  <2>4. CASE \E u \in Users : SetStatus(u)
    <3>1. PICK u \in Users : SetStatus(u)
      BY <2>4
    <3>2. user[u] # Nil /\ user[u] \in UserRow /\ user' = [user EXCEPT ![u].active = ~@]
      BY <3>1, <1>1 DEF SetStatus
    <3>3. user'[u].admin = user[u].admin /\ user'[u].roles = user[u].roles
      BY <3>2, <1>1 DEF UserRow
    <3>4. UNCHANGED role /\ \A v \in Users : v # u => user'[v] = user[v]
      BY <3>1, <3>2, <1>1 DEF SetStatus
    <3> QED BY <2>1, <3>2, <3>3, <3>4, UserMarked
  <2>5. CASE \E u \in Users : DeleteUser(u)
    <3>1. PICK u \in Users : DeleteUser(u)
      BY <2>5
    <3>2. user'[u] = Nil /\ UNCHANGED role /\ \A v \in Users : v # u => user'[v] = user[v]
      BY <3>1, <1>1 DEF DeleteUser
    <3> QED BY <2>1, <3>2, UserMarked
  <2>6. CASE \E r \in Roles, perms \in SUBSET Permissions : CreateRole(r, perms) \/ UpdateRole(r, perms)
    <3>1. PICK r \in Roles, perms \in SUBSET Permissions : CreateRole(r, perms) \/ UpdateRole(r, perms)
      BY <2>6
    <3>2. /\ UNCHANGED user /\ \A s \in Roles : s # r => role'[s] = role[s]
          /\ r \notin row.roles \/ r \in marks'
      BY <3>1, <1>1, <1>4 DEF CreateRole, FreshRole, UpdateRole
    <3> HIDE DEF row
    <3> QED BY <2>1, <3>2, RoleMarked DEF row
  <2>7. CASE \E r \in Roles : DeleteRole(r)
    <3>1. PICK r \in Roles : DeleteRole(r)
      BY <2>7
    <3>2. UNCHANGED user /\ r \in marks' /\ \A s \in Roles : s # r => role'[s] = role[s]
      BY <3>1, <1>1 DEF DeleteRole, RoleDelete
    <3> QED BY <2>1, <3>2, RoleMarked
  <2>8. CASE \E r \in Roles : RolePull(r)
    BY <2>8, <1>4 DEF RolePull, Resolving
  <2> QED BY <2>2, <2>3, <2>4, <2>5, <2>6, <2>7, <2>8 DEF AdminEdit
<1> QED BY <1>2, <1>3, <1>4, EditTurn

\* The identity providers create the accounts they did not find and mark those they write.
LEMMA RealmRight ==
  ASSUME AccessTyped, Resolving, RowsReached, ReadRight, NEW q \in Requests,
         \/ \E u \in Users, t \in Tokens : LdapRealm(q, u, t)
         \/ \E mapped \in SUBSET Roles : ResolveUser(q, mapped)
  PROVE  RowsReached' /\ ReadRight'
<1> HIDE DEF Sound, SessionRow, UserRow
<1>1. /\ req \in [Requests -> Sound] /\ session \in [Keys -> SessionRow \cup {Nil}]
      /\ user \in [Users -> UserRow \cup {Nil}] /\ req[q] \in Sound /\ Idle \in Sound
  BY StartTyped DEF AccessTyped, AccessTypeOK
<1>2. UNCHANGED <<engine, role, session, born>> /\ marks \subseteq marks'
  BY DEF LdapRealm, ResolveUser
<1>3. \A r \in Requests : req'[r].quiet = FALSE
  <2>1. ASSUME NEW rq \in [Requests -> Sound], req' = Disturbed(rq), NEW r \in Requests
        PROVE  req'[r].quiet = FALSE
    <3>1. Disturbed(rq)[r].quiet = FALSE
      BY DisturbedKeeps
    <3> QED BY <2>1, <3>1
  <2>2. \E rq \in [Requests -> Sound] : req' = Disturbed(rq)
    <3>1. ASSUME NEW u \in Users, NEW t \in Tokens, LdapRealm(q, u, t)
          PROVE  \E rq \in [Requests -> Sound] : req' = Disturbed(rq)
      <4> DEFINE x == [Idle EXCEPT !.pc = "fill", !.kind = "signin", !.token = t, !.row = NewSession(u)]
      <4>1. x \in Sound
        BY RowTyped, StartTyped DEF AccessTyped
      <4>2. req' = Disturbed([req EXCEPT ![q] = x])
        BY <3>1 DEF LdapRealm
      <4> HIDE DEF x
      <4>3. [req EXCEPT ![q] = x] \in [Requests -> Sound]
        BY <4>1, <1>1
      <4> QED BY <4>2, <4>3
    <3>2. ASSUME NEW mapped \in SUBSET Roles, ResolveUser(q, mapped)
          PROVE  \E rq \in [Requests -> Sound] : req' = Disturbed(rq)
      <4>1. [req[q] EXCEPT !.pc = "fill"] \in Sound
        BY <3>2, <1>1, TurnTyped DEF ResolveUser, Reached
      <4>2. [req EXCEPT ![q].pc = "fill"] \in [Requests -> Sound] /\ [req EXCEPT ![q] = Idle] \in [Requests -> Sound]
        BY <4>1, <1>1
      <4>3. req' = Disturbed([req EXCEPT ![q].pc = "fill"]) \/ req' = Disturbed([req EXCEPT ![q] = Idle])
        BY <3>2 DEF ResolveUser
      <4> QED BY <4>2, <4>3
    <3> QED BY <3>1, <3>2
  <2> QED BY <2>1, <2>2
<1>4. ASSUME engine = "bolt", NEW k \in Keys, session[k] # Nil PROVE Marked(session[k])
  <2> DEFINE row == session[k]
  <2>1. row \in SessionRow
    BY <1>1, <1>4
  <2>2. ASSUME NEW u \in Users, NEW t \in Tokens, LdapRealm(q, u, t) PROVE Marked(row)
    <3>1. row.user # u /\ UNCHANGED role /\ \A v \in Users : v # u => user'[v] = user[v]
      BY <2>2, <1>1, <1>4 DEF LdapRealm, FreshUser
    <3> HIDE DEF row
    <3> QED BY <2>1, <3>1, UserMarked DEF row
  <2>3. ASSUME NEW mapped \in SUBSET Roles, ResolveUser(q, mapped) PROVE Marked(row)
    <3> DEFINE u == req[q].row.user
               a == req[q].account
    <3>1. req[q].pc = "resolve" /\ u \in Users
      BY <2>3, <1>1 DEF ResolveUser, Reached, Sound, SessionRow
    <3>2. UNCHANGED role /\ \A v \in Users : v # u => user'[v] = user[v]
      <4>1. user' = user \/ \E b : user' = [user EXCEPT ![u] = b]
        BY <2>3 DEF ResolveUser
      <4> QED BY <4>1, <1>1, <1>2
    <3>3. \/ a = Nil /\ user[u] = Nil
          \/ u \in marks'
          \/ UNCHANGED user
      BY <2>3 DEF ResolveUser
    <3>4. a = Nil => row.user # u
      BY <3>1, <1>4 DEF Resolving, Reserved, Clear
    <3>5. UNCHANGED user => \/ user'[u] = Nil
                            \/ /\ user[u] # Nil
                               /\ user'[u].admin = user[u].admin /\ user'[u].roles = user[u].roles
      OBVIOUS
    <3> HIDE DEF row, u, a
    <3> QED BY <2>1, <3>1, <3>2, <3>3, <3>4, <3>5, UserMarked
  <2> QED BY <2>2, <2>3
<1> QED BY <1>2, <1>3, <1>4, EditTurn

LEMMA ReachingHolds == AccessSpec => [](AccessTyped /\ Reaching)
<1>1. AccessInit => Resolving /\ RowsReached /\ ReadRight
  <2> SUFFICES ASSUME AccessInit PROVE Resolving /\ RowsReached /\ ReadRight
    OBVIOUS
  <2>1. /\ \A t \in Tokens : session[t] = Nil
        /\ \A q \in Requests : req[q].pc = "idle" /\ req[q].quiet = FALSE
        /\ pulls = {}
    BY DEF AccessInit, Keys, Idle
  <2> QED BY <2>1 DEF Resolving, Reserved, RowsReached, ReadRight, RightSoFar
<1>2. /\ AccessTyped /\ Timely /\ Resolving /\ RowsReached /\ ReadRight /\ [AccessNext]_accessVars
      => Resolving' /\ RowsReached' /\ ReadRight'
  <2> SUFFICES ASSUME AccessTyped, Timely, Resolving, RowsReached, ReadRight, [AccessNext]_accessVars
               PROVE  Resolving' /\ RowsReached' /\ ReadRight'
    OBVIOUS
  <2>1. CASE \E q \in Requests :
              \/ \E t \in Tokens : BeginSession(q, t)
              \/ IdentifyBySession(q) \/ FillSession(q) \/ GetPerms(q) \/ IdentifyByToken(q) \/ Done(q)
    BY <2>1, IdentifyResolving, IdentifyRight
  <2>2. CASE \/ \E q \in Requests, u \in Users, t \in Tokens : SignIn(q, u, t) \/ FindByName(q, u, t)
             \/ \E q \in Requests, u \in Users : BeginToken(q, u)
    BY <2>2, ReceiveResolving, ReceiveRight
  <2>3. CASE \E q \in Requests, u \in Users, t \in Tokens : LdapRealm(q, u, t)
    BY <2>3, ReceiveResolving, RealmRight
  <2>4. CASE \E q \in Requests : RenewSession(q) \/ UpdateSession(q) \/ CreateSession(q)
    BY <2>4, StoreResolving, RenewRight, UpdateRight, CreateRight
  <2>5. CASE (\E m \in Users \cup Roles : SessionUpdateDirty(m)) \/ SessionPrune \/ Tick
    BY <2>5, MarkResolving, MarkRight
  <2>6. CASE AdminEdit \/ \E r \in Roles : RolePull(r)
    BY <2>6, EditResolving, EditRight
  <2>7. CASE \E q \in Requests, mapped \in SUBSET Roles : ResolveUser(q, mapped)
    BY <2>7, ResolveResolving, RealmRight
  <2>8. CASE UNCHANGED accessVars
    BY <2>8 DEF accessVars, Resolving, Reserved, Clear, RowsReached, ReadRight
  <2> QED BY <2>1, <2>2, <2>3, <2>4, <2>5, <2>6, <2>7, <2>8, AccessSteps
<1> QED BY <1>1, <1>2, TimelyHolds, PTL DEF AccessSpec, Reaching

\* On Bolt, a request that no edit overlaps is decided on the permissions stored now,
\* whatever its session cached: UpdateDirty, identifyBySession and fillSession together.
THEOREM EditsReachSessions == AccessSpec => []ChangesReachSessions
<1>1. AccessTyped /\ Reaching => ChangesReachSessions
  <2> SUFFICES ASSUME AccessTyped, ReadRight, NEW q \in Requests, engine = "bolt", Reached(q, "served"),
                      req[q].quiet, user[req[q].row.user] # Nil,
                      req[q].kind = "session" => born[req[q].token].alone,
                      NEW p \in Permissions
               PROVE  Check(req[q].row, p) = Check(Current(req[q].row.user), p)
    BY DEF Reaching, ChangesReachSessions
  <2>1. Fresh(req[q].row, user, role)
    BY DEF ReadRight, RightSoFar, Reached
  <2>2. req[q].row.user \in Users
    BY DEF AccessTyped, Sound, SessionRow, Reached
  <2>3. Check(Current(req[q].row.user), p) = Decides(user, role, req[q].row.user, p)
    BY <2>2, DecidesNow DEF AccessTyped
  <2> QED BY <2>1, <2>3 DEF Fresh
<1> QED BY <1>1, ReachingHolds, PTL

=============================================================================
