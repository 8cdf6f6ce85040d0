------------------------------ MODULE Settings ------------------------------
(***************************************************************************)
(* The setting registry_cache, its live copy in memory and the registry     *)
(* catalog it may be linked to: biz/setting.go, biz/registry_cache.go,      *)
(* biz/registry.go and the receiving end of biz/registry_cache_federation.  *)
(*                                                                          *)
(* SettingBiz.Save reads the stored secret, reads the linked registry,      *)
(* writes and reloads the live copy, each by a database call of its own and *)
(* without a lock; a registry update saves the live copy back through it.   *)
(* Hostname, port, user name and CA are one value, "conn".                  *)
(***************************************************************************)
EXTENDS Naturals

CONSTANTS
  Registry,   \* ids createId may return
  Handler,    \* request handlers
  Conn,       \* connections: host name, port, user name and CA
  Secret,     \* passwords
  None, Gone, \* no such setting, registry or link yet; a deleted registry
  MaxFaults   \* bound: database calls that fail

Mask == "mask"  \* SettingSecretMask
Password == Secret \cup {""}
Blob == [link : Registry \cup {None}, conn : Conn \cup {""}, pw : Password \cup {Mask}]
Entry == [conn : Conn, pw : Password]

ASSUME SettingsAssumption ==
  /\ MaxFaults \in Nat
  /\ {"", "mask"} \cap (Conn \cup Secret) = {}
  /\ {None, Gone} \cap (Registry \cup Entry) = {}
  /\ None \notin Blob
  /\ None # Gone

VARIABLES
  reg,     \* the collection registry
  blob,    \* the stored setting registry_cache
  live,    \* liveSettings.RegistryCache
  pc, job, \* per handler: its next step and what it carries
  faults,  \* database calls that failed so far
  drift,   \* ghost: blob may differ from the catalog
  stale,   \* ghost: live may differ from blob
  blind    \* ghost: a form without a password met an unreadable setting

vars == <<reg, blob, live, pc, job, faults, drift, stale, blind>>

\* the zero value of Setting.RegistryCache
Zero == [link |-> None, conn |-> "", pw |-> ""]
Stored == IF blob = None THEN Zero ELSE blob

Steps == {"idle", "find", "overlay", "put", "reload", "install", "linked", "erase"}
NoJob == [blob |-> Zero, target |-> None, clean |-> TRUE]

TypeOK ==
  /\ reg \in [Registry -> Entry \cup {None, Gone}]
  /\ blob \in Blob \cup {None}
  /\ live \in Blob
  /\ pc \in [Handler -> Steps]
  /\ job \in [Handler -> [blob : Blob, target : Registry \cup {None}, clean : BOOLEAN]]
  /\ faults \in 0 .. MaxFaults
  /\ {drift, stale, blind} \subseteq BOOLEAN

Init ==
  /\ reg = [r \in Registry |-> None]
  /\ blob = None
  /\ live = Zero
  /\ pc = [t \in Handler |-> "idle"]
  /\ job = [t \in Handler |-> NoJob]
  /\ faults = 0
  /\ drift = FALSE
  /\ stale = FALSE
  /\ blind = FALSE

-----------------------------------------------------------------------------
(* Control. *)

At(t, step) == pc[t] = step
Exists(r) == reg[r] \notin {None, Gone}
Fail == faults < MaxFaults /\ faults' = faults + 1

Proceed(t, step, b) ==
  /\ pc' = [pc EXCEPT ![t] = step]
  /\ job' = [job EXCEPT ![t].blob = b]
End(t) ==
  /\ pc' = [pc EXCEPT ![t] = "idle"]
  /\ job' = [job EXCEPT ![t] = NoJob]

\* A request that overlaps another is not clean, and neither is the other.
Active == {u \in Handler : pc[u] # "idle"}
Begin(t, step, b, r) ==
  /\ At(t, "idle")
  /\ pc' = [pc EXCEPT ![t] = step]
  /\ job' = [u \in Handler |->
               IF u = t THEN [blob |-> b, target |-> r, clean |-> Active = {}]
               ELSE [job[u] EXCEPT !.clean = u \notin Active]]
  /\ stale' = (stale \/ Active # {})

-----------------------------------------------------------------------------
(* SettingBiz.Save("registry_cache", ...) *)

\* what a form shows in place of a stored password
sanitizeForResponse(pw) == IF pw = "" THEN "" ELSE Mask

\* settingSave of a form that was loaded before
settingSave(t) ==
  /\ \E link \in Registry \cup {None}, conn \in Conn \cup {""},
        pw \in Password \cup {sanitizeForResponse(Stored.pw)} :
       Begin(t, "find", [link |-> link, conn |-> conn, pw |-> pw], None)
  /\ drift' = (drift \/ Active # {})
  /\ UNCHANGED <<reg, blob, live, faults, blind>>

\* federationReceiveRegistryCache, ApplyReceivedRegistryCache: what a portal
\* pushes has no registry_id, and its password is deleted
Receive(t) ==
  /\ \E conn \in Conn : Begin(t, "find", [link |-> None, conn |-> conn, pw |-> ""], None)
  /\ drift' = (drift \/ Active # {})
  /\ UNCHANGED <<reg, blob, live, faults, blind>>

preserveSecretsMaskOnly(b) == IF b.pw = Mask THEN [b EXCEPT !.pw = blob.pw] ELSE b

\* the mask and the empty string stand for the stored secret
preserveSecretsFromExisting(b) ==
  IF b.pw \in {"", Mask} THEN [b EXCEPT !.pw = blob.pw] ELSE b

\* a read that fails is taken for a setting that is not there
Preserve(t) ==
  /\ At(t, "find")
  /\ \/ /\ Proceed(t, "overlay", IF blob = None THEN job[t].blob
                                 ELSE preserveSecretsFromExisting(job[t].blob))
        /\ UNCHANGED <<faults, blind>>
     \/ /\ Fail
        /\ Proceed(t, "overlay", job[t].blob)
        /\ blind' = (blind \/ job[t].blob.pw \in {"", Mask})
  /\ UNCHANGED <<reg, blob, live, drift, stale>>

\* overlayRegistryCacheFromRegistry, the registry having been found or not
overlay(b, found) ==
  IF ~found THEN [b EXCEPT !.link = None]
  ELSE LET r == reg[b.link] IN
       [b EXCEPT !.conn = r.conn, !.pw = IF r.pw # "" THEN r.pw ELSE @]

\* an enabled cache has a host name; whether this one is enabled is left open
validateRegistryCache(b, enabled) == enabled => b.conn # ""

Overlay(t) ==
  LET b == job[t].blob IN
  /\ At(t, "overlay")
  /\ \E ok, enabled \in BOOLEAN :
       LET out == IF b.link = None THEN b ELSE overlay(b, ok /\ Exists(b.link)) IN
       /\ IF ok THEN UNCHANGED faults ELSE b.link # None /\ Fail
       /\ IF validateRegistryCache(out, enabled) THEN Proceed(t, "put", out) ELSE End(t)
  /\ UNCHANGED <<reg, blob, live, drift, stale, blind>>

PutOnly(t) ==
  /\ At(t, "put")
  /\ blob' = job[t].blob
  /\ End(t)
  /\ UNCHANGED <<reg, live, faults, drift, stale, blind>>

\* SettingUpdate; of a registry update that fails here the setting knows nothing
Put(t) ==
  /\ At(t, "put")
  /\ \/ /\ blob' = job[t].blob
        /\ Proceed(t, "reload", job[t].blob)
        /\ UNCHANGED <<faults, drift>>
     \/ /\ Fail
        /\ drift' = (drift \/ job[t].target # None)
        /\ End(t)
        /\ UNCHANGED blob
  /\ UNCHANGED <<reg, live, stale, blind>>

\* refreshInMemory: loadRaw, then the assignment; its error is dropped
Reload(t) ==
  /\ At(t, "reload")
  /\ \/ Proceed(t, "install", Stored) /\ UNCHANGED <<faults, stale>>
     \/ Fail /\ stale' = TRUE /\ End(t)
  /\ UNCHANGED <<reg, blob, live, drift, blind>>

Install(t) ==
  /\ At(t, "install")
  /\ live' = job[t].blob
  /\ drift' = (drift /\ ~job[t].clean)
  /\ stale' = (stale /\ ~job[t].clean)
  /\ End(t)
  /\ UNCHANGED <<reg, blob, faults, blind>>

-----------------------------------------------------------------------------
(* RegistryBiz *)

\* one database call, of an id nobody knows yet
RegistryCreate(t, r) ==
  /\ At(t, "idle")
  /\ reg[r] = None
  /\ \E e \in Entry : reg' = [reg EXCEPT ![r] = e]
  /\ UNCHANGED <<blob, live, pc, job, faults, drift, stale, blind>>

\* RegistryUpdate keeps the password when the form leaves it empty; with a
\* live copy that is out of date the link may be missed
RegistryUpdate(t, r) ==
  /\ Exists(r)
  /\ \E e \in Entry :
       reg' = [reg EXCEPT ![r] = [conn |-> e.conn,
                                  pw |-> IF e.pw = "" THEN reg[r].pw ELSE e.pw]]
  /\ Begin(t, "linked", Zero, r)
  /\ drift' = (drift \/ stale \/ Active # {})
  /\ UNCHANGED <<blob, live, faults, blind>>

RefreshNothing(t) ==
  /\ At(t, "linked")
  /\ End(t)
  /\ UNCHANGED <<reg, blob, live, faults, drift, stale, blind>>

\* refreshLinkedRegistryCache: Save of the live copy
refreshLinkedRegistryCache(t) ==
  /\ At(t, "linked")
  /\ IF live.link = job[t].target THEN Proceed(t, "find", live) ELSE End(t)
  /\ UNCHANGED <<reg, blob, live, faults, drift, stale, blind>>

\* refused while the live copy is linked to it
RegistryDelete(t, r) ==
  /\ Exists(r)
  /\ live.link # r
  /\ Begin(t, "erase", Zero, r)
  /\ drift' = (drift \/ Active # {})
  /\ UNCHANGED <<reg, blob, live, faults, blind>>

Erase(t) ==
  /\ At(t, "erase")
  /\ \/ /\ reg' = [reg EXCEPT ![job[t].target] = Gone]
        /\ drift' = (drift \/ stale)
        /\ UNCHANGED faults
     \/ Fail /\ UNCHANGED <<reg, drift>>
  /\ End(t)
  /\ UNCHANGED <<blob, live, stale, blind>>

-----------------------------------------------------------------------------
\* The process dies and starts again: loadSetting reads what is stored.
Restart ==
  /\ live' = Stored
  /\ drift' = (drift \/ \E t \in Handler : pc[t] # "idle")
  /\ stale' = FALSE
  /\ pc' = [t \in Handler |-> "idle"]
  /\ job' = [t \in Handler |-> NoJob]
  /\ UNCHANGED <<reg, blob, faults, blind>>

Next ==
  \/ \E t \in Handler :
       \/ settingSave(t) \/ Receive(t)
       \/ Preserve(t) \/ Overlay(t) \/ Put(t) \/ Reload(t) \/ Install(t)
       \/ refreshLinkedRegistryCache(t) \/ Erase(t)
       \/ \E r \in Registry : RegistryCreate(t, r) \/ RegistryUpdate(t, r) \/ RegistryDelete(t, r)
  \/ Restart

Spec == Init /\ [][Next]_vars

-----------------------------------------------------------------------------
(* Properties. *)

Quiet == \A t \in Handler : pc[t] = "idle"

\* "the stored blob always tracks the Registry catalog (no drift)": at rest a
\* linked setting names a registry that exists and carries its connection
\* and password.  Overlapping requests, a crash or a failed call may break
\* that, and one undisturbed Save mends it ("operators can re-Save").
LinkTracksCatalog ==
  Quiet /\ ~drift /\ Stored.link # None =>
    /\ Exists(Stored.link)
    /\ Stored.conn = reg[Stored.link].conn
    /\ reg[Stored.link].pw \in {"", Stored.pw}

\* What the Vault client, the rewriter and RegistryDelete see in memory is
\* what is stored, at rest, unless saves overlapped or a reload failed, and
\* again after one undisturbed Save or a restart (refreshInMemory).
LiveIsStored == Quiet /\ ~stale => live = Stored

\* A form that shows the mask or leaves the password empty, and what a
\* portal pushes, never cost the stored secret (preserveSecretsFromExisting),
\* unless requests overlap or the old secret cannot be read.
SecretSurvives ==
  [][ /\ blob # None /\ blob.pw # "" /\ blob' # blob /\ ~blind
      /\ \A t \in Handler : job[t].clean
      => blob'.pw \notin {"", Mask} ]_vars
=============================================================================
