------------------------------- MODULE Backup -------------------------------
(***************************************************************************)
(* Encrypted archives of Swirl's database (biz/backup.go,                  *)
(* biz/backup_crypto.go): each is under the master passphrase of the time, *)
(* which may be rotated, and has a record with the fingerprint of its key. *)
(* Create, Delete, Verify, VerifyAll and Recover run in handlers that      *)
(* interleave, and fill a cache of key statuses that List reads.           *)
(*                                                                         *)
(* A step of a handler ends where it has touched something the others      *)
(* share.  A write replaces a whole blob (file, Vault entry or document);  *)
(* the records are in MongoDB, where an update of a record that is gone    *)
(* does nothing.  A key stands for its own fingerprint.                    *)
(***************************************************************************)
EXTENDS Naturals, FiniteSets

CONSTANTS
  Proc,         \* the handlers that may run at once
  Key,          \* the passphrases the operator ever configures
  NoKey,        \* no passphrase, no fingerprint, an unreachable provider
  MaxArchives,  \* bound: archives ever created, the initial one included
  MaxRotations, \* bound: changes of the passphrase, in Vault or at a restart
  MaxFaults     \* bound: failed calls and restarts

ASSUME BackupAssumption ==
  /\ NoKey \notin Key
  /\ IsFiniteSet(Proc)
  /\ MaxArchives \in Nat \ {0}
  /\ MaxRotations \in Nat
  /\ MaxFaults \in Nat

VARIABLES
  env,       \* SWIRL_BACKUP_KEY of the running process
  vault,     \* the passphrase the Vault entry holds
  cached,    \* backupKeyCache
  listed,    \* the archives with a dao.Backup record
  fp,        \* [archive -> KeyFingerprint of its record]
  blob,      \* [archive -> the key its stored bytes are under, NoKey: no bytes]
  made,      \* archives created so far: createId never repeats
  statusFP,  \* backupBiz.statusFP
  status,    \* backupBiz.statusCache
  lock,      \* archives whose per-id mutex is held
  job,       \* [Proc -> what the handler is doing]
  torn,      \* history: key and fingerprint of the archive not taken together
  stale,     \* history: status noted under another key than the cache is
             \* pinned to, or by a handler that saw the key change
  rotations, \* rotations so far
  faults     \* failed calls and restarts so far

keyVars == <<env, vault, cached>>
store == <<listed, fp, blob, made>>
cache == <<statusFP, status, stale>>
bounds == <<rotations, faults>>
vars == <<env, vault, cached, listed, fp, blob, made, statusFP, status, lock, job,
          torn, stale, rotations, faults>>

-----------------------------------------------------------------------------
Ids == 1 .. MaxArchives
KeyOrNone == Key \cup {NoKey}
Statuses == {"none", "compatible", "incompatible", "unverified", "missing", "unknown"}
Steps == {"idle", "write", "record", "warm", "row", "file",
          "probe", "try", "backfill", "note", "publish",
          "rewrite", "stamp", "settle"}

Recorded(i) == i \in listed
Stored(i) == blob[i] # NoKey                                 \* archiveMissing
Opens(i, k) == k # NoKey /\ blob[i] = k                      \* decryptAtRest
Sealed(i, k) == blob' = [blob EXCEPT ![i] = k]               \* encrypted and stored
Dropped(i) == blob' = [blob EXCEPT ![i] = NoKey]             \* deleteArchiveByPath
NoStatus == [i \in Ids |-> "none"]

\* what a handler remembers between two steps: the archive, a key it took, the
\* fingerprint it read, its verdict, VerifyAll's verdicts.  mixed: history,
\* the master key changed under the handler.
Idle == [pc |-> "idle", id |-> 1, key |-> NoKey, fp |-> NoKey, say |-> "none",
         map |-> NoStatus, mixed |-> FALSE]
At(p, step) == job[p].pc = step
Does(p, j) == job' = [job EXCEPT ![p] = j]
Ended(p) == Does(p, Idle)
Goes(p, step) == job' = [job EXCEPT ![p].pc = step]

\* a call fails, or Swirl dies, while the bound on faults lasts
Fault == faults < MaxFaults /\ faults' = faults + 1 /\ UNCHANGED rotations
Works == UNCHANGED bounds

-----------------------------------------------------------------------------
(* The master key: the environment, else the cached answer of the provider, *)
(* else a lookup, whose answer is cached.                                   *)
MasterKey == IF env # NoKey THEN env ELSE IF cached # NoKey THEN cached ELSE vault
Lookup == cached' = (IF env = NoKey THEN MasterKey ELSE cached) /\ UNCHANGED <<env, vault>>
Configured == MasterKey # NoKey

Classify(f, current) ==
  IF f = NoKey THEN "unverified" ELSE IF f = current THEN "compatible" ELSE "incompatible"

\* decorateStatus: what List and Find answer for archive i
Listed(i) ==
  IF ~Configured THEN "unknown"
  ELSE IF statusFP = MasterKey /\ status[i] # "none" THEN status[i]
  ELSE Classify(fp[i], MasterKey)

\* cacheStatus: the first write pins the cache to the current fingerprint
Noted(p, pin) ==
  /\ statusFP' = pin
  /\ status' = [status EXCEPT ![job[p].id] = job[p].say]
  /\ stale' = IF job[p].mixed \/ pin # MasterKey
               THEN stale \cup {job[p].id} ELSE stale \ {job[p].id}
CacheStatusUnpinned(p) == Noted(p, MasterKey) /\ Lookup
CacheStatus(p) ==
  /\ Noted(p, IF statusFP = NoKey THEN MasterKey ELSE statusFP)
  /\ IF statusFP = NoKey THEN Lookup ELSE UNCHANGED keyVars

TypeOK ==
  /\ env \in KeyOrNone /\ vault \in KeyOrNone /\ cached \in KeyOrNone
  /\ listed \subseteq Ids
  /\ fp \in [Ids -> KeyOrNone]
  /\ blob \in [Ids -> KeyOrNone]
  /\ made \in 1 .. MaxArchives
  /\ statusFP \in KeyOrNone
  /\ status \in [Ids -> Statuses]
  /\ lock \subseteq Ids
  /\ job \in [Proc -> [pc : Steps, id : Ids, key : KeyOrNone, fp : KeyOrNone,
                       say : Statuses, map : [Ids -> Statuses], mixed : BOOLEAN]]
  /\ torn \subseteq Ids
  /\ stale \subseteq Ids
  /\ rotations \in 0 .. MaxRotations
  /\ faults \in 0 .. MaxFaults

\* archive 1 was made before fingerprints were recorded, under some key
Init ==
  /\ env \in KeyOrNone /\ vault \in Key /\ cached = NoKey
  /\ listed = {1}
  /\ fp = [i \in Ids |-> NoKey]
  /\ \E k \in Key : blob = [i \in Ids |-> IF i = 1 THEN k ELSE NoKey]
  /\ made = 1
  /\ statusFP = NoKey /\ status = NoStatus
  /\ lock = {}
  /\ job = [p \in Proc |-> Idle]
  /\ torn = {} /\ stale = {}
  /\ rotations = 0 /\ faults = 0

-----------------------------------------------------------------------------
(* Create: the blob first, then the record.                                 *)
BeginCreate(p) ==
  /\ At(p, "idle") /\ Configured /\ Lookup
  /\ made + Cardinality({q \in Proc : At(q, "write")}) < MaxArchives
  /\ Does(p, [Idle EXCEPT !.pc = "write"])
  /\ UNCHANGED <<store, cache, lock, torn, bounds>>

\* the export, encryptAtRest and writeArchive
WriteArchive(p) ==
  /\ At(p, "write") /\ Lookup
  /\ \/ /\ Works /\ Configured
        /\ made' = made + 1
        /\ Sealed(made + 1, MasterKey)
        /\ Does(p, [job[p] EXCEPT !.pc = "record", !.id = made + 1])
     \/ Works /\ ~Configured /\ Ended(p) /\ UNCHANGED <<made, blob>>
     \/ Fault /\ Ended(p) /\ UNCHANGED <<made, blob>>
  /\ UNCHANGED <<listed, fp, cache, lock, torn>>

\* the fingerprint is taken now; the blob of a record that could not be
\* created is removed, if that works
RecordArchive(p) ==
  LET i == job[p].id IN
  /\ At(p, "record") /\ Lookup
  /\ \/ /\ Works
        /\ listed' = listed \cup {i}
        /\ fp' = [fp EXCEPT ![i] = MasterKey]
        /\ torn' = IF job[p].mixed THEN torn \cup {i} ELSE torn
        /\ Does(p, [job[p] EXCEPT !.pc = "warm", !.key = MasterKey])
        /\ UNCHANGED blob
     \/ /\ Fault /\ Ended(p)
        /\ Dropped(i) \/ UNCHANGED blob
        /\ UNCHANGED <<listed, fp, torn>>
  /\ UNCHANGED <<made, cache, lock>>

WarmCache(p) ==
  /\ At(p, "warm") /\ Ended(p)
  /\ IF statusFP = job[p].key
     THEN /\ status' = [status EXCEPT ![job[p].id] = "compatible"]
          /\ stale' = IF job[p].mixed THEN stale \cup {job[p].id} ELSE stale
     ELSE UNCHANGED <<status, stale>>
  /\ UNCHANGED <<keyVars, store, statusFP, lock, torn, bounds>>

-----------------------------------------------------------------------------
(* Delete, under the archive's mutex: the record first, then the blob.      *)
BeginDelete(p) ==
  /\ At(p, "idle")
  /\ \E i \in 1 .. made : Does(p, [Idle EXCEPT !.pc = "row", !.id = i])
  /\ UNCHANGED <<keyVars, store, cache, lock, torn, bounds>>

DeleteRow(p) ==
  LET i == job[p].id IN
  /\ At(p, "row") /\ i \notin lock
  /\ \/ /\ Works /\ Recorded(i)
        /\ listed' = listed \ {i} /\ lock' = lock \cup {i}
        /\ Goes(p, "file")
     \/ /\ Works /\ ~Recorded(i) /\ Ended(p) /\ UNCHANGED <<listed, lock>>
     \/ /\ Fault /\ Ended(p) /\ UNCHANGED <<listed, lock>>
  /\ UNCHANGED <<keyVars, fp, blob, made, cache, torn>>

DeleteFile(p) ==
  LET i == job[p].id IN
  /\ At(p, "file") /\ Ended(p)
  /\ \/ Works /\ Dropped(i)
     \/ Fault /\ UNCHANGED blob
  /\ status' = [status EXCEPT ![i] = "none"]
  /\ lock' = lock \ {i}
  /\ UNCHANGED <<keyVars, listed, fp, made, statusFP, stale, torn>>

-----------------------------------------------------------------------------
(* Verify, without the mutex, and VerifyAll.                                *)
BeginVerify(p) ==
  /\ At(p, "idle")
  /\ \E i \in listed : Does(p, [Idle EXCEPT !.pc = "probe", !.id = i, !.fp = fp[i]])
  /\ UNCHANGED <<keyVars, store, cache, lock, torn, bounds>>

\* no key, no blob, another fingerprint: noted.  The right fingerprint is
\* written back with the record, a record without one is tried.
Verdict(i, f, current) ==
  IF current = NoKey THEN "unknown" ELSE IF ~Stored(i) THEN "missing" ELSE Classify(f, current)
Probe(p) ==
  LET v == Verdict(job[p].id, job[p].fp, MasterKey) IN
  /\ At(p, "probe") /\ Lookup
  /\ Does(p, [job[p] EXCEPT !.say = v, !.key = MasterKey,
                !.pc = CASE v = "compatible" -> "backfill" [] v = "unverified" -> "try"
                         [] OTHER -> "note"])
  /\ UNCHANGED <<store, cache, lock, torn, bounds>>

TrialSkipped(p) ==
  /\ At(p, "try") /\ UNCHANGED keyVars
  /\ Does(p, [job[p] EXCEPT !.pc = "backfill", !.say = "compatible", !.fp = job[p].key])
  /\ UNCHANGED <<store, cache, lock, torn, bounds>>
TrialDecrypt(p) ==
  LET j == job[p] IN
  /\ At(p, "try") /\ Lookup
  /\ Does(p, IF Opens(j.id, MasterKey) THEN [j EXCEPT !.pc = "backfill", !.say = "compatible", !.fp = j.key]
             ELSE [j EXCEPT !.pc = "note", !.say = IF Stored(j.id) THEN "incompatible" ELSE "missing"])
  /\ UNCHANGED <<store, cache, lock, torn, bounds>>

\* BackupUpdate of the whole record Verify has read; an error is ignored
Backfill(p) ==
  LET i == job[p].id IN
  /\ At(p, "backfill") /\ Goes(p, "note")
  /\ \/ /\ Works /\ Recorded(i)
        /\ fp' = [fp EXCEPT ![i] = job[p].fp]
        /\ torn' = IF job[p].mixed THEN torn \cup {i} ELSE torn
     \/ Works /\ ~Recorded(i) /\ UNCHANGED <<fp, torn>>
     \/ Fault /\ UNCHANGED <<fp, torn>>
  /\ UNCHANGED <<keyVars, listed, blob, made, cache, lock>>

Note(p) ==
  /\ At(p, "note") /\ Ended(p) /\ CacheStatus(p)
  /\ UNCHANGED <<store, lock, torn, bounds>>

\* the fingerprint, the records and which of their blobs exist
BeginVerifyAll(p) ==
  /\ At(p, "idle") /\ Lookup
  /\ Does(p, [Idle EXCEPT !.pc = "publish", !.key = MasterKey,
       !.map = [i \in Ids |-> IF Recorded(i) THEN Verdict(i, fp[i], MasterKey) ELSE "none"]])
  /\ UNCHANGED <<store, cache, lock, torn, bounds>>

Publish(p) ==
  /\ At(p, "publish") /\ Ended(p)
  /\ status' = job[p].map /\ statusFP' = job[p].key
  /\ stale' = IF job[p].mixed THEN Ids ELSE {}
  /\ UNCHANGED <<keyVars, store, lock, torn, bounds>>

-----------------------------------------------------------------------------
(* Recover, under the archive's mutex: the blob first, then the record.  A  *)
(* wrong old passphrase ends it before anything is written.                 *)
BeginRecoverUnlocked(p) ==
  /\ At(p, "idle") /\ Configured /\ Lookup
  /\ \E i \in listed : Stored(i) /\ Does(p, [Idle EXCEPT !.pc = "rewrite", !.id = i])
  /\ UNCHANGED <<store, cache, lock, torn, bounds>>
BeginRecover(p) ==
  /\ At(p, "idle") /\ Configured /\ Lookup
  /\ \E i \in listed \ lock :
       /\ Stored(i)
       /\ lock' = lock \cup {i}
       /\ Does(p, [Idle EXCEPT !.pc = "rewrite", !.id = i])
  /\ UNCHANGED <<store, cache, torn, bounds>>

RecoverFails(p) == Ended(p) /\ lock' = lock \ {job[p].id}

\* encryptAtRest and rewriteArchive
RewriteArchive(p) ==
  /\ At(p, "rewrite") /\ Lookup
  /\ \/ /\ Works /\ Configured /\ Goes(p, "stamp")
        /\ Sealed(job[p].id, MasterKey)
        /\ UNCHANGED lock
     \/ Works /\ ~Configured /\ RecoverFails(p) /\ UNCHANGED blob
     \/ Fault /\ RecoverFails(p) /\ UNCHANGED blob
  /\ UNCHANGED <<listed, fp, made, cache, torn>>

Stamp(p) ==
  LET i == job[p].id IN
  /\ At(p, "stamp") /\ Lookup
  /\ \/ /\ Works /\ Does(p, [job[p] EXCEPT !.pc = "settle", !.say = "compatible"])
        /\ fp' = [fp EXCEPT ![i] = MasterKey]
        /\ torn' = IF job[p].mixed THEN torn \cup {i} ELSE torn \ {i}
        /\ UNCHANGED lock
     \/ /\ Fault /\ RecoverFails(p)
        /\ torn' = torn \cup {i} /\ UNCHANGED fp
  /\ UNCHANGED <<listed, blob, made, cache>>

RecoverEnds(p) ==
  /\ At(p, "settle") /\ Ended(p) /\ CacheStatus(p)
  /\ lock' = lock \ {job[p].id}
  /\ UNCHANGED <<store, torn, bounds>>

-----------------------------------------------------------------------------
(* The key moves, Swirl restarts.                                           *)
KeyMoves ==
  job' = [p \in Proc |-> [job[p] EXCEPT !.mixed =
            ~At(p, "idle") /\ (@ \/ MasterKey' # MasterKey)]]

\* the Vault entry is rotated, or Vault becomes unreachable
Rotate ==
  /\ rotations < MaxRotations /\ rotations' = rotations + 1
  /\ vault' \in KeyOrNone \ {vault} /\ UNCHANGED <<env, cached>>
  /\ KeyMoves
  /\ UNCHANGED <<store, cache, lock, torn, faults>>

CacheExpires ==
  /\ cached # NoKey /\ cached' = NoKey /\ UNCHANGED <<env, vault>>
  /\ KeyMoves
  /\ UNCHANGED <<store, cache, lock, torn, bounds>>

\* Swirl dies and starts again, perhaps with another SWIRL_BACKUP_KEY
Restart ==
  /\ faults < MaxFaults /\ faults' = faults + 1
  /\ \/ UNCHANGED <<env, rotations>>
     \/ /\ rotations < MaxRotations /\ rotations' = rotations + 1
        /\ env' \in KeyOrNone \ {env}
  /\ cached' = NoKey /\ UNCHANGED vault
  /\ statusFP' = NoKey /\ status' = NoStatus /\ stale' = {}
  /\ lock' = {}
  /\ job' = [p \in Proc |-> Idle]
  /\ torn' = torn \cup {job[p].id : p \in {q \in Proc : At(q, "stamp")}}
  /\ UNCHANGED store

CreateStep(p) == WriteArchive(p) \/ RecordArchive(p) \/ WarmCache(p)
DeleteStep(p) == DeleteRow(p) \/ DeleteFile(p)
VerifyStep(p) == Probe(p) \/ TrialDecrypt(p) \/ Backfill(p) \/ Note(p) \/ Publish(p)
RecoverStep(p) == RewriteArchive(p) \/ Stamp(p) \/ RecoverEnds(p)
Begin(p) == \/ BeginCreate(p) \/ BeginDelete(p) \/ BeginVerify(p) \/ BeginVerifyAll(p)
            \/ BeginRecover(p)

Next ==
  \/ \E p \in Proc : \/ Begin(p) \/ CreateStep(p) \/ DeleteStep(p)
                     \/ VerifyStep(p) \/ RecoverStep(p)
  \/ Rotate \/ CacheExpires \/ Restart

Spec == Init /\ [][Next]_vars
-----------------------------------------------------------------------------
(* Properties.                                                              *)

\* A record always has its archive: Create writes the blob before the record
\* and Delete removes the record before the blob, whatever fails or dies.
RecordHasArchive == \A i \in listed : Stored(i)

\* Only the handlers that took an archive's mutex hold it, one each: Delete
\* and Recover exclude each other on an archive, also after errors.
Holding == {"file", "rewrite", "stamp", "settle"}
MutexHeld ==
  /\ \A p \in Proc : job[p].pc \in Holding => job[p].id \in lock
  /\ \A p, q \in Proc : (p # q /\ {job[p].pc, job[q].pc} \subseteq Holding) => job[p].id # job[q].id
  /\ \A i \in lock : \E p \in Proc : job[p].id = i /\ job[p].pc \in Holding

\* A Recover that races a Delete does not bring the blob back (the reason for
\* the mutex): it takes a failed call or a restart to leave a blob behind.
Unfinished(i) == \E p \in Proc : job[p].id = i /\ job[p].pc \in {"record", "file"}
OrphansOnlyByFault ==
  faults = 0 => \A i \in Ids \ listed : Stored(i) => Unfinished(i)

\* The fingerprint of a record is that of the key its archive is under, unless
\* the master key moved while the handler worked or a Recover was cut between
\* the blob and the record.  Verify writes back, without the mutex, a record
\* it read earlier; that does not undo a concurrent Recover.
FingerprintTrue ==
  \A i \in listed \ torn :
    \/ fp[i] \in {NoKey, blob[i]}
    \/ \E p \in Proc : job[p].id = i /\ At(p, "stamp")

\* An archive listed as compatible opens with the current key: a cached status
\* is not taken for that of another key, also after a rotation and back.  The
\* cache is pinned to one key, so a status noted under another one while it
\* was pinned is the exception, as is an archive a Recover is at work on.
ListedTrue ==
  \A i \in listed \ (torn \cup stale) :
    Listed(i) = "compatible" =>
      \/ blob[i] = MasterKey
      \/ \E p \in Proc : job[p].id = i /\ job[p].pc \in {"stamp", "settle"}

=============================================================================
