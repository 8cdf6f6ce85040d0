---------------------------- MODULE BackupProofs ----------------------------
(* What is proved of Backup for any finite set of handlers and any number of *)
(* keys, archives, rotations and faults: its types, the three invariants of *)
(* its run, that a record has its archive and that the mutexes are held.    *)
(* Then of BackupRestore, for any components, handlers, retention and days: *)
(* its types and the three properties of its run.                           *)
EXTENDS Backup, BackupRestore, TLAPS, FiniteSetTheorems, WellFoundedInduction

-----------------------------------------------------------------------------
(* The invariant. *)

JobOf == [pc : Steps, id : Ids, key : KeyOrNone, fp : KeyOrNone,
          say : Statuses, map : [Ids -> Statuses], mixed : BOOLEAN]

\* A Create at its write has its archive reserved.
Writers == {q \in Proc : At(q, "write")}
Reserved == made + Cardinality(Writers) <= MaxArchives

\* An archive no record was ever made for: nobody knows of it.
Unlisted(i) ==
  i \notin listed /\ status[i] = "none" /\ \A q \in Proc : job[q].map[i] = "none"
Loose == {"idle", "write", "row", "publish"}
Recording(p) ==
  At(p, "record") =>
    /\ Unlisted(job[p].id) /\ Stored(job[p].id)
    /\ \A q \in Proc \ {p} : job[q].id = job[p].id => job[q].pc \in Loose

Numbered ==
  /\ Reserved
  /\ \A i \in Ids : i > made => Unlisted(i) /\ ~Stored(i)
  /\ \A p \in Proc : job[p].id <= made /\ Recording(p)

\* The mutexes; Delete has removed the record, Recover works on one.
Mutexes ==
  /\ MutexHeld
  /\ \A p \in Proc : /\ At(p, "file") => job[p].id \notin listed
                     /\ job[p].pc \in {"rewrite", "stamp", "settle"} => job[p].id \in listed

\* A Recover has rewritten archive i and its record is not stamped yet.
Stamping(i) == \E q \in Proc : job[q].id = i /\ At(q, "stamp")

\* Archive i is under key k, or under the master key.
Under(k, i) ==
  i \in listed \ torn => blob[i] = k \/ blob[i] = MasterKey \/ Stamping(i)

\* What a handler knows that did not see the key move.
Sealing(p) ==
  ~job[p].mixed =>
    /\ job[p].pc \in {"record", "stamp", "settle"} => blob[job[p].id] = MasterKey
    /\ At(p, "probe") => job[p].fp = NoKey \/ Under(job[p].fp, job[p].id)
    /\ At(p, "try") => job[p].key = MasterKey
    /\ At(p, "backfill") => /\ job[p].key = MasterKey /\ job[p].fp = MasterKey
    /\ At(p, "warm") => job[p].key = MasterKey
    /\ job[p].pc \in {"backfill", "warm"} => Under(MasterKey, job[p].id)
    /\ At(p, "note") /\ job[p].say = "compatible" => Under(MasterKey, job[p].id)
    /\ At(p, "publish") =>
         /\ job[p].key = MasterKey
         /\ \A i \in Ids : job[p].map[i] = "compatible" => Under(MasterKey, i)

\* A status in the cache is that of the key the cache is pinned to.
Pinned ==
  \A i \in listed \ (torn \cup stale) :
    status[i] = "compatible" =>
      \/ blob[i] = statusFP
      \/ \E q \in Proc : job[q].id = i /\ job[q].pc \in {"stamp", "settle"}

BackupInv ==
  /\ TypeOK /\ Numbered /\ Mutexes
  /\ RecordHasArchive /\ OrphansOnlyByFault
  /\ \A p \in Proc : Sealing(p)
  /\ FingerprintTrue /\ Pinned

-----------------------------------------------------------------------------
(* Constants and jobs. *)

LEMMA Consts ==
  /\ NoKey \notin Key /\ IsFiniteSet(Proc)
  /\ MaxArchives \in Nat \ {0} /\ MaxRotations \in Nat /\ MaxFaults \in Nat
  /\ 1 \in Ids /\ Ids \subseteq Nat
BY BackupAssumption DEF Ids

\* n is a job with these fields.
Has(n, pc, id, key, f, say, map, mixed) ==
  /\ n \in JobOf
  /\ n.pc = pc /\ n.id = id /\ n.key = key /\ n.fp = f /\ n.say = say /\ n.map = map
  /\ n.mixed <=> mixed

LEMMA IdleHas == Has(Idle, "idle", 1, NoKey, NoKey, "none", NoStatus, FALSE)
<1>1. NoStatus \in [Ids -> Statuses]
  BY DEF NoStatus, Statuses
<1>2. "idle" \in Steps /\ "none" \in Statuses /\ NoKey \in KeyOrNone
  BY DEF Steps, Statuses, KeyOrNone
<1> HIDE DEF Ids, Steps, Statuses, KeyOrNone, NoStatus
<1> QED BY <1>1, <1>2, Consts DEF Idle, JobOf, Has

\* What the handlers make of a job.
LEMMA JobForms ==
  ASSUME NEW j \in JobOf, NEW s \in Steps, NEW i \in Ids, NEW k \in KeyOrNone, NEW v \in Statuses,
         NEW m \in [Ids -> Statuses]
  PROVE  /\ Has([j EXCEPT !.pc = s], s, j.id, j.key, j.fp, j.say, j.map, j.mixed)
         /\ Has([j EXCEPT !.pc = s, !.id = i], s, i, j.key, j.fp, j.say, j.map, j.mixed)
         /\ Has([j EXCEPT !.pc = s, !.key = k], s, j.id, k, j.fp, j.say, j.map, j.mixed)
         /\ Has([j EXCEPT !.pc = s, !.say = v], s, j.id, j.key, j.fp, v, j.map, j.mixed)
         /\ Has([j EXCEPT !.pc = s, !.id = i, !.fp = k], s, i, j.key, k, j.say, j.map, j.mixed)
         /\ Has([j EXCEPT !.say = v, !.key = k, !.pc = s], s, j.id, k, j.fp, v, j.map, j.mixed)
         /\ Has([j EXCEPT !.pc = s, !.say = v, !.fp = k], s, j.id, j.key, k, v, j.map, j.mixed)
         /\ Has([j EXCEPT !.pc = s, !.key = k, !.map = m], s, j.id, k, j.fp, j.say, m, j.mixed)
<1> HIDE DEF Ids, Steps, Statuses, KeyOrNone
<1>1. j.pc \in Steps /\ j.id \in Ids /\ j.key \in KeyOrNone /\ j.fp \in KeyOrNone
      /\ j.say \in Statuses /\ j.map \in [Ids -> Statuses] /\ j.mixed \in BOOLEAN
  BY DEF JobOf
<1>2. Has([j EXCEPT !.pc = s], s, j.id, j.key, j.fp, j.say, j.map, j.mixed)
  BY DEF Has, JobOf
<1>3. Has([j EXCEPT !.pc = s, !.id = i], s, i, j.key, j.fp, j.say, j.map, j.mixed)
  BY DEF Has, JobOf
<1>4. Has([j EXCEPT !.pc = s, !.key = k], s, j.id, k, j.fp, j.say, j.map, j.mixed)
  BY DEF Has, JobOf
<1>5. Has([j EXCEPT !.pc = s, !.say = v], s, j.id, j.key, j.fp, v, j.map, j.mixed)
  BY DEF Has, JobOf
<1>6. Has([j EXCEPT !.pc = s, !.id = i, !.fp = k], s, i, j.key, k, j.say, j.map, j.mixed)
  BY DEF Has, JobOf
<1>7. Has([j EXCEPT !.say = v, !.key = k, !.pc = s], s, j.id, k, j.fp, v, j.map, j.mixed)
  BY DEF Has, JobOf
<1>8. Has([j EXCEPT !.pc = s, !.say = v, !.fp = k], s, j.id, j.key, k, v, j.map, j.mixed)
  BY DEF Has, JobOf
<1>9. Has([j EXCEPT !.pc = s, !.key = k, !.map = m], s, j.id, k, j.fp, j.say, m, j.mixed)
  BY DEF Has, JobOf
<1> QED BY <1>2, <1>3, <1>4, <1>5, <1>6, <1>7, <1>8, <1>9

\* The jobs requests begin with.
LEMMA BeginForms ==
  ASSUME NEW s \in Steps, NEW i \in Ids, NEW k \in KeyOrNone, NEW m \in [Ids -> Statuses]
  PROVE  /\ Has([Idle EXCEPT !.pc = s], s, 1, NoKey, NoKey, "none", NoStatus, FALSE)
         /\ Has([Idle EXCEPT !.pc = s, !.id = i], s, i, NoKey, NoKey, "none", NoStatus, FALSE)
         /\ Has([Idle EXCEPT !.pc = s, !.id = i, !.fp = k], s, i, NoKey, k, "none", NoStatus, FALSE)
         /\ Has([Idle EXCEPT !.pc = s, !.key = k, !.map = m], s, 1, k, NoKey, "none", m, FALSE)
<1>1. /\ Idle \in JobOf /\ Idle.id = 1 /\ Idle.key = NoKey /\ Idle.fp = NoKey
      /\ Idle.say = "none" /\ Idle.map = NoStatus /\ ~Idle.mixed /\ "none" \in Statuses
  BY IdleHas DEF Has, Statuses
<1> HIDE DEF JobOf, Ids, Steps, KeyOrNone, Statuses, Idle
<1>2. /\ Has([Idle EXCEPT !.pc = s], s, Idle.id, Idle.key, Idle.fp, Idle.say, Idle.map, Idle.mixed)
      /\ Has([Idle EXCEPT !.pc = s, !.id = i], s, i, Idle.key, Idle.fp, Idle.say, Idle.map, Idle.mixed)
      /\ Has([Idle EXCEPT !.pc = s, !.id = i, !.fp = k], s, i, Idle.key, k, Idle.say, Idle.map, Idle.mixed)
      /\ Has([Idle EXCEPT !.pc = s, !.key = k, !.map = m], s, Idle.id, k, Idle.fp, Idle.say, m, Idle.mixed)
  BY <1>1, JobForms
<1>3. \A n, pc, id, key, f, map :
        Has(n, pc, id, key, f, "none", map, Idle.mixed) => Has(n, pc, id, key, f, "none", map, FALSE)
  BY <1>1 DEF Has
<1> QED BY <1>1, <1>2, <1>3

\* A handler moves, the others stay where they are.
LEMMA Moved ==
  ASSUME TypeOK, NEW p \in Proc, NEW j \in JobOf, Does(p, j)
  PROVE  job' \in [Proc -> JobOf] /\ job'[p] = j /\ \A q \in Proc \ {p} : job'[q] = job[q]
<1>1. job \in [Proc -> JobOf]
  BY DEF TypeOK, JobOf
<1> HIDE DEF JobOf
<1> QED BY <1>1 DEF Does

LEMMA Stepped ==
  ASSUME TypeOK, NEW p \in Proc, NEW s \in Steps, Goes(p, s)
  PROVE  /\ job' \in [Proc -> JobOf] /\ \A q \in Proc \ {p} : job'[q] = job[q]
         /\ Has(job'[p], s, job[p].id, job[p].key, job[p].fp, job[p].say, job[p].map, job[p].mixed)
<1>1. job[p] \in JobOf /\ job \in [Proc -> JobOf]
  BY DEF TypeOK, JobOf
<1>2. Has([job[p] EXCEPT !.pc = s], s, job[p].id, job[p].key, job[p].fp, job[p].say, job[p].map, job[p].mixed)
  <2>1. 1 \in Ids /\ NoKey \in KeyOrNone /\ "none" \in Statuses /\ NoStatus \in [Ids -> Statuses]
    BY Consts DEF KeyOrNone, Statuses, NoStatus
  <2> QED BY <1>1, <2>1, JobForms
<1>3. Does(p, [job[p] EXCEPT !.pc = s])
  BY DEF Goes, Does
<1>4. [job[p] EXCEPT !.pc = s] \in JobOf
  BY <1>2 DEF Has
<1> HIDE DEF JobOf
<1> QED BY <1>2, <1>3, <1>4, Moved

LEMMA Finished ==
  ASSUME TypeOK, NEW p \in Proc, Ended(p)
  PROVE  /\ job' \in [Proc -> JobOf] /\ \A q \in Proc \ {p} : job'[q] = job[q]
         /\ Has(job'[p], "idle", 1, NoKey, NoKey, "none", NoStatus, FALSE)
<1>1. Idle \in JobOf
  BY IdleHas DEF Has
<1> QED BY <1>1, IdleHas, Moved DEF Ended

\* A lookup of the key leaves it what it is.
LEMMA Looked ==
  ASSUME TypeOK, Lookup \/ UNCHANGED keyVars
  PROVE  MasterKey' = MasterKey /\ {env', vault', cached', MasterKey} \subseteq KeyOrNone
BY DEF TypeOK, Lookup, keyVars, MasterKey

\* The initial state satisfies the invariant.
LEMMA BackupInit == Init => BackupInv
<1> SUFFICES ASSUME Init PROVE BackupInv
  OBVIOUS
<1>1. \A p \in Proc : Has(job[p], "idle", 1, NoKey, NoKey, "none", NoStatus, FALSE)
  BY IdleHas DEF Init
<1>2. job \in [Proc -> JobOf]
  BY IdleHas DEF Init, Has
<1>3. TypeOK
  <2>1. 1 \in 1 .. MaxArchives /\ 0 \in 0 .. MaxRotations /\ 0 \in 0 .. MaxFaults
    BY Consts
  <2>2. NoStatus \in [Ids -> Statuses] /\ fp \in [Ids -> KeyOrNone]
    BY DEF Init, NoStatus, Statuses, KeyOrNone
  <2>3. blob \in [Ids -> KeyOrNone]
    BY DEF Init, KeyOrNone
  <2> QED BY <1>2, <2>1, <2>2, <2>3, Consts DEF TypeOK, Init, JobOf, KeyOrNone
<1>4. listed = {1} /\ made = 1 /\ status = NoStatus /\ lock = {} /\ torn = {}
  BY DEF Init
<1>5. \A i \in Ids : NoStatus[i] = "none"
  BY DEF NoStatus
<1>6. \A i \in Ids : fp[i] = NoKey
  BY DEF Init
<1>7. Stored(1) /\ \A i \in Ids : i > 1 => ~Stored(i)
  BY Consts DEF Init, Stored
<1>8. Numbered
  <2>1. Writers = {}
    BY <1>1 DEF Writers, At, Has
  <2>2. Reserved
    BY <1>4, <2>1, Consts, FS_EmptySet DEF Reserved
  <2>3. \A i \in Ids : i > made => Unlisted(i) /\ ~Stored(i)
    BY <1>1, <1>4, <1>5, <1>7, Consts DEF Unlisted, Has
  <2>4. \A p \in Proc : job[p].id <= made /\ Recording(p)
    BY <1>1, <1>4 DEF Recording, At, Has
  <2> QED BY <2>2, <2>3, <2>4 DEF Numbered
<1>9. Mutexes
  BY <1>1, <1>4 DEF Mutexes, MutexHeld, Holding, At, Has
<1>10. RecordHasArchive /\ OrphansOnlyByFault
  <2>1. \A i \in Ids : i = 1 \/ i > 1
    BY DEF Ids
  <2> QED BY <1>4, <1>7, <2>1 DEF RecordHasArchive, OrphansOnlyByFault
<1>11. \A p \in Proc : Sealing(p)
  BY <1>1 DEF Sealing, At, Has
<1>12. FingerprintTrue /\ Pinned
  BY <1>4, <1>5, <1>6, Consts DEF FingerprintTrue, Pinned
<1> QED BY <1>3, <1>8, <1>9, <1>10, <1>11, <1>12 DEF BackupInv

-----------------------------------------------------------------------------
(* A step of one handler. *)

\* What the others know stays true if an archive is rewritten only under the
\* master key, and if whoever stamps one leaves it under that key or torn.
LEMMA Others ==
  ASSUME BackupInv, NEW p \in Proc, MasterKey' = MasterKey,
         \A q \in Proc \ {p} : job'[q] = job[q],
         \A i \in Ids : i \in listed' \ torn' =>
           \/ i \in listed \ torn /\ blob'[i] = blob[i] /\ (Stamping(i) => Stamping(i)')
           \/ blob'[i] = MasterKey
           \/ Stamping(i)',
         \A q \in Proc \ {p} : job[q].pc \in {"record", "stamp", "settle"} =>
           blob'[job[q].id] = blob[job[q].id],
         NEW q \in Proc \ {p}
  PROVE  Sealing(q)'
<1>1. \A k : \A i \in Ids : Under(k, i) => Under(k, i)'
  BY DEF Under
<1>2. job'[q] = job[q] /\ job[q].id \in Ids /\ Sealing(q)
  BY DEF BackupInv, TypeOK
<1>3. job[q].pc \in {"record", "stamp", "settle"} => blob'[job[q].id] = blob[job[q].id]
  OBVIOUS
<1> QED BY <1>1, <1>2, <1>3 DEF Sealing, At

\* Nobody knows of the archive that a Create is about to record.
LEMMA Apart ==
  ASSUME BackupInv, NEW p \in Proc, job[p].pc \notin Loose \cup {"record"}
  PROVE  \A q \in Proc : At(q, "record") => job[q].id # job[p].id
BY DEF BackupInv, Numbered, Recording, At

\* The mutexes when p neither takes nor releases one, takes one, releases it.
LEMMA LocksKept ==
  ASSUME BackupInv, NEW p \in Proc, lock' = lock, \A q \in Proc \ {p} : job'[q] = job[q],
         job'[p].pc \in Holding <=> job[p].pc \in Holding,
         job[p].pc \in Holding => job'[p].id = job[p].id
  PROVE  MutexHeld'
<1>1. \A q \in Proc : /\ job'[q].pc \in Holding <=> job[q].pc \in Holding
                      /\ job[q].pc \in Holding => job'[q].id = job[q].id
  OBVIOUS
<1> HIDE DEF Holding
<1>2. MutexHeld
  BY DEF BackupInv, Mutexes
<1>3. \A q \in Proc : job'[q].pc \in Holding => job'[q].id \in lock'
  BY <1>1, <1>2 DEF MutexHeld
<1>4. \A q, r \in Proc : q # r /\ {job'[q].pc, job'[r].pc} \subseteq Holding => job'[q].id # job'[r].id
  BY <1>1, <1>2 DEF MutexHeld
<1>5. \A i \in lock' : \E q \in Proc : job'[q].id = i /\ job'[q].pc \in Holding
  BY <1>1, <1>2 DEF MutexHeld
<1> QED BY <1>3, <1>4, <1>5 DEF MutexHeld

LEMMA LockTaken ==
  ASSUME BackupInv, NEW p \in Proc, \A q \in Proc \ {p} : job'[q] = job[q],
         job[p].pc \notin Holding, job'[p].pc \in Holding,
         job'[p].id \notin lock, lock' = lock \cup {job'[p].id}
  PROVE  MutexHeld'
<1> HIDE DEF Holding
<1>2. MutexHeld
  BY DEF BackupInv, Mutexes
<1>3. \A q \in Proc : job'[q].pc \in Holding => job'[q].id \in lock'
  BY <1>2 DEF MutexHeld
<1>4. \A q, r \in Proc : q # r /\ {job'[q].pc, job'[r].pc} \subseteq Holding => job'[q].id # job'[r].id
  BY <1>2 DEF MutexHeld
<1>5. \A i \in lock' : \E q \in Proc : job'[q].id = i /\ job'[q].pc \in Holding
  <2> SUFFICES ASSUME NEW i \in lock' PROVE \E q \in Proc : job'[q].id = i /\ job'[q].pc \in Holding
    OBVIOUS
  <2>1. CASE i \in lock
    <3>1. PICK q \in Proc : job[q].id = i /\ job[q].pc \in Holding
      BY <1>2, <2>1 DEF MutexHeld
    <3> QED BY <3>1
  <2>2. CASE i = job'[p].id
    BY <2>2
  <2> QED BY <2>1, <2>2
<1> QED BY <1>3, <1>4, <1>5 DEF MutexHeld

LEMMA LockReleased ==
  ASSUME BackupInv, NEW p \in Proc, \A q \in Proc \ {p} : job'[q] = job[q],
         job[p].pc \in Holding, job'[p].pc \notin Holding, lock' = lock \ {job[p].id}
  PROVE  MutexHeld'
<1> HIDE DEF Holding
<1>2. MutexHeld
  BY DEF BackupInv, Mutexes
<1>3. \A q \in Proc : job'[q].pc \in Holding => job'[q].id \in lock'
  <2> SUFFICES ASSUME NEW q \in Proc, job'[q].pc \in Holding PROVE job'[q].id \in lock'
    OBVIOUS
  <2>1. q # p /\ job'[q] = job[q] /\ job[q].id \in lock /\ job[q].id # job[p].id
    BY <1>2 DEF MutexHeld
  <2> QED BY <2>1
<1>4. \A q, r \in Proc : q # r /\ {job'[q].pc, job'[r].pc} \subseteq Holding => job'[q].id # job'[r].id
  BY <1>2 DEF MutexHeld
<1>5. \A i \in lock' : \E q \in Proc : job'[q].id = i /\ job'[q].pc \in Holding
  <2> SUFFICES ASSUME NEW i \in lock' PROVE \E q \in Proc : job'[q].id = i /\ job'[q].pc \in Holding
    OBVIOUS
  <2>1. PICK q \in Proc : job[q].id = i /\ job[q].pc \in Holding
    BY <1>2 DEF MutexHeld
  <2> QED BY <2>1
<1> QED BY <1>3, <1>4, <1>5 DEF MutexHeld

\* Reservations only grow at BeginCreate.
LEMMA StillReserved == ASSUME BackupInv, made' = made, Writers' \subseteq Writers PROVE Reserved'
<1>1. IsFiniteSet(Writers)
  BY Consts, FS_Subset DEF Writers
<1>2. Cardinality(Writers') <= Cardinality(Writers) /\ Cardinality(Writers') \in Nat /\ Cardinality(Writers) \in Nat
  BY <1>1, FS_Subset, FS_CardinalityType
<1>3. made \in Nat /\ Reserved
  BY DEF BackupInv, TypeOK, Numbered
<1> QED BY <1>2, <1>3, Consts DEF Reserved

\* A step that leaves archives and records as they are, and is neither that of
\* a Create about to record, nor between the halves of a Delete or a Recover.
LEMMA Quiet ==
  ASSUME BackupInv, TypeOK', NEW p \in Proc,
         UNCHANGED <<listed, fp, blob, made, torn>>, MasterKey' = MasterKey,
         faults' = 0 => faults = 0,
         \A q \in Proc \ {p} : job'[q] = job[q],
         job[p].pc \notin {"record", "file", "stamp"},
         job'[p].pc \notin {"record", "file", "stamp"},
         Reserved', MutexHeld',
         job'[p].pc \in {"rewrite", "settle"} => job'[p].id \in listed,
         job'[p].id <= made,
         \/ job'[p].pc \in Loose
         \/ job'[p].id \in listed
         \/ job'[p].id = job[p].id /\ job[p].pc \notin Loose,
         \A i \in Ids : Unlisted(i) /\ (i > made \/ \E q \in Proc : At(q, "record") /\ job[q].id = i)
                          => Unlisted(i)',
         Sealing(p)', Pinned'
  PROVE  BackupInv'
<1>1. \A i : Stamping(i) <=> Stamping(i)'
  BY DEF Stamping, At
<1>2. \A q \in Proc : Sealing(q)'
  <2>1. ASSUME NEW q \in Proc \ {p} PROVE Sealing(q)'
    BY <1>1, Others
  <2> QED BY <2>1
<1>3. Numbered'
  <2>1. \A i \in Ids : (i > made => Unlisted(i) /\ ~Stored(i))'
    BY DEF BackupInv, Numbered, Stored
  <2>2. ASSUME NEW q \in Proc PROVE (job[q].id <= made /\ Recording(q))'
    <3>1. CASE q = p
      BY <3>1 DEF Recording, At
    <3>2. CASE q # p /\ job[q].pc # "record"
      BY <3>2 DEF BackupInv, Numbered, Recording, At
    <3>3. CASE q # p /\ job[q].pc = "record"
      <4>1. /\ job'[q] = job[q] /\ job[q].id <= made /\ job[q].id \in Ids
            /\ Unlisted(job[q].id) /\ Stored(job[q].id)
            /\ \A r \in Proc \ {q} : job[r].id = job[q].id => job[r].pc \in Loose
        BY <3>3 DEF BackupInv, TypeOK, Numbered, Recording, At
      <4>2. Unlisted(job[q].id)'
        <5>1. \A i \in Ids : i = job[q].id => Unlisted(i)'
          BY <3>3, <4>1 DEF At
        <5> QED BY <4>1, <5>1
      <4>3. Stored(job[q].id)'
        BY <4>1 DEF Stored
      <4>4. \A r \in Proc \ {q} : job'[r].id = job[q].id => job'[r].pc \in Loose
        <5>1. job'[p].id = job[q].id => job'[p].pc \in Loose
          BY <3>3, <4>1 DEF Unlisted
        <5> QED BY <4>1, <5>1
      <4> QED BY <4>1, <4>2, <4>3, <4>4 DEF Recording
    <3> QED BY <3>1, <3>2, <3>3
  <2> QED BY <2>1, <2>2 DEF Numbered
<1>4. Mutexes'
  BY DEF BackupInv, Mutexes, At
<1>5. RecordHasArchive' /\ OrphansOnlyByFault'
  <2>1. RecordHasArchive'
    BY DEF BackupInv, RecordHasArchive, Stored
  <2>2. \A i : Unfinished(i) => Unfinished(i)'
    BY DEF Unfinished
  <2> QED BY <2>1, <2>2 DEF BackupInv, OrphansOnlyByFault, Stored
<1>6. FingerprintTrue'
  <2>1. \A i : (\E q \in Proc : job[q].id = i /\ At(q, "stamp")) =>
                 \E q \in Proc : job'[q].id = i /\ At(q, "stamp")'
    BY DEF At
  <2> QED BY <2>1 DEF BackupInv, FingerprintTrue
<1> QED BY <1>2, <1>3, <1>4, <1>5, <1>6 DEF BackupInv

\* The bounds.
LEMMA Bounded ==
  ASSUME TypeOK, Works \/ Fault
  PROVE  /\ faults' \in 0 .. MaxFaults /\ rotations' \in 0 .. MaxRotations
         /\ faults' = 0 => faults = 0
         /\ Fault => faults' # 0
<1>1. faults \in 0 .. MaxFaults /\ MaxFaults \in Nat
  BY Consts DEF TypeOK
<1> QED BY <1>1 DEF TypeOK, Works, Fault, bounds

\* A quiet step that leaves the cache of statuses alone.
LEMMA QuietStatus ==
  ASSUME BackupInv, NEW p \in Proc,
         UNCHANGED <<listed, fp, blob, made, torn, statusFP, status, stale>>,
         Lookup \/ UNCHANGED keyVars, Works \/ Fault, lock' \subseteq Ids,
         job' \in [Proc -> JobOf], \A q \in Proc \ {p} : job'[q] = job[q],
         job[p].pc \notin {"record", "file", "stamp", "settle"},
         job'[p].pc \notin {"record", "file", "stamp", "settle"},
         Reserved', MutexHeld',
         \/ job'[p].map \in {NoStatus, job[p].map}
         \/ \A i \in Ids \ listed : job'[p].map[i] = "none",
         job'[p].pc = "rewrite" => job'[p].id \in listed,
         job'[p].id <= made,
         \/ job'[p].pc \in Loose
         \/ job'[p].id \in listed
         \/ job'[p].id = job[p].id /\ job[p].pc \notin Loose,
         Sealing(p)'
  PROVE  BackupInv'
<1>1. TypeOK /\ Pinned
  BY DEF BackupInv
<1>2. MasterKey' = MasterKey /\ {env', vault', cached'} \subseteq KeyOrNone
  BY <1>1, Looked
<1>3. faults' \in 0 .. MaxFaults /\ rotations' \in 0 .. MaxRotations /\ (faults' = 0 => faults = 0)
  BY <1>1, Bounded
<1>4. TypeOK'
  BY <1>1, <1>2, <1>3 DEF TypeOK, JobOf
<1>5. Pinned'
  <2>1. \A i : (\E q \in Proc : job[q].id = i /\ job[q].pc \in {"stamp", "settle"}) =>
               \E q \in Proc : job'[q].id = i /\ job'[q].pc \in {"stamp", "settle"}
    OBVIOUS
  <2> QED BY <1>1, <2>1 DEF Pinned
<1>6. \A i \in Ids : Unlisted(i) => Unlisted(i)'
  BY DEF Unlisted, NoStatus
<1> QED BY <1>2, <1>3, <1>4, <1>5, <1>6, Quiet

\* One that takes up work, without a mutex.
LEMMA Begun ==
  ASSUME BackupInv, NEW p \in Proc, At(p, "idle"),
         UNCHANGED <<store, cache, lock, torn, bounds>>, Lookup \/ UNCHANGED keyVars,
         NEW s \in {"row", "probe"}, NEW i \in Ids, i <= made, s # "row" => i \in listed,
         NEW f \in KeyOrNone,
         job' \in [Proc -> JobOf], \A q \in Proc \ {p} : job'[q] = job[q],
         Has(job'[p], s, i, NoKey, f, "none", NoStatus, FALSE),
         s = "probe" => f = NoKey \/ Under(f, i)'
  PROVE  BackupInv'
<1>1. /\ job'[p].pc = s /\ job'[p].id = i /\ job'[p].fp = f /\ job'[p].map = NoStatus
      /\ job[p].pc = "idle"
  BY DEF Has, At
<1>2. MutexHeld'
  BY <1>1, LocksKept DEF Holding
<1>3. Reserved'
  <2>1. Writers' \subseteq Writers
    BY <1>1 DEF Writers, At
  <2> QED BY <2>1, StillReserved DEF store
<1>4. Sealing(p)'
  BY <1>1 DEF Sealing, At
<1>5. lock' \subseteq Ids /\ Works
  BY DEF BackupInv, TypeOK, Works
<1>6. \/ job'[p].pc \in Loose
      \/ job'[p].id \in listed
  BY <1>1 DEF Loose
<1> QED BY <1>1, <1>2, <1>3, <1>4, <1>5, <1>6, QuietStatus DEF store, cache

LEMMA BeginDeleteKeeps == ASSUME BackupInv, NEW p \in Proc, BeginDelete(p) PROVE BackupInv'
<1>1. PICK i \in 1 .. made : Does(p, [Idle EXCEPT !.pc = "row", !.id = i])
  BY DEF BeginDelete
<1>2. TypeOK /\ i \in Ids /\ i <= made
  <2>1. TypeOK
    BY DEF BackupInv
  <2> QED BY <2>1, Consts DEF TypeOK, Ids
<1>3. Has([Idle EXCEPT !.pc = "row", !.id = i], "row", i, NoKey, NoKey, "none", NoStatus, FALSE)
  <2>1. "row" \in Steps /\ NoKey \in KeyOrNone /\ "none" \in Statuses /\ NoStatus \in [Ids -> Statuses]
    BY DEF Steps, KeyOrNone, Statuses, NoStatus
  <2> QED BY <1>2, <2>1, BeginForms, Consts
<1>4. /\ job' \in [Proc -> JobOf] /\ \A q \in Proc \ {p} : job'[q] = job[q]
      /\ job'[p] = [Idle EXCEPT !.pc = "row", !.id = i]
  <2>1. [Idle EXCEPT !.pc = "row", !.id = i] \in JobOf
    BY <1>3 DEF Has
  <2> QED BY <1>1, <1>2, <2>1, Moved
<1>5. Has(job'[p], "row", i, NoKey, NoKey, "none", NoStatus, FALSE)
  BY <1>3, <1>4
<1>6. At(p, "idle") /\ UNCHANGED <<store, cache, lock, torn, bounds>> /\ UNCHANGED keyVars
  BY DEF BeginDelete
<1> QED BY <1>2, <1>4, <1>5, <1>6, Begun DEF KeyOrNone

LEMMA BeginVerifyKeeps == ASSUME BackupInv, NEW p \in Proc, BeginVerify(p) PROVE BackupInv'
<1>1. PICK i \in listed : Does(p, [Idle EXCEPT !.pc = "probe", !.id = i, !.fp = fp[i]])
  BY DEF BeginVerify
<1>2. TypeOK /\ i \in Ids /\ i <= made /\ fp[i] \in KeyOrNone
  <2>1. TypeOK /\ i \in Ids
    BY DEF BackupInv, TypeOK
  <2>2. i <= made
    <3>1. ~(i > made)
      BY <2>1 DEF BackupInv, Numbered, Unlisted
    <3>2. i \in Nat /\ made \in Nat
      BY <2>1, Consts DEF TypeOK
    <3> QED BY <3>1, <3>2
  <2> QED BY <2>1, <2>2 DEF TypeOK
<1>f. PICK f \in KeyOrNone : f = fp[i]
  BY <1>2
<1>3. Has([Idle EXCEPT !.pc = "probe", !.id = i, !.fp = f],
          "probe", i, NoKey, f, "none", NoStatus, FALSE)
  <2>1. "probe" \in Steps /\ "none" \in Statuses /\ NoStatus \in [Ids -> Statuses]
    BY DEF Steps, Statuses, NoStatus
  <2> QED BY <1>2, <2>1, BeginForms, Consts
<1>4. /\ job' \in [Proc -> JobOf] /\ \A q \in Proc \ {p} : job'[q] = job[q]
      /\ job'[p] = [Idle EXCEPT !.pc = "probe", !.id = i, !.fp = f]
  <2>1. [Idle EXCEPT !.pc = "probe", !.id = i, !.fp = f] \in JobOf
    BY <1>3 DEF Has
  <2> QED BY <1>1, <1>2, <1>f, <2>1, Moved
<1>5. Has(job'[p], "probe", i, NoKey, f, "none", NoStatus, FALSE)
  BY <1>3, <1>4
<1>6. At(p, "idle") /\ UNCHANGED <<store, cache, lock, torn, bounds>> /\ UNCHANGED keyVars
  BY DEF BeginVerify
<1>7. f = NoKey \/ Under(f, i)'
  <2>1. i \in listed \ torn => fp[i] \in {NoKey, blob[i]} \/ Stamping(i)
    BY DEF BackupInv, FingerprintTrue, Stamping
  <2>2. Stamping(i) => Stamping(i)'
    <3>1. SUFFICES ASSUME NEW q \in Proc, job[q].id = i, At(q, "stamp") PROVE Stamping(i)'
      BY DEF Stamping
    <3>2. q # p
      BY <1>6, <3>1 DEF At
    <3> QED BY <1>4, <3>1, <3>2 DEF Stamping, At
  <2>3. UNCHANGED <<listed, torn, blob>>
    BY <1>6 DEF store
  <2> QED BY <1>f, <2>1, <2>2, <2>3 DEF Under
<1> QED BY <1>2, <1>f, <1>4, <1>5, <1>6, <1>7, Begun

LEMMA BeginCreateKeeps == ASSUME BackupInv, NEW p \in Proc, BeginCreate(p) PROVE BackupInv'
<1>1. /\ At(p, "idle") /\ Lookup /\ UNCHANGED <<store, cache, lock, torn, bounds>>
      /\ made + Cardinality(Writers) < MaxArchives /\ Does(p, [Idle EXCEPT !.pc = "write"])
      /\ TypeOK
  BY DEF BeginCreate, BackupInv, Writers
<1>2. Has([Idle EXCEPT !.pc = "write"], "write", 1, NoKey, NoKey, "none", NoStatus, FALSE)
  <2>1. "write" \in Steps /\ "none" \in Statuses /\ NoStatus \in [Ids -> Statuses] /\ NoKey \in KeyOrNone
    BY DEF Steps, Statuses, NoStatus, KeyOrNone
  <2>2. 1 \in Ids
    BY Consts
  <2> HIDE DEF Ids, Steps, Statuses, KeyOrNone
  <2> QED BY <2>1, <2>2, BeginForms
<1>3. /\ job' \in [Proc -> JobOf] /\ \A q \in Proc \ {p} : job'[q] = job[q]
      /\ job'[p] = [Idle EXCEPT !.pc = "write"]
  <2>1. [Idle EXCEPT !.pc = "write"] \in JobOf
    BY <1>2 DEF Has
  <2> QED BY <1>1, <2>1, Moved
<1>4. job'[p].pc = "write" /\ job'[p].id = 1 /\ job'[p].map = NoStatus /\ job[p].pc = "idle"
  BY <1>1, <1>2, <1>3 DEF Has, At
<1>5. Reserved'
  <2>1. Writers' = Writers \cup {p}
    BY <1>3, <1>4 DEF Writers, At
  <2>2. IsFiniteSet(Writers) /\ p \notin Writers
    BY <1>4, Consts, FS_Subset DEF Writers, At
  <2>3. Cardinality(Writers') = Cardinality(Writers) + 1 /\ Cardinality(Writers) \in Nat
    BY <2>1, <2>2, FS_AddElement, FS_CardinalityType
  <2>4. made' = made /\ made \in Nat /\ MaxArchives \in Nat
    BY <1>1, Consts DEF store, TypeOK
  <2> QED BY <1>1, <2>3, <2>4 DEF Reserved
<1>6. MutexHeld'
  BY <1>1, <1>3, <1>4, LocksKept DEF Holding
<1>7. Sealing(p)'
  BY <1>4 DEF Sealing, At
<1>8. lock' \subseteq Ids /\ Works /\ 1 <= made
  BY <1>1 DEF TypeOK, Works
<1>9. job'[p].pc \in Loose
  BY <1>4 DEF Loose
<1> QED BY <1>1, <1>3, <1>4, <1>5, <1>6, <1>7, <1>8, <1>9, QuietStatus DEF store, cache

LEMMA BeginRecoverKeeps == ASSUME BackupInv, NEW p \in Proc, BeginRecover(p) PROVE BackupInv'
<1>1. PICK i \in listed \ lock : lock' = lock \cup {i} /\ Does(p, [Idle EXCEPT !.pc = "rewrite", !.id = i])
  BY DEF BeginRecover
<1>2. TypeOK /\ i \in Ids /\ i <= made
  <2>1. TypeOK /\ i \in Ids
    BY DEF BackupInv, TypeOK
  <2>2. ~(i > made)
    BY <2>1 DEF BackupInv, Numbered, Unlisted
  <2>3. i \in Nat /\ made \in Nat
    BY <2>1, Consts DEF TypeOK
  <2> QED BY <2>1, <2>2, <2>3
<1>3. Has([Idle EXCEPT !.pc = "rewrite", !.id = i], "rewrite", i, NoKey, NoKey, "none", NoStatus, FALSE)
  <2>1. "rewrite" \in Steps /\ "none" \in Statuses /\ NoStatus \in [Ids -> Statuses] /\ NoKey \in KeyOrNone
    BY DEF Steps, Statuses, NoStatus, KeyOrNone
  <2> QED BY <1>2, <2>1, BeginForms, Consts
<1>4. /\ job' \in [Proc -> JobOf] /\ \A q \in Proc \ {p} : job'[q] = job[q]
      /\ job'[p] = [Idle EXCEPT !.pc = "rewrite", !.id = i]
  <2>1. [Idle EXCEPT !.pc = "rewrite", !.id = i] \in JobOf
    BY <1>3 DEF Has
  <2> QED BY <1>1, <1>2, <2>1, Moved
<1>5. job'[p].pc = "rewrite" /\ job'[p].id = i /\ job'[p].map = NoStatus
  BY <1>3, <1>4 DEF Has
<1>6. /\ job[p].pc = "idle" /\ Lookup /\ Works
      /\ UNCHANGED <<listed, fp, blob, made, torn, statusFP, status, stale>>
  BY DEF BeginRecover, At, store, cache, Works
<1>7. MutexHeld'
  BY <1>1, <1>4, <1>5, <1>6, LockTaken DEF Holding
<1>8. Reserved'
  <2>1. Writers' \subseteq Writers
    BY <1>4, <1>5 DEF Writers, At
  <2> QED BY <1>6, <2>1, StillReserved
<1>9. Sealing(p)'
  BY <1>5 DEF Sealing, At
<1>10. lock' \subseteq Ids
  BY <1>1, <1>2 DEF TypeOK
<1> QED BY <1>1, <1>2, <1>4, <1>5, <1>6, <1>7, <1>8, <1>9, <1>10, QuietStatus

\* VerifyAll judges every record by its fingerprint.
LEMMA BeginVerifyAllKeeps == ASSUME BackupInv, NEW p \in Proc, BeginVerifyAll(p) PROVE BackupInv'
<1> DEFINE m == [i \in Ids |-> IF Recorded(i) THEN Verdict(i, fp[i], MasterKey) ELSE "none"]
<1>1. /\ At(p, "idle") /\ Lookup /\ UNCHANGED <<store, cache, lock, torn, bounds>>
      /\ Does(p, [Idle EXCEPT !.pc = "publish", !.key = MasterKey, !.map = m])
      /\ TypeOK
  BY DEF BeginVerifyAll, BackupInv
<1>k. MasterKey' = MasterKey /\ MasterKey \in KeyOrNone
  BY <1>1, Looked
<1>m. /\ m \in [Ids -> Statuses]
      /\ \A i \in Ids \ listed : m[i] = "none"
      /\ \A i \in Ids : m[i] = "compatible" => i \in listed /\ fp[i] = MasterKey /\ fp[i] # NoKey
  <2>1. \A i \in Ids : m[i] = IF Recorded(i) THEN Verdict(i, fp[i], MasterKey) ELSE "none"
    OBVIOUS
  <2>2. \A i \in Ids : Verdict(i, fp[i], MasterKey) \in Statuses
    BY DEF Verdict, Classify, Statuses
  <2>3. m \in [Ids -> Statuses]
    BY <2>2 DEF Statuses
  <2> HIDE DEF m
  <2> QED BY <2>1, <2>3 DEF Recorded, Verdict, Classify
<1> HIDE DEF m
<1>2. Has([Idle EXCEPT !.pc = "publish", !.key = MasterKey, !.map = m],
          "publish", 1, MasterKey, NoKey, "none", m, FALSE)
  <2>1. "publish" \in Steps /\ 1 \in Ids
    BY Consts DEF Steps
  <2> HIDE DEF Ids, Steps, Statuses, KeyOrNone
  <2> QED BY <1>k, <1>m, <2>1, BeginForms
<1>3. /\ job' \in [Proc -> JobOf] /\ \A q \in Proc \ {p} : job'[q] = job[q]
      /\ job'[p] = [Idle EXCEPT !.pc = "publish", !.key = MasterKey, !.map = m]
  <2>1. [Idle EXCEPT !.pc = "publish", !.key = MasterKey, !.map = m] \in JobOf
    BY <1>2 DEF Has
  <2> QED BY <1>1, <2>1, Moved
<1>4. /\ job'[p].pc = "publish" /\ job'[p].id = 1 /\ job'[p].key = MasterKey /\ job'[p].map = m
      /\ job[p].pc = "idle"
  BY <1>1, <1>2, <1>3 DEF Has, At
<1>5. Reserved'
  <2>1. Writers' \subseteq Writers
    BY <1>3, <1>4 DEF Writers, At
  <2> QED BY <1>1, <2>1, StillReserved DEF store
<1>6. MutexHeld'
  BY <1>1, <1>3, <1>4, LocksKept DEF Holding
<1>7. Sealing(p)'
  <2>1. \A i \in Ids : m[i] = "compatible" => Under(MasterKey, i)'
    <3> SUFFICES ASSUME NEW i \in Ids, m[i] = "compatible" PROVE Under(MasterKey, i)'
      OBVIOUS
    <3>1. i \in listed \ torn => blob[i] = MasterKey \/ Stamping(i)
      BY <1>m DEF BackupInv, FingerprintTrue, Stamping
    <3>2. Stamping(i) => Stamping(i)'
      BY <1>3, <1>4 DEF Stamping, At
    <3>3. UNCHANGED <<listed, torn, blob>>
      BY <1>1 DEF store
    <3> QED BY <1>k, <3>1, <3>2, <3>3 DEF Under
  <2> QED BY <1>k, <1>4, <2>1 DEF Sealing, At
<1>8. lock' \subseteq Ids /\ Works /\ 1 <= made
  BY <1>1 DEF TypeOK, Works
<1>9. job'[p].pc \in Loose
  BY <1>4 DEF Loose
<1> QED BY <1>1, <1>m, <1>3, <1>4, <1>5, <1>6, <1>7, <1>8, <1>9, QuietStatus DEF store, cache

\* A request ends before it has touched anything.
LEMMA Aborts ==
  ASSUME BackupInv, NEW p \in Proc, job[p].pc \in {"write", "row", "rewrite"}, Ended(p),
         UNCHANGED <<listed, fp, blob, made, torn, statusFP, status, stale>>,
         Lookup \/ UNCHANGED keyVars, Works \/ Fault,
         lock' = IF job[p].pc = "rewrite" THEN lock \ {job[p].id} ELSE lock
  PROVE  BackupInv'
<1>1. /\ job' \in [Proc -> JobOf] /\ \A q \in Proc \ {p} : job'[q] = job[q]
      /\ Has(job'[p], "idle", 1, NoKey, NoKey, "none", NoStatus, FALSE) /\ TypeOK
  BY Finished DEF BackupInv
<1>2. job'[p].pc = "idle" /\ job'[p].id = 1 /\ job'[p].map = NoStatus /\ 1 <= made
  BY <1>1 DEF Has, TypeOK
<1>3. Reserved'
  <2>1. Writers' \subseteq Writers
    BY <1>1, <1>2 DEF Writers, At
  <2> QED BY <2>1, StillReserved
<1>4. MutexHeld'
  <2>1. CASE job[p].pc = "rewrite"
    BY <1>1, <1>2, <2>1, LockReleased DEF Holding
  <2>2. CASE job[p].pc # "rewrite"
    BY <1>1, <1>2, <2>2, LocksKept DEF Holding
  <2> QED BY <2>1, <2>2
<1>5. Sealing(p)' /\ job'[p].pc \in Loose
  BY <1>2 DEF Sealing, At, Loose
<1>6. lock' \subseteq Ids
  BY <1>1 DEF TypeOK
<1> QED BY <1>1, <1>2, <1>3, <1>4, <1>5, <1>6, QuietStatus

\* A handler of Verify goes on from what it has judged.
LEMMA Judged ==
  ASSUME BackupInv, NEW p \in Proc, job[p].pc \in {"probe", "try"},
         UNCHANGED <<store, cache, lock, torn, bounds>>, Lookup \/ UNCHANGED keyVars,
         NEW s \in {"try", "backfill", "note"}, NEW k, NEW f, NEW v, NEW j,
         Has(j, s, job[p].id, k, f, v, job[p].map, job[p].mixed), Does(p, j),
         ~job[p].mixed =>
           /\ s = "try" => k = MasterKey
           /\ s = "backfill" => k = MasterKey /\ f = MasterKey /\ Under(MasterKey, job[p].id)
           /\ s = "note" => v # "compatible"
  PROVE  BackupInv'
<1>1. TypeOK
  BY DEF BackupInv
<1>2. job' \in [Proc -> JobOf] /\ (\A q \in Proc \ {p} : job'[q] = job[q]) /\ job'[p] = j
  <2>1. j \in JobOf
    BY DEF Has
  <2> QED BY <1>1, <2>1, Moved
<1>3. /\ job'[p].pc = s /\ job'[p].id = job[p].id /\ job'[p].key = k /\ job'[p].fp = f
      /\ job'[p].say = v /\ job'[p].map = job[p].map
  BY <1>2 DEF Has
<1>4. job'[p].mixed <=> job[p].mixed
  BY <1>2 DEF Has
<1>5. MasterKey' = MasterKey
  BY <1>1, Looked
<1>6. Reserved'
  <2>1. Writers' \subseteq Writers
    BY <1>2, <1>3 DEF Writers, At
  <2> QED BY <2>1, StillReserved DEF store
<1>7. MutexHeld'
  BY <1>2, <1>3, LocksKept DEF Holding
<1>8. Sealing(p)'
  <2>1. ASSUME NEW h, h = job[p].id, Under(MasterKey, h) PROVE Under(MasterKey, h)'
    <3>1. Stamping(h) => Stamping(h)'
      BY <1>2, <1>3 DEF Stamping, At
    <3>2. UNCHANGED <<listed, torn, blob>>
      BY DEF store
    <3> QED BY <1>5, <2>1, <3>1, <3>2 DEF Under
  <2>2. ASSUME NEW h, h = job[p].id PROVE Sealing(p)'
    <3>1. ~job'[p].mixed =>
             /\ s = "try" => k = MasterKey
             /\ s = "backfill" => k = MasterKey /\ f = MasterKey /\ Under(MasterKey, h)'
             /\ s = "note" => v # "compatible"
      BY <1>4, <2>1, <2>2
    <3>2. job'[p].id = h
      BY <1>3, <2>2
    <3> QED BY <1>3, <1>5, <3>1, <3>2 DEF Sealing, At
  <2> QED BY <2>2
<1>9. lock' \subseteq Ids /\ Works
  BY <1>1 DEF TypeOK, Works
<1>10. job[p].id <= made /\ job[p].pc \notin Loose
  BY DEF BackupInv, Numbered, Loose
<1> QED BY <1>1, <1>2, <1>3, <1>6, <1>7, <1>8, <1>9, <1>10, QuietStatus DEF store, cache

LEMMA ProbeKeeps == ASSUME BackupInv, NEW p \in Proc, Probe(p) PROVE BackupInv'
<1> DEFINE v == Verdict(job[p].id, job[p].fp, MasterKey)
           s == CASE v = "compatible" -> "backfill" [] v = "unverified" -> "try" [] OTHER -> "note"
<1>1. /\ job[p].pc = "probe" /\ Lookup /\ UNCHANGED <<store, cache, lock, torn, bounds>>
      /\ Does(p, [job[p] EXCEPT !.say = v, !.key = MasterKey, !.pc = s]) /\ TypeOK
  BY DEF Probe, At, BackupInv
<1>2. /\ v \in Statuses /\ s \in {"try", "backfill", "note"}
      /\ s = "backfill" => v = "compatible"
      /\ s = "note" => v # "compatible"
  <2>1. v \in Statuses
    BY DEF Verdict, Classify, Statuses
  <2> HIDE DEF v
  <2> QED BY <2>1
<1>3. v = "compatible" => job[p].fp = MasterKey /\ MasterKey # NoKey
  BY DEF Verdict, Classify
<1> HIDE DEF v, s
<1>4. Has([job[p] EXCEPT !.say = v, !.key = MasterKey, !.pc = s],
          s, job[p].id, MasterKey, job[p].fp, v, job[p].map, job[p].mixed)
  <2>1. job[p] \in JobOf /\ MasterKey \in KeyOrNone /\ s \in Steps
    BY <1>1, <1>2, Looked DEF TypeOK, JobOf, Steps
  <2>2. 1 \in Ids /\ NoStatus \in [Ids -> Statuses]
    BY Consts DEF NoStatus, Statuses
  <2> HIDE DEF JobOf, Ids, Steps, Statuses, KeyOrNone
  <2> QED BY <1>2, <2>1, <2>2, JobForms
<1>5. ~job[p].mixed => (s = "backfill" => job[p].fp = MasterKey /\ Under(MasterKey, job[p].id))
  <2>1. ~job[p].mixed => job[p].fp = NoKey \/ Under(job[p].fp, job[p].id)
    BY <1>1 DEF BackupInv, Sealing, At
  <2> QED BY <1>2, <1>3, <2>1
<1> QED BY <1>1, <1>2, <1>4, <1>5, Judged

LEMMA TrialDecryptKeeps == ASSUME BackupInv, NEW p \in Proc, TrialDecrypt(p) PROVE BackupInv'
<1>1. /\ job[p].pc = "try" /\ Lookup /\ UNCHANGED <<store, cache, lock, torn, bounds>> /\ TypeOK
      /\ job[p] \in JobOf
  BY DEF TrialDecrypt, At, BackupInv, TypeOK, JobOf
<1>2. 1 \in Ids /\ NoStatus \in [Ids -> Statuses] /\ NoKey \in KeyOrNone /\ job[p].key \in KeyOrNone
  BY <1>1, Consts DEF NoStatus, Statuses, KeyOrNone, JobOf
<1>s. {"backfill", "note"} \subseteq Steps /\ {"compatible", "incompatible", "missing"} \subseteq Statuses
  BY DEF Steps, Statuses
<1>3. CASE Opens(job[p].id, MasterKey)
  <2>1. Does(p, [job[p] EXCEPT !.pc = "backfill", !.say = "compatible", !.fp = job[p].key])
    BY <1>3 DEF TrialDecrypt
  <2>2. Has([job[p] EXCEPT !.pc = "backfill", !.say = "compatible", !.fp = job[p].key],
            "backfill", job[p].id, job[p].key, job[p].key, "compatible", job[p].map, job[p].mixed)
    <3> HIDE DEF JobOf, Ids, Steps, Statuses, KeyOrNone
    <3> QED BY <1>1, <1>2, <1>s, JobForms
  <2>3. ~job[p].mixed => job[p].key = MasterKey /\ Under(MasterKey, job[p].id)
    <3>1. ~job[p].mixed => job[p].key = MasterKey
      BY <1>1 DEF BackupInv, Sealing, At
    <3> QED BY <1>3, <3>1 DEF Opens, Under
  <2> QED BY <1>1, <2>1, <2>2, <2>3, Judged
<1>4. CASE ~Opens(job[p].id, MasterKey)
  <2>1. PICK v \in {"incompatible", "missing"} : Does(p, [job[p] EXCEPT !.pc = "note", !.say = v])
    BY <1>4 DEF TrialDecrypt
  <2>2. Has([job[p] EXCEPT !.pc = "note", !.say = v],
            "note", job[p].id, job[p].key, job[p].fp, v, job[p].map, job[p].mixed)
    <3> HIDE DEF JobOf, Ids, Steps, Statuses, KeyOrNone
    <3> QED BY <1>1, <1>2, <1>s, JobForms
  <2> QED BY <1>1, <2>1, <2>2, Judged
<1> QED BY <1>3, <1>4

-----------------------------------------------------------------------------
(* The cache of statuses. *)

\* A handler that is done notes a status, or all of them.  What it notes is
\* true of the key the cache is pinned to, or marked.
LEMMA Notes ==
  ASSUME BackupInv, NEW p \in Proc, job[p].pc \in {"warm", "note", "publish", "settle"}, Ended(p),
         UNCHANGED <<store, torn, bounds>>, Lookup \/ UNCHANGED keyVars,
         lock' = IF job[p].pc = "settle" THEN lock \ {job[p].id} ELSE lock,
         statusFP' \in KeyOrNone, status' \in [Ids -> Statuses], stale' \subseteq Ids,
         \A i \in Ids : Unlisted(i) /\ (i > made \/ \E q \in Proc : At(q, "record") /\ job[q].id = i)
                          => status'[i] = "none",
         Pinned'
  PROVE  BackupInv'
<1>1. /\ job' \in [Proc -> JobOf] /\ (\A q \in Proc \ {p} : job'[q] = job[q])
      /\ Has(job'[p], "idle", 1, NoKey, NoKey, "none", NoStatus, FALSE) /\ TypeOK
  BY Finished DEF BackupInv
<1>2. job'[p].pc = "idle" /\ job'[p].id = 1 /\ job'[p].map = NoStatus /\ 1 <= made
  BY <1>1 DEF Has, TypeOK
<1>3. MasterKey' = MasterKey /\ {env', vault', cached'} \subseteq KeyOrNone
  BY <1>1, Looked
<1>4. UNCHANGED <<listed, fp, blob, made, torn, faults, rotations>>
  BY DEF store, bounds
<1>5. lock' \subseteq Ids
  BY <1>1 DEF TypeOK
<1>6. TypeOK'
  BY <1>1, <1>3, <1>4, <1>5 DEF TypeOK, JobOf
<1>7. Reserved'
  <2>1. Writers' \subseteq Writers
    BY <1>1, <1>2 DEF Writers, At
  <2> QED BY <1>4, <2>1, StillReserved
<1>8. MutexHeld'
  <2>1. CASE job[p].pc = "settle"
    BY <1>1, <1>2, <2>1, LockReleased DEF Holding
  <2>2. CASE job[p].pc # "settle"
    BY <1>1, <1>2, <2>2, LocksKept DEF Holding
  <2> QED BY <2>1, <2>2
<1>9. Sealing(p)' /\ job'[p].pc \in Loose
  BY <1>2 DEF Sealing, At, Loose
<1>10. \A i \in Ids : Unlisted(i) /\ (i > made \/ \E q \in Proc : At(q, "record") /\ job[q].id = i)
                        => Unlisted(i)'
  <2>1. \A i \in Ids : NoStatus[i] = "none"
    BY DEF NoStatus
  <2> QED BY <1>1, <1>2, <1>4, <2>1 DEF Unlisted
<1> QED BY <1>1, <1>2, <1>3, <1>4, <1>6, <1>7, <1>8, <1>9, <1>10, Quiet

\* cacheStatus, at the end of Verify and of Recover.
LEMMA CacheKeeps ==
  ASSUME BackupInv, NEW p \in Proc, job[p].pc \in {"note", "settle"}, Ended(p), CacheStatus(p),
         UNCHANGED <<store, torn, bounds>>,
         lock' = IF job[p].pc = "settle" THEN lock \ {job[p].id} ELSE lock
  PROVE  BackupInv'
<1> DEFINE pin == IF statusFP = NoKey THEN MasterKey ELSE statusFP
<1>1. /\ (\A q \in Proc \ {p} : job'[q] = job[q]) /\ TypeOK
      /\ job[p].id \in Ids /\ job[p].say \in Statuses /\ Sealing(p)
  BY Finished DEF BackupInv, TypeOK
<1>2. Lookup \/ UNCHANGED keyVars
  BY DEF CacheStatus
<1>3. MasterKey' = MasterKey /\ MasterKey \in KeyOrNone
  BY <1>1, <1>2, Looked
<1>4. /\ statusFP' = pin /\ status' = [status EXCEPT ![job[p].id] = job[p].say]
      /\ stale' = IF job[p].mixed \/ pin # MasterKey
                  THEN stale \cup {job[p].id} ELSE stale \ {job[p].id}
  BY DEF CacheStatus, Noted
<1>5. pin \in KeyOrNone /\ (pin = statusFP \/ statusFP = NoKey)
  BY <1>1, <1>3 DEF TypeOK
<1> HIDE DEF pin
<1>6. statusFP' \in KeyOrNone /\ status' \in [Ids -> Statuses] /\ stale' \subseteq Ids
  BY <1>1, <1>4, <1>5 DEF TypeOK
<1>7. ASSUME NEW i \in Ids, Unlisted(i), i > made \/ \E q \in Proc : At(q, "record") /\ job[q].id = i
      PROVE  status'[i] = "none"
  <2>1. job[p].id <= made /\ \A q \in Proc : At(q, "record") => job[q].id # job[p].id
    BY Apart DEF BackupInv, Numbered, Loose
  <2>2. i # job[p].id
    BY <1>1, <1>7, <2>1, Consts DEF TypeOK
  <2> QED BY <1>1, <1>4, <1>7, <2>2 DEF TypeOK, Unlisted
<1>8. UNCHANGED <<listed, blob, torn>>
  BY DEF store
<1>9. Pinned'
  <2> SUFFICES ASSUME NEW i \in listed \ torn, i \notin stale', status'[i] = "compatible"
               PROVE  \/ blob[i] = pin
                      \/ \E q \in Proc : job'[q].id = i /\ job'[q].pc \in {"stamp", "settle"}
    BY <1>4, <1>8 DEF Pinned
  <2>0. i \in Ids /\ blob[i] # NoKey
    BY <1>1 DEF BackupInv, RecordHasArchive, Stored, TypeOK
  <2>1. CASE i # job[p].id
    <3>1. status[i] = "compatible" /\ i \notin stale
      BY <1>1, <1>4, <2>0, <2>1 DEF TypeOK
    <3>2. \/ blob[i] = statusFP
          \/ \E q \in Proc : job[q].id = i /\ job[q].pc \in {"stamp", "settle"}
      BY <3>1 DEF BackupInv, Pinned
    <3>3. CASE blob[i] = statusFP
      BY <1>5, <2>0, <3>3
    <3>4. ASSUME NEW q \in Proc, job[q].id = i, job[q].pc \in {"stamp", "settle"}
          PROVE  job'[q].id = i /\ job'[q].pc \in {"stamp", "settle"}
      <4>1. q # p
        BY <2>1, <3>4
      <4> QED BY <1>1, <3>4, <4>1
    <3> QED BY <3>2, <3>3, <3>4
  <2>2. CASE i = job[p].id
    <3>1. ~job[p].mixed /\ pin = MasterKey
      BY <1>4, <2>2
    <3>2. job[p].say = "compatible"
      BY <1>1, <1>4, <2>0, <2>2 DEF TypeOK
    <3>3. CASE job[p].pc = "settle"
      BY <1>1, <2>2, <3>1, <3>3 DEF Sealing, At
    <3>4. CASE job[p].pc = "note"
      <4>1. Under(MasterKey, i)
        BY <1>1, <2>2, <3>1, <3>2, <3>4 DEF Sealing, At
      <4>2. blob[i] = MasterKey \/ Stamping(i)
        BY <4>1 DEF Under
      <4>3. ASSUME NEW q \in Proc, job[q].id = i, At(q, "stamp") PROVE job'[q].id = i /\ job'[q].pc = "stamp"
        BY <1>1, <3>4, <4>3 DEF At
      <4> QED BY <3>1, <4>2, <4>3 DEF Stamping
    <3> QED BY <3>3, <3>4
  <2> QED BY <2>1, <2>2
<1> QED BY <1>2, <1>6, <1>7, <1>9, Notes

LEMMA NoteKeeps == ASSUME BackupInv, NEW p \in Proc, Note(p) PROVE BackupInv'
<1>1. job[p].pc = "note" /\ Ended(p) /\ CacheStatus(p) /\ UNCHANGED <<store, lock, torn, bounds>>
  BY DEF Note, At
<1> QED BY <1>1, CacheKeeps

LEMMA RecoverEndsKeeps == ASSUME BackupInv, NEW p \in Proc, RecoverEnds(p) PROVE BackupInv'
<1>1. /\ job[p].pc = "settle" /\ Ended(p) /\ CacheStatus(p) /\ UNCHANGED <<store, torn, bounds>>
      /\ lock' = lock \ {job[p].id}
  BY DEF RecoverEnds, At
<1> QED BY <1>1, CacheKeeps

\* Create's shortcut, for the archive it has just made.
LEMMA WarmCacheKeeps == ASSUME BackupInv, NEW p \in Proc, WarmCache(p) PROVE BackupInv'
<1>1. /\ job[p].pc = "warm" /\ Ended(p) /\ UNCHANGED <<keyVars, store, statusFP, lock, torn, bounds>>
      /\ TypeOK /\ job[p].id \in Ids /\ Sealing(p)
      /\ \A q \in Proc \ {p} : job'[q] = job[q]
  BY Finished DEF WarmCache, At, BackupInv, TypeOK
<1>2. CASE statusFP = job[p].key
  <2>1. /\ status' = [status EXCEPT ![job[p].id] = "compatible"]
        /\ stale' = IF job[p].mixed THEN stale \cup {job[p].id} ELSE stale
    BY <1>2 DEF WarmCache
  <2>2. statusFP' \in KeyOrNone /\ status' \in [Ids -> Statuses] /\ stale' \subseteq Ids
    BY <1>1, <2>1 DEF TypeOK, Statuses
  <2>3. ASSUME NEW i \in Ids, Unlisted(i), i > made \/ \E q \in Proc : At(q, "record") /\ job[q].id = i
        PROVE  status'[i] = "none"
    <3>1. job[p].id <= made /\ \A q \in Proc : At(q, "record") => job[q].id # job[p].id
      BY <1>1, Apart DEF BackupInv, Numbered, Loose
    <3>2. i # job[p].id
      BY <1>1, <2>3, <3>1, Consts DEF TypeOK
    <3> QED BY <1>1, <2>1, <2>3, <3>2 DEF TypeOK, Unlisted
  <2>4. UNCHANGED <<listed, blob, torn, statusFP>>
    BY <1>1 DEF store
  <2>5. Pinned'
    <3> SUFFICES ASSUME NEW i \in listed \ torn, i \notin stale', status'[i] = "compatible"
                 PROVE  \/ blob[i] = statusFP
                        \/ \E q \in Proc : job'[q].id = i /\ job'[q].pc \in {"stamp", "settle"}
      BY <2>4 DEF Pinned
    <3>0. i \in Ids /\ i \notin stale
      BY <1>1, <2>1 DEF TypeOK
    <3>1. \A q \in Proc : job[q].pc \in {"stamp", "settle"} => job'[q] = job[q]
      BY <1>1
    <3>2. CASE i # job[p].id
      <4>1. status[i] = "compatible"
        BY <1>1, <2>1, <3>0, <3>2 DEF TypeOK
      <4> QED BY <3>0, <3>1, <4>1 DEF BackupInv, Pinned
    <3>3. CASE i = job[p].id
      <4>1. job[p].key = MasterKey /\ Under(MasterKey, i)
        BY <1>1, <2>1, <3>3 DEF Sealing, At
      <4> QED BY <1>2, <3>1, <4>1 DEF Under, Stamping, At
    <3> QED BY <3>2, <3>3
  <2> QED BY <1>1, <2>2, <2>3, <2>5, Notes
<1>3. CASE statusFP # job[p].key
  <2>1. UNCHANGED <<status, stale>>
    BY <1>3 DEF WarmCache
  <2>2. UNCHANGED <<listed, blob, torn, statusFP>>
    BY <1>1 DEF store
  <2>3. Pinned'
    <3>1. \A q \in Proc : job[q].pc \in {"stamp", "settle"} => job'[q] = job[q]
      BY <1>1
    <3> QED BY <2>1, <2>2, <3>1 DEF BackupInv, Pinned
  <2>4. statusFP' \in KeyOrNone /\ status' \in [Ids -> Statuses] /\ stale' \subseteq Ids
    BY <1>1, <2>1 DEF TypeOK
  <2> QED BY <1>1, <2>1, <2>3, <2>4, Notes DEF Unlisted
<1> QED BY <1>2, <1>3

LEMMA PublishKeeps == ASSUME BackupInv, NEW p \in Proc, Publish(p) PROVE BackupInv'
<1>1. /\ job[p].pc = "publish" /\ Ended(p) /\ UNCHANGED <<keyVars, store, lock, torn, bounds>>
      /\ TypeOK /\ job[p] \in JobOf /\ Sealing(p)
      /\ \A q \in Proc \ {p} : job'[q] = job[q]
  BY Finished DEF Publish, At, BackupInv, TypeOK, JobOf
<1>2. /\ status' = job[p].map /\ statusFP' = job[p].key
      /\ stale' = IF job[p].mixed THEN Ids ELSE {}
  BY DEF Publish
<1>3. statusFP' \in KeyOrNone /\ status' \in [Ids -> Statuses] /\ stale' \subseteq Ids
  BY <1>1, <1>2 DEF JobOf
<1>4. \A i \in Ids : Unlisted(i) => status'[i] = "none"
  BY <1>2 DEF Unlisted
<1>5. UNCHANGED <<listed, blob, torn>>
  BY <1>1 DEF store
<1>6. Pinned'
  <2> SUFFICES ASSUME NEW i \in listed \ torn, i \notin stale', status'[i] = "compatible"
               PROVE  \/ blob[i] = job[p].key
                      \/ \E q \in Proc : job'[q].id = i /\ job'[q].pc \in {"stamp", "settle"}
    BY <1>2, <1>5 DEF Pinned
  <2>1. i \in Ids /\ ~job[p].mixed
    BY <1>1, <1>2 DEF TypeOK
  <2>2. job[p].key = MasterKey /\ Under(MasterKey, i)
    BY <1>1, <1>2, <2>1 DEF Sealing, At
  <2>3. \A q \in Proc : job[q].pc = "stamp" => job'[q] = job[q]
    BY <1>1
  <2> QED BY <2>2, <2>3 DEF Under, Stamping, At
<1> QED BY <1>1, <1>3, <1>4, <1>6, Notes

-----------------------------------------------------------------------------
(* Steps that change an archive or its record. *)

\* A step of p that changes only archive h, its record and its status: what is
\* left to show is about h and p.
LEMMA Local ==
  ASSUME BackupInv, TypeOK', NEW p \in Proc, NEW h \in Ids,
         MasterKey' = MasterKey, statusFP' = statusFP, stale' = stale,
         made <= made', h <= made', faults' = 0 => faults = 0,
         \A i \in Ids \ {h} :
           /\ i \in listed' <=> i \in listed
           /\ i \in torn' <=> i \in torn
           /\ fp'[i] = fp[i] /\ blob'[i] = blob[i] /\ status'[i] = status[i],
         \A q \in Proc \ {p} : job'[q] = job[q],
         job[p].id = h \/ job[p].pc = "write",
         job'[p].map \in {job[p].map, NoStatus},
         job'[p].id <= made', job'[p].id = h \/ job'[p].pc \in Loose,
         \A q \in Proc \ {p} : At(q, "record") => job[q].id # h,
         Reserved', MutexHeld', Recording(p)',
         \/ h \in listed' <=> h \in listed
         \/ \A q \in Proc \ {p} : job[q].pc \in Holding => job[q].id # h,
         \/ blob'[h] = blob[h]
         \/ \A q \in Proc \ {p} : job[q].pc \in {"stamp", "settle"} => job[q].id # h,
         job'[p].pc = "file" => job'[p].id \notin listed',
         job'[p].pc \in {"rewrite", "stamp", "settle"} => job'[p].id \in listed',
         h \in listed' => Stored(h)',
         faults' = 0 /\ h \notin listed' => (Stored(h) => Unfinished(h))',
         h \in listed' \ torn' =>
           \/ h \in listed \ torn /\ blob'[h] = blob[h] /\ (Stamping(h) => Stamping(h)')
           \/ blob'[h] = MasterKey
           \/ Stamping(h)',
         Sealing(p)',
         h \in listed' \ torn' => fp'[h] \in {NoKey, blob'[h]} \/ Stamping(h)',
         h \in listed' \ (torn' \cup stale) /\ status'[h] = "compatible" =>
           \/ blob'[h] = statusFP
           \/ \E q \in Proc : job'[q].id = h /\ job'[q].pc \in {"stamp", "settle"}
  PROVE  BackupInv'
<1>1. /\ TypeOK /\ Numbered /\ Mutexes /\ RecordHasArchive /\ OrphansOnlyByFault
      /\ FingerprintTrue /\ Pinned
  BY DEF BackupInv
<1>2. made \in Nat /\ made' \in Nat /\ Ids \subseteq Nat /\ \A q \in Proc : job[q].id \in Ids
  BY <1>1, Consts DEF TypeOK
<1>3. Numbered'
  <2>1. ASSUME NEW i \in Ids, i > made' PROVE (Unlisted(i) /\ ~Stored(i))'
    <3>1. i > made /\ i # h
      BY <1>2, <2>1
    <3>2. Unlisted(i) /\ ~Stored(i) /\ NoStatus[i] = "none"
      BY <1>1, <3>1 DEF Numbered, NoStatus
    <3> QED BY <3>1, <3>2 DEF Unlisted, Stored
  <2>2. ASSUME NEW q \in Proc \ {p} PROVE (job[q].id <= made /\ Recording(q))'
    <3>0. job'[q] = job[q] /\ job[q].id <= made /\ Recording(q)
      BY <1>1 DEF Numbered
    <3>1. job'[q] = job[q] /\ job[q].id <= made' /\ Recording(q)
      <4>1. job[q].id \in Nat /\ made \in Nat /\ made' \in Nat /\ made <= made'
        BY <1>2
      <4> QED BY <3>0, <4>1
    <3>2. CASE job[q].pc = "record"
      <4>1. /\ job[q].id # h /\ job[q].id \in Ids /\ Unlisted(job[q].id) /\ Stored(job[q].id)
            /\ \A r \in Proc \ {q} : job[r].id = job[q].id => job[r].pc \in Loose
        BY <1>2, <3>1, <3>2 DEF Recording, At
      <4>2. ASSUME NEW i \in Ids \ {h}, Unlisted(i), Stored(i) PROVE (Unlisted(i) /\ Stored(i))'
        BY <4>2 DEF Unlisted, Stored, NoStatus
      <4>3. \A i \in Ids \ {h} : i = job[q].id => (Unlisted(i) /\ Stored(i))'
        BY <4>1, <4>2
      <4>4. \A r \in Proc \ {q} : job'[r].id = job[q].id => job'[r].pc \in Loose
        BY <4>1
      <4>5. PICK i \in Ids \ {h} : i = job[q].id
        BY <4>1
      <4> QED BY <3>1, <4>3, <4>4, <4>5 DEF Recording
    <3>3. CASE job[q].pc # "record"
      BY <3>1, <3>3 DEF Recording, At
    <3> QED BY <3>2, <3>3
  <2> QED BY <2>1, <2>2 DEF Numbered
<1>4. Mutexes'
  <2>1. ASSUME NEW q \in Proc \ {p}
        PROVE  /\ job'[q].pc = "file" => job'[q].id \notin listed'
               /\ job'[q].pc \in {"rewrite", "stamp", "settle"} => job'[q].id \in listed'
    <3>1. job'[q] = job[q] /\ job[q].id \in Ids
      BY <1>2
    <3>2. /\ job[q].pc = "file" => job[q].id \notin listed
          /\ job[q].pc \in {"rewrite", "stamp", "settle"} => job[q].id \in listed
      BY <1>1 DEF Mutexes, At
    <3>3. CASE job[q].id # h
      BY <3>1, <3>2, <3>3
    <3>4. CASE job[q].id = h
      BY <3>1, <3>2, <3>4 DEF Holding
    <3> QED BY <3>3, <3>4
  <2> QED BY <2>1 DEF Mutexes, At
<1>5. RecordHasArchive'
  <2>1. \A i \in listed' : i \in Ids
    BY DEF TypeOK
  <2> QED BY <1>1, <2>1 DEF RecordHasArchive, Stored
<1>6. OrphansOnlyByFault'
  <2> SUFFICES ASSUME faults' = 0, NEW i \in Ids \ listed', blob'[i] # NoKey PROVE Unfinished(i)'
    BY DEF OrphansOnlyByFault, Stored
  <2>1. CASE i = h
    BY <2>1 DEF Stored
  <2>2. CASE i # h
    <3>1. PICK q \in Proc : job[q].id = i /\ job[q].pc \in {"record", "file"}
      BY <1>1, <2>2 DEF OrphansOnlyByFault, Stored, Unfinished
    <3> QED BY <2>2, <3>1 DEF Unfinished
  <2> QED BY <2>1, <2>2
<1>7. \A i \in Ids \ {h} : Stamping(i) => Stamping(i)'
  BY DEF Stamping, At
<1>8. \A q \in Proc : Sealing(q)'
  <2>1. ASSUME NEW i \in Ids, i \in listed' \ torn'
        PROVE  \/ i \in listed \ torn /\ blob'[i] = blob[i] /\ (Stamping(i) => Stamping(i)')
               \/ blob'[i] = MasterKey
               \/ Stamping(i)'
    <3>1. CASE i # h
      BY <1>7, <2>1, <3>1
    <3>2. CASE i = h
      BY <2>1, <3>2
    <3> QED BY <3>1, <3>2
  <2>2. \A q \in Proc \ {p} : job[q].pc \in {"record", "stamp", "settle"} =>
          blob'[job[q].id] = blob[job[q].id]
    BY <1>2 DEF At
  <2>3. \A q \in Proc \ {p} : Sealing(q)'
    BY <2>1, <2>2, Others
  <2> QED BY <2>3
<1>9. FingerprintTrue'
  <2> SUFFICES ASSUME NEW i \in listed' \ torn' PROVE fp'[i] \in {NoKey, blob'[i]} \/ Stamping(i)'
    BY DEF FingerprintTrue, Stamping
  <2>1. i \in Ids
    BY DEF TypeOK
  <2>2. CASE i # h
    BY <1>1, <1>7, <2>1, <2>2 DEF FingerprintTrue, Stamping
  <2> QED BY <2>2
<1>10. Pinned'
  <2> SUFFICES ASSUME NEW i \in listed' \ (torn' \cup stale), status'[i] = "compatible"
               PROVE  \/ blob'[i] = statusFP
                      \/ \E q \in Proc : job'[q].id = i /\ job'[q].pc \in {"stamp", "settle"}
    BY DEF Pinned
  <2>1. i \in Ids
    BY DEF TypeOK
  <2>2. CASE i # h
    <3>1. \/ blob[i] = statusFP
          \/ \E q \in Proc : job[q].id = i /\ job[q].pc \in {"stamp", "settle"}
      BY <1>1, <2>1, <2>2 DEF Pinned
    <3>2. \A q \in Proc : job[q].id = i /\ job[q].pc \in {"stamp", "settle"} => job'[q] = job[q]
      BY <2>2
    <3> QED BY <2>1, <2>2, <3>1, <3>2
  <2> QED BY <2>2
<1> QED BY <1>3, <1>4, <1>5, <1>6, <1>8, <1>9, <1>10 DEF BackupInv

LEMMA WriteArchiveKeeps == ASSUME BackupInv, NEW p \in Proc, WriteArchive(p) PROVE BackupInv'
<1>1. /\ job[p].pc = "write" /\ Lookup /\ UNCHANGED <<listed, fp, cache, lock, torn>>
      /\ TypeOK /\ Numbered /\ job[p] \in JobOf
  BY DEF WriteArchive, At, BackupInv, TypeOK, JobOf
<1>2. CASE Ended(p) /\ UNCHANGED <<made, blob>> /\ (Works \/ Fault)
  BY <1>1, <1>2, Aborts DEF cache
<1>3. CASE /\ Works /\ Configured /\ made' = made + 1 /\ Sealed(made + 1, MasterKey)
           /\ Does(p, [job[p] EXCEPT !.pc = "record", !.id = made + 1])
  <2>0. made + 1 \in Ids /\ made \in Nat
    <3>1. IsFiniteSet(Writers) /\ p \in Writers
      BY <1>1, Consts, FS_Subset DEF Writers, At
    <3>2. Cardinality(Writers) \in Nat /\ Cardinality(Writers) # 0
      BY <3>1, FS_CardinalityType, FS_EmptySet
    <3>3. made \in Nat /\ made + Cardinality(Writers) <= MaxArchives
      BY <1>1, Consts DEF TypeOK, Numbered, Reserved
    <3> QED BY <3>2, <3>3, Consts DEF Ids
  <2>1. PICK n \in Ids : n = made + 1 /\ made \in Nat
    BY <2>0
  <2>2. Has([job[p] EXCEPT !.pc = "record", !.id = n],
            "record", n, job[p].key, job[p].fp, job[p].say, job[p].map, job[p].mixed)
    <3>1. "record" \in Steps /\ NoKey \in KeyOrNone /\ "none" \in Statuses /\ NoStatus \in [Ids -> Statuses]
      BY DEF Steps, KeyOrNone, Statuses, NoStatus
    <3> HIDE DEF JobOf, Ids, Steps, KeyOrNone, Statuses
    <3> QED BY <1>1, <2>1, <3>1, JobForms
  <2>3. /\ job' \in [Proc -> JobOf] /\ (\A q \in Proc \ {p} : job'[q] = job[q])
        /\ job'[p] = [job[p] EXCEPT !.pc = "record", !.id = n]
    <3>1. [job[p] EXCEPT !.pc = "record", !.id = n] \in JobOf
      BY <2>2 DEF Has
    <3> QED BY <1>1, <1>3, <2>1, <3>1, Moved
  <2>4. job'[p].pc = "record" /\ job'[p].id = n /\ job'[p].map = job[p].map
    BY <2>2, <2>3 DEF Has
  <2>5. MasterKey' = MasterKey /\ {env', vault', cached', MasterKey} \subseteq KeyOrNone
    BY <1>1, Looked
  <2>6. /\ blob' \in [Ids -> KeyOrNone] /\ blob'[n] = MasterKey /\ MasterKey # NoKey
        /\ \A i \in Ids \ {n} : blob'[i] = blob[i]
    BY <1>1, <1>3, <2>1, <2>5 DEF Sealed, TypeOK, Configured
  <2>7. faults' = faults /\ rotations' = rotations /\ made' = n
    BY <1>3, <2>1 DEF Works, bounds
  <2>8. TypeOK'
    <3>1. n \in 1 .. MaxArchives
      BY <2>1 DEF Ids
    <3> QED BY <1>1, <2>3, <2>5, <2>6, <2>7, <3>1 DEF TypeOK, JobOf, cache
  <2>9. Unlisted(n) /\ ~Stored(n) /\ \A q \in Proc : job[q].id <= made /\ job[q].id # n
    <3>1. \A q \in Proc : job[q].id \in Ids /\ job[q].id <= made
      BY <1>1 DEF TypeOK, Numbered
    <3> QED BY <1>1, <2>1, <3>1, Consts DEF Numbered
  <2>10. Reserved'
    <3>1. Writers' = Writers \ {p} /\ p \in Writers
      BY <1>1, <2>3, <2>4, ZenonT(60) DEF Writers, At
    <3>2. IsFiniteSet(Writers)
      BY Consts, FS_Subset DEF Writers
    <3>3. Cardinality(Writers') = Cardinality(Writers) - 1 /\ Cardinality(Writers) \in Nat
      BY <3>1, <3>2, FS_RemoveElement, FS_CardinalityType
    <3>4. made + Cardinality(Writers) <= MaxArchives
      BY <1>1 DEF Numbered, Reserved
    <3> QED BY <2>1, <2>7, <3>3, <3>4, Consts DEF Reserved
  <2>11. MutexHeld'
    BY <1>1, <2>3, <2>4, LocksKept DEF Holding
  <2>12. Recording(p)'
    <3>1. Unlisted(n)'
      <4>1. listed' = listed /\ status' = status
        BY <1>1 DEF cache
      <4>2. \A q \in Proc : job'[q].map = job[q].map
        BY <2>3, <2>4
      <4> QED BY <2>9, <4>1, <4>2 DEF Unlisted
    <3>2. Stored(n)' /\ \A q \in Proc \ {p} : job'[q].id # n
      BY <2>3, <2>6, <2>9 DEF Stored
    <3> QED BY <2>4, <3>1, <3>2 DEF Recording
  <2>13. Sealing(p)'
    <3>1. job'[p].pc = "record" /\ blob'[job'[p].id] = MasterKey'
      BY <2>4, <2>5, <2>6
    <3> QED BY <3>1 DEF Sealing, At
  <2>14. Unfinished(n)'
    BY <2>4 DEF Unfinished
  <2>15. n \notin listed
    BY <2>9 DEF Unlisted
  <2>16. /\ \A i \in Ids \ {n} : /\ i \in listed' <=> i \in listed
                                 /\ i \in torn' <=> i \in torn
                                 /\ fp'[i] = fp[i] /\ blob'[i] = blob[i] /\ status'[i] = status[i]
         /\ statusFP' = statusFP /\ stale' = stale /\ listed' = listed
    BY <1>1, <2>6 DEF cache
  <2>17. made <= made' /\ n <= made'
    BY <2>1, <2>7
  <2> QED BY <1>1, <2>1, <2>3, <2>4, <2>5, <2>7, <2>8, <2>9, <2>10, <2>11, <2>12, <2>13,
             <2>14, <2>15, <2>16, <2>17, Local DEF At
<1> QED BY <1>2, <1>3 DEF WriteArchive

\* Create takes the fingerprint, or fails and the archive is lost to everyone.
LEMMA RecordArchiveKeeps == ASSUME BackupInv, NEW p \in Proc, RecordArchive(p) PROVE BackupInv'
<1>1. /\ job[p].pc = "record" /\ Lookup /\ UNCHANGED <<made, cache, lock>>
      /\ TypeOK /\ job[p] \in JobOf
  BY DEF RecordArchive, At, BackupInv, TypeOK, JobOf
<1>2. PICK h \in Ids : h = job[p].id
  BY <1>1 DEF JobOf
<1>3. /\ Unlisted(h) /\ Stored(h) /\ h <= made /\ made \in Nat /\ Sealing(p) /\ Numbered
      /\ \A q \in Proc \ {p} : job[q].id = h => job[q].pc \in Loose
  BY <1>1, <1>2, Consts DEF BackupInv, TypeOK, Numbered, Recording, At
<1>4. h \notin listed /\ status[h] = "none" /\ \A q \in Proc \ {p} : job[q].id = h => job[q].pc \in Loose
  BY <1>3 DEF Unlisted
<1>5. MasterKey' = MasterKey /\ {env', vault', cached', MasterKey} \subseteq KeyOrNone
  BY <1>1, Looked
<1>6. UNCHANGED <<made, statusFP, status, stale, lock>>
  BY <1>1 DEF cache
<1>7. CASE /\ Works /\ listed' = listed \cup {h} /\ fp' = [fp EXCEPT ![h] = MasterKey]
           /\ torn' = IF job[p].mixed THEN torn \cup {h} ELSE torn
           /\ Does(p, [job[p] EXCEPT !.pc = "warm", !.key = MasterKey]) /\ UNCHANGED blob
  <2>1. PICK k \in KeyOrNone : k = MasterKey
    BY <1>5
  <2>2. Has([job[p] EXCEPT !.pc = "warm", !.key = k],
            "warm", job[p].id, k, job[p].fp, job[p].say, job[p].map, job[p].mixed)
    <3>1. "warm" \in Steps /\ "none" \in Statuses /\ NoStatus \in [Ids -> Statuses] /\ 1 \in Ids
      BY Consts DEF Steps, Statuses, NoStatus
    <3> HIDE DEF JobOf, Ids, Steps, KeyOrNone, Statuses
    <3> QED BY <1>1, <2>1, <3>1, JobForms
  <2>3. /\ job' \in [Proc -> JobOf] /\ (\A q \in Proc \ {p} : job'[q] = job[q])
        /\ job'[p] = [job[p] EXCEPT !.pc = "warm", !.key = k]
    <3>1. [job[p] EXCEPT !.pc = "warm", !.key = k] \in JobOf
      BY <2>2 DEF Has
    <3> QED BY <1>1, <1>7, <2>1, <3>1, Moved
  <2>4. /\ job'[p].pc = "warm" /\ job'[p].id = h /\ job'[p].map = job[p].map /\ job'[p].key = k
        /\ job'[p].mixed <=> job[p].mixed
    BY <1>2, <2>2, <2>3 DEF Has
  <2>5. UNCHANGED <<faults, rotations, blob>>
    BY <1>7 DEF Works, bounds
  <2>6. /\ fp' \in [Ids -> KeyOrNone] /\ fp'[h] = k /\ listed' \subseteq Ids /\ torn' \subseteq Ids
        /\ \A i \in Ids \ {h} : /\ i \in listed' <=> i \in listed
                                /\ i \in torn' <=> i \in torn
                                /\ fp'[i] = fp[i] /\ blob'[i] = blob[i] /\ status'[i] = status[i]
    BY <1>1, <1>6, <1>7, <2>1, <2>5 DEF TypeOK
  <2>7. TypeOK'
    BY <1>1, <1>5, <1>6, <2>3, <2>5, <2>6 DEF TypeOK, JobOf
  <2>8. Reserved'
    <3>1. Writers' \subseteq Writers
      BY <2>3, <2>4 DEF Writers, At
    <3> QED BY <1>6, <3>1, StillReserved
  <2>9. MutexHeld'
    BY <1>1, <1>6, <2>3, <2>4, LocksKept DEF Holding
  <2>10. h \notin torn' => blob'[h] = k
    BY <1>1, <1>2, <1>3, <1>7, <2>1, <2>5 DEF Sealing, At
  <2>11. Recording(p)'
    BY <2>4 DEF Recording, At
  <2>12. Sealing(p)'
    <3>1. Under(k, h)'
      BY <2>10 DEF Under
    <3>2. MasterKey' = k
      BY <1>5, <2>1
    <3> QED BY <2>4, <3>1, <3>2 DEF Sealing, At
  <2>13. Stored(h)'
    BY <1>3, <2>5 DEF Stored
  <2>14. \A q \in Proc \ {p} : job[q].pc \in Holding \cup {"record"} => job[q].id # h
    BY <1>4 DEF Holding, Loose
  <2>15. status'[h] # "compatible" /\ h \in listed'
    BY <1>4, <1>6, <1>7
  <2>16. h \in listed' \ torn' => blob'[h] = MasterKey /\ fp'[h] = blob'[h]
    BY <2>1, <2>6, <2>10
  <2>17. made <= made' /\ h <= made' /\ faults' = faults /\ blob'[h] = blob[h]
    BY <1>3, <1>6, <2>5
  <2>18. /\ job'[p].pc \notin {"file", "rewrite", "stamp", "settle"} /\ job[p].id = h
         /\ job'[p].map \in {job[p].map, NoStatus}
    BY <1>2, <2>4
  <2>19. /\ \A q \in Proc \ {p} : At(q, "record") => job[q].id # h
         /\ \A q \in Proc \ {p} : job[q].pc \in Holding => job[q].id # h
    BY <2>14 DEF At
  <2> QED BY <1>5, <1>6, <2>3, <2>4, <2>6, <2>7, <2>8, <2>9, <2>11, <2>12, <2>13, <2>15, <2>16,
             <2>17, <2>18, <2>19, Local
<1>8. CASE Fault /\ Ended(p) /\ (Dropped(h) \/ UNCHANGED blob) /\ UNCHANGED <<listed, fp, torn>>
  <2>1. /\ job' \in [Proc -> JobOf] /\ (\A q \in Proc \ {p} : job'[q] = job[q])
        /\ Has(job'[p], "idle", 1, NoKey, NoKey, "none", NoStatus, FALSE)
    BY <1>1, <1>8, Finished
  <2>2. job'[p].pc = "idle" /\ job'[p].id = 1 /\ job'[p].map = NoStatus /\ 1 <= made
    BY <1>1, <2>1 DEF Has, TypeOK
  <2>3. /\ faults' \in 0 .. MaxFaults /\ rotations' \in 0 .. MaxRotations
        /\ faults' # 0
    BY <1>1, <1>8, Bounded
  <2>4. /\ blob' \in [Ids -> KeyOrNone]
        /\ \A i \in Ids \ {h} : blob'[i] = blob[i]
    BY <1>1, <1>8 DEF Dropped, TypeOK, KeyOrNone
  <2>5. TypeOK'
    BY <1>1, <1>5, <1>6, <1>8, <2>1, <2>3, <2>4 DEF TypeOK, JobOf
  <2>6. Reserved'
    <3>1. Writers' \subseteq Writers
      BY <2>1, <2>2 DEF Writers, At
    <3> QED BY <1>6, <3>1, StillReserved
  <2>7. MutexHeld'
    BY <1>1, <1>6, <2>1, <2>2, LocksKept DEF Holding
  <2>8. Recording(p)' /\ Sealing(p)' /\ job'[p].pc \in Loose
    BY <2>2 DEF Recording, Sealing, At, Loose
  <2>9. \A q \in Proc \ {p} : job[q].pc \in Holding \cup {"record"} => job[q].id # h
    BY <1>4 DEF Holding, Loose
  <2> QED BY <1>2, <1>3, <1>4, <1>5, <1>6, <1>8, <2>1, <2>2, <2>3, <2>4, <2>5, <2>6, <2>7, <2>8, <2>9,
             Local DEF At, Holding
<1> QED BY <1>2, <1>7, <1>8 DEF RecordArchive

LEMMA DeleteRowKeeps == ASSUME BackupInv, NEW p \in Proc, DeleteRow(p) PROVE BackupInv'
<1>1. /\ job[p].pc = "row" /\ job[p].id \notin lock /\ UNCHANGED <<keyVars, fp, blob, made, cache, torn>>
      /\ TypeOK /\ Numbered /\ Mutexes /\ RecordHasArchive
  BY DEF DeleteRow, At, BackupInv
<1>2. CASE Ended(p) /\ UNCHANGED <<listed, lock>> /\ (Works \/ Fault)
  BY <1>1, <1>2, Aborts DEF cache
<1>3. CASE /\ Works /\ Recorded(job[p].id) /\ listed' = listed \ {job[p].id}
           /\ lock' = lock \cup {job[p].id} /\ Goes(p, "file")
  <2>1. PICK h \in Ids : h = job[p].id
    BY <1>1 DEF TypeOK
  <2>2. /\ job' \in [Proc -> JobOf] /\ (\A q \in Proc \ {p} : job'[q] = job[q])
        /\ Has(job'[p], "file", h, job[p].key, job[p].fp, job[p].say, job[p].map, job[p].mixed)
    <3>1. "file" \in Steps
      BY DEF Steps
    <3> QED BY <1>1, <1>3, <2>1, <3>1, Stepped
  <2>3. job'[p].pc = "file" /\ job'[p].id = h /\ job'[p].map = job[p].map
    BY <2>2 DEF Has
  <2>4. /\ listed' = listed \ {h} /\ lock' = lock \cup {h} /\ h \in listed /\ h \notin lock
        /\ UNCHANGED <<env, vault, cached, fp, blob, made, statusFP, status, stale, torn, faults, rotations>>
    BY <1>1, <1>3, <2>1 DEF Recorded, keyVars, cache, Works, bounds
  <2>5. TypeOK'
    BY <1>1, <2>2, <2>4 DEF TypeOK, JobOf
  <2>6. Reserved'
    <3>1. Writers' \subseteq Writers
      BY <2>2, <2>3 DEF Writers, At
    <3> QED BY <2>4, <3>1, StillReserved
  <2>7. MutexHeld'
    BY <1>1, <2>2, <2>3, <2>4, LockTaken DEF Holding
  <2>8. Recording(p)' /\ Sealing(p)' /\ Unfinished(h)'
    BY <2>3 DEF Recording, Sealing, At, Unfinished
  <2>9. /\ \A q \in Proc \ {p} : At(q, "record") => job[q].id # h
        /\ \A q \in Proc \ {p} : job[q].pc \in Holding => job[q].id # h
    BY <1>1, <2>4 DEF Numbered, Recording, Unlisted, Mutexes, MutexHeld
  <2>10. MasterKey' = MasterKey /\ h <= made /\ made <= made' /\ h <= made' /\ made' \in Nat
    BY <1>1, <2>1, <2>4, Consts DEF MasterKey, Numbered, TypeOK
  <2>11. job'[p].pc \notin {"rewrite", "stamp", "settle"} /\ h \notin listed'
    BY <2>3, <2>4
  <2> QED BY <2>1, <2>2, <2>3, <2>4, <2>5, <2>6, <2>7, <2>8, <2>9, <2>10, <2>11, Local
<1> QED BY <1>2, <1>3 DEF DeleteRow

LEMMA DeleteFileKeeps == ASSUME BackupInv, NEW p \in Proc, DeleteFile(p) PROVE BackupInv'
<1>1. /\ job[p].pc = "file" /\ Ended(p) /\ TypeOK /\ Numbered /\ Mutexes
      /\ UNCHANGED <<keyVars, listed, fp, made, statusFP, stale, torn>>
      /\ lock' = lock \ {job[p].id} /\ status' = [status EXCEPT ![job[p].id] = "none"]
      /\ (Works /\ Dropped(job[p].id)) \/ (Fault /\ UNCHANGED blob)
  BY DEF DeleteFile, At, BackupInv
<1>2. PICK h \in Ids : h = job[p].id
  BY <1>1 DEF TypeOK
<1>3. /\ job' \in [Proc -> JobOf] /\ (\A q \in Proc \ {p} : job'[q] = job[q])
      /\ Has(job'[p], "idle", 1, NoKey, NoKey, "none", NoStatus, FALSE)
  BY <1>1, Finished
<1>4. job'[p].pc = "idle" /\ job'[p].id = 1 /\ job'[p].map = NoStatus /\ 1 <= made
  BY <1>1, <1>3 DEF Has, TypeOK
<1>5. /\ faults' \in 0 .. MaxFaults /\ rotations' \in 0 .. MaxRotations
      /\ faults' = 0 => faults = 0
  BY <1>1, Bounded
<1>6. /\ blob' \in [Ids -> KeyOrNone] /\ status' \in [Ids -> Statuses] /\ lock' \subseteq Ids
      /\ \A i \in Ids \ {h} : blob'[i] = blob[i] /\ status'[i] = status[i]
      /\ UNCHANGED <<env, vault, cached, listed, fp, made, statusFP, stale, torn>>
  BY <1>1, <1>2 DEF Dropped, TypeOK, KeyOrNone, Statuses, keyVars
<1>7. TypeOK'
  BY <1>1, <1>3, <1>5, <1>6 DEF TypeOK, JobOf
<1>8. Reserved'
  <2>1. Writers' \subseteq Writers
    BY <1>3, <1>4 DEF Writers, At
  <2> QED BY <1>6, <2>1, StillReserved
<1>9. MutexHeld'
  BY <1>1, <1>3, <1>4, LockReleased DEF Holding
<1>10. Recording(p)' /\ Sealing(p)' /\ job'[p].pc \in Loose
  BY <1>4 DEF Recording, Sealing, At, Loose
<1>11. /\ \A q \in Proc \ {p} : At(q, "record") => job[q].id # h
       /\ \A q \in Proc \ {p} : job[q].pc \in Holding => job[q].id # h
  <2>1. job[p].pc \notin Loose \cup {"record"} /\ job[p].pc \in Holding
    BY <1>1 DEF Loose, Holding
  <2>2. \A q \in Proc : At(q, "record") => job[q].id # job[p].id
    BY <2>1, Apart
  <2>3. \A q \in Proc \ {p} : job[q].pc \in Holding => job[q].id # job[p].id
    BY <1>1, <2>1 DEF Mutexes, MutexHeld
  <2> QED BY <1>2, <2>2, <2>3
<1>12. MasterKey' = MasterKey /\ made <= made' /\ h <= made'
  BY <1>1, <1>2, <1>6, Consts DEF MasterKey, Numbered, TypeOK
<1>13. h \notin listed' /\ job'[p].pc \notin {"file", "rewrite", "stamp", "settle"}
  BY <1>1, <1>2, <1>4, <1>6 DEF Mutexes, At
<1>14. faults' = 0 => ~Stored(h)'
  <2>1. CASE Works /\ Dropped(job[p].id)
    BY <1>1, <1>2, <2>1 DEF Dropped, Stored, TypeOK
  <2>2. CASE Fault
    BY <1>1, <2>2, Bounded
  <2> QED BY <1>1, <2>1, <2>2
<1>15. \/ blob'[h] = blob[h]
       \/ \A q \in Proc \ {p} : job[q].pc \in {"stamp", "settle"} => job[q].id # h
  BY <1>11 DEF Holding
<1> QED BY <1>2, <1>3, <1>4, <1>5, <1>6, <1>7, <1>8, <1>9, <1>10, <1>11, <1>12, <1>13, <1>14, <1>15, Local

\* Verify writes its record back.
LEMMA BackfillKeeps == ASSUME BackupInv, NEW p \in Proc, Backfill(p) PROVE BackupInv'
<1>1. /\ job[p].pc = "backfill" /\ Goes(p, "note") /\ TypeOK /\ Numbered /\ Sealing(p)
      /\ UNCHANGED <<keyVars, listed, blob, made, cache, lock>> /\ (Works \/ Fault)
  BY DEF Backfill, At, BackupInv
<1>2. PICK h \in Ids : h = job[p].id
  BY <1>1 DEF TypeOK
<1>3. /\ job' \in [Proc -> JobOf] /\ (\A q \in Proc \ {p} : job'[q] = job[q])
      /\ Has(job'[p], "note", h, job[p].key, job[p].fp, job[p].say, job[p].map, job[p].mixed)
  <2>1. "note" \in Steps
    BY DEF Steps
  <2> QED BY <1>1, <1>2, <2>1, Stepped
<1>4. /\ job'[p].pc = "note" /\ job'[p].id = h /\ job'[p].map = job[p].map
      /\ job'[p].mixed <=> job[p].mixed
  BY <1>3 DEF Has
<1>5. /\ faults' \in 0 .. MaxFaults /\ rotations' \in 0 .. MaxRotations
      /\ faults' = 0 => faults = 0
  BY <1>1, Bounded
<1>6. UNCHANGED <<env, vault, cached, listed, blob, made, statusFP, status, stale, lock>>
  BY <1>1 DEF keyVars, cache
<1>7. \/ /\ fp' = [fp EXCEPT ![h] = job[p].fp]
         /\ torn' = IF job[p].mixed THEN torn \cup {h} ELSE torn
      \/ UNCHANGED <<fp, torn>>
  BY <1>2 DEF Backfill
<1>8. /\ fp' \in [Ids -> KeyOrNone] /\ torn' \subseteq Ids /\ torn \subseteq torn'
      /\ \A i \in Ids \ {h} : fp'[i] = fp[i] /\ (i \in torn' <=> i \in torn)
  <2>1. job[p].fp \in KeyOrNone
    BY <1>1 DEF TypeOK
  <2> QED BY <1>1, <1>7, <2>1 DEF TypeOK
<1>9. TypeOK'
  BY <1>1, <1>3, <1>5, <1>6, <1>8 DEF TypeOK, JobOf
<1>10. Reserved'
  <2>1. Writers' \subseteq Writers
    BY <1>3, <1>4 DEF Writers, At
  <2> QED BY <1>6, <2>1, StillReserved
<1>11. MutexHeld'
  BY <1>1, <1>3, <1>4, <1>6, LocksKept DEF Holding
<1>12. \A i : Stamping(i) => Stamping(i)'
  BY <1>1, <1>3 DEF Stamping, At
<1>13. MasterKey' = MasterKey /\ made <= made' /\ h <= made' /\ Recording(p)'
  BY <1>1, <1>2, <1>4, <1>6, Consts DEF MasterKey, Numbered, TypeOK, Recording, At
<1>14. Sealing(p)'
  <2>1. ~job[p].mixed => Under(MasterKey, h)
    BY <1>1, <1>2 DEF Sealing, At
  <2>2. Under(MasterKey, h) => Under(MasterKey, h)'
    BY <1>6, <1>8, <1>12, <1>13 DEF Under
  <2> QED BY <1>4, <2>1, <2>2 DEF Sealing, At
<1>15. \A q \in Proc \ {p} : At(q, "record") => job[q].id # h
  <2>1. job[p].pc \notin Loose \cup {"record"}
    BY <1>1 DEF Loose
  <2> QED BY <1>2, <2>1, Apart
<1>16. h \in listed' => Stored(h)'
  BY <1>6 DEF BackupInv, RecordHasArchive, Stored
<1>17. faults' = 0 /\ h \notin listed' => (Stored(h) => Unfinished(h))'
  <2> SUFFICES ASSUME faults = 0, h \notin listed, blob[h] # NoKey PROVE Unfinished(h)'
    BY <1>5, <1>6 DEF Stored
  <2>1. PICK q \in Proc : job[q].id = h /\ job[q].pc \in {"record", "file"}
    BY DEF BackupInv, OrphansOnlyByFault, Stored, Unfinished
  <2>2. job'[q] = job[q]
    BY <1>1, <1>3, <2>1
  <2> QED BY <2>1, <2>2 DEF Unfinished
<1>18. h \in listed' \ torn' => fp'[h] \in {NoKey, blob'[h]} \/ Stamping(h)'
  <2> SUFFICES ASSUME h \in listed \ torn, h \notin torn' PROVE fp'[h] \in {NoKey, blob[h]} \/ Stamping(h)
    BY <1>6, <1>8, <1>12
  <2>1. CASE fp' = fp
    BY <2>1 DEF BackupInv, FingerprintTrue, Stamping
  <2>2. CASE fp' = [fp EXCEPT ![h] = job[p].fp] /\ ~job[p].mixed
    <3>1. fp'[h] = MasterKey /\ Under(MasterKey, h)
      BY <1>1, <1>2, <2>2 DEF Sealing, At, TypeOK
    <3> QED BY <3>1 DEF Under
  <2> QED BY <1>7, <2>1, <2>2
<1>19. h \in listed' \ (torn' \cup stale) /\ status'[h] = "compatible" =>
         \/ blob'[h] = statusFP
         \/ \E q \in Proc : job'[q].id = h /\ job'[q].pc \in {"stamp", "settle"}
  <2> SUFFICES ASSUME h \in listed \ (torn \cup stale), status[h] = "compatible"
               PROVE  \/ blob[h] = statusFP
                      \/ \E q \in Proc : job'[q].id = h /\ job'[q].pc \in {"stamp", "settle"}
    BY <1>6, <1>8
  <2>1. \/ blob[h] = statusFP
        \/ \E q \in Proc : job[q].id = h /\ job[q].pc \in {"stamp", "settle"}
    BY DEF BackupInv, Pinned
  <2>2. \A q \in Proc : job[q].pc \in {"stamp", "settle"} => job'[q] = job[q]
    BY <1>1, <1>3
  <2> QED BY <2>1, <2>2
<1>20. h \in listed' \ torn' =>
         h \in listed \ torn /\ blob'[h] = blob[h] /\ (Stamping(h) => Stamping(h)')
  BY <1>6, <1>8, <1>12
<1>21. job'[p].pc \notin {"file", "rewrite", "stamp", "settle"}
  BY <1>4
<1>22. \A i \in Ids \ {h} :
         /\ i \in listed' <=> i \in listed
         /\ i \in torn' <=> i \in torn
         /\ fp'[i] = fp[i] /\ blob'[i] = blob[i] /\ status'[i] = status[i]
  BY <1>6, <1>8
<1>23. /\ job[p].id = h /\ job'[p].map = job[p].map /\ job'[p].id = h /\ blob'[h] = blob[h]
       /\ statusFP' = statusFP /\ stale' = stale /\ (h \in listed' <=> h \in listed)
  BY <1>2, <1>4, <1>6
<1> QED BY <1>3, <1>5, <1>9, <1>10, <1>11, <1>13, <1>14, <1>15, <1>16, <1>17, <1>18, <1>19, <1>20,
           <1>21, <1>22, <1>23, Local

\* Recover, under the mutex: the archive, then the record.
LEMMA RewriteArchiveKeeps == ASSUME BackupInv, NEW p \in Proc, RewriteArchive(p) PROVE BackupInv'
<1>1. /\ job[p].pc = "rewrite" /\ Lookup /\ UNCHANGED <<listed, fp, made, cache, torn>>
      /\ TypeOK /\ Numbered /\ Mutexes
  BY DEF RewriteArchive, At, BackupInv
<1>2. CASE RecoverFails(p) /\ UNCHANGED blob /\ (Works \/ Fault)
  BY <1>1, <1>2, Aborts DEF cache, RecoverFails
<1>3. CASE Works /\ Configured /\ Goes(p, "stamp") /\ Sealed(job[p].id, MasterKey) /\ UNCHANGED lock
  <2>1. PICK h \in Ids : h = job[p].id
    BY <1>1 DEF TypeOK
  <2>2. /\ job' \in [Proc -> JobOf] /\ (\A q \in Proc \ {p} : job'[q] = job[q])
        /\ Has(job'[p], "stamp", h, job[p].key, job[p].fp, job[p].say, job[p].map, job[p].mixed)
    <3>1. "stamp" \in Steps
      BY DEF Steps
    <3> QED BY <1>1, <1>3, <2>1, <3>1, Stepped
  <2>3. job'[p].pc = "stamp" /\ job'[p].id = h /\ job'[p].map = job[p].map
    BY <2>2 DEF Has
  <2>4. MasterKey' = MasterKey /\ {env', vault', cached', MasterKey} \subseteq KeyOrNone
    BY <1>1, Looked
  <2>5. UNCHANGED <<listed, fp, made, statusFP, status, stale, torn, lock, faults, rotations>>
    BY <1>1, <1>3 DEF cache, Works, bounds
  <2>6. /\ blob' \in [Ids -> KeyOrNone] /\ blob'[h] = MasterKey /\ MasterKey # NoKey
        /\ \A i \in Ids \ {h} : blob'[i] = blob[i]
    BY <1>1, <1>3, <2>1, <2>4 DEF Sealed, TypeOK, Configured
  <2>7. TypeOK'
    BY <1>1, <2>2, <2>4, <2>5, <2>6 DEF TypeOK, JobOf
  <2>8. Reserved'
    <3>1. Writers' \subseteq Writers
      BY <2>2, <2>3 DEF Writers, At
    <3> QED BY <2>5, <3>1, StillReserved
  <2>9. MutexHeld'
    BY <1>1, <2>1, <2>2, <2>3, <2>5, LocksKept DEF Holding
  <2>10. Recording(p)' /\ Stored(h)' /\ Stamping(h)'
    BY <2>3, <2>6 DEF Recording, At, Stored, Stamping
  <2>11. Sealing(p)'
    <3>1. job'[p].pc = "stamp" /\ blob'[job'[p].id] = MasterKey'
      BY <2>3, <2>4, <2>6
    <3> QED BY <3>1 DEF Sealing, At
  <2>12. h \in listed /\ \A q \in Proc \ {p} : job[q].pc \in {"stamp", "settle"} => job[q].id # h
    BY <1>1, <2>1 DEF Mutexes, MutexHeld, Holding
  <2>13. \A q \in Proc \ {p} : At(q, "record") => job[q].id # h
    BY <1>1, <2>12 DEF Numbered, Recording, Unlisted
  <2>14. made <= made' /\ h <= made' /\ job'[p].pc # "file"
    BY <1>1, <2>1, <2>3, <2>5, Consts DEF Numbered, TypeOK
  <2> QED BY <2>1, <2>2, <2>3, <2>4, <2>5, <2>6, <2>7, <2>8, <2>9, <2>10, <2>11, <2>12, <2>13, <2>14,
             Local
<1> QED BY <1>2, <1>3 DEF RewriteArchive

LEMMA StampKeeps == ASSUME BackupInv, NEW p \in Proc, Stamp(p) PROVE BackupInv'
<1>1. /\ job[p].pc = "stamp" /\ Lookup /\ UNCHANGED <<listed, blob, made, cache>>
      /\ TypeOK /\ Numbered /\ Mutexes /\ Sealing(p) /\ RecordHasArchive /\ job[p] \in JobOf
  BY DEF Stamp, At, BackupInv, TypeOK, JobOf
<1>2. PICK h \in Ids : h = job[p].id
  BY <1>1 DEF TypeOK
<1>3. MasterKey' = MasterKey /\ {env', vault', cached', MasterKey} \subseteq KeyOrNone
  BY <1>1, Looked
<1>4. UNCHANGED <<listed, blob, made, statusFP, status, stale>>
  BY <1>1 DEF cache
<1>5. h \in listed /\ h <= made /\ made \in Nat /\ Stored(h)
  BY <1>1, <1>2, Consts DEF Mutexes, Numbered, RecordHasArchive, TypeOK
<1>6. \A q \in Proc \ {p} : At(q, "record") => job[q].id # h
  BY <1>1, <1>5 DEF Numbered, Recording, Unlisted
<1>7. CASE /\ Works /\ Does(p, [job[p] EXCEPT !.pc = "settle", !.say = "compatible"])
           /\ fp' = [fp EXCEPT ![h] = MasterKey]
           /\ torn' = IF job[p].mixed THEN torn \cup {h} ELSE torn \ {h}
           /\ UNCHANGED lock
  <2>1. Has([job[p] EXCEPT !.pc = "settle", !.say = "compatible"],
            "settle", job[p].id, job[p].key, job[p].fp, "compatible", job[p].map, job[p].mixed)
    <3>1. /\ "settle" \in Steps /\ "compatible" \in Statuses /\ NoStatus \in [Ids -> Statuses]
          /\ 1 \in Ids /\ NoKey \in KeyOrNone
      BY Consts DEF Steps, Statuses, NoStatus, KeyOrNone
    <3> HIDE DEF JobOf, Ids, Steps, KeyOrNone, Statuses
    <3> QED BY <1>1, <3>1, JobForms
  <2>2. /\ job' \in [Proc -> JobOf] /\ (\A q \in Proc \ {p} : job'[q] = job[q])
        /\ job'[p] = [job[p] EXCEPT !.pc = "settle", !.say = "compatible"]
    <3>1. [job[p] EXCEPT !.pc = "settle", !.say = "compatible"] \in JobOf
      BY <2>1 DEF Has
    <3> QED BY <1>1, <1>7, <3>1, Moved
  <2>3. /\ job'[p].pc = "settle" /\ job'[p].id = h /\ job'[p].map = job[p].map
        /\ job'[p].mixed <=> job[p].mixed
    BY <1>2, <2>1, <2>2 DEF Has
  <2>4. UNCHANGED <<lock, faults, rotations>>
    BY <1>7 DEF Works, bounds
  <2>5. /\ fp' \in [Ids -> KeyOrNone] /\ torn' \subseteq Ids /\ fp'[h] = MasterKey
        /\ \A i \in Ids \ {h} : fp'[i] = fp[i] /\ (i \in torn' <=> i \in torn)
    BY <1>1, <1>3, <1>7 DEF TypeOK
  <2>6. TypeOK'
    BY <1>1, <1>3, <1>4, <2>2, <2>4, <2>5 DEF TypeOK, JobOf
  <2>7. Reserved'
    <3>1. Writers' \subseteq Writers
      BY <2>2, <2>3 DEF Writers, At
    <3> QED BY <1>4, <3>1, StillReserved
  <2>8. MutexHeld'
    BY <1>1, <1>2, <2>2, <2>3, <2>4, LocksKept DEF Holding
  <2>9. ~job[p].mixed => blob[h] = MasterKey
    BY <1>1, <1>2 DEF Sealing, At
  <2>10. h \in listed' \ torn' => blob'[h] = MasterKey /\ fp'[h] = blob'[h]
    BY <1>4, <1>7, <2>5, <2>9
  <2>11. Sealing(p)'
    <3>1. ~job'[p].mixed => job'[p].pc = "settle" /\ blob'[job'[p].id] = MasterKey'
      BY <1>3, <1>4, <2>3, <2>9
    <3> QED BY <2>3, <3>1 DEF Sealing, At
  <2>12. Recording(p)' /\ Stored(h)' /\ h \in listed' /\ made <= made' /\ h <= made'
    BY <1>4, <1>5, <2>3 DEF Recording, At, Stored
  <2>13. \E q \in Proc : job'[q].id = h /\ job'[q].pc \in {"stamp", "settle"}
    BY <2>3
  <2>14. \A i \in Ids \ {h} :
           /\ i \in listed' <=> i \in listed
           /\ i \in torn' <=> i \in torn
           /\ fp'[i] = fp[i] /\ blob'[i] = blob[i] /\ status'[i] = status[i]
    BY <1>4, <2>5
  <2> QED BY <1>2, <1>3, <1>4, <1>6, <2>2, <2>3, <2>4, <2>6, <2>7, <2>8, <2>10, <2>11, <2>12, <2>13,
             <2>14, Local
<1>8. CASE Fault /\ RecoverFails(p) /\ torn' = torn \cup {h} /\ UNCHANGED fp
  <2>1. /\ job' \in [Proc -> JobOf] /\ (\A q \in Proc \ {p} : job'[q] = job[q])
        /\ Has(job'[p], "idle", 1, NoKey, NoKey, "none", NoStatus, FALSE)
    BY <1>1, <1>8, Finished DEF RecoverFails
  <2>2. job'[p].pc = "idle" /\ job'[p].id = 1 /\ job'[p].map = NoStatus /\ 1 <= made
    BY <1>1, <2>1 DEF Has, TypeOK
  <2>3. /\ faults' \in 0 .. MaxFaults /\ rotations' \in 0 .. MaxRotations /\ faults' # 0
    BY <1>1, <1>8, Bounded
  <2>4. lock' = lock \ {job[p].id} /\ lock' \subseteq Ids /\ torn' \subseteq Ids
    BY <1>1, <1>8 DEF RecoverFails, TypeOK
  <2>5. TypeOK'
    BY <1>1, <1>3, <1>4, <1>8, <2>1, <2>3, <2>4 DEF TypeOK, JobOf
  <2>6. Reserved'
    <3>1. Writers' \subseteq Writers
      BY <2>1, <2>2 DEF Writers, At
    <3> QED BY <1>4, <3>1, StillReserved
  <2>7. MutexHeld'
    BY <1>1, <2>1, <2>2, <2>4, LockReleased DEF Holding
  <2>8. Recording(p)' /\ Sealing(p)' /\ job'[p].pc \in Loose
    BY <2>2 DEF Recording, Sealing, At, Loose
  <2>9. h \in torn' /\ Stored(h)' /\ h \in listed' /\ made <= made' /\ h <= made' /\ 1 <= made'
    BY <1>4, <1>5, <1>8, <2>2 DEF Stored
  <2>10. \A i \in Ids \ {h} :
           /\ i \in listed' <=> i \in listed
           /\ i \in torn' <=> i \in torn
           /\ fp'[i] = fp[i] /\ blob'[i] = blob[i] /\ status'[i] = status[i]
    BY <1>4, <1>8
  <2> QED BY <1>2, <1>3, <1>4, <1>6, <2>1, <2>2, <2>3, <2>5, <2>6, <2>7, <2>8, <2>9, <2>10, Local
<1> QED BY <1>2, <1>7, <1>8 DEF Stamp

-----------------------------------------------------------------------------
(* The key moves, Swirl restarts. *)

LEMMA KeyMovesKeeps ==
  ASSUME BackupInv, KeyMoves, UNCHANGED <<store, cache, lock, torn, faults>>,
         rotations' \in 0 .. MaxRotations, {env', vault', cached'} \subseteq KeyOrNone
  PROVE  BackupInv'
<1>1. /\ TypeOK /\ Numbered /\ Mutexes /\ RecordHasArchive /\ OrphansOnlyByFault
      /\ FingerprintTrue /\ Pinned
  BY DEF BackupInv
<1>2. job \in [Proc -> JobOf] /\ IsFiniteSet(Proc)
  BY <1>1, Consts DEF TypeOK, JobOf
<1>3. \A q \in Proc :
        /\ job'[q] \in JobOf
        /\ job'[q].pc = job[q].pc /\ job'[q].id = job[q].id /\ job'[q].key = job[q].key
        /\ job'[q].fp = job[q].fp /\ job'[q].say = job[q].say /\ job'[q].map = job[q].map
        /\ job'[q].mixed <=> job[q].pc # "idle" /\ (job[q].mixed \/ MasterKey' # MasterKey)
  <2> SUFFICES ASSUME NEW q \in Proc, NEW n, n = job'[q]
               PROVE  /\ n \in JobOf
                      /\ n.pc = job[q].pc /\ n.id = job[q].id /\ n.key = job[q].key
                      /\ n.fp = job[q].fp /\ n.say = job[q].say /\ n.map = job[q].map
                      /\ n.mixed <=> job[q].pc # "idle" /\ (job[q].mixed \/ MasterKey' # MasterKey)
    OBVIOUS
  <2>1. PICK b \in BOOLEAN : b <=> job[q].pc # "idle" /\ (job[q].mixed \/ MasterKey' # MasterKey)
    OBVIOUS
  <2>2. n = [job[q] EXCEPT !.mixed = ~At(q, "idle") /\ (@ \/ MasterKey' # MasterKey)]
    BY DEF KeyMoves
  <2>3. job[q] \in JobOf
    BY <1>2
  <2>4. (job[q].pc # "idle" /\ (job[q].mixed \/ MasterKey' # MasterKey)) = b
    BY <2>1, <2>3 DEF JobOf
  <2>5. n = [job[q] EXCEPT !.mixed = b]
    BY <2>2, <2>3, <2>4 DEF At, JobOf
  <2> HIDE DEF Ids, Steps, KeyOrNone, Statuses
  <2> QED BY <2>1, <2>3, <2>5 DEF JobOf
<1>4. job' \in [Proc -> JobOf]
  <2>1. job' = [q \in Proc |-> job'[q]]
    BY DEF KeyMoves
  <2> HIDE DEF JobOf
  <2> QED BY <1>3, <2>1
<1>5. UNCHANGED <<listed, fp, blob, made, statusFP, status, stale, lock, torn, faults>>
  BY DEF store, cache
<1>6. TypeOK'
  BY <1>1, <1>4, <1>5 DEF TypeOK, JobOf
<1>7. Numbered'
  <2>1. Writers' = Writers
    BY <1>3 DEF Writers, At
  <2>2. Reserved'
    BY <1>1, <1>5, <2>1 DEF Numbered, Reserved
  <2>3. \A i : (Unlisted(i) <=> Unlisted(i)') /\ (Stored(i) <=> Stored(i)')
    BY <1>3, <1>5 DEF Unlisted, Stored
  <2>4. ASSUME NEW q \in Proc PROVE (job[q].id <= made /\ Recording(q))'
    <3>1. job[q].id <= made /\ Recording(q)
      BY <1>1 DEF Numbered
    <3>2. PICK h \in Ids : h = job[q].id
      BY <1>2 DEF JobOf
    <3>3. Recording(q)'
      <4> SUFFICES ASSUME job'[q].pc = "record"
                   PROVE  /\ Unlisted(h)' /\ Stored(h)'
                          /\ \A r \in Proc \ {q} : job'[r].id = h => job'[r].pc \in Loose
        BY <1>3, <3>2 DEF Recording, At
      <4>1. /\ Unlisted(h) /\ Stored(h)
            /\ \A r \in Proc \ {q} : job[r].id = h => job[r].pc \in Loose
        BY <1>3, <3>1, <3>2 DEF Recording, At
      <4> QED BY <1>3, <2>3, <4>1
    <3> QED BY <1>3, <1>5, <3>1, <3>3
  <2> QED BY <1>1, <1>5, <2>2, <2>3, <2>4 DEF Numbered
<1>8. Mutexes'
  <2>1. MutexHeld'
    <3> HIDE DEF Holding
    <3>1. \A q \in Proc : job'[q].pc \in Holding => job'[q].id \in lock'
      BY <1>1, <1>3, <1>5 DEF Mutexes, MutexHeld
    <3>2. \A q, r \in Proc : q # r /\ {job'[q].pc, job'[r].pc} \subseteq Holding => job'[q].id # job'[r].id
      BY <1>1, <1>3 DEF Mutexes, MutexHeld
    <3>3. \A i \in lock' : \E q \in Proc : job'[q].id = i /\ job'[q].pc \in Holding
      BY <1>1, <1>3, <1>5 DEF Mutexes, MutexHeld
    <3> QED BY <3>1, <3>2, <3>3 DEF MutexHeld
  <2> QED BY <1>1, <1>3, <1>5, <2>1 DEF Mutexes, At
<1>9. \A i : Stamping(i) <=> Stamping(i)'
  BY <1>3 DEF Stamping, At
<1>10. \A q \in Proc : Sealing(q)'
  <2> SUFFICES ASSUME NEW q \in Proc, ~job'[q].mixed PROVE Sealing(q)'
    BY DEF Sealing
  <2>1. CASE job[q].pc = "idle"
    BY <1>3, <2>1 DEF Sealing, At
  <2>2. CASE ~job[q].mixed /\ MasterKey' = MasterKey
    <3>1. \A k : \A i \in Ids : Under(k, i) => Under(k, i)'
      BY <1>5, <1>9, <2>2 DEF Under
    <3>2. Sealing(q)
      BY DEF BackupInv
    <3>3. PICK h \in Ids : h = job[q].id
      BY <1>2 DEF JobOf
    <3>4. /\ job[q].pc \in {"record", "stamp", "settle"} => blob[h] = MasterKey
          /\ job[q].pc = "probe" => job[q].fp = NoKey \/ Under(job[q].fp, h)
          /\ job[q].pc = "try" => job[q].key = MasterKey
          /\ job[q].pc = "backfill" => job[q].key = MasterKey /\ job[q].fp = MasterKey
          /\ job[q].pc = "warm" => job[q].key = MasterKey
          /\ job[q].pc \in {"backfill", "warm"} => Under(MasterKey, h)
          /\ job[q].pc = "note" /\ job[q].say = "compatible" => Under(MasterKey, h)
          /\ job[q].pc = "publish" =>
               /\ job[q].key = MasterKey
               /\ \A i \in Ids : job[q].map[i] = "compatible" => Under(MasterKey, i)
      BY <2>2, <3>2, <3>3 DEF Sealing, At
    <3>5. PICK k \in KeyOrNone : k = job[q].fp
      BY <1>2 DEF JobOf
    <3>6. PICK m : m = MasterKey
      OBVIOUS
    <3>7. /\ job[q].pc = "probe" => k = NoKey \/ Under(k, h)'
          /\ job[q].pc \in {"backfill", "warm"} => Under(m, h)'
          /\ job[q].pc = "note" /\ job[q].say = "compatible" => Under(m, h)'
          /\ job[q].pc = "publish" =>
               \A i \in Ids : job[q].map[i] = "compatible" => Under(m, i)'
      BY <3>1, <3>4, <3>5, <3>6
    <3>8. job'[q].id = h /\ job'[q].fp = k /\ MasterKey' = m
      BY <1>3, <2>2, <3>3, <3>5, <3>6
    <3> QED BY <1>3, <1>5, <3>4, <3>6, <3>7, <3>8 DEF Sealing, At
  <2> QED BY <1>3, <2>1, <2>2
<1>11. RecordHasArchive' /\ OrphansOnlyByFault'
  <2>1. \A i : (Unfinished(i) <=> Unfinished(i)') /\ (Stored(i) <=> Stored(i)')
    BY <1>3, <1>5 DEF Unfinished, Stored
  <2> QED BY <1>1, <1>5, <2>1 DEF RecordHasArchive, OrphansOnlyByFault
<1>12. FingerprintTrue'
  <2>1. \A i \in listed \ torn : fp[i] \in {NoKey, blob[i]} \/ Stamping(i)
    BY <1>1 DEF FingerprintTrue, Stamping
  <2>2. \A i \in listed \ torn : fp'[i] \in {NoKey, blob'[i]} \/ Stamping(i)'
    BY <1>5, <1>9, <2>1
  <2> QED BY <1>5, <2>2 DEF FingerprintTrue, Stamping
<1>13. Pinned'
  <2>1. \A q \in Proc : job'[q].pc = job[q].pc /\ job'[q].id = job[q].id
    BY <1>3
  <2> QED BY <1>1, <1>5, <2>1 DEF Pinned
<1> QED BY <1>6, <1>7, <1>8, <1>10, <1>11, <1>12, <1>13 DEF BackupInv

LEMMA RotateKeeps == ASSUME BackupInv, Rotate PROVE BackupInv'
<1>1. rotations' \in 0 .. MaxRotations /\ {env', vault', cached'} \subseteq KeyOrNone
  BY Consts DEF BackupInv, TypeOK, Rotate
<1>2. KeyMoves /\ UNCHANGED <<store, cache, lock, torn, faults>>
  BY DEF Rotate
<1> QED BY <1>1, <1>2, KeyMovesKeeps

LEMMA CacheExpiresKeeps == ASSUME BackupInv, CacheExpires PROVE BackupInv'
<1>1. rotations' \in 0 .. MaxRotations /\ {env', vault', cached'} \subseteq KeyOrNone
  BY DEF BackupInv, TypeOK, CacheExpires, bounds, KeyOrNone
<1>2. KeyMoves /\ UNCHANGED <<store, cache, lock, torn, faults>>
  BY DEF CacheExpires, bounds
<1> QED BY <1>1, <1>2, KeyMovesKeeps

\* The handlers are gone, and so are the cache and the mutexes.
LEMMA RestartKeeps == ASSUME BackupInv, Restart PROVE BackupInv'
<1>1. /\ TypeOK /\ Numbered /\ RecordHasArchive /\ FingerprintTrue
  BY DEF BackupInv
<1>2. /\ UNCHANGED <<vault, listed, fp, blob, made>> /\ cached' = NoKey
      /\ statusFP' = NoKey /\ status' = NoStatus /\ stale' = {} /\ lock' = {}
      /\ job' = [p \in Proc |-> Idle]
      /\ torn' = torn \cup {job[p].id : p \in {q \in Proc : At(q, "stamp")}}
  BY DEF Restart, store
<1>3. job' \in [Proc -> JobOf]
      /\ \A q \in Proc : Has(job'[q], "idle", 1, NoKey, NoKey, "none", NoStatus, FALSE)
  <2>1. Idle \in JobOf
    BY IdleHas DEF Has
  <2> HIDE DEF JobOf, Idle
  <2> QED BY <1>2, <2>1, IdleHas
<1>4. \A q \in Proc : /\ job'[q].pc = "idle" /\ job'[q].id = 1 /\ job'[q].map = NoStatus
  BY <1>3 DEF Has
<1>5. made \in Nat /\ 1 <= made /\ made <= MaxArchives /\ \A i \in Ids : NoStatus[i] = "none"
  BY <1>1, Consts DEF TypeOK, NoStatus
<1>6. TypeOK'
  <2>1. faults' \in 0 .. MaxFaults /\ rotations' \in 0 .. MaxRotations /\ env' \in KeyOrNone
    BY <1>1, Consts DEF Restart, TypeOK
  <2>2. torn' \subseteq Ids
    BY <1>1, <1>2 DEF TypeOK
  <2>3. NoStatus \in [Ids -> Statuses]
    BY DEF NoStatus, Statuses
  <2> QED BY <1>1, <1>2, <1>3, <2>1, <2>2, <2>3 DEF TypeOK, JobOf, KeyOrNone
<1>7. Numbered'
  <2>1. Writers' = {}
    BY <1>4 DEF Writers, At
  <2>2. Reserved'
    BY <1>2, <1>5, <2>1, FS_EmptySet, Consts DEF Reserved
  <2>3. \A i \in Ids : i > made => Unlisted(i)' /\ ~Stored(i)'
    BY <1>1, <1>2, <1>4, <1>5 DEF Numbered, Unlisted, Stored
  <2> QED BY <1>2, <1>4, <1>5, <2>2, <2>3 DEF Numbered, Recording, At
<1>8. Mutexes'
  BY <1>2, <1>4 DEF Mutexes, MutexHeld, Holding, At
<1>9. RecordHasArchive' /\ OrphansOnlyByFault'
  <2>1. faults' # 0
    BY <1>1, Consts DEF Restart, TypeOK
  <2> QED BY <1>1, <1>2, <2>1 DEF RecordHasArchive, Stored, OrphansOnlyByFault
<1>10. \A q \in Proc : Sealing(q)'
  BY <1>4 DEF Sealing, At
<1>11. FingerprintTrue'
  BY <1>1, <1>2 DEF FingerprintTrue
<1>12. Pinned'
  BY <1>1, <1>2, <1>5 DEF Pinned, TypeOK
<1> QED BY <1>6, <1>7, <1>8, <1>9, <1>10, <1>11, <1>12 DEF BackupInv

-----------------------------------------------------------------------------
(* The theorems. *)

LEMMA BackupStep == BackupInv /\ [Next]_vars => BackupInv'
<1> SUFFICES ASSUME BackupInv, [Next]_vars PROVE BackupInv'
  OBVIOUS
<1>1. ASSUME NEW p \in Proc, Begin(p) PROVE BackupInv'
  BY <1>1, BeginCreateKeeps, BeginDeleteKeeps, BeginVerifyKeeps, BeginVerifyAllKeeps, BeginRecoverKeeps
     DEF Begin
<1>2. ASSUME NEW p \in Proc, CreateStep(p) PROVE BackupInv'
  BY <1>2, WriteArchiveKeeps, RecordArchiveKeeps, WarmCacheKeeps DEF CreateStep
<1>3. ASSUME NEW p \in Proc, DeleteStep(p) PROVE BackupInv'
  BY <1>3, DeleteRowKeeps, DeleteFileKeeps DEF DeleteStep
<1>4. ASSUME NEW p \in Proc, VerifyStep(p) PROVE BackupInv'
  BY <1>4, ProbeKeeps, TrialDecryptKeeps, BackfillKeeps, NoteKeeps, PublishKeeps DEF VerifyStep
<1>5. ASSUME NEW p \in Proc, RecoverStep(p) PROVE BackupInv'
  BY <1>5, RewriteArchiveKeeps, StampKeeps, RecoverEndsKeeps DEF RecoverStep
<1>6. ASSUME Rotate \/ CacheExpires \/ Restart PROVE BackupInv'
  BY <1>6, RotateKeeps, CacheExpiresKeeps, RestartKeeps
<1>7. ASSUME UNCHANGED vars PROVE BackupInv'
  <2>1. UNCHANGED <<env, vault, cached, listed, fp, blob, made, statusFP, status, lock, job,
                    torn, stale, rotations, faults>>
    BY <1>7 DEF vars
  <2>2. \A i : (Unlisted(i) <=> Unlisted(i)') /\ (Stored(i) <=> Stored(i)') /\ (Stamping(i) <=> Stamping(i)')
    BY <2>1 DEF Unlisted, Stored, Stamping, At
  <2>3. TypeOK' /\ MasterKey' = MasterKey
    BY <2>1 DEF BackupInv, TypeOK, MasterKey
  <2>4. Numbered' /\ Mutexes'
    BY <2>1 DEF BackupInv, Numbered, Reserved, Writers, Recording, Unlisted, Stored, Mutexes, MutexHeld, At
  <2>5. RecordHasArchive' /\ OrphansOnlyByFault' /\ FingerprintTrue' /\ Pinned'
    BY <2>1 DEF BackupInv, RecordHasArchive, OrphansOnlyByFault, Unfinished, Stored, FingerprintTrue,
                Pinned, At
  <2>6. \A q \in Proc : Sealing(q)'
    BY <2>1, <2>3 DEF BackupInv, Sealing, Under, Stamping, At
  <2> QED BY <2>3, <2>4, <2>5, <2>6 DEF BackupInv
<1> QED BY <1>1, <1>2, <1>3, <1>4, <1>5, <1>6, <1>7 DEF Next

LEMMA Inductive == Spec => []BackupInv
BY BackupInit, BackupStep, PTL DEF Spec

\* Every variable has its type; a created archive has an id of its own.
THEOREM TypeCorrect == Spec => []TypeOK
<1>1. BackupInv => TypeOK
  BY DEF BackupInv
<1> QED BY <1>1, Inductive, PTL

\* A record always has its archive, whatever fails or dies: Create writes the
\* archive first, Delete removes the record first.
THEOREM RecordsHaveArchives == Spec => []RecordHasArchive
<1>1. BackupInv => RecordHasArchive
  BY DEF BackupInv
<1> QED BY <1>1, Inductive, PTL

\* Delete and Recover exclude each other on an archive, also after errors, and
\* no mutex is left held by nobody.
THEOREM OneHolder == Spec => []MutexHeld
<1>1. BackupInv => MutexHeld
  BY DEF BackupInv, Mutexes
<1> QED BY <1>1, Inductive, PTL

\* Without a failed call or a restart, no archive is left without its record.
THEOREM NoOrphans == Spec => []OrphansOnlyByFault
<1>1. BackupInv => OrphansOnlyByFault
  BY DEF BackupInv
<1> QED BY <1>1, Inductive, PTL

\* The fingerprint of a record is that of its archive's key, whatever Verify,
\* Recover, Create and rotations do at once, except where a handler saw the
\* key move or a Recover was cut.
THEOREM FingerprintsTrue == Spec => []FingerprintTrue
<1>1. BackupInv => FingerprintTrue
  BY DEF BackupInv
<1> QED BY <1>1, Inductive, PTL

\* What List answers as compatible opens with the current key, after any
\* number of rotations, with the same exceptions and that of a status noted
\* under a key the cache was not pinned to.
THEOREM ListingTrue == Spec => []ListedTrue
<1>1. BackupInv => ListedTrue
  <2> SUFFICES ASSUME BackupInv, NEW i \in listed \ (torn \cup stale), Listed(i) = "compatible"
               PROVE  \/ blob[i] = MasterKey
                      \/ \E p \in Proc : job[p].id = i /\ job[p].pc \in {"stamp", "settle"}
    BY DEF ListedTrue
  <2>1. CASE statusFP = MasterKey /\ status[i] # "none"
    <3>1. status[i] = "compatible"
      BY <2>1 DEF Listed
    <3> QED BY <2>1, <3>1 DEF BackupInv, Pinned
  <2>2. CASE ~(statusFP = MasterKey /\ status[i] # "none")
    <3>1. fp[i] = MasterKey /\ fp[i] # NoKey
      BY <2>2 DEF Listed, Classify
    <3>2. fp[i] \in {NoKey, blob[i]} \/ \E p \in Proc : job[p].id = i /\ job[p].pc = "stamp"
      BY DEF BackupInv, FingerprintTrue, At
    <3> QED BY <3>1, <3>2
  <2> QED BY <2>1, <2>2
<1> QED BY <1>1, Inductive, PTL

-----------------------------------------------------------------------------
(* The scheduler and the restore.                                          *)

\* A Create that has begun has its archive's number reserved.
Room == created + Cardinality(Exporting) <= MaxCreated

LEMMA RestoreConsts ==
  /\ Worker # {} /\ Scheduler \in Worker /\ User \subseteq Worker /\ IsFiniteSet(Worker)
  /\ Comps # {} /\ DOMAIN Coll \subseteq Nat /\ \A n \in DOMAIN Coll : Coll[n] \in Comps
  /\ Original \in Docs /\ Nothing \in Docs /\ NoTask \in Task
  /\ 1 \in Archives /\ Absent \in Nat
<1>1. Coll \in [1 .. Len(Coll) -> STRING] /\ Len(Coll) \in Nat /\ Len(Coll) # 0
  BY RestoreAssumption
<1>2. Comps # {} /\ DOMAIN Coll \subseteq Nat /\ \A n \in DOMAIN Coll : Coll[n] \in Comps
  <2>1. DOMAIN Coll = 1 .. Len(Coll) /\ 1 \in 1 .. Len(Coll)
    BY <1>1
  <2> QED BY <2>1 DEF Comps
<1>3. Original \in Docs /\ Nothing \in Docs
  <2>1. 0 \in 0 .. MaxEdits + 1 /\ 1 \in 0 .. MaxEdits + 1
    BY RestoreAssumption
  <2> QED BY <2>1 DEF Original, Nothing, None, Docs
<1>4. NoTask \in Task
  BY <1>3, RestoreAssumption DEF NoTask, Task, Stages, Absent
<1>5. IsFiniteSet(Worker)
  BY RestoreAssumption, FS_AddElement DEF Worker
<1> QED BY <1>2, <1>3, <1>4, <1>5, RestoreAssumption DEF Worker, Archives, Absent

\* What an export takes of a database is a document, and so is a document with
\* the records of one component taken from it.
LEMMA Mixture ==
  ASSUME NEW d \in Docs, NEW e \in Docs, NEW c
  PROVE  /\ Archived(e) \in Docs
         /\ [r \in Record |-> IF Component[r] = c THEN Archived(e)[r] ELSE d[r]] \in Docs
<1>1. None \in 0 .. MaxEdits + 1
  BY RestoreAssumption DEF None
<1> QED BY <1>1 DEF Docs, Archived

LEMMA RestoreTypeInit == RestoreInit => RestoreTypeOK /\ Room
<1> SUFFICES ASSUME RestoreInit  PROVE RestoreTypeOK /\ Room
  OBVIOUS
<1>1. Archived(Original) \in Docs
  BY RestoreConsts, Mixture
<1>2. RestoreTypeOK
  BY <1>1, RestoreConsts, RestoreAssumption DEF RestoreInit, RestoreTypeOK, Archives, Absent
<1>3. Exporting = {}
  BY DEF RestoreInit, Exporting, NoTask
<1>4. Room
  BY <1>3, FS_EmptySet, RestoreAssumption DEF Room, RestoreInit
<1> QED BY <1>2, <1>4

LEMMA ExportForm ==
  ASSUME RestoreTypeOK, NEW p \in Worker, NEW n \in DOMAIN Coll, NEW S \in SUBSET Nat,
         NEW pc \in Stages
  PROVE  LET j == [task[p] EXCEPT !.doc = Exports(p, n), !.todo = S, !.pc = pc] IN
         j \in Task /\ j.pc = pc
<1>1. task[p] \in Task /\ task[p].doc \in Docs /\ db \in Docs
  BY DEF RestoreTypeOK, Task
<1>2. Exports(p, n) \in Docs
  BY <1>1, Mixture DEF Exports
<1> QED BY <1>1, <1>2 DEF Task

LEMMA RoomKept ==
  ASSUME Room, created \in Nat, created' = created, Exporting' \subseteq Exporting  PROVE Room'
<1>1. IsFiniteSet(Exporting)
  BY RestoreConsts, FS_Subset DEF Exporting
<1>2. Cardinality(Exporting') <= Cardinality(Exporting) /\ Cardinality(Exporting') \in Nat
         /\ Cardinality(Exporting) \in Nat
  BY <1>1, FS_Subset, FS_CardinalityType
<1> QED BY <1>2, RestoreAssumption DEF Room

\* A step that gives worker p another task.
LEMMA Turned ==
  ASSUME RestoreTypeOK, NEW p \in Worker, NEW j \in Task, Takes(p, j)
  PROVE  /\ task' \in [Worker -> Task] /\ task'[p] = j
         /\ \A q \in Worker \ {p} : task'[q] = task[q]
         /\ j.pc \notin {"export", "store"} \/ p \in Exporting => Exporting' \subseteq Exporting
  BY DEF RestoreTypeOK, Takes, Exporting

\* A worker beside a write of record r: its restore is disturbed.
LEMMA Disturbed ==
  ASSUME RestoreTypeOK, NEW q \in Worker, NEW r \in Record
  PROVE  LET j == [task[q] EXCEPT !.mixed = @ \cup {r}] IN
         /\ j \in Task /\ j.pc = task[q].pc /\ j.doc = task[q].doc /\ j.todo = task[q].todo
         /\ j.left = task[q].left /\ j.sel = task[q].sel /\ j.before = task[q].before
         /\ j.mixed = task[q].mixed \cup {r}
<1>1. task[q] \in Task
  BY DEF RestoreTypeOK
<1> QED BY <1>1 DEF Task

LEMMA TurnedOver ==
  ASSUME RestoreTypeOK, NEW p \in Worker, NEW j \in Task, NEW r \in Record, Disturb(p, j, r)
  PROVE  /\ task' \in [Worker -> Task] /\ task'[p] = j
         /\ \A q \in Worker \ {p} :
              task'[q] = IF Restoring(q) THEN [task[q] EXCEPT !.mixed = @ \cup {r}] ELSE task[q]
         /\ \A q \in Worker \ {p} : task'[q].pc = task[q].pc /\ task'[q].todo = task[q].todo
         /\ j.pc \notin {"export", "store"} => Exporting' \subseteq Exporting
<1>1. /\ task' \in [Worker -> Task] /\ task'[p] = j
      /\ \A q \in Worker \ {p} :
           task'[q] = IF Restoring(q) THEN [task[q] EXCEPT !.mixed = @ \cup {r}] ELSE task[q]
  BY Disturbed DEF RestoreTypeOK, Disturb
<1>2. ASSUME NEW q \in Worker \ {p}
      PROVE  task'[q].pc = task[q].pc /\ task'[q].todo = task[q].todo
  <2>1. CASE Restoring(q)
    <3>1. task'[q] = [task[q] EXCEPT !.mixed = @ \cup {r}]
      BY <1>1, <2>1
    <3> QED BY <3>1, Disturbed
  <2>2. CASE ~Restoring(q)
    BY <1>1, <2>2
  <2> QED BY <2>1, <2>2
<1> QED BY <1>1, <1>2 DEF Exporting

LEMMA UsedType ==
  ASSUME RestoreTypeOK, CallFails \/ CallWorks
  PROVE  /\ used' \in [edits : 0 .. MaxEdits, deletes : 0 .. MaxDeletes, faults : 0 .. MaxFailures]
         /\ used'.deletes = used.deletes /\ (CallFails => used' # used)
<1>1. used.faults \in Nat /\ MaxFailures \in Nat
  BY RestoreAssumption DEF RestoreTypeOK
<1>2. CASE CallWorks
  BY <1>2, <1>1 DEF CallWorks, CallFails, RestoreTypeOK
<1>3. CASE CallFails
  <2>1. used'.faults = used.faults + 1 /\ used.faults + 1 \in 0 .. MaxFailures
    BY <1>3, <1>1 DEF CallFails, RestoreTypeOK
  <2> QED BY <2>1, <1>3, <1>1 DEF CallFails, RestoreTypeOK
<1> QED BY <1>2, <1>3
LEMMA BeginExportTypes ==
  ASSUME RestoreTypeOK, Room, NEW p \in Worker, BeginExport(p)  PROVE RestoreTypeOK' /\ Room'
<1> DEFINE j == [NoTask EXCEPT !.pc = "export", !.todo = DOMAIN Coll]
<1>1. j \in Task /\ Takes(p, j)
  <2>1. NoTask \in Task /\ DOMAIN Coll \in SUBSET Nat
    BY RestoreConsts
  <2>2. j \in Task
    BY <2>1 DEF Task, Stages
  <2> QED BY <2>2 DEF BeginExport
<1>2. RestoreTypeOK'
  BY <1>1, Turned DEF RestoreTypeOK, BeginExport, archives, schedule
<1>3. p \notin Exporting /\ IsFiniteSet(Exporting)
  BY RestoreConsts, FS_Subset DEF Exporting, BeginExport, On
<1>4. j.pc = "export"
  BY DEF NoTask
<1> HIDE DEF j
<1>5. Exporting' = Exporting \cup {p}
  BY <1>1, <1>4, Turned DEF Exporting
<1>6. Cardinality(Exporting') = Cardinality(Exporting) + 1 /\ Cardinality(Exporting) \in Nat
  BY <1>3, <1>5, FS_AddElement, FS_CardinalityType
<1>7. created' = created /\ created \in Nat /\ created + Cardinality(Exporting) < MaxCreated
  BY DEF BeginExport, archives, RestoreTypeOK
<1> QED BY <1>2, <1>6, <1>7, RestoreAssumption DEF Room

LEMMA ExportTypes ==
  ASSUME RestoreTypeOK, Room, NEW p \in Worker, Export(p)  PROVE RestoreTypeOK' /\ Room'
<1>1. PICK j \in Task : Takes(p, j) /\ (CallWorks \/ CallFails)
  <2>1. CASE CallFails /\ Finishes(p)
    BY <2>1, RestoreConsts DEF Finishes
  <2>2. ASSUME NEW n \in DOMAIN Coll, CallWorks,
               Takes(p, [task[p] EXCEPT !.doc = Exports(p, n), !.todo = task[p].todo \ {n},
                                        !.pc = IF task[p].todo \ {n} = {} THEN "store" ELSE "export"])
        PROVE  \E j \in Task : Takes(p, j) /\ (CallWorks \/ CallFails)
    <3>1. task[p] \in Task
      BY DEF RestoreTypeOK
    <3>2. task[p].todo \ {n} \in SUBSET Nat
      BY <3>1 DEF Task
    <3>3. (IF task[p].todo \ {n} = {} THEN "store" ELSE "export") \in Stages
      BY DEF Stages
    <3> QED BY <2>2, <3>2, <3>3, ExportForm
  <2> QED BY <2>1, <2>2 DEF Export
<1>2. p \in Exporting
  BY DEF Export, On, Exporting
<1>3. RestoreTypeOK'
  BY <1>1, Turned, UsedType DEF RestoreTypeOK, Export, archives, schedule
<1>4. created' = created
  BY DEF Export, archives
<1>5. created \in Nat
  BY DEF RestoreTypeOK
<1> QED BY <1>1, <1>2, <1>3, <1>4, <1>5, Turned, RoomKept

LEMMA StoreTypes ==
  ASSUME RestoreTypeOK, Room, NEW p \in Worker, Store(p)
  PROVE  RestoreTypeOK' /\ Room' /\ created + 1 \in Archives
<1>1. PICK j \in Task : Takes(p, j) /\ (CallWorks \/ CallFails) /\ j.pc \in {"idle", "touch"}
  <2>1. NoTask \in Task /\ NoTask.pc = "idle"
    BY RestoreConsts DEF NoTask
  <2>2. [NoTask EXCEPT !.pc = "touch"] \in Task /\ [NoTask EXCEPT !.pc = "touch"].pc = "touch"
    BY <2>1 DEF Task, Stages
  <2> QED BY <2>1, <2>2 DEF Store, Finishes
<1>2. p \in Exporting /\ IsFiniteSet(Exporting)
  BY RestoreConsts, FS_Subset DEF Store, On, Exporting
<1>3. Cardinality(Exporting) \in Nat /\ Cardinality(Exporting) # 0
  BY <1>2, FS_CardinalityType, FS_EmptySet
<1>4. created \in Nat /\ created + 1 \in Archives
  BY <1>3, RestoreAssumption DEF Room, RestoreTypeOK, Archives
<1>5. RestoreTypeOK'
  <2>1. task[p].doc \in Docs
    BY DEF RestoreTypeOK, Task
  <2>2. source' \in [Archives -> {"none", "manual", "scheduled"}] /\ doc' \in [Archives -> Docs]
        /\ created' \in 1 .. MaxCreated /\ ran' \in Nat
    BY <1>4, <2>1 DEF RestoreTypeOK, Store, Archives, archives
  <2> QED BY <1>1, <2>2, Turned, UsedType DEF RestoreTypeOK, Store
<1>6. Room'
  <2>1. Exporting' = Exporting \ {p}
    BY <1>1, Turned DEF Exporting
  <2>2. Cardinality(Exporting') = Cardinality(Exporting) - 1
    BY <2>1, <1>2, FS_RemoveElement
  <2>3. created' \in {created, created + 1}
    BY DEF Store, archives
  <2> QED BY <2>2, <2>3, <1>3, <1>4, RestoreAssumption DEF Room
<1> QED BY <1>4, <1>5, <1>6

LEMMA DeleteTypes ==
  ASSUME RestoreTypeOK, Room, NEW p \in Worker, Delete(p)  PROVE RestoreTypeOK' /\ Room'
<1>1. PICK i \in Archives :
        /\ \/ CallWorks /\ source' = [source EXCEPT ![i] = "none"] /\ doc' = [doc EXCEPT ![i] = Nothing]
           \/ CallFails /\ UNCHANGED <<source, doc>>
        /\ IF task[p].todo \ {i} = {} THEN Finishes(p)
           ELSE Takes(p, [task[p] EXCEPT !.todo = task[p].todo \ {i}])
  BY DEF Delete
<1>2. PICK j \in Task : Takes(p, j) /\ j.pc \notin {"export", "store"}
  <2>1. NoTask \in Task /\ NoTask.pc = "idle"
    BY RestoreConsts DEF NoTask
  <2>2. task[p] \in Task /\ task[p].pc = "delete" /\ task[p].todo \ {i} \in SUBSET Nat
    BY DEF RestoreTypeOK, Task, Delete, On
  <2>3. [task[p] EXCEPT !.todo = task[p].todo \ {i}] \in Task
        /\ [task[p] EXCEPT !.todo = task[p].todo \ {i}].pc = "delete"
    BY <2>2 DEF Task
  <2> QED BY <1>1, <2>1, <2>3 DEF Finishes
<1>3. source' \in [Archives -> {"none", "manual", "scheduled"}] /\ doc' \in [Archives -> Docs]
  BY <1>1, RestoreConsts DEF RestoreTypeOK
<1>4. RestoreTypeOK'
  BY <1>1, <1>2, <1>3, Turned, UsedType DEF RestoreTypeOK, Delete, schedule
<1>5. created' = created /\ created \in Nat
  BY DEF Delete, RestoreTypeOK
<1> QED BY <1>2, <1>4, <1>5, Turned, RoomKept
LEMMA AskDeleteTypes ==
  ASSUME RestoreTypeOK, Room, NEW p \in User, AskDelete(p)  PROVE RestoreTypeOK' /\ Room'
<1>1. PICK i \in Archives : Takes(p, [NoTask EXCEPT !.pc = "delete", !.todo = {i}])
  BY DEF AskDelete
<1>2. {i} \in SUBSET Nat /\ p \in Worker /\ NoTask \in Task
  BY RestoreConsts DEF Archives
<1>3. PICK j \in Task : Takes(p, j) /\ j.pc = "delete"
  <2>1. [NoTask EXCEPT !.pc = "delete", !.todo = {i}] \in Task
        /\ [NoTask EXCEPT !.pc = "delete", !.todo = {i}].pc = "delete"
    BY <1>2 DEF Task, Stages
  <2> QED BY <1>1, <2>1
<1>4. used' \in [edits : 0 .. MaxEdits, deletes : 0 .. MaxDeletes, faults : 0 .. MaxFailures]
  <2>1. used.deletes < MaxDeletes /\ used' = [used EXCEPT !.deletes = @ + 1]
    BY DEF AskDelete
  <2>2. used \in [edits : 0 .. MaxEdits, deletes : 0 .. MaxDeletes, faults : 0 .. MaxFailures]
    BY DEF RestoreTypeOK
  <2>3. used.deletes + 1 \in 0 .. MaxDeletes
    BY <2>1, <2>2, RestoreAssumption
  <2> QED BY <2>1, <2>2, <2>3
<1>5. RestoreTypeOK'
  BY <1>2, <1>3, <1>4, Turned DEF RestoreTypeOK, AskDelete, archives, schedule
<1>6. created' = created /\ created \in Nat
  BY DEF AskDelete, archives, RestoreTypeOK
<1> QED BY <1>2, <1>3, <1>5, <1>6, Turned, RoomKept

\* What a restore begins with.
LEMMA BegunForm ==
  ASSUME RestoreTypeOK, NEW p \in User, BeginRestore(p)
  PROVE  \E j \in Task : /\ Takes(p, j) /\ j.pc = "list" /\ j.before = db
                         /\ j.todo = Places(j.sel) /\ j.mixed = {}
<1>1. PICK d \in {doc[i] : i \in {j \in Archives : Kept(j)}} \cup {Archived(Original)},
           sel \in SUBSET Comps \ {{}} :
        Takes(p, [NoTask EXCEPT !.pc = "list", !.doc = d, !.sel = sel, !.todo = Places(sel),
                                !.before = db])
  BY DEF BeginRestore
<1> DEFINE j == [NoTask EXCEPT !.pc = "list", !.doc = d, !.sel = sel, !.todo = Places(sel),
                               !.before = db]
<1>2. Archived(Original) \in Docs /\ NoTask \in Task /\ NoTask.mixed = {}
  BY RestoreConsts, Mixture DEF NoTask
<1>3. Places(sel) \in SUBSET Nat /\ d \in Docs /\ db \in Docs
  BY <1>2, RestoreConsts DEF Places, RestoreTypeOK
<1>4. /\ j \in Task /\ j.pc = "list" /\ j.before = db /\ j.sel = sel /\ j.todo = Places(sel)
      /\ j.mixed = {}
  BY <1>2, <1>3 DEF Task, Stages
<1> QED BY <1>1, <1>4

LEMMA BeginRestoreTypes ==
  ASSUME RestoreTypeOK, Room, NEW p \in User, BeginRestore(p)  PROVE RestoreTypeOK' /\ Room'
<1>1. PICK j \in Task : Takes(p, j) /\ j.pc = "list"
  BY BegunForm
<1>2. p \in Worker
  BY RestoreConsts
<1>3. RestoreTypeOK'
  BY <1>1, <1>2, Turned DEF RestoreTypeOK, BeginRestore, archives, schedule
<1>4. created' = created /\ created \in Nat
  BY DEF BeginRestore, archives, RestoreTypeOK
<1> QED BY <1>1, <1>2, <1>3, <1>4, Turned, RoomKept

\* The task a restore of p goes on with.
GoesOn(p, j, pc, S) ==
  /\ j \in Task /\ j.pc = pc /\ j.left = S /\ j.doc = task[p].doc /\ j.todo = task[p].todo
  /\ j.sel = task[p].sel /\ j.before = task[p].before /\ j.mixed = task[p].mixed

LEMMA StepForm ==
  ASSUME RestoreTypeOK, NEW p \in Worker, NEW pc \in Stages, NEW S \in SUBSET Record,
         NEW j, j = [task[p] EXCEPT !.pc = pc, !.left = S]
  PROVE  GoesOn(p, j, pc, S)
<1>1. task[p] \in Task
  BY DEF RestoreTypeOK
<1> QED BY <1>1 DEF Task, GoesOn

LEMMA LeftForm ==
  ASSUME RestoreTypeOK, NEW p \in Worker, NEW r \in Record
  PROVE  LET j == [task[p] EXCEPT !.left = @ \ {r}] IN
         /\ j \in Task /\ j.pc = task[p].pc /\ j.left = task[p].left \ {r}
         /\ j.doc = task[p].doc /\ j.todo = task[p].todo /\ j.sel = task[p].sel
         /\ j.before = task[p].before /\ j.mixed = task[p].mixed
<1>1. task[p] \in Task
  BY DEF RestoreTypeOK
<1> QED BY <1>1 DEF Task

\* A List fails, or sees what its next component has.
ToDelete(n) == {r \in Wiped : Component[r] = Coll[n] /\ db[r] # None}
LEMMA ListForm ==
  ASSUME RestoreTypeOK, NEW p \in User, List(p)
  PROVE  \/ CallFails /\ Takes(p, NoTask)
         \/ \E n \in DOMAIN Coll, j \in Task :
              CallWorks /\ Foremost(p, n) /\ Takes(p, j) /\ GoesOn(p, j, "wipe", ToDelete(n))
<1>1. CASE CallFails /\ Finishes(p)
  BY <1>1 DEF Finishes
<1>2. ASSUME NEW n \in DOMAIN Coll, CallWorks, Foremost(p, n),
             Takes(p, [task[p] EXCEPT !.pc = "wipe", !.left = ToDelete(n)])
      PROVE  \E j \in Task :
               CallWorks /\ Foremost(p, n) /\ Takes(p, j) /\ GoesOn(p, j, "wipe", ToDelete(n))
  <2> DEFINE S == ToDelete(n)
             j == [task[p] EXCEPT !.pc = "wipe", !.left = S]
  <2>1. S \subseteq Record /\ "wipe" \in Stages /\ p \in Worker
    BY RestoreConsts, RestoreAssumption DEF ToDelete, Stages
  <2>2. Takes(p, j)
    BY <1>2
  <2> HIDE DEF S
  <2>3. GoesOn(p, j, "wipe", S)
    BY <2>1, StepForm
  <2>4. j \in Task
    BY <2>3 DEF GoesOn
  <2> QED BY <1>2, <2>2, <2>3, <2>4 DEF S
<1> QED BY <1>1, <1>2 DEF List, ToDelete

LEMMA ListTypes ==
  ASSUME RestoreTypeOK, Room, NEW p \in User, List(p)  PROVE RestoreTypeOK' /\ Room'
<1>1. PICK j \in Task : Takes(p, j) /\ j.pc \in {"idle", "wipe"} /\ (CallWorks \/ CallFails)
  <2>1. NoTask \in Task /\ NoTask.pc = "idle"
    BY RestoreConsts DEF NoTask
  <2> QED BY <2>1, ListForm DEF GoesOn
<1>2. p \in Worker
  BY RestoreConsts
<1>3. RestoreTypeOK'
  BY <1>1, <1>2, Turned, UsedType DEF RestoreTypeOK, List, archives, schedule
<1>4. created' = created
  BY DEF List, archives
<1>5. created \in Nat
  BY DEF RestoreTypeOK
<1> QED BY <1>1, <1>2, <1>3, <1>4, <1>5, Turned, RoomKept

\* A Wipe deletes a record, fails at one, or has none left.
ToWrite(p, n) == {r \in Record : Component[r] = Coll[n] /\ task[p].doc[r] # None}
LEMMA WipeForm ==
  ASSUME RestoreTypeOK, NEW p \in User, Wipe(p)
  PROVE  \/ \E r \in task[p].left :
              /\ CallWorks /\ db' = [db EXCEPT ![r] = None]
              /\ Disturb(p, [task[p] EXCEPT !.left = @ \ {r}], r)
         \/ \E r \in task[p].left :
              CallFails /\ db' \in {db, [db EXCEPT ![r] = None]} /\ Disturb(p, NoTask, r)
         \/ \E n \in DOMAIN Coll, j \in Task :
              /\ task[p].left = {} /\ Foremost(p, n) /\ UNCHANGED <<db, used>>
              /\ Takes(p, j) /\ GoesOn(p, j, "fill", ToWrite(p, n))
<1>1. ASSUME NEW n \in DOMAIN Coll, task[p].left = {}, Foremost(p, n), UNCHANGED <<db, used>>,
             Takes(p, [task[p] EXCEPT !.pc = "fill", !.left = ToWrite(p, n)])
      PROVE  \E j \in Task : /\ task[p].left = {} /\ Foremost(p, n) /\ UNCHANGED <<db, used>>
                             /\ Takes(p, j) /\ GoesOn(p, j, "fill", ToWrite(p, n))
  <2> DEFINE S == ToWrite(p, n)
             j == [task[p] EXCEPT !.pc = "fill", !.left = S]
  <2>1. S \subseteq Record /\ "fill" \in Stages /\ p \in Worker
    BY RestoreConsts DEF ToWrite, Stages
  <2>2. Takes(p, j)
    BY <1>1
  <2> HIDE DEF S
  <2>3. GoesOn(p, j, "fill", S)
    BY <2>1, StepForm
  <2>4. j \in Task
    BY <2>3 DEF GoesOn
  <2> QED BY <1>1, <2>2, <2>3, <2>4 DEF S
<1> QED BY <1>1 DEF Wipe, ToWrite

\* A document with one record changed.
LEMMA Written ==
  ASSUME RestoreTypeOK, NEW r \in Record, NEW v \in 0 .. MaxEdits + 1,
         db' = db \/ db' = [db EXCEPT ![r] = v]
  PROVE  /\ db' \in Docs /\ \A s \in Record \ {r} : db'[s] = db[s]
         /\ db' = [db EXCEPT ![r] = v] => db'[r] = v
  BY DEF RestoreTypeOK, Docs

LEMMA WipeTypes ==
  ASSUME RestoreTypeOK, Room, NEW p \in User, Wipe(p)  PROVE RestoreTypeOK' /\ Room'
<1>1. /\ p \in Worker /\ NoTask \in Task /\ NoTask.pc = "idle" /\ task[p] \in Task
      /\ task[p].pc = "wipe" /\ task[p].left \subseteq Record
  BY RestoreConsts DEF NoTask, RestoreTypeOK, Wipe, On, Task
<1>0. None \in 0 .. MaxEdits + 1
  BY RestoreAssumption DEF None
<1>2. created' = created /\ created \in Nat /\ UNCHANGED <<archives, schedule>>
  <2>1. UNCHANGED <<archives, schedule>>
    BY DEF Wipe
  <2>2. created \in Nat
    BY DEF RestoreTypeOK
  <2> QED BY <2>1, <2>2 DEF archives
<1>3. ASSUME NEW r \in Record, NEW j \in Task, Disturb(p, j, r), j.pc \in {"idle", "wipe"},
             CallWorks \/ CallFails, db' = db \/ db' = [db EXCEPT ![r] = None]
      PROVE  RestoreTypeOK' /\ Room'
  <2>1. db' \in Docs
    BY <1>0, <1>3, Written
  <2>2. RestoreTypeOK'
    BY <1>1, <1>2, <1>3, <2>1, TurnedOver, UsedType DEF RestoreTypeOK, archives, schedule
  <2> QED BY <1>1, <1>2, <1>3, <2>2, TurnedOver, RoomKept
<1>4. ASSUME NEW j \in Task, Takes(p, j), j.pc = "fill", UNCHANGED <<db, used>>
      PROVE  RestoreTypeOK' /\ Room'
  <2>1. RestoreTypeOK'
    BY <1>1, <1>2, <1>4, Turned DEF RestoreTypeOK, archives, schedule
  <2> QED BY <1>1, <1>2, <1>4, <2>1, Turned, RoomKept
<1> QED BY <1>1, <1>3, <1>4, WipeForm, LeftForm DEF GoesOn

LEMMA FilledForm ==
  ASSUME RestoreTypeOK, NEW p \in Worker, On(p, "fill"), NEW n \in Nat
  PROVE  /\ Filled(p, n) \in Task /\ Filled(p, n).pc \in {"idle", "list"}
         /\ Filled(p, n).pc = "list" =>
              /\ Filled(p, n).todo = task[p].todo \ {n} /\ Filled(p, n).sel = task[p].sel
              /\ Filled(p, n).doc = task[p].doc /\ Filled(p, n).before = task[p].before
              /\ Filled(p, n).mixed = task[p].mixed
         /\ Filled(p, n).pc = "idle" => task[p].todo \subseteq {n}
<1>1. task[p] \in Task /\ task[p].todo \ {n} \in SUBSET Nat /\ NoTask \in Task
  BY RestoreConsts DEF RestoreTypeOK, Task
<1>2. NoTask.pc = "idle"
  BY DEF NoTask
<1>3. CASE task[p].todo \ {n} = {}
  BY <1>1, <1>2, <1>3 DEF Filled
<1>4. CASE task[p].todo \ {n} # {}
  <2>1. Filled(p, n) = [task[p] EXCEPT !.pc = "list", !.left = {}, !.todo = task[p].todo \ {n}]
    BY <1>4 DEF Filled
  <2> QED BY <1>1, <2>1 DEF Task, Stages
<1> QED BY <1>3, <1>4

\* A Fill writes a record, fails at one, finds one there, or has none left.
LEMMA FillForm ==
  ASSUME RestoreTypeOK, NEW p \in User, Fill(p)
  PROVE  \/ \E r \in task[p].left :
              /\ CallWorks /\ db' = [db EXCEPT ![r] = task[p].doc[r]]
              /\ Disturb(p, [task[p] EXCEPT !.left = @ \ {r}], r)
         \/ \E r \in task[p].left :
              /\ CallFails /\ db' \in {db, [db EXCEPT ![r] = task[p].doc[r]]}
              /\ Disturb(p, NoTask, r)
         \/ task[p].left # {} /\ Takes(p, NoTask) /\ UNCHANGED <<db, used>>
         \/ \E n \in DOMAIN Coll :
              task[p].left = {} /\ Foremost(p, n) /\ Takes(p, Filled(p, n)) /\ UNCHANGED <<db, used>>
  BY DEF Fill, Finishes

LEMMA FillTypes ==
  ASSUME RestoreTypeOK, Room, NEW p \in User, Fill(p)  PROVE RestoreTypeOK' /\ Room'
<1>1. /\ p \in Worker /\ NoTask \in Task /\ NoTask.pc = "idle" /\ task[p] \in Task
      /\ On(p, "fill") /\ task[p].pc = "fill" /\ task[p].left \subseteq Record
      /\ \A r \in Record : task[p].doc[r] \in 0 .. MaxEdits + 1
  BY RestoreConsts DEF NoTask, RestoreTypeOK, Fill, On, Task, Docs
<1>2. created' = created /\ created \in Nat /\ UNCHANGED <<archives, schedule>>
  BY DEF Fill, archives, RestoreTypeOK
<1>3. ASSUME NEW r \in Record, NEW j \in Task, Disturb(p, j, r), j.pc \in {"idle", "fill"},
             CallWorks \/ CallFails, db' = db \/ db' = [db EXCEPT ![r] = task[p].doc[r]]
      PROVE  RestoreTypeOK' /\ Room'
  <2>1. db' \in Docs
    BY <1>1, <1>3, Written
  <2>2. RestoreTypeOK'
    BY <1>1, <1>2, <1>3, <2>1, TurnedOver, UsedType DEF RestoreTypeOK, archives, schedule
  <2> QED BY <1>1, <1>2, <1>3, <2>2, TurnedOver, RoomKept
<1>4. ASSUME NEW j \in Task, Takes(p, j), j.pc \in {"idle", "list"}, UNCHANGED <<db, used>>
      PROVE  RestoreTypeOK' /\ Room'
  <2>1. RestoreTypeOK'
    BY <1>1, <1>2, <1>4, Turned DEF RestoreTypeOK, archives, schedule
  <2> QED BY <1>1, <1>2, <1>4, <2>1, Turned, RoomKept
<1>5. \A n \in DOMAIN Coll : Filled(p, n) \in Task /\ Filled(p, n).pc \in {"idle", "list"}
  BY <1>1, RestoreConsts, FilledForm
<1> QED BY <1>1, <1>3, <1>4, <1>5, FillForm, LeftForm

LEMMA SaveTypes ==
  ASSUME RestoreTypeOK, Room, NEW p \in User, BeginSave(p) \/ Upsert(p)
  PROVE  RestoreTypeOK' /\ Room'
<1>1. p \in Worker /\ NoTask \in Task /\ NoTask.pc = "idle"
  BY RestoreConsts DEF NoTask
<1>2. created' = created /\ created \in Nat
  BY DEF BeginSave, Upsert, archives, RestoreTypeOK
<1>3. CASE BeginSave(p)
  <2> DEFINE n == IF lastRun = Absent THEN 0 ELSE lastRun
             j == [NoTask EXCEPT !.pc = "upsert", !.saw = n]
  <2>1. n \in 0 .. Absent
    BY RestoreConsts DEF RestoreTypeOK
  <2>2. j \in Task /\ j.pc = "upsert"
    BY <1>1, <2>1 DEF Task, Stages
  <2>3. Takes(p, j)
    BY <1>3 DEF BeginSave
  <2> HIDE DEF j
  <2>4. RestoreTypeOK'
    BY <1>1, <1>3, <2>2, <2>3, Turned DEF RestoreTypeOK, BeginSave, archives, schedule
  <2> QED BY <1>1, <1>2, <2>2, <2>3, <2>4, Turned, RoomKept
<1>4. CASE Upsert(p)
  <2>1. Takes(p, NoTask)
    BY <1>4 DEF Upsert, Finishes
  <2>2. task[p].saw \in 0 .. Absent /\ marked' \in BOOLEAN
    BY <1>1, <1>4 DEF RestoreTypeOK, Task, Upsert
  <2>3. RestoreTypeOK'
    BY <1>1, <1>4, <2>1, <2>2, Turned DEF RestoreTypeOK, Upsert, archives
  <2> QED BY <1>1, <1>2, <2>1, <2>3, Turned, RoomKept
<1> QED BY <1>3, <1>4

LEMMA ScheduleTypes ==
  ASSUME RestoreTypeOK, Room, Touch \/ Retain  PROVE RestoreTypeOK' /\ Room'
<1>1. Scheduler \in Worker /\ NoTask \in Task /\ NoTask.pc = "idle"
  BY RestoreConsts DEF NoTask
<1>2. created' = created /\ created \in Nat
  BY DEF Touch, Retain, archives, RestoreTypeOK
<1>3. CASE Touch
  <2> DEFINE j == [NoTask EXCEPT !.pc = "retain"]
  <2>1. j \in Task /\ j.pc = "retain"
    BY <1>1 DEF Task, Stages
  <2>2. Takes(Scheduler, j) /\ (CallWorks \/ CallFails)
    BY <1>3 DEF Touch
  <2> HIDE DEF j
  <2>3. day \in 0 .. Absent
    BY RestoreAssumption DEF RestoreTypeOK, Absent
  <2>4. lastRun' \in 0 .. Absent /\ marked' \in BOOLEAN
    BY <1>3, <2>3 DEF Touch, RestoreTypeOK
  <2>5. RestoreTypeOK'
    BY <1>1, <1>3, <2>1, <2>2, <2>4, Turned, UsedType DEF RestoreTypeOK, Touch, archives
  <2> QED BY <1>1, <1>2, <2>1, <2>2, <2>5, Turned, RoomKept
<1>4. CASE Retain
  <2>1. PICK j \in Task : Takes(Scheduler, j) /\ j.pc \in {"idle", "delete"}
    <3> DEFINE S == Expendable(Scheduled)
               j == [NoTask EXCEPT !.pc = "delete", !.todo = S]
    <3>1. S \in SUBSET Nat
      BY DEF Expendable, Scheduled, Archives
    <3>2. IF S = {} THEN Takes(Scheduler, NoTask) ELSE Takes(Scheduler, j)
      BY <1>4 DEF Retain, Finishes
    <3> HIDE DEF S
    <3>3. j \in Task /\ j.pc = "delete"
      BY <1>1, <3>1 DEF Task, Stages
    <3> QED BY <1>1, <3>2, <3>3
  <2>2. RestoreTypeOK'
    BY <1>1, <1>4, <2>1, Turned DEF RestoreTypeOK, Retain, archives, schedule
  <2> QED BY <1>1, <1>2, <2>1, <2>2, Turned, RoomKept
<1> QED BY <1>3, <1>4

LEMMA EditTypes ==
  ASSUME RestoreTypeOK, Room, Edit  PROVE RestoreTypeOK' /\ Room' /\ used'.deletes = used.deletes
<1>0. used.edits \in Nat /\ used.edits < MaxEdits /\ MaxEdits \in Nat
  BY RestoreAssumption DEF Edit, RestoreTypeOK
<1>1. used' \in [edits : 0 .. MaxEdits, deletes : 0 .. MaxDeletes, faults : 0 .. MaxFailures]
      /\ used.edits + 2 \in 0 .. MaxEdits + 1 /\ used'.deletes = used.deletes
  BY <1>0 DEF Edit, RestoreTypeOK
<1>2. PICK r \in Record, v \in {None, used.edits + 2} :
        /\ db' = [db EXCEPT ![r] = v]
        /\ task' = [q \in Worker |-> IF Restoring(q) THEN [task[q] EXCEPT !.mixed = @ \cup {r}]
                                                     ELSE task[q]]
  BY DEF Edit
<1>3. db' \in Docs
  <2>1. v \in 0 .. MaxEdits + 1
    BY <1>1, <1>0 DEF None
  <2> QED BY <1>2, <2>1, Written
<1>4. task' \in [Worker -> Task] /\ Exporting' \subseteq Exporting
  <2>1. task' \in [Worker -> Task] /\ \A q \in Worker : task'[q].pc = task[q].pc
    BY <1>2, Disturbed DEF RestoreTypeOK
  <2> QED BY <2>1 DEF Exporting
<1>5. RestoreTypeOK'
  BY <1>1, <1>3, <1>4 DEF RestoreTypeOK, Edit, archives, schedule
<1>6. created' = created /\ created \in Nat
  BY DEF Edit, archives, RestoreTypeOK
<1> QED BY <1>1, <1>4, <1>5, <1>6, RoomKept

LEMMA OutsideTypes ==
  ASSUME RestoreTypeOK, Room, DeleteSchedule \/ Midnight \/ Reboot \/ UNCHANGED restoreVars
  PROVE  RestoreTypeOK' /\ Room'
<1>1. CASE DeleteSchedule
  <2>1. RestoreTypeOK'
    BY <1>1, RestoreConsts DEF DeleteSchedule, RestoreTypeOK, archives
  <2> QED BY <1>1, <2>1, RoomKept DEF DeleteSchedule, RestoreTypeOK, archives, Exporting
<1>2. CASE Midnight
  <2>1. RestoreTypeOK'
    BY <1>2, RestoreAssumption DEF Midnight, RestoreTypeOK, archives
  <2> QED BY <1>2, <2>1, RoomKept DEF Midnight, RestoreTypeOK, archives, Exporting
<1>3. CASE Reboot
  <2>1. task' \in [Worker -> Task] /\ Exporting' \subseteq Exporting
    BY <1>3, RestoreConsts DEF Reboot, Exporting, NoTask
  <2>2. RestoreTypeOK'
    BY <1>3, <2>1, UsedType DEF Reboot, RestoreTypeOK, archives
  <2> QED BY <1>3, <2>1, <2>2, RoomKept DEF Reboot, RestoreTypeOK, archives
<1>4. CASE UNCHANGED restoreVars
  BY <1>4 DEF restoreVars, RestoreTypeOK, Room, Exporting
<1> QED BY <1>1, <1>2, <1>3, <1>4

LEMMA RestoreTypeStep ==
  RestoreTypeOK /\ Room /\ [RestoreNext]_restoreVars => RestoreTypeOK' /\ Room'
<1> SUFFICES ASSUME RestoreTypeOK, Room, [RestoreNext]_restoreVars  PROVE RestoreTypeOK' /\ Room'
  OBVIOUS
<1>1. ASSUME NEW p \in Worker, BeginExport(p) \/ Export(p) \/ Store(p) \/ Delete(p)
      PROVE  RestoreTypeOK' /\ Room'
  BY <1>1, BeginExportTypes, ExportTypes, StoreTypes, DeleteTypes
<1>2. ASSUME NEW p \in User, AskDelete(p) \/ BeginRestore(p) \/ List(p) \/ Wipe(p) \/ Fill(p)
      PROVE  RestoreTypeOK' /\ Room'
  BY <1>2, AskDeleteTypes, BeginRestoreTypes, ListTypes, WipeTypes, FillTypes
<1>3. ASSUME NEW p \in User, BeginSave(p) \/ Upsert(p)  PROVE RestoreTypeOK' /\ Room'
  BY <1>3, SaveTypes
<1>4. CASE Touch \/ Retain
  BY <1>4, ScheduleTypes
<1>5. CASE Edit
  BY <1>5, EditTypes
<1>6. CASE DeleteSchedule \/ Midnight \/ Reboot \/ UNCHANGED restoreVars
  BY <1>6, OutsideTypes
<1> QED BY <1>1, <1>2, <1>3, <1>4, <1>5, <1>6 DEF RestoreNext

(* The collections, the archives and the workers' tasks keep their types,   *)
(* and every export under way has its archive's number reserved            *)
(* (biz/backup.go:810, RunScheduled).                                      *)
THEOREM RestoreTypeCorrect == RestoreSpec => [](RestoreTypeOK /\ Room)
<1> QED BY RestoreTypeInit, RestoreTypeStep, PTL DEF RestoreSpec

\* A marked day ran the schedule once at most, and the run is on its way to
\* its mark or has left it.
MarkOnce ==
  marked => /\ ran # 0 => ran = 1 /\ (On(Scheduler, "touch") \/ lastRun = day)
            /\ task[Scheduler].pc \in {"export", "store"} => ran = 0

\* Record r belongs to the component that restore j is about to wipe and fill,
\* or to one of those it has still to deal with.
Later(j, r) == \E n \in j.todo : Coll[n] = Component[r]
Now(j, r) ==
  /\ j.pc \in {"wipe", "fill"}
  /\ \E n \in j.todo : Coll[n] = Component[r] /\ \A m \in j.todo : n <= m

\* What restore j has made of record r, whose content is v: it is as before until
\* its component's turn; what is to be wiped is gone before it is filled.
Settled(j, r, v) ==
  /\ ~Later(j, r) => v = Expected(j, r)
  /\ Later(j, r) /\ ~Now(j, r) => v \in {j.before[r], Expected(j, r)}
  /\ Now(j, r) /\ r \notin j.left =>
       IF j.pc = "fill" THEN v = Expected(j, r)
       ELSE IF r \in Wiped THEN v = None ELSE v \in {j.before[r], Expected(j, r)}

\* Its lists are of what it selected.
InOrder(j) ==
  /\ j.todo \subseteq Places(j.sel)
  /\ j.pc = "wipe" => \A r \in j.left : Now(j, r) /\ r \in Wiped
  /\ j.pc = "fill" => \A r \in j.left : Now(j, r) /\ j.doc[r] # None

\* All of it is so for every record that nobody else wrote.
Promise(p) ==
  Restoring(p) => /\ InOrder(task[p])
                  /\ \A r \in Record \ task[p].mixed : Settled(task[p], r, db[r])
RestoredSoFar == \A p \in Worker : Promise(p)

\* What retention has still to delete are archives of the schedule, of which
\* a newer one is not on its list.
Spared ==
  /\ \A i \in Archives : i > created => source[i] = "none"
  /\ used.deletes = 0 =>
       /\ \A p \in User : ~On(p, "delete")
       /\ On(Scheduler, "delete") =>
            /\ task[Scheduler].todo \subseteq Scheduled
            /\ \E j \in Scheduled \ task[Scheduler].todo : \A i \in task[Scheduler].todo : j > i
LEMMA MarkStays ==
  ASSUME MarkOnce, UNCHANGED schedule,
         \/ task'[Scheduler].pc = task[Scheduler].pc
         \/ task[Scheduler].pc # "touch" /\ task'[Scheduler].pc \notin {"export", "store"}
  PROVE  MarkOnce'
  BY DEF MarkOnce, schedule, On

\* What a restore's steps do to the tasks of the other workers.
LEMMA Elsewhere ==
  ASSUME RestoreTypeOK, NEW p \in User, NEW q \in Worker \ {p},
         AskDelete(p) \/ BeginRestore(p) \/ List(p) \/ Wipe(p) \/ Fill(p) \/ BeginSave(p) \/ Upsert(p)
  PROVE  task'[q].pc = task[q].pc /\ task'[q].todo = task[q].todo
<1>1. p \in Worker /\ NoTask \in Task /\ task[p].left \subseteq Record
  BY RestoreConsts DEF RestoreTypeOK, Task
<1>2. ASSUME NEW j, Takes(p, j)  PROVE task'[q] = task[q]
  BY <1>1, <1>2 DEF Takes, RestoreTypeOK
<1>3. ASSUME NEW j \in Task, NEW r \in Record, Disturb(p, j, r)
      PROVE  task'[q].pc = task[q].pc /\ task'[q].todo = task[q].todo
  BY <1>1, <1>3, TurnedOver
<1>4. CASE AskDelete(p)
  BY <1>4, <1>2 DEF AskDelete
<1>5. CASE BeginRestore(p)
  BY <1>5, <1>2 DEF BeginRestore
<1>6. CASE List(p)
  BY <1>6, <1>2, ListForm
<1>7. CASE Wipe(p)
  BY <1>1, <1>7, <1>2, <1>3, WipeForm, LeftForm
<1>8. CASE Fill(p)
  BY <1>1, <1>8, <1>2, <1>3, FillForm, LeftForm
<1>9. CASE BeginSave(p)
  BY <1>9, <1>2 DEF BeginSave
<1>10. CASE Upsert(p)
  BY <1>10, <1>2 DEF Upsert, Finishes
<1> QED BY <1>4, <1>5, <1>6, <1>7, <1>8, <1>9, <1>10

LEMMA MarkRuns ==
  ASSUME RestoreTypeOK, MarkOnce, NEW p \in Worker,
         BeginExport(p) \/ Export(p) \/ Store(p) \/ Delete(p)
  PROVE  MarkOnce'
<1>1. Scheduler \in Worker /\ task \in [Worker -> Task] /\ ran \in Nat /\ NoTask \in Task /\ NoTask.pc = "idle"
  BY RestoreConsts DEF RestoreTypeOK, NoTask
<1>2. ASSUME NEW j, Takes(p, j)
      PROVE  /\ task'[p] = j /\ (p # Scheduler => task'[Scheduler] = task[Scheduler])
  BY <1>1, <1>2 DEF Takes
<1>3. CASE BeginExport(p)
  <2>1. [NoTask EXCEPT !.pc = "export", !.todo = DOMAIN Coll].pc = "export"
    BY <1>1 DEF Task
  <2>2. UNCHANGED schedule /\ (p = Scheduler => lastRun # day /\ On(Scheduler, "idle"))
    BY <1>3 DEF BeginExport, ShouldRun
  <2>3. IF p = Scheduler THEN task'[Scheduler].pc = "export" ELSE task'[Scheduler] = task[Scheduler]
    BY <1>2, <1>3, <2>1 DEF BeginExport
  <2> QED BY <2>2, <2>3, <1>1 DEF MarkOnce, schedule, On
<1>4. CASE Export(p)
  <2>1. UNCHANGED schedule /\ task[p].pc = "export"
    BY <1>4 DEF Export, On
  <2>2. task'[p].pc \in {"idle", "export", "store"} /\ (p # Scheduler => task'[Scheduler] = task[Scheduler])
    <3>1. CASE CallFails /\ Finishes(p)
      BY <3>1, <1>1, <1>2 DEF Finishes
    <3>2. ASSUME NEW n \in DOMAIN Coll,
                 Takes(p, [task[p] EXCEPT !.doc = Exports(p, n), !.todo = task[p].todo \ {n},
                                   !.pc = IF task[p].todo \ {n} = {} THEN "store" ELSE "export"])
          PROVE  task'[p].pc \in {"idle", "export", "store"} /\ (p # Scheduler => task'[Scheduler] = task[Scheduler])
      <4>1. task'[p] = [task[p] EXCEPT !.doc = Exports(p, n), !.todo = task[p].todo \ {n},
                                   !.pc = IF task[p].todo \ {n} = {} THEN "store" ELSE "export"]
            /\ (p # Scheduler => task'[Scheduler] = task[Scheduler])
        BY <1>2, <3>2
      <4>2. task[p] \in Task
        BY <1>1
      <4> QED BY <4>1, <4>2 DEF Task
    <3> QED BY <1>4, <3>1, <3>2 DEF Export
  <2> QED BY <2>1, <2>2 DEF MarkOnce, schedule, On
<1>5. CASE Store(p)
  <2>1. day' = day /\ lastRun' = lastRun /\ marked' = marked /\ task[p].pc = "store"
    BY <1>5 DEF Store, On
  <2>2. \/ ran' = ran /\ task'[p].pc = "idle"
        \/ p = Scheduler /\ ran' = ran + 1 /\ task'[p].pc = "touch"
    <3>1. [NoTask EXCEPT !.pc = "touch"].pc = "touch"
      BY <1>1 DEF Task
    <3> QED BY <1>1, <1>2, <1>5, <3>1 DEF Store, Finishes
  <2>3. p # Scheduler => task'[Scheduler] = task[Scheduler]
    BY <1>2, <1>5 DEF Store, Finishes
  <2> QED BY <1>1, <2>1, <2>2, <2>3 DEF MarkOnce, On
<1>6. CASE Delete(p)
  <2>1. UNCHANGED schedule /\ task[p].pc = "delete"
    BY <1>6 DEF Delete, On
  <2>2. PICK i \in Archives : IF task[p].todo \ {i} = {} THEN Finishes(p)
                              ELSE Takes(p, [task[p] EXCEPT !.todo = task[p].todo \ {i}])
    BY <1>6 DEF Delete
  <2>3. task'[p].pc \in {"idle", "delete"} /\ (p # Scheduler => task'[Scheduler] = task[Scheduler])
    <3>1. [task[p] EXCEPT !.todo = task[p].todo \ {i}].pc = "delete"
      BY <1>1, <2>1 DEF Task
    <3> QED BY <1>1, <1>2, <2>2, <3>1 DEF Finishes
  <2> QED BY <2>1, <2>3, MarkStays
<1> QED BY <1>3, <1>4, <1>5, <1>6

LEMMA MarkStep ==
  RestoreTypeOK /\ MarkOnce /\ [RestoreNext]_restoreVars => MarkOnce'
<1> SUFFICES ASSUME RestoreTypeOK, MarkOnce, [RestoreNext]_restoreVars  PROVE MarkOnce'
  OBVIOUS
<1>1. Scheduler \in Worker /\ NoTask \in Task /\ NoTask.pc = "idle" /\ task[Scheduler] \in Task
  BY RestoreConsts DEF NoTask, RestoreTypeOK
<1>2. ASSUME NEW p \in Worker, BeginExport(p) \/ Export(p) \/ Store(p) \/ Delete(p)
      PROVE  MarkOnce'
  BY <1>2, MarkRuns
<1>3. ASSUME NEW p \in User,
             AskDelete(p) \/ BeginRestore(p) \/ List(p) \/ Wipe(p) \/ Fill(p) \/ BeginSave(p)
      PROVE  MarkOnce'
  <2>1. UNCHANGED schedule
    BY <1>3 DEF AskDelete, BeginRestore, List, Wipe, Fill, BeginSave
  <2>2. p # Scheduler
    BY RestoreAssumption
  <2> QED BY <1>1, <1>3, <2>1, <2>2, Elsewhere, MarkStays
<1>4. ASSUME NEW p \in User, Upsert(p)  PROVE MarkOnce'
  <2>1. task'[Scheduler].pc = task[Scheduler].pc
    BY <1>1, <1>4, Elsewhere, RestoreAssumption
  <2> QED BY <1>4, <2>1 DEF Upsert, MarkOnce, On
<1>5. CASE Touch
  <2>1. task'[Scheduler].pc = "retain"
    BY <1>1, <1>5 DEF Touch, Takes, RestoreTypeOK, Task
  <2> QED BY <1>5, <2>1 DEF Touch, MarkOnce, On
<1>6. CASE Retain
  <2>1. task[Scheduler].pc = "retain" /\ UNCHANGED schedule
    BY <1>6 DEF Retain, On
  <2>2. task'[Scheduler].pc \in {"idle", "delete"}
    <3> DEFINE S == Expendable(Scheduled)
    <3>1. IF S = {} THEN Takes(Scheduler, NoTask)
          ELSE Takes(Scheduler, [NoTask EXCEPT !.pc = "delete", !.todo = S])
      BY <1>6 DEF Retain, Finishes
    <3> HIDE DEF S
    <3>2. [NoTask EXCEPT !.pc = "delete", !.todo = S].pc = "delete"
      BY <1>1 DEF Task
    <3> QED BY <1>1, <3>1, <3>2 DEF Takes, RestoreTypeOK
  <2> QED BY <2>1, <2>2, MarkStays
<1>7. CASE DeleteSchedule
  BY <1>7 DEF DeleteSchedule, MarkOnce, On
<1>8. CASE Edit
  <2>1. task'[Scheduler].pc = task[Scheduler].pc
    BY <1>1, <1>8, Disturbed DEF Edit
  <2> QED BY <1>8, <2>1, MarkStays DEF Edit
<1>9. CASE Midnight
  BY <1>9 DEF Midnight, MarkOnce
<1>10. CASE Reboot
  BY <1>1, <1>10 DEF Reboot, MarkOnce, On
<1>11. CASE UNCHANGED restoreVars
  BY <1>11 DEF restoreVars, MarkOnce, On
<1> QED BY <1>2, <1>3, <1>4, <1>5, <1>6, <1>7, <1>8, <1>9, <1>10, <1>11 DEF RestoreNext

(* The scheduler runs a schedule once a day at most (backup.go:1589,        *)
(* ShouldRun), unless its mark failed, was cut off or was overwritten.     *)
THEOREM RunsOnceADay == RestoreSpec => []OncePerDay
<1>1. RestoreInit => MarkOnce
  BY RestoreConsts DEF RestoreInit, MarkOnce, NoTask
<1>2. RestoreTypeOK /\ MarkOnce => OncePerDay
  BY DEF RestoreTypeOK, MarkOnce, OncePerDay
<1> QED BY RestoreTypeCorrect, <1>1, <1>2, MarkStep, PTL DEF RestoreSpec
\* A step that leaves the database alone and gives p a task that is no restore.
LEMMA PlainTakes ==
  ASSUME RestoreTypeOK, RestoredSoFar, NEW p \in Worker, NEW j, Takes(p, j),
         j.pc \notin {"list", "wipe", "fill"}, db' = db
  PROVE  RestoredSoFar'
<1>1. task'[p] = j /\ \A q \in Worker \ {p} : task'[q] = task[q]
  BY DEF Takes, RestoreTypeOK
<1>2. Promise(p)'
  BY <1>1 DEF Promise, Restoring
<1>3. ASSUME NEW q \in Worker \ {p}  PROVE Promise(q)'
  BY <1>1 DEF RestoredSoFar, Promise, Restoring
<1> QED BY <1>2, <1>3 DEF RestoredSoFar

\* The promise of a restore beside a write of record r.
LEMMA PromiseDisturbed ==
  ASSUME RestoreTypeOK, NEW q \in Worker, Promise(q), NEW r \in Record,
         task'[q] = IF Restoring(q) THEN [task[q] EXCEPT !.mixed = @ \cup {r}] ELSE task[q],
         \A s \in Record \ {r} : db'[s] = db[s]
  PROVE  Promise(q)'
<1>1. CASE ~Restoring(q)
  BY <1>1 DEF Promise, Restoring
<1>2. CASE Restoring(q)
  <2> DEFINE j == task[q]
             k == [task[q] EXCEPT !.mixed = @ \cup {r}]
  <2>1. /\ k.pc = j.pc /\ k.doc = j.doc /\ k.todo = j.todo /\ k.left = j.left /\ k.sel = j.sel
        /\ k.before = j.before /\ k.mixed = j.mixed \cup {r} /\ task'[q] = k
    BY <1>2, Disturbed
  <2>2. InOrder(j) /\ \A s \in Record \ j.mixed : Settled(j, s, db[s])
    BY <1>2 DEF Promise
  <2> HIDE DEF j, k
  <2>3. InOrder(k)
    BY <2>1, <2>2 DEF InOrder, Now
  <2>4. ASSUME NEW s \in Record \ k.mixed  PROVE Settled(k, s, db'[s])
    <3>1. s \in Record \ j.mixed /\ db'[s] = db[s]
      BY <2>1, <2>4
    <3>2. Settled(j, s, db[s])
      BY <2>2, <3>1
    <3>3. Expected(k, s) = Expected(j, s) /\ Later(k, s) = Later(j, s) /\ Now(k, s) = Now(j, s)
      BY <2>1 DEF Expected, Later, Now
    <3> QED BY <2>1, <3>1, <3>2, <3>3 DEF Settled
  <2> QED BY <2>1, <2>3, <2>4 DEF Promise
<1> QED BY <1>1, <1>2

LEMMA RestoredPlain ==
  ASSUME RestoreTypeOK, RestoredSoFar, NEW p \in Worker,
         BeginExport(p) \/ Export(p) \/ Store(p) \/ Delete(p)
  PROVE  RestoredSoFar'
<1>1. NoTask \in Task /\ NoTask.pc = "idle" /\ task[p] \in Task
  BY RestoreConsts DEF NoTask, RestoreTypeOK
<1>2. CASE Finishes(p) /\ db' = db
  BY <1>1, <1>2, PlainTakes DEF Finishes
<1>3. CASE BeginExport(p)
  <2>1. [NoTask EXCEPT !.pc = "export", !.todo = DOMAIN Coll].pc = "export"
    BY <1>1 DEF Task
  <2> QED BY <1>3, <2>1, PlainTakes DEF BeginExport
<1>4. ASSUME NEW n \in DOMAIN Coll, db' = db,
             Takes(p, [task[p] EXCEPT !.doc = Exports(p, n), !.todo = task[p].todo \ {n},
                               !.pc = IF task[p].todo \ {n} = {} THEN "store" ELSE "export"])
      PROVE  RestoredSoFar'
  <2> DEFINE j == [task[p] EXCEPT !.doc = Exports(p, n), !.todo = task[p].todo \ {n},
                               !.pc = IF task[p].todo \ {n} = {} THEN "store" ELSE "export"]
  <2>1. j.pc \in {"store", "export"}
    BY <1>1 DEF Task
  <2> QED BY <1>4, <2>1, PlainTakes
<1>5. CASE Store(p)
  <2>1. [NoTask EXCEPT !.pc = "touch"].pc = "touch"
    BY <1>1 DEF Task
  <2> QED BY <1>2, <1>5, <2>1, PlainTakes DEF Store
<1>6. CASE Delete(p)
  <2>1. PICK i \in Archives : IF task[p].todo \ {i} = {} THEN Finishes(p)
                              ELSE Takes(p, [task[p] EXCEPT !.todo = task[p].todo \ {i}])
    BY <1>6 DEF Delete
  <2>2. [task[p] EXCEPT !.todo = task[p].todo \ {i}].pc = "delete"
    BY <1>1, <1>6 DEF Task, Delete, On
  <2> QED BY <1>2, <1>6, <2>1, <2>2, PlainTakes DEF Delete
<1>7. CASE Export(p)
  BY <1>2, <1>4, <1>7 DEF Export
<1> QED BY <1>3, <1>5, <1>6, <1>7

LEMMA RestoredAsked ==
  ASSUME RestoreTypeOK, RestoredSoFar, NEW p \in User,
         AskDelete(p) \/ BeginSave(p) \/ Upsert(p)
  PROVE  RestoredSoFar'
<1>1. NoTask \in Task /\ NoTask.pc = "idle" /\ p \in Worker
  BY RestoreConsts DEF NoTask
<1>2. CASE AskDelete(p)
  <2>1. PICK i \in Archives : Takes(p, [NoTask EXCEPT !.pc = "delete", !.todo = {i}])
    BY <1>2 DEF AskDelete
  <2>2. [NoTask EXCEPT !.pc = "delete", !.todo = {i}].pc = "delete"
    BY <1>1 DEF Task
  <2> QED BY <1>1, <1>2, <2>1, <2>2, PlainTakes DEF AskDelete
<1>3. CASE BeginSave(p)
  <2> DEFINE n == IF lastRun = Absent THEN 0 ELSE lastRun
  <2>1. Takes(p, [NoTask EXCEPT !.pc = "upsert", !.saw = n]) /\ db' = db
    BY <1>3 DEF BeginSave
  <2> HIDE DEF n
  <2>2. [NoTask EXCEPT !.pc = "upsert", !.saw = n].pc = "upsert"
    BY <1>1 DEF Task
  <2> QED BY <1>1, <2>1, <2>2, PlainTakes
<1>4. CASE Upsert(p)
  BY <1>1, <1>4, PlainTakes DEF Upsert, Finishes
<1> QED BY <1>2, <1>3, <1>4

LEMMA RestoredBegun ==
  ASSUME RestoreTypeOK, RestoredSoFar, NEW p \in User, BeginRestore(p)  PROVE RestoredSoFar'
<1>1. PICK j \in Task : /\ Takes(p, j) /\ j.pc = "list" /\ j.before = db
                        /\ j.todo = Places(j.sel) /\ j.mixed = {}
  BY BegunForm
<1>2. p \in Worker /\ db' = db
  BY RestoreConsts DEF BeginRestore
<1>3. task'[p] = j /\ \A q \in Worker \ {p} : task'[q] = task[q]
  BY <1>1, <1>2 DEF Takes, RestoreTypeOK
<1>4. ASSUME NEW q \in Worker \ {p}  PROVE Promise(q)'
  BY <1>2, <1>3 DEF RestoredSoFar, Promise, Restoring
<1>5. InOrder(j)
  BY <1>1 DEF InOrder
<1>6. ASSUME NEW r \in Record  PROVE Settled(j, r, db[r])
  <2>1. ~Now(j, r)
    BY <1>1 DEF Now
  <2>2. CASE Later(j, r)
    BY <1>1, <2>1, <2>2 DEF Settled
  <2>3. CASE ~Later(j, r)
    <3>1. Component[r] \in Comps
      BY RestoreAssumption DEF Comps
    <3>2. Component[r] \notin j.sel
      BY <1>1, <2>3, <3>1 DEF Later, Places, Comps
    <3> QED BY <1>1, <2>1, <2>3, <3>2 DEF Settled, Expected
  <2> QED BY <2>2, <2>3
<1>7. Promise(p)'
  BY <1>2, <1>3, <1>5, <1>6 DEF Promise
<1> QED BY <1>4, <1>7 DEF RestoredSoFar

\* Everybody else's promise beside a write of record r by p.
LEMMA OthersMixed ==
  ASSUME RestoreTypeOK, RestoredSoFar, NEW p \in Worker, NEW j \in Task, NEW r \in Record,
         Disturb(p, j, r), \A s \in Record \ {r} : db'[s] = db[s]
  PROVE  task'[p] = j /\ \A q \in Worker \ {p} : Promise(q)'
<1>1. task'[p] = j /\ \A q \in Worker \ {p} :
        task'[q] = IF Restoring(q) THEN [task[q] EXCEPT !.mixed = @ \cup {r}] ELSE task[q]
  BY TurnedOver
<1>2. ASSUME NEW q \in Worker \ {p}  PROVE Promise(q)'
  BY <1>1, PromiseDisturbed DEF RestoredSoFar
<1> QED BY <1>1, <1>2

\* A write that ends the restore.
LEMMA RestoredAborts ==
  ASSUME RestoreTypeOK, RestoredSoFar, NEW p \in Worker, NEW r \in Record, Disturb(p, NoTask, r),
         \A s \in Record \ {r} : db'[s] = db[s]
  PROVE  RestoredSoFar'
<1>1. NoTask \in Task /\ NoTask.pc = "idle"
  BY RestoreConsts DEF NoTask
<1>2. task'[p] = NoTask /\ \A q \in Worker \ {p} : Promise(q)'
  BY <1>1, OthersMixed
<1>3. Promise(p)'
  BY <1>1, <1>2 DEF Promise, Restoring
<1> QED BY <1>2, <1>3 DEF RestoredSoFar

\* The places that come first are one place.
LEMMA OnePlace ==
  ASSUME NEW j \in Task, NEW n \in j.todo, \A m \in j.todo : n <= m,
         j.pc \in {"wipe", "fill"}, NEW r \in Record
  PROVE  /\ Now(j, r) <=> Component[r] = Coll[n]
         /\ Now(j, r) => Later(j, r)
         /\ Later(j, r) /\ ~Now(j, r) => \E m \in j.todo \ {n} : Coll[m] = Component[r]
<1>1. ASSUME NEW m \in j.todo, \A i \in j.todo : m <= i  PROVE m = n
  <2>1. m \in Nat /\ n \in Nat /\ m <= n /\ n <= m
    BY <1>1 DEF Task
  <2> QED BY <2>1
<1>2. Now(j, r) <=> Component[r] = Coll[n]
  BY <1>1 DEF Now
<1> QED BY <1>2 DEF Now, Later

\* A step of p's restore that writes nothing.
LEMMA RestoredMoves ==
  ASSUME RestoreTypeOK, RestoredSoFar, NEW p \in Worker, NEW j \in Task, Takes(p, j), db' = db,
         InOrder(j), \A r \in Record \ j.mixed : Settled(j, r, db[r])
  PROVE  RestoredSoFar'
<1>1. task'[p] = j /\ \A q \in Worker \ {p} : task'[q] = task[q]
  BY DEF Takes, RestoreTypeOK
<1>2. Promise(p)'
  BY <1>1 DEF Promise
<1>3. ASSUME NEW q \in Worker \ {p}  PROVE Promise(q)'
  BY <1>1 DEF RestoredSoFar, Promise, Restoring
<1> QED BY <1>2, <1>3 DEF RestoredSoFar

LEMMA RestoredListed ==
  ASSUME RestoreTypeOK, RestoredSoFar, NEW p \in User, List(p)  PROVE RestoredSoFar'
<1>1. /\ p \in Worker /\ NoTask.pc = "idle" /\ task[p] \in Task /\ task[p].pc = "list"
      /\ db' = db
  BY RestoreConsts DEF NoTask, RestoreTypeOK, List, On
<1>2. CASE Takes(p, NoTask)
  BY <1>1, <1>2, PlainTakes
<1>3. ASSUME NEW n \in DOMAIN Coll, NEW j \in Task, Foremost(p, n), Takes(p, j),
             GoesOn(p, j, "wipe", ToDelete(n))
      PROVE  RestoredSoFar'
  <2> DEFINE S == ToDelete(n)
  <2>1. S \subseteq Record /\ \A r \in Record : r \in S <=> r \in Wiped /\ Component[r] = Coll[n]
                                                          /\ db[r] # None
    BY RestoreAssumption DEF ToDelete
  <2>2. Takes(p, j)
    BY <1>3
  <2> HIDE DEF S
  <2>3. /\ j \in Task /\ j.pc = "wipe" /\ j.left = S /\ j.doc = task[p].doc
        /\ j.todo = task[p].todo /\ j.sel = task[p].sel /\ j.before = task[p].before
        /\ j.mixed = task[p].mixed
    BY <1>3 DEF GoesOn, S
  <2>4. InOrder(task[p]) /\ \A r \in Record \ j.mixed : Settled(task[p], r, db[r])
    BY <1>1, <2>3 DEF RestoredSoFar, Promise, Restoring
  <2>5. n \in j.todo /\ \A m \in j.todo : n <= m
    BY <1>3, <2>3 DEF Foremost
  <2>6. \A r \in Record : Now(j, r) <=> Component[r] = Coll[n]
    BY <2>3, <2>5, OnePlace
  <2>7. InOrder(j)
    BY <2>1, <2>3, <2>4, <2>6 DEF InOrder
  <2>8. ASSUME NEW r \in Record \ j.mixed  PROVE Settled(j, r, db[r])
    <3>1. /\ Expected(j, r) = Expected(task[p], r) /\ Later(j, r) = Later(task[p], r)
          /\ ~Now(task[p], r)
      BY <1>1, <2>3 DEF Expected, Later, Now
    <3>2. Settled(task[p], r, db[r])
      BY <2>4
    <3>3. Now(j, r) => Later(j, r)
      BY <2>3, <2>5, OnePlace
    <3>4. Later(j, r) => db[r] \in {j.before[r], Expected(j, r)}
      BY <2>3, <3>1, <3>2 DEF Settled
    <3>5. ~Later(j, r) => db[r] = Expected(j, r)
      BY <3>1, <3>2 DEF Settled
    <3>6. Now(j, r) /\ r \notin j.left /\ r \in Wiped => db[r] = None
      BY <2>1, <2>3, <2>6
    <3> QED BY <2>3, <3>3, <3>4, <3>5, <3>6 DEF Settled
  <2> QED BY <1>1, <2>2, <2>3, <2>7, <2>8, RestoredMoves
<1> QED BY <1>2, <1>3, ListForm

\* A restore's own write to record r of its component: v is there now.
LEMMA RestoredWrites ==
  ASSUME RestoreTypeOK, RestoredSoFar, NEW p \in Worker, task[p].pc \in {"wipe", "fill"},
         NEW r \in task[p].left, Disturb(p, [task[p] EXCEPT !.left = @ \ {r}], r),
         db' = [db EXCEPT ![r] = IF task[p].pc = "fill" THEN task[p].doc[r] ELSE None]
  PROVE  RestoredSoFar'
<1> DEFINE i == task[p]
           j == [task[p] EXCEPT !.left = @ \ {r}]
<1>1. i \in Task /\ r \in Record /\ i.left \subseteq Record /\ db \in Docs
  BY DEF RestoreTypeOK, Task
<1>2. /\ j \in Task /\ j.pc = i.pc /\ j.left = i.left \ {r} /\ j.doc = i.doc /\ j.todo = i.todo
      /\ j.sel = i.sel /\ j.before = i.before /\ j.mixed = i.mixed /\ Disturb(p, j, r)
  BY <1>1, LeftForm
<1>3. InOrder(i) /\ \A s \in Record \ i.mixed : Settled(i, s, db[s])
  BY DEF RestoredSoFar, Promise, Restoring
<1>4. \A s \in Record \ {r} : db'[s] = db[s]
  BY <1>1 DEF Docs
<1>5. db'[r] = IF i.pc = "fill" THEN i.doc[r] ELSE None
  BY <1>1 DEF Docs
<1>6. task'[p] = j /\ \A q \in Worker \ {p} : Promise(q)'
  BY <1>1, <1>2, <1>4, OthersMixed
<1>7. i.pc \in {"wipe", "fill"} /\ r \in i.left
  OBVIOUS
<1> HIDE DEF i, j
<1>8. InOrder(j)
  BY <1>2, <1>3 DEF InOrder, Now
<1>9. ASSUME NEW s \in Record \ j.mixed  PROVE Settled(j, s, db'[s])
  <2>1. /\ Expected(j, s) = Expected(i, s) /\ Later(j, s) = Later(i, s) /\ Now(j, s) = Now(i, s)
    BY <1>2 DEF Expected, Later, Now
  <2>2. Settled(i, s, db[s])
    BY <1>2, <1>3
  <2>3. CASE s # r
    <3>1. db'[s] = db[s] /\ (s \in j.left <=> s \in i.left)
      BY <1>2, <1>4, <2>3
    <3> QED BY <1>2, <2>1, <2>2, <3>1 DEF Settled
  <2>4. CASE s = r
    <3>1. Now(i, r) /\ Later(i, r)
      BY <1>3, <1>7 DEF InOrder, Now, Later
    <3>2. Component[r] \in i.sel
      BY <1>3, <3>1 DEF InOrder, Later, Places
    <3>3. i.pc = "fill" => i.doc[r] # None
      BY <1>3, <1>7 DEF InOrder
    <3>4. i.pc = "fill" => db'[r] = Expected(i, r)
      BY <1>5, <3>2, <3>3 DEF Expected
    <3>5. i.pc = "wipe" => db'[r] = None /\ r \in Wiped
      BY <1>3, <1>5, <1>7 DEF InOrder
    <3> QED BY <1>2, <1>7, <2>1, <2>4, <3>1, <3>4, <3>5 DEF Settled
  <2> QED BY <2>3, <2>4
<1>10. Promise(p)'
  BY <1>6, <1>8, <1>9 DEF Promise
<1> QED BY <1>6, <1>10 DEF RestoredSoFar

LEMMA RestoredWiped ==
  ASSUME RestoreTypeOK, RestoredSoFar, NEW p \in User, Wipe(p)  PROVE RestoredSoFar'
<1>0. None \in 0 .. MaxEdits + 1
  BY RestoreAssumption DEF None
<1>1. p \in Worker /\ task[p] \in Task /\ task[p].pc = "wipe" /\ task[p].left \subseteq Record
  BY RestoreConsts DEF RestoreTypeOK, Wipe, On, Task
<1>2. ASSUME NEW r \in task[p].left, db' = [db EXCEPT ![r] = None],
             Disturb(p, [task[p] EXCEPT !.left = @ \ {r}], r)
      PROVE  RestoredSoFar'
  BY <1>1, <1>2, RestoredWrites
<1>3. ASSUME NEW r \in task[p].left, db' \in {db, [db EXCEPT ![r] = None]}, Disturb(p, NoTask, r)
      PROVE  RestoredSoFar'
  BY <1>0, <1>1, <1>3, Written, RestoredAborts
<1>4. ASSUME NEW n \in DOMAIN Coll, NEW j \in Task, task[p].left = {}, Foremost(p, n), db' = db,
             Takes(p, j), GoesOn(p, j, "fill", ToWrite(p, n))
      PROVE  RestoredSoFar'
  <2> DEFINE i == task[p]
             S == {r \in Record : Component[r] = Coll[n] /\ i.doc[r] # None}
  <2>1. /\ j \in Task /\ j.pc = "fill" /\ j.left = S /\ j.doc = i.doc /\ j.todo = i.todo
        /\ j.sel = i.sel /\ j.before = i.before /\ j.mixed = i.mixed /\ Takes(p, j)
    BY <1>4 DEF GoesOn, ToWrite
  <2>2. InOrder(i) /\ \A r \in Record \ i.mixed : Settled(i, r, db[r])
    BY <1>1 DEF RestoredSoFar, Promise, Restoring
  <2>3. i.pc = "wipe" /\ i \in Task /\ i.left = {} /\ n \in i.todo /\ \A m \in i.todo : n <= m
    BY <1>1, <1>4 DEF Foremost
  <2> HIDE DEF i
  <2>4. \A r \in Record : Now(j, r) <=> Component[r] = Coll[n]
    BY <2>1, <2>3, OnePlace
  <2>5. \A r \in Record : r \in j.left <=> Now(j, r) /\ j.doc[r] # None
    BY <2>1, <2>4
  <2>6. InOrder(j)
    BY <2>1, <2>2, <2>5 DEF InOrder
  <2>7. ASSUME NEW r \in Record \ j.mixed  PROVE Settled(j, r, db[r])
    <3>1. /\ Expected(j, r) = Expected(i, r) /\ Later(j, r) = Later(i, r) /\ Now(j, r) = Now(i, r)
      BY <2>1, <2>3 DEF Expected, Later, Now
    <3>2. Settled(i, r, db[r])
      BY <2>1, <2>2
    <3>3. ASSUME Now(j, r), r \notin j.left  PROVE db[r] = Expected(j, r)
      <4>1. j.doc[r] = None
        BY <2>5, <3>3
      <4>2. Component[r] \in j.sel
        BY <2>6, <3>3 DEF InOrder, Now, Places
      <4>3. IF r \in Wiped THEN db[r] = None ELSE db[r] \in {i.before[r], Expected(i, r)}
        BY <2>3, <3>1, <3>2, <3>3 DEF Settled
      <4> QED BY <2>1, <3>1, <4>1, <4>2, <4>3 DEF Expected
    <3> QED BY <2>1, <3>1, <3>2, <3>3 DEF Settled
  <2> QED BY <1>1, <1>4, <2>1, <2>6, <2>7, RestoredMoves
<1> QED BY <1>2, <1>3, <1>4, WipeForm

\* The end of a component: all of it is as expected.
LEMMA RestoredEnds ==
  ASSUME RestoreTypeOK, RestoredSoFar, NEW p \in User, On(p, "fill"), task[p].left = {},
         NEW n \in DOMAIN Coll, Foremost(p, n), Takes(p, Filled(p, n)), db' = db
  PROVE  /\ RestoredSoFar'
         /\ task'[p] = NoTask =>
              \A r \in Record \ task[p].mixed : db'[r] = Expected(task[p], r)
<1> DEFINE i == task[p]
           j == Filled(p, n)
<1>1. p \in Worker /\ NoTask.pc = "idle" /\ i \in Task /\ i.pc = "fill" /\ i.left = {}
      /\ n \in Nat /\ n \in i.todo /\ \A m \in i.todo : n <= m
  BY RestoreConsts DEF NoTask, RestoreTypeOK, On, Foremost
<1>2. /\ j \in Task /\ j.pc \in {"idle", "list"} /\ Takes(p, j)
      /\ j.pc = "list" => /\ j.todo = i.todo \ {n} /\ j.sel = i.sel /\ j.doc = i.doc
                          /\ j.before = i.before /\ j.mixed = i.mixed
      /\ j.pc = "idle" => i.todo \subseteq {n}
  BY <1>1, FilledForm
<1>3. InOrder(i) /\ \A r \in Record \ i.mixed : Settled(i, r, db[r])
  BY <1>1 DEF RestoredSoFar, Promise, Restoring
<1>4. task'[p] = j
  BY <1>1, <1>2 DEF Takes, RestoreTypeOK
<1> HIDE DEF i, j
<1>5. ASSUME NEW r \in Record \ i.mixed
      PROVE  /\ db[r] \in {i.before[r], Expected(i, r)}
             /\ ~(\E m \in i.todo \ {n} : Coll[m] = Component[r]) => db[r] = Expected(i, r)
  <2>1. Settled(i, r, db[r]) /\ (Now(i, r) => Later(i, r))
    BY <1>1, <1>3, OnePlace
  <2>2. Later(i, r) /\ ~Now(i, r) => \E m \in i.todo \ {n} : Coll[m] = Component[r]
    BY <1>1, OnePlace
  <2> QED BY <1>1, <2>1, <2>2 DEF Settled
<1>6. CASE j.pc = "idle"
  <2>1. RestoredSoFar'
    BY <1>1, <1>2, <1>6, PlainTakes
  <2>2. \A r \in Record \ i.mixed : db[r] = Expected(i, r)
    BY <1>2, <1>5, <1>6
  <2> QED BY <2>1, <2>2 DEF i
<1>7. CASE j.pc = "list"
  <2>1. InOrder(j)
    BY <1>2, <1>3, <1>7 DEF InOrder
  <2>2. ASSUME NEW r \in Record \ j.mixed  PROVE Settled(j, r, db[r])
    <3>1. Expected(j, r) = Expected(i, r) /\ ~Now(j, r)
      BY <1>2, <1>7 DEF Expected, Now
    <3>2. Later(j, r) <=> \E m \in i.todo \ {n} : Coll[m] = Component[r]
      BY <1>2, <1>7 DEF Later
    <3> QED BY <1>2, <1>5, <1>7, <3>1, <3>2 DEF Settled
  <2>3. RestoredSoFar'
    BY <1>1, <1>2, <2>1, <2>2, RestoredMoves
  <2>4. task'[p] # NoTask
    BY <1>1, <1>4, <1>7
  <2> QED BY <2>3, <2>4
<1> QED BY <1>2, <1>6, <1>7

LEMMA RestoredFilled ==
  ASSUME RestoreTypeOK, RestoredSoFar, NEW p \in User, Fill(p)
  PROVE  /\ RestoredSoFar'
         /\ Completes(p) => \A r \in Record \ task[p].mixed : db'[r] = Expected(task[p], r)
<1>1. /\ p \in Worker /\ NoTask \in Task /\ NoTask.pc = "idle" /\ task[p] \in Task
      /\ On(p, "fill") /\ task[p].pc = "fill" /\ task[p].left \subseteq Record
      /\ \A r \in Record : task[p].doc[r] \in 0 .. MaxEdits + 1
  BY RestoreConsts DEF NoTask, RestoreTypeOK, Fill, On, Task, Docs
<1>2. ASSUME NEW r \in task[p].left, db' = [db EXCEPT ![r] = task[p].doc[r]],
             Disturb(p, [task[p] EXCEPT !.left = @ \ {r}], r)
      PROVE  RestoredSoFar'
  BY <1>1, <1>2, RestoredWrites
<1>3. ASSUME NEW r \in task[p].left, db' \in {db, [db EXCEPT ![r] = task[p].doc[r]]},
             Disturb(p, NoTask, r)
      PROVE  RestoredSoFar'
  BY <1>1, <1>3, Written, RestoredAborts
<1>4. ASSUME task[p].left # {}, Takes(p, NoTask), UNCHANGED <<db, used>>
      PROVE  RestoredSoFar'
  BY <1>1, <1>4, PlainTakes
<1>5. ASSUME NEW n \in DOMAIN Coll, task[p].left = {}, Foremost(p, n), Takes(p, Filled(p, n)),
             UNCHANGED <<db, used>>
      PROVE  /\ RestoredSoFar'
             /\ Completes(p) => \A r \in Record \ task[p].mixed : db'[r] = Expected(task[p], r)
  BY <1>1, <1>5, RestoredEnds DEF Completes
<1>6. task[p].left # {} => ~Completes(p)
  BY DEF Completes
<1> QED BY <1>2, <1>3, <1>4, <1>5, <1>6, FillForm

LEMMA RestoredOutside ==
  ASSUME RestoreTypeOK, RestoredSoFar,
         Touch \/ Retain \/ DeleteSchedule \/ Edit \/ Midnight \/ Reboot \/ UNCHANGED restoreVars
  PROVE  RestoredSoFar'
<1>1. NoTask \in Task /\ NoTask.pc = "idle" /\ Scheduler \in Worker
  BY RestoreConsts DEF NoTask
<1>2. CASE Touch
  <2>1. [NoTask EXCEPT !.pc = "retain"].pc = "retain"
    BY <1>1 DEF Task
  <2> QED BY <1>1, <1>2, <2>1, PlainTakes DEF Touch
<1>3. CASE Retain
  <2> DEFINE S == Expendable(Scheduled)
  <2>1. (IF S = {} THEN Takes(Scheduler, NoTask)
         ELSE Takes(Scheduler, [NoTask EXCEPT !.pc = "delete", !.todo = S])) /\ db' = db
    BY <1>3 DEF Retain, Finishes
  <2> HIDE DEF S
  <2>2. [NoTask EXCEPT !.pc = "delete", !.todo = S].pc = "delete"
    BY <1>1 DEF Task
  <2> QED BY <1>1, <2>1, <2>2, PlainTakes
<1>4. CASE Edit
  <2>1. PICK r \in Record, v \in {None, used.edits + 2} :
          /\ db' = [db EXCEPT ![r] = v]
          /\ task' = [q \in Worker |-> IF Restoring(q) THEN [task[q] EXCEPT !.mixed = @ \cup {r}]
                                                       ELSE task[q]]
    BY <1>4 DEF Edit
  <2>2. \A s \in Record \ {r} : db'[s] = db[s]
    BY <2>1 DEF RestoreTypeOK, Docs
  <2>3. ASSUME NEW q \in Worker  PROVE Promise(q)'
    BY <2>1, <2>2, PromiseDisturbed DEF RestoredSoFar
  <2> QED BY <2>3 DEF RestoredSoFar
<1>5. CASE Reboot
  BY <1>1, <1>5 DEF Reboot, RestoredSoFar, Promise, Restoring
<1>6. CASE DeleteSchedule \/ Midnight \/ UNCHANGED restoreVars
  BY <1>6 DEF DeleteSchedule, Midnight, restoreVars, RestoredSoFar, Promise, Restoring
<1> QED BY <1>2, <1>3, <1>4, <1>5, <1>6
LEMMA RestoredStep ==
  RestoreTypeOK /\ RestoredSoFar /\ [RestoreNext]_restoreVars => RestoredSoFar'
<1> SUFFICES ASSUME RestoreTypeOK, RestoredSoFar, [RestoreNext]_restoreVars  PROVE RestoredSoFar'
  OBVIOUS
<1>1. ASSUME NEW p \in Worker, BeginExport(p) \/ Export(p) \/ Store(p) \/ Delete(p)
      PROVE  RestoredSoFar'
  BY <1>1, RestoredPlain
<1>2. ASSUME NEW p \in User, AskDelete(p) \/ BeginSave(p) \/ Upsert(p)  PROVE RestoredSoFar'
  BY <1>2, RestoredAsked
<1>3. ASSUME NEW p \in User, BeginRestore(p) \/ List(p) \/ Wipe(p) \/ Fill(p)
      PROVE  RestoredSoFar'
  BY <1>3, RestoredBegun, RestoredListed, RestoredWiped, RestoredFilled
<1>4. CASE Touch \/ Retain \/ DeleteSchedule \/ Edit \/ Midnight \/ Reboot \/ UNCHANGED restoreVars
  BY <1>4, RestoredOutside
<1> QED BY <1>1, <1>2, <1>3, <1>4 DEF RestoreNext

\* Only its own Fill and a restart end a worker's filling.
LEMMA StillFilling ==
  ASSUME RestoreTypeOK, NEW p \in User, On(p, "fill"), RestoreNext, ~Fill(p), ~Reboot
  PROVE  task'[p].pc = "fill"
<1>1. p \in Worker /\ p # Scheduler /\ task[p].pc = "fill" /\ task[p] \in Task
      /\ User \subseteq Worker
  BY RestoreConsts, RestoreAssumption DEF On, RestoreTypeOK
<1>2. ASSUME NEW q \in Worker, NEW j, q # p, Takes(q, j)  PROVE task'[p].pc = "fill"
  BY <1>1, <1>2 DEF Takes, RestoreTypeOK
<1>3. ASSUME NEW q \in User, q # p,
             AskDelete(q) \/ BeginRestore(q) \/ List(q) \/ Wipe(q) \/ Fill(q) \/ BeginSave(q) \/ Upsert(q)
      PROVE  task'[p].pc = "fill"
  BY <1>1, <1>3, Elsewhere
<1>4. ~AskDelete(p) /\ ~BeginRestore(p) /\ ~List(p) /\ ~Wipe(p) /\ ~BeginSave(p) /\ ~Upsert(p)
  BY <1>1 DEF AskDelete, BeginRestore, List, Wipe, BeginSave, Upsert, On
<1>5. ASSUME NEW q \in Worker, BeginExport(q)  PROVE task'[p].pc = "fill"
  BY <1>1, <1>2, <1>5 DEF BeginExport, On
<1>6. ASSUME NEW q \in Worker, Export(q)  PROVE task'[p].pc = "fill"
  BY <1>1, <1>2, <1>6 DEF Export, Finishes, On
<1>7. ASSUME NEW q \in Worker, Store(q)  PROVE task'[p].pc = "fill"
  BY <1>1, <1>2, <1>7 DEF Store, Finishes, On
<1>8. ASSUME NEW q \in Worker, Delete(q)  PROVE task'[p].pc = "fill"
  <2>1. q # p
    BY <1>1, <1>8 DEF Delete, On
  <2>2. \E j : Takes(q, j)
    BY <1>8 DEF Delete, Finishes
  <2> QED BY <1>2, <1>8, <2>1, <2>2
<1>9. CASE Touch
  BY <1>1, <1>2, <1>9, RestoreConsts DEF Touch
<1>10. CASE Retain
  BY <1>1, <1>2, <1>10, RestoreConsts DEF Retain, Finishes
<1>11. CASE Edit
  BY <1>1, <1>11, Disturbed DEF Edit
<1>12. CASE DeleteSchedule \/ Midnight
  BY <1>1, <1>12 DEF DeleteSchedule, Midnight
<1> QED BY <1>3, <1>4, <1>5, <1>6, <1>7, <1>8, <1>9, <1>10, <1>11, <1>12 DEF RestoreNext

(* A restore that reports success has made every record what it promises    *)
(* (backup.go:937, importDocument; 971, restoreComponent): as archived, gone *)
(* or as before, whichever calls of other handlers fell between its own, but *)
(* for the records these wrote.                                              *)
THEOREM RestoresExact == RestoreSpec => RestoreExact
<1> DEFINE A == \A p \in User : Completes(p) =>
                  \A r \in Record \ task[p].mixed : db'[r] = Expected(task[p], r)
<1>1. RestoreInit => RestoredSoFar
  BY RestoreConsts DEF RestoreInit, RestoredSoFar, Promise, Restoring, NoTask
<1>2. RestoreTypeOK /\ RestoredSoFar /\ [RestoreNext]_restoreVars => [A]_restoreVars
  <2> SUFFICES ASSUME RestoreTypeOK, RestoredSoFar, RestoreNext, NEW p \in User, Completes(p)
               PROVE  \A r \in Record \ task[p].mixed : db'[r] = Expected(task[p], r)
    OBVIOUS
  <2>1. CASE Fill(p)
    BY <2>1, RestoredFilled
  <2>2. ~Reboot
    BY UsedType DEF Reboot, Completes
  <2>3. CASE ~Fill(p)
    BY <2>2, <2>3, StillFilling DEF Completes, NoTask
  <2> QED BY <2>1, <2>3
<1> QED BY RestoreTypeCorrect, <1>1, <1>2, RestoredStep, PTL DEF RestoreSpec, RestoreExact

\* A set of archives has a newest one.
LEMMA Greatest ==
  ASSUME NEW n \in Nat, NEW S \in SUBSET (1 .. n), S # {}
  PROVE  \E j \in S : \A i \in S : i <= j
<1> DEFINE T == {n - i : i \in S}
           R == OpToRel(<, Nat)
<1>1. \A i \in S : i \in Nat /\ i <= n /\ n - i \in Nat
  OBVIOUS
<1>2. T \subseteq Nat /\ T # {}
  BY <1>1
<1>3. PICK x \in T : \A y \in T : ~(<<y, x>> \in R)
  BY <1>2, NatLessThanWellFounded, WFMin
<1>4. \A y \in Nat, z \in Nat : y < z => <<y, z>> \in R
  BY DEF OpToRel
<1> HIDE DEF R
<1>5. PICK j \in S : x = n - j
  OBVIOUS
<1>6. ASSUME NEW i \in S  PROVE i <= j
  <2>1. ~(n - i < n - j)
    BY <1>1, <1>2, <1>3, <1>4, <1>5
  <2> QED BY <2>1, <1>1
<1> QED BY <1>6

\* Retention keeps the newest archive of the schedule.
LEMMA NewestSpared ==
  ASSUME RestoreTypeOK, Expendable(Scheduled) # {}
  PROVE  /\ Expendable(Scheduled) \subseteq Scheduled
         /\ \E j \in Scheduled \ Expendable(Scheduled) : \A i \in Expendable(Scheduled) : j > i
<1> DEFINE S == Scheduled
<1>1. S \in SUBSET (1 .. MaxCreated) /\ MaxCreated \in Nat /\ Expendable(S) \subseteq S
  BY RestoreAssumption DEF Scheduled, Archives, Expendable
<1>2. PICK j \in S : \A i \in S : i <= j
  BY <1>1, Greatest
<1> HIDE DEF S
<1>3. \A i \in S : i \in Nat
  BY <1>1
<1>4. {i \in S : i > j} = {}
  BY <1>2, <1>3
<1>5. Cardinality({i \in S : i > j}) = 0
  BY <1>4, FS_EmptySet, Zenon
<1>6. j \notin Expendable(S)
  BY <1>5, RestoreAssumption DEF Expendable
<1>7. \A i \in Expendable(S) : j > i
  <2>1. ASSUME NEW i \in Expendable(S)  PROVE j > i
    <3>1. i \in S /\ i # j
      BY <1>1, <1>6, <2>1
    <3> QED BY <1>2, <1>3, <3>1
  <2> QED BY <2>1
<1> QED BY <1>1, <1>2, <1>6, <1>7 DEF S

LEMMA SparedKept ==
  ASSUME Spared, source' = source, created' = created, used'.deletes = used.deletes,
         \A q \in Worker : task'[q].pc = "delete" => task[q].pc = "delete"
                                                     /\ task'[q].todo = task[q].todo
  PROVE  Spared'
<1>1. User \subseteq Worker /\ Scheduler \in Worker
  BY RestoreConsts
<1>2. Scheduled' = Scheduled
  BY DEF Scheduled
<1> QED BY <1>1, <1>2 DEF Spared, On

LEMMA SparedTakes ==
  ASSUME RestoreTypeOK, Spared, source' = source, created' = created,
         used'.deletes = used.deletes, NEW p \in Worker, NEW j, Takes(p, j), j.pc # "delete"
  PROVE  Spared'
  BY SparedKept DEF Takes, RestoreTypeOK

LEMMA SparedDisturbs ==
  ASSUME RestoreTypeOK, Spared, source' = source, created' = created,
         used'.deletes = used.deletes, NEW p \in Worker, NEW j \in Task, NEW r \in Record,
         Disturb(p, j, r), j.pc # "delete"
  PROVE  Spared'
<1>1. task'[p] = j /\ \A q \in Worker \ {p} : task'[q].pc = task[q].pc /\ task'[q].todo = task[q].todo
  BY TurnedOver
<1>2. \A q \in Worker : task'[q].pc = "delete" => task[q].pc = "delete" /\ task'[q].todo = task[q].todo
  BY <1>1
<1> QED BY <1>2, SparedKept

LEMMA SparedExports ==
  ASSUME RestoreTypeOK, Spared, NEW p \in Worker, BeginExport(p) \/ Export(p)
  PROVE  Spared'
<1>1. NoTask \in Task /\ NoTask.pc = "idle" /\ task[p] \in Task
  BY RestoreConsts DEF NoTask, RestoreTypeOK
<1>2. source' = source /\ created' = created
  BY DEF BeginExport, Export, archives
<1>3. used'.deletes = used.deletes
  BY UsedType DEF BeginExport, Export
<1>4. CASE BeginExport(p)
  <2>1. [NoTask EXCEPT !.pc = "export", !.todo = DOMAIN Coll].pc = "export"
    BY <1>1 DEF Task
  <2> QED BY <1>2, <1>3, <1>4, <2>1, SparedTakes DEF BeginExport
<1>5. CASE Finishes(p)
  BY <1>1, <1>2, <1>3, <1>5, SparedTakes DEF Finishes
<1>6. ASSUME NEW n \in DOMAIN Coll,
             Takes(p, [task[p] EXCEPT !.doc = Exports(p, n), !.todo = task[p].todo \ {n},
                               !.pc = IF task[p].todo \ {n} = {} THEN "store" ELSE "export"])
      PROVE  Spared'
  <2> DEFINE j == [task[p] EXCEPT !.doc = Exports(p, n), !.todo = task[p].todo \ {n},
                               !.pc = IF task[p].todo \ {n} = {} THEN "store" ELSE "export"]
  <2>1. j.pc \in {"store", "export"}
    BY <1>1 DEF Task
  <2> QED BY <1>2, <1>3, <1>6, <2>1, SparedTakes
<1> QED BY <1>4, <1>5, <1>6 DEF Export

LEMMA SparedStore ==
  ASSUME RestoreTypeOK, Room, Spared, NEW p \in Worker, Store(p)  PROVE Spared'
<1>1. NoTask.pc = "idle" /\ [NoTask EXCEPT !.pc = "touch"].pc = "touch" /\ Scheduler \in Worker
      /\ User \subseteq Worker
  BY RestoreConsts DEF NoTask
<1>2. task'[p].pc # "delete" /\ \A q \in Worker \ {p} : task'[q] = task[q]
  BY <1>1 DEF Store, Finishes, Takes, RestoreTypeOK
<1>3. used'.deletes = used.deletes
  BY UsedType DEF Store
<1>4. CASE source' = source /\ created' = created
  BY <1>2, <1>3, <1>4, SparedKept
<1>5. CASE created' = created + 1 /\ \E k \in {"scheduled", "manual"} : source' = [source EXCEPT ![created + 1] = k]
  <2>1. created \in Nat /\ created + 1 \in Archives
    BY StoreTypes DEF RestoreTypeOK
  <2>2. \A i \in Archives : i # created + 1 => source'[i] = source[i]
    BY <1>5 DEF RestoreTypeOK
  <2>3. source[created + 1] = "none"
    BY <2>1 DEF Spared
  <2>4. Scheduled \subseteq Scheduled' /\ Scheduled' \subseteq Scheduled \cup {created + 1}
        /\ created + 1 \notin Scheduled
    BY <2>2, <2>3 DEF Scheduled
  <2>5. \A i \in Archives : i > created' => source'[i] = "none"
    BY <1>5, <2>1, <2>2 DEF Spared, Archives
  <2>6. ASSUME used'.deletes = 0, task'[Scheduler].pc = "delete"
        PROVE  /\ task'[Scheduler].todo \subseteq Scheduled'
               /\ \E j \in Scheduled' \ task'[Scheduler].todo : \A i \in task'[Scheduler].todo : j > i
    BY <1>1, <1>2, <1>3, <2>4, <2>6 DEF Spared, On
  <2> QED BY <1>1, <1>2, <1>3, <2>5, <2>6 DEF Spared, On
<1> QED BY <1>4, <1>5 DEF Store, archives

\* The archive a working Delete drops has a newer one of the schedule beside
\* it, as long as users delete none.
LEMMA SparedDelete ==
  ASSUME RestoreTypeOK, Spared, NEW p \in Worker, Delete(p)
  PROVE  /\ Spared'
         /\ used'.deletes = 0 =>
              \A i \in Archives : Kept(i) /\ source'[i] = "none" =>
                source[i] = "scheduled" /\ \E j \in Scheduled : j > i /\ source'[j] = "scheduled"
<1>1. PICK k \in Archives :
        /\ Newest(p, k)
        /\ \/ source' = [source EXCEPT ![k] = "none"]
           \/ source' = source
        /\ IF task[p].todo \ {k} = {} THEN Finishes(p)
           ELSE Takes(p, [task[p] EXCEPT !.todo = task[p].todo \ {k}])
  BY DEF Delete
<1>2. used'.deletes = used.deletes /\ created' = created /\ task[p].pc = "delete"
  BY UsedType DEF Delete, On
<1>3. /\ NoTask.pc = "idle" /\ Scheduler \in Worker /\ User \subseteq Worker
      /\ task[p] \in Task /\ [task[p] EXCEPT !.todo = task[p].todo \ {k}].todo = task[p].todo \ {k}
  BY RestoreConsts DEF NoTask, RestoreTypeOK, Task
<1>4. \A i \in Archives : source'[i] = source[i] \/ (i = k /\ source'[i] = "none")
  <2>1. source \in [Archives -> {"none", "manual", "scheduled"}]
    BY DEF RestoreTypeOK
  <2>2. CASE source' = [source EXCEPT ![k] = "none"]
    BY <2>1, <2>2
  <2> QED BY <1>1, <2>2
<1>5. \A i \in Archives : i > created' => source'[i] = "none"
  BY <1>2, <1>4 DEF Spared
<1>6. CASE used.deletes # 0
  BY <1>2, <1>5, <1>6 DEF Spared
<1>7. CASE used.deletes = 0
  <2>1. p = Scheduler
    BY <1>2, <1>7 DEF Spared, On, Worker
  <2>2. PICK j \in Scheduled \ task[p].todo : \A i \in task[p].todo : j > i
    BY <1>2, <1>7, <2>1 DEF Spared, On
  <2>3. task[p].todo \subseteq Scheduled /\ k \in task[p].todo
    BY <1>1, <1>2, <1>7, <2>1 DEF Spared, On, Newest
  <2>4. Scheduled \ {k} \subseteq Scheduled' /\ j \in Scheduled'
    BY <1>4, <2>2, <2>3 DEF Scheduled
  <2>5. \A q \in User : task'[q] = task[q]
    BY <1>1, <1>3, <2>1, RestoreAssumption DEF Finishes, Takes, RestoreTypeOK
  <2>6. task'[p].pc = "delete" => task'[p].todo = task[p].todo \ {k}
    BY <1>1, <1>3 DEF Finishes, Takes, RestoreTypeOK
  <2>7. Spared'
    BY <1>2, <1>5, <1>7, <2>1, <2>2, <2>3, <2>4, <2>5, <2>6 DEF Spared, On
  <2>8. ASSUME NEW i \in Archives, Kept(i), source'[i] = "none"
        PROVE  source[i] = "scheduled" /\ \E m \in Scheduled : m > i /\ source'[m] = "scheduled"
    <3>1. i = k
      BY <1>4, <2>8 DEF Kept
    <3> QED BY <2>2, <2>3, <2>4, <3>1 DEF Scheduled
  <2> QED BY <2>7, <2>8
<1> QED BY <1>6, <1>7

LEMMA SparedAsked ==
  ASSUME RestoreTypeOK, Spared, NEW p \in User, AskDelete(p)
  PROVE  Spared' /\ used'.deletes # 0 /\ source' = source
<1>1. used'.deletes # 0
  BY DEF AskDelete, RestoreTypeOK
<1> QED BY <1>1 DEF AskDelete, archives, Spared

LEMMA SparedUser ==
  ASSUME RestoreTypeOK, Spared, NEW p \in User,
         BeginRestore(p) \/ List(p) \/ Wipe(p) \/ Fill(p) \/ BeginSave(p) \/ Upsert(p)
  PROVE  Spared' /\ source' = source
<1>1. /\ NoTask \in Task /\ NoTask.pc = "idle" /\ p \in Worker /\ task[p] \in Task
      /\ task[p].left \subseteq Record
  BY RestoreConsts DEF NoTask, RestoreTypeOK, Task
<1>2. source' = source /\ created' = created
  BY DEF BeginRestore, List, Wipe, Fill, BeginSave, Upsert, archives
<1>3. used'.deletes = used.deletes
  BY UsedType DEF BeginRestore, List, Wipe, Fill, BeginSave, Upsert
<1>4. CASE BeginRestore(p) \/ List(p)
  <2>1. PICK j \in Task : Takes(p, j) /\ j.pc \in {"idle", "list", "wipe"}
    BY <1>1, <1>4, BegunForm, ListForm DEF GoesOn
  <2> QED BY <1>1, <1>2, <1>3, <2>1, SparedTakes
<1>5. CASE Wipe(p)
  <2>1. ASSUME NEW j \in Task, Takes(p, j), j.pc = "fill"  PROVE Spared'
    BY <1>1, <1>2, <1>3, <2>1, SparedTakes
  <2>2. ASSUME NEW r \in task[p].left, NEW j \in Task, Disturb(p, j, r), j.pc \in {"idle", "wipe"}
        PROVE  Spared'
    BY <1>1, <1>2, <1>3, <2>2, SparedDisturbs
  <2>3. task[p].pc = "wipe"
    BY <1>5 DEF Wipe, On
  <2> QED BY <1>1, <1>2, <1>5, <2>1, <2>2, <2>3, WipeForm, LeftForm DEF GoesOn
<1>6. CASE Fill(p)
  <2>1. \A n \in DOMAIN Coll : Filled(p, n) \in Task /\ Filled(p, n).pc \in {"idle", "list"}
    BY <1>1, <1>6, RestoreConsts, FilledForm DEF Fill
  <2>2. ASSUME NEW j \in Task, Takes(p, j), j.pc \in {"idle", "list"}  PROVE Spared'
    BY <1>1, <1>2, <1>3, <2>2, SparedTakes
  <2>3. ASSUME NEW r \in task[p].left, NEW j \in Task, Disturb(p, j, r), j.pc \in {"idle", "fill"}
        PROVE  Spared'
    BY <1>1, <1>2, <1>3, <2>3, SparedDisturbs
  <2>4. task[p].pc = "fill"
    BY <1>6 DEF Fill, On
  <2> QED BY <1>1, <1>2, <1>6, <2>1, <2>2, <2>3, <2>4, FillForm, LeftForm
<1>7. CASE BeginSave(p)
  <2> DEFINE n == IF lastRun = Absent THEN 0 ELSE lastRun
  <2>1. Takes(p, [NoTask EXCEPT !.pc = "upsert", !.saw = n])
    BY <1>7 DEF BeginSave
  <2> HIDE DEF n
  <2>2. [NoTask EXCEPT !.pc = "upsert", !.saw = n].pc = "upsert"
    BY <1>1 DEF Task
  <2> QED BY <1>1, <1>2, <1>3, <2>1, <2>2, SparedTakes
<1>8. CASE Upsert(p)
  BY <1>1, <1>2, <1>3, <1>8, SparedTakes DEF Upsert, Finishes
<1> QED BY <1>2, <1>4, <1>5, <1>6, <1>7, <1>8

LEMMA SparedOutside ==
  ASSUME RestoreTypeOK, Spared,
         Touch \/ Retain \/ DeleteSchedule \/ Edit \/ Midnight \/ Reboot \/ UNCHANGED restoreVars
  PROVE  Spared' /\ source' = source
<1>1. NoTask \in Task /\ NoTask.pc = "idle" /\ Scheduler \in Worker /\ User \subseteq Worker
  BY RestoreConsts DEF NoTask
<1>2. source' = source /\ created' = created
  BY DEF Touch, Retain, DeleteSchedule, Edit, Midnight, Reboot, restoreVars, archives
<1>3. CASE Touch
  <2>1. [NoTask EXCEPT !.pc = "retain"].pc = "retain"
    BY <1>1 DEF Task
  <2> QED BY <1>1, <1>2, <1>3, <2>1, UsedType, SparedTakes DEF Touch
<1>4. CASE Retain
  <2> DEFINE S == Expendable(Scheduled)
             j == [NoTask EXCEPT !.pc = "delete", !.todo = S]
  <2>1. (IF S = {} THEN Takes(Scheduler, NoTask) ELSE Takes(Scheduler, j)) /\ used' = used
    BY <1>4 DEF Retain, Finishes
  <2>2. CASE S = {}
    BY <1>1, <1>2, <2>1, <2>2, SparedTakes
  <2>3. CASE S # {}
    <3>1. S \subseteq Scheduled /\ \E m \in Scheduled \ S : \A i \in S : m > i
      BY <2>3, NewestSpared
    <3> HIDE DEF S
    <3>2. j.todo = S
      BY <1>1 DEF Task
    <3>3. task'[Scheduler] = j /\ \A q \in User : task'[q] = task[q]
      BY <1>1, <2>1, <2>3, RestoreAssumption DEF Takes, RestoreTypeOK
    <3> HIDE DEF j
    <3>4. Scheduled' = Scheduled
      BY <1>2 DEF Scheduled
    <3> QED BY <1>2, <2>1, <3>1, <3>2, <3>3, <3>4 DEF Spared, On
  <2> QED BY <2>2, <2>3
<1>5. CASE Edit
  <2>1. \A q \in Worker : task'[q].pc = task[q].pc /\ task'[q].todo = task[q].todo
    BY <1>5, Disturbed DEF Edit
  <2>2. used'.deletes = used.deletes
    BY <1>5 DEF Edit, RestoreTypeOK
  <2> QED BY <1>2, <2>1, <2>2, SparedKept
<1>6. CASE Reboot
  BY <1>1, <1>2, <1>6, UsedType, SparedKept DEF Reboot
<1>7. CASE DeleteSchedule \/ Midnight \/ UNCHANGED restoreVars
  BY <1>2, <1>7, SparedKept DEF DeleteSchedule, Midnight, restoreVars
<1> QED BY <1>2, <1>3, <1>4, <1>5, <1>6, <1>7

(* Retention drops an archive only while a newer one of the schedule is     *)
(* there and never a manual one (backup.go:825, ApplyRetention), so that    *)
(* as long as users delete none the newest and every manual archive stay.  *)
THEOREM NewestStays == RestoreSpec => NewestKept
<1> DEFINE A == used'.deletes = 0 =>
                  \A i \in Archives : (Kept(i) /\ source'[i] = "none")
                    => source[i] = "scheduled" /\ \E j \in Scheduled : j > i /\ source'[j] = "scheduled"
<1>1. RestoreInit => Spared
  BY RestoreConsts DEF RestoreInit, Spared, On, NoTask, Archives
<1>2. RestoreTypeOK /\ Room /\ Spared /\ [RestoreNext]_restoreVars => Spared' /\ [A]_restoreVars
  <2> SUFFICES ASSUME RestoreTypeOK, Room, Spared, [RestoreNext]_restoreVars  PROVE Spared' /\ A
    OBVIOUS
  <2>1. source' = source => A
    BY DEF Kept
  <2>2. ASSUME NEW p \in Worker, BeginExport(p) \/ Export(p)  PROVE Spared' /\ A
    BY <2>1, <2>2, SparedExports DEF BeginExport, Export, archives
  <2>3. ASSUME NEW p \in Worker, Store(p)  PROVE Spared' /\ A
    <3>1. \A i \in Archives : Kept(i) => source'[i] # "none"
      BY <2>3 DEF Store, archives, Kept, RestoreTypeOK
    <3> QED BY <2>3, <3>1, SparedStore
  <2>4. ASSUME NEW p \in Worker, Delete(p)  PROVE Spared' /\ A
    BY <2>4, SparedDelete
  <2>5. ASSUME NEW p \in User, AskDelete(p)  PROVE Spared' /\ A
    BY <2>5, SparedAsked
  <2>6. ASSUME NEW p \in User,
               BeginRestore(p) \/ List(p) \/ Wipe(p) \/ Fill(p) \/ BeginSave(p) \/ Upsert(p)
        PROVE  Spared' /\ A
    BY <2>1, <2>6, SparedUser
  <2>7. CASE Touch \/ Retain \/ DeleteSchedule \/ Edit \/ Midnight \/ Reboot \/ UNCHANGED restoreVars
    BY <2>1, <2>7, SparedOutside
  <2> QED BY <2>2, <2>3, <2>4, <2>5, <2>6, <2>7 DEF RestoreNext
<1> QED BY RestoreTypeCorrect, <1>1, <1>2, PTL DEF RestoreSpec, NewestKept

=============================================================================
