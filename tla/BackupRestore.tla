--------------------------- MODULE BackupRestore ---------------------------
(***************************************************************************)
(* What the archives hold and who makes them (biz/backup.go,               *)
(* backup/backup.go): the export of the collections, one read after the    *)
(* other; the scheduler, which marks its run and applies the retention;    *)
(* and the restore, which deletes and creates the records of one component *)
(* after the other while other handlers write to them.                     *)
(*                                                                         *)
(* Storing an archive with its record and deleting both are one step here; *)
(* module Backup has their inside.  A number stands for the content of a   *)
(* record, None for a record that is not there.                            *)
(***************************************************************************)
EXTENDS Naturals, FiniteSets, Sequences

CONSTANTS
  User,         \* the API handlers that may run at once
  Scheduler,    \* the scheduler's goroutine
  Coll,         \* the components of an archive, in the order of the restore
  Record,       \* the records of all of them
  Component,    \* [Record -> the component it belongs to]
  Exported,     \* the records an archive takes: no events, no built-in charts
  Wiped,        \* those a restore deletes first: as Exported, but no settings
  Initial,      \* the records there at first
  Retention,    \* BackupSchedule.Retention
  MaxCreated,   \* bound: archives ever created
  MaxEdits,     \* bound: changes of a collection by other handlers
  MaxDeletes,   \* bound: deletes asked for by users
  MaxDays,      \* bound: days
  MaxFailures   \* bound: failed calls and restarts

ASSUME RestoreAssumption ==
  /\ IsFiniteSet(User) /\ Scheduler \notin User
  /\ Coll \in Seq(STRING) /\ Coll # <<>>
  /\ Component \in [Record -> {Coll[n] : n \in DOMAIN Coll}]
  /\ Exported \subseteq Record /\ Wiped \subseteq Record /\ Initial \subseteq Record
  /\ Retention \in Nat \ {0} /\ MaxCreated \in Nat \ {0} /\ MaxDays \in Nat \ {0}
  /\ MaxEdits \in Nat /\ MaxDeletes \in Nat /\ MaxFailures \in Nat

VARIABLES
  db,        \* [record -> content]
  source,    \* [archive -> Source of its record, "none" without one]
  doc,       \* [archive -> the document in it]
  created,   \* archives created so far
  task,      \* [handler -> what it is doing]
  day,       \* today
  lastRun,   \* LastRunAt of the schedule as a day, Absent without a schedule
  ran,       \* history: scheduled archives recorded today
  marked,    \* history: nothing has undone or prevented today's mark
  used       \* the bounds spent

archives == <<source, doc, created>>
schedule == <<day, lastRun, ran, marked>>
restoreVars == <<db, source, doc, created, task, day, lastRun, ran, marked, used>>

-----------------------------------------------------------------------------
Worker == User \cup {Scheduler}
Archives == 1 .. MaxCreated
Comps == {Coll[n] : n \in DOMAIN Coll}
None == 0
Docs == [Record -> 0 .. MaxEdits + 1]
Original == [r \in Record |-> IF r \in Initial THEN 1 ELSE None]
Nothing == [r \in Record |-> None]
Archived(d) == [r \in Record |-> IF r \in Exported THEN d[r] ELSE None]
Absent == MaxDays + 1
Kept(i) == source[i] # "none"
Scheduled == {i \in Archives : source[i] = "scheduled"}

Stages == {"idle", "export", "store", "touch", "retain", "delete", "list", "wipe", "fill", "upsert"}
\* a handler's step, the document it holds, the places in Coll or the archives
\* it has still to deal with, the records of the restore's component it has still
\* to delete or write, the restore's selection, the LastRunAt SaveSchedule read.
\* History: before, the database a restore found; mixed, the records somebody
\* else wrote during it.
Task == [pc : Stages, doc : Docs, todo : SUBSET Nat, left : SUBSET Record, sel : SUBSET Comps,
         saw : 0 .. Absent, before : Docs, mixed : SUBSET Record]
NoTask == [pc |-> "idle", doc |-> Nothing, todo |-> {}, left |-> {}, sel |-> {}, saw |-> 0,
           before |-> Nothing, mixed |-> {}]
On(p, step) == task[p].pc = step
Takes(p, j) == task' = [task EXCEPT ![p] = j]
Finishes(p) == Takes(p, NoTask)
Restoring(p) == task[p].pc \in {"list", "wipe", "fill"}
Exporting == {p \in Worker : task[p].pc \in {"export", "store"}}
\* components go in the order of Coll, retention goes from the newest down
Places(sel) == {n \in DOMAIN Coll : Coll[n] \in sel}
Foremost(p, n) == n \in task[p].todo /\ \A m \in task[p].todo : n <= m
Newest(p, i) == i \in task[p].todo /\ \A j \in task[p].todo : j <= i

CallFails == used.faults < MaxFailures /\ used' = [used EXCEPT !.faults = @ + 1]
CallWorks == UNCHANGED used

RestoreTypeOK ==
  /\ db \in Docs
  /\ source \in [Archives -> {"none", "manual", "scheduled"}]
  /\ doc \in [Archives -> Docs]
  /\ created \in 1 .. MaxCreated
  /\ task \in [Worker -> Task]
  /\ day \in 1 .. MaxDays /\ lastRun \in 0 .. Absent
  /\ ran \in Nat /\ marked \in BOOLEAN
  /\ used \in [edits : 0 .. MaxEdits, deletes : 0 .. MaxDeletes, faults : 0 .. MaxFailures]

\* one archive of the schedule is there, from an earlier day
RestoreInit ==
  /\ db = Original
  /\ source = [i \in Archives |-> IF i = 1 THEN "scheduled" ELSE "none"]
  /\ doc = [i \in Archives |-> IF i = 1 THEN Archived(Original) ELSE Nothing]
  /\ created = 1
  /\ task = [p \in Worker |-> NoTask]
  /\ day = 1 /\ lastRun = 0 /\ ran = 0 /\ marked = TRUE
  /\ used = [edits |-> 0, deletes |-> 0, faults |-> 0]

-----------------------------------------------------------------------------
(* Create: by a user, or by a tick that finds the schedule due.             *)
ShouldRunAgain == lastRun # Absent
ShouldRun == lastRun # Absent /\ lastRun # day

BeginExport(p) ==
  /\ On(p, "idle") /\ (p = Scheduler => ShouldRun)
  /\ created + Cardinality(Exporting) < MaxCreated
  /\ Takes(p, [NoTask EXCEPT !.pc = "export", !.todo = DOMAIN Coll])
  /\ UNCHANGED <<db, archives, schedule, used>>

Exports(p, n) == [r \in Record |-> IF Component[r] = Coll[n] THEN Archived(db)[r] ELSE task[p].doc[r]]

\* one read of exportDocument; a failure ends the run, LastRunAt untouched
Export(p) ==
  /\ On(p, "export")
  /\ \/ \E n \in DOMAIN Coll : LET rest == task[p].todo \ {n} IN
          /\ CallWorks /\ Foremost(p, n)
          /\ Takes(p, [task[p] EXCEPT !.doc = Exports(p, n), !.todo = rest,
                                      !.pc = IF rest = {} THEN "store" ELSE "export"])
     \/ CallFails /\ Finishes(p)
  /\ UNCHANGED <<db, archives, schedule>>

Store(p) ==
  /\ On(p, "store")
  /\ \/ /\ CallWorks /\ created' = created + 1
        /\ source' = [source EXCEPT ![created + 1] = IF p = Scheduler THEN "scheduled" ELSE "manual"]
        /\ doc' = [doc EXCEPT ![created + 1] = task[p].doc]
        /\ ran' = IF p = Scheduler THEN ran + 1 ELSE ran
        /\ IF p = Scheduler THEN Takes(p, [NoTask EXCEPT !.pc = "touch"]) ELSE Finishes(p)
     \/ CallFails /\ Finishes(p) /\ UNCHANGED <<archives, ran>>
  /\ UNCHANGED <<db, day, lastRun, marked>>

\* BackupScheduleTouch: an error is logged, a schedule that is gone stays gone
Touch ==
  /\ On(Scheduler, "touch") /\ Takes(Scheduler, [NoTask EXCEPT !.pc = "retain"])
  /\ \/ CallWorks /\ lastRun # Absent /\ lastRun' = day /\ UNCHANGED marked
     \/ CallWorks /\ lastRun = Absent /\ marked' = FALSE /\ UNCHANGED lastRun
     \/ CallFails /\ marked' = FALSE /\ UNCHANGED lastRun
  /\ UNCHANGED <<db, archives, day, ran>>

\* ApplyRetention: everything of the source but the newest, newest first
ExpendableOffByOne(S) == {i \in S : Cardinality({j \in S : j >= i}) >= Retention}
Expendable(S) == {i \in S : Cardinality({j \in S : j > i}) >= Retention}
Retain ==
  LET S == Expendable(Scheduled) IN
  /\ On(Scheduler, "retain")
  /\ IF S = {} THEN Finishes(Scheduler)
     ELSE Takes(Scheduler, [NoTask EXCEPT !.pc = "delete", !.todo = S])
  /\ UNCHANGED <<db, archives, schedule, used>>

\* Delete, of the next archive on the handler's list; retention goes on after
\* an error
Delete(p) ==
  /\ On(p, "delete")
  /\ \E i \in Archives : LET rest == task[p].todo \ {i} IN
       /\ Newest(p, i)
       /\ \/ CallWorks /\ source' = [source EXCEPT ![i] = "none"]
                       /\ doc' = [doc EXCEPT ![i] = Nothing]
          \/ CallFails /\ UNCHANGED <<source, doc>>
       /\ IF rest = {} THEN Finishes(p) ELSE Takes(p, [task[p] EXCEPT !.todo = rest])
  /\ UNCHANGED <<db, created, schedule>>

AskDelete(p) ==
  /\ p \in User /\ On(p, "idle") /\ used.deletes < MaxDeletes
  /\ \E i \in Archives : Kept(i) /\ Takes(p, [NoTask EXCEPT !.pc = "delete", !.todo = {i}])
  /\ used' = [used EXCEPT !.deletes = @ + 1]
  /\ UNCHANGED <<db, archives, schedule>>

-----------------------------------------------------------------------------
(* Restore of a stored archive, RestoreUpload of a copy taken at the start. *)
BeginRestore(p) ==
  /\ p \in User /\ On(p, "idle")
  /\ \E d \in {doc[i] : i \in {j \in Archives : Kept(j)}} \cup {Archived(Original)},
       sel \in SUBSET Comps \ {{}} :
       Takes(p, [NoTask EXCEPT !.pc = "list", !.doc = d, !.sel = sel, !.todo = Places(sel),
                               !.before = db])
  /\ UNCHANGED <<db, archives, schedule, used>>

\* p writes record r: the other restores in progress are disturbed
Disturb(p, j, r) ==
  task' = [q \in Worker |-> IF q = p THEN j
                         ELSE IF Restoring(q) THEN [task[q] EXCEPT !.mixed = @ \cup {r}] ELSE task[q]]

\* restoreComponent lists what it will delete
List(p) ==
  /\ On(p, "list")
  /\ \/ \E n \in DOMAIN Coll :
          /\ CallWorks /\ Foremost(p, n)
          /\ Takes(p, [task[p] EXCEPT !.pc = "wipe",
                       !.left = {r \in Wiped : Component[r] = Coll[n] /\ db[r] # None}])
     \/ CallFails /\ Finishes(p)
  /\ UNCHANGED <<db, archives, schedule>>

\* it deletes them; the first error ends the whole restore
Wipe(p) ==
  /\ On(p, "wipe")
  /\ \/ \E r \in task[p].left :
          \/ /\ CallWorks /\ db' = [db EXCEPT ![r] = None]
             /\ Disturb(p, [task[p] EXCEPT !.left = @ \ {r}], r)
          \/ /\ CallFails /\ db' \in {db, [db EXCEPT ![r] = None]}
             /\ Disturb(p, NoTask, r)
     \/ \E n \in DOMAIN Coll :
          /\ task[p].left = {} /\ Foremost(p, n)
          /\ Takes(p, [task[p] EXCEPT !.pc = "fill",
                       !.left = {r \in Record : Component[r] = Coll[n] /\ task[p].doc[r] # None}])
          /\ UNCHANGED <<db, used>>
  /\ UNCHANGED <<archives, schedule>>

\* then it writes what the archive has; on Mongo the create of a record that
\* somebody created meanwhile fails
Filled(p, n) ==
  LET rest == task[p].todo \ {n} IN
  IF rest = {} THEN NoTask ELSE [task[p] EXCEPT !.pc = "list", !.left = {}, !.todo = rest]

FillSkipping(p) ==
  /\ On(p, "fill")
  /\ \/ \E r \in task[p].left :
          /\ CallWorks /\ db' \in {db, [db EXCEPT ![r] = task[p].doc[r]]}
          /\ Disturb(p, [task[p] EXCEPT !.left = @ \ {r}], r)
     \/ \E n \in DOMAIN Coll :
          task[p].left = {} /\ Foremost(p, n) /\ Takes(p, Filled(p, n)) /\ UNCHANGED <<db, used>>
  /\ UNCHANGED <<archives, schedule>>
Fill(p) ==
  /\ On(p, "fill")
  /\ \/ \E r \in task[p].left :
          \/ /\ CallWorks /\ db' = [db EXCEPT ![r] = task[p].doc[r]]
             /\ Disturb(p, [task[p] EXCEPT !.left = @ \ {r}], r)
          \/ /\ CallFails /\ db' \in {db, [db EXCEPT ![r] = task[p].doc[r]]}
             /\ Disturb(p, NoTask, r)
          \/ /\ r \in Wiped /\ db[r] # None /\ Finishes(p)
             /\ UNCHANGED <<db, used>>
     \/ \E n \in DOMAIN Coll :
          task[p].left = {} /\ Foremost(p, n) /\ Takes(p, Filled(p, n)) /\ UNCHANGED <<db, used>>
  /\ UNCHANGED <<archives, schedule>>

-----------------------------------------------------------------------------
(* SaveSchedule writes the LastRunAt it has read; DeleteSchedule drops it.  *)
BeginSave(p) ==
  /\ p \in User /\ On(p, "idle")
  /\ Takes(p, [NoTask EXCEPT !.pc = "upsert", !.saw = IF lastRun = Absent THEN 0 ELSE lastRun])
  /\ UNCHANGED <<db, archives, schedule, used>>

Upsert(p) ==
  /\ On(p, "upsert") /\ Finishes(p)
  /\ lastRun' = task[p].saw
  /\ marked' = (marked /\ ~(lastRun = day /\ task[p].saw # day))
  /\ UNCHANGED <<db, archives, day, ran, used>>

DeleteSchedule ==
  /\ lastRun # Absent /\ lastRun' = Absent
  /\ marked' = (marked /\ lastRun # day)
  /\ UNCHANGED <<db, archives, task, day, ran, used>>

-----------------------------------------------------------------------------
(* Another handler writes or deletes a record; a day ends; Swirl restarts.  *)
Edit ==
  /\ used.edits < MaxEdits /\ used' = [used EXCEPT !.edits = @ + 1]
  /\ \E r \in Record, v \in {None, used.edits + 2} :
       /\ db' = [db EXCEPT ![r] = v]
       /\ task' = [p \in Worker |-> IF Restoring(p) THEN [task[p] EXCEPT !.mixed = @ \cup {r}]
                                                    ELSE task[p]]
  /\ UNCHANGED <<archives, schedule>>

Midnight ==
  /\ day < MaxDays /\ day' = day + 1
  /\ ran' = 0 /\ marked' = TRUE
  /\ UNCHANGED <<db, archives, task, lastRun, used>>

Reboot ==
  /\ CallFails
  /\ task' = [p \in Worker |-> NoTask]
  /\ marked' = (marked /\ ~On(Scheduler, "touch"))
  /\ UNCHANGED <<db, archives, day, lastRun, ran>>

RestoreNext ==
  \/ \E p \in Worker : BeginExport(p) \/ Export(p) \/ Store(p) \/ Delete(p)
  \/ \E p \in User : \/ AskDelete(p) \/ BeginRestore(p) \/ List(p) \/ Wipe(p)
                     \/ Fill(p) \/ BeginSave(p) \/ Upsert(p)
  \/ Touch \/ Retain \/ DeleteSchedule \/ Edit \/ Midnight \/ Reboot

RestoreSpec == RestoreInit /\ [][RestoreNext]_restoreVars
-----------------------------------------------------------------------------
(* Properties.                                                              *)

\* A restore that reports success has made the database what it promises, record
\* by record: what it did not select is as before; what the archive holds is there
\* as archived; of the rest, what a restore deletes is gone, while a setting, an
\* event or a built-in chart is as before.  All but the records somebody else wrote
\* meanwhile, however these writes, edits or another restore, fell between its calls.
Expected(j, r) ==
  IF Component[r] \in j.sel /\ j.doc[r] # None THEN j.doc[r]
  ELSE IF Component[r] \in j.sel /\ r \in Wiped THEN None
  ELSE j.before[r]
Completes(p) == On(p, "fill") /\ task[p].left = {} /\ task'[p] = NoTask /\ used' = used
RestoreExact ==
  [][\A p \in User : Completes(p) =>
       \A r \in Record \ task[p].mixed : db'[r] = Expected(task[p], r)]_restoreVars

\* Retention removes an archive only while a newer one of the schedule is
\* there, and never a manual one: as long as users delete none, the newest
\* scheduled archive and every manual one survive.
NewestKept ==
  [][used'.deletes = 0 =>
       \A i \in Archives : (Kept(i) /\ source'[i] = "none")
         => source[i] = "scheduled" /\ \E j \in Scheduled : j > i /\ source'[j] = "scheduled"]_restoreVars

\* The scheduler runs a schedule at most once a day (docs/backup.md): twice
\* only if its mark failed, was cut off by a restart or overwritten by a save.
OncePerDay == ran > 1 => ~marked

=============================================================================
