---------------------------- MODULE StackSecrets ----------------------------
(***************************************************************************)
(* The secrets of one compose stack: the bindings kept by                  *)
(* biz/compose_stack_secret.go, the catalog entry and the Vault KVv2       *)
(* versions behind them (biz/vault_secret.go, vault/client.go), and the    *)
(* deploy hook that resolves the bindings once and hands the values to the *)
(* containers while the operator goes on editing bindings and writing      *)
(* values.                                                                 *)
(*                                                                         *)
(* A step ends where something another handler can touch is read or        *)
(* written: one database row, one Vault entry, one call of the daemon.  A  *)
(* value stands for its own hash.                                          *)
(***************************************************************************)
EXTENDS Naturals, Sequences, FiniteSets, Functions, SequencesExt

CONSTANTS
  Service,     \* the services of the compose file, in their start order
  Binding,     \* binding ids
  Form,        \* what the operator fills in: [service, field, store] records
  Field,       \* the field names of the Vault entry
  Value,       \* the values a field can hold
  Typed,       \* bound: the payloads the operator ever types
  All,         \* Service == "": the binding is for every service
  NoField,     \* Field == "": no field selected
  None,        \* no row, no hash, no volume
  Mounted,     \* given to a container: the mount of the secret volume
  KeepLast,    \* what the operator asks CleanupVersions to keep
  MaxVersions, \* bound: versions written to Vault
  MaxEdits,    \* bound: edits of the bindings and of the catalog entry
  MaxFaults    \* bound: failed calls

Services == ToSet(Service)
\* the payload of a version; a write has at least one field
Payload == UNION {[S -> Value] : S \in (SUBSET Field) \ {{}}}
Secret == Value \cup Payload        \* what a binding can resolve to
Row == [form : Form, hash : Secret \cup {None}]
\* what a container was given: by binding, a value or the mount of its volume
Content == UNION {[S -> Secret \cup {None, Mounted}] : S \in SUBSET Binding}

ASSUME SecretsAssumption ==
  /\ KeepLast \in Nat \ {0}
  /\ MaxVersions \in Nat \ {0} /\ MaxEdits \in Nat /\ MaxFaults \in Nat
  /\ Service \in Seq(ToSet(Service))
  /\ Typed # {} /\ Typed \subseteq Payload
  /\ Form \subseteq [service : Services \cup {All}, field : Field \cup {NoField}, store : STRING]
  /\ None \notin Secret \cup Row \cup Content
  /\ Mounted \notin Secret \cup {None}

VARIABLES
  entry,     \* the catalog entry's Field, None when the entry is deleted
  kv,        \* the versions of the Vault entry, oldest first
  destroyed, \* the versions destroyed for good
  row,       \* [Binding -> its row or None]: the form and the DeployedHash
  form,      \* the binding dialog: the binding and the hash it was opened with
  hook,      \* the materializer of the running deploy
  runs,      \* [service -> what its container was given, None: not running]
  vol,       \* [Binding -> the value in its secret volume or None]
  helper,    \* the bindings whose helper container is still there
  job,       \* the handler that appends to the Vault entry or cleans it up
  want,      \* history: [Binding -> the form last asked for, None: deleted]
  raced,     \* history: bindings edited while a deploy held a copy of them
  touched,   \* history: bindings edited since their hash was recorded
  last,      \* history: what the host was last used for
  edits,     \* edits so far
  faults     \* failed calls so far

host == <<runs, vol, helper, last>>
bounds == <<edits, faults>>
vars == <<entry, kv, destroyed, row, form, hook, runs, vol, helper, job,
          want, raced, touched, last, edits, faults>>

-----------------------------------------------------------------------------
Missing == 0                        \* "no version": the entry answers 404

Idle == [pc |-> "idle", todo |-> {}, snap |-> [b \in Binding |-> None],
         val |-> [b \in Binding |-> None], at |-> 1]
NoJob == [pc |-> "idle", base |-> Missing, data |-> None, old |-> {}]

Fault == faults < MaxFaults /\ faults' = faults + 1 /\ UNCHANGED edits
Works == UNCHANGED bounds
Edit == edits < MaxEdits /\ edits' = edits + 1 /\ UNCHANGED faults

InFlight == hook.pc # "idle"
Bound == {b \in Binding : row[b] # None}
Applies(f, s) == f.service \in {All, s}

-----------------------------------------------------------------------------
(* Vault. *)

\* extractSecretValue: the selected field; failing that the only field; with no
\* field selected and several of them the whole payload.  None is the error.
Extract(p, f) ==
  IF f \in DOMAIN p THEN p[f]
  ELSE IF Cardinality(DOMAIN p) = 1 THEN p[CHOOSE g \in DOMAIN p : TRUE]
  ELSE IF f = NoField THEN p ELSE None

\* ReadKVv2 followed by extractSecretValue, None when either fails
Read(f) == IF kv = <<>> THEN None ELSE Extract(Last(kv), f)

\* WriteKVv2 adds a version
Write(p) == kv' = Append(kv, p) /\ UNCHANGED <<entry, destroyed>>

\* WriteValue with replace: the new version is what the operator typed
Replace(p) ==
  /\ entry # None /\ Len(kv) < MaxVersions
  /\ Write(p)
  /\ UNCHANGED <<row, form, hook, job, runs, vol, helper, last, want, raced, touched, edits, faults>>

\* WriteValue without replace reads the current version first; a 404 is an empty one
BeginAppend(p) ==
  /\ job.pc = "idle" /\ entry # None /\ Len(kv) < MaxVersions
  /\ job' = [NoJob EXCEPT !.pc = "append", !.base = Len(kv), !.data = p]
  /\ UNCHANGED <<entry, kv, destroyed, row, form, hook, runs, vol, helper, last, want, raced, touched, edits, faults>>

\* merged: the new fields over those read
MergedDropping == job.data
Merged ==
  LET old == IF job.base = Missing THEN <<>> ELSE kv[job.base]
  IN [f \in DOMAIN old \cup DOMAIN job.data |->
        IF f \in DOMAIN job.data THEN job.data[f] ELSE old[f]]

AppendValue ==
  /\ job.pc = "append" /\ Len(kv) < MaxVersions
  /\ job' = NoJob
  /\ Write(Merged)
  /\ UNCHANGED <<row, form, hook, runs, vol, helper, last, want, raced, touched, edits, faults>>

\* CleanupVersions: everything up to current - keepLast that is not destroyed yet
Obsolete == {v \in 1 .. Len(kv) : v <= Len(kv) - KeepLast} \ destroyed

BeginCleanup ==
  /\ job.pc = "idle" /\ entry # None /\ Obsolete # {}
  /\ job' = [NoJob EXCEPT !.pc = "destroy", !.old = Obsolete]
  /\ UNCHANGED <<entry, kv, destroyed, row, form, hook, runs, vol, helper, last, want, raced, touched, edits, faults>>

Destroy ==
  /\ job.pc = "destroy"
  /\ destroyed' = destroyed \cup job.old
  /\ job' = NoJob
  /\ UNCHANGED <<entry, kv, row, form, hook, runs, vol, helper, last, want, raced, touched, edits, faults>>

\* the Vault call of a job fails: WriteValue and CleanupVersions give up
JobFails ==
  /\ job.pc # "idle" /\ Fault
  /\ job' = NoJob
  /\ UNCHANGED <<entry, kv, destroyed, row, form, hook, runs, vol, helper, last, want, raced, touched>>

\* the catalog entry gets another field selector, or is deleted for good
UpdateEntry(f) ==
  /\ entry # None /\ f # entry /\ Edit
  /\ entry' = f
  /\ UNCHANGED <<kv, destroyed, row, form, hook, job, runs, vol, helper, last, want, raced, touched>>

-----------------------------------------------------------------------------
(* The bindings. *)

\* the dialog copies the row it was opened on, its DeployedHash with it
OpenForm(b) ==
  /\ form = None
  /\ form' = [id |-> b, hash |-> IF row[b] = None THEN None ELSE row[b].hash]
  /\ UNCHANGED <<entry, kv, destroyed, row, hook, job, runs, vol, helper, last, want, raced, touched, edits, faults>>

\* what an edit leaves behind: the operator's wish for b
Asked(b, f) ==
  /\ want' = [want EXCEPT ![b] = f]
  /\ raced' = IF InFlight /\ hook.snap[b] # None THEN raced \cup {b} ELSE raced \ {b}
  /\ touched' = touched \cup {b}

\* validate: an environment variable, or a file kept in one of three ways
Accepted(f) == f.store \in {"env", "tmpfs", "volume", "init"}

\* Upsert writes the whole row the client sent
UpsertNew(f) ==
  /\ form # None /\ Accepted(f) /\ Edit
  /\ row' = [row EXCEPT ![form.id] = IF @ = None THEN [form |-> f, hash |-> form.hash] ELSE @]
  /\ form' = None
  /\ Asked(form.id, f)
  /\ UNCHANGED <<entry, kv, destroyed, hook, job, runs, vol, helper, last>>
Upsert(f) ==
  /\ form # None /\ Accepted(f) /\ Edit
  /\ row' = [row EXCEPT ![form.id] = [form |-> f, hash |-> form.hash]]
  /\ form' = None
  /\ Asked(form.id, f)
  /\ UNCHANGED <<entry, kv, destroyed, hook, job, runs, vol, helper, last>>

Delete(b) ==
  /\ row[b] # None /\ Edit
  /\ row' = [row EXCEPT ![b] = None]
  /\ Asked(b, None)
  /\ UNCHANGED <<entry, kv, destroyed, form, hook, job, runs, vol, helper, last>>

\* CheckDrift: the catalog's field against the recorded hash
Drift(b) ==
  IF row[b].hash = None THEN "unknown"
  ELSE IF entry = None THEN "missing"
  ELSE IF Read(entry) = None THEN "error"
  ELSE IF Read(entry) = row[b].hash THEN "ok" ELSE "drifted"

-----------------------------------------------------------------------------
(* A deploy. *)

\* NewHook lists the bindings and then resolves them one by one
BeginDeploy ==
  /\ ~InFlight
  /\ hook' = [Idle EXCEPT !.pc = "resolve", !.todo = Bound, !.snap = row]
  /\ UNCHANGED <<entry, kv, destroyed, row, form, job, runs, vol, helper, last, want, raced, touched, edits, faults>>

\* the field comes from the binding, not from the catalog entry
Resolve(b) ==
  /\ hook.pc = "resolve" /\ b \in hook.todo
  /\ hook' = IF entry = None \/ Read(hook.snap[b].form.field) = None
             THEN Idle
             ELSE [hook EXCEPT !.todo = @ \ {b}, !.val[b] = Read(hook.snap[b].form.field)]
  /\ UNCHANGED <<entry, kv, destroyed, row, form, job, runs, vol, helper, last, want, raced, touched, edits, faults>>

\* removeProjectContainers takes the helpers too, then purgeHelpers
InVolume(b) == hook.snap[b] # None /\ hook.snap[b].form.store \in {"volume", "init"}
Teardown ==
  /\ hook.pc = "resolve" /\ hook.todo = {}
  /\ runs' = [s \in Services |-> None]
  /\ helper' = {}
  /\ hook' = [hook EXCEPT !.pc = "populate", !.todo = {b \in Binding : InVolume(b)}]
  /\ last' = "deploy"
  /\ UNCHANGED <<entry, kv, destroyed, row, form, job, vol, want, raced, touched, edits, faults>>

\* populateVolume: only init mode keeps the helper
Populate(b) ==
  /\ hook.pc = "populate" /\ b \in hook.todo
  /\ vol' = [vol EXCEPT ![b] = hook.val[b]]
  /\ helper' = IF hook.snap[b].form.store = "init" THEN helper \cup {b} ELSE helper \ {b}
  /\ hook' = [hook EXCEPT !.todo = @ \ {b}]
  /\ UNCHANGED <<entry, kv, destroyed, row, form, job, runs, last, want, raced, touched, edits, faults>>

Current == Service[hook.at]
Given(s, b) == hook.snap[b] # None /\ Applies(hook.snap[b].form, s)

\* what ApplyToService and AfterCreate put into the container of service s
InjectedLate(s) ==
  [b \in {c \in Binding : Given(s, c)} |->
     IF InVolume(b) THEN Mounted
     ELSE IF Read(hook.snap[b].form.field) = None THEN hook.val[b]
     ELSE Read(hook.snap[b].form.field)]
Injected(s) ==
  [b \in {c \in Binding : Given(s, c)} |-> IF InVolume(b) THEN Mounted ELSE hook.val[b]]

\* createAndStart creates the container; it does not run yet
Create ==
  /\ hook.pc \in {"populate", "next"} /\ hook.todo = {} /\ hook.at <= Len(Service)
  /\ hook' = [hook EXCEPT !.pc = "mark", !.todo = {b \in Binding : hook.snap[b] # None}]
  /\ UNCHANGED <<entry, kv, destroyed, row, form, job, runs, vol, helper, last, want, raced, touched, edits, faults>>

\* markDeployed upserts every captured row, whatever became of it
MarkReread(b) ==
  /\ hook.pc = "mark" /\ b \in hook.todo
  /\ row' = [row EXCEPT ![b] = [hook.snap[b] EXCEPT !.hash = Read(hook.snap[b].form.field)]]
  /\ hook' = [hook EXCEPT !.todo = @ \ {b}]
  /\ touched' = touched \ {b}
  /\ UNCHANGED <<entry, kv, destroyed, form, job, runs, vol, helper, last, want, raced, edits, faults>>
MarkDeployed(b) ==
  /\ hook.pc = "mark" /\ b \in hook.todo
  /\ row' = [row EXCEPT ![b] = [hook.snap[b] EXCEPT !.hash = hook.val[b]]]
  /\ hook' = [hook EXCEPT !.todo = @ \ {b}]
  /\ touched' = touched \ {b}
  /\ UNCHANGED <<entry, kv, destroyed, form, job, runs, vol, helper, last, want, raced, edits, faults>>

Start ==
  /\ hook.pc = "mark" /\ hook.todo = {}
  /\ runs' = [runs EXCEPT ![Current] = Injected(Current)]
  /\ hook' = IF hook.at = Len(Service) THEN Idle ELSE [hook EXCEPT !.pc = "next", !.at = @ + 1]
  /\ UNCHANGED <<entry, kv, destroyed, row, form, job, vol, helper, last, want, raced, touched, edits, faults>>

\* a call of the hook or of the engine fails: the deploy ends where it is; a
\* failing upsert only after the other rows have been written
DeployFails ==
  /\ InFlight /\ Fault
  /\ hook' = Idle
  /\ UNCHANGED <<entry, kv, destroyed, row, form, job, runs, vol, helper, last, want, raced, touched>>

\* Stop, and Remove when bindings go with the stack: the containers, and by
\* their label helpers and secret volumes; failures of the latter are ignored
CleanedByRow(leaked) == Bound \ leaked
Cleaned(leaked) == Binding \ leaked
StopStack(leaked) ==
  /\ (leaked = {} /\ Works) \/ (leaked # {} /\ Fault)
  /\ runs' = [s \in Services |-> None]
  /\ helper' = helper \ Cleaned(leaked)
  /\ vol' = [b \in Binding |-> IF b \in Cleaned(leaked) THEN None ELSE vol[b]]
  /\ last' = IF InFlight THEN "crossed" ELSE IF leaked = {} THEN "clean" ELSE "dirty"
  /\ UNCHANGED <<entry, kv, destroyed, row, form, hook, job, want, raced, touched>>

-----------------------------------------------------------------------------
Init ==
  /\ entry = NoField
  /\ \E p \in Typed : kv = <<p>>
  /\ destroyed = {}
  /\ row = [b \in Binding |-> None]
  /\ form = None
  /\ hook = Idle
  /\ runs = [s \in Services |-> None]
  /\ vol = [b \in Binding |-> None]
  /\ helper = {}
  /\ job = NoJob
  /\ want = [b \in Binding |-> None]
  /\ raced = {} /\ touched = {} /\ last = "dirty"
  /\ edits = 0 /\ faults = 0

Next ==
  \/ \E p \in Typed : Replace(p) \/ BeginAppend(p)
  \/ AppendValue \/ BeginCleanup \/ Destroy \/ JobFails
  \/ \E f \in Field \cup {None} : UpdateEntry(f)
  \/ \E b \in Binding : OpenForm(b) \/ Delete(b)
  \/ \E f \in Form : Upsert(f)
  \/ BeginDeploy \/ Teardown \/ Create \/ Start \/ DeployFails
  \/ \E b \in Binding : Resolve(b) \/ Populate(b) \/ MarkDeployed(b)
  \/ \E leaked \in SUBSET Binding : StopStack(leaked)

Spec == Init /\ [][Next]_vars

-----------------------------------------------------------------------------
(* WriteValue without replace (vault_secret.go:347) keeps every field it    *)
(* was not given, unless another version was written since its read.        *)
AppendKeepsFields ==
  [][AppendValue /\ job.base = Len(kv) =>
       \A f \in Field : f \in DOMAIN Last(kv) /\ f \notin DOMAIN job.data =>
                          /\ f \in DOMAIN Last(kv')
                          /\ Last(kv')[f] = Last(kv)[f]]_vars

\* the value the container of service s sees for binding b
Seen(s, b) == IF runs[s][b] = Mounted THEN vol[b] ELSE runs[s][b]
Has(s, b) == runs[s] # None /\ b \in DOMAIN runs[s]

(* A deploy resolves a binding once (compose_stack_secret.go:322): services *)
(* that share it see the same value, though the Vault entry and the binding *)
(* may change between the start of one and the start of the other.          *)
ServicesAgree ==
  \A b \in Binding : \A s, t \in Services :
    Has(s, b) /\ Has(t, b) /\ last = "deploy" => Seen(s, b) = Seen(t, b)

(* A drift check that answers ok (compose_stack_secret.go:144) means that   *)
(* the running services have the current value: for a binding that selects  *)
(* the catalog's field, and was not edited since its hash was recorded.     *)
DriftTruthful ==
  \A b \in Bound :
    /\ ~InFlight /\ last = "deploy" /\ b \notin touched /\ row[b].form.field = entry
    /\ Drift(b) = "ok"
    => \A s \in Services : runs[s] # None /\ Applies(row[b].form, s) =>
                             Has(s, b) /\ Seen(s, b) = Read(entry)

(* What the operator saved or deleted is what the table holds: only a       *)
(* deploy that had already captured the row (compose_stack_secret.go:544)   *)
(* undoes an edit.                                                          *)
EditsSurvive ==
  \A b \in Binding \ raced :
    want[b] = IF row[b] = None THEN None ELSE row[b].form

(* After a teardown in which no call failed, nothing of a secret is left on *)
(* the host: not the volume of a binding deleted or changed since the       *)
(* deploy that filled it either (compose_stack_secret.go:249).              *)
NothingLeft == last = "clean" => helper = {} /\ \A b \in Binding : vol[b] = None
=============================================================================
