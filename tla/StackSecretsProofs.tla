------------------------ MODULE StackSecretsProofs ------------------------
(* What is proved of StackSecrets for any services, bindings, forms, fields *)
(* and values: its types and the five properties of its run.               *)
EXTENDS StackSecrets, TLAPS

-----------------------------------------------------------------------------
(* Types. *)

Pcs == {"idle", "resolve", "populate", "mark", "next"}
Hooks == [pc : Pcs, todo : SUBSET Binding, snap : [Binding -> Row \cup {None}],
          val : [Binding -> Secret \cup {None}], at : Nat \ {0}]
Jobs == [pc : {"idle", "append", "destroy"}, base : Nat,
         data : Payload \cup {None}, old : SUBSET Nat]

\* What is being created belongs to a service; only captured rows are marked.
HookOK ==
  /\ hook \in Hooks
  /\ hook.pc \in {"mark", "next"} => hook.at \in DOMAIN Service
  /\ hook.pc = "mark" => \A b \in hook.todo : hook.snap[b] # None

\* An append holds a payload and a version that was there.
JobOK ==
  /\ job \in Jobs /\ job.base <= Len(kv)
  /\ job.pc = "append" => job.data \in Payload

StackOK ==
  /\ row \in [Binding -> Row \cup {None}] /\ want \in [Binding -> Form \cup {None}]
  /\ runs \in [Services -> Content \cup {None}]
  /\ vol \in [Binding -> Secret \cup {None}]
  /\ helper \subseteq Binding
  /\ last \in {"deploy", "clean", "dirty", "crossed"}

TypeOK ==
  /\ kv \in Seq(Payload) /\ kv # <<>>
  /\ form = None \/ form \in [id : Binding, hash : Secret \cup {None}]
  /\ HookOK /\ JobOK /\ StackOK

-----------------------------------------------------------------------------
(* The invariant. *)

\* The deploy has torn the stack down and works on the host.
Working == hook.pc \in {"populate", "mark", "next"}
WorksAlone == Working /\ last = "deploy"
Running(s) == runs[s] # None

\* The row of b is what the deploy at work captured and resolved.
Stamped(b) ==
  hook.snap[b] # None /\ row[b] = [hook.snap[b] EXCEPT !.hash = hook.val[b]]

\* What the operator asked for is in the table and in the deploy's copy of it.
EditsKept ==
  /\ EditsSurvive
  /\ \A b \in Binding \ raced :
       InFlight /\ hook.snap[b] # None => want[b] = hook.snap[b].form

\* A binding the deploy has no row of was added since.
Captured ==
  InFlight => \A b \in Bound : hook.snap[b] = None => b \in touched

\* What services share they were given alike.
Alike ==
  last = "deploy" => \A b \in Binding : \A s, t \in Services :
                       Has(s, b) /\ Has(t, b) => runs[s][b] = runs[t][b]

\* While a deploy works alone on the host: what runs was started by it, the
\* volumes hold what it resolved, and once it has marked, the rows say so.
DeployExact ==
  WorksAlone =>
    /\ hook.pc = "populate" => \A s \in Services : ~Running(s)
    /\ \A s \in Services : Running(s) => runs[s] = Injected(s)
    /\ \A b \in Binding : InVolume(b) /\ ~(hook.pc = "populate" /\ b \in hook.todo)
                            => vol[b] = hook.val[b]
    /\ \A b \in Bound \ touched :
         (\E s \in Services : Running(s)) \/ (hook.pc = "mark" /\ b \notin hook.todo)
           => Stamped(b)

\* A row nobody edited since it was stamped tells what its services see.
RowTells(b) ==
  \A s \in Services :
    Running(s) /\ Applies(row[b].form, s) => Has(s, b) /\ Seen(s, b) = row[b].hash
RowsTell ==
  ~Working /\ last = "deploy" => \A b \in Bound \ touched : RowTells(b)

SecretsInv ==
  /\ TypeOK
  /\ Working => last \in {"deploy", "crossed"}
  /\ NothingLeft
  /\ EditsKept /\ Captured
  /\ Alike /\ DeployExact /\ RowsTell
-----------------------------------------------------------------------------
(* Constants, Vault and records. *)

LEMMA Consts ==
  /\ None \notin Secret /\ None \notin Row /\ None \notin Content
  /\ Mounted \notin Secret /\ Mounted # None
  /\ Typed \subseteq Payload /\ Payload \subseteq Secret
  /\ Service \in Seq(Services)
BY SecretsAssumption DEF Secret, Services

\* A current service is one.
LEMMA ServiceAt ==
  ASSUME NEW i \in DOMAIN Service  PROVE  Service[i] \in Services
BY DEF Services, ToSet

\* A payload is a non-empty function from fields to values.
LEMMA PayloadIs ==
  ASSUME NEW p
  PROVE  p \in Payload <=> /\ DOMAIN p \subseteq Field /\ DOMAIN p # {}
                           /\ p \in [DOMAIN p -> Value]
BY DEF Payload

LEMMA ExtractType ==
  ASSUME NEW p \in Payload, NEW f
  PROVE  Extract(p, f) \in Secret \cup {None}
<1>1. DOMAIN p # {} /\ p \in [DOMAIN p -> Value] /\ Value \subseteq Secret /\ Payload \subseteq Secret
  BY PayloadIs DEF Secret
<1>2. PICK g \in DOMAIN p : g = (CHOOSE h \in DOMAIN p : TRUE)
  BY <1>1
<1> QED BY <1>1, <1>2 DEF Extract

LEMMA ReadType ==
  ASSUME kv \in Seq(Payload), NEW f
  PROVE  Read(f) \in Secret \cup {None}
<1>1. CASE kv = <<>>
  BY <1>1 DEF Read
<1>2. CASE kv # <<>>
  <2>1. Last(kv) \in Payload
    BY <1>2 DEF Last
  <2> QED BY <1>2, <2>1, ExtractType DEF Read
<1> QED BY <1>1, <1>2

LEMMA MergedType ==
  ASSUME TypeOK, job.pc = "append"
  PROVE  Merged \in Payload
<1> DEFINE old == IF job.base = Missing THEN <<>> ELSE kv[job.base]
<1>1. job.data \in Payload /\ job.base \in Nat /\ job.base <= Len(kv) /\ kv \in Seq(Payload)
  BY DEF TypeOK, JobOK, Jobs
<1>2. old = <<>> \/ old \in Payload
  BY <1>1 DEF Missing
<1>3. DOMAIN old \subseteq Field /\ \A f \in DOMAIN old : old[f] \in Value
  BY <1>2, PayloadIs
<1>4. DOMAIN job.data \subseteq Field /\ DOMAIN job.data # {} /\ \A f \in DOMAIN job.data : job.data[f] \in Value
  BY <1>1, PayloadIs
<1>5. Merged = [f \in DOMAIN old \cup DOMAIN job.data |->
                  IF f \in DOMAIN job.data THEN job.data[f] ELSE old[f]]
  BY DEF Merged
<1> HIDE DEF old
<1>6. /\ DOMAIN Merged \subseteq Field /\ DOMAIN Merged # {}
      /\ Merged \in [DOMAIN Merged -> Value]
  BY <1>3, <1>4, <1>5
<1> QED BY <1>6, PayloadIs

\* What the deploy makes of its materializer.
LEMMA HookTodo ==
  ASSUME NEW h \in Hooks, NEW t \in SUBSET Binding
  PROVE  /\ [h EXCEPT !.todo = t] \in Hooks
         /\ \A pc \in Pcs : [h EXCEPT !.pc = pc, !.todo = t] \in Hooks
<1> HIDE DEF Pcs, Row, Secret
<1> QED BY DEF Hooks

LEMMA HookVal ==
  ASSUME NEW h \in Hooks, NEW t \in SUBSET Binding, NEW b \in Binding, NEW v \in Secret \cup {None}
  PROVE  [h EXCEPT !.todo = t, !.val[b] = v] \in Hooks
<1> HIDE DEF Pcs, Row, Secret
<1>1. h.val \in [Binding -> Secret \cup {None}] /\ [h.val EXCEPT ![b] = v] \in [Binding -> Secret \cup {None}]
  BY DEF Hooks
<1>2. [h EXCEPT !.todo = t, !.val = [h.val EXCEPT ![b] = v]] \in Hooks
  BY <1>1 DEF Hooks
<1>3. [h EXCEPT !.todo = t, !.val[b] = v] = [h EXCEPT !.todo = t, !.val = [h.val EXCEPT ![b] = v]]
  BY DEF Hooks
<1> QED BY <1>2, <1>3

LEMMA HookNext ==
  ASSUME NEW h \in Hooks, NEW pc \in Pcs
  PROVE  [h EXCEPT !.pc = pc, !.at = h.at + 1] \in Hooks
<1> HIDE DEF Pcs, Row, Secret
<1>1. h.at + 1 \in Nat \ {0}
  BY DEF Hooks
<1>2. \A i \in Nat \ {0} : [h EXCEPT !.pc = pc, !.at = i] \in Hooks
  BY DEF Hooks
<1> QED BY <1>1, <1>2

LEMMA RowForms ==
  ASSUME NEW r \in Row, NEW h \in Secret \cup {None}
  PROVE  [r EXCEPT !.hash = h] \in Row /\ [r EXCEPT !.hash = h].form = r.form
         /\ [r EXCEPT !.hash = h].hash = h
BY DEF Row

LEMMA IdleType == Idle \in Hooks /\ Idle.pc = "idle" /\ \A b \in Binding : Idle.snap[b] = None
BY DEF Idle, Hooks, Pcs

LEMMA InjectedType ==
  ASSUME HookOK, NEW s \in Services
  PROVE  Injected(s) \in Content
<1> DEFINE D == {b \in Binding : Given(s, b)}
<1>1. Injected(s) \in [D -> Secret \cup {None, Mounted}]
  BY DEF HookOK, Hooks, Injected
<1>2. D \in SUBSET Binding
  OBVIOUS
<1> QED BY <1>1, <1>2 DEF Content
-----------------------------------------------------------------------------
(* Steps. *)

\* Vault, the catalog entry and the dialog: the rows, the deploy and the host
\* do not change.
Elsewhere ==
  \/ \E p \in Typed : Replace(p) \/ BeginAppend(p)
  \/ AppendValue \/ BeginCleanup \/ Destroy \/ JobFails
  \/ \E f \in Field \cup {None} : UpdateEntry(f)
  \/ \E b \in Binding : OpenForm(b)

stack == <<row, hook, runs, vol, helper, last, want, raced, touched>>

LEMMA ElsewhereQuiet == Elsewhere => UNCHANGED stack
<1>1. ASSUME NEW p \in Typed, Replace(p)  PROVE  UNCHANGED stack
  BY <1>1 DEF Replace, stack
<1>2. ASSUME NEW p \in Typed, BeginAppend(p)  PROVE  UNCHANGED stack
  BY <1>2 DEF BeginAppend, stack
<1>3. AppendValue => UNCHANGED stack
  BY DEF AppendValue, stack
<1>4. BeginCleanup => UNCHANGED stack
  BY DEF BeginCleanup, stack
<1>5. Destroy => UNCHANGED stack
  BY DEF Destroy, stack
<1>6. JobFails => UNCHANGED stack
  BY DEF JobFails, stack
<1>7. ASSUME NEW f \in Field \cup {None}, UpdateEntry(f)  PROVE  UNCHANGED stack
  BY <1>7 DEF UpdateEntry, stack
<1>8. ASSUME NEW b \in Binding, OpenForm(b)  PROVE  UNCHANGED stack
  BY <1>8 DEF OpenForm, stack
<1> QED BY <1>1, <1>2, <1>3, <1>4, <1>5, <1>6, <1>7, <1>8 DEF Elsewhere

\* A step is one of those, of the operator on a row, of the deploy or a stop.
LEMMA NextIs ==
  Next <=> \/ Elsewhere
           \/ \E f \in Form : Upsert(f)
           \/ \E b \in Binding : Delete(b)
           \/ BeginDeploy
           \/ \E b \in Binding : Resolve(b)
           \/ Teardown
           \/ \E b \in Binding : Populate(b)
           \/ Create
           \/ \E b \in Binding : MarkDeployed(b)
           \/ Start \/ DeployFails
           \/ \E leaked \in SUBSET Binding : StopStack(leaked)
BY DEF Next, Elsewhere

\* The operator's edits: which row they write.
LEMMA UpsertWrites ==
  ASSUME TypeOK, NEW f \in Form, Upsert(f)
  PROVE  \E b \in Binding : \E r \in Row :
           r.form = f /\ row' = [row EXCEPT ![b] = r] /\ Asked(b, f)
<1>1. form.id \in Binding /\ form.hash \in Secret \cup {None}
  BY DEF TypeOK, Upsert
<1>2. PICK r : r = [form |-> f, hash |-> form.hash]
  OBVIOUS
<1>3. r \in Row /\ r.form = f
  BY <1>1, <1>2 DEF Row
<1> QED BY <1>1, <1>2, <1>3 DEF Upsert

-----------------------------------------------------------------------------
(* Types. *)

LEMMA TypeInit == Init => TypeOK
<1> SUFFICES ASSUME Init  PROVE  TypeOK
  OBVIOUS
<1>1. kv \in Seq(Payload) /\ kv # <<>> /\ Len(kv) = 1
  BY Consts DEF Init
<1>2. HookOK
  BY IdleType DEF Init, HookOK
<1>3. JobOK
  BY <1>1 DEF Init, JobOK, Jobs, NoJob, Missing
<1>4. StackOK
  BY DEF Init, StackOK
<1> QED BY <1>1, <1>2, <1>3, <1>4 DEF TypeOK, Init

LEMMA ElsewhereType == TypeOK /\ Elsewhere => TypeOK'
<1> SUFFICES ASSUME TypeOK, Elsewhere  PROVE  TypeOK'
  OBVIOUS
<1>1. HookOK' /\ StackOK'
  BY ElsewhereQuiet DEF stack, TypeOK, HookOK, Hooks, StackOK
<1>2. kv \in Seq(Payload) /\ Len(kv) \in Nat
  BY DEF TypeOK
<1>3. ASSUME NEW p \in Payload
      PROVE  Append(kv, p) \in Seq(Payload) /\ Append(kv, p) # <<>> /\ Len(Append(kv, p)) = Len(kv) + 1
  BY <1>2
<1>4. job \in Jobs /\ job.base \in Nat /\ job.base <= Len(kv)
  BY DEF TypeOK, JobOK, Jobs
<1>5. ASSUME NEW p \in Typed, Replace(p)  PROVE  TypeOK'
  <2>1. p \in Payload
    BY Consts
  <2>2. JobOK'
    BY <1>2, <1>3, <1>4, <1>5, <2>1 DEF TypeOK, Replace, Write, JobOK
  <2> QED BY <1>1, <1>3, <1>5, <2>1, <2>2 DEF TypeOK, Replace, Write
<1>6. ASSUME NEW p \in Typed, BeginAppend(p)  PROVE  TypeOK'
  <2>1. job' = [pc |-> "append", base |-> Len(kv), data |-> p, old |-> {}]
    BY <1>6 DEF BeginAppend, NoJob
  <2>2. p \in Payload /\ kv' = kv
    BY <1>6, Consts DEF BeginAppend
  <2>3. job' \in Jobs /\ job'.base = Len(kv) /\ job'.data = p
    BY <1>2, <2>1, <2>2 DEF Jobs
  <2>4. JobOK'
    BY <1>2, <2>2, <2>3 DEF JobOK
  <2> QED BY <1>1, <1>6, <2>4 DEF TypeOK, BeginAppend
<1>7. NoJob \in Jobs /\ NoJob.base = 0 /\ NoJob.pc = "idle"
  BY DEF NoJob, Jobs, Missing
<1>8. CASE AppendValue
  <2>1. Merged \in Payload
    BY <1>8, MergedType DEF AppendValue
  <2>2. JobOK'
    BY <1>2, <1>3, <1>7, <1>8, <2>1 DEF AppendValue, Write, JobOK
  <2> QED BY <1>1, <1>3, <1>8, <2>1, <2>2 DEF TypeOK, AppendValue, Write
<1>9. CASE BeginCleanup
  <2>1. Obsolete \subseteq Nat
    BY DEF Obsolete
  <2>2. job' = [pc |-> "destroy", base |-> 0, data |-> None, old |-> Obsolete] /\ kv' = kv
    BY <1>9 DEF BeginCleanup, NoJob, Missing
  <2>3. job' \in Jobs /\ job'.base = 0 /\ job'.pc = "destroy"
    BY <2>1, <2>2 DEF Jobs
  <2>4. JobOK'
    BY <1>2, <2>2, <2>3 DEF JobOK
  <2> QED BY <1>1, <1>9, <2>4 DEF TypeOK, BeginCleanup
<1>10. CASE Destroy
  BY <1>1, <1>2, <1>7, <1>10 DEF TypeOK, Destroy, JobOK
<1>11. CASE JobFails
  BY <1>1, <1>2, <1>7, <1>11 DEF TypeOK, JobFails, JobOK
<1>12. ASSUME NEW f \in Field \cup {None}, UpdateEntry(f)  PROVE  TypeOK'
  BY <1>1, <1>12 DEF TypeOK, UpdateEntry, JobOK
<1>13. ASSUME NEW b \in Binding, OpenForm(b)  PROVE  TypeOK'
  <2>1. form' \in [id : Binding, hash : Secret \cup {None}]
    BY <1>13 DEF TypeOK, StackOK, OpenForm, Row
  <2> QED BY <1>1, <1>13, <2>1 DEF TypeOK, OpenForm, JobOK
<1> QED BY <1>5, <1>6, <1>8, <1>9, <1>10, <1>11, <1>12, <1>13 DEF Elsewhere
\* What each other step makes of the type.
LEMMA UpsertType == ASSUME TypeOK, NEW f \in Form, Upsert(f)  PROVE  TypeOK'
<1>1. PICK b \in Binding, r \in Row : row' = [row EXCEPT ![b] = r]
  BY UpsertWrites
<1>2. row' \in [Binding -> Row \cup {None}]
  BY <1>1 DEF TypeOK, StackOK
<1>3. want' \in [Binding -> Form \cup {None}]
  BY DEF TypeOK, StackOK, Upsert, Asked
<1> QED BY <1>2, <1>3 DEF TypeOK, HookOK, JobOK, StackOK, Upsert

LEMMA DeleteType == ASSUME TypeOK, NEW b \in Binding, Delete(b)  PROVE  TypeOK'
<1>1. row' \in [Binding -> Row \cup {None}]
  BY DEF TypeOK, StackOK, Delete
<1>2. want' \in [Binding -> Form \cup {None}]
  BY DEF TypeOK, StackOK, Delete, Asked
<1> QED BY <1>1, <1>2 DEF TypeOK, HookOK, JobOK, StackOK, Delete

\* A step that leaves Vault, the dialog and the job alone.
Deploys == UNCHANGED <<entry, kv, form, job>>
LEMMA DeployFrame ==
  ASSUME TypeOK, Deploys, HookOK', StackOK'  PROVE  TypeOK'
BY DEF TypeOK, Deploys, JobOK

LEMMA BeginType == ASSUME TypeOK, BeginDeploy  PROVE  TypeOK'
<1>1. hook' = [pc |-> "resolve", todo |-> Bound, snap |-> row,
               val |-> [b \in Binding |-> None], at |-> 1]
  BY DEF BeginDeploy, Idle
<1>2. Bound \subseteq Binding /\ row \in [Binding -> Row \cup {None}]
  BY DEF Bound, TypeOK, StackOK
<1>3. [b \in Binding |-> None] \in [Binding -> Secret \cup {None}]
  OBVIOUS
<1>4. hook' \in Hooks /\ hook'.pc = "resolve"
  BY <1>1, <1>2, <1>3 DEF Hooks, Pcs
<1>5. HookOK'
  BY <1>4 DEF HookOK
<1>6. StackOK'
  BY DEF TypeOK, StackOK, BeginDeploy
<1> QED BY <1>5, <1>6, DeployFrame DEF BeginDeploy, Deploys

LEMMA ResolveType == ASSUME TypeOK, NEW b \in Binding, Resolve(b)  PROVE  TypeOK'
<1>1. StackOK'
  BY DEF TypeOK, StackOK, Resolve
<1>2. Read(hook.snap[b].form.field) \in Secret \cup {None}
  BY ReadType DEF TypeOK
<1>3. hook \in Hooks /\ hook.pc = "resolve"
  BY DEF TypeOK, HookOK, Resolve
<1>4. hook.todo \ {b} \in SUBSET Binding
  BY <1>3 DEF Hooks
<1>5. CASE hook' = Idle
  <2>1. HookOK'
    BY <1>5, IdleType DEF HookOK
  <2> QED BY <1>1, <2>1, DeployFrame DEF Resolve, Deploys
<1>6. CASE hook' = [hook EXCEPT !.todo = hook.todo \ {b}, !.val[b] = Read(hook.snap[b].form.field)]
  <2>1. hook' \in Hooks
    BY <1>2, <1>3, <1>4, <1>6, HookVal
  <2>2. hook'.pc = "resolve"
    BY <1>3, <1>6 DEF Hooks
  <2>3. HookOK'
    BY <2>1, <2>2 DEF HookOK
  <2> QED BY <1>1, <2>3, DeployFrame DEF Resolve, Deploys
<1> QED BY <1>5, <1>6 DEF Resolve

LEMMA TeardownType == ASSUME TypeOK, Teardown  PROVE  TypeOK'
<1>1. StackOK'
  BY DEF TypeOK, StackOK, Teardown
<1>2. hook \in Hooks /\ "populate" \in Pcs
  BY DEF TypeOK, HookOK, Pcs
<1>3. {b \in Binding : InVolume(b)} \in SUBSET Binding
  OBVIOUS
<1>4. hook' = [hook EXCEPT !.pc = "populate", !.todo = {b \in Binding : InVolume(b)}]
  BY DEF Teardown
<1>5. hook' \in Hooks
  BY <1>2, <1>3, <1>4, HookTodo
<1>6. hook'.pc = "populate"
  BY <1>2, <1>4 DEF Hooks
<1>7. HookOK'
  BY <1>5, <1>6 DEF HookOK
<1> QED BY <1>1, <1>7, DeployFrame DEF Teardown, Deploys

LEMMA PopulateType == ASSUME TypeOK, NEW b \in Binding, Populate(b)  PROVE  TypeOK'
<1>1. hook \in Hooks /\ hook.pc = "populate"
  BY DEF TypeOK, HookOK, Populate
<1>2. hook.val[b] \in Secret \cup {None} /\ hook.todo \ {b} \in SUBSET Binding
  BY <1>1 DEF Hooks
<1>3. StackOK'
  BY <1>2 DEF TypeOK, StackOK, Populate
<1>4. hook' = [hook EXCEPT !.todo = hook.todo \ {b}]
  BY DEF Populate
<1>5. hook' \in Hooks
  BY <1>1, <1>2, <1>4, HookTodo
<1>6. hook'.pc = "populate"
  BY <1>1, <1>4 DEF Hooks
<1>7. HookOK'
  BY <1>5, <1>6 DEF HookOK
<1> QED BY <1>3, <1>7, DeployFrame DEF Populate, Deploys

LEMMA CreateType == ASSUME TypeOK, Create  PROVE  TypeOK'
<1>1. hook \in Hooks /\ "mark" \in Pcs
  BY DEF TypeOK, HookOK, Pcs
<1>2. PICK t \in SUBSET Binding : t = {b \in Binding : hook.snap[b] # None}
  OBVIOUS
<1>3. StackOK'
  BY DEF TypeOK, StackOK, Create
<1>4. hook' = [hook EXCEPT !.pc = "mark", !.todo = t]
  BY <1>2 DEF Create
<1>5. hook' \in Hooks
  BY <1>1, <1>4, HookTodo
<1>6. hook'.at = hook.at /\ hook'.todo = t /\ hook'.snap = hook.snap
  BY <1>1, <1>4 DEF Hooks
<1>7. hook.at \in Nat \ {0} /\ hook.at <= Len(Service) /\ DOMAIN Service = 1 .. Len(Service)
  BY <1>1, Consts DEF Hooks, Create
<1>8. Len(Service) \in Nat
  BY Consts
<1>9. hook.at \in DOMAIN Service
  BY <1>7, <1>8
<1>10. HookOK'
  BY <1>2, <1>5, <1>6, <1>9 DEF HookOK
<1> QED BY <1>3, <1>10, DeployFrame DEF Create, Deploys

LEMMA MarkType == ASSUME TypeOK, NEW b \in Binding, MarkDeployed(b)  PROVE  TypeOK'
<1>1. hook \in Hooks /\ hook.pc = "mark" /\ hook.at \in DOMAIN Service /\ hook.snap[b] # None
  BY DEF TypeOK, HookOK, MarkDeployed
<1>2. hook.snap[b] \in Row /\ hook.val[b] \in Secret \cup {None} /\ hook.todo \ {b} \in SUBSET Binding
  BY <1>1 DEF Hooks
<1>3. PICK r \in Row : r = [hook.snap[b] EXCEPT !.hash = hook.val[b]]
  BY <1>2, RowForms
<1>4. row' = [row EXCEPT ![b] = r]
  BY <1>3 DEF MarkDeployed
<1>5. row' \in [Binding -> Row \cup {None}]
  BY <1>4 DEF TypeOK, StackOK
<1>6. StackOK'
  BY <1>5 DEF TypeOK, StackOK, MarkDeployed
<1>7. hook' = [hook EXCEPT !.todo = hook.todo \ {b}]
  BY DEF MarkDeployed
<1>8. hook' \in Hooks
  BY <1>1, <1>2, <1>7, HookTodo
<1>9. hook'.at = hook.at /\ hook'.todo = hook.todo \ {b} /\ hook'.snap = hook.snap
  BY <1>1, <1>7 DEF Hooks
<1>10. HookOK'
  BY <1>1, <1>8, <1>9 DEF HookOK, TypeOK
<1> QED BY <1>6, <1>10, DeployFrame DEF MarkDeployed, Deploys

LEMMA StartType == ASSUME TypeOK, Start  PROVE  TypeOK'
<1>1. HookOK /\ hook \in Hooks /\ hook.pc = "mark" /\ hook.at \in DOMAIN Service
  BY DEF TypeOK, HookOK, Start
<1>2. Injected(Current) \in Content
  BY <1>1, ServiceAt, InjectedType DEF Current
<1>3. StackOK'
  BY <1>2 DEF TypeOK, StackOK, Start
<1>4. CASE hook' = Idle
  <2>1. HookOK'
    BY <1>4, IdleType DEF HookOK
  <2> QED BY <1>3, <2>1, DeployFrame DEF Start, Deploys
<1>5. CASE hook.at # Len(Service) /\ hook' = [hook EXCEPT !.pc = "next", !.at = hook.at + 1]
  <2>1. "next" \in Pcs
    BY DEF Pcs
  <2>2. hook' \in Hooks
    BY <1>1, <1>5, <2>1, HookNext
  <2>3. hook'.pc = "next" /\ hook'.at = hook.at + 1
    BY <1>1, <1>5 DEF Hooks
  <2>4. hook.at + 1 \in DOMAIN Service
    BY <1>1, <1>5, Consts
  <2>5. HookOK'
    BY <2>2, <2>3, <2>4 DEF HookOK
  <2> QED BY <1>3, <2>5, DeployFrame DEF Start, Deploys
<1> QED BY <1>4, <1>5 DEF Start

LEMMA FailsType == ASSUME TypeOK, DeployFails  PROVE  TypeOK'
<1>1. HookOK'
  BY IdleType DEF DeployFails, HookOK
<1> QED BY <1>1, DeployFrame DEF DeployFails, Deploys, TypeOK, StackOK

LEMMA StopType == ASSUME TypeOK, NEW leaked \in SUBSET Binding, StopStack(leaked)  PROVE  TypeOK'
<1>1. StackOK'
  BY DEF TypeOK, StackOK, StopStack
<1>2. HookOK'
  BY DEF TypeOK, HookOK, StopStack
<1> QED BY <1>1, <1>2, DeployFrame DEF StopStack, Deploys

LEMMA TypeStep == TypeOK /\ [Next]_vars => TypeOK'
<1>1. ASSUME TypeOK, UNCHANGED vars  PROVE  TypeOK'
  BY <1>1 DEF TypeOK, HookOK, JobOK, StackOK, vars
<1>2. ASSUME TypeOK, Next  PROVE  TypeOK'
  BY <1>2, NextIs, ElsewhereType, UpsertType, DeleteType, BeginType, ResolveType, TeardownType,
     PopulateType, CreateType, MarkType, StartType, FailsType, StopType
<1> QED BY <1>1, <1>2

(* The types of the bindings, the deploy's materializer and the host: what  *)
(* every deploy, edit, Vault job and teardown keeps.                        *)
THEOREM TypeCorrect == Spec => []TypeOK
<1> QED BY TypeInit, TypeStep, PTL DEF Spec
-----------------------------------------------------------------------------
(* The invariant holds initially and in every step. *)

LEMMA InvInit == Init => SecretsInv
<1> SUFFICES ASSUME Init  PROVE  SecretsInv
  OBVIOUS
<1>1. /\ hook.pc = "idle" /\ last = "dirty" /\ ~Working /\ ~InFlight
      /\ \A b \in Binding : row[b] = None /\ want[b] = None
  BY IdleType DEF Init, Working, InFlight
<1>2. EditsKept /\ Captured
  BY <1>1 DEF EditsKept, EditsSurvive, Captured
<1> QED BY <1>1, <1>2, TypeInit DEF SecretsInv, NothingLeft, Alike, DeployExact, WorksAlone, RowsTell

LEMMA QuietKeeps == SecretsInv /\ UNCHANGED stack /\ TypeOK' => SecretsInv'
<1> SUFFICES ASSUME SecretsInv, UNCHANGED stack, TypeOK'  PROVE  SecretsInv'
  OBVIOUS
<1> USE DEF stack, SecretsInv
<1>1. NothingLeft' /\ (Working => last \in {"deploy", "crossed"})'
  BY DEF NothingLeft, Working
<1>2. EditsKept' /\ Captured'
  BY DEF EditsKept, EditsSurvive, Captured, InFlight, Bound
<1>3. Alike' /\ RowsTell'
  BY DEF Alike, RowsTell, RowTells, Has, Running, Seen, Working, Bound
<1>4. DeployExact'
  BY DEF DeployExact, WorksAlone, Working, Running, Injected, InVolume, Given, Bound, Stamped
<1> QED BY <1>1, <1>2, <1>3, <1>4

\* Row b becomes x, and that is what the operator asked for.
LEMMA EditKeeps ==
  ASSUME SecretsInv, TypeOK', NEW b \in Binding, NEW f, NEW x \in Row \cup {None},
         Asked(b, f), row' = [row EXCEPT ![b] = x],
         IF x = None THEN f = None ELSE x.form = f,
         UNCHANGED <<hook, runs, vol, helper, last>>
  PROVE  SecretsInv'
<1> USE DEF SecretsInv
<1>1. /\ row \in [Binding -> Row \cup {None}] /\ want \in [Binding -> Form \cup {None}]
      /\ want' = [want EXCEPT ![b] = f] /\ touched' = touched \cup {b}
      /\ raced' = IF InFlight /\ hook.snap[b] # None THEN raced \cup {b} ELSE raced \ {b}
  BY DEF TypeOK, StackOK, Asked
<1>2. /\ row'[b] = x /\ want'[b] = f
      /\ \A c \in Binding \ {b} : row'[c] = row[c] /\ want'[c] = want[c] /\ (c \in raced' <=> c \in raced)
  BY <1>1
<1>3. NothingLeft' /\ (Working => last \in {"deploy", "crossed"})'
  BY DEF NothingLeft, Working
<1>4. EditsSurvive'
  BY <1>2 DEF EditsKept, EditsSurvive
<1>5. EditsKept'
  BY <1>1, <1>2, <1>4 DEF EditsKept, InFlight
<1>6. Captured'
  BY <1>1, <1>2 DEF Captured, Bound, InFlight
<1>7. Alike'
  BY DEF Alike, Has
<1>8. RowsTell'
  <2> SUFFICES ASSUME ~Working, last = "deploy", NEW c \in Bound' \ touched'
               PROVE  RowTells(c)'
    BY DEF RowsTell, Working
  <2>1. c \in Bound \ touched /\ row'[c] = row[c]
    BY <1>1, <1>2 DEF Bound
  <2>2. RowTells(c)
    BY <2>1 DEF RowsTell
  <2> QED BY <2>1, <2>2 DEF RowTells, Running, Has, Seen
<1>9. DeployExact'
  <2> SUFFICES ASSUME WorksAlone  PROVE  DeployExact'
    BY DEF DeployExact, WorksAlone, Working
  <2>1. ASSUME NEW c \in Bound' \ touched',
               (\E s \in Services : Running(s)) \/ (hook.pc = "mark" /\ c \notin hook.todo)
        PROVE  Stamped(c)'
    <3>1. c \in Bound \ touched /\ row'[c] = row[c]
      BY <1>1, <1>2 DEF Bound
    <3>2. Stamped(c)
      BY <2>1, <3>1 DEF DeployExact
    <3> QED BY <3>1, <3>2 DEF Stamped
  <2>2. ASSUME NEW s \in Services, Running(s)  PROVE  runs[s] = Injected(s)
    BY <2>2 DEF DeployExact
  <2>3. ASSUME NEW s \in Services  PROVE  Injected(s)' = Injected(s)
    BY DEF Injected, Given, InVolume
  <2>4. \A c \in Binding : InVolume(c) /\ ~(hook.pc = "populate" /\ c \in hook.todo)
                             => vol[c] = hook.val[c]
    BY DEF DeployExact
  <2>5. hook.pc = "populate" => \A s \in Services : ~Running(s)
    BY DEF DeployExact
  <2> QED BY <2>1, <2>2, <2>3, <2>4, <2>5 DEF DeployExact, Running, InVolume
<1> QED BY <1>3, <1>5, <1>6, <1>7, <1>8, <1>9

LEMMA UpsertKeeps == ASSUME SecretsInv, NEW f \in Form, Upsert(f)  PROVE  SecretsInv'
<1>1. TypeOK /\ TypeOK'
  BY UpsertType DEF SecretsInv
<1>2. PICK b \in Binding, r \in Row : r.form = f /\ row' = [row EXCEPT ![b] = r] /\ Asked(b, f)
  BY <1>1, UpsertWrites
<1>3. r # None
  BY Consts
<1>4. UNCHANGED <<hook, runs, vol, helper, last>>
  BY DEF Upsert
<1> QED BY <1>1, <1>2, <1>3, <1>4, EditKeeps

LEMMA DeleteKeeps == ASSUME SecretsInv, NEW b \in Binding, Delete(b)  PROVE  SecretsInv'
<1>1. TypeOK'
  BY DeleteType DEF SecretsInv
<1>2. row' = [row EXCEPT ![b] = None] /\ Asked(b, None) /\ UNCHANGED <<hook, runs, vol, helper, last>>
  BY DEF Delete
<1> QED BY <1>1, <1>2, EditKeeps

LEMMA BeginKeeps == SecretsInv /\ BeginDeploy => SecretsInv'
<1> SUFFICES ASSUME SecretsInv, BeginDeploy  PROVE  SecretsInv'
  OBVIOUS
<1> USE DEF SecretsInv
<1>1. TypeOK'
  BY BeginType
<1>2. hook'.pc = "resolve" /\ hook'.snap = row /\ ~Working /\ ~Working'
  BY DEF BeginDeploy, Idle, Working, InFlight
<1>3. UNCHANGED <<row, runs, vol, helper, last, want, raced, touched>>
  BY DEF BeginDeploy
<1>4. NothingLeft' /\ DeployExact'
  BY <1>2, <1>3 DEF NothingLeft, DeployExact, WorksAlone
<1>5. EditsKept' /\ Captured'
  BY <1>2, <1>3 DEF EditsKept, EditsSurvive, Captured, Bound
<1>6. Alike' /\ RowsTell'
  BY <1>2, <1>3 DEF Alike, RowsTell, RowTells, Has, Running, Seen, Bound
<1> QED BY <1>1, <1>2, <1>4, <1>5, <1>6

\* A deploy that does not work on the host yet resolves on, or gives up.
LEMMA ResolveKeeps == ASSUME SecretsInv, NEW b \in Binding, Resolve(b)  PROVE  SecretsInv'
<1> USE DEF SecretsInv
<1>1. TypeOK'
  BY ResolveType
<1>2. UNCHANGED <<row, runs, vol, helper, last, want, raced, touched>> /\ hook.pc = "resolve" /\ ~Working
  BY DEF Resolve, Working
<1>3. hook'.pc = "idle" \/ (hook'.pc = "resolve" /\ hook'.snap = hook.snap)
  BY IdleType DEF Resolve, TypeOK, HookOK, Hooks
<1>4. ~Working'
  BY <1>3 DEF Working
<1>5. NothingLeft' /\ DeployExact'
  BY <1>2, <1>4 DEF NothingLeft, DeployExact, WorksAlone
<1>6. EditsKept' /\ Captured'
  BY <1>2, <1>3 DEF EditsKept, EditsSurvive, Captured, Bound, InFlight
<1>7. Alike' /\ RowsTell'
  BY <1>2, <1>4 DEF Alike, RowsTell, RowTells, Has, Running, Seen, Bound
<1> QED BY <1>1, <1>4, <1>5, <1>6, <1>7

LEMMA TeardownKeeps == SecretsInv /\ Teardown => SecretsInv'
<1> SUFFICES ASSUME SecretsInv, Teardown  PROVE  SecretsInv'
  OBVIOUS
<1> USE DEF SecretsInv
<1>1. TypeOK'
  BY TeardownType
<1>2. /\ hook \in Hooks /\ hook'.pc = "populate" /\ hook'.snap = hook.snap /\ hook.pc = "resolve"
      /\ hook'.todo = {b \in Binding : InVolume(b)}
  BY DEF Teardown, TypeOK, HookOK, Hooks
<1>3. UNCHANGED <<row, vol, want, raced, touched>> /\ last' = "deploy" /\ \A s \in Services : runs'[s] = None
  BY DEF Teardown
<1>4. NothingLeft' /\ Alike' /\ RowsTell'
  BY <1>2, <1>3 DEF NothingLeft, Alike, Has, RowsTell, Working
<1>5. EditsKept' /\ Captured'
  BY <1>2, <1>3 DEF EditsKept, EditsSurvive, Captured, Bound, InFlight
<1>6. \A b \in Binding : InVolume(b)' => b \in hook'.todo
  BY <1>2 DEF InVolume
<1>7. DeployExact'
  BY <1>2, <1>3, <1>6 DEF DeployExact, Running
<1> QED BY <1>1, <1>3, <1>4, <1>5, <1>7

LEMMA PopulateKeeps == ASSUME SecretsInv, NEW b \in Binding, Populate(b)  PROVE  SecretsInv'
<1> USE DEF SecretsInv
<1>1. TypeOK'
  BY PopulateType
<1>2. /\ hook \in Hooks /\ hook.pc = "populate" /\ hook'.pc = "populate" /\ hook'.snap = hook.snap
      /\ hook'.val = hook.val /\ hook'.todo = hook.todo \ {b} /\ Working /\ Working'
  BY DEF Populate, TypeOK, HookOK, Hooks, Working
<1>3. /\ UNCHANGED <<row, runs, last, want, raced, touched>>
      /\ vol' = [vol EXCEPT ![b] = hook.val[b]] /\ vol \in [Binding -> Secret \cup {None}]
  BY DEF Populate, TypeOK, StackOK
<1>4. NothingLeft' /\ Alike' /\ RowsTell' /\ last' \in {"deploy", "crossed"}
  BY <1>2, <1>3 DEF NothingLeft, Alike, Has, RowsTell
<1>5. EditsKept' /\ Captured'
  BY <1>2, <1>3 DEF EditsKept, EditsSurvive, Captured, Bound, InFlight
<1>6. ASSUME WorksAlone  PROVE  DeployExact'
  <2>1. \A s \in Services : ~Running(s)'
    BY <1>2, <1>3, <1>6 DEF DeployExact, Running
  <2>2. \A c \in Binding : InVolume(c)' /\ c \notin hook'.todo => vol'[c] = hook'.val[c]
    BY <1>2, <1>3, <1>6 DEF DeployExact, InVolume
  <2> QED BY <1>2, <2>1, <2>2 DEF DeployExact
<1>7. DeployExact'
  BY <1>2, <1>3, <1>6 DEF DeployExact, WorksAlone
<1> QED BY <1>1, <1>4, <1>5, <1>7
LEMMA CreateKeeps == SecretsInv /\ Create => SecretsInv'
<1> SUFFICES ASSUME SecretsInv, Create  PROVE  SecretsInv'
  OBVIOUS
<1> USE DEF SecretsInv
<1>1. TypeOK'
  BY CreateType
<1>2. /\ hook \in Hooks /\ hook.pc \in {"populate", "next"} /\ hook.todo = {}
      /\ hook'.pc = "mark" /\ hook'.snap = hook.snap /\ hook'.val = hook.val
      /\ hook'.todo = {b \in Binding : hook.snap[b] # None} /\ Working /\ Working'
  BY DEF Create, TypeOK, HookOK, Hooks, Working
<1>3. UNCHANGED <<row, runs, vol, helper, last, want, raced, touched>>
  BY DEF Create
<1>4. NothingLeft' /\ Alike' /\ RowsTell' /\ last' \in {"deploy", "crossed"}
  BY <1>2, <1>3 DEF NothingLeft, Alike, Has, RowsTell
<1>5. EditsKept' /\ Captured'
  BY <1>2, <1>3 DEF EditsKept, EditsSurvive, Captured, Bound, InFlight
<1>6. ASSUME WorksAlone  PROVE  DeployExact'
  <2>1. \A s \in Services : Injected(s)' = Injected(s)
    BY <1>2 DEF Injected, Given, InVolume
  <2>2. \A s \in Services : Running(s)' => runs'[s] = Injected(s)'
    BY <1>3, <1>6, <2>1 DEF DeployExact, Running
  <2>3. \A b \in Binding : InVolume(b)' => vol'[b] = hook'.val[b]
    BY <1>2, <1>3, <1>6 DEF DeployExact, InVolume
  <2>4. ASSUME NEW b \in Bound \ touched, (\E s \in Services : Running(s)) \/ b \notin hook'.todo
        PROVE  Stamped(b)'
    <3>1. CASE \E s \in Services : Running(s)
      BY <1>2, <1>3, <1>6, <3>1 DEF DeployExact, Stamped
    <3>2. CASE b \notin hook'.todo
      BY <1>2, <3>2 DEF Captured, Bound, InFlight
    <3> QED BY <2>4, <3>1, <3>2
  <2> QED BY <1>2, <1>3, <2>2, <2>3, <2>4 DEF DeployExact, Running, Bound
<1>7. DeployExact'
  BY <1>2, <1>3, <1>6 DEF DeployExact, WorksAlone
<1> QED BY <1>1, <1>4, <1>5, <1>7

LEMMA MarkKeeps == ASSUME SecretsInv, NEW b \in Binding, MarkDeployed(b)  PROVE  SecretsInv'
<1> USE DEF SecretsInv
<1>1. TypeOK'
  BY MarkType
<1>2. /\ hook \in Hooks /\ hook.pc = "mark" /\ hook'.pc = "mark" /\ hook'.snap = hook.snap
      /\ hook'.val = hook.val /\ hook'.todo = hook.todo \ {b} /\ Working /\ Working'
      /\ b \in hook.todo /\ hook.snap[b] # None
  BY DEF MarkDeployed, TypeOK, HookOK, Hooks, Working
<1>3. PICK r : r = [hook.snap[b] EXCEPT !.hash = hook.val[b]]
  OBVIOUS
<1>4. r \in Row /\ r # None /\ r.form = hook.snap[b].form
  BY <1>2, <1>3, RowForms, Consts DEF Hooks
<1>5. /\ UNCHANGED <<runs, vol, helper, last, want, raced>> /\ touched' = touched \ {b}
      /\ row' = [row EXCEPT ![b] = r] /\ row \in [Binding -> Row \cup {None}]
  BY <1>3 DEF MarkDeployed, TypeOK, StackOK
<1>6. row'[b] = r /\ \A c \in Binding \ {b} : row'[c] = row[c]
  BY <1>5
<1>7. NothingLeft' /\ Alike' /\ RowsTell' /\ last' \in {"deploy", "crossed"}
  BY <1>2, <1>5 DEF NothingLeft, Alike, Has, RowsTell
<1>8. EditsKept'
  BY <1>2, <1>4, <1>5, <1>6 DEF EditsKept, EditsSurvive, InFlight
<1>9. Captured'
  BY <1>2, <1>5, <1>6 DEF Captured, Bound, InFlight
<1>10. ASSUME WorksAlone  PROVE  DeployExact'
  <2>1. \A s \in Services : Injected(s)' = Injected(s)
    BY <1>2 DEF Injected, Given, InVolume
  <2>2. \A s \in Services : Running(s)' => runs'[s] = Injected(s)'
    BY <1>5, <1>10, <2>1 DEF DeployExact, Running
  <2>3. \A c \in Binding : InVolume(c)' => vol'[c] = hook'.val[c]
    BY <1>2, <1>5, <1>10 DEF DeployExact, InVolume
  <2>4. Stamped(b)'
    BY <1>2, <1>3, <1>6 DEF Stamped
  <2>5. ASSUME NEW c \in Bound' \ touched', c # b,
               (\E s \in Services : Running(s)) \/ c \notin hook'.todo
        PROVE  Stamped(c)'
    <3>1. c \in Bound \ touched /\ row'[c] = row[c]
      BY <1>5, <1>6, <2>5 DEF Bound
    <3>2. Stamped(c)
      BY <1>2, <1>10, <2>5, <3>1 DEF DeployExact
    <3> QED BY <1>2, <3>1, <3>2 DEF Stamped
  <2> QED BY <1>2, <1>5, <2>2, <2>3, <2>4, <2>5 DEF DeployExact, Running
<1>11. DeployExact'
  BY <1>2, <1>5, <1>10 DEF DeployExact, WorksAlone
<1> QED BY <1>1, <1>7, <1>8, <1>9, <1>11

\* What a service was given for a stamped binding is what the row says.
LEMMA InjectedTells ==
  ASSUME TypeOK, NEW s \in Services, NEW b \in Binding, Stamped(b),
         InVolume(b) => vol[b] = hook.val[b], Applies(row[b].form, s)
  PROVE  /\ b \in DOMAIN Injected(s)
         /\ (IF Injected(s)[b] = Mounted THEN vol[b] ELSE Injected(s)[b]) = row[b].hash
<1>1. hook.snap[b] \in Row /\ hook.val[b] \in Secret \cup {None}
  BY DEF TypeOK, HookOK, Hooks, Stamped
<1>2. row[b].form = hook.snap[b].form /\ row[b].hash = hook.val[b]
  BY <1>1, RowForms DEF Stamped
<1>3. Given(s, b) /\ hook.val[b] # Mounted
  BY <1>1, <1>2, Consts DEF Given, Stamped
<1> QED BY <1>2, <1>3 DEF Injected

LEMMA StartKeeps == SecretsInv /\ Start => SecretsInv'
<1> SUFFICES ASSUME SecretsInv, Start  PROVE  SecretsInv'
  OBVIOUS
<1> USE DEF SecretsInv
<1>1. TypeOK'
  BY StartType
<1>2. /\ hook \in Hooks /\ hook.pc = "mark" /\ hook.todo = {} /\ hook.at \in DOMAIN Service
      /\ Working /\ last \in {"deploy", "crossed"}
  BY DEF Start, TypeOK, HookOK, Working
<1>3. PICK c \in Services : c = Current
  BY <1>2, ServiceAt DEF Current
<1>4. /\ UNCHANGED <<row, vol, helper, last, want, raced, touched>>
      /\ runs' = [runs EXCEPT ![c] = Injected(c)] /\ runs \in [Services -> Content \cup {None}]
  BY <1>3 DEF Start, TypeOK, StackOK
<1>5. \/ hook'.pc = "idle"
      \/ /\ hook'.pc = "next" /\ hook'.snap = hook.snap /\ hook'.val = hook.val
  BY <1>2, IdleType DEF Start, Hooks
<1>6. NothingLeft'
  BY <1>2, <1>4 DEF NothingLeft
<1>7. EditsKept' /\ Captured'
  BY <1>2, <1>4, <1>5 DEF EditsKept, EditsSurvive, Captured, Bound, InFlight
<1>8. CASE last # "deploy"
  BY <1>1, <1>2, <1>4, <1>6, <1>7, <1>8 DEF Alike, DeployExact, WorksAlone, RowsTell
<1>9. CASE last = "deploy"
  <2> DEFINE Given2(s) == runs'[s] # None
  <2>1. ASSUME NEW s \in Services, Given2(s)  PROVE  runs'[s] = Injected(s)
    BY <1>2, <1>4, <1>9, <2>1 DEF DeployExact, WorksAlone, Running
  <2>2. \A b \in Binding : InVolume(b) => vol[b] = hook.val[b]
    BY <1>2, <1>9 DEF DeployExact, WorksAlone
  <2>3. \A b \in Bound \ touched : Stamped(b)
    BY <1>2, <1>9 DEF DeployExact, WorksAlone
  <2>4. Alike'
    <3> SUFFICES ASSUME NEW b \in Binding, NEW s \in Services, NEW t \in Services,
                        Given2(s), b \in DOMAIN runs'[s], Given2(t), b \in DOMAIN runs'[t]
                 PROVE  runs'[s][b] = runs'[t][b]
      BY DEF Alike, Has
    <3>1. runs'[s] = Injected(s) /\ runs'[t] = Injected(t)
      BY <2>1
    <3>2. Injected(s)[b] = IF InVolume(b) THEN Mounted ELSE hook.val[b]
      BY <3>1 DEF Injected
    <3>3. Injected(t)[b] = IF InVolume(b) THEN Mounted ELSE hook.val[b]
      BY <3>1 DEF Injected
    <3> QED BY <3>1, <3>2, <3>3
  <2>5. RowsTell'
    <3> SUFFICES ASSUME NEW b \in Bound \ touched, NEW s \in Services, Given2(s),
                        Applies(row[b].form, s)
                 PROVE  Has(s, b)' /\ Seen(s, b)' = row[b].hash
      BY <1>4 DEF RowsTell, RowTells, Running, Bound
    <3>1. runs'[s] = Injected(s) /\ b \in Binding
      BY <2>1 DEF Bound
    <3>2. /\ b \in DOMAIN Injected(s)
          /\ (IF Injected(s)[b] = Mounted THEN vol[b] ELSE Injected(s)[b]) = row[b].hash
      BY <2>2, <2>3, <3>1, InjectedTells
    <3> QED BY <1>4, <3>1, <3>2 DEF Has, Seen
  <2>6. DeployExact'
    <3>1. CASE hook'.pc = "idle"
      BY <3>1 DEF DeployExact, WorksAlone, Working
    <3>2. CASE hook'.pc = "next" /\ hook'.snap = hook.snap /\ hook'.val = hook.val
      <4>1. \A s \in Services : Injected(s)' = Injected(s)
        BY <3>2 DEF Injected, Given, InVolume
      <4>2. \A s \in Services : Running(s)' => runs'[s] = Injected(s)'
        BY <2>1, <4>1 DEF Running
      <4>3. \A b \in Binding : InVolume(b)' => vol'[b] = hook'.val[b]
        BY <1>4, <2>2, <3>2 DEF InVolume
      <4>4. \A b \in Bound' \ touched' : Stamped(b)'
        BY <1>4, <2>3, <3>2 DEF Stamped, Bound
      <4> QED BY <3>2, <4>2, <4>3, <4>4 DEF DeployExact
    <3> QED BY <1>5, <3>1, <3>2
  <2> QED BY <1>1, <1>2, <1>4, <1>6, <1>7, <2>4, <2>5, <2>6
<1> QED BY <1>8, <1>9

LEMMA FailsKeeps == SecretsInv /\ DeployFails => SecretsInv'
<1> SUFFICES ASSUME SecretsInv, DeployFails  PROVE  SecretsInv'
  OBVIOUS
<1> USE DEF SecretsInv
<1>1. TypeOK'
  BY FailsType
<1>2. /\ hook'.pc = "idle" /\ UNCHANGED <<row, runs, vol, helper, last, want, raced, touched>>
      /\ ~Working' /\ ~InFlight'
  BY IdleType DEF DeployFails, Working, InFlight
<1>3. NothingLeft' /\ EditsKept' /\ Captured' /\ Alike' /\ DeployExact'
  BY <1>2 DEF NothingLeft, EditsKept, EditsSurvive, Captured, Alike, Has, DeployExact, WorksAlone
<1>4. ASSUME last = "deploy", NEW b \in Bound \ touched, NEW s \in Services, Running(s),
             Applies(row[b].form, s)
      PROVE  Has(s, b) /\ Seen(s, b) = row[b].hash
  <2>1. CASE ~Working
    BY <1>4, <2>1 DEF RowsTell, RowTells
  <2>2. CASE Working
    <3>1. WorksAlone /\ b \in Binding
      BY <1>4, <2>2 DEF WorksAlone, Bound
    <3>2. hook.pc # "populate"
      BY <1>4, <3>1 DEF DeployExact
    <3>3. Stamped(b) /\ runs[s] = Injected(s) /\ (InVolume(b) => vol[b] = hook.val[b])
      BY <1>4, <3>1, <3>2 DEF DeployExact
    <3>4. /\ b \in DOMAIN Injected(s)
          /\ (IF Injected(s)[b] = Mounted THEN vol[b] ELSE Injected(s)[b]) = row[b].hash
      BY <1>4, <3>1, <3>3, InjectedTells
    <3> QED BY <1>4, <3>3, <3>4 DEF Has, Seen, Running
  <2> QED BY <2>1, <2>2
<1>5. RowsTell'
  BY <1>2, <1>4 DEF RowsTell, RowTells, Running, Bound, Has, Seen
<1> QED BY <1>1, <1>2, <1>3, <1>5

LEMMA StopKeeps ==
  ASSUME SecretsInv, NEW leaked \in SUBSET Binding, StopStack(leaked)  PROVE  SecretsInv'
<1> USE DEF SecretsInv
<1>1. TypeOK'
  BY StopType
<1>2. /\ UNCHANGED <<row, hook, want, raced, touched>> /\ last' # "deploy"
      /\ InFlight => last' = "crossed"
  BY DEF StopStack
<1>3. (Working => last \in {"deploy", "crossed"})'
  BY <1>2 DEF Working, InFlight
<1>4. NothingLeft'
  <2> SUFFICES ASSUME last' = "clean"  PROVE  helper' = {} /\ \A b \in Binding : vol'[b] = None
    BY DEF NothingLeft
  <2>1. leaked = {} /\ helper \subseteq Binding
    BY DEF StopStack, TypeOK, StackOK
  <2> QED BY <2>1 DEF StopStack, Cleaned
<1>5. EditsKept' /\ Captured'
  BY <1>2 DEF EditsKept, EditsSurvive, Captured, Bound, InFlight
<1> QED BY <1>1, <1>2, <1>3, <1>4, <1>5 DEF Alike, DeployExact, WorksAlone, RowsTell

LEMMA InvStep == SecretsInv /\ [Next]_vars => SecretsInv'
<1>1. ASSUME SecretsInv, UNCHANGED stack, TypeOK'  PROVE  SecretsInv'
  BY <1>1, QuietKeeps
<1>2. ASSUME SecretsInv, UNCHANGED vars  PROVE  SecretsInv'
  <2>1. UNCHANGED stack
    BY <1>2 DEF vars, stack
  <2> QED BY <1>1, <1>2, <2>1, TypeStep DEF SecretsInv
<1>3. ASSUME SecretsInv, Elsewhere  PROVE  SecretsInv'
  BY <1>1, <1>3, ElsewhereQuiet, ElsewhereType DEF SecretsInv
<1>4. ASSUME SecretsInv, Next  PROVE  SecretsInv'
  BY <1>3, <1>4, NextIs, UpsertKeeps, DeleteKeeps, BeginKeeps, ResolveKeeps, TeardownKeeps,
     PopulateKeeps, CreateKeeps, MarkKeeps, StartKeeps, FailsKeeps, StopKeeps
<1> QED BY <1>2, <1>4

-----------------------------------------------------------------------------
(* What the invariant gives. *)

LEMMA Invariant == Spec => []SecretsInv
<1> QED BY InvInit, InvStep, PTL DEF Spec

(* However the operator edits and writes meanwhile, services that share a   *)
(* binding see one value: a deploy resolves it once                        *)
(* (compose_stack_secret.go:322).                                          *)
THEOREM ServicesSeeOne == Spec => []ServicesAgree
<1>1. SecretsInv => ServicesAgree
  BY DEF SecretsInv, Alike, ServicesAgree, Seen
<1> QED BY <1>1, Invariant, PTL

(* A drift check that answers ok tells the truth about what runs            *)
(* (compose_stack_secret.go:144), for a row nobody edited since.           *)
THEOREM DriftTrue == Spec => []DriftTruthful
<1>1. ASSUME SecretsInv  PROVE  DriftTruthful
  <2> SUFFICES ASSUME NEW b \in Bound, ~InFlight, last = "deploy", b \notin touched, Drift(b) = "ok",
                      NEW s \in Services, runs[s] # None, Applies(row[b].form, s)
               PROVE  Has(s, b) /\ Seen(s, b) = Read(entry)
    BY DEF DriftTruthful
  <2>1. RowTells(b)
    BY <1>1 DEF SecretsInv, RowsTell, Working, InFlight
  <2>2. Has(s, b) /\ Seen(s, b) = row[b].hash
    BY <2>1 DEF RowTells, Running
  <2>3. Read(entry) = row[b].hash
    BY DEF Drift
  <2> QED BY <2>2, <2>3
<1> QED BY <1>1, Invariant, PTL

(* Only a deploy that had captured the row undoes what the operator saved   *)
(* or deleted (compose_stack_secret.go:544).                               *)
THEOREM EditsStay == Spec => []EditsSurvive
<1>1. SecretsInv => EditsSurvive
  BY DEF SecretsInv, EditsKept
<1> QED BY <1>1, Invariant, PTL

(* A teardown without a failed call leaves no volume and no helper, whatever *)
(* became of the rows (compose_stack_secret.go:249).                        *)
THEOREM TeardownClean == Spec => []NothingLeft
<1>1. SecretsInv => NothingLeft
  BY DEF SecretsInv
<1> QED BY <1>1, Invariant, PTL

(* WriteValue without replace keeps the fields it was not given, unless a   *)
(* version was written since its read (vault_secret.go:347).               *)
THEOREM FieldsKept == Spec => AppendKeepsFields
<1>1. ASSUME TypeOK, AppendValue, job.base = Len(kv), NEW f \in Field,
             f \in DOMAIN Last(kv), f \notin DOMAIN job.data
      PROVE  f \in DOMAIN Last(kv') /\ Last(kv')[f] = Last(kv)[f]
  <2>1. kv \in Seq(Payload) /\ kv # <<>> /\ Len(kv) \in Nat /\ Len(kv) # 0
    BY <1>1 DEF TypeOK
  <2>2. PICK m \in Payload : m = Merged
    BY <1>1, MergedType DEF AppendValue
  <2>3. Last(kv') = m
    BY <1>1, <2>1, <2>2 DEF AppendValue, Write, Last
  <2>4. m = [g \in DOMAIN Last(kv) \cup DOMAIN job.data |->
               IF g \in DOMAIN job.data THEN job.data[g] ELSE Last(kv)[g]]
    BY <1>1, <2>1, <2>2 DEF Merged, Missing, Last
  <2> QED BY <1>1, <2>3, <2>4
<1>2. TypeOK /\ [Next]_vars =>
        [AppendValue /\ job.base = Len(kv) =>
           \A f \in Field : f \in DOMAIN Last(kv) /\ f \notin DOMAIN job.data =>
                              /\ f \in DOMAIN Last(kv')
                              /\ Last(kv')[f] = Last(kv)[f]]_vars
  BY <1>1
<1> QED BY <1>2, TypeCorrect, PTL DEF Spec, AppendKeepsFields

=============================================================================
