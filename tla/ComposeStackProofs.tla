------------------------- MODULE ComposeStackProofs -------------------------
(***************************************************************************)
(* What is proved of ComposeStack for any hosts, contents, services and    *)
(* faults: types and shapes, whatever calls overlap, and, for calls served *)
(* one at a time, that no container is lost track of, that the history     *)
(* numbers its snapshots and keeps what is overwritten, and that a status  *)
(* at rest can be believed.                                                *)
(***************************************************************************)
EXTENDS ComposeStack, FiniteSetTheorems, TLAPS

External == {"startExternal", "stopExternal", "removeExternal"}

\* A call on the managed stack carries a copy of its record, an external one
\* none.
CallShape(r) ==
  /\ r.op = "none" => r.step = "idle" /\ ~r.alive
  /\ r.op # "none" => r.host \in Host
  /\ r.op \in External => r.step \in {"start", "guard", "teardown"} /\ ~r.alive
  /\ r.op \notin External \cup {"none"} => r.stack # NoStack
  /\ r.step = "list" => r.op = "start"
  /\ r.step = "start" => r.op \in {"start", "startExternal"}
  /\ r.step = "version" => r.rev # 0 /\ r.old \in Content

JobShape(w) ==
  /\ w.step = "free" => ~w.alive
  /\ w.step # "free" => w.host \in Host
  /\ w.step \in {"preflight", "teardown", "prepare", "create"} => w.next <= Services

\* whoever works for a live record finds one: k is the record
Callers(f, k) ==
  /\ f \in [Handler -> Requests]
  /\ \A t \in Handler : CallShape(f[t]) /\ (f[t].alive => k # NoStack)
Deploys(f, k) ==
  /\ f \in [Deployment -> Jobs]
  /\ \A d \in Deployment : JobShape(f[d]) /\ (f[d].alive => k # NoStack)

DaemonTyped ==
  /\ there \in [Host -> SUBSET Service]
  /\ runs \in [Host -> SUBSET Service]
  /\ vol \in [Host -> {"none", "foreign", "empty", "data"}]
  /\ ours \subseteq Host

TypeInv ==
  /\ rec \in Stack \cup {NoStack}
  /\ versions \subseteq Version
  /\ DaemonTyped
  /\ mishaps \subseteq MishapKinds
  /\ Callers(req, rec)
  /\ Deploys(job, rec)

-----------------------------------------------------------------------------
\* A record names a host, so it is never mistaken for none.
LEMMA RecordIsNotNone == \A k \in Stack : k # NoStack
  BY HostAssumption DEF Stack, NoStack

\* NoRequest and NoJob have the types and shapes of requests and jobs.
LEMMA IdleTyped ==
  /\ NoRequest \in Requests /\ CallShape(NoRequest) /\ ~NoRequest.alive
  /\ NoJob \in Jobs /\ JobShape(NoJob) /\ ~NoJob.alive
  <1>1. NoRequest \in Requests
    BY CountAssumption DEF NoRequest, Requests, Copy, Ops, HandlerSteps
  <1>2. CallShape(NoRequest) /\ ~NoRequest.alive
    BY DEF NoRequest, CallShape, External
  <1>3. NoJob \in Jobs /\ JobShape(NoJob) /\ ~NoJob.alive
    BY CountAssumption DEF NoJob, Jobs, JobSteps, JobShape
  <1> QED BY <1>1, <1>2, <1>3

\* A handler that takes up a well-shaped request leaves all of them so.
LEMMA CallersStep ==
  ASSUME NEW k, Callers(req, k), NEW t \in Handler,
         NEW r \in Requests, CallShape(r), r.alive => k # NoStack
  PROVE  Callers([req EXCEPT ![t] = r], k)
  BY DEF Callers

\* The same for the deploys.
LEMMA DeploysStep ==
  ASSUME NEW k, Deploys(job, k), NEW d \in Deployment,
         NEW w \in Jobs, JobShape(w), w.alive => k # NoStack
  PROVE  Deploys([job EXCEPT ![d] = w], k)
  BY DEF Deploys

\* Writing a record where there is one, or none, disturbs nobody.
LEMMA RecordKept ==
  ASSUME NEW k, NEW l, k # NoStack => l # NoStack
  PROVE  /\ \A f : Callers(f, k) => Callers(f, l)
         /\ \A f : Deploys(f, k) => Deploys(f, l)
  BY DEF Callers, Deploys

\* A status write keeps the record typed, and keeps it.
LEMMA StatusTyped ==
  ASSUME TypeInv, NEW w, w.alive => rec # NoStack, NEW s \in Status,
         ComposeStackUpdateStatus(w, s)
  PROVE  rec' \in Stack \cup {NoStack} /\ (rec # NoStack => rec' # NoStack)
  <1>1. CASE ~w.alive
    BY <1>1 DEF ComposeStackUpdateStatus, TypeInv
  <1>2. CASE w.alive
    <2>1. rec \in Stack
      BY <1>2 DEF TypeInv
    <2>2. rec' = [rec EXCEPT !.status = s]
      BY <1>2 DEF ComposeStackUpdateStatus
    <2>3. rec' \in Stack
      BY <2>1, <2>2 DEF Stack
    <2> QED BY <2>3, RecordIsNotNone
  <1> QED BY <1>1, <1>2

\* Moving a request on changes its step only.
LEMMA GotoTyped ==
  ASSUME TypeInv, NEW t \in Handler, NEW s \in HandlerSteps, Goto(t, s),
         CallShape([req[t] EXCEPT !.step = s])
  PROVE  Callers(req', rec)
  <1>1. req[t] \in Requests /\ (req[t].alive => rec # NoStack)
    BY DEF TypeInv, Callers
  <1>2. [req[t] EXCEPT !.step = s] \in Requests
    BY <1>1 DEF Requests
  <1>3. [req[t] EXCEPT !.step = s].alive = req[t].alive
    BY <1>1 DEF Requests
  <1>4. req' = [req EXCEPT ![t] = [req[t] EXCEPT !.step = s]]
    BY DEF Goto
  <1> QED BY <1>1, <1>2, <1>3, <1>4, CallersStep DEF TypeInv

\* So does ending a request.
LEMMA DoneTyped ==
  ASSUME TypeInv, NEW t \in Handler, Done(t)
  PROVE  Callers(req', rec)
  BY IdleTyped, CallersStep DEF Done, TypeInv

\* A call that arrives, k being the record it leaves.
LEMMA ArriveTyped ==
  ASSUME TypeInv, NEW t \in Handler, NEW r \in Requests, CallShape(r), Arrive(t, r),
         NEW k, rec # NoStack => k # NoStack, r.alive => k # NoStack
  PROVE  Callers(req', k) /\ mishaps' \subseteq MishapKinds
  <1>1. Callers(req, k)
    BY RecordKept DEF TypeInv
  <1>2. Callers(req', k)
    BY <1>1, CallersStep DEF Arrive
  <1>3. mishaps' \subseteq MishapKinds
    BY DEF Arrive, Suffer, TypeInv, MishapKinds
  <1> QED BY <1>2, <1>3

\* Whatever is suffered is a mishap.
LEMMA SufferTyped ==
  ASSUME TypeInv, NEW m \in MishapKinds, NEW bad, Suffer(m, bad)
  PROVE  mishaps' \subseteq MishapKinds
  BY DEF Suffer, TypeInv

\* A freshly made request has the type and shape its step asks for.
LEMMA RequestTyped ==
  ASSUME NEW o \in Ops \ {"none"}, NEW s \in HandlerSteps \ {"version"}, NEW k \in Copy,
         NEW h \in Host, o \in External <=> k = NoStack,
         o \in External => s \in {"start", "guard", "teardown"},
         s = "start" => o = "startExternal", s = "list" => o = "start"
  PROVE  /\ Request(o, s, k, h) \in Requests
         /\ CallShape(Request(o, s, k, h))
         /\ Request(o, s, k, h).alive <=> k # NoStack
         /\ Request(o, s, k, h).op = o /\ Request(o, s, k, h).step = s
         /\ Request(o, s, k, h).stack = k /\ Request(o, s, k, h).host = h
  <1>1. PICK b \in BOOLEAN : b <=> k # NoStack
    OBVIOUS
  <1> DEFINE r == [alive |-> b, op |-> o, step |-> s, stack |-> k, host |-> h,
                   old |-> NoContent, rev |-> 0, volumes |-> FALSE,
                   redeploy |-> FALSE]
  <1>2. Request(o, s, k, h) = r
    <2>1. b = (k # NoStack)
      BY <1>1, Zenon
    <2>2. Request(o, s, k, h) =
            [NoRequest EXCEPT !.alive = b, !.op = o, !.step = s, !.stack = k, !.host = h]
      BY <2>1, Zenon DEF Request
    <2> QED BY <2>2 DEF NoRequest
  <1>3. r \in Requests
    BY CountAssumption DEF Requests
  <1>4. CallShape(r)
    <2>1. o \in External \cup {"none"} => k = NoStack /\ ~b
      BY <1>1
    <2>2. s # "version" /\ o # "none"
      OBVIOUS
    <2> QED BY <1>1, <2>1, <2>2 DEF CallShape, External
  <1>5. (r.alive <=> k # NoStack) /\ r.op = o /\ r.step = s /\ r.stack = k /\ r.host = h
    BY <1>1
  <1> HIDE DEF r
  <1> QED BY <1>2, <1>3, <1>4, <1>5

\* So has the request of a Remove, guarded or not.
LEMMA RemoveRequestTyped ==
  ASSUME NEW o \in {"remove", "removeExternal"}, NEW k \in Copy, NEW h \in Host,
         o \in External <=> k = NoStack, NEW volumes \in BOOLEAN, NEW force \in BOOLEAN
  PROVE  /\ RemoveRequest(o, k, h, volumes, force) \in Requests
         /\ CallShape(RemoveRequest(o, k, h, volumes, force))
         /\ RemoveRequest(o, k, h, volumes, force).alive <=> k # NoStack
         /\ RemoveRequest(o, k, h, volumes, force).op = o
         /\ RemoveRequest(o, k, h, volumes, force).step \in {"guard", "teardown"}
         /\ RemoveRequest(o, k, h, volumes, force).stack = k
         /\ RemoveRequest(o, k, h, volumes, force).host = h
  <1> DEFINE s == FirstOfRemove(volumes, force)
             r == Request(o, s, k, h)
  <1>1. s \in {"guard", "teardown"}
    BY DEF FirstOfRemove
  <1>2. /\ r \in Requests /\ CallShape(r) /\ (r.alive <=> k # NoStack)
        /\ r.op = o /\ r.step = s /\ r.stack = k /\ r.host = h
    <2>1. o \in Ops \ {"none"} /\ s \in HandlerSteps \ {"version"} /\ s \notin {"start", "list"}
      BY <1>1 DEF Ops, HandlerSteps
    <2> HIDE DEF s
    <2> QED BY <1>1, <2>1, RequestTyped
  <1>3. RemoveRequest(o, k, h, volumes, force) =
          [r EXCEPT !.volumes = volumes]
    BY DEF RemoveRequest
  <1> HIDE DEF r, s
  <1> QED BY <1>1, <1>2, <1>3 DEF Requests, CallShape

\* The initial states are typed.
LEMMA InitTyped == Init => TypeInv
  <1> SUFFICES ASSUME Init PROVE TypeInv
    OBVIOUS
  <1>1. rec \in Stack \cup {NoStack} /\ versions \subseteq Version /\ mishaps \subseteq MishapKinds
    BY DEF Init
  <1>2. DaemonTyped
    <2>1. there \in [Host -> SUBSET Service]
      BY DEF Init
    <2>2. runs \in [Host -> SUBSET Service]
      BY <2>1 DEF Init
    <2>3. vol \in [Host -> {"none", "foreign", "empty", "data"}] /\ ours \subseteq Host
      BY DEF Init
    <2> QED BY <2>1, <2>2, <2>3 DEF DaemonTyped
  <1>3. Callers(req, rec)
    BY IdleTyped DEF Init, Callers
  <1>4. Deploys(job, rec)
    BY IdleTyped DEF Init, Deploys
  <1> QED BY <1>1, <1>2, <1>3, <1>4 DEF TypeInv

-----------------------------------------------------------------------------
\* Whichever call arrives, the state stays typed.
LEMMA CallTyped ==
  ASSUME TypeInv, NEW t \in Handler, Call(t)
  PROVE  TypeInv'
  <1> USE DEF store, daemon
  <1>0. Stack \cup {NoStack} \subseteq Copy
    BY DEF Stack, Copy
  \* the calls that only take up a request
  <1>1. ASSUME NEW r \in Requests, CallShape(r), Arrive(t, r), r.alive => rec # NoStack,
               UNCHANGED <<store, daemon, job>>
        PROVE  TypeInv'
    <2>1. Callers(req', rec) /\ mishaps' \subseteq MishapKinds
      BY <1>1, ArriveTyped
    <2> QED BY <1>1, <2>1 DEF TypeInv, DaemonTyped
  <1>2. rec # NoStack => rec \in Stack /\ rec.host \in Host /\ rec \in Copy
    BY <1>0 DEF TypeInv, Stack
  \* the same for a request that Request makes
  <1>3. ASSUME rec # NoStack, NEW o \in Ops \ {"none"}, NEW s \in HandlerSteps \ {"version"},
               NEW k \in Copy, k # NoStack, o \notin External, s # "start",
               s = "list" => o = "start",
               Arrive(t, Request(o, s, k, rec.host)), UNCHANGED <<store, daemon, job>>
        PROVE  TypeInv'
    BY <1>1, <1>2, <1>3, RequestTyped
  <1>4. ASSUME NEW h \in Host, NEW c \in Content, NEW deploy \in BOOLEAN, Create(t, h, c, deploy)
        PROVE  TypeInv'
    <2>1. rec' \in Stack /\ rec' # NoStack
      BY <1>4, RecordIsNotNone DEF Create, Stack, Status
    <2>2. PICK r \in Requests : CallShape(r) /\ Arrive(t, r)
      <3>1. CASE deploy
        <4>1. Arrive(t, Request("deploy", "client", rec', h))
          BY <1>4, <3>1 DEF Create
        <4>2. rec' \in Copy /\ "deploy" \in Ops \ {"none"} /\ "client" \in HandlerSteps \ {"version"}
          BY <1>0, <2>1 DEF Ops, HandlerSteps
        <4>3. "deploy" \notin External
          BY DEF External
        <4> QED BY <2>1, <4>1, <4>2, <4>3, RequestTyped
      <3>2. CASE ~deploy
        BY <1>4, <3>2, IdleTyped DEF Create
      <3> QED BY <3>1, <3>2
    <2>3. Callers(req', rec') /\ mishaps' \subseteq MishapKinds
      BY <2>1, <2>2, ArriveTyped
    <2>4. Deploys(job', rec')
      BY <1>4, <2>1, RecordKept DEF Create, TypeInv
    <2> QED BY <1>4, <2>1, <2>3, <2>4 DEF Create, TypeInv, DaemonTyped
  <1>5. ASSUME NEW h \in Host, NEW c \in Content, Import(t, h, c)
        PROVE  TypeInv'
    <2>1. rec' \in Stack /\ rec' # NoStack
      BY <1>5, RecordIsNotNone DEF Import, Stack, Status
    <2>2. Callers(req', rec') /\ mishaps' \subseteq MishapKinds
      BY <1>5, <2>1, IdleTyped, ArriveTyped DEF Import
    <2>3. Deploys(job', rec')
      BY <1>5, <2>1, RecordKept DEF Import, TypeInv
    <2> QED BY <1>5, <2>1, <2>2, <2>3 DEF Import, TypeInv, DaemonTyped
  <1>6. ASSUME NEW c \in Content, NEW deploy \in BOOLEAN, Save(t, c, deploy)
        PROVE  TypeInv'
    <2> DEFINE k == [rec EXCEPT !.content = c, !.status = "keep"]
    <2>1. rec # NoStack
      BY <1>6 DEF Save
    <2>2. k \in Copy /\ k # NoStack
      BY <1>2, <2>1, HostAssumption DEF Stack, Copy, NoStack
    <2>3. PICK o \in {"deploy", "save"} : Arrive(t, Request(o, "snapshot", k, rec.host))
      BY <1>6 DEF Save
    <2>4. o \in Ops \ {"none"} /\ "snapshot" \in HandlerSteps \ {"version"} /\ o \notin External
      BY DEF Ops, HandlerSteps, External
    <2>5. UNCHANGED <<store, daemon, job>>
      BY <1>6 DEF Save
    <2> HIDE DEF k
    <2> QED BY <1>3, <2>1, <2>2, <2>3, <2>4, <2>5
  <1>7. CASE DeployByID(t) \/ Start(t) \/ Stop(t)
    <2>1. rec # NoStack /\ UNCHANGED <<store, daemon, job>>
      BY <1>7 DEF DeployByID, Start, Stop
    <2>2. PICK o \in {"deploy", "start", "stop"}, s \in {"snapshot", "list", "teardown"} :
            Arrive(t, Request(o, s, rec, rec.host)) /\ (s = "list" => o = "start")
      BY <1>7 DEF DeployByID, Start, Stop
    <2>3. o \in Ops \ {"none"} /\ s \in HandlerSteps \ {"version"} /\ o \notin External /\ s # "start"
      BY DEF Ops, HandlerSteps, External
    <2> QED BY <1>2, <1>3, <2>1, <2>2, <2>3
  <1>8. ASSUME NEW v \in versions, RestoreVersion(t, v)
        PROVE  TypeInv'
    <2> DEFINE k == [rec EXCEPT !.content = v.content]
    <2>1. rec # NoStack /\ UNCHANGED <<store, daemon, job>>
      BY <1>8 DEF RestoreVersion
    <2>2. v.content \in Content
      BY DEF TypeInv, Version
    <2>3. k \in Stack
      BY <1>2, <2>1, <2>2 DEF Stack
    <2>4. Arrive(t, Request("save", "snapshot", k, rec.host))
      BY <1>8 DEF RestoreVersion
    <2>5. "save" \in Ops \ {"none"} /\ "snapshot" \in HandlerSteps \ {"version"} /\ "save" \notin External
      BY DEF Ops, HandlerSteps, External
    <2> HIDE DEF k
    <2> QED BY <1>0, <1>3, <2>1, <2>3, <2>4, <2>5, RecordIsNotNone
  <1>9. ASSUME NEW volumes \in BOOLEAN, NEW force \in BOOLEAN, Remove(t, volumes, force)
        PROVE  TypeInv'
    <2>1. rec # NoStack /\ UNCHANGED <<store, daemon, job>>
      BY <1>9 DEF Remove
    <2>2. Arrive(t, RemoveRequest("remove", rec, rec.host, volumes, force))
      BY <1>9 DEF Remove
    <2>3. "remove" \notin External
      BY DEF External
    <2> QED BY <1>1, <1>2, <2>1, <2>2, <2>3, RemoveRequestTyped
  <1>10. ASSUME NEW h \in Host, NEW redeploy \in BOOLEAN, Migrate(t, h, redeploy)
         PROVE  TypeInv'
    <2> DEFINE k == [rec EXCEPT !.host = h]
               r == Request("migrate", "teardown", k, rec.host)
    <2>1. rec # NoStack /\ UNCHANGED <<store, daemon, job>>
      BY <1>10 DEF Migrate
    <2>2. k \in Stack
      BY <1>2, <2>1 DEF Stack
    <2>3. r \in Requests /\ CallShape(r)
      <3>1. "migrate" \in Ops \ {"none"} /\ "teardown" \in HandlerSteps \ {"version"} /\ "migrate" \notin External
        BY DEF Ops, HandlerSteps, External
      <3> HIDE DEF k
      <3> QED BY <1>0, <1>2, <2>1, <2>2, <3>1, RecordIsNotNone, RequestTyped
    <2>4. Arrive(t, [r EXCEPT !.redeploy = redeploy])
      BY <1>10 DEF Migrate
    <2> HIDE DEF r
    <2>5. [r EXCEPT !.redeploy = redeploy] \in Requests /\ CallShape([r EXCEPT !.redeploy = redeploy])
      BY <2>3 DEF Requests, CallShape
    <2> QED BY <1>1, <2>1, <2>4, <2>5
  <1>11. ASSUME NEW h \in Host, StartExternal(t, h) \/ StopExternal(t, h)
         PROVE  TypeInv'
    <2>1. UNCHANGED <<store, daemon, job>>
      BY <1>11 DEF StartExternal, StopExternal
    <2>2. PICK o \in {"startExternal", "stopExternal"}, s \in {"start", "teardown"} :
            /\ Arrive(t, Request(o, s, NoStack, h))
            /\ s = "start" => o = "startExternal"
      BY <1>11 DEF StartExternal, StopExternal
    <2>3. o \in Ops \ {"none"} /\ s \in HandlerSteps \ {"version"} /\ o \in External
      BY DEF Ops, HandlerSteps, External
    <2>4. NoStack \in Copy
      BY DEF Copy
    <2>5. Request(o, s, NoStack, h) \in Requests /\ CallShape(Request(o, s, NoStack, h))
          /\ ~Request(o, s, NoStack, h).alive
      BY <2>2, <2>3, <2>4, RequestTyped
    <2> QED BY <1>1, <2>1, <2>2, <2>5
  <1>12. ASSUME NEW h \in Host, NEW volumes \in BOOLEAN, NEW force \in BOOLEAN,
                RemoveExternal(t, h, volumes, force)
         PROVE  TypeInv'
    <2>1. UNCHANGED <<store, daemon, job>>
          /\ Arrive(t, RemoveRequest("removeExternal", NoStack, h, volumes, force))
      BY <1>12 DEF RemoveExternal
    <2>2. "removeExternal" \in External /\ NoStack \in Copy
      BY DEF External, Copy
    <2> QED BY <1>1, <2>1, <2>2, RemoveRequestTyped
  <1> QED BY <1>4, <1>5, <1>6, <1>7, <1>8, <1>9, <1>10, <1>11, <1>12 DEF Call
-----------------------------------------------------------------------------
\* What a handler that serves a call may count on.
LEMMA Serving ==
  ASSUME TypeInv, NEW t \in Handler, req[t].step # "idle"
  PROVE  /\ req[t] \in Requests /\ CallShape(req[t]) /\ req[t].op # "none"
         /\ req[t].host \in Host
         /\ req[t].alive => rec \in Stack /\ rec # NoStack
         /\ req[t].op \notin External =>
              req[t].stack \in [host : Host, content : Content, status : Status \cup {"keep"}]
  <1>1. req[t] \in Requests /\ CallShape(req[t]) /\ (req[t].alive => rec # NoStack)
    BY DEF TypeInv, Callers
  <1>2. req[t].op # "none" /\ req[t].host \in Host
    BY <1>1 DEF CallShape
  <1>3. req[t].stack \in Copy
    BY <1>1 DEF Requests
  <1> QED BY <1>1, <1>2, <1>3 DEF TypeInv, CallShape, Copy

\* A step of a handler that moves on or ends, and touches neither record nor
\* daemon, keeps everything typed.
LEMMA QuietStep ==
  ASSUME TypeInv, NEW t \in Handler, Callers(req', rec), mishaps' \subseteq MishapKinds,
         UNCHANGED <<store, daemon, job>>
  PROVE  TypeInv'
  BY DEF TypeInv, DaemonTyped, store, daemon

\* Removing containers keeps the daemon typed.
LEMMA RemovalTyped ==
  ASSUME TypeInv, NEW h \in Host, NEW rest \in SUBSET there[h],
         NEW up \in SUBSET (rest \cap runs[h]),
         there' = [there EXCEPT ![h] = rest],
         runs' = [runs EXCEPT ![h] = up],
         ours' = IF rest = {} THEN ours \ {h} ELSE ours,
         vol' \in [Host -> {"none", "foreign", "empty", "data"}]
  PROVE  DaemonTyped'
  BY DEF TypeInv, DaemonTyped

\* Saving and the synchronous part of Deploy keep the state typed.
LEMMA SaveStepTyped ==
  ASSUME TypeInv, NEW t \in Handler,
         Snapshot(t) \/ AddVersion(t) \/ Update(t) \/ Client(t) \/ MarkDeploying(t) \/ Spawn(t)
  PROVE  TypeInv'
  <1>0. req[t].step # "idle"
    BY DEF Snapshot, AddVersion, Update, Client, MarkDeploying, Spawn, At
  <1>1. /\ req[t] \in Requests /\ CallShape(req[t]) /\ req[t].op # "none"
        /\ req[t].host \in Host
        /\ req[t].alive => rec \in Stack /\ rec # NoStack
    BY <1>0, Serving
  <1>2. /\ req[t].op \notin External
        /\ req[t].stack \in [host : Host, content : Content, status : Status \cup {"keep"}]
    <2>1. req[t].step \in {"snapshot", "version", "update", "client", "mark", "hook"}
      BY DEF Snapshot, AddVersion, Update, Client, MarkDeploying, Spawn, At
    <2>2. req[t].op \notin External
      BY <1>1, <2>1 DEF CallShape
    <2> QED BY <1>0, <2>2, Serving
  \* such a request may go on to any of its steps
  <1>3. \A s \in {"update", "client", "mark", "hook"} :
          s \in HandlerSteps /\ CallShape([req[t] EXCEPT !.step = s])
    BY <1>1, <1>2 DEF CallShape, Requests, HandlerSteps
  <1>4. CASE Snapshot(t)
    <2>1. CASE ~req[t].alive \/ rec.content = req[t].stack.content
      BY <1>3, <1>4, <2>1, GotoTyped, QuietStep DEF Snapshot, TypeInv
    <2>2. CASE ~(~req[t].alive \/ rec.content = req[t].stack.content)
      <3>1. PICK blind \in Outcomes("blind"), newest \in 0 .. MaxRev :
              /\ req' = [req EXCEPT ![t].step = "version", ![t].old = rec.content,
                                    ![t].rev = IF blind THEN 1 ELSE newest + 1]
              /\ Suffer("blind", blind)
        BY <1>4, <2>2 DEF Snapshot
      <3> DEFINE n == IF blind THEN 1 ELSE newest + 1
                 r == [req[t] EXCEPT !.step = "version", !.old = rec.content, !.rev = n]
      <3>2. n \in 1 .. MaxRev + 1
        BY CountAssumption
      <3>3. rec.content \in Content
        BY <1>1, <2>2 DEF Stack
      <3>4. req' = [req EXCEPT ![t] = r]
        BY <3>1
      <3> HIDE DEF n
      <3>5. r \in Requests
        <4>1. "version" \in HandlerSteps /\ n \in 0 .. MaxRev + 1
          BY <3>2, CountAssumption DEF HandlerSteps
        <4> QED BY <1>1, <3>3, <4>1 DEF Requests
      <3>6. CallShape(r) /\ r.alive = req[t].alive
        BY <1>1, <1>2, <3>2, <3>3 DEF CallShape, Requests
      <3>7. Callers(req', rec)
        BY <1>1, <3>4, <3>5, <3>6, CallersStep DEF TypeInv
      <3> QED BY <1>4, <3>1, <3>7, SufferTyped, QuietStep DEF Snapshot, MishapKinds
    <2> QED BY <2>1, <2>2
  <1>5. CASE AddVersion(t)
    <2> DEFINE v == [rev |-> req[t].rev, content |-> req[t].old]
    <2>1. v \in Version
      <3>1. req[t].rev \in 0 .. MaxRev + 1 /\ req[t].rev <= MaxRev
        BY <1>1, <1>5 DEF AddVersion, Requests
      <3>2. req[t].rev # 0 /\ req[t].old \in Content
        BY <1>1, <1>5 DEF AddVersion, At, CallShape
      <3> QED BY <3>1, <3>2, CountAssumption DEF Version
    <2>2. versions' \subseteq Version
      BY <1>5, <2>1 DEF AddVersion, Pruned, TypeInv
    <2>3. Callers(req', rec)
      BY <1>3, <1>5, GotoTyped DEF AddVersion
    <2>4. mishaps' \subseteq MishapKinds
      BY <1>5, SufferTyped DEF AddVersion, MishapKinds
    <2> QED BY <1>5, <2>2, <2>3, <2>4 DEF AddVersion, TypeInv, DaemonTyped, daemon
  <1>6. CASE Update(t)
    <2>1. Callers(req', rec)
      BY <1>3, <1>6, GotoTyped, DoneTyped DEF Update
    <2>2. rec' \in Stack \cup {NoStack} /\ (rec # NoStack => rec' # NoStack)
      <3>1. CASE req[t].alive
        <4> DEFINE s == IF req[t].stack.status = "keep" THEN rec.status ELSE req[t].stack.status
        <4>1. s \in Status
          BY <1>1, <1>2, <3>1 DEF Stack
        <4>2. rec' = [req[t].stack EXCEPT !.status = s]
          BY <1>6, <3>1 DEF Update
        <4> HIDE DEF s
        <4>3. rec' \in Stack
          BY <1>2, <4>1, <4>2 DEF Stack
        <4> QED BY <4>3, RecordIsNotNone
      <3>2. CASE ~req[t].alive
        BY <1>6, <3>2 DEF Update, TypeInv
      <3> QED BY <3>1, <3>2
    <2>3. Callers(req', rec') /\ Deploys(job', rec')
      BY <1>6, <2>1, <2>2, RecordKept DEF Update, TypeInv
    <2> QED BY <1>6, <2>2, <2>3 DEF Update, TypeInv, DaemonTyped, daemon
  <1>7. CASE Client(t)
    <2>1. Callers(req', rec)
      BY <1>3, <1>7, GotoTyped, DoneTyped DEF Client
    <2>2. rec' \in Stack \cup {NoStack} /\ (rec # NoStack => rec' # NoStack)
      <3>1. ASSUME ComposeStackUpdateStatus(req[t], "error")
            PROVE  rec' \in Stack \cup {NoStack} /\ (rec # NoStack => rec' # NoStack)
        BY <1>1, <3>1, StatusTyped DEF Status
      <3> QED BY <1>7, <3>1 DEF Client, TypeInv
    <2>3. Callers(req', rec') /\ Deploys(job', rec')
      BY <1>7, <2>1, <2>2, RecordKept DEF Client, TypeInv
    <2> QED BY <1>7, <2>2, <2>3 DEF Client, TypeInv, DaemonTyped, daemon
  <1>8. CASE MarkDeploying(t)
    <2>1. Callers(req', rec)
      BY <1>3, <1>8, GotoTyped DEF MarkDeploying
    <2>2. rec' \in Stack \cup {NoStack} /\ (rec # NoStack => rec' # NoStack)
      <3>1. ASSUME ComposeStackUpdateStatus(req[t], "deploying")
            PROVE  rec' \in Stack \cup {NoStack} /\ (rec # NoStack => rec' # NoStack)
        BY <1>1, <3>1, StatusTyped DEF Status
      <3> QED BY <1>8, <3>1 DEF MarkDeploying, TypeInv
    <2>3. Callers(req', rec') /\ Deploys(job', rec')
      BY <1>8, <2>1, <2>2, RecordKept DEF MarkDeploying, TypeInv
    <2>4. mishaps' \subseteq MishapKinds
      BY <1>8, SufferTyped DEF MarkDeploying, MishapKinds
    <2> QED BY <1>8, <2>2, <2>3, <2>4 DEF MarkDeploying, TypeInv, DaemonTyped, daemon
  <1>9. CASE Spawn(t)
    <2>1. Callers(req', rec)
      BY <1>9, DoneTyped DEF Spawn
    <2>2. CASE ComposeStackUpdateStatus(req[t], "error") /\ UNCHANGED job
      <3>1. rec' \in Stack \cup {NoStack} /\ (rec # NoStack => rec' # NoStack)
        BY <1>1, <2>2, StatusTyped DEF Status
      <3>2. Callers(req', rec') /\ Deploys(job', rec')
        BY <2>1, <2>2, <3>1, RecordKept DEF TypeInv
      <3> QED BY <1>9, <3>1, <3>2 DEF Spawn, TypeInv, DaemonTyped, daemon
    <2>3. CASE UNCHANGED rec /\
               \E d \in Deployment :
                 job' = [job EXCEPT ![d] = [alive |-> req[t].alive, step |-> "preflight",
                                            host |-> req[t].stack.host, next |-> 1]]
      <3>1. PICK d \in Deployment :
              job' = [job EXCEPT ![d] = [alive |-> req[t].alive, step |-> "preflight",
                                         host |-> req[t].stack.host, next |-> 1]]
        BY <2>3
      <3> DEFINE w == [alive |-> req[t].alive, step |-> "preflight",
                       host |-> req[t].stack.host, next |-> 1]
      <3>2. w \in Jobs /\ JobShape(w)
        BY <1>1, <1>2, CountAssumption DEF Requests, Jobs, JobSteps, JobShape
      <3>3. w.alive => rec # NoStack
        BY <1>1
      <3> HIDE DEF w
      <3>4. Deploys(job', rec)
        BY <3>1, <3>2, <3>3, DeploysStep DEF TypeInv, w
      <3> QED BY <1>9, <2>1, <2>3, <3>4 DEF Spawn, TypeInv, DaemonTyped, daemon
    <2> QED BY <1>9, <2>2, <2>3 DEF Spawn
  <1> QED BY <1>4, <1>5, <1>6, <1>7, <1>8, <1>9
\* The engine calls of Start, Stop, Remove and Migrate, and the writes that
\* follow them, keep the state typed.
LEMMA EngineStepTyped ==
  ASSUME TypeInv, NEW t \in Handler,
         \/ ListForStart(t) \/ EngineStart(t) \/ SetStatus(t) \/ Guard(t)
         \/ CannotList(t) \/ Teardown(t) \/ Drop(t) \/ Flip(t)
  PROVE  TypeInv'
  <1>0. req[t].step # "idle"
    BY DEF ListForStart, EngineStart, SetStatus, Guard, CannotList, Teardown, Drop, Flip, At
  <1>1. /\ req[t] \in Requests /\ CallShape(req[t]) /\ req[t].op # "none"
        /\ req[t].host \in Host
        /\ req[t].alive => rec \in Stack /\ rec # NoStack
    BY <1>0, Serving
  <1>2. CASE ListForStart(t)
    <2>0. req[t].op = "start" /\ req[t].stack # NoStack
      BY <1>1, <1>2 DEF ListForStart, At, CallShape, External
    <2>1. PICK blind \in Outcomes("blind") :
            /\ req' = [req EXCEPT ![t] =
                 IF there[req[t].host] = {} /\ ~blind
                 THEN [req[t] EXCEPT !.op = "deploy", !.step = "snapshot"]
                 ELSE [req[t] EXCEPT !.step = "start"]]
            /\ Suffer("blind", blind)
      BY <1>2 DEF ListForStart
    <2> DEFINE deployed == [req[t] EXCEPT !.op = "deploy", !.step = "snapshot"]
               started == [req[t] EXCEPT !.step = "start"]
    <2>2. deployed \in Requests /\ started \in Requests
      <3>1. "deploy" \in Ops /\ {"snapshot", "start"} \subseteq HandlerSteps
        BY DEF Ops, HandlerSteps
      <3> QED BY <1>1, <3>1 DEF Requests
    <2>3. CallShape(deployed) /\ CallShape(started)
          /\ deployed.alive = req[t].alive /\ started.alive = req[t].alive
      BY <1>1, <2>0 DEF CallShape, External, Requests
    <2> HIDE DEF deployed, started
    <2>4. req' = [req EXCEPT ![t] = deployed] \/ req' = [req EXCEPT ![t] = started]
      BY <2>1 DEF deployed, started
    <2>5. Callers(req', rec)
      BY <1>1, <2>2, <2>3, <2>4, CallersStep DEF TypeInv
    <2>6. mishaps' \subseteq MishapKinds
      BY <2>1, SufferTyped DEF MishapKinds
    <2>7. UNCHANGED <<store, daemon, job>>
      BY <1>2 DEF ListForStart
    <2> QED BY <2>5, <2>6, <2>7, QuietStep
  <1>3. CASE EngineStart(t)
    <2> DEFINE h == req[t].host
    <2>1. Callers(req', rec)
      <3>1. CASE Done(t)
        BY <3>1, DoneTyped
      <3>2. CASE Goto(t, "status") /\ req[t].op # "startExternal"
        <4>1. req[t].op = "start"
          BY <1>1, <1>3, <3>2 DEF EngineStart, At, CallShape
        <4>2. "status" \in HandlerSteps /\ CallShape([req[t] EXCEPT !.step = "status"])
          BY <1>1, <4>1 DEF CallShape, External, Requests, HandlerSteps
        <4> QED BY <3>2, <4>2, GotoTyped
      <3> QED BY <1>3, <3>1, <3>2 DEF EngineStart
    <2>2. PICK up \in SUBSET (there[h] \ runs[h]) : runs' = [runs EXCEPT ![h] = @ \cup up]
      BY <1>3 DEF EngineStart
    <2>3. runs' \in [Host -> SUBSET Service]
      BY <1>1, <2>2 DEF TypeInv, DaemonTyped
    <2> QED BY <1>3, <2>1, <2>3 DEF EngineStart, TypeInv, DaemonTyped, store
  <1>4. CASE SetStatus(t)
    <2>1. Callers(req', rec)
      BY <1>4, DoneTyped DEF SetStatus
    <2>2. rec' \in Stack \cup {NoStack} /\ (rec # NoStack => rec' # NoStack)
      <3>1. ASSUME NEW s \in {"active", "inactive"}, ComposeStackUpdateStatus(req[t], s)
            PROVE  rec' \in Stack \cup {NoStack} /\ (rec # NoStack => rec' # NoStack)
        BY <1>1, <3>1, StatusTyped DEF Status
      <3> QED BY <1>4, <3>1 DEF SetStatus, TypeInv
    <2>3. Callers(req', rec') /\ Deploys(job', rec')
      BY <1>4, <2>1, <2>2, RecordKept DEF SetStatus, TypeInv
    <2>4. mishaps' \subseteq MishapKinds
      BY <1>4, SufferTyped DEF SetStatus, MishapKinds
    <2> QED BY <1>4, <2>2, <2>3, <2>4 DEF SetStatus, TypeInv, DaemonTyped, daemon
  <1>5. CASE Guard(t)
    <2>1. "teardown" \in HandlerSteps /\ CallShape([req[t] EXCEPT !.step = "teardown"])
      BY <1>1, <1>5 DEF CallShape, Requests, HandlerSteps
    <2>2. Callers(req', rec)
      BY <1>5, <2>1, GotoTyped, DoneTyped DEF Guard
    <2> QED BY <1>5, <2>2, SufferTyped, QuietStep DEF Guard, MishapKinds
  <1>6. AfterTeardown(t) => Callers(req', rec)
    <2> SUFFICES ASSUME AfterTeardown(t) PROVE Callers(req', rec)
      OBVIOUS
    <2>1. CASE Done(t)
      BY <2>1, DoneTyped
    <2>2. CASE req[t].op \in {"stop", "remove", "migrate"}
      <3>1. PICK s \in {"status", "drop", "flip"} : Goto(t, s)
        BY <2>2 DEF AfterTeardown, NextOf
      <3>2. s \in HandlerSteps /\ CallShape([req[t] EXCEPT !.step = s])
        BY <1>1, <2>2 DEF CallShape, External, Requests, HandlerSteps
      <3> QED BY <3>1, <3>2, GotoTyped
    <2> QED BY <2>1, <2>2 DEF AfterTeardown, NextOf
  <1>7. CASE CannotList(t)
    <2>1. Callers(req', rec)
      BY <1>6, <1>7, DoneTyped DEF CannotList, RemoveError
    <2> QED BY <1>7, <2>1, SufferTyped, QuietStep DEF CannotList, MishapKinds
  <1>8. CASE Teardown(t)
    <2> DEFINE h == req[t].host
    <2>1. PICK rest \in SUBSET there[h] : \E up \in SUBSET (rest \cap runs[h]) :
            /\ there' = [there EXCEPT ![h] = rest]
            /\ runs' = [runs EXCEPT ![h] = up]
            /\ ours' = IF rest = {} THEN ours \ {h} ELSE ours
            /\ vol' = [vol EXCEPT ![h] =
                 IF req[t].volumes /\ rest = {} /\ @ # "foreign" THEN "none" ELSE @]
            /\ Suffer("leak", rest # {})
      BY <1>8 DEF Teardown
    <2>2. PICK up \in SUBSET (rest \cap runs[h]) :
            /\ there' = [there EXCEPT ![h] = rest]
            /\ runs' = [runs EXCEPT ![h] = up]
            /\ ours' = IF rest = {} THEN ours \ {h} ELSE ours
            /\ vol' = [vol EXCEPT ![h] =
                 IF req[t].volumes /\ rest = {} /\ @ # "foreign" THEN "none" ELSE @]
            /\ Suffer("leak", rest # {})
      BY <2>1
    <2>3. vol' \in [Host -> {"none", "foreign", "empty", "data"}]
      BY <1>1, <2>1 DEF TypeInv, DaemonTyped
    <2>4. DaemonTyped'
      BY <1>1, <2>2, <2>3, RemovalTyped
    <2>5. Callers(req', rec)
      BY <1>6, <1>8 DEF Teardown
    <2>6. mishaps' \subseteq MishapKinds
      BY <2>2, SufferTyped DEF MishapKinds
    <2> QED BY <1>8, <2>4, <2>5, <2>6 DEF Teardown, TypeInv, store
  <1>9. CASE Drop(t)
    <2>1. PICK bad \in Outcomes("undropped") :
            /\ rec' = IF req[t].alive /\ ~bad THEN NoStack ELSE rec
            /\ job' = [d \in Deployment |->
                 [job[d] EXCEPT !.alive = @ /\ ~(req[t].alive /\ ~bad)]]
            /\ req' = [u \in Handler |-> IF u = t THEN NoRequest
                 ELSE [req[u] EXCEPT !.alive = @ /\ ~(req[t].alive /\ ~bad)]]
            /\ Suffer("undropped", bad)
      BY <1>9 DEF Drop
    <2>2. PICK gone \in BOOLEAN : gone <=> req[t].alive /\ ~bad
      OBVIOUS
    <2>3. rec' \in Stack \cup {NoStack} /\ (~gone => rec' = rec)
      BY <2>1, <2>2 DEF TypeInv
    <2>4. Callers(req', rec')
      <3>1. ASSUME NEW u \in Handler
            PROVE  req'[u] \in Requests /\ CallShape(req'[u]) /\ (req'[u].alive => rec' # NoStack)
        <4>1. CASE u = t
          BY <2>1, <4>1, IdleTyped
        <4>2. CASE u # t
          <5>1. req[u] \in Requests /\ CallShape(req[u]) /\ (req[u].alive => rec # NoStack)
            BY DEF TypeInv, Callers
          <5>2. PICK b \in BOOLEAN : b = (req[u].alive /\ ~(req[t].alive /\ ~bad))
            OBVIOUS
          <5>3. req'[u] = [req[u] EXCEPT !.alive = b]
            BY <2>1, <4>2, <5>2
          <5>4. req'[u] \in Requests /\ req'[u].alive = b
            BY <5>1, <5>3 DEF Requests
          <5>5. b => req[u].alive /\ ~gone
            BY <2>2, <5>2
          <5>6. CallShape(req'[u])
            BY <5>1, <5>3, <5>5 DEF CallShape, Requests
          <5> QED BY <2>3, <5>1, <5>4, <5>5, <5>6
        <4> QED BY <4>1, <4>2
      <3>2. req' = [u \in Handler |-> req'[u]]
        BY <2>1
      <3> QED BY <3>1, <3>2 DEF Callers
    <2>5. Deploys(job', rec')
      <3>1. ASSUME NEW d \in Deployment
            PROVE  job'[d] \in Jobs /\ JobShape(job'[d]) /\ (job'[d].alive => rec' # NoStack)
        <4>1. job[d] \in Jobs /\ JobShape(job[d]) /\ (job[d].alive => rec # NoStack)
          BY DEF TypeInv, Deploys
        <4>2. PICK b \in BOOLEAN : b = (job[d].alive /\ ~(req[t].alive /\ ~bad))
          OBVIOUS
        <4>3. job'[d] = [job[d] EXCEPT !.alive = b]
          BY <2>1, <4>2
        <4>4. job'[d] \in Jobs /\ job'[d].alive = b
          BY <4>1, <4>3 DEF Jobs
        <4>5. b => job[d].alive /\ ~gone
          BY <2>2, <4>2
        <4>6. JobShape(job'[d])
          BY <4>1, <4>3, <4>5 DEF JobShape, Jobs
        <4> QED BY <2>3, <4>1, <4>4, <4>5, <4>6
      <3>2. job' = [d \in Deployment |-> job'[d]]
        BY <2>1
      <3> QED BY <3>1, <3>2 DEF Deploys
    <2>6. mishaps' \subseteq MishapKinds
      BY <2>1, SufferTyped DEF MishapKinds
    <2>7. versions' \subseteq Version
      BY <1>9 DEF Drop, TypeInv
    <2> QED BY <1>9, <2>3, <2>4, <2>5, <2>6, <2>7 DEF Drop, TypeInv, DaemonTyped, daemon
  <1>10. CASE Flip(t)
    <2> DEFINE k == [req[t].stack EXCEPT !.status = "inactive"]
               q == Request("deploy", "snapshot", k, k.host)
               r == [q EXCEPT !.alive = req[t].alive]
    <2>1. k \in Stack /\ k # NoStack /\ k.host \in Host
      <3>1. req[t].op \notin External
        BY <1>1, <1>10 DEF Flip, At, CallShape
      <3>2. k \in Stack
        BY <1>0, <3>1, Serving DEF Stack, Status
      <3> QED BY <3>2, RecordIsNotNone DEF Stack
    <2>2. rec' = rec \/ (req[t].alive /\ rec' = k)
      BY <1>10 DEF Flip
    <2>3. rec' \in Stack \cup {NoStack} /\ (rec # NoStack => rec' # NoStack)
      BY <2>1, <2>2 DEF TypeInv
    <2>4. Callers(req', rec)
      <3>1. CASE Done(t)
        BY <3>1, DoneTyped
      <3>2. CASE req' = [req EXCEPT ![t] = r]
        <4>1. q \in Requests /\ CallShape(q) /\ q.alive
          <5>1. "deploy" \in Ops \ {"none"} /\ "snapshot" \in HandlerSteps \ {"version"}
                /\ "deploy" \notin External
            BY DEF Ops, HandlerSteps, External
          <5>2. k \in Copy
            BY <2>1 DEF Stack, Copy
          <5> HIDE DEF k
          <5> QED BY <2>1, <5>1, <5>2, RequestTyped
        <4>2. req[t].alive \in BOOLEAN
          BY <1>1 DEF Requests
        <4>3. r \in Requests /\ CallShape(r) /\ r.alive = req[t].alive
          <5> HIDE DEF q
          <5>1. r \in Requests /\ r.alive = req[t].alive
            BY <4>1, <4>2 DEF Requests
          <5>2. CallShape(r)
            BY <4>1, <4>2 DEF Requests, CallShape
          <5> QED BY <5>1, <5>2
        <4> HIDE DEF r
        <4> QED BY <1>1, <3>2, <4>3, CallersStep DEF TypeInv
      <3> QED BY <1>10, <3>1, <3>2 DEF Flip
    <2>5. Callers(req', rec') /\ Deploys(job', rec')
      BY <1>10, <2>3, <2>4, RecordKept DEF Flip, TypeInv
    <2> QED BY <1>10, <2>3, <2>5 DEF Flip, TypeInv, DaemonTyped, daemon
  <1> QED BY <1>2, <1>3, <1>4, <1>5, <1>7, <1>8, <1>9, <1>10
\* The steps of a runDeploy goroutine keep the state typed.
LEMMA JobStepTyped ==
  ASSUME TypeInv, NEW d \in Deployment, JobStep(d)
  PROVE  TypeInv'
  <1>0. job[d].step # "free"
    BY DEF JobStep, Preflight, TearDownOld, Prepare, CreateNext, Report, OnJob
  <1>1. /\ job[d] \in Jobs /\ JobShape(job[d]) /\ job[d].host \in Host
        /\ job[d].alive => rec # NoStack
    BY <1>0 DEF TypeInv, Deploys, JobShape
  \* a job goes on while there is something left to create
  <1>2. ASSUME NEW s \in {"teardown", "prepare", "create", "ok", "bad"}, JobGoto(d, s),
               s \in {"teardown", "prepare", "create"} => job[d].next <= Services
        PROVE  Deploys(job', rec)
    <2> DEFINE w == [job[d] EXCEPT !.step = s]
    <2>1. w \in Jobs /\ JobShape(w) /\ w.alive = job[d].alive
      BY <1>1, <1>2 DEF Jobs, JobSteps, JobShape
    <2>2. job' = [job EXCEPT ![d] = w]
      BY <1>2 DEF JobGoto
    <2> HIDE DEF w
    <2> QED BY <1>1, <2>1, <2>2, DeploysStep DEF TypeInv
  <1>3. CASE Preflight(d)
    <2>1. Deploys(job', rec)
      BY <1>1, <1>2, <1>3 DEF Preflight, OnJob, JobShape
    <2> QED BY <1>3, <2>1 DEF Preflight, TypeInv, DaemonTyped, store, daemon
  <1>4. CASE TearDownOld(d)
    <2> DEFINE h == job[d].host
    <2>1. PICK bad \in Fails, rest \in SUBSET there[h] : \E up \in SUBSET (rest \cap runs[h]) :
            /\ there' = [there EXCEPT ![h] = rest]
            /\ runs' = [runs EXCEPT ![h] = up]
            /\ ours' = IF rest = {} THEN ours \ {h} ELSE ours
            /\ JobGoto(d, IF bad THEN "bad" ELSE "prepare")
      BY <1>4 DEF TearDownOld
    <2>2. DaemonTyped'
      BY <1>1, <1>4, <2>1, RemovalTyped DEF TearDownOld, TypeInv, DaemonTyped
    <2>3. Deploys(job', rec)
      BY <1>1, <1>2, <1>4, <2>1 DEF TearDownOld, OnJob, JobShape
    <2> QED BY <1>4, <2>2, <2>3 DEF TearDownOld, TypeInv, store
  <1>5. CASE Prepare(d)
    <2>1. PICK bad \in Fails : JobGoto(d, IF bad THEN "bad" ELSE "create")
      BY <1>5 DEF Prepare
    <2>2. Deploys(job', rec)
      BY <1>1, <1>2, <1>5, <2>1 DEF Prepare, OnJob, JobShape
    <2>3. vol' \in [Host -> {"none", "foreign", "empty", "data"}]
      BY <1>1, <1>5 DEF Prepare, TypeInv, DaemonTyped
    <2> QED BY <1>5, <2>2, <2>3 DEF Prepare, TypeInv, DaemonTyped, store
  <1>6. CASE CreateNext(d)
    <2> DEFINE h == job[d].host
               s == job[d].next
    <2>1. s \in Service
      BY <1>1, <1>6, CountAssumption DEF CreateNext, OnJob, JobShape, Jobs, Service
    <2>2. CASE JobGoto(d, "bad") /\ UNCHANGED daemon
      <3>1. Deploys(job', rec)
        BY <1>2, <2>2
      <3> QED BY <1>6, <2>2, <3>1 DEF CreateNext, TypeInv, DaemonTyped, store, daemon
    <2>3. ASSUME NEW run \in BOOLEAN,
                 there' = [there EXCEPT ![h] = @ \cup {s}],
                 runs' = [runs EXCEPT ![h] = IF run THEN @ \cup {s} ELSE @],
                 ours' = ours \cup {h}, UNCHANGED vol,
                 \/ JobGoto(d, "bad")
                 \/ job' = [job EXCEPT ![d].next = s + 1,
                                       ![d].step = IF s = Services THEN "ok" ELSE "create"]
          PROVE  TypeInv'
      <3>1. DaemonTyped'
        BY <1>1, <2>1, <2>3 DEF TypeInv, DaemonTyped
      <3>2. Deploys(job', rec)
        <4>1. CASE JobGoto(d, "bad")
          BY <1>2, <4>1
        <4>2. CASE job' = [job EXCEPT ![d].next = s + 1,
                                     ![d].step = IF s = Services THEN "ok" ELSE "create"]
          <5> DEFINE z == IF s = Services THEN "ok" ELSE "create"
                     w == [job[d] EXCEPT !.next = s + 1, !.step = z]
          <5>1. z \in {"ok", "create"} /\ s + 1 \in 1 .. Services + 1
                /\ (z = "create" => s + 1 <= Services)
            BY <2>1, CountAssumption DEF Service
          <5>2. job' = [job EXCEPT ![d] = w]
            BY <4>2
          <5> HIDE DEF z, s
          <5>3. w \in Jobs /\ JobShape(w) /\ w.alive = job[d].alive
            BY <1>1, <5>1 DEF Jobs, JobSteps, JobShape
          <5> HIDE DEF w
          <5> QED BY <1>1, <5>2, <5>3, DeploysStep DEF TypeInv
        <4> QED BY <2>3, <4>1, <4>2
      <3> QED BY <1>6, <3>1, <3>2 DEF CreateNext, TypeInv, store
    <2>4. PICK bad \in Fails :
            \/ JobGoto(d, "bad") /\ UNCHANGED daemon
            \/ /\ there' = [there EXCEPT ![h] = @ \cup {s}]
               /\ runs' = [runs EXCEPT ![h] = IF ~bad THEN @ \cup {s} ELSE @]
               /\ ours' = ours \cup {h}
               /\ UNCHANGED vol
               /\ \/ JobGoto(d, "bad")
                  \/ job' = [job EXCEPT ![d].next = s + 1,
                                        ![d].step = IF s = Services THEN "ok" ELSE "create"]
      BY <1>6 DEF CreateNext
    <2>5. (~bad) \in BOOLEAN
      OBVIOUS
    <2> HIDE DEF h, s
    <2> QED BY <2>2, <2>3, <2>4, <2>5
  <1>7. CASE Report(d)
    <2>1. rec' \in Stack \cup {NoStack} /\ (rec # NoStack => rec' # NoStack)
      <3>1. ASSUME NEW s \in {"active", "error"}, ComposeStackUpdateStatus(job[d], s)
            PROVE  rec' \in Stack \cup {NoStack} /\ (rec # NoStack => rec' # NoStack)
        BY <1>1, <3>1, StatusTyped DEF Status
      <3> QED BY <1>7, <3>1 DEF Report, Verdict, TypeInv
    <2>2. Deploys(job', rec)
      BY <1>7, IdleTyped, DeploysStep DEF Report, TypeInv
    <2>3. Callers(req', rec') /\ Deploys(job', rec')
      BY <1>7, <2>1, <2>2, RecordKept DEF Report, TypeInv
    <2>4. mishaps' \subseteq MishapKinds
      BY <1>7, SufferTyped DEF Report, MishapKinds
    <2> QED BY <1>7, <2>1, <2>3, <2>4 DEF Report, TypeInv, DaemonTyped, daemon
  <1> QED BY <1>3, <1>4, <1>5, <1>6, <1>7 DEF JobStep

\* So do the services' writes and a crash of Swirl.
LEMMA EnvironmentTyped ==
  ASSUME TypeInv, Crash \/ \E h \in Host : WriteData(h)
  PROVE  TypeInv'
  <1>1. ASSUME NEW h \in Host, WriteData(h)
        PROVE  TypeInv'
    BY <1>1 DEF WriteData, TypeInv, DaemonTyped, store
  <1>2. CASE Crash
    <2>1. Callers(req', rec) /\ Deploys(job', rec)
      BY <1>2, IdleTyped DEF Crash, Callers, Deploys
    <2>2. mishaps' \subseteq MishapKinds
      BY <1>2, SufferTyped DEF Crash, MishapKinds
    <2> QED BY <1>2, <2>1, <2>2 DEF Crash, TypeInv, DaemonTyped, store, daemon
  <1> QED BY <1>1, <1>2

-----------------------------------------------------------------------------
\* In every reachable state of ComposeStack the record, the snapshots, the
\* containers and volumes of every host, the calls being served and the deploys
\* in flight have their types, and whoever works for a live record finds one:
\* the status writes of biz/compose_stack.go never dereference a missing stack.
THEOREM ShapeKept == Spec => []TypeInv
  <1>1. TypeInv /\ [Next]_vars => TypeInv'
    <2> SUFFICES ASSUME TypeInv, [Next]_vars PROVE TypeInv'
      OBVIOUS
    <2>1. ASSUME NEW t \in Handler, Call(t) \/ HandlerStep(t)
          PROVE  TypeInv'
      BY <2>1, CallTyped, SaveStepTyped, EngineStepTyped DEF HandlerStep
    <2>2. ASSUME NEW d \in Deployment, JobStep(d)
          PROVE  TypeInv'
      BY <2>2, JobStepTyped
    <2>3. CASE UNCHANGED vars
      BY <2>3 DEF vars, TypeInv, DaemonTyped, Callers, Deploys
    <2> QED BY <2>1, <2>2, <2>3, EnvironmentTyped DEF Next
  <1> QED BY <1>1, InitTyped, PTL DEF Spec

\* The type invariant of the run, for any hosts, services and faults.
THEOREM TypeCorrect == Spec => []TypeOK
  <1>1. TypeInv => TypeOK
    BY DEF TypeInv, TypeOK, DaemonTyped, Callers, Deploys
  <1> QED BY <1>1, ShapeKept, PTL
-----------------------------------------------------------------------------
(* Why no container is orphaned: while calls are served one at a time and   *)
(* none arrives during a deploy, whoever acts on the managed stack acts on  *)
(* the host the record names, and a record moves or goes only after a       *)
(* teardown.                                                                *)

Managed(r) == r.op \notin External \cup {"none"}

\* k is the record, o the hosts with containers of ours
OnItsHost(r, k, o) ==
  Managed(r) =>
    /\ r.alive
    /\ r.host = k.host
    /\ IF r.op = "migrate" THEN r.step \in {"teardown", "flip"} ELSE r.stack.host = k.host
    /\ r.step \in {"drop", "flip"} => o = {}

Tracked ==
  /\ ours \subseteq {rec.host}
  /\ \A h \in ours : there[h] # {}
  /\ \A t \in Handler : OnItsHost(req[t], rec, ours)
  /\ \A d \in Deployment : Busy(d) => job[d].alive /\ job[d].host = rec.host
  /\ \A d, e \in Deployment : Busy(d) /\ Busy(e) => d = e
  /\ InFlight => \A t \in Handler : req[t] = NoRequest

Calm == mishaps \cap {"leak", "impatient"} = {}
OneCall == \A t, u \in Handler : t = u

\* Without a record there are no containers of ours.
LEMMA OursWithoutRecord == TypeInv /\ Tracked /\ rec = NoStack => ours = {}
  BY HostAssumption DEF TypeInv, DaemonTyped, Tracked, NoStack

\* No request is on no wrong host.
LEMMA NoRequestOnItsHost == \A k, o : OnItsHost(NoRequest, k, o)
  BY DEF OnItsHost, Managed, NoRequest

\* A call that arrives while nothing is in flight starts on the right host.
LEMMA ArriveTracked ==
  ASSUME OneCall, Tracked, NEW t \in Handler, NEW r, Arrive(t, r), Calm', TypeInv,
         UNCHANGED <<there, job>>, ours' \subseteq {rec'.host},
         \A h \in ours' : there[h] # {}, OnItsHost(r, rec', ours')
  PROVE  Tracked'
  <1>1. ~InFlight
    BY DEF Arrive, Suffer, Calm
  <1>2. \A d \in Deployment : ~Busy(d)
    BY <1>1 DEF InFlight
  <1>3. ~InFlight' /\ \A d \in Deployment : ~Busy(d)'
    BY <1>2 DEF InFlight, Busy
  <1>4. \A u \in Handler : req'[u] = r
    BY DEF Arrive, OneCall, TypeInv, Callers
  <1> QED BY <1>3, <1>4 DEF Tracked

\* Whichever call arrives, it starts on the host of the record.
LEMMA CallTracked ==
  ASSUME OneCall, TypeInv, Tracked, NEW t \in Handler, Call(t), Calm'
  PROVE  Tracked'
  <1> USE DEF store, daemon
  <1>0. /\ Stack \cup {NoStack} \subseteq Copy
        /\ rec # NoStack => rec \in Stack /\ rec.host \in Host /\ rec \in Copy
    BY DEF Stack, Copy, TypeInv
  <1>1. ASSUME NEW r, Arrive(t, r), OnItsHost(r, rec, ours), UNCHANGED <<store, daemon, job>>
        PROVE  Tracked'
    BY <1>1, ArriveTracked DEF Tracked
  \* a request that Request makes for the managed stack
  <1>2. ASSUME rec # NoStack, NEW o \in Ops \ {"none"}, NEW s \in HandlerSteps \ {"version"},
               NEW k \in Copy, k # NoStack, k.host = rec.host,
               o \notin External \cup {"migrate"}, s \notin {"start", "drop", "flip"}, s = "list" => o = "start",
               Arrive(t, Request(o, s, k, rec.host)), UNCHANGED <<store, daemon, job>>
        PROVE  Tracked'
    <2>1. OnItsHost(Request(o, s, k, rec.host), rec, ours)
      BY <1>0, <1>2, RequestTyped DEF OnItsHost
    <2> QED BY <1>1, <1>2, <2>1
  <1>4. ASSUME NEW h \in Host, NEW c \in Content, NEW deploy \in BOOLEAN, Create(t, h, c, deploy)
        PROVE  Tracked'
    <2>1. rec' \in Stack /\ rec' # NoStack /\ rec'.host = h
      BY <1>4, RecordIsNotNone DEF Create, Stack, Status
    <2>2. ours' = {} /\ UNCHANGED <<there, job>>
      BY <1>4, OursWithoutRecord DEF Create
    <2>3. CASE deploy
      <3>1. Arrive(t, Request("deploy", "client", rec', h))
        BY <1>4, <2>3 DEF Create
      <3>2. rec' \in Copy /\ "deploy" \in Ops \ {"none"} /\ "client" \in HandlerSteps \ {"version"}
            /\ "deploy" \notin External
        BY <1>0, <2>1 DEF Ops, HandlerSteps, External
      <3>3. OnItsHost(Request("deploy", "client", rec', h), rec', ours')
        BY <2>1, <2>2, <3>2, RequestTyped DEF OnItsHost
      <3> QED BY <2>2, <3>1, <3>3, ArriveTracked
    <2>4. CASE ~deploy
      <3>1. Arrive(t, NoRequest)
        BY <1>4, <2>4 DEF Create
      <3> QED BY <2>2, <3>1, NoRequestOnItsHost, ArriveTracked
    <2> QED BY <2>3, <2>4
  <1>5. ASSUME NEW h \in Host, NEW c \in Content, Import(t, h, c)
        PROVE  Tracked'
    <2>1. ours' = {h} /\ rec'.host = h /\ there[h] # {} /\ UNCHANGED <<there, job>>
      BY <1>5, OursWithoutRecord DEF Import
    <2> QED BY <1>5, <2>1, NoRequestOnItsHost, ArriveTracked DEF Import
  <1>6. ASSUME NEW c \in Content, NEW deploy \in BOOLEAN, Save(t, c, deploy)
        PROVE  Tracked'
    <2> DEFINE k == [rec EXCEPT !.content = c, !.status = "keep"]
    <2>1. rec # NoStack /\ UNCHANGED <<store, daemon, job>>
      BY <1>6 DEF Save
    <2>2. k \in Copy /\ k # NoStack /\ k.host = rec.host
      BY <1>0, <2>1, HostAssumption DEF Stack, Copy, NoStack
    <2>3. PICK o \in {"deploy", "save"} : Arrive(t, Request(o, "snapshot", k, rec.host))
      BY <1>6 DEF Save
    <2>4. o \in Ops \ {"none"} /\ "snapshot" \in HandlerSteps \ {"version"} /\ o \notin External
      BY DEF Ops, HandlerSteps, External
    <2> HIDE DEF k
    <2> QED BY <1>2, <2>1, <2>2, <2>3, <2>4
  <1>7. CASE DeployByID(t) \/ Start(t) \/ Stop(t)
    <2>1. rec # NoStack /\ UNCHANGED <<store, daemon, job>>
      BY <1>7 DEF DeployByID, Start, Stop
    <2>2. PICK o \in {"deploy", "start", "stop"}, s \in {"snapshot", "list", "teardown"} :
            Arrive(t, Request(o, s, rec, rec.host)) /\ (s = "list" => o = "start")
      BY <1>7 DEF DeployByID, Start, Stop
    <2>3. o \in Ops \ {"none"} /\ s \in HandlerSteps \ {"version"} /\ o \notin External
          /\ s \notin {"start", "drop", "flip"}
      BY DEF Ops, HandlerSteps, External
    <2> QED BY <1>0, <1>2, <2>1, <2>2, <2>3
  <1>8. ASSUME NEW v \in versions, RestoreVersion(t, v)
        PROVE  Tracked'
    <2> DEFINE k == [rec EXCEPT !.content = v.content]
    <2>1. rec # NoStack /\ UNCHANGED <<store, daemon, job>>
      BY <1>8 DEF RestoreVersion
    <2>2. v.content \in Content
      BY DEF TypeInv, Version
    <2>3. k \in Stack /\ k.host = rec.host
      BY <1>0, <2>1, <2>2 DEF Stack
    <2>4. Arrive(t, Request("save", "snapshot", k, rec.host))
      BY <1>8 DEF RestoreVersion
    <2>5. "save" \in Ops \ {"none"} /\ "snapshot" \in HandlerSteps \ {"version"} /\ "save" \notin External
      BY DEF Ops, HandlerSteps, External
    <2> HIDE DEF k
    <2> QED BY <1>0, <1>2, <2>1, <2>3, <2>4, <2>5, RecordIsNotNone
  <1>9. ASSUME NEW volumes \in BOOLEAN, NEW force \in BOOLEAN, Remove(t, volumes, force)
        PROVE  Tracked'
    <2> DEFINE r == RemoveRequest("remove", rec, rec.host, volumes, force)
    <2>1. rec # NoStack /\ UNCHANGED <<store, daemon, job>> /\ Arrive(t, r)
      BY <1>9 DEF Remove
    <2>2. OnItsHost(r, rec, ours)
      <3>1. "remove" \notin External
        BY DEF External
      <3> QED BY <1>0, <2>1, <3>1, RemoveRequestTyped DEF OnItsHost
    <2> HIDE DEF r
    <2> QED BY <1>1, <2>1, <2>2
  <1>10. ASSUME NEW h \in Host, NEW redeploy \in BOOLEAN, Migrate(t, h, redeploy)
         PROVE  Tracked'
    <2> DEFINE k == [rec EXCEPT !.host = h]
               r == Request("migrate", "teardown", k, rec.host)
    <2>1. rec # NoStack /\ UNCHANGED <<store, daemon, job>>
      BY <1>10 DEF Migrate
    <2>2. k \in Stack
      BY <1>0, <2>1 DEF Stack
    <2>3. r \in Requests /\ r.op = "migrate" /\ r.step = "teardown" /\ r.alive /\ r.host = rec.host
      <3>1. "migrate" \in Ops \ {"none"} /\ "teardown" \in HandlerSteps \ {"version"} /\ "migrate" \notin External
        BY DEF Ops, HandlerSteps, External
      <3> HIDE DEF k
      <3> QED BY <1>0, <2>1, <2>2, <3>1, RecordIsNotNone, RequestTyped
    <2>4. Arrive(t, [r EXCEPT !.redeploy = redeploy])
      BY <1>10 DEF Migrate
    <2> HIDE DEF r
    <2>5. OnItsHost([r EXCEPT !.redeploy = redeploy], rec, ours)
      BY <2>3 DEF Requests, OnItsHost
    <2> QED BY <1>1, <2>1, <2>4, <2>5
  <1>11. ASSUME NEW h \in Host, StartExternal(t, h) \/ StopExternal(t, h)
         PROVE  Tracked'
    <2>1. UNCHANGED <<store, daemon, job>>
      BY <1>11 DEF StartExternal, StopExternal
    <2>2. PICK o \in {"startExternal", "stopExternal"}, s \in {"start", "teardown"} :
            /\ Arrive(t, Request(o, s, NoStack, h))
            /\ s = "start" => o = "startExternal"
      BY <1>11 DEF StartExternal, StopExternal
    <2>3. o \in Ops \ {"none"} /\ s \in HandlerSteps \ {"version"} /\ o \in External
      BY DEF Ops, HandlerSteps, External
    <2>4. NoStack \in Copy
      BY DEF Copy
    <2>5. OnItsHost(Request(o, s, NoStack, h), rec, ours)
      BY <2>2, <2>3, <2>4, RequestTyped DEF OnItsHost, Managed
    <2> QED BY <1>1, <2>1, <2>2, <2>5
  <1>12. ASSUME NEW h \in Host, NEW volumes \in BOOLEAN, NEW force \in BOOLEAN,
                RemoveExternal(t, h, volumes, force)
         PROVE  Tracked'
    <2>1. UNCHANGED <<store, daemon, job>>
          /\ Arrive(t, RemoveRequest("removeExternal", NoStack, h, volumes, force))
      BY <1>12 DEF RemoveExternal
    <2>2. "removeExternal" \in External /\ NoStack \in Copy
      BY DEF External, Copy
    <2>3. OnItsHost(RemoveRequest("removeExternal", NoStack, h, volumes, force), rec, ours)
      BY <2>2, RemoveRequestTyped DEF OnItsHost, Managed
    <2> QED BY <1>1, <2>1, <2>3
  <1> QED BY <1>4, <1>5, <1>6, <1>7, <1>8, <1>9, <1>10, <1>11, <1>12 DEF Call
\* A handler at work: no deploy is in flight, and what it leaves behind.
LEMMA MoveOn ==
  ASSUME OneCall, TypeInv, Tracked, NEW t \in Handler, req[t].step # "idle",
         UNCHANGED job, rec'.host = rec.host,
         ours' \subseteq ours, \A h \in ours' : there'[h] # {},
         NEW r, req' = [req EXCEPT ![t] = r], OnItsHost(r, rec', ours')
  PROVE  Tracked'
  <1>1. ~InFlight
    BY DEF Tracked, NoRequest
  <1>2. \A d \in Deployment : ~Busy(d)
    BY <1>1 DEF InFlight
  <1>3. ~InFlight' /\ \A d \in Deployment : ~Busy(d)'
    BY <1>2 DEF InFlight, Busy
  <1>4. \A u \in Handler : req'[u] = r
    BY DEF OneCall, TypeInv, Callers
  <1> QED BY <1>3, <1>4 DEF Tracked

\* Ending is one way to move on, going to a step that follows no teardown
\* another.
LEMMA DoneTracked ==
  ASSUME OneCall, TypeInv, Tracked, NEW t \in Handler, req[t].step # "idle",
         UNCHANGED job, rec'.host = rec.host,
         ours' \subseteq ours, \A h \in ours' : there'[h] # {}, Done(t)
  PROVE  Tracked'
  BY MoveOn, NoRequestOnItsHost DEF Done

\* The latter, for steps after which there may be containers of ours.
LEMMA GotoTracked ==
  ASSUME OneCall, TypeInv, Tracked, NEW t \in Handler, req[t].step # "idle",
         UNCHANGED <<job, there, ours>>, rec'.host = rec.host,
         NEW s \in HandlerSteps, s \notin {"drop", "flip"},
         req[t].op = "migrate" => s = "teardown", Goto(t, s)
  PROVE  Tracked'
  <1>1. req[t] \in Requests /\ OnItsHost(req[t], rec, ours)
    BY DEF TypeInv, Callers, Tracked
  <1>2. OnItsHost([req[t] EXCEPT !.step = s], rec', ours)
    BY <1>1 DEF OnItsHost, Managed, Requests
  <1>3. req' = [req EXCEPT ![t] = [req[t] EXCEPT !.step = s]]
    BY DEF Goto
  <1>4. \A h \in ours' : there'[h] # {}
    BY DEF Tracked
  <1> QED BY <1>2, <1>3, <1>4, MoveOn

\* A status write leaves the stack where it is.
LEMMA StatusKeepsHost ==
  ASSUME TypeInv, NEW w, w.alive => rec # NoStack, NEW s, ComposeStackUpdateStatus(w, s)
  PROVE  rec'.host = rec.host
  BY DEF ComposeStackUpdateStatus, TypeInv, Stack

\* Saving and the synchronous part of Deploy stay on that host, and so does the
\* job Deploy spawns.
LEMMA SaveStepTracked ==
  ASSUME OneCall, TypeInv, Tracked, NEW t \in Handler,
         Snapshot(t) \/ AddVersion(t) \/ Update(t) \/ Client(t) \/ MarkDeploying(t) \/ Spawn(t)
  PROVE  Tracked'
  <1> USE DEF store, daemon
  <1>0. req[t].step \in {"snapshot", "version", "update", "client", "mark", "hook"}
    BY DEF Snapshot, AddVersion, Update, Client, MarkDeploying, Spawn, At
  <1>1. /\ req[t] \in Requests /\ CallShape(req[t]) /\ req[t].op # "none"
        /\ req[t].alive => rec \in Stack /\ rec # NoStack
    BY <1>0, Serving
  <1>2. Managed(req[t])
    BY <1>0, <1>1 DEF CallShape, Managed
  <1>3. /\ req[t].alive /\ req[t].op # "migrate" /\ req[t].stack.host = rec.host
        /\ req[t].host = rec.host
    BY <1>0, <1>2 DEF Tracked, OnItsHost
  <1>4. \A h \in ours : there[h] # {}
    BY DEF Tracked
  <1>5. \A s \in {"update", "client", "mark", "hook"} : s \in HandlerSteps
    BY DEF HandlerSteps
  \* the status writes
  <1>6. \A s : ComposeStackUpdateStatus(req[t], s) => rec'.host = rec.host
    BY <1>1, StatusKeepsHost
  <1>7. CASE Snapshot(t)
    <2>1. CASE Goto(t, "update")
      BY <1>0, <1>3, <1>5, <1>7, <2>1, GotoTracked DEF Snapshot
    <2>2. CASE ~Goto(t, "update")
      <3>1. PICK n, c : req' = [req EXCEPT ![t].step = "version", ![t].old = c, ![t].rev = n]
        BY <1>7, <2>2 DEF Snapshot
      <3> DEFINE r == [req[t] EXCEPT !.step = "version", !.old = c, !.rev = n]
      <3>2. req' = [req EXCEPT ![t] = r]
        BY <3>1
      <3>3. OnItsHost(r, rec, ours)
        BY <1>1, <1>3 DEF OnItsHost, Requests
      <3> HIDE DEF r
      <3> QED BY <1>0, <1>4, <1>7, <3>2, <3>3, MoveOn DEF Snapshot
    <2> QED BY <2>1, <2>2
  <1>8. CASE AddVersion(t)
    BY <1>0, <1>3, <1>5, <1>8, GotoTracked DEF AddVersion
  <1>9. CASE Update(t)
    <2>1. rec'.host = rec.host
      <3>1. req[t].stack \in [host : Host, content : Content, status : Status \cup {"keep"}]
        BY <1>0, <1>2, Serving DEF Managed
      <3>2. PICK s : rec' = [req[t].stack EXCEPT !.status = s]
        BY <1>3, <1>9 DEF Update
      <3>3. rec'.host = req[t].stack.host
        BY <3>1, <3>2
      <3> QED BY <1>3, <3>3
    <2>2. Goto(t, "client") \/ Done(t)
      BY <1>9 DEF Update
    <2> QED BY <1>0, <1>3, <1>4, <1>5, <1>9, <2>1, <2>2, GotoTracked, DoneTracked DEF Update
  <1>10. CASE Client(t)
    <2>1. rec'.host = rec.host
      BY <1>6, <1>10 DEF Client
    <2>2. Goto(t, "mark") \/ Done(t)
      BY <1>10 DEF Client
    <2> QED BY <1>0, <1>3, <1>4, <1>5, <1>10, <2>1, <2>2, GotoTracked, DoneTracked DEF Client
  <1>11. CASE MarkDeploying(t)
    <2>1. rec'.host = rec.host
      BY <1>6, <1>11 DEF MarkDeploying
    <2> QED BY <1>0, <1>3, <1>5, <1>11, <2>1, GotoTracked DEF MarkDeploying
  <1>12. CASE Spawn(t)
    <2>1. CASE UNCHANGED job
      <3>1. rec'.host = rec.host
        BY <1>6, <1>12 DEF Spawn
      <3> QED BY <1>0, <1>4, <1>12, <2>1, <3>1, DoneTracked DEF Spawn
    <2>2. CASE ~(UNCHANGED job)
      <3>1. PICK d \in Deployment :
              job' = [job EXCEPT ![d] = [alive |-> req[t].alive, step |-> "preflight",
                                         host |-> req[t].stack.host, next |-> 1]]
        BY <1>12, <2>2 DEF Spawn
      <3>2. UNCHANGED <<rec, there, ours>>
        BY <1>12, <2>2 DEF Spawn
      <3>3. job'[d].alive /\ job'[d].host = rec.host
        BY <1>3, <3>1 DEF TypeInv, Deploys
      <3>4. \A e \in Deployment : e # d => ~Busy(e)'
        <4>1. ~InFlight
          BY <1>0 DEF Tracked, NoRequest
        <4> QED BY <3>1, <4>1 DEF InFlight, Busy, TypeInv, Deploys
      <3>5. \A u \in Handler : req'[u] = NoRequest
        BY <1>12 DEF Spawn, Done, OneCall, TypeInv, Callers
      <3> QED BY <1>4, <3>2, <3>3, <3>4, <3>5, NoRequestOnItsHost DEF Tracked
    <2> QED BY <2>1, <2>2
  <1> QED BY <1>7, <1>8, <1>9, <1>10, <1>11, <1>12
\* Start, Stop, Remove and Migrate move or drop a record only after a teardown.
LEMMA EngineStepTracked ==
  ASSUME OneCall, TypeInv, Tracked, NEW t \in Handler, Calm',
         \/ ListForStart(t) \/ EngineStart(t) \/ SetStatus(t) \/ Guard(t)
         \/ CannotList(t) \/ Teardown(t) \/ Drop(t) \/ Flip(t)
  PROVE  Tracked'
  <1> USE DEF store, daemon
  <1>0. req[t].step \in {"list", "start", "status", "guard", "teardown", "drop", "flip"}
    BY DEF ListForStart, EngineStart, SetStatus, Guard, CannotList, Teardown, Drop, Flip, At
  <1>1. /\ req[t] \in Requests /\ CallShape(req[t]) /\ req[t].op # "none"
        /\ req[t].host \in Host
        /\ req[t].alive => rec \in Stack /\ rec # NoStack
    BY <1>0, Serving
  <1>2. OnItsHost(req[t], rec, ours)
    BY DEF Tracked
  <1>3. \A h \in ours : there[h] # {}
    BY DEF Tracked
  <1>4. req[t].op = "migrate" => req[t].step \in {"teardown", "flip"}
    BY <1>1, <1>2 DEF OnItsHost, Managed, External
  <1>5. CASE ListForStart(t)
    <2>1. req[t].op = "start"
      BY <1>1, <1>5 DEF ListForStart, At, CallShape
    <2> DEFINE deployed == [req[t] EXCEPT !.op = "deploy", !.step = "snapshot"]
               started == [req[t] EXCEPT !.step = "start"]
    <2>2. req' = [req EXCEPT ![t] = deployed] \/ req' = [req EXCEPT ![t] = started]
      BY <1>5 DEF ListForStart
    <2>3. OnItsHost(deployed, rec, ours) /\ OnItsHost(started, rec, ours)
      BY <1>1, <1>2, <2>1 DEF OnItsHost, Managed, External, Requests
    <2> HIDE DEF deployed, started
    <2> QED BY <1>0, <1>3, <1>5, <2>2, <2>3, MoveOn DEF ListForStart
  <1>6. CASE EngineStart(t)
    <2>1. Done(t) \/ Goto(t, "status")
      BY <1>6 DEF EngineStart
    <2>2. req[t].op # "migrate" /\ "status" \in HandlerSteps
      BY <1>4, <1>6 DEF EngineStart, At, HandlerSteps
    <2> QED BY <1>0, <1>3, <1>6, <2>1, <2>2, GotoTracked, DoneTracked DEF EngineStart
  <1>7. CASE SetStatus(t)
    <2>1. rec'.host = rec.host
      BY <1>1, <1>7, StatusKeepsHost DEF SetStatus
    <2> QED BY <1>0, <1>3, <1>7, <2>1, DoneTracked DEF SetStatus
  <1>8. CASE Guard(t)
    <2>1. Done(t) \/ Goto(t, "teardown")
      BY <1>8 DEF Guard
    <2>2. "teardown" \in HandlerSteps
      BY DEF HandlerSteps
    <2> QED BY <1>0, <1>3, <1>8, <2>1, <2>2, GotoTracked, DoneTracked DEF Guard
  \* after a teardown nothing of the managed stack is left
  <1>9. ASSUME AfterTeardown(t), req[t].step = "teardown", UNCHANGED <<store, job>>,
               ours' \subseteq ours, Managed(req[t]) => ours' = {},
               \A h \in ours' : there'[h] # {}
        PROVE  Tracked'
    <2>1. CASE Done(t)
      BY <1>0, <1>9, <2>1, DoneTracked
    <2>2. CASE req[t].op \in {"stop", "remove", "migrate"}
      <3>1. PICK s \in {"status", "drop", "flip"} :
              Goto(t, s) /\ (req[t].op = "migrate" => s = "flip")
        BY <1>9, <2>2 DEF AfterTeardown, NextOf
      <3> DEFINE r == [req[t] EXCEPT !.step = s]
      <3>2. req' = [req EXCEPT ![t] = r]
        BY <3>1 DEF Goto
      <3>3. Managed(req[t])
        BY <2>2 DEF Managed, External
      <3>4. /\ r.op = req[t].op /\ r.alive = req[t].alive /\ r.host = req[t].host
            /\ r.stack = req[t].stack /\ r.step = s
        BY <1>1 DEF Requests
      <3> HIDE DEF r
      <3>5. rec' = rec /\ ours' = {}
        BY <1>9, <3>3
      <3>6. OnItsHost(r, rec', ours')
        BY <1>2, <3>1, <3>3, <3>4, <3>5 DEF OnItsHost, Managed
      <3> QED BY <1>0, <1>9, <3>2, <3>6, MoveOn
    <2> QED BY <1>9, <2>1, <2>2 DEF AfterTeardown, NextOf
  <1>10. CASE CannotList(t)
    <2>1. CASE req[t].op = "migrate"
      <3>1. there[req[t].host] = {}
        BY <1>10, <2>1 DEF CannotList, Suffer, Calm
      <3>2. Managed(req[t]) /\ req[t].host = rec.host
        BY <1>2, <2>1 DEF OnItsHost, Managed, External
      <3>3. ours = {}
        BY <1>3, <3>1, <3>2 DEF Tracked
      <3> QED BY <1>9, <1>10, <2>1, <3>3 DEF CannotList, RemoveError, At
    <2>2. CASE req[t].op # "migrate"
      BY <1>0, <1>3, <1>10, <2>2, DoneTracked DEF CannotList, RemoveError
    <2> QED BY <2>1, <2>2
  <1>11. CASE Teardown(t)
    <2> DEFINE h == req[t].host
    <2>1. there' = [there EXCEPT ![h] = {}] /\ ours' = ours \ {h}
      BY <1>11 DEF Teardown, Suffer, Calm
    <2>2. Managed(req[t]) => ours' = {}
      BY <1>2, <2>1 DEF OnItsHost, Tracked
    <2>3. \A x \in ours' : there'[x] # {}
      BY <1>3, <2>1 DEF TypeInv, DaemonTyped
    <2> QED BY <1>9, <1>11, <2>1, <2>2, <2>3 DEF Teardown, At
  <1>12. CASE Drop(t)
    <2>1. ours = {}
      BY <1>1, <1>2, <1>12 DEF Drop, At, CallShape, OnItsHost, Managed
    <2>2. \A u \in Handler : req'[u] = NoRequest
      BY <1>12 DEF Drop, OneCall
    <2>3. \A d \in Deployment : ~Busy(d)
      BY <1>0 DEF Tracked, NoRequest, InFlight
    <2>4. \A d \in Deployment : ~Busy(d)'
      <3>1. ASSUME NEW d \in Deployment
            PROVE  job'[d].step = job[d].step
        <4>1. job[d] \in Jobs
          BY DEF TypeInv, Deploys
        <4>2. PICK b : job'[d] = [job[d] EXCEPT !.alive = b]
          BY <1>12 DEF Drop
        <4> QED BY <4>1, <4>2 DEF Jobs
      <3> QED BY <2>3, <3>1 DEF Busy
    <2>5. ours' = {}
      BY <1>12, <2>1 DEF Drop
    <2> QED BY <2>2, <2>4, <2>5, NoRequestOnItsHost DEF Tracked, InFlight
  <1>13. CASE Flip(t)
    <2> DEFINE k == [req[t].stack EXCEPT !.status = "inactive"]
               q == Request("deploy", "snapshot", k, k.host)
    <2>1. Managed(req[t]) /\ req[t].alive /\ ours = {}
      BY <1>1, <1>2, <1>13 DEF Flip, At, CallShape, OnItsHost, Managed
    <2>2. k \in Stack /\ k # NoStack /\ k.host \in Host
      <3>1. k \in Stack
        BY <1>0, <2>1, Serving DEF Managed, Stack, Status
      <3> QED BY <3>1, RecordIsNotNone DEF Stack
    <2>3. CASE Done(t)
      <3>1. \A u \in Handler : req'[u] = NoRequest
        BY <2>3 DEF Done, OneCall, TypeInv, Callers
      <3>2. \A d \in Deployment : ~Busy(d)
        BY <1>0 DEF Tracked, NoRequest, InFlight
      <3>3. ours' = {} /\ UNCHANGED job
        BY <1>13, <2>1 DEF Flip
      <3> QED BY <3>1, <3>2, <3>3, NoRequestOnItsHost DEF Tracked, InFlight, Busy
    <2>4. CASE ~Done(t)
      <3> DEFINE r == [q EXCEPT !.alive = req[t].alive]
      <3>1. req' = [req EXCEPT ![t] = r] /\ rec' = k
        BY <1>13, <2>1, <2>4 DEF Flip
      <3>2. /\ q \in Requests /\ q.op = "deploy" /\ q.step = "snapshot"
            /\ q.stack = k /\ q.host = k.host
        <4>1. "deploy" \in Ops \ {"none"} /\ "snapshot" \in HandlerSteps \ {"version"}
              /\ "deploy" \notin External
          BY DEF Ops, HandlerSteps, External
        <4>2. k \in Copy
          BY <2>2 DEF Stack, Copy
        <4> HIDE DEF k
        <4> QED BY <2>2, <4>1, <4>2, RequestTyped
      <3> HIDE DEF q
      <3>3. OnItsHost(r, rec', {}) /\ r.step = "snapshot"
        BY <2>1, <3>1, <3>2 DEF OnItsHost, Managed, Requests
      <3> HIDE DEF r, k
      <3>4. \A u \in Handler : req'[u] = r
        BY <3>1 DEF OneCall, TypeInv, Callers
      <3>5. \A d \in Deployment : ~Busy(d)
        BY <1>0 DEF Tracked, NoRequest, InFlight
      <3>6. ours' = {} /\ UNCHANGED job
        BY <1>13, <2>1 DEF Flip
      <3> QED BY <3>3, <3>4, <3>5, <3>6 DEF Tracked, InFlight, Busy
    <2> QED BY <2>3, <2>4
  <1> QED BY <1>5, <1>6, <1>7, <1>8, <1>10, <1>11, <1>12, <1>13

\* The deploy in flight works on the record's host, and no call moves it.
LEMMA JobStepTracked ==
  ASSUME TypeInv, Tracked, NEW d \in Deployment, JobStep(d)
  PROVE  Tracked'
  <1> USE DEF store, daemon
  <1>0. Busy(d)
    BY DEF JobStep, Preflight, TearDownOld, Prepare, CreateNext, Report, OnJob, Busy
  <1>1. /\ job[d] \in Jobs /\ job[d].alive /\ job[d].host = rec.host /\ job[d].host \in Host
        /\ rec # NoStack
    BY <1>0 DEF TypeInv, Deploys, Tracked, JobShape, Busy
  <1>2. /\ \A e \in Deployment : Busy(e) => e = d
        /\ \A t \in Handler : req[t] = NoRequest
    BY <1>0 DEF Tracked, InFlight
  <1>3. \A h \in ours : there[h] # {} /\ h = rec.host
    BY DEF Tracked
  \* moving the job on, with the containers of ours still accounted for
  <1>4. ASSUME NEW w, job' = [job EXCEPT ![d] = w], w.alive, w.host = job[d].host,
               UNCHANGED <<rec, req>>,
               ours' \subseteq {rec.host}, \A h \in ours' : there'[h] # {}
        PROVE  Tracked'
    <2>1. \A e \in Deployment : e # d => ~Busy(e)'
      BY <1>2, <1>4 DEF Busy, TypeInv, Deploys
    <2>2. job'[d] = w
      BY <1>4 DEF TypeInv, Deploys
    <2> QED BY <1>1, <1>2, <1>4, <2>1, <2>2, NoRequestOnItsHost DEF Tracked
  <1>5. ASSUME NEW s, JobGoto(d, s), UNCHANGED <<rec, req>>,
               ours' \subseteq {rec.host}, \A h \in ours' : there'[h] # {}
        PROVE  Tracked'
    <2> DEFINE w == [job[d] EXCEPT !.step = s]
    <2>1. job' = [job EXCEPT ![d] = w] /\ w.alive /\ w.host = job[d].host
      BY <1>1, <1>5 DEF JobGoto, Jobs
    <2> HIDE DEF w
    <2> QED BY <1>4, <1>5, <2>1
  <1>6. CASE Preflight(d)
    BY <1>3, <1>5, <1>6 DEF Preflight
  <1>7. CASE TearDownOld(d)
    <2> DEFINE h == job[d].host
    <2>1. PICK s, rest : /\ there' = [there EXCEPT ![h] = rest]
                         /\ ours' = IF rest = {} THEN ours \ {h} ELSE ours
                         /\ JobGoto(d, s)
      BY <1>7 DEF TearDownOld
    <2>2. ours' \subseteq {rec.host} /\ \A x \in ours' : there'[x] # {}
      BY <1>1, <1>3, <2>1 DEF TypeInv, DaemonTyped
    <2> QED BY <1>5, <1>7, <2>1, <2>2 DEF TearDownOld
  <1>8. CASE Prepare(d)
    BY <1>3, <1>5, <1>8 DEF Prepare
  <1>9. CASE CreateNext(d)
    <2> DEFINE h == job[d].host
               s == job[d].next
    <2>1. \/ UNCHANGED <<there, ours>>
          \/ there' = [there EXCEPT ![h] = @ \cup {s}] /\ ours' = ours \cup {h}
      BY <1>9 DEF CreateNext
    <2>2. ours' \subseteq {rec.host} /\ \A x \in ours' : there'[x] # {}
      BY <1>1, <1>3, <2>1 DEF TypeInv, DaemonTyped
    <2>3. CASE JobGoto(d, "bad")
      BY <1>5, <1>9, <2>2, <2>3 DEF CreateNext
    <2>4. CASE ~JobGoto(d, "bad")
      <3> DEFINE z == IF s = Services THEN "ok" ELSE "create"
                 w == [job[d] EXCEPT !.next = s + 1, !.step = z]
      <3>1. job' = [job EXCEPT ![d].next = s + 1, ![d].step = z]
        BY <1>9, <2>4 DEF CreateNext
      <3> HIDE DEF z, s
      <3>2. job' = [job EXCEPT ![d] = w] /\ w.alive /\ w.host = job[d].host
        BY <1>1, <3>1 DEF Jobs
      <3> HIDE DEF w
      <3> QED BY <1>4, <1>9, <2>2, <3>2 DEF CreateNext
    <2> QED BY <2>3, <2>4
  <1>10. CASE Report(d)
    <2>1. rec'.host = rec.host
      BY <1>1, <1>10, StatusKeepsHost DEF Report
    <2>2. \A e \in Deployment : ~Busy(e)'
      BY <1>2, <1>10 DEF Report, Busy, NoJob, TypeInv, Deploys
    <2>3. UNCHANGED <<req, there, ours>>
      BY <1>10 DEF Report
    <2> QED BY <1>2, <1>3, <2>1, <2>2, <2>3, NoRequestOnItsHost DEF Tracked, InFlight
  <1> QED BY <1>6, <1>7, <1>8, <1>9, <1>10 DEF JobStep

\* Mishaps are never forgotten.
LEMMA MishapsGrow == [Next]_vars => mishaps \subseteq mishaps'
  <1> SUFFICES ASSUME [Next]_vars PROVE mishaps \subseteq mishaps'
    OBVIOUS
  <1> USE DEF Suffer
  <1>1. ASSUME NEW t \in Handler, Call(t)
        PROVE  mishaps \subseteq mishaps'
    <2>1. \E r : Arrive(t, r)
      BY <1>1, Zenon DEF Call, Create, Import, Save, DeployByID, RestoreVersion, Start, Stop,
         Remove, Migrate, StartExternal, StopExternal, RemoveExternal
    <2> QED BY <2>1 DEF Arrive
  <1>2. ASSUME NEW t \in Handler, HandlerStep(t)
        PROVE  mishaps \subseteq mishaps'
    <2>1. CASE Snapshot(t) \/ AddVersion(t) \/ Update(t) \/ Client(t) \/ MarkDeploying(t) \/ Spawn(t)
      BY <2>1 DEF Snapshot, AddVersion, Update, Client, MarkDeploying, Spawn
    <2>2. CASE ListForStart(t) \/ EngineStart(t) \/ SetStatus(t) \/ Guard(t)
      BY <2>2 DEF ListForStart, EngineStart, SetStatus, Guard
    <2>3. CASE CannotList(t) \/ Teardown(t) \/ Drop(t) \/ Flip(t)
      BY <2>3 DEF CannotList, Teardown, Drop, Flip
    <2> QED BY <1>2, <2>1, <2>2, <2>3 DEF HandlerStep
  <1>3. ASSUME NEW d \in Deployment, JobStep(d)
        PROVE  mishaps \subseteq mishaps'
    BY <1>3 DEF JobStep, Preflight, TearDownOld, Prepare, CreateNext, Report
  <1>4. CASE Crash \/ \E h \in Host : WriteData(h)
    BY <1>4 DEF Crash, WriteData
  <1>5. CASE UNCHANGED vars
    BY <1>5 DEF vars
  <1> QED BY <1>1, <1>2, <1>3, <1>4, <1>5 DEF Next

\* While calls come one at a time and none during a deploy, so it stays.
LEMMA HostsTracked ==
  ASSUME OneCall PROVE Spec => [](Calm => Tracked)
  <1>1. Init => (Calm => Tracked)
    BY NoRequestOnItsHost DEF Init, Tracked, Busy, InFlight, NoJob
  <1>2. TypeInv /\ (Calm => Tracked) /\ [Next]_vars => (Calm => Tracked)'
    <2> SUFFICES ASSUME TypeInv, Calm => Tracked, [Next]_vars, Calm'
                 PROVE  Tracked'
      OBVIOUS
    <2>1. Tracked
      BY MishapsGrow DEF Calm
    <2>2. ASSUME NEW t \in Handler, Call(t) \/ HandlerStep(t)
          PROVE  Tracked'
      BY <2>1, <2>2, CallTracked, SaveStepTracked, EngineStepTracked DEF HandlerStep
    <2>3. ASSUME NEW d \in Deployment, JobStep(d)
          PROVE  Tracked'
      BY <2>1, <2>3, JobStepTracked
    <2>4. ASSUME NEW h \in Host, WriteData(h)
          PROVE  Tracked'
      BY <2>1, <2>4 DEF WriteData, store, Tracked, InFlight, Busy
    <2>5. CASE Crash
      <3>1. /\ \A d \in Deployment : ~Busy(d)'
            /\ \A t \in Handler : req'[t] = NoRequest
        BY <2>5 DEF Crash, Busy, NoJob
      <3> QED BY <2>1, <2>5, <3>1, NoRequestOnItsHost DEF Crash, store, daemon, Tracked, InFlight
    <2>6. CASE UNCHANGED vars
      BY <2>1, <2>6 DEF vars, Tracked, InFlight, Busy
    <2> QED BY <2>2, <2>3, <2>4, <2>5, <2>6 DEF Next
  <1> QED BY <1>1, <1>2, ShapeKept, PTL DEF Spec

\* Served one call at a time, Swirl never loses track of containers it made:
\* those that are its own are on the host the stack's record names, through
\* deploys that fail anywhere, migrations, removals, restarts and lost status
\* writes, for any number of hosts, services and deploys (compose_stack.go's
\* Remove and Migrate against runDeploy).
THEOREM NothingOrphaned ==
  ASSUME OneCall PROVE Spec => []NoOrphans
  <1>1. (Calm => Tracked) => NoOrphans
    BY DEF Calm, Tracked, NoOrphans
  <1> QED BY <1>1, HostsTracked, PTL

-----------------------------------------------------------------------------
(* What the steps of a call leave alone, for the arguments that follow.     *)

\* A request that has just arrived for the stack recorded in k, or, external,
\* for containers of th on another host.
Fresh(r, k, th) ==
  /\ r.step \in {"list", "snapshot", "teardown", "guard", "start"}
  /\ r.step = "guard" => r.op \in {"remove", "removeExternal"}
  /\ r.step = "teardown" => r.op \in External \cup {"stop", "remove", "migrate"}
  /\ r.step = "start" => r.op \in External /\ th[r.host] # {}
  /\ r.step \in {"list", "snapshot"} => r.stack.status \in {"keep", k.status}
  /\ r.op \in External => r.host # k.host
  /\ r.op = "migrate" => k.status = "inactive" /\ r.stack.content = k.content

\* A call brings a record into being or starts work on the one there is.
Creates(r) ==
  /\ rec = NoStack /\ rec' \in Stack
  /\ \/ rec'.status = "inactive" /\ ours' = ours /\ r.step \in {"idle", "client"}
        /\ r.op \in {"none", "deploy"}
     \/ /\ rec'.status = "active" /\ ours' = ours \cup {rec'.host}
        /\ there[rec'.host] # {} /\ r = NoRequest

Begins(t) ==
  \E r : /\ Arrive(t, r) /\ UNCHANGED <<versions, there, runs, job>>
         /\ Creates(r) \/ (UNCHANGED <<rec, ours>> /\ Fresh(r, rec, there))

\* Whichever call arrives, it does one of the two.
LEMMA CallArrives ==
  ASSUME TypeInv, NEW t \in Handler, Call(t)
  PROVE  Begins(t)
  <1> USE DEF store, daemon
  <1>0. /\ Stack \cup {NoStack} \subseteq Copy
        /\ rec # NoStack => rec \in Stack /\ rec.host \in Host /\ rec \in Copy
    BY DEF Stack, Copy, TypeInv
  <1>1. ASSUME NEW r, Arrive(t, r), UNCHANGED <<store, daemon, job>>, Fresh(r, rec, there)
        PROVE  Begins(t)
    BY <1>1 DEF Begins
  \* a request that Request makes for the managed stack
  <1>2. ASSUME rec # NoStack, NEW o \in {"save", "deploy", "start", "stop"},
               NEW s \in {"list", "snapshot", "teardown"},
               NEW k \in Copy, k # NoStack, k.status \in {"keep", rec.status},
               s = "list" <=> o = "start", s = "teardown" <=> o = "stop",
               Arrive(t, Request(o, s, k, rec.host)), UNCHANGED <<store, daemon, job>>
        PROVE  Begins(t)
    <2>1. o \in Ops \ {"none"} /\ s \in HandlerSteps \ {"version"} /\ o \notin External
      BY DEF Ops, HandlerSteps, External
    <2>2. Fresh(Request(o, s, k, rec.host), rec, there)
      BY <1>0, <1>2, <2>1, RequestTyped DEF Fresh
    <2> QED BY <1>1, <1>2, <2>2
  <1>3. ASSUME NEW h \in Host, NEW c \in Content, NEW deploy \in BOOLEAN, Create(t, h, c, deploy)
        PROVE  Begins(t)
    <2>1. rec' \in Stack /\ rec' # NoStack /\ rec'.host = h /\ rec'.status = "inactive"
      BY <1>3, RecordIsNotNone DEF Create, Stack, Status
    <2>2. PICK r : Arrive(t, r) /\ r.step \in {"idle", "client"} /\ r.op \in {"none", "deploy"}
      <3>1. CASE deploy
        <4>1. Arrive(t, Request("deploy", "client", rec', h))
          BY <1>3, <3>1 DEF Create
        <4>2. rec' \in Copy /\ "deploy" \in Ops \ {"none"} /\ "client" \in HandlerSteps \ {"version"}
              /\ "deploy" \notin External
          BY <1>0, <2>1 DEF Ops, HandlerSteps, External
        <4>3. Request("deploy", "client", rec', h).op = "deploy"
              /\ Request("deploy", "client", rec', h).step = "client"
          BY <2>1, <4>2, RequestTyped
        <4> QED BY <4>1, <4>3
      <3>2. CASE ~deploy
        BY <1>3, <3>2 DEF Create, NoRequest
      <3> QED BY <3>1, <3>2
    <2>3. Creates(r) /\ UNCHANGED <<versions, there, runs, job>>
      BY <1>3, <2>1, <2>2 DEF Create, Creates
    <2> QED BY <2>2, <2>3 DEF Begins
  <1>4. ASSUME NEW h \in Host, NEW c \in Content, Import(t, h, c)
        PROVE  Begins(t)
    <2>1. rec' \in Stack /\ rec'.host = h /\ rec'.status = "active"
      BY <1>4 DEF Import, Stack, Status
    <2>2. Arrive(t, NoRequest) /\ Creates(NoRequest) /\ UNCHANGED <<versions, there, runs, job>>
      BY <1>4, <2>1 DEF Import, Creates
    <2> QED BY <2>2 DEF Begins
  <1>5. ASSUME NEW c \in Content, NEW deploy \in BOOLEAN, Save(t, c, deploy)
        PROVE  Begins(t)
    <2> DEFINE k == [rec EXCEPT !.content = c, !.status = "keep"]
    <2>1. rec # NoStack /\ UNCHANGED <<store, daemon, job>>
      BY <1>5 DEF Save
    <2>2. k \in Copy /\ k # NoStack /\ k.status = "keep"
      BY <1>0, <2>1, HostAssumption DEF Stack, Copy, NoStack
    <2>3. PICK o \in {"deploy", "save"} : Arrive(t, Request(o, "snapshot", k, rec.host))
      BY <1>5 DEF Save
    <2> HIDE DEF k
    <2> QED BY <1>2, <2>1, <2>2, <2>3
  <1>6. CASE DeployByID(t) \/ Start(t) \/ Stop(t)
    <2>1. rec # NoStack /\ UNCHANGED <<store, daemon, job>>
      BY <1>6 DEF DeployByID, Start, Stop
    <2>2. PICK o \in {"deploy", "start", "stop"}, s \in {"snapshot", "list", "teardown"} :
            Arrive(t, Request(o, s, rec, rec.host)) /\ (s = "list" <=> o = "start")
            /\ (s = "teardown" <=> o = "stop")
      BY <1>6 DEF DeployByID, Start, Stop
    <2>3. rec \in Copy /\ rec.status \in {"keep", rec.status}
      BY <1>0, <2>1
    <2> QED BY <1>2, <2>1, <2>2, <2>3
  <1>7. ASSUME NEW v \in versions, RestoreVersion(t, v)
        PROVE  Begins(t)
    <2> DEFINE k == [rec EXCEPT !.content = v.content]
    <2>1. rec # NoStack /\ UNCHANGED <<store, daemon, job>>
      BY <1>7 DEF RestoreVersion
    <2>2. v.content \in Content
      BY DEF TypeInv, Version
    <2>3. k \in Stack /\ k.status = rec.status
      BY <1>0, <2>1, <2>2 DEF Stack
    <2>4. Arrive(t, Request("save", "snapshot", k, rec.host))
      BY <1>7 DEF RestoreVersion
    <2> HIDE DEF k
    <2> QED BY <1>0, <1>2, <2>1, <2>3, <2>4, RecordIsNotNone
  <1>8. ASSUME NEW volumes \in BOOLEAN, NEW force \in BOOLEAN, Remove(t, volumes, force)
        PROVE  Begins(t)
    <2> DEFINE r == RemoveRequest("remove", rec, rec.host, volumes, force)
    <2>1. rec # NoStack /\ UNCHANGED <<store, daemon, job>> /\ Arrive(t, r)
      BY <1>8 DEF Remove
    <2>2. Fresh(r, rec, there)
      <3>1. "remove" \notin External
        BY DEF External
      <3> QED BY <1>0, <2>1, <3>1, RemoveRequestTyped DEF Fresh
    <2> HIDE DEF r
    <2> QED BY <1>1, <2>1, <2>2
  <1>9. ASSUME NEW h \in Host, NEW redeploy \in BOOLEAN, Migrate(t, h, redeploy)
        PROVE  Begins(t)
    <2> DEFINE k == [rec EXCEPT !.host = h]
               r == Request("migrate", "teardown", k, rec.host)
    <2>1. rec # NoStack /\ UNCHANGED <<store, daemon, job>> /\ rec.status = "inactive"
      BY <1>9 DEF Migrate
    <2>2. k \in Stack /\ k.content = rec.content
      BY <1>0, <2>1 DEF Stack
    <2>3. r \in Requests /\ r.op = "migrate" /\ r.step = "teardown" /\ r.stack = k
      <3>1. "migrate" \in Ops \ {"none"} /\ "teardown" \in HandlerSteps \ {"version"} /\ "migrate" \notin External
        BY DEF Ops, HandlerSteps, External
      <3> HIDE DEF k
      <3> QED BY <1>0, <2>1, <2>2, <3>1, RecordIsNotNone, RequestTyped
    <2>4. Arrive(t, [r EXCEPT !.redeploy = redeploy])
      BY <1>9 DEF Migrate
    <2> HIDE DEF r, k
    <2>5. Fresh([r EXCEPT !.redeploy = redeploy], rec, there)
      BY <2>1, <2>2, <2>3 DEF Requests, Fresh, External
    <2> QED BY <1>1, <2>1, <2>4, <2>5
  <1>10. ASSUME NEW h \in Host, StartExternal(t, h) \/ StopExternal(t, h)
         PROVE  Begins(t)
    <2>1. UNCHANGED <<store, daemon, job>> /\ rec.host # h /\ there[h] # {}
      BY <1>10 DEF StartExternal, StopExternal
    <2>2. PICK o \in {"startExternal", "stopExternal"}, s \in {"start", "teardown"} :
            Arrive(t, Request(o, s, NoStack, h)) /\ (s = "start" => o = "startExternal")
      BY <1>10 DEF StartExternal, StopExternal
    <2>3. o \in Ops \ {"none"} /\ s \in HandlerSteps \ {"version"} /\ o \in External
      BY DEF Ops, HandlerSteps, External
    <2>4. NoStack \in Copy
      BY DEF Copy
    <2>5. Fresh(Request(o, s, NoStack, h), rec, there)
      BY <2>1, <2>2, <2>3, <2>4, RequestTyped DEF Fresh, External
    <2> QED BY <1>1, <2>1, <2>2, <2>5
  <1>11. ASSUME NEW h \in Host, NEW volumes \in BOOLEAN, NEW force \in BOOLEAN,
                RemoveExternal(t, h, volumes, force)
         PROVE  Begins(t)
    <2>1. UNCHANGED <<store, daemon, job>> /\ rec.host # h
          /\ Arrive(t, RemoveRequest("removeExternal", NoStack, h, volumes, force))
      BY <1>11 DEF RemoveExternal
    <2>2. "removeExternal" \in External /\ NoStack \in Copy
      BY DEF External, Copy
    <2>3. Fresh(RemoveRequest("removeExternal", NoStack, h, volumes, force), rec, there)
      BY <2>1, <2>2, RemoveRequestTyped DEF Fresh
    <2> QED BY <1>1, <2>1, <2>3
  <1> QED BY <1>3, <1>4, <1>5, <1>6, <1>7, <1>8, <1>9, <1>10, <1>11 DEF Call

-----------------------------------------------------------------------------
(* What the history holds.  A call stores at most one snapshot, whose       *)
(* revision is above all others, and it does so before it overwrites.       *)

RevisionsApart ==
  /\ \A v, w \in versions : v.rev = w.rev => v = w
  /\ \A t \in Handler : At(t, "version") => \A v \in versions : v.rev < req[t].rev

\* No handler takes a step to "version" except by Snapshot.
LEMMA OnlySnapshot ==
  ASSUME OneCall, TypeInv, NEW t \in Handler, HandlerStep(t), ~Snapshot(t)
  PROVE  \A u \in Handler : ~At(u, "version")'
  <1>1. req \in [Handler -> Requests]
    BY DEF TypeInv, Callers
  <1>2. CASE \E s \in HandlerSteps \ {"version"} : Goto(t, s)
    BY <1>1, <1>2 DEF Goto, At, OneCall, Requests
  <1>3. CASE Done(t)
    BY <1>1, <1>3 DEF Done, At, OneCall, NoRequest
  <1>4. CASE AddVersion(t) \/ Update(t) \/ Client(t)
    BY <1>2, <1>3, <1>4 DEF AddVersion, Update, Client, HandlerSteps
  <1>5. CASE MarkDeploying(t) \/ Spawn(t)
    BY <1>2, <1>3, <1>5 DEF MarkDeploying, Spawn, HandlerSteps
  <1>6. CASE ListForStart(t)
    <2>1. req' = [req EXCEPT ![t] = [req[t] EXCEPT !.op = "deploy", !.step = "snapshot"]]
          \/ req' = [req EXCEPT ![t] = [req[t] EXCEPT !.step = "start"]]
      BY <1>6 DEF ListForStart
    <2> QED BY <1>1, <2>1, ZenonT(60) DEF At, OneCall, Requests
  <1>7. CASE EngineStart(t) \/ SetStatus(t) \/ Guard(t)
    BY <1>2, <1>3, <1>7 DEF EngineStart, SetStatus, Guard, HandlerSteps
  <1>8. AfterTeardown(t) => \A u \in Handler : ~At(u, "version")'
    BY <1>2, <1>3 DEF AfterTeardown, NextOf, HandlerSteps
  <1>9. CASE CannotList(t) \/ Teardown(t)
    BY <1>3, <1>8, <1>9 DEF CannotList, Teardown, RemoveError
  <1>10. CASE Drop(t)
    BY <1>10 DEF Drop, At, OneCall, NoRequest
  <1>11. CASE Flip(t)
    <2> DEFINE k == [req[t].stack EXCEPT !.status = "inactive"]
               r == [Request("deploy", "snapshot", k, k.host) EXCEPT !.alive = req[t].alive]
    <2>1. CASE req' = [req EXCEPT ![t] = r]
      <3>1. r.step = "snapshot"
        BY DEF Request, NoRequest
      <3> HIDE DEF r
      <3> QED BY <1>1, <2>1, <3>1 DEF At, OneCall
    <2> QED BY <1>3, <1>11, <2>1 DEF Flip
  <1> QED BY <1>4, <1>5, <1>6, <1>7, <1>9, <1>10, <1>11 DEF HandlerStep

\* Only AddVersion adds to the history, and only Drop empties it.
LEMMA HistoryStays ==
  ASSUME NEW t \in Handler, HandlerStep(t), ~AddVersion(t)
  PROVE  versions' = versions \/ (Drop(t) /\ versions' = {})
  BY DEF HandlerStep, Snapshot, Update, Client, MarkDeploying, Spawn, ListForStart,
     EngineStart, SetStatus, Guard, CannotList, Teardown, Drop, Flip, store

\* The steps of others than handlers touch neither calls nor history.
LEMMA OthersStay ==
  /\ \A d \in Deployment : JobStep(d) => UNCHANGED <<req, versions>>
  /\ \A h \in Host : WriteData(h) => UNCHANGED <<req, versions, rec>>
  /\ Crash => UNCHANGED <<versions, rec>> /\ \A t \in Handler : req'[t] = NoRequest
  BY DEF JobStep, Preflight, TearDownOld, Prepare, CreateNext, Report, WriteData, Crash, store

\* A call that arrives is not about to store a snapshot.
LEMMA ArrivesEmptyHanded ==
  ASSUME OneCall, TypeInv, NEW t \in Handler, Call(t)
  PROVE  versions' = versions /\ \A u \in Handler : ~At(u, "version")'
  <1>1. PICK r : Arrive(t, r) /\ versions' = versions /\ r.step # "version"
    BY CallArrives DEF Begins, Creates, Fresh, NoRequest
  <1> QED BY <1>1 DEF Arrive, At, OneCall, TypeInv, Callers

\* Snapshots keep their distance, whatever else happens.
LEMMA ApartStep ==
  ASSUME OneCall, TypeInv, RevisionsApart, [Next]_vars, "blind" \notin mishaps'
  PROVE  RevisionsApart'
  <1>1. ASSUME NEW t \in Handler, Call(t)
        PROVE  RevisionsApart'
    BY <1>1, ArrivesEmptyHanded DEF RevisionsApart
  <1>2. ASSUME NEW t \in Handler, HandlerStep(t)
        PROVE  RevisionsApart'
    <2>1. CASE Snapshot(t)
      <3>1. versions' = versions
        BY <2>1 DEF Snapshot, store
      <3>2. ASSUME NEW u \in Handler, At(u, "version")', NEW v \in versions
            PROVE  v.rev < req'[u].rev
        <4>1. u = t /\ req \in [Handler -> Requests]
          BY DEF OneCall, TypeInv, Callers
        <4>2. ~Goto(t, "update")
          BY <3>2, <4>1 DEF Goto, At, Requests
        <4>3. PICK newest \in 0 .. MaxRev :
                /\ Newest(newest)
                /\ req' = [req EXCEPT ![t].step = "version", ![t].old = rec.content,
                                      ![t].rev = newest + 1]
          BY <2>1, <4>2 DEF Snapshot, Suffer
        <4>4. req'[t].rev = newest + 1
          BY <4>1, <4>3 DEF Requests
        <4>5. v.rev \in Nat /\ v.rev <= newest
          BY <4>3 DEF Newest, TypeInv, Version
        <4> QED BY <4>1, <4>4, <4>5, CountAssumption
      <3> QED BY <3>1, <3>2 DEF RevisionsApart
    <2>2. CASE AddVersion(t)
      <3> DEFINE n == [rev |-> req[t].rev, content |-> req[t].old]
      <3>1. versions' \subseteq versions \cup {n}
        BY <2>2 DEF AddVersion, Pruned
      <3>2. \A v \in versions : v.rev < n.rev /\ v.rev \in Nat
        BY <2>2 DEF AddVersion, RevisionsApart, TypeInv, Version
      <3>3. \A v, w \in versions' : v.rev = w.rev => v = w
        <4> HIDE DEF n
        <4>1. n.rev \in Nat
          BY DEF n, TypeInv, Callers, Requests
        <4> QED BY <3>1, <3>2, <4>1 DEF RevisionsApart
      <3>4. \A u \in Handler : ~At(u, "version")'
        <4>1. ~Snapshot(t)
          BY <2>2 DEF AddVersion, Snapshot, At
        <4> QED BY <1>2, <4>1, OnlySnapshot
      <3> QED BY <3>3, <3>4 DEF RevisionsApart
    <2>3. CASE ~Snapshot(t) /\ ~AddVersion(t)
      BY <1>2, <2>3, OnlySnapshot, HistoryStays DEF RevisionsApart
    <2> QED BY <2>1, <2>2, <2>3
  <1>3. CASE \/ \E d \in Deployment : JobStep(d)
             \/ \E h \in Host : WriteData(h)
    BY <1>3, OthersStay DEF RevisionsApart, At
  <1>4. CASE Crash
    BY <1>4, OthersStay DEF RevisionsApart, At, NoRequest
  <1>5. CASE UNCHANGED vars
    BY <1>5 DEF vars, RevisionsApart, At
  <1> QED BY <1>1, <1>2, <1>3, <1>4, <1>5 DEF Next

\* So it stays as long as every listing of the versions succeeds.
LEMMA ApartAlways ==
  ASSUME OneCall PROVE Spec => []("blind" \notin mishaps => RevisionsApart)
  <1>1. Init => RevisionsApart
    BY DEF Init, RevisionsApart, At, NoRequest
  <1>2. TypeInv /\ ("blind" \notin mishaps => RevisionsApart) /\ [Next]_vars
        => ("blind" \notin mishaps => RevisionsApart)'
    BY ApartStep, MishapsGrow
  <1> QED BY <1>1, <1>2, ShapeKept, PTL DEF Spec

\* Saves and restores served one at a time never give two snapshots of a stack
\* the same revision, for any retention and any number of revisions, through
\* pruning, failed writes and restarts, as long as the versions can be listed
\* (snapshotIfChanged of biz/compose_stack_version.go).
THEOREM SnapshotsNumbered ==
  ASSUME OneCall PROVE Spec => []RevisionsUnique
  <1>1. ("blind" \notin mishaps => RevisionsApart) => RevisionsUnique
    BY DEF RevisionsApart, RevisionsUnique
  <1> QED BY <1>1, ApartAlways, PTL

Kept(vs, c) == \E v \in vs : v.content = c /\ \A w \in vs : w.rev <= v.rev

\* What r may overwrite in k is in hand, then in the history.
Undoable(r, k, vs) ==
  r.alive =>
    /\ r.step = "version" => r.old = k.content
    /\ r.step = "update" => r.stack.content = k.content \/ Kept(vs, k.content)
    /\ r.op = "migrate" => r.stack.content = k.content

Recorded ==
  \A t \in Handler : /\ Undoable(req[t], rec, versions)
                     /\ At(t, "flip") => req[t].op = "migrate"

\* What counts with calls served one at a time is what the one who acts does.
LEMMA RecordedIf ==
  ASSUME OneCall, TypeInv, NEW t \in Handler, NEW r, req' = [req EXCEPT ![t] = r],
         Undoable(r, rec', versions'), r.step = "flip" => r.op = "migrate"
  PROVE  Recorded'
  BY DEF Recorded, At, OneCall, TypeInv, Callers

\* Nothing is asked of a request that is over.
LEMMA DoneRecorded ==
  ASSUME OneCall, TypeInv, NEW t \in Handler, Done(t)
  PROVE  Recorded'
  <1>1. Undoable(NoRequest, rec', versions') /\ NoRequest.step = "idle"
    BY DEF Undoable, NoRequest
  <1> QED BY <1>1, RecordedIf DEF Done

\* Little is asked of one at another step, if the content stays as it is.
LEMMA GotoRecorded ==
  ASSUME OneCall, TypeInv, Recorded, NEW t \in Handler,
         NEW s \in HandlerSteps \ {"version", "update"}, Goto(t, s),
         s = "flip" => req[t].op = "migrate", rec'.content = rec.content
  PROVE  Recorded'
  <1> DEFINE r == [req[t] EXCEPT !.step = s]
  <1>1. req[t] \in Requests /\ Undoable(req[t], rec, versions)
    BY DEF TypeInv, Callers, Recorded
  <1>2. Undoable(r, rec', versions') /\ r.step = s /\ r.op = req[t].op
    BY <1>1 DEF Undoable, Requests
  <1>3. req' = [req EXCEPT ![t] = r]
    BY DEF Goto
  <1> HIDE DEF r
  <1> QED BY <1>2, <1>3, RecordedIf

\* A status write changes no content.
LEMMA StatusKeepsContent ==
  ASSUME TypeInv, NEW w, w.alive => rec # NoStack, NEW s, ComposeStackUpdateStatus(w, s)
  PROVE  rec'.content = rec.content /\ (rec = NoStack => rec' = NoStack)
  BY DEF ComposeStackUpdateStatus, TypeInv, Stack

\* The snapshot AddVersion stores is the newest, and outlives its own pruning.
LEMMA NewestOutlives ==
  ASSUME TypeInv, NEW n \in Version, \A v \in versions : v.rev < n.rev
  PROVE  Kept(Pruned(versions \cup {n}), n.content)
  <1> DEFINE vs == versions \cup {n}
  <1>1. \A w \in vs : w.rev \in Nat /\ w.rev <= n.rev
    BY DEF TypeInv, Version
  <1>2. {w \in vs : w.rev > n.rev} = {}
    BY <1>1 DEF Version
  <1>3. Cardinality({w \in vs : w.rev > n.rev}) = 0
    BY <1>2, FS_EmptySet, Zenon
  <1>4. n \in Pruned(vs)
    BY <1>3, CountAssumption DEF Pruned
  <1>5. Pruned(vs) \subseteq vs
    BY DEF Pruned
  <1> QED BY <1>1, <1>4, <1>5 DEF Kept

\* Saving takes the snapshot before it overwrites.
LEMMA SaveStepRecorded ==
  ASSUME OneCall, TypeInv, RevisionsApart, Recorded, NEW t \in Handler,
         mishaps' \cap {"noVersion", "blind"} = {},
         Snapshot(t) \/ AddVersion(t) \/ Update(t) \/ Client(t) \/ MarkDeploying(t) \/ Spawn(t)
  PROVE  Recorded'
  <1>0. req[t].step # "idle"
    BY DEF Snapshot, AddVersion, Update, Client, MarkDeploying, Spawn, At
  <1>1. /\ req[t] \in Requests /\ CallShape(req[t]) /\ Undoable(req[t], rec, versions)
        /\ req[t].alive => rec \in Stack /\ rec # NoStack
    BY <1>0, Serving DEF Recorded
  <1>2. CASE Snapshot(t)
    <2>1. UNCHANGED <<rec, versions>>
      BY <1>2 DEF Snapshot, store
    <2>2. CASE ~req[t].alive \/ rec.content = req[t].stack.content
      <3> DEFINE r == [req[t] EXCEPT !.step = "update"]
      <3>1. req' = [req EXCEPT ![t] = r]
        BY <1>2, <2>2 DEF Snapshot, Goto
      <3>2. Undoable(r, rec', versions') /\ r.step # "flip"
        BY <1>1, <2>1, <2>2 DEF Undoable, Requests
      <3> HIDE DEF r
      <3> QED BY <3>1, <3>2, RecordedIf
    <2>3. CASE ~(~req[t].alive \/ rec.content = req[t].stack.content)
      <3>1. PICK n : req' = [req EXCEPT ![t].step = "version", ![t].old = rec.content,
                                        ![t].rev = n]
        BY <1>2, <2>3 DEF Snapshot
      <3> DEFINE r == [req[t] EXCEPT !.step = "version", !.old = rec.content, !.rev = n]
      <3>2. req' = [req EXCEPT ![t] = r]
        BY <3>1
      <3>3. Undoable(r, rec', versions') /\ r.step # "flip"
        BY <1>1, <2>1 DEF Undoable, Requests
      <3> HIDE DEF r
      <3> QED BY <3>2, <3>3, RecordedIf
    <2> QED BY <2>2, <2>3
  <1>3. CASE AddVersion(t)
    <2> DEFINE n == [rev |-> req[t].rev, content |-> req[t].old]
               r == [req[t] EXCEPT !.step = "update"]
    <2>1. versions' = Pruned(versions \cup {n}) /\ UNCHANGED rec
      BY <1>3 DEF AddVersion, Suffer
    <2>2. n \in Version /\ \A v \in versions : v.rev < n.rev
      <3>1. req[t].rev \in 0 .. MaxRev + 1 /\ req[t].rev <= MaxRev
        BY <1>1, <1>3 DEF AddVersion, Requests
      <3>2. req[t].rev # 0 /\ req[t].old \in Content
        BY <1>1, <1>3 DEF AddVersion, At, CallShape
      <3> QED BY <1>3, <3>1, <3>2, CountAssumption DEF Version, AddVersion, RevisionsApart
    <2>3. Kept(versions', n.content)
      <3> HIDE DEF n
      <3> QED BY <2>1, <2>2, NewestOutlives
    <2>4. req[t].alive => n.content = rec.content
      BY <1>1, <1>3 DEF AddVersion, At, Undoable
    <2>5. req' = [req EXCEPT ![t] = r]
      BY <1>3 DEF AddVersion, Goto
    <2> HIDE DEF n
    <2>6. Undoable(r, rec', versions') /\ r.step # "flip"
      BY <1>1, <2>1, <2>3, <2>4 DEF Undoable, Requests
    <2> HIDE DEF r
    <2> QED BY <2>5, <2>6, RecordedIf
  <1>4. CASE Update(t)
    <2>1. CASE Done(t)
      BY <2>1, DoneRecorded
    <2>2. CASE Goto(t, "client") /\ req[t].op = "deploy"
      <3> DEFINE r == [req[t] EXCEPT !.step = "client"]
      <3>1. req' = [req EXCEPT ![t] = r]
        BY <2>2 DEF Goto
      <3>2. Undoable(r, rec', versions') /\ r.step # "flip"
        BY <1>1, <2>2 DEF Undoable, Requests
      <3> HIDE DEF r
      <3> QED BY <3>1, <3>2, RecordedIf
    <2>3. CASE Goto(t, "client") /\ req[t].op # "deploy"
      BY <1>4, <2>1, <2>3 DEF Update
    <2> QED BY <1>4, <2>1, <2>2, <2>3 DEF Update
  <1>5. \A s : ComposeStackUpdateStatus(req[t], s) => rec'.content = rec.content
    BY <1>1, StatusKeepsContent
  <1>6. {"mark", "hook"} \subseteq HandlerSteps \ {"version", "update"}
    BY DEF HandlerSteps
  <1>7. CASE Client(t)
    <2>1. rec'.content = rec.content /\ (Goto(t, "mark") \/ Done(t))
      BY <1>5, <1>7 DEF Client
    <2> QED BY <1>6, <2>1, GotoRecorded, DoneRecorded
  <1>8. CASE MarkDeploying(t)
    <2>1. rec'.content = rec.content /\ Goto(t, "hook")
      BY <1>5, <1>8 DEF MarkDeploying
    <2> QED BY <1>6, <2>1, GotoRecorded
  <1>9. CASE Spawn(t)
    BY <1>9, DoneRecorded DEF Spawn
  <1> QED BY <1>2, <1>3, <1>4, <1>7, <1>8, <1>9

\* Start, Stop, Remove and Migrate overwrite no content.
LEMMA EngineStepRecorded ==
  ASSUME OneCall, TypeInv, Recorded, NEW t \in Handler,
         \/ ListForStart(t) \/ EngineStart(t) \/ SetStatus(t) \/ Guard(t)
         \/ CannotList(t) \/ Teardown(t) \/ Drop(t) \/ Flip(t)
  PROVE  Recorded'
  <1>0. req[t].step # "idle"
    BY DEF ListForStart, EngineStart, SetStatus, Guard, CannotList, Teardown, Drop, Flip, At
  <1>1. /\ req[t] \in Requests /\ CallShape(req[t]) /\ Undoable(req[t], rec, versions)
        /\ req[t].alive => rec \in Stack /\ rec # NoStack
    BY <1>0, Serving DEF Recorded
  <1>2. {"status", "teardown", "drop", "flip"} \subseteq HandlerSteps \ {"version", "update"}
    BY DEF HandlerSteps
  <1>3. CASE ListForStart(t)
    <2> DEFINE deployed == [req[t] EXCEPT !.op = "deploy", !.step = "snapshot"]
               started == [req[t] EXCEPT !.step = "start"]
    <2>1. req' = [req EXCEPT ![t] = deployed] \/ req' = [req EXCEPT ![t] = started]
      BY <1>3 DEF ListForStart
    <2>2. UNCHANGED <<rec, versions>>
      BY <1>3 DEF ListForStart, store
    <2>3. /\ Undoable(deployed, rec', versions') /\ Undoable(started, rec', versions')
          /\ deployed.step # "flip" /\ started.step # "flip"
      BY <1>1, <2>2 DEF Undoable, Requests
    <2> HIDE DEF deployed, started
    <2> QED BY <2>1, <2>3, RecordedIf
  <1>4. CASE EngineStart(t)
    BY <1>2, <1>4, GotoRecorded, DoneRecorded DEF EngineStart, store
  <1>5. CASE SetStatus(t)
    BY <1>5, DoneRecorded DEF SetStatus
  <1>6. CASE Guard(t)
    BY <1>2, <1>6, GotoRecorded, DoneRecorded DEF Guard, store
  <1>7. AfterTeardown(t) /\ UNCHANGED rec => Recorded'
    <2>1. AfterTeardown(t) => Done(t) \/ Goto(t, "status") \/ Goto(t, "drop")
                              \/ (Goto(t, "flip") /\ req[t].op = "migrate")
      BY DEF AfterTeardown, NextOf
    <2> QED BY <1>2, <2>1, GotoRecorded, DoneRecorded
  <1>8. CASE CannotList(t) \/ Teardown(t)
    BY <1>7, <1>8, DoneRecorded DEF CannotList, Teardown, RemoveError, store
  <1>9. CASE Drop(t)
    <2>1. \A u \in Handler : req'[u] = NoRequest
      BY <1>9 DEF Drop, OneCall
    <2> QED BY <2>1 DEF Recorded, Undoable, At, NoRequest
  <1>10. CASE Flip(t)
    <2> DEFINE k == [req[t].stack EXCEPT !.status = "inactive"]
               q == Request("deploy", "snapshot", k, k.host)
               r == [q EXCEPT !.alive = req[t].alive]
    <2>1. Done(t) \/ req' = [req EXCEPT ![t] = r]
      BY <1>10 DEF Flip
    <2>2. r.op = "deploy" /\ r.step = "snapshot"
      BY DEF Request, NoRequest
    <2> HIDE DEF r
    <2>3. Undoable(r, rec', versions')
      BY <2>2 DEF Undoable
    <2> QED BY <2>1, <2>2, <2>3, DoneRecorded, RecordedIf
  <1> QED BY <1>3, <1>4, <1>5, <1>6, <1>8, <1>9, <1>10

\* Whatever happens, what may be overwritten stays in hand or in the history.
LEMMA RecordedStep ==
  ASSUME OneCall, TypeInv, RevisionsApart, Recorded, [Next]_vars,
         mishaps' \cap {"noVersion", "blind"} = {}
  PROVE  Recorded'
  <1>1. ASSUME NEW t \in Handler, Call(t)
        PROVE  Recorded'
    <2>1. PICK r : /\ req' = [req EXCEPT ![t] = r] /\ versions' = versions
                   /\ Creates(r) \/ (UNCHANGED rec /\ Fresh(r, rec, there))
      BY <1>1, CallArrives DEF Begins, Arrive
    <2>2. Undoable(r, rec', versions') /\ r.step # "flip"
      BY <2>1 DEF Undoable, Creates, Fresh, NoRequest
    <2> QED BY <2>1, <2>2, RecordedIf
  <1>2. ASSUME NEW t \in Handler, HandlerStep(t)
        PROVE  Recorded'
    BY <1>2, SaveStepRecorded, EngineStepRecorded DEF HandlerStep
  <1>3. ASSUME NEW d \in Deployment, JobStep(d)
        PROVE  Recorded'
    <2>1. rec'.content = rec.content
      <3>1. CASE Report(d)
        <4>1. job[d].alive => rec # NoStack
          BY DEF TypeInv, Deploys
        <4> QED BY <3>1, <4>1, StatusKeepsContent DEF Report
      <3>2. CASE UNCHANGED rec
        BY <3>2
      <3> QED BY <1>3, <3>1, <3>2
            DEF JobStep, Preflight, TearDownOld, Prepare, CreateNext, store
    <2>2. UNCHANGED <<req, versions>>
      BY <1>3, OthersStay
    <2> QED BY <2>1, <2>2 DEF Recorded, Undoable, At
  <1>4. CASE \E h \in Host : WriteData(h)
    BY <1>4, OthersStay DEF Recorded, At
  <1>5. CASE Crash
    BY <1>5, OthersStay DEF Recorded, Undoable, At, NoRequest
  <1>6. CASE UNCHANGED vars
    BY <1>6 DEF vars, Recorded, At
  <1> QED BY <1>1, <1>2, <1>3, <1>4, <1>5, <1>6 DEF Next

\* Which step changes the content of a record, and how.
LEMMA Overwriting ==
  ASSUME TypeInv, Recorded, [Next]_vars, rec # NoStack, rec' # NoStack,
         rec'.content # rec.content
  PROVE  Kept(versions, rec.content)
  <1>1. ASSUME NEW t \in Handler, Call(t)
        PROVE  FALSE
    BY <1>1, CallArrives DEF Begins, Creates
  <1>2. ASSUME NEW t \in Handler, HandlerStep(t)
        PROVE  Kept(versions, rec.content)
    <2>0. Undoable(req[t], rec, versions) /\ (At(t, "flip") => req[t].op = "migrate")
      BY DEF Recorded
    <2>1. CASE Update(t)
      <3>1. req[t].step = "update" /\ req[t].alive
        BY <2>1 DEF Update, At
      <3>2. req[t].op \notin External
        BY <3>1, Serving DEF CallShape
      <3>3. req[t].stack \in [host : Host, content : Content, status : Status \cup {"keep"}]
        BY <3>1, <3>2, Serving
      <3>4. PICK s : rec' = [req[t].stack EXCEPT !.status = s]
        BY <2>1, <3>1 DEF Update
      <3>5. rec'.content = req[t].stack.content
        BY <3>3, <3>4
      <3> QED BY <2>0, <3>1, <3>5 DEF Undoable
    <2>2. CASE Flip(t)
      <3>1. req[t].step = "flip" /\ req[t].alive /\ req[t].op = "migrate"
            /\ rec' = [req[t].stack EXCEPT !.status = "inactive"]
        BY <2>0, <2>2 DEF Flip, At
      <3>2. req[t].stack \in [host : Host, content : Content, status : Status \cup {"keep"}]
        BY <3>1, Serving DEF External
      <3>3. rec'.content = req[t].stack.content
        BY <3>1, <3>2
      <3> QED BY <2>0, <3>1, <3>3 DEF Undoable
    <2>3. CASE Client(t) \/ MarkDeploying(t) \/ Spawn(t) \/ SetStatus(t)
      <3>1. req[t].alive => rec # NoStack
        BY DEF TypeInv, Callers
      <3>2. rec' = rec \/ \E s : ComposeStackUpdateStatus(req[t], s)
        BY <2>3 DEF Client, MarkDeploying, Spawn, SetStatus
      <3> QED BY <3>1, <3>2, StatusKeepsContent
    <2>4. CASE Drop(t)
      BY <2>4 DEF Drop
    <2>5. CASE Snapshot(t) \/ AddVersion(t) \/ ListForStart(t) \/ EngineStart(t)
               \/ Guard(t) \/ CannotList(t) \/ Teardown(t)
      BY <2>5 DEF Snapshot, AddVersion, ListForStart, EngineStart, Guard, CannotList, Teardown, store
    <2> QED BY <1>2, <2>1, <2>2, <2>3, <2>4, <2>5 DEF HandlerStep
  <1>3. ASSUME NEW d \in Deployment, JobStep(d)
        PROVE  FALSE
    <2>1. CASE Report(d)
      <3>1. job[d].alive => rec # NoStack
        BY DEF TypeInv, Deploys
      <3> QED BY <2>1, <3>1, StatusKeepsContent DEF Report
    <2> QED BY <1>3, <2>1 DEF JobStep, Preflight, TearDownOld, Prepare, CreateNext, store
  <1>4. CASE Crash \/ \E h \in Host : WriteData(h)
    BY <1>4, OthersStay
  <1>5. CASE UNCHANGED vars
    BY <1>5 DEF vars
  <1> QED BY <1>1, <1>2, <1>3, <1>4, <1>5 DEF Next

\* Every save, every restore of an old version and every migration, served one
\* at a time, either leaves the authored content alone or finds what it
\* overwrites stored as the newest snapshot, for any contents and any
\* retention, unless storing or listing snapshots failed (Save, Deploy, Restore
\* and Migrate of biz/compose_stack.go over snapshotIfChanged).
THEOREM OverwritesCanBeUndone ==
  ASSUME OneCall PROVE Spec => HistoryKeepsOverwritten
  <1> DEFINE Readable == mishaps \cap {"noVersion", "blind"} = {}
             A == (/\ rec # NoStack /\ rec' # NoStack
                   /\ rec'.content # rec.content
                   /\ mishaps \cap {"noVersion", "blind"} = {})
                  => \E v \in versions : v.content = rec.content /\ Newest(v.rev)
  <1>1. Init => (Readable => Recorded)
    BY DEF Init, Recorded, Undoable, At, NoRequest
  <1>2. TypeInv /\ ("blind" \notin mishaps => RevisionsApart) /\ (Readable => Recorded)
        /\ [Next]_vars => (Readable => Recorded)'
    BY RecordedStep, MishapsGrow
  <1>3. TypeInv /\ (Readable => Recorded) /\ [Next]_vars => [A]_vars
    <2> SUFFICES ASSUME TypeInv, Readable => Recorded, [Next]_vars,
                        rec # NoStack, rec' # NoStack, rec'.content # rec.content, Readable
                 PROVE  \E v \in versions : v.content = rec.content /\ Newest(v.rev)
      BY DEF Readable
    <2>1. Kept(versions, rec.content)
      BY Overwriting
    <2> QED BY <2>1 DEF Kept, Newest
  <1> HIDE DEF Readable
  <1>4. Spec => [](Readable => Recorded)
    BY <1>1, <1>2, ApartAlways, ShapeKept, PTL DEF Spec
  <1>5. Spec => [][A]_vars
    BY <1>3, <1>4, ShapeKept, PTL DEF Spec
  <1> QED BY <1>5 DEF HistoryKeepsOverwritten

-----------------------------------------------------------------------------
(* What a status says, while nothing but daemon calls fails.  k is the      *)
(* record, th and ru the containers there and running, o the hosts with     *)
(* containers of ours.                                                      *)

Running(h, th, ru) == th[h] # {} /\ ru[h] = th[h]

\* only the stack's own host may have containers that do not run
Even(k, th, ru) ==
  \A h \in Host : ru[h] \subseteq th[h] /\ (h # k.host => ru[h] = th[h])

Truth(k, th, ru, o) ==
  /\ k.status = "active" => Running(k.host, th, ru)
  /\ k.status = "inactive" => k.host \notin o

CallTrue(r, k, th, ru, o) ==
  /\ r.op \in External => r.host # k.host
  /\ r.op = "migrate" => k.status = "inactive"
  /\ r.step = "flip" => r.op = "migrate"
  /\ r.step = "guard" => r.op \in {"remove", "removeExternal"}
  /\ r.step = "teardown" => r.op \in External \cup {"stop", "remove", "migrate"}
  /\ r.step \in {"list", "snapshot", "version", "update"} => r.stack.status \in {"keep", k.status}
  /\ r.step = "hook" => k.status = "deploying"
  /\ r.step = "start" => th[r.host] # {}
  /\ r.step = "status" => IF r.op = "start" THEN Running(r.host, th, ru) ELSE r.host \notin o
  /\ r.step \in {"drop", "flip"} => th[r.host] = {}

JobTrue(w, k, th, ru) ==
  /\ w.step # "free" => k.status = "deploying"
  /\ w.step \in {"prepare", "create"} => ru[w.host] = th[w.host]
  /\ w.step = "ok" => Running(w.host, th, ru)

\* between the engine call and the write that follows it a status may be wrong
Told ==
  /\ Even(rec, there, runs)
  /\ (\A t \in Handler : req[t].step \notin {"status", "drop"}) => Truth(rec, there, runs, ours)
  /\ \A t \in Handler : CallTrue(req[t], rec, there, runs, ours)
  /\ \A d \in Deployment : JobTrue(job[d], rec, there, runs)

\* What the one call that acts leaves behind, no deploy being in flight.
LEMMA ToldIf ==
  ASSUME OneCall, TypeInv, ~InFlight, NEW t \in Handler, NEW r, req' = [req EXCEPT ![t] = r],
         UNCHANGED job, Even(rec', there', runs'),
         r.step \notin {"status", "drop"} => Truth(rec', there', runs', ours'),
         CallTrue(r, rec', there', runs', ours')
  PROVE  Told'
  <1>1. \A u \in Handler : req'[u] = r
    BY DEF OneCall, TypeInv, Callers
  <1>2. \A d \in Deployment : job'[d].step = "free"
    BY DEF InFlight, Busy
  <1>3. \A d \in Deployment : JobTrue(job'[d], rec', there', runs')
    BY <1>2 DEF JobTrue
  <1> QED BY <1>1, <1>3 DEF Told

\* Nothing is said of no request.
LEMMA NoCallTrue == \A k, th, ru, o : CallTrue(NoRequest, k, th, ru, o) /\ NoRequest.step = "idle"
  BY DEF CallTrue, NoRequest, External

\* A call that ends.
LEMMA DoneTold ==
  ASSUME OneCall, TypeInv, ~InFlight, NEW t \in Handler, Done(t),
         UNCHANGED job, Even(rec', there', runs'), Truth(rec', there', runs', ours')
  PROVE  Told'
  BY NoCallTrue, ToldIf DEF Done

\* A call that goes on.
LEMMA GotoTold ==
  ASSUME OneCall, TypeInv, ~InFlight, NEW t \in Handler, NEW s \in HandlerSteps, Goto(t, s),
         UNCHANGED job, Even(rec', there', runs'),
         s \notin {"status", "drop"} => Truth(rec', there', runs', ours'),
         CallTrue([req[t] EXCEPT !.step = s], rec', there', runs', ours')
  PROVE  Told'
  <1> DEFINE r == [req[t] EXCEPT !.step = s]
  <1>1. req' = [req EXCEPT ![t] = r] /\ r.step = s
    BY DEF Goto, TypeInv, Callers, Requests
  <1> HIDE DEF r
  <1> QED BY <1>1, ToldIf DEF r

\* At rest what is told is the truth.
LEMMA ToldAtRest == Told /\ Quiet => Truth(rec, there, runs, ours)
  BY DEF Told, Quiet, NoRequest

\* What holds of a handler at work.
LEMMA AtWork ==
  ASSUME OneCall, TypeInv, Tracked, Told, NEW t \in Handler, req[t].step # "idle"
  PROVE  /\ ~InFlight
         /\ Even(rec, there, runs)
         /\ req[t].step \notin {"status", "drop"} => Truth(rec, there, runs, ours)
         /\ CallTrue(req[t], rec, there, runs, ours)
         /\ req[t] \in Requests /\ CallShape(req[t])
         /\ req[t].op # "none" /\ req[t].host \in Host
         /\ Managed(req[t]) => /\ req[t].alive /\ req[t].host = rec.host /\ rec \in Stack
                               /\ rec.host \in Host
                               /\ req[t].stack \in [host : Host, content : Content,
                                                    status : Status \cup {"keep"}]
  <1>1. ~InFlight /\ OnItsHost(req[t], rec, ours)
    BY DEF Tracked, NoRequest
  <1>2. /\ Even(rec, there, runs) /\ CallTrue(req[t], rec, there, runs, ours)
        /\ req[t].step \notin {"status", "drop"} => Truth(rec, there, runs, ours)
    BY DEF Told, OneCall
  <1> QED BY <1>1, <1>2, Serving DEF OnItsHost, Managed, Stack

\* A status write for a live record writes the status and nothing else.
LEMMA StatusWritten ==
  ASSUME rec \in Stack, NEW w, w.alive, NEW s \in Status, ComposeStackUpdateStatus(w, s)
  PROVE  rec'.status = s /\ rec'.host = rec.host
  BY DEF ComposeStackUpdateStatus, Stack

\* Whichever call arrives finds the truth and asks nothing untrue.
LEMMA CallTold ==
  ASSUME OneCall, TypeInv, Tracked, Told, NEW t \in Handler, Call(t), mishaps' = {}
  PROVE  Told'
  <1>1. PICK r : /\ Arrive(t, r) /\ UNCHANGED <<versions, there, runs, job>>
                 /\ Creates(r) \/ (UNCHANGED <<rec, ours>> /\ Fresh(r, rec, there))
    BY CallArrives DEF Begins
  <1>2. ~InFlight /\ req[t] = NoRequest /\ req' = [req EXCEPT ![t] = r]
    BY <1>1 DEF Arrive, Suffer
  <1>3. Even(rec, there, runs) /\ Truth(rec, there, runs, ours)
    BY <1>2 DEF Told, OneCall, NoRequest
  <1>4. CASE Creates(r)
    <2>1. rec.host \notin Host /\ ours = {}
      BY <1>4, HostAssumption, OursWithoutRecord DEF Creates, NoStack
    <2>2. \A h \in Host : runs[h] = there[h]
      BY <1>3, <2>1 DEF Even
    <2>3. rec'.host \in Host
      BY <1>4 DEF Creates, Stack
    <2>4. Even(rec', there', runs') /\ Truth(rec', there', runs', ours')
      BY <1>1, <1>4, <2>1, <2>2, <2>3 DEF Creates, Even, Truth, Running
    <2>5. CallTrue(r, rec', there', runs', ours')
      BY <1>4 DEF Creates, CallTrue, External, NoRequest
    <2> QED BY <1>1, <1>2, <2>4, <2>5, ToldIf
  <1>5. CASE UNCHANGED <<rec, ours>> /\ Fresh(r, rec, there)
    <2>1. CallTrue(r, rec', there', runs', ours')
      BY <1>1, <1>5 DEF Fresh, CallTrue
    <2> QED BY <1>1, <1>2, <1>3, <1>5, <2>1, ToldIf
  <1> QED BY <1>1, <1>4, <1>5

\* Saving leaves the status alone; Deploy marks the stack before it spawns.
LEMMA SaveStepTold ==
  ASSUME OneCall, TypeInv, Tracked, Told, NEW t \in Handler, mishaps' = {},
         Snapshot(t) \/ AddVersion(t) \/ Update(t) \/ Client(t) \/ MarkDeploying(t) \/ Spawn(t)
  PROVE  Told'
  <1> USE DEF store, daemon
  <1>0. req[t].step \in {"snapshot", "version", "update", "client", "mark", "hook"}
    BY DEF Snapshot, AddVersion, Update, Client, MarkDeploying, Spawn, At
  <1>1. /\ ~InFlight /\ Even(rec, there, runs) /\ Truth(rec, there, runs, ours)
        /\ CallTrue(req[t], rec, there, runs, ours)
        /\ req[t] \in Requests /\ CallShape(req[t])
    BY <1>0, AtWork
  <1>2. Managed(req[t])
    BY <1>0, <1>1, AtWork DEF CallShape, Managed
  <1>3. /\ req[t].alive /\ req[t].host = rec.host /\ rec \in Stack
        /\ req[t].stack \in [host : Host, content : Content, status : Status \cup {"keep"}]
    BY <1>0, <1>2, AtWork
  <1>4. req[t].op \notin External \cup {"migrate"} /\ req[t].stack.host = rec.host
    BY <1>0, <1>2 DEF Tracked, OnItsHost, Managed
  <1>5. {"update", "version", "client", "mark", "hook"} \subseteq HandlerSteps
    BY DEF HandlerSteps
  <1>6. CASE Snapshot(t)
    <2>1. UNCHANGED <<rec, there, runs, ours, job>>
      BY <1>6 DEF Snapshot
    <2>2. CASE Goto(t, "update")
      <3>1. CallTrue([req[t] EXCEPT !.step = "update"], rec', there', runs', ours')
        BY <1>1, <1>4, <1>6, <2>1 DEF CallTrue, Requests, Snapshot, At
      <3> QED BY <1>1, <1>5, <2>1, <2>2, <3>1, GotoTold
    <2>3. CASE ~Goto(t, "update")
      <3>1. PICK c, n : req' = [req EXCEPT ![t].step = "version", ![t].old = c, ![t].rev = n]
        BY <1>6, <2>3 DEF Snapshot
      <3> DEFINE r == [req[t] EXCEPT !.step = "version", !.old = c, !.rev = n]
      <3>2. req' = [req EXCEPT ![t] = r]
        BY <3>1
      <3>3. CallTrue(r, rec', there', runs', ours') /\ r.step = "version"
        BY <1>1, <1>4, <1>6, <2>1 DEF CallTrue, Requests, Snapshot, At
      <3> HIDE DEF r
      <3> QED BY <1>1, <2>1, <3>2, <3>3, ToldIf
    <2> QED BY <2>2, <2>3
  <1>7. CASE AddVersion(t)
    <2>1. UNCHANGED <<rec, there, runs, ours, job>> /\ Goto(t, "update")
      BY <1>7 DEF AddVersion
    <2>2. CallTrue([req[t] EXCEPT !.step = "update"], rec', there', runs', ours')
      BY <1>1, <1>4, <1>7, <2>1 DEF CallTrue, Requests, AddVersion, At
    <2> QED BY <1>1, <1>5, <2>1, <2>2, GotoTold
  <1>8. CASE Update(t)
    <2> DEFINE s == IF req[t].stack.status = "keep" THEN rec.status ELSE req[t].stack.status
    <2>1. rec' = [req[t].stack EXCEPT !.status = s] /\ UNCHANGED <<there, runs, ours, job>>
      BY <1>3, <1>8 DEF Update
    <2>2. s = rec.status
      BY <1>1, <1>8 DEF CallTrue, Update, At
    <2>3. rec'.status = rec.status /\ rec'.host = rec.host
      <3> HIDE DEF s
      <3> QED BY <1>3, <1>4, <2>1, <2>2
    <2>4. Even(rec', there', runs') /\ Truth(rec', there', runs', ours')
      BY <1>1, <2>1, <2>3 DEF Even, Truth
    <2>5. CallTrue([req[t] EXCEPT !.step = "client"], rec', there', runs', ours')
      BY <1>1, <1>4 DEF CallTrue, Requests
    <2>6. Goto(t, "client") \/ Done(t)
      BY <1>8 DEF Update
    <2> QED BY <1>1, <1>5, <2>1, <2>4, <2>5, <2>6, GotoTold, DoneTold
  \* the status writes of Deploy
  <1>9. ASSUME NEW s \in {"error", "deploying"}, ComposeStackUpdateStatus(req[t], s),
               UNCHANGED <<there, runs, ours>>
        PROVE  /\ rec'.status = s /\ Even(rec', there', runs')
               /\ Truth(rec', there', runs', ours')
    <2>1. rec'.status = s /\ rec'.host = rec.host
      BY <1>3, <1>9, StatusWritten DEF Status
    <2> QED BY <1>1, <1>9, <2>1 DEF Even, Truth
  <1>10. CASE Client(t)
    <2>1. UNCHANGED <<there, runs, ours, job>>
      BY <1>10 DEF Client
    <2>2. CASE Done(t) /\ (UNCHANGED rec \/ ComposeStackUpdateStatus(req[t], "error"))
      BY <1>1, <1>9, <2>1, <2>2, DoneTold
    <2>3. CASE Goto(t, "mark") /\ UNCHANGED rec
      <3>1. CallTrue([req[t] EXCEPT !.step = "mark"], rec', there', runs', ours')
        BY <1>1, <1>4 DEF CallTrue, Requests
      <3> QED BY <1>1, <1>5, <2>1, <2>3, <3>1, GotoTold
    <2> QED BY <1>10, <2>2, <2>3 DEF Client
  <1>11. CASE MarkDeploying(t)
    <2>1. UNCHANGED <<there, runs, ours, job>> /\ Goto(t, "hook")
      BY <1>11 DEF MarkDeploying
    <2>2. ComposeStackUpdateStatus(req[t], "deploying")
      BY <1>11 DEF MarkDeploying, Suffer
    <2>3. /\ rec'.status = "deploying" /\ Even(rec', there', runs')
          /\ Truth(rec', there', runs', ours')
      BY <1>9, <2>1, <2>2
    <2>4. CallTrue([req[t] EXCEPT !.step = "hook"], rec', there', runs', ours')
      BY <1>1, <1>4, <2>3 DEF CallTrue, Requests
    <2> QED BY <1>1, <1>5, <2>1, <2>3, <2>4, GotoTold
  <1>12. CASE Spawn(t)
    <2>1. UNCHANGED <<there, runs, ours>> /\ Done(t)
      BY <1>12 DEF Spawn
    <2>2. CASE ComposeStackUpdateStatus(req[t], "error") /\ UNCHANGED job
      BY <1>1, <1>9, <2>1, <2>2, DoneTold
    <2>3. CASE ~(ComposeStackUpdateStatus(req[t], "error") /\ UNCHANGED job)
      <3>1. UNCHANGED rec /\ rec.status = "deploying"
        BY <1>1, <1>12, <2>3 DEF Spawn, At, CallTrue
      <3>2. PICK d \in Deployment :
              job' = [job EXCEPT ![d] = [alive |-> req[t].alive, step |-> "preflight",
                                         host |-> req[t].stack.host, next |-> 1]]
        BY <1>12, <2>3 DEF Spawn
      <3>3. \A e \in Deployment : JobTrue(job'[e], rec', there', runs')
        <4>1. ASSUME NEW e \in Deployment
              PROVE  job'[e].step \in {"free", "preflight"}
          BY <1>1, <3>2 DEF InFlight, Busy, TypeInv, Deploys
        <4> QED BY <3>1, <4>1 DEF JobTrue
      <3>4. \A u \in Handler : req'[u] = NoRequest
        BY <2>1 DEF Done, OneCall, TypeInv, Callers
      <3> QED BY <1>1, <2>1, <3>1, <3>3, <3>4, NoCallTrue DEF Told
    <2> QED BY <2>2, <2>3
  <1> QED BY <1>6, <1>7, <1>8, <1>10, <1>11, <1>12

\* An engine call and the write that follows it: in between, the status may
\* be wrong; after the write it is not.
LEMMA EngineStepTold ==
  ASSUME OneCall, TypeInv, Tracked, Told, NEW t \in Handler, mishaps' = {},
         \/ ListForStart(t) \/ EngineStart(t) \/ SetStatus(t) \/ Guard(t)
         \/ CannotList(t) \/ Teardown(t) \/ Drop(t) \/ Flip(t)
  PROVE  Told'
  <1> USE DEF store, daemon
  <1>0. req[t].step # "idle"
    BY DEF ListForStart, EngineStart, SetStatus, Guard, CannotList, Teardown, Drop, Flip, At
  <1>1. /\ ~InFlight /\ Even(rec, there, runs)
        /\ req[t].step \notin {"status", "drop"} => Truth(rec, there, runs, ours)
        /\ CallTrue(req[t], rec, there, runs, ours)
        /\ req[t] \in Requests /\ CallShape(req[t]) /\ req[t].op # "none" /\ req[t].host \in Host
    BY <1>0, AtWork
  <1>2. Managed(req[t]) => /\ req[t].alive /\ req[t].host = rec.host /\ rec \in Stack
                           /\ rec.host \in Host
                           /\ req[t].stack \in [host : Host, content : Content,
                                                status : Status \cup {"keep"}]
    BY <1>0, AtWork
  <1>3. {"status", "teardown", "drop", "flip"} \subseteq HandlerSteps
    BY DEF HandlerSteps
  <1>4. there \in [Host -> SUBSET Service] /\ runs \in [Host -> SUBSET Service]
    BY DEF TypeInv, DaemonTyped
  <1>5. CASE ListForStart(t)
    <2> DEFINE deployed == [req[t] EXCEPT !.op = "deploy", !.step = "snapshot"]
               started == [req[t] EXCEPT !.step = "start"]
    <2>1. req' = IF there[req[t].host] = {} THEN [req EXCEPT ![t] = deployed]
                 ELSE [req EXCEPT ![t] = started]
      BY <1>5 DEF ListForStart, Suffer
    <2>2. UNCHANGED <<rec, there, runs, ours, job>> /\ req[t].step = "list" /\ req[t].op = "start"
      BY <1>1, <1>5 DEF ListForStart, At, CallShape
    <2>3. CallTrue(deployed, rec', there', runs', ours') /\ deployed.step = "snapshot"
      BY <1>1, <2>2 DEF CallTrue, Requests, External
    <2>4. there[req[t].host] # {} =>
            CallTrue(started, rec', there', runs', ours') /\ started.step = "start"
      BY <1>1, <2>2 DEF CallTrue, Requests, External
    <2> HIDE DEF deployed, started
    <2> QED BY <1>1, <2>1, <2>2, <2>3, <2>4, ToldIf
  <1>6. CASE EngineStart(t)
    <2> DEFINE h == req[t].host
    <2>1. PICK up \in SUBSET (there[h] \ runs[h]) : runs' = [runs EXCEPT ![h] = @ \cup up]
      BY <1>6 DEF EngineStart
    <2>2. UNCHANGED <<rec, there, ours, job>> /\ req[t].step = "start" /\ there[h] # {}
      BY <1>1, <1>6 DEF EngineStart, At, CallTrue
    <2>3. req[t].op \in {"start", "startExternal"}
      BY <1>1, <2>2 DEF CallShape
    <2>4. Even(rec', there', runs')
      <3>1. ASSUME NEW x \in Host
            PROVE  runs'[x] \subseteq there[x] /\ (x # rec.host => runs'[x] = there[x])
        <4>1. CASE x = h
          <5>1. runs'[x] = runs[h] \cup up /\ runs[h] \subseteq there[h]
                /\ (h # rec.host => runs[h] = there[h])
            BY <1>1, <1>4, <2>1, <4>1 DEF Even
          <5> QED BY <4>1, <5>1
        <4>2. CASE x # h
          BY <1>1, <1>4, <2>1, <4>2 DEF Even
        <4> QED BY <4>1, <4>2
      <3> QED BY <2>2, <3>1 DEF Even
    <2>5. Truth(rec', there', runs', ours')
      <3>1. rec.status = "active" /\ h = rec.host => up = {}
        BY <1>1, <2>2 DEF Truth, Running
      <3>2. rec.status = "active" => runs'[rec.host] = runs[rec.host]
        <4>1. rec.status = "active" => rec.host \in Host
          BY DEF TypeInv, Stack, NoStack
        <4> QED BY <1>4, <2>1, <3>1, <4>1
      <3> QED BY <1>1, <2>2, <3>2 DEF Truth, Running
    <2>6. CASE Done(t)
      BY <1>1, <2>2, <2>4, <2>5, <2>6, DoneTold
    <2>7. CASE ~Done(t)
      <3>1. Goto(t, "status") /\ req[t].op = "start" /\ runs' = [runs EXCEPT ![h] = there[h]]
        <4>1. Goto(t, "status") /\ req[t].op # "startExternal"
              /\ runs' = [runs EXCEPT ![h] = @ \cup (there[h] \ runs[h])]
          BY <1>6, <2>7 DEF EngineStart
        <4>2. runs[h] \cup (there[h] \ runs[h]) = there[h]
          BY <1>1 DEF Even
        <4> QED BY <2>3, <4>1, <4>2
      <3>2. Running(h, there', runs')
        BY <1>1, <1>4, <2>2, <3>1 DEF Running
      <3>3. CallTrue([req[t] EXCEPT !.step = "status"], rec', there', runs', ours')
        BY <1>1, <3>1, <3>2 DEF CallTrue, Requests, External
      <3> QED BY <1>1, <1>3, <2>2, <2>4, <3>1, <3>3, GotoTold
    <2> QED BY <2>6, <2>7
  <1>7. CASE SetStatus(t)
    <2>1. req[t].step = "status" /\ UNCHANGED <<there, runs, ours, job>> /\ Done(t)
      BY <1>7 DEF SetStatus, At
    <2>2. Managed(req[t])
      BY <1>1, <2>1 DEF CallShape, Managed
    <2> DEFINE s == IF req[t].op = "start" THEN "active" ELSE "inactive"
    <2>3. ComposeStackUpdateStatus(req[t], s) /\ s \in Status
      BY <1>7 DEF SetStatus, Suffer, Status
    <2>4. rec'.status = s /\ rec'.host = rec.host
      <3> HIDE DEF s
      <3> QED BY <1>2, <2>2, <2>3, StatusWritten
    <2>5. Even(rec', there', runs') /\ Truth(rec', there', runs', ours')
      BY <1>1, <1>2, <2>1, <2>2, <2>4 DEF Even, Truth, CallTrue
    <2> QED BY <1>1, <2>1, <2>5, DoneTold
  <1>8. CASE Guard(t)
    <2>1. UNCHANGED <<rec, there, runs, ours, job>> /\ (Done(t) \/ Goto(t, "teardown"))
          /\ req[t].step = "guard"
      BY <1>8 DEF Guard, At
    <2>2. CallTrue([req[t] EXCEPT !.step = "teardown"], rec', there', runs', ours')
      BY <1>1, <2>1 DEF CallTrue, Requests, External
    <2> QED BY <1>1, <1>3, <2>1, <2>2, GotoTold, DoneTold
  \* what is left to do after a teardown that found or left nothing
  <1>9. ASSUME req[t].step = "teardown", AfterTeardown(t), UNCHANGED <<rec, job>>,
               there'[req[t].host] = {}, req[t].host \notin ours', ours' \subseteq ours,
               Even(rec', there', runs'),
               \A h \in Host : h # req[t].host => there'[h] = there[h] /\ runs'[h] = runs[h]
        PROVE  Told'
    <2>1. req[t].op \in External \cup {"stop", "remove", "migrate"}
      BY <1>1, <1>9 DEF CallTrue
    <2>2. CASE req[t].op \in External
      <3>1. Done(t) /\ req[t].host # rec.host
        BY <1>1, <1>9, <2>2 DEF AfterTeardown, NextOf, CallTrue, External
      <3>2. Truth(rec', there', runs', ours')
        <4>1. rec.status = "active" => rec.host \in Host
          BY DEF TypeInv, Stack, NoStack
        <4> QED BY <1>1, <1>9, <3>1, <4>1 DEF Truth, Running
      <3> QED BY <1>1, <1>9, <3>1, <3>2, DoneTold
    <2>3. CASE req[t].op = "stop"
      <3>1. Goto(t, "status")
        BY <1>9, <2>3 DEF AfterTeardown, NextOf
      <3>2. CallTrue([req[t] EXCEPT !.step = "status"], rec', there', runs', ours')
        BY <1>1, <1>9, <2>3 DEF CallTrue, Requests, External
      <3> QED BY <1>1, <1>3, <1>9, <3>1, <3>2, GotoTold
    <2>4. CASE req[t].op = "remove"
      <3>1. Goto(t, "drop")
        BY <1>9, <2>4 DEF AfterTeardown, NextOf
      <3>2. CallTrue([req[t] EXCEPT !.step = "drop"], rec', there', runs', ours')
        BY <1>1, <1>9, <2>4 DEF CallTrue, Requests, External
      <3> QED BY <1>1, <1>3, <1>9, <3>1, <3>2, GotoTold
    <2>5. CASE req[t].op = "migrate"
      <3>1. Goto(t, "flip") /\ rec.status = "inactive"
        BY <1>1, <1>9, <2>5 DEF AfterTeardown, NextOf, CallTrue
      <3>2. CallTrue([req[t] EXCEPT !.step = "flip"], rec', there', runs', ours')
        BY <1>1, <1>9, <2>5 DEF CallTrue, Requests, External
      <3>3. Truth(rec', there', runs', ours')
        BY <1>1, <1>9, <3>1 DEF Truth
      <3> QED BY <1>1, <1>3, <1>9, <3>1, <3>2, <3>3, GotoTold
    <2> QED BY <2>1, <2>2, <2>3, <2>4, <2>5
  <1>10. CASE CannotList(t)
    <2>1. UNCHANGED <<rec, there, runs, ours, job>> /\ req[t].step = "teardown"
      BY <1>10 DEF CannotList, At
    <2>2. CASE Done(t)
      BY <1>1, <2>1, <2>2, DoneTold
    <2>3. CASE ~Done(t)
      <3>1. req[t].op = "migrate" /\ AfterTeardown(t)
        BY <1>10, <2>3 DEF CannotList, RemoveError
      <3>2. there[req[t].host] = {}
        BY <1>10, <3>1 DEF CannotList, Suffer
      <3>3. req[t].host \notin ours
        BY <3>2 DEF Tracked
      <3> QED BY <1>1, <1>9, <2>1, <3>1, <3>2, <3>3
    <2> QED BY <2>2, <2>3
  <1>11. CASE Teardown(t)
    <2> DEFINE h == req[t].host
    <2>1. /\ there' = [there EXCEPT ![h] = {}] /\ ours' = ours \ {h}
          /\ UNCHANGED <<rec, job>> /\ req[t].step = "teardown" /\ AfterTeardown(t)
      BY <1>11 DEF Teardown, Suffer, At
    <2>2. PICK up \in SUBSET ({} \cap runs[h]) : runs' = [runs EXCEPT ![h] = up]
      BY <1>11 DEF Teardown, Suffer
    <2>3. runs' = [runs EXCEPT ![h] = {}]
      BY <2>2
    <2>4. /\ there'[h] = {} /\ runs'[h] = {}
          /\ \A x \in Host : x # h => there'[x] = there[x] /\ runs'[x] = runs[x]
      BY <1>1, <1>4, <2>1, <2>3
    <2>5. Even(rec', there', runs')
      BY <1>1, <2>1, <2>4 DEF Even
    <2> HIDE DEF h
    <2>6. h \notin ours' /\ ours' \subseteq ours
      BY <2>1
    <2> QED BY <1>9, <2>1, <2>4, <2>5, <2>6 DEF h
  <1>12. CASE Drop(t)
    <2>1. req[t].step = "drop" /\ Managed(req[t]) /\ req[t].alive
      BY <1>1, <1>2, <1>12 DEF Drop, At, CallShape, Managed
    <2>2. rec' = NoStack /\ UNCHANGED <<there, runs, ours>>
      BY <1>12, <2>1 DEF Drop, Suffer
    <2>3. there[rec.host] = {} /\ rec.host \in Host
      BY <1>1, <1>2, <2>1 DEF CallTrue
    <2>4. Even(rec', there', runs') /\ Truth(rec', there', runs', ours')
      BY <1>1, <2>2, <2>3 DEF Even, Truth, NoStack
    <2>5. \A u \in Handler : req'[u] = NoRequest
      BY <1>12 DEF Drop, OneCall
    <2>6. ASSUME NEW d \in Deployment
          PROVE  JobTrue(job'[d], rec', there', runs')
      <3>1. job[d] \in Jobs /\ job[d].step = "free"
        BY <1>1 DEF TypeInv, Deploys, InFlight, Busy
      <3>2. PICK b : job'[d] = [job[d] EXCEPT !.alive = b]
        BY <1>12 DEF Drop
      <3>3. job'[d].step = "free"
        BY <3>1, <3>2 DEF Jobs
      <3> QED BY <3>3 DEF JobTrue
    <2> QED BY <2>4, <2>5, <2>6, NoCallTrue DEF Told
  <1>13. CASE Flip(t)
    <2> DEFINE k == [req[t].stack EXCEPT !.status = "inactive"]
               q == Request("deploy", "snapshot", k, k.host)
               r == [q EXCEPT !.alive = req[t].alive]
    <2>1. req[t].step = "flip" /\ req[t].op = "migrate" /\ UNCHANGED <<there, runs, ours, job>>
      BY <1>1, <1>13 DEF Flip, At, CallTrue
    <2>2. Managed(req[t]) /\ ours = {}
      BY <2>1 DEF Managed, External, Tracked, OnItsHost
    <2>3. there[rec.host] = {} /\ req[t].alive /\ rec.host \in Host
      BY <1>1, <1>2, <2>1, <2>2 DEF CallTrue
    <2>4. k \in Stack /\ k # NoStack /\ k.status = "inactive" /\ k.host \in Host
      <3>1. k \in Stack /\ k.status = "inactive"
        BY <1>2, <2>2 DEF Stack, Status
      <3> QED BY <3>1, RecordIsNotNone DEF Stack
    <2>5. rec' = rec \/ rec' = k
      BY <1>13 DEF Flip
    <2>6. Even(rec', there', runs') /\ Truth(rec', there', runs', ours')
      <3>1. \A h \in Host : runs[h] = there[h]
        BY <1>1, <2>3 DEF Even
      <3>2. CASE rec' = rec
        BY <1>1, <2>1, <3>2
      <3>3. CASE rec' = k
        <4> HIDE DEF k
        <4> QED BY <2>1, <2>2, <2>4, <3>1, <3>3 DEF Even, Truth
      <3> QED BY <2>5, <3>2, <3>3
    <2>7. CASE Done(t)
      BY <1>1, <2>1, <2>6, <2>7, DoneTold
    <2>8. CASE ~Done(t)
      <3>1. req' = [req EXCEPT ![t] = r] /\ rec' = k
        BY <1>13, <2>3, <2>8 DEF Flip
      <3>2. q \in Requests /\ q.op = "deploy" /\ q.step = "snapshot" /\ q.stack = k
        <4>1. "deploy" \in Ops \ {"none"} /\ "snapshot" \in HandlerSteps \ {"version"}
              /\ "deploy" \notin External
          BY DEF Ops, HandlerSteps, External
        <4>2. k \in Copy
          BY <2>4 DEF Stack, Copy
        <4> HIDE DEF k
        <4> QED BY <2>4, <4>1, <4>2, RequestTyped
      <3> HIDE DEF q, k
      <3>3. CallTrue(r, rec', there', runs', ours') /\ r.step = "snapshot"
        BY <2>4, <3>1, <3>2 DEF CallTrue, Requests, External
      <3> HIDE DEF r
      <3> QED BY <1>1, <2>1, <2>6, <3>1, <3>3, ToldIf
    <2> QED BY <2>7, <2>8
  <1> QED BY <1>5, <1>6, <1>7, <1>8, <1>10, <1>11, <1>12, <1>13

\* The deploy in flight, and only it, may leave containers that do not run,
\* while the status says "deploying"; its verdict is the truth.
LEMMA JobStepTold ==
  ASSUME TypeInv, Tracked, Told, NEW d \in Deployment, JobStep(d), mishaps' = {}
  PROVE  Told'
  <1> USE DEF store, daemon
  <1>0. Busy(d) /\ job[d].step # "free"
    BY DEF JobStep, Preflight, TearDownOld, Prepare, CreateNext, Report, OnJob, Busy
  <1>1. /\ job[d] \in Jobs /\ job[d].alive /\ job[d].host = rec.host /\ job[d].host \in Host
        /\ rec \in Stack
    BY <1>0 DEF TypeInv, Deploys, Tracked, JobShape
  <1>2. /\ \A e \in Deployment : e # d => job[e].step = "free"
        /\ \A t \in Handler : req[t] = NoRequest
    BY <1>0 DEF Tracked, InFlight, Busy
  <1>3. /\ Even(rec, there, runs) /\ Truth(rec, there, runs, ours)
        /\ rec.status = "deploying" /\ JobTrue(job[d], rec, there, runs)
    BY <1>0, <1>2 DEF Told, JobTrue, NoRequest
  <1>4. there \in [Host -> SUBSET Service] /\ runs \in [Host -> SUBSET Service]
    BY DEF TypeInv, DaemonTyped
  \* what the job's step leaves behind
  <1>5. ASSUME NEW w, job' = [job EXCEPT ![d] = w], UNCHANGED req,
               Even(rec', there', runs'), Truth(rec', there', runs', ours'),
               JobTrue(w, rec', there', runs')
        PROVE  Told'
    <2>1. job'[d] = w /\ \A e \in Deployment : e # d => job'[e].step = "free"
      BY <1>2, <1>5 DEF TypeInv, Deploys
    <2>2. \A e \in Deployment : JobTrue(job'[e], rec', there', runs')
      BY <1>5, <2>1 DEF JobTrue
    <2>3. \A t \in Handler : req'[t] = NoRequest
      BY <1>2, <1>5
    <2> QED BY <1>5, <2>2, <2>3, NoCallTrue DEF Told
  \* the status still being "deploying"
  <1>6. ASSUME NEW w, job' = [job EXCEPT ![d] = w], UNCHANGED <<rec, req>>,
               Even(rec, there', runs'), JobTrue(w, rec, there', runs')
        PROVE  Told'
    BY <1>3, <1>5, <1>6 DEF Truth
  <1>7. ASSUME NEW s, JobGoto(d, s)
        PROVE  /\ job' = [job EXCEPT ![d] = [job[d] EXCEPT !.step = s]]
               /\ [job[d] EXCEPT !.step = s].step = s
               /\ [job[d] EXCEPT !.step = s].host = job[d].host
    BY <1>1, <1>7 DEF JobGoto, Jobs
  <1>8. ASSUME NEW s \in {"bad", "teardown"}, JobGoto(d, s), UNCHANGED <<rec, req>>,
               Even(rec, there', runs')
        PROVE  Told'
    <2> DEFINE w == [job[d] EXCEPT !.step = s]
    <2>1. job' = [job EXCEPT ![d] = w] /\ w.step = s
      BY <1>7, <1>8
    <2> HIDE DEF w
    <2>2. JobTrue(w, rec, there', runs')
      BY <1>3, <1>8, <2>1 DEF JobTrue
    <2> QED BY <1>6, <1>8, <2>1, <2>2
  <1>9. ASSUME NEW s \in {"prepare", "create"}, JobGoto(d, s), UNCHANGED <<rec, req>>,
               Even(rec, there', runs'), runs'[rec.host] = there'[rec.host]
        PROVE  Told'
    <2> DEFINE w == [job[d] EXCEPT !.step = s]
    <2>1. job' = [job EXCEPT ![d] = w] /\ w.step = s /\ w.host = rec.host
      BY <1>1, <1>7, <1>9
    <2> HIDE DEF w
    <2>2. JobTrue(w, rec, there', runs')
      BY <1>3, <1>9, <2>1 DEF JobTrue
    <2> QED BY <1>6, <1>9, <2>1, <2>2
  <1>10. CASE Preflight(d)
    <2>1. PICK s \in {"bad", "teardown"} : JobGoto(d, s)
      BY <1>10 DEF Preflight
    <2> QED BY <1>3, <1>8, <1>10, <2>1 DEF Preflight
  <1>11. CASE TearDownOld(d)
    <2>1. PICK bad \in Fails, rest \in SUBSET there[rec.host] :
            \E up \in SUBSET (rest \cap runs[rec.host]) :
              /\ there' = [there EXCEPT ![rec.host] = rest]
              /\ runs' = [runs EXCEPT ![rec.host] = up]
              /\ ~bad => rest = {}
              /\ JobGoto(d, IF bad THEN "bad" ELSE "prepare")
      BY <1>1, <1>11 DEF TearDownOld
    <2>2. PICK up \in SUBSET (rest \cap runs[rec.host]) :
              /\ there' = [there EXCEPT ![rec.host] = rest]
              /\ runs' = [runs EXCEPT ![rec.host] = up]
              /\ ~bad => rest = {}
              /\ JobGoto(d, IF bad THEN "bad" ELSE "prepare")
      BY <2>1
    <2>3. /\ there'[rec.host] = rest /\ runs'[rec.host] = up
          /\ \A h \in Host : h # rec.host => there'[h] = there[h] /\ runs'[h] = runs[h]
      BY <1>1, <1>4, <2>2
    <2>4. Even(rec, there', runs')
      BY <1>3, <2>3 DEF Even
    <2>5. UNCHANGED <<rec, req>>
      BY <1>11 DEF TearDownOld
    <2>6. CASE bad
      BY <1>8, <2>2, <2>4, <2>5, <2>6
    <2>7. CASE ~bad
      <3>1. runs'[rec.host] = there'[rec.host]
        BY <2>2, <2>3, <2>7
      <3> QED BY <1>9, <2>2, <2>4, <2>5, <2>7, <3>1
    <2> QED BY <2>6, <2>7
  <1>12. CASE Prepare(d)
    <2>1. PICK s \in {"bad", "create"} : JobGoto(d, s)
      BY <1>12 DEF Prepare
    <2>2. UNCHANGED <<rec, req, there, runs>> /\ job[d].step = "prepare"
      BY <1>12 DEF Prepare, OnJob
    <2>3. runs[rec.host] = there[rec.host]
      BY <1>1, <1>3, <2>2 DEF JobTrue
    <2> QED BY <1>3, <1>8, <1>9, <2>1, <2>2, <2>3
  <1>13. CASE CreateNext(d)
    <2> DEFINE s == job[d].next
    <2>1. UNCHANGED <<rec, req>> /\ runs[rec.host] = there[rec.host]
      BY <1>1, <1>3, <1>13 DEF CreateNext, OnJob, JobTrue
    <2>2. CASE JobGoto(d, "bad") /\ UNCHANGED daemon
      BY <1>3, <1>8, <2>1, <2>2
    <2>3. ASSUME NEW run \in BOOLEAN,
                 there' = [there EXCEPT ![rec.host] = @ \cup {s}],
                 runs' = [runs EXCEPT ![rec.host] = IF run THEN @ \cup {s} ELSE @],
                 \/ JobGoto(d, "bad")
                 \/ run /\ job' = [job EXCEPT ![d].next = s + 1,
                                    ![d].step = IF s = Services THEN "ok" ELSE "create"]
          PROVE  Told'
      <3>1. /\ there'[rec.host] = there[rec.host] \cup {s}
            /\ runs'[rec.host] = IF run THEN runs[rec.host] \cup {s} ELSE runs[rec.host]
            /\ \A h \in Host : h # rec.host => there'[h] = there[h] /\ runs'[h] = runs[h]
        BY <1>1, <1>4, <2>3
      <3> HIDE DEF s
      <3>2. Even(rec, there', runs')
        BY <1>3, <3>1 DEF Even
      <3>3. CASE JobGoto(d, "bad")
        BY <1>8, <2>1, <3>2, <3>3
      <3>4. CASE ~JobGoto(d, "bad")
        <4> DEFINE z == IF s = Services THEN "ok" ELSE "create"
                   w == [job[d] EXCEPT !.next = s + 1, !.step = z]
        <4>1. run /\ job' = [job EXCEPT ![d].next = s + 1, ![d].step = z]
          BY <2>3, <3>4
        <4>2. Running(rec.host, there', runs')
          BY <2>1, <3>1, <4>1 DEF Running
        <4>3. z \in {"ok", "create"}
          OBVIOUS
        <4> HIDE DEF z
        <4>4. job' = [job EXCEPT ![d] = w] /\ w.step = z /\ w.host = rec.host
          BY <1>1, <4>1 DEF Jobs
        <4> HIDE DEF w
        <4>5. JobTrue(w, rec, there', runs')
          BY <1>3, <4>2, <4>3, <4>4 DEF JobTrue, Running
        <4> QED BY <1>6, <2>1, <3>2, <4>4, <4>5
      <3> QED BY <3>3, <3>4
    <2>4. PICK bad \in Fails :
            \/ JobGoto(d, "bad") /\ UNCHANGED daemon
            \/ /\ there' = [there EXCEPT ![rec.host] = @ \cup {s}]
               /\ runs' = [runs EXCEPT ![rec.host] = IF ~bad THEN @ \cup {s} ELSE @]
               /\ \/ JobGoto(d, "bad")
                  \/ /\ ~bad
                     /\ job' = [job EXCEPT ![d].next = s + 1,
                                          ![d].step = IF s = Services THEN "ok" ELSE "create"]
      BY <1>1, <1>13 DEF CreateNext
    <2>5. (~bad) \in BOOLEAN
      OBVIOUS
    <2> HIDE DEF s
    <2> QED BY <2>2, <2>3, <2>4, <2>5
  <1>14. CASE Report(d)
    <2>1. UNCHANGED <<there, runs, ours, req>> /\ job' = [job EXCEPT ![d] = NoJob]
          /\ ComposeStackUpdateStatus(job[d], Verdict(d))
      BY <1>14 DEF Report, Suffer
    <2>2. rec'.status = Verdict(d) /\ rec'.host = rec.host
      <3>1. Verdict(d) \in Status
        BY DEF Verdict, Status
      <3> QED BY <1>1, <2>1, <3>1, StatusWritten
    <2>3. Even(rec', there', runs') /\ Truth(rec', there', runs', ours')
      BY <1>1, <1>3, <2>1, <2>2 DEF Even, Truth, Verdict, OnJob, JobTrue
    <2>4. JobTrue(NoJob, rec', there', runs')
      BY DEF JobTrue, NoJob
    <2> QED BY <1>5, <2>1, <2>3, <2>4
  <1> QED BY <1>10, <1>11, <1>12, <1>13, <1>14 DEF JobStep

\* At rest a status can be believed, for any number of hosts and services: with
\* calls served one at a time and nothing failing but calls to the daemon (at
\* any point of a deploy, a start, a migration), "active" means that the
\* project has containers on the stack's host and all of them run, "inactive"
\* that none of Swirl's is there.  Import of a project that does not fully run
\* is excluded: it records "active" whatever it finds.
THEOREM StatusBelieved ==
  ASSUME OneCall, "importStopped" \notin Faults PROVE Spec => []StatusTruthful
  <1> DEFINE Unharmed == mishaps = {}
  <1>1. Init => Told
    <2> SUFFICES ASSUME Init PROVE Told
      OBVIOUS
    <2>1. runs = there /\ rec = NoStack
      BY DEF Init
    <2>2. Even(rec, there, runs) /\ Truth(rec, there, runs, ours)
      BY <2>1 DEF Even, Truth, NoStack
    <2>3. \A d \in Deployment : JobTrue(job[d], rec, there, runs)
      BY DEF Init, JobTrue, NoJob
    <2>4. \A t \in Handler : req[t] = NoRequest
      BY DEF Init
    <2> QED BY <2>2, <2>3, <2>4, NoCallTrue DEF Told
  <1>2. TypeInv /\ (Calm => Tracked) /\ (Unharmed => Told) /\ [Next]_vars => (Unharmed => Told)'
    <2> SUFFICES ASSUME TypeInv, Calm => Tracked, Unharmed => Told, [Next]_vars, mishaps' = {}
                 PROVE  Told'
      BY DEF Unharmed
    <2>1. Tracked /\ Told
      BY MishapsGrow DEF Calm
    <2>2. ASSUME NEW t \in Handler, Call(t) \/ HandlerStep(t)
          PROVE  Told'
      BY <2>1, <2>2, CallTold, SaveStepTold, EngineStepTold DEF HandlerStep
    <2>3. ASSUME NEW d \in Deployment, JobStep(d)
          PROVE  Told'
      BY <2>1, <2>3, JobStepTold
    <2>4. ASSUME NEW h \in Host, WriteData(h)
          PROVE  Told'
      BY <2>1, <2>4 DEF WriteData, store, Told
    <2>5. CASE Crash
      BY <2>5 DEF Crash, Suffer
    <2>6. CASE UNCHANGED vars
      BY <2>1, <2>6 DEF vars, Told
    <2> QED BY <2>2, <2>3, <2>4, <2>5, <2>6 DEF Next
  <1>3. (Unharmed => Told) => StatusTruthful
    BY ToldAtRest DEF StatusTruthful, Truth, Running
  <1> HIDE DEF Unharmed
  <1> QED BY <1>1, <1>2, <1>3, HostsTracked, ShapeKept, PTL DEF Spec

=============================================================================
