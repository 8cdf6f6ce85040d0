---------------------------- MODULE ComposeStack ----------------------------
(***************************************************************************)
(* The lifecycle of one managed Compose stack: biz/compose_stack.go,       *)
(* biz/compose_stack_version.go, the engine calls it makes                 *)
(* (docker/compose/standalone.go) and the record writes of                 *)
(* dao/bolt and dao/mongo.                                                 *)
(*                                                                         *)
(* A Handler is an API call being served; a Deployment is a runDeploy      *)
(* goroutine, detached from the call that spawned it.  One action is one   *)
(* access to the database or one engine call.  The stack has one id and    *)
(* one project name; an unmanaged project of that name may already run on  *)
(* any host.                                                               *)
(***************************************************************************)
EXTENDS Naturals, FiniteSets

CONSTANTS
  Host, NoHost,        \* Docker hosts
  Content, NoContent,  \* compose files (with their .env)
  Handler,             \* API calls served at the same time
  Deployment,          \* bound on the deploys in flight
  Services,            \* number of services, started in the order 1 .. Services
  Keep,                \* defaultStackVersionRetention
  MaxRev,              \* bound on the revisions of a stack
  UsageReported,       \* VolumeList fills in UsageData
  Faults,              \* what may go wrong, a subset of FaultKinds
  MaxMishaps           \* bound on the kinds of mishap in one behaviour

\* what a behaviour remembers having suffered
MishapKinds ==
  {"impatient",      \* a call arrives while a deploy is in flight
   "crash",          \* Swirl restarts with work in flight
   "lost",           \* a status write fails; its error is discarded
   "leak",           \* engine.Remove leaves a container and reports success
   "blind",          \* a listing that only feeds a check fails
   "undropped",      \* Remove cannot delete the record in the end
   "noVersion"}      \* storing a snapshot fails; its error is discarded
FaultKinds == MishapKinds \cup
  {"daemonFails",    \* any other call fails
   "importStopped"}  \* Import of a project that does not fully run

ASSUME HostAssumption == NoHost \notin Host
ASSUME ContentAssumption == NoContent \notin Content
ASSUME CountAssumption == Services \in Nat \ {0} /\ Keep \in Nat \ {0} /\ MaxRev \in Nat
ASSUME UsageAssumption == UsageReported \in BOOLEAN
ASSUME FaultsAssumption == Faults \subseteq FaultKinds /\ MaxMishaps \in Nat

VARIABLES
  rec,       \* the stack's record, or NoStack
  versions,  \* its snapshots
  there,     \* [Host -> services that have a container]
  runs,      \* [Host -> services whose container runs]
  vol,       \* [Host -> the project's volume: "foreign" if Swirl did not make it]
  job,       \* [Deployment -> what the runDeploy goroutine does next]
  req,       \* [Handler -> the call being served, or NoRequest]
  ours,      \* history: hosts with containers a deploy made or Import adopted
  mishaps    \* history: the mishaps so far

store == <<rec, versions>>
daemon == <<there, runs, vol, ours>>
vars == <<rec, versions, there, runs, vol, job, req, ours, mishaps>>

-----------------------------------------------------------------------------
Service == 1 .. Services
Status == {"inactive", "deploying", "active", "error"}
Stack == [host : Host, content : Content, status : Status]
NoStack == [host |-> NoHost, content |-> NoContent, status |-> "none"]
Version == [rev : 1 .. MaxRev, content : Content]

\* "keep": the caller sent no status, so an update leaves the stored one
Copy == [host : Host, content : Content, status : Status \cup {"keep"}] \cup {NoStack}
Ops == {"none", "save", "deploy", "start", "stop", "remove", "migrate",
        "startExternal", "stopExternal", "removeExternal"}
HandlerSteps == {"idle", "snapshot", "version", "update", "client", "mark", "hook",
                 "list", "start", "guard", "teardown", "status", "drop", "flip"}
\* alive: the record with the id it works for has not been removed since
NoRequest == [alive |-> FALSE, op |-> "none", step |-> "idle", stack |-> NoStack, host |-> NoHost,
              old |-> NoContent, rev |-> 0, volumes |-> FALSE, redeploy |-> FALSE]
Request(o, s, k, h) ==
  [NoRequest EXCEPT !.alive = (k # NoStack), !.op = o, !.step = s, !.stack = k, !.host = h]

Requests == [alive : BOOLEAN, op : Ops, step : HandlerSteps, stack : Copy,
             host : Host \cup {NoHost}, old : Content \cup {NoContent},
             rev : 0 .. MaxRev + 1, volumes : BOOLEAN, redeploy : BOOLEAN]

JobSteps == {"free", "preflight", "teardown", "prepare", "create", "ok", "bad"}
NoJob == [alive |-> FALSE, step |-> "free", host |-> NoHost, next |-> 1]

Jobs == [alive : BOOLEAN, step : JobSteps, host : Host \cup {NoHost},
         next : 1 .. Services + 1]

TypeOK ==
  /\ rec \in Stack \cup {NoStack}
  /\ versions \subseteq Version
  /\ there \in [Host -> SUBSET Service]
  /\ runs \in [Host -> SUBSET Service]
  /\ vol \in [Host -> {"none", "foreign", "empty", "data"}]
  /\ job \in [Deployment -> Jobs]
  /\ req \in [Handler -> Requests]
  /\ ours \subseteq Host
  /\ mishaps \subseteq MishapKinds

Init ==
  /\ rec = NoStack
  /\ versions = {}
  /\ there \in [Host -> {{}, Service}]
  /\ \/ runs = there
     \/ "importStopped" \in Faults /\ runs = [h \in Host |-> {}]
  /\ vol = [h \in Host |-> IF there[h] = {} THEN "none" ELSE "foreign"]
  /\ job = [d \in Deployment |-> NoJob]
  /\ req = [t \in Handler |-> NoRequest]
  /\ ours = {}
  /\ mishaps = {}

-----------------------------------------------------------------------------
(* Faults and control. *)

May(m) == m \in Faults /\ (m \in mishaps \/ Cardinality(mishaps) < MaxMishaps)
Outcomes(m) == IF May(m) THEN BOOLEAN ELSE {FALSE}
Suffer(m, bad) == mishaps' = IF bad THEN mishaps \cup {m} ELSE mishaps
Fails == IF "daemonFails" \in Faults THEN BOOLEAN ELSE {FALSE}

Busy(d) == job[d].step # "free"
InFlight == \E d \in Deployment : Busy(d)

\* nothing in the code holds back a call while a deploy is in flight
Arrive(t, r) ==
  /\ req[t] = NoRequest
  /\ InFlight => May("impatient")
  /\ Suffer("impatient", InFlight)
  /\ req' = [req EXCEPT ![t] = r]

At(t, s) == req[t].step = s
Goto(t, s) == req' = [req EXCEPT ![t].step = s]
Done(t) == req' = [req EXCEPT ![t] = NoRequest]

\* w is a job or a request
ComposeStackUpdateStatus(w, s) ==
  rec' = IF w.alive THEN [rec EXCEPT !.status = s] ELSE rec

\* the newest revision ComposeStackVersionList finds, 0 for none
NewestUnread(r) == r = 0
Newest(r) ==
  /\ \A v \in versions : v.rev <= r
  /\ r # 0 => \E v \in versions : v.rev = r
RoomForRev == \A v \in versions : v.rev < MaxRev

PrunedNewest(vs) == {v \in vs : Cardinality({w \in vs : w.rev < v.rev}) < Keep}
\* ComposeStackVersionPrune keeps the newest Keep revisions
Pruned(vs) == {v \in vs : Cardinality({w \in vs : w.rev > v.rev}) < Keep}

-----------------------------------------------------------------------------
(* The calls. *)

\* Save or Deploy of a new stack; Import with redeploy
Create(t, h, c, deploy) ==
  /\ rec = NoStack
  /\ rec' = [host |-> h, content |-> c, status |-> "inactive"]
  /\ Arrive(t, IF deploy THEN Request("deploy", "client", rec', h) ELSE NoRequest)
  /\ UNCHANGED <<versions, daemon, job>>

\* Import without redeploy: the status is "active" whatever runs
Import(t, h, c) ==
  /\ rec = NoStack
  /\ there[h] # {}
  /\ rec' = [host |-> h, content |-> c, status |-> "active"]
  /\ ours' = ours \cup {h}
  /\ Arrive(t, NoRequest)
  /\ UNCHANGED <<versions, there, runs, vol, job>>

\* Save or Deploy from the editor, which sends no status
Save(t, c, deploy) ==
  /\ rec # NoStack
  /\ c # rec.content => RoomForRev
  /\ Arrive(t, Request(IF deploy THEN "deploy" ELSE "save", "snapshot",
                       [rec EXCEPT !.content = c, !.status = "keep"], rec.host))
  /\ UNCHANGED <<store, daemon, job>>

DeployByID(t) ==
  /\ rec # NoStack
  /\ Arrive(t, Request("deploy", "snapshot", rec, rec.host))
  /\ UNCHANGED <<store, daemon, job>>

\* restoring the current content is a no-op
RestoreVersion(t, v) ==
  /\ rec # NoStack
  /\ v.content # rec.content
  /\ RoomForRev
  /\ Arrive(t, Request("save", "snapshot", [rec EXCEPT !.content = v.content], rec.host))
  /\ UNCHANGED <<store, daemon, job>>

Start(t) ==
  /\ rec # NoStack
  /\ Arrive(t, Request("start", "list", rec, rec.host))
  /\ UNCHANGED <<store, daemon, job>>

Stop(t) ==
  /\ rec # NoStack
  /\ Arrive(t, Request("stop", "teardown", rec, rec.host))
  /\ UNCHANGED <<store, daemon, job>>

FirstOfRemove(volumes, force) == IF volumes /\ ~force THEN "guard" ELSE "teardown"
RemoveRequest(o, k, h, volumes, force) ==
  [Request(o, FirstOfRemove(volumes, force), k, h) EXCEPT !.volumes = volumes]

Remove(t, volumes, force) ==
  /\ rec # NoStack
  /\ Arrive(t, RemoveRequest("remove", rec, rec.host, volumes, force))
  /\ UNCHANGED <<store, daemon, job>>

\* a target whose projects cannot be listed passes the name check (that
\* failure is no mishap: what runs there already is not the stack's)
Migrate(t, h, redeploy) ==
  /\ rec # NoStack
  /\ rec.status = "inactive"
  /\ rec.host # h
  /\ \E unlisted \in Fails : there[h] = {} \/ unlisted
  /\ Arrive(t, [Request("migrate", "teardown", [rec EXCEPT !.host = h], rec.host)
                  EXCEPT !.redeploy = redeploy])
  /\ UNCHANGED <<store, daemon, job>>

StartExternal(t, h) ==
  /\ there[h] # {} /\ rec.host # h
  /\ Arrive(t, Request("startExternal", "start", NoStack, h))
  /\ UNCHANGED <<store, daemon, job>>

StopExternal(t, h) ==
  /\ there[h] # {} /\ rec.host # h
  /\ Arrive(t, Request("stopExternal", "teardown", NoStack, h))
  /\ UNCHANGED <<store, daemon, job>>

RemoveExternal(t, h, volumes, force) ==
  /\ there[h] # {} /\ rec.host # h
  /\ Arrive(t, RemoveRequest("removeExternal", NoStack, h, volumes, force))
  /\ UNCHANGED <<store, daemon, job>>

-----------------------------------------------------------------------------
(* Saving and the synchronous part of Deploy. *)

\* snapshotIfChanged: the stored record and the newest revision, which is
\* taken for none when the versions cannot be listed
Snapshot(t) ==
  LET r == req[t] IN
  /\ At(t, "snapshot")
  /\ IF ~r.alive \/ rec.content = r.stack.content
     THEN Goto(t, "update") /\ UNCHANGED mishaps
     ELSE \E blind \in Outcomes("blind"), newest \in 0 .. MaxRev :
            /\ Newest(newest)
            /\ req' = [req EXCEPT ![t].step = "version", ![t].old = rec.content,
                                  ![t].rev = IF blind THEN 1 ELSE newest + 1]
            /\ Suffer("blind", blind)
  /\ UNCHANGED <<store, daemon, job>>

AddVersion(t) ==
  LET v == [rev |-> req[t].rev, content |-> req[t].old] IN
  /\ At(t, "version")
  /\ v.rev <= MaxRev
  /\ \E bad \in Outcomes("noVersion") :
       /\ versions' = IF bad THEN versions ELSE Pruned(versions \cup {v})
       /\ Suffer("noVersion", bad)
  /\ Goto(t, "update")
  /\ UNCHANGED <<rec, daemon, job>>

\* ComposeStackUpdate; on a missing record BoltDB fails and MongoDB does not
Update(t) ==
  LET r == req[t]
      s == IF r.stack.status = "keep" THEN rec.status ELSE r.stack.status
      Next2 == IF r.op = "deploy" THEN Goto(t, "client") ELSE Done(t) IN
  /\ At(t, "update")
  /\ \/ r.alive /\ rec' = [r.stack EXCEPT !.status = s] /\ Next2
     \/ ~r.alive /\ UNCHANGED rec /\ (Next2 \/ Done(t))
  /\ UNCHANGED <<versions, daemon, job, mishaps>>

\* resolveHostClient, then checkSelfDeploy
Client(t) ==
  /\ At(t, "client")
  /\ \E noClient, refused \in Fails :
       IF noClient THEN Done(t) /\ UNCHANGED rec
       ELSE IF refused THEN Done(t) /\ ComposeStackUpdateStatus(req[t], "error")
       ELSE Goto(t, "mark") /\ UNCHANGED rec
  /\ UNCHANGED <<versions, daemon, job, mishaps>>

MarkDeploying(t) ==
  /\ At(t, "mark")
  /\ \E bad \in Outcomes("lost") :
       /\ IF bad THEN UNCHANGED rec ELSE ComposeStackUpdateStatus(req[t], "deploying")
       /\ Suffer("lost", bad)
  /\ Goto(t, "hook")
  /\ UNCHANGED <<versions, daemon, job>>

\* NewHook reads the secrets; then the goroutine is spawned
Spawn(t) ==
  /\ At(t, "hook")
  /\ \E bad \in Fails :
       IF bad
       THEN ComposeStackUpdateStatus(req[t], "error") /\ UNCHANGED job
       ELSE /\ \E d \in Deployment : /\ ~Busy(d)
                                     /\ job' = [job EXCEPT ![d] =
                                          [alive |-> req[t].alive, step |-> "preflight",
                                           host |-> req[t].stack.host, next |-> 1]]
            /\ UNCHANGED rec
  /\ Done(t)
  /\ UNCHANGED <<versions, daemon, mishaps>>

-----------------------------------------------------------------------------
(* runDeploy and DeployWithResult. *)

OnJob(d, s) == job[d].step = s
JobGoto(d, s) == job' = [job EXCEPT ![d].step = s]

\* image mirror, parse, external networks and volumes, pull
Preflight(d) ==
  /\ OnJob(d, "preflight")
  /\ \E bad \in Fails : JobGoto(d, IF bad THEN "bad" ELSE "teardown")
  /\ UNCHANGED <<store, daemon, req, mishaps>>

\* removeProjectContainers(removeAll = FALSE) stops at the first failure
TearDownOld(d) ==
  LET h == job[d].host IN
  /\ OnJob(d, "teardown")
  /\ \E bad \in Fails :
     \E rest \in IF bad THEN SUBSET there[h] ELSE {{}} :
     \E up \in SUBSET (rest \cap runs[h]) :
       /\ there' = [there EXCEPT ![h] = rest]
       /\ runs' = [runs EXCEPT ![h] = up]
       /\ ours' = IF rest = {} THEN ours \ {h} ELSE ours
       /\ JobGoto(d, IF bad THEN "bad" ELSE "prepare")
  /\ UNCHANGED <<store, vol, req, mishaps>>

\* ensureNetworks, ensureVolumes (a volume of that name is taken as it is),
\* BeforeDeploy
Prepare(d) ==
  LET h == job[d].host IN
  /\ OnJob(d, "prepare")
  /\ \E bad, made \in Fails :
       /\ vol' = [vol EXCEPT ![h] = IF @ = "none" /\ (made \/ ~bad) THEN "empty" ELSE @]
       /\ JobGoto(d, IF bad THEN "bad" ELSE "create")
  /\ UNCHANGED <<store, there, runs, ours, req, mishaps>>

\* waitForDependency and createAndStart of the next service: the name may be
\* taken, creating may fail, starting may fail
CreateNext(d) ==
  LET h == job[d].host
      s == job[d].next
      New(run) ==
        /\ there' = [there EXCEPT ![h] = @ \cup {s}]
        /\ runs' = [runs EXCEPT ![h] = IF run THEN @ \cup {s} ELSE @]
        /\ ours' = ours \cup {h} IN
  /\ OnJob(d, "create")
  /\ \E bad, created \in Fails :
       IF s \in there[h] \/ (bad /\ ~created)
       THEN JobGoto(d, "bad") /\ UNCHANGED daemon
       ELSE /\ New(~bad)
            /\ IF bad THEN JobGoto(d, "bad")
               ELSE job' = [job EXCEPT ![d].next = s + 1,
                                       ![d].step = IF s = Services THEN "ok" ELSE "create"]
            /\ UNCHANGED vol
  /\ UNCHANGED <<store, req, mishaps>>

Verdict(d) == IF OnJob(d, "ok") THEN "active" ELSE "error"

\* the last status write; its error is discarded
Report(d) ==
  /\ job[d].step \in {"ok", "bad"}
  /\ \E lost \in Outcomes("lost") :
       /\ IF lost THEN UNCHANGED rec ELSE ComposeStackUpdateStatus(job[d], Verdict(d))
       /\ Suffer("lost", lost)
  /\ job' = [job EXCEPT ![d] = NoJob]
  /\ UNCHANGED <<versions, daemon, req>>

-----------------------------------------------------------------------------
(* Start, Stop, Remove, Migrate. *)

ListForStartAnyway(t) ==
  At(t, "list") /\ Goto(t, "start") /\ UNCHANGED <<store, daemon, job, mishaps>>
\* a project without containers is deployed instead
ListForStart(t) ==
  /\ At(t, "list")
  /\ \E blind \in Outcomes("blind") :
       /\ req' = [req EXCEPT ![t] =
            IF there[@.host] = {} /\ ~blind
            THEN [@ EXCEPT !.op = "deploy", !.step = "snapshot"]
            ELSE [@ EXCEPT !.step = "start"]]
       /\ Suffer("blind", blind)
  /\ UNCHANGED <<store, daemon, job>>

EngineStart(t) ==
  LET h == req[t].host IN
  /\ At(t, "start")
  /\ \E bad \in Fails :
     \E up \in IF bad THEN SUBSET (there[h] \ runs[h]) ELSE {there[h] \ runs[h]} :
       /\ runs' = [runs EXCEPT ![h] = @ \cup up]
       /\ IF bad \/ req[t].op = "startExternal" THEN Done(t) ELSE Goto(t, "status")
  /\ UNCHANGED <<store, there, vol, ours, job, mishaps>>

\* Start and Stop end with a status write whose error is discarded
SetStatus(t) ==
  /\ At(t, "status")
  /\ \E lost \in Outcomes("lost") :
       /\ IF lost THEN UNCHANGED rec
          ELSE ComposeStackUpdateStatus(req[t], IF req[t].op = "start" THEN "active" ELSE "inactive")
       /\ Suffer("lost", lost)
  /\ Done(t)
  /\ UNCHANGED <<versions, daemon, job>>

\* the guard of Remove and RemoveExternal: HasData comes from UsageData
Guard(t) ==
  LET h == req[t].host IN
  /\ At(t, "guard")
  /\ \E blind \in Outcomes("blind") :
       /\ IF UsageReported /\ vol[h] = "data" /\ ~blind THEN Done(t)
          ELSE Goto(t, "teardown")
       /\ Suffer("blind", blind)
  /\ UNCHANGED <<store, daemon, job>>

\* what follows engine.Remove, besides returning
NextOf == [stop |-> "status", remove |-> "drop", migrate |-> "flip"]
AfterTeardown(t) == IF req[t].op \in DOMAIN NextOf THEN Goto(t, NextOf[req[t].op]) ELSE Done(t)

\* engine.Remove fails only when the containers cannot be listed, and Migrate
\* ignores even that
RemoveErrorIgnored(t) == AfterTeardown(t)
RemoveError(t) == IF req[t].op = "migrate" THEN AfterTeardown(t) ELSE Done(t)

CannotList(t) ==
  LET left == req[t].op = "migrate" /\ there[req[t].host] # {} IN
  /\ At(t, "teardown") /\ TRUE \in Fails
  /\ left => May("leak")
  /\ Suffer("leak", left)
  /\ RemoveError(t)
  /\ UNCHANGED <<store, daemon, job>>

\* a container that cannot be removed stays, and keeps its volume
Teardown(t) ==
  LET r == req[t]  h == r.host IN
  /\ At(t, "teardown")
  /\ \E rest \in IF May("leak") THEN SUBSET there[h] ELSE {{}} :
     \E up \in SUBSET (rest \cap runs[h]) :
       /\ there' = [there EXCEPT ![h] = rest]
       /\ runs' = [runs EXCEPT ![h] = up]
       /\ ours' = IF rest = {} THEN ours \ {h} ELSE ours
       /\ vol' = [vol EXCEPT ![h] =
            IF r.volumes /\ rest = {} /\ @ # "foreign" THEN "none" ELSE @]
       /\ Suffer("leak", rest # {})
  /\ AfterTeardown(t)
  /\ UNCHANGED <<store, job>>

\* the history goes first, then the record
Drop(t) ==
  LET r == req[t] IN
  /\ At(t, "drop")
  /\ versions' = IF r.alive THEN {} ELSE versions
  /\ \E bad \in Outcomes("undropped") :
       LET gone == r.alive /\ ~bad
           After(w) == [w EXCEPT !.alive = @ /\ ~gone] IN
       /\ rec' = IF gone THEN NoStack ELSE rec
       /\ job' = [d \in Deployment |-> After(job[d])]
       /\ req' = [u \in Handler |-> IF u = t THEN NoRequest ELSE After(req[u])]
       /\ Suffer("undropped", bad)
  /\ UNCHANGED daemon

\* the whole record is written back; then Deploy, if asked for
Flip(t) ==
  LET k == [req[t].stack EXCEPT !.status = "inactive"] IN
  /\ At(t, "flip")
  /\ \E bad \in Fails :
       /\ rec' = IF bad \/ ~req[t].alive THEN rec ELSE k
       /\ IF req[t].redeploy /\ ~bad
          THEN req' = [req EXCEPT ![t] = [Request("deploy", "snapshot", k, k.host)
                                       EXCEPT !.alive = req[t].alive]]
          ELSE Done(t)
  /\ UNCHANGED <<versions, daemon, job, mishaps>>

-----------------------------------------------------------------------------
(* The environment and the specification. *)

WriteData(h) ==
  /\ runs[h] # {} /\ vol[h] = "empty"
  /\ vol' = [vol EXCEPT ![h] = "data"]
  /\ UNCHANGED <<store, there, runs, job, req, ours, mishaps>>

\* nothing at boot looks for interrupted work
Crash ==
  /\ May("crash")
  /\ InFlight \/ \E t \in Handler : req[t] # NoRequest
  /\ job' = [d \in Deployment |-> NoJob]
  /\ req' = [t \in Handler |-> NoRequest]
  /\ Suffer("crash", TRUE)
  /\ UNCHANGED <<store, daemon>>

Call(t) ==
  \/ \E h \in Host, c \in Content, deploy \in BOOLEAN : Create(t, h, c, deploy)
  \/ \E h \in Host, c \in Content : Import(t, h, c)
  \/ \E c \in Content, deploy \in BOOLEAN : Save(t, c, deploy)
  \/ DeployByID(t)
  \/ \E v \in versions : RestoreVersion(t, v)
  \/ Start(t)
  \/ Stop(t)
  \/ \E volumes, force \in BOOLEAN : Remove(t, volumes, force)
  \/ \E h \in Host, redeploy \in BOOLEAN : Migrate(t, h, redeploy)
  \/ \E h \in Host : StartExternal(t, h) \/ StopExternal(t, h)
  \/ \E h \in Host, volumes, force \in BOOLEAN : RemoveExternal(t, h, volumes, force)

HandlerStep(t) ==
  \/ Snapshot(t) \/ AddVersion(t) \/ Update(t)
  \/ Client(t) \/ MarkDeploying(t) \/ Spawn(t)
  \/ ListForStart(t) \/ EngineStart(t) \/ SetStatus(t)
  \/ Guard(t) \/ CannotList(t) \/ Teardown(t) \/ Drop(t) \/ Flip(t)

JobStep(d) ==
  \/ Preflight(d) \/ TearDownOld(d) \/ Prepare(d) \/ CreateNext(d) \/ Report(d)

Next ==
  \/ \E t \in Handler : Call(t) \/ HandlerStep(t)
  \/ \E d \in Deployment : JobStep(d)
  \/ \E h \in Host : WriteData(h)
  \/ Crash

Spec == Init /\ [][Next]_vars

-----------------------------------------------------------------------------
(* Properties. *)

\* Snapshots of a stack have distinct revisions ("Monotonic per-stack
\* counter", docs/stack-versioning.md), pruning and restores included,
\* unless the versions could not be listed.
RevisionsUnique ==
  "blind" \notin mishaps => \A v, w \in versions : v.rev = w.rev => v = w

\* An update that replaces the authored content leaves the replaced content
\* as the newest snapshot, so that every save and restore can be undone,
\* unless the versions could not be read or written.
HistoryKeepsOverwritten ==
  [][(/\ rec # NoStack /\ rec' # NoStack
      /\ rec'.content # rec.content
      /\ mishaps \cap {"noVersion", "blind"} = {})
     => \E v \in versions : v.content = rec.content /\ Newest(v.rev)]_vars

Quiet == ~InFlight /\ \A t \in Handler : req[t] = NoRequest

\* At rest "active" means that the project's containers all run on the
\* stack's host and "inactive" that none of ours is there, whatever daemon
\* calls failed on the way.
StatusTruthful ==
  Quiet /\ mishaps = {} =>
    /\ rec.status = "active" => there[rec.host] # {} /\ runs[rec.host] = there[rec.host]
    /\ rec.status = "inactive" => rec.host \notin ours

\* Containers that Swirl made belong to a stack it knows, on the host the
\* record names: neither Remove nor Migrate loses track of any, even over a
\* restart or a lost status write.
NoOrphans ==
  mishaps \cap {"leak", "impatient"} = {} => ours \subseteq {rec.host}
=============================================================================
