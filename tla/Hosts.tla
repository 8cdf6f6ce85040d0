-------------------------------- MODULE Hosts --------------------------------
(***************************************************************************)
(* The host registry of a standalone Swirl, the Docker clients it caches    *)
(* per host, and the requests that use them: biz/host.go, docker/host.go,   *)
(* docker/docker.go, biz/hostop.go, the front of the federation proxy and   *)
(* the container, image, volume and network operations.                     *)
(*                                                                          *)
(* A handler reads the record, works with what it read and writes or calls  *)
(* later; every database access, cache access and daemon call is one step.  *)
(* A daemon is named by its endpoint; what a call does there is left out,   *)
(* which daemon it reaches is kept.                                         *)
(***************************************************************************)
EXTENDS Naturals, FiniteSets

CONSTANTS
  Host,       \* ids createId may return
  Editor,     \* handlers of requests that create, edit or delete hosts
  Reader,     \* handlers of the other requests
  None,       \* no record, no client, no endpoint
  Engine,     \* "bolt" or "mongo"
  MaxFaults   \* bound: database calls that fail

VARIABLES
  up,      \* the process serves requests
  rec,     \* the collection host
  used,    \* ids handed out
  client,  \* HostManager.clients: the endpoint each cached client talks to
  pc, job, \* per handler: its next step and what it carries
  faults,  \* database calls that failed so far
  blind,   \* ghost: a failed HostGet hid that the host is immutable
  mixed    \* ghost: hosts on which an edit or a removal overlapped something

vars == <<up, rec, used, client, pc, job, faults, blind, mixed>>

LocalHostID == "local"
Ids == Host \cup {LocalHostID}
Thread == Editor \cup Reader
Handlers == Thread \cup {"boot"}

\* "sock" is the Docker socket of the machine Swirl runs on, and the daemon
\* of d.client(); "swirl" is the URL of a federated Swirl.
Endpoint == {"sock", "daemon", "swirl"}
Primary == "sock"

\* Type "swarm_via_swirl": ProbeHost gives it to the hosts with a URL, no other
Federated(ep) == ep = "swirl"

Record == [ep : Endpoint, imm : BOOLEAN,
           status : {"disconnected", "connected", "error"},
           stale : BOOLEAN]  \* ghost: the status was measured at another endpoint

ASSUME HostsAssumption ==
  /\ "local" \notin Host
  /\ "boot" \notin Editor \cup Reader
  /\ Engine \in {"bolt", "mongo"}
  /\ MaxFaults \in Nat
  /\ None \notin Ids \cup Endpoint \cup Record

\* op and id of the request, the endpoint it goes by;
\* astray: a call was made on another daemon than that of ep
NoJob == [op |-> "none", id |-> None, ep |-> None, astray |-> FALSE]

Steps == {"idle", "probe", "create", "put", "cosmetic", "drop", "test",
          "cache", "store", "forget", "erase", "preflight", "call", "again",
          "count", "list", "answer"}
Ops == {"none", "save", "create", "delete", "sync", "summary", "operate"}

-----------------------------------------------------------------------------
(* validateAndNormalizeHost: what the form's endpoint and AuthMethod must   *)
(* agree on.  An endpoint without a scheme is refused, with a suggestion    *)
(* when one can be made; sent back, that is another request.                *)

Form == {f \in [scheme : {"", "unix", "tcp", "ssh", "https", "other"},
                auth : {"", "socket", "tcp", "tcp+tls", "ssh", "swirl"},
                user : BOOLEAN, ca : BOOLEAN] :
           (f.user => f.auth = "ssh") /\ (f.ca => f.auth = "tcp+tls")}

Fits(f) ==
  \/ f.scheme = "https"
  \/ f.auth = ""
  \/ <<f.scheme, f.auth>> \in {<<"unix", "socket">>, <<"tcp", "tcp">>, <<"ssh", "ssh">>}
  \/ f.auth = "tcp+tls" /\ f.scheme = "tcp"

Valid(f) ==
  /\ f.scheme \in {"unix", "tcp", "ssh", "https"}
  /\ Fits(f)
  /\ f.auth = "ssh" => f.user
  /\ f.auth = "tcp+tls" => f.ca

Target(f) == CASE f.scheme = "unix" -> "sock"
               [] f.scheme \in {"tcp", "ssh"} -> "daemon"
               [] f.scheme = "https" -> "swirl"

\* isLocalSocketEndpoint
isLocalSocketEndpoint(ep) == ep = "sock"

-----------------------------------------------------------------------------
(* Control. *)

TypeOK ==
  /\ up \in BOOLEAN
  /\ rec \in [Ids -> Record \cup {None}]
  /\ used \subseteq Host
  /\ client \in [Ids -> Endpoint \cup {None}]
  /\ pc \in [Handlers -> Steps]
  /\ job \in [Handlers -> [op : Ops, id : Ids \cup {None},
                            ep : Endpoint \cup {None}, astray : BOOLEAN]]
  /\ faults \in 0 .. MaxFaults
  /\ blind \in BOOLEAN
  /\ mixed \subseteq Ids

Init ==
  /\ up = FALSE
  /\ rec = [h \in Ids |-> None]
  /\ used = {}
  /\ client = [h \in Ids |-> None]
  /\ pc = [t \in Handlers |-> "idle"]
  /\ job = [t \in Handlers |-> NoJob]
  /\ faults = 0
  /\ blind = FALSE
  /\ mixed = {}

Exists(h) == rec[h] # None
At(t, step) == up /\ pc[t] = step
\* Free to take up a request.  Bound: none is taken up once a dropped error
\* has let a request through to the immutable host.
Free(t) == At(t, "idle") /\ ~blind
Goto(t, step) == pc' = [pc EXCEPT ![t] = step]
\* the handler goes on to the next step, or is done with its request
Proceed(t, step, j) ==
  /\ Goto(t, step)
  /\ job' = [job EXCEPT ![t] = IF step = "idle" THEN NoJob ELSE j]
Fail == faults < MaxFaults /\ faults' = faults + 1
Writes(op) == op \in {"save", "delete"}
Busy(t, h) == pc[t] # "idle" /\ job[t].id = h

\* A handler takes up a request on host h.
Begin(t, step, j) ==
  /\ Goto(t, step)
  /\ job' = [job EXCEPT ![t] = j]
  /\ mixed' = IF \E u \in Handlers \ {t} :
                   Busy(u, j.id) /\ (Writes(j.op) \/ Writes(job[u].op))
              THEN mixed \cup {j.id} ELSE mixed

\* `existing, _ := HostGet': nil too when the read fails, which makes a
\* difference for an immutable host only
Seen(h) == {rec[h]} \cup (IF Exists(h) /\ rec[h].imm THEN {None} ELSE {})

Job(op, h) == [NoJob EXCEPT !.op = op, !.id = h]

\* Info().Swarm as TestConnection sees it
Answers == {"standalone", "worker", "manager", "down"}

-----------------------------------------------------------------------------
(* HostManager: GetClient loads, and on a miss builds and stores.           *)

Cached(t) ==
  CASE job[t].op = "operate" -> "call"
    [] job[t].op = "summary" -> "list"
    [] OTHER -> "idle"

\* a call made with a client of endpoint ep
Reached(t, ep) == [job[t] EXCEPT !.astray = @ \/ ep # job[t].ep]

GetClient(t) ==
  /\ At(t, "cache")
  /\ IF client[job[t].id] # None
     THEN Proceed(t, Cached(t), Reached(t, client[job[t].id]))
     ELSE Proceed(t, "store", job[t])
  /\ UNCHANGED <<up, rec, used, client, faults, blind, mixed>>

StoreClient(t) ==
  /\ At(t, "store")
  /\ \/ /\ client' = [client EXCEPT ![job[t].id] = job[t].ep]
        /\ Proceed(t, Cached(t), job[t])
     \/ Proceed(t, "idle", NoJob) /\ UNCHANGED client  \* NewClientWithOpts fails
  /\ UNCHANGED <<up, rec, used, faults, blind, mixed>>

RemoveClient(h) == client' = [client EXCEPT ![h] = None]

\* standaloneAgent: the cached client, else the primary's
Agent(h) == IF client[h] # None THEN client[h] ELSE Primary

-----------------------------------------------------------------------------
(* Saving a host: hostSave, Create, Update, ProbeHost. *)

Submit(t, j) == \E f \in Form : Valid(f) /\ Begin(t, "probe", [j EXCEPT !.ep = Target(f)])

\* the request that creates, as far as the probe
Create(t) ==
  /\ Free(t)
  /\ Submit(t, Job("create", None))
  /\ UNCHANGED <<up, rec, used, client, faults, blind>>

\* Update reads the record and drops the error of that read; the record of
\* an immutable host keeps what it read but for the name and the colour.
Update(t, h) ==
  /\ Free(t)
  /\ h \in used \cup {LocalHostID}
  /\ \E seen \in Seen(h) :
       /\ IF seen = rec[h] THEN UNCHANGED <<faults, blind>> ELSE Fail /\ blind' = TRUE
       /\ IF seen # None /\ seen.imm
          THEN Begin(t, "cosmetic", [Job("save", h) EXCEPT !.ep = seen.ep])
          ELSE Submit(t, Job("save", h))
  /\ UNCHANGED <<up, rec, used, client>>

\* a URL is a federated Swirl; a swarm node is refused, manager or worker
ProbeHost(t) ==
  /\ At(t, "probe")
  /\ \E a \in Answers :
       LET ok == Federated(job[t].ep) \/ a = "standalone" IN
       Proceed(t, CASE ~ok -> "idle"
                    [] ok /\ job[t].op = "create" -> "create"
                    [] OTHER -> "put",
                  job[t])
  /\ UNCHANGED <<up, rec, used, client, faults, blind, mixed>>

\* a Docker host is probed at once, a federated one never
AfterSave(t) == IF Federated(job[t].ep) THEN "idle" ELSE "test"

\* HostCreate under a new id
HostCreate(t) ==
  /\ At(t, "create")
  /\ \/ \E h \in Host \ used :
          /\ used' = used \cup {h}
          /\ rec' = [rec EXCEPT ![h] =
                       [ep |-> job[t].ep, imm |-> FALSE,
                        status |-> "disconnected", stale |-> FALSE]]
          /\ Proceed(t, AfterSave(t), [job[t] EXCEPT !.id = h])
          /\ UNCHANGED faults
     \/ Fail /\ Proceed(t, "idle", NoJob) /\ UNCHANGED <<used, rec>>
  /\ UNCHANGED <<up, client, blind, mixed>>

\* HostUpdate keeps status and Immutable; a missing row is an error to Bolt
Written(t) ==
  LET h == job[t].id IN
  IF Exists(h) THEN [rec EXCEPT ![h].ep = job[t].ep,
                                  ![h].stale = @ \/ rec[h].ep # job[t].ep] ELSE rec

HostUpdate(t) ==
  /\ At(t, "put")
  /\ \/ /\ Exists(job[t].id) \/ Engine = "mongo"
        /\ rec' = Written(t)
        /\ Proceed(t, "drop", job[t])
        /\ UNCHANGED faults
     \/ /\ ~Exists(job[t].id) /\ Engine = "bolt"
        /\ Proceed(t, "idle", NoJob)
        /\ UNCHANGED <<rec, faults>>
     \/ Fail /\ Proceed(t, "idle", NoJob) /\ UNCHANGED rec
  /\ UNCHANGED <<up, used, client, blind, mixed>>

UpdateImmutable(t) ==
  /\ At(t, "cosmetic")
  /\ rec' = Written(t)
  /\ Proceed(t, "idle", NoJob)
  /\ UNCHANGED <<up, used, client, faults, blind, mixed>>

DropKept(t) ==
  /\ At(t, "drop")
  /\ Proceed(t, AfterSave(t), job[t])
  /\ UNCHANGED <<up, rec, used, client, faults, blind, mixed>>

\* Update's RemoveClient
DropClient(t) ==
  /\ At(t, "drop")
  /\ RemoveClient(job[t].id)
  /\ Proceed(t, AfterSave(t), job[t])
  /\ UNCHANGED <<up, rec, used, faults, blind, mixed>>

\* syncHost: TestConnection, HostUpdateStatus (errors dropped), GetClient
syncHost(t) ==
  /\ At(t, "test")
  /\ \E a \in {"connected", "error"} :
       /\ rec' = IF Exists(job[t].id)
                 THEN [rec EXCEPT ![job[t].id].status = a,
                                  ![job[t].id].stale = rec[job[t].id].ep # job[t].ep]
                 ELSE rec
       /\ Proceed(t, IF a = "connected" THEN "cache" ELSE "idle", job[t])
  /\ UNCHANGED <<up, used, client, faults, blind, mixed>>

Sync(t, h) ==
  /\ Free(t)
  /\ Exists(h)
  /\ Begin(t, "test", [Job("sync", h) EXCEPT !.ep = rec[h].ep])
  /\ UNCHANGED <<up, rec, used, client, faults, blind>>

-----------------------------------------------------------------------------
(* Delete: the immutable check, RemoveClient, HostDelete. *)

Delete(t, h) ==
  /\ Free(t)
  /\ h \in used \cup {LocalHostID}
  /\ \E seen \in Seen(h) :
       /\ IF seen = rec[h] THEN UNCHANGED <<faults, blind>> ELSE Fail /\ blind' = TRUE
       /\ seen # None => ~seen.imm
  /\ Begin(t, "forget", Job("delete", h))
  /\ UNCHANGED <<up, rec, used, client>>

Forget(t) ==
  /\ At(t, "forget")
  /\ RemoveClient(job[t].id)
  /\ Proceed(t, "erase", job[t])
  /\ UNCHANGED <<up, rec, used, faults, blind, mixed>>

HostDelete(t) ==
  /\ At(t, "erase")
  /\ \/ rec' = [rec EXCEPT ![job[t].id] = None] /\ UNCHANGED faults
     \/ Fail /\ UNCHANGED rec
  /\ Proceed(t, "idle", NoJob)
  /\ UNCHANGED <<up, used, client, blind, mixed>>

-----------------------------------------------------------------------------
(* Requests on a host.  FederationProxy.Apply looks the host up first and   *)
(* forwards what belongs to a federated one; otherwise the operation's      *)
(* preflight looks it up again, caches its client and throws it away, and   *)
(* every docker call fetches the client anew by the host's id.              *)

Request(t, h) ==
  /\ Free(t)
  /\ h \in used \cup {LocalHostID}
  /\ Begin(t, IF Exists(h) /\ Federated(rec[h].ep) THEN "answer" ELSE "preflight",
              Job("operate", h))
  /\ UNCHANGED <<up, rec, used, client, faults, blind>>

PreflightUncached(t) ==
  /\ At(t, "preflight")
  /\ IF Exists(job[t].id)
     THEN Proceed(t, "call", [job[t] EXCEPT !.ep = rec[job[t].id].ep])
     ELSE Proceed(t, "idle", NoJob)
  /\ UNCHANGED <<up, rec, used, client, faults, blind, mixed>>

\* resolveHostClient
Preflight(t) ==
  /\ At(t, "preflight")
  /\ IF Exists(job[t].id)
     THEN Proceed(t, "cache", [job[t] EXCEPT !.ep = rec[job[t].id].ep])
     ELSE Proceed(t, "idle", NoJob)
  /\ UNCHANGED <<up, rec, used, client, faults, blind, mixed>>

\* One docker call by the host's id; `next' is where the operation goes on.
\* An operation says which one it is by the calls it makes.
DockerCall(t, step, next) ==
  /\ At(t, step)
  /\ Proceed(t, next, Reached(t, Agent(job[t].id)))
  /\ UNCHANGED <<up, rec, used, client, faults, blind, mixed>>

\* containers: find, search, delete, exec, logs, prune
ContainerOp(t) == DockerCall(t, "call", "answer")
\* containers: start, stop, restart, kill, pause, unpause, rename, stats
LifecycleOp(t) == DockerCall(t, "call", "answer")
\* images: Find fetches the history too, Search the containers
ImageOp(t) == \E next \in {"answer", "again"} : DockerCall(t, "call", next)
\* volumes: Search counts the references from the containers
VolumeOp(t) == \E next \in {"answer", "again"} : DockerCall(t, "call", next)
\* networks: Search and Topology list the containers too
NetworkOp(t) == \E next \in {"answer", "again"} : DockerCall(t, "call", next)
SecondCall(t) == DockerCall(t, "again", "answer")

\* The dashboard's summary of a connected host counts containers and images
\* by the host's id, and only then asks GetClient, for the stacks.
Summary(t, h) ==
  /\ Free(t)
  /\ Exists(h) /\ rec[h].status = "connected"
  /\ Begin(t, "count", [Job("summary", h) EXCEPT !.ep = rec[h].ep])
  /\ UNCHANGED <<up, rec, used, client, faults, blind>>

SummaryCount(t) == \E next \in {"count", "cache"} : DockerCall(t, "count", next)

SummaryStacks(t) ==
  /\ At(t, "list")
  /\ Proceed(t, "answer", job[t])
  /\ UNCHANGED <<up, rec, used, client, faults, blind, mixed>>

\* the response is written
Answer(t) ==
  /\ At(t, "answer")
  /\ Proceed(t, "idle", NoJob)
  /\ UNCHANGED <<up, rec, used, client, faults, blind, mixed>>

-----------------------------------------------------------------------------
(* Boot: EnsureLocal runs before the server starts. *)

otherLocalHost == {h \in Host : Exists(h) /\ isLocalSocketEndpoint(rec[h].ep)}

\* (A) drop the duplicate, (B) (C) nothing, (D) create `local' and probe it
EnsureLocal ==
  CASE Exists(LocalHostID) /\ otherLocalHost # {} ->
         rec' = [rec EXCEPT ![LocalHostID] = None] /\ UNCHANGED <<pc, job>>
    [] ~Exists(LocalHostID) /\ otherLocalHost = {} ->
         /\ rec' = [rec EXCEPT ![LocalHostID] =
                      [ep |-> "sock", imm |-> TRUE,
                       status |-> "disconnected", stale |-> FALSE]]
         /\ job' = [job EXCEPT !["boot"] = [Job("sync", LocalHostID) EXCEPT !.ep = "sock"]]
         /\ Goto("boot", "test")
    [] OTHER -> UNCHANGED <<rec, pc, job>>

Boot ==
  /\ ~up
  /\ up' = TRUE
  /\ \/ EnsureLocal /\ UNCHANGED faults
     \/ Fail /\ UNCHANGED <<rec, pc, job>>
  /\ UNCHANGED <<used, client, blind, mixed>>

Crash ==
  /\ up
  /\ up' = FALSE
  /\ client' = [h \in Ids |-> None]
  /\ pc' = [t \in Handlers |-> "idle"]
  /\ job' = [t \in Handlers |-> NoJob]
  /\ mixed' = mixed \cup {h \in Ids : \E t \in Handlers : Busy(t, h) /\ Writes(job[t].op)}
  /\ UNCHANGED <<rec, used, faults, blind>>

-----------------------------------------------------------------------------
Step(t) ==
  \/ ProbeHost(t) \/ HostCreate(t) \/ HostUpdate(t) \/ UpdateImmutable(t)
  \/ DropClient(t) \/ syncHost(t) \/ GetClient(t) \/ StoreClient(t)
  \/ Forget(t) \/ HostDelete(t)
  \/ Preflight(t) \/ ContainerOp(t) \/ LifecycleOp(t) \/ ImageOp(t)
  \/ VolumeOp(t) \/ NetworkOp(t) \/ SecondCall(t)
  \/ SummaryCount(t) \/ SummaryStacks(t) \/ Answer(t)

Edit(t, h) == Update(t, h) \/ Delete(t, h)
Read(t, h) == Sync(t, h) \/ Summary(t, h) \/ Request(t, h)

Next ==
  \/ \E t \in Editor : Create(t) \/ \E h \in Ids : Edit(t, h)
  \/ \E t \in Reader, h \in Ids : Read(t, h)
  \/ \E t \in Handlers : Step(t)
  \/ Boot \/ Crash

Spec == Init /\ [][Next]_vars

-----------------------------------------------------------------------------
(* Properties. *)

Quiet(h) == \A t \in Handlers : ~Busy(t, h)

\* What Swirl holds about a host at rest is about the endpoint its record
\* names: the cached client talks to it and the status shown was measured
\* there (Update's RemoveClient and syncHost, Delete's RemoveClient), unless
\* an edit or a removal overlapped other work on that host or was cut off.
SettledHostIsTrue ==
  \A h \in Ids \ mixed : Quiet(h) =>
    IF Exists(h)
    THEN /\ client[h] \in {None, rec[h].ep}
         /\ ~Federated(rec[h].ep) /\ rec[h].status # "disconnected" => ~rec[h].stale
    ELSE client[h] = None

\* An operation requested for a host is carried out by that host's daemon,
\* all its calls by the same one, unless the host was edited or removed
\* meanwhile: preflight's cached client is still there when the call is made.
OperationsReachTheirHost ==
  \A t \in Thread : job[t].op = "operate" /\ job[t].id \notin mixed => ~job[t].astray

\* The system-managed host is neither repointed nor removed by requests:
\* only a boot removes it, in favour of an operator's host on the same
\* socket (Immutable; EnsureLocal, case A), unless a failed read hid it.
LocalStays ==
  [][ Exists(LocalHostID) /\ ~blind' =>
        \/ Exists(LocalHostID)' /\ rec'[LocalHostID].ep = rec[LocalHostID].ep
                                /\ rec'[LocalHostID].imm
        \/ ~up /\ otherLocalHost # {} ]_vars

\* A boot whose database calls succeed leaves Swirl's own daemon managed by
\* some host, and by `local' only when no other host does.
BootSettlesLocal ==
  [][ ~up /\ up' /\ faults' = faults =>
        \/ Exists(LocalHostID)' /\ otherLocalHost' = {}
        \/ ~Exists(LocalHostID)' /\ otherLocalHost' # {} ]_vars
=============================================================================
