----------------------------- MODULE HostsProofs -----------------------------
(* What is proved of Hosts for any hosts and handlers and any number of      *)
(* failing database calls: its types, that operations reach their host,     *)
(* what boot and requests make of the local host and, on Bolt, that what is *)
(* held about a host at rest is true of its endpoint.                       *)
EXTENDS Hosts, TLAPS

-----------------------------------------------------------------------------
(* The invariant. *)

JobOf == [op : Ops, id : Ids \cup {None}, ep : Endpoint \cup {None}, astray : BOOLEAN]

\* A handler at rest carries nothing, a busy one the request it took up: the
\* host it names was handed out, and the steps are those of its operation.
JobOK(t) ==
  /\ pc[t] = "idle" => job[t] = NoJob
  /\ pc[t] # "idle" =>
       /\ \/ job[t].id \in used \cup {LocalHostID}
          \/ job[t].op = "create" /\ job[t].id = None
       /\ pc[t] = "create" => job[t].op = "create" /\ job[t].id = None
       /\ pc[t] = "probe" => \/ job[t].op = "create" /\ job[t].id = None
                             \/ job[t].op = "save" /\ job[t].id # None
       /\ job[t].id = None => pc[t] \in {"probe", "create"}
       /\ pc[t] \in {"probe", "create", "put", "drop", "cosmetic"} => job[t].ep \in Endpoint
       /\ pc[t] \in {"put", "drop", "cosmetic"} => job[t].op = "save"
       /\ pc[t] \in {"forget", "erase"} => job[t].op = "delete"
       /\ pc[t] = "test" => job[t].op \in {"save", "create", "sync"} /\ job[t].ep \in Endpoint
       /\ pc[t] \in {"cache", "store"} =>
            job[t].op \in {"save", "create", "sync", "summary", "operate"} /\ job[t].ep \in Endpoint
       /\ pc[t] \in {"preflight", "call", "again"} => job[t].op = "operate"
       /\ pc[t] \in {"count", "list"} => job[t].op = "summary" /\ job[t].ep \in Endpoint
       /\ pc[t] = "answer" => job[t].op \in {"operate", "summary"}

\* Unless an edit overlapped: the endpoint a request goes by is the record's,
\* an operation's client is cached when it calls, no call went astray, and a
\* removal leaves no client behind.
Honest(t) ==
  LET h == job[t].id IN
  pc[t] # "idle" /\ h \in Ids \ mixed =>
    /\ (\/ job[t].op \in {"sync", "summary"}
        \/ job[t].op = "operate" /\ pc[t] \in {"cache", "store", "call", "again"}
        \/ pc[t] = "cosmetic") =>
         Exists(h) /\ job[t].ep = rec[h].ep
    /\ job[t].op \in {"save", "create"} /\ pc[t] \in {"drop", "test", "cache", "store"} =>
         (Exists(h) => job[t].ep = rec[h].ep) /\ (Engine = "bolt" => Exists(h))
    /\ job[t].op = "operate" /\ pc[t] \in {"call", "again"} => client[h] # None
    /\ job[t].op = "operate" => ~job[t].astray
    /\ pc[t] = "erase" => client[h] = None

\* Requests on one host overlap only if none of them writes.
Apart(t, u) ==
  Busy(t, job[t].id) /\ Busy(u, job[t].id) /\ t # u /\ job[t].id \in Ids \ mixed => ~Writes(job[t].op)

\* The cached client talks to the record's endpoint, but for an Update that
\* has written the record and not yet dropped the client.
ClientOK(h) ==
  IF Exists(h)
  THEN \/ client[h] \in {None, rec[h].ep}
       \/ \E t \in Handlers : Busy(t, h) /\ pc[t] = "drop"
  ELSE Engine = "bolt" => client[h] = None

\* The status was measured at the record's endpoint, but for an Update that
\* still has to probe it.
StatusOK(h) ==
  Exists(h) /\ ~Federated(rec[h].ep) /\ rec[h].stale =>
    \E t \in Handlers : Busy(t, h) /\ job[t].op = "save" /\ pc[t] \in {"drop", "test"}

HostOK(h) == h \notin mixed => ClientOK(h) /\ StatusOK(h)

\* What was not handed out is not there, and neither is anything in a
\* process that is down.
Absent ==
  /\ \A h \in Host \ used : rec[h] = None /\ client[h] = None
  /\ ~up => client = [h \in Ids |-> None] /\ \A t \in Handlers : pc[t] = "idle"

HostInv ==
  /\ TypeOK /\ Absent
  /\ \A t \in Handlers : JobOK(t) /\ Honest(t)
  /\ \A t, u \in Handlers : Apart(t, u)
  /\ \A h \in Ids : HostOK(h)

\* The constants: the marks are no data, and the names are different.
LEMMA Names ==
  /\ None \notin Ids /\ None \notin Endpoint /\ None \notin Record
  /\ LocalHostID \in Ids /\ LocalHostID \notin Host /\ Host \subseteq Ids
  /\ "boot" \in Handlers /\ Thread \subseteq Handlers
  /\ MaxFaults \in Nat
BY HostsAssumption DEF Ids, LocalHostID, Handlers

\* The initial state satisfies the invariant.
LEMMA HostInit == Init => HostInv
<1> SUFFICES ASSUME Init PROVE HostInv
  OBVIOUS
<1>1. \A t \in Handlers : pc[t] = "idle" /\ job[t] = NoJob
  BY DEF Init
<1>2. \A h \in Ids : rec[h] = None /\ client[h] = None
  BY DEF Init
<1>3. TypeOK
  <2>1. NoJob \in JobOf
    BY DEF NoJob, JobOf, Ops
  <2>2. job \in [Handlers -> JobOf] /\ pc \in [Handlers -> Steps]
    BY <2>1 DEF Init, Steps
  <2>3. faults \in 0 .. MaxFaults
    BY Names DEF Init
  <2>4. rec \in [Ids -> Record \cup {None}] /\ client \in [Ids -> Endpoint \cup {None}]
    BY DEF Init
  <2>5. up \in BOOLEAN /\ blind \in BOOLEAN /\ used \subseteq Host /\ mixed \subseteq Ids
    BY DEF Init
  <2> QED BY <2>2, <2>3, <2>4, <2>5 DEF TypeOK, JobOf
<1>4. Absent
  BY <1>2, Names DEF Absent, Init
<1>5. \A t, u \in Handlers : JobOK(t) /\ Honest(t) /\ Apart(t, u)
  BY <1>1 DEF JobOK, Honest, Apart, Busy
<1>6. \A h \in Ids : HostOK(h)
  BY <1>2 DEF HostOK, ClientOK, StatusOK, Exists
<1> QED BY <1>3, <1>4, <1>5, <1>6 DEF HostInv

-----------------------------------------------------------------------------
(* A step of a busy handler on its own host. *)

\* It is enough to look at what it does to this handler, to the others busy
\* on the host, and to what is held about the host.
LEMMA Local ==
  ASSUME HostInv, TypeOK', UNCHANGED <<up, used, mixed>>, up,
         NEW t \in Handlers, pc[t] # "idle", NEW h, h = job[t].id,
         \A u \in Handlers \ {t} : pc'[u] = pc[u] /\ job'[u] = job[u],
         \A g \in Ids \ {h} : rec'[g] = rec[g] /\ client'[g] = client[g],
         pc'[t] # "idle" => job'[t].id = h /\ job'[t].op = job[t].op,
         JobOK(t)',
         h \in Ids => h \in used \cup {LocalHostID},
         h \in Ids \ mixed =>
           /\ Honest(t)' /\ HostOK(h)'
           /\ Writes(job[t].op) \/ \A u \in Handlers \ {t} : Busy(u, h) => Honest(u)'
  PROVE  HostInv'
<1>1. Absent'
  <2>1. \A g \in Host \ used : g \in Ids \ {h}
    BY Names
  <2> QED BY <2>1 DEF HostInv, Absent
<1>2. \A u \in Handlers \ {t} : JobOK(u)'
  BY DEF HostInv, JobOK
<1>3. ASSUME NEW u \in Handlers \ {t} PROVE Honest(u)'
  <2>1. CASE pc[u] # "idle" /\ job[u].id \in Ids \ mixed
    <3>1. CASE job[u].id = h
      <4>1. Busy(t, h) /\ Busy(u, h)
        BY <2>1, <3>1 DEF Busy
      <4>2. ~Writes(job[t].op)
        BY <2>1, <3>1, <4>1 DEF HostInv, Apart
      <4> QED BY <2>1, <3>1, <4>1, <4>2
    <3>2. CASE job[u].id # h
      <4>1. Honest(u) /\ job[u].id \in Ids \ {h}
        BY <2>1, <3>2 DEF HostInv
      <4>2. /\ rec'[job[u].id] = rec[job[u].id] /\ client'[job[u].id] = client[job[u].id]
            /\ pc'[u] = pc[u] /\ job'[u] = job[u]
        BY <4>1
      <4> QED BY <4>1, <4>2 DEF Honest, Exists
    <3> QED BY <3>1, <3>2
  <2>2. CASE ~(pc[u] # "idle" /\ job[u].id \in Ids \ mixed)
    BY <2>2 DEF Honest
  <2> QED BY <2>1, <2>2
<1>4. Honest(t)'
  BY DEF Honest
<1>5. ASSUME NEW u \in Handlers, NEW v \in Handlers PROVE Apart(u, v)'
  <2>1. \A w \in Handlers : \A g : Busy(w, g)' /\ g \in Ids => Busy(w, g) /\ job'[w].op = job[w].op
    BY DEF Busy
  <2>2. Apart(u, v)
    BY DEF HostInv
  <2>3. pc'[u] # "idle" => job'[u].id = job[u].id
    BY DEF Busy
  <2> QED BY <2>1, <2>2, <2>3 DEF Apart, Busy
<1>6. ASSUME NEW g \in Ids PROVE HostOK(g)'
  <2>1. CASE g # h
    <3>1. \A u \in Handlers : Busy(u, g) => u # t /\ Busy(u, g)' /\ pc'[u] = pc[u] /\ job'[u].op = job[u].op
      BY <2>1 DEF Busy
    <3>2. rec'[g] = rec[g] /\ client'[g] = client[g] /\ HostOK(g)
      BY <2>1 DEF HostInv
    <3> QED BY <3>1, <3>2 DEF HostOK, ClientOK, StatusOK, Exists
  <2>2. CASE g = h /\ h \in mixed
    BY <2>2 DEF HostOK
  <2>3. CASE g = h /\ h \notin mixed
    BY <2>3
  <2> QED BY <2>1, <2>2, <2>3
<1> QED BY <1>1, <1>2, <1>3, <1>4, <1>5, <1>6 DEF HostInv

\* A step that leaves records and clients alone.
LEMMA Walk ==
  ASSUME HostInv, TypeOK', UNCHANGED <<up, used, mixed, rec, client>>, up,
         NEW t \in Handlers, pc[t] \notin {"idle", "drop", "test"},
         \A u \in Handlers \ {t} : pc'[u] = pc[u] /\ job'[u] = job[u],
         pc'[t] # "idle" => job'[t].id = job[t].id /\ job'[t].op = job[t].op,
         JobOK(t)',
         job[t].id \in Ids \ mixed => Honest(t)'
  PROVE  HostInv'
<1>1. ASSUME NEW u \in Handlers \ {t} PROVE Honest(u)'
  BY DEF HostInv, Honest, Exists
<1>2. job[t].id \in Ids => job[t].id \in used \cup {LocalHostID}
  BY Names DEF HostInv, JobOK
<1>3. ASSUME NEW h, h = job[t].id PROVE HostInv'
  <2>1. h \in Ids \ mixed => HostOK(h)'
    <3> SUFFICES ASSUME h \in Ids \ mixed PROVE HostOK(h)'
      OBVIOUS
    <3>1. HostOK(h)
      BY DEF HostInv
    <3>2. \A u \in Handlers : Busy(u, h) /\ pc[u] \in {"drop", "test"} =>
            Busy(u, h)' /\ pc'[u] = pc[u] /\ job'[u].op = job[u].op
      BY <1>3 DEF Busy
    <3> QED BY <3>1, <3>2 DEF HostOK, ClientOK, StatusOK, Exists
  <2> QED BY <1>1, <1>2, <1>3, <2>1, Local
<1> QED BY <1>3

\* What the controls do to the handlers.
LEMMA Moved ==
  ASSUME TypeOK, NEW t \in Handlers, NEW step \in Steps, NEW j \in JobOf, Proceed(t, step, j)
  PROVE  /\ pc' \in [Handlers -> Steps] /\ job' \in [Handlers -> JobOf]
         /\ pc'[t] = step
         /\ step # "idle" => job'[t] = j
         /\ step = "idle" => job'[t] = NoJob
         /\ \A u \in Handlers \ {t} : pc'[u] = pc[u] /\ job'[u] = job[u]
<1>1. NoJob \in JobOf
  BY DEF NoJob, JobOf, Ops
<1>2. pc \in [Handlers -> Steps] /\ job \in [Handlers -> JobOf]
  BY DEF TypeOK, JobOf
<1> HIDE DEF JobOf, Steps, NoJob, Handlers
<1> QED BY <1>1, <1>2 DEF Proceed, Goto

\* A handler that is done is idle.
LEMMA Done ==
  ASSUME TypeOK, NEW t \in Handlers, Proceed(t, "idle", NoJob)
  PROVE  /\ pc' \in [Handlers -> Steps] /\ job' \in [Handlers -> JobOf]
         /\ pc'[t] = "idle" /\ job'[t] = NoJob
         /\ \A u \in Handlers \ {t} : pc'[u] = pc[u] /\ job'[u] = job[u]
         /\ JobOK(t)' /\ Honest(t)'
<1>1. NoJob \in JobOf /\ "idle" \in Steps
  BY DEF NoJob, JobOf, Ops, Steps
<1>2. /\ pc' \in [Handlers -> Steps] /\ job' \in [Handlers -> JobOf]
      /\ pc'[t] = "idle" /\ job'[t] = NoJob
      /\ \A u \in Handlers \ {t} : pc'[u] = pc[u] /\ job'[u] = job[u]
  BY <1>1, Moved
<1>3. JobOK(t)' /\ Honest(t)'
  BY <1>2 DEF JobOK, Honest
<1> QED BY <1>2, <1>3

\* A handler that takes up a request: overlaps with a writer are marked.
LEMMA Begun ==
  ASSUME HostInv, UNCHANGED <<up, rec, client, used>>, up,
         faults' \in 0 .. MaxFaults, blind' \in BOOLEAN,
         NEW t \in Handlers, pc[t] = "idle",
         NEW step \in Steps \ {"idle"}, NEW j \in JobOf, j.id \in Ids \/ ~Writes(j.op),
         Begin(t, step, j),
         pc'[t] = step /\ job'[t] = j => JobOK(t)',
         pc'[t] = step /\ job'[t] = j /\ j.id \in Ids \ mixed' => Honest(t)'
  PROVE  HostInv'
<1>1. pc \in [Handlers -> Steps] /\ job \in [Handlers -> JobOf]
  BY DEF HostInv, TypeOK, JobOf
<1>2. /\ pc' \in [Handlers -> Steps] /\ job' \in [Handlers -> JobOf]
      /\ pc'[t] = step /\ job'[t] = j
      /\ \A u \in Handlers \ {t} : pc'[u] = pc[u] /\ job'[u] = job[u]
  <2> HIDE DEF JobOf, Steps, Handlers
  <2> QED BY <1>1 DEF Begin, Goto
<1>3. /\ mixed \subseteq mixed' /\ mixed' \subseteq mixed \cup {j.id}
      /\ \A u \in Handlers \ {t} : Busy(u, j.id) /\ (Writes(j.op) \/ Writes(job[u].op)) => j.id \in mixed'
  BY DEF Begin
<1>4. \A u \in Handlers : Busy(u, None) => ~Writes(job[u].op)
  BY Names DEF HostInv, JobOK, Busy, Writes, Ids, LocalHostID, TypeOK
<1>5. mixed' \subseteq Ids
  <2>1. j.id = None => ~Writes(j.op)
    BY Names
  <2>2. j.id \in Ids \cup {None}
    BY DEF JobOf
  <2>3. j.id = None => mixed' = mixed
    BY <1>4, <2>1 DEF Begin
  <2> QED BY <1>3, <2>2, <2>3 DEF HostInv, TypeOK
<1>6. TypeOK'
  BY <1>2, <1>5 DEF HostInv, TypeOK, JobOf
<1>7. Absent'
  BY DEF HostInv, Absent
<1>8. ASSUME NEW u \in Handlers PROVE JobOK(u)' /\ Honest(u)'
  <2>1. CASE u = t
    BY <1>2, <2>1 DEF Honest
  <2>2. CASE u # t
    BY <1>2, <1>3, <2>2 DEF HostInv, JobOK, Honest, Exists
  <2> QED BY <2>1, <2>2
<1>9. ASSUME NEW u \in Handlers, NEW v \in Handlers PROVE Apart(u, v)'
  BY <1>2, <1>3 DEF HostInv, Apart, Busy
<1>10. ASSUME NEW h \in Ids PROVE HostOK(h)'
  <2>1. \A u \in Handlers : Busy(u, h) => Busy(u, h)' /\ pc'[u] = pc[u] /\ job'[u].op = job[u].op
    BY <1>2 DEF Busy
  <2>2. HostOK(h)
    BY DEF HostInv
  <2> QED BY <1>3, <2>1, <2>2 DEF HostOK, ClientOK, StatusOK, Exists
<1> QED BY <1>6, <1>7, <1>8, <1>9, <1>10 DEF HostInv

\* A busy handler goes on, or is done, and leaves records and clients alone.
LEMMA WentOn ==
  ASSUME HostInv, UNCHANGED <<up, used, mixed, rec, client>>, up,
         faults' \in 0 .. MaxFaults, blind' \in BOOLEAN,
         NEW t \in Handlers, pc[t] \notin {"idle", "drop", "test"},
         NEW step \in Steps, NEW j \in JobOf, Proceed(t, step, j),
         step # "idle" => j.id = job[t].id /\ j.op = job[t].op,
         step # "idle" /\ pc'[t] = step /\ job'[t] = j =>
           JobOK(t)' /\ (job[t].id \in Ids \ mixed => Honest(t)')
  PROVE  HostInv'
<1>0. TypeOK
  BY DEF HostInv
<1>1. /\ pc' \in [Handlers -> Steps] /\ job' \in [Handlers -> JobOf]
      /\ pc'[t] = step
      /\ step # "idle" => job'[t] = j
      /\ step = "idle" => job'[t] = NoJob
      /\ \A u \in Handlers \ {t} : pc'[u] = pc[u] /\ job'[u] = job[u]
  BY <1>0, Moved
<1>2. TypeOK'
  BY <1>0, <1>1 DEF TypeOK, JobOf
<1>3. JobOK(t)' /\ (job[t].id \in Ids \ mixed => Honest(t)')
  <2>1. CASE step = "idle"
    BY <1>1, <2>1 DEF JobOK, Honest
  <2>2. CASE step # "idle"
    BY <1>1, <2>2
  <2> QED BY <2>1, <2>2
<1> QED BY <1>1, <1>2, <1>3, Walk

\* The jobs requests carry.
Carry(op, h, ep) == [Job(op, h) EXCEPT !.ep = ep]

LEMMA Carried ==
  ASSUME NEW op \in Ops, NEW h \in Ids \cup {None}, NEW ep \in Endpoint \cup {None}
  PROVE  /\ Carry(op, h, ep) \in JobOf
         /\ Carry(op, h, ep).op = op /\ Carry(op, h, ep).id = h
         /\ Carry(op, h, ep).ep = ep /\ ~Carry(op, h, ep).astray
         /\ Job(op, h) \in JobOf
         /\ Job(op, h).op = op /\ Job(op, h).id = h /\ ~Job(op, h).astray
<1> HIDE DEF Ops, Ids, Endpoint
<1>1. Carry(op, h, ep) \in JobOf /\ Job(op, h) \in JobOf
  BY DEF Carry, JobOf, Job, NoJob
<1>2. /\ Carry(op, h, ep).op = op /\ Carry(op, h, ep).id = h
      /\ Carry(op, h, ep).ep = ep
      /\ Job(op, h).op = op /\ Job(op, h).id = h
  BY DEF Carry, Job, NoJob
<1>3. ~Carry(op, h, ep).astray /\ ~Job(op, h).astray
  BY DEF Carry, Job, NoJob
<1> QED BY <1>1, <1>2, <1>3

\* A form that passes validation names a daemon or a Swirl.
LEMMA Targets == \A f \in Form : Valid(f) => Target(f) \in Endpoint
BY DEF Valid, Target, Endpoint

-----------------------------------------------------------------------------
(* Requests that begin. *)

\* Create, as far as the probe.
LEMMA CreateKeeps == ASSUME HostInv, NEW t \in Handlers, Create(t) PROVE HostInv'
<1>1. PICK f \in Form : Valid(f) /\ Begin(t, "probe", [Job("create", None) EXCEPT !.ep = Target(f)])
  BY DEF Create, Submit
<1>2. "create" \in Ops /\ "probe" \in Steps \ {"idle"}
  BY DEF Ops, Steps
<1>3. PICK ep \in Endpoint : ep = Target(f)
  BY <1>1, Targets
<1>4. /\ Carry("create", None, ep) \in JobOf
      /\ Carry("create", None, ep).op = "create" /\ Carry("create", None, ep).id = None
      /\ Carry("create", None, ep).ep = ep
  BY <1>2, Carried
<1>5. /\ up /\ pc[t] = "idle" /\ UNCHANGED <<up, rec, client, used>>
      /\ faults' \in 0 .. MaxFaults /\ blind' \in BOOLEAN
  BY DEF Create, Free, At, HostInv, TypeOK
<1>6. Begin(t, "probe", Carry("create", None, ep))
  BY <1>1, <1>3 DEF Carry
<1>7. pc'[t] = "probe" /\ job'[t] = Carry("create", None, ep) => JobOK(t)' /\ Honest(t)'
  BY <1>4, Names DEF JobOK, Honest
<1>8. ~Writes("create")
  BY DEF Writes
<1> QED BY <1>2, <1>4, <1>5, <1>6, <1>7, <1>8, Begun

\* Update, whose read of the record may fail.
LEMMA UpdateKeeps ==
  ASSUME HostInv, NEW t \in Handlers, NEW h \in Ids, Update(t, h) PROVE HostInv'
<1>1. PICK seen \in Seen(h) :
       /\ IF seen = rec[h] THEN UNCHANGED <<faults, blind>> ELSE Fail /\ blind' = TRUE
       /\ IF seen # None /\ seen.imm
          THEN Begin(t, "cosmetic", [Job("save", h) EXCEPT !.ep = seen.ep])
          ELSE Submit(t, Job("save", h))
  BY DEF Update
<1>2. "save" \in Ops /\ {"probe", "cosmetic"} \subseteq Steps \ {"idle"}
  BY DEF Ops, Steps
<1>3. faults' \in 0 .. MaxFaults /\ blind' \in BOOLEAN
  <2>1. faults' \in 0 .. MaxFaults
    BY <1>1, Names DEF Fail, HostInv, TypeOK
  <2>2. blind' \in BOOLEAN
    BY <1>1 DEF HostInv, TypeOK
  <2> QED BY <2>1, <2>2
<1>4. /\ up /\ pc[t] = "idle" /\ UNCHANGED <<up, rec, client, used>>
      /\ h \in used \cup {LocalHostID} /\ h # None
  BY Names DEF Update, Free, At
<1>5. CASE seen # None /\ seen.imm
  <2>1. Exists(h) /\ seen = rec[h] /\ rec[h] \in Record
    BY <1>5 DEF Seen, Exists, HostInv, TypeOK
  <2>2. PICK ep \in Endpoint : ep = rec[h].ep
    BY <2>1 DEF Record
  <2>3. /\ Carry("save", h, ep) \in JobOf
        /\ Carry("save", h, ep).op = "save" /\ Carry("save", h, ep).id = h
        /\ Carry("save", h, ep).ep = ep
    BY <1>2, Carried
  <2>4. Begin(t, "cosmetic", Carry("save", h, ep))
    BY <1>1, <1>5, <2>1, <2>2 DEF Carry
  <2>5. pc'[t] = "cosmetic" /\ job'[t] = Carry("save", h, ep) => JobOK(t)' /\ Honest(t)'
    BY <1>4, <2>1, <2>2, <2>3 DEF JobOK, Honest, Exists
  <2> QED BY <1>2, <1>3, <1>4, <2>3, <2>4, <2>5, Begun
<1>6. CASE ~(seen # None /\ seen.imm)
  <2>1. PICK f \in Form : Valid(f) /\ Begin(t, "probe", [Job("save", h) EXCEPT !.ep = Target(f)])
    BY <1>1, <1>6 DEF Submit
  <2>2. PICK ep \in Endpoint : ep = Target(f)
    BY <2>1, Targets
  <2>3. /\ Carry("save", h, ep) \in JobOf
        /\ Carry("save", h, ep).op = "save" /\ Carry("save", h, ep).id = h
        /\ Carry("save", h, ep).ep = ep
    BY <1>2, Carried
  <2>4. Begin(t, "probe", Carry("save", h, ep))
    BY <2>1, <2>2 DEF Carry
  <2>5. pc'[t] = "probe" /\ job'[t] = Carry("save", h, ep) => JobOK(t)' /\ Honest(t)'
    BY <1>4, <2>3 DEF JobOK, Honest
  <2> QED BY <1>2, <1>3, <1>4, <2>3, <2>4, <2>5, Begun
<1> QED BY <1>5, <1>6

\* The other requests: they begin with what they read of the record.
LEMMA OthersBegin ==
  ASSUME HostInv, NEW t \in Handlers, NEW h \in Ids,
         Delete(t, h) \/ Sync(t, h) \/ Summary(t, h) \/ Request(t, h)
  PROVE  HostInv'
<1>2. /\ {"delete", "sync", "summary", "operate"} \subseteq Ops
      /\ {"forget", "test", "count", "answer", "preflight"} \subseteq Steps \ {"idle"}
  BY DEF Ops, Steps
<1>3. faults' \in 0 .. MaxFaults /\ blind' \in BOOLEAN
  <2>1. UNCHANGED <<faults, blind>> \/ (Fail /\ blind' = TRUE)
    BY DEF Delete, Sync, Summary, Request
  <2>2. faults' \in 0 .. MaxFaults
    BY <2>1, Names DEF Fail, HostInv, TypeOK
  <2>3. blind' \in BOOLEAN
    BY <2>1 DEF HostInv, TypeOK
  <2> QED BY <2>2, <2>3
<1>4. /\ up /\ pc[t] = "idle" /\ UNCHANGED <<up, rec, client, used>>
      /\ h \in used \cup {LocalHostID} /\ h # None
  <2>1. Exists(h) => h \in used \cup {LocalHostID}
    BY DEF Exists, HostInv, Absent, Ids
  <2> QED BY <2>1, Names DEF Delete, Sync, Summary, Request, Free, At
<1>c. \A op \in Ops, ep \in Endpoint \cup {None} :
        /\ Carry(op, h, ep) \in JobOf
        /\ Carry(op, h, ep).op = op /\ Carry(op, h, ep).id = h
        /\ Carry(op, h, ep).ep = ep /\ ~Carry(op, h, ep).astray
        /\ Job(op, h) \in JobOf
        /\ Job(op, h).op = op /\ Job(op, h).id = h /\ ~Job(op, h).astray
  BY Carried
<1>b. ASSUME NEW j \in JobOf, j.id = h, NEW step \in Steps \ {"idle"}, Begin(t, step, j),
             pc'[t] = step /\ job'[t] = j => JobOK(t)' /\ Honest(t)'
      PROVE  HostInv'
  BY <1>3, <1>4, <1>b, Begun
<1>e. Exists(h) => rec[h].ep \in Endpoint
  BY DEF Exists, HostInv, TypeOK, Record
<1>5. CASE Delete(t, h)
  <2>1. Begin(t, "forget", Job("delete", h))
    BY <1>5 DEF Delete
  <2>2. pc'[t] = "forget" /\ job'[t] = Job("delete", h) => JobOK(t)' /\ Honest(t)'
    BY <1>2, <1>4, <1>c DEF JobOK, Honest
  <2> QED BY <1>2, <1>b, <1>c, <2>1, <2>2
<1>6. CASE Sync(t, h)
  <2>1. PICK ep \in Endpoint : ep = rec[h].ep /\ Exists(h)
    BY <1>6, <1>e DEF Sync
  <2>2. Begin(t, "test", Carry("sync", h, ep))
    BY <1>6, <2>1 DEF Sync, Carry
  <2>3. pc'[t] = "test" /\ job'[t] = Carry("sync", h, ep) => JobOK(t)' /\ Honest(t)'
    BY <1>2, <1>4, <1>c, <2>1 DEF JobOK, Honest, Exists
  <2> QED BY <1>2, <1>b, <1>c, <2>2, <2>3
<1>7. CASE Summary(t, h)
  <2>1. PICK ep \in Endpoint : ep = rec[h].ep /\ Exists(h)
    BY <1>7, <1>e DEF Summary
  <2>2. Begin(t, "count", Carry("summary", h, ep))
    BY <1>7, <2>1 DEF Summary, Carry
  <2>3. pc'[t] = "count" /\ job'[t] = Carry("summary", h, ep) => JobOK(t)' /\ Honest(t)'
    BY <1>2, <1>4, <1>c, <2>1 DEF JobOK, Honest, Exists
  <2> QED BY <1>2, <1>b, <1>c, <2>2, <2>3
<1>8. CASE Request(t, h)
  <2>1. PICK step \in {"answer", "preflight"} : Begin(t, step, Job("operate", h))
    BY <1>8 DEF Request
  <2>2. pc'[t] = step /\ job'[t] = Job("operate", h) => JobOK(t)' /\ Honest(t)'
    BY <1>2, <1>4, <1>c DEF JobOK, Honest
  <2> QED BY <1>2, <1>b, <1>c, <2>1, <2>2
<1> QED BY <1>5, <1>6, <1>7, <1>8

-----------------------------------------------------------------------------
(* Steps that leave records and clients alone. *)

\* What a call through a client of endpoint ep makes of the handler's job.
LEMMA Reaches ==
  ASSUME HostInv, NEW t \in Handlers, NEW ep
  PROVE  /\ Reached(t, ep) \in JobOf
         /\ Reached(t, ep).op = job[t].op /\ Reached(t, ep).id = job[t].id
         /\ Reached(t, ep).ep = job[t].ep
         /\ ~job[t].astray /\ ep = job[t].ep => ~Reached(t, ep).astray
<1>1. job[t] \in JobOf
  BY DEF HostInv, TypeOK, JobOf
<1> DEFINE b == job[t].astray \/ ep # job[t].ep
<1>2. b \in BOOLEAN /\ (~job[t].astray /\ ep = job[t].ep => ~b)
  BY <1>1 DEF JobOf
<1>3. Reached(t, ep) = [job[t] EXCEPT !.astray = b]
  BY DEF Reached
<1> HIDE DEF b, Ops, Ids, Endpoint
<1>4. Reached(t, ep) \in JobOf
  BY <1>1, <1>2, <1>3 DEF JobOf
<1>5. /\ Reached(t, ep).op = job[t].op /\ Reached(t, ep).id = job[t].id
      /\ Reached(t, ep).ep = job[t].ep /\ Reached(t, ep).astray = b
  BY <1>1, <1>3 DEF JobOf
<1> QED BY <1>2, <1>4, <1>5

\* Where a client is fetched, and what for.
LEMMA CachedSteps ==
  ASSUME NEW t
  PROVE  /\ job[t].op = "operate" => Cached(t) = "call"
         /\ job[t].op = "summary" => Cached(t) = "list"
         /\ job[t].op \notin {"operate", "summary"} => Cached(t) = "idle"
         /\ Cached(t) \in Steps
BY DEF Cached, Steps

LEMMA ProbeKeeps == ASSUME HostInv, NEW t \in Handlers, ProbeHost(t) PROVE HostInv'
<1>1. /\ up /\ pc[t] = "probe" /\ UNCHANGED <<up, used, mixed, rec, client>>
      /\ faults' \in 0 .. MaxFaults /\ blind' \in BOOLEAN /\ job[t] \in JobOf
  BY DEF ProbeHost, At, HostInv, TypeOK, JobOf
<1>2. \E step \in {"idle", "create", "put"} :
        /\ Proceed(t, step, job[t])
        /\ step = "create" => job[t].op = "create"
        /\ step = "put" => job[t].op # "create"
  <2>1. PICK a \in Answers :
          LET ok == Federated(job[t].ep) \/ a = "standalone" IN
          Proceed(t, CASE ~ok -> "idle"
                       [] ok /\ job[t].op = "create" -> "create"
                       [] OTHER -> "put",
                     job[t])
    BY DEF ProbeHost
  <2> DEFINE ok == Federated(job[t].ep) \/ a = "standalone"
             step == CASE ~ok -> "idle" [] ok /\ job[t].op = "create" -> "create" [] OTHER -> "put"
  <2>2. /\ step \in {"idle", "create", "put"}
        /\ step = "create" => job[t].op = "create"
        /\ step = "put" => job[t].op # "create"
    <3> HIDE DEF ok
    <3> QED OBVIOUS
  <2>3. Proceed(t, step, job[t])
    BY <2>1
  <2> HIDE DEF step
  <2> QED BY <2>2, <2>3
<1>3. PICK step \in {"idle", "create", "put"} :
        /\ Proceed(t, step, job[t])
        /\ step = "create" => job[t].op = "create"
        /\ step = "put" => job[t].op # "create"
  BY <1>2
<1>4. step \in Steps
  BY DEF Steps
<1>5. step # "idle" /\ pc'[t] = step /\ job'[t] = job[t] => JobOK(t)'
  BY <1>1, <1>3, Names DEF HostInv, JobOK
<1>6. step # "idle" /\ pc'[t] = step /\ job'[t] = job[t] /\ job[t].id \in Ids \ mixed => Honest(t)'
  BY <1>1, <1>3, Names DEF HostInv, JobOK, Honest
<1> QED BY <1>1, <1>3, <1>4, <1>5, <1>6, WentOn

LEMMA GetClientKeeps == ASSUME HostInv, NEW t \in Handlers, GetClient(t) PROVE HostInv'
<1>1. /\ up /\ pc[t] = "cache" /\ UNCHANGED <<up, used, mixed, rec, client>>
      /\ faults' \in 0 .. MaxFaults /\ blind' \in BOOLEAN /\ job[t] \in JobOf
  BY DEF GetClient, At, HostInv, TypeOK, JobOf
<1>2. JobOK(t) /\ Honest(t)
  BY DEF HostInv
<1>3. CASE client[job[t].id] = None
  <2>1. Proceed(t, "store", job[t]) /\ "store" \in Steps
    BY <1>3 DEF GetClient, Steps
  <2>2. pc'[t] = "store" /\ job'[t] = job[t] => JobOK(t)'
    BY <1>1, <1>2 DEF JobOK
  <2>3. pc'[t] = "store" /\ job'[t] = job[t] /\ job[t].id \in Ids \ mixed => Honest(t)'
    BY <1>1, <1>2 DEF Honest, Exists
  <2> QED BY <1>1, <2>1, <2>2, <2>3, WentOn
<1>4. ASSUME client[job[t].id] # None, NEW h, h = job[t].id, NEW ep, ep = client[h] PROVE HostInv'
  <2>1. Proceed(t, Cached(t), Reached(t, ep))
    BY <1>4 DEF GetClient
  <2>2. /\ Reached(t, ep) \in JobOf
        /\ Reached(t, ep).op = job[t].op /\ Reached(t, ep).id = job[t].id
        /\ Reached(t, ep).ep = job[t].ep
        /\ ~job[t].astray /\ ep = job[t].ep => ~Reached(t, ep).astray
    BY Reaches
  <2>3. /\ Cached(t) \in Steps
        /\ Cached(t) # "idle" => \/ Cached(t) = "call" /\ job[t].op = "operate"
                                 \/ Cached(t) = "list" /\ job[t].op = "summary"
    BY CachedSteps
  <2>4. Cached(t) # "idle" /\ pc'[t] = Cached(t) /\ job'[t] = Reached(t, ep) => JobOK(t)'
    BY <1>1, <1>2, <2>2, <2>3 DEF JobOK
  <2>5. job[t].op = "operate" /\ h \in Ids \ mixed => ep = job[t].ep
    <3> SUFFICES ASSUME job[t].op = "operate", h \in Ids \ mixed PROVE ep = job[t].ep
      OBVIOUS
    <3>1. Exists(h) /\ job[t].ep = rec[h].ep
      BY <1>1, <1>2, <1>4 DEF Honest
    <3>2. ~\E u \in Handlers : Busy(u, h) /\ pc[u] = "drop"
      <4>1. ASSUME NEW u \in Handlers, Busy(u, h), pc[u] = "drop" PROVE FALSE
        <5>1. u # t /\ Busy(t, job[u].id) /\ job[u].id = h
          BY <1>1, <1>4, <4>1 DEF Busy
        <5>2. JobOK(u) /\ Apart(u, t)
          BY DEF HostInv
        <5>3. Writes(job[u].op)
          BY <4>1, <5>2 DEF JobOK, Writes, Busy
        <5> QED BY <4>1, <5>1, <5>2, <5>3 DEF Apart
      <4> QED BY <4>1
    <3>3. ClientOK(h)
      BY DEF HostInv, HostOK
    <3> QED BY <1>4, <3>1, <3>2, <3>3 DEF ClientOK
  <2>6. Cached(t) # "idle" /\ pc'[t] = Cached(t) /\ job'[t] = Reached(t, ep)
          /\ job[t].id \in Ids \ mixed => Honest(t)'
    <3> SUFFICES ASSUME Cached(t) # "idle", pc'[t] = Cached(t), job'[t] = Reached(t, ep),
                        job[t].id \in Ids \ mixed
                 PROVE  Honest(t)'
      OBVIOUS
    <3>1. job'[t].id = h /\ job'[t].op = job[t].op /\ job'[t].ep = job[t].ep
      BY <1>4, <2>2
    <3>2. CASE job[t].op = "operate"
      <4>1. Exists(h) /\ job[t].ep = rec[h].ep /\ ~job[t].astray
        BY <1>1, <1>2, <1>4, <3>2 DEF Honest
      <4>2. ~job'[t].astray
        BY <1>4, <2>2, <2>5, <3>2, <4>1
      <4> QED BY <1>1, <1>4, <2>3, <3>1, <3>2, <4>1, <4>2 DEF Honest, Exists
    <3>3. CASE job[t].op = "summary"
      BY <1>1, <1>2, <1>4, <2>3, <3>1, <3>3 DEF Honest, Exists
    <3> QED BY <2>3, <3>2, <3>3
  <2> QED BY <1>1, <2>1, <2>2, <2>3, <2>4, <2>6, WentOn
<1> QED BY <1>3, <1>4

LEMMA PreflightKeeps == ASSUME HostInv, NEW t \in Handlers, Preflight(t) PROVE HostInv'
<1>1. /\ up /\ pc[t] = "preflight" /\ UNCHANGED <<up, used, mixed, rec, client>>
      /\ faults' \in 0 .. MaxFaults /\ blind' \in BOOLEAN /\ job[t] \in JobOf
  BY DEF Preflight, At, HostInv, TypeOK, JobOf
<1>2. JobOK(t) /\ Honest(t)
  BY DEF HostInv
<1>3. CASE ~Exists(job[t].id)
  <2>1. Proceed(t, "idle", NoJob) /\ "idle" \in Steps /\ NoJob \in JobOf
    BY <1>3 DEF Preflight, Steps, NoJob, JobOf, Ops
  <2> QED BY <1>1, <2>1, WentOn
<1>4. ASSUME Exists(job[t].id), NEW h, h = job[t].id PROVE HostInv'
  <2> DEFINE j == [job[t] EXCEPT !.ep = rec[h].ep]
  <2>1. Proceed(t, "cache", j) /\ "cache" \in Steps
    BY <1>4 DEF Preflight, Steps
  <2>2. h \in Ids /\ rec[h].ep \in Endpoint
    BY <1>1, <1>2, <1>4, Names DEF Exists, HostInv, TypeOK, Record, JobOK, Ids
  <2>3. /\ j \in JobOf /\ j.op = job[t].op /\ j.id = h /\ j.ep = rec[h].ep
        /\ j.astray <=> job[t].astray
    <3> HIDE DEF Ops, Ids, Endpoint
    <3> QED BY <1>1, <1>4, <2>2 DEF JobOf
  <2> HIDE DEF j
  <2>4. pc'[t] = "cache" /\ job'[t] = j => JobOK(t)'
    BY <1>1, <1>2, <1>4, <2>2, <2>3, Names DEF JobOK
  <2>5. pc'[t] = "cache" /\ job'[t] = j /\ job[t].id \in Ids \ mixed => Honest(t)'
    BY <1>1, <1>2, <1>4, <2>3 DEF JobOK, Honest, Exists
  <2> QED BY <1>1, <1>4, <2>1, <2>3, <2>4, <2>5, WentOn
<1> QED BY <1>3, <1>4

\* A docker call: an operation's client is still the one preflight cached.
LEMMA CallKeeps ==
  ASSUME HostInv, NEW t \in Handlers, NEW step, NEW next, DockerCall(t, step, next),
         \/ step \in {"call", "again"} /\ next \in {"answer", "again"}
         \/ step = "count" /\ next \in {"count", "cache"}
  PROVE  HostInv'
<1>1. /\ up /\ pc[t] = step /\ UNCHANGED <<up, used, mixed, rec, client>>
      /\ faults' \in 0 .. MaxFaults /\ blind' \in BOOLEAN /\ job[t] \in JobOf
  BY DEF DockerCall, At, HostInv, TypeOK, JobOf
<1>2. JobOK(t) /\ Honest(t)
  BY DEF HostInv
<1>3. next \in Steps
  BY DEF Steps
<1>4. ASSUME NEW h, h = job[t].id, NEW ep, ep = Agent(h) PROVE HostInv'
  <2>1. Proceed(t, next, Reached(t, ep))
    BY <1>4 DEF DockerCall
  <2>2. /\ Reached(t, ep) \in JobOf
        /\ Reached(t, ep).op = job[t].op /\ Reached(t, ep).id = job[t].id
        /\ Reached(t, ep).ep = job[t].ep
        /\ ~job[t].astray /\ ep = job[t].ep => ~Reached(t, ep).astray
    BY Reaches
  <2>3. step = "count" => job[t].op = "summary" /\ job[t].id # None
    BY <1>1, <1>2 DEF JobOK
  <2>4. step # "count" => job[t].op = "operate" /\ job[t].id # None
    BY <1>1, <1>2 DEF JobOK
  <2>e. step = "count" => job[t].ep \in Endpoint
    BY <1>1, <1>2 DEF JobOK
  <2>5. pc'[t] = next /\ job'[t] = Reached(t, ep) => JobOK(t)'
    BY <1>1, <1>2, <2>2, <2>3, <2>4, <2>e DEF JobOK
  <2>6. step # "count" /\ h \in Ids \ mixed => ep = job[t].ep
    <3> SUFFICES ASSUME step # "count", h \in Ids \ mixed PROVE ep = job[t].ep
      OBVIOUS
    <3>1. Exists(h) /\ job[t].ep = rec[h].ep /\ client[h] # None
      BY <1>1, <1>2, <1>4, <2>4 DEF Honest
    <3>2. ~\E u \in Handlers : Busy(u, h) /\ pc[u] = "drop"
      <4>1. ASSUME NEW u \in Handlers, Busy(u, h), pc[u] = "drop" PROVE FALSE
        <5>1. u # t /\ Busy(t, job[u].id) /\ job[u].id = h
          BY <1>1, <1>4, <4>1 DEF Busy
        <5>2. JobOK(u) /\ Apart(u, t)
          BY DEF HostInv
        <5>3. Writes(job[u].op)
          BY <4>1, <5>2 DEF JobOK, Writes, Busy
        <5> QED BY <4>1, <5>1, <5>2, <5>3 DEF Apart
      <4> QED BY <4>1
    <3>3. ClientOK(h)
      BY DEF HostInv, HostOK
    <3> QED BY <1>4, <3>1, <3>2, <3>3 DEF ClientOK, Agent
  <2>7. pc'[t] = next /\ job'[t] = Reached(t, ep) /\ job[t].id \in Ids \ mixed => Honest(t)'
    <3> SUFFICES ASSUME pc'[t] = next, job'[t] = Reached(t, ep), job[t].id \in Ids \ mixed
                 PROVE  Honest(t)'
      OBVIOUS
    <3>1. job'[t].id = h /\ job'[t].op = job[t].op /\ job'[t].ep = job[t].ep
      BY <1>4, <2>2
    <3>2. CASE step # "count"
      <4>1. Exists(h) /\ job[t].ep = rec[h].ep /\ ~job[t].astray /\ client[h] # None
        BY <1>1, <1>2, <1>4, <2>4, <3>2 DEF Honest
      <4>2. ~job'[t].astray
        BY <1>4, <2>2, <2>6, <3>2, <4>1
      <4> QED BY <1>1, <1>4, <2>4, <3>1, <3>2, <4>1, <4>2 DEF Honest, Exists
    <3>3. CASE step = "count"
      BY <1>1, <1>2, <1>4, <2>3, <3>1, <3>3 DEF Honest, Exists
    <3> QED BY <3>2, <3>3
  <2> QED BY <1>1, <1>3, <2>1, <2>2, <2>5, <2>7, WentOn
<1> QED BY <1>4

\* The end of a request.
LEMMA AnswerKeeps ==
  ASSUME HostInv, NEW t \in Handlers, SummaryStacks(t) \/ Answer(t) PROVE HostInv'
<1>1. /\ up /\ UNCHANGED <<up, used, mixed, rec, client>>
      /\ faults' \in 0 .. MaxFaults /\ blind' \in BOOLEAN /\ job[t] \in JobOf
  BY DEF SummaryStacks, Answer, At, HostInv, TypeOK, JobOf
<1>2. JobOK(t) /\ Honest(t) /\ {"answer", "idle"} \subseteq Steps
  BY DEF HostInv, Steps
<1>3. CASE SummaryStacks(t)
  <2>1. pc[t] = "list" /\ Proceed(t, "answer", job[t])
    BY <1>3 DEF SummaryStacks, At
  <2>2. pc'[t] = "answer" /\ job'[t] = job[t] => JobOK(t)'
    BY <1>1, <1>2, <2>1 DEF JobOK
  <2>3. pc'[t] = "answer" /\ job'[t] = job[t] /\ job[t].id \in Ids \ mixed => Honest(t)'
    BY <1>1, <1>2, <2>1 DEF JobOK, Honest, Exists
  <2> QED BY <1>1, <1>2, <2>1, <2>2, <2>3, WentOn
<1>4. CASE Answer(t)
  <2>1. pc[t] = "answer" /\ Proceed(t, "idle", NoJob) /\ NoJob \in JobOf
    BY <1>4 DEF Answer, At, NoJob, JobOf, Ops
  <2> QED BY <1>1, <1>2, <2>1, WentOn
<1> QED BY <1>3, <1>4

-----------------------------------------------------------------------------
(* Steps that write records and clients. *)

\* A handler at one of these steps names a host.
LEMMA Named ==
  ASSUME HostInv, NEW t \in Handlers, pc[t] \notin {"idle", "probe", "create"}
  PROVE  job[t].id \in Ids /\ job[t].id \in used \cup {LocalHostID}
BY DEF HostInv, JobOK, TypeOK, Ids

\* StoreClient: the client is built for the endpoint the request goes by.
LEMMA StoreKeeps == ASSUME HostInv, NEW t \in Handlers, StoreClient(t) PROVE HostInv'
<1>1. /\ up /\ pc[t] = "store" /\ UNCHANGED <<up, used, mixed, rec, faults, blind>>
      /\ job[t] \in JobOf /\ TypeOK
  BY DEF StoreClient, At, HostInv, TypeOK, JobOf
<1>2. JobOK(t) /\ Honest(t)
  BY DEF HostInv
<1>3. CASE Proceed(t, "idle", NoJob) /\ UNCHANGED client
  <2>1. "idle" \in Steps /\ NoJob \in JobOf
    BY DEF Steps, NoJob, JobOf, Ops
  <2> QED BY <1>1, <1>3, <2>1, WentOn DEF TypeOK
<1>4. ASSUME NEW h, h = job[t].id, client' = [client EXCEPT ![h] = job[t].ep], Proceed(t, Cached(t), job[t])
      PROVE  HostInv'
  <2>1. h \in Ids /\ h \in used \cup {LocalHostID} /\ job[t].ep \in Endpoint
    BY <1>1, <1>2, <1>4, Named DEF JobOK
  <2>2. client' \in [Ids -> Endpoint \cup {None}] /\ client'[h] = job[t].ep
        /\ \A g \in Ids \ {h} : client'[g] = client[g]
    BY <1>1, <1>4, <2>1 DEF TypeOK
  <2>3. /\ Cached(t) \in Steps
        /\ Cached(t) # "idle" => \/ Cached(t) = "call" /\ job[t].op = "operate"
                                 \/ Cached(t) = "list" /\ job[t].op = "summary"
    BY CachedSteps
  <2>4. /\ pc' \in [Handlers -> Steps] /\ job' \in [Handlers -> JobOf]
        /\ pc'[t] = Cached(t)
        /\ Cached(t) # "idle" => job'[t] = job[t]
        /\ Cached(t) = "idle" => job'[t] = NoJob
        /\ \A u \in Handlers \ {t} : pc'[u] = pc[u] /\ job'[u] = job[u]
    BY <1>1, <1>4, <2>3, Moved
  <2>5. TypeOK'
    BY <1>1, <2>2, <2>4 DEF TypeOK, JobOf
  <2>6. JobOK(t)'
    BY <1>1, <1>2, <2>1, <2>3, <2>4, Names DEF JobOK
  <2>7. ASSUME h \in Ids \ mixed
        PROVE  Honest(t)' /\ HostOK(h)' /\ \A u \in Handlers \ {t} : Busy(u, h) => Honest(u)'
    <3>1. Exists(h) => job[t].ep = rec[h].ep
      BY <1>1, <1>2, <1>4, <2>7 DEF Honest, JobOK
    <3>2. Engine = "bolt" => Exists(h)
      BY <1>1, <1>2, <1>4, <2>7 DEF Honest, JobOK
    <3>3. ClientOK(h)'
      BY <1>1, <2>2, <3>1, <3>2 DEF ClientOK, Exists
    <3>4. StatusOK(h)'
      <4>1. \A u \in Handlers : Busy(u, h) /\ pc[u] \in {"drop", "test"} =>
              Busy(u, h)' /\ pc'[u] = pc[u] /\ job'[u].op = job[u].op
        BY <1>1, <2>4 DEF Busy
      <4> QED BY <1>1, <2>7, <4>1 DEF HostInv, HostOK, StatusOK, Exists
    <3>5. Honest(t)'
      <4>1. CASE Cached(t) = "idle"
        BY <2>4, <4>1 DEF Honest
      <4>2. CASE Cached(t) # "idle"
        BY <1>1, <1>2, <1>4, <2>1, <2>2, <2>3, <2>4, <2>7, <4>2, Names DEF Honest, Exists
      <4> QED BY <4>1, <4>2
    <3>6. ASSUME NEW u \in Handlers \ {t}, Busy(u, h) PROVE Honest(u)'
      <4>1. Honest(u) /\ JobOK(u) /\ Apart(u, t)
        BY DEF HostInv
      <4>2. pc[u] # "erase"
        BY <1>1, <1>4, <2>7, <3>6, <4>1 DEF JobOK, Apart, Busy, Writes
      <4> QED BY <1>1, <2>1, <2>2, <2>4, <2>7, <3>6, <4>1, <4>2, Names DEF Honest, Exists, Busy
    <3> QED BY <2>7, <3>3, <3>4, <3>5, <3>6 DEF HostOK
  <2>8. pc'[t] # "idle" => job'[t].id = h /\ job'[t].op = job[t].op
    BY <1>4, <2>4
  <2>9. \A g \in Ids \ {h} : rec'[g] = rec[g] /\ client'[g] = client[g]
    BY <1>1, <2>2
  <2> QED BY <1>1, <1>4, <2>1, <2>4, <2>5, <2>6, <2>7, <2>8, <2>9, Local
<1> QED BY <1>3, <1>4 DEF StoreClient

\* What the write of a host's record does to it.
LEMMA WrittenHost ==
  ASSUME HostInv, NEW t \in Handlers, NEW h \in Ids, h = job[t].id, job[t].ep \in Endpoint,
         rec' = Written(t)
  PROVE  /\ rec' \in [Ids -> Record \cup {None}]
         /\ \A g \in Ids \ {h} : rec'[g] = rec[g]
         /\ Exists(h)' <=> Exists(h)
         /\ Exists(h) => /\ rec'[h].ep = job[t].ep
                         /\ rec'[h].stale <=> (rec[h].stale \/ rec[h].ep # job[t].ep)
                         /\ rec'[h].imm <=> rec[h].imm
<1>1. rec \in [Ids -> Record \cup {None}] /\ None \notin Record
  BY Names DEF HostInv, TypeOK
<1>2. CASE ~Exists(h)
  BY <1>1, <1>2 DEF Written, Exists
<1>3. CASE Exists(h)
  <2> DEFINE old == rec[h].stale
             b == old \/ rec[h].ep # job[t].ep
  <2>1. rec[h] \in Record
    BY <1>1, <1>3 DEF Exists
  <2>2. b \in BOOLEAN /\ (b <=> old \/ rec[h].ep # job[t].ep)
    BY <2>1 DEF Record
  <2>3. rec' = [rec EXCEPT ![h] = [rec[h] EXCEPT !.ep = job[t].ep, !.stale = b]]
    BY <1>1, <1>3, <2>1 DEF Written, Exists, Record
  <2> HIDE DEF b, old
  <2>4. rec'[h] = [rec[h] EXCEPT !.ep = job[t].ep, !.stale = b]
    BY <1>1, <2>3
  <2>5. rec'[h] \in Record /\ rec'[h].ep = job[t].ep /\ rec'[h].stale = b
        /\ (rec'[h].imm <=> rec[h].imm)
    <3> HIDE DEF Endpoint
    <3> QED BY <2>1, <2>2, <2>4 DEF Record
  <2>6. \A g \in Ids \ {h} : rec'[g] = rec[g]
    BY <1>1, <2>3
  <2>7. rec' \in [Ids -> Record \cup {None}]
    BY <1>1, <2>3, <2>4, <2>5
  <2> QED BY <1>1, <1>3, <2>2, <2>5, <2>6, <2>7 DEF Exists, old
<1> QED BY <1>2, <1>3

\* HostUpdate: the record is written, the client not yet dropped.
LEMMA PutKeeps == ASSUME HostInv, NEW t \in Handlers, HostUpdate(t) PROVE HostInv'
<1>1. /\ up /\ pc[t] = "put" /\ UNCHANGED <<up, used, mixed, client>> /\ blind' \in BOOLEAN
      /\ faults' \in 0 .. MaxFaults /\ job[t] \in JobOf /\ TypeOK
  <2>1. UNCHANGED faults \/ Fail
    BY DEF HostUpdate
  <2>2. faults' \in 0 .. MaxFaults
    BY <2>1, Names DEF Fail, HostInv, TypeOK
  <2> QED BY <2>2 DEF HostUpdate, At, HostInv, TypeOK, JobOf
<1>2. JobOK(t) /\ Honest(t) /\ {"idle", "drop"} \subseteq Steps
  BY DEF HostInv, Steps
<1>3. CASE Proceed(t, "idle", NoJob) /\ UNCHANGED rec
  <2>1. NoJob \in JobOf
    BY DEF NoJob, JobOf, Ops
  <2> QED BY <1>1, <1>2, <1>3, <2>1, WentOn
<1>4. ASSUME NEW h, h = job[t].id, Exists(h) \/ Engine = "mongo", rec' = Written(t), Proceed(t, "drop", job[t])
      PROVE  HostInv'
  <2>1. h \in Ids /\ h \in used \cup {LocalHostID} /\ job[t].ep \in Endpoint /\ job[t].op = "save"
    BY <1>1, <1>2, <1>4, Named DEF JobOK
  <2>2. /\ rec' \in [Ids -> Record \cup {None}]
        /\ \A g \in Ids \ {h} : rec'[g] = rec[g]
        /\ Exists(h)' <=> Exists(h)
        /\ Exists(h) => rec'[h].ep = job[t].ep
    BY <1>4, <2>1, WrittenHost
  <2>3. /\ pc' \in [Handlers -> Steps] /\ job' \in [Handlers -> JobOf]
        /\ pc'[t] = "drop" /\ job'[t] = job[t]
        /\ \A u \in Handlers \ {t} : pc'[u] = pc[u] /\ job'[u] = job[u]
    BY <1>1, <1>2, <1>4, Moved
  <2>4. TypeOK'
    BY <1>1, <2>2, <2>3 DEF TypeOK, JobOf
  <2>5. JobOK(t)'
    BY <1>1, <1>2, <2>1, <2>3, Names, <1>4 DEF JobOK
  <2>6. Busy(t, h)' /\ pc'[t] = "drop" /\ job'[t].op = "save"
    BY <1>4, <2>1, <2>3 DEF Busy
  <2>7. ASSUME h \in Ids \ mixed PROVE Honest(t)' /\ HostOK(h)'
    <3>1. Honest(t)'
      BY <1>4, <2>1, <2>2, <2>3 DEF Honest
    <3>2. HostOK(h)
      BY <2>1 DEF HostInv
    <3>3. ClientOK(h)'
      BY <1>1, <2>2, <2>6, <2>7, <3>2 DEF HostOK, ClientOK
    <3>4. StatusOK(h)'
      BY <2>6 DEF StatusOK
    <3> QED BY <3>1, <3>3, <3>4 DEF HostOK
  <2>8. Writes(job[t].op)
    BY <2>1 DEF Writes
  <2>9. pc'[t] # "idle" => job'[t].id = h /\ job'[t].op = job[t].op
    BY <1>4, <2>3
  <2>10. \A g \in Ids \ {h} : rec'[g] = rec[g] /\ client'[g] = client[g]
    BY <1>1, <2>2
  <2> QED BY <1>1, <1>4, <2>1, <2>3, <2>4, <2>5, <2>7, <2>8, <2>9, <2>10, Local
<1> QED BY <1>3, <1>4 DEF HostUpdate

\* The immutable host's record keeps its endpoint.
LEMMA CosmeticKeeps == ASSUME HostInv, NEW t \in Handlers, UpdateImmutable(t) PROVE HostInv'
<1>1. /\ up /\ pc[t] = "cosmetic" /\ UNCHANGED <<up, used, mixed, client, faults, blind>>
      /\ rec' = Written(t) /\ Proceed(t, "idle", NoJob) /\ TypeOK
  BY DEF UpdateImmutable, At, HostInv
<1>2. JobOK(t) /\ Honest(t)
  BY DEF HostInv
<1>3. ASSUME NEW h, h = job[t].id PROVE HostInv'
  <2>1. h \in Ids /\ h \in used \cup {LocalHostID} /\ job[t].ep \in Endpoint /\ job[t].op = "save"
    BY <1>1, <1>2, <1>3, Named DEF JobOK
  <2>2. /\ rec' \in [Ids -> Record \cup {None}]
        /\ \A g \in Ids \ {h} : rec'[g] = rec[g]
        /\ Exists(h)' <=> Exists(h)
        /\ Exists(h) => /\ rec'[h].ep = job[t].ep
                        /\ rec'[h].stale <=> (rec[h].stale \/ rec[h].ep # job[t].ep)
    BY <1>1, <1>3, <2>1, WrittenHost
  <2>3. /\ pc' \in [Handlers -> Steps] /\ job' \in [Handlers -> JobOf]
        /\ pc'[t] = "idle"
        /\ \A u \in Handlers \ {t} : pc'[u] = pc[u] /\ job'[u] = job[u]
        /\ JobOK(t)' /\ Honest(t)'
    BY <1>1, Done
  <2>4. TypeOK'
    BY <1>1, <2>2, <2>3 DEF TypeOK, JobOf
  <2>5. ASSUME h \in Ids \ mixed PROVE HostOK(h)'
    <3>1. Exists(h) /\ job[t].ep = rec[h].ep
      BY <1>1, <1>2, <1>3, <2>5 DEF Honest
    <3>2. \A u \in Handlers : Busy(u, h) /\ pc[u] \in {"drop", "test"} =>
            Busy(u, h)' /\ pc'[u] = pc[u] /\ job'[u].op = job[u].op
      BY <1>1, <2>3 DEF Busy
    <3>3. HostOK(h)
      BY <2>1 DEF HostInv
    <3>4. ClientOK(h)'
      BY <1>1, <2>2, <2>5, <3>1, <3>2, <3>3 DEF HostOK, ClientOK
    <3>5. StatusOK(h)'
      BY <2>2, <2>5, <3>1, <3>2, <3>3 DEF HostOK, StatusOK
    <3> QED BY <3>4, <3>5 DEF HostOK
  <2>6. Writes(job[t].op) /\ pc[t] # "idle"
    BY <1>1, <2>1 DEF Writes
  <2>7. \A g \in Ids \ {h} : rec'[g] = rec[g] /\ client'[g] = client[g]
    BY <1>1, <2>2
  <2> QED BY <1>1, <1>3, <2>1, <2>3, <2>4, <2>5, <2>6, <2>7, Local
<1> QED BY <1>3

\* Update and Delete drop the client.
LEMMA DropKeeps ==
  ASSUME HostInv, NEW t \in Handlers, DropClient(t) \/ Forget(t) PROVE HostInv'
<1>1. /\ up /\ UNCHANGED <<up, used, mixed, rec, faults, blind>> /\ TypeOK
      /\ RemoveClient(job[t].id) /\ job[t] \in JobOf
  BY DEF DropClient, Forget, At, HostInv, TypeOK, JobOf
<1>2. JobOK(t) /\ Honest(t) /\ {"idle", "test", "erase"} \subseteq Steps
  BY DEF HostInv, Steps
<1>3. ASSUME NEW h, h = job[t].id, NEW next,
             Proceed(t, next, job[t]),
             \/ pc[t] = "drop" /\ next = AfterSave(t) /\ next \in {"idle", "test"}
             \/ pc[t] = "forget" /\ next = "erase"
      PROVE  HostInv'
  <2>1. /\ h \in Ids /\ h \in used \cup {LocalHostID} /\ Writes(job[t].op)
        /\ pc[t] = "drop" => job[t].op = "save" /\ job[t].ep \in Endpoint
        /\ pc[t] = "forget" => job[t].op = "delete"
    BY <1>2, <1>3, Named DEF JobOK, Writes
  <2>2. client' \in [Ids -> Endpoint \cup {None}] /\ client'[h] = None
        /\ \A g \in Ids \ {h} : client'[g] = client[g]
    BY <1>1, <1>3, <2>1 DEF RemoveClient, TypeOK
  <2>3. /\ pc' \in [Handlers -> Steps] /\ job' \in [Handlers -> JobOf]
        /\ pc'[t] = next
        /\ next # "idle" => job'[t] = job[t]
        /\ next = "idle" => job'[t] = NoJob
        /\ \A u \in Handlers \ {t} : pc'[u] = pc[u] /\ job'[u] = job[u]
    BY <1>1, <1>2, <1>3, Moved
  <2>4. TypeOK'
    BY <1>1, <2>2, <2>3 DEF TypeOK, JobOf
  <2>5. JobOK(t)'
    BY <1>1, <1>2, <1>3, <2>1, <2>3, Names DEF JobOK
  <2>6. ASSUME h \in Ids \ mixed PROVE Honest(t)' /\ HostOK(h)'
    <3>1. pc[t] = "drop" => (Exists(h) => job[t].ep = rec[h].ep) /\ (Engine = "bolt" => Exists(h))
      BY <1>2, <1>3, <2>1, <2>6 DEF Honest
    <3>2. Honest(t)'
      BY <1>1, <1>3, <2>1, <2>2, <2>3, <3>1 DEF Honest, Exists
    <3>3. ClientOK(h)'
      BY <1>1, <2>2 DEF ClientOK, Exists
    <3>4. HostOK(h)
      BY <2>1 DEF HostInv
    <3>5. StatusOK(h)'
      <4> SUFFICES ASSUME Exists(h), ~Federated(rec[h].ep), rec[h].stale
                   PROVE  \E u \in Handlers : Busy(u, h)' /\ job'[u].op = "save" /\ pc'[u] \in {"drop", "test"}
        BY <1>1 DEF StatusOK, Exists
      <4>1. PICK u \in Handlers : Busy(u, h) /\ job[u].op = "save" /\ pc[u] \in {"drop", "test"}
        BY <2>6, <3>4 DEF HostOK, StatusOK
      <4>2. CASE u # t
        BY <2>3, <4>1, <4>2 DEF Busy
      <4>3. CASE u = t
        <5>1. next = "test"
          BY <1>3, <3>1, <4>1, <4>3 DEF AfterSave
        <5> QED BY <1>3, <2>3, <4>1, <4>3, <5>1 DEF Busy
      <4> QED BY <4>2, <4>3
    <3> QED BY <3>2, <3>3, <3>5 DEF HostOK
  <2>7. pc'[t] # "idle" => job'[t].id = h /\ job'[t].op = job[t].op
    BY <1>3, <2>3
  <2>8. (\A g \in Ids \ {h} : rec'[g] = rec[g] /\ client'[g] = client[g]) /\ pc[t] # "idle"
    BY <1>1, <1>3, <2>2
  <2> QED BY <1>1, <1>3, <2>1, <2>3, <2>4, <2>5, <2>6, <2>7, <2>8, Local
<1>4. CASE DropClient(t)
  <2>1. AfterSave(t) \in {"idle", "test"}
    BY DEF AfterSave
  <2> QED BY <1>3, <1>4, <2>1 DEF DropClient, At
<1>5. CASE Forget(t)
  BY <1>3, <1>5 DEF Forget, At
<1> QED BY <1>4, <1>5

\* HostDelete: the client is gone already.
LEMMA EraseKeeps == ASSUME HostInv, NEW t \in Handlers, HostDelete(t) PROVE HostInv'
<1>1. /\ up /\ pc[t] = "erase" /\ UNCHANGED <<up, used, mixed, client>> /\ blind' \in BOOLEAN
      /\ faults' \in 0 .. MaxFaults /\ Proceed(t, "idle", NoJob) /\ TypeOK
  <2>1. UNCHANGED faults \/ Fail
    BY DEF HostDelete
  <2>2. faults' \in 0 .. MaxFaults
    BY <2>1, Names DEF Fail, HostInv, TypeOK
  <2> QED BY <2>2 DEF HostDelete, At, HostInv, TypeOK
<1>2. JobOK(t) /\ Honest(t)
  BY DEF HostInv
<1>3. CASE UNCHANGED rec
  <2>1. NoJob \in JobOf /\ "idle" \in Steps
    BY DEF NoJob, JobOf, Ops, Steps
  <2> QED BY <1>1, <1>3, <2>1, WentOn
<1>4. ASSUME NEW h, h = job[t].id, rec' = [rec EXCEPT ![h] = None] PROVE HostInv'
  <2>1. h \in Ids /\ h \in used \cup {LocalHostID} /\ Writes(job[t].op)
    BY <1>1, <1>2, <1>4, Named DEF JobOK, Writes
  <2>2. rec' \in [Ids -> Record \cup {None}] /\ rec'[h] = None
        /\ \A g \in Ids \ {h} : rec'[g] = rec[g]
    BY <1>1, <1>4, <2>1 DEF TypeOK
  <2>3. /\ pc' \in [Handlers -> Steps] /\ job' \in [Handlers -> JobOf]
        /\ pc'[t] = "idle"
        /\ \A u \in Handlers \ {t} : pc'[u] = pc[u] /\ job'[u] = job[u]
        /\ JobOK(t)' /\ Honest(t)'
    BY <1>1, Done
  <2>4. TypeOK'
    BY <1>1, <2>2, <2>3 DEF TypeOK, JobOf
  <2>5. h \in Ids \ mixed => HostOK(h)'
    BY <1>1, <1>2, <1>4, <2>2 DEF Honest, HostOK, ClientOK, StatusOK, Exists
  <2>6. \A g \in Ids \ {h} : rec'[g] = rec[g] /\ client'[g] = client[g]
    BY <1>1, <2>2
  <2> QED BY <1>1, <1>4, <2>1, <2>3, <2>4, <2>5, <2>6, Local
<1> QED BY <1>3, <1>4 DEF HostDelete

\* syncHost: the status is measured at the endpoint the request goes by.
LEMMA SyncKeeps == ASSUME HostInv, NEW t \in Handlers, syncHost(t) PROVE HostInv'
<1>1. /\ up /\ pc[t] = "test" /\ UNCHANGED <<up, used, mixed, client, faults, blind>>
      /\ TypeOK /\ job[t] \in JobOf
  BY DEF syncHost, At, HostInv, TypeOK, JobOf
<1>2. JobOK(t) /\ Honest(t) /\ {"idle", "cache"} \subseteq Steps
  BY DEF HostInv, Steps
<1>3. ASSUME NEW h, h = job[t].id, NEW a \in {"connected", "error"}, NEW next \in {"cache", "idle"},
             rec' = IF Exists(h)
                    THEN [rec EXCEPT ![h].status = a, ![h].stale = rec[h].ep # job[t].ep] ELSE rec,
             Proceed(t, next, job[t])
      PROVE  HostInv'
  <2>1. /\ h \in Ids /\ h \in used \cup {LocalHostID} /\ job[t].ep \in Endpoint
        /\ job[t].op \in {"save", "create", "sync"}
    BY <1>1, <1>2, <1>3, Named DEF JobOK
  <2>2. /\ rec' \in [Ids -> Record \cup {None}]
        /\ \A g \in Ids \ {h} : rec'[g] = rec[g]
        /\ Exists(h)' <=> Exists(h)
        /\ Exists(h) => rec'[h].ep = rec[h].ep /\ (rec'[h].stale <=> rec[h].ep # job[t].ep)
    <3>0. rec \in [Ids -> Record \cup {None}] /\ None \notin Record
      BY <1>1, Names DEF TypeOK
    <3>1. CASE ~Exists(h)
      BY <1>3, <3>0, <3>1 DEF Exists
    <3>2. CASE Exists(h)
      <4> DEFINE b == rec[h].ep # job[t].ep
      <4>1. rec[h] \in Record /\ b \in BOOLEAN /\ (b <=> rec[h].ep # job[t].ep)
        BY <2>1, <3>0, <3>2 DEF Exists
      <4>2. rec' = [rec EXCEPT ![h] = [rec[h] EXCEPT !.status = a, !.stale = b]]
        BY <1>3, <2>1, <3>0, <3>2
      <4> HIDE DEF b
      <4>3. rec'[h] = [rec[h] EXCEPT !.status = a, !.stale = b]
        BY <2>1, <3>0, <4>2
      <4>4. rec'[h] \in Record /\ rec'[h].ep = rec[h].ep /\ rec'[h].stale = b
        <5> HIDE DEF Endpoint
        <5> QED BY <4>1, <4>3 DEF Record
      <4>5. /\ rec' \in [Ids -> Record \cup {None}]
            /\ \A g \in Ids \ {h} : rec'[g] = rec[g]
        BY <2>1, <3>0, <4>2, <4>3, <4>4
      <4> QED BY <3>0, <3>2, <4>1, <4>4, <4>5 DEF Exists
    <3> QED BY <3>1, <3>2
  <2>3. /\ pc' \in [Handlers -> Steps] /\ job' \in [Handlers -> JobOf]
        /\ pc'[t] = next
        /\ next # "idle" => job'[t] = job[t]
        /\ next = "idle" => job'[t] = NoJob
        /\ \A u \in Handlers \ {t} : pc'[u] = pc[u] /\ job'[u] = job[u]
    BY <1>1, <1>2, <1>3, Moved
  <2>4. TypeOK'
    BY <1>1, <2>2, <2>3 DEF TypeOK, JobOf
  <2>5. JobOK(t)'
    BY <1>1, <1>2, <1>3, <2>1, <2>3, Names DEF JobOK
  <2>6. ASSUME h \in Ids \ mixed
        PROVE  Honest(t)' /\ HostOK(h)' /\ \A u \in Handlers \ {t} : Busy(u, h) => Honest(u)'
    <3>1. /\ Exists(h) => job[t].ep = rec[h].ep
          /\ job[t].op = "sync" => Exists(h)
          /\ Engine = "bolt" => Exists(h)
      BY <1>1, <1>2, <1>3, <2>1, <2>6 DEF Honest
    <3>2. Honest(t)'
      BY <1>1, <1>3, <2>1, <2>2, <2>3, <3>1 DEF Honest
    <3>3. HostOK(h)
      BY <2>1 DEF HostInv
    <3>4. \A u \in Handlers : Busy(u, h) /\ pc[u] = "drop" => Busy(u, h)' /\ pc'[u] = "drop"
      BY <1>1, <2>3 DEF Busy
    <3>5. ClientOK(h)'
      BY <1>1, <2>2, <2>6, <3>3, <3>4 DEF HostOK, ClientOK
    <3>6. StatusOK(h)'
      BY <2>2, <3>1 DEF StatusOK
    <3>7. ASSUME NEW u \in Handlers \ {t}, Busy(u, h) PROVE Honest(u)'
      <4>1. Honest(u)
        BY DEF HostInv
      <4> QED BY <1>1, <2>2, <2>3, <2>6, <3>7, <4>1 DEF Honest, Busy
    <3> QED BY <3>2, <3>5, <3>6, <3>7 DEF HostOK
  <2>7. pc'[t] # "idle" => job'[t].id = h /\ job'[t].op = job[t].op
    BY <1>3, <2>3
  <2>8. (\A g \in Ids \ {h} : rec'[g] = rec[g] /\ client'[g] = client[g]) /\ pc[t] # "idle"
    BY <1>1, <2>2
  <2> QED BY <1>1, <1>3, <2>1, <2>3, <2>4, <2>5, <2>6, <2>7, <2>8, Local
<1> QED BY <1>3, Zenon DEF syncHost

\* HostCreate: nobody knows the new host yet.
LEMMA CreatedKeeps == ASSUME HostInv, NEW t \in Handlers, HostCreate(t) PROVE HostInv'
<1>1. /\ up /\ pc[t] = "create" /\ UNCHANGED <<up, mixed, client>> /\ blind' \in BOOLEAN
      /\ faults' \in 0 .. MaxFaults /\ job[t] \in JobOf /\ TypeOK
  <2>1. UNCHANGED faults \/ Fail
    BY DEF HostCreate
  <2>2. faults' \in 0 .. MaxFaults
    BY <2>1, Names DEF Fail, HostInv, TypeOK
  <2> QED BY <2>2 DEF HostCreate, At, HostInv, TypeOK, JobOf
<1>2. JobOK(t) /\ Honest(t) /\ {"idle", "test"} \subseteq Steps
  BY DEF HostInv, Steps
<1>3. CASE Proceed(t, "idle", NoJob) /\ UNCHANGED <<used, rec>>
  <2>1. NoJob \in JobOf
    BY DEF NoJob, JobOf, Ops
  <2> QED BY <1>1, <1>2, <1>3, <2>1, WentOn
<1>4. ASSUME NEW h \in Host \ used, used' = used \cup {h},
             rec' = [rec EXCEPT ![h] = [ep |-> job[t].ep, imm |-> FALSE,
                                        status |-> "disconnected", stale |-> FALSE]],
             Proceed(t, AfterSave(t), [job[t] EXCEPT !.id = h])
      PROVE  HostInv'
  <2> DEFINE new == [ep |-> job[t].ep, imm |-> FALSE, status |-> "disconnected", stale |-> FALSE]
             j == [job[t] EXCEPT !.id = h]
  <2>1. h \in Ids /\ h # None /\ h # LocalHostID /\ rec[h] = None /\ client[h] = None
    BY Names DEF HostInv, Absent
  <2>2. job[t].ep \in Endpoint /\ job[t].op = "create"
    BY <1>1, <1>2 DEF JobOK
  <2>3. new \in Record /\ new.ep = job[t].ep /\ ~new.stale
    BY <2>2 DEF Record
  <2>4. j \in JobOf /\ j.op = "create" /\ j.id = h /\ j.ep = job[t].ep
    <3> HIDE DEF Ops, Ids, Endpoint
    <3> QED BY <1>1, <2>1, <2>2 DEF JobOf
  <2>5. AfterSave(t) \in {"idle", "test"}
    BY DEF AfterSave
  <2>6. rec' = [rec EXCEPT ![h] = new] /\ Proceed(t, AfterSave(t), j)
    BY <1>4
  <2> HIDE DEF new, j
  <2>7. /\ rec' \in [Ids -> Record \cup {None}] /\ rec'[h] = new
        /\ \A g \in Ids \ {h} : rec'[g] = rec[g]
    BY <1>1, <2>1, <2>3, <2>6 DEF TypeOK
  <2>8. /\ pc' \in [Handlers -> Steps] /\ job' \in [Handlers -> JobOf]
        /\ pc'[t] = AfterSave(t)
        /\ AfterSave(t) # "idle" => job'[t] = j
        /\ AfterSave(t) = "idle" => job'[t] = NoJob
        /\ \A u \in Handlers \ {t} : pc'[u] = pc[u] /\ job'[u] = job[u]
    BY <1>1, <1>2, <2>4, <2>5, <2>6, Moved
  <2>9. TypeOK'
    BY <1>1, <1>4, <2>7, <2>8 DEF TypeOK, JobOf
  <2>10. \A u \in Handlers : pc[u] # "idle" => job[u].id # h
    BY <2>1 DEF HostInv, JobOK
  <2>11. Absent'
    BY <1>1, <1>4, <2>7, Names DEF HostInv, Absent
  <2>12. ASSUME NEW u \in Handlers PROVE JobOK(u)' /\ Honest(u)'
    <3>1. CASE u # t
      <4>1. JobOK(u)'
        BY <1>4, <2>8, <3>1 DEF HostInv, JobOK
      <4>2. Honest(u)'
        BY <1>1, <2>7, <2>8, <2>10, <3>1 DEF HostInv, Honest, Exists
      <4> QED BY <4>1, <4>2
    <3>2. CASE u = t
      <4>1. JobOK(t)'
        BY <1>4, <2>1, <2>2, <2>4, <2>5, <2>8 DEF JobOK
      <4>2. Honest(t)'
        BY <1>1, <2>1, <2>3, <2>4, <2>5, <2>7, <2>8, Names DEF Honest, Exists
      <4> QED BY <3>2, <4>1, <4>2
    <3> QED BY <3>1, <3>2
  <2>13. ASSUME NEW u \in Handlers, NEW v \in Handlers PROVE Apart(u, v)'
    <3>1. CASE u = t \/ v = t
      BY <1>1, <2>4, <2>8, <2>10, <3>1 DEF Apart, Busy, Writes
    <3>2. CASE u # t /\ v # t
      BY <1>1, <2>8, <3>2 DEF HostInv, Apart, Busy
    <3> QED BY <3>1, <3>2
  <2>14. ASSUME NEW g \in Ids PROVE HostOK(g)'
    <3>1. CASE g = h
      BY <1>1, <2>1, <2>3, <2>7, <3>1, Names DEF HostOK, ClientOK, StatusOK, Exists
    <3>2. CASE g # h
      <4>1. \A u \in Handlers : Busy(u, g) /\ pc[u] \in {"drop", "test"} =>
              Busy(u, g)' /\ pc'[u] = pc[u] /\ job'[u].op = job[u].op
        BY <1>1, <2>8 DEF Busy
      <4>2. HostOK(g) /\ rec'[g] = rec[g]
        BY <2>7, <3>2 DEF HostInv
      <4> QED BY <1>1, <4>1, <4>2 DEF HostOK, ClientOK, StatusOK, Exists
    <3> QED BY <3>1, <3>2
  <2> QED BY <2>9, <2>11, <2>12, <2>13, <2>14 DEF HostInv
<1> QED BY <1>3, <1>4 DEF HostCreate

-----------------------------------------------------------------------------
(* Boot and crash. *)

\* A crash ends all requests and empties the cache.
LEMMA CrashKeeps == ASSUME HostInv, Crash PROVE HostInv'
<1>0. TypeOK
  BY DEF HostInv
<1>1. /\ \A t \in Handlers : pc'[t] = "idle" /\ job'[t] = NoJob
      /\ client' = [h \in Ids |-> None] /\ UNCHANGED <<rec, used, faults, blind>> /\ up' = FALSE
  BY DEF Crash
<1>2. /\ mixed \subseteq mixed' /\ mixed' \subseteq Ids
      /\ \A h \in Ids \ mixed', t \in Handlers : ~(Busy(t, h) /\ Writes(job[t].op))
  BY <1>0 DEF Crash, TypeOK
<1>3. TypeOK'
  <2>1. pc' \in [Handlers -> Steps] /\ job' \in [Handlers -> JobOf]
    <3>1. "idle" \in Steps /\ NoJob \in JobOf
      BY DEF Steps, NoJob, JobOf, Ops
    <3> HIDE DEF Steps, JobOf, NoJob
    <3> QED BY <3>1 DEF Crash
  <2>2. client' \in [Ids -> Endpoint \cup {None}]
    BY <1>1
  <2> QED BY <1>0, <1>1, <1>2, <2>1, <2>2 DEF TypeOK, JobOf
<1>4. Absent'
  BY <1>1, Names DEF HostInv, Absent
<1>5. \A t, u \in Handlers : JobOK(t)' /\ Honest(t)' /\ Apart(t, u)'
  BY <1>1 DEF JobOK, Honest, Apart, Busy
<1>6. ASSUME NEW h \in Ids PROVE HostOK(h)'
  <2>1. \A t \in Handlers : ~(h \notin mixed' /\ Busy(t, h) /\ job[t].op = "save")
    BY <1>2 DEF Writes
  <2> QED BY <1>1, <1>2, <2>1 DEF HostInv, HostOK, ClientOK, StatusOK, Exists
<1> QED BY <1>3, <1>4, <1>5, <1>6 DEF HostInv

\* A boot may drop or create the local host, in a process without clients.
LEMMA BootKeeps == ASSUME HostInv, Boot PROVE HostInv'
<1>0. TypeOK
  BY DEF HostInv
<1>1. /\ ~up /\ up' = TRUE /\ UNCHANGED <<used, client, mixed>>
      /\ \A t \in Handlers : pc[t] = "idle" /\ job[t] = NoJob
      /\ \A h \in Ids : client[h] = None
  BY DEF Boot, HostInv, Absent, JobOK
<1>2. faults' \in 0 .. MaxFaults /\ up' \in BOOLEAN /\ blind' \in BOOLEAN
  <2>1. UNCHANGED faults \/ Fail
    BY DEF Boot
  <2>2. faults' \in 0 .. MaxFaults
    BY <2>1, Names, <1>0 DEF Fail, TypeOK
  <2>3. up' \in BOOLEAN
    BY DEF Boot
  <2>4. blind' \in BOOLEAN
    BY <1>0 DEF Boot, TypeOK
  <2> QED BY <2>2, <2>3, <2>4
<1>u. used \subseteq Host /\ client \in [Ids -> Endpoint \cup {None}] /\ mixed \subseteq Ids
  BY <1>0 DEF TypeOK
<1>w. used' \subseteq Host /\ client' \in [Ids -> Endpoint \cup {None}] /\ mixed' \subseteq Ids
  BY <1>1, <1>u
<1>3. Absent /\ LocalHostID \in Ids /\ LocalHostID \notin Host /\ "boot" \in Handlers
  BY Names DEF HostInv
<1>4. ASSUME rec' \in [Ids -> Record \cup {None}], \A h \in Host : rec'[h] = rec[h],
             Exists(LocalHostID)' => \/ rec'[LocalHostID] = rec[LocalHostID]
                                     \/ ~rec'[LocalHostID].stale,
             UNCHANGED <<pc, job>>
      PROVE  HostInv'
  <2>1. TypeOK'
    <3>1. pc' \in [Handlers -> Steps] /\ job' \in [Handlers -> JobOf]
      BY <1>0, <1>4 DEF TypeOK, JobOf
    <3> QED BY <1>2, <1>4, <1>w, <3>1 DEF TypeOK, JobOf
  <2>2. Absent'
    BY <1>1, <1>3, <1>4 DEF Absent
  <2>3. \A t, u \in Handlers : JobOK(t)' /\ Honest(t)' /\ Apart(t, u)'
    BY <1>1, <1>4 DEF JobOK, Honest, Apart, Busy
  <2>4. ASSUME NEW h \in Ids PROVE HostOK(h)'
    <3>1. ClientOK(h)'
      BY <1>1 DEF ClientOK, Exists
    <3>2. h \notin mixed => StatusOK(h)'
      <4>1. h \notin mixed => (Exists(h) /\ ~Federated(rec[h].ep) => ~rec[h].stale)
        BY <1>1 DEF HostInv, HostOK, StatusOK, Busy
      <4>2. h \in Host \/ h = LocalHostID
        BY DEF Ids
      <4> QED BY <1>4, <4>1, <4>2 DEF StatusOK, Exists
    <3> QED BY <1>1, <3>1, <3>2 DEF HostOK
  <2> QED BY <2>1, <2>2, <2>3, <2>4 DEF HostInv
<1>5. CASE UNCHANGED <<rec, pc, job>>
  BY <1>0, <1>4, <1>5 DEF TypeOK, Ids
<1>6. CASE rec' = [rec EXCEPT ![LocalHostID] = None] /\ UNCHANGED <<pc, job>>
  <2>1. rec' \in [Ids -> Record \cup {None}] /\ (\A h \in Host : rec'[h] = rec[h])
        /\ rec'[LocalHostID] = None
    BY <1>0, <1>3, <1>6, Names DEF TypeOK
  <2> QED BY <1>4, <1>6, <2>1 DEF Exists
<1>7. ASSUME rec' = [rec EXCEPT ![LocalHostID] =
                       [ep |-> "sock", imm |-> TRUE, status |-> "disconnected", stale |-> FALSE]],
             job' = [job EXCEPT !["boot"] = [Job("sync", LocalHostID) EXCEPT !.ep = "sock"]],
             Goto("boot", "test")
      PROVE  HostInv'
  <2> DEFINE new == [ep |-> "sock", imm |-> TRUE, status |-> "disconnected", stale |-> FALSE]
  <2>1. new \in Record /\ new.ep = "sock" /\ ~new.stale /\ "sock" \in Endpoint
    BY DEF Record, Endpoint
  <2>2. rec' = [rec EXCEPT ![LocalHostID] = new]
    BY <1>7
  <2> HIDE DEF new
  <2>3. /\ rec' \in [Ids -> Record \cup {None}] /\ rec'[LocalHostID] = new
        /\ \A h \in Host : rec'[h] = rec[h]
    BY <1>0, <1>3, <2>1, <2>2, Names DEF TypeOK
  <2>4. "sync" \in Ops /\ "test" \in Steps
    BY DEF Ops, Steps
  <2>5. /\ Carry("sync", LocalHostID, "sock") \in JobOf
        /\ Carry("sync", LocalHostID, "sock").op = "sync"
        /\ Carry("sync", LocalHostID, "sock").id = LocalHostID
        /\ Carry("sync", LocalHostID, "sock").ep = "sock"
    BY <1>3, <2>1, <2>4, Carried
  <2>6. job' = [job EXCEPT !["boot"] = Carry("sync", LocalHostID, "sock")]
    BY <1>7 DEF Carry
  <2>7. /\ pc' \in [Handlers -> Steps] /\ job' \in [Handlers -> JobOf]
        /\ pc'["boot"] = "test" /\ job'["boot"] = Carry("sync", LocalHostID, "sock")
        /\ \A u \in Handlers \ {"boot"} : pc'[u] = "idle" /\ job'[u] = NoJob
    <3>1. pc \in [Handlers -> Steps] /\ job \in [Handlers -> JobOf]
      BY <1>0 DEF TypeOK, JobOf
    <3> HIDE DEF JobOf, Steps, NoJob, Handlers
    <3> QED BY <1>1, <1>3, <1>7, <2>4, <2>5, <2>6, <3>1 DEF Goto
  <2>8. TypeOK'
    BY <1>2, <1>w, <2>3, <2>7 DEF TypeOK, JobOf
  <2>9. Absent'
    BY <1>1, <1>3, <2>3 DEF Absent
  <2>10. ASSUME NEW t \in Handlers PROVE JobOK(t)' /\ Honest(t)'
    <3>1. CASE t # "boot"
      BY <2>7, <3>1 DEF JobOK, Honest
    <3>2. CASE t = "boot"
      <4>1. JobOK("boot")'
        BY <1>3, <2>1, <2>5, <2>7, Names DEF JobOK
      <4>2. Honest("boot")'
        BY <1>3, <2>1, <2>3, <2>5, <2>7, Names DEF Honest, Exists
      <4> QED BY <3>2, <4>1, <4>2
    <3> QED BY <3>1, <3>2
  <2>11. \A t, u \in Handlers : Apart(t, u)'
    BY <2>7 DEF Apart, Busy
  <2>12. ASSUME NEW h \in Ids PROVE HostOK(h)'
    <3>1. ClientOK(h)'
      BY <1>1 DEF ClientOK, Exists
    <3>2. h \notin mixed => StatusOK(h)'
      <4>1. h \notin mixed => (Exists(h) /\ ~Federated(rec[h].ep) => ~rec[h].stale)
        BY <1>1 DEF HostInv, HostOK, StatusOK, Busy
      <4>2. h \in Host \/ h = LocalHostID
        BY DEF Ids
      <4> QED BY <2>1, <2>3, <4>1, <4>2 DEF StatusOK, Exists
    <3> QED BY <1>1, <3>1, <3>2 DEF HostOK
  <2> QED BY <2>8, <2>9, <2>10, <2>11, <2>12 DEF HostInv
<1> QED BY <1>5, <1>6, <1>7 DEF Boot, EnsureLocal

-----------------------------------------------------------------------------
(* The theorems. *)

\* Every step keeps the invariant.
LEMMA HostStep == HostInv /\ [Next]_vars => HostInv'
<1> SUFFICES ASSUME HostInv, [Next]_vars PROVE HostInv'
  OBVIOUS
<1>0. \A t \in Editor \cup Reader : t \in Handlers
  BY DEF Handlers, Thread
<1>1. ASSUME NEW t \in Editor, Create(t) \/ \E h \in Ids : Edit(t, h) PROVE HostInv'
  BY <1>0, <1>1, CreateKeeps, UpdateKeeps, OthersBegin DEF Edit
<1>2. ASSUME NEW t \in Reader, NEW h \in Ids, Read(t, h) PROVE HostInv'
  BY <1>0, <1>2, OthersBegin DEF Read
<1>3. ASSUME NEW t \in Handlers, Step(t) PROVE HostInv'
  <2>1. CASE ProbeHost(t) \/ GetClient(t) \/ Preflight(t) \/ SummaryStacks(t) \/ Answer(t)
    BY <2>1, ProbeKeeps, GetClientKeeps, PreflightKeeps, AnswerKeeps
  <2>2. CASE \/ HostCreate(t) \/ HostUpdate(t) \/ UpdateImmutable(t) \/ DropClient(t)
             \/ syncHost(t) \/ StoreClient(t) \/ Forget(t) \/ HostDelete(t)
    BY <2>2, CreatedKeeps, PutKeeps, CosmeticKeeps, DropKeeps, SyncKeeps, StoreKeeps, EraseKeeps
  <2>3. CASE \/ ContainerOp(t) \/ LifecycleOp(t) \/ ImageOp(t) \/ VolumeOp(t) \/ NetworkOp(t)
             \/ SecondCall(t)
    <3>1. \E step \in {"call", "again"}, next \in {"answer", "again"} : DockerCall(t, step, next)
      BY <2>3 DEF ContainerOp, LifecycleOp, ImageOp, VolumeOp, NetworkOp, SecondCall
    <3> QED BY <3>1, CallKeeps
  <2>4. CASE SummaryCount(t)
    BY <2>4, CallKeeps DEF SummaryCount
  <2> QED BY <1>3, <2>1, <2>2, <2>3, <2>4 DEF Step
<1>4. CASE UNCHANGED vars
  <2>1. UNCHANGED <<rec, used, client, pc, job, faults, mixed>>
    BY <1>4 DEF vars
  <2>2. (up' <=> up) /\ up' \in BOOLEAN /\ blind' \in BOOLEAN
    <3>1. up' = up /\ blind' = blind
      BY <1>4 DEF vars
    <3>2. up \in BOOLEAN /\ blind \in BOOLEAN
      BY DEF HostInv, TypeOK
    <3> QED BY <3>1, <3>2
  <2>3. TypeOK'
    BY <2>1, <2>2 DEF HostInv, TypeOK
  <2>4. Absent'
    BY <2>1, <2>2 DEF HostInv, Absent
  <2>5. \A t, u \in Handlers : JobOK(t)' /\ Honest(t)' /\ Apart(t, u)'
    BY <2>1 DEF HostInv, JobOK, Honest, Apart, Busy, Exists
  <2>6. \A h \in Ids : HostOK(h)'
    BY <2>1 DEF HostInv, HostOK, ClientOK, StatusOK, Busy, Exists
  <2> QED BY <2>3, <2>4, <2>5, <2>6 DEF HostInv
<1> QED BY <1>1, <1>2, <1>3, <1>4, BootKeeps, CrashKeeps DEF Next

LEMMA Inductive == Spec => []HostInv
BY HostInit, HostStep, PTL DEF Spec

\* Records, clients and requests keep their types.
THEOREM TypeCorrect == Spec => []TypeOK
<1>1. HostInv => TypeOK
  BY DEF HostInv
<1> QED BY <1>1, Inductive, PTL

\* An operation requested for a host is carried out by that host's daemon, on
\* either database, unless the host was edited or removed meanwhile: the
\* client preflight cached is still there when the calls are made.
THEOREM OperationsArrive == Spec => []OperationsReachTheirHost
<1>1. HostInv => OperationsReachTheirHost
  <2> SUFFICES ASSUME HostInv, NEW t \in Thread, job[t].op = "operate", job[t].id \notin mixed
               PROVE  ~job[t].astray
    BY DEF OperationsReachTheirHost
  <2>1. t \in Handlers /\ JobOK(t) /\ Honest(t) /\ job[t].id \in Ids \cup {None}
    BY Names DEF HostInv, TypeOK
  <2>2. pc[t] # "idle"
    BY <2>1 DEF JobOK, NoJob
  <2>3. job[t].id \in Ids
    BY <2>1, <2>2 DEF JobOK
  <2> QED BY <2>1, <2>2, <2>3 DEF Honest
<1> QED BY <1>1, Inductive, PTL

\* On Bolt, what is held about a host at rest is true of its endpoint.  (On
\* Mongo, saving a host whose record is gone leaves a client behind.)
THEOREM HostsSettle == ASSUME Engine = "bolt" PROVE Spec => []SettledHostIsTrue
<1>1. HostInv => SettledHostIsTrue
  <2> SUFFICES ASSUME HostInv, NEW h \in Ids \ mixed, Quiet(h)
               PROVE  IF Exists(h)
                      THEN /\ client[h] \in {None, rec[h].ep}
                           /\ ~Federated(rec[h].ep) /\ rec[h].status # "disconnected" => ~rec[h].stale
                      ELSE client[h] = None
    BY DEF SettledHostIsTrue
  <2>1. ClientOK(h) /\ StatusOK(h)
    BY DEF HostInv, HostOK
  <2> QED BY <2>1 DEF ClientOK, StatusOK, Quiet
<1> QED BY <1>1, Inductive, PTL

-----------------------------------------------------------------------------
(* The local host. *)

\* The local host is immutable, and unless a failed read hid that, whoever is
\* at work on it does not remove it or change its endpoint.
Spares(t) ==
  Busy(t, LocalHostID) =>
    /\ job[t].op # "delete"
    /\ job[t].op = "save" => pc[t] = "cosmetic" /\ job[t].ep = rec[LocalHostID].ep

LocalInv ==
  Exists(LocalHostID) =>
    rec[LocalHostID].imm /\ (~blind => \A t \in Handlers : Spares(t))

\* The one way to lose the local host: a boot that finds another on the socket.
Kept ==
  Exists(LocalHostID) /\ ~blind' =>
    \/ Exists(LocalHostID)' /\ rec'[LocalHostID].ep = rec[LocalHostID].ep
                            /\ rec'[LocalHostID].imm
    \/ ~up /\ otherLocalHost # {}

\* A step of a handler that leaves the local host's record as it is, but for
\* its status.
LEMMA SparesWalk ==
  ASSUME HostInv, LocalInv, NEW t \in Handlers, blind' <=> blind,
         Exists(LocalHostID)' <=> Exists(LocalHostID),
         Exists(LocalHostID) => /\ rec'[LocalHostID].ep = rec[LocalHostID].ep
                                /\ rec'[LocalHostID].imm <=> rec[LocalHostID].imm,
         \A u \in Handlers \ {t} : pc'[u] = pc[u] /\ job'[u] = job[u],
         Exists(LocalHostID) /\ ~blind => Spares(t)'
  PROVE  LocalInv' /\ Kept
<1>1. Exists(LocalHostID) /\ ~blind => \A u \in Handlers : Spares(u)'
  <2> SUFFICES ASSUME Exists(LocalHostID), ~blind, NEW u \in Handlers PROVE Spares(u)'
    OBVIOUS
  <2>1. CASE u # t
    BY <2>1 DEF LocalInv, Spares, Busy
  <2> QED BY <2>1
<1> QED BY <1>1 DEF LocalInv, Kept

\* A busy handler that goes on and is not on its way to write the local host.
LEMMA GoesOn ==
  ASSUME HostInv, LocalInv, NEW t \in Handlers, pc[t] \notin {"idle", "cosmetic"},
         pc'[t] # "idle" => \/ job'[t].id = job[t].id /\ job'[t].op = job[t].op
                            \/ job'[t].id # LocalHostID
  PROVE  Exists(LocalHostID) /\ ~blind => Spares(t)'
BY DEF LocalInv, Spares, Busy

\* What the controls do, whatever the job.
LEMMA Moves ==
  ASSUME HostInv, NEW t \in Handlers, NEW step, NEW j, Proceed(t, step, j) \/ Begin(t, step, j)
  PROVE  /\ pc'[t] = step
         /\ step # "idle" => job'[t] = j
         /\ \A u \in Handlers \ {t} : pc'[u] = pc[u] /\ job'[u] = job[u]
<1>1. pc \in [Handlers -> Steps] /\ job \in [Handlers -> JobOf]
  BY DEF HostInv, TypeOK, JobOf
<1> HIDE DEF Steps, JobOf, Handlers, NoJob
<1> QED BY <1>1 DEF Proceed, Begin, Goto

\* Requests leave the local host alone.
LEMMA LocalBegins ==
  ASSUME HostInv, LocalInv, NEW t \in Handlers, NEW h \in Ids,
         Create(t) \/ Update(t, h) \/ Delete(t, h) \/ Sync(t, h) \/ Summary(t, h) \/ Request(t, h)
  PROVE  LocalInv' /\ Kept
<1>r. UNCHANGED rec /\ (blind => blind') /\ (Exists(LocalHostID)' <=> Exists(LocalHostID))
  <2>1. UNCHANGED rec
    BY DEF Create, Update, Delete, Sync, Summary, Request
  <2>2. blind' = blind \/ blind' = TRUE
    BY Zenon DEF Create, Update, Delete, Sync, Summary, Request
  <2>3. blind => blind'
    BY <2>2, Zenon
  <2> QED BY <2>1, <2>3 DEF Exists
<1>m. ASSUME NEW step, NEW j, Begin(t, step, j), ~blind' /\ Exists(LocalHostID) /\ j.id = LocalHostID =>
               /\ j.op # "delete"
               /\ j.op = "save" => step = "cosmetic" /\ j.ep = rec[LocalHostID].ep
      PROVE  LocalInv' /\ Kept
  <2>1. /\ step # "idle" => job'[t] = j
        /\ pc'[t] = step
        /\ \A u \in Handlers \ {t} : pc'[u] = pc[u] /\ job'[u] = job[u]
    BY <1>m, Moves
  <2>2. Exists(LocalHostID) /\ ~blind' => Spares(t)'
    BY <1>m, <1>r, <2>1 DEF Spares, Busy
  <2>3. Exists(LocalHostID) /\ ~blind' => \A u \in Handlers \ {t} : Spares(u)'
    BY <1>r, <2>1 DEF LocalInv, Spares, Busy
  <2> QED BY <1>r, <2>2, <2>3 DEF LocalInv, Kept
<1>1. CASE Create(t)
  <2>1. PICK f \in Form : Valid(f) /\ Begin(t, "probe", [Job("create", None) EXCEPT !.ep = Target(f)])
    BY <1>1 DEF Create, Submit
  <2>2. Begin(t, "probe", Carry("create", None, Target(f))) /\ Target(f) \in Endpoint /\ "create" \in Ops
    BY <2>1, Targets DEF Carry, Ops
  <2>3. Carry("create", None, Target(f)).id = None
    BY <2>2, Carried
  <2> QED BY <1>m, <2>2, <2>3, Names
<1>2. CASE Update(t, h)
  <2>1. PICK seen \in Seen(h) :
         /\ IF seen = rec[h] THEN UNCHANGED <<faults, blind>> ELSE Fail /\ blind' = TRUE
         /\ IF seen # None /\ seen.imm
            THEN Begin(t, "cosmetic", [Job("save", h) EXCEPT !.ep = seen.ep])
            ELSE Submit(t, Job("save", h))
    BY <1>2 DEF Update
  <2>s. "save" \in Ops
    BY DEF Ops
  <2>2. CASE seen # None /\ seen.imm
    <3>1. seen = rec[h] /\ rec[h].ep \in Endpoint
      BY <2>2 DEF Seen, HostInv, TypeOK, Record
    <3>2. Begin(t, "cosmetic", Carry("save", h, rec[h].ep))
      BY <2>1, <2>2, <3>1 DEF Carry
    <3>3. Carry("save", h, rec[h].ep).id = h /\ Carry("save", h, rec[h].ep).op = "save"
          /\ Carry("save", h, rec[h].ep).ep = rec[h].ep
      BY <2>s, <3>1, Carried
    <3> QED BY <1>m, <3>2, <3>3
  <2>3. CASE ~(seen # None /\ seen.imm)
    <3>1. PICK f \in Form : Valid(f) /\ Begin(t, "probe", [Job("save", h) EXCEPT !.ep = Target(f)])
      BY <2>1, <2>3 DEF Submit
    <3>2. Begin(t, "probe", Carry("save", h, Target(f))) /\ Target(f) \in Endpoint
      BY <3>1, Targets DEF Carry
    <3>3. Carry("save", h, Target(f)).id = h
      BY <2>s, <3>2, Carried
    <3>4. h = LocalHostID /\ Exists(LocalHostID) => seen # rec[h]
      BY <2>3 DEF LocalInv, Exists
    <3>5. h = LocalHostID /\ Exists(LocalHostID) => blind' = TRUE
      BY <2>1, <3>4
    <3>6. h = LocalHostID /\ Exists(LocalHostID) => blind'
      BY <3>5
    <3> QED BY <1>m, <3>2, <3>3, <3>6
  <2> QED BY <2>2, <2>3
<1>3. CASE Delete(t, h)
  <2>1. PICK seen \in Seen(h) :
         /\ IF seen = rec[h] THEN UNCHANGED <<faults, blind>> ELSE Fail /\ blind' = TRUE
         /\ seen # None => ~seen.imm
    BY <1>3 DEF Delete
  <2>2. Begin(t, "forget", Job("delete", h)) /\ "delete" \in Ops
    BY <1>3 DEF Delete, Ops
  <2>3. Job("delete", h).id = h
    BY <2>2, Carried
  <2>4. h = LocalHostID /\ Exists(LocalHostID) => seen # rec[h]
    BY <2>1 DEF LocalInv, Exists
  <2>5. h = LocalHostID /\ Exists(LocalHostID) => blind' = TRUE
    BY <2>1, <2>4
  <2>6. h = LocalHostID /\ Exists(LocalHostID) => blind'
    BY <2>5
  <2> QED BY <1>m, <2>2, <2>3, <2>6
<1>4. CASE Sync(t, h) \/ Summary(t, h) \/ Request(t, h)
  <2>1. PICK step \in {"test", "count", "answer", "preflight"}, j \in JobOf :
          Begin(t, step, j) /\ j.op \in {"sync", "summary", "operate"}
    <3>0. {"sync", "summary", "operate"} \subseteq Ops
      BY DEF Ops
    <3>e. Exists(h) => rec[h].ep \in Endpoint
      BY DEF Exists, HostInv, TypeOK, Record
    <3>1. CASE Sync(t, h)
      <4>1. Exists(h) /\ Begin(t, "test", Carry("sync", h, rec[h].ep))
        BY <3>1 DEF Sync, Carry
      <4> QED BY <3>0, <3>e, <4>1, Carried
    <3>2. CASE Summary(t, h)
      <4>1. Exists(h) /\ Begin(t, "count", Carry("summary", h, rec[h].ep))
        BY <3>2 DEF Summary, Carry
      <4> QED BY <3>0, <3>e, <4>1, Carried
    <3>3. CASE Request(t, h)
      <4>1. PICK step \in {"answer", "preflight"} : Begin(t, step, Job("operate", h))
        BY <3>3 DEF Request
      <4>2. Job("operate", h) \in JobOf /\ Job("operate", h).op = "operate"
        BY <3>0, Carried
      <4> QED BY <4>1, <4>2
    <3> QED BY <1>4, <3>1, <3>2, <3>3
  <2> QED BY <1>m, <2>1
<1> QED BY <1>1, <1>2, <1>3, <1>4

\* Steps that leave the host records alone.
LEMMA QuietSteps ==
  ASSUME HostInv, LocalInv, NEW t \in Handlers, UNCHANGED <<rec, blind>>,
         NEW step, NEW j, pc[t] \notin {"idle", "cosmetic"}, Proceed(t, step, j),
         step # "idle" => j.id = job[t].id /\ j.op = job[t].op
  PROVE  LocalInv' /\ Kept
<1>1. /\ pc'[t] = step
      /\ step # "idle" => job'[t] = j
      /\ \A u \in Handlers \ {t} : pc'[u] = pc[u] /\ job'[u] = job[u]
  BY Moves
<1>2. Exists(LocalHostID) /\ ~blind => Spares(t)'
  BY <1>1, GoesOn
<1>3. (Exists(LocalHostID)' <=> Exists(LocalHostID)) /\ (blind' <=> blind)
  BY DEF Exists
<1>4. Exists(LocalHostID) => /\ rec'[LocalHostID].ep = rec[LocalHostID].ep
                             /\ rec'[LocalHostID].imm <=> rec[LocalHostID].imm
  OBVIOUS
<1> QED BY <1>1, <1>2, <1>3, <1>4, SparesWalk

\* Steps of handlers that write no record, one action at a time.
LEMMA LocalQuiet ==
  ASSUME HostInv, LocalInv, NEW t \in Handlers,
         \/ ProbeHost(t) \/ GetClient(t) \/ StoreClient(t) \/ DropClient(t) \/ Forget(t)
         \/ Preflight(t) \/ SummaryStacks(t) \/ Answer(t)
         \/ \E step \in {"call", "again", "count"}, next \in {"answer", "again", "count", "cache"} :
              DockerCall(t, step, next)
  PROVE  LocalInv' /\ Kept
<1>0. job[t] \in JobOf
  BY DEF HostInv, TypeOK, JobOf
<1>1. \E step, j : /\ Proceed(t, step, j)
                   /\ step # "idle" => j.id = job[t].id /\ j.op = job[t].op
  <2>1. CASE ProbeHost(t)
    <3>1. PICK a \in Answers :
            LET ok == Federated(job[t].ep) \/ a = "standalone" IN
            Proceed(t, CASE ~ok -> "idle"
                         [] ok /\ job[t].op = "create" -> "create"
                         [] OTHER -> "put",
                       job[t])
      BY <2>1 DEF ProbeHost
    <3> QED BY <3>1
  <2>2. CASE GetClient(t)
    <3>1. CASE client[job[t].id] # None
      <4>1. client[job[t].id] \in Endpoint
        BY <2>2, <3>1, Named DEF GetClient, At, HostInv, TypeOK
      <4>2. /\ Reached(t, client[job[t].id]).op = job[t].op
            /\ Reached(t, client[job[t].id]).id = job[t].id
        BY <1>0, <4>1, Reaches DEF HostInv
      <4>3. Proceed(t, Cached(t), Reached(t, client[job[t].id]))
        BY <2>2, <3>1 DEF GetClient
      <4> QED BY <4>2, <4>3
    <3>2. CASE client[job[t].id] = None
      BY <2>2, <3>2 DEF GetClient
    <3> QED BY <3>1, <3>2
  <2>3. CASE StoreClient(t) \/ DropClient(t) \/ Forget(t) \/ SummaryStacks(t) \/ Answer(t)
    BY <2>3, Zenon DEF StoreClient, DropClient, Forget, SummaryStacks, Answer
  <2>4. CASE Preflight(t)
    <3>1. CASE Exists(job[t].id)
      <4>1. Proceed(t, "cache", [job[t] EXCEPT !.ep = rec[job[t].id].ep])
        BY <2>4, <3>1 DEF Preflight
      <4>2. /\ [job[t] EXCEPT !.ep = rec[job[t].id].ep].id = job[t].id
            /\ [job[t] EXCEPT !.ep = rec[job[t].id].ep].op = job[t].op
        BY <1>0 DEF JobOf
      <4> QED BY <4>1, <4>2
    <3>2. CASE ~Exists(job[t].id)
      BY <2>4, <3>2 DEF Preflight
    <3> QED BY <3>1, <3>2
  <2>5. ASSUME NEW step \in {"call", "again", "count"}, NEW next \in {"answer", "again", "count", "cache"},
               DockerCall(t, step, next)
        PROVE  \E s, j : Proceed(t, s, j) /\ (s # "idle" => j.id = job[t].id /\ j.op = job[t].op)
    <3>1. job[t].id \in Ids
      BY <2>5, Named DEF DockerCall, At
    <3>2. Agent(job[t].id) \in Endpoint
      BY <3>1 DEF Agent, Primary, Endpoint, HostInv, TypeOK
    <3>3. /\ Reached(t, Agent(job[t].id)).op = job[t].op
          /\ Reached(t, Agent(job[t].id)).id = job[t].id
      BY <1>0, <3>2, Reaches DEF HostInv
    <3> QED BY <2>5, <3>3 DEF DockerCall
  <2> QED BY <2>1, <2>2, <2>3, <2>4, <2>5
<1>2. UNCHANGED <<rec, blind>>
  BY DEF ProbeHost, GetClient, StoreClient, DropClient, Forget, Preflight, SummaryStacks, Answer, DockerCall
<1>3. pc[t] \notin {"idle", "cosmetic"}
  BY DEF ProbeHost, GetClient, StoreClient, DropClient, Forget, Preflight, SummaryStacks, Answer, DockerCall, At
<1> QED BY <1>1, <1>2, <1>3, QuietSteps

\* Steps that write records.
LEMMA LocalWrites ==
  ASSUME HostInv, LocalInv, NEW t \in Handlers,
         HostCreate(t) \/ HostUpdate(t) \/ UpdateImmutable(t) \/ syncHost(t) \/ HostDelete(t)
  PROVE  LocalInv' /\ Kept
<1>b. blind' <=> blind
  <2>1. blind' = blind
    BY DEF HostCreate, HostUpdate, UpdateImmutable, syncHost, HostDelete
  <2> QED BY <2>1
<1>n. JobOK(t) /\ LocalHostID \in Ids /\ LocalHostID \notin Host /\ TypeOK
  BY Names DEF HostInv
\* A handler that ends its request, or is not about to write the local host.
<1>m. ASSUME NEW step, NEW j, Proceed(t, step, j),
             Exists(LocalHostID)' <=> Exists(LocalHostID),
             Exists(LocalHostID) => /\ rec'[LocalHostID].ep = rec[LocalHostID].ep
                                    /\ rec'[LocalHostID].imm <=> rec[LocalHostID].imm,
             \/ step = "idle"
             \/ pc[t] \notin {"idle", "cosmetic"} /\ (\/ j.id = job[t].id /\ j.op = job[t].op
                                                     \/ j.id # LocalHostID)
      PROVE  LocalInv' /\ Kept
  <2>1. /\ pc'[t] = step
        /\ step # "idle" => job'[t] = j
        /\ \A u \in Handlers \ {t} : pc'[u] = pc[u] /\ job'[u] = job[u]
    BY <1>m, Moves
  <2>2. Exists(LocalHostID) /\ ~blind => Spares(t)'
    <3>1. CASE step = "idle"
      BY <2>1, <3>1 DEF Spares, Busy
    <3>2. CASE step # "idle"
      BY <1>m, <2>1, <3>2, GoesOn
    <3> QED BY <3>1, <3>2
  <2> QED BY <1>b, <1>m, <2>1, <2>2, SparesWalk
\* Nothing is written.
<1>u. ASSUME UNCHANGED rec, Proceed(t, "idle", NoJob) PROVE LocalInv' /\ Kept
  <2>1. Exists(LocalHostID)' <=> Exists(LocalHostID)
    BY <1>u DEF Exists
  <2> QED BY <1>m, <1>u, <2>1
<1>1. CASE HostCreate(t)
  <2>1. ASSUME NEW h \in Host \ used, NEW new,
               rec' = [rec EXCEPT ![h] = new], NEW step, Proceed(t, step, [job[t] EXCEPT !.id = h])
        PROVE  LocalInv' /\ Kept
    <3>1. rec'[LocalHostID] = rec[LocalHostID]
      BY <1>n, <2>1 DEF TypeOK
    <3>2. [job[t] EXCEPT !.id = h].id = h /\ h # LocalHostID
      BY <1>n DEF TypeOK
    <3>3. Exists(LocalHostID)' <=> Exists(LocalHostID)
      BY <3>1 DEF Exists
    <3>4. pc[t] \notin {"idle", "cosmetic"}
      BY <1>1 DEF HostCreate, At
    <3> QED BY <1>m, <2>1, <3>1, <3>2, <3>3, <3>4
  <2> QED BY <1>1, <1>u, <2>1 DEF HostCreate
<1>2. CASE HostUpdate(t)
  <2>1. pc[t] = "put" /\ job[t].op = "save" /\ job[t].ep \in Endpoint /\ job[t].id \in Ids
    BY <1>2, <1>n, Named DEF HostUpdate, At, JobOK
  <2>2. ASSUME NEW h, h = job[t].id, rec' = Written(t), Proceed(t, "drop", job[t])
        PROVE  LocalInv' /\ Kept
    <3>1. /\ \A g \in Ids \ {h} : rec'[g] = rec[g]
          /\ Exists(h)' <=> Exists(h)
          /\ Exists(h) => (rec'[h].imm <=> rec[h].imm)
      BY <2>1, <2>2, WrittenHost
    <3>2. CASE h # LocalHostID
      <4>1. rec'[LocalHostID] = rec[LocalHostID]
        BY <1>n, <3>1, <3>2
      <4>2. Exists(LocalHostID)' <=> Exists(LocalHostID)
        BY <4>1 DEF Exists
      <4> QED BY <1>m, <2>1, <2>2, <4>1, <4>2
    <3>3. CASE h = LocalHostID
      <4>1. Exists(LocalHostID) => blind
        BY <2>1, <2>2, <3>3 DEF LocalInv, Spares, Busy
      <4> QED BY <1>b, <3>1, <3>3, <4>1 DEF LocalInv, Kept
    <3> QED BY <3>2, <3>3
  <2> QED BY <1>2, <1>u, <2>2 DEF HostUpdate
<1>3. ASSUME UpdateImmutable(t), NEW h, h = job[t].id PROVE LocalInv' /\ Kept
  <2>1. pc[t] = "cosmetic" /\ job[t].op = "save" /\ job[t].ep \in Endpoint /\ job[t].id \in Ids
    BY <1>3, <1>n, Named DEF UpdateImmutable, At, JobOK
  <2>2. rec' = Written(t) /\ Proceed(t, "idle", NoJob)
    BY <1>3 DEF UpdateImmutable
  <2>3. /\ \A g \in Ids \ {h} : rec'[g] = rec[g]
        /\ Exists(h)' <=> Exists(h)
        /\ Exists(h) => rec'[h].ep = job[t].ep /\ (rec'[h].imm <=> rec[h].imm)
    BY <1>3, <2>1, <2>2, WrittenHost
  <2>4. CASE h # LocalHostID
    <3>1. rec'[LocalHostID] = rec[LocalHostID]
      BY <1>n, <2>3, <2>4
    <3>2. Exists(LocalHostID)' <=> Exists(LocalHostID)
      BY <3>1 DEF Exists
    <3> QED BY <1>m, <2>2, <3>1, <3>2
  <2>5. CASE h = LocalHostID
    <3>1. Exists(LocalHostID) /\ ~blind => job[t].ep = rec[LocalHostID].ep
      BY <1>3, <2>1, <2>5 DEF LocalInv, Spares, Busy
    <3>2. pc'[t] = "idle" /\ \A u \in Handlers \ {t} : pc'[u] = pc[u] /\ job'[u] = job[u]
      BY <2>2, Moves
    <3>3. CASE blind
      BY <1>b, <2>3, <2>5, <3>3 DEF LocalInv, Kept
    <3>4. CASE ~blind
      <4>1. Exists(LocalHostID) => rec'[LocalHostID].ep = rec[LocalHostID].ep
        BY <2>3, <2>5, <3>1, <3>4
      <4> QED BY <1>m, <2>2, <2>3, <2>5, <4>1
    <3> QED BY <3>3, <3>4
  <2> QED BY <2>4, <2>5
<1>4. ASSUME syncHost(t), NEW h, h = job[t].id PROVE LocalInv' /\ Kept
  <2>1. pc[t] = "test" /\ h \in Ids
    BY <1>4, <1>n, Named DEF syncHost, At
  <2>2. PICK a \in {"connected", "error"} :
           /\ rec' = IF Exists(h)
                     THEN [rec EXCEPT ![h].status = a, ![h].stale = rec[h].ep # job[t].ep] ELSE rec
           /\ Proceed(t, IF a = "connected" THEN "cache" ELSE "idle", job[t])
    BY <1>4, Zenon DEF syncHost
  <2>3. /\ Exists(LocalHostID)' <=> Exists(LocalHostID)
        /\ Exists(LocalHostID) => /\ rec'[LocalHostID].ep = rec[LocalHostID].ep
                                  /\ rec'[LocalHostID].imm <=> rec[LocalHostID].imm
    <3>0. rec \in [Ids -> Record \cup {None}] /\ None \notin Record
      BY <1>n, Names DEF TypeOK
    <3>1. CASE ~Exists(h) \/ h # LocalHostID
      <4>1. rec'[LocalHostID] = rec[LocalHostID]
        BY <1>n, <2>2, <3>0, <3>1
      <4> QED BY <4>1 DEF Exists
    <3>2. CASE Exists(h) /\ h = LocalHostID
      <4> DEFINE b == rec[h].ep # job[t].ep
      <4>1. rec[h] \in Record /\ b \in BOOLEAN
        BY <2>1, <3>0, <3>2 DEF Exists
      <4>2. rec' = [rec EXCEPT ![h] = [rec[h] EXCEPT !.status = a, !.stale = b]]
        BY <2>1, <2>2, <3>0, <3>2
      <4> HIDE DEF b
      <4>3. rec'[h] = [rec[h] EXCEPT !.status = a, !.stale = b]
        BY <2>1, <3>0, <4>2
      <4>4. rec'[h] \in Record /\ rec'[h].ep = rec[h].ep /\ (rec'[h].imm <=> rec[h].imm)
        <5> HIDE DEF Endpoint
        <5> QED BY <4>1, <4>3 DEF Record
      <4> QED BY <3>0, <3>2, <4>4 DEF Exists
    <3> QED BY <3>1, <3>2
  <2> QED BY <1>m, <2>1, <2>2, <2>3
<1>5. ASSUME HostDelete(t), NEW h, h = job[t].id PROVE LocalInv' /\ Kept
  <2>1. pc[t] = "erase" /\ job[t].op = "delete" /\ h \in Ids /\ Proceed(t, "idle", NoJob)
    BY <1>5, <1>n, Named DEF HostDelete, At, JobOK
  <2>2. CASE rec' = [rec EXCEPT ![h] = None]
    <3>1. CASE h # LocalHostID
      <4>1. rec'[LocalHostID] = rec[LocalHostID]
        BY <1>n, <2>2, <3>1 DEF TypeOK
      <4>2. Exists(LocalHostID)' <=> Exists(LocalHostID)
        BY <4>1 DEF Exists
      <4> QED BY <1>m, <2>1, <4>1, <4>2
    <3>2. CASE h = LocalHostID
      <4>1. Exists(LocalHostID) => blind
        BY <1>5, <2>1, <3>2 DEF LocalInv, Spares, Busy
      <4>2. ~Exists(LocalHostID)'
        BY <1>n, <2>2, <3>2 DEF TypeOK, Exists
      <4> QED BY <1>b, <4>1, <4>2 DEF LocalInv, Kept
    <3> QED BY <3>1, <3>2
  <2>3. CASE UNCHANGED rec
    BY <1>u, <2>1, <2>3
  <2> QED BY <1>5, <2>2, <2>3 DEF HostDelete
<1> QED BY <1>1, <1>2, <1>3, <1>4, <1>5

\* A boot drops the local host for another one on the socket, creates it
\* immutable, or leaves it; its job is the first probe.
LEMMA LocalBoots == ASSUME HostInv, LocalInv, Boot PROVE LocalInv' /\ Kept
<1>1. ~up /\ blind' = blind /\ TypeOK /\ LocalHostID \in Ids /\ "boot" \in Handlers
  BY Names DEF Boot, HostInv
<1>2. \A t \in Handlers : pc[t] = "idle"
  BY <1>1 DEF HostInv, Absent
<1>3. CASE UNCHANGED <<rec, pc, job>>
  <2>1. \A t \in Handlers : Spares(t)'
    BY <1>2, <1>3 DEF Spares, Busy
  <2> QED BY <1>1, <1>3, <2>1 DEF LocalInv, Kept, Exists
<1>4. CASE /\ otherLocalHost # {}
           /\ rec' = [rec EXCEPT ![LocalHostID] = None] /\ UNCHANGED <<pc, job>>
  <2>1. ~Exists(LocalHostID)'
    BY <1>1, <1>4 DEF TypeOK, Exists
  <2> QED BY <1>1, <1>4, <2>1 DEF LocalInv, Kept
<1>5. ASSUME ~Exists(LocalHostID), Goto("boot", "test"),
             rec' = [rec EXCEPT ![LocalHostID] =
                       [ep |-> "sock", imm |-> TRUE, status |-> "disconnected", stale |-> FALSE]],
             job' = [job EXCEPT !["boot"] = [Job("sync", LocalHostID) EXCEPT !.ep = "sock"]]
      PROVE  LocalInv' /\ Kept
  <2>1. rec'[LocalHostID].imm
    BY <1>1, <1>5 DEF TypeOK
  <2>2. job' = [job EXCEPT !["boot"] = Carry("sync", LocalHostID, "sock")]
    BY <1>5 DEF Carry
  <2>3. Carry("sync", LocalHostID, "sock").op = "sync"
    BY <1>1, Carried DEF Ops, Endpoint
  <2>4. /\ job'["boot"] = Carry("sync", LocalHostID, "sock")
        /\ \A u \in Handlers \ {"boot"} : pc'[u] = "idle"
    <3>1. pc \in [Handlers -> Steps] /\ job \in [Handlers -> JobOf]
      BY <1>1 DEF TypeOK, JobOf
    <3> HIDE DEF JobOf, Steps, Handlers
    <3> QED BY <1>1, <1>2, <1>5, <2>2, <3>1 DEF Goto
  <2>5. \A u \in Handlers : Spares(u)'
    BY <2>3, <2>4 DEF Spares, Busy
  <2> QED BY <1>5, <2>1, <2>5 DEF LocalInv, Kept
<1> QED BY <1>3, <1>4, <1>5 DEF Boot, EnsureLocal

\* Every step leaves the local host where it is, but for a boot's.
LEMMA LocalStep == HostInv /\ LocalInv /\ [Next]_vars => LocalInv' /\ Kept
<1> SUFFICES ASSUME HostInv, LocalInv, [Next]_vars PROVE LocalInv' /\ Kept
  OBVIOUS
<1>0. \A t \in Editor \cup Reader : t \in Handlers
  BY DEF Handlers, Thread
<1>1. ASSUME NEW t \in Editor, Create(t) \/ \E h \in Ids : Edit(t, h) PROVE LocalInv' /\ Kept
  BY <1>0, <1>1, LocalBegins, Names DEF Edit
<1>2. ASSUME NEW t \in Reader, NEW h \in Ids, Read(t, h) PROVE LocalInv' /\ Kept
  BY <1>0, <1>2, LocalBegins DEF Read
<1>3. ASSUME NEW t \in Handlers, Step(t) PROVE LocalInv' /\ Kept
  <2>1. CASE HostCreate(t) \/ HostUpdate(t) \/ UpdateImmutable(t) \/ syncHost(t) \/ HostDelete(t)
    BY <2>1, LocalWrites
  <2>2. CASE \/ ProbeHost(t) \/ GetClient(t) \/ StoreClient(t) \/ DropClient(t) \/ Forget(t)
             \/ Preflight(t) \/ SummaryStacks(t) \/ Answer(t)
    BY <2>2, LocalQuiet
  <2>3. CASE \/ ContainerOp(t) \/ LifecycleOp(t) \/ ImageOp(t) \/ VolumeOp(t) \/ NetworkOp(t)
             \/ SecondCall(t) \/ SummaryCount(t)
    <3>1. \E step \in {"call", "again", "count"}, next \in {"answer", "again", "count", "cache"} :
            DockerCall(t, step, next)
      BY <2>3 DEF ContainerOp, LifecycleOp, ImageOp, VolumeOp, NetworkOp, SecondCall, SummaryCount
    <3> QED BY <3>1, LocalQuiet
  <2> QED BY <1>3, <2>1, <2>2, <2>3 DEF Step
<1>4. CASE Crash
  <2>1. UNCHANGED <<rec, blind>> /\ \A t \in Handlers : pc'[t] = "idle"
    BY <1>4 DEF Crash
  <2>2. \A t \in Handlers : Spares(t)'
    BY <2>1 DEF Spares, Busy
  <2> QED BY <2>1, <2>2 DEF LocalInv, Kept, Exists
<1>5. CASE UNCHANGED vars
  <2>1. UNCHANGED <<rec, pc, job, blind>>
    BY <1>5 DEF vars
  <2>2. (\A t \in Handlers : Spares(t)) => \A t \in Handlers : Spares(t)'
    BY <2>1 DEF Spares, Busy
  <2> QED BY <2>1, <2>2 DEF LocalInv, Kept, Exists
<1> QED BY <1>1, <1>2, <1>3, <1>4, <1>5, LocalBoots DEF Next

\* The local host is neither repointed nor removed by requests, whatever they
\* overlap with and whenever the process dies, unless a failed read hid that
\* it is immutable: only a boot removes it, for another host on the socket.
THEOREM LocalHostStays == Spec => LocalStays
<1>1. Init => LocalInv
  BY Names DEF Init, LocalInv, Exists
<1>2. HostInv /\ LocalInv /\ [Next]_vars => LocalInv'
  BY LocalStep
<1>3. HostInv /\ LocalInv /\ [Next]_vars =>
        [ Exists(LocalHostID) /\ ~blind' =>
            \/ Exists(LocalHostID)' /\ rec'[LocalHostID].ep = rec[LocalHostID].ep
                                    /\ rec'[LocalHostID].imm
            \/ ~up /\ otherLocalHost # {} ]_vars
  BY LocalStep DEF Kept
<1> QED BY <1>1, <1>2, <1>3, Inductive, PTL DEF Spec, LocalStays

\* A boot whose database calls succeed leaves the socket to exactly one side:
\* an operator's hosts on it, or the local host.
THEOREM BootSettles == Spec => BootSettlesLocal
<1>1. HostInv /\ [Next]_vars =>
        [ ~up /\ up' /\ faults' = faults =>
            \/ Exists(LocalHostID)' /\ otherLocalHost' = {}
            \/ ~Exists(LocalHostID)' /\ otherLocalHost' # {} ]_vars
  <2> SUFFICES ASSUME HostInv, Next, ~up, up', faults' = faults
               PROVE  \/ Exists(LocalHostID)' /\ otherLocalHost' = {}
                      \/ ~Exists(LocalHostID)' /\ otherLocalHost' # {}
    BY DEF vars
  <2>1. Boot
    <3>1. ASSUME NEW t, NEW h PROVE ~Create(t) /\ ~Edit(t, h) /\ ~Read(t, h)
      BY DEF Create, Edit, Read, Update, Delete, Sync, Summary, Request, Free, At
    <3>2. ASSUME NEW t PROVE ~Step(t)
      BY DEF Step, ProbeHost, HostCreate, HostUpdate, UpdateImmutable, DropClient, syncHost,
             GetClient, StoreClient, Forget, HostDelete, Preflight, ContainerOp, LifecycleOp,
             ImageOp, VolumeOp, NetworkOp, SecondCall, SummaryCount, SummaryStacks, Answer,
             DockerCall, At
    <3>3. ~Crash
      BY DEF Crash
    <3> QED BY <3>1, <3>2, <3>3 DEF Next
  <2>2. EnsureLocal
    <3>1. faults \in Nat
      BY Names DEF HostInv, TypeOK
    <3>2. ~Fail
      BY <3>1 DEF Fail
    <3> QED BY <2>1, <3>2 DEF Boot
  <2>3. TypeOK /\ LocalHostID \in Ids /\ LocalHostID \notin Host /\ Host \subseteq Ids
    BY Names DEF HostInv
  <2>4. ASSUME \A h \in Host : rec'[h] = rec[h] PROVE otherLocalHost' = otherLocalHost
    BY <2>4 DEF otherLocalHost, Exists, isLocalSocketEndpoint
  <2>5. CASE Exists(LocalHostID) /\ otherLocalHost # {}
    <3>1. rec' = [rec EXCEPT ![LocalHostID] = None]
      BY <2>2, <2>5 DEF EnsureLocal
    <3>2. ~Exists(LocalHostID)' /\ \A h \in Host : rec'[h] = rec[h]
      BY <2>3, <3>1 DEF Exists, TypeOK
    <3> QED BY <2>4, <2>5, <3>2
  <2>6. CASE ~Exists(LocalHostID) /\ otherLocalHost = {}
    <3> DEFINE new == [ep |-> "sock", imm |-> TRUE, status |-> "disconnected", stale |-> FALSE]
    <3>1. rec' = [rec EXCEPT ![LocalHostID] = new]
      BY <2>2, <2>6 DEF EnsureLocal
    <3>2. new # None
      <4>1. new \in Record
        BY DEF Record, Endpoint
      <4> QED BY <4>1, Names
    <3> HIDE DEF new
    <3>3. Exists(LocalHostID)' /\ \A h \in Host : rec'[h] = rec[h]
      BY <2>3, <3>1, <3>2 DEF Exists, TypeOK
    <3> QED BY <2>4, <2>6, <3>3
  <2>7. CASE ~(Exists(LocalHostID) /\ otherLocalHost # {}) /\ ~(~Exists(LocalHostID) /\ otherLocalHost = {})
    <3>1. UNCHANGED rec
      BY <2>2, <2>7 DEF EnsureLocal
    <3> QED BY <2>4, <2>7, <3>1 DEF Exists
  <2> QED BY <2>5, <2>6, <2>7
<1> QED BY <1>1, Inductive, PTL DEF Spec, BootSettlesLocal
=============================================================================
