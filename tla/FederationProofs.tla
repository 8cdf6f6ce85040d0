-------------------------- MODULE FederationProofs --------------------------
(* What is proved of Federation for any peers and handlers and any number of *)
(* tokens and faults: its types and the four properties of its run.         *)
EXTENDS Federation, TLAPS

-----------------------------------------------------------------------------
(* Control: what a step does to the threads. *)

\* What a thread carries.
JobOf == [op : Ops, peer : Peer \cup {None}, tok : 0 .. MaxTokens,
          ext : Extract \cup {None}]

ThreadsTyped == pc \in [Threads -> Steps] /\ job \in [Threads -> JobOf]

\* The jobs the operations carry: a peer, a token for it, a token, a copy of
\* the extract, both.
ForPeer(op, p) == [Job(op) EXCEPT !.peer = p]
Minted(op, p, k) == [Job(op) EXCEPT !.peer = p, !.tok = k]
WithToken(op, k) == [Job(op) EXCEPT !.tok = k]
WithExtract(op, e) == [Job(op) EXCEPT !.ext = e]
WithBoth(op, k, e) == [Job(op) EXCEPT !.tok = k, !.ext = e]

\* They have the type of a job.
LEMMA Jobs ==
  /\ NoJob \in JobOf
  /\ \A op \in Ops, p \in Peer : ForPeer(op, p) \in JobOf
  /\ \A op \in Ops, k \in 0 .. MaxTokens : WithToken(op, k) \in JobOf
  /\ \A op \in Ops, e \in Extract \cup {None} : WithExtract(op, e) \in JobOf
  /\ \A op \in Ops, k \in 0 .. MaxTokens, e \in Extract \cup {None} : WithBoth(op, k, e) \in JobOf
<1>1. MaxTokens \in Nat
  BY FederationAssumption
<1>2. 0 \in 0 .. MaxTokens /\ "none" \in Ops
  BY <1>1 DEF Ops
<1> HIDE DEF Ops, Extract
<1> QED BY <1>2 DEF JobOf, Job, NoJob, ForPeer, WithToken, WithExtract, WithBoth

\* So has the job of an operation that generated a token.
LEMMA MintedJob ==
  ASSUME NEW op \in Ops, NEW p \in Peer, NEW k \in 0 .. MaxTokens
  PROVE  Minted(op, p, k) \in JobOf /\ Minted(op, p, k).peer = p /\ Minted(op, p, k).tok = k
<1> HIDE DEF Ops, Extract
<1> QED BY DEF JobOf, Job, NoJob, Minted

\* A step moves one thread and leaves the others where they are.
LEMMA Moved ==
  ASSUME ThreadsTyped, NEW t \in Threads, NEW step \in Steps, NEW j \in JobOf,
         Proceed(t, step, j)
  PROVE  /\ ThreadsTyped'
         /\ pc'[t] = step
         /\ step # "idle" => job'[t] = j
         /\ \A u \in Threads \ {t} : pc'[u] = pc[u] /\ job'[u] = job[u]
<1>1. NoJob \in JobOf
  BY Jobs
<1> HIDE DEF Threads, Steps, JobOf, NoJob
<1> QED BY <1>1 DEF Proceed, ThreadsTyped

\* A thread that ends is idle.
LEMMA Ended ==
  ASSUME ThreadsTyped, NEW t \in Threads, End(t)
  PROVE  /\ ThreadsTyped'
         /\ pc'[t] = "idle"
         /\ \A u \in Threads \ {t} : pc'[u] = pc[u] /\ job'[u] = job[u]
<1>1. "idle" \in Steps /\ NoJob \in JobOf
  BY Jobs DEF Steps
<1>2. Proceed(t, "idle", NoJob)
  BY DEF End
<1> QED BY <1>1, <1>2, Moved

\* Every operation belongs to one thread and ends or moves on.
LEMMA HandlerThread == (\A t \in Handler : t \in Threads /\ t # "rotator") /\ "rotator" \in Threads
BY FederationAssumption DEF Threads

-----------------------------------------------------------------------------
(* Tokens. *)

\* A thread that holds a token it may write.
Pending(t) == pc[t] \in {"meta", "rewrite", "find"}

\* Every token in use was generated, and is the token of one peer.
Issued ==
  /\ minted \in 0 .. MaxTokens
  /\ user \in [Peer -> 1 .. minted \cup {None, Gone}]
  /\ retired \subseteq 1 .. minted
  /\ early \subseteq Peer /\ revived \subseteq Peer
  /\ \A p \in revived : user[p] # None
  /\ \A p, q \in Peer : Exists(p) /\ user[p] = user[q] => p = q

\* So was every token about to be written, and no two threads write the same.
Held ==
  /\ pc["rotator"] # "meta"
  /\ \A t \in Threads : Pending(t) => job[t].peer \in Peer /\ job[t].tok \in 1 .. minted
  /\ \A t, u \in Threads :
       t # u /\ Pending(t) /\ Pending(u) =>
         /\ job[t].tok # job[u].tok
         /\ pc[t] = "meta" /\ pc[u] = "meta" => job[t].peer # job[u].peer

\* A rotation's token was never used before it is written.
Fresh == \A t \in Threads :
  pc[t] \in {"rewrite", "find"} =>
    job[t].tok \notin retired /\ \A p \in Peer : user[p] # job[t].tok

\* The token CreatePeer writes again is the peer's still, unless the peer
\* was revoked or rotated early, and nobody else's; no page brought it back.
Again == \A t \in Threads :
  pc[t] = "meta" =>
    LET p == job[t].peer IN
    /\ user[p] # None
    /\ \A q \in Peer : user[q] = job[t].tok => q = p
    /\ p \notin early => user[p] \in {job[t].tok, Gone} /\ p \notin revived

\* The token a user page was loaded with was and is nobody's but the peer's, in
\* use, about to be written or on a page; and it is the one of CreatePeer while
\* there was no other.
Paged == \A t \in Threads :
  pc[t] = "page" =>
    LET p == job[t].peer  k == job[t].tok IN
    /\ p \in Peer /\ k \in 1 .. minted /\ user[p] # None
    /\ \A q \in Peer : user[q] = k => q = p
    /\ \A u \in Threads :
         /\ pc[u] \in {"rewrite", "find"} => job[u].tok # k
         /\ pc[u] \in {"meta", "page"} /\ job[u].tok = k => job[u].peer = p
         /\ pc[u] = "meta" /\ job[u].peer = p /\ p \notin early => job[u].tok = k

TokenInv == ThreadsTyped /\ Issued /\ Held /\ Fresh /\ Again /\ Paged /\ OldTokenDies

\* The marks for a peer that is not there are no tokens.
LEMMA Marks ==
  /\ None # Gone /\ MaxTokens \in Nat
  /\ \A k \in 0 .. MaxTokens : k \notin {None, Gone} /\ k \in Nat /\ (k = 0 \/ k \in 1 .. MaxTokens)
BY FederationAssumption

\* A token used at a time when minted tokens were out is one of all.
LEMMA Range == ASSUME Issued PROVE minted \in Nat /\ 1 .. minted \subseteq 1 .. MaxTokens
<1>1. MaxTokens \in Nat
  BY FederationAssumption
<1> QED BY <1>1 DEF Issued

\* The initial state satisfies TokenInv.
LEMMA TokenInit == Init => TokenInv
<1> SUFFICES ASSUME Init PROVE TokenInv
  OBVIOUS
<1>1. MaxTokens \in Nat
  BY FederationAssumption
<1>2. ThreadsTyped
  <2>1. "idle" \in Steps /\ NoJob \in JobOf
    BY Jobs DEF Steps
  <2> HIDE DEF Steps, JobOf, NoJob, Threads
  <2> QED BY <2>1 DEF ThreadsTyped, Init
<1>3. \A t \in Threads : pc[t] = "idle"
  BY DEF Init
<1>4. Held /\ Fresh /\ Again /\ Paged
  BY <1>3, HandlerThread DEF Held, Fresh, Again, Paged, Pending
<1>5. \A p \in Peer : user[p] = None
  BY DEF Init
<1>6. Issued
  BY <1>1, <1>5 DEF Init, Issued, Exists
<1>7. OldTokenDies
  BY <1>5 DEF OldTokenDies, Exists
<1> QED BY <1>2, <1>4, <1>6, <1>7 DEF TokenInv

\* A step that writes no token, and after which no thread holds one that it
\* did not hold before.
LEMMA TokenQuiet ==
  ASSUME TokenInv, ThreadsTyped', UNCHANGED <<user, minted, retired, early, revived>>,
         NEW t \in Threads,
         \A u \in Threads \ {t} : pc'[u] = pc[u] /\ job'[u] = job[u],
         ~Pending(t)', pc'[t] # "page"
  PROVE  TokenInv'
<1>1. \A u \in Threads : Pending(u)' => u # t /\ Pending(u) /\ pc'[u] = pc[u] /\ job'[u] = job[u]
  BY DEF Pending
<1>2. pc'["rotator"] # "meta"
  BY <1>1, HandlerThread DEF TokenInv, Held, Pending
<1>3. Issued'
  BY DEF TokenInv, Issued, Exists
<1>4. Held'
  BY <1>1, <1>2 DEF TokenInv, Held
<1>5. Fresh' /\ Again'
  BY <1>1 DEF TokenInv, Fresh, Again, Pending
<1>6. OldTokenDies'
  BY DEF TokenInv, OldTokenDies, Exists
<1>7. \A u \in Threads : pc'[u] \in {"page", "meta", "rewrite", "find"} =>
        pc'[u] = pc[u] /\ job'[u] = job[u]
  BY DEF Pending
<1>8. Paged'
  BY <1>7 DEF TokenInv, Paged
<1> QED BY <1>3, <1>4, <1>5, <1>6, <1>8 DEF TokenInv

\* A new token is generated for an existing peer, and not written yet.
LEMMA TokenMinted ==
  ASSUME TokenInv, ThreadsTyped', UNCHANGED <<user, retired, early, revived>>, generateFederationToken,
         NEW t \in Threads, NEW p \in Peer,
         \A u \in Threads \ {t} : pc'[u] = pc[u] /\ job'[u] = job[u],
         pc'[t] \in {"rewrite", "find"}, job'[t].peer = p, job'[t].tok = minted + 1
  PROVE  TokenInv'
<1>0. /\ minted \in Nat /\ MaxTokens \in Nat /\ minted' = minted + 1 /\ minted' \in 0 .. MaxTokens
      /\ 1 .. minted \subseteq 1 .. minted' /\ minted + 1 \in 1 .. minted'
      /\ minted + 1 \notin 1 .. minted /\ minted + 1 \notin {None, Gone}
  <2>1. minted \in Nat /\ MaxTokens \in Nat /\ minted' = minted + 1 /\ minted < MaxTokens
    BY Range, Marks DEF generateFederationToken, TokenInv
  <2> QED BY <2>1, Marks
<1>1. \A u \in Threads \ {t} : Pending(u)' <=> Pending(u)
  BY DEF Pending
<1>2. \A u \in Threads \ {t} : Pending(u) => job[u].tok # minted + 1
  BY <1>0 DEF TokenInv, Held
<1>3. Issued'
  BY <1>0 DEF TokenInv, Issued, Exists
<1>4. Held'
  <2>1. pc'["rotator"] # "meta"
    BY HandlerThread DEF TokenInv, Held
  <2>2. \A u \in Threads : Pending(u)' => job'[u].peer \in Peer /\ job'[u].tok \in 1 .. minted'
    BY <1>0, <1>1 DEF TokenInv, Held
  <2>3. \A u, v \in Threads :
       u # v /\ Pending(u)' /\ Pending(v)' =>
         /\ job'[u].tok # job'[v].tok
         /\ pc'[u] = "meta" /\ pc'[v] = "meta" => job'[u].peer # job'[v].peer
    BY <1>1, <1>2 DEF TokenInv, Held
  <2> QED BY <2>1, <2>2, <2>3 DEF Held
<1>5. minted + 1 \notin retired /\ \A q \in Peer : user[q] # minted + 1
  BY <1>0 DEF TokenInv, Issued
<1>6. Fresh' /\ Again'
  BY <1>5 DEF TokenInv, Fresh, Again
<1>7. OldTokenDies'
  BY DEF TokenInv, OldTokenDies, Exists
<1>8. Paged'
  <2>1. \A u \in Threads : pc'[u] \in {"page", "meta"} => u # t /\ pc'[u] = pc[u] /\ job'[u] = job[u]
    OBVIOUS
  <2>2. \A u \in Threads : pc[u] = "page" => job[u].tok \in 1 .. minted /\ job[u].tok # minted + 1
    BY <1>0 DEF TokenInv, Paged
  <2> QED BY <1>0, <2>1, <2>2 DEF TokenInv, Paged
<1> QED BY <1>3, <1>4, <1>6, <1>7, <1>8 DEF TokenInv

\* CreatePeer: a peer that never was gets a token that never was.
LEMMA TokenCreated ==
  ASSUME TokenInv, NEW t \in Handler, NEW p \in Peer, CreatePeer(t, p)
  PROVE  TokenInv'
<1>0. /\ minted \in Nat /\ minted' = minted + 1 /\ minted' \in 0 .. MaxTokens
      /\ 1 .. minted \subseteq 1 .. minted' /\ minted + 1 \in 1 .. minted'
      /\ minted + 1 \notin 1 .. minted /\ minted + 1 \notin {None, Gone}
      /\ minted + 1 \in 0 .. MaxTokens
  <2>1. minted \in Nat /\ MaxTokens \in Nat /\ minted' = minted + 1 /\ minted < MaxTokens
    BY Range, Marks DEF CreatePeer, generateFederationToken, TokenInv
  <2> QED BY <2>1, Marks
<1>1. /\ ThreadsTyped' /\ pc'[t] = "meta" /\ job'[t].peer = p /\ job'[t].tok = minted + 1
      /\ \A u \in Threads \ {t} : pc'[u] = pc[u] /\ job'[u] = job[u]
  <2>1. "create" \in Ops /\ "meta" \in Steps
    BY DEF Ops, Steps
  <2>2. Proceed(t, "meta", Minted("create", p, minted + 1))
    BY DEF CreatePeer, Minted
  <2>3. /\ Minted("create", p, minted + 1) \in JobOf
        /\ Minted("create", p, minted + 1).peer = p
        /\ Minted("create", p, minted + 1).tok = minted + 1
    BY <1>0, <2>1, MintedJob
  <2>4. ThreadsTyped /\ t \in Threads
    BY HandlerThread DEF TokenInv
  <2> QED BY <2>1, <2>2, <2>3, <2>4, Moved
<1>2. /\ user[p] = None /\ user' = [user EXCEPT ![p] = minted + 1]
      /\ UNCHANGED <<retired, early, revived>>
  BY DEF CreatePeer, target
<1>3. user'[p] = minted + 1 /\ \A q \in Peer \ {p} : user'[q] = user[q]
  BY <1>2 DEF TokenInv, Issued
<1>4. /\ \A q \in Peer : user[q] # minted + 1
      /\ \A u \in Threads \ {t} : Pending(u)' <=> Pending(u)
      /\ \A u \in Threads : Pending(u) => job[u].tok # minted + 1
  BY <1>0, <1>1 DEF TokenInv, Issued, Held, Pending
<1>5. Issued'
  <2>1. user' \in [Peer -> 1 .. minted' \cup {None, Gone}]
    BY <1>0, <1>2 DEF TokenInv, Issued
  <2>2. \A q, r \in Peer : Exists(q)' /\ user'[q] = user'[r] => q = r
    BY <1>3, <1>4 DEF TokenInv, Issued, Exists
  <2>3. retired' \subseteq 1 .. minted' /\ early' \subseteq Peer /\ revived' \subseteq Peer
    BY <1>0, <1>2 DEF TokenInv, Issued
  <2>4. \A q \in revived' : user'[q] # None
    BY <1>0, <1>2, <1>3 DEF TokenInv, Issued
  <2> QED BY <1>0, <2>1, <2>2, <2>3, <2>4 DEF Issued
<1>6. /\ \A u \in Threads \ {t} : pc[u] = "meta" => job[u].peer # p
      /\ p \notin revived
  BY <1>2 DEF TokenInv, Again, Issued
<1>7. Held'
  <2>1. pc'["rotator"] # "meta"
    BY <1>1, HandlerThread DEF TokenInv, Held
  <2>2. \A u \in Threads : Pending(u)' => job'[u].peer \in Peer /\ job'[u].tok \in 1 .. minted'
    BY <1>0, <1>1, <1>4 DEF TokenInv, Held
  <2>3. \A u, v \in Threads :
       u # v /\ Pending(u)' /\ Pending(v)' =>
         /\ job'[u].tok # job'[v].tok
         /\ pc'[u] = "meta" /\ pc'[v] = "meta" => job'[u].peer # job'[v].peer
    BY <1>1, <1>4, <1>6 DEF TokenInv, Held
  <2> QED BY <2>1, <2>2, <2>3 DEF Held
<1>8. Fresh'
  BY <1>1, <1>2, <1>3, <1>4 DEF TokenInv, Fresh, Pending
<1>9. Again'
  <2>1. ASSUME NEW u \in Threads \ {t}, pc'[u] = "meta"
        PROVE  LET q == job'[u].peer IN
               /\ user'[q] # None
               /\ \A r \in Peer : user'[r] = job'[u].tok => r = q
               /\ q \notin early' => user'[q] \in {job'[u].tok, Gone} /\ q \notin revived'
    <3>1. /\ pc[u] = "meta" /\ job'[u] = job[u] /\ Pending(u)
          /\ job[u].peer \in Peer \ {p} /\ job[u].tok # minted + 1
      BY <1>1, <1>4, <1>6, <2>1 DEF TokenInv, Held, Pending
    <3> QED BY <1>2, <1>3, <3>1 DEF TokenInv, Again
  <2>2. /\ user'[p] # None
        /\ \A r \in Peer : user'[r] = minted + 1 => r = p
        /\ user'[p] \in {minted + 1, Gone} /\ p \notin revived'
    BY <1>0, <1>2, <1>3, <1>4, <1>6
  <2> QED BY <1>1, <2>1, <2>2 DEF Again
<1>10. OldTokenDies'
  BY <1>0, <1>2, <1>3 DEF TokenInv, Issued, OldTokenDies, Exists
<1>11. Paged'
  <2>1. ASSUME NEW u \in Threads, pc'[u] = "page"
        PROVE  LET q == job'[u].peer  k == job'[u].tok IN
               /\ q \in Peer /\ k \in 1 .. minted' /\ user'[q] # None
               /\ \A r \in Peer : user'[r] = k => r = q
               /\ \A v \in Threads :
                    /\ pc'[v] \in {"rewrite", "find"} => job'[v].tok # k
                    /\ pc'[v] \in {"meta", "page"} /\ job'[v].tok = k => job'[v].peer = q
                    /\ pc'[v] = "meta" /\ job'[v].peer = q /\ q \notin early' => job'[v].tok = k
    <3>1. u # t /\ pc[u] = "page" /\ job'[u] = job[u]
      BY <1>1, <2>1
    <3>2. /\ job[u].peer \in Peer \ {p} /\ job[u].tok \in 1 .. minted /\ job[u].tok # minted + 1
          /\ user[job[u].peer] # None
          /\ \A r \in Peer : user[r] = job[u].tok => r = job[u].peer
      BY <1>0, <1>2, <3>1 DEF TokenInv, Paged
    <3>3. /\ job[u].tok \in 1 .. minted' /\ user'[job[u].peer] # None
          /\ \A r \in Peer : user'[r] = job[u].tok => r = job[u].peer
      BY <1>0, <1>3, <3>2
    <3>4. ASSUME NEW v \in Threads \ {t}
          PROVE  /\ pc[v] \in {"rewrite", "find"} => job[v].tok # job[u].tok
                 /\ pc[v] \in {"meta", "page"} /\ job[v].tok = job[u].tok => job[v].peer = job[u].peer
                 /\ pc[v] = "meta" /\ job[v].peer = job[u].peer /\ job[u].peer \notin early
                      => job[v].tok = job[u].tok
      BY <3>1 DEF TokenInv, Paged
    <3>5. ASSUME NEW v \in Threads
          PROVE  /\ pc'[v] \in {"rewrite", "find"} => job'[v].tok # job[u].tok
                 /\ pc'[v] \in {"meta", "page"} /\ job'[v].tok = job[u].tok => job'[v].peer = job[u].peer
                 /\ pc'[v] = "meta" /\ job'[v].peer = job[u].peer /\ job[u].peer \notin early'
                      => job'[v].tok = job[u].tok
      BY <1>1, <1>2, <3>2, <3>4
    <3> QED BY <3>1, <3>2, <3>3, <3>5
  <2> QED BY <2>1 DEF Paged
<1> QED BY <1>1, <1>5, <1>7, <1>8, <1>9, <1>10, <1>11 DEF TokenInv

\* A thread writes the token it holds over that of its peer, if the peer is
\* still there: CreatePeer its first token again, a rotation a fresh one.
LEMMA TokenWritten ==
  ASSUME TokenInv, ThreadsTyped', UNCHANGED minted, NEW t \in Threads, NEW p \in Peer, NEW k,
         Pending(t), p = job[t].peer, k = job[t].tok,
         UserUpdate(p, k),
         IF Exists(p) THEN retired' \ {user[p]} \subseteq retired /\ retired \subseteq retired'
                      ELSE retired' = retired,
         retired' \subseteq retired \cup {user[p]},
         user[p] = k => retired' = retired,
         early \subseteq early', early' \subseteq early \cup {p}, revived' = revived \ {p},
         pc[t] # "meta" /\ (\E u \in Handler : pc[u] = "meta" /\ job[u].peer = p) => p \in early',
         \A u \in Threads \ {t} : pc'[u] = pc[u] /\ job'[u] = job[u],
         ~Pending(t)', pc'[t] # "page"
  PROVE  TokenInv'
<1>0. minted \in Nat /\ k \in 1 .. minted /\ k \notin {None, Gone}
  BY Range, Marks DEF TokenInv, Held
<1>1. /\ user'[p] = IF Exists(p) THEN k ELSE user[p]
      /\ \A q \in Peer \ {p} : user'[q] = user[q]
      /\ user' \in [Peer -> 1 .. minted \cup {None, Gone}]
  BY <1>0 DEF UserUpdate, TokenInv, Issued
<1>2. \A u \in Threads : Pending(u)' =>
        /\ u # t /\ Pending(u) /\ pc'[u] = pc[u] /\ job'[u] = job[u]
        /\ job[u].tok # k
  BY DEF Pending, TokenInv, Held
<1>3. \A q \in Peer \ {p} : Exists(q) => user[q] # k
  BY DEF TokenInv, Fresh, Again, Pending
<1>4. \A q \in Peer : Exists(q)' <=> Exists(q)
  BY <1>0, <1>1 DEF Exists
<1>5. Issued'
  <2>1. \A q, r \in Peer : Exists(q)' /\ user'[q] = user'[r] => q = r
    BY <1>0, <1>1, <1>3, <1>4 DEF TokenInv, Issued, Exists
  <2>2. retired' \subseteq 1 .. minted
    BY DEF TokenInv, Issued, Exists
  <2>3. early' \subseteq Peer /\ revived' \subseteq Peer /\ \A q \in revived' : user'[q] # None
    BY <1>1 DEF TokenInv, Issued
  <2> QED BY <1>1, <2>1, <2>2, <2>3 DEF TokenInv, Issued
<1>6. Held'
  BY <1>2, HandlerThread DEF TokenInv, Held, Pending
<1>7. Fresh'
  <2>1. ASSUME NEW u \in Threads, pc'[u] \in {"rewrite", "find"}
        PROVE  job'[u].tok \notin retired' /\ \A q \in Peer : user'[q] # job'[u].tok
    <3>1. /\ u # t /\ job'[u] = job[u] /\ job[u].tok # k /\ pc[u] \in {"rewrite", "find"}
      BY <1>2, <2>1 DEF Pending
    <3>2. job[u].tok \notin retired /\ \A q \in Peer : user[q] # job[u].tok
      BY <3>1 DEF TokenInv, Fresh
    <3> QED BY <1>1, <3>1, <3>2
  <2> QED BY <2>1 DEF Fresh
<1>8. Again'
  <2>1. ASSUME NEW u \in Threads, pc'[u] = "meta"
        PROVE  LET q == job'[u].peer IN
               /\ user'[q] # None
               /\ \A r \in Peer : user'[r] = job'[u].tok => r = q
               /\ q \notin early' => user'[q] \in {job'[u].tok, Gone} /\ q \notin revived'
    <3>1. /\ u # t /\ job'[u] = job[u] /\ job[u].tok # k /\ pc[u] = "meta" /\ u \in Handler
          /\ job[u].peer \in Peer
      BY <1>2, <2>1 DEF Pending, TokenInv, Held, Threads
    <3>2. /\ user[job[u].peer] # None
          /\ \A q \in Peer : user[q] = job[u].tok => q = job[u].peer
          /\ job[u].peer \notin early =>
               user[job[u].peer] \in {job[u].tok, Gone} /\ job[u].peer \notin revived
      BY <3>1 DEF TokenInv, Again
    <3>3. job[u].peer = p => p \in early'
      BY <3>1 DEF TokenInv, Held, Pending
    <3> QED BY <1>0, <1>1, <3>1, <3>2, <3>3
  <2> QED BY <2>1 DEF Again
<1>9. OldTokenDies'
  <2>1. ASSUME NEW q \in Peer \ (early' \cup revived'), Exists(q)' PROVE user'[q] \notin retired'
    <3>1. CASE q # p
      <4>1. Exists(q) /\ user'[q] = user[q] /\ user[q] \notin retired
        BY <1>1, <2>1, <3>1, <1>4 DEF TokenInv, OldTokenDies
      <4>2. user[q] # user[p]
        BY <3>1, <4>1 DEF TokenInv, Issued
      <4> QED BY <4>1, <4>2
    <3>2. CASE q = p
      <4>1. Exists(p) /\ user'[p] = k /\ p \notin early
        BY <1>1, <1>4, <2>1, <3>2
      <4>2. k \notin retired
        <5>1. CASE pc[t] = "meta"
          BY <4>1, <5>1 DEF TokenInv, Again, OldTokenDies, Exists
        <5>2. CASE pc[t] # "meta"
          BY <5>2 DEF TokenInv, Fresh, Pending
        <5> QED BY <5>1, <5>2
      <4>3. user[p] # k => k \notin retired'
        BY <4>2
      <4> QED BY <3>2, <4>1, <4>2, <4>3
    <3> QED BY <3>1, <3>2
  <2> QED BY <2>1 DEF OldTokenDies
<1>10. Paged'
  <2>1. \A u \in Threads : pc'[u] \in {"page", "meta", "rewrite", "find"} =>
          u # t /\ pc'[u] = pc[u] /\ job'[u] = job[u]
    BY DEF Pending
  <2>2. ASSUME NEW u \in Threads, pc'[u] = "page", NEW q \in Peer, user'[q] = job[u].tok
        PROVE  q = job[u].peer
    <3>1. pc[u] = "page"
      BY <2>1, <2>2
    <3>2. job[u].tok = k => job[u].peer = p
      <4>1. /\ pc[t] \in {"rewrite", "find"} => k # job[u].tok
            /\ pc[t] = "meta" /\ k = job[u].tok => p = job[u].peer
        BY <3>1 DEF TokenInv, Paged
      <4> QED BY <4>1 DEF Pending
    <3>3. user[q] = job[u].tok => q = job[u].peer
      BY <3>1 DEF TokenInv, Paged
    <3> QED BY <1>1, <2>2, <3>2, <3>3
  <2>3. ASSUME NEW u \in Threads, pc'[u] = "page"
        PROVE  /\ pc[u] = "page" /\ job'[u] = job[u]
               /\ job[u].peer \in Peer /\ job[u].tok \in 1 .. minted /\ user[job[u].peer] # None
               /\ user'[job[u].peer] # None
    BY <1>0, <1>1, <2>1, <2>3 DEF TokenInv, Paged
  <2>4. \A u, v \in Threads : pc[u] = "page" =>
          /\ pc[v] \in {"rewrite", "find"} => job[v].tok # job[u].tok
          /\ pc[v] \in {"meta", "page"} /\ job[v].tok = job[u].tok => job[v].peer = job[u].peer
          /\ pc[v] = "meta" /\ job[v].peer = job[u].peer /\ job[u].peer \notin early'
               => job[v].tok = job[u].tok
    BY DEF TokenInv, Paged
  <2> QED BY <2>1, <2>2, <2>3, <2>4 DEF Paged
<1> QED BY <1>5, <1>6, <1>7, <1>8, <1>9, <1>10 DEF TokenInv

\* A peer is revoked: its tokens go with it.
LEMMA TokenDeleted ==
  ASSUME TokenInv, ThreadsTyped', UNCHANGED <<minted, retired, early, revived>>,
         NEW t \in Threads, NEW p, user' = [user EXCEPT ![p] = Gone],
         \A u \in Threads \ {t} : pc'[u] = pc[u] /\ job'[u] = job[u],
         ~Pending(t)', pc'[t] # "page"
  PROVE  TokenInv'
<1>1. /\ user' \in [Peer -> 1 .. minted \cup {None, Gone}]
      /\ \A q \in Peer : user'[q] = user[q] \/ user'[q] = Gone
  BY DEF TokenInv, Issued
<1>2. \A u \in Threads : Pending(u)' =>
        u # t /\ Pending(u) /\ pc'[u] = pc[u] /\ job'[u] = job[u] /\ job[u].tok # Gone
  BY Range, Marks DEF Pending, TokenInv, Held
<1>3. Issued'
  BY <1>1, Marks DEF TokenInv, Issued, Exists
<1>4. Held'
  BY <1>2, HandlerThread DEF TokenInv, Held, Pending
<1>5. Fresh'
  BY <1>1, <1>2 DEF TokenInv, Fresh, Pending
<1>6. Again'
  <2>1. ASSUME NEW u \in Threads, pc'[u] = "meta"
        PROVE  LET q == job'[u].peer IN
               /\ user'[q] # None
               /\ \A r \in Peer : user'[r] = job'[u].tok => r = q
               /\ q \notin early' => user'[q] \in {job'[u].tok, Gone} /\ q \notin revived'
    <3>1. job'[u] = job[u] /\ job[u].tok # Gone /\ pc[u] = "meta" /\ job[u].peer \in Peer
      BY <1>2, <2>1 DEF Pending, TokenInv, Held
    <3> QED BY <1>1, <3>1, Marks DEF TokenInv, Again
  <2> QED BY <2>1 DEF Again
<1>7. OldTokenDies'
  BY <1>1 DEF TokenInv, OldTokenDies, Exists
<1>8. Paged'
  <2>1. \A u \in Threads : pc'[u] \in {"page", "meta", "rewrite", "find"} =>
          pc'[u] = pc[u] /\ job'[u] = job[u]
    BY DEF Pending
  <2>2. \A u \in Threads : pc[u] = "page" => job[u].tok # Gone
    BY Range, Marks DEF TokenInv, Paged
  <2>3. ASSUME NEW u \in Threads, pc'[u] = "page"
        PROVE  /\ job[u].peer \in Peer /\ job[u].tok \in 1 .. minted /\ user'[job[u].peer] # None
               /\ \A q \in Peer : user'[q] = job[u].tok => q = job[u].peer
    BY <1>1, <2>1, <2>2, <2>3, Marks DEF TokenInv, Paged
  <2>4. \A u, v \in Threads : pc[u] = "page" =>
          /\ pc[v] \in {"rewrite", "find"} => job[v].tok # job[u].tok
          /\ pc[v] \in {"meta", "page"} /\ job[v].tok = job[u].tok => job[v].peer = job[u].peer
          /\ pc[v] = "meta" /\ job[v].peer = job[u].peer /\ job[u].peer \notin early'
               => job[v].tok = job[u].tok
    BY DEF TokenInv, Paged
  <2> QED BY <2>1, <2>3, <2>4 DEF Paged
<1> QED BY <1>3, <1>4, <1>5, <1>6, <1>7, <1>8 DEF TokenInv

\* A user page is loaded: it holds the token of the peer.
LEMMA TokenPaged ==
  ASSUME TokenInv, ThreadsTyped', UNCHANGED <<user, minted, retired, early, revived>>,
         NEW t \in Threads, NEW p \in Peer, Exists(p),
         \A u \in Threads \ {t} : pc'[u] = pc[u] /\ job'[u] = job[u],
         pc'[t] = "page", job'[t].peer = p, job'[t].tok = user[p]
  PROVE  TokenInv'
<1>1. \A u \in Threads : pc'[u] \in {"meta", "rewrite", "find"} =>
        u # t /\ pc'[u] = pc[u] /\ job'[u] = job[u]
  OBVIOUS
<1>2. Issued' /\ OldTokenDies'
  BY DEF TokenInv, Issued, OldTokenDies, Exists
<1>3. pc'["rotator"] # "meta"
  BY <1>1, HandlerThread DEF TokenInv, Held
<1>4. \A u \in Threads : Pending(u)' => u # t /\ Pending(u) /\ pc'[u] = pc[u] /\ job'[u] = job[u]
  BY <1>1 DEF Pending
<1>5. Held'
  BY <1>3, <1>4 DEF TokenInv, Held
<1>6. Fresh' /\ Again'
  BY <1>1 DEF TokenInv, Fresh, Again
<1>7. /\ user[p] \in 1 .. minted /\ user[p] # None
      /\ \A q \in Peer : user[q] = user[p] => q = p
      /\ \A u \in Threads :
           /\ pc[u] \in {"rewrite", "find"} => job[u].tok # user[p]
           /\ pc[u] \in {"meta", "page"} /\ job[u].tok = user[p] => job[u].peer = p
           /\ pc[u] = "meta" /\ job[u].peer = p /\ p \notin early => job[u].tok = user[p]
  <2>1. user[p] \in 1 .. minted /\ user[p] # None
    BY DEF TokenInv, Issued, Exists
  <2>2. \A q \in Peer : user[q] = user[p] => q = p
    BY DEF TokenInv, Issued
  <2>3. \A u \in Threads : pc[u] \in {"rewrite", "find"} => job[u].tok # user[p]
    BY DEF TokenInv, Fresh
  <2>4. \A u \in Threads : pc[u] = "page" /\ job[u].tok = user[p] => job[u].peer = p
    BY DEF TokenInv, Paged
  <2>5. \A u \in Threads : pc[u] = "meta" =>
          /\ job[u].tok = user[p] => job[u].peer = p
          /\ job[u].peer = p /\ p \notin early => job[u].tok = user[p]
    BY DEF TokenInv, Again, Exists
  <2> QED BY <2>1, <2>2, <2>3, <2>4, <2>5
<1>8. Paged'
  <2>1. ASSUME NEW u \in Threads, pc'[u] = "page"
        PROVE  LET q == job'[u].peer  k == job'[u].tok IN
               /\ q \in Peer /\ k \in 1 .. minted /\ user[q] # None
               /\ \A r \in Peer : user[r] = k => r = q
               /\ \A v \in Threads :
                    /\ pc'[v] \in {"rewrite", "find"} => job'[v].tok # k
                    /\ pc'[v] \in {"meta", "page"} /\ job'[v].tok = k => job'[v].peer = q
                    /\ pc'[v] = "meta" /\ job'[v].peer = q /\ q \notin early => job'[v].tok = k
    <3>1. CASE u = t
      BY <1>1, <1>7, <3>1
    <3>2. CASE u # t
      <4>1. pc[u] = "page" /\ job'[u] = job[u]
        BY <2>1, <3>2
      <4>2. /\ job[u].peer \in Peer /\ job[u].tok \in 1 .. minted /\ user[job[u].peer] # None
            /\ \A r \in Peer : user[r] = job[u].tok => r = job[u].peer
        BY <4>1 DEF TokenInv, Paged
      <4>3. ASSUME NEW v \in Threads
            PROVE  /\ pc[v] \in {"rewrite", "find"} => job[v].tok # job[u].tok
                   /\ pc[v] \in {"meta", "page"} /\ job[v].tok = job[u].tok => job[v].peer = job[u].peer
                   /\ pc[v] = "meta" /\ job[v].peer = job[u].peer /\ job[u].peer \notin early
                        => job[v].tok = job[u].tok
        BY <4>1 DEF TokenInv, Paged
      <4> QED BY <1>1, <4>1, <4>2, <4>3
    <3> QED BY <3>1, <3>2
  <2> QED BY <2>1 DEF Paged
<1> QED BY <1>2, <1>5, <1>6, <1>8 DEF TokenInv

\* A user page is saved: the peer has the token of the page again, and is
\* marked when it had another.
LEMMA TokenRevived ==
  ASSUME TokenInv, ThreadsTyped', UNCHANGED <<minted, early>>, NEW t \in Threads, NEW p, NEW k,
         pc[t] = "page", p = job[t].peer, k = job[t].tok,
         UserUpdate(p, k),
         retired' = IF Exists(p) THEN retired \cup ({user[p]} \ {k}) ELSE retired,
         revived' = revived \cup {q \in {p} : Exists(p) /\ user[p] # k},
         \A u \in Threads \ {t} : pc'[u] = pc[u] /\ job'[u] = job[u],
         ~Pending(t)', pc'[t] # "page"
  PROVE  TokenInv'
<1>0. /\ p \in Peer /\ minted \in Nat /\ k \in 1 .. minted /\ k \notin {None, Gone} /\ user[p] # None
      /\ \A q \in Peer : user[q] = k => q = p
  BY Range, Marks DEF TokenInv, Paged
<1>1. /\ user'[p] = IF Exists(p) THEN k ELSE user[p]
      /\ \A q \in Peer \ {p} : user'[q] = user[q]
      /\ user' \in [Peer -> 1 .. minted \cup {None, Gone}]
  BY <1>0 DEF UserUpdate, TokenInv, Issued
<1>2. \A u \in Threads : pc'[u] \in {"page", "meta", "rewrite", "find"} =>
        u # t /\ pc'[u] = pc[u] /\ job'[u] = job[u]
  BY DEF Pending
<1>3. \A u \in Threads : Pending(u)' => Pending(u) /\ u # t /\ pc'[u] = pc[u] /\ job'[u] = job[u]
  BY <1>2 DEF Pending
<1>4. \A q \in Peer : Exists(q)' <=> Exists(q)
  BY <1>0, <1>1 DEF Exists
<1>5. \A u \in Threads :
        /\ pc[u] \in {"rewrite", "find"} => job[u].tok # k
        /\ pc[u] \in {"meta", "page"} /\ job[u].tok = k => job[u].peer = p
        /\ pc[u] = "meta" /\ job[u].peer = p /\ p \notin early => job[u].tok = k
  BY DEF TokenInv, Paged
<1>6. Issued'
  <2>1. \A q, r \in Peer : Exists(q)' /\ user'[q] = user'[r] => q = r
    BY <1>0, <1>1, <1>4 DEF TokenInv, Issued, Exists
  <2>2. retired' \subseteq 1 .. minted
    <3>1. retired \subseteq 1 .. minted
      BY DEF TokenInv, Issued
    <3>2. Exists(p) => user[p] \in 1 .. minted
      BY <1>0 DEF TokenInv, Issued, Exists
    <3> QED BY <3>1, <3>2
  <2>3. revived' \subseteq Peer /\ \A q \in revived' : user'[q] # None
    BY <1>0, <1>1 DEF TokenInv, Issued
  <2> QED BY <1>1, <2>1, <2>2, <2>3 DEF TokenInv, Issued
<1>7. Held'
  BY <1>3, HandlerThread DEF TokenInv, Held, Pending
<1>8. Fresh'
  <2>1. ASSUME NEW u \in Threads, pc'[u] \in {"rewrite", "find"}
        PROVE  job'[u].tok \notin retired' /\ \A q \in Peer : user'[q] # job'[u].tok
    <3>1. job'[u] = job[u] /\ pc[u] \in {"rewrite", "find"} /\ job[u].tok # k
      BY <1>2, <1>5, <2>1
    <3>2. job[u].tok \notin retired /\ \A q \in Peer : user[q] # job[u].tok
      BY <3>1 DEF TokenInv, Fresh
    <3> QED BY <1>0, <1>1, <3>1, <3>2
  <2> QED BY <2>1 DEF Fresh
<1>9. Again'
  <2>1. ASSUME NEW u \in Threads, pc'[u] = "meta"
        PROVE  LET q == job'[u].peer IN
               /\ user'[q] # None
               /\ \A r \in Peer : user'[r] = job'[u].tok => r = q
               /\ q \notin early' => user'[q] \in {job'[u].tok, Gone} /\ q \notin revived'
    <3>1. /\ job'[u] = job[u] /\ pc[u] = "meta" /\ job[u].peer \in Peer
      BY <1>2, <2>1 DEF TokenInv, Held, Pending
    <3>2. /\ user[job[u].peer] # None
          /\ \A q \in Peer : user[q] = job[u].tok => q = job[u].peer
          /\ job[u].peer \notin early =>
               user[job[u].peer] \in {job[u].tok, Gone} /\ job[u].peer \notin revived
      BY <3>1 DEF TokenInv, Again
    <3>3. /\ job[u].tok = k => job[u].peer = p
          /\ job[u].peer = p /\ p \notin early => job[u].tok = k
      BY <1>5, <3>1
    <3>4. user'[job[u].peer] # None
      BY <1>0, <1>1, <3>1, <3>2
    <3>5. \A r \in Peer : user'[r] = job[u].tok => r = job[u].peer
      BY <1>0, <1>1, <3>1, <3>2, <3>3
    <3>6. ASSUME job[u].peer \notin early
          PROVE  user'[job[u].peer] \in {job[u].tok, Gone} /\ job[u].peer \notin revived'
      <4>1. CASE job[u].peer = p
        <5>1. job[u].tok = k /\ user[p] \in {k, Gone} /\ p \notin revived
          BY <3>2, <3>3, <3>6, <4>1
        <5>2. Exists(p) => user[p] = k
          BY <5>1 DEF Exists
        <5> QED BY <1>1, <4>1, <5>1, <5>2
      <4>2. CASE job[u].peer # p
        BY <1>1, <3>1, <3>2, <3>6, <4>2
      <4> QED BY <4>1, <4>2
    <3> QED BY <3>1, <3>4, <3>5, <3>6
  <2> QED BY <2>1 DEF Again
<1>10. OldTokenDies'
  <2>1. ASSUME NEW q \in Peer \ (early' \cup revived'), Exists(q)' PROVE user'[q] \notin retired'
    <3>1. Exists(q) /\ user[q] \notin retired
      BY <1>4, <2>1 DEF TokenInv, OldTokenDies
    <3>2. CASE q # p
      <4>1. user'[q] = user[q] /\ user[q] # user[p]
        BY <1>0, <1>1, <2>1, <3>1, <3>2 DEF TokenInv, Issued
      <4> QED BY <3>1, <4>1
    <3>3. CASE q = p
      <4>1. user[p] = k /\ user'[p] = k
        BY <1>1, <2>1, <3>1, <3>3
      <4> QED BY <3>1, <3>3, <4>1
    <3> QED BY <3>2, <3>3
  <2> QED BY <2>1 DEF OldTokenDies
<1>11. Paged'
  <2>1. ASSUME NEW u \in Threads, pc'[u] = "page"
        PROVE  /\ pc[u] = "page" /\ job'[u] = job[u]
               /\ job[u].peer \in Peer /\ job[u].tok \in 1 .. minted
               /\ user'[job[u].peer] # None
               /\ \A q \in Peer : user'[q] = job[u].tok => q = job[u].peer
    <3>1. pc[u] = "page" /\ job'[u] = job[u]
      BY <1>2, <2>1
    <3>2. /\ job[u].peer \in Peer /\ job[u].tok \in 1 .. minted /\ user[job[u].peer] # None
          /\ \A q \in Peer : user[q] = job[u].tok => q = job[u].peer
      BY <3>1 DEF TokenInv, Paged
    <3>3. job[u].tok = k => job[u].peer = p
      BY <1>5, <3>1
    <3> QED BY <1>0, <1>1, <3>1, <3>2, <3>3
  <2>2. \A u, v \in Threads : pc[u] = "page" =>
          /\ pc[v] \in {"rewrite", "find"} => job[v].tok # job[u].tok
          /\ pc[v] \in {"meta", "page"} /\ job[v].tok = job[u].tok => job[v].peer = job[u].peer
          /\ pc[v] = "meta" /\ job[v].peer = job[u].peer /\ job[u].peer \notin early'
               => job[v].tok = job[u].tok
    BY DEF TokenInv, Paged
  <2> QED BY <1>2, <2>1, <2>2 DEF Paged
<1> QED BY <1>6, <1>7, <1>8, <1>9, <1>10, <1>11 DEF TokenInv

-----------------------------------------------------------------------------
(* The operations, one by one. *)

\* The portal's own operations and a revocation on its way: no token is
\* generated or written.
Quiet(t) ==
  \/ \E p \in Peer : Revoke(t, p)
  \/ LoadForm(t) \/ SaveForm(t)
  \/ ReadExtract(t) \/ UpdateAddonConfigExtract(t) \/ ClearAddonConfigExtract(t)
  \/ Request(t) \/ Deliver(t) \/ SyncRegistryCacheToPeer(t)

\* What TypeOK says of the threads and the host record.
LEMMA Parts ==
  ASSUME TypeOK
  PROVE  /\ ThreadsTyped
         /\ \A t \in Threads : job[t].tok \in 0 .. MaxTokens /\ job[t].ext \in Extract \cup {None}
         /\ host.tok \in 0 .. MaxTokens /\ host.ext \in Extract \cup {None}
<1>1. ThreadsTyped
  BY DEF TypeOK, ThreadsTyped, JobOf
<1>2. host.tok \in 0 .. MaxTokens /\ host.ext \in Extract \cup {None}
  <2> HIDE DEF Extract
  <2> QED BY DEF TypeOK
<1>3. \A t \in Threads : job[t].tok \in 0 .. MaxTokens /\ job[t].ext \in Extract \cup {None}
  <2> HIDE DEF Extract, Ops, Edits, Addon, Threads, Steps
  <2> QED BY <1>1 DEF ThreadsTyped, JobOf
<1> QED BY <1>1, <1>2, <1>3

\* A quiet operation of a handler.
LEMMA QuietMoves ==
  ASSUME TypeOK, NEW t \in Handler, Quiet(t)
  PROVE  /\ ThreadsTyped' /\ UNCHANGED <<user, minted, retired, early, revived>>
         /\ ~Pending(t)' /\ pc'[t] # "page"
         /\ \A u \in Threads \ {t} : pc'[u] = pc[u] /\ job'[u] = job[u]
<1>t. t \in Threads /\ ThreadsTyped
  BY HandlerThread, Parts
<1>s. /\ {"delete", "form", "edit", "record", "send"} \subseteq Steps
      /\ {"revoke", "form", "extract", "request"} \subseteq Ops
      /\ {"delete", "form", "edit", "record", "send"} \cap {"meta", "rewrite", "find", "page", "idle"} = {}
  BY DEF Steps, Ops
<1>e. "idle" \notin {"meta", "rewrite", "find", "page"}
  OBVIOUS
<1>h. host.tok \in 0 .. MaxTokens /\ host.ext \in Extract \cup {None}
  BY Parts
<1>m. ASSUME NEW step \in {"delete", "form", "edit", "record", "send"}, NEW j \in JobOf,
             Proceed(t, step, j)
      PROVE  /\ ThreadsTyped' /\ ~Pending(t)' /\ pc'[t] # "page"
             /\ \A u \in Threads \ {t} : pc'[u] = pc[u] /\ job'[u] = job[u]
  BY <1>t, <1>s, <1>m, Moved DEF Pending
<1>n. End(t) => /\ ThreadsTyped' /\ ~Pending(t)' /\ pc'[t] # "page"
                /\ \A u \in Threads \ {t} : pc'[u] = pc[u] /\ job'[u] = job[u]
  BY <1>t, <1>e, Ended DEF Pending
<1>u. UNCHANGED <<user, minted, retired, early, revived>>
  BY DEF Quiet, Revoke, LoadForm, SaveForm, ReadExtract, UpdateAddonConfigExtract,
         ClearAddonConfigExtract, Request, Deliver, SyncRegistryCacheToPeer, target
<1> DEFINE Goal == \E step \in {"delete", "form", "edit", "record", "send"}, j \in JobOf :
                     Proceed(t, step, j)
<1>1. ASSUME NEW p \in Peer, Revoke(t, p) PROVE Goal
  <2>1. ForPeer("revoke", p) \in JobOf
    BY <1>s, Jobs
  <2>2. Proceed(t, "delete", ForPeer("revoke", p))
    BY <1>1 DEF Revoke, ForPeer
  <2> QED BY <2>1, <2>2
<1>2. ASSUME LoadForm(t) PROVE Goal
  <2>1. WithBoth("form", host.tok, host.ext) \in JobOf
    BY <1>s, <1>h, Jobs
  <2>2. Proceed(t, "form", WithBoth("form", host.tok, host.ext))
    BY <1>2 DEF LoadForm, WithBoth
  <2> QED BY <2>1, <2>2
<1>x. WithExtract("extract", host.ext) \in JobOf
  BY <1>s, <1>h, Jobs
<1>3. ASSUME ReadExtract(t) PROVE Goal
  <2>1. Proceed(t, "edit", WithExtract("extract", host.ext))
    BY <1>3 DEF ReadExtract, WithExtract
  <2> QED BY <1>x, <2>1
<1>4. ASSUME Request(t) PROVE Goal
  <2>1. WithToken("request", host.tok) \in JobOf
    BY <1>s, <1>h, Jobs
  <2>2. Proceed(t, "send", WithToken("request", host.tok))
    BY <1>4 DEF Request, WithToken
  <2> QED BY <2>1, <2>2
<1>5. ASSUME SyncRegistryCacheToPeer(t) PROVE Goal
  <2>1. Proceed(t, "record", WithExtract("extract", host.ext))
    BY <1>5 DEF SyncRegistryCacheToPeer, WithExtract
  <2> QED BY <1>x, <2>1
<1>6. ASSUME \/ SaveForm(t) \/ UpdateAddonConfigExtract(t) \/ ClearAddonConfigExtract(t) \/ Deliver(t)
      PROVE  End(t)
  BY <1>6 DEF SaveForm, UpdateAddonConfigExtract, ClearAddonConfigExtract, Deliver
<1>7. Goal \/ End(t)
  BY <1>1, <1>2, <1>3, <1>4, <1>5, <1>6 DEF Quiet
<1> QED BY <1>m, <1>n, <1>u, <1>7

\* RotateToken: a token for an existing peer, not yet written.
LEMMA RotateTokens ==
  ASSUME TokenInv, NEW t \in Handler, NEW p \in Peer, RotateToken(t, p)
  PROVE  TokenInv'
<1>1. minted + 1 \in 0 .. MaxTokens
  BY Range, Marks DEF RotateToken, generateFederationToken, TokenInv
<1>2. "rotate" \in Ops /\ "rewrite" \in Steps
  BY DEF Ops, Steps
<1>3. /\ Minted("rotate", p, minted + 1) \in JobOf
      /\ Minted("rotate", p, minted + 1).peer = p
      /\ Minted("rotate", p, minted + 1).tok = minted + 1
  BY <1>1, <1>2, MintedJob
<1>4. Proceed(t, "rewrite", Minted("rotate", p, minted + 1))
  BY DEF RotateToken, Minted
<1>5. ThreadsTyped /\ t \in Threads
  BY HandlerThread DEF TokenInv
<1>6. generateFederationToken /\ UNCHANGED <<user, retired, early, revived>>
  BY DEF RotateToken
<1>7. /\ ThreadsTyped' /\ pc'[t] = "rewrite" /\ job'[t].peer = p /\ job'[t].tok = minted + 1
      /\ \A u \in Threads \ {t} : pc'[u] = pc[u] /\ job'[u] = job[u]
  BY <1>2, <1>3, <1>4, <1>5, Moved
<1> QED BY <1>5, <1>6, <1>7, TokenMinted

\* A user page is loaded.
LEMMA LoadTokens ==
  ASSUME TokenInv, NEW t \in Handler, NEW p \in Peer, LoadUser(t, p)
  PROVE  TokenInv'
<1>1. Exists(p) /\ user[p] \in 0 .. MaxTokens
  BY Range, Marks DEF LoadUser, TokenInv, Issued, Exists
<1>2. "page" \in Ops /\ "page" \in Steps
  BY DEF Ops, Steps
<1>3. /\ Minted("page", p, user[p]) \in JobOf
      /\ Minted("page", p, user[p]).peer = p
      /\ Minted("page", p, user[p]).tok = user[p]
  BY <1>1, <1>2, MintedJob
<1>4. Proceed(t, "page", Minted("page", p, user[p]))
  BY DEF LoadUser, Minted
<1>5. ThreadsTyped /\ t \in Threads
  BY HandlerThread DEF TokenInv
<1>6. UNCHANGED <<user, minted, retired, early, revived>>
  BY DEF LoadUser, target
<1>7. /\ ThreadsTyped' /\ pc'[t] = "page" /\ job'[t].peer = p /\ job'[t].tok = user[p]
      /\ \A u \in Threads \ {t} : pc'[u] = pc[u] /\ job'[u] = job[u]
  BY <1>2, <1>3, <1>4, <1>5, Moved
<1> QED BY <1>1, <1>5, <1>6, <1>7, TokenPaged

\* The tokens that are written, or not: CreatePeer's second write, a rotation's
\* and a user page's.
LEMMA RewriteTokens ==
  ASSUME TokenInv, NEW t \in Handler, NEW op,
         \/ pc[t] = "meta" /\ op = "create"
         \/ pc[t] = "rewrite" /\ op = "rotate"
         \/ pc[t] = "page" /\ op = "page",
         Rewrite(t, op), End(t)
  PROVE  TokenInv'
<1>1. ThreadsTyped /\ t \in Threads
  BY HandlerThread DEF TokenInv
<1>2. /\ ThreadsTyped' /\ ~Pending(t)' /\ pc'[t] # "page"
      /\ \A u \in Threads \ {t} : pc'[u] = pc[u] /\ job'[u] = job[u]
  BY <1>1, Ended DEF Pending
<1>3. CASE UNCHANGED <<user, retired, early, revived>>
  <2>1. UNCHANGED minted
    BY DEF Rewrite
  <2> QED BY <1>1, <1>2, <1>3, <2>1, TokenQuiet
<1>4. ASSUME ~UNCHANGED <<user, retired, early, revived>> PROVE TokenInv'
  <2> DEFINE p == job[t].peer
             k == job[t].tok
  <2>1. /\ UserUpdate(p, k) /\ UNCHANGED minted
        /\ retired' = IF Exists(p) THEN retired \cup ({user[p]} \ {k}) ELSE retired
        /\ early' = early \cup {q \in {p} : op = "rotate" /\ Creating(p)}
        /\ revived' = IF op = "page" THEN revived \cup {q \in {p} : Exists(p) /\ user[p] # k}
                                     ELSE revived \ {p}
    BY <1>4 DEF Rewrite
  <2>3. p = job[t].peer /\ k = job[t].tok
    OBVIOUS
  <2> HIDE DEF p, k
  <2>4. CASE pc[t] = "page"
    <3>1. op = "page"
      BY <2>4
    <3>2. early' = early /\ revived' = revived \cup {q \in {p} : Exists(p) /\ user[p] # k}
      BY <2>1, <3>1
    <3> QED BY <1>1, <1>2, <2>1, <2>3, <2>4, <3>2, TokenRevived
  <2>5. CASE pc[t] # "page"
    <3>1. Pending(t) /\ op # "page" /\ (pc[t] # "meta" => op = "rotate")
      BY <2>5 DEF Pending
    <3>2. p \in Peer
      BY <1>1, <2>3, <3>1 DEF TokenInv, Held
    <3>3. /\ early \subseteq early' /\ early' \subseteq early \cup {p}
          /\ pc[t] # "meta" /\ (\E u \in Handler : pc[u] = "meta" /\ job[u].peer = p) => p \in early'
          /\ revived' = revived \ {p}
      BY <2>1, <3>1 DEF At, Creating
    <3>4. /\ IF Exists(p) THEN retired' \ {user[p]} \subseteq retired /\ retired \subseteq retired'
                          ELSE retired' = retired
          /\ retired' \subseteq retired \cup {user[p]}
          /\ user[p] = k => retired' = retired
      BY <2>1
    <3> QED BY <1>1, <1>2, <2>1, <2>3, <3>1, <3>2, <3>3, <3>4, TokenWritten
  <2> QED BY <2>4, <2>5
<1> QED BY <1>3, <1>4

\* Every step keeps TokenInv.
LEMMA TokenStep == TypeOK /\ TokenInv /\ [Next]_vars => TokenInv'
<1> SUFFICES ASSUME TypeOK, TokenInv, [Next]_vars PROVE TokenInv'
  OBVIOUS
<1>r. "rotator" \in Threads /\ ThreadsTyped
  BY HandlerThread DEF TokenInv
<1>1. ASSUME NEW t \in Handler, NEW p \in Peer, CreatePeer(t, p) PROVE TokenInv'
  BY <1>1, TokenCreated
<1>2. ASSUME NEW t \in Handler, NEW p \in Peer, RotateToken(t, p) PROVE TokenInv'
  BY <1>2, RotateTokens
<1>3. ASSUME NEW t \in Handler, WriteExpiry(t) PROVE TokenInv'
  <2>1. pc[t] = "meta" /\ Rewrite(t, "create") /\ End(t)
    BY <1>3 DEF WriteExpiry, At
  <2> QED BY <2>1, RewriteTokens
<1>4. ASSUME NEW t \in Handler, WriteToken(t) PROVE TokenInv'
  <2>1. pc[t] = "rewrite" /\ Rewrite(t, "rotate") /\ End(t)
    BY <1>4 DEF WriteToken, At
  <2> QED BY <2>1, RewriteTokens
<1>p. ASSUME NEW t \in Handler, NEW p \in Peer, LoadUser(t, p) PROVE TokenInv'
  BY <1>p, LoadTokens
<1>q. ASSUME NEW t \in Handler, SaveUser(t) PROVE TokenInv'
  <2>1. pc[t] = "page" /\ Rewrite(t, "page") /\ End(t)
    BY <1>q DEF SaveUser, At
  <2> QED BY <2>1, RewriteTokens
<1>5. ASSUME NEW t \in Handler, UserDelete(t) PROVE TokenInv'
  <2>1. t \in Threads
    BY HandlerThread
  <2>2. End(t) /\ UNCHANGED <<minted, retired, early, revived>>
    BY <1>5 DEF UserDelete
  <2>3. user' = [user EXCEPT ![job[t].peer] = Gone] \/ UNCHANGED user
    BY <1>5 DEF UserDelete
  <2>4. /\ ThreadsTyped' /\ ~Pending(t)' /\ pc'[t] # "page"
        /\ \A u \in Threads \ {t} : pc'[u] = pc[u] /\ job'[u] = job[u]
    BY <1>r, <2>1, <2>2, Ended DEF Pending
  <2>5. CASE UNCHANGED user
    BY <2>1, <2>2, <2>4, <2>5, TokenQuiet
  <2>6. CASE user' = [user EXCEPT ![job[t].peer] = Gone]
    BY <2>1, <2>2, <2>4, <2>6, TokenDeleted
  <2> QED BY <2>3, <2>5, <2>6
<1>6. ASSUME NEW t \in Handler, Quiet(t) PROVE TokenInv'
  BY <1>6, QuietMoves, TokenQuiet, HandlerThread
<1>7. CASE Tick
  <2>1. "self" \in Ops /\ "send" \in Steps /\ host.tok \in 0 .. MaxTokens
    BY Parts DEF Ops, Steps
  <2>2. WithToken("self", host.tok) \in JobOf
    BY <2>1, Jobs
  <2>3. Proceed("rotator", "send", WithToken("self", host.tok)) /\ UNCHANGED <<user, minted, retired, early, revived>>
    BY <1>7 DEF Tick, WithToken, target
  <2>4. /\ ThreadsTyped' /\ pc'["rotator"] = "send"
        /\ \A u \in Threads \ {"rotator"} : pc'[u] = pc[u] /\ job'[u] = job[u]
    BY <1>r, <2>1, <2>2, <2>3, Moved
  <2>5. ~Pending("rotator")' /\ pc'["rotator"] # "page"
    BY <2>4 DEF Pending
  <2> QED BY <1>r, <2>3, <2>4, <2>5, TokenQuiet
<1>8. CASE RotateSelf
  <2>1. UNCHANGED <<user, retired, early, revived>>
    BY <1>8 DEF RotateSelf
  <2>2. ASSUME generateFederationToken, NEW p \in Owner(job["rotator"].tok),
               Proceed("rotator", "find", [Job("self") EXCEPT !.peer = p, !.tok = minted + 1])
        PROVE  TokenInv'
    <3>1. p \in Peer /\ minted + 1 \in 0 .. MaxTokens /\ "self" \in Ops /\ "find" \in Steps
      BY <2>2, Range, Marks DEF generateFederationToken, TokenInv, Owner, Ops, Steps
    <3>2. /\ Minted("self", p, minted + 1) \in JobOf
          /\ Minted("self", p, minted + 1).peer = p
          /\ Minted("self", p, minted + 1).tok = minted + 1
      BY <3>1, MintedJob
    <3>3. Proceed("rotator", "find", Minted("self", p, minted + 1))
      BY <2>2 DEF Minted
    <3>4. /\ ThreadsTyped' /\ pc'["rotator"] = "find" /\ job'["rotator"].peer = p
          /\ job'["rotator"].tok = minted + 1
          /\ \A u \in Threads \ {"rotator"} : pc'[u] = pc[u] /\ job'[u] = job[u]
      BY <1>r, <3>1, <3>2, <3>3, Moved
    <3> QED BY <1>r, <2>1, <2>2, <3>1, <3>4, TokenMinted
  <2>3. CASE End("rotator") /\ UNCHANGED minted
    <3>1. /\ ThreadsTyped' /\ ~Pending("rotator")' /\ pc'["rotator"] # "page"
          /\ \A u \in Threads \ {"rotator"} : pc'[u] = pc[u] /\ job'[u] = job[u]
      BY <1>r, <2>3, Ended DEF Pending
    <3> QED BY <1>r, <2>1, <2>3, <3>1, TokenQuiet
  <2>4. \/ End("rotator") /\ UNCHANGED minted
        \/ /\ generateFederationToken
           /\ \E p \in Owner(job["rotator"].tok) :
                Proceed("rotator", "find", [Job("self") EXCEPT !.peer = p, !.tok = minted + 1])
    BY <1>8, Zenon DEF RotateSelf
  <2> QED BY <2>2, <2>3, <2>4, Zenon
<1>9. CASE ReplaceSelf
  <2> DEFINE p == job["rotator"].peer
             k == job["rotator"].tok
  <2>1. /\ pc["rotator"] = "find" /\ Pending("rotator")
        /\ UserUpdate(p, k) /\ UNCHANGED minted
        /\ retired' = IF Exists(p) THEN retired \cup {user[p]} ELSE retired
        /\ early' = early \cup {q \in {p} : Creating(p)}
        /\ revived' = revived \ {p}
        /\ Proceed("rotator", "answer", job["rotator"])
    BY <1>9 DEF ReplaceSelf, At, Pending
  <2>2. p \in Peer /\ p = job["rotator"].peer /\ k = job["rotator"].tok
    BY <1>r, <2>1 DEF TokenInv, Held
  <2>3. user[p] # k
    BY <1>r, <2>1, <2>2 DEF TokenInv, Fresh
  <2>4. "answer" \in Steps /\ job["rotator"] \in JobOf
    BY <1>r DEF Steps, ThreadsTyped
  <2>5. /\ ThreadsTyped' /\ pc'["rotator"] = "answer"
        /\ \A u \in Threads \ {"rotator"} : pc'[u] = pc[u] /\ job'[u] = job[u]
    BY <1>r, <2>1, <2>4, Moved
  <2> HIDE DEF p, k
  <2>6. ~Pending("rotator")' /\ pc'["rotator"] # "page"
    BY <2>5 DEF Pending
  <2>7. /\ early \subseteq early' /\ early' \subseteq early \cup {p}
        /\ (\E u \in Handler : pc[u] = "meta" /\ job[u].peer = p) => p \in early'
    BY <2>1 DEF At, Creating
  <2>8. /\ IF Exists(p) THEN retired' \ {user[p]} \subseteq retired /\ retired \subseteq retired'
                        ELSE retired' = retired
        /\ retired' \subseteq retired \cup {user[p]}
        /\ user[p] = k => retired' = retired
    BY <2>1, <2>3
  <2> QED BY <1>r, <2>1, <2>2, <2>5, <2>6, <2>7, <2>8, TokenWritten
<1>10. CASE Answer
  <2>1. End("rotator") /\ UNCHANGED <<user, minted, retired, early, revived>>
    BY <1>10 DEF Answer, target
  <2>2. /\ ThreadsTyped' /\ ~Pending("rotator")' /\ pc'["rotator"] # "page"
        /\ \A u \in Threads \ {"rotator"} : pc'[u] = pc[u] /\ job'[u] = job[u]
    BY <1>r, <2>1, Ended DEF Pending
  <2> QED BY <1>r, <2>1, <2>2, TokenQuiet
<1>11. CASE UNCHANGED vars
  <2>1. UNCHANGED <<user, minted, pc, job, retired, early, revived>>
    BY <1>11 DEF vars
  <2>2. Issued' /\ Held' /\ Fresh' /\ Again' /\ Paged' /\ OldTokenDies' /\ ThreadsTyped'
    BY <2>1 DEF TokenInv, Issued, Held, Fresh, Again, Paged, OldTokenDies, ThreadsTyped, Exists, Pending
  <2> QED BY <2>2 DEF TokenInv
<1> QED BY <1>1, <1>2, <1>3, <1>4, <1>p, <1>q, <1>5, <1>6, <1>7, <1>8, <1>9, <1>10, <1>11 DEF Next, Quiet

-----------------------------------------------------------------------------
(* Types. *)

\* The initial state is typed.
LEMMA TypeInit == Init => TypeOK
<1> SUFFICES ASSUME Init PROVE TypeOK
  OBVIOUS
<1>1. ThreadsTyped
  BY TokenInit DEF TokenInv
<1>2. MaxTokens \in Nat /\ MaxFaults \in Nat
  BY FederationAssumption
<1>3. pc \in [Threads -> Steps] /\ job \in [Threads -> JobOf]
  BY <1>1 DEF ThreadsTyped
<1>4. /\ user \in [Peer -> 1 .. MaxTokens \cup {None, Gone}]
      /\ minted \in 0 .. MaxTokens /\ given \subseteq 1 .. MaxTokens
      /\ faults \in 0 .. MaxFaults /\ retired \subseteq 1 .. MaxTokens
      /\ early \subseteq Peer /\ revived \subseteq Peer /\ kept \subseteq Addon
  BY <1>2 DEF Init
<1>5. host \in [tok : 0 .. MaxTokens, auto : BOOLEAN, ext : Extract \cup {None}]
  BY <1>2 DEF Init
<1>6. {auto, broken} \subseteq BOOLEAN
  BY DEF Init
<1> QED BY <1>3, <1>4, <1>5, <1>6 DEF TypeOK, JobOf

\* What an edit makes of a copy of the extract is an extract.
LEMMA Edited ==
  /\ \A cur \in Extract : \A e : Merge(cur, e) \in Extract /\ Brings(e) \subseteq Addon
  /\ \A e \in Extract \cup {None} : decodeAddonConfigExtract(e) \in Extract
<1>1. \A e : Brings(e) \subseteq Addon
  BY DEF Brings
<1>2. \A e \in Extract \cup {None} : decodeAddonConfigExtract(e) \in Extract
  BY DEF decodeAddonConfigExtract, Extract
<1> HIDE DEF Brings, Drops, Addon
<1>3. \A cur \in Extract : \A e : Merge(cur, e) \in Extract
  BY <1>1 DEF Merge, Extract
<1> QED BY <1>1, <1>2, <1>3

\* A fault stays within the bound.
LEMMA FailTyped == TypeOK /\ Fail => faults' \in 0 .. MaxFaults
<1> SUFFICES ASSUME TypeOK, Fail PROVE faults' \in 0 .. MaxFaults
  OBVIOUS
<1>1. MaxFaults \in Nat /\ faults \in 0 .. MaxFaults
  BY FederationAssumption DEF TypeOK
<1> QED BY <1>1 DEF Fail

\* The types of the portal's state, of the operators' knowledge and of the ghosts.
PortalTyped ==
  /\ given \subseteq 1 .. MaxTokens
  /\ host \in [tok : 0 .. MaxTokens, auto : BOOLEAN, ext : Extract \cup {None}]
  /\ faults \in 0 .. MaxFaults
  /\ {auto, broken} \subseteq BOOLEAN
  /\ kept \subseteq Addon

\* Typed threads, tokens and the rest make a typed state.
LEMMA Whole == ASSUME ThreadsTyped, Issued, PortalTyped PROVE TypeOK
<1>1. /\ user \in [Peer -> 1 .. MaxTokens \cup {None, Gone}]
      /\ retired \subseteq 1 .. MaxTokens
      /\ early \subseteq Peer /\ revived \subseteq Peer /\ minted \in 0 .. MaxTokens
  BY Range DEF Issued
<1>2. pc \in [Threads -> Steps] /\ job \in [Threads -> JobOf]
  BY DEF ThreadsTyped
<1> HIDE DEF Addon, Extract, Ops, Edits, Steps, Threads
<1> QED BY <1>1, <1>2 DEF TypeOK, PortalTyped, JobOf

\* What a thread is about to write is a token that was generated.
LEMMA Writing ==
  ASSUME TokenInv, NEW t \in Handler, pc[t] \in {"meta", "rewrite", "page"}
  PROVE  job[t].tok \in 1 .. minted
<1>1. t \in Threads
  BY HandlerThread
<1>2. CASE pc[t] = "page"
  BY <1>1, <1>2 DEF TokenInv, Paged
<1>3. CASE pc[t] # "page"
  BY <1>1, <1>3 DEF TokenInv, Held, Pending
<1> QED BY <1>2, <1>3

\* Every step keeps the types.
LEMMA PortalStep == TypeOK /\ TokenInv /\ [Next]_vars => PortalTyped'
<1> SUFFICES ASSUME TypeOK, TokenInv, [Next]_vars PROVE PortalTyped'
  OBVIOUS
<1>0. /\ given \subseteq 1 .. MaxTokens /\ faults \in 0 .. MaxFaults /\ kept \subseteq Addon
      /\ host \in [tok : 0 .. MaxTokens, auto : BOOLEAN, ext : Extract \cup {None}]
      /\ auto \in BOOLEAN /\ broken \in BOOLEAN
  BY DEF TypeOK
<1>b. ASSUME UNCHANGED <<given, portal, faults, broken>> PROVE PortalTyped'
  BY <1>0, <1>b DEF portal, PortalTyped
<1>1. ASSUME NEW t \in Handler, NEW op, Rewrite(t, op), pc[t] \in {"meta", "rewrite", "page"}
      PROVE  PortalTyped'
  <2>1. job[t].tok \in 1 .. MaxTokens
    BY <1>1, Writing, Range DEF TokenInv
  <2>2. given' \subseteq 1 .. MaxTokens
    BY <1>0, <1>1, <2>1 DEF Rewrite
  <2>3. broken' \in BOOLEAN
    BY <1>0, <1>1 DEF Rewrite
  <2>4. faults' \in 0 .. MaxFaults
    BY <1>0, <1>1, FailTyped DEF Rewrite
  <2>5. UNCHANGED portal
    BY <1>1 DEF Rewrite
  <2> QED BY <1>0, <2>2, <2>3, <2>4, <2>5 DEF portal, PortalTyped
<1>2. ASSUME NEW t \in Handler, UserDelete(t) PROVE PortalTyped'
  <2>1. broken' \in BOOLEAN
    BY <1>0, <1>2 DEF UserDelete
  <2>2. faults' \in 0 .. MaxFaults
    BY <1>0, <1>2, FailTyped DEF UserDelete
  <2>3. UNCHANGED <<given, portal>>
    BY <1>2 DEF UserDelete
  <2> QED BY <1>0, <2>1, <2>2, <2>3 DEF portal, PortalTyped
<1>3. ASSUME NEW t \in Handler, SaveForm(t) PROVE PortalTyped'
  <2>1. job[t].tok \in 0 .. MaxTokens /\ job[t].ext \in Extract \cup {None}
    BY Parts, HandlerThread
  <2>2. PICK tok \in given \cup {job[t].tok}, a \in BOOLEAN :
       /\ host' = [tok |-> IF tok = 0 THEN host.tok ELSE tok,
                   auto |-> a,
                   ext |-> IF Engine = "bolt" /\ job[t].ext # None THEN job[t].ext ELSE host.ext]
       /\ auto' = (auto \/ a)
       /\ broken' = IF tok \in {0, host.tok} THEN broken ELSE ~Works(tok)
    BY <1>3, Zenon DEF SaveForm
  <2>3. tok \in 0 .. MaxTokens
    BY <1>0, <2>1, <2>2, Marks
  <2>4. host' \in [tok : 0 .. MaxTokens, auto : BOOLEAN, ext : Extract \cup {None}]
    <3> HIDE DEF Extract
    <3> QED BY <1>0, <2>1, <2>2, <2>3
  <2>5. auto' \in BOOLEAN
    BY <1>0, <2>2
  <2>6. broken' \in BOOLEAN
    <3>1. Works(tok) \in BOOLEAN
      BY DEF Works
    <3> HIDE DEF Works
    <3> QED BY <1>0, <2>2, <3>1
  <2>7. kept' \subseteq Addon
    BY <1>0, <1>3 DEF SaveForm
  <2>8. UNCHANGED <<given, faults>>
    BY <1>3 DEF SaveForm
  <2> QED BY <1>0, <2>4, <2>5, <2>6, <2>7, <2>8 DEF PortalTyped
<1>4. ASSUME NEW t \in Handler, UpdateAddonConfigExtract(t) PROVE PortalTyped'
  <2>1. decodeAddonConfigExtract(job[t].ext) \in Extract
    BY Parts, HandlerThread, Edited
  <2>2. \A e : /\ Merge(decodeAddonConfigExtract(job[t].ext), e) \in Extract
               /\ Brings(e) \subseteq Addon
    BY <2>1, Edited
  <2>3. PICK e \in Edits :
        \/ /\ host' = [host EXCEPT !.ext = Merge(decodeAddonConfigExtract(job[t].ext), e)]
           /\ kept' = ((IF job[t].ext = host.ext THEN kept ELSE {}) \ Drops(e)) \cup Brings(e)
           /\ UNCHANGED faults
        \/ Fail /\ UNCHANGED <<host, kept>>
    BY <1>4, Zenon DEF UpdateAddonConfigExtract
  <2>4. UNCHANGED <<given, auto, broken>>
    BY <1>4 DEF UpdateAddonConfigExtract
  <2>5. host' \in [tok : 0 .. MaxTokens, auto : BOOLEAN, ext : Extract \cup {None}]
    <3> HIDE DEF Extract, Merge, Brings, Drops, decodeAddonConfigExtract, Addon
    <3> QED BY <1>0, <2>2, <2>3
  <2>6. kept' \subseteq Addon /\ faults' \in 0 .. MaxFaults
    <3> HIDE DEF Extract, Merge, Brings, Drops, decodeAddonConfigExtract, Addon
    <3> QED BY <1>0, <2>2, <2>3, FailTyped
  <2> QED BY <1>0, <2>4, <2>5, <2>6 DEF PortalTyped
<1>5. ASSUME NEW t \in Handler, ClearAddonConfigExtract(t) PROVE PortalTyped'
  <2>1. PICK a \in Addon \cup {""} :
          /\ host' = [host EXCEPT !.ext = IF a = "" THEN None ELSE decodeAddonConfigExtract(job[t].ext) \ {a}]
          /\ kept' = IF job[t].ext = host.ext /\ a # "" THEN kept \ {a} ELSE {}
    BY <1>5, Zenon DEF ClearAddonConfigExtract
  <2> DEFINE cur == decodeAddonConfigExtract(job[t].ext)
             e == IF a = "" THEN None ELSE cur \ {a}
  <2>2. cur \in Extract
    BY Parts, HandlerThread, Edited
  <2>3. e \in Extract \cup {None}
    BY <2>2 DEF Extract
  <2>4. host' = [host EXCEPT !.ext = e] /\ UNCHANGED <<given, auto, faults, broken>>
    BY <1>5, <2>1 DEF ClearAddonConfigExtract
  <2>5. kept' \subseteq Addon
    BY <1>0, <2>1
  <2> HIDE DEF e, cur, Extract
  <2> QED BY <1>0, <2>3, <2>4, <2>5 DEF PortalTyped
<1>6. CASE RotateSelf
  <2>1. UNCHANGED <<given, portal, broken>>
    BY <1>6 DEF RotateSelf
  <2>2. faults' \in 0 .. MaxFaults
    BY <1>0, <1>6, FailTyped DEF RotateSelf
  <2> QED BY <1>0, <2>1, <2>2 DEF portal, PortalTyped
<1>7. ASSUME NEW t \in Handler,
             \/ \E p \in Peer : CreatePeer(t, p) \/ RotateToken(t, p) \/ Revoke(t, p)
             \/ LoadForm(t) \/ ReadExtract(t) \/ Request(t) \/ Deliver(t) \/ SyncRegistryCacheToPeer(t)
      PROVE  PortalTyped'
  BY <1>7, <1>b DEF CreatePeer, RotateToken, Revoke, LoadForm, ReadExtract, Request, Deliver,
         SyncRegistryCacheToPeer
<1>8. CASE Tick \/ ReplaceSelf \/ Answer
  BY <1>8, <1>b DEF Tick, ReplaceSelf, Answer
<1>9. CASE UNCHANGED vars
  BY <1>9, <1>b DEF vars, portal
<1>10. ASSUME NEW t \in Handler, WriteExpiry(t) \/ WriteToken(t) \/ SaveUser(t) PROVE PortalTyped'
  BY <1>1, <1>10 DEF WriteExpiry, WriteToken, SaveUser, At
<1>11. ASSUME NEW t \in Handler, NEW p \in Peer, LoadUser(t, p) PROVE PortalTyped'
  <2>1. user[p] \in 1 .. MaxTokens
    BY <1>11, Range DEF LoadUser, Exists, TokenInv, Issued
  <2>2. given' \subseteq 1 .. MaxTokens /\ UNCHANGED <<portal, faults, broken>>
    BY <1>0, <1>11, <2>1 DEF LoadUser
  <2> QED BY <1>0, <2>2 DEF portal, PortalTyped
<1> QED BY <1>2, <1>3, <1>4, <1>5, <1>6, <1>7, <1>8, <1>9, <1>10, <1>11 DEF Next

\* Types and tokens together are inductive.
LEMMA TypedTokens == Spec => [](TypeOK /\ TokenInv)
<1>1. TokenInv /\ PortalTyped => TypeOK
  BY Whole DEF TokenInv
<1>2. Init => TokenInv /\ PortalTyped
  BY TypeInit, TokenInit DEF TypeOK, PortalTyped
<1>3. TokenInv /\ PortalTyped /\ [Next]_vars => TokenInv' /\ PortalTyped'
  BY <1>1, TokenStep, PortalStep
<1> QED BY <1>1, <1>2, <1>3, PTL DEF Spec

\* The target's and the portal's state keeps its types, whatever requests are
\* at work.
THEOREM TypeCorrect == Spec => []TypeOK
BY TypedTokens, PTL

\* "The old token is invalidated immediately": for any number of overlapping
\* rotations, by request and by the rotator, no replaced token authenticates,
\* unless the peer was rotated before CreatePeer was through with it, or a user
\* page loaded before a rotation was saved after it and no rotation followed.
THEOREM TokensDie == Spec => []OldTokenDies
<1>1. TokenInv => OldTokenDies
  BY DEF TokenInv
<1> QED BY <1>1, TypedTokens, PTL

-----------------------------------------------------------------------------
(* Revocation. *)

\* "Subsequent requests from that token return 401": a revoked peer stays
\* revoked, also when a rotation, CreatePeer or a user page read it before and
\* writes it after.
THEOREM RevocationHolds == Spec => RevokedStaysRevoked
<1>1. TypeOK /\ TokenInv /\ [Next]_vars => [\A p \in Peer : user[p] = Gone => user'[p] = Gone]_vars
  <2> SUFFICES ASSUME TypeOK, TokenInv, [Next]_vars, NEW p \in Peer, user[p] = Gone
               PROVE  user'[p] = Gone
    OBVIOUS
  <2>0. None # Gone /\ user \in [Peer -> 1 .. minted \cup {None, Gone}]
    BY Marks DEF TokenInv, Issued
  <2>1. ASSUME NEW t \in Handler, NEW q \in Peer, CreatePeer(t, q) PROVE user'[p] = Gone
    BY <2>0, <2>1 DEF CreatePeer
  <2>2. \A q, k : UserUpdate(q, k) => user'[p] = Gone
    BY <2>0 DEF UserUpdate, Exists
  <2>3. ASSUME NEW t \in Handler, WriteExpiry(t) \/ WriteToken(t) \/ SaveUser(t) PROVE user'[p] = Gone
    BY <2>2, <2>3 DEF WriteExpiry, WriteToken, SaveUser, Rewrite
  <2>4. ASSUME NEW t \in Handler, UserDelete(t) PROVE user'[p] = Gone
    BY <2>0, <2>4 DEF UserDelete
  <2>5. CASE ReplaceSelf
    BY <2>2, <2>5 DEF ReplaceSelf
  <2>6. ASSUME NEW t \in Handler, Quiet(t) \/ \E q \in Peer : RotateToken(t, q) \/ LoadUser(t, q)
        PROVE  user'[p] = Gone
    BY <2>6, QuietMoves DEF RotateToken, LoadUser, target
  <2>7. CASE Tick \/ RotateSelf \/ Answer \/ UNCHANGED vars
    BY <2>7 DEF Tick, RotateSelf, Answer, vars, target
  <2> QED BY <2>1, <2>3, <2>4, <2>5, <2>6, <2>7 DEF Next, Quiet
<1> QED BY <1>1, TypedTokens, PTL DEF Spec, RevokedStaysRevoked

-----------------------------------------------------------------------------
(* The addon extract. *)

\* "Unset subtrees are left as-is": what was imported or attested stays in
\* the extract through every edit, push and host edit, until it is cleared or
\* replaced by lists without a file, a request works on an outdated copy or a
\* stale page overwrites it.
THEOREM ImportsStay == Spec => []ImportsKept
<1>1. Init => ImportsKept
  BY DEF Init, ImportsKept, decodeAddonConfigExtract
<1>2. TypeOK /\ TokenInv /\ ImportsKept /\ [Next]_vars => ImportsKept'
  <2> SUFFICES ASSUME TypeOK, TokenInv, ImportsKept, [Next]_vars PROVE ImportsKept'
    OBVIOUS
  <2>0. None \notin Extract
    BY FederationAssumption
  <2>h. UNCHANGED <<host, kept>> => ImportsKept'
    BY DEF ImportsKept
  <2>1. ASSUME NEW t \in Handler, SaveForm(t) PROVE ImportsKept'
    BY <2>1 DEF SaveForm, ImportsKept
  <2>2. ASSUME NEW t \in Handler, UpdateAddonConfigExtract(t) PROVE ImportsKept'
    <3> DEFINE cur == decodeAddonConfigExtract(job[t].ext)
    <3>1. PICK e \in Edits :
          \/ UNCHANGED <<host, kept>>
          \/ /\ host' = [host EXCEPT !.ext = Merge(cur, e)]
             /\ kept' = ((IF job[t].ext = host.ext THEN kept ELSE {}) \ Drops(e)) \cup Brings(e)
      BY <2>2, Zenon DEF UpdateAddonConfigExtract
    <3>2. Merge(cur, e) \in Extract
      BY Parts, HandlerThread, Edited
    <3>3. Merge(cur, e) = (cur \ Drops(e)) \cup Brings(e)
      BY DEF Merge
    <3>4. job[t].ext = host.ext => kept \subseteq cur
      BY DEF ImportsKept
    <3>5. CASE host' = [host EXCEPT !.ext = Merge(cur, e)]
               /\ kept' = ((IF job[t].ext = host.ext THEN kept ELSE {}) \ Drops(e)) \cup Brings(e)
      <4>1. host'.ext = Merge(cur, e)
        BY <3>5 DEF TypeOK
      <4>2. decodeAddonConfigExtract(host'.ext) = Merge(cur, e)
        BY <2>0, <3>2, <4>1 DEF decodeAddonConfigExtract
      <4> HIDE DEF cur
      <4>3. kept' \subseteq Merge(cur, e)
        BY <3>3, <3>4, <3>5
      <4> QED BY <4>2, <4>3 DEF ImportsKept
    <3> QED BY <2>h, <3>1, <3>5
  <2>3. ASSUME NEW t \in Handler, ClearAddonConfigExtract(t) PROVE ImportsKept'
    <3>1. PICK a \in Addon \cup {""} :
            /\ host' = [host EXCEPT !.ext = IF a = "" THEN None ELSE decodeAddonConfigExtract(job[t].ext) \ {a}]
            /\ kept' = IF job[t].ext = host.ext /\ a # "" THEN kept \ {a} ELSE {}
      BY <2>3, Zenon DEF ClearAddonConfigExtract
    <3> DEFINE cur == decodeAddonConfigExtract(job[t].ext)
               e == IF a = "" THEN None ELSE cur \ {a}
    <3>2. cur \in Extract
      BY Parts, HandlerThread, Edited
    <3>3. a # "" => e \in Extract
      BY <3>2 DEF Extract
    <3>4. host'.ext = e
      BY <3>1 DEF TypeOK
    <3>5. job[t].ext = host.ext => kept \subseteq cur
      BY DEF ImportsKept
    <3>6. a # "" => decodeAddonConfigExtract(host'.ext) = cur \ {a}
      BY <2>0, <3>3, <3>4 DEF decodeAddonConfigExtract
    <3> HIDE DEF cur, e
    <3> QED BY <3>1, <3>5, <3>6 DEF ImportsKept
  <2>4. ASSUME NEW t \in Handler,
               \/ \E p \in Peer : CreatePeer(t, p) \/ RotateToken(t, p) \/ LoadUser(t, p) \/ Revoke(t, p)
               \/ WriteExpiry(t) \/ WriteToken(t) \/ SaveUser(t) \/ UserDelete(t)
               \/ LoadForm(t) \/ ReadExtract(t) \/ Request(t) \/ Deliver(t) \/ SyncRegistryCacheToPeer(t)
        PROVE  ImportsKept'
    BY <2>4, <2>h DEF CreatePeer, RotateToken, LoadUser, Revoke, WriteExpiry, WriteToken, SaveUser,
           Rewrite, UserDelete, LoadForm, ReadExtract, Request, Deliver, SyncRegistryCacheToPeer, portal
  <2>5. CASE Tick \/ RotateSelf \/ ReplaceSelf \/ Answer \/ UNCHANGED vars
    BY <2>5, <2>h DEF Tick, RotateSelf, ReplaceSelf, Answer, vars, portal
  <2> QED BY <2>1, <2>2, <2>3, <2>4, <2>5 DEF Next
<1> QED BY <1>1, <1>2, TypedTokens, PTL DEF Spec

-----------------------------------------------------------------------------
(* Opting out. *)

\* As long as automatic rotation was never on, the rotator rests.
OptOutInv == /\ OptOutKeepsToken
             /\ auto \/ (~host.auto /\ pc["rotator"] = "idle")

\* A step that leaves the users, the host and the operators' doings alone.
LEMMA SameToken ==
  ASSUME TypeOK, OptOutInv, UNCHANGED <<host, user>>,
         auto' <=> auto, broken' <=> broken, auto \/ pc'["rotator"] = "idle"
  PROVE  OptOutInv'
BY DEF OptOutInv, OptOutKeepsToken, Works, Owner, Exists

\* "The rotator NEVER mints tokens for hosts without AutoRefresh": a token
\* that worked when it was stored goes on working while nobody rotates or
\* revokes its peer by hand or saves an outdated page of it, and the switch was
\* never on.
THEOREM OptedOut == Spec => []OptOutKeepsToken
<1>1. Init => OptOutInv
  BY HandlerThread DEF Init, OptOutInv, OptOutKeepsToken
<1>2. TypeOK /\ TokenInv /\ OptOutInv /\ [Next]_vars => OptOutInv'
  <2> SUFFICES ASSUME TypeOK, TokenInv, OptOutInv, [Next]_vars PROVE OptOutInv'
    OBVIOUS
  <2>r. "rotator" \in Threads /\ ThreadsTyped
    BY HandlerThread DEF TokenInv
  <2>t. \A t \in Handler : t \in Threads /\ t # "rotator"
    BY HandlerThread
  <2>o. \A t \in Handler : \A step, j : Proceed(t, step, j) => pc'["rotator"] = pc["rotator"]
    BY <2>r, <2>t DEF Proceed, ThreadsTyped
  <2>e. \A t \in Handler : End(t) => pc'["rotator"] = pc["rotator"]
    BY <2>o DEF End
  <2>p. ASSUME UNCHANGED portal PROVE host' = host /\ (auto' <=> auto) /\ kept' = kept
    BY <2>p DEF portal
  <2>w. ASSUME NEW p, NEW k \in 1 .. minted, UserUpdate(p, k), host' = host,
               host.tok # 0, Works(host.tok),
               Exists(p) /\ user[p] = host.tok => k = host.tok
        PROVE  Works(host.tok)'
    <3>1. PICK q \in Peer : Exists(q) /\ user[q] = host.tok
      BY <2>w DEF Works, Owner
    <3>2. k \notin {None, Gone}
      BY Range, Marks DEF TokenInv
    <3>3. user'[q] = host.tok /\ Exists(q)'
      BY <2>w, <3>1, <3>2 DEF UserUpdate, Exists, TypeOK
    <3> QED BY <2>w, <3>3 DEF Works, Owner
  <2>1. ASSUME NEW t \in Handler, NEW op, Rewrite(t, op), End(t),
               pc[t] \in {"meta", "rewrite", "page"}
        PROVE  OptOutInv'
    <3>0. UNCHANGED portal /\ pc'["rotator"] = pc["rotator"]
      BY <2>1, <2>e DEF Rewrite
    <3>1. CASE UNCHANGED <<user, broken>>
      <4>1. UNCHANGED <<host, user>> /\ (auto' <=> auto) /\ (broken' <=> broken)
        BY <2>p, <3>0, <3>1
      <4>2. auto \/ pc'["rotator"] = "idle"
        BY <3>0 DEF OptOutInv
      <4> QED BY <4>1, <4>2, SameToken
    <3>2. ASSUME UserUpdate(job[t].peer, job[t].tok),
                 broken' = (broken \/ (Exists(job[t].peer) /\ user[job[t].peer] = host.tok /\ job[t].tok # host.tok))
          PROVE  OptOutInv'
      <4>1. job[t].tok \in 1 .. minted
        BY <2>1, Writing
      <4>2. ~broken' => ~broken /\ (Exists(job[t].peer) /\ user[job[t].peer] = host.tok => job[t].tok = host.tok)
        BY <3>2, Zenon
      <4>3. host' = host /\ (auto' <=> auto)
        BY <2>p, <3>0
      <4>4. ~auto /\ ~broken' /\ host.tok # 0 => Works(host.tok)'
        BY <2>w, <3>2, <4>1, <4>2, <4>3 DEF OptOutInv, OptOutKeepsToken
      <4> QED BY <3>0, <4>3, <4>4 DEF OptOutInv, OptOutKeepsToken
    <3> QED BY <2>1, <3>1, <3>2 DEF Rewrite
  <2>2. ASSUME NEW t \in Handler, UserDelete(t) PROVE OptOutInv'
    <3> DEFINE p == job[t].peer
    <3>0. UNCHANGED portal /\ pc'["rotator"] = pc["rotator"]
      BY <2>2, <2>e DEF UserDelete
    <3>1. CASE UNCHANGED <<user, broken>>
      <4>1. UNCHANGED <<host, user>> /\ (auto' <=> auto) /\ (broken' <=> broken)
        BY <2>p, <3>0, <3>1
      <4>2. auto \/ pc'["rotator"] = "idle"
        BY <3>0 DEF OptOutInv
      <4> QED BY <4>1, <4>2, SameToken
    <3>2. ASSUME user' = [user EXCEPT ![p] = Gone],
                 broken' = (broken \/ (Exists(p) /\ user[p] = host.tok))
          PROVE  OptOutInv'
      <4>1. ~broken' => ~broken /\ ~(Exists(p) /\ user[p] = host.tok)
        BY <3>2, Zenon
      <4>2. host' = host /\ (auto' <=> auto)
        BY <2>p, <3>0
      <4>3. ASSUME ~broken', Works(host.tok) PROVE Works(host.tok)'
        <5>1. PICK q \in Peer : Exists(q) /\ user[q] = host.tok
          BY <4>3 DEF Works, Owner
        <5>2. user'[q] = user[q]
          BY <3>2, <4>1, <4>3, <5>1 DEF TypeOK
        <5> QED BY <4>2, <5>1, <5>2 DEF Works, Owner, Exists
      <4> QED BY <3>0, <4>1, <4>2, <4>3 DEF OptOutInv, OptOutKeepsToken
    <3> QED BY <2>2, <3>1, <3>2 DEF UserDelete
  <2>3. ASSUME NEW t \in Handler, SaveForm(t) PROVE OptOutInv'
    <3>1. PICK tok \in given \cup {job[t].tok}, a \in BOOLEAN :
         /\ host' = [tok |-> IF tok = 0 THEN host.tok ELSE tok,
                     auto |-> a,
                     ext |-> IF Engine = "bolt" /\ job[t].ext # None THEN job[t].ext ELSE host.ext]
         /\ auto' = (auto \/ a)
         /\ broken' = IF tok \in {0, host.tok} THEN broken ELSE ~Works(tok)
      BY <2>3, Zenon DEF SaveForm
    <3>2. UNCHANGED user /\ pc'["rotator"] = pc["rotator"]
      BY <2>3, <2>e DEF SaveForm, target
    <3>3. \A k : Works(k)' <=> Works(k)
      BY <3>2 DEF Works, Owner, Exists
    <3>4. host'.tok = (IF tok = 0 THEN host.tok ELSE tok) /\ (host'.auto <=> a)
      BY <3>1
    <3>5. ~auto' => ~auto /\ ~a
      BY <3>1, Zenon
    <3>6. ~broken' => IF tok \in {0, host.tok} THEN ~broken ELSE Works(tok)
      BY <3>1, Zenon
    <3>7. ASSUME host'.tok # 0, ~auto', ~broken' PROVE Works(host'.tok)
      <4> HIDE DEF Works
      <4>1. CASE tok \in {0, host.tok}
        BY <3>4, <3>5, <3>6, <3>7, <4>1 DEF OptOutInv, OptOutKeepsToken
      <4>2. CASE tok \notin {0, host.tok}
        BY <3>4, <3>6, <3>7, <4>2
      <4> QED BY <4>1, <4>2
    <3>8. Works(host.tok)' <=> Works(host'.tok)
      BY <3>2 DEF Works, Owner, Exists
    <3> HIDE DEF Works
    <3> QED BY <3>2, <3>4, <3>5, <3>7, <3>8 DEF OptOutInv, OptOutKeepsToken
  <2>4. ASSUME NEW t \in Handler, UpdateAddonConfigExtract(t) \/ ClearAddonConfigExtract(t) PROVE OptOutInv'
    <3>0. UNCHANGED target /\ UNCHANGED <<auto, broken>> /\ End(t)
      BY <2>4, Zenon DEF UpdateAddonConfigExtract, ClearAddonConfigExtract
    <3>1. /\ UNCHANGED user /\ (auto' <=> auto) /\ (broken' <=> broken)
          /\ pc'["rotator"] = pc["rotator"]
      BY <2>e, <3>0 DEF target
    <3>2. \E e : host' = [host EXCEPT !.ext = e] \/ host' = host
      BY <2>4, Zenon DEF UpdateAddonConfigExtract, ClearAddonConfigExtract
    <3>3. host'.tok = host.tok /\ (host'.auto <=> host.auto)
      BY <3>2 DEF TypeOK
    <3> QED BY <3>1, <3>3 DEF OptOutInv, OptOutKeepsToken, Works, Owner, Exists
  <2>5. ASSUME NEW t \in Handler, NEW p \in Peer, CreatePeer(t, p) PROVE OptOutInv'
    <3>1. /\ user' = [user EXCEPT ![p] = minted + 1] /\ user[p] = None
          /\ UNCHANGED portal /\ (broken' <=> broken) /\ pc'["rotator"] = pc["rotator"]
      BY <2>5, <2>o DEF CreatePeer
    <3>2. host' = host /\ (auto' <=> auto)
      BY <2>p, <3>1
    <3>3. Works(host.tok) => Works(host.tok)'
      <4>1. \A q \in Peer : Exists(q) => user'[q] = user[q]
        BY <3>1 DEF TypeOK, Exists
      <4> QED BY <3>2, <4>1 DEF Works, Owner, Exists
    <3> QED BY <3>1, <3>2, <3>3 DEF OptOutInv, OptOutKeepsToken
  <2>6. ASSUME NEW t \in Handler,
               \/ \E p \in Peer : RotateToken(t, p) \/ LoadUser(t, p) \/ Revoke(t, p)
               \/ LoadForm(t) \/ ReadExtract(t) \/ Request(t) \/ Deliver(t) \/ SyncRegistryCacheToPeer(t)
        PROVE  OptOutInv'
    <3>m. End(t) \/ \E step, j : Proceed(t, step, j)
      BY <2>6, Zenon DEF RotateToken, LoadUser, Revoke, LoadForm, ReadExtract, Request, Deliver,
             SyncRegistryCacheToPeer
    <3>u. UNCHANGED user
      BY <2>6 DEF RotateToken, LoadUser, Revoke, LoadForm, ReadExtract, Request, Deliver,
             SyncRegistryCacheToPeer, target
    <3>b. UNCHANGED portal /\ broken' = broken
      BY <2>6, Zenon DEF RotateToken, LoadUser, Revoke, LoadForm, ReadExtract, Request, Deliver,
             SyncRegistryCacheToPeer
    <3>1. /\ UNCHANGED user /\ UNCHANGED portal /\ (broken' <=> broken)
          /\ pc'["rotator"] = pc["rotator"]
      BY <2>o, <2>e, <3>m, <3>u, <3>b
    <3>2. host' = host /\ (auto' <=> auto)
      BY <2>p, <3>1
    <3>3. auto \/ pc'["rotator"] = "idle"
      BY <3>1 DEF OptOutInv
    <3> QED BY <3>1, <3>2, <3>3, SameToken
  <2>7. CASE Tick
    <3>1. host.auto /\ UNCHANGED portal
      BY <2>7 DEF Tick
    <3>2. auto
      BY <3>1 DEF OptOutInv
    <3>3. auto' <=> auto
      BY <2>p, <3>1
    <3> QED BY <3>2, <3>3 DEF OptOutInv, OptOutKeepsToken
  <2>8. CASE RotateSelf \/ ReplaceSelf \/ Answer
    <3>1. pc["rotator"] # "idle" /\ UNCHANGED portal
      BY <2>8 DEF RotateSelf, ReplaceSelf, Answer, At
    <3>2. auto
      BY <3>1 DEF OptOutInv
    <3>3. auto' <=> auto
      BY <2>p, <3>1
    <3> QED BY <3>2, <3>3 DEF OptOutInv, OptOutKeepsToken
  <2>9. CASE UNCHANGED vars
    <3>1. UNCHANGED <<host, user, pc>> /\ (auto' <=> auto) /\ (broken' <=> broken)
      BY <2>9 DEF vars
    <3> QED BY <3>1, SameToken DEF OptOutInv
  <2>10. ASSUME NEW t \in Handler, WriteExpiry(t) \/ WriteToken(t) \/ SaveUser(t) PROVE OptOutInv'
    BY <2>1, <2>10 DEF WriteExpiry, WriteToken, SaveUser, At
  <2> QED BY <2>2, <2>3, <2>4, <2>5, <2>6, <2>7, <2>8, <2>9, <2>10 DEF Next
<1>3. OptOutInv => OptOutKeepsToken
  BY DEF OptOutInv
<1> QED BY <1>1, <1>2, <1>3, TypedTokens, PTL DEF Spec
=============================================================================
