----------------------------- MODULE Federation -----------------------------
(***************************************************************************)
(* A portal and the Swirl it federates: the peer users of the target        *)
(* (biz/federation.go), the host record of the portal with the peer's token *)
(* and the addon extract (biz/host_addon_extract.go), the token rotator     *)
(* (biz/federation_rotator.go), the proxy (security/federation_proxy.go)    *)
(* and the push of the registry cache (biz/registry_cache_federation.go).   *)
(*                                                                          *)
(* Tokens are numbered in the order they are generated; 0 is no token.      *)
(* Expiry is soft: it never refuses a request, and whether a token is due   *)
(* for rotation when the rotator looks is left open.                        *)
(***************************************************************************)
EXTENDS Naturals

CONSTANTS
  Peer,       \* ids of peer users on the target
  Prefixed,   \* those whose display name begins with "federation-peer-"
  Handler,    \* request handlers, of either Swirl
  None, Gone, \* not created yet, or nothing; deleted
  Engine,     \* database of the portal: "bolt" or "mongo"
  MaxTokens,  \* bound: tokens generated, the last one only when nothing fails
  MaxFaults   \* bound: lost requests and answers, failed writes

\* AddonConfigExtract, empty (None) or a blob: the subtrees in it that hold
\* what cannot be typed again, the lists of an uploaded Traefik file and the
\* attestation that the registry cache was applied.
Addon == {"traefik", "registryCache"}
Extract == SUBSET Addon

ASSUME FederationAssumption ==
  /\ MaxTokens \in Nat /\ MaxFaults \in Nat
  /\ Engine \in {"bolt", "mongo"}
  /\ "rotator" \notin Handler
  /\ Prefixed \subseteq Peer
  /\ None # Gone /\ {None, Gone} \cap (0 .. MaxTokens) = {}
  /\ \A e \in Extract : e # None

VARIABLES
  user,    \* target: the token of each peer user
  minted,  \* target: tokens generated
  given,   \* tokens an operator was shown
  host,    \* portal: SwirlToken, TokenAutoRefresh, AddonConfigExtract
  pc, job, \* per handler: its next step and what it carries
  faults,  \* lost messages and failed writes so far
  retired, \* ghost: tokens that were replaced
  early,   \* ghost: peers rotated before CreatePeer was through
  revived, \* ghost: peers whose token a user page overwrote with an older one
  auto,    \* ghost: automatic rotation was switched on once
  broken,  \* ghost: an operator, of the portal or of the target, parted the token from the peer
  kept     \* ghost: addons whose import or attestation must still be there

vars == <<user, minted, given, host, pc, job, faults, retired, early, revived,
          auto, broken, kept>>

target == <<user, minted, retired, early, revived>>
portal == <<host, auto, kept>>

\* what is done to it
Edits == {"upload", "lists", "applied", "plain"}

Steps == {"idle", "meta", "rewrite", "page", "delete", "form", "edit", "record", "send",
          "find", "answer"}
Ops == {"none", "create", "rotate", "page", "revoke", "form", "extract", "request", "self"}
NoJob == [op |-> "none", peer |-> None, tok |-> 0, ext |-> None]

Threads == Handler \cup {"rotator"}

TypeOK ==
  /\ user \in [Peer -> 1 .. MaxTokens \cup {None, Gone}]
  /\ minted \in 0 .. MaxTokens
  /\ given \subseteq 1 .. MaxTokens
  /\ host \in [tok : 0 .. MaxTokens, auto : BOOLEAN, ext : Extract \cup {None}]
  /\ pc \in [Threads -> Steps]
  /\ job \in [Threads -> [op : Ops, peer : Peer \cup {None}, tok : 0 .. MaxTokens,
                           ext : Extract \cup {None}]]
  /\ faults \in 0 .. MaxFaults
  /\ retired \subseteq 1 .. MaxTokens
  /\ early \subseteq Peer /\ revived \subseteq Peer
  /\ {auto, broken} \subseteq BOOLEAN
  /\ kept \subseteq Addon

Init ==
  /\ user = [p \in Peer |-> None]
  /\ minted = 0
  /\ given = {}
  /\ host = [tok |-> 0, auto |-> FALSE, ext |-> None]
  /\ pc = [t \in Threads |-> "idle"]
  /\ job = [t \in Threads |-> NoJob]
  /\ faults = 0
  /\ retired = {}
  /\ early = {}
  /\ revived = {}
  /\ auto = FALSE
  /\ broken = FALSE
  /\ kept = {}

-----------------------------------------------------------------------------
(* Control. *)

Exists(p) == user[p] \notin {None, Gone}
At(t, step) == pc[t] = step
Proceed(t, step, j) ==
  /\ pc' = [pc EXCEPT ![t] = step]
  /\ job' = [job EXCEPT ![t] = IF step = "idle" THEN NoJob ELSE j]
End(t) == Proceed(t, "idle", NoJob)
Fail == faults < MaxFaults /\ minted < MaxTokens /\ faults' = faults + 1
Job(op) == [NoJob EXCEPT !.op = op]

\* FindByToken, and what it makes of the token the portal stores
Owner(tok) == {p \in Peer : Exists(p) /\ user[p] = tok}
Works(tok) == Owner(tok) # {}

-----------------------------------------------------------------------------
(* The target: CreatePeer, RotateToken, Revoke, RotateSelf. *)

generateFederationToken ==
  /\ minted < MaxTokens /\ (faults = 0 \/ minted + 1 < MaxTokens)
  /\ minted' = minted + 1

\* the user, with the token and not yet its expiry
CreatePeer(t, p) ==
  /\ At(t, "idle")
  /\ user[p] = None
  /\ generateFederationToken
  /\ user' = [user EXCEPT ![p] = minted + 1]
  /\ Proceed(t, "meta", [Job("create") EXCEPT !.peer = p, !.tok = minted + 1])
  /\ UNCHANGED <<given, portal, faults, retired, early, revived, broken>>

UserUpdateUpsert(p, tok) == user' = [user EXCEPT ![p] = tok]

\* a record that is gone stays gone, on both engines
UserUpdate(p, tok) == user' = [user EXCEPT ![p] = IF Exists(p) THEN tok ELSE @]

\* CreatePeer is still to write the expiry of p
Creating(p) == \E t \in Handler : At(t, "meta") /\ job[t].peer = p

\* The tokens of p are written: tok is shown to whoever asked, unless the
\* write fails.  Bolt refuses a record that is gone, Mongo does not notice.
Rewrite(t, op) ==
  LET p == job[t].peer  tok == job[t].tok IN
  /\ \/ /\ UserUpdate(p, tok)
        /\ given' \in {given \cup {tok}} \cup (IF Exists(p) THEN {} ELSE {given})
        /\ retired' = IF Exists(p) THEN retired \cup ({user[p]} \ {tok}) ELSE retired
        /\ early' = early \cup {q \in {p} : op = "rotate" /\ Creating(p)}
        /\ revived' = IF op = "page" THEN revived \cup {q \in {p} : Exists(p) /\ user[p] # tok}
                                     ELSE revived \ {p}
        /\ broken' = (broken \/ (Exists(p) /\ user[p] = host.tok /\ tok # host.tok))
        /\ UNCHANGED faults
     \/ Fail /\ UNCHANGED <<user, given, retired, early, revived, broken>>
  /\ UNCHANGED <<minted, portal>>

\* CreatePeer's second write: the token again, with the expiry
WriteExpiry(t) == At(t, "meta") /\ Rewrite(t, "create") /\ End(t)

\* RotateToken and Revoke look the peer up first
RotateToken(t, p) ==
  /\ At(t, "idle")
  /\ Exists(p)
  /\ generateFederationToken
  /\ Proceed(t, "rewrite", [Job("rotate") EXCEPT !.peer = p, !.tok = minted + 1])
  /\ UNCHANGED <<user, retired, early, revived, given, portal, faults, broken>>

WriteToken(t) == At(t, "rewrite") /\ Rewrite(t, "rotate") /\ End(t)

\* the user page, or the peer's own profile: it shows the tokens, and saving it
\* writes back the list it was loaded with
LoadUser(t, p) ==
  /\ At(t, "idle")
  /\ Exists(p)
  /\ given' = given \cup {user[p]}
  /\ Proceed(t, "page", [Job("page") EXCEPT !.peer = p, !.tok = user[p]])
  /\ UNCHANGED <<target, portal, faults, broken>>

SaveUser(t) == At(t, "page") /\ Rewrite(t, "page") /\ End(t)

Revoke(t, p) ==
  /\ At(t, "idle")
  /\ Exists(p)
  /\ Proceed(t, "delete", [Job("revoke") EXCEPT !.peer = p])
  /\ UNCHANGED <<target, given, portal, faults, broken>>

UserDelete(t) ==
  LET p == job[t].peer IN
  /\ At(t, "delete")
  /\ \/ /\ user' = [user EXCEPT ![p] = Gone]
        /\ broken' = (broken \/ (Exists(p) /\ user[p] = host.tok))
        /\ UNCHANGED faults
     \/ Fail /\ UNCHANGED <<user, broken>>
  /\ End(t)
  /\ UNCHANGED <<minted, given, retired, early, revived, portal>>

-----------------------------------------------------------------------------
(* The portal's host record. *)

\* hostFind: the edit page loads the whole record, token and extract too
LoadForm(t) ==
  /\ At(t, "idle")
  /\ Proceed(t, "form", [Job("form") EXCEPT !.tok = host.tok, !.ext = host.ext])
  /\ UNCHANGED <<target, given, portal, faults, broken>>

\* HostUpdate of the record the page sends back: an empty token keeps the
\* old one; Bolt keeps the extract when it is empty, Mongo always
SaveForm(t) ==
  /\ At(t, "form")
  /\ \E tok \in given \cup {job[t].tok}, a \in BOOLEAN :
       /\ host' = [tok |-> IF tok = 0 THEN host.tok ELSE tok,
                   auto |-> a,
                   ext |-> IF Engine = "bolt" /\ job[t].ext # None THEN job[t].ext ELSE host.ext]
       /\ auto' = (auto \/ a)
       /\ broken' = IF tok \in {0, host.tok} THEN broken ELSE ~Works(tok)
  /\ kept' = IF host'.ext = host.ext THEN kept ELSE {}
  /\ End(t)
  /\ UNCHANGED <<target, given, faults>>

decodeAddonConfigExtract(e) == IF e = None THEN {} ELSE e

\* hostAddonExtractSave, hostRegistryCacheSave, hostAddonExtractClear: each
\* reads the blob, works on the copy and writes the whole back
ReadExtract(t) ==
  /\ At(t, "idle")
  /\ Proceed(t, "edit", [Job("extract") EXCEPT !.ext = host.ext])
  /\ UNCHANGED <<target, given, portal, faults, broken>>

\* what an edit brings along: "upload" a Traefik file, "applied" an attestation,
\* "plain", of defaults, pointers or the opt-in, nothing of that
Brings(e) == {a \in Addon : <<a, e>> \in {<<"traefik", "upload">>, <<"registryCache", "applied">>}}

\* and what one with its own lists and no file puts these in the place of
Drops(e) == IF e = "lists" THEN {"traefik"} ELSE {}

MergeReplace(cur, e) == IF e = "plain" THEN {} ELSE cur \cup Brings(e)

\* an edit with neither file nor lists keeps the imported lists, one without an
\* attestation keeps the old one, and each keeps the other subtree
Merge(cur, e) == (cur \ Drops(e)) \cup Brings(e)

UpdateAddonConfigExtract(t) ==
  /\ \E e \in Edits :
       /\ At(t, "edit") \/ (At(t, "record") /\ e = "plain")
       /\ \/ /\ host' = [host EXCEPT !.ext = Merge(decodeAddonConfigExtract(job[t].ext), e)]
             /\ kept' = ((IF job[t].ext = host.ext THEN kept ELSE {}) \ Drops(e)) \cup Brings(e)
             /\ UNCHANGED faults
          \/ Fail /\ UNCHANGED <<host, kept>>
  /\ End(t)
  /\ UNCHANGED <<target, given, auto, broken>>

ClearAddonConfigExtract(t) ==
  /\ At(t, "edit")
  /\ \E a \in Addon \cup {""} :
       /\ host' = [host EXCEPT !.ext = IF a = "" THEN None ELSE decodeAddonConfigExtract(job[t].ext) \ {a}]
       /\ kept' = IF job[t].ext = host.ext /\ a # "" THEN kept \ {a} ELSE {}
  /\ End(t)
  /\ UNCHANGED <<target, given, auto, faults, broken>>

-----------------------------------------------------------------------------
(* Requests of the portal to the target: the proxy and the push. *)

\* Apply and federationSyncRegistryCache find the host and go on with the
\* token found there; which of the two it is shows when the target answers
Request(t) ==
  /\ At(t, "idle")
  /\ Proceed(t, "send", [Job("request") EXCEPT !.tok = host.tok])
  /\ UNCHANGED <<target, given, portal, faults, broken>>

\* isFederationPeer looks at the display name
isFederationPeer(p) == p \in Prefixed

\* proxyHTTP ends with the target's answer, 401 or not, and so does a push
\* that is refused
Deliver(t) ==
  /\ At(t, "send")
  /\ End(t)
  /\ UNCHANGED <<target, given, portal, faults, broken>>

\* a push that is accepted is recorded on the host by a plain edit
SyncRegistryCacheToPeer(t) ==
  /\ At(t, "send")
  /\ \E p \in Owner(job[t].tok) : isFederationPeer(p)
  /\ Proceed(t, "record", [Job("extract") EXCEPT !.ext = host.ext])
  /\ UNCHANGED <<target, given, portal, faults, broken>>

-----------------------------------------------------------------------------
(* The rotator. *)

TickAny ==
  /\ At("rotator", "idle")
  /\ host.tok # 0
  /\ Proceed("rotator", "send", [Job("self") EXCEPT !.tok = host.tok])
  /\ UNCHANGED <<target, given, portal, faults, broken>>

\* tick, shouldRotate, rotateHost up to the request
Tick ==
  /\ At("rotator", "idle")
  /\ host.auto
  /\ host.tok # 0
  /\ Proceed("rotator", "send", [Job("self") EXCEPT !.tok = host.tok])
  /\ UNCHANGED <<target, given, portal, faults, broken>>

RotateSelfKeeping ==
  /\ At("rotator", "send")
  /\ \/ /\ \E p \in Owner(job["rotator"].tok) :
             Proceed("rotator", "find", [job["rotator"] EXCEPT !.peer = p])
        /\ UNCHANGED faults
     \/ ~Works(job["rotator"].tok) /\ End("rotator") /\ UNCHANGED faults
  /\ UNCHANGED <<target, given, portal, broken>>

\* the target authenticates the request and looks the peer up, or answers
\* 401; the request may be lost
RotateSelf ==
  /\ At("rotator", "send")
  /\ \/ /\ generateFederationToken
        /\ \E p \in Owner(job["rotator"].tok) :
             Proceed("rotator", "find", [Job("self") EXCEPT !.peer = p, !.tok = minted + 1])
        /\ UNCHANGED faults
     \/ ~Works(job["rotator"].tok) /\ End("rotator") /\ UNCHANGED <<minted, faults>>
     \/ Fail /\ End("rotator") /\ UNCHANGED minted
  /\ UNCHANGED <<user, retired, early, revived, given, portal, broken>>

\* UserUpdate at the target
ReplaceSelf ==
  LET p == job["rotator"].peer  tok == job["rotator"].tok IN
  /\ At("rotator", "find")
  /\ UserUpdate(p, tok)
  /\ retired' = IF Exists(p) THEN retired \cup {user[p]} ELSE retired
  /\ early' = early \cup {q \in {p} : Creating(p)}
  /\ revived' = revived \ {p}
  /\ Proceed("rotator", "answer", job["rotator"])
  /\ UNCHANGED <<minted, given, portal, faults, broken>>

\* dao.Time.MarshalJSON writes expiresAt as a number of milliseconds, and
\* the answer is decoded into a time.Time, which takes strings only: the
\* decoder's error ends rotateHost before HostUpdate.
Answer ==
  /\ At("rotator", "answer")
  /\ End("rotator")
  /\ UNCHANGED <<target, given, portal, faults, broken>>

Next ==
  \/ \E t \in Handler :
       \/ \E p \in Peer : CreatePeer(t, p) \/ RotateToken(t, p) \/ LoadUser(t, p) \/ Revoke(t, p)
       \/ WriteExpiry(t) \/ WriteToken(t) \/ SaveUser(t) \/ UserDelete(t)
       \/ LoadForm(t) \/ SaveForm(t)
       \/ ReadExtract(t) \/ UpdateAddonConfigExtract(t) \/ ClearAddonConfigExtract(t)
       \/ Request(t) \/ Deliver(t) \/ SyncRegistryCacheToPeer(t)
  \/ Tick \/ RotateSelf \/ ReplaceSelf \/ Answer

Spec == Init /\ [][Next]_vars

-----------------------------------------------------------------------------
(* Properties. *)

\* "Subsequent requests from that token return 401" (Revoke): a revoked peer
\* does not come back, whatever rotation, first or automatic, read it before.
RevokedStaysRevoked == [][\A p \in Peer : user[p] = Gone => user'[p] = Gone]_vars

\* "The old token is invalidated immediately" (RotateToken, RotateSelf): no
\* token that was replaced authenticates again, also when rotations overlap.
\* Two exceptions, both a write of a token read before the rotation: a peer
\* rotated while CreatePeer was still to write its expiry, which brings the first
\* token back, and a user page or profile loaded before and saved after it, until
\* the next rotation.
OldTokenDies == \A p \in Peer \ (early \cup revived) : Exists(p) => user[p] \notin retired

\* "The rotator NEVER mints tokens for hosts without AutoRefresh": a token
\* that worked when the operator stored it works as long as nobody rotates
\* or revokes the peer or saves an outdated page of it, and the switch was never
\* on.
OptOutKeepsToken == host.tok # 0 /\ ~auto /\ ~broken => Works(host.tok)

\* "Unset subtrees are left as-is", "Enabled-only edits preserve the previous
\* attestation": an upload and an attestation survive the edits of both
\* subtrees, the record of a push and host edits, until they are cleared or
\* replaced by lists without a file, a request works on an outdated copy or a
\* stale edit page overwrites them.
ImportsKept == kept \subseteq decodeAddonConfigExtract(host.ext)

=============================================================================
