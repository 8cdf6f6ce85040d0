------------------------------- MODULE Access -------------------------------
(***************************************************************************)
(* Who is let in, and with which permissions: users, roles, the sessions   *)
(* that cache a user's permissions (security/auth.go, security/perm.go,    *)
(* security/keycloak.go, biz/user.go, biz/role.go, biz/session.go), on     *)
(* either storage engine (dao/bolt, dao/mongo).                            *)
(*                                                                         *)
(* A session row holds a copy of the permissions its user had at sign-in.  *)
(* An edit of the user or of one of its roles answers the administrator    *)
(* first and marks the sessions concerned "dirty" from a goroutine; the    *)
(* next request that presents a dirty session recomputes the copy, one     *)
(* read after another, while other requests and edits go on.  The two      *)
(* engines do not store sessions alike: `engine' says which one this       *)
(* deployment runs on, and the operators of the dao differ accordingly.    *)
(*                                                                         *)
(* Abstracted: passwords, names and e-mail addresses (a sign-in that       *)
(* presents wrong credentials changes nothing), the wording of answers.    *)
(* A permission is a pair <<resource, action>>.                            *)
(***************************************************************************)
EXTENDS Integers

CONSTANTS Nil,             \* a row that is not there
          Users, Roles, Tokens, Requests,
          Permissions,     \* <<resource, action>> pairs a role may grant
          Life,            \* misc.Options.TokenExpiry
          Grace,           \* the 24 hours of MaxExpiry
          MaxTime, MaxEdits    \* bounds of the exploration

VARIABLES engine,          \* "bolt" or "mongo", fixed by DB_TYPE
          user, role,      \* the two collections; a missing row is Nil
          session,         \* the session collection, by key
          marks,           \* SessionUpdateDirty goroutines not yet run
          pulls,           \* mongo: deleted roles still to be pulled from users
          req,             \* the requests in flight
          now,
          born,            \* history: when each session was created
          edits

stores == <<user, role, session, marks, pulls>>
accessVars ==  <<engine, user, role, session, marks, pulls, req, now, born, edits>>

Types == {"internal", "ldap", "keycloak"}
Keys  == Tokens \cup Users

UserRow    == [admin : BOOLEAN, roles : SUBSET Roles, type : Types, active : BOOLEAN]
PermRow    == [res : SUBSET {p[1] : p \in Permissions},
               act : SUBSET {p[2] : p \in Permissions}]
SessionRow == [user : Users, admin : BOOLEAN, roles : SUBSET Roles, perm : PermRow,
               dirty : BOOLEAN, expiry : Int, max : Int]
BirthRow   == [at : Int, alone : BOOLEAN]

\* Ids of users are no tokens; a missing row is none of the rows.
ASSUME AccessAssumption ==
    /\ Users \cap Tokens = {} /\ Nil \notin Users \cup Tokens
    /\ Nil \notin {"session", "api", "signin"}
    /\ Nil \notin UserRow /\ Nil \notin SessionRow /\ Nil \notin BirthRow
    /\ \A ps \in SUBSET Permissions : ps # Nil
    /\ Life \in Nat /\ Grace \in Nat
    /\ MaxTime \in Nat /\ MaxEdits \in Nat

(***************************************************************************)
(* Permissions.  A PermMap keeps the resources and the actions a user was  *)
(* granted in two groups of bits, not the pairs.                           *)
(***************************************************************************)

NewPermMap(perms) == [res |-> {p[1] : p \in perms}, act |-> {p[2] : p \in perms}]

Contains(map, p) == p[1] \in map.res /\ p[2] \in map.act

Check(who, p) == who.admin \/ Contains(who.perm, p)

\* What the stored user and roles grant at this moment.
Granted(u) == UNION {role[r] : r \in user[u].roles}

Current(u) == [admin |-> user[u].admin,
               perm  |-> NewPermMap(IF user[u].admin THEN {} ELSE Granted(u))]

(***************************************************************************)
(* The dao.  Bolt keys a refreshed session by its user instead of its id,  *)
(* so the row the token leads to stays as it was; Mongo refuses both       *)
(* updates, which carry no update operator.                                *)
(***************************************************************************)

\* A plausible repair: stored under its id, whatever became of the row meanwhile.
BoltSessionUpdateById(t, row) == session' = [session EXCEPT ![t] = row]

BoltSessionUpdate(t, row) == session' = [session EXCEPT ![row.user] = row]

MongoSessionUpdate(t, row) == UNCHANGED session

Concerned(m, row) == row # Nil /\ (row.user = m \/ m \in row.roles)

BoltSessionUpdateDirty(m) ==
    session' = [k \in Keys |-> IF Concerned(m, session[k])
                               THEN [session[k] EXCEPT !.dirty = TRUE] ELSE session[k]]

MongoSessionUpdateDirty(m) == UNCHANGED session

SessionUpdateExpiry(t, expiry) ==
    IF session[t] = Nil THEN session ELSE [session EXCEPT ![t].expiry = expiry]

\* Every edit ends the quiet time of the requests in flight.
Disturbed(rq) == [q \in Requests |-> [rq[q] EXCEPT !.quiet = FALSE]]

\* Mongo answers a role's deletion in two writes, Bolt leaves the users alone.
RoleDelete(r) ==
    /\ role' = [role EXCEPT ![r] = Nil]
    /\ pulls' = IF engine = "mongo" THEN pulls \cup {r} ELSE pulls

RolePull(r) ==
    /\ r \in pulls
    /\ pulls' = pulls \ {r}
    /\ user' = [u \in Users |-> IF user[u] = Nil THEN Nil
                                ELSE [user[u] EXCEPT !.roles = @ \ {r}]]
    /\ req' = Disturbed(req)
    /\ UNCHANGED <<engine, role, session, marks, now, born, edits>>

(***************************************************************************)
(* Requests.  One record per request in flight: what it asked for, the     *)
(* session row it works on, the roles it has still to read and the         *)
(* permissions collected so far.                                           *)
(***************************************************************************)

NoRow == [user |-> Nil]
Phases == {"idle", "find", "renew", "resolve", "fill", "perms", "served"}
Request == [pc : Phases, kind : {Nil, "session", "api", "signin"}, token : Tokens \cup {Nil},
            at : Int, row : SessionRow \cup {NoRow}, todo : SUBSET Roles,
            perms : SUBSET Permissions, account : UserRow \cup {Nil}, quiet : BOOLEAN]
Idle  == [pc |-> "idle", kind |-> Nil, token |-> Nil, at |-> 0,
          row |-> NoRow, todo |-> {}, perms |-> {}, account |-> Nil,
          quiet |-> FALSE]    \* history: no edit since it began, no mark due then

Reached(q, pc) == req[q].pc = pc

Arrive(q, pc, kind, t, row) ==
    /\ Reached(q, "idle")
    /\ req' = [req EXCEPT ![q] = [Idle EXCEPT !.pc = pc, !.kind = kind, !.token = t,
                                              !.at = now, !.row = row,
                                              !.quiet = marks = {} /\ pulls = {}]]

Refuse(q) == req' = [req EXCEPT ![q] = Idle]

\* The user is put on the context: Check(row, p) now decides for the p a handler asks.
SetUser(q, row) == req' = [req EXCEPT ![q].pc = "served", ![q].row = row]

Done(q) ==
    /\ Reached(q, "served")
    /\ Refuse(q)
    /\ UNCHANGED <<engine, stores, now, born, edits>>

BeginSession(q, t) ==
    /\ Arrive(q, "find", "session", t, NoRow)
    /\ UNCHANGED <<engine, stores, now, born, edits>>

Alive(row) == IF row = Nil THEN FALSE ELSE row.expiry >= now

\* identifyBySession: refused, recomputed, renewed or served as it is.
IdentifyBySession(q) ==
    LET row == session[req[q].token] IN
    /\ Reached(q, "find")
    /\ \/ ~Alive(row) /\ Refuse(q)
       \/ /\ Alive(row) /\ row.dirty
          /\ req' = [req EXCEPT ![q].pc = "fill", ![q].row = row, ![q].at = now]
       \/ /\ Alive(row) /\ ~row.dirty /\ row.expiry <= now
          /\ req' = [req EXCEPT ![q].pc = "renew", ![q].row = row, ![q].at = now]
       \/ /\ Alive(row) /\ ~row.dirty /\ row.expiry > now
          /\ req' = [req EXCEPT ![q].pc = "served", ![q].row = row, ![q].at = now]
    /\ UNCHANGED <<engine, stores, now, born, edits>>

Least(a, b) == IF a < b THEN a ELSE b

\* A plausible slip: the cap forgotten.
RenewedUncapped(row) == now + Life

Renewed(row) == Least(now + Life, row.max)

\* renewSession: the write may find the row pruned; the request is served anyway.
RenewSession(q) ==
    LET t == req[q].token IN
    /\ Reached(q, "renew")
    /\ session' = SessionUpdateExpiry(t, Renewed(req[q].row))
    /\ SetUser(q, req[q].row)
    /\ UNCHANGED <<engine, user, role, marks, pulls, now, born, edits>>

(***************************************************************************)
(* fillSession and GetPerms: the user, then its roles one by one.  A role  *)
(* id that leads nowhere is dereferenced: the handler dies there.          *)
(***************************************************************************)

FillSession(q) ==
    LET u == req[q].row.user IN
    /\ Reached(q, "fill")
    /\ \/ user[u] = Nil /\ Refuse(q)
       \/ /\ user[u] # Nil
          /\ req' = [req EXCEPT
                ![q].pc = "perms",
                ![q].row = [@ EXCEPT !.admin = user[u].admin, !.roles = user[u].roles],
                ![q].todo = IF user[u].admin /\ req[q].kind # "api" THEN {}
                            ELSE user[u].roles]
    /\ UNCHANGED <<engine, stores, now, born, edits>>

GetPerms(q) ==
    /\ Reached(q, "perms")
    /\ \E r \in req[q].todo :
         \/ role[r] = Nil /\ Refuse(q)
         \/ /\ role[r] # Nil
            /\ req' = [req EXCEPT ![q].todo = @ \ {r}, ![q].perms = @ \cup role[r]]
    /\ UNCHANGED <<engine, stores, now, born, edits>>

\* The copy once every role is read; an administrator's bits are left as they were.
Filled(q) == [req[q].row EXCEPT
    !.perm = IF req[q].row.admin /\ req[q].kind # "api" THEN @ ELSE NewPermMap(req[q].perms)]

\* updateSession: the refreshed copy is stored and the request served from it.
UpdateSession(q) ==
    LET row == [Filled(q) EXCEPT !.dirty = FALSE] IN
    /\ Reached(q, "perms") /\ req[q].kind = "session" /\ req[q].todo = {}
    /\ \/ engine = "bolt" /\ BoltSessionUpdate(req[q].token, row) /\ SetUser(q, row)
       \/ engine = "mongo" /\ MongoSessionUpdate(req[q].token, row) /\ Refuse(q)
    /\ UNCHANGED <<engine, user, role, marks, pulls, now, born, edits>>

(***************************************************************************)
(* identifyByToken: a user's long-lived API token; nothing is cached.      *)
(***************************************************************************)

BeginToken(q, u) ==
    /\ user[u] # Nil
    /\ Arrive(q, "fill", "api", Nil,
             [user |-> u, admin |-> FALSE, roles |-> {}, perm |-> NewPermMap({}),
              dirty |-> FALSE, expiry |-> 0, max |-> 0])
    /\ UNCHANGED <<engine, stores, now, born, edits>>

IdentifyByToken(q) ==
    /\ Reached(q, "perms") /\ req[q].kind = "api" /\ req[q].todo = {}
    /\ SetUser(q, Filled(q))
    /\ UNCHANGED <<engine, stores, now, born, edits>>

(***************************************************************************)
(* Sign-in, with a password or through an identity provider.               *)
(***************************************************************************)

Unused(t) == session[t] = Nil /\ born[t] = Nil /\ \A q \in Requests : req[q].token # t

NewSession(u) == [user |-> u, admin |-> FALSE, roles |-> {}, perm |-> NewPermMap({}),
                  dirty |-> FALSE, expiry |-> now + Life, max |-> now + Life + Grace]

\* signIn with credentials the account's realm accepts; a blocked account is refused.
SignIn(q, u, t) ==
    /\ Unused(t)
    /\ user[u] # Nil /\ user[u].active /\ user[u].type \in {"internal", "ldap"}
    /\ Arrive(q, "fill", "signin", t, NewSession(u))
    /\ UNCHANGED <<engine, stores, now, born, edits>>

Account(admin, rs, type) == [admin |-> admin, roles |-> rs, type |-> type, active |-> TRUE]

\* A created account or role gets an id nothing refers to yet.
FreshUser(u) ==
    /\ user[u] = Nil /\ u \notin marks
    /\ \A k \in Keys : session[k] # Nil => session[k].user # u
    /\ \A q \in Requests : req[q].row.user # u

FreshRole(r) ==
    /\ role[r] = Nil /\ r \notin marks \cup pulls
    /\ \A u \in Users : user[u] # Nil => r \notin user[u].roles
    /\ \A k \in Keys : session[k] # Nil => r \notin session[k].roles
    /\ \A q \in Requests : Reached(q, "idle")

Edit == edits < MaxEdits /\ edits' = edits + 1

\* ldapRealm: somebody only the directory knows gets an account at the first sign-in.
LdapRealm(q, u, t) ==
    /\ Unused(t) /\ Reached(q, "idle")
    /\ FreshUser(u) /\ user' = [user EXCEPT ![u] = Account(FALSE, {}, "ldap")]
    /\ req' = Disturbed([req EXCEPT ![q] = [Idle EXCEPT !.pc = "fill", !.kind = "signin",
                                                        !.token = t, !.row = NewSession(u)]])
    /\ UNCHANGED <<engine, role, session, marks, pulls, now, born, edits>>

\* ResolveUser reads the account and refuses one of another type ...
FindByName(q, u, t) ==
    /\ Unused(t)
    /\ FreshUser(u) \/ (user[u] # Nil /\ user[u].type = "keycloak")
    /\ Reached(q, "idle")
    /\ req' = [req EXCEPT ![q] = [Idle EXCEPT !.pc = "resolve", !.kind = "signin", !.token = t,
                                              !.row = NewSession(u), !.account = user[u],
                                              !.quiet = marks = {} /\ pulls = {}]]
    /\ UNCHANGED <<engine, stores, now, born, edits>>

\* ... and writes the copy it read back with the roles the token's groups map to; a
\* group that maps to nothing leaves the roles alone.  Mongo updates nothing, and
\* says so to nobody, when the account is gone by now; Bolt reports it.
ResolveUser(q, mapped) ==
    LET u == req[q].row.user
        a == req[q].account
        rs == IF mapped = {} THEN a.roles ELSE mapped
    IN  /\ Reached(q, "resolve")
        /\ \/ /\ a = Nil /\ user[u] = Nil
              /\ user' = [user EXCEPT ![u] = Account(FALSE, mapped, "keycloak")]
              /\ req' = Disturbed([req EXCEPT ![q].pc = "fill"]) /\ UNCHANGED marks
           \/ /\ a # Nil /\ user[u] # Nil
              /\ user' = [user EXCEPT ![u] = [a EXCEPT !.roles = rs, !.active = user[u].active]]
              /\ req' = Disturbed([req EXCEPT ![q].pc = "fill"]) /\ marks' = marks \cup {u}
           \/ /\ a # Nil /\ user[u] = Nil /\ engine = "mongo"
              /\ req' = Disturbed([req EXCEPT ![q].pc = "fill"]) /\ marks' = marks \cup {u}
              /\ UNCHANGED user
           \/ /\ (a = Nil) # (user[u] = Nil) /\ (engine = "bolt" \/ a = Nil)
              /\ req' = Disturbed([req EXCEPT ![q] = Idle]) /\ UNCHANGED <<user, marks>>
        /\ UNCHANGED <<engine, role, session, pulls, now, born, edits>>

\* createSession: the token is handed out once its row is stored.
CreateSession(q) ==
    LET t == req[q].token IN
    /\ Reached(q, "perms") /\ req[q].kind = "signin" /\ req[q].todo = {}
    /\ session' = [session EXCEPT ![t] = Filled(q)]
    /\ born' = [born EXCEPT ![t] = [at |-> req[q].row.expiry - Life, alone |-> req[q].quiet]]
    /\ Refuse(q)
    /\ UNCHANGED <<engine, user, role, marks, pulls, now, edits>>

(***************************************************************************)
(* The administrator's edits, and the marks they leave behind.             *)
(***************************************************************************)

CreateUser(u, admin, rs) ==
    /\ Edit /\ req' = Disturbed(req) /\ FreshUser(u)
    /\ user' = [user EXCEPT ![u] = Account(admin, rs, "internal")]
    /\ UNCHANGED <<engine, role, session, marks, pulls, now, born>>

UpdateUser(u, admin, rs, type) ==
    /\ Edit /\ req' = Disturbed(req) /\ user[u] # Nil
    /\ user' = [user EXCEPT ![u].admin = admin, ![u].roles = rs, ![u].type = type]
    /\ marks' = marks \cup {u}
    /\ UNCHANGED <<engine, role, session, pulls, now, born>>

SetStatus(u) ==
    /\ Edit /\ req' = Disturbed(req) /\ user[u] # Nil
    /\ user' = [user EXCEPT ![u].active = ~@]
    /\ UNCHANGED <<engine, role, session, marks, pulls, now, born>>

DeleteUser(u) ==
    /\ Edit /\ req' = Disturbed(req) /\ user[u] # Nil
    /\ user' = [user EXCEPT ![u] = Nil]
    /\ UNCHANGED <<engine, role, session, marks, pulls, now, born>>

CreateRole(r, perms) ==
    /\ Edit /\ req' = Disturbed(req) /\ FreshRole(r)
    /\ role' = [role EXCEPT ![r] = perms]
    /\ UNCHANGED <<engine, user, session, marks, pulls, now, born>>

UpdateRole(r, perms) ==
    /\ Edit /\ req' = Disturbed(req) /\ role[r] # Nil
    /\ role' = [role EXCEPT ![r] = perms]
    /\ marks' = marks \cup {r}
    /\ UNCHANGED <<engine, user, session, pulls, now, born>>

DeleteRole(r) ==
    /\ Edit /\ req' = Disturbed(req) /\ role[r] # Nil
    /\ RoleDelete(r)
    /\ marks' = marks \cup {r}
    /\ UNCHANGED <<engine, user, session, now, born>>

SessionUpdateDirty(m) ==
    /\ m \in marks
    /\ \/ engine = "bolt" /\ BoltSessionUpdateDirty(m)
       \/ engine = "mongo" /\ MongoSessionUpdateDirty(m)
    /\ marks' = marks \ {m}
    /\ UNCHANGED <<engine, user, role, pulls, req, now, born, edits>>

\* The hourly job of Bolt, which deletes from the bucket it walks and may so pass over
\* rows, and the TTL index of Mongo: any of the rows expired for an hour go.
SessionPrune ==
    /\ \E ks \in SUBSET {k \in Keys : session[k] # Nil /\ session[k].expiry + 1 < now} :
         ks # {} /\ session' = [k \in Keys |-> IF k \in ks THEN Nil ELSE session[k]]
    /\ UNCHANGED <<engine, user, role, marks, pulls, req, now, born, edits>>

Tick ==
    /\ now < MaxTime /\ now' = now + 1
    /\ UNCHANGED <<engine, stores, req, born, edits>>

AccessInit ==
    /\ engine \in {"bolt", "mongo"}
    /\ user \in [Users -> {Nil} \cup {a \in UserRow : ~a.admin /\ a.active}]
    /\ role \in [Roles -> {Nil, Permissions}]
    /\ \A u \in Users, r \in Roles : user[u] # Nil => (r \in user[u].roles => role[r] # Nil)
    /\ session = [k \in Keys |-> Nil]
    /\ marks = {} /\ pulls = {}
    /\ req = [q \in Requests |-> Idle]
    /\ now = 0 /\ born = [t \in Tokens |-> Nil]
    /\ edits = 0

AccessNext ==
    \/ \E q \in Requests :
         \/ \E t \in Tokens : BeginSession(q, t)
         \/ IdentifyBySession(q) \/ RenewSession(q) \/ FillSession(q) \/ GetPerms(q)
         \/ UpdateSession(q) \/ IdentifyByToken(q) \/ CreateSession(q) \/ Done(q)
         \/ \E u \in Users : BeginToken(q, u)
         \/ \E u \in Users, t \in Tokens :
              SignIn(q, u, t) \/ LdapRealm(q, u, t) \/ FindByName(q, u, t)
         \/ \E rs \in SUBSET Roles : ResolveUser(q, rs)
    \/ \E u \in Users :
         \/ \E admin \in BOOLEAN, rs \in SUBSET Roles :
              \/ CreateUser(u, admin, rs)
              \/ \E type \in Types : UpdateUser(u, admin, rs, type)
         \/ SetStatus(u) \/ DeleteUser(u)
    \/ \E r \in Roles :
         \/ \E perms \in SUBSET Permissions : CreateRole(r, perms) \/ UpdateRole(r, perms)
         \/ DeleteRole(r) \/ RolePull(r)
    \/ \E m \in Users \cup Roles : SessionUpdateDirty(m)
    \/ SessionPrune \/ Tick

AccessSpec == AccessInit /\ [][AccessNext]_accessVars

-----------------------------------------------------------------------------
(***************************************************************************)
(* Properties                                                              *)
(***************************************************************************)

\* Every variable holds values of its kind.
AccessTypeOK ==
    /\ engine \in {"bolt", "mongo"}
    /\ user \in [Users -> UserRow \cup {Nil}]
    /\ role \in [Roles -> {Nil} \cup SUBSET Permissions]
    /\ session \in [Keys -> SessionRow \cup {Nil}]
    /\ marks \subseteq Users \cup Roles /\ pulls \subseteq Roles
    /\ req \in [Requests -> Request]
    /\ now \in 0 .. MaxTime /\ edits \in 0 .. MaxEdits
    /\ born \in [Tokens -> BirthRow \cup {Nil}]

\* No request is served on a session later than the lifetime plus the grace after its
\* sign-in, however often renewSession extended it.
ServedInTime ==
    \A q \in Requests :
        Reached(q, "served") /\ req[q].kind = "session"
            => req[q].at <= born[req[q].token].at + Life + Grace

\* On Bolt, a request that no edit overlaps and that no mark is still due for is decided
\* on the permissions stored now, although its session caches older ones: every edit of
\* a user or a role reaches the sessions it concerns.  (Sessions whose sign-in overlapped
\* an edit are excepted: the mark may run before the row exists.)
ChangesReachSessions ==
    \A q \in Requests :
        LET u == req[q].row.user IN
        engine = "bolt" /\ Reached(q, "served") /\ req[q].quiet /\ user[u] # Nil
          /\ (req[q].kind = "session" => born[req[q].token].alone)
            => \A p \in Permissions : Check(req[q].row, p) = Check(Current(u), p)

=============================================================================
