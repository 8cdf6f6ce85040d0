--------------------------------- MODULE Dao ---------------------------------
(***************************************************************************)
(* The collections of dao.Interface on both engines, dao/bolt and          *)
(* dao/mongo, under the same calls: what each engine's functions make of   *)
(* a create, a form's save, a handler that writes back the copy it read,   *)
(* the updates of single fields, deletes, prunes and searches.             *)
(*                                                                         *)
(* `coll' is the collection under consideration.  A row is abstracted to   *)
(* the groups of fields the functions treat differently:                   *)
(*   name    what the row is searched by          form    what a save sets *)
(*   opt     fields stored only when not empty    secret  password, key    *)
(*   status  has an update of its own             note    error, warnings  *)
(*   owned   written by another flow or only at creation                   *)
(*   made    CreatedAt, CreatedBy                                          *)
(* `form' is the number of the call that wrote it and stands for UpdatedAt *)
(* too.  Names and search words are model values; Part says which words    *)
(* occur in a name and Hits which match it as regular expressions.         *)
(***************************************************************************)
EXTENDS Integers, FiniteSets, Sequences, Functions

CONSTANTS Nil, Handlers,
          Rows,            \* how many ids there are
          Names, Words,    \* names, and the words searched for
          Part, Hits,      \* Part[n], Hits[n]: the words in n, and those that match n
          Plain,           \* words of which no character means anything to a regexp
          Collections,     \* the collections to explore
          MaxCalls, Keep   \* bounds: calls made, versions kept by a prune

VARIABLES coll, bolt, mongo,
          held,      \* the copy each handler read, as each engine gave it
          gone,      \* ids whose row was deleted
          dup,       \* history: a name was given to two rows
          calls

vars == <<coll, bolt, mongo, held, gone, dup, calls>>

Keys  == 1 .. Rows
Empty == ""

Row == [name : Names \cup {Empty}, form : 0 .. MaxCalls, opt : {Empty, "opt"},
        secret : {Empty, "old", "new"}, status : {Empty, "up", "down"}, note : {Empty, "note"},
        owned : {Empty, "owned"}, made : 0 .. MaxCalls]

\* A missing row and a handler without a copy are no rows and no copies; a name contains
\* itself, as strings.Contains has it, and a plain word matches where it occurs.
ASSUME DaoAssumption ==
    /\ Rows \in Nat \ {0} /\ MaxCalls \in Nat
    /\ \A n \in Names \cap Words : n \in Part[n]
    /\ Plain \subseteq Words /\ \A n \in Names, w \in Plain : w \in Hits[n] <=> w \in Part[n]
    /\ Nil \notin Row /\ Nil \notin [free : Names]
    /\ Nil \notin [key : Keys, bolt : Row \cup {Nil}, mongo : Row \cup {Nil}]
    /\ Nil \notin [doomed : SUBSET Keys, keepers : SUBSET Keys]

Blank == [name |-> Empty, form |-> 0, opt |-> Empty, secret |-> Empty, status |-> Empty,
          note |-> Empty, owned |-> Empty, made |-> 0]

(***************************************************************************)
(* The engines' primitives.  A Bolt create overwrites, a Mongo insert      *)
(* refuses a taken id or a taken unique name; an update of a missing row   *)
(* is an error on Bolt and nothing at all on Mongo.                        *)
(***************************************************************************)

BoltReplace(rows, k, row) == [rows EXCEPT ![k] = row]

BoltUpdate(rows, k, row) == IF rows[k] = Nil THEN rows ELSE [rows EXCEPT ![k] = row]

BoltDelete(rows, ks) == [k \in Keys |-> IF k \in ks THEN Nil ELSE rows[k]]

UniqueNames == {"user", "role", "vault_secret"}

Taken(rows, k, name) ==
    coll \in UniqueNames /\ \E j \in Keys \ {k} : rows[j] # Nil /\ rows[j].name = name

MongoCreate(rows, k, row) ==
    IF rows[k] # Nil \/ Taken(rows, k, row.name) THEN rows ELSE [rows EXCEPT ![k] = row]

MongoUpdate(rows, k, row) ==
    IF rows[k] = Nil \/ Taken(rows, k, row.name) THEN rows ELSE [rows EXCEPT ![k] = row]

MongoUpsert(rows, k, row) == [rows EXCEPT ![k] = row]

MongoDelete(rows, ks) == [k \in Keys |-> IF k \in ks THEN Nil ELSE rows[k]]

\* The value a form left empty is the stored one.
Or(new, old) == IF new = Empty THEN old ELSE new

(***************************************************************************)
(* One operator per collection and engine: the rows after the call c.      *)
(***************************************************************************)

BoltUser(rows, c) ==
    LET old == rows[c.key] new == c.row IN
    CASE c.op = "create"   -> BoltReplace(rows, c.key, new)
      [] c.op = "save"     -> BoltUpdate(rows, c.key, [old EXCEPT !.name = new.name, !.form = new.form,
                                                                !.opt = new.opt])
      [] c.op = "profile"  -> BoltUpdate(rows, c.key, [old EXCEPT !.name = new.name, !.opt = new.opt])
      [] c.op = "password" -> BoltUpdate(rows, c.key, [old EXCEPT !.secret = new.secret])
      [] c.op = "status"   -> BoltUpdate(rows, c.key, [old EXCEPT !.status = new.status])
      [] c.op = "delete"   -> BoltDelete(rows, {c.key})

MongoUser(rows, c) ==
    LET old == rows[c.key] new == c.row IN
    CASE c.op = "create"   -> MongoCreate(rows, c.key, new)
      [] c.op = "save"     -> MongoUpdate(rows, c.key, [old EXCEPT !.name = new.name, !.form = new.form,
                                                                 !.opt = new.opt])
      [] c.op = "profile"  -> MongoUpdate(rows, c.key, [old EXCEPT !.name = new.name, !.opt = new.opt])
      [] c.op = "password" -> MongoUpdate(rows, c.key, [old EXCEPT !.secret = new.secret])
      [] c.op = "status"   -> MongoUpdate(rows, c.key, [old EXCEPT !.status = new.status])
      [] c.op = "delete"   -> MongoDelete(rows, {c.key})

BoltRole(rows, c) ==
    CASE c.op = "create" -> BoltReplace(rows, c.key, c.row)
      [] c.op = "save"   -> BoltUpdate(rows, c.key, [c.row EXCEPT !.made = rows[c.key].made])
      [] c.op = "delete" -> BoltDelete(rows, {c.key})

MongoRole(rows, c) ==
    CASE c.op = "create" -> MongoCreate(rows, c.key, c.row)
      [] c.op = "save"   -> MongoUpdate(rows, c.key, [rows[c.key] EXCEPT !.name = c.row.name,
                                                                        !.form = c.row.form])
      [] c.op = "delete" -> MongoDelete(rows, {c.key})

\* A plausible slip: an empty password in the form is stored as such.
BoltRegistryBlanking(rows, c) ==
    CASE c.op = "create" -> BoltReplace(rows, c.key, c.row)
      [] c.op = "save"   -> BoltUpdate(rows, c.key, [c.row EXCEPT !.made = rows[c.key].made])
      [] c.op = "delete" -> BoltDelete(rows, {c.key})

BoltRegistry(rows, c) ==
    LET old == rows[c.key] IN
    CASE c.op = "create" -> BoltReplace(rows, c.key, c.row)
      [] c.op = "save"   -> BoltUpdate(rows, c.key, [c.row EXCEPT !.made = old.made,
                                                                 !.secret = Or(@, old.secret)])
      [] c.op = "delete" -> BoltDelete(rows, {c.key})

MongoRegistry(rows, c) ==
    LET old == rows[c.key] new == c.row IN
    CASE c.op = "create" -> MongoCreate(rows, c.key, new)
      [] c.op = "save"   -> MongoUpdate(rows, c.key, [old EXCEPT !.name = new.name, !.form = new.form,
                                                !.opt = new.opt, !.secret = Or(new.secret, @)])
      [] c.op = "delete" -> MongoDelete(rows, {c.key})

\* StackUpdate looks for the row in the bucket of the roles and finds none.
BoltStack(rows, c) ==
    CASE c.op = "create" -> BoltReplace(rows, c.key, c.row)
      [] c.op = "save"   -> rows
      [] c.op = "delete" -> BoltDelete(rows, {c.key})

MongoStack(rows, c) ==
    CASE c.op = "create" -> MongoCreate(rows, c.key, c.row)
      [] c.op = "save"   -> MongoUpdate(rows, c.key, [rows[c.key] EXCEPT !.form = c.row.form])
      [] c.op = "delete" -> MongoDelete(rows, {c.key})

BoltSetting(rows, c) == BoltReplace(rows, c.key, c.row)

MongoSetting(rows, c) == MongoUpsert(rows, c.key, c.row)

BoltChart(rows, c) ==
    CASE c.op = "create" -> BoltReplace(rows, c.key, c.row)
      [] c.op = "save"   -> BoltUpdate(rows, c.key, [c.row EXCEPT !.made = rows[c.key].made])
      [] c.op = "delete" -> BoltDelete(rows, {c.key})

\* The update names every field but the chart's options.
MongoChart(rows, c) ==
    CASE c.op = "create" -> MongoCreate(rows, c.key, c.row)
      [] c.op = "save"   -> MongoUpdate(rows, c.key, [rows[c.key] EXCEPT !.name = c.row.name,
                                                                        !.form = c.row.form])
      [] c.op = "delete" -> MongoDelete(rows, {c.key})

BoltDashboard(rows, c) == BoltReplace(rows, c.key, c.row)

MongoDashboard(rows, c) == MongoUpsert(rows, c.key, c.row)

\* The form's save keeps the status and what discovery owns, but not the last error.
BoltHost(rows, c) ==
    LET old == rows[c.key] new == c.row IN
    CASE c.op = "create" -> BoltReplace(rows, c.key, new)
      [] c.op = "save"   -> BoltUpdate(rows, c.key, [new EXCEPT !.made = old.made, !.status = old.status,
                              !.secret = Or(@, old.secret), !.owned = Or(@, old.owned)])
      [] c.op = "status" -> BoltUpdate(rows, c.key, [old EXCEPT !.status = new.status, !.note = new.note])
      [] c.op = "own"    -> BoltUpdate(rows, c.key, [old EXCEPT !.owned = new.owned])
      [] c.op = "delete" -> BoltDelete(rows, {c.key})

MongoHost(rows, c) ==
    LET old == rows[c.key] new == c.row IN
    CASE c.op = "create" -> MongoCreate(rows, c.key, new)
      [] c.op = "save"   -> MongoUpdate(rows, c.key, [old EXCEPT !.name = new.name, !.form = new.form,
                                                                !.secret = Or(new.secret, @)])
      [] c.op = "status" -> MongoUpdate(rows, c.key, [old EXCEPT !.status = new.status, !.note = new.note])
      [] c.op = "own"    -> MongoUpdate(rows, c.key, [old EXCEPT !.owned = new.owned])
      [] c.op = "delete" -> MongoDelete(rows, {c.key})

BoltComposeStack(rows, c) ==
    LET old == rows[c.key] new == c.row IN
    CASE c.op = "create" -> BoltReplace(rows, c.key, new)
      [] c.op = "save"   -> BoltUpdate(rows, c.key, [new EXCEPT !.made = old.made,
                                                               !.status = Or(@, old.status)])
      [] c.op = "status" -> BoltUpdate(rows, c.key, [old EXCEPT !.status = new.status])
      [] c.op = "note"   -> BoltUpdate(rows, c.key, [old EXCEPT !.note = new.note])
      [] c.op = "delete" -> BoltDelete(rows, {c.key})

\* A plausible slip: a form without a status clears the stored one.
MongoComposeStackClearing(rows, c) ==
    LET old == rows[c.key] new == c.row IN
    CASE c.op = "create" -> MongoCreate(rows, c.key, new)
      [] c.op = "save"   -> MongoUpdate(rows, c.key, [old EXCEPT !.name = new.name, !.form = new.form,
                                                                !.status = new.status])
      [] c.op = "status" -> MongoUpdate(rows, c.key, [old EXCEPT !.status = new.status])
      [] c.op = "note"   -> MongoUpdate(rows, c.key, [old EXCEPT !.note = new.note])
      [] c.op = "delete" -> MongoDelete(rows, {c.key})

MongoComposeStack(rows, c) ==
    LET old == rows[c.key] new == c.row IN
    CASE c.op = "create" -> MongoCreate(rows, c.key, new)
      [] c.op = "save"   -> MongoUpdate(rows, c.key, [old EXCEPT !.name = new.name, !.form = new.form,
                                                                !.status = Or(new.status, @)])
      [] c.op = "status" -> MongoUpdate(rows, c.key, [old EXCEPT !.status = new.status])
      [] c.op = "note"   -> MongoUpdate(rows, c.key, [old EXCEPT !.note = new.note])
      [] c.op = "delete" -> MongoDelete(rows, {c.key})

\* Rows of one stack; "clear" is the delete by stack.
BoltVersion(rows, c) ==
    CASE c.op = "create" -> BoltReplace(rows, c.key, c.row)
      [] c.op = "clear"  -> BoltDelete(rows, Keys)

MongoVersion(rows, c) ==
    CASE c.op = "create" -> MongoCreate(rows, c.key, c.row)
      [] c.op = "clear"  -> MongoDelete(rows, Keys)

BoltEvent(rows, c) == BoltReplace(rows, c.key, c.row)

MongoEvent(rows, c) == MongoCreate(rows, c.key, c.row)

\* Bolt's BackupUpdate is its create under another name.
BoltBackup(rows, c) ==
    CASE c.op \in {"create", "save"} -> BoltReplace(rows, c.key, c.row)
      [] c.op = "delete" -> BoltDelete(rows, {c.key})

MongoBackup(rows, c) ==
    CASE c.op = "create" -> MongoCreate(rows, c.key, c.row)
      [] c.op = "save"   -> MongoUpdate(rows, c.key, [rows[c.key] EXCEPT !.form = c.row.form])
      [] c.op = "delete" -> MongoDelete(rows, {c.key})

\* Archives in the database: Bolt has none, Mongo inserts or else replaces.
BoltArchive(rows, c) == rows

MongoArchive(rows, c) ==
    CASE c.op = "save"   -> MongoUpsert(rows, c.key, c.row)
      [] c.op = "delete" -> MongoDelete(rows, {c.key})

BoltSchedule(rows, c) ==
    CASE c.op = "save"   -> BoltReplace(rows, c.key, c.row)
      [] c.op = "status" -> BoltUpdate(rows, c.key, [rows[c.key] EXCEPT !.status = c.row.status])
      [] c.op = "delete" -> BoltDelete(rows, {c.key})

MongoSchedule(rows, c) ==
    CASE c.op = "save"   -> MongoUpsert(rows, c.key, c.row)
      [] c.op = "status" -> MongoUpdate(rows, c.key, [rows[c.key] EXCEPT !.status = c.row.status])
      [] c.op = "delete" -> MongoDelete(rows, {c.key})

BoltVaultSecret(rows, c) ==
    CASE c.op = "create" -> BoltReplace(rows, c.key, c.row)
      [] c.op = "save"   -> BoltUpdate(rows, c.key, [c.row EXCEPT !.made = rows[c.key].made])
      [] c.op = "delete" -> BoltDelete(rows, {c.key})

\* A plausible slip: the whole record is set, its creator included.
MongoVaultSecretWhole(rows, c) ==
    CASE c.op = "create" -> MongoCreate(rows, c.key, c.row)
      [] c.op = "save"   -> MongoUpdate(rows, c.key, c.row)
      [] c.op = "delete" -> MongoDelete(rows, {c.key})

MongoVaultSecret(rows, c) ==
    CASE c.op = "create" -> MongoCreate(rows, c.key, c.row)
      [] c.op = "save"   -> MongoUpdate(rows, c.key, [rows[c.key] EXCEPT !.name = c.row.name,
                                                                        !.form = c.row.form])
      [] c.op = "delete" -> MongoDelete(rows, {c.key})

\* Upserted whole on Bolt; on Mongo the creator is set on insert only.
BoltBinding(rows, c) ==
    CASE c.op = "save"   -> BoltReplace(rows, c.key, c.row)
      [] c.op = "delete" -> BoltDelete(rows, {c.key})
      [] c.op = "clear"  -> BoltDelete(rows, Keys)

MongoBinding(rows, c) ==
    LET old == rows[c.key] IN
    CASE c.op = "save"   -> MongoUpsert(rows, c.key, IF old = Nil THEN c.row
                                                     ELSE [c.row EXCEPT !.made = old.made])
      [] c.op = "delete" -> MongoDelete(rows, {c.key})
      [] c.op = "clear"  -> MongoDelete(rows, Keys)

BoltRows(rows, c) ==
    CASE coll = "user"          -> BoltUser(rows, c)
      [] coll = "role"          -> BoltRole(rows, c)
      [] coll = "registry"      -> BoltRegistry(rows, c)
      [] coll = "stack"         -> BoltStack(rows, c)
      [] coll = "setting"       -> BoltSetting(rows, c)
      [] coll = "chart"         -> BoltChart(rows, c)
      [] coll = "dashboard"     -> BoltDashboard(rows, c)
      [] coll = "host"          -> BoltHost(rows, c)
      [] coll = "compose_stack" -> BoltComposeStack(rows, c)
      [] coll = "version"       -> BoltVersion(rows, c)
      [] coll = "event"         -> BoltEvent(rows, c)
      [] coll = "backup"        -> BoltBackup(rows, c)
      [] coll = "archive"       -> BoltArchive(rows, c)
      [] coll = "schedule"      -> BoltSchedule(rows, c)
      [] coll = "vault_secret"  -> BoltVaultSecret(rows, c)
      [] coll = "binding"       -> BoltBinding(rows, c)

MongoRows(rows, c) ==
    CASE coll = "user"          -> MongoUser(rows, c)
      [] coll = "role"          -> MongoRole(rows, c)
      [] coll = "registry"      -> MongoRegistry(rows, c)
      [] coll = "stack"         -> MongoStack(rows, c)
      [] coll = "setting"       -> MongoSetting(rows, c)
      [] coll = "chart"         -> MongoChart(rows, c)
      [] coll = "dashboard"     -> MongoDashboard(rows, c)
      [] coll = "host"          -> MongoHost(rows, c)
      [] coll = "compose_stack" -> MongoComposeStack(rows, c)
      [] coll = "version"       -> MongoVersion(rows, c)
      [] coll = "event"         -> MongoEvent(rows, c)
      [] coll = "backup"        -> MongoBackup(rows, c)
      [] coll = "archive"       -> MongoArchive(rows, c)
      [] coll = "schedule"      -> MongoSchedule(rows, c)
      [] coll = "vault_secret"  -> MongoVaultSecret(rows, c)
      [] coll = "binding"       -> MongoBinding(rows, c)

(***************************************************************************)
(* Reading.  Bolt's find decodes one row after another into the same       *)
(* struct: a field the row does not store keeps the value of the row       *)
(* before it.                                                              *)
(***************************************************************************)

Before(rows, k, f) == {j \in 1 .. k : rows[j] # Nil /\ rows[j][f] # Empty}

Left(rows, k, f) == IF Before(rows, k, f) = {} THEN Empty
                    ELSE rows[CHOOSE j \in Before(rows, k, f) :
                                  \A i \in Before(rows, k, f) : i <= j][f]

Named(rows, n) == {k \in Keys : rows[k] # Nil /\ rows[k].name = n}

\* The omitempty fields: a user's roles and tokens, a registry's certificate and password.
BoltFind(rows, n) ==
    IF Named(rows, n) = {} THEN Nil
    ELSE LET k == CHOOSE k \in Named(rows, n) : \A j \in Named(rows, n) : k <= j
         IN  [key |-> k, row |-> [rows[k] EXCEPT !.opt = Left(rows, k, "opt"),
                !.secret = IF coll = "registry" THEN Left(rows, k, "secret") ELSE @]]

MongoFind(rows, n) ==
    IF Named(rows, n) = {} THEN Nil
    ELSE LET k == CHOOSE k \in Named(rows, n) : \A j \in Named(rows, n) : k <= j
         IN  [key |-> k, row |-> rows[k]]

Searchable == {"user", "role", "chart", "event", "host", "compose_stack", "vault_secret"}

BoltMatches(row, w) == w = Empty \/ w \in Part[row.name]

\* The name itself; of a vault entry, whatever the word, as a $regex, matches.
MongoMatches(row, w) ==
    w = Empty \/ IF coll = "vault_secret" THEN w \in Hits[row.name] ELSE w = row.name

\* Charts newest first, and events: on Bolt by their time, on Mongo by their id; the
\* others as the engine walks them.
BoltSort  == IF coll \in {"chart", "event"} THEN "newest" ELSE "walk"
MongoSort == IF coll = "chart" THEN "newest" ELSE IF coll = "event" THEN "last id" ELSE "walk"

Precedes(rows, sort, a, b) ==
    IF sort = "last id" THEN a > b
    ELSE IF sort = "newest" /\ rows[a].form # rows[b].form THEN rows[a].form > rows[b].form
    ELSE a < b

\* The i-th row of an answer is the one that i - 1 others precede.
Order(rows, sort, ks) ==
    [i \in 1 .. Cardinality(ks) |->
        CHOOSE k \in ks : Cardinality({j \in ks : Precedes(rows, sort, j, k)}) = i - 1]

\* A plausible slip: the last row of every page is left out.
PageShort(count, i, size) ==
    IF count < size * (i - 1) THEN <<0, 0>>
    ELSE <<size * (i - 1), IF count < size * i THEN count ELSE size * i - 1>>

Page(count, i, size) ==
    IF count < size * (i - 1) THEN <<0, 0>>
    ELSE <<size * (i - 1), IF count < size * i THEN count ELSE size * i>>

BoltSearch(rows, w, i, size) ==
    LET all  == Order(rows, BoltSort, {k \in Keys : rows[k] # Nil /\ BoltMatches(rows[k], w)})
        page == Page(Len(all), i, size)
    IN  IF coll \in {"user", "chart", "event"} THEN SubSeq(all, page[1] + 1, page[2]) ELSE all

\* Skip and limit, on the server.
MongoSearch(rows, w, i, size) ==
    LET all  == Order(rows, MongoSort, {k \in Keys : rows[k] # Nil /\ MongoMatches(rows[k], w)})
        last == IF Len(all) < size * i THEN Len(all) ELSE size * i
    IN  IF coll = "role" THEN all ELSE SubSeq(all, size * (i - 1) + 1, last)

(***************************************************************************)
(* The calls.                                                              *)
(***************************************************************************)

HasName   == {"user", "role", "registry", "chart", "event", "host", "compose_stack",
              "vault_secret"}
HasOpt    == {"user", "registry", "chart"}
HasSecret == {"user", "registry", "host"}

\* What a form, or the code that fills it in, hands to a create or a save.
Forms(secrets) ==
    [name   : IF coll \in HasName THEN Names ELSE {Empty},
     form   : {calls + 1},
     opt    : IF coll \in HasOpt THEN {Empty, "opt"} ELSE {Empty},
     secret : IF coll \in HasSecret THEN secrets ELSE {Empty},
     status : {Empty}, note : {Empty}, owned : {Empty}, made : {0}]

Twice(rows) == \E k \in Keys : rows[k] # Nil /\ Taken(rows, k, rows[k].name)

Call(c) ==
    /\ calls < MaxCalls /\ calls' = calls + 1
    /\ bolt' = BoltRows(bolt, c) /\ mongo' = MongoRows(mongo, c)
    /\ dup' = (dup \/ Twice(bolt'))
    /\ gone' = IF c.op = "delete" THEN gone \cup {c.key}
               ELSE IF c.op = "clear" THEN gone \cup {k \in Keys : bolt[k] # Nil} ELSE gone
    /\ UNCHANGED coll

Creatable == {"user", "role", "registry", "stack", "chart", "host", "compose_stack", "version",
              "event", "backup"}

\* An id is fresh, except a stack's, which is the name the user typed.
Fresh(k) == coll = "stack" \/ (bolt[k] = Nil /\ mongo[k] = Nil /\ k \notin gone)

Create(k) ==
    /\ coll \in Creatable /\ Fresh(k)
    /\ \E row \in Forms({Empty, "old"}) :
         Call([op |-> "create", key |-> k, row |-> [row EXCEPT !.made = calls + 1]])
    /\ UNCHANGED held

\* VaultSecretBiz.Create looks for the name before it creates the entry.
CheckName(h, n) ==
    /\ coll = "vault_secret" /\ held[h] = Nil
    /\ Named(bolt, n) = {} /\ Named(mongo, n) = {}
    /\ held' = [held EXCEPT ![h] = [free |-> n]]
    /\ UNCHANGED <<coll, bolt, mongo, gone, dup, calls>>

CreateChecked(h, k) ==
    /\ coll = "vault_secret" /\ held[h] # Nil /\ Fresh(k)
    /\ Call([op |-> "create", key |-> k,
             row |-> [Blank EXCEPT !.name = held[h].free, !.form = calls + 1, !.made = calls + 1]])
    /\ held' = [held EXCEPT ![h] = Nil]

Savable == {"user", "role", "registry", "stack", "setting", "chart", "dashboard", "host",
            "compose_stack", "archive", "schedule", "vault_secret", "binding"}

Save(k) ==
    /\ coll \in Savable
    /\ \E row \in Forms({Empty, "new"}) : Call([op |-> "save", key |-> k, row |-> row])
    /\ UNCHANGED held

\* The updates of single fields.
Fields == {<<"user", "profile">>, <<"user", "password">>, <<"user", "status">>,
           <<"host", "status">>, <<"host", "own">>, <<"compose_stack", "status">>,
           <<"compose_stack", "note">>, <<"schedule", "status">>}

Values(op) ==
    [name   : IF op = "profile" THEN Names ELSE {Empty},
     opt    : IF op = "profile" THEN {Empty, "opt"} ELSE {Empty},
     secret : IF op = "password" THEN {"new"} ELSE {Empty},
     status : IF op = "status" THEN {"up", "down"} ELSE {Empty},
     note   : IF op \in {"status", "note"} THEN {Empty, "note"} ELSE {Empty},
     owned  : IF op = "own" THEN {Empty, "owned"} ELSE {Empty},
     form   : {0}, made : {0}]

UpdateField(k, op) ==
    /\ <<coll, op>> \in Fields
    /\ \E row \in Values(op) : Call([op |-> op, key |-> k, row |-> row])
    /\ UNCHANGED held

Deletable == {"user", "role", "registry", "stack", "chart", "host", "compose_stack", "backup",
              "archive", "schedule", "vault_secret", "binding"}

Delete(k) ==
    /\ coll \in Deletable /\ Call([op |-> "delete", key |-> k, row |-> Blank])
    /\ UNCHANGED held

Clear ==
    /\ coll \in {"version", "binding"} /\ Call([op |-> "clear", key |-> 1, row |-> Blank])
    /\ UNCHANGED held

\* A handler reads a row whole: the token rotator, RestoreVersion, Verify, markDeployed ...
Get(h, k) ==
    /\ coll \in {"user", "host", "compose_stack", "backup", "binding"}
    /\ held[h] = Nil /\ (bolt[k] # Nil \/ mongo[k] # Nil)
    /\ held' = [held EXCEPT ![h] = [key |-> k, bolt |-> bolt[k], mongo |-> mongo[k]]]
    /\ UNCHANGED <<coll, bolt, mongo, gone, dup, calls>>

\* ... or finds it by its name: a Keycloak sign-in.
Find(h, n) ==
    LET b == BoltFind(bolt, n) m == MongoFind(mongo, n) IN
    /\ coll = "user" /\ held[h] = Nil /\ b # Nil /\ m # Nil /\ b.key = m.key
    /\ held' = [held EXCEPT ![h] = [key |-> b.key, bolt |-> b.row, mongo |-> m.row]]
    /\ UNCHANGED <<coll, bolt, mongo, gone, dup, calls>>

\* It writes the copy back with a change of its own, whatever happened to the row since.
WriteBack(h) ==
    LET Changed(row) == [op |-> "save", key |-> held[h].key, row |-> [row EXCEPT !.form = calls + 1]] IN
    /\ coll # "vault_secret" /\ coll # "version" /\ held[h] # Nil
    /\ calls < MaxCalls /\ calls' = calls + 1
    /\ bolt' = IF held[h].bolt = Nil THEN bolt ELSE BoltRows(bolt, Changed(held[h].bolt))
    /\ mongo' = IF held[h].mongo = Nil THEN mongo ELSE MongoRows(mongo, Changed(held[h].mongo))
    /\ held' = [held EXCEPT ![h] = Nil]
    /\ dup' = (dup \/ Twice(bolt'))
    /\ UNCHANGED <<coll, gone>>

\* EventPrune, on Bolt from within a walk of the bucket: any of the expired rows go.
EventPrune ==
    /\ coll = "event" /\ calls < MaxCalls /\ calls' = calls + 1
    /\ \E end \in 1 .. calls + 1 :
         LET expired == {k \in Keys : bolt[k] # Nil /\ bolt[k].form < end} IN
         /\ expired # {}
         /\ \E ks \in SUBSET expired : bolt' = BoltDelete(bolt, ks)
         /\ mongo' = MongoDelete(mongo, expired)
         /\ gone' = gone \cup expired
    /\ UNCHANGED <<coll, held, dup>>

Newest(rows) == {k \in Keys : rows[k] # Nil /\
                   Cardinality({j \in Keys : rows[j] # Nil /\ rows[j].form > rows[k].form}) < Keep}

\* ComposeStackVersionPrune reads first - Bolt what to delete, Mongo what to keep ...
ListVersions(h) ==
    /\ coll = "version" /\ held[h] = Nil
    /\ held' = [held EXCEPT ![h] = [doomed |-> {k \in Keys : bolt[k] # Nil} \ Newest(bolt),
                                    keepers |-> Newest(mongo)]]
    /\ UNCHANGED <<coll, bolt, mongo, gone, dup, calls>>

\* ... and deletes afterwards.
PruneVersions(h) ==
    /\ coll = "version" /\ held[h] # Nil
    /\ bolt' = BoltDelete(bolt, held[h].doomed)
    /\ mongo' = MongoDelete(mongo, Keys \ held[h].keepers)
    /\ held' = [held EXCEPT ![h] = Nil]
    /\ gone' = gone \cup held[h].doomed \cup {k \in Keys : mongo[k] # Nil /\ mongo'[k] = Nil}
    /\ UNCHANGED <<coll, dup, calls>>

Init ==
    /\ coll \in Collections
    /\ bolt = [k \in Keys |-> Nil] /\ mongo = [k \in Keys |-> Nil]
    /\ held = [h \in Handlers |-> Nil]
    /\ gone = {} /\ dup = FALSE /\ calls = 0

Next ==
    \/ \E k \in Keys : Create(k) \/ Save(k) \/ Delete(k)
    \/ \E k \in Keys, op \in {f[2] : f \in Fields} : UpdateField(k, op)
    \/ \E h \in Handlers :
         \/ \E k \in Keys : Get(h, k) \/ CreateChecked(h, k)
         \/ \E n \in Names : Find(h, n) \/ CheckName(h, n)
         \/ WriteBack(h) \/ ListVersions(h) \/ PruneVersions(h)
    \/ Clear \/ EventPrune

Spec == Init /\ [][Next]_vars

-----------------------------------------------------------------------------
(***************************************************************************)
(* Properties                                                              *)
(***************************************************************************)

\* What the two engines hold alike in each collection.  They part where an update covers
\* different fields (chart options; the note of a host or a stack; all of a Swarm stack),
\* where Bolt upserts (backup, binding), where a user found by name carries fields of
\* another one, where Bolt keeps no archives and where pruning meets a write.
Common ==
    CASE coll = "chart"                     -> {"name", "form", "made"}
      [] coll \in {"host", "compose_stack"} -> {"name", "form", "opt", "secret", "status", "made"}
      [] coll = "stack"                     -> {"name", "opt"}
      [] coll = "user"                      -> {"name", "form", "secret", "status", "made"}
      [] coll = "binding"                   -> {"form", "status"}
      [] OTHER                              -> DOMAIN Blank

\* The same calls leave the same rows behind on Bolt and on Mongo, up to the fields named
\* above and unless a unique name was given away twice: code above dao.Interface need not
\* know its engine.
EnginesAgree ==
    ~dup /\ coll \notin {"archive", "version"} =>
        \A k \in Keys :
            /\ mongo[k] # Nil => bolt[k] # Nil
            /\ coll \notin {"backup", "event"} => (bolt[k] # Nil => mongo[k] # Nil)
            /\ bolt[k] # Nil /\ mongo[k] # Nil => \A f \in Common : bolt[k][f] = mongo[k][f]

\* Every page of a search, put together, is the whole answer, each row once; all charts,
\* which both engines sort by the same date, come in the same pages; and Mongo finds
\* nothing that Bolt does not, unless it takes the word typed into the search of the vault
\* for a regular expression that says more than its letters.
SearchesAgree ==
    coll \in Searchable =>
        \A w \in Words \cup {Empty}, size \in 1 .. Rows :
            LET pages == [i \in 1 .. Rows + 1 |-> BoltSearch(bolt, w, i, size)]
                all   == {k \in Keys : bolt[k] # Nil /\ BoltMatches(bolt[k], w)}
            IN  /\ coll \in {"user", "chart", "event"} =>
                     /\ UNION {Range(pages[i]) : i \in 1 .. Rows + 1} = all
                     /\ \A i, j \in 1 .. Rows + 1 : i # j => Range(pages[i]) \cap Range(pages[j]) = {}
                /\ coll = "chart" /\ w = Empty =>
                     \A i \in 1 .. Rows + 1 : pages[i] = MongoSearch(mongo, w, i, size)
                /\ ~dup /\ (coll = "vault_secret" => w \in Plain \cup {Empty}) =>
                     \A i \in 1 .. Rows : Range(MongoSearch(mongo, w, i, size)) \subseteq all

\* The collections each engine is shown to implement Store for.  Left out are those whose
\* ids the caller chooses, and those only created and pruned; on Bolt also backups, which
\* an update may bring back, and hosts, where a copy written back whole restores the
\* extract another flow has cleared meanwhile.
MongoKept == {"user", "role", "registry", "chart", "host", "compose_stack", "backup",
              "vault_secret"}
BoltKept  == MongoKept \ {"host", "backup"}

View(rows, kept) == IF coll \in kept THEN rows ELSE [k \in Keys |-> Nil]

Gone(kept) == IF coll \in kept THEN gone ELSE {}

BoltStore  == INSTANCE Store WITH rows <- View(bolt, BoltKept), gone <- Gone(BoltKept)
MongoStore == INSTANCE Store WITH rows <- View(mongo, MongoKept), gone <- Gone(MongoKept)

\* Bolt implements Store: ids are not reused, and no save, and no stale copy written
\* back, changes the creator or another flow's field or blanks a stored secret.
BoltImplementsStore == BoltStore!Spec

\* Mongo implements Store, hosts and backups included.
MongoImplementsStore == MongoStore!Spec

=============================================================================
