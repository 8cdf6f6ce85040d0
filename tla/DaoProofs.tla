------------------------------ MODULE DaoProofs ------------------------------
(* What is proved of Dao for any rows, names, handlers and number of calls:  *)
(* its types, that both engines implement Store for the collections named    *)
(* there, that they hold the same rows and that their searches agree.        *)
EXTENDS Dao, FiniteSetTheorems, WellFoundedInduction, TLAPS

-----------------------------------------------------------------------------
(* The invariant. *)

\* A row of the collection: what the collection does not store is empty.
Rec ==
  {r \in Row :
     /\ IF coll \in HasName THEN r.name \in Names ELSE r.name = Empty
     /\ coll \notin HasOpt => r.opt = Empty
     /\ coll \notin HasSecret => r.secret = Empty
     /\ coll \notin {"user", "host", "compose_stack", "schedule"} => r.status = Empty
     /\ coll \notin {"host", "compose_stack"} => r.note = Empty
     /\ coll # "host" => r.owned = Empty}

Table == [Keys -> Rec \cup {Nil}]

\* The collections whose rows a handler reads whole.
Readable == {"user", "host", "compose_stack", "backup", "binding"}

Copy == [key : Keys, bolt : Rec \cup {Nil}, mongo : Rec \cup {Nil}]

Held ==
  IF coll = "vault_secret" THEN [free : Names]
  ELSE IF coll = "version" THEN [doomed : SUBSET Keys, keepers : SUBSET Keys]
  ELSE IF coll \in Readable THEN Copy ELSE {}

DaoTypeOK ==
  /\ bolt \in Table /\ mongo \in Table
  /\ held \in [Handlers -> Held \cup {Nil}]
  /\ gone \subseteq Keys /\ dup \in BOOLEAN /\ calls \in 0 .. MaxCalls

\* Two rows that are both there have the fields in common that the engines share.
Near(b, m) == b # Nil /\ m # Nil => \A f \in Common : b[f] = m[f]

Alike(b, m) ==
  /\ m # Nil => b # Nil
  /\ coll \notin {"backup", "event"} => (b # Nil => m # Nil)
  /\ Near(b, m)

\* A backup's copy outlives its row on Bolt only, and not for an id still in use.
Backed(k) ==
  /\ k \in gone => mongo[k] = Nil
  /\ k \notin gone => (bolt[k] # Nil <=> mongo[k] # Nil)

Stems(h) ==
  held[h] # Nil /\ held[h].key \notin gone =>
    /\ held[h].bolt # Nil /\ held[h].mongo # Nil /\ mongo[held[h].key] # Nil
    /\ held[h].bolt.made = mongo[held[h].key].made

BackupsKept ==
  coll = "backup" => (\A k \in Keys : Backed(k)) /\ (\A h \in Handlers : Stems(h))

\* What the engines hold and what handlers have read from them is alike.
Paired(b, m) == \A k \in Keys : Alike(b[k], m[k])

PairedCopies ==
  coll \in Readable => \A h \in Handlers : held[h] # Nil => Alike(held[h].bolt, held[h].mongo)

EnginesInv ==
  /\ dup => coll \in UniqueNames
  /\ BackupsKept
  /\ ~dup /\ coll \notin {"archive", "version"} => Paired(bolt, mongo) /\ PairedCopies
-----------------------------------------------------------------------------
(* The calls. *)

\* What the actions hand to the engines: a collection has the calls its code has.
Legal(c) ==
  /\ c.key \in Keys
  /\ \/ c.op = "create" /\ coll \in Creatable \cup {"vault_secret"} /\ c.row \in Rec
     \/ c.op = "save" /\ coll \in Savable \cup {"backup"} /\ c.row \in Rec
     \/ <<coll, c.op>> \in Fields /\ c.row \in Values(c.op)
     \/ c.op = "delete" /\ coll \in Deletable
     \/ c.op = "clear" /\ coll \in {"version", "binding"}

LEMMA NilNoRow == Nil \notin Rec /\ Rec \subseteq Row
BY DaoAssumption DEF Rec

\* The primitives keep a table of rows.
LEMMA ReplaceTable ==
  ASSUME NEW rows \in Table, NEW k \in Keys, NEW row \in Rec
  PROVE  BoltReplace(rows, k, row) \in Table /\ MongoUpsert(rows, k, row) \in Table
BY DEF Table, BoltReplace, MongoUpsert

LEMMA CreateTable ==
  ASSUME NEW rows \in Table, NEW k \in Keys, NEW row \in Rec
  PROVE  MongoCreate(rows, k, row) \in Table
BY DEF Table, MongoCreate

LEMMA UpdateTable ==
  ASSUME NEW rows \in Table, NEW k \in Keys, NEW row, rows[k] # Nil => row \in Rec
  PROVE  BoltUpdate(rows, k, row) \in Table /\ MongoUpdate(rows, k, row) \in Table
BY DEF Table, BoltUpdate, MongoUpdate

LEMMA DeleteTable ==
  ASSUME NEW rows \in Table, NEW ks
  PROVE  BoltDelete(rows, ks) \in Table /\ MongoDelete(rows, ks) \in Table
BY DEF Table, BoltDelete, MongoDelete

LEMMA BlankRow == Blank \in Row
BY DaoAssumption DEF Blank, Row

\* What the updates of single fields carry.
LEMMA FieldValues ==
  /\ \A row \in Values("profile") : row.name \in Names /\ row.opt \in {Empty, "opt"}
  /\ \A row \in Values("password") : row.secret = "new"
  /\ \A row \in Values("status") : row.status \in {"up", "down"} /\ row.note \in {Empty, "note"}
  /\ \A row \in Values("own") : row.owned \in {Empty, "owned"}
  /\ \A row \in Values("note") : row.note \in {Empty, "note"}
BY DEF Values

-----------------------------------------------------------------------------
(* What an update does to a row, and what that does to both tables. *)

\* The creator stays, a secret is not blanked, and what another flow owns is
\* left alone unless that is all that changes.
Edits(old, new) ==
  /\ new.made = old.made
  /\ new.secret = Empty => old.secret = Empty
  /\ new.owned = old.owned \/ new = [old EXCEPT !.owned = new.owned]

\* Both engines update row k, Bolt to x and Mongo to y, if they have it.
Updated(b, m, newb, newm, k, x, y) ==
  /\ newb = BoltUpdate(b, k, x) /\ newm = MongoUpdate(m, k, y)
  /\ b[k] # Nil => x \in Rec /\ (coll \in BoltKept => Edits(b[k], x))
  /\ m[k] # Nil => y \in Rec /\ (coll \in MongoKept => Edits(m[k], y))
  /\ b[k] # Nil /\ m[k] # Nil /\ Near(b[k], m[k]) => Near(x, y)

\* Both write it whatever was there.
Replaced(b, m, newb, newm, k, x, y) ==
  /\ newb = BoltReplace(b, k, x) /\ newm = MongoUpsert(m, k, y)
  /\ x \in Rec /\ y \in Rec /\ Near(x, y)

\* One update, of which the two engines may be handed different copies.
SameCall(c, d) ==
  /\ Legal(c) /\ Legal(d) /\ c.op = d.op /\ c.key = d.key /\ Near(c.row, d.row)
  /\ c.op # "save" => c = d

\* The rows of a save are rows of the collection, and alike; the others are one row.
LEMMA SavedRows ==
  ASSUME NEW c, NEW d, SameCall(c, d), c.op = "save"
  PROVE  c.row \in Rec /\ d.row \in Rec /\ (\A f \in Common : c.row[f] = d.row[f])
<1>1. c.row \in Rec /\ d.row \in Rec
  BY DEF SameCall, Legal, Fields
<1> QED
  BY <1>1, NilNoRow DEF SameCall, Near

LEMMA FieldRows ==
  ASSUME NEW c, NEW d, SameCall(c, d), c.op \in {"profile", "password", "status", "own", "note"}
  PROVE  /\ c = d
         /\ c.op = "profile" => c.row.name \in Names /\ c.row.opt \in {Empty, "opt"}
         /\ c.op = "password" => c.row.secret = "new"
         /\ c.op = "status" => c.row.status \in {"up", "down"} /\ c.row.note \in {Empty, "note"}
         /\ c.op = "own" => c.row.owned \in {Empty, "owned"}
         /\ c.op = "note" => c.row.note \in {Empty, "note"}
BY FieldValues DEF SameCall, Legal

\* Every update is such a pair of updates, collection by collection.
LEMMA UserUpdated ==
  ASSUME NEW b \in Table, NEW m \in Table, NEW c, NEW d, SameCall(c, d), coll = "user",
         c.op \in {"save", "profile", "password", "status"}
  PROVE  \E x, y : Updated(b, m, BoltRows(b, c), MongoRows(m, d), c.key, x, y)
<1> DEFINE k == c.key
<1>k. k \in Keys /\ d.key = k /\ d.op = c.op
  BY DEF SameCall, Legal
<1>o. (b[k] # Nil => b[k] \in Rec) /\ (m[k] # Nil => m[k] \in Rec)
  BY <1>k DEF Table
<1>n. Common = {"name", "form", "secret", "status", "made"}
  BY DEF Common
<1>d. BoltRows(b, c) = BoltUser(b, c) /\ MongoRows(m, d) = MongoUser(m, d)
  BY DEF BoltRows, MongoRows
<1>1. CASE c.op = "save"
  <2> DEFINE x == [b[k] EXCEPT !.name = c.row.name, !.form = c.row.form, !.opt = c.row.opt]
  <2> DEFINE y == [m[k] EXCEPT !.name = d.row.name, !.form = d.row.form, !.opt = d.row.opt]
  <2>r. c.row \in Rec /\ d.row \in Rec /\ (\A f \in Common : c.row[f] = d.row[f])
    BY <1>1, SavedRows
  <2>1. BoltUser(b, c) = BoltUpdate(b, k, x) /\ MongoUser(m, d) = MongoUpdate(m, k, y)
    BY <1>1, <1>k DEF BoltUser, MongoUser
  <2>2. b[k] # Nil => x \in Rec /\ Edits(b[k], x)
    BY <1>o, <2>r DEF Rec, Row, HasName, HasOpt, HasSecret, Edits
  <2>3. m[k] # Nil => y \in Rec /\ Edits(m[k], y)
    BY <1>o, <2>r DEF Rec, Row, HasName, HasOpt, HasSecret, Edits
  <2>4. b[k] # Nil /\ m[k] # Nil /\ Near(b[k], m[k]) => Near(x, y)
    BY <1>o, <1>n, <2>r DEF Near, Rec, Row, HasName, HasOpt, HasSecret
  <2> HIDE DEF x, y
  <2> QED
    BY <1>d, <2>1, <2>2, <2>3, <2>4 DEF Updated
<1>2. CASE c.op = "profile"
  <2> DEFINE x == [b[k] EXCEPT !.name = c.row.name, !.opt = c.row.opt]
  <2> DEFINE y == [m[k] EXCEPT !.name = d.row.name, !.opt = d.row.opt]
  <2>r. c = d /\ c.row.name \in Names /\ c.row.opt \in {Empty, "opt"}
    BY <1>2, FieldRows
  <2>1. BoltUser(b, c) = BoltUpdate(b, k, x) /\ MongoUser(m, d) = MongoUpdate(m, k, y)
    BY <1>2, <1>k DEF BoltUser, MongoUser
  <2>2. b[k] # Nil => x \in Rec /\ Edits(b[k], x)
    BY <1>o, <2>r DEF Rec, Row, HasName, HasOpt, HasSecret, Edits
  <2>3. m[k] # Nil => y \in Rec /\ Edits(m[k], y)
    BY <1>o, <2>r DEF Rec, Row, HasName, HasOpt, HasSecret, Edits
  <2>4. b[k] # Nil /\ m[k] # Nil /\ Near(b[k], m[k]) => Near(x, y)
    BY <1>o, <1>n, <2>r DEF Near, Rec, Row, HasName, HasOpt, HasSecret
  <2> HIDE DEF x, y
  <2> QED
    BY <1>d, <2>1, <2>2, <2>3, <2>4 DEF Updated
<1>3. CASE c.op = "password"
  <2> DEFINE x == [b[k] EXCEPT !.secret = c.row.secret]
  <2> DEFINE y == [m[k] EXCEPT !.secret = d.row.secret]
  <2>r. c = d /\ c.row.secret = "new"
    BY <1>3, FieldRows
  <2>1. BoltUser(b, c) = BoltUpdate(b, k, x) /\ MongoUser(m, d) = MongoUpdate(m, k, y)
    BY <1>3, <1>k DEF BoltUser, MongoUser
  <2>2. b[k] # Nil => x \in Rec /\ Edits(b[k], x)
    BY <1>o, <2>r DEF Rec, Row, HasName, HasOpt, HasSecret, Edits, Empty
  <2>3. m[k] # Nil => y \in Rec /\ Edits(m[k], y)
    BY <1>o, <2>r DEF Rec, Row, HasName, HasOpt, HasSecret, Edits, Empty
  <2>4. b[k] # Nil /\ m[k] # Nil /\ Near(b[k], m[k]) => Near(x, y)
    BY <1>o, <1>n, <2>r DEF Near, Rec, Row, HasName, HasOpt, HasSecret
  <2> HIDE DEF x, y
  <2> QED
    BY <1>d, <2>1, <2>2, <2>3, <2>4 DEF Updated
<1>4. CASE c.op = "status"
  <2> DEFINE x == [b[k] EXCEPT !.status = c.row.status]
  <2> DEFINE y == [m[k] EXCEPT !.status = d.row.status]
  <2>r. c = d /\ c.row.status \in {"up", "down"} /\ c.row.note \in {Empty, "note"}
    BY <1>4, FieldRows
  <2>1. BoltUser(b, c) = BoltUpdate(b, k, x) /\ MongoUser(m, d) = MongoUpdate(m, k, y)
    BY <1>4, <1>k DEF BoltUser, MongoUser
  <2>2. b[k] # Nil => x \in Rec /\ Edits(b[k], x)
    BY <1>o, <2>r DEF Rec, Row, HasName, HasOpt, HasSecret, Edits
  <2>3. m[k] # Nil => y \in Rec /\ Edits(m[k], y)
    BY <1>o, <2>r DEF Rec, Row, HasName, HasOpt, HasSecret, Edits
  <2>4. b[k] # Nil /\ m[k] # Nil /\ Near(b[k], m[k]) => Near(x, y)
    BY <1>o, <1>n, <2>r DEF Near, Rec, Row, HasName, HasOpt, HasSecret
  <2> HIDE DEF x, y
  <2> QED
    BY <1>d, <2>1, <2>2, <2>3, <2>4 DEF Updated
<1> QED
  BY <1>1, <1>2, <1>3, <1>4

LEMMA RoleUpdated ==
  ASSUME NEW b \in Table, NEW m \in Table, NEW c, NEW d, SameCall(c, d), coll = "role",
         c.op = "save"
  PROVE  \E x, y : Updated(b, m, BoltRows(b, c), MongoRows(m, d), c.key, x, y)
<1> DEFINE k == c.key
<1>k. k \in Keys /\ d.key = k /\ d.op = c.op
  BY DEF SameCall, Legal
<1>o. (b[k] # Nil => b[k] \in Rec) /\ (m[k] # Nil => m[k] \in Rec)
  BY <1>k DEF Table
<1>n. Common = {"name", "form", "opt", "secret", "status", "note", "owned", "made"}
  BY DEF Common, Blank
<1>d. BoltRows(b, c) = BoltRole(b, c) /\ MongoRows(m, d) = MongoRole(m, d)
  BY DEF BoltRows, MongoRows
<1> DEFINE x == [c.row EXCEPT !.made = b[k].made]
<1> DEFINE y == [m[k] EXCEPT !.name = d.row.name, !.form = d.row.form]
<1>r. c.row \in Rec /\ d.row \in Rec /\ (\A f \in Common : c.row[f] = d.row[f])
  BY SavedRows
<1>1. BoltRole(b, c) = BoltUpdate(b, k, x) /\ MongoRole(m, d) = MongoUpdate(m, k, y)
  BY <1>k DEF BoltRole, MongoRole
<1>2. b[k] # Nil => x \in Rec /\ Edits(b[k], x)
  BY <1>o, <1>r DEF Rec, Row, HasName, HasOpt, HasSecret, Edits
<1>3. m[k] # Nil => y \in Rec /\ Edits(m[k], y)
  BY <1>o, <1>r DEF Rec, Row, HasName, HasOpt, HasSecret, Edits
<1>4. ASSUME b[k] # Nil, m[k] # Nil, Near(b[k], m[k])
      PROVE  Near(x, y)
  <2>1. /\ b[k].name = m[k].name /\ b[k].form = m[k].form /\ b[k].opt = m[k].opt
        /\ b[k].secret = m[k].secret /\ b[k].status = m[k].status /\ b[k].note = m[k].note
        /\ b[k].owned = m[k].owned /\ b[k].made = m[k].made
    BY <1>n, <1>4 DEF Near
  <2>2. /\ c.row.name = d.row.name /\ c.row.form = d.row.form /\ c.row.opt = d.row.opt
        /\ c.row.secret = d.row.secret /\ c.row.status = d.row.status /\ c.row.note = d.row.note
        /\ c.row.owned = d.row.owned /\ c.row.made = d.row.made
    BY <1>n, <1>r
  <2>3. \A r \in {b[k], m[k], c.row, d.row} :
          /\ r \in Row /\ r.opt = Empty /\ r.secret = Empty
          /\ r.status = Empty /\ r.note = Empty /\ r.owned = Empty
    BY <1>o, <1>r, <1>4 DEF Rec, HasOpt, HasSecret
  <2>4. /\ x.name = y.name /\ x.form = y.form /\ x.opt = y.opt /\ x.secret = y.secret
        /\ x.status = y.status /\ x.note = y.note /\ x.owned = y.owned /\ x.made = y.made
    BY <2>1, <2>2, <2>3 DEF Row
  <2> QED
    BY <1>n, <2>4 DEF Near
<1> HIDE DEF x, y
<1> QED
  BY <1>d, <1>1, <1>2, <1>3, <1>4 DEF Updated

LEMMA RegistryUpdated ==
  ASSUME NEW b \in Table, NEW m \in Table, NEW c, NEW d, SameCall(c, d), coll = "registry",
         c.op = "save"
  PROVE  \E x, y : Updated(b, m, BoltRows(b, c), MongoRows(m, d), c.key, x, y)
<1> DEFINE k == c.key
<1>k. k \in Keys /\ d.key = k /\ d.op = c.op
  BY DEF SameCall, Legal
<1>o. (b[k] # Nil => b[k] \in Rec) /\ (m[k] # Nil => m[k] \in Rec)
  BY <1>k DEF Table
<1>n. Common = {"name", "form", "opt", "secret", "status", "note", "owned", "made"}
  BY DEF Common, Blank
<1>d. BoltRows(b, c) = BoltRegistry(b, c) /\ MongoRows(m, d) = MongoRegistry(m, d)
  BY DEF BoltRows, MongoRows
<1> DEFINE x == [c.row EXCEPT !.made = b[k].made, !.secret = Or(@, b[k].secret)]
<1> DEFINE y == [m[k] EXCEPT !.name = d.row.name, !.form = d.row.form,
                       !.opt = d.row.opt, !.secret = Or(d.row.secret, @)]
<1>r. c.row \in Rec /\ d.row \in Rec /\ (\A f \in Common : c.row[f] = d.row[f])
  BY SavedRows
<1>1. BoltRegistry(b, c) = BoltUpdate(b, k, x) /\ MongoRegistry(m, d) = MongoUpdate(m, k, y)
  BY <1>k DEF BoltRegistry, MongoRegistry
<1>2. b[k] # Nil => x \in Rec /\ Edits(b[k], x)
  BY <1>o, <1>r DEF Rec, Row, HasName, HasOpt, HasSecret, Edits, Or
<1>3. m[k] # Nil => y \in Rec /\ Edits(m[k], y)
  BY <1>o, <1>r DEF Rec, Row, HasName, HasOpt, HasSecret, Edits, Or
<1>4. ASSUME b[k] # Nil, m[k] # Nil, Near(b[k], m[k])
      PROVE  Near(x, y)
  <2>1. /\ b[k].name = m[k].name /\ b[k].form = m[k].form /\ b[k].opt = m[k].opt
        /\ b[k].secret = m[k].secret /\ b[k].status = m[k].status /\ b[k].note = m[k].note
        /\ b[k].owned = m[k].owned /\ b[k].made = m[k].made
    BY <1>n, <1>4 DEF Near
  <2>2. /\ c.row.name = d.row.name /\ c.row.form = d.row.form /\ c.row.opt = d.row.opt
        /\ c.row.secret = d.row.secret /\ c.row.status = d.row.status /\ c.row.note = d.row.note
        /\ c.row.owned = d.row.owned /\ c.row.made = d.row.made
    BY <1>n, <1>r
  <2>3. \A r \in {b[k], m[k], c.row, d.row} :
          r \in Row /\ r.status = Empty /\ r.note = Empty /\ r.owned = Empty
    BY <1>o, <1>r, <1>4 DEF Rec
  <2>4. /\ x.name = y.name /\ x.form = y.form /\ x.opt = y.opt /\ x.secret = y.secret
        /\ x.status = y.status /\ x.note = y.note /\ x.owned = y.owned /\ x.made = y.made
    BY <2>1, <2>2, <2>3 DEF Row, Or
  <2> QED
    BY <1>n, <2>4 DEF Near
<1> HIDE DEF x, y
<1> QED
  BY <1>d, <1>1, <1>2, <1>3, <1>4 DEF Updated

LEMMA StackUpdated ==
  ASSUME NEW b \in Table, NEW m \in Table, NEW c, NEW d, SameCall(c, d), coll = "stack",
         c.op = "save"
  PROVE  \E x, y : Updated(b, m, BoltRows(b, c), MongoRows(m, d), c.key, x, y)
<1> DEFINE k == c.key
<1>k. k \in Keys /\ d.key = k /\ d.op = c.op
  BY DEF SameCall, Legal
<1>o. (b[k] # Nil => b[k] \in Rec) /\ (m[k] # Nil => m[k] \in Rec)
  BY <1>k DEF Table
<1>n. Common = {"name", "opt"}
  BY DEF Common
<1>d. BoltRows(b, c) = BoltStack(b, c) /\ MongoRows(m, d) = MongoStack(m, d)
  BY DEF BoltRows, MongoRows
<1> DEFINE x == b[k]
<1> DEFINE y == [m[k] EXCEPT !.form = d.row.form]
<1>r. c.row \in Rec /\ d.row \in Rec /\ (\A f \in Common : c.row[f] = d.row[f])
  BY SavedRows
<1>1. BoltStack(b, c) = BoltUpdate(b, k, x) /\ MongoStack(m, d) = MongoUpdate(m, k, y)
  BY <1>k DEF BoltStack, MongoStack, BoltUpdate, Table
<1>2. b[k] # Nil => x \in Rec
  BY <1>o, <1>r DEF Rec, Row, HasName, HasOpt, HasSecret
<1>3. m[k] # Nil => y \in Rec
  BY <1>o, <1>r DEF Rec, Row, HasName, HasOpt, HasSecret
<1>4. b[k] # Nil /\ m[k] # Nil /\ Near(b[k], m[k]) => Near(x, y)
  BY <1>o, <1>n, <1>r DEF Near, Rec, Row, HasName, HasOpt, HasSecret
<1> HIDE DEF x, y
<1> QED
  BY <1>d, <1>1, <1>2, <1>3, <1>4 DEF Updated, BoltKept, MongoKept

LEMMA ChartUpdated ==
  ASSUME NEW b \in Table, NEW m \in Table, NEW c, NEW d, SameCall(c, d), coll = "chart",
         c.op = "save"
  PROVE  \E x, y : Updated(b, m, BoltRows(b, c), MongoRows(m, d), c.key, x, y)
<1> DEFINE k == c.key
<1>k. k \in Keys /\ d.key = k /\ d.op = c.op
  BY DEF SameCall, Legal
<1>o. (b[k] # Nil => b[k] \in Rec) /\ (m[k] # Nil => m[k] \in Rec)
  BY <1>k DEF Table
<1>n. Common = {"name", "form", "made"}
  BY DEF Common
<1>d. BoltRows(b, c) = BoltChart(b, c) /\ MongoRows(m, d) = MongoChart(m, d)
  BY DEF BoltRows, MongoRows
<1> DEFINE x == [c.row EXCEPT !.made = b[k].made]
<1> DEFINE y == [m[k] EXCEPT !.name = d.row.name, !.form = d.row.form]
<1>r. c.row \in Rec /\ d.row \in Rec /\ (\A f \in Common : c.row[f] = d.row[f])
  BY SavedRows
<1>1. BoltChart(b, c) = BoltUpdate(b, k, x) /\ MongoChart(m, d) = MongoUpdate(m, k, y)
  BY <1>k DEF BoltChart, MongoChart
<1>2. b[k] # Nil => x \in Rec /\ Edits(b[k], x)
  BY <1>o, <1>r DEF Rec, Row, HasName, HasOpt, HasSecret, Edits
<1>3. m[k] # Nil => y \in Rec /\ Edits(m[k], y)
  BY <1>o, <1>r DEF Rec, Row, HasName, HasOpt, HasSecret, Edits
<1>4. b[k] # Nil /\ m[k] # Nil /\ Near(b[k], m[k]) => Near(x, y)
  BY <1>o, <1>n, <1>r DEF Near, Rec, Row, HasName, HasOpt, HasSecret
<1> HIDE DEF x, y
<1> QED
  BY <1>d, <1>1, <1>2, <1>3, <1>4 DEF Updated

LEMMA HostUpdated ==
  ASSUME NEW b \in Table, NEW m \in Table, NEW c, NEW d, SameCall(c, d), coll = "host",
         c.op \in {"save", "status", "own"}
  PROVE  \E x, y : Updated(b, m, BoltRows(b, c), MongoRows(m, d), c.key, x, y)
<1> DEFINE k == c.key
<1>k. k \in Keys /\ d.key = k /\ d.op = c.op
  BY DEF SameCall, Legal
<1>o. (b[k] # Nil => b[k] \in Rec) /\ (m[k] # Nil => m[k] \in Rec)
  BY <1>k DEF Table
<1>n. Common = {"name", "form", "opt", "secret", "status", "made"}
  BY DEF Common
<1>d. BoltRows(b, c) = BoltHost(b, c) /\ MongoRows(m, d) = MongoHost(m, d)
  BY DEF BoltRows, MongoRows
<1>1. CASE c.op = "save"
  <2> DEFINE x == [c.row EXCEPT !.made = b[k].made, !.status = b[k].status,
                           !.secret = Or(@, b[k].secret), !.owned = Or(@, b[k].owned)]
  <2> DEFINE y == [m[k] EXCEPT !.name = d.row.name, !.form = d.row.form,
                         !.secret = Or(d.row.secret, @)]
  <2>r. c.row \in Rec /\ d.row \in Rec /\ (\A f \in Common : c.row[f] = d.row[f])
    BY <1>1, SavedRows
  <2>1. BoltHost(b, c) = BoltUpdate(b, k, x) /\ MongoHost(m, d) = MongoUpdate(m, k, y)
    BY <1>1, <1>k DEF BoltHost, MongoHost
  <2>2. b[k] # Nil => x \in Rec
    BY <1>o, <2>r DEF Rec, Row, HasName, HasOpt, HasSecret, Or
  <2>3. m[k] # Nil => y \in Rec /\ Edits(m[k], y)
    BY <1>o, <2>r DEF Rec, Row, HasName, HasOpt, HasSecret, Edits, Or
  <2>4. ASSUME b[k] # Nil, m[k] # Nil, Near(b[k], m[k])
        PROVE  Near(x, y)
    <3>1. /\ b[k].name = m[k].name /\ b[k].form = m[k].form /\ b[k].opt = m[k].opt
          /\ b[k].secret = m[k].secret /\ b[k].status = m[k].status /\ b[k].made = m[k].made
      BY <1>n, <2>4 DEF Near
    <3>2. /\ c.row.name = d.row.name /\ c.row.form = d.row.form /\ c.row.opt = d.row.opt
          /\ c.row.secret = d.row.secret /\ c.row.status = d.row.status
          /\ c.row.made = d.row.made
      BY <1>n, <2>r
    <3>3. \A r \in {b[k], m[k], c.row, d.row} :
            r \in Row /\ r.opt = Empty
      BY <1>o, <2>r, <2>4 DEF Rec, HasOpt
    <3>4. /\ x.name = y.name /\ x.form = y.form /\ x.opt = y.opt /\ x.secret = y.secret
          /\ x.status = y.status /\ x.made = y.made
      BY <3>1, <3>2, <3>3 DEF Row, Or
    <3> QED
      BY <1>n, <3>4 DEF Near
  <2> HIDE DEF x, y
  <2> QED
    BY <1>d, <2>1, <2>2, <2>3, <2>4 DEF Updated, BoltKept, MongoKept
<1>2. CASE c.op = "status"
  <2> DEFINE x == [b[k] EXCEPT !.status = c.row.status, !.note = c.row.note]
  <2> DEFINE y == [m[k] EXCEPT !.status = d.row.status, !.note = d.row.note]
  <2>r. c = d /\ c.row.status \in {"up", "down"} /\ c.row.note \in {Empty, "note"}
    BY <1>2, FieldRows
  <2>1. BoltHost(b, c) = BoltUpdate(b, k, x) /\ MongoHost(m, d) = MongoUpdate(m, k, y)
    BY <1>2, <1>k DEF BoltHost, MongoHost
  <2>2. b[k] # Nil => x \in Rec
    BY <1>o, <2>r DEF Rec, Row, HasName, HasOpt, HasSecret
  <2>3. m[k] # Nil => y \in Rec /\ Edits(m[k], y)
    BY <1>o, <2>r DEF Rec, Row, HasName, HasOpt, HasSecret, Edits
  <2>4. b[k] # Nil /\ m[k] # Nil /\ Near(b[k], m[k]) => Near(x, y)
    BY <1>o, <1>n, <2>r DEF Near, Rec, Row, HasName, HasOpt, HasSecret
  <2> HIDE DEF x, y
  <2> QED
    BY <1>d, <2>1, <2>2, <2>3, <2>4 DEF Updated, BoltKept, MongoKept
<1>3. CASE c.op = "own"
  <2> DEFINE x == [b[k] EXCEPT !.owned = c.row.owned]
  <2> DEFINE y == [m[k] EXCEPT !.owned = d.row.owned]
  <2>r. c = d /\ c.row.owned \in {Empty, "owned"}
    BY <1>3, FieldRows
  <2>1. BoltHost(b, c) = BoltUpdate(b, k, x) /\ MongoHost(m, d) = MongoUpdate(m, k, y)
    BY <1>3, <1>k DEF BoltHost, MongoHost
  <2>2. b[k] # Nil => x \in Rec
    BY <1>o, <2>r DEF Rec, Row, HasName, HasOpt, HasSecret
  <2>3. m[k] # Nil => y \in Rec /\ Edits(m[k], y)
    BY <1>o, <2>r DEF Rec, Row, HasName, HasOpt, HasSecret, Edits
  <2>4. b[k] # Nil /\ m[k] # Nil /\ Near(b[k], m[k]) => Near(x, y)
    BY <1>o, <1>n, <2>r DEF Near, Rec, Row, HasName, HasOpt, HasSecret
  <2> HIDE DEF x, y
  <2> QED
    BY <1>d, <2>1, <2>2, <2>3, <2>4 DEF Updated, BoltKept, MongoKept
<1> QED
  BY <1>1, <1>2, <1>3

LEMMA ComposeStackUpdated ==
  ASSUME NEW b \in Table, NEW m \in Table, NEW c, NEW d, SameCall(c, d), coll = "compose_stack",
         c.op \in {"save", "status", "note"}
  PROVE  \E x, y : Updated(b, m, BoltRows(b, c), MongoRows(m, d), c.key, x, y)
<1> DEFINE k == c.key
<1>k. k \in Keys /\ d.key = k /\ d.op = c.op
  BY DEF SameCall, Legal
<1>o. (b[k] # Nil => b[k] \in Rec) /\ (m[k] # Nil => m[k] \in Rec)
  BY <1>k DEF Table
<1>n. Common = {"name", "form", "opt", "secret", "status", "made"}
  BY DEF Common
<1>d. BoltRows(b, c) = BoltComposeStack(b, c) /\ MongoRows(m, d) = MongoComposeStack(m, d)
  BY DEF BoltRows, MongoRows
<1>1. CASE c.op = "save"
  <2> DEFINE x == [c.row EXCEPT !.made = b[k].made, !.status = Or(@, b[k].status)]
  <2> DEFINE y == [m[k] EXCEPT !.name = d.row.name, !.form = d.row.form,
                         !.status = Or(d.row.status, @)]
  <2>r. c.row \in Rec /\ d.row \in Rec /\ (\A f \in Common : c.row[f] = d.row[f])
    BY <1>1, SavedRows
  <2>1. BoltComposeStack(b, c) = BoltUpdate(b, k, x) /\ MongoComposeStack(m, d) = MongoUpdate(m, k, y)
    BY <1>1, <1>k DEF BoltComposeStack, MongoComposeStack
  <2>2. b[k] # Nil => x \in Rec /\ Edits(b[k], x)
    BY <1>o, <2>r DEF Rec, Row, HasName, HasOpt, HasSecret, Edits, Or
  <2>3. m[k] # Nil => y \in Rec /\ Edits(m[k], y)
    BY <1>o, <2>r DEF Rec, Row, HasName, HasOpt, HasSecret, Edits, Or
  <2>4. ASSUME b[k] # Nil, m[k] # Nil, Near(b[k], m[k])
        PROVE  Near(x, y)
    <3>1. /\ b[k].name = m[k].name /\ b[k].form = m[k].form /\ b[k].opt = m[k].opt
          /\ b[k].secret = m[k].secret /\ b[k].status = m[k].status /\ b[k].made = m[k].made
      BY <1>n, <2>4 DEF Near
    <3>2. /\ c.row.name = d.row.name /\ c.row.form = d.row.form /\ c.row.opt = d.row.opt
          /\ c.row.secret = d.row.secret /\ c.row.status = d.row.status
          /\ c.row.made = d.row.made
      BY <1>n, <2>r
    <3>3. \A r \in {b[k], m[k], c.row, d.row} :
            r \in Row /\ r.opt = Empty /\ r.secret = Empty
      BY <1>o, <2>r, <2>4 DEF Rec, HasOpt, HasSecret
    <3>4. /\ x.name = y.name /\ x.form = y.form /\ x.opt = y.opt /\ x.secret = y.secret
          /\ x.status = y.status /\ x.made = y.made
      BY <3>1, <3>2, <3>3 DEF Row, Or
    <3> QED
      BY <1>n, <3>4 DEF Near
  <2> HIDE DEF x, y
  <2> QED
    BY <1>d, <2>1, <2>2, <2>3, <2>4 DEF Updated
<1>2. CASE c.op = "status"
  <2> DEFINE x == [b[k] EXCEPT !.status = c.row.status]
  <2> DEFINE y == [m[k] EXCEPT !.status = d.row.status]
  <2>r. c = d /\ c.row.status \in {"up", "down"} /\ c.row.note \in {Empty, "note"}
    BY <1>2, FieldRows
  <2>1. BoltComposeStack(b, c) = BoltUpdate(b, k, x) /\ MongoComposeStack(m, d) = MongoUpdate(m, k, y)
    BY <1>2, <1>k DEF BoltComposeStack, MongoComposeStack
  <2>2. b[k] # Nil => x \in Rec /\ Edits(b[k], x)
    BY <1>o, <2>r DEF Rec, Row, HasName, HasOpt, HasSecret, Edits
  <2>3. m[k] # Nil => y \in Rec /\ Edits(m[k], y)
    BY <1>o, <2>r DEF Rec, Row, HasName, HasOpt, HasSecret, Edits
  <2>4. b[k] # Nil /\ m[k] # Nil /\ Near(b[k], m[k]) => Near(x, y)
    BY <1>o, <1>n, <2>r DEF Near, Rec, Row, HasName, HasOpt, HasSecret
  <2> HIDE DEF x, y
  <2> QED
    BY <1>d, <2>1, <2>2, <2>3, <2>4 DEF Updated
<1>3. CASE c.op = "note"
  <2> DEFINE x == [b[k] EXCEPT !.note = c.row.note]
  <2> DEFINE y == [m[k] EXCEPT !.note = d.row.note]
  <2>r. c = d /\ c.row.note \in {Empty, "note"}
    BY <1>3, FieldRows
  <2>1. BoltComposeStack(b, c) = BoltUpdate(b, k, x) /\ MongoComposeStack(m, d) = MongoUpdate(m, k, y)
    BY <1>3, <1>k DEF BoltComposeStack, MongoComposeStack
  <2>2. b[k] # Nil => x \in Rec /\ Edits(b[k], x)
    BY <1>o, <2>r DEF Rec, Row, HasName, HasOpt, HasSecret, Edits
  <2>3. m[k] # Nil => y \in Rec /\ Edits(m[k], y)
    BY <1>o, <2>r DEF Rec, Row, HasName, HasOpt, HasSecret, Edits
  <2>4. b[k] # Nil /\ m[k] # Nil /\ Near(b[k], m[k]) => Near(x, y)
    BY <1>o, <1>n, <2>r DEF Near, Rec, Row, HasName, HasOpt, HasSecret
  <2> HIDE DEF x, y
  <2> QED
    BY <1>d, <2>1, <2>2, <2>3, <2>4 DEF Updated
<1> QED
  BY <1>1, <1>2, <1>3

LEMMA ScheduleUpdated ==
  ASSUME NEW b \in Table, NEW m \in Table, NEW c, NEW d, SameCall(c, d), coll = "schedule",
         c.op = "status"
  PROVE  \E x, y : Updated(b, m, BoltRows(b, c), MongoRows(m, d), c.key, x, y)
<1> DEFINE k == c.key
<1>k. k \in Keys /\ d.key = k /\ d.op = c.op
  BY DEF SameCall, Legal
<1>o. (b[k] # Nil => b[k] \in Rec) /\ (m[k] # Nil => m[k] \in Rec)
  BY <1>k DEF Table
<1>n. Common = {"name", "form", "opt", "secret", "status", "note", "owned", "made"}
  BY DEF Common, Blank
<1>d. BoltRows(b, c) = BoltSchedule(b, c) /\ MongoRows(m, d) = MongoSchedule(m, d)
  BY DEF BoltRows, MongoRows
<1> DEFINE x == [b[k] EXCEPT !.status = c.row.status]
<1> DEFINE y == [m[k] EXCEPT !.status = d.row.status]
<1>r. c = d /\ c.row.status \in {"up", "down"} /\ c.row.note \in {Empty, "note"}
  BY FieldRows
<1>1. BoltSchedule(b, c) = BoltUpdate(b, k, x) /\ MongoSchedule(m, d) = MongoUpdate(m, k, y)
  BY <1>k DEF BoltSchedule, MongoSchedule
<1>2. b[k] # Nil => x \in Rec
  BY <1>o, <1>r DEF Rec, Row, HasName, HasOpt, HasSecret
<1>3. m[k] # Nil => y \in Rec
  BY <1>o, <1>r DEF Rec, Row, HasName, HasOpt, HasSecret
<1>4. b[k] # Nil /\ m[k] # Nil /\ Near(b[k], m[k]) => Near(x, y)
  BY <1>o, <1>n, <1>r DEF Near, Rec, Row, HasName, HasOpt, HasSecret
<1> HIDE DEF x, y
<1> QED
  BY <1>d, <1>1, <1>2, <1>3, <1>4 DEF Updated, BoltKept, MongoKept

LEMMA VaultSecretUpdated ==
  ASSUME NEW b \in Table, NEW m \in Table, NEW c, NEW d, SameCall(c, d), coll = "vault_secret",
         c.op = "save"
  PROVE  \E x, y : Updated(b, m, BoltRows(b, c), MongoRows(m, d), c.key, x, y)
<1> DEFINE k == c.key
<1>k. k \in Keys /\ d.key = k /\ d.op = c.op
  BY DEF SameCall, Legal
<1>o. (b[k] # Nil => b[k] \in Rec) /\ (m[k] # Nil => m[k] \in Rec)
  BY <1>k DEF Table
<1>n. Common = {"name", "form", "opt", "secret", "status", "note", "owned", "made"}
  BY DEF Common, Blank
<1>d. BoltRows(b, c) = BoltVaultSecret(b, c) /\ MongoRows(m, d) = MongoVaultSecret(m, d)
  BY DEF BoltRows, MongoRows
<1> DEFINE x == [c.row EXCEPT !.made = b[k].made]
<1> DEFINE y == [m[k] EXCEPT !.name = d.row.name, !.form = d.row.form]
<1>r. c.row \in Rec /\ d.row \in Rec /\ (\A f \in Common : c.row[f] = d.row[f])
  BY SavedRows
<1>1. BoltVaultSecret(b, c) = BoltUpdate(b, k, x) /\ MongoVaultSecret(m, d) = MongoUpdate(m, k, y)
  BY <1>k DEF BoltVaultSecret, MongoVaultSecret
<1>2. b[k] # Nil => x \in Rec /\ Edits(b[k], x)
  BY <1>o, <1>r DEF Rec, Row, HasName, HasOpt, HasSecret, Edits
<1>3. m[k] # Nil => y \in Rec /\ Edits(m[k], y)
  BY <1>o, <1>r DEF Rec, Row, HasName, HasOpt, HasSecret, Edits
<1>4. ASSUME b[k] # Nil, m[k] # Nil, Near(b[k], m[k])
      PROVE  Near(x, y)
  <2>1. /\ b[k].name = m[k].name /\ b[k].form = m[k].form /\ b[k].opt = m[k].opt
        /\ b[k].secret = m[k].secret /\ b[k].status = m[k].status /\ b[k].note = m[k].note
        /\ b[k].owned = m[k].owned /\ b[k].made = m[k].made
    BY <1>n, <1>4 DEF Near
  <2>2. /\ c.row.name = d.row.name /\ c.row.form = d.row.form /\ c.row.opt = d.row.opt
        /\ c.row.secret = d.row.secret /\ c.row.status = d.row.status /\ c.row.note = d.row.note
        /\ c.row.owned = d.row.owned /\ c.row.made = d.row.made
    BY <1>n, <1>r
  <2>3. \A r \in {b[k], m[k], c.row, d.row} :
          /\ r \in Row /\ r.opt = Empty /\ r.secret = Empty
          /\ r.status = Empty /\ r.note = Empty /\ r.owned = Empty
    BY <1>o, <1>r, <1>4 DEF Rec, HasOpt, HasSecret
  <2>4. /\ x.name = y.name /\ x.form = y.form /\ x.opt = y.opt /\ x.secret = y.secret
        /\ x.status = y.status /\ x.note = y.note /\ x.owned = y.owned /\ x.made = y.made
    BY <2>1, <2>2, <2>3 DEF Row
  <2> QED
    BY <1>n, <2>4 DEF Near
<1> HIDE DEF x, y
<1> QED
  BY <1>d, <1>1, <1>2, <1>3, <1>4 DEF Updated

LEMMA SaveReplaced ==
  ASSUME NEW b \in Table, NEW m \in Table, NEW c, NEW d, SameCall(c, d), c.op = "save",
         coll \in {"setting", "dashboard", "schedule", "binding"}
  PROVE  \E x, y : Replaced(b, m, BoltRows(b, c), MongoRows(m, d), c.key, x, y)
<1> DEFINE k == c.key
<1>k. k \in Keys /\ d.key = k /\ d.op = c.op
  BY DEF SameCall, Legal
<1>o. m[k] # Nil => m[k] \in Rec
  BY <1>k DEF Table
<1>r. c.row \in Rec /\ d.row \in Rec /\ (\A f \in Common : c.row[f] = d.row[f])
  BY SavedRows
<1>1. CASE coll = "binding"
  <2> DEFINE y == IF m[k] = Nil THEN d.row ELSE [d.row EXCEPT !.made = m[k].made]
  <2>1. BoltRows(b, c) = BoltReplace(b, k, c.row) /\ MongoRows(m, d) = MongoUpsert(m, k, y)
    BY <1>1, <1>k DEF BoltRows, MongoRows, BoltBinding, MongoBinding
  <2>2. Common = {"form", "status"}
    BY <1>1 DEF Common
  <2>3. y \in Rec
    BY <1>1, <1>o, <1>r DEF Rec, Row, HasName, HasOpt, HasSecret
  <2>4. Near(c.row, y)
    BY <1>r, <2>2 DEF Near, Rec, Row
  <2> HIDE DEF y
  <2> QED
    BY <1>r, <2>1, <2>3, <2>4 DEF Replaced
<1>2. CASE coll \in {"setting", "dashboard", "schedule"}
  <2>1. BoltRows(b, c) = BoltReplace(b, k, c.row) /\ MongoRows(m, d) = MongoUpsert(m, k, d.row)
    BY <1>2, <1>k DEF BoltRows, MongoRows, BoltSetting, MongoSetting, BoltDashboard, MongoDashboard,
                      BoltSchedule, MongoSchedule
  <2> QED
    BY <1>r, <2>1 DEF Replaced, SameCall
<1> QED
  BY <1>1, <1>2

\* What is the same in all collections: creates, deletes and clears.
LEMMA CreateRows ==
  ASSUME NEW b, NEW m, NEW c, Legal(c), c.op = "create"
  PROVE  /\ c.key \in Keys /\ c.row \in Rec
         /\ BoltRows(b, c) = BoltReplace(b, c.key, c.row)
         /\ MongoRows(m, c) = MongoCreate(m, c.key, c.row)
<1>1. c.key \in Keys /\ c.row \in Rec /\ coll \in Creatable \cup {"vault_secret"}
  BY DEF Legal, Fields
<1> QED
  BY <1>1 DEF Creatable, BoltRows, MongoRows, BoltUser, MongoUser, BoltRole, MongoRole, BoltRegistry,
     MongoRegistry, BoltStack, MongoStack, BoltChart, MongoChart, BoltHost, MongoHost,
     BoltComposeStack, MongoComposeStack, BoltVersion, MongoVersion, BoltEvent, MongoEvent,
     BoltBackup, MongoBackup, BoltVaultSecret, MongoVaultSecret

LEMMA DeleteRows ==
  ASSUME NEW b, NEW m, NEW c, Legal(c), c.op = "delete"
  PROVE  /\ c.key \in Keys
         /\ coll # "archive" => BoltRows(b, c) = BoltDelete(b, {c.key})
         /\ coll = "archive" => BoltRows(b, c) = b
         /\ MongoRows(m, c) = MongoDelete(m, {c.key})
<1>1. c.key \in Keys /\ coll \in Deletable
  BY DEF Legal, Fields
<1> QED
  BY <1>1 DEF Deletable, BoltRows, MongoRows, BoltUser, MongoUser, BoltRole, MongoRole, BoltRegistry,
     MongoRegistry, BoltStack, MongoStack, BoltChart, MongoChart, BoltHost, MongoHost,
     BoltComposeStack, MongoComposeStack, BoltArchive, MongoArchive, BoltSchedule, MongoSchedule,
     BoltBackup, MongoBackup, BoltVaultSecret, MongoVaultSecret, BoltBinding, MongoBinding

LEMMA ClearRows ==
  ASSUME NEW b, NEW m, NEW c, Legal(c), c.op = "clear"
  PROVE  BoltRows(b, c) = BoltDelete(b, Keys) /\ MongoRows(m, c) = MongoDelete(m, Keys)
<1>1. coll \in {"version", "binding"}
  BY DEF Legal, Fields
<1> QED
  BY <1>1 DEF BoltRows, MongoRows, BoltVersion, MongoVersion, BoltBinding, MongoBinding

\* Backups and archives have saves of their own.
LEMMA BackupSave ==
  ASSUME NEW b \in Table, NEW m \in Table, NEW c, Legal(c), c.op = "save", coll = "backup"
  PROVE  /\ c.key \in Keys /\ c.row \in Rec
         /\ BoltRows(b, c) = BoltReplace(b, c.key, c.row)
         /\ MongoRows(m, c) = MongoUpdate(m, c.key, [m[c.key] EXCEPT !.form = c.row.form])
         /\ m[c.key] # Nil =>
              /\ [m[c.key] EXCEPT !.form = c.row.form] \in Rec
              /\ Edits(m[c.key], [m[c.key] EXCEPT !.form = c.row.form])
<1>1. c.key \in Keys /\ c.row \in Rec
  BY DEF Legal, Fields
<1>2. m[c.key] # Nil => m[c.key] \in Rec
  BY <1>1 DEF Table
<1>3. /\ BoltRows(b, c) = BoltReplace(b, c.key, c.row)
      /\ MongoRows(m, c) = MongoUpdate(m, c.key, [m[c.key] EXCEPT !.form = c.row.form])
  BY DEF BoltRows, MongoRows, BoltBackup, MongoBackup
<1> QED
  BY <1>1, <1>2, <1>3 DEF Edits, Rec, Row, HasName, HasOpt, HasSecret

LEMMA ArchiveSave ==
  ASSUME NEW b, NEW m, NEW c, Legal(c), c.op = "save", coll = "archive"
  PROVE  /\ c.key \in Keys /\ c.row \in Rec
         /\ BoltRows(b, c) = b /\ MongoRows(m, c) = MongoUpsert(m, c.key, c.row)
BY DEF Legal, Fields, BoltRows, MongoRows, BoltArchive, MongoArchive

\* The update calls of each collection, taken together.
LEMMA EditRows ==
  ASSUME NEW b \in Table, NEW m \in Table, NEW c, NEW d, SameCall(c, d),
         c.op \notin {"create", "delete", "clear"}, coll \notin {"archive", "backup"}
  PROVE  /\ c.key \in Keys
         /\ \E x, y : \/ Updated(b, m, BoltRows(b, c), MongoRows(m, d), c.key, x, y)
                      \/ /\ coll \notin MongoKept
                         /\ Replaced(b, m, BoltRows(b, c), MongoRows(m, d), c.key, x, y)
<1>1. c.key \in Keys
  BY DEF SameCall, Legal
<1>2. \/ coll = "user" /\ c.op \in {"save", "profile", "password", "status"}
      \/ coll \in {"role", "registry", "stack", "chart", "vault_secret"} /\ c.op = "save"
      \/ coll = "host" /\ c.op \in {"save", "status", "own"}
      \/ coll = "compose_stack" /\ c.op \in {"save", "status", "note"}
      \/ coll = "schedule" /\ c.op = "status"
      \/ coll \in {"setting", "dashboard", "schedule", "binding"} /\ c.op = "save"
  BY DEF SameCall, Legal, Fields, Savable
<1>3. CASE coll \in {"setting", "dashboard", "schedule", "binding"} /\ c.op = "save"
  BY <1>1, <1>3, SaveReplaced DEF MongoKept
<1>4. CASE coll = "user" /\ c.op \in {"save", "profile", "password", "status"}
  BY <1>1, <1>4, UserUpdated
<1>5. CASE coll = "host" /\ c.op \in {"save", "status", "own"}
  BY <1>1, <1>5, HostUpdated
<1>6. CASE coll = "compose_stack" /\ c.op \in {"save", "status", "note"}
  BY <1>1, <1>6, ComposeStackUpdated
<1>7. CASE coll = "schedule" /\ c.op = "status"
  BY <1>1, <1>7, ScheduleUpdated
<1>8. CASE coll \in {"role", "registry", "stack", "chart", "vault_secret"} /\ c.op = "save"
  BY <1>1, <1>8, RoleUpdated, RegistryUpdated, StackUpdated, ChartUpdated, VaultSecretUpdated
<1> QED
  BY <1>2, <1>3, <1>4, <1>5, <1>6, <1>7, <1>8

-----------------------------------------------------------------------------
(* What a call does to both tables. *)

LEMMA LegalTwice == ASSUME NEW c, Legal(c) PROVE SameCall(c, c)
BY DEF SameCall, Near

\* They stay tables of rows.
LEMMA RowsTable ==
  ASSUME NEW b \in Table, NEW m \in Table, NEW c, Legal(c)
  PROVE  BoltRows(b, c) \in Table /\ MongoRows(m, c) \in Table
<1>1. CASE c.op = "create"
  BY <1>1, CreateRows, ReplaceTable, CreateTable
<1>2. CASE c.op = "delete"
  <2>1. BoltRows(b, c) \in {b, BoltDelete(b, {c.key})} /\ MongoRows(m, c) = MongoDelete(m, {c.key})
    BY <1>2, DeleteRows
  <2>2. BoltDelete(b, {c.key}) \in Table /\ MongoDelete(m, {c.key}) \in Table
    BY DeleteTable
  <2> QED
    BY <2>1, <2>2
<1>3. CASE c.op = "clear"
  BY <1>3, ClearRows, DeleteTable
<1>4. CASE c.op \notin {"create", "delete", "clear"} /\ coll = "backup"
  <2>1. c.op = "save"
    BY <1>4 DEF Legal, Fields
  <2>2. c.key \in Keys /\ c.row \in Rec /\ BoltRows(b, c) = BoltReplace(b, c.key, c.row)
    BY <1>4, <2>1, BackupSave
  <2> DEFINE y == [m[c.key] EXCEPT !.form = c.row.form]
  <2>3. MongoRows(m, c) = MongoUpdate(m, c.key, y) /\ (m[c.key] # Nil => y \in Rec)
    BY <1>4, <2>1, BackupSave
  <2> HIDE DEF y
  <2>4. MongoRows(m, c) \in Table
    BY <2>2, <2>3, UpdateTable
  <2> QED
    BY <2>2, <2>4, ReplaceTable
<1>5. CASE c.op \notin {"create", "delete", "clear"} /\ coll = "archive"
  <2>1. c.op = "save"
    BY <1>5 DEF Legal, Fields
  <2> QED
    BY <1>5, <2>1, ArchiveSave, ReplaceTable
<1>6. CASE c.op \notin {"create", "delete", "clear"} /\ coll \notin {"archive", "backup"}
  <2>1. PICK x, y : \/ Updated(b, m, BoltRows(b, c), MongoRows(m, c), c.key, x, y)
                    \/ Replaced(b, m, BoltRows(b, c), MongoRows(m, c), c.key, x, y)
    BY <1>6, EditRows, LegalTwice
  <2>2. c.key \in Keys
    BY DEF Legal
  <2> QED
    BY <2>1, <2>2, UpdateTable, ReplaceTable DEF Updated, Replaced
<1> QED
  BY <1>1, <1>2, <1>3, <1>4, <1>5, <1>6

\* Rows that pair keep pairing.
LEMMA UpdatedPaired ==
  ASSUME NEW b \in Table, NEW m \in Table, NEW k \in Keys, NEW newb, NEW newm, NEW x, NEW y,
         Updated(b, m, newb, newm, k, x, y), Paired(b, m), ~Twice(newb), coll # "archive"
  PROVE  Paired(newb, newm)
<1> SUFFICES ASSUME NEW j \in Keys
             PROVE  Alike(newb[j], newm[j])
  BY DEF Paired
<1>p. \A i \in Keys : Alike(b[i], m[i])
  BY DEF Paired
<1>b. newb = (IF b[k] = Nil THEN b ELSE [b EXCEPT ![k] = x])
  BY DEF Updated, BoltUpdate
<1>1. CASE m[k] = Nil
  <2>1. newm = m
    BY <1>1 DEF Updated, MongoUpdate
  <2>2. CASE j # k
    BY <1>b, <1>p, <2>1, <2>2 DEF Table
  <2>3. CASE j = k
    BY <1>b, <1>p, <1>1, <2>1, <2>3 DEF Table, Alike, Near
  <2> QED
    BY <2>2, <2>3
<1>2. CASE m[k] # Nil
  <2>1. b[k] # Nil /\ Near(x, y) /\ x \in Rec /\ y \in Rec
    BY <1>2, <1>p DEF Alike, Updated
  <2>2. newb = [b EXCEPT ![k] = x]
    BY <1>b, <2>1
  <2>3. ~Taken(m, k, y.name)
    <3> SUFFICES ASSUME Taken(m, k, y.name)
                 PROVE  FALSE
      OBVIOUS
    <3>1. PICK i \in Keys \ {k} : m[i] # Nil /\ m[i].name = y.name
      BY DEF Taken
    <3>2. coll \in UniqueNames
      BY DEF Taken
    <3>3. "name" \in Common
      BY <3>2 DEF UniqueNames, Common, Blank
    <3>4. b[i] # Nil /\ b[i].name = m[i].name
      BY <1>p, <3>1, <3>3 DEF Alike, Near, Table, Rec, Row
    <3>5. x.name = y.name
      BY <2>1, <3>3, NilNoRow DEF Near, Rec, Row
    <3>6. newb[k] # Nil /\ newb[i] # Nil /\ newb[i].name = newb[k].name
      BY <2>1, <2>2, <3>1, <3>4, <3>5, NilNoRow DEF Table
    <3> QED
      BY <3>1, <3>2, <3>6 DEF Twice, Taken
  <2>4. newm = [m EXCEPT ![k] = y]
    BY <1>2, <2>3 DEF Updated, MongoUpdate
  <2>5. CASE j # k
    BY <1>p, <2>2, <2>4, <2>5 DEF Table
  <2>6. CASE j = k
    BY <2>1, <2>2, <2>4, <2>6, NilNoRow DEF Table, Alike
  <2> QED
    BY <2>5, <2>6
<1> QED
  BY <1>1, <1>2

LEMMA ReplacedPaired ==
  ASSUME NEW b \in Table, NEW m \in Table, NEW k \in Keys, NEW newb, NEW newm, NEW x, NEW y,
         Replaced(b, m, newb, newm, k, x, y), Paired(b, m)
  PROVE  Paired(newb, newm)
<1> SUFFICES ASSUME NEW j \in Keys
             PROVE  Alike(newb[j], newm[j])
  BY DEF Paired
<1>1. newb = [b EXCEPT ![k] = x] /\ newm = [m EXCEPT ![k] = y]
  BY DEF Replaced, BoltReplace, MongoUpsert
<1>2. CASE j # k
  BY <1>1, <1>2 DEF Table, Paired
<1>3. CASE j = k
  BY <1>1, <1>3, NilNoRow DEF Table, Alike, Replaced
<1> QED
  BY <1>2, <1>3

\* A new row is written by both, or its name is taken; a stack's id may be there.
LEMMA CreatedPaired ==
  ASSUME NEW b \in Table, NEW m \in Table, NEW k \in Keys, NEW x \in Rec,
         coll = "stack" \/ (b[k] = Nil /\ m[k] = Nil),
         Paired(b, m), ~Twice(BoltReplace(b, k, x)), coll # "archive"
  PROVE  Paired(BoltReplace(b, k, x), MongoCreate(m, k, x))
<1> DEFINE newb == [b EXCEPT ![k] = x]
<1> SUFFICES ASSUME NEW j \in Keys
             PROVE  Alike(newb[j], MongoCreate(m, k, x)[j])
  BY DEF Paired, BoltReplace
<1>p. \A i \in Keys : Alike(b[i], m[i])
  BY DEF Paired
<1>1. ~Taken(m, k, x.name)
  <2> SUFFICES ASSUME Taken(m, k, x.name)
               PROVE  FALSE
    OBVIOUS
  <2>1. PICK i \in Keys \ {k} : m[i] # Nil /\ m[i].name = x.name
    BY DEF Taken
  <2>2. coll \in UniqueNames
    BY DEF Taken
  <2>3. "name" \in Common
    BY <2>2 DEF UniqueNames, Common, Blank
  <2>4. b[i] # Nil /\ b[i].name = m[i].name
    BY <1>p, <2>1, <2>3 DEF Alike, Near, Table, Rec, Row
  <2>5. newb[k] # Nil /\ newb[i] # Nil /\ newb[i].name = newb[k].name
    BY <2>1, <2>4, NilNoRow DEF Table
  <2> QED
    BY <2>1, <2>2, <2>5 DEF Twice, Taken, BoltReplace
<1>2. CASE j # k
  BY <1>p, <1>2 DEF MongoCreate, Table
<1>3. CASE j = k /\ m[k] = Nil
  BY <1>1, <1>3, NilNoRow DEF MongoCreate, Table, Alike, Near
<1>4. CASE j = k /\ m[k] # Nil
  <2>1. MongoCreate(m, k, x)[j] = m[k] /\ newb[j] = x
    BY <1>4 DEF MongoCreate, Table
  <2>2. coll = "stack" /\ Common = {"name", "opt"}
    BY <1>4 DEF Common
  <2>3. m[k] \in Rec
    BY <1>4 DEF Table
  <2> QED
    BY <2>1, <2>2, <2>3, NilNoRow DEF Alike, Near, Rec, Row, HasName, HasOpt
<1> QED
  BY <1>2, <1>3, <1>4

LEMMA DeletedPaired ==
  ASSUME NEW b, NEW m, NEW ks, Paired(b, m)
  PROVE  Paired(BoltDelete(b, ks), MongoDelete(m, ks))
BY DEF Paired, BoltDelete, MongoDelete, Alike, Near

-----------------------------------------------------------------------------
(* Types. *)

\* A set of ids has a least and a greatest.
LEMMA LeastKey ==
  ASSUME NEW S \in SUBSET Keys, S # {}
  PROVE  \E k \in S : \A j \in S : k <= j
<1> DEFINE R == OpToRel(<, Nat)
<1>1. S \subseteq Nat
  BY DaoAssumption DEF Keys
<1>2. PICK k \in S : \A j \in S : ~(<<j, k>> \in R)
  BY <1>1, NatLessThanWellFounded, WFMin
<1>3. \A y \in Nat, z \in Nat : y < z => <<y, z>> \in R
  BY DEF OpToRel
<1> HIDE DEF R
<1>4. ASSUME NEW j \in S  PROVE k <= j
  <2>1. j \in Nat /\ k \in Nat
    BY <1>1
  <2>2. ~(j < k)
    BY <1>2, <1>3, <2>1
  <2> QED
    BY <2>1, <2>2
<1> QED
  BY <1>4

LEMMA GreatestOf ==
  ASSUME NEW n \in Nat, NEW S \in SUBSET (1 .. n), S # {}
  PROVE  \E j \in S : \A i \in S : i <= j
<1> DEFINE T == {n - i : i \in S}
           R == OpToRel(<, Nat)
<1>1. \A i \in S : i \in Nat /\ i <= n /\ n - i \in Nat
  OBVIOUS
<1>2. T \subseteq Nat /\ T # {}
  BY <1>1
<1>3. PICK x \in T : \A y \in T : ~(<<y, x>> \in R)
  BY <1>2, NatLessThanWellFounded, WFMin
<1>4. \A y \in Nat, z \in Nat : y < z => <<y, z>> \in R
  BY DEF OpToRel
<1> HIDE DEF R
<1>5. PICK j \in S : x = n - j
  OBVIOUS
<1>6. ASSUME NEW i \in S  PROVE i <= j
  <2>1. ~(n - i < n - j)
    BY <1>2, <1>3, <1>4, <1>5
  <2> QED
    BY <1>1, <2>1
<1> QED
  BY <1>6

\* What depends on the collection stays, as the collection does.
LEMMA SameColl ==
  ASSUME coll' = coll
  PROVE  Rec' = Rec /\ Table' = Table /\ Copy' = Copy /\ Held' = Held /\ Common' = Common
<1>1. Rec' = Rec
  BY DEF Rec
<1>2. Table' = Table /\ Copy' = Copy
  BY <1>1 DEF Table, Copy
<1>3. Held' = Held
  BY <1>2 DEF Held
<1> QED
  BY <1>1, <1>2, <1>3 DEF Common

\* Forms are rows of the collection; so is what a field's update carries a row.
LEMMA FormRows ==
  ASSUME DaoTypeOK, calls < MaxCalls, NEW secrets \in SUBSET {Empty, "old", "new"},
         NEW row \in Forms(secrets), NEW n \in 0 .. MaxCalls
  PROVE  /\ row \in Rec /\ [row EXCEPT !.made = n] \in Rec
         /\ row.form = calls + 1
<1>1. calls + 1 \in 0 .. MaxCalls
  BY DaoAssumption DEF DaoTypeOK
<1>2. /\ row \in Row
      /\ IF coll \in HasName THEN row.name \in Names ELSE row.name = Empty
      /\ coll \notin HasOpt => row.opt = Empty
      /\ coll \notin HasSecret => row.secret = Empty
      /\ row.status = Empty /\ row.note = Empty /\ row.owned = Empty
      /\ row.form = calls + 1
  BY <1>1, DaoAssumption DEF Forms, Row
<1> QED
  BY <1>2 DEF Rec, Row

\* The actions, each as the calls it makes.
LEMMA CreateCalls ==
  ASSUME DaoTypeOK, NEW k \in Keys, Create(k)
  PROVE  \E c : Legal(c) /\ Call(c) /\ c.op = "create" /\ c.key = k /\ Fresh(k) /\ held' = held
<1>1. PICK row \in Forms({Empty, "old"}) :
        Call([op |-> "create", key |-> k, row |-> [row EXCEPT !.made = calls + 1]])
  BY DEF Create
<1>2. calls < MaxCalls
  BY <1>1 DEF Call
<1>3. calls + 1 \in 0 .. MaxCalls
  BY <1>2, DaoAssumption DEF DaoTypeOK
<1>4. [row EXCEPT !.made = calls + 1] \in Rec
  BY <1>2, <1>3, FormRows
<1> DEFINE c == [op |-> "create", key |-> k, row |-> [row EXCEPT !.made = calls + 1]]
<1>5. Legal(c) /\ c.op = "create" /\ c.key = k
  BY <1>4 DEF Legal, Create
<1>6. Call(c)
  BY <1>1
<1> HIDE DEF c
<1> QED
  BY <1>5, <1>6 DEF Create

LEMMA CheckedCalls ==
  ASSUME DaoTypeOK, NEW h \in Handlers, NEW k \in Keys, CreateChecked(h, k)
  PROVE  /\ \E c : Legal(c) /\ Call(c) /\ c.op = "create" /\ c.key = k /\ Fresh(k)
         /\ coll = "vault_secret" /\ held' = [held EXCEPT ![h] = Nil]
<1> DEFINE new == [Blank EXCEPT !.name = held[h].free, !.form = calls + 1, !.made = calls + 1]
           c == [op |-> "create", key |-> k, row |-> new]
<1>1. Call(c) /\ coll = "vault_secret" /\ held[h] # Nil
  BY DEF CreateChecked
<1>2. calls + 1 \in 0 .. MaxCalls
  BY <1>1, DaoAssumption DEF DaoTypeOK, Call
<1>3. held[h].free \in Names
  BY <1>1 DEF DaoTypeOK, Held
<1>4. /\ Blank.opt = Empty /\ Blank.secret = Empty /\ Blank.status = Empty
      /\ Blank.note = Empty /\ Blank.owned = Empty
  BY DEF Blank
<1>5. new \in Rec
  BY <1>1, <1>2, <1>3, <1>4, BlankRow DEF Rec, Row, HasName
<1>6. Legal(c) /\ c.op = "create" /\ c.key = k
  BY <1>1, <1>5 DEF Legal
<1> HIDE DEF c
<1> QED
  BY <1>1, <1>6 DEF CreateChecked

LEMMA SaveCalls ==
  ASSUME DaoTypeOK, NEW k \in Keys, Save(k)
  PROVE  \E c : Legal(c) /\ Call(c) /\ c.op = "save" /\ c.key = k /\ coll \in Savable /\ held' = held
<1>1. PICK row \in Forms({Empty, "new"}) : Call([op |-> "save", key |-> k, row |-> row])
  BY DEF Save
<1>2. row \in Rec
  <2>1. calls < MaxCalls /\ 0 \in 0 .. MaxCalls
    BY <1>1, DaoAssumption DEF Call
  <2>2. {Empty, "new"} \in SUBSET {Empty, "old", "new"}
    OBVIOUS
  <2> QED
    BY <2>1, <2>2, FormRows
<1> DEFINE c == [op |-> "save", key |-> k, row |-> row]
<1>3. Legal(c) /\ c.op = "save" /\ c.key = k /\ Call(c)
  BY <1>1, <1>2 DEF Legal, Save
<1> HIDE DEF c
<1> QED
  BY <1>3 DEF Save

LEMMA FieldCalls ==
  ASSUME DaoTypeOK, NEW k \in Keys, NEW op, UpdateField(k, op)
  PROVE  \E c : /\ Legal(c) /\ Call(c) /\ c.op = op /\ c.key = k /\ held' = held
                /\ <<coll, op>> \in Fields
<1>1. PICK row \in Values(op) : Call([op |-> op, key |-> k, row |-> row])
  BY DEF UpdateField
<1> DEFINE c == [op |-> op, key |-> k, row |-> row]
<1>2. Legal(c) /\ c.op = op /\ c.key = k /\ Call(c)
  BY <1>1 DEF Legal, UpdateField
<1> HIDE DEF c
<1> QED
  BY <1>2 DEF UpdateField

LEMMA DeleteCalls ==
  ASSUME NEW k \in Keys, Delete(k)
  PROVE  \E c : Legal(c) /\ Call(c) /\ c.op = "delete" /\ c.key = k /\ held' = held
<1> DEFINE c == [op |-> "delete", key |-> k, row |-> Blank]
<1>1. Legal(c) /\ c.op = "delete" /\ c.key = k /\ Call(c)
  BY DEF Legal, Delete
<1> HIDE DEF c
<1> QED
  BY <1>1 DEF Delete

LEMMA ClearCalls ==
  ASSUME Clear
  PROVE  \E c : Legal(c) /\ Call(c) /\ c.op = "clear" /\ held' = held /\ coll \in {"version", "binding"}
<1> DEFINE c == [op |-> "clear", key |-> 1, row |-> Blank]
<1>0. 1 \in Keys
  BY DaoAssumption DEF Keys
<1>1. Legal(c) /\ c.op = "clear" /\ Call(c)
  BY <1>0 DEF Legal, Clear
<1> HIDE DEF c
<1> QED
  BY <1>1 DEF Clear

\* A call is well typed.
LEMMA CallType ==
  ASSUME DaoTypeOK, NEW c, Legal(c), Call(c)
  PROVE  /\ bolt' \in Table /\ mongo' \in Table
         /\ gone' \subseteq Keys /\ dup' \in BOOLEAN /\ calls' \in 0 .. MaxCalls
<1>1. bolt' \in Table /\ mongo' \in Table
  BY RowsTable DEF DaoTypeOK, Call
<1>2. calls' \in 0 .. MaxCalls
  BY DaoAssumption DEF DaoTypeOK, Call
<1>3. c.key \in Keys
  BY DEF Legal
<1>4. gone' \subseteq Keys
  BY <1>3 DEF DaoTypeOK, Call
<1>5. dup' \in BOOLEAN
  BY DEF DaoTypeOK, Call, Twice
<1> QED
  BY <1>1, <1>2, <1>4, <1>5

\* What a handler reads or finds is a copy; only a user's opt may be another row's.
LEMMA GetCopy ==
  ASSUME DaoTypeOK, NEW h \in Handlers, NEW k \in Keys, Get(h, k)
  PROVE  held'[h] \in Copy /\ coll \in Readable
BY DEF DaoTypeOK, Get, Table, Copy, Readable

LEMMA FindCopy ==
  ASSUME DaoTypeOK, NEW h \in Handlers, NEW n \in Names, Find(h, n)
  PROVE  /\ coll = "user" /\ held'[h] \in Copy
         /\ held'[h].bolt # Nil /\ held'[h].mongo # Nil
         /\ \E k \in Keys : /\ bolt[k] # Nil /\ mongo[k] # Nil /\ held'[h].mongo = mongo[k]
                            /\ \E o : held'[h].bolt = [bolt[k] EXCEPT !.opt = o]
<1> DEFINE b == BoltFind(bolt, n)
           m == MongoFind(mongo, n)
           Least(S) == CHOOSE k \in S : \A j \in S : k <= j
           k == Least(Named(bolt, n))
           o == Left(bolt, k, "opt")
<1>1. coll = "user" /\ b # Nil /\ m # Nil /\ b.key = m.key
  BY DEF Find
<1>2. held'[h] = [key |-> b.key, bolt |-> b.row, mongo |-> m.row]
  BY DEF Find, DaoTypeOK
<1>3. Named(bolt, n) # {} /\ Named(mongo, n) # {}
  BY <1>1 DEF BoltFind, MongoFind
<1>4. k \in Named(bolt, n) /\ Least(Named(mongo, n)) \in Named(mongo, n)
  BY <1>3, LeastKey DEF Named
<1>5. b.key = k /\ b.row = [bolt[k] EXCEPT !.opt = o, !.secret = @]
  BY <1>1, <1>3 DEF BoltFind
<1>6. m.key = Least(Named(mongo, n)) /\ m.row = mongo[Least(Named(mongo, n))]
  BY <1>3 DEF MongoFind
<1>7. Least(Named(mongo, n)) = k
  BY <1>1, <1>5, <1>6
<1>8. k \in Keys /\ bolt[k] # Nil /\ mongo[k] # Nil /\ bolt[k] \in Rec /\ mongo[k] \in Rec
  BY <1>4, <1>7 DEF Named, DaoTypeOK, Table
<1>9. o \in {Empty, "opt"}
  <2> DEFINE S == Before(bolt, k, "opt")
             j == CHOOSE i \in S : \A i2 \in S : i2 <= i
  <2>1. CASE S = {}
    BY <2>1 DEF Left
  <2>2. CASE S # {}
    <3>1. k \in Nat /\ S \in SUBSET (1 .. k) /\ k <= Rows
      BY <1>8, DaoAssumption DEF Before, Keys
    <3>2. j \in S
      BY <2>2, <3>1, GreatestOf
    <3>3. j \in Keys /\ bolt[j] # Nil
      BY <1>8, <3>1, <3>2, DaoAssumption DEF Before, Keys
    <3>4. bolt[j].opt \in {Empty, "opt"}
      BY <3>3 DEF DaoTypeOK, Table, Rec, Row
    <3>5. o = bolt[j]["opt"]
      BY <2>2 DEF Left
    <3> QED
      BY <3>4, <3>5
  <2> QED
    BY <2>1, <2>2
<1> HIDE DEF o, k
<1>10. [bolt[k] EXCEPT !.opt = o] \in Rec
  BY <1>1, <1>8, <1>9 DEF Rec, Row, HasName, HasOpt, HasSecret
<1>11. b.row = [bolt[k] EXCEPT !.opt = o]
  BY <1>5, <1>8 DEF Rec, Row
<1>12. held'[h] = [key |-> k, bolt |-> [bolt[k] EXCEPT !.opt = o], mongo |-> mongo[k]]
  BY <1>2, <1>5, <1>6, <1>7, <1>11
<1>13. held'[h] \in Copy
  BY <1>8, <1>10, <1>12 DEF Copy
<1>14. held'[h].bolt = [bolt[k] EXCEPT !.opt = o] /\ held'[h].mongo = mongo[k]
  BY <1>12
<1>15. held'[h].bolt # Nil /\ held'[h].mongo # Nil
  BY <1>8, <1>10, <1>14, NilNoRow
<1> QED
  BY <1>1, <1>8, <1>13, <1>14, <1>15

\* The handlers' own steps.
LEMMA HeldStep ==
  ASSUME DaoTypeOK, NEW h \in Handlers,
         \/ \E k \in Keys : Get(h, k)
         \/ \E n \in Names : Find(h, n) \/ CheckName(h, n)
         \/ ListVersions(h)
  PROVE  /\ held'[h] \in Held /\ held' = [held EXCEPT ![h] = held'[h]]
         /\ UNCHANGED <<coll, bolt, mongo, gone, dup, calls>>
<1>h. held \in [Handlers -> Held \cup {Nil}]
  BY DEF DaoTypeOK
<1>1. CASE \E k \in Keys : Get(h, k)
  <2>1. PICK k \in Keys : Get(h, k)
    BY <1>1
  <2>2. held'[h] \in Copy /\ coll \in Readable
    BY <2>1, GetCopy
  <2>3. /\ held' = [held EXCEPT ![h] = held'[h]]
        /\ UNCHANGED <<coll, bolt, mongo, gone, dup, calls>>
    BY <1>h, <2>1 DEF Get
  <2> QED
    BY <2>2, <2>3 DEF Held, Readable
<1>2. CASE \E n \in Names : Find(h, n)
  <2>1. PICK n \in Names : Find(h, n)
    BY <1>2
  <2>2. held'[h] \in Copy /\ coll = "user"
    BY <2>1, FindCopy
  <2>3. /\ held' = [held EXCEPT ![h] = held'[h]]
        /\ UNCHANGED <<coll, bolt, mongo, gone, dup, calls>>
    BY <1>h, <2>1 DEF Find
  <2> QED
    BY <2>2, <2>3 DEF Held, Readable
<1>3. CASE \E n \in Names : CheckName(h, n)
  BY <1>h, <1>3 DEF CheckName, Held
<1>4. CASE ListVersions(h)
  <2>1. held' = [held EXCEPT ![h] = [doomed |-> {k \in Keys : bolt[k] # Nil} \ Newest(bolt),
                                     keepers |-> Newest(mongo)]]
    BY <1>4 DEF ListVersions
  <2>2. Newest(mongo) \subseteq Keys
    BY DEF Newest
  <2>3. held'[h] \in [doomed : SUBSET Keys, keepers : SUBSET Keys]
    BY <1>h, <2>1, <2>2
  <2>4. coll = "version" /\ UNCHANGED <<coll, bolt, mongo, gone, dup, calls>>
    BY <1>4 DEF ListVersions
  <2> QED
    BY <1>h, <2>1, <2>3, <2>4 DEF Held
<1> QED
  BY <1>1, <1>2, <1>3, <1>4

\* The calls a handler makes to write its copy back.
Back(row, k) == [op |-> "save", key |-> k, row |-> [row EXCEPT !.form = calls + 1]]

LEMMA BackLegal ==
  ASSUME DaoTypeOK, NEW h \in Handlers, WriteBack(h)
  PROVE  /\ coll \in Readable /\ held[h] \in Copy /\ held[h].key \in Keys
         /\ calls' = calls + 1 /\ calls' \in 0 .. MaxCalls
         /\ \A row \in Rec : /\ Legal(Back(row, held[h].key))
                             /\ [row EXCEPT !.form = calls + 1] \in Rec
         /\ bolt' = IF held[h].bolt = Nil THEN bolt
                    ELSE BoltRows(bolt, Back(held[h].bolt, held[h].key))
         /\ mongo' = IF held[h].mongo = Nil THEN mongo
                     ELSE MongoRows(mongo, Back(held[h].mongo, held[h].key))
         /\ UNCHANGED <<coll, gone>> /\ held' = [held EXCEPT ![h] = Nil]
         /\ dup' = (dup \/ Twice(bolt'))
<1>1. coll \in Readable /\ held[h] \in Copy
  BY DEF WriteBack, DaoTypeOK, Held
<1>2. held[h].key \in Keys
  BY <1>1 DEF Copy
<1>3. calls + 1 \in 0 .. MaxCalls /\ calls' = calls + 1
  BY DaoAssumption DEF WriteBack, DaoTypeOK
<1>4. ASSUME NEW row \in Rec
      PROVE  [row EXCEPT !.form = calls + 1] \in Rec
  BY <1>3 DEF Rec, Row
<1>5. ASSUME NEW row \in Rec
      PROVE  Legal(Back(row, held[h].key))
  BY <1>1, <1>2, <1>4, <1>5 DEF Legal, Back, Readable, Savable
<1> QED
  BY <1>1, <1>2, <1>3, <1>4, <1>5 DEF WriteBack, Back

LEMMA TypeInit == Init => DaoTypeOK
<1> SUFFICES ASSUME Init
             PROVE  DaoTypeOK
  OBVIOUS
<1>1. bolt \in Table /\ mongo \in Table /\ held \in [Handlers -> Held \cup {Nil}]
  BY DEF Init, Table
<1>2. gone \subseteq Keys /\ calls \in 0 .. MaxCalls
  BY DaoAssumption DEF Init
<1>3. dup \in BOOLEAN
  BY DEF Init
<1> QED
  BY <1>1, <1>2, <1>3 DEF DaoTypeOK

LEMMA TypeStep == DaoTypeOK /\ [Next]_vars => DaoTypeOK' /\ coll' = coll
<1> SUFFICES ASSUME DaoTypeOK, [Next]_vars
             PROVE  DaoTypeOK' /\ coll' = coll
  OBVIOUS
<1>h. held \in [Handlers -> Held \cup {Nil}]
  BY DEF DaoTypeOK
<1>1. ASSUME NEW c, Legal(c), Call(c), held' = held
      PROVE  DaoTypeOK' /\ coll' = coll
  <2>1. coll' = coll
    BY <1>1 DEF Call
  <2> QED
    BY <1>1, <1>h, <2>1, CallType, SameColl DEF DaoTypeOK
<1>2. ASSUME NEW k \in Keys, Create(k) \/ Save(k) \/ Delete(k)
      PROVE  DaoTypeOK' /\ coll' = coll
  BY <1>1, <1>2, CreateCalls, SaveCalls, DeleteCalls
<1>3. ASSUME NEW k \in Keys, NEW op, UpdateField(k, op)
      PROVE  DaoTypeOK' /\ coll' = coll
  BY <1>1, <1>3, FieldCalls
<1>4. CASE Clear
  BY <1>1, <1>4, ClearCalls
<1>5. ASSUME NEW h \in Handlers, NEW k \in Keys, CreateChecked(h, k)
      PROVE  DaoTypeOK' /\ coll' = coll
  <2>1. PICK c : Legal(c) /\ Call(c)
    BY <1>5, CheckedCalls
  <2>2. coll' = coll
    BY <2>1 DEF Call
  <2>3. held' \in [Handlers -> Held \cup {Nil}]
    BY <1>5, <1>h, CheckedCalls
  <2> QED
    BY <2>1, <2>2, <2>3, CallType, SameColl DEF DaoTypeOK
<1>6. ASSUME NEW h \in Handlers,
             \/ \E k \in Keys : Get(h, k)
             \/ \E n \in Names : Find(h, n) \/ CheckName(h, n)
             \/ ListVersions(h)
      PROVE  DaoTypeOK' /\ coll' = coll
  <2>1. /\ held'[h] \in Held /\ held' = [held EXCEPT ![h] = held'[h]]
        /\ UNCHANGED <<coll, bolt, mongo, gone, dup, calls>>
    BY <1>6, HeldStep
  <2>2. held' \in [Handlers -> Held \cup {Nil}]
    BY <1>h, <2>1
  <2> QED
    BY <2>1, <2>2, SameColl DEF DaoTypeOK
<1>7. ASSUME NEW h \in Handlers, WriteBack(h)
      PROVE  DaoTypeOK' /\ coll' = coll
  <2>1. coll' = coll /\ calls' \in 0 .. MaxCalls /\ gone' = gone
    BY <1>7, BackLegal
  <2>2. held[h] \in Copy
    BY <1>7, BackLegal
  <2>3. bolt' \in Table
    <3>1. CASE held[h].bolt = Nil
      BY <1>7, <3>1, BackLegal DEF DaoTypeOK
    <3>2. CASE held[h].bolt # Nil
      <4>1. held[h].bolt \in Rec
        BY <2>2, <3>2 DEF Copy
      <4>2. /\ Legal(Back(held[h].bolt, held[h].key))
            /\ bolt' = BoltRows(bolt, Back(held[h].bolt, held[h].key))
        BY <1>7, <3>2, <4>1, BackLegal
      <4> QED
        BY <4>2, RowsTable DEF DaoTypeOK
    <3> QED
      BY <3>1, <3>2
  <2>4. mongo' \in Table
    <3>1. CASE held[h].mongo = Nil
      BY <1>7, <3>1, BackLegal DEF DaoTypeOK
    <3>2. CASE held[h].mongo # Nil
      <4>1. held[h].mongo \in Rec
        BY <2>2, <3>2 DEF Copy
      <4>2. /\ Legal(Back(held[h].mongo, held[h].key))
            /\ mongo' = MongoRows(mongo, Back(held[h].mongo, held[h].key))
        BY <1>7, <3>2, <4>1, BackLegal
      <4> QED
        BY <4>2, RowsTable DEF DaoTypeOK
    <3> QED
      BY <3>1, <3>2
  <2>5. held' \in [Handlers -> Held \cup {Nil}] /\ dup' \in BOOLEAN
    BY <1>7, <1>h, BackLegal DEF DaoTypeOK, Twice
  <2> QED
    BY <2>1, <2>3, <2>4, <2>5, SameColl DEF DaoTypeOK
<1>8. CASE EventPrune
  <2>1. PICK end \in 1 .. calls + 1 :
          /\ \E ks : bolt' = BoltDelete(bolt, ks)
          /\ \E expired \in SUBSET Keys : mongo' = MongoDelete(mongo, expired) /\ gone' = gone \cup expired
    BY <1>8 DEF EventPrune
  <2>2. calls' \in 0 .. MaxCalls
    BY <1>8, DaoAssumption DEF EventPrune, DaoTypeOK
  <2>3. bolt' \in Table /\ mongo' \in Table /\ gone' \subseteq Keys
    BY <2>1, DeleteTable DEF DaoTypeOK
  <2>4. UNCHANGED <<coll, held, dup>>
    BY <1>8 DEF EventPrune
  <2> QED
    BY <1>h, <2>2, <2>3, <2>4, SameColl DEF DaoTypeOK
<1>9. ASSUME NEW h \in Handlers, PruneVersions(h)
      PROVE  DaoTypeOK' /\ coll' = coll
  <2>1. held[h] \in [doomed : SUBSET Keys, keepers : SUBSET Keys]
    BY <1>9, <1>h DEF PruneVersions, Held
  <2>2. bolt' \in Table /\ mongo' \in Table
    BY <1>9, DeleteTable DEF PruneVersions, DaoTypeOK
  <2>3. gone' \subseteq Keys
    BY <1>9, <2>1 DEF PruneVersions, DaoTypeOK
  <2>4. held' \in [Handlers -> Held \cup {Nil}] /\ UNCHANGED <<coll, dup, calls>>
    BY <1>9, <1>h DEF PruneVersions
  <2> QED
    BY <2>2, <2>3, <2>4, SameColl DEF DaoTypeOK
<1>10. CASE UNCHANGED vars
  BY <1>10, SameColl DEF vars, DaoTypeOK
<1> QED
  BY <1>2, <1>3, <1>4, <1>5, <1>6, <1>7, <1>8, <1>9, <1>10 DEF Next

\* Whatever is called, the tables hold rows of the collection and nothing else: what a
\* collection does not store is empty, and handlers hold copies of rows.
THEOREM DaoTypeCorrect == Spec => []DaoTypeOK
<1>1. DaoTypeOK /\ [Next]_vars => DaoTypeOK'
  BY TypeStep
<1> QED
  BY <1>1, TypeInit, PTL DEF Spec

-----------------------------------------------------------------------------
(* The engines hold the same rows. *)

\* Alike rows stay alike while the collection stays, which it does.
LEMMA SameAlike ==
  ASSUME coll' = coll
  PROVE  /\ Paired(bolt, mongo)' <=> Paired(bolt', mongo')
         /\ held' = held => (PairedCopies' <=> PairedCopies)
<1>1. Common' = Common
  BY SameColl
<1> QED
  BY <1>1 DEF Paired, PairedCopies, Alike, Near, Readable

LEMMA CallPaired ==
  ASSUME DaoTypeOK, NEW c, Legal(c), Call(c), c.op = "create" => Fresh(c.key),
         c.op = "save" => coll # "backup",
         coll \notin {"archive", "version"}, ~dup', Paired(bolt, mongo)
  PROVE  Paired(bolt', mongo')
<1>1. /\ bolt' = BoltRows(bolt, c) /\ mongo' = MongoRows(mongo, c)
      /\ ~Twice(bolt') /\ bolt \in Table /\ mongo \in Table /\ c.key \in Keys
  BY DEF Call, DaoTypeOK, Legal
<1>2. CASE c.op = "create"
  <2>1. coll = "stack" \/ (bolt[c.key] = Nil /\ mongo[c.key] = Nil)
    BY <1>2 DEF Fresh
  <2>2. /\ c.row \in Rec /\ bolt' = BoltReplace(bolt, c.key, c.row)
        /\ mongo' = MongoCreate(mongo, c.key, c.row)
    BY <1>1, <1>2, CreateRows
  <2> QED
    BY <1>1, <2>1, <2>2, CreatedPaired
<1>3. CASE c.op = "delete"
  <2>1. bolt' = BoltDelete(bolt, {c.key}) /\ mongo' = MongoDelete(mongo, {c.key})
    BY <1>1, <1>3, DeleteRows
  <2> QED
    BY <2>1, DeletedPaired
<1>4. CASE c.op = "clear"
  <2>1. bolt' = BoltDelete(bolt, Keys) /\ mongo' = MongoDelete(mongo, Keys)
    BY <1>1, <1>4, ClearRows
  <2> QED
    BY <2>1, DeletedPaired
<1>5. CASE c.op \notin {"create", "delete", "clear"}
  <2>1. coll # "backup"
    BY <1>5 DEF Legal, Fields
  <2>2. PICK x, y : \/ Updated(bolt, mongo, bolt', mongo', c.key, x, y)
                    \/ Replaced(bolt, mongo, bolt', mongo', c.key, x, y)
    BY <1>1, <1>5, <2>1, EditRows, LegalTwice
  <2> QED
    BY <1>1, <2>2, UpdatedPaired, ReplacedPaired
<1> QED
  BY <1>2, <1>3, <1>4, <1>5

\* A name is found twice only where names are unique on Mongo.
LEMMA TwiceUnique ==
  ASSUME DaoTypeOK, dup => coll \in UniqueNames, coll' = coll,
         dup' => dup \/ Twice(bolt')
  PROVE  dup' => coll' \in UniqueNames
BY DEF Twice, Taken, UniqueNames

LEMMA CreatedBackup ==
  ASSUME DaoTypeOK, BackupsKept, coll = "backup", NEW c, Legal(c), Call(c), c.op = "create",
         Fresh(c.key), held' = held
  PROVE  BackupsKept'
<1> DEFINE k == c.key
<1>1. /\ k \in Keys /\ c.row \in Rec /\ bolt' = [bolt EXCEPT ![k] = c.row]
      /\ mongo' = MongoCreate(mongo, k, c.row)
  BY CreateRows DEF Call, BoltReplace
<1>2. bolt[k] = Nil /\ mongo[k] = Nil /\ k \notin gone /\ gone' = gone /\ coll' = coll
  BY DEF Fresh, Call
<1>3. ~Taken(mongo, k, c.row.name)
  BY DEF Taken, UniqueNames
<1>4. mongo' = [mongo EXCEPT ![k] = c.row]
  BY <1>1, <1>2, <1>3 DEF MongoCreate
<1>5. ASSUME NEW j \in Keys
      PROVE  Backed(j)'
  <2>1. CASE j = k
    BY <1>1, <1>2, <1>4, <2>1, NilNoRow DEF Backed, DaoTypeOK, Table
  <2>2. CASE j # k
    BY <1>1, <1>2, <1>4, <2>2 DEF Backed, DaoTypeOK, Table, BackupsKept
  <2> QED
    BY <2>1, <2>2
<1>6. ASSUME NEW h \in Handlers
      PROVE  Stems(h)'
  <2>1. CASE held[h] # Nil /\ held[h].key \notin gone
    <3>1. Stems(h) /\ held[h].key \in Keys
      BY <2>1 DEF BackupsKept, DaoTypeOK, Held, Copy, Readable
    <3>2. held[h].key # k
      BY <1>2, <2>1, <3>1 DEF Stems
    <3> QED
      BY <1>2, <1>4, <2>1, <3>1, <3>2 DEF Stems, DaoTypeOK, Table
  <2>2. CASE ~(held[h] # Nil /\ held[h].key \notin gone)
    BY <1>2, <2>2 DEF Stems
  <2> QED
    BY <2>1, <2>2
<1> QED
  BY <1>2, <1>5, <1>6 DEF BackupsKept

LEMMA DeletedBackup ==
  ASSUME DaoTypeOK, BackupsKept, coll = "backup", NEW c, Legal(c), Call(c), c.op = "delete",
         held' = held
  PROVE  BackupsKept'
<1> DEFINE k == c.key
<1>1. /\ k \in Keys /\ bolt' = BoltDelete(bolt, {k}) /\ mongo' = MongoDelete(mongo, {k})
      /\ gone' = gone \cup {k} /\ coll' = coll
  BY DeleteRows DEF Call
<1>2. ASSUME NEW j \in Keys
      PROVE  Backed(j)'
  BY <1>1 DEF Backed, BoltDelete, MongoDelete, BackupsKept
<1>3. ASSUME NEW h \in Handlers
      PROVE  Stems(h)'
  <2>1. held[h] # Nil => held[h].key \in Keys
    BY DEF DaoTypeOK, Held, Copy, Readable
  <2> QED
    BY <1>1, <2>1 DEF BackupsKept, Stems, MongoDelete
<1> QED
  BY <1>1, <1>2, <1>3 DEF BackupsKept

\* Each call keeps the invariant.
LEMMA CallKeeps ==
  ASSUME DaoTypeOK, EnginesInv, NEW c, Legal(c), Call(c), c.op = "create" => Fresh(c.key),
         c.op = "save" => coll # "backup", held' = held \/ coll = "vault_secret"
  PROVE  EnginesInv'
<1>1. coll' = coll /\ dup' = (dup \/ Twice(bolt'))
  BY DEF Call
<1>2. dup' => coll' \in UniqueNames
  BY <1>1, TwiceUnique DEF EnginesInv
<1>3. BackupsKept'
  <2>1. CASE coll = "backup"
    <3>1. c.op \in {"create", "delete"}
      BY <2>1 DEF Legal, Fields
    <3> QED
      BY <2>1, <3>1, CreatedBackup, DeletedBackup DEF EnginesInv
  <2>2. CASE coll # "backup"
    BY <1>1, <2>2 DEF BackupsKept
  <2> QED
    BY <2>1, <2>2
<1>4. ASSUME ~dup', coll' \notin {"archive", "version"}
      PROVE  Paired(bolt, mongo)' /\ PairedCopies'
  <2>1. Paired(bolt, mongo) /\ PairedCopies
    BY <1>1, <1>4 DEF EnginesInv
  <2>2. Paired(bolt', mongo')
    BY <1>1, <1>4, <2>1, CallPaired
  <2>3. PairedCopies'
    BY <1>1, <2>1, SameAlike DEF PairedCopies, Readable
  <2> QED
    BY <1>1, <2>2, <2>3, SameAlike
<1> QED
  BY <1>2, <1>3, <1>4 DEF EnginesInv

\* A copy is alike on both engines when it is read.
LEMMA GetKeeps ==
  ASSUME DaoTypeOK, EnginesInv, NEW h \in Handlers, NEW k \in Keys, Get(h, k)
  PROVE  EnginesInv'
<1>1. /\ UNCHANGED <<coll, bolt, mongo, gone, dup, calls>>
      /\ coll \in Readable /\ held[h] = Nil /\ (bolt[k] # Nil \/ mongo[k] # Nil)
      /\ held' = [held EXCEPT ![h] = [key |-> k, bolt |-> bolt[k], mongo |-> mongo[k]]]
  BY DEF Get, Readable
<1>2. /\ held'[h].key = k /\ held'[h].bolt = bolt[k] /\ held'[h].mongo = mongo[k]
      /\ \A g \in Handlers \ {h} : held'[g] = held[g]
  BY <1>1 DEF DaoTypeOK
<1>3. ASSUME ~dup, coll \notin {"archive", "version"}
      PROVE  Paired(bolt, mongo)' /\ PairedCopies'
  <2>1. Paired(bolt, mongo) /\ PairedCopies
    BY <1>3 DEF EnginesInv
  <2>2. ASSUME NEW g \in Handlers, held'[g] # Nil
        PROVE  Alike(held'[g].bolt, held'[g].mongo)
    BY <1>1, <1>2, <2>1, <2>2 DEF Paired, PairedCopies
  <2>3. ASSUME NEW g \in Handlers, held'[g] # Nil
        PROVE  Alike(held[g].bolt, held[g].mongo)'
    BY <1>1, <2>2, <2>3, SameColl DEF Alike, Near
  <2> QED
    BY <1>1, <2>1, <2>3, SameAlike DEF PairedCopies
<1>4. BackupsKept'
  <2> SUFFICES ASSUME coll = "backup"
               PROVE  BackupsKept'
    BY <1>1 DEF BackupsKept
  <2>1. \A j \in Keys : Backed(j)'
    BY <1>1 DEF EnginesInv, BackupsKept, Backed
  <2>2. ~dup
    BY DEF EnginesInv, UniqueNames
  <2>3. Alike(bolt[k], mongo[k]) /\ Backed(k)
    BY <2>2 DEF EnginesInv, BackupsKept, Paired
  <2>4. ASSUME NEW g \in Handlers
        PROVE  Stems(g)'
    <3>1. CASE g = h
      <4>1. ASSUME k \notin gone
            PROVE  bolt[k] # Nil /\ mongo[k] # Nil /\ bolt[k].made = mongo[k].made
        <5>1. bolt[k] # Nil /\ mongo[k] # Nil
          BY <1>1, <2>3, <4>1 DEF Backed
        <5>2. "made" \in Common
          BY DEF Common, Blank
        <5>3. bolt[k]["made"] = mongo[k]["made"]
          BY <2>3, <5>1, <5>2 DEF Alike, Near
        <5> QED
          BY <5>1, <5>3
      <4> QED
        BY <1>1, <1>2, <3>1, <4>1 DEF Stems
    <3>2. CASE g # h
      BY <1>1, <1>2, <3>2 DEF Stems, EnginesInv, BackupsKept
    <3> QED
      BY <3>1, <3>2
  <2> QED
    BY <2>1, <2>4 DEF BackupsKept
<1> QED
  BY <1>1, <1>3, <1>4 DEF EnginesInv

LEMMA FindKeeps ==
  ASSUME DaoTypeOK, EnginesInv, NEW h \in Handlers, NEW n \in Names, Find(h, n)
  PROVE  EnginesInv'
<1>1. /\ UNCHANGED <<coll, bolt, mongo, gone, dup, calls>> /\ coll = "user"
      /\ \A g \in Handlers \ {h} : held'[g] = held[g]
  BY DEF Find, DaoTypeOK
<1>2. ASSUME ~dup
      PROVE  Paired(bolt, mongo)' /\ PairedCopies'
  <2>1. Paired(bolt, mongo) /\ PairedCopies
    BY <1>1, <1>2 DEF EnginesInv
  <2>k. PICK k \in Keys : /\ bolt[k] # Nil /\ mongo[k] # Nil /\ held'[h].mongo = mongo[k]
                         /\ \E o : held'[h].bolt = [bolt[k] EXCEPT !.opt = o]
    BY FindCopy
  <2>2. PICK o : held'[h].bolt = [bolt[k] EXCEPT !.opt = o]
    BY <2>k
  <2>3. held'[h].bolt # Nil /\ held'[h].mongo # Nil
    BY FindCopy
  <2>4. bolt[k] \in Rec /\ Common = {"name", "form", "secret", "status", "made"}
    BY <1>1, <2>k DEF DaoTypeOK, Table, Common
  <2>5. Alike(held'[h].bolt, held'[h].mongo)
    <3>1. Near(bolt[k], mongo[k])
      BY <2>1 DEF Paired, Alike
    <3> QED
      BY <2>k, <2>2, <2>3, <2>4, <3>1 DEF Alike, Near, Rec, Row
  <2>6. ASSUME NEW g \in Handlers, held'[g] # Nil
        PROVE  Alike(held'[g].bolt, held'[g].mongo)
    BY <1>1, <2>1, <2>5, <2>6 DEF PairedCopies, Readable
  <2>7. ASSUME NEW g \in Handlers, held'[g] # Nil
        PROVE  Alike(held[g].bolt, held[g].mongo)'
    BY <1>1, <2>6, <2>7, SameColl DEF Alike, Near
  <2> QED
    BY <1>1, <2>1, <2>7, SameAlike DEF PairedCopies
<1> QED
  BY <1>1, <1>2 DEF EnginesInv, BackupsKept

\* Both engines are handed the same change, of copies that are alike.
LEMMA BackKeeps ==
  ASSUME DaoTypeOK, EnginesInv, NEW h \in Handlers, WriteBack(h)
  PROVE  EnginesInv'
<1> DEFINE k == held[h].key
           Changed(row) == [row EXCEPT !.form = calls + 1]
           c == Back(held[h].bolt, k)
           d == Back(held[h].mongo, k)
<1>1. /\ coll \in Readable /\ held[h] \in Copy /\ k \in Keys /\ held[h] # Nil
      /\ UNCHANGED <<coll, gone>> /\ held' = [held EXCEPT ![h] = Nil]
      /\ dup' = (dup \/ Twice(bolt'))
      /\ bolt' = (IF held[h].bolt = Nil THEN bolt ELSE BoltRows(bolt, c))
      /\ mongo' = (IF held[h].mongo = Nil THEN mongo ELSE MongoRows(mongo, d))
  BY BackLegal DEF WriteBack
<1>2. dup' => coll' \in UniqueNames
  BY <1>1, TwiceUnique DEF EnginesInv
<1>3. \A g \in Handlers : held'[g] # Nil => held'[g] = held[g]
  BY <1>1 DEF DaoTypeOK
<1>4. held[h].bolt # Nil => held[h].bolt \in Rec /\ Legal(c)
  BY <1>1, BackLegal DEF Copy
<1>5. held[h].mongo # Nil => held[h].mongo \in Rec /\ Legal(d)
  BY <1>1, BackLegal DEF Copy
<1>6. /\ c.op = "save" /\ c.key = k /\ c.row = Changed(held[h].bolt)
      /\ d.op = "save" /\ d.key = k /\ d.row = Changed(held[h].mongo)
  BY DEF Back
<1>7. ASSUME ~dup', coll # "backup"
      PROVE  Paired(bolt', mongo')
  <2>1. ~dup /\ Paired(bolt, mongo) /\ Alike(held[h].bolt, held[h].mongo) /\ ~Twice(bolt')
    BY <1>1, <1>7 DEF EnginesInv, PairedCopies, Readable
  <2>2. held[h].bolt = Nil <=> held[h].mongo = Nil
    BY <1>1, <1>7, <2>1 DEF Alike, Readable
  <2>3. CASE held[h].bolt = Nil
    BY <1>1, <2>1, <2>2, <2>3
  <2>4. CASE held[h].bolt # Nil
    <3>1. Near(Changed(held[h].bolt), Changed(held[h].mongo))
      <4>1. \A f \in Common : held[h].bolt[f] = held[h].mongo[f]
        BY <2>1, <2>2, <2>4 DEF Alike, Near
      <4>2. Common \subseteq {"name", "form", "opt", "secret", "status", "made"}
        BY <1>1, <1>7 DEF Common, Readable
      <4> QED
        BY <1>4, <1>5, <2>2, <2>4, <4>1, <4>2 DEF Near, Rec, Row
    <3>2. SameCall(c, d)
      BY <1>4, <1>5, <1>6, <2>2, <2>4, <3>1 DEF SameCall
    <3>3. bolt' = BoltRows(bolt, c) /\ mongo' = MongoRows(mongo, d)
      BY <1>1, <2>2, <2>4
    <3> HIDE DEF c, d
    <3>4. PICK x, y : \/ Updated(bolt, mongo, bolt', mongo', k, x, y)
                      \/ Replaced(bolt, mongo, bolt', mongo', k, x, y)
      BY <1>1, <1>6, <1>7, <3>2, <3>3, EditRows DEF DaoTypeOK, Readable
    <3> QED
      BY <1>1, <2>1, <3>4, UpdatedPaired, ReplacedPaired DEF DaoTypeOK, Readable
  <2> QED
    BY <2>3, <2>4
<1>8. ASSUME coll = "backup"
      PROVE  Paired(bolt', mongo') /\ BackupsKept'
  <2> HIDE DEF c, d
  <2>0. ASSUME NEW e, Legal(e), e.op = "save"
        PROVE  /\ BoltRows(bolt, e) = [bolt EXCEPT ![e.key] = e.row]
               /\ MongoRows(mongo, e) =
                    MongoUpdate(mongo, e.key, [mongo[e.key] EXCEPT !.form = e.row.form])
    BY <1>8, <2>0, BackupSave DEF BoltReplace, DaoTypeOK
  <2>1. ~dup /\ Paired(bolt, mongo) /\ PairedCopies /\ BackupsKept
    BY <1>8 DEF EnginesInv, UniqueNames
  <2>2. Alike(held[h].bolt, held[h].mongo) /\ Backed(k) /\ Stems(h)
    BY <1>1, <2>1, <1>8 DEF PairedCopies, BackupsKept
  <2>3. ASSUME held[h].bolt # Nil
        PROVE  bolt' = [bolt EXCEPT ![k] = Changed(held[h].bolt)]
    <3>1. bolt' = BoltRows(bolt, c)
      BY <1>1, <2>3
    <3>2. Legal(c) /\ c.op = "save" /\ c.key = k /\ c.row = Changed(held[h].bolt)
      BY <1>4, <1>6, <2>3
    <3>3. BoltRows(bolt, c) = [bolt EXCEPT ![c.key] = c.row]
      BY <2>0, <3>2
    <3> QED
      BY <3>1, <3>2, <3>3
  <2>4. held[h].bolt = Nil => bolt' = bolt
    BY <1>1
  <2> DEFINE y == [mongo[k] EXCEPT !.form = calls + 1]
  <2>m. held[h].mongo = Nil => mongo' = mongo
    BY <1>1
  <2>u. ASSUME held[h].mongo # Nil
        PROVE  mongo' = MongoUpdate(mongo, k, y)
    <3>1. mongo' = MongoRows(mongo, d) /\ Legal(d) /\ d.op = "save"
      BY <1>1, <1>5, <1>6, <2>u
    <3>2. MongoRows(mongo, d) = MongoUpdate(mongo, d.key, [mongo[d.key] EXCEPT !.form = d.row.form])
      BY <2>0, <3>1
    <3>3. d.key = k /\ d.row.form = calls + 1
      BY <1>5, <1>6, <2>u DEF Rec, Row
    <3> QED
      BY <3>1, <3>2, <3>3
  <2> HIDE DEF y
  <2>5. /\ mongo' \in {mongo, [mongo EXCEPT ![k] = y]}
        /\ mongo[k] = Nil => mongo' = mongo
    BY <2>m, <2>u DEF MongoUpdate
  <2>6. ASSUME k \in gone
        PROVE  mongo' = mongo
    BY <2>2, <2>5, <2>6 DEF Backed
  <2>7. ASSUME k \notin gone
        PROVE  /\ held[h].bolt # Nil /\ held[h].mongo # Nil /\ mongo[k] # Nil /\ bolt[k] # Nil
               /\ held[h].bolt.made = mongo[k].made
               /\ mongo' = [mongo EXCEPT ![k] = y]
    <3>1. /\ held[h].bolt # Nil /\ held[h].mongo # Nil /\ mongo[k] # Nil /\ bolt[k] # Nil
          /\ held[h].bolt.made = mongo[k].made
      BY <1>1, <2>2, <2>7 DEF Stems, Backed
    <3> QED
      BY <2>u, <3>1, <1>8 DEF MongoUpdate, Taken, UniqueNames
  <2>8. ASSUME NEW j \in Keys
        PROVE  Alike(bolt'[j], mongo'[j]) /\ Backed(j)'
    <3>1. Alike(bolt[j], mongo[j]) /\ Backed(j)
      BY <2>1, <1>8 DEF Paired, BackupsKept
    <3>2. CASE j # k
      <4>1. bolt'[j] = bolt[j] /\ mongo'[j] = mongo[j]
        BY <2>3, <2>4, <2>5, <3>2 DEF DaoTypeOK, Table
      <4> QED
        BY <1>1, <3>1, <4>1 DEF Backed
    <3>3. CASE j = k /\ k \in gone
      <4>1. mongo'[j] = Nil
        BY <2>2, <2>6, <3>3 DEF Backed
      <4> QED
        BY <1>1, <1>8, <3>3, <4>1 DEF Backed, Alike, Near
    <3>4. CASE j = k /\ k \notin gone
      <4> DEFINE x == Changed(held[h].bolt)
      <4>1. bolt'[j] = x /\ mongo'[j] = y
        BY <1>1, <2>3, <2>7, <3>4 DEF DaoTypeOK, Table
      <4>2. mongo[k] \in Rec /\ held[h].bolt \in Rec /\ held[h].bolt.made = mongo[k].made
        BY <1>1, <1>4, <2>7, <3>4 DEF DaoTypeOK, Table
      <4>3. x \in Rec
        BY <4>2, <1>1, BackLegal
      <4>4. y \in Rec
        BY <4>2, <1>1, BackLegal DEF y
      <4>5. Common = {"name", "form", "opt", "secret", "status", "note", "owned", "made"}
        BY <1>8 DEF Common, Blank
      <4>6. Near(x, y)
        BY <1>8, <4>2, <4>5 DEF y, Near, Rec, Row, HasName, HasOpt, HasSecret
      <4> HIDE DEF x
      <4> QED
        BY <1>1, <3>4, <4>1, <4>3, <4>4, <4>6, NilNoRow DEF Alike, Backed
    <3> QED
      BY <3>2, <3>3, <3>4
  <2>9. ASSUME NEW g \in Handlers
        PROVE  Stems(g)'
    <3>1. CASE held'[g] = Nil
      BY <3>1 DEF Stems
    <3>2. CASE held'[g] # Nil /\ held[g].key \notin gone
      <4>1. held'[g] = held[g] /\ Stems(g) /\ held[g].key \in Keys
        BY <1>1, <1>3, <1>8, <2>1, <3>2 DEF BackupsKept, DaoTypeOK, Held, Copy, Readable
      <4>2. mongo[held[g].key] # Nil /\ mongo[held[g].key] \in Rec
        BY <3>2, <4>1 DEF Stems, DaoTypeOK, Table
      <4>3. held[g].key = k => y # Nil /\ y.made = mongo[k].made
        BY <4>2, BackLegal, NilNoRow DEF y, Rec, Row
      <4>4. /\ mongo'[held[g].key] # Nil
            /\ mongo'[held[g].key].made = mongo[held[g].key].made
        BY <2>5, <4>1, <4>2, <4>3 DEF DaoTypeOK, Table
      <4> QED
        BY <1>1, <3>2, <4>1, <4>4 DEF Stems
    <3>3. CASE held'[g] # Nil /\ held[g].key \in gone
      BY <1>1, <1>3, <3>3 DEF Stems
    <3> QED
      BY <3>1, <3>2, <3>3
  <2> QED
    BY <2>8, <2>9 DEF Paired, BackupsKept
<1>9. ASSUME ~dup'
      PROVE  Paired(bolt, mongo)' /\ PairedCopies'
  <2>1. PairedCopies
    BY <1>1, <1>9 DEF EnginesInv, Readable
  <2>2. PairedCopies'
    <3>1. \A g \in Handlers : held'[g] # Nil => Alike(held'[g].bolt, held'[g].mongo)
      BY <1>1, <1>3, <2>1 DEF PairedCopies
    <3>2. ASSUME NEW g \in Handlers, held'[g] # Nil
          PROVE  Alike(held[g].bolt, held[g].mongo)'
      BY <1>1, <3>1, <3>2, SameColl DEF Alike, Near
    <3> QED
      BY <3>2 DEF PairedCopies
  <2> QED
    BY <1>1, <1>7, <1>8, <1>9, <2>2, SameAlike
<1> QED
  BY <1>1, <1>2, <1>8, <1>9 DEF EnginesInv, BackupsKept

\* A name checked, versions listed and pruned: nothing of it is a copy of a row.
LEMMA OthersKeep ==
  ASSUME DaoTypeOK, EnginesInv, NEW h \in Handlers,
         (\E n \in Names : CheckName(h, n)) \/ ListVersions(h) \/ PruneVersions(h)
  PROVE  EnginesInv'
<1>1. CASE \E n \in Names : CheckName(h, n)
  <2>1. coll = "vault_secret" /\ UNCHANGED <<coll, bolt, mongo, gone, dup, calls>>
    BY <1>1 DEF CheckName
  <2>2. Paired(bolt, mongo)' <=> Paired(bolt, mongo)
    BY <2>1, SameAlike
  <2> QED
    BY <2>1, <2>2 DEF EnginesInv, BackupsKept, PairedCopies, Readable
<1>2. CASE ListVersions(h) \/ PruneVersions(h)
  <2>1. coll = "version" /\ coll' = coll /\ dup' = dup
    BY <1>2 DEF ListVersions, PruneVersions
  <2> QED
    BY <2>1 DEF EnginesInv, BackupsKept
<1> QED
  BY <1>1, <1>2

\* What Mongo keeps of the events is on Bolt too, whichever expired rows its walk missed.
LEMMA PruneKeeps ==
  ASSUME DaoTypeOK, EnginesInv, EventPrune
  PROVE  EnginesInv'
<1>1. coll = "event" /\ UNCHANGED <<coll, held, dup>>
  BY DEF EventPrune
<1>2. ~dup /\ Paired(bolt, mongo)
  BY <1>1 DEF EnginesInv, UniqueNames
<1> DEFINE Expired(end) == {k \in Keys : bolt[k] # Nil /\ bolt[k].form < end}
<1>e. PICK end \in 1 .. calls + 1 :
        /\ \E ks \in SUBSET Expired(end) : bolt' = BoltDelete(bolt, ks)
        /\ mongo' = MongoDelete(mongo, Expired(end))
  BY DEF EventPrune
<1> DEFINE expired == Expired(end)
<1> HIDE DEF expired
<1>3. PICK ks \in SUBSET expired :
        bolt' = BoltDelete(bolt, ks) /\ mongo' = MongoDelete(mongo, expired)
  BY <1>e DEF expired
<1>4. ASSUME NEW k \in Keys
      PROVE  Alike(bolt'[k], mongo'[k])
  BY <1>1, <1>2, <1>3 DEF Paired, BoltDelete, MongoDelete, Alike, Near
<1>5. Paired(bolt, mongo)'
  BY <1>1, <1>4, SameAlike DEF Paired
<1> QED
  BY <1>1, <1>2, <1>5 DEF EnginesInv, BackupsKept, PairedCopies, Readable

LEMMA EnginesInit == Init => EnginesInv
BY DEF Init, EnginesInv, BackupsKept, Backed, Stems, Paired, PairedCopies, Alike, Near

LEMMA EnginesStep == DaoTypeOK /\ EnginesInv /\ [Next]_vars => EnginesInv'
<1> SUFFICES ASSUME DaoTypeOK, EnginesInv, [Next]_vars
             PROVE  EnginesInv'
  OBVIOUS
<1>1. ASSUME NEW k \in Keys, Create(k)
      PROVE  EnginesInv'
  BY <1>1, CreateCalls, CallKeeps
<1>2. ASSUME NEW k \in Keys, Save(k)
      PROVE  EnginesInv'
  <2>1. coll # "backup"
    BY <1>2 DEF Save, Savable
  <2>2. PICK c : Legal(c) /\ Call(c) /\ c.op = "save" /\ held' = held
    BY <1>2, SaveCalls
  <2> QED
    BY <2>1, <2>2, CallKeeps
<1>3. ASSUME NEW k \in Keys, Delete(k)
      PROVE  EnginesInv'
  <2>1. PICK c : Legal(c) /\ Call(c) /\ c.op = "delete" /\ held' = held
    BY <1>3, DeleteCalls
  <2> QED
    BY <2>1, CallKeeps
<1>4. ASSUME NEW k \in Keys, NEW op, UpdateField(k, op)
      PROVE  EnginesInv'
  <2>1. PICK c : Legal(c) /\ Call(c) /\ c.op = op /\ held' = held /\ <<coll, op>> \in Fields
    BY <1>4, FieldCalls
  <2>2. c.op # "create" /\ c.op # "save"
    BY <2>1 DEF Fields
  <2> QED
    BY <2>1, <2>2, CallKeeps
<1>5. CASE Clear
  <2>1. PICK c : Legal(c) /\ Call(c) /\ c.op = "clear" /\ held' = held
    BY <1>5, ClearCalls
  <2> QED
    BY <2>1, CallKeeps
<1>6. ASSUME NEW h \in Handlers, NEW k \in Keys, CreateChecked(h, k)
      PROVE  EnginesInv'
  <2>1. PICK c : Legal(c) /\ Call(c) /\ c.op = "create" /\ c.key = k /\ Fresh(k)
    BY <1>6, CheckedCalls
  <2>2. coll = "vault_secret"
    BY <1>6, CheckedCalls
  <2> QED
    BY <2>1, <2>2, CallKeeps
<1>7. ASSUME NEW h \in Handlers, NEW k \in Keys, Get(h, k)
      PROVE  EnginesInv'
  BY <1>7, GetKeeps
<1>8. ASSUME NEW h \in Handlers, NEW n \in Names, Find(h, n) \/ CheckName(h, n)
      PROVE  EnginesInv'
  BY <1>8, FindKeeps, OthersKeep
<1>9. ASSUME NEW h \in Handlers, WriteBack(h) \/ ListVersions(h) \/ PruneVersions(h)
      PROVE  EnginesInv'
  BY <1>9, BackKeeps, OthersKeep
<1>10. CASE EventPrune
  BY <1>10, PruneKeeps
<1>11. CASE UNCHANGED vars
  <2>1. coll' = coll /\ held' = held /\ bolt' = bolt /\ mongo' = mongo /\ gone' = gone /\ dup' = dup
    BY <1>11 DEF vars
  <2>2. (Paired(bolt, mongo)' <=> Paired(bolt, mongo)) /\ (PairedCopies' <=> PairedCopies)
    BY <2>1, SameAlike
  <2> QED
    BY <2>1, <2>2 DEF EnginesInv, BackupsKept, Backed, Stems
<1> QED
  BY <1>1, <1>2, <1>3, <1>4, <1>5, <1>6, <1>7, <1>8, <1>9, <1>10, <1>11 DEF Next

LEMMA EnginesAlways == Spec => [](DaoTypeOK /\ EnginesInv)
<1>1. Init => DaoTypeOK /\ EnginesInv
  BY TypeInit, EnginesInit
<1>2. (DaoTypeOK /\ EnginesInv) /\ [Next]_vars => (DaoTypeOK /\ EnginesInv)'
  BY TypeStep, EnginesStep
<1> QED
  BY <1>1, <1>2, PTL DEF Spec

\* Any calls, in any order and with any copies written back late, leave the same rows on
\* Bolt and on Mongo, up to the fields Common leaves out: EnginesAgree of the run.
THEOREM EnginesAlwaysAgree == Spec => []EnginesAgree
<1>1. DaoTypeOK /\ EnginesInv => EnginesAgree
  BY DEF EnginesInv, EnginesAgree, Paired, Alike, Near
<1> QED
  BY <1>1, EnginesAlways, PTL
-----------------------------------------------------------------------------
(* Both engines implement Store. *)

\* What Store lets happen to the rows of one engine, `gone' being what it is.
Elsewhere(rows, new, k) == \A j \in Keys \ {k} : new[j] = rows[j]

StoreStep(rows, new, newgone) ==
  \/ new = rows /\ newgone = gone
  \/ \E k \in Keys :
       \/ /\ rows[k] = Nil /\ k \notin gone /\ new[k] \in Row
          /\ Elsewhere(rows, new, k) /\ newgone = gone
       \/ /\ rows[k] # Nil /\ new[k] \in Row
          /\ new[k].made = rows[k].made /\ (new[k].secret = Empty => rows[k].secret = Empty)
          /\ new[k].owned = rows[k].owned /\ Elsewhere(rows, new, k) /\ newgone = gone
       \/ /\ rows[k] # Nil /\ newgone = gone
          /\ \E o \in {r.owned : r \in Row} : new = [rows EXCEPT ![k].owned = o]
       \/ new = [rows EXCEPT ![k] = Nil] /\ newgone = gone \cup {k}

\* An edit is an update of Store's or leaves all but the field another flow owns.
LEMMA EditStep ==
  ASSUME NEW rows \in Table, NEW k \in Keys, NEW y, NEW new,
         rows[k] # Nil => y \in Rec /\ Edits(rows[k], y),
         new \in {rows, [rows EXCEPT ![k] = y]}, rows[k] = Nil => new = rows
  PROVE  StoreStep(rows, new, gone)
<1>1. CASE new = rows
  BY <1>1 DEF StoreStep
<1>2. CASE new # rows
  <2>1. /\ rows[k] # Nil /\ rows[k] \in Row /\ y \in Row /\ Edits(rows[k], y)
        /\ new = [rows EXCEPT ![k] = y]
    BY <1>2, NilNoRow DEF Table
  <2>2. new[k] = y /\ Elsewhere(rows, new, k)
    BY <2>1 DEF Table, Elsewhere
  <2>3. CASE y.owned = rows[k].owned
    BY <2>1, <2>2, <2>3 DEF StoreStep, Edits
  <2>4. CASE y.owned # rows[k].owned
    <3>1. y = [rows[k] EXCEPT !.owned = y.owned]
      BY <2>1, <2>4 DEF Edits
    <3>2. new = [rows EXCEPT ![k] = [rows[k] EXCEPT !.owned = y.owned]]
      BY <2>1, <3>1
    <3>3. new = [rows EXCEPT ![k].owned = y.owned]
      BY <3>2
    <3>4. y.owned \in {r.owned : r \in Row}
      BY <2>1
    <3> QED
      BY <2>1, <3>3, <3>4 DEF StoreStep
  <2> QED
    BY <2>3, <2>4
<1> QED
  BY <1>1, <1>2

LEMMA CreateStep ==
  ASSUME NEW rows \in Table, NEW k \in Keys, NEW x \in Rec, NEW new,
         rows[k] = Nil, k \notin gone, new \in {rows, [rows EXCEPT ![k] = x]}
  PROVE  StoreStep(rows, new, gone)
<1>1. CASE new = rows
  BY <1>1 DEF StoreStep
<1>2. CASE new = [rows EXCEPT ![k] = x]
  <2>1. new[k] \in Row /\ Elsewhere(rows, new, k)
    BY <1>2, NilNoRow DEF Table, Elsewhere
  <2> QED
    BY <2>1 DEF StoreStep
<1> QED
  BY <1>1, <1>2

LEMMA DeleteStep ==
  ASSUME NEW rows \in Table, NEW k \in Keys
  PROVE  /\ StoreStep(rows, BoltDelete(rows, {k}), gone \cup {k})
         /\ StoreStep(rows, MongoDelete(rows, {k}), gone \cup {k})
<1>1. BoltDelete(rows, {k}) = [rows EXCEPT ![k] = Nil]
  BY DEF BoltDelete, Table
<1>2. MongoDelete(rows, {k}) = [rows EXCEPT ![k] = Nil]
  BY DEF MongoDelete, Table
<1> QED
  BY <1>1, <1>2 DEF StoreStep

\* A call, or a copy written back, is such a step on either engine.
Steps ==
  /\ coll \in BoltKept => StoreStep(bolt, bolt', gone')
  /\ coll \in MongoKept => StoreStep(mongo, mongo', gone')

LEMMA UpdateSteps ==
  ASSUME DaoTypeOK, NEW c, NEW newb, NEW newm, Legal(c), coll # "backup", coll \in MongoKept,
         c.op \notin {"create", "delete", "clear"},
         newb = BoltRows(bolt, c), newm = MongoRows(mongo, c)
  PROVE  /\ coll \in BoltKept => StoreStep(bolt, newb, gone)
         /\ StoreStep(mongo, newm, gone)
<1>1. bolt \in Table /\ mongo \in Table /\ c.key \in Keys
  BY DEF DaoTypeOK, Legal
<1>2. PICK x, y : Updated(bolt, mongo, newb, newm, c.key, x, y)
  <2>1. coll # "archive"
    BY DEF MongoKept
  <2> QED
    BY <1>1, <2>1, EditRows, LegalTwice
<1> DEFINE k == c.key
<1>3. /\ newb \in {bolt, [bolt EXCEPT ![k] = x]} /\ (bolt[k] = Nil => newb = bolt)
      /\ newm \in {mongo, [mongo EXCEPT ![k] = y]} /\ (mongo[k] = Nil => newm = mongo)
  BY <1>2 DEF Updated, BoltUpdate, MongoUpdate
<1>4. StoreStep(mongo, newm, gone)
  <2>1. mongo[k] # Nil => y \in Rec /\ Edits(mongo[k], y)
    BY <1>2 DEF Updated
  <2> QED
    BY <1>1, <1>3, <2>1, EditStep
<1>5. ASSUME coll \in BoltKept
      PROVE  StoreStep(bolt, newb, gone)
  <2>1. bolt[k] # Nil => x \in Rec /\ Edits(bolt[k], x)
    BY <1>2, <1>5 DEF Updated
  <2> QED
    BY <1>1, <1>3, <2>1, EditStep
<1> QED
  BY <1>4, <1>5

LEMMA CallSteps ==
  ASSUME DaoTypeOK, NEW c, Legal(c), Call(c), c.op = "create" => Fresh(c.key),
         c.op = "save" => coll # "backup"
  PROVE  Steps
<1> SUFFICES ASSUME coll \in MongoKept
             PROVE  Steps
  BY DEF Steps, BoltKept
<1>1. /\ bolt \in Table /\ mongo \in Table /\ c.key \in Keys
      /\ bolt' = BoltRows(bolt, c) /\ mongo' = MongoRows(mongo, c)
      /\ c.op # "delete" /\ c.op # "clear" => gone' = gone
      /\ c.op = "delete" => gone' = gone \cup {c.key}
  BY DEF DaoTypeOK, Legal, Call
<1>2. CASE c.op = "create"
  <2>1. /\ c.row \in Rec /\ bolt' = BoltReplace(bolt, c.key, c.row)
        /\ mongo' = MongoCreate(mongo, c.key, c.row)
    BY <1>1, <1>2, CreateRows
  <2>2. bolt[c.key] = Nil /\ mongo[c.key] = Nil /\ c.key \notin gone
    BY <1>2 DEF Fresh, MongoKept
  <2>3. bolt' = [bolt EXCEPT ![c.key] = c.row] /\ mongo' \in {mongo, [mongo EXCEPT ![c.key] = c.row]}
    BY <2>1 DEF BoltReplace, MongoCreate
  <2> QED
    <3>1. StoreStep(bolt, bolt', gone)
      BY <1>1, <2>1, <2>2, <2>3, CreateStep
    <3>2. StoreStep(mongo, mongo', gone)
      BY <1>1, <2>1, <2>2, <2>3, CreateStep
    <3> QED
      BY <1>1, <1>2, <3>1, <3>2 DEF Steps
<1>3. CASE c.op = "delete"
  <2>1. bolt' = BoltDelete(bolt, {c.key}) /\ mongo' = MongoDelete(mongo, {c.key})
    BY <1>1, <1>3, DeleteRows DEF MongoKept
  <2> QED
    BY <1>1, <1>3, <2>1, DeleteStep DEF Steps
<1>4. CASE c.op = "clear"
  BY <1>4 DEF Legal, Fields, MongoKept
<1>5. CASE c.op \notin {"create", "delete", "clear"}
  <2>1. coll # "backup"
    BY <1>5 DEF Legal, Fields
  <2> QED
    BY <1>1, <1>5, <2>1, UpdateSteps DEF Steps
<1> QED
  BY <1>2, <1>3, <1>4, <1>5

LEMMA BackSteps ==
  ASSUME DaoTypeOK, NEW h \in Handlers, WriteBack(h)
  PROVE  Steps
<1> SUFFICES ASSUME coll \in MongoKept
             PROVE  Steps
  BY DEF Steps, BoltKept
<1> DEFINE k == held[h].key
           c == Back(held[h].bolt, k)
           d == Back(held[h].mongo, k)
<1>1. /\ held[h] \in Copy /\ gone' = gone
      /\ bolt' = (IF held[h].bolt = Nil THEN bolt ELSE BoltRows(bolt, c))
      /\ mongo' = (IF held[h].mongo = Nil THEN mongo ELSE MongoRows(mongo, d))
  BY BackLegal
<1>2. held[h].bolt # Nil => Legal(c)
  BY <1>1, BackLegal DEF Copy
<1>3. held[h].mongo # Nil => Legal(d)
  BY <1>1, BackLegal DEF Copy
<1>4. c.op = "save" /\ d.op = "save"
  BY DEF Back
<1> HIDE DEF c, d
<1>5. ASSUME coll \in BoltKept
      PROVE  StoreStep(bolt, bolt', gone')
  <2>1. CASE held[h].bolt = Nil
    BY <1>1, <2>1 DEF StoreStep
  <2>2. CASE held[h].bolt # Nil
    <3>1. bolt' = BoltRows(bolt, c) /\ Legal(c)
      BY <1>1, <1>2, <2>2
    <3>2. coll # "backup"
      BY <1>5 DEF BoltKept
    <3> QED
      BY <1>1, <1>4, <1>5, <3>1, <3>2, UpdateSteps
  <2> QED
    BY <2>1, <2>2
<1>6. StoreStep(mongo, mongo', gone')
  <2>1. CASE held[h].mongo = Nil
    BY <1>1, <2>1 DEF StoreStep
  <2>2. CASE held[h].mongo # Nil /\ coll # "backup"
    <3>1. mongo' = MongoRows(mongo, d) /\ Legal(d)
      BY <1>1, <1>3, <2>2
    <3> QED
      BY <1>1, <1>4, <2>2, <3>1, UpdateSteps
  <2>3. CASE held[h].mongo # Nil /\ coll = "backup"
    <3> DEFINE y == [mongo[d.key] EXCEPT !.form = d.row.form]
    <3>1. mongo' = MongoRows(mongo, d) /\ Legal(d)
      BY <1>1, <1>3, <2>3
    <3>2. /\ d.key \in Keys /\ MongoRows(mongo, d) = MongoUpdate(mongo, d.key, y)
          /\ mongo[d.key] # Nil => y \in Rec /\ Edits(mongo[d.key], y)
      BY <1>4, <2>3, <3>1, BackupSave DEF DaoTypeOK
    <3> HIDE DEF y
    <3>3. /\ mongo' \in {mongo, [mongo EXCEPT ![d.key] = y]}
          /\ mongo[d.key] = Nil => mongo' = mongo
      BY <3>1, <3>2 DEF MongoUpdate
    <3> QED
      BY <1>1, <3>2, <3>3, EditStep DEF DaoTypeOK
  <2> QED
    BY <2>1, <2>2, <2>3
<1> QED
  BY <1>5, <1>6 DEF Steps

LEMMA NextSteps == DaoTypeOK /\ [Next]_vars => Steps /\ coll' = coll
<1> SUFFICES ASSUME DaoTypeOK, [Next]_vars
             PROVE  Steps /\ coll' = coll
  OBVIOUS
<1>0. coll' = coll
  BY TypeStep
<1>1. ASSUME NEW k \in Keys, Create(k) \/ Save(k) \/ Delete(k)
      PROVE  Steps
  <2>1. PICK c : Legal(c) /\ Call(c) /\ (c.op = "create" => Fresh(c.key))
                 /\ (c.op = "save" => coll \in Savable)
    BY <1>1, CreateCalls, SaveCalls, DeleteCalls
  <2> QED
    BY <2>1, CallSteps DEF Savable
<1>2. ASSUME NEW k \in Keys, NEW op, UpdateField(k, op)
      PROVE  Steps
  <2>1. PICK c : Legal(c) /\ Call(c) /\ c.op = op /\ <<coll, op>> \in Fields
    BY <1>2, FieldCalls
  <2>2. c.op # "create" /\ c.op # "save"
    BY <2>1 DEF Fields
  <2> QED
    BY <2>1, <2>2, CallSteps
<1>3. CASE Clear
  <2>1. PICK c : Legal(c) /\ Call(c) /\ c.op = "clear"
    BY <1>3, ClearCalls
  <2>2. c.op # "create" /\ c.op # "save"
    BY <2>1
  <2> QED
    BY <1>0, <2>1, <2>2, CallSteps
<1>4. ASSUME NEW h \in Handlers, NEW k \in Keys, CreateChecked(h, k)
      PROVE  Steps
  <2>1. PICK c : Legal(c) /\ Call(c) /\ c.op = "create" /\ c.key = k /\ Fresh(k)
    BY <1>4, CheckedCalls
  <2> QED
    BY <2>1, CallSteps
<1>5. ASSUME NEW h \in Handlers, WriteBack(h)
      PROVE  Steps
  BY <1>5, BackSteps
<1>6. CASE EventPrune \/ \E h \in Handlers : PruneVersions(h)
  BY <1>6 DEF EventPrune, PruneVersions, Steps, MongoKept, BoltKept
<1>7. ASSUME NEW h \in Handlers,
             \/ \E k \in Keys : Get(h, k)
             \/ \E n \in Names : Find(h, n) \/ CheckName(h, n)
             \/ ListVersions(h)
      PROVE  Steps
  BY <1>7, HeldStep DEF Steps, StoreStep
<1>8. CASE UNCHANGED vars
  BY <1>8 DEF vars, Steps, StoreStep
<1> QED
  BY <1>0, <1>1, <1>2, <1>3, <1>4, <1>5, <1>6, <1>7, <1>8 DEF Next

\* The views of both engines move as Store does.
LEMMA BoltSteps ==
  ASSUME Steps, coll' = coll
  PROVE  [BoltStore!Next]_(BoltStore!vars)
<1>1. CASE coll \in BoltKept
  <2>1. View(bolt, BoltKept) = bolt /\ View(bolt, BoltKept)' = bolt'
    BY <1>1 DEF View, BoltKept, MongoKept
  <2>2. Gone(BoltKept) = gone /\ Gone(BoltKept)' = gone'
    BY <1>1 DEF Gone, BoltKept, MongoKept
  <2>3. StoreStep(bolt, bolt', gone')
    BY <1>1 DEF Steps
  <2> QED
    BY <2>1, <2>2, <2>3 DEF StoreStep, Elsewhere, BoltStore!Next, BoltStore!vars, BoltStore!Create,
       BoltStore!Update, BoltStore!Own, BoltStore!Delete, BoltStore!Others
<1>2. CASE coll \notin BoltKept
  BY <1>2 DEF View, Gone, BoltKept, MongoKept, BoltStore!vars
<1> QED
  BY <1>1, <1>2

LEMMA MongoSteps ==
  ASSUME Steps, coll' = coll
  PROVE  [MongoStore!Next]_(MongoStore!vars)
<1>1. CASE coll \in MongoKept
  <2>1. View(mongo, MongoKept) = mongo /\ View(mongo, MongoKept)' = mongo'
    BY <1>1 DEF View, MongoKept
  <2>2. Gone(MongoKept) = gone /\ Gone(MongoKept)' = gone'
    BY <1>1 DEF Gone, MongoKept
  <2>3. StoreStep(mongo, mongo', gone')
    BY <1>1 DEF Steps
  <2> QED
    BY <2>1, <2>2, <2>3 DEF StoreStep, Elsewhere, MongoStore!Next, MongoStore!vars, MongoStore!Create,
       MongoStore!Update, MongoStore!Own, MongoStore!Delete, MongoStore!Others
<1>2. CASE coll \notin MongoKept
  BY <1>2 DEF View, Gone, MongoKept, MongoStore!vars
<1> QED
  BY <1>1, <1>2

\* Bolt implements Store: whatever is called and whichever stale copy is written back, an
\* id is not used twice, and no save changes the creator, another flow's field or blanks a
\* stored secret.
THEOREM BoltAlwaysImplements == Spec => BoltImplementsStore
<1>1. Init => BoltStore!Init
  BY DEF Init, BoltStore!Init, View, Gone
<1>2. DaoTypeOK /\ [Next]_vars => [BoltStore!Next]_(BoltStore!vars)
  BY NextSteps, BoltSteps
<1> QED
  BY <1>1, <1>2, DaoTypeCorrect, PTL DEF Spec, BoltImplementsStore, BoltStore!Spec

\* Mongo implements it too, for hosts and backups as well: BoltImplementsStore and
\* MongoImplementsStore of the run.
THEOREM MongoAlwaysImplements == Spec => MongoImplementsStore
<1>1. Init => MongoStore!Init
  BY DEF Init, MongoStore!Init, View, Gone
<1>2. DaoTypeOK /\ [Next]_vars => [MongoStore!Next]_(MongoStore!vars)
  BY NextSteps, MongoSteps
<1> QED
  BY <1>1, <1>2, DaoTypeCorrect, PTL DEF Spec, MongoImplementsStore, MongoStore!Spec
-----------------------------------------------------------------------------
(* Searches. *)

\* The orders of an answer.
Sorts == {"newest", "last id", "walk"}

LEMMA SortKinds == BoltSort \in Sorts /\ MongoSort \in Sorts /\ "newest" \in Sorts
BY DEF BoltSort, MongoSort, Sorts

\* Precedes is a strict total order of the rows that are there.
LEMMA PrecedesOrders ==
  ASSUME NEW sort \in Sorts, NEW rows \in Table, NEW a \in Keys, NEW b \in Keys, NEW c \in Keys,
         rows[a] # Nil, rows[b] # Nil, rows[c] # Nil
  PROVE  /\ ~Precedes(rows, sort, a, a)
         /\ a # b => Precedes(rows, sort, a, b) \/ Precedes(rows, sort, b, a)
         /\ Precedes(rows, sort, a, b) /\ Precedes(rows, sort, b, c) => Precedes(rows, sort, a, c)
<1>1. rows[a].form \in Nat /\ rows[b].form \in Nat /\ rows[c].form \in Nat
  BY DaoAssumption DEF Table, Rec, Row
<1>2. a \in Nat /\ b \in Nat /\ c \in Nat
  BY DaoAssumption DEF Keys
<1> DEFINE fa == rows[a].form
           fb == rows[b].form
           fc == rows[c].form
<1> HIDE DEF fa, fb, fc
<1>3. fa \in Nat /\ fb \in Nat /\ fc \in Nat
  BY <1>1 DEF fa, fb, fc
<1>4. CASE sort = "newest"
  <2>1. /\ Precedes(rows, sort, a, a) <=> a < a
        /\ Precedes(rows, sort, a, b) <=> IF fa # fb THEN fa > fb ELSE a < b
        /\ Precedes(rows, sort, b, a) <=> IF fb # fa THEN fb > fa ELSE b < a
        /\ Precedes(rows, sort, b, c) <=> IF fb # fc THEN fb > fc ELSE b < c
        /\ Precedes(rows, sort, a, c) <=> IF fa # fc THEN fa > fc ELSE a < c
    BY <1>4 DEF Precedes, fa, fb, fc
  <2> QED
    BY <1>2, <1>3, <2>1
<1>5. CASE sort = "last id"
  <2>1. \A j, k \in Keys : Precedes(rows, sort, j, k) <=> j > k
    BY <1>5 DEF Precedes
  <2> QED
    BY <1>2, <2>1
<1>6. CASE sort = "walk"
  <2>1. \A j, k \in Keys : Precedes(rows, sort, j, k) <=> j < k
    BY <1>6 DEF Precedes
  <2> QED
    BY <1>2, <2>1
<1> QED
  BY <1>4, <1>5, <1>6 DEF Sorts

\* How many rows of an answer precede one of them tells it from the others.
Ahead(rows, sort, ks, k) == {j \in ks : Precedes(rows, sort, j, k)}

LEMMA KeysFinite ==
  ASSUME NEW ks \in SUBSET Keys
  PROVE  IsFiniteSet(ks) /\ Cardinality(ks) \in 0 .. Rows
<1>1. IsFiniteSet(Keys) /\ Cardinality(Keys) = Rows
  BY FS_Interval, DaoAssumption DEF Keys
<1>2. IsFiniteSet(ks) /\ Cardinality(ks) <= Rows
  BY <1>1, FS_Subset
<1>3. Cardinality(ks) \in Nat
  BY <1>2, FS_CardinalityType
<1> QED
  BY <1>2, <1>3, DaoAssumption

LEMMA AheadCounts ==
  ASSUME NEW sort \in Sorts, NEW rows \in Table, NEW ks \in SUBSET Keys, \A k \in ks : rows[k] # Nil,
         NEW a \in ks
  PROVE  /\ Cardinality(Ahead(rows, sort, ks, a)) \in 0 .. Cardinality(ks) - 1
         /\ \A b \in ks : Precedes(rows, sort, a, b) =>
              Cardinality(Ahead(rows, sort, ks, a)) < Cardinality(Ahead(rows, sort, ks, b))
<1>1. ASSUME NEW S \in SUBSET ks, NEW T \in SUBSET S, T # S
      PROVE  /\ Cardinality(T) \in Nat /\ Cardinality(S) \in Nat
             /\ Cardinality(T) < Cardinality(S)
  <2>1. IsFiniteSet(S)
    BY KeysFinite
  <2>2. Cardinality(T) <= Cardinality(S) /\ Cardinality(S) # Cardinality(T)
    BY <1>1, <2>1, FS_Subset
  <2>3. Cardinality(T) \in Nat /\ Cardinality(S) \in Nat
    BY <2>1, FS_Subset, FS_CardinalityType
  <2> QED
    BY <2>2, <2>3
<1>2. a \in Keys /\ rows[a] # Nil /\ ~Precedes(rows, sort, a, a)
  BY PrecedesOrders
<1>3. Ahead(rows, sort, ks, a) \in SUBSET ks /\ Ahead(rows, sort, ks, a) # ks
  BY <1>2 DEF Ahead
<1>4. Cardinality(Ahead(rows, sort, ks, a)) \in 0 .. Cardinality(ks) - 1
  BY <1>1, <1>3
<1>5. ASSUME NEW b \in ks, Precedes(rows, sort, a, b)
      PROVE  Cardinality(Ahead(rows, sort, ks, a)) < Cardinality(Ahead(rows, sort, ks, b))
  <2>1. b \in Keys /\ rows[b] # Nil
    OBVIOUS
  <2>2. \A j \in ks : Precedes(rows, sort, j, a) => Precedes(rows, sort, j, b)
    BY <1>2, <1>5, <2>1, PrecedesOrders
  <2>3. Ahead(rows, sort, ks, a) \in SUBSET Ahead(rows, sort, ks, b) /\ Ahead(rows, sort, ks, b) \in SUBSET ks
    BY <2>2 DEF Ahead
  <2>4. a \in Ahead(rows, sort, ks, b) /\ a \notin Ahead(rows, sort, ks, a)
    BY <1>2, <1>5 DEF Ahead
  <2> QED
    BY <1>1, <2>3, <2>4
<1> QED
  BY <1>4, <1>5

LEMMA AheadTells ==
  ASSUME NEW sort \in Sorts, NEW rows \in Table, NEW ks \in SUBSET Keys, \A k \in ks : rows[k] # Nil,
         NEW a \in ks, NEW b \in ks,
         Cardinality(Ahead(rows, sort, ks, a)) = Cardinality(Ahead(rows, sort, ks, b))
  PROVE  a = b
<1> SUFFICES ASSUME a # b
             PROVE  FALSE
  OBVIOUS
<1>1. Precedes(rows, sort, a, b) \/ Precedes(rows, sort, b, a)
  BY PrecedesOrders
<1>2. /\ Cardinality(Ahead(rows, sort, ks, a)) \in 0 .. Cardinality(ks) - 1
      /\ \/ Cardinality(Ahead(rows, sort, ks, a)) < Cardinality(Ahead(rows, sort, ks, b))
         \/ Cardinality(Ahead(rows, sort, ks, b)) < Cardinality(Ahead(rows, sort, ks, a))
  BY <1>1, AheadCounts
<1>3. Cardinality(ks) \in Nat
  BY KeysFinite
<1> QED
  BY <1>2, <1>3

\* An ordered answer is a sequence of its rows, each once.
LEMMA OrderLists ==
  ASSUME NEW sort \in Sorts, NEW rows \in Table, NEW ks \in SUBSET Keys, \A k \in ks : rows[k] # Nil
  PROVE  /\ Order(rows, sort, ks) \in Seq(ks) /\ Order(rows, sort, ks) \in [1 .. Cardinality(ks) -> ks]
         /\ Len(Order(rows, sort, ks)) = Cardinality(ks)
         /\ Len(Order(rows, sort, ks)) \in 0 .. Rows
         /\ \A i \in 1 .. Len(Order(rows, sort, ks)) :
              /\ Order(rows, sort, ks)[i] \in ks
              /\ Cardinality(Ahead(rows, sort, ks, Order(rows, sort, ks)[i])) = i - 1
         /\ \A k \in ks : \E i \in 1 .. Len(Order(rows, sort, ks)) : Order(rows, sort, ks)[i] = k
<1> DEFINE n == Cardinality(ks)
           Count(k) == Cardinality(Ahead(rows, sort, ks, k))
           f == [k \in ks |-> Count(k)]
           o == Order(rows, sort, ks)
<1>1. n \in Nat /\ n \in 0 .. Rows /\ IsFiniteSet(ks)
  BY KeysFinite
<1>2. f \in Injection(ks, 0 .. n - 1)
  <2>1. f \in [ks -> 0 .. n - 1]
    BY AheadCounts
  <2>2. \A a, b \in ks : f[a] = f[b] => a = b
    BY AheadTells
  <2> QED
    BY <2>1, <2>2 DEF Injection, IsInjective
<1>3. f \in Surjection(ks, 0 .. n - 1)
  <2>1. IsFiniteSet(0 .. n - 1) /\ Cardinality(0 .. n - 1) = n
    BY <1>1, FS_Interval
  <2> HIDE DEF f
  <2> QED
    BY <1>2, <2>1, FS_Injection
<1>4. ASSUME NEW i \in 1 .. n
      PROVE  \E k \in ks : Count(k) = i - 1
  <2>1. i - 1 \in 0 .. n - 1
    BY <1>1
  <2> QED
    BY <1>3, <2>1 DEF Surjection
<1>5. o = [i \in 1 .. n |-> CHOOSE k \in ks : Count(k) = i - 1]
  BY DEF Order, Ahead
<1> HIDE DEF Count, f, o
<1>6. ASSUME NEW i \in 1 .. n
      PROVE  o[i] \in ks /\ Count(o[i]) = i - 1
  BY <1>4, <1>5
<1>7. o \in [1 .. n -> ks] /\ Len(o) = n /\ o \in Seq(ks)
  BY <1>1, <1>5, <1>6
<1>8. ASSUME NEW k \in ks
      PROVE  \E i \in 1 .. n : o[i] = k
  <2>1. Count(k) + 1 \in 1 .. n /\ (Count(k) + 1) - 1 = Count(k)
    BY <1>1, AheadCounts DEF Count
  <2>2. o[Count(k) + 1] \in ks /\ Count(o[Count(k) + 1]) = Count(k)
    BY <1>6, <2>1
  <2>3. o[Count(k) + 1] = k
    BY <2>2, AheadTells DEF Count
  <2> QED
    BY <2>1, <2>3
<1> QED
  BY <1>1, <1>6, <1>7, <1>8 DEF Count, o

LEMMA EqualFunctions ==
  ASSUME NEW S, NEW T, NEW f \in [S -> T], NEW g \in [S -> T], \A i \in S : f[i] = g[i]
  PROVE  f = g
OBVIOUS

\* The order depends on the rows' forms only.
LEMMA OrderSame ==
  ASSUME NEW sort \in Sorts, NEW b \in Table, NEW m \in Table, NEW ks \in SUBSET Keys,
         \A k \in ks : b[k] # Nil /\ m[k] # Nil /\ b[k].form = m[k].form
  PROVE  Order(b, sort, ks) = Order(m, sort, ks)
<1> DEFINE n == Cardinality(ks)
<1>1. \A a \in ks : Ahead(b, sort, ks, a) = Ahead(m, sort, ks, a)
  BY DEF Ahead, Precedes
<1>2. ASSUME NEW i \in 1 .. n
      PROVE  Order(b, sort, ks)[i] = Order(m, sort, ks)[i]
  <2>1. /\ Order(b, sort, ks)[i] \in ks /\ Cardinality(Ahead(b, sort, ks, Order(b, sort, ks)[i])) = i - 1
        /\ Order(m, sort, ks)[i] \in ks /\ Cardinality(Ahead(m, sort, ks, Order(m, sort, ks)[i])) = i - 1
    BY OrderLists
  <2> QED
    BY <1>1, <2>1, AheadTells
<1>3. Order(b, sort, ks) \in [1 .. n -> ks] /\ Order(m, sort, ks) \in [1 .. n -> ks]
  BY OrderLists
<1> DEFINE f == Order(b, sort, ks)
           g == Order(m, sort, ks)
           S == 1 .. n
<1> HIDE DEF n, f, g, S
<1>4. f \in [S -> ks] /\ g \in [S -> ks] /\ (\A i \in S : f[i] = g[i])
  BY <1>2, <1>3 DEF f, g, S
<1>5. f = g
  BY <1>4, EqualFunctions
<1> QED
  BY <1>5 DEF f, g

LEMMA ProductGrows ==
  ASSUME NEW a \in Nat, NEW b \in Nat, NEW s \in Nat, a <= b
  PROVE  s * a \in Nat /\ s * b \in Nat /\ s * a <= s * b
OBVIOUS

\* What a slice of an answer holds.
LEMMA SliceRange ==
  ASSUME NEW S, NEW s \in Seq(S), NEW p \in Nat, NEW q \in Nat, p <= q, q <= Len(s)
  PROVE  Range(SubSeq(s, p + 1, q)) = {s[t] : t \in p + 1 .. q}
<1>1. SubSeq(s, p + 1, q) = [i \in 1 .. q - p |-> s[p + i]]
  OBVIOUS
<1>2. /\ DOMAIN SubSeq(s, p + 1, q) = 1 .. q - p
      /\ \A i \in 1 .. q - p : SubSeq(s, p + 1, q)[i] = s[p + i]
  BY <1>1
<1>3. ASSUME NEW t \in p + 1 .. q
      PROVE  s[t] \in Range(SubSeq(s, p + 1, q))
  <2>1. t - p \in 1 .. q - p /\ p + (t - p) = t
    OBVIOUS
  <2> QED
    BY <1>2, <2>1 DEF Range
<1>4. ASSUME NEW i \in 1 .. q - p
      PROVE  p + i \in p + 1 .. q
  OBVIOUS
<1> QED
  BY <1>2, <1>3, <1>4 DEF Range

LEMMA EmptySlice ==
  ASSUME NEW S, NEW s \in Seq(S), NEW p \in Nat, NEW q \in Nat, q < p
  PROVE  SubSeq(s, p, q) = << >> /\ Range(SubSeq(s, p, q)) = {}
<1>1. SubSeq(s, p, q) = << >>
  OBVIOUS
<1> QED
  BY <1>1 DEF Range

\* Page i of n results of the given size.
InPage(n, i, size) == {t \in 1 .. n : size * (i - 1) < t /\ t <= size * i}

LEMMA PageSlice ==
  ASSUME NEW n \in Nat, NEW i \in Nat \ {0}, NEW size \in Nat \ {0}
  PROVE  /\ Page(n, i, size)[1] \in Nat /\ Page(n, i, size)[2] \in Nat
         /\ Page(n, i, size)[1] <= Page(n, i, size)[2] /\ Page(n, i, size)[2] <= n
         /\ Page(n, i, size)[1] + 1 .. Page(n, i, size)[2] = InPage(n, i, size)
<1> DEFINE lo == size * (i - 1)
           hi == size * i
<1>1. lo \in Nat /\ hi \in Nat /\ lo <= hi
  <2>1. i - 1 \in Nat /\ i \in Nat /\ i - 1 <= i /\ size \in Nat
    OBVIOUS
  <2> QED
    BY <2>1, ProductGrows
<1>2. Page(n, i, size) = IF n < lo THEN <<0, 0>> ELSE <<lo, IF n < hi THEN n ELSE hi>>
  BY DEF Page
<1>3. InPage(n, i, size) = {t \in 1 .. n : lo < t /\ t <= hi}
  BY DEF InPage
<1> HIDE DEF lo, hi
<1>4. CASE n < lo
  BY <1>1, <1>2, <1>3, <1>4
<1>5. CASE lo <= n /\ n < hi
  <2>1. Page(n, i, size)[1] = lo /\ Page(n, i, size)[2] = n
    BY <1>1, <1>2, <1>5
  <2> QED
    BY <1>1, <1>3, <1>5, <2>1
<1>6. CASE lo <= n /\ hi <= n
  <2>1. Page(n, i, size)[1] = lo /\ Page(n, i, size)[2] = hi
    BY <1>1, <1>2, <1>6
  <2> QED
    BY <1>1, <1>3, <1>6, <2>1
<1> QED
  BY <1>1, <1>4, <1>5, <1>6

\* Each result is on one page and on no other.
LEMMA OnePage ==
  ASSUME NEW n \in Nat, NEW size \in Nat \ {0}, NEW t \in 1 .. n, n <= Rows
  PROVE  \E i \in 1 .. Rows + 1 : t \in InPage(n, i, size)
<1> DEFINE S == {i \in Keys : t <= size * i}
<1>0. Rows \in Nat /\ Keys = 1 .. Rows
  BY DaoAssumption DEF Keys
<1>1. t \in S
  <2>1. 1 \in Nat /\ size \in Nat /\ 1 <= size /\ t \in Nat
    OBVIOUS
  <2>2. t * 1 <= t * size
    BY <2>1, ProductGrows
  <2>3. t * size = size * t /\ t * 1 = t
    BY <2>1
  <2>4. t \in Keys
    BY <1>0
  <2> QED
    BY <2>1, <2>2, <2>3, <2>4
<1>2. PICK i \in S : \A j \in S : i <= j
  <2>1. S \in SUBSET Keys /\ S # {}
    BY <1>1
  <2> HIDE DEF S
  <2> QED
    BY <2>1, LeastKey
<1>3. i \in 1 .. Rows /\ t <= size * i
  BY <1>0, <1>2
<1>4. size * (i - 1) < t
  <2>1. CASE i = 1
    <3>1. size * (i - 1) = 0
      BY <2>1
    <3> QED
      BY <3>1
  <2>2. CASE i # 1
    <3>1. i - 1 \in Keys /\ i - 1 < i
      BY <1>0, <1>3, <2>2
    <3>2. i - 1 \notin S
      BY <1>2, <1>3, <3>1
    <3>3. ~(t <= size * (i - 1))
      BY <3>1, <3>2
    <3>4. size * (i - 1) \in Nat
      BY <1>0, <3>1, ProductGrows
    <3> QED
      BY <3>3, <3>4
  <2> QED
    BY <2>1, <2>2
<1> QED
  BY <1>0, <1>3, <1>4 DEF InPage

LEMMA PagesApart ==
  ASSUME NEW n \in Nat, NEW size \in Nat \ {0}, NEW i \in Nat \ {0}, NEW j \in Nat \ {0},
         NEW t \in InPage(n, i, size), t \in InPage(n, j, size)
  PROVE  i = j
<1>1. ASSUME NEW a \in Nat \ {0}, NEW b \in Nat \ {0}, a < b,
             t \in InPage(n, a, size), t \in InPage(n, b, size)
      PROVE  FALSE
  <2>1. a \in Nat /\ b - 1 \in Nat /\ a <= b - 1 /\ size \in Nat
    BY <1>1
  <2>2. size * a \in Nat /\ size * (b - 1) \in Nat /\ size * a <= size * (b - 1)
    BY <2>1, ProductGrows
  <2>3. t \in Nat /\ t <= size * a /\ size * (b - 1) < t
    BY <1>1 DEF InPage
  <2> QED
    BY <2>2, <2>3
<1>2. i < j \/ j < i \/ i = j
  OBVIOUS
<1> QED
  BY <1>1, <1>2

\* Bolt's pages of a search, put together, are its answer.
Found(w) == {k \in Keys : bolt[k] # Nil /\ BoltMatches(bolt[k], w)}

LEMMA BoltPage ==
  ASSUME DaoTypeOK, NEW w, NEW size \in 1 .. Rows, NEW i \in 1 .. Rows + 1,
         coll \in {"user", "chart", "event"}
  PROVE  LET o == Order(bolt, BoltSort, Found(w))
         IN  Range(BoltSearch(bolt, w, i, size)) = {o[t] : t \in InPage(Len(o), i, size)}
<1> DEFINE o == Order(bolt, BoltSort, Found(w))
           p == Page(Len(o), i, size)
<1>1. o \in Seq(Found(w)) /\ Len(o) \in Nat
  BY OrderLists, SortKinds DEF Found, DaoTypeOK
<1>2. BoltSearch(bolt, w, i, size) = SubSeq(o, p[1] + 1, p[2])
  BY DEF BoltSearch, Found
<1>3. i \in Nat \ {0} /\ size \in Nat \ {0}
  BY DaoAssumption
<1>4. /\ p[1] \in Nat /\ p[2] \in Nat /\ p[1] <= p[2] /\ p[2] <= Len(o)
      /\ p[1] + 1 .. p[2] = InPage(Len(o), i, size)
  BY <1>1, <1>3, PageSlice
<1> DEFINE from == p[1]
           to == p[2]
<1> HIDE DEF o, p, from, to
<1>5. from \in Nat /\ to \in Nat /\ from <= to /\ to <= Len(o)
  BY <1>4 DEF from, to
<1>6. Range(SubSeq(o, from + 1, to)) = {o[t] : t \in from + 1 .. to}
  BY <1>1, <1>5, SliceRange
<1> QED
  BY <1>2, <1>4, <1>6 DEF o, from, to

LEMMA PagesCover ==
  ASSUME DaoTypeOK, NEW w, NEW size \in 1 .. Rows, coll \in {"user", "chart", "event"}
  PROVE  /\ UNION {Range(BoltSearch(bolt, w, i, size)) : i \in 1 .. Rows + 1} = Found(w)
         /\ \A i, j \in 1 .. Rows + 1 : i # j =>
              Range(BoltSearch(bolt, w, i, size)) \cap Range(BoltSearch(bolt, w, j, size)) = {}
<1> DEFINE o == Order(bolt, BoltSort, Found(w))
           n == Len(o)
           OnPage(i) == Range(BoltSearch(bolt, w, i, size))
<1>1. /\ n \in 0 .. Rows
      /\ \A t \in 1 .. n : o[t] \in Found(w) /\ Cardinality(Ahead(bolt, BoltSort, Found(w), o[t])) = t - 1
      /\ \A k \in Found(w) : \E t \in 1 .. n : o[t] = k
  <2>1. /\ bolt \in Table /\ BoltSort \in Sorts
        /\ Found(w) \in SUBSET Keys /\ \A k \in Found(w) : bolt[k] # Nil
    BY SortKinds DEF Found, DaoTypeOK
  <2> QED
    BY <2>1, OrderLists
<1>2. \A i \in 1 .. Rows + 1 : OnPage(i) = {o[t] : t \in InPage(n, i, size)}
  BY BoltPage
<1>3. size \in Nat \ {0} /\ n \in Nat /\ n <= Rows /\ Rows \in Nat
  BY <1>1, DaoAssumption
<1> HIDE DEF o, OnPage
<1>4. ASSUME NEW i \in 1 .. Rows + 1, NEW k \in OnPage(i)
      PROVE  k \in Found(w)
  BY <1>1, <1>2, <1>4 DEF InPage
<1>5. ASSUME NEW k \in Found(w)
      PROVE  \E i \in 1 .. Rows + 1 : k \in OnPage(i)
  <2>1. PICK t \in 1 .. n : o[t] = k
    BY <1>1
  <2>2. PICK i \in 1 .. Rows + 1 : t \in InPage(n, i, size)
    BY <1>3, OnePage
  <2> QED
    BY <1>2, <2>1, <2>2
<1>6. ASSUME NEW i \in 1 .. Rows + 1, NEW j \in 1 .. Rows + 1, NEW k,
             k \in OnPage(i), k \in OnPage(j)
      PROVE  i = j
  <2>1. PICK t \in InPage(n, i, size) : k = o[t]
    BY <1>2, <1>6
  <2>2. PICK u \in InPage(n, j, size) : k = o[u]
    BY <1>2, <1>6
  <2>3. t \in 1 .. n /\ u \in 1 .. n
    BY DEF InPage
  <2>4. t = u
    <3>1. t - 1 = u - 1
      BY <1>1, <2>1, <2>2, <2>3
    <3> QED
      BY <1>3, <2>3, <3>1
  <2>5. i \in Nat \ {0} /\ j \in Nat \ {0}
    BY <1>3
  <2> QED
    BY <1>3, <2>4, <2>5, PagesApart
<1>7. UNION {OnPage(i) : i \in 1 .. Rows + 1} = Found(w)
  BY <1>4, <1>5
<1>8. \A i, j \in 1 .. Rows + 1 : i # j => OnPage(i) \cap OnPage(j) = {}
  BY <1>6
<1> QED
  BY <1>7, <1>8 DEF OnPage

\* Both engines sort the charts by the same date: a page is the same page on both.
LEMMA ChartPages ==
  ASSUME DaoTypeOK, EnginesInv, coll = "chart", NEW size \in 1 .. Rows, NEW i \in 1 .. Rows + 1
  PROVE  BoltSearch(bolt, Empty, i, size) = MongoSearch(mongo, Empty, i, size)
<1> DEFINE ks == {k \in Keys : bolt[k] # Nil}
           o == Order(bolt, "newest", ks)
           n == Len(o)
           lo == size * (i - 1)
           hi == size * i
<1>1. \A k \in Keys : Alike(bolt[k], mongo[k])
  BY DEF EnginesInv, UniqueNames, Paired
<1>2. \A k \in Keys : (bolt[k] # Nil <=> mongo[k] # Nil)
  BY <1>1 DEF Alike
<1>3. \A k \in ks : mongo[k] # Nil /\ bolt[k].form = mongo[k].form
  <2>1. "form" \in Common
    BY DEF Common
  <2>2. \A k \in ks : bolt[k]["form"] = mongo[k]["form"]
    BY <1>1, <1>2, <2>1 DEF Alike, Near
  <2> QED
    BY <1>2, <2>2
<1>4. o = Order(mongo, "newest", ks)
  BY <1>3, OrderSame, SortKinds DEF DaoTypeOK
<1>5. /\ {k \in Keys : bolt[k] # Nil /\ BoltMatches(bolt[k], Empty)} = ks
      /\ {k \in Keys : mongo[k] # Nil /\ MongoMatches(mongo[k], Empty)} = ks
  BY <1>2 DEF BoltMatches, MongoMatches
<1>6. o \in Seq(ks) /\ n \in Nat
  BY OrderLists, SortKinds DEF DaoTypeOK
<1>7. lo \in Nat /\ hi \in Nat /\ lo <= hi
  <2>1. i - 1 \in Nat /\ i \in Nat /\ i - 1 <= i /\ size \in Nat
    BY DaoAssumption
  <2> QED
    BY <2>1, ProductGrows
<1>8. MongoSearch(mongo, Empty, i, size) = SubSeq(o, lo + 1, IF n < hi THEN n ELSE hi)
  BY <1>4, <1>5 DEF MongoSearch, MongoSort
<1>9. /\ Page(n, i, size) = (IF n < lo THEN <<0, 0>> ELSE <<lo, IF n < hi THEN n ELSE hi>>)
      /\ BoltSearch(bolt, Empty, i, size) = SubSeq(o, Page(n, i, size)[1] + 1, Page(n, i, size)[2])
  BY <1>5 DEF BoltSearch, BoltSort, Page
<1> HIDE DEF o, ks, n, lo, hi
<1>10. CASE n < lo
  <2>1. BoltSearch(bolt, Empty, i, size) = SubSeq(o, 1, 0)
    BY <1>9, <1>10
  <2>2. MongoSearch(mongo, Empty, i, size) = SubSeq(o, lo + 1, n)
    BY <1>6, <1>7, <1>8, <1>10
  <2>3. SubSeq(o, 1, 0) = << >> /\ SubSeq(o, lo + 1, n) = << >>
    BY <1>6, <1>7, <1>10, EmptySlice
  <2> QED
    BY <2>1, <2>2, <2>3
<1>11. CASE ~(n < lo)
  <2> DEFINE last == IF n < hi THEN n ELSE hi
  <2>1. Page(n, i, size)[1] = lo /\ Page(n, i, size)[2] = last
    BY <1>9, <1>11
  <2> HIDE DEF last
  <2>2. BoltSearch(bolt, Empty, i, size) = SubSeq(o, lo + 1, last)
    BY <1>9, <2>1
  <2> QED
    BY <1>8, <2>2 DEF last
<1> QED
  BY <1>10, <1>11

\* Mongo's answer is found on Bolt.
LEMMA MongoFinds ==
  ASSUME DaoTypeOK, EnginesInv, ~dup, coll \in Searchable, NEW w \in Words \cup {Empty},
         coll = "vault_secret" => w \in Plain \cup {Empty},
         NEW size \in 1 .. Rows, NEW i \in 1 .. Rows
  PROVE  Range(MongoSearch(mongo, w, i, size)) \subseteq Found(w)
<1> DEFINE ks == {k \in Keys : mongo[k] # Nil /\ MongoMatches(mongo[k], w)}
           o == Order(mongo, MongoSort, ks)
           n == Len(o)
           lo == size * (i - 1)
           hi == size * i
           last == IF n < hi THEN n ELSE hi
<1>1. ks \subseteq Found(w)
  <2> SUFFICES ASSUME NEW k \in ks
               PROVE  k \in Found(w)
    OBVIOUS
  <2>1. Alike(bolt[k], mongo[k])
    BY DEF EnginesInv, Searchable, Paired
  <2>2. "name" \in Common
    BY DEF Common, Searchable, Blank
  <2>3. bolt[k] # Nil /\ bolt[k]["name"] = mongo[k]["name"]
    BY <2>1, <2>2 DEF Alike, Near
  <2>4. bolt[k].name = mongo[k].name
    BY <2>3
  <2>5. mongo[k] # Nil /\ MongoMatches(mongo[k], w)
    OBVIOUS
  <2>n. mongo[k].name \in Names
    BY <2>5 DEF DaoTypeOK, Table, Rec, Searchable, HasName
  <2>6. w = Empty \/ w \in Part[bolt[k].name]
    <3>1. CASE w = Empty
      BY <3>1
    <3>2. CASE w # Empty /\ coll = "vault_secret"
      <4>1. w \in Hits[mongo[k].name] /\ w \in Plain
        BY <2>5, <3>2 DEF MongoMatches
      <4> QED
        BY <2>4, <2>n, <4>1, DaoAssumption
    <3>3. CASE w # Empty /\ coll # "vault_secret"
      <4>1. w = mongo[k].name /\ w \in Names \cap Words
        BY <2>5, <2>n, <3>3 DEF MongoMatches
      <4> QED
        BY <2>4, <4>1, DaoAssumption
    <3> QED
      BY <3>1, <3>2, <3>3
  <2> QED
    BY <2>3, <2>6 DEF Found, BoltMatches
<1>2. o \in Seq(ks) /\ n \in Nat
  BY OrderLists, SortKinds DEF DaoTypeOK
<1>3. lo \in Nat /\ hi \in Nat /\ lo <= hi
  <2>1. i - 1 \in Nat /\ i \in Nat /\ i - 1 <= i /\ size \in Nat
    BY DaoAssumption
  <2> QED
    BY <2>1, ProductGrows
<1>4. MongoSearch(mongo, w, i, size) = IF coll = "role" THEN o ELSE SubSeq(o, lo + 1, last)
  BY DEF MongoSearch
<1> HIDE DEF lo, hi, ks, o
<1>5. Range(o) \subseteq ks
  BY <1>2 DEF Range
<1>6. Range(SubSeq(o, lo + 1, last)) \subseteq ks
  <2>1. CASE last < lo + 1
    BY <1>2, <1>3, <2>1, EmptySlice
  <2>2. CASE ~(last < lo + 1)
    <3>1. last \in Nat /\ lo <= last /\ last <= n
      BY <1>2, <1>3, <2>2
    <3>2. Range(SubSeq(o, lo + 1, last)) = {o[t] : t \in lo + 1 .. last}
      <4>1. o \in Seq(ks) /\ lo \in Nat /\ last \in Nat /\ lo <= last /\ last <= Len(o)
        BY <1>2, <1>3, <3>1
      <4> HIDE DEF last, n
      <4> QED
        BY <4>1, SliceRange
    <3>3. \A t \in lo + 1 .. last : t \in 1 .. n /\ o[t] \in ks
      BY <1>2, <1>3, <3>1
    <3> QED
      BY <3>2, <3>3
  <2> QED
    BY <2>1, <2>2
<1> QED
  BY <1>1, <1>4, <1>5, <1>6

\* Every page of a search together is the whole answer and no row comes twice; all charts
\* come in the same pages from both engines; and Mongo finds nothing that Bolt does not,
\* but for words that say more to a $regex than their letters: SearchesAgree of the run.
THEOREM SearchesAlwaysAgree == Spec => []SearchesAgree
<1>1. ASSUME DaoTypeOK, EnginesInv
      PROVE  SearchesAgree
  <2> SUFFICES ASSUME coll \in Searchable, NEW w \in Words \cup {Empty}, NEW size \in 1 .. Rows
               PROVE  LET pages == [i \in 1 .. Rows + 1 |-> BoltSearch(bolt, w, i, size)]
                      IN  /\ coll \in {"user", "chart", "event"} =>
                               /\ UNION {Range(pages[i]) : i \in 1 .. Rows + 1} = Found(w)
                               /\ \A i, j \in 1 .. Rows + 1 :
                                    i # j => Range(pages[i]) \cap Range(pages[j]) = {}
                          /\ coll = "chart" /\ w = Empty =>
                               \A i \in 1 .. Rows + 1 : pages[i] = MongoSearch(mongo, w, i, size)
                          /\ ~dup /\ (coll = "vault_secret" => w \in Plain \cup {Empty}) =>
                               \A i \in 1 .. Rows : Range(MongoSearch(mongo, w, i, size)) \subseteq Found(w)
    BY DEF SearchesAgree, Found
  <2> DEFINE pages == [i \in 1 .. Rows + 1 |-> BoltSearch(bolt, w, i, size)]
  <2>1. \A i \in 1 .. Rows + 1 : pages[i] = BoltSearch(bolt, w, i, size)
    OBVIOUS
  <2> HIDE DEF pages
  <2>2. ASSUME coll \in {"user", "chart", "event"}
        PROVE  /\ UNION {Range(pages[i]) : i \in 1 .. Rows + 1} = Found(w)
               /\ \A i, j \in 1 .. Rows + 1 : i # j => Range(pages[i]) \cap Range(pages[j]) = {}
    <3>1. {Range(pages[i]) : i \in 1 .. Rows + 1} =
            {Range(BoltSearch(bolt, w, i, size)) : i \in 1 .. Rows + 1}
      BY <2>1
    <3>2. \A i, j \in 1 .. Rows + 1 : i # j => Range(pages[i]) \cap Range(pages[j]) = {}
      BY <1>1, <2>1, <2>2, PagesCover
    <3> QED
      BY <1>1, <2>2, <3>1, <3>2, PagesCover
  <2>3. ASSUME coll = "chart", w = Empty
        PROVE  \A i \in 1 .. Rows + 1 : pages[i] = MongoSearch(mongo, w, i, size)
    BY <1>1, <2>1, <2>3, ChartPages
  <2>4. ASSUME ~dup, coll = "vault_secret" => w \in Plain \cup {Empty}
        PROVE  \A i \in 1 .. Rows : Range(MongoSearch(mongo, w, i, size)) \subseteq Found(w)
    BY <1>1, <2>4, MongoFinds
  <2> QED
    BY <2>2, <2>3, <2>4 DEF pages
<1>2. DaoTypeOK /\ EnginesInv => SearchesAgree
  BY <1>1
<1> QED
  BY <1>2, EnginesAlways, PTL

=============================================================================
