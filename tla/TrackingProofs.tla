---------------------------- MODULE TrackingProofs ----------------------------
(* Proofs about Tracking, for any users, items, open requests and bounds.    *)
(* The locks keep what an open transaction has read current, so its commit   *)
(* is one step of TrackingPromises; what its steps preserve is then an       *)
(* invariant of the service.                                                 *)
EXTENDS Tracking, FiniteSetTheorems, TLAPS

Kinds == {"ensure", "transition", "rate", "favorite", "unfavorite", "remove", "unrate"}

LEMMA CallShape ==
    ASSUME NEW call \in Calls
    PROVE  /\ call.kind \in Kinds
           /\ call.acked \in BOOLEAN
           /\ call.kind = "transition" => call.to \in Status
           /\ call.kind = "ensure" => call.to = "backlog"
           /\ call # View
<1>1. call.kind \in Kinds /\ View.kind = "view"
  BY DEF Calls, Kinds, View
<1>2. /\ call.acked \in BOOLEAN
      /\ call.kind = "transition" => call.to \in Status
      /\ call.kind = "ensure" => call.to = "backlog"
  BY DEF Calls
<1>3. QED
  BY <1>1, <1>2 DEF Kinds

LEMMA StatusSplit == Status \subseteq Status \cup {"untracked"}
                     /\ {"backlog", "completed"} \subseteq Status
                     /\ "untracked" \notin Status
  BY DEF Status

\* An entry is its three fields.
LEMMA EntryFields ==
    ASSUME NEW e, NEW f, e \in Entry, f \in Entry,
           e.status = f.status, e.favorite = f.favorite, e.rating = f.rating
    PROVE  e = f
  BY DEF Entry

LEMMA AfterType ==
    ASSUME NEW call \in Calls, NEW e \in Entry
    PROVE  /\ After(call, e) \in Entry
           /\ call.kind = "ensure" =>
                After(call, e) = [e EXCEPT !.status = IF e.status = "untracked"
                                                        THEN "backlog" ELSE e.status]
<1>1. e.status \in Status \cup {"untracked"} /\ e.favorite \in BOOLEAN
      /\ e.rating \in {"none", "active", "archived"}
  BY DEF Entry
<1>2. CASE call.kind = "ensure"
  <2>1. After(call, e) = IF e.status = "untracked" THEN [e EXCEPT !.status = "backlog"] ELSE e
    BY <1>2, CallShape DEF After
  <2>2. QED
    BY <1>1, <1>2, <2>1, StatusSplit DEF Entry
<1>3. CASE call.kind = "transition"
  <2>1. After(call, e) = Transitioned(e, call.to) /\ call.to \in Status
    BY <1>3, CallShape DEF After
  <2>2. QED
    BY <1>1, <1>3, <2>1 DEF Transitioned, Entry
<1>4. CASE call.kind = "rate"
  BY <1>1, <1>4, StatusSplit DEF After, Entry
<1>5. CASE call.kind = "favorite"
  BY <1>1, <1>5 DEF After, Entry
<1>6. CASE call.kind = "unfavorite"
  BY <1>1, <1>6 DEF After, Entry
<1>7. CASE call.kind = "remove"
  BY <1>1, <1>7 DEF After, Removed, Entry
<1>8. CASE call.kind = "unrate"
  BY <1>1, <1>8 DEF After, Entry
<1>9. QED
  BY <1>2, <1>3, <1>4, <1>5, <1>6, <1>7, <1>8, CallShape DEF Kinds

LEMMA MembershipType ==
    ASSUME NEW entries \in [Items -> Entry]
    PROVE  Membership(entries) \subseteq Collections \X Items
<1>1. ASSUME NEW i \in Items, entries[i].status # "untracked",
             NEW k \in {entries[i].status, TypeCollection(TypeOf[i])}
      PROVE  <<k, i>> \in Collections \X Items
  <2>1. TypeOf[i] \in Types
    BY ItemsAssumption
  <2>2. entries[i].status \in Status
    BY <1>1 DEF Entry
  <2>3. TypeCollection(TypeOf[i]) \in Collections
    BY <2>1 DEF Collections
  <2>4. QED
    BY <2>2, <2>3 DEF Collections
<1>2. ASSUME NEW c \in Membership(entries)
      PROVE  c \in Collections \X Items
  <2>1. PICK i \in {n \in Items : entries[n].status # "untracked"} :
          c \in {<<k, i>> : k \in {entries[i].status, TypeCollection(TypeOf[i])}}
    BY <1>2, Zenon DEF Membership
  <2>2. QED
    BY <1>1, <2>1
<1>3. QED
  BY <1>2

-----------------------------------------------------------------------------
\* What TypeOK says of one open transaction.
LEMMA OpenType ==
    ASSUME TypeOK, NEW p \in Requests, req[p].at # "idle"
    PROVE  /\ req[p] \in Transaction
           /\ req[p] # Idle
  BY DEF TypeOK, Idle

LEMMA OpenFields ==
    ASSUME NEW t \in Transaction
    PROVE  /\ t.user \in Users /\ t.item \in Items \cup {NoItem}
           /\ t.call \in Calls \cup {View} /\ t.read \in Entry
           /\ t.seen \subseteq Users
           /\ t.expected \subseteq Collections \X Items
           /\ t.stale \subseteq Collections \X Items
           /\ t.missing \subseteq Collections \X Items
           /\ t.call = View <=> t.item = NoItem
           /\ t.call # View => t.call \in Calls /\ t.item \in Items
           /\ t # Idle
  BY DEF Transaction, Idle

LEMMA TypeInit == Init => TypeOK
<1> SUFFICES ASSUME Init PROVE TypeOK
  OBVIOUS
<1>1. NoEntry \in Entry
  BY DEF NoEntry, Entry
<1>2. entry \in [Users -> [Items -> Entry]] /\ banner \in [Users -> Items \cup {NoItem}]
  BY <1>1 DEF Init
<1>3. /\ rows \in [Users -> SUBSET (Collections \X Items)]
      /\ counted \in [Items -> SUBSET Users]
      /\ req \in [Requests -> Transaction \cup {Idle}]
  BY DEF Init
<1>4. budget \in [calls : Nat, failures : Nat]
  BY BudgetAssumption DEF Init
<1>5. QED
  BY <1>2, <1>3, <1>4 DEF TypeOK

LEMMA TypeBeginCall ==
    ASSUME TypeOK, NEW p \in Requests, NEW u \in Users, NEW i \in Items,
           NEW call \in Calls, BeginCall(p, u, i, call)
    PROVE  TypeOK'
<1> DEFINE after == [entry[u] EXCEPT ![i] = After(call, @)]
           expected == IF Syncs(call) THEN Membership(after) ELSE {}
           t == [at |-> "saving", user |-> u, item |-> i, call |-> call,
                 read |-> entry[u][i], seen |-> {}, stale |-> {}, missing |-> {},
                 expected |-> expected]
<1>1. entry[u] \in [Items -> Entry] /\ entry[u][i] \in Entry
  BY DEF TypeOK
<1>2. after \in [Items -> Entry]
  BY <1>1, AfterType
<1>3. expected \subseteq Collections \X Items
  BY <1>2, MembershipType
<1> HIDE DEF after, expected
<1>4. /\ t \in Transaction
      /\ \A a \in {"saving", "reading", "ready"} : [t EXCEPT !.at = a] \in Transaction
  BY <1>1, <1>3, CallShape, ItemsAssumption DEF Transaction
<1> HIDE DEF t
<1>5. PICK a \in {"saving", "reading", "ready"} : req' = [req EXCEPT ![p] = [t EXCEPT !.at = a]]
  BY DEF BeginCall, t, expected, after
<1>6. req' \in [Requests -> Transaction \cup {Idle}]
  BY <1>4, <1>5 DEF TypeOK
<1>7. budget' \in [calls : Nat, failures : Nat] /\ UNCHANGED <<entry, banner, rows, counted>>
  BY DEF BeginCall, TypeOK
<1>8. QED
  BY <1>6, <1>7 DEF TypeOK

LEMMA TypeBeginView ==
    ASSUME TypeOK, NEW p \in Requests, NEW u \in Users, BeginView(p, u)
    PROVE  TypeOK'
<1> DEFINE t == [at |-> "reading", user |-> u, item |-> NoItem, call |-> View,
                 read |-> NoEntry, seen |-> {}, stale |-> {}, missing |-> {},
                 expected |-> Membership(entry[u])]
<1>1. NoEntry \in Entry
  BY DEF NoEntry, Entry
<1>2. Membership(entry[u]) \subseteq Collections \X Items
  BY MembershipType DEF TypeOK
<1>3. t \in Transaction
  BY <1>1, <1>2 DEF Transaction
<1>4. req' = [req EXCEPT ![p] = t] /\ UNCHANGED <<entry, banner, rows, counted, budget>>
  BY DEF BeginView
<1> HIDE DEF t
<1>5. QED
  BY <1>3, <1>4 DEF TypeOK

\* The steps between begin and commit change an open transaction only.
LEMMA TypeProceed ==
    ASSUME TypeOK, NEW p \in Requests, TakeSnapshot(p) \/ UpdateItem(p) \/ ReadRows(p)
    PROVE  TypeOK'
<1> DEFINE t == req[p]
<1>1. t \in Transaction
  BY OpenType DEF TakeSnapshot, UpdateItem, ReadRows
<1>2. UNCHANGED <<entry, banner, rows, counted, budget>>
  BY DEF TakeSnapshot, UpdateItem, ReadRows
<1>3. CASE TakeSnapshot(p)
  <2>1. PICK seen \in SUBSET Users :
          req' = [req EXCEPT ![p].at = "counting", ![p].seen = seen]
    BY <1>1, <1>3 DEF TakeSnapshot, Transaction
  <2>2. [t EXCEPT !.at = "counting", !.seen = seen] \in Transaction
    BY <1>1 DEF Transaction
  <2>3. req' = [req EXCEPT ![p] = [t EXCEPT !.at = "counting", !.seen = seen]]
    BY <2>1 DEF TypeOK
  <2>4. QED
    BY <1>2, <2>2, <2>3 DEF TypeOK
<1>4. CASE UpdateItem(p)
  <2>1. PICK a \in {"reading", "ready"} : req' = [req EXCEPT ![p].at = a]
    BY <1>4 DEF UpdateItem
  <2>2. [t EXCEPT !.at = a] \in Transaction
    BY <1>1 DEF Transaction
  <2>3. req' = [req EXCEPT ![p] = [t EXCEPT !.at = a]]
    BY <2>1 DEF TypeOK
  <2>4. QED
    BY <1>2, <2>2, <2>3 DEF TypeOK
<1>5. CASE ReadRows(p)
  <2> DEFINE n == [t EXCEPT !.at = "ready", !.stale = rows[t.user] \ t.expected,
                            !.missing = Missing(t)]
  <2>1. rows[t.user] \subseteq Collections \X Items /\ t.expected \subseteq Collections \X Items
    BY <1>1 DEF TypeOK, Transaction
  <2>2. n \in Transaction
    BY <1>1, <2>1 DEF Transaction, Missing
  <2>3. req' = [req EXCEPT ![p] = n]
    BY <1>5 DEF ReadRows, TypeOK
  <2> HIDE DEF n
  <2>4. QED
    BY <1>2, <2>2, <2>3 DEF TypeOK
<1>6. QED
  BY <1>3, <1>4, <1>5

LEMMA NewType ==
    ASSUME NEW t \in Transaction, t.call # View, NEW e \in Entry
    PROVE  LET new == After(t.call, t.read) IN
           [f \in DOMAIN e |-> IF f \in Writes(t) THEN new[f] ELSE e[f]] \in Entry
<1> DEFINE new == After(t.call, t.read)
           n == [f \in DOMAIN e |-> IF f \in Writes(t) THEN new[f] ELSE e[f]]
<1>1. new \in Entry
  BY OpenFields, AfterType
<1> HIDE DEF new
<1>2. DOMAIN e = {"status", "favorite", "rating"}
  BY DEF Entry
<1>3. /\ n.status \in {new.status, e.status}
      /\ n.favorite \in {new.favorite, e.favorite}
      /\ n.rating \in {new.rating, e.rating}
  BY <1>2
<1>4. n = [status |-> n.status, favorite |-> n.favorite, rating |-> n.rating]
  BY <1>2
<1> HIDE DEF n
<1>5. n \in Entry
  BY <1>1, <1>3, <1>4 DEF Entry
<1>6. QED
  BY <1>5 DEF n, new

LEMMA TypeCommit ==
    ASSUME TypeOK, NEW p \in Requests, Commit(p)
    PROVE  TypeOK'
<1> DEFINE t == req[p]
           new == After(t.call, t.read)
           old == entry[t.user][t.item]
           n == [f \in DOMAIN old |-> IF f \in Writes(t) THEN new[f] ELSE old[f]]
<1>1. t \in Transaction
  BY OpenType DEF Commit
<1>2. entry' \in [Users -> [Items -> Entry]] /\ banner' \in [Users -> Items \cup {NoItem}]
  <2>1. CASE t.call = View
    BY <2>1 DEF Commit, TypeOK
  <2>2. CASE t.call # View
    <3>1. t.user \in Users /\ t.item \in Items /\ old \in Entry
      BY <1>1, <2>2, OpenFields DEF TypeOK
    <3>2. n \in Entry
      BY <1>1, <2>2, <3>1, NewType
    <3>3. entry' = [entry EXCEPT ![t.user][t.item] = n]
      BY <2>2 DEF Commit
    <3>4. banner' \in [Users -> Items \cup {NoItem}]
      BY <2>2 DEF Commit, TypeOK
    <3> HIDE DEF n
    <3>5. QED
      BY <3>1, <3>2, <3>3, <3>4 DEF TypeOK
  <2>3. QED
    BY <2>1, <2>2
<1>3. /\ t.user \in Users /\ t.seen \subseteq Users
      /\ t.stale \subseteq Collections \X Items /\ t.missing \subseteq Collections \X Items
  BY <1>1, OpenFields
<1>4. rows' \in [Users -> SUBSET (Collections \X Items)] /\ counted' \in [Items -> SUBSET Users]
  BY <1>3 DEF Commit, TypeOK
<1>5. ASSUME NEW q \in Requests
      PROVE  req'[q] \in Transaction \cup {Idle}
  <2>1. req'[q] \in {Idle, req[q], [req[q] EXCEPT !.stale = @ \ t.stale]}
        /\ (req'[q] # Idle => req[q] # Idle)
    BY DEF Commit
  <2>2. req[q] \in Transaction \cup {Idle}
    BY DEF TypeOK
  <2>3. req[q] \in Transaction => [req[q] EXCEPT !.stale = @ \ t.stale] \in Transaction
    BY DEF Transaction
  <2>4. QED
    BY <2>1, <2>2, <2>3
<1>6. req' \in [Requests -> Transaction \cup {Idle}]
  <2>1. req' = [q \in Requests |-> req'[q]]
    BY DEF Commit
  <2>2. QED
    BY <1>5, <2>1
<1>7. budget' = budget
  BY DEF Commit
<1>8. QED
  BY <1>2, <1>4, <1>6, <1>7 DEF TypeOK

LEMMA TypeRest ==
    ASSUME TypeOK,
           \/ \E p \in Requests : Conflict(p) \/ Fail(p)
           \/ \E u \in Users, i \in Items \cup {NoItem} : ChooseBanner(u, i)
    PROVE  TypeOK'
<1>1. CASE \E p \in Requests : Conflict(p) \/ Fail(p)
  <2>1. PICK p \in Requests : Conflict(p) \/ Fail(p)
    BY <1>1
  <2>2. budget' \in [calls : Nat, failures : Nat]
    BY <2>1 DEF Conflict, Fail, TypeOK
  <2>3. req' = [req EXCEPT ![p] = Idle] /\ UNCHANGED <<entry, banner, rows, counted>>
    BY <2>1 DEF Conflict, Fail, Rollback
  <2>4. QED
    BY <2>2, <2>3 DEF TypeOK
<1>2. CASE \E u \in Users, i \in Items \cup {NoItem} : ChooseBanner(u, i)
  BY <1>2 DEF ChooseBanner, TypeOK
<1>3. QED
  BY <1>1, <1>2

LEMMA TypeNext == TypeOK /\ [Next]_vars => TypeOK'
<1> SUFFICES ASSUME TypeOK, [Next]_vars PROVE TypeOK'
  OBVIOUS
<1>1. ASSUME NEW p \in Requests, NEW u \in Users, NEW i \in Items, NEW call \in Calls,
             BeginCall(p, u, i, call)
      PROVE  TypeOK'
  BY <1>1, TypeBeginCall
<1>2. ASSUME NEW p \in Requests, NEW u \in Users, BeginView(p, u)
      PROVE  TypeOK'
  BY <1>2, TypeBeginView
<1>3. ASSUME NEW p \in Requests, TakeSnapshot(p) \/ UpdateItem(p) \/ ReadRows(p)
      PROVE  TypeOK'
  BY <1>3, TypeProceed
<1>4. ASSUME NEW p \in Requests, Commit(p)
      PROVE  TypeOK'
  BY <1>4, TypeCommit
<1>5. ASSUME \/ \E p \in Requests : Conflict(p) \/ Fail(p)
             \/ \E u \in Users, i \in Items \cup {NoItem} : ChooseBanner(u, i)
      PROVE  TypeOK'
  BY <1>5, TypeRest
<1>6. CASE UNCHANGED vars
  BY <1>6 DEF vars, TypeOK
<1>7. QED
  BY <1>1, <1>2, <1>3, <1>4, <1>5, <1>6 DEF Next, Proceed

\* Every variable keeps its type: tracking_service never writes a row that its
\* models could not hold.
THEOREM TypeCorrect == Spec => []TypeOK
BY TypeInit, TypeNext, PTL DEF Spec
-----------------------------------------------------------------------------
(* The inductive invariant: requests that want the same lock exclude each    *)
(* other, and what an open request has read and was accepted on still holds  *)
(* of what is committed, as far as its locks reach.  A rating that its owner *)
(* deletes meanwhile is the only thing that a holder of the user's lock may  *)
(* find gone.                                                                *)

Open(p) == req[p] # Idle /\ req[p].call # View

Exclude(p, q) ==
    /\ ~(LocksUser(req[p].call) /\ LocksUser(req[q].call))
    /\ req[p].item = req[q].item =>
         ~(LocksRating(req[p].call, req[p].read) /\ LocksRating(req[q].call, req[q].read))

Exclusive ==
    \A p, q \in Requests :
      p # q /\ Open(p) /\ Open(q) /\ req[p].user = req[q].user => Exclude(p, q)

Current(t, e) ==
    /\ LocksUser(t.call) => /\ e.status = t.read.status
                            /\ e.favorite = t.read.favorite
                            /\ e.rating \in {t.read.rating, "none"}
    /\ LocksRating(t.call, t.read) => e.rating = t.read.rating

Agreed(p) ==
    /\ Current(req[p], entry[req[p].user][req[p].item])
    /\ Accepts(entry[req[p].user], req[p].item, req[p].call)

Locks == Exclusive /\ \A p \in Requests : Open(p) => Agreed(p)

LEMMA LocksInit == Init => Locks
  BY DEF Init, Locks, Exclusive, Open

\* A step keeps the invariant if it writes no entry and every request either
\* keeps what it has decided on or is a call no more.
LEMMA LocksKept ==
    ASSUME Locks, entry' = entry,
           \A q \in Requests :
             Open(q)' => /\ Open(q)
                         /\ req'[q].user = req[q].user /\ req'[q].item = req[q].item
                         /\ req'[q].call = req[q].call /\ req'[q].read = req[q].read
    PROVE  Locks'
<1>1. ASSUME NEW q \in Requests, Open(q)' PROVE Agreed(q)'
  <2>1. /\ Agreed(q)
        /\ req'[q].user = req[q].user /\ req'[q].item = req[q].item
        /\ req'[q].call = req[q].call /\ req'[q].read = req[q].read
    BY <1>1 DEF Locks
  <2>2. QED
    BY <2>1 DEF Agreed, Current
<1>2. Exclusive'
  BY DEF Locks, Exclusive, Exclude
<1>3. QED
  BY <1>1, <1>2 DEF Locks

LEMMA LocksBeginCall ==
    ASSUME TypeOK, Locks, NEW p \in Requests, NEW u \in Users, NEW i \in Items,
           NEW call \in Calls, BeginCall(p, u, i, call)
    PROVE  Locks'
<1>1. /\ req'[p] # Idle /\ req'[p].user = u /\ req'[p].item = i
      /\ req'[p].call = call /\ req'[p].read = entry[u][i]
      /\ \A q \in Requests \ {p} : req'[q] = req[q]
  BY DEF BeginCall, TypeOK, Idle
<1>2. /\ LocksUser(call) => ~UserLocked(u)
      /\ LocksRating(call, entry[u][i]) => ~RatingLocked(u, i)
      /\ Accepts(entry[u], i, call) /\ entry' = entry
  BY DEF BeginCall
<1>3. Agreed(p)'
  BY <1>1, <1>2 DEF Agreed, Current
<1>4. ASSUME NEW q \in Requests, q # p, Open(q), req[q].user = u
      PROVE  Exclude(p, q)' /\ Exclude(q, p)'
  <2>1. LocksUser(call) => ~LocksUser(req[q].call)
    BY <1>2, <1>4 DEF UserLocked, Open
  <2>2. req[q].item = i /\ LocksRating(call, entry[u][i])
          => ~LocksRating(req[q].call, req[q].read)
    BY <1>2, <1>4 DEF RatingLocked, Open
  <2>3. QED
    BY <1>1, <1>4, <2>1, <2>2 DEF Exclude
<1>5. Exclusive'
  <2> SUFFICES ASSUME NEW q \in Requests, NEW r \in Requests, q # r, Open(q)', Open(r)',
                      req'[q].user = req'[r].user
               PROVE  Exclude(q, r)'
    BY DEF Exclusive
  <2>1. CASE q # p /\ r # p
    BY <1>1, <2>1 DEF Locks, Exclusive, Open, Exclude
  <2>2. CASE q = p \/ r = p
    BY <1>1, <1>4, <2>2 DEF Open
  <2>3. QED
    BY <2>1, <2>2
<1>6. ASSUME NEW q \in Requests \ {p}, Open(q)' PROVE Agreed(q)'
  BY <1>1, <1>2, <1>6 DEF Locks, Agreed, Open
<1>7. QED
  BY <1>3, <1>5, <1>6 DEF Locks
\* What each call makes of each field of an entry.
StatusAfter(call, s) ==
    CASE call.kind = "ensure" -> IF s = "untracked" THEN "backlog" ELSE s
      [] call.kind = "transition" -> call.to
      [] call.kind = "rate" -> "completed"
      [] call.kind = "remove" -> "untracked"
      [] OTHER -> s
FavoriteAfter(call, f) ==
    \/ call.kind = "transition" /\ f /\ call.to = "completed"
    \/ call.kind = "favorite"
    \/ call.kind \in {"ensure", "rate", "unrate"} /\ f
RatingAfter(call, r) ==
    CASE call.kind = "transition" -> IF r = "none" THEN "none"
                                     ELSE IF call.to = "completed" THEN "active" ELSE "archived"
      [] call.kind = "rate" -> "active"
      [] call.kind = "remove" -> IF r = "active" THEN "archived" ELSE r
      [] call.kind = "unrate" -> "none"
      [] OTHER -> r

LEMMA AfterFields ==
    ASSUME NEW call \in Calls, NEW e \in Entry
    PROVE  /\ After(call, e).status = StatusAfter(call, e.status)
           /\ After(call, e).favorite = FavoriteAfter(call, e.favorite)
           /\ After(call, e).rating = RatingAfter(call, e.rating)
<1>1. call.kind \in Kinds /\ (call.kind = "ensure" => call.to = "backlog")
  BY CallShape
<1>2. e.favorite \in BOOLEAN
  BY DEF Entry
<1> USE DEF StatusAfter, FavoriteAfter, RatingAfter
<1>3. CASE call.kind = "ensure"
  BY <1>1, <1>2, <1>3 DEF After, Entry
<1>4. CASE call.kind = "transition"
  <2>1. After(call, e) = Transitioned(e, call.to)
    BY <1>4 DEF After
  <2>2. /\ After(call, e).status = call.to
        /\ After(call, e).favorite = (e.favorite /\ call.to = "completed")
        /\ After(call, e).rating = IF e.rating = "none" THEN "none"
             ELSE IF call.to = "completed" THEN "active" ELSE "archived"
    BY <2>1 DEF Transitioned
  <2>3. QED
    BY <1>2, <1>4, <2>2
<1>5. CASE call.kind = "rate"
  BY <1>2, <1>5 DEF After, Entry
<1>6. CASE call.kind = "favorite"
  BY <1>2, <1>6 DEF After, Entry
<1>7. CASE call.kind = "unfavorite"
  BY <1>2, <1>7 DEF After, Entry
<1>8. CASE call.kind = "remove"
  BY <1>2, <1>8 DEF After, Removed, Entry
<1>9. CASE call.kind = "unrate"
  BY <1>2, <1>9 DEF After, Entry
<1>10. QED
  BY <1>1, <1>3, <1>4, <1>5, <1>6, <1>7, <1>8, <1>9 DEF Kinds

\* The columns that a transaction writes, from what it read, make of the
\* committed entry what its call makes of the committed entry.
LEMMA WritesAreAfter ==
    ASSUME NEW t \in Transaction, t.call # View, NEW e \in Entry, Current(t, e)
    PROVE  LET new == After(t.call, t.read) IN
           [f \in DOMAIN e |-> IF f \in Writes(t) THEN new[f] ELSE e[f]] = After(t.call, e)
<1> DEFINE new == After(t.call, t.read)
           n == [f \in DOMAIN e |-> IF f \in Writes(t) THEN new[f] ELSE e[f]]
           a == After(t.call, e)
<1>1. t.call \in Calls /\ t.read \in Entry /\ t.call.kind \in Kinds
  BY OpenFields, CallShape
<1>2. n \in Entry /\ a \in Entry
  BY <1>1, NewType, AfterType
<1>3. DOMAIN e = {"status", "favorite", "rating"}
  BY DEF Entry
<1>4. /\ n.status = IF "status" \in Writes(t) THEN new.status ELSE e.status
      /\ n.favorite = IF "favorite" \in Writes(t) THEN new.favorite ELSE e.favorite
      /\ n.rating = IF "rating" \in Writes(t) THEN new.rating ELSE e.rating
  BY <1>3
<1>5. /\ "status" \in Writes(t) <=> t.call.kind \in {"ensure", "transition", "rate", "remove"}
      /\ "favorite" \in Writes(t) <=>
           t.call.kind \in {"transition", "remove", "favorite", "unfavorite"}
      /\ "rating" \in Writes(t) <=> t.call.kind = "rate" \/ new.rating # t.read.rating
  BY DEF Writes, SavesRating
<1> HIDE DEF n
<1>6. n.status = a.status
  <2>1. new.status = StatusAfter(t.call, t.read.status) /\ a.status = StatusAfter(t.call, e.status)
    BY <1>1, AfterFields
  <2>2. t.call.kind = "ensure" => e.status = t.read.status
    BY DEF Current, LocksUser
  <2>3. QED
    BY <1>1, <1>4, <1>5, <2>1, <2>2 DEF StatusAfter, Kinds
<1>7. n.favorite = a.favorite
  <2>1. /\ new.favorite = FavoriteAfter(t.call, t.read.favorite)
        /\ a.favorite = FavoriteAfter(t.call, e.favorite)
        /\ e.favorite \in BOOLEAN
    BY <1>1, AfterFields DEF Entry
  <2>2. t.call.kind = "transition" => e.favorite = t.read.favorite
    BY DEF Current, LocksUser
  <2>3. QED
    BY <1>1, <1>4, <1>5, <2>1, <2>2 DEF FavoriteAfter, Kinds
<1>8. n.rating = a.rating
  <2>1. new.rating = RatingAfter(t.call, t.read.rating) /\ a.rating = RatingAfter(t.call, e.rating)
    BY <1>1, AfterFields
  <2>2. /\ t.call.kind \in {"transition", "rate", "unrate"} => e.rating = t.read.rating
        /\ t.call.kind = "remove" =>
             /\ e.rating \in {t.read.rating, "none"}
             /\ t.read.rating = "active" => e.rating = "active"
    BY DEF Current, LocksUser, LocksRating
  <2>3. QED
    BY <1>1, <1>4, <1>5, <2>1, <2>2 DEF RatingAfter, Kinds
<1>9. n = a
  BY <1>2, <1>6, <1>7, <1>8, EntryFields
<1>10. QED
  BY <1>9 DEF n

LEMMA CommitPerforms ==
    ASSUME TypeOK, Locks, NEW p \in Requests, Commit(p), req[p].call # View
    PROVE  LET t == req[p]
               e == entry[t.user][t.item] IN
           /\ t.user \in Users /\ t.item \in Items /\ t.call \in Calls
           /\ Accepts(entry[t.user], t.item, t.call)
           /\ entry' = [entry EXCEPT ![t.user][t.item] = After(t.call, e)]
           /\ banner' = [banner EXCEPT ![t.user] =
                IF DropsBanner(t.call, e) /\ @ = t.item THEN NoItem ELSE @]
<1> DEFINE t == req[p]
           e == entry[t.user][t.item]
<1>1. t \in Transaction /\ Agreed(p)
  BY OpenType DEF Commit, Locks, Open
<1>2. /\ t.user \in Users /\ t.item \in Items /\ t.call \in Calls
      /\ e \in Entry /\ t.read \in Entry
  BY <1>1, OpenFields DEF TypeOK
<1>3. Current(t, e) /\ Accepts(entry[t.user], t.item, t.call)
  BY <1>1 DEF Agreed
<1>4. entry' = [entry EXCEPT ![t.user][t.item] = After(t.call, e)]
  <2> DEFINE n == [f \in DOMAIN e |->
                     IF f \in Writes(t) THEN After(t.call, t.read)[f] ELSE e[f]]
  <2>1. entry' = [entry EXCEPT ![t.user][t.item] = n]
    BY DEF Commit
  <2>2. n = After(t.call, e)
    BY <1>1, <1>2, <1>3, WritesAreAfter
  <2> HIDE DEF n
  <2>3. QED
    BY <2>1, <2>2
<1>5. DropsBanner(t.call, t.read) <=> DropsBanner(t.call, e)
  <2>1. t.call.kind \in {"unfavorite", "transition", "remove"} => e.favorite = t.read.favorite
    BY <1>3 DEF Current, LocksUser
  <2>2. t.call.kind \in {"transition", "remove"} =>
          After(t.call, e).favorite = After(t.call, t.read).favorite
    BY <1>2, <2>1, AfterFields
  <2>3. /\ e.favorite \in BOOLEAN /\ t.read.favorite \in BOOLEAN
        /\ After(t.call, e).favorite \in BOOLEAN /\ After(t.call, t.read).favorite \in BOOLEAN
    BY <1>2, AfterType DEF Entry
  <2> DEFINE x == After(t.call, e).favorite
             y == After(t.call, t.read).favorite
  <2> HIDE DEF x, y
  <2>4. QED
    BY <2>1, <2>2, <2>3 DEF DropsBanner, x, y
<1>6. banner' = [banner EXCEPT ![t.user] =
                  IF DropsBanner(t.call, e) /\ @ = t.item THEN NoItem ELSE @]
  BY <1>5 DEF Commit
<1>7. QED
  BY <1>2, <1>3, <1>4, <1>6
\* A rating that goes takes no call's acceptance away, except its own deletion's.
LEMMA AcceptedWithoutRating ==
    ASSUME NEW before \in [Items -> Entry], NEW after \in [Items -> Entry],
           NEW i \in Items, NEW call \in Calls, call.kind # "unrate",
           \A k \in Items : /\ after[k].status = before[k].status
                            /\ after[k].favorite = before[k].favorite
                            /\ after[k].rating \in {before[k].rating, "none"},
           Accepts(before, i, call)
    PROVE  Accepts(after, i, call)
<1>1. Effects(call, after[i]) \subseteq Effects(call, before[i])
  BY DEF Effects
<1>2. Others(after, i) = Others(before, i)
  BY DEF Others
<1>3. HasRoom(after, i) <=> HasRoom(before, i)
  BY <1>2 DEF HasRoom
<1>4. /\ call.kind \in {"ensure", "transition"} => call.to \in Supported(TypeOf[i])
      /\ Effects(call, before[i]) # {} => call.acked
      /\ call.kind = "favorite" =>
           before[i].status = "completed" /\ (before[i].favorite \/ HasRoom(before, i))
      /\ call.kind \in {"unfavorite", "remove"} => before[i].status # "untracked"
  BY DEF Accepts
<1>5. Effects(call, after[i]) # {} => call.acked
  BY <1>1, <1>4
<1>6. QED
  BY <1>3, <1>4, <1>5 DEF Accepts

LEMMA LocksCommit ==
    ASSUME TypeOK, Locks, NEW p \in Requests, Commit(p)
    PROVE  Locks'
<1> DEFINE t == req[p]
<1>1. ASSUME NEW q \in Requests, Open(q)'
      PROVE  /\ q # p /\ Open(q)
             /\ req'[q].user = req[q].user /\ req'[q].item = req[q].item
             /\ req'[q].call = req[q].call /\ req'[q].read = req[q].read
  <2>1. req'[q] = IF q = p THEN Idle
                  ELSE IF req[q] # Idle /\ req[q].user = t.user
                    THEN [req[q] EXCEPT !.stale = @ \ t.stale] ELSE req[q]
    BY DEF Commit
  <2>2. q # p /\ req[q] # Idle
    BY <1>1, <2>1 DEF Open
  <2>3. req[q] \in Transaction
    BY <2>2 DEF TypeOK
  <2>4. req'[q] \in {req[q], [req[q] EXCEPT !.stale = @ \ t.stale]}
    BY <2>1, <2>2
  <2>5. /\ req'[q].user = req[q].user /\ req'[q].item = req[q].item
        /\ req'[q].call = req[q].call /\ req'[q].read = req[q].read
    BY <2>3, <2>4 DEF Transaction
  <2>6. QED
    BY <1>1, <2>2, <2>5 DEF Open
<1>2. CASE t.call = View
  <2>1. entry' = entry
    BY <1>2 DEF Commit
  <2>2. QED
    BY <1>1, <2>1, LocksKept
<1>3. CASE t.call # View
  <2> DEFINE e == entry[t.user][t.item]
  <2>1. /\ t.user \in Users /\ t.item \in Items /\ t.call \in Calls
        /\ entry' = [entry EXCEPT ![t.user][t.item] = After(t.call, e)]
    BY <1>3, CommitPerforms
  <2>2. Open(p) /\ t.read \in Entry /\ Current(t, e) /\ e \in Entry
    <3>1. t.at = "ready"
      BY DEF Commit
    <3>2. Open(p)
      BY <1>3, <3>1 DEF Open, Idle
    <3>3. Current(t, e)
      BY <3>2 DEF Locks, Agreed
    <3>4. t.read \in Entry
      <4>1. t \in Transaction
        BY <3>1, OpenType
      <4>2. QED
        BY <4>1, OpenFields
    <3>5. e \in Entry
      BY <2>1 DEF TypeOK
    <3>6. QED
      BY <3>2, <3>3, <3>4, <3>5
  <2>3. TypeOK'
    BY TypeCommit
  <2>4. ASSUME NEW q \in Requests, Open(q)' PROVE Agreed(q)'
    <3> DEFINE s == req[q]
               before == entry[s.user]
               after == entry'[s.user]
    <3>1. /\ Open(q) /\ q # p /\ Agreed(q)
          /\ req'[q].user = s.user /\ req'[q].item = s.item
          /\ req'[q].call = s.call /\ req'[q].read = s.read
      BY <1>1, <2>4 DEF Locks
    <3>2. /\ s.user \in Users /\ s.item \in Items /\ s.call \in Calls /\ s.read \in Entry
          /\ before \in [Items -> Entry] /\ after \in [Items -> Entry]
      BY <2>3, <3>1, OpenFields DEF Open, TypeOK
    <3>3. SUFFICES Current(s, after[s.item]) /\ Accepts(after, s.item, s.call)
      BY <3>1 DEF Agreed, Current
    <3>4. Current(s, before[s.item]) /\ Accepts(before, s.item, s.call)
      BY <3>1 DEF Agreed
    <3>5. CASE s.user # t.user
      <4>1. after = before
        BY <2>1, <3>2, <3>5 DEF TypeOK
      <4>2. QED
        BY <3>4, <4>1
    <3>6. CASE s.user = t.user /\ s.call.kind = "unrate"
      <4>1. LocksRating(s.call, s.read) /\ ~LocksUser(s.call)
        BY <3>6 DEF LocksRating, LocksUser
      <4>2. s.item = t.item => ~LocksRating(t.call, t.read)
        BY <2>2, <3>1, <3>6, <4>1 DEF Locks, Exclusive, Exclude
      <4>3. ~LocksRating(t.call, t.read) => After(t.call, e).rating = e.rating
        <5>1. After(t.call, e).rating = RatingAfter(t.call, e.rating)
          BY <2>1, <2>2, AfterFields
        <5>2. t.call.kind \in Kinds
          BY <2>1, CallShape
        <5>3. t.call.kind = "remove" => e.rating \in {t.read.rating, "none"}
          BY <2>2 DEF Current, LocksUser
        <5>4. QED
          BY <5>1, <5>2, <5>3 DEF RatingAfter, LocksRating, Kinds
      <4>4. after[s.item].rating = before[s.item].rating
        BY <2>1, <3>2, <3>6, <4>2, <4>3 DEF TypeOK
      <4>5. before[s.item].rating = s.read.rating /\ before[s.item].rating # "none"
        BY <3>4, <3>6, <4>1 DEF Current, Accepts
      <4>6. Effects(s.call, after[s.item]) = {}
        BY <3>6 DEF Effects
      <4>7. QED
        BY <3>6, <4>1, <4>4, <4>5, <4>6 DEF Current, Accepts
    <3>7. CASE s.user = t.user /\ s.call.kind # "unrate"
      <4>1. LocksUser(s.call)
        BY <3>2, <3>7, CallShape DEF LocksUser, Kinds
      <4>2. t.call.kind = "unrate"
        <5>1. ~LocksUser(t.call)
          BY <2>2, <3>1, <3>7, <4>1 DEF Locks, Exclusive, Exclude
        <5>2. QED
          BY <2>1, <5>1, CallShape DEF LocksUser, Kinds
      <4>3. After(t.call, e) = [e EXCEPT !.rating = "none"]
        BY <4>2 DEF After
      <4>4. \A k \in Items : /\ after[k].status = before[k].status
                             /\ after[k].favorite = before[k].favorite
                             /\ after[k].rating \in {before[k].rating, "none"}
        <5>1. /\ e \in Entry /\ before \in [Items -> Entry]
              /\ after = [before EXCEPT ![t.item] = [e EXCEPT !.rating = "none"]]
              /\ e = before[t.item]
          BY <2>1, <2>2, <3>2, <3>7, <4>3 DEF TypeOK
        <5> HIDE DEF e, before, after
        <5>2. ASSUME NEW k \in Items, k = t.item
              PROVE  /\ after[k].status = before[k].status
                     /\ after[k].favorite = before[k].favorite
                     /\ after[k].rating = "none"
          BY <5>1, <5>2 DEF Entry
        <5>3. ASSUME NEW k \in Items, k # t.item PROVE after[k] = before[k]
          BY <5>1, <5>3
        <5>4. QED
          BY <5>2, <5>3
      <4>5. Accepts(after, s.item, s.call)
        BY <3>2, <3>4, <3>7, <4>4, AcceptedWithoutRating
      <4>6. LocksRating(s.call, s.read) => s.item # t.item
        BY <2>2, <3>1, <3>7, <4>2 DEF Locks, Exclusive, Exclude, LocksRating
      <4>7. s.item # t.item => after[s.item] = before[s.item]
        BY <2>1, <3>2, <3>7 DEF TypeOK
      <4>8. Current(s, after[s.item])
        BY <3>2, <3>4, <4>4, <4>6, <4>7 DEF Current
      <4>9. QED
        BY <4>5, <4>8
    <3>8. QED
      BY <3>5, <3>6, <3>7
  <2>5. Exclusive'
    BY <1>1 DEF Locks, Exclusive, Exclude
  <2>6. QED
    BY <2>4, <2>5 DEF Locks
<1>4. QED
  BY <1>2, <1>3
LEMMA LocksNext == TypeOK /\ Locks /\ [Next]_vars => Locks'
<1> SUFFICES ASSUME TypeOK, Locks, [Next]_vars PROVE Locks'
  OBVIOUS
<1>1. ASSUME NEW p \in Requests, NEW u \in Users, NEW i \in Items, NEW call \in Calls,
             BeginCall(p, u, i, call)
      PROVE  Locks'
  BY <1>1, LocksBeginCall
<1>2. ASSUME NEW p \in Requests, NEW u \in Users, BeginView(p, u)
      PROVE  Locks'
  BY <1>2, LocksKept DEF BeginView, Open, TypeOK
<1>3. ASSUME NEW p \in Requests, TakeSnapshot(p) \/ UpdateItem(p) \/ ReadRows(p)
      PROVE  Locks'
  <2>1. req[p] \in Transaction /\ req[p] # Idle
    BY <1>3, OpenType DEF TakeSnapshot, UpdateItem, ReadRows
  <2>2. /\ req'[p].user = req[p].user /\ req'[p].item = req[p].item
        /\ req'[p].call = req[p].call /\ req'[p].read = req[p].read
        /\ \A q \in Requests \ {p} : req'[q] = req[q]
        /\ entry' = entry
    BY <1>3, <2>1 DEF TakeSnapshot, UpdateItem, ReadRows, TypeOK, Transaction
  <2>3. QED
    BY <2>1, <2>2, LocksKept DEF Open
<1>4. ASSUME NEW p \in Requests, Commit(p)
      PROVE  Locks'
  BY <1>4, LocksCommit
<1>5. ASSUME NEW p \in Requests, Conflict(p) \/ Fail(p)
      PROVE  Locks'
  <2>1. /\ req' = [req EXCEPT ![p] = Idle] /\ entry' = entry
    BY <1>5 DEF Conflict, Fail, Rollback
  <2>2. QED
    BY <2>1, LocksKept DEF Open, TypeOK
<1>6. ASSUME NEW u \in Users, NEW i \in Items \cup {NoItem}, ChooseBanner(u, i)
      PROVE  Locks'
  BY <1>6, LocksKept DEF ChooseBanner, Open
<1>7. CASE UNCHANGED vars
  BY <1>7, LocksKept DEF vars, Open
<1>8. QED
  BY <1>1, <1>2, <1>3, <1>4, <1>5, <1>6, <1>7 DEF Next, Proceed

THEOREM LocksHeld == Spec => [](TypeOK /\ Locks)
<1>1. Init => TypeOK /\ Locks
  BY TypeInit, LocksInit
<1>2. TypeOK /\ Locks /\ [Next]_vars => (TypeOK /\ Locks)'
  BY TypeNext, LocksNext
<1>3. QED
  BY <1>1, <1>2, PTL DEF Spec
-----------------------------------------------------------------------------
(* Refinement: a step is a call of TrackingPromises, a choice of a banner,   *)
(* or a step that TrackingPromises does not see.                             *)

\* One accepted call, alone, on what is committed.
Performs(u, i, call) ==
    /\ Accepts(entry[u], i, call)
    /\ entry' = [entry EXCEPT ![u][i] = After(call, entry[u][i])]
    /\ banner' = [banner EXCEPT ![u] =
         IF DropsBanner(call, entry[u][i]) /\ @ = i THEN NoItem ELSE @]

Chooses(u, i) ==
    /\ i # NoItem => entry[u][i].favorite /\ entry[u][i].status = "completed"
    /\ banner' = [banner EXCEPT ![u] = i]
    /\ UNCHANGED entry

AtomicStep ==
    \/ \E u \in Users, i \in Items, call \in Calls : Performs(u, i, call)
    \/ \E u \in Users, i \in Items \cup {NoItem} : Chooses(u, i)
    \/ UNCHANGED <<entry, banner>>

\* Only commits and the choice of a banner write what others see.
LEMMA QuietSteps ==
    ASSUME NEW p \in Requests,
           \/ \E u \in Users, i \in Items, call \in Calls : BeginCall(p, u, i, call)
           \/ \E u \in Users : BeginView(p, u)
           \/ TakeSnapshot(p) \/ UpdateItem(p) \/ ReadRows(p)
           \/ Conflict(p) \/ Fail(p)
    PROVE  UNCHANGED <<entry, banner, counted>>
<1>1. CASE \E u \in Users, i \in Items, call \in Calls : BeginCall(p, u, i, call)
  BY <1>1 DEF BeginCall
<1>2. CASE \E u \in Users : BeginView(p, u)
  BY <1>2 DEF BeginView
<1>3. CASE TakeSnapshot(p) \/ UpdateItem(p) \/ ReadRows(p)
  BY <1>3 DEF TakeSnapshot, UpdateItem, ReadRows
<1>4. CASE Conflict(p) \/ Fail(p)
  BY <1>4 DEF Conflict, Fail, Rollback
<1>5. QED
  BY <1>1, <1>2, <1>3, <1>4

LEMMA StepIsAtomic == TypeOK /\ Locks /\ [Next]_vars => AtomicStep
<1> SUFFICES ASSUME TypeOK, Locks, [Next]_vars PROVE AtomicStep
  OBVIOUS
<1>1. ASSUME NEW p \in Requests, Commit(p)
      PROVE  AtomicStep
  <2>1. CASE req[p].call = View
    BY <1>1, <2>1 DEF Commit, AtomicStep
  <2>2. CASE req[p].call # View
    BY <1>1, <2>2, CommitPerforms DEF Performs, AtomicStep
  <2>3. QED
    BY <2>1, <2>2
<1>2. ASSUME NEW u \in Users, NEW i \in Items \cup {NoItem}, ChooseBanner(u, i)
      PROVE  AtomicStep
  BY <1>2 DEF ChooseBanner, Chooses, AtomicStep
<1>3. ASSUME NEW p \in Requests,
             \/ \E u \in Users, i \in Items, call \in Calls : BeginCall(p, u, i, call)
             \/ \E u \in Users : BeginView(p, u)
             \/ TakeSnapshot(p) \/ UpdateItem(p) \/ ReadRows(p)
             \/ Conflict(p) \/ Fail(p)
      PROVE  UNCHANGED <<entry, banner>>
  BY <1>3, QuietSteps
<1>4. CASE UNCHANGED vars
  BY <1>4 DEF vars, AtomicStep
<1>5. QED
  BY <1>1, <1>2, <1>3, <1>4 DEF Next, Proceed, AtomicStep

LEMMA PerformsPromise ==
    ASSUME NEW u \in Users, NEW i \in Items, NEW call \in Calls, Performs(u, i, call)
    PROVE  Promises!Perform(u, i, call) /\ call \in Promises!Calls
<1>1. call \in Promises!Calls
  BY DEF Calls, Promises!Calls, Status, Promises!Status
<1>2. /\ Promises!Accepts(entry[u], i, call)
      /\ Promises!After(call, entry[u][i]) = After(call, entry[u][i])
      /\ Promises!DropsBanner(call, entry[u][i]) = DropsBanner(call, entry[u][i])
  <2>1. Promises!After(call, entry[u][i]) = After(call, entry[u][i])
    BY DEF After, Promises!After, Transitioned, Promises!Transitioned, Removed, Promises!Removed
  <2>2. Promises!DropsBanner(call, entry[u][i]) = DropsBanner(call, entry[u][i])
    BY <2>1 DEF DropsBanner, Promises!DropsBanner
  <2>3. /\ Promises!Effects(call, entry[u][i]) = Effects(call, entry[u][i])
        /\ Promises!Supported(TypeOf[i]) = Supported(TypeOf[i])
    BY DEF Effects, Promises!Effects, Supported, Promises!Supported, Status, Promises!Status
  <2>4. Promises!HasRoom(entry[u], i) = HasRoom(entry[u], i)
    BY DEF HasRoom, Promises!HasRoom, Others, Promises!Others, Cardinality, Promises!Cardinality
  <2>5. Accepts(entry[u], i, call)
    BY DEF Performs
  <2>6. Promises!Accepts(entry[u], i, call)
    BY <2>3, <2>4, <2>5 DEF Accepts, Promises!Accepts
  <2>7. QED
    BY <2>1, <2>2, <2>6
<1>3. QED
  BY <1>1, <1>2 DEF Performs, Promises!Perform

\* The tracking service, its transactions interleaved under READ COMMITTED, does
\* what TrackingPromises promises: each call is one atomic step.
THEOREM CallsAreAtomic == Spec => ImplementsPromises
<1>1. Init => Promises!Init
  BY DEF Init, Promises!Init, NoEntry, Promises!NoEntry
<1>2. AtomicStep => [Promises!Next]_<<entry, banner>>
  <2> SUFFICES ASSUME AtomicStep PROVE [Promises!Next]_<<entry, banner>>
    OBVIOUS
  <2>1. ASSUME NEW u \in Users, NEW i \in Items, NEW call \in Calls, Performs(u, i, call)
        PROVE  Promises!Next
    BY <2>1, PerformsPromise DEF Promises!Next
  <2>2. ASSUME NEW u \in Users, NEW i \in Items \cup {NoItem}, Chooses(u, i)
        PROVE  Promises!Next
    BY <2>2 DEF Chooses, Promises!ChooseBanner, Promises!Next
  <2>3. QED
    BY <2>1, <2>2 DEF AtomicStep
<1>3. QED
  BY <1>1, <1>2, StepIsAtomic, LocksHeld, PTL DEF Spec, ImplementsPromises, Promises!Spec
-----------------------------------------------------------------------------
(* What atomic steps preserve.                                               *)

\* favorites are completed; ratings and banners follow.
Coherent(e) ==
    /\ e.favorite => e.status = "completed"
    /\ e.rating # "none" => (e.rating = "active" <=> e.status = "completed")

Kept == /\ \A u \in Users, i \in Items : Coherent(entry[u][i])
        /\ BannerIsFavorite

LEMMA CallKeepsCoherent ==
    ASSUME NEW entries \in [Items -> Entry], NEW i \in Items, NEW call \in Calls,
           Coherent(entries[i]), Accepts(entries, i, call)
    PROVE  LET e == entries[i]
               f == After(call, e) IN
           /\ Coherent(f)
           /\ e.favorite /\ ~f.favorite => DropsBanner(call, e)
           /\ Loses(e, f) => call.acked
<1> DEFINE e == entries[i]
           f == After(call, e)
<1>1. /\ e \in Entry /\ f \in Entry
      /\ call.kind \in Kinds
      /\ call.kind \in {"unfavorite", "unrate"} => call.acked
      /\ call.kind = "ensure" => call.to = "backlog"
  BY AfterType, CallShape DEF Calls
<1>2. /\ f.status = StatusAfter(call, e.status)
      /\ f.favorite = FavoriteAfter(call, e.favorite)
      /\ f.rating = RatingAfter(call, e.rating)
  BY <1>1, AfterFields
<1>3. e.favorite \in BOOLEAN /\ f.favorite \in BOOLEAN
      /\ e.rating \in {"none", "active", "archived"}
  BY <1>1 DEF Entry
<1>4. call.kind = "favorite" => e.status = "completed"
  BY DEF Accepts
<1>5. /\ e.favorite => e.status = "completed"
      /\ e.rating # "none" => (e.rating = "active" <=> e.status = "completed")
  BY DEF Coherent
<1>6. Effects(call, e) # {} => call.acked
  BY DEF Accepts
<1>7. DropsBanner(call, e) <=>
        \/ call.kind = "unfavorite"
        \/ call.kind \in {"transition", "remove"} /\ e.favorite /\ ~f.favorite
  BY DEF DropsBanner
<1> HIDE DEF e, f
<1>8. f.favorite => f.status = "completed"
  BY <1>1, <1>2, <1>3, <1>4, <1>5 DEF StatusAfter, FavoriteAfter, Kinds
<1>9. f.rating # "none" => (f.rating = "active" <=> f.status = "completed")
  BY <1>1, <1>2, <1>3, <1>5 DEF StatusAfter, RatingAfter, Kinds
<1>10. e.favorite /\ ~f.favorite => DropsBanner(call, e)
  BY <1>1, <1>2, <1>3, <1>7 DEF FavoriteAfter, Kinds
<1>11. ASSUME e.favorite, ~f.favorite PROVE call.acked
  <2>1. CASE call.kind \in {"unfavorite", "unrate"}
    BY <1>1, <2>1
  <2>2. CASE call.kind \notin {"unfavorite", "unrate"}
    <3>1. \/ call.kind = "remove"
          \/ call.kind = "transition" /\ call.to # "completed"
      BY <1>1, <1>2, <1>3, <1>11, <2>2 DEF FavoriteAfter, Kinds
    <3>2. "favorite_removed" \in Effects(call, e)
      BY <1>5, <1>11, <3>1 DEF Effects
    <3>3. QED
      BY <1>6, <3>2
  <2>3. QED
    BY <2>1, <2>2
<1>12. ASSUME e.rating = "active", f.rating = "archived" PROVE call.acked
  <2>1. \/ call.kind = "remove"
        \/ call.kind = "transition" /\ call.to # "completed"
    BY <1>1, <1>2, <1>12 DEF RatingAfter, Kinds
  <2>2. "rating_archived" \in Effects(call, e)
    BY <1>5, <1>12, <2>1 DEF Effects
  <2>3. QED
    BY <1>6, <2>2
<1>13. Loses(e, f) => call.acked
  BY <1>11, <1>12 DEF Loses
<1>14. Coherent(f)
  BY <1>8, <1>9 DEF Coherent
<1>15. QED
  BY <1>10, <1>13, <1>14 DEF e, f

LEMMA KeptInit == Init => Kept
  BY ItemsAssumption DEF Init, Kept, Coherent, NoEntry, BannerIsFavorite

LEMMA KeptNext == TypeOK /\ Kept /\ AtomicStep => Kept'
<1> SUFFICES ASSUME TypeOK, Kept, AtomicStep PROVE Kept'
  OBVIOUS
<1>1. ASSUME NEW u \in Users, NEW i \in Items, NEW call \in Calls, Performs(u, i, call)
      PROVE  Kept'
  <2> DEFINE e == entry[u][i]
             f == After(call, e)
  <2>1. /\ entry' = [entry EXCEPT ![u][i] = f]
        /\ banner' = [banner EXCEPT ![u] = IF DropsBanner(call, e) /\ @ = i THEN NoItem ELSE @]
        /\ Accepts(entry[u], i, call)
        /\ entry[u] \in [Items -> Entry]
    BY <1>1 DEF Performs, TypeOK
  <2>2. /\ Coherent(f)
        /\ e.favorite /\ ~f.favorite => DropsBanner(call, e)
    BY <2>1, CallKeepsCoherent DEF Kept
  <2>3. \A v \in Users, k \in Items :
          entry'[v][k] = IF v = u /\ k = i THEN f ELSE entry[v][k]
    BY <2>1 DEF TypeOK
  <2> HIDE DEF f
  <2>4. \A v \in Users, k \in Items : Coherent(entry'[v][k])
    BY <2>2, <2>3 DEF Kept
  <2>5. ASSUME NEW v \in Users, NEW k \in Items, banner'[v] = k
        PROVE  entry'[v][k].favorite
    <3>1. banner[v] = k /\ (v = u /\ k = i => ~DropsBanner(call, e))
      BY <2>1, <2>5, ItemsAssumption DEF TypeOK
    <3>2. entry[v][k].favorite
      BY <3>1 DEF Kept, BannerIsFavorite
    <3>3. QED
      BY <2>2, <2>3, <3>1, <3>2
  <2>6. BannerIsFavorite'
    BY <2>4, <2>5 DEF BannerIsFavorite, Coherent
  <2>7. QED
    BY <2>4, <2>6 DEF Kept, Coherent
<1>2. ASSUME NEW u \in Users, NEW i \in Items \cup {NoItem}, Chooses(u, i)
      PROVE  Kept'
  BY <1>2, ItemsAssumption DEF Chooses, Kept, BannerIsFavorite, Coherent, TypeOK
<1>3. CASE UNCHANGED <<entry, banner>>
  BY <1>3 DEF Kept, BannerIsFavorite
<1>4. QED
  BY <1>1, <1>2, <1>3 DEF AtomicStep

LEMMA KeptHeld == Spec => []Kept
<1>1. TypeOK /\ Locks /\ Kept /\ [Next]_vars => Kept'
  BY KeptNext, StepIsAtomic
<1>2. QED
  BY <1>1, KeptInit, LocksHeld, PTL DEF Spec

\* A rating counts exactly while its title is completed, whichever calls raced
\* (transition_tracking, save_rating and delete_tracking archive and reactivate).
THEOREM RatingsFollow == Spec => []RatingFollowsStatus
<1>1. Kept => RatingFollowsStatus
  BY DEF Kept, Coherent, RatingFollowsStatus
<1>2. QED
  BY <1>1, KeptHeld, PTL

\* _clear_banner_selection is called on every path that takes a favorite away.
THEOREM BannersAreFavorites == Spec => []BannerIsFavorite
<1>1. Kept => BannerIsFavorite
  BY DEF Kept
<1>2. QED
  BY <1>1, KeptHeld, PTL
\* save_rating, set_favorite and the others take an acknowledged loss only.
THEOREM LossesAcknowledged == Spec => LossIsAcknowledged
<1> DEFINE A == \A u \in Users, i \in Items :
                  Loses(entry[u][i], entry'[u][i]) =>
                    \E p \in Requests : /\ req[p] # Idle /\ req'[p] = Idle
                                        /\ req[p].user = u /\ req[p].item = i
                                        /\ req[p].call.acked
<1>1. TypeOK /\ Locks /\ Kept /\ [Next]_vars => A
  <2> SUFFICES ASSUME TypeOK, Locks, Kept, [Next]_vars,
                      NEW u \in Users, NEW i \in Items, Loses(entry[u][i], entry'[u][i])
               PROVE  \E p \in Requests : /\ req[p] # Idle /\ req'[p] = Idle
                                          /\ req[p].user = u /\ req[p].item = i
                                          /\ req[p].call.acked
    OBVIOUS
  <2>1. entry' # entry
    BY DEF Loses
  <2>2. PICK p \in Requests : Commit(p)
    <3>1. ASSUME NEW p \in Requests,
                 \/ \E v \in Users, k \in Items, call \in Calls : BeginCall(p, v, k, call)
                 \/ \E v \in Users : BeginView(p, v)
                 \/ TakeSnapshot(p) \/ UpdateItem(p) \/ ReadRows(p)
                 \/ Conflict(p) \/ Fail(p)
          PROVE  entry' = entry
      BY <3>1, QuietSteps
    <3>2. ASSUME NEW v \in Users, NEW k \in Items \cup {NoItem}, ChooseBanner(v, k)
          PROVE  entry' = entry
      BY <3>2 DEF ChooseBanner
    <3>3. UNCHANGED vars => entry' = entry
      BY DEF vars
    <3>4. QED
      BY <2>1, <3>1, <3>2, <3>3 DEF Next, Proceed
  <2>3. req[p].call # View /\ req[p] # Idle /\ req'[p] = Idle
    <3>1. req[p].at = "ready" /\ (req[p].call = View => entry' = entry)
      BY <2>2 DEF Commit
    <3>2. req'[p] = Idle
      BY <2>2 DEF Commit
    <3>3. QED
      BY <2>1, <3>1, <3>2, OpenType
  <2> DEFINE t == req[p]
             e == entry[t.user][t.item]
  <2>4. /\ t.user \in Users /\ t.item \in Items /\ t.call \in Calls
        /\ Accepts(entry[t.user], t.item, t.call)
        /\ entry' = [entry EXCEPT ![t.user][t.item] = After(t.call, e)]
    BY <2>2, <2>3, CommitPerforms
  <2>5. Loses(e, After(t.call, e)) => t.call.acked
    <3>1. entry[t.user] \in [Items -> Entry] /\ Coherent(e)
      BY <2>4 DEF TypeOK, Kept
    <3>2. QED
      BY <2>4, <3>1, CallKeepsCoherent
  <2>6. t.user = u /\ t.item = i /\ entry'[u][i] = After(t.call, e)
    <3>1. ~Loses(entry[u][i], entry[u][i])
      BY DEF Loses
    <3>2. QED
      BY <2>4, <3>1 DEF TypeOK
  <2>7. QED
    BY <2>3, <2>5, <2>6
<1>2. QED
  BY <1>1, LocksHeld, KeptHeld, PTL DEF Spec, LossIsAcknowledged
-----------------------------------------------------------------------------
\* The favorites of one type.
Favorites(u, type) == {i \in Items : entry[u][i].favorite /\ TypeOf[i] = type}

LEMMA QuotaInit == Init => QuotaHeld
<1> SUFFICES ASSUME Init, NEW u \in Users, NEW type \in Types
             PROVE  Cardinality(Favorites(u, type)) <= FavoriteLimit
  BY DEF QuotaHeld, Favorites
<1>1. Favorites(u, type) = {}
  BY DEF Init, NoEntry, Favorites
<1>2. QED
  BY <1>1, FS_EmptySet, LimitAssumption

LEMMA QuotaNext == TypeOK /\ QuotaHeld /\ AtomicStep => QuotaHeld'
<1> SUFFICES ASSUME TypeOK, QuotaHeld, AtomicStep, NEW u \in Users, NEW type \in Types
             PROVE  Cardinality(Favorites(u, type)') <= FavoriteLimit
  BY DEF QuotaHeld, Favorites
<1> DEFINE now == Favorites(u, type)
           next == Favorites(u, type)'
<1>1. Cardinality(now) <= FavoriteLimit
  BY DEF QuotaHeld, Favorites
<1>2. now \subseteq Items /\ IsFiniteSet(now) /\ Cardinality(now) \in Nat
  BY FiniteAssumption, FS_Subset, FS_CardinalityType DEF Favorites
<1>3. CASE next \subseteq now
  <2>1. Cardinality(next) <= Cardinality(now) /\ Cardinality(next) \in Nat
    BY <1>2, <1>3, FS_Subset, FS_CardinalityType
  <2>2. QED
    BY <1>1, <1>2, <2>1, LimitAssumption
<1>4. ASSUME NEW i \in Items, NEW call \in Calls, Performs(u, i, call), ~(next \subseteq now)
      PROVE  Cardinality(next) <= FavoriteLimit
  <2>1. /\ entry' = [entry EXCEPT ![u][i] = After(call, entry[u][i])]
        /\ Accepts(entry[u], i, call) /\ entry[u][i] \in Entry
    BY <1>4 DEF Performs, TypeOK
  <2>2. \A k \in Items \ {i} : entry'[u][k] = entry[u][k]
    BY <2>1 DEF TypeOK
  <2>3. entry'[u][i].favorite /\ ~entry[u][i].favorite /\ TypeOf[i] = type
    BY <1>4, <2>2 DEF Favorites
  <2>4. call.kind = "favorite"
    <3>1. entry'[u][i].favorite = FavoriteAfter(call, entry[u][i].favorite)
      BY <2>1, AfterFields DEF TypeOK
    <3>2. QED
      BY <2>3, <3>1 DEF FavoriteAfter
  <2>5. HasRoom(entry[u], i)
    BY <2>1, <2>3, <2>4 DEF Accepts
  <2> DEFINE others == Others(entry[u], i)
  <2>6. next = others \cup {i} /\ i \notin others /\ others \subseteq Items
    BY <2>2, <2>3 DEF Others, Favorites
  <2>7. IsFiniteSet(others) /\ Cardinality(others) \in Nat
    BY <2>6, FiniteAssumption, FS_Subset, FS_CardinalityType
  <2>8. Cardinality(next) = Cardinality(others) + 1
    BY <2>6, <2>7, FS_AddElement
  <2>9. Cardinality(others) < FavoriteLimit
    BY <2>5 DEF HasRoom
  <2>10. QED
    BY <2>7, <2>8, <2>9, LimitAssumption
<1>5. ASSUME NEW v \in Users \ {u}, NEW i \in Items, NEW call \in Calls, Performs(v, i, call)
      PROVE  next = now
  BY <1>5 DEF Performs, Favorites, TypeOK
<1>6. ASSUME entry' = entry PROVE next = now
  BY <1>6 DEF Favorites
<1>7. QED
  BY <1>3, <1>4, <1>5, <1>6 DEF AtomicStep, Chooses

\* set_favorite counts and inserts under lock_user: the limit holds however many
\* requests count at once.
THEOREM QuotaIsHeld == Spec => []QuotaHeld
<1>1. TypeOK /\ Locks /\ QuotaHeld /\ [Next]_vars => QuotaHeld'
  BY QuotaNext, StepIsAtomic
<1>2. QED
  BY <1>1, QuotaInit, LocksHeld, PTL DEF Spec
-----------------------------------------------------------------------------
(* The aggregates.  The snapshot of a request counts its own rating as its   *)
(* call leaves it, whatever it misses of the other users'.                   *)

OwnIsSeen(t) ==
    t.at # "idle" /\ SavesRating(t) /\ t.at # "saving" =>
      (t.user \in t.seen <=> After(t.call, t.read).rating = "active")

Seen == \A p \in Requests : OwnIsSeen(req[p])

LEMMA SeenInit == Init => Seen
  BY DEF Init, Seen, OwnIsSeen, Idle

\* A request that has its snapshot keeps it.
LEMMA SeenKept ==
    ASSUME NEW t \in Transaction, OwnIsSeen(t), t.at # "saving", NEW n \in Transaction,
           n.user = t.user, n.call = t.call, n.read = t.read, n.seen = t.seen
    PROVE  OwnIsSeen(n)
  BY DEF OwnIsSeen, SavesRating, Transaction

LEMMA SeenSnapshot ==
    ASSUME TypeOK, NEW p \in Requests, TakeSnapshot(p)
    PROVE  OwnIsSeen(req'[p])
<1> DEFINE t == req[p]
           active == After(t.call, t.read).rating = "active"
           others == {u \in Users \ {t.user} : entry[u][t.item].rating = "active"}
           seen == IF active THEN others \cup {t.user} ELSE others
<1>1. t \in Transaction
  BY OpenType DEF TakeSnapshot
<1>2. req'[p] = [t EXCEPT !.at = "counting", !.seen = seen]
  BY DEF TakeSnapshot, TypeOK
<1>3. t.user \in seen <=> active
  OBVIOUS
<1> HIDE DEF seen
<1>4. req'[p].user = t.user /\ req'[p].call = t.call /\ req'[p].read = t.read
      /\ req'[p].seen = seen
  BY <1>1, <1>2 DEF Transaction
<1>5. QED
  BY <1>3, <1>4 DEF OwnIsSeen

LEMMA SeenNext == TypeOK /\ Seen /\ [Next]_vars => Seen'
<1> SUFFICES ASSUME TypeOK, Seen, [Next]_vars, TypeOK', NEW q \in Requests, req'[q].at # "idle"
             PROVE  OwnIsSeen(req'[q])
  BY TypeNext DEF Seen, OwnIsSeen
<1>1. req'[q] \in Transaction
  BY DEF TypeOK, Idle
<1>2. CASE req'[q] = req[q]
  BY <1>2 DEF Seen
<1>3. ASSUME NEW u \in Users, NEW i \in Items, NEW call \in Calls, BeginCall(q, u, i, call)
      PROVE  OwnIsSeen(req'[q])
  <2> DEFINE expected == IF Syncs(call)
                           THEN Membership([entry[u] EXCEPT ![i] = After(call, @)]) ELSE {}
             t == [at |-> "saving", user |-> u, item |-> i, call |-> call,
                   read |-> entry[u][i], seen |-> {}, stale |-> {}, missing |-> {},
                   expected |-> expected]
             at == IF SavesRating(t) THEN "saving"
                   ELSE IF Syncs(call) THEN "reading" ELSE "ready"
  <2>1. req'[q] = [t EXCEPT !.at = at]
    BY <1>3 DEF BeginCall, TypeOK
  <2> HIDE DEF expected
  <2>2. t.call = call /\ t.read = entry[u][i]
    OBVIOUS
  <2>3. req'[q].at = at /\ req'[q].call = call /\ req'[q].read = entry[u][i]
    <3> HIDE DEF at
    <3>1. QED
      BY <2>1
  <2>4. SavesRating(req'[q]) <=> SavesRating(t)
    BY <2>2, <2>3 DEF SavesRating
  <2> HIDE DEF t
  <2>5. QED
    BY <2>3, <2>4 DEF OwnIsSeen
<1>4. ASSUME NEW u \in Users, BeginView(q, u)
      PROVE  OwnIsSeen(req'[q])
  <2>1. req'[q].call = View
    BY <1>4 DEF BeginView, TypeOK
  <2>2. QED
    BY <2>1 DEF OwnIsSeen, SavesRating
<1>5. CASE TakeSnapshot(q)
  BY <1>5, SeenSnapshot
<1>6. CASE UpdateItem(q) \/ ReadRows(q)
  <2>1. req[q] \in Transaction /\ req[q].at # "saving"
    BY <1>6, OpenType DEF UpdateItem, ReadRows
  <2>2. /\ req'[q].user = req[q].user /\ req'[q].call = req[q].call
        /\ req'[q].read = req[q].read /\ req'[q].seen = req[q].seen
    BY <1>6, <2>1 DEF UpdateItem, ReadRows, TypeOK, Transaction
  <2>3. QED
    BY <1>1, <2>1, <2>2, SeenKept DEF Seen
<1>7. ASSUME NEW p \in Requests, Commit(p)
      PROVE  OwnIsSeen(req'[q])
  <2>1. /\ q # p /\ req[q] \in Transaction
        /\ \/ req'[q] = req[q]
           \/ req'[q] = [req[q] EXCEPT !.stale = @ \ req[p].stale]
    BY <1>7 DEF Commit, TypeOK, Idle
  <2>2. /\ req'[q].user = req[q].user /\ req'[q].call = req[q].call
        /\ req'[q].read = req[q].read /\ req'[q].seen = req[q].seen
        /\ req'[q].at = req[q].at
    BY <2>1 DEF Transaction
  <2>3. QED
    BY <2>1, <2>2 DEF Seen, OwnIsSeen, SavesRating
<1>8. ASSUME NEW p \in Requests, Conflict(p) \/ Fail(p)
      PROVE  req'[q] = req[q]
  BY <1>8 DEF Conflict, Fail, Rollback, TypeOK, Idle
<1>9. ASSUME NEW p \in Requests \ {q},
             \/ \E u \in Users, i \in Items, call \in Calls : BeginCall(p, u, i, call)
             \/ \E u \in Users : BeginView(p, u)
             \/ TakeSnapshot(p) \/ UpdateItem(p) \/ ReadRows(p)
      PROVE  req'[q] = req[q]
  <2>1. CASE \E u \in Users, i \in Items, call \in Calls : BeginCall(p, u, i, call)
    BY <2>1 DEF BeginCall, TypeOK
  <2>2. CASE \E u \in Users : BeginView(p, u)
    BY <2>2 DEF BeginView, TypeOK
  <2>3. CASE TakeSnapshot(p)
    BY <2>3 DEF TakeSnapshot, TypeOK
  <2>4. CASE UpdateItem(p)
    BY <2>4 DEF UpdateItem, TypeOK
  <2>5. CASE ReadRows(p)
    BY <2>5 DEF ReadRows, TypeOK
  <2>6. QED
    BY <1>9, <2>1, <2>2, <2>3, <2>4, <2>5
<1>10. ASSUME NEW u \in Users, NEW i \in Items \cup {NoItem}, ChooseBanner(u, i)
       PROVE  req'[q] = req[q]
  BY <1>10 DEF ChooseBanner
<1>11. CASE UNCHANGED vars
  BY <1>2, <1>11 DEF vars
<1>12. QED
  BY <1>2, <1>3, <1>4, <1>5, <1>6, <1>7, <1>8, <1>9, <1>10, <1>11 DEF Next, Proceed

LEMMA SeenHeld == Spec => []Seen
  BY SeenInit, SeenNext, TypeCorrect, PTL DEF Spec

\* What a commit does to one rating and to what the aggregates count of it.
LEMMA CommitCounts ==
    ASSUME TypeOK, Seen, NEW p \in Requests, Commit(p),
           NEW u \in Users, NEW i \in Items
    PROVE  LET t == req[p] IN
           IF Counts(t) /\ t.item = i
             THEN /\ counted'[i] = t.seen
                  /\ u # t.user => entry'[u][i].rating = entry[u][i].rating
                  /\ u = t.user => (u \in t.seen <=> entry'[u][i].rating = "active")
             ELSE counted'[i] = counted[i] /\ entry'[u][i].rating = entry[u][i].rating
<1> DEFINE t == req[p]
           new == After(t.call, t.read)
           e == entry[t.user][t.item]
           n == [f \in DOMAIN e |-> IF f \in Writes(t) THEN new[f] ELSE e[f]]
<1>1. t \in Transaction /\ t.at = "ready" /\ OwnIsSeen(t)
  BY OpenType DEF Commit, Seen
<1>2. counted' = IF Counts(t) THEN [counted EXCEPT ![t.item] = t.seen] ELSE counted
  BY DEF Commit
<1>3. CASE t.call = View
  BY <1>2, <1>3 DEF Commit, Counts, SavesRating
<1>4. CASE t.call # View
  <2>1. t.user \in Users /\ t.item \in Items /\ e \in Entry
    BY <1>1, <1>4, OpenFields DEF TypeOK
  <2>2. entry' = [entry EXCEPT ![t.user][t.item] = n]
    BY <1>4 DEF Commit
  <2>3. n.rating = IF SavesRating(t) THEN new.rating ELSE e.rating
    BY <2>1 DEF Entry, Writes
  <2> HIDE DEF n
  <2>4. entry'[u][i] = IF u = t.user /\ i = t.item THEN n ELSE entry[u][i]
    BY <2>1, <2>2 DEF TypeOK
  <2>5. Counts(t) => (t.user \in t.seen <=> new.rating = "active")
    BY <1>1 DEF OwnIsSeen, Counts
  <2>6. CASE Counts(t) /\ t.item = i
    BY <1>2, <2>3, <2>4, <2>5, <2>6 DEF TypeOK, Counts
  <2>7. CASE ~(Counts(t) /\ t.item = i)
    BY <1>2, <2>3, <2>4, <2>7 DEF TypeOK, Counts
  <2>8. QED
    BY <2>6, <2>7
<1>5. QED
  BY <1>3, <1>4

\* Only a commit writes ratings or aggregates.
LEMMA CommitsWrite ==
    ASSUME [Next]_vars
    PROVE  (\E p \in Requests : Commit(p)) \/ UNCHANGED <<entry, counted>>
<1>1. ASSUME NEW p \in Requests,
             \/ \E u \in Users, i \in Items, call \in Calls : BeginCall(p, u, i, call)
             \/ \E u \in Users : BeginView(p, u)
             \/ TakeSnapshot(p) \/ UpdateItem(p) \/ ReadRows(p)
             \/ Conflict(p) \/ Fail(p)
      PROVE  UNCHANGED <<entry, counted>>
  BY <1>1, QuietSteps
<1>2. ASSUME NEW u \in Users, NEW i \in Items \cup {NoItem}, ChooseBanner(u, i)
      PROVE  UNCHANGED <<entry, counted>>
  BY <1>2 DEF ChooseBanner
<1>3. QED
  BY <1>1, <1>2 DEF Next, Proceed, vars

\* A change of a user's rating leaves the aggregates with that rating counted
\* exactly if it is active.  What a commit may get wrong is another user's.
OwnRatingIsCounted ==
    [][\A u \in Users, i \in Items :
         entry'[u][i].rating # entry[u][i].rating =>
           (u \in counted'[i] <=> entry'[u][i].rating = "active")]_vars

\* The signals of Rating count the rating whose save or deletion sent them,
\* whatever other transactions do meanwhile.
THEOREM OwnRatingsCounted == Spec => OwnRatingIsCounted
<1> DEFINE A == \A u \in Users, i \in Items :
                  entry'[u][i].rating # entry[u][i].rating =>
                    (u \in counted'[i] <=> entry'[u][i].rating = "active")
<1>1. TypeOK /\ Seen /\ [Next]_vars => A
  <2> SUFFICES ASSUME TypeOK, Seen, [Next]_vars, NEW u \in Users, NEW i \in Items,
                      entry'[u][i].rating # entry[u][i].rating
               PROVE  u \in counted'[i] <=> entry'[u][i].rating = "active"
    OBVIOUS
  <2>1. PICK p \in Requests : Commit(p)
    BY CommitsWrite
  <2>2. QED
    BY <2>1, CommitCounts
<1>2. QED
  BY <1>1, TypeCorrect, SeenHeld, PTL DEF Spec, OwnRatingIsCounted

\* While one user rates, however many of that user's requests race, the
\* aggregates are those of the active ratings.  With two users they need not be:
\* the snapshots of update_rating_aggregates may miss each other's commits.
THEOREM AggregatesMatchForOne ==
    ASSUME NEW user, Users = {user}
    PROVE  Spec => []AggregatesMatch
<1>1. Init => AggregatesMatch
  BY DEF Init, AggregatesMatch, NoEntry
<1>2. TypeOK /\ Seen /\ AggregatesMatch /\ [Next]_vars => AggregatesMatch'
  <2> SUFFICES ASSUME TypeOK, Seen, AggregatesMatch, [Next]_vars, TypeOK', NEW i \in Items
               PROVE  user \in counted'[i] <=> entry'[user][i].rating = "active"
    BY TypeNext DEF AggregatesMatch, TypeOK
  <2>1. user \in counted[i] <=> entry[user][i].rating = "active"
    BY DEF AggregatesMatch
  <2>2. ASSUME NEW p \in Requests, Commit(p)
        PROVE  user \in counted'[i] <=> entry'[user][i].rating = "active"
    <3>1. req[p].user = user
      BY <2>2, OpenType, OpenFields DEF Commit
    <3>2. QED
      BY <2>1, <2>2, <3>1, CommitCounts
  <2>3. QED
    BY <2>1, <2>2, CommitsWrite
<1>3. QED
  BY <1>1, <1>2, TypeCorrect, SeenHeld, PTL DEF Spec
=============================================================================
