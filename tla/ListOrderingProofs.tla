------------------------- MODULE ListOrderingProofs -------------------------
(* Proofs about ListOrdering, for any ids, requests and first lists.         *)
EXTENDS ListOrdering, FiniteSetTheorems, WellFoundedInduction, TLAPS

-----------------------------------------------------------------------------
(* The last place of a list *)

Above(n, S) == {m \in S : n < m}

LEMMA AboveShrinks ==
    ASSUME NEW S \in SUBSET Nat, NEW n \in S, NEW m \in Above(n, S)
    PROVE  Above(m, S) \subseteq Above(n, S) /\ Above(m, S) # Above(n, S)
<1>1. n \in Nat /\ m \in Nat /\ m \in S /\ n < m
  BY DEF Above
<1>2. ASSUME NEW k \in Above(m, S)
      PROVE  k \in Above(n, S)
  BY <1>1 DEF Above
<1>3. m \notin Above(m, S)
  BY <1>1 DEF Above
<1>4. QED
  BY <1>2, <1>3

\* A finite set of numbers has a largest one.
LEMMA FiniteMax ==
    ASSUME NEW S, S \subseteq Nat, IsFiniteSet(S)
    PROVE  \E n \in S \cup {0} : \A m \in S : m <= n
<1>1. CASE S = {}
  BY <1>1
<1>2. CASE S # {}
  <2> DEFINE T == {Above(n, S) : n \in S}
  <2>1. T \subseteq FiniteSubsetsOf(S)
    BY FS_Subset DEF FiniteSubsetsOf, Above
  <2>2. T # {}
    BY <1>2
  <2>3. IsWellFoundedOn(StrictSubsetOrdering(S), FiniteSubsetsOf(S))
    BY FS_StrictSubsetOrderingWellFounded
  <2> HIDE DEF T
  <2>4. PICK x \in T : \A y \in T : ~(<<y, x>> \in StrictSubsetOrdering(S))
    BY <2>1, <2>2, <2>3, WFMin
  <2>5. PICK n \in S : x = Above(n, S)
    BY DEF T
  <2>6. ASSUME NEW m \in Above(n, S)
        PROVE  FALSE
    <3>1. m \in S /\ Above(m, S) \in T
      BY DEF T, Above
    <3>2. Above(m, S) \subseteq x /\ Above(m, S) # x
      BY <2>5, AboveShrinks
    <3>3. <<Above(m, S), x>> \in StrictSubsetOrdering(S)
      BY <3>1, <3>2, <2>1 DEF StrictSubsetOrdering, FiniteSubsetsOf, Above
    <3>4. QED
      BY <3>1, <3>3, <2>4
  <2>7. \A m \in S : m <= n
    BY <2>6 DEF Above
  <2>8. QED
    BY <2>7
<1>3. QED
  BY <1>1, <1>2

LEMMA NumbersOfList ==
    ASSUME NEW f, IsList(f)
    PROVE  Numbers(f) \subseteq Nat \ {0} /\ IsFiniteSet(Numbers(f))
<1> DEFINE S == DOMAIN f
           g == [i \in S |-> f[i]]
<1>1. IsFiniteSet(S) /\ \A i \in S : f[i] \in Nat \ {0}
  BY DEF IsList
<1>2. Numbers(f) \subseteq Nat \ {0}
  BY <1>1 DEF Numbers
<1>3. g \in Surjection(S, Numbers(f))
  BY DEF Surjection, Numbers
<1>4. QED
  BY <1>1, <1>2, <1>3, FS_Surjection

\* Max('list_order') or 0 is what its name says.
LEMMA LastIsLast ==
    ASSUME NEW f, IsList(f)
    PROVE  Last(f) \in Nat /\ \A i \in DOMAIN f : f[i] <= Last(f)
<1>1. \E n \in Numbers(f) \cup {0} : \A m \in Numbers(f) : m <= n
  BY NumbersOfList, FiniteMax
<1>2. Last(f) \in Numbers(f) \cup {0} /\ \A m \in Numbers(f) : m <= Last(f)
  BY <1>1 DEF Last
<1>3. Numbers(f) \cup {0} \subseteq Nat
  BY NumbersOfList
<1>4. \A i \in DOMAIN f : f[i] \in Numbers(f)
  BY DEF Numbers
<1>5. QED
  BY <1>2, <1>3, <1>4

-----------------------------------------------------------------------------
(* The inductive invariant *)

Adding(r) == req[r].step = "add"
Updating(r) == req[r].step = "update"

\* What a request still needs to be true of what it read.
Sound(q) ==
    /\ q = [step |-> q.step, seen |-> q.seen, item |-> q.item,
            named |-> q.named, to |-> q.to]
    /\ q.step \in Steps
    /\ q.step \in {"add", "update", "order", "asked", "move"} => IsList(q.seen)
    /\ q.step = "order" => DOMAIN q.named \subseteq Nat \ {0}
    /\ q.step \in {"update", "asked", "move"} => q.item \in DOMAIN q.seen
    /\ q.step = "move" => q.to \in Nat \ {0}
    /\ q.item \in Items \cup {Nobody} /\ DOMAIN q.seen \subseteq Items
    /\ q.named = <<>> \/ NamedIds(q.named) = DOMAIN q.seen
Requested ==
    /\ req = [r \in Requests |-> req[r]]
    /\ \A r \in Requests : Sound(req[r])

\* The id of a new row is nobody else's, that of a removed row an update may insert again
\* included.
Fresh ==
    \A r \in Requests : Adding(r) =>
       /\ req[r].item \in Items \ Ids
       /\ \A s \in Requests \ {r} : Adding(s) \/ Updating(s) => req[s].item # req[r].item

Inv == IsList(rows) /\ Requested /\ Fresh

LEMMA IdleIsSound == Sound(Idle) /\ Sound(Done) /\ Done.step = "done"
  BY DEF Sound, Idle, Done, Steps, Nobody, NamedIds

LEMMA InitInv == Init => Inv
<1> SUFFICES ASSUME Init PROVE Inv
  OBVIOUS
<1>1. \A r \in Requests : req[r] = Idle /\ req[r].step = "idle"
  BY DEF Init, Idle
<1>2. Requested
  BY <1>1, IdleIsSound DEF Init, Requested
<1>3. Fresh
  BY <1>1 DEF Fresh, Adding, Updating
<1>4. QED
  BY <1>2, <1>3 DEF Init, Inv

\* A request that reads and goes on leaves the list alone.
LEMMA ReadingKeeps ==
    ASSUME Inv, NEW r \in Requests, NEW q, Sound(q),
           UNCHANGED rows, req' = [req EXCEPT ![r] = q],
           q.step = "add" => q.item \in Unheard,
           q.step = "update" => q.item \in Ids
    PROVE  Inv'
<1>1. /\ req' = [s \in Requests |-> IF s = r THEN q ELSE req[s]]
      /\ \A s \in Requests : Sound(req[s])
  BY DEF Inv, Requested
<1>2. Requested'
  BY <1>1 DEF Requested
<1>3. q.step = "add" =>
         q.item \in Items \ Ids /\ \A s \in Requests : q.item # req[s].item
  BY DEF Unheard, Known
<1>4. Fresh'
  BY <1>1, <1>3 DEF Inv, Fresh, Adding, Updating, Ids
<1>5. QED
  BY <1>2, <1>4 DEF Inv

\* The end of a request keeps the invariant when what it leaves is a list and no id
\* that another request is about to use.
LEMMA EndingKeeps ==
    ASSUME Inv, NEW r \in Requests, Ends(r), IsList(rows)',
           \A s \in Requests \ {r} : Adding(s) => req[s].item \notin DOMAIN rows'
    PROVE  Inv' /\ req'[r] = Done
<1>1. /\ req' = [s \in Requests |-> IF s = r THEN Done ELSE req[s]]
      /\ \A s \in Requests : Sound(req[s])
  BY DEF Inv, Requested, Ends
<1>2. Requested'
  BY <1>1, IdleIsSound DEF Requested
<1>3. \A s \in Requests :
         /\ Adding(s)' => s # r /\ Adding(s) /\ req'[s] = req[s]
         /\ Updating(s)' => Updating(s) /\ req'[s] = req[s]
  BY <1>1, IdleIsSound DEF Adding, Updating
<1>4. Fresh'
  BY <1>3 DEF Inv, Fresh, Ids
<1>5. QED
  BY <1>1, <1>2, <1>4 DEF Inv

-----------------------------------------------------------------------------
(* What each transaction leaves *)

LEMMA InsertIsMeant ==
    ASSUME Inv, NEW r \in Requests, Insert(r)
    PROVE  /\ IsList(rows)' /\ AddMeant(r)
           /\ \A s \in Requests \ {r} : Adding(s) => req[s].item \notin DOMAIN rows'
<1> DEFINE new == req[r].item
           place == NewPlace(r)
<1>1. IsList(rows) /\ IsList(req[r].seen)
  BY DEF Inv, Requested, Sound, Insert
<1>2. new \in Items \ Ids
  BY DEF Inv, Fresh, Adding, Insert
<1>3. place \in Nat \ {0} /\ \A i \in DOMAIN req[r].seen : req[r].seen[i] < place
  <2>1. place = Last(req[r].seen) + 1
    BY DEF NewPlace
  <2>2. Last(req[r].seen) \in Nat /\ \A i \in DOMAIN req[r].seen : req[r].seen[i] <= Last(req[r].seen)
    BY <1>1, LastIsLast
  <2>3. \A i \in DOMAIN req[r].seen : req[r].seen[i] \in Nat
    BY <1>1 DEF IsList
  <2> HIDE DEF place
  <2>4. QED
    BY <2>1, <2>2, <2>3
<1>4. place \notin Numbers(rows)
  BY DEF Insert
<1>5. rows' = [i \in Ids \cup {new} |-> IF i \in Ids THEN rows[i] ELSE place]
  BY DEF Insert
<1> HIDE DEF new, place
<1>6. /\ DOMAIN rows' = Ids \cup {new}
      /\ \A i \in Ids : rows'[i] = rows[i] /\ rows[i] \in Nat \ {0} /\ rows[i] # place
      /\ rows'[new] = place
  BY <1>1, <1>2, <1>4, <1>5 DEF IsList, Numbers, Ids
<1>7. IsList(rows)'
  <2>1. DOMAIN rows' \subseteq Items /\ IsFiniteSet(DOMAIN rows')
    BY <1>1, <1>2, <1>6, FS_AddElement DEF IsList, Ids
  <2>2. rows' \in [DOMAIN rows' -> Nat \ {0}]
    BY <1>2, <1>3, <1>5, <1>6
  <2>3. Distinct(rows)'
    <3>1. Distinct(rows)
      BY <1>1 DEF IsList
    <3>2. \A i, j \in DOMAIN rows' : rows'[i] = rows'[j] => i = j
      BY <3>1, <1>6 DEF Distinct, Ids
    <3>3. QED
      BY <3>2 DEF Distinct
  <2>4. QED
    BY <2>1, <2>2, <2>3 DEF IsList
<1>8. AddMeant(r)
  BY <1>3, <1>6 DEF AddMeant, KeepsOrder, new
<1>9. \A s \in Requests \ {r} : Adding(s) => req[s].item \notin DOMAIN rows'
  BY <1>6 DEF Inv, Fresh, Adding, Insert, new
<1>10. QED
  BY <1>7, <1>8, <1>9

LEMMA UpdateIsMeant ==
    ASSUME Inv, NEW r \in Requests, Update(r)
    PROVE  /\ IsList(rows)' /\ (rows' # rows => UpdateMeant(r))
           /\ \A s \in Requests \ {r} : Adding(s) => req[s].item \notin DOMAIN rows'
<1> DEFINE item == req[r].item
           old == OldPos(r)
<1>1. IsList(rows) /\ IsList(req[r].seen) /\ item \in DOMAIN req[r].seen
  BY DEF Inv, Requested, Sound, Update
<1>2. item \in Items /\ old \in Nat \ {0}
  BY <1>1 DEF IsList, OldPos
<1>3. /\ rows' = [i \in Ids \cup {item} |-> IF i = item THEN old ELSE rows[i]]
      /\ Distinct(rows)'
  BY DEF Update, Updated, Distinct
<1> HIDE DEF item, old
<1>4. /\ DOMAIN rows' = Ids \cup {item}
      /\ \A i \in Ids \ {item} : rows'[i] = rows[i]
      /\ rows'[item] = old
  BY <1>3
<1>5. IsList(rows)'
  <2>1. DOMAIN rows' \subseteq Items /\ IsFiniteSet(DOMAIN rows')
    BY <1>1, <1>2, <1>4, FS_AddElement DEF IsList, Ids
  <2>2. rows' \in [DOMAIN rows' -> Nat \ {0}]
    BY <1>1, <1>2, <1>3, <1>4 DEF IsList, Ids
  <2>3. QED
    BY <1>3, <2>1, <2>2 DEF IsList
<1>6. ASSUME item \in Ids, rows[item] = old
      PROVE  rows' = rows
  <2>1. rows = [i \in Ids |-> rows[i]]
    BY <1>1 DEF IsList, Ids
  <2>2. QED
    BY <1>3, <1>6, <2>1
<1>7. rows' # rows => UpdateMeant(r)
  BY <1>4, <1>6 DEF UpdateMeant, item, old
<1>8. \A s \in Requests \ {r} : Adding(s) => req[s].item \notin DOMAIN rows'
  BY <1>4 DEF Inv, Fresh, Updating, Update, item
<1>9. QED
  BY <1>5, <1>7, <1>8

LEMMA RemoveIsMeant ==
    ASSUME Inv, NEW r \in Requests, NEW i \in Items, Remove(r, i)
    PROVE  IsList(rows)' /\ DOMAIN rows' \subseteq Ids /\ KeepsOrder(Stays)
<1>1. IsList(rows)
  BY DEF Inv
<1>2. /\ rows' = [j \in Ids \ {i} |-> rows[j]]
      /\ DOMAIN rows' = Ids \ {i} /\ \A j \in Ids \ {i} : rows'[j] = rows[j]
  BY DEF Remove
<1>3. IsFiniteSet(DOMAIN rows')
  BY <1>1, <1>2, FS_Subset DEF IsList, Ids
<1>4. Distinct(rows)'
  <2>1. Distinct(rows)
    BY <1>1 DEF IsList
  <2>2. \A j, k \in DOMAIN rows' : rows'[j] = rows'[k] => j = k
    BY <2>1, <1>2 DEF Distinct, Ids
  <2>3. QED
    BY <2>2 DEF Distinct
<1>5. IsList(rows)'
  BY <1>1, <1>2, <1>3, <1>4 DEF IsList, Ids
<1>6. QED
  BY <1>2, <1>5 DEF KeepsOrder, Stays

LEMMA ArrangeIsMeant ==
    ASSUME Inv, NEW r \in Requests, Arrange(r)
    PROVE  IsList(rows)' /\ OrderMeant(r)
<1> DEFINE named == req[r].named
<1>1. IsList(rows) /\ DOMAIN named \subseteq Nat \ {0}
  BY DEF Inv, Requested, Sound, Arrange
<1>2. /\ rows' = [i \in Ids |-> IF i \in NamedIds(named) THEN Place(named, i) ELSE rows[i]]
      /\ Distinct(rows)'
  BY DEF Arrange, Arranged, Distinct
<1> HIDE DEF named
<1>3. \A i \in NamedIds(named) : Place(named, i) \in DOMAIN named
  BY DEF NamedIds, Place
<1>4. /\ DOMAIN rows' = Ids
      /\ \A i \in Ids \ NamedIds(named) : rows'[i] = rows[i]
      /\ \A i \in Ids \cap NamedIds(named) : rows'[i] = Place(named, i)
  BY <1>2
<1>5. rows' \in [DOMAIN rows' -> Nat \ {0}]
  BY <1>1, <1>2, <1>3, <1>4 DEF IsList, Ids
<1>6. IsList(rows)'
  BY <1>1, <1>2, <1>4, <1>5 DEF IsList, Ids
<1>7. OrderMeant(r)
  BY <1>4 DEF OrderMeant, KeepsOrder, named
<1>8. QED
  BY <1>6, <1>7

\* Where a move puts a row that was at n.
Slid(old, new, n) ==
    IF new < old THEN IF new <= n /\ n < old THEN n + 1 ELSE n
                 ELSE IF old < n /\ n <= new THEN n - 1 ELSE n

LEMMA SlidKeepsOrder ==
    ASSUME NEW old \in Nat \ {0}, NEW new \in Nat \ {0},
           NEW m \in Nat \ {0}, NEW n \in Nat \ {0}
    PROVE  /\ Slid(old, new, n) \in Nat \ {0}
           /\ m <= n => Slid(old, new, m) <= Slid(old, new, n)
  BY DEF Slid

\* Which rows are before the one that moves.
LEMMA SlidPasses ==
    ASSUME NEW old \in Nat \ {0}, NEW new \in Nat \ {0}, NEW n \in Nat \ {0},
           Slid(old, new, n) # new
    PROVE  Slid(old, new, n) < new <=> IF new < old THEN n < new ELSE n <= new
  BY DEF Slid

\* In a list without gaps the row that moves is at old, and the others are from 1 to last.
LEMMA SlidFillsGaps ==
    ASSUME NEW last \in Nat, NEW old \in 1..last, NEW new \in 1..last
    PROVE  /\ \A n \in 1..last : n # old => Slid(old, new, n) \in 1..last
           /\ \A k \in 1..last : k # new =>
                 \E n \in 1..last : n # old /\ Slid(old, new, n) = k
<1>1. \A n \in 1..last : n # old => Slid(old, new, n) \in 1..last
  BY DEF Slid
<1>2. ASSUME NEW k \in 1..last, k # new
      PROVE  \E n \in 1..last : n # old /\ Slid(old, new, n) = k
  <2>1. CASE new < k /\ k <= old
    <3>1. k - 1 \in 1..last /\ k - 1 # old /\ Slid(old, new, k - 1) = k
      BY <2>1 DEF Slid
    <3>2. QED
      BY <3>1
  <2>2. CASE old <= k /\ k < new
    <3>1. k + 1 \in 1..last /\ k + 1 # old /\ Slid(old, new, k + 1) = k
      BY <2>2 DEF Slid
    <3>2. QED
      BY <3>1
  <2>3. CASE ~(new < k /\ k <= old) /\ ~(old <= k /\ k < new)
    <3>1. k # old /\ Slid(old, new, k) = k
      BY <1>2, <2>3 DEF Slid
    <3>2. QED
      BY <3>1
  <2>4. QED
    BY <2>1, <2>2, <2>3
<1>3. QED
  BY <1>1, <1>2

LEMMA MoveIsMeant ==
    ASSUME Inv, NEW r \in Requests, Move(r)
    PROVE  IsList(rows)' /\ MoveMeant(r)
<1> DEFINE item == req[r].item
           old == OldPos(r)
           new == req[r].to
           others == Ids \ {item}
<1>1. /\ IsList(rows) /\ item \in Ids
      /\ IsList(req[r].seen) /\ item \in DOMAIN req[r].seen /\ new \in Nat \ {0}
  BY DEF Inv, Requested, Sound, Move
<1>2. old \in Nat \ {0} /\ Last(rows) \in Nat
  BY <1>1, LastIsLast DEF IsList, OldPos
<1>3. \A i \in Ids : rows[i] \in Nat \ {0}
  BY <1>1 DEF IsList, Ids
<1>4. /\ Shifted(r) = [i \in Ids |-> Slid(old, new, Aside(r)[i])]
      /\ rows' = [Shifted(r) EXCEPT ![item] = new]
      /\ Distinct(rows)' /\ Distinct(Shifted(r))
  BY DEF Move, Moved, Shifted, Slid, Distinct
<1>5. \A i \in others : Aside(r)[i] = rows[i]
  BY DEF Aside, Ids
<1> HIDE DEF item, old, new
<1>6. /\ DOMAIN rows' = Ids /\ rows'[item] = new
      /\ \A i \in others :
            Shifted(r)[i] = Slid(old, new, rows[i]) /\ rows'[i] = Slid(old, new, rows[i])
      /\ rows' = [i \in Ids |-> IF i = item THEN new ELSE Slid(old, new, rows[i])]
  BY <1>1, <1>4, <1>5
<1>7. IsList(rows)'
  <2>1. \A i \in others : Slid(old, new, rows[i]) \in Nat \ {0}
    BY <1>1, <1>2, <1>3, SlidKeepsOrder
  <2>2. rows' \in [Ids -> Nat \ {0}]
    BY <1>1, <1>6, <2>1
  <2>3. QED
    BY <1>1, <1>4, <1>6, <2>2 DEF IsList, Ids
<1>8. KeepsOrder(others)
  <2> SUFFICES ASSUME NEW i \in others, NEW j \in others
               PROVE  rows[i] < rows[j] <=> rows'[i] < rows'[j]
    BY DEF KeepsOrder
  <2>1. rows[i] \in Nat \ {0} /\ rows[j] \in Nat \ {0}
    BY <1>3
  <2>2. /\ rows'[i] \in Nat /\ rows'[j] \in Nat
        /\ rows[i] <= rows[j] => rows'[i] <= rows'[j]
        /\ rows[j] <= rows[i] => rows'[j] <= rows'[i]
    BY <1>1, <1>2, <1>6, <2>1, SlidKeepsOrder
  <2>3. rows[i] < rows[j] => rows'[i] # rows'[j]
    BY <1>4, <1>6, <2>1 DEF Distinct
  <2>4. QED
    BY <2>1, <2>2, <2>3
<1>9. ASSUME rows = req[r].seen, Numbers(rows) = 1..Cardinality(Ids), new \in Numbers(rows)
      PROVE  rows'[item] = new /\ Numbers(rows') = 1..Cardinality(Ids)
  <2> DEFINE last == Cardinality(Ids)
  <2>1. last \in Nat
    BY <1>1, FS_CardinalityType DEF IsList, Ids
  <2>2. old = rows[item] /\ \A i \in Ids : rows[i] \in 1..last
    BY <1>9 DEF OldPos, Numbers, Ids, old, item
  <2>3. \A i \in others : rows[i] # old
    BY <1>1, <2>2 DEF IsList, Distinct, Ids
  <2>4. old \in 1..last /\ new \in 1..last
    BY <1>1, <1>9, <2>2
  <2> HIDE DEF last
  <2>5. \A i \in Ids : rows'[i] \in 1..last
    BY <1>6, <2>1, <2>2, <2>3, <2>4, SlidFillsGaps
  <2>6. ASSUME NEW k \in 1..last
        PROVE  \E i \in Ids : rows'[i] = k
    <3>1. CASE k = new
      BY <1>1, <1>6, <3>1
    <3>2. CASE k # new
      <4>1. PICK n \in 1..last : n # old /\ Slid(old, new, n) = k
        BY <3>2, <2>1, <2>4, SlidFillsGaps
      <4>2. PICK i \in Ids : rows[i] = n
        BY <1>9 DEF Numbers, Ids, last
      <4>3. i \in others
        BY <2>2, <4>1, <4>2
      <4>4. QED
        BY <1>6, <4>1, <4>2, <4>3
    <3>3. QED
      BY <3>1, <3>2
  <2>7. Numbers(rows') = 1..last
    BY <1>6, <2>5, <2>6 DEF Numbers
  <2>8. QED
    BY <1>6, <2>7 DEF last
<1>10. \A i \in others :
          rows'[i] < rows'[item] <=> IF new < old THEN rows[i] < new ELSE rows[i] <= new
  <2> SUFFICES ASSUME NEW i \in others
               PROVE  rows'[i] < rows'[item] <=> IF new < old THEN rows[i] < new ELSE rows[i] <= new
    OBVIOUS
  <2>1. rows'[i] = Slid(old, new, rows[i]) /\ rows'[item] = new /\ rows[i] \in Nat \ {0}
    BY <1>3, <1>6
  <2>2. rows'[i] # rows'[item]
    BY <1>1, <1>4, <1>6 DEF Distinct
  <2>3. QED
    BY <1>1, <1>2, <2>1, <2>2, SlidPasses
<1>11. MoveMeant(r)
  BY <1>6, <1>8, <1>9, <1>10 DEF MoveMeant, item, old, new
<1>12. QED
  BY <1>7, <1>11

-----------------------------------------------------------------------------
(* Steps *)

\* The requests that read, and the one that fails, change no row.
LEMMA QuietSteps ==
    ASSUME Inv, NEW r \in Requests,
           \/ \E i \in Items : AskAdd(r, i) \/ AskUpdate(r, i)
           \/ \E i \in Items, n \in 1..Cardinality(Items) : AskMove(r, i, n)
           \/ AskOrder(r) \/ MayMove(r) \/ Fail(r)
    PROVE  Inv' /\ rows' = rows
<1>1. CASE \E i \in Items : AskAdd(r, i)
  <2>1. PICK i \in Items : AskAdd(r, i)
    BY <1>1
  <2> DEFINE q == [step |-> "add", seen |-> rows, item |-> i, named |-> <<>>, to |-> 0]
  <2>2. i \in Unheard /\ req' = [req EXCEPT ![r] = q] /\ UNCHANGED rows
    BY <2>1 DEF AskAdd, Asks
  <2>3. Sound(q) /\ q.step # "update" /\ q.item \in Unheard
    BY <2>2 DEF Sound, Steps, Inv, IsList, Unheard
  <2> HIDE DEF q
  <2>4. QED
    BY <2>2, <2>3, ReadingKeeps
<1>2. CASE \E i \in Items, n \in 1..Cardinality(Items) : AskMove(r, i, n)
  <2>1. PICK i \in Items, n \in 1..Cardinality(Items) : AskMove(r, i, n)
    BY <1>2
  <2> DEFINE q == [step |-> "asked", seen |-> rows, item |-> i, named |-> <<>>, to |-> n]
  <2>2. i \in Ids /\ req' = [req EXCEPT ![r] = q] /\ UNCHANGED rows
    BY <2>1 DEF AskMove, Asks
  <2>3. Sound(q) /\ q.step \notin {"add", "update"}
    BY <2>2 DEF Sound, Steps, Inv, IsList, Ids
  <2> HIDE DEF q
  <2>4. QED
    BY <2>2, <2>3, ReadingKeeps
<1>3. CASE AskOrder(r)
  <2>1. PICK named \in Orders : Asks(r, "order", Nobody, named, 0)
    BY <1>3 DEF AskOrder
  <2> DEFINE q == [step |-> "order", seen |-> rows, item |-> Nobody, named |-> named, to |-> 0]
  <2>2. req' = [req EXCEPT ![r] = q] /\ UNCHANGED rows
    BY <2>1 DEF Asks
  <2>3. DOMAIN named \subseteq Nat \ {0}
    <3>1. named \in [1..Cardinality(Ids) -> Ids]
      BY DEF Orders
    <3>2. Cardinality(Ids) \in Nat
      BY FS_CardinalityType DEF Inv, IsList, Ids
    <3>3. QED
      BY <3>1, <3>2
  <2>4. Sound(q) /\ q.step \notin {"add", "update"}
    <3>1. NamedIds(named) = DOMAIN rows /\ DOMAIN rows \subseteq Items
      BY DEF Orders, Ids, Inv, IsList
    <3>2. QED
      BY <2>3, <3>1 DEF Sound, Steps, Inv
  <2> HIDE DEF q
  <2>5. QED
    BY <2>2, <2>4, ReadingKeeps
<1>4. CASE MayMove(r)
  <2>1. /\ req[r].step = "asked" /\ Sound(req[r])
        /\ UNCHANGED rows
        /\ req = [s \in Requests |-> req[s]]
    BY <1>4 DEF MayMove, Inv, Requested
  <2>2. CASE req[r].to \in 1..Cardinality(Ids) /\ req[r].to # OldPos(r)
    <3> DEFINE q == [req[r] EXCEPT !.step = "move"]
    <3>1. req' = [req EXCEPT ![r] = q]
      BY <1>4, <2>1, <2>2 DEF MayMove
    <3>2. q = [step |-> "move", seen |-> req[r].seen, item |-> req[r].item,
               named |-> req[r].named, to |-> req[r].to]
      BY <2>1 DEF Sound
    <3>3. req[r].to \in Nat \ {0}
      <4>1. Cardinality(Ids) \in Nat
        BY FS_CardinalityType DEF Inv, IsList, Ids
      <4>2. QED
        BY <2>2, <4>1
    <3> HIDE DEF q
    <3>4. Sound(q) /\ q.step \notin {"add", "update"}
      BY <2>1, <3>2, <3>3 DEF Sound, Steps
    <3>5. QED
      BY <2>1, <3>1, <3>4, ReadingKeeps
  <2>3. CASE ~(req[r].to \in 1..Cardinality(Ids) /\ req[r].to # OldPos(r))
    <3>1. req' = [req EXCEPT ![r] = Done]
      BY <1>4, <2>1, <2>3 DEF MayMove
    <3>2. QED
      BY <2>1, <3>1, IdleIsSound, ReadingKeeps
  <2>4. QED
    BY <2>2, <2>3
<1>5. CASE Fail(r)
  BY <1>5, IdleIsSound, ReadingKeeps DEF Fail, Ends
<1>6. CASE \E i \in Items : AskUpdate(r, i)
  <2>1. PICK i \in Items : AskUpdate(r, i)
    BY <1>6
  <2> DEFINE q == [step |-> "update", seen |-> rows, item |-> i, named |-> <<>>, to |-> 0]
  <2>2. i \in Ids /\ req' = [req EXCEPT ![r] = q] /\ UNCHANGED rows
    BY <2>1 DEF AskUpdate, Asks
  <2>3. Sound(q) /\ q.step # "add" /\ q.item \in Ids
    BY <2>2 DEF Sound, Steps, Inv, IsList, Ids
  <2> HIDE DEF q
  <2>4. QED
    BY <2>2, <2>3, ReadingKeeps
<1>7. QED
  BY <1>1, <1>2, <1>3, <1>4, <1>5, <1>6

LEMMA StepKeepsInv ==
    ASSUME Inv, [Next]_vars
    PROVE  Inv' /\ StepIsMeant
<1>1. CASE UNCHANGED vars
  BY <1>1 DEF vars, Inv, IsList, Distinct, Requested, Fresh, Adding, Updating, Ids, StepIsMeant
<1>2. CASE Next
  <2>1. PICK r \in Requests :
           \/ \E i \in Items : AskAdd(r, i) \/ AskUpdate(r, i) \/ Remove(r, i)
           \/ \E i \in Items, n \in 1..Cardinality(Items) : AskMove(r, i, n)
           \/ AskOrder(r) \/ MayMove(r)
           \/ Insert(r) \/ Update(r) \/ Arrange(r) \/ Move(r) \/ Fail(r)
    BY <1>2 DEF Next
  <2>2. CASE \/ \E i \in Items : AskAdd(r, i) \/ AskUpdate(r, i)
             \/ \E i \in Items, n \in 1..Cardinality(Items) : AskMove(r, i, n)
             \/ AskOrder(r) \/ MayMove(r) \/ Fail(r)
    BY <2>2, QuietSteps DEF StepIsMeant
  <2>3. CASE \E i \in Items : Remove(r, i)
    <3>1. PICK i \in Items : Remove(r, i)
      BY <2>3
    <3>2. req[r].step = "idle" /\ Ends(r)
      BY <3>1 DEF Remove, Idle
    <3>3. IsList(rows)' /\ DOMAIN rows' \subseteq Ids /\ KeepsOrder(Stays)
      BY <3>1, RemoveIsMeant
    <3>4. \A s \in Requests \ {r} : Adding(s) => req[s].item \notin DOMAIN rows'
      BY <3>3 DEF Inv, Fresh
    <3>5. Inv' /\ req'[r] = Done
      BY <3>2, <3>3, <3>4, EndingKeeps
    <3>6. QED
      BY <3>2, <3>3, <3>5 DEF StepIsMeant
  <2>4. CASE Insert(r)
    <3>1. req[r].step = "add" /\ Ends(r)
      BY <2>4 DEF Insert
    <3>2. Inv' /\ req'[r] = Done /\ AddMeant(r)
      BY <2>4, <3>1, InsertIsMeant, EndingKeeps
    <3>3. QED
      BY <3>1, <3>2 DEF StepIsMeant
  <2>5. CASE Arrange(r)
    <3>1. req[r].step = "order" /\ Ends(r)
      BY <2>5 DEF Arrange
    <3>2. IsList(rows)' /\ OrderMeant(r)
      BY <2>5, ArrangeIsMeant
    <3>3. \A s \in Requests \ {r} : Adding(s) => req[s].item \notin DOMAIN rows'
      BY <3>2 DEF Inv, Fresh, OrderMeant
    <3>4. Inv' /\ req'[r] = Done
      BY <3>1, <3>2, <3>3, EndingKeeps
    <3>5. QED
      BY <3>1, <3>2, <3>4 DEF StepIsMeant
  <2>6. CASE Move(r)
    <3>1. req[r].step = "move" /\ Ends(r)
      BY <2>6 DEF Move
    <3>2. IsList(rows)' /\ MoveMeant(r)
      BY <2>6, MoveIsMeant
    <3>3. \A s \in Requests \ {r} : Adding(s) => req[s].item \notin DOMAIN rows'
      BY <3>2 DEF Inv, Fresh, MoveMeant
    <3>4. Inv' /\ req'[r] = Done
      BY <3>1, <3>2, <3>3, EndingKeeps
    <3>5. QED
      BY <3>1, <3>2, <3>4 DEF StepIsMeant
  <2>7. CASE Update(r)
    <3>1. req[r].step = "update" /\ Ends(r)
      BY <2>7 DEF Update
    <3>2. Inv' /\ req'[r] = Done /\ (rows' # rows => UpdateMeant(r))
      BY <2>7, <3>1, UpdateIsMeant, EndingKeeps
    <3>3. QED
      BY <3>1, <3>2 DEF StepIsMeant
  <2>8. QED
    BY <2>1, <2>2, <2>3, <2>4, <2>5, <2>6, <2>7
<1>3. QED
  BY <1>1, <1>2

LEMMA InvType == Inv => TypeOK
  BY DEF Inv, Requested, Sound, TypeOK

-----------------------------------------------------------------------------
(* Theorems *)

\* The invariant holds of every behaviour.
THEOREM Invariance == Spec => []Inv
<1>1. Inv /\ [Next]_vars => Inv'
  BY StepKeepsInv
<1>2. QED
  BY InitInv, <1>1, PTL DEF Spec

\* However many requests add, update, remove, sort and move at the same time, a list keeps
\* positive numbers, each for one row: no negative number of a shift stays behind.
THEOREM PlacesAreDistinct == Spec => []IsList(rows)
<1>1. Inv => IsList(rows)
  BY DEF Inv
<1>2. QED
  BY Invariance, <1>1, PTL

\* The order changes only in the way the one request that ends was asked to change it, or by
\* an update whose row another request moved or removed after the update read it, and which
\* puts that one row back: what OrderIsMeant checks of a small list, for any list and any
\* requests.
THEOREM OrderChangesAreExplained == Spec => AnswersAreMeant
<1>1. Inv /\ [Next]_vars => [StepIsMeant]_vars
  BY StepKeepsInv
<1>2. QED
  BY Invariance, <1>1, PTL DEF Spec, AnswersAreMeant
=============================================================================
