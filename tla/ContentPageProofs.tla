-------------------------- MODULE ContentPageProofs --------------------------
(* Proofs about the content page and the rows of a list, for any items,       *)
(* ratings, states and bounds.  While no change is under way, and none was    *)
(* beside a read it cannot heal, what is fresh in the cache is what Core      *)
(* keeps and what is asked for is asked of Core as it is; an item without a   *)
(* rating of its own in the cache was never rated.                            *)
EXTENDS MCPages, TLAPS

Tracked == [status : C!Rules!Status \cup {"untracked"}, favorite : BOOLEAN]
Details == {e \in C!Rules!Entry : e.rating \in {"none", "active"}}

IsKey(k) ==
    \/ k = C!RowsKey
    \/ \E i \in CItems : \/ k = C!DetailKey(i)
                        \/ k = C!MineKey(i)
                        \/ \E n \in Nat \ {0} : k = C!RatingsKey(i, n)
\* What Core answers for a key.
Fits(k, d) ==
    /\ k.of = "detail" => d \in Details
    /\ k.of = "mine" => d \in {"none", "active"}
    /\ k.of = "rows" => d \in [CItems -> Tracked]
    /\ k.of = "ratings" /\ d.previous => k.n > 1
IsContentEntry(e, n) ==
    /\ e = [data |-> e.data, fresh |-> e.fresh, asked |-> e.asked, failed |-> e.failed]
    /\ e.fresh \in BOOLEAN /\ e.asked \in 0 .. n /\ e.failed \in BOOLEAN
Cached(c, n) ==
    \A k \in DOMAIN c : /\ IsKey(k) /\ IsContentEntry(c[k], n)
                        /\ \A d \in c[k].data : Fits(k, d)

IsContentPage(p) ==
    /\ DOMAIN p = {"at", "item", "rating", "listing", "listed"}
    /\ p.listing \in Nat \ {0}
    /\ C!AtContent(p) => p.item \in CItems

Kinds == C!TrackingKinds \cup {"rate", "unrate"}
IsCall(x) ==
    /\ DOMAIN x = {"kind", "to", "acked"}
    /\ x.kind \in Kinds /\ x.to \in C!Rules!Status \cup {"untracked"}
IsSnap(s) == \A k \in DOMAIN s : k.of = "detail" /\ s[k] \in Details
IsJob(j) ==
    /\ DOMAIN j = {"call", "item", "snap", "was", "from", "mount", "state", "result", "prompt"}
    /\ IsCall(j.call) /\ j.item \in CItems /\ IsSnap(j.snap)
    /\ j.was \in Tracked /\ j.result \in Tracked
    /\ j.state \in {"sent", "done", "refused", "unconfirmed"}

\* Nothing the viewer sees of item i, or may see again, holds a rating.
Unrated(i, h, js, c) ==
    /\ \A n \in 1 .. Len(h) : h[n][i].rating = "none"
    /\ \A j \in js : /\ j.item = i => j.call.kind # "rate"
                     /\ C!DetailKey(i) \in DOMAIN j.snap => j.snap[C!DetailKey(i)].rating = "none"
    /\ \A d \in C!Entry(c, C!DetailKey(i)).data : d.rating = "none"
NewAreUnrated(h, js, c) == \A i \in CItems : C!MineKey(i) \notin DOMAIN c => Unrated(i, h, js, c)

\* An entry that is no older than Core's last version, or will be.
Sound(v, n, k, e) ==
    /\ e.asked \in {0, n}
    /\ e.fresh /\ C!Answered(v, k) => e.data = {C!Answer(v, k)}
Healthy(c) == \A k \in DOMAIN c : k.of # "rows" => Sound(C!Server, Len(cHist), k, c[k])

ContentTyped ==
    /\ cHist \in Seq([CItems -> C!Rules!Entry]) /\ cHist # <<>>
    /\ Cached(cCache, Len(cHist)) /\ C!ActiveNow \subseteq DOMAIN cCache
    /\ IsContentPage(cPage) /\ \A j \in cJobs : IsJob(j)
    /\ cLocal \in [CItems -> Tracked]
    /\ cActs \in 0 .. CActs /\ cLosses \in 0 .. CLosses

ContentInv ==
    /\ ContentTyped
    /\ NewAreUnrated(cHist, cJobs, cCache)
    /\ C!Loose => cHopped
    /\ cJobs = {} /\ ~cHopped => Healthy(cCache)

-----------------------------------------------------------------------------
(* What the cache's operations keep *)

LEMMA FetchedEntry ==
    ASSUME NEW e, NEW n \in Nat, n = Len(cHist), IsContentEntry(e, n)
    PROVE  LET f == C!Fetched(e)
           IN  /\ IsContentEntry(f, n) /\ f.data = e.data /\ f.fresh = e.fresh
               /\ e.data # {} => f.failed = e.failed
               /\ f.asked \in {e.asked, n}
               /\ ~(e.asked > 0 /\ e.data = {}) => f.asked = n
<1>1. CASE e.asked > 0 /\ e.data = {}
  BY <1>1 DEF C!Fetched
<1>2. CASE ~(e.asked > 0 /\ e.data = {})
  <2> DEFINE x == e.failed /\ e.data # {}
  <2>1. C!Fetched(e) = [data |-> e.data, fresh |-> e.fresh, asked |-> n, failed |-> x]
    BY <1>2 DEF C!Fetched, IsContentEntry
  <2>2. x \in BOOLEAN /\ (e.data # {} => x = e.failed)
    BY DEF IsContentEntry
  <2> HIDE DEF x
  <2>3. QED
    BY <2>1, <2>2 DEF IsContentEntry
<1>3. QED
  BY <1>1, <1>2

\* r has what c has, and may ask for more of it.
FollowsContent(r, c, n) ==
    /\ DOMAIN c \subseteq DOMAIN r
    /\ \A k \in DOMAIN r :
         LET e == C!Entry(c, k)
         IN  /\ IsContentEntry(r[k], n) /\ r[k].data = e.data /\ r[k].fresh = e.fresh
             /\ e.data # {} => r[k].failed = e.failed
             /\ r[k].asked \in {e.asked, n}

LEMMA EntryOf ==
    ASSUME NEW c, NEW n \in Nat, NEW k, \A x \in DOMAIN c : IsContentEntry(c[x], n)
    PROVE  IsContentEntry(C!Entry(c, k), n)
<1>1. CASE k \in DOMAIN c
  BY <1>1 DEF C!Entry
<1>2. CASE k \notin DOMAIN c
  <2>1. 0 \in 0 .. n
    OBVIOUS
  <2>2. QED
    BY <1>2, <2>1 DEF C!Entry, C!NoEntry, IsContentEntry
<1>3. QED
  BY <1>1, <1>2

LEMMA RefetchEntries ==
    ASSUME NEW c, NEW K, NEW n \in Nat, n = Len(cHist), \A k \in DOMAIN c : IsContentEntry(c[k], n)
    PROVE  LET r == C!Refetch(c, K)
           IN  /\ DOMAIN r = DOMAIN c \cup K /\ FollowsContent(r, c, n)
               /\ \A k \in K : ~(C!Entry(c, k).asked > 0 /\ C!Entry(c, k).data = {}) => r[k].asked = n
               /\ \A k \in DOMAIN c \ K : r[k] = c[k]
<1> DEFINE r == C!Refetch(c, K)
<1>1. DOMAIN r = DOMAIN c \cup K
  BY DEF C!Refetch
<1>2. ASSUME NEW k \in DOMAIN r
      PROVE  LET e == C!Entry(c, k)
             IN  /\ IsContentEntry(r[k], n) /\ r[k].data = e.data /\ r[k].fresh = e.fresh
                 /\ e.data # {} => r[k].failed = e.failed
                 /\ r[k].asked \in {e.asked, n}
                 /\ k \in K /\ ~(e.asked > 0 /\ e.data = {}) => r[k].asked = n
                 /\ k \notin K => r[k] = c[k]
  <2> DEFINE e == C!Entry(c, k)
  <2>1. IsContentEntry(e, n)
    BY EntryOf
  <2>2. r[k] = IF k \in K THEN C!Fetched(e) ELSE c[k]
    BY DEF C!Refetch
  <2>3. k \notin K => k \in DOMAIN c /\ e = c[k]
    BY <1>1 DEF C!Entry
  <2> HIDE DEF e, r
  <2>4. CASE k \in K
    <3>1. LET f == C!Fetched(e)
          IN  /\ IsContentEntry(f, n) /\ f.data = e.data /\ f.fresh = e.fresh
              /\ e.data # {} => f.failed = e.failed
              /\ f.asked \in {e.asked, n}
              /\ ~(e.asked > 0 /\ e.data = {}) => f.asked = n
      BY <2>1, FetchedEntry
    <3>2. QED
      BY <2>2, <2>4, <3>1 DEF e
  <2>5. CASE k \notin K
    BY <2>1, <2>2, <2>3, <2>5 DEF e
  <2>6. QED
    BY <2>4, <2>5
<1> HIDE DEF r
<1>3. QED
  BY <1>1, <1>2 DEF FollowsContent, r

LEMMA ObserveEntries ==
    ASSUME NEW c, NEW K, NEW old, NEW n \in Nat, n = Len(cHist), \A k \in DOMAIN c : IsContentEntry(c[k], n)
    PROVE  LET r == C!Observe(c, K, old)
           IN  DOMAIN r = DOMAIN c \cup K /\ FollowsContent(r, c, n)
<1> DEFINE due == {x \in K : x \notin DOMAIN c
                     \/ (C!Entry(c, x).asked = 0 /\ (old \/ ~C!Entry(c, x).fresh))}
<1>1. C!Observe(c, K, old) = C!Refetch(c, due)
  BY DEF C!Observe
<1>2. DOMAIN C!Refetch(c, due) = DOMAIN c \cup due /\ FollowsContent(C!Refetch(c, due), c, n)
  BY RefetchEntries
<1>3. DOMAIN c \cup due = DOMAIN c \cup K
  OBVIOUS
<1> HIDE DEF due
<1>4. QED
  BY <1>1, <1>2, <1>3

\* What follows has the same data.
LEMMA FollowsEntry ==
    ASSUME NEW c, NEW r, NEW n, NEW k, FollowsContent(r, c, n)
    PROVE  C!Entry(r, k).data = C!Entry(c, k).data
  BY DEF FollowsContent, C!Entry

LEMMA FollowsCached ==
    ASSUME NEW c, NEW r, NEW n, FollowsContent(r, c, n), Cached(c, n), \A k \in DOMAIN r \ DOMAIN c : IsKey(k)
    PROVE  Cached(r, n)
<1> SUFFICES ASSUME NEW k \in DOMAIN r
             PROVE  IsKey(k) /\ IsContentEntry(r[k], n) /\ \A d \in r[k].data : Fits(k, d)
  BY DEF Cached
<1>1. r[k].data = C!Entry(c, k).data /\ IsContentEntry(r[k], n)
  BY DEF FollowsContent
<1>2. QED
  BY <1>1 DEF Cached, C!Entry, C!NoEntry

LEMMA InvalidateEntries ==
    ASSUME NEW c, NEW K, NEW V, NEW n \in Nat, n = Len(cHist), \A k \in DOMAIN c : IsContentEntry(c[k], n)
    PROVE  LET r == C!Invalidate(c, K, V)
           IN  /\ DOMAIN r = DOMAIN c
               /\ \A k \in DOMAIN c :
                    /\ IsContentEntry(r[k], n) /\ r[k].data = c[k].data
                    /\ r[k].asked \in {c[k].asked, n}
                    /\ k \in K => ~r[k].fresh
                    /\ k \in K \cap V /\ ~(c[k].asked > 0 /\ c[k].data = {}) => r[k].asked = n
<1> DEFINE s == [k \in DOMAIN c |-> IF k \in K THEN [c[k] EXCEPT !.fresh = FALSE] ELSE c[k]]
           seen == K \cap V \cap DOMAIN c
           r == C!Refetch(s, seen)
<1>1. C!Invalidate(c, K, V) = r
  BY DEF C!Invalidate
<1>2. ASSUME NEW k \in DOMAIN c
      PROVE  /\ IsContentEntry(s[k], n) /\ s[k].data = c[k].data /\ s[k].asked = c[k].asked
             /\ k \in K => s[k].fresh = FALSE
  <2>1. IsContentEntry(c[k], n)
    OBVIOUS
  <2>2. s[k] = IF k \in K THEN [c[k] EXCEPT !.fresh = FALSE] ELSE c[k]
    OBVIOUS
  <2> HIDE DEF s
  <2>3. QED
    BY <2>1, <2>2 DEF IsContentEntry
<1>3. DOMAIN s = DOMAIN c
  OBVIOUS
<1> HIDE DEF s
<1>4. seen \subseteq DOMAIN c /\ \A k \in DOMAIN c : k \in K \cap V => k \in seen
  OBVIOUS
<1> HIDE DEF seen
<1>5. /\ DOMAIN r = DOMAIN s \cup seen /\ FollowsContent(r, s, n)
      /\ \A k \in seen : ~(C!Entry(s, k).asked > 0 /\ C!Entry(s, k).data = {}) => r[k].asked = n
  <2>1. \A k \in DOMAIN s : IsContentEntry(s[k], n)
    BY <1>2, <1>3
  <2>2. QED
    BY <2>1, RefetchEntries
<1> HIDE DEF r
<1>6. ASSUME NEW k \in DOMAIN c PROVE C!Entry(s, k) = s[k]
  BY <1>3 DEF C!Entry
<1>7. DOMAIN r = DOMAIN c
  BY <1>3, <1>4, <1>5
<1>8. ASSUME NEW k \in DOMAIN c
      PROVE  /\ IsContentEntry(r[k], n) /\ r[k].data = c[k].data
             /\ r[k].asked \in {c[k].asked, n}
             /\ k \in K => ~r[k].fresh
             /\ k \in K \cap V /\ ~(c[k].asked > 0 /\ c[k].data = {}) => r[k].asked = n
  <2>1. IsContentEntry(r[k], n) /\ r[k].data = s[k].data /\ r[k].fresh = s[k].fresh
        /\ r[k].asked \in {s[k].asked, n}
    BY <1>5, <1>6, <1>7 DEF FollowsContent
  <2>2. k \in seen => (~(s[k].asked > 0 /\ s[k].data = {}) => r[k].asked = n)
    BY <1>5, <1>6
  <2>3. QED
    BY <1>2, <1>4, <2>1, <2>2
<1>9. QED
  BY <1>1, <1>7, <1>8

LEMMA KeyShapes ==
    /\ \A i : C!DetailKey(i).of = "detail" /\ C!DetailKey(i).item = i
    /\ \A i : C!MineKey(i).of = "mine" /\ C!MineKey(i).item = i
    /\ \A i, m : C!RatingsKey(i, m).of = "ratings" /\ C!RatingsKey(i, m).n = m
    /\ C!RowsKey.of = "rows"
    /\ \A k : IsKey(k) => /\ k.of \in {"detail", "mine", "ratings", "rows"}
                          /\ k.of = "detail" => \E i \in CItems : k = C!DetailKey(i)
                          /\ k.of = "mine" => \E i \in CItems : k = C!MineKey(i)
                          /\ k.of # "rows" => k.item \in CItems
  BY DEF IsKey, C!DetailKey, C!MineKey, C!RatingsKey, C!RowsKey

\* r is c with d put under k.
Holds(r, c, k, d, n) ==
    /\ Cached(r, n) /\ DOMAIN r = DOMAIN c \cup {k}
    /\ \A x \in DOMAIN c \ {k} : r[x] = c[x]
    /\ r[k].data = {d} /\ r[k].fresh = TRUE /\ r[k].failed = FALSE
    /\ r[k].asked = C!Entry(c, k).asked

LEMMA PutHolds ==
    ASSUME NEW c, NEW k, NEW d, NEW n \in Nat, Cached(c, n), IsKey(k), Fits(k, d)
    PROVE  Holds(C!Put(c, k, d), c, k, d, n)
<1> DEFINE r == C!Put(c, k, d)
           e == [data |-> {d}, fresh |-> TRUE, asked |-> C!Entry(c, k).asked, failed |-> FALSE]
<1>1. DOMAIN r = DOMAIN c \cup {k} /\ \A x \in DOMAIN r : r[x] = IF x = k THEN e ELSE c[x]
  BY DEF C!Put
<1>2. IsContentEntry(C!Entry(c, k), n)
  BY EntryOf DEF Cached
<1>3. IsContentEntry(e, n) /\ e.data = {d}
  BY <1>2 DEF IsContentEntry
<1>4. e.fresh = TRUE /\ e.failed = FALSE /\ e.asked = C!Entry(c, k).asked
  OBVIOUS
<1> HIDE DEF e, r
<1>5. Cached(r, n)
  BY <1>1, <1>3 DEF Cached
<1>6. Holds(r, c, k, d, n)
  BY <1>1, <1>3, <1>4, <1>5 DEF Holds
<1>7. QED
  BY <1>6 DEF r

-----------------------------------------------------------------------------
(* Rendering *)

LEMMA ContentIsShown ==
    ASSUME NEW p, NEW c
    PROVE  LET e == C!Entry(c, C!DetailKey(p.item))
           IN  C!UseContentData(p, c) = "content" <=> e.data # {} /\ ~e.failed
  BY DEF C!UseContentData

LEMMA SameActive ==
    ASSUME NEW p, NEW c, NEW r,
           LET e == C!Entry(c, C!DetailKey(p.item))
               f == C!Entry(r, C!DetailKey(p.item))
           IN  f.data = e.data /\ (e.data # {} => f.failed = e.failed)
    PROVE  C!Active(p, r) = C!Active(p, c)
<1>1. C!UseContentData(p, r) = "content" <=> C!UseContentData(p, c) = "content"
  BY ContentIsShown
<1>2. C!Has(r, C!DetailKey(p.item)) <=> C!Has(c, C!DetailKey(p.item))
  BY DEF C!Has
<1>3. QED
  BY <1>1, <1>2 DEF C!Active

\* The viewer's rating of item i starts with what the detail says.
Born(r, c, i) ==
    /\ i \in CItems /\ C!MineKey(i) \notin DOMAIN c /\ C!Has(c, C!DetailKey(i))
    /\ r = C!Put(c, C!MineKey(i), C!Data(c, C!DetailKey(i)).rating)

LEMMA DetailRating ==
    ASSUME NEW c, NEW n \in Nat, NEW i, Cached(c, n), C!Has(c, C!DetailKey(i))
    PROVE  /\ C!Data(c, C!DetailKey(i)) \in C!Entry(c, C!DetailKey(i)).data
           /\ C!Data(c, C!DetailKey(i)) \in Details
           /\ Fits(C!MineKey(i), C!Data(c, C!DetailKey(i)).rating)
<1>1. C!Data(c, C!DetailKey(i)) \in C!Entry(c, C!DetailKey(i)).data
  BY DEF C!Has, C!Data
<1>2. C!Data(c, C!DetailKey(i)) \in Details
  BY <1>1, KeyShapes DEF Cached, C!Entry, C!NoEntry, Fits
<1>3. QED
  BY <1>1, <1>2, KeyShapes DEF Fits, Details

LEMMA BornHolds ==
    ASSUME NEW c, NEW r, NEW n \in Nat, NEW i, Cached(c, n), Born(r, c, i)
    PROVE  /\ Holds(r, c, C!MineKey(i), C!Data(c, C!DetailKey(i)).rating, n)
           /\ r[C!MineKey(i)].asked = 0
           /\ DOMAIN c \subseteq DOMAIN r
           /\ \A k : k # C!MineKey(i) => C!Entry(r, k) = C!Entry(c, k)
<1> DEFINE m == C!MineKey(i)
           d == C!Data(c, C!DetailKey(i)).rating
<1>1. IsKey(m) /\ Fits(m, d)
  BY DetailRating DEF Born, IsKey
<1>2. r = C!Put(c, m, d) /\ m \notin DOMAIN c
  BY DEF Born
<1> HIDE DEF m, d
<1>3. Holds(r, c, m, d, n)
  BY <1>1, <1>2, PutHolds
<1>4. C!Entry(c, m).asked = 0
  BY <1>2 DEF C!Entry, C!NoEntry
<1>5. \A k : k # m => C!Entry(r, k) = C!Entry(c, k)
  BY <1>3 DEF C!Entry, Holds
<1>6. r[m].asked = 0 /\ DOMAIN c \subseteq DOMAIN r
  BY <1>3, <1>4 DEF Holds
<1>7. QED
  BY <1>3, <1>5, <1>6 DEF m, d

LEMMA Renders ==
    ASSUME NEW p, NEW c, NEW loc, NEW n \in Nat, n = Len(cHist), IsContentPage(p), Cached(c, n),
           C!ActiveNow \subseteq DOMAIN c, loc \in [CItems -> Tracked], C!Render(p, c, loc)
    PROVE  /\ Cached(cCache', n) /\ DOMAIN c \subseteq DOMAIN cCache'
           /\ C!ActiveNow' \subseteq DOMAIN cCache'
           /\ IsContentPage(cPage') /\ cPage'.at = p.at /\ cPage'.item = p.item
           /\ cLocal' \in [CItems -> Tracked]
           /\ \E c1 : FollowsContent(cCache', c1, n) /\ (c1 = c \/ \E i : Born(c1, c, i))
<1> DEFINE p1 == IF C!AtContent(p) /\ C!UseContentData(p, c) = "content" THEN p
                 ELSE [p EXCEPT !.listing = 1]
           m == C!MineKey(p.item)
           c1 == IF m \in C!Active(p1, c) /\ m \notin DOMAIN c
                 THEN C!Put(c, m, C!Data(c, C!DetailKey(p.item)).rating) ELSE c
           new == C!Active(p1, c1) \ C!ActiveNow
<1>1. PICK old \in BOOLEAN : /\ cCache' = C!Observe(c1, new, old) /\ cPage' = p1
                             /\ cLocal' = C!ListItemTrackingSection(p1, c1, loc)
  BY DEF C!Render
<1>2. IsContentPage(p1) /\ p1.at = p.at /\ p1.item = p.item
  BY DEF IsContentPage, C!AtContent
<1> HIDE DEF p1
<1>3. c1 = c \/ Born(c1, c, p.item)
  <2> SUFFICES ASSUME m \in C!Active(p1, c), m \notin DOMAIN c
               PROVE  Born(c1, c, p.item)
    OBVIOUS
  <2>1. C!AtContent(p1) /\ C!Has(c, C!DetailKey(p1.item))
    BY KeyShapes DEF C!Active
  <2>2. QED
    BY <1>2, <2>1 DEF Born, IsContentPage
<1>4. /\ Cached(c1, n) /\ DOMAIN c \subseteq DOMAIN c1
      /\ \A k : k.of # "mine" => C!Entry(c1, k) = C!Entry(c, k)
  <2>1. CASE c1 = c
    BY <2>1
  <2>2. CASE Born(c1, c, p.item)
    <3>1. \A k : k.of # "mine" => k # C!MineKey(p.item)
      BY KeyShapes
    <3> HIDE DEF c1
    <3>2. /\ Holds(c1, c, C!MineKey(p.item), C!Data(c, C!DetailKey(p.item)).rating, n)
          /\ DOMAIN c \subseteq DOMAIN c1
          /\ \A k : k # C!MineKey(p.item) => C!Entry(c1, k) = C!Entry(c, k)
      BY <2>2, BornHolds
    <3>3. QED
      BY <3>1, <3>2 DEF Holds
  <2>3. QED
    BY <1>3, <2>1, <2>2
<1> HIDE DEF c1
<1>5. DOMAIN cCache' = DOMAIN c1 \cup new /\ FollowsContent(cCache', c1, n)
  <2>1. \A k \in DOMAIN c1 : IsContentEntry(c1[k], n)
    BY <1>4 DEF Cached
  <2> HIDE DEF new
  <2>2. QED
    BY <1>1, <2>1, ObserveEntries
<1>6. \A k \in C!Active(p1, c1) : IsKey(k)
  BY <1>2 DEF C!Active, IsKey, IsContentPage
<1>7. Cached(cCache', n)
  <2>1. \A k \in DOMAIN cCache' \ DOMAIN c1 : IsKey(k)
    BY <1>5, <1>6
  <2>2. QED
    BY <1>4, <1>5, <2>1, FollowsCached
<1>8. C!ActiveNow' \subseteq DOMAIN cCache'
  <2>1. C!Active(p1, cCache') = C!Active(p1, c1)
    <3> DEFINE k == C!DetailKey(p1.item)
    <3>1. C!Entry(cCache', k).data = C!Entry(c1, k).data
      BY <1>5, FollowsEntry
    <3>2. C!Entry(c1, k).data # {} => C!Entry(cCache', k).failed = C!Entry(c1, k).failed
      <4> HIDE DEF k
      <4>1. C!Entry(c1, k).data # {} => k \in DOMAIN c1
        BY DEF C!Entry, C!NoEntry
      <4>2. QED
        BY <1>5, <4>1 DEF FollowsContent, C!Entry
    <3>3. QED
      BY <3>1, <3>2, SameActive
  <2>2. C!ActiveNow' = C!Active(p1, cCache')
    BY <1>1 DEF C!ActiveNow
  <2>3. QED
    BY <1>4, <1>5, <2>1, <2>2
<1>9. cLocal' \in [CItems -> Tracked]
  <2>1. ASSUME C!Has(c1, C!RowsKey) PROVE C!Data(c1, C!RowsKey) \in [CItems -> Tracked]
    <3>1. C!Data(c1, C!RowsKey) \in C!Entry(c1, C!RowsKey).data
      BY <2>1 DEF C!Has, C!Data
    <3>2. QED
      BY <1>4, <3>1, KeyShapes DEF Cached, C!Entry, C!NoEntry, Fits
  <2>2. C!Untracked \in Tracked
    BY DEF C!Untracked, Tracked
  <2>3. QED
    BY <1>1, <2>1, <2>2 DEF C!ListItemTrackingSection
<1>10. QED
  BY <1>1, <1>2, <1>3, <1>4, <1>5, <1>7, <1>8, <1>9

LEMMA ContentAnswerFits ==
    ASSUME NEW v \in [CItems -> C!Rules!Entry], NEW k, IsKey(k)
    PROVE  Fits(k, C!Answer(v, k))
<1>1. CASE k.of = "detail"
  <2>1. v[k.item] \in C!Rules!Entry
    BY <1>1, KeyShapes
  <2>2. C!Visible(v[k.item]) \in Details
    BY <2>1 DEF C!Visible, Details, C!Rules!Entry
  <2>3. QED
    BY <1>1, <2>2 DEF C!Answer, Fits
<1>2. CASE k.of = "mine"
  <2>1. v[k.item] \in C!Rules!Entry
    BY <1>2, KeyShapes
  <2>2. C!Visible(v[k.item]).rating \in {"none", "active"}
    BY <2>1 DEF C!Visible, C!Rules!Entry
  <2>3. QED
    BY <1>2, <2>2 DEF C!Answer, Fits
<1>3. CASE k.of = "rows"
  <2>1. \A i \in CItems : C!TrackingOf(v[i]) \in Tracked
    BY DEF C!TrackingOf, Tracked, C!Rules!Entry
  <2>2. C!Answer(v, k) = [i \in CItems |-> C!TrackingOf(v[i])]
    BY <1>3 DEF C!Answer
  <2>3. QED
    BY <1>3, <2>1, <2>2 DEF Fits
<1>4. CASE k.of = "ratings"
  BY <1>4 DEF C!Answer, Fits
<1>5. QED
  BY <1>1, <1>2, <1>3, <1>4, KeyShapes

\* What was never rated is answered with no rating.
LEMMA UnratedAnswer ==
    ASSUME NEW i \in CItems, NEW v \in [CItems -> C!Rules!Entry], v[i].rating = "none"
    PROVE  C!Answer(v, C!MineKey(i)) = "none" /\ C!Answer(v, C!DetailKey(i)).rating = "none"
<1>1. v[i] \in C!Rules!Entry
  OBVIOUS
<1>2. C!Visible(v[i]).rating = "none"
  BY <1>1 DEF C!Visible, C!Rules!Entry
<1>3. QED
  BY <1>2, KeyShapes DEF C!Answer

LEMMA ServerType ==
    ASSUME cHist \in Seq([CItems -> C!Rules!Entry]), cHist # <<>>
    PROVE  /\ Len(cHist) \in Nat \ {0} /\ Len(cHist) \in 1 .. Len(cHist)
           /\ C!Server \in [CItems -> C!Rules!Entry]
           /\ \A n \in 1 .. Len(cHist) : cHist[n] \in [CItems -> C!Rules!Entry]
  BY DEF C!Server

\* What is rendered with a cache c leaves in the cache.
Rendered(r, c, n) == \E c1 : FollowsContent(r, c1, n) /\ (c1 = c \/ \E i : Born(c1, c, i))

LEMMA BornSound ==
    ASSUME NEW c, NEW r, NEW i, NEW n, n = Len(cHist), NEW js, Cached(c, n), Born(r, c, i),
           cHist \in Seq([CItems -> C!Rules!Entry]), cHist # <<>>, NewAreUnrated(cHist, js, c)
    PROVE  /\ NewAreUnrated(cHist, js, r)
           /\ Healthy(c) => Healthy(r)
<1> DEFINE m == C!MineKey(i)
           d == C!Data(c, C!DetailKey(i)).rating
<1>1. n \in Nat /\ n \in 1 .. Len(cHist) /\ C!Server \in [CItems -> C!Rules!Entry] /\ C!Server = cHist[n]
  BY ServerType DEF C!Server
<1>2. /\ Holds(r, c, m, d, n) /\ r[m].asked = 0 /\ DOMAIN c \subseteq DOMAIN r
      /\ \A k : k # m => C!Entry(r, k) = C!Entry(c, k)
  BY <1>1, BornHolds
<1>3. i \in CItems /\ Unrated(i, cHist, js, c) /\ C!Has(c, C!DetailKey(i))
  BY DEF Born, NewAreUnrated
<1>4. d = "none"
  BY <1>1, <1>3, DetailRating DEF Unrated
<1>5. C!Answer(C!Server, m) = "none"
  BY <1>1, <1>3, UnratedAnswer DEF Unrated
<1>6. m.of = "mine" /\ \A k : C!DetailKey(k) # m
  BY KeyShapes
<1> HIDE DEF m, d
<1>7. NewAreUnrated(cHist, js, r)
  BY <1>2, <1>6 DEF NewAreUnrated, Unrated
<1>8. ASSUME Healthy(c), NEW k \in DOMAIN r, k.of # "rows"
      PROVE  Sound(C!Server, Len(cHist), k, r[k])
  <2>1. CASE k = m
    <3>1. r[m].data = {"none"} /\ r[m].asked = 0
      BY <1>2, <1>4 DEF Holds
    <3>2. QED
      BY <1>5, <2>1, <3>1 DEF Sound
  <2>2. CASE k # m
    BY <1>2, <1>8, <2>2 DEF Holds, Healthy
  <2>3. QED
    BY <2>1, <2>2
<1>9. QED
  BY <1>7, <1>8 DEF Healthy

LEMMA FollowsSound ==
    ASSUME NEW c, NEW r, NEW n, n = Len(cHist), NEW js, FollowsContent(r, c, n), NewAreUnrated(cHist, js, c)
    PROVE  /\ NewAreUnrated(cHist, js, r)
           /\ Healthy(c) => Healthy(r)
<1>1. \A k : C!Entry(r, k).data = C!Entry(c, k).data
  BY FollowsEntry
<1>2. NewAreUnrated(cHist, js, r)
  BY <1>1 DEF FollowsContent, NewAreUnrated, Unrated
<1>3. ASSUME Healthy(c), NEW k \in DOMAIN r, k.of # "rows"
      PROVE  Sound(C!Server, Len(cHist), k, r[k])
  <2> DEFINE e == C!Entry(c, k)
  <2>1. /\ r[k].data = e.data /\ r[k].fresh = e.fresh /\ r[k].asked \in {e.asked, n}
    BY DEF FollowsContent
  <2>2. CASE k \in DOMAIN c
    <3>1. e = c[k]
      BY <2>2 DEF C!Entry
    <3>2. Sound(C!Server, Len(cHist), k, c[k])
      BY <1>3, <2>2 DEF Healthy
    <3> HIDE DEF e
    <3>3. QED
      BY <2>1, <3>1, <3>2 DEF Sound
  <2>3. CASE k \notin DOMAIN c
    <3>1. e.fresh = FALSE /\ e.asked = 0
      BY <2>3 DEF C!Entry, C!NoEntry
    <3> HIDE DEF e
    <3>2. QED
      BY <2>1, <3>1 DEF Sound
  <2>4. QED
    BY <2>2, <2>3
<1>4. QED
  BY <1>2, <1>3 DEF Healthy

\* A handler that renders, having made the cache c, the page p and the mutations js.
LEMMA RenderStep ==
    ASSUME ContentInv, NEW p, NEW c, NEW loc, C!Render(p, c, loc), UNCHANGED cHist,
           cHopped' = (cHopped \/ C!Loose'),
           IsContentPage(p), Cached(c, Len(cHist)), C!ActiveNow \subseteq DOMAIN c,
           loc \in [CItems -> Tracked], \A j \in cJobs' : IsJob(j),
           NewAreUnrated(cHist, cJobs', c),
           cActs' \in 0 .. CActs, cLosses' \in 0 .. CLosses,
           cJobs' = {} /\ ~cHopped => Healthy(c)
    PROVE  ContentInv'
<1> DEFINE n == Len(cHist)
<1>1. cHist \in Seq([CItems -> C!Rules!Entry]) /\ cHist # <<>> /\ n \in Nat
  BY ServerType DEF ContentInv, ContentTyped
<1>2. /\ Cached(cCache', n) /\ C!ActiveNow' \subseteq DOMAIN cCache'
      /\ IsContentPage(cPage') /\ cLocal' \in [CItems -> Tracked]
      /\ Rendered(cCache', c, n)
  BY <1>1, Renders DEF Rendered
<1>3. PICK c1 : FollowsContent(cCache', c1, n) /\ (c1 = c \/ \E i : Born(c1, c, i))
  BY <1>2 DEF Rendered
<1>4. NewAreUnrated(cHist, cJobs', c1) /\ (Healthy(c) => Healthy(c1))
  <2>1. CASE c1 = c
    BY <2>1
  <2>2. ASSUME NEW i, Born(c1, c, i)
        PROVE  NewAreUnrated(cHist, cJobs', c1) /\ (Healthy(c) => Healthy(c1))
    BY <1>1, <2>2, BornSound
  <2>3. QED
    BY <1>3, <2>1, <2>2
<1>5. NewAreUnrated(cHist, cJobs', cCache') /\ (Healthy(c) => Healthy(cCache'))
  BY <1>3, <1>4, FollowsSound
<1>6. ContentTyped'
  BY <1>1, <1>2 DEF ContentTyped
<1>7. NewAreUnrated(cHist, cJobs, cCache)'
  BY <1>5
<1>8. (C!Loose => cHopped)' /\ (~cHopped' => ~cHopped)
  OBVIOUS
<1>9. (cJobs = {} /\ ~cHopped => Healthy(cCache))'
  <2>1. Healthy(cCache') => Healthy(cCache)'
    BY DEF Healthy, C!Server
  <2>2. QED
    BY <1>5, <1>8, <2>1
<1>10. QED
  BY <1>6, <1>7, <1>8, <1>9 DEF ContentInv
-----------------------------------------------------------------------------
(* The start, and the viewer's steps that change nothing of Core's *)

\* The bounds are numbers, the progress policy's states are Core's.
ContentBounds == CActs \in Nat /\ CLosses \in Nat /\ CStates \subseteq C!Rules!Status
LEMMA BoundsHold == ContentBounds
  BY ContentAssumption DEF ContentBounds

LEMMA AwayIsPage == IsContentPage(C!Away) /\ C!Away.at = "away"
  BY DEF C!Away, IsContentPage, C!AtContent

LEMMA ContentStart ==
    ASSUME ContentBounds, C!Init
    PROVE  ContentInv
<1>1. cHist \in Seq([CItems -> C!Rules!Entry]) /\ cHist # <<>>
  <2>1. C!Rules!NoEntry \in C!Rules!Entry
    BY DEF C!Rules!NoEntry, C!Rules!Entry
  <2>2. [i \in CItems |-> C!Rules!NoEntry] \in [CItems -> C!Rules!Entry]
    BY <2>1
  <2>3. QED
    BY <2>2 DEF C!Init
<1>2. DOMAIN cCache = {} /\ cJobs = {} /\ cPage = C!Away
  BY DEF C!Init
<1>3. Cached(cCache, Len(cHist)) /\ Healthy(cCache)
  BY <1>2 DEF Cached, Healthy
<1>4. C!ActiveNow \subseteq DOMAIN cCache
  BY <1>2, AwayIsPage DEF C!ActiveNow, C!Active, C!AtContent
<1>5. cLocal \in [CItems -> Tracked]
  BY DEF C!Init, C!Untracked, Tracked
<1>6. NewAreUnrated(cHist, cJobs, cCache)
  <2>1. \A n \in 1 .. Len(cHist) : \A i \in CItems : cHist[n][i].rating = "none"
    BY DEF C!Init, C!Rules!NoEntry
  <2>2. \A k : C!Entry(cCache, k).data = {}
    BY <1>2 DEF C!Entry, C!NoEntry
  <2>3. QED
    BY <1>2, <2>1, <2>2 DEF NewAreUnrated, Unrated
<1>7. ~C!Loose
  BY <1>2 DEF C!Loose
<1>8. cActs \in 0 .. CActs /\ cLosses \in 0 .. CLosses
  BY DEF C!Init, ContentBounds
<1>9. ContentTyped
  BY <1>1, <1>2, <1>3, <1>4, <1>5, <1>8, AwayIsPage DEF ContentTyped
<1>10. QED
  BY <1>3, <1>6, <1>7, <1>9 DEF ContentInv

LEMMA CountedType ==
    ASSUME ContentBounds, ContentInv
    PROVE  /\ C!Counted => cActs' \in 0 .. CActs /\ cLosses' \in 0 .. CLosses
           /\ C!Free => cActs' \in 0 .. CActs /\ cLosses' \in 0 .. CLosses
           /\ cLosses < CLosses /\ cLosses' = cLosses + 1 => cLosses' \in 0 .. CLosses
  BY DEF ContentBounds, ContentInv, ContentTyped, C!Counted, C!Free

LEMMA ContentFacts ==
    ASSUME ContentInv
    PROVE  /\ Len(cHist) \in Nat \ {0} /\ C!Server \in [CItems -> C!Rules!Entry]
           /\ Cached(cCache, Len(cHist)) /\ C!ActiveNow \subseteq DOMAIN cCache
           /\ IsContentPage(cPage) /\ cLocal \in [CItems -> Tracked]
           /\ \A j \in cJobs : IsJob(j)
           /\ NewAreUnrated(cHist, cJobs, cCache)
           /\ cJobs = {} /\ ~cHopped => Healthy(cCache)
  BY ServerType DEF ContentInv, ContentTyped

LEMMA StayStep ==
    ASSUME ContentBounds, ContentInv, NEW p, C!Render(p, cCache, cLocal), UNCHANGED <<cHist, cJobs>>,
           cHopped' = (cHopped \/ C!Loose'), IsContentPage(p), C!Counted \/ C!Free
    PROVE  ContentInv'
<1>1. cActs' \in 0 .. CActs /\ cLosses' \in 0 .. CLosses
  BY CountedType
<1>2. /\ \A j \in cJobs' : IsJob(j)
      /\ NewAreUnrated(cHist, cJobs', cCache)
      /\ cJobs' = {} /\ ~cHopped => Healthy(cCache)
  BY ContentFacts
<1>3. QED
  BY <1>1, <1>2, ContentFacts, RenderStep

LEMMA LeftJobs ==
    ASSUME \A j \in cJobs : IsJob(j), NewAreUnrated(cHist, cJobs, cCache)
    PROVE  /\ \A j \in C!Left(cJobs) : IsJob(j)
           /\ NewAreUnrated(cHist, C!Left(cJobs), cCache)
           /\ C!Left(cJobs) = {} => cJobs = {}
<1>1. ASSUME NEW k \in C!Left(cJobs)
      PROVE  IsJob(k) /\ \E j \in cJobs : k.item = j.item /\ k.call = j.call /\ k.snap = j.snap
  <2>1. PICK j \in cJobs : k = [j EXCEPT !.mount = FALSE]
    BY DEF C!Left
  <2>2. IsJob(j)
    OBVIOUS
  <2>3. k.item = j.item /\ k.call = j.call /\ k.snap = j.snap /\ k.was = j.was
        /\ k.result = j.result /\ k.state = j.state /\ DOMAIN k = DOMAIN j
    BY <2>1, <2>2 DEF IsJob
  <2>4. QED
    BY <2>2, <2>3 DEF IsJob
<1>2. C!Left(cJobs) = {} => cJobs = {}
  BY DEF C!Left
<1>3. NewAreUnrated(cHist, C!Left(cJobs), cCache)
  BY <1>1 DEF NewAreUnrated, Unrated
<1>4. QED
  BY <1>1, <1>2, <1>3

LEMMA OpenSteps ==
    ASSUME ContentBounds, ContentInv, cHopped' = (cHopped \/ C!Loose'), C!OpenContent \/ C!OpenList
    PROVE  ContentInv'
<1>1. PICK p : C!Render(p, cCache, cLocal) /\ IsContentPage(p)
  <2>1. CASE C!OpenContent
    <3>1. PICK i \in CItems :
            C!Render(IF C!AtContent(cPage) THEN [cPage EXCEPT !.item = i]
                   ELSE [C!Away EXCEPT !.at = "content", !.item = i, !.listed = C!RatingsKey(i, 1)],
                   cCache, cLocal)
      BY <2>1 DEF C!OpenContent
    <3>2. IsContentPage([cPage EXCEPT !.item = i])
      BY ContentFacts DEF IsContentPage, C!AtContent
    <3>3. IsContentPage([C!Away EXCEPT !.at = "content", !.item = i, !.listed = C!RatingsKey(i, 1)])
      BY AwayIsPage DEF IsContentPage, C!AtContent
    <3>4. QED
      BY <3>1, <3>2, <3>3
  <2>2. CASE C!OpenList
    <3>1. IsContentPage([C!Away EXCEPT !.at = "list"])
      BY AwayIsPage DEF IsContentPage, C!AtContent
    <3>2. QED
      BY <2>2, <3>1 DEF C!OpenList
  <2>3. QED
    BY <2>1, <2>2
<1>2. C!Counted /\ UNCHANGED cHist /\ (cJobs' = cJobs \/ cJobs' = C!Left(cJobs))
  BY DEF C!OpenContent, C!OpenList
<1>3. /\ \A j \in cJobs' : IsJob(j)
      /\ NewAreUnrated(cHist, cJobs', cCache)
      /\ cJobs' = {} /\ ~cHopped => Healthy(cCache)
  BY <1>2, ContentFacts, LeftJobs
<1>4. cActs' \in 0 .. CActs /\ cLosses' \in 0 .. CLosses
  BY <1>2, CountedType
<1>5. QED
  BY <1>1, <1>2, <1>3, <1>4, ContentFacts, RenderStep

LEMMA RetryStep ==
    ASSUME ContentBounds, ContentInv, cHopped' = (cHopped \/ C!Loose'), C!Retry
    PROVE  ContentInv'
<1> DEFINE n == Len(cHist)
           k == C!DetailKey(cPage.item)
           c == C!Refetch(cCache, {k})
<1>1. /\ n \in Nat /\ Cached(cCache, n) /\ IsContentPage(cPage)
      /\ C!ActiveNow \subseteq DOMAIN cCache /\ cLocal \in [CItems -> Tracked]
  BY ContentFacts
<1>2. C!AtContent(cPage)
  BY DEF C!Retry, C!View
<1>3. IsKey(k)
  BY <1>1, <1>2 DEF IsContentPage, IsKey
<1>4. C!Render(cPage, c, cLocal) /\ UNCHANGED <<cHist, cJobs>> /\ C!Counted
  BY DEF C!Retry
<1> HIDE DEF k
<1>5. DOMAIN c = DOMAIN cCache \cup {k} /\ FollowsContent(c, cCache, n)
  <2>1. \A x \in DOMAIN cCache : IsContentEntry(cCache[x], n)
    BY <1>1 DEF Cached
  <2>2. QED
    BY <1>1, <2>1, RefetchEntries
<1> HIDE DEF c
<1>6. Cached(c, n) /\ C!ActiveNow \subseteq DOMAIN c
  BY <1>1, <1>3, <1>5, FollowsCached
<1>7. NewAreUnrated(cHist, cJobs, c) /\ (Healthy(cCache) => Healthy(c))
  BY <1>5, ContentFacts, FollowsSound
<1>8. cActs' \in 0 .. CActs /\ cLosses' \in 0 .. CLosses
  BY <1>4, CountedType
<1>9. \A j \in cJobs' : IsJob(j)
  BY <1>4, ContentFacts
<1>10. NewAreUnrated(cHist, cJobs', c) /\ (cJobs' = {} /\ ~cHopped => Healthy(c))
  BY <1>4, <1>7, ContentFacts
<1>11. QED
  BY <1>1, <1>4, <1>6, <1>8, <1>9, <1>10, RenderStep

LEMMA RatingPage ==
    ASSUME NEW p, NEW b, IsContentPage(p)
    PROVE  IsContentPage([p EXCEPT !.rating = b])
  BY DEF IsContentPage, C!AtContent

LEMMA TurnStep ==
    ASSUME ContentBounds, ContentInv, cHopped' = (cHopped \/ C!Loose'), C!TurnRatings
    PROVE  ContentInv'
<1> DEFINE k == C!RatingsKey(cPage.item, cPage.listing)
<1>1. IsContentPage(cPage) /\ Cached(cCache, Len(cHist))
  BY ContentFacts
<1>2. k.of = "ratings" /\ k.n = cPage.listing
  BY KeyShapes
<1>3. C!RatingsShown.previous => cPage.listing > 1
  <2>1. C!Entry(cCache, k).asked = 0
    BY DEF C!TurnRatings
  <2> HIDE DEF k
  <2>2. ASSUME NEW d \in C!Entry(cCache, k).data, d.previous PROVE cPage.listing > 1
    BY <1>1, <1>2, <2>2 DEF Cached, C!Entry, C!NoEntry, Fits
  <2>3. CASE C!Entry(cCache, k).data = {}
    BY <2>1, <2>3 DEF C!RatingsShown, k
  <2>4. CASE C!Entry(cCache, k).data # {}
    <3>1. C!RatingsShown = CHOOSE d \in C!Entry(cCache, k).data : TRUE
      BY <2>1, <2>4 DEF C!RatingsShown, k
    <3>2. C!RatingsShown \in C!Entry(cCache, k).data
      BY <2>4, <3>1
    <3>3. QED
      BY <2>2, <3>2
  <2>5. QED
    BY <2>3, <2>4
<1>4. PICK m \in {cPage.listing - 1, cPage.listing + 1} :
         /\ IF m < cPage.listing THEN C!RatingsShown.previous ELSE C!RatingsShown.next
         /\ C!Render([cPage EXCEPT !.listing = m, !.listed = k], cCache, cLocal)
  BY DEF C!TurnRatings
<1>5. m \in Nat \ {0}
  BY <1>1, <1>3, <1>4 DEF IsContentPage
<1> HIDE DEF k
<1>6. IsContentPage([cPage EXCEPT !.listing = m, !.listed = k])
  BY <1>1, <1>5 DEF IsContentPage, C!AtContent
<1>7. UNCHANGED <<cHist, cJobs>> /\ C!Free
  BY DEF C!TurnRatings
<1>8. QED
  BY <1>4, <1>6, <1>7, StayStep

LEMMA DialogSteps ==
    ASSUME ContentBounds, ContentInv, cHopped' = (cHopped \/ C!Loose'), C!HandleRateContent \/ C!CloseRating
    PROVE  ContentInv'
<1>1. PICK b : C!Render([cPage EXCEPT !.rating = b], cCache, cLocal)
  <2>1. CASE C!HandleRateContent
    BY <2>1 DEF C!HandleRateContent
  <2>2. CASE C!CloseRating
    BY <2>2 DEF C!CloseRating
  <2>3. QED
    BY <2>1, <2>2
<1>2. UNCHANGED <<cHist, cJobs>> /\ C!Free
  BY DEF C!HandleRateContent, C!CloseRating
<1>3. QED
  BY <1>1, <1>2, ContentFacts, RatingPage, StayStep

-----------------------------------------------------------------------------
(* Changes of the cache by mutations *)

\* r has the keys of c, and rates no item that c does not.
SameRatings(r, c) ==
    /\ DOMAIN c \subseteq DOMAIN r
    /\ \A i \in CItems : (\A d \in C!Entry(c, C!DetailKey(i)).data : d.rating = "none")
                          => \A d \in C!Entry(r, C!DetailKey(i)).data : d.rating = "none"
\* What is asked for, a settling restarts.
Calm(c) == \A k \in DOMAIN c : c[k].asked > 0 => c[k].data # {} /\ k \in C!ActiveNow
\* r is c after some change of its data.
Changed(r, c, n) ==
    /\ Cached(r, n) /\ DOMAIN c \subseteq DOMAIN r /\ SameRatings(r, c)
    /\ Calm(c) => Calm(r)

LEMMA StillUnrated ==
    ASSUME NEW r, NEW c, NEW js, SameRatings(r, c), NewAreUnrated(cHist, js, c)
    PROVE  NewAreUnrated(cHist, js, r)
  BY DEF SameRatings, NewAreUnrated, Unrated

LEMMA ChangedTwice ==
    ASSUME NEW c, NEW r, NEW s, NEW n, Changed(r, c, n), Changed(s, r, n)
    PROVE  Changed(s, c, n)
  BY DEF Changed, SameRatings

LEMMA CancelChanges ==
    ASSUME NEW c, NEW K, NEW n \in Nat, Cached(c, n)
    PROVE  Changed(C!Cancel(c, K), c, n)
<1> DEFINE r == C!Cancel(c, K)
<1>1. DOMAIN r = DOMAIN c
  BY DEF C!Cancel
<1>2. ASSUME NEW k \in DOMAIN c
      PROVE  /\ IsContentEntry(r[k], n) /\ r[k].data = c[k].data
             /\ r[k].asked = 0 \/ r[k].asked = c[k].asked
  <2>1. IsContentEntry(c[k], n)
    BY DEF Cached
  <2>2. r[k] = IF k \in K THEN [c[k] EXCEPT !.asked = 0] ELSE c[k]
    BY DEF C!Cancel
  <2> HIDE DEF r
  <2>3. QED
    BY <2>1, <2>2 DEF IsContentEntry
<1> HIDE DEF r
<1>3. Cached(r, n)
  BY <1>1, <1>2 DEF Cached
<1>4. SameRatings(r, c)
  BY <1>1, <1>2 DEF SameRatings, C!Entry
<1>5. Calm(c) => Calm(r)
  BY <1>1, <1>2 DEF Calm
<1>6. QED
  BY <1>1, <1>3, <1>4, <1>5 DEF Changed, r

LEMMA PutChanges ==
    ASSUME NEW c, NEW k, NEW d, NEW n \in Nat, Cached(c, n), IsKey(k), Fits(k, d),
           k.of = "detail" /\ (\A x \in C!Entry(c, k).data : x.rating = "none") => d.rating = "none"
    PROVE  Changed(C!Put(c, k, d), c, n)
<1> DEFINE r == C!Put(c, k, d)
<1>1. Holds(r, c, k, d, n)
  BY PutHolds
<1> HIDE DEF r
<1>2. SameRatings(r, c)
  <2> SUFFICES ASSUME NEW i \in CItems, \A x \in C!Entry(c, C!DetailKey(i)).data : x.rating = "none"
               PROVE  \A x \in C!Entry(r, C!DetailKey(i)).data : x.rating = "none"
    BY <1>1 DEF SameRatings, Holds
  <2>1. CASE k = C!DetailKey(i)
    <3>1. d.rating = "none"
      BY <2>1, KeyShapes
    <3>2. C!Entry(r, C!DetailKey(i)).data = {d}
      BY <1>1, <2>1 DEF Holds, C!Entry
    <3>3. QED
      BY <3>1, <3>2
  <2>2. CASE k # C!DetailKey(i)
    <3>1. C!Entry(r, C!DetailKey(i)) = C!Entry(c, C!DetailKey(i))
      BY <1>1, <2>2 DEF Holds, C!Entry
    <3>2. QED
      BY <3>1
  <2>3. QED
    BY <2>1, <2>2
<1>3. Calm(c) => Calm(r)
  <2> SUFFICES ASSUME Calm(c), NEW x \in DOMAIN r, r[x].asked > 0
               PROVE  r[x].data # {} /\ x \in C!ActiveNow
    BY DEF Calm
  <2>1. CASE x = k
    <3>1. r[x].data = {d} /\ C!Entry(c, k).asked > 0
      BY <1>1, <2>1 DEF Holds
    <3>2. k \in DOMAIN c /\ c[k].asked > 0
      BY <3>1 DEF C!Entry, C!NoEntry
    <3>3. QED
      BY <2>1, <3>1, <3>2 DEF Calm
  <2>2. CASE x # k
    BY <1>1, <2>2 DEF Holds, Calm
  <2>3. QED
    BY <2>1, <2>2
<1>4. QED
  BY <1>1, <1>2, <1>3 DEF Changed, Holds, r

LEMMA UpdateChanges ==
    ASSUME NEW c, NEW i \in CItems, NEW t \in Tracked, NEW n \in Nat, Cached(c, n)
    PROVE  Changed(C!UpdateTracking(c, i, t), c, n)
<1> DEFINE k == C!DetailKey(i)
           o == C!Data(c, k)
           d == [o EXCEPT !.status = t.status, !.favorite = t.favorite]
<1>1. C!UpdateTracking(c, i, t) = IF C!Has(c, k) THEN C!Put(c, k, d) ELSE c
  BY DEF C!UpdateTracking, C!Patch
<1>2. CASE ~C!Has(c, k)
  BY <1>1, <1>2 DEF Changed, SameRatings
<1>3. CASE C!Has(c, k)
  <2>1. o \in C!Entry(c, k).data /\ o \in Details
    BY <1>3, DetailRating
  <2>2. IsKey(k) /\ k.of = "detail"
    BY KeyShapes DEF IsKey
  <2> HIDE DEF k, o
  <2>3. d \in Details /\ d.rating = o.rating
    BY <2>1 DEF Details, Tracked, C!Rules!Entry
  <2> HIDE DEF d
  <2>4. Fits(k, d)
    BY <2>2, <2>3 DEF Fits
  <2>5. (\A x \in C!Entry(c, k).data : x.rating = "none") => d.rating = "none"
    BY <2>1, <2>3
  <2>6. Changed(C!Put(c, k, d), c, n)
    BY <2>2, <2>4, <2>5, PutChanges
  <2>7. QED
    BY <1>1, <1>3, <2>6 DEF k, o, d
<1>4. QED
  BY <1>2, <1>3

LEMMA OptimisticType ==
    ASSUME NEW call, NEW t \in Tracked, IsCall(call), call.kind \in C!TrackingKinds
    PROVE  C!Optimistic(call, t) \in Tracked
<1>1. t.status \in C!Rules!Status \cup {"untracked"} /\ t.favorite \in BOOLEAN
  BY DEF Tracked
<1>2. CASE call.kind = "transition"
  <2>1. C!Optimistic(call, t) = [status |-> call.to, favorite |-> t.favorite /\ call.to = "completed"]
    BY <1>2 DEF C!Optimistic
  <2>2. (t.favorite /\ call.to = "completed") \in BOOLEAN
    OBVIOUS
  <2>3. QED
    BY <2>1, <2>2 DEF IsCall, Tracked
<1>3. CASE call.kind = "favorite"
  BY <1>3 DEF C!Optimistic, Tracked
<1>4. CASE call.kind = "unfavorite"
  BY <1>4 DEF C!Optimistic, Tracked
<1>5. CASE call.kind = "remove"
  BY <1>5 DEF C!Optimistic, Tracked, C!Untracked
<1>6. QED
  BY <1>2, <1>3, <1>4, <1>5 DEF C!TrackingKinds

LEMMA DetailType ==
    ASSUME NEW c, NEW i, NEW n \in Nat, Cached(c, n), C!Has(c, C!DetailKey(i))
    PROVE  C!TrackingOf(C!Data(c, C!DetailKey(i))) \in Tracked
<1>1. C!Data(c, C!DetailKey(i)) \in Details
  BY DetailRating
<1>2. QED
  BY <1>1 DEF C!TrackingOf, Tracked, Details, C!Rules!Entry

LEMMA MutatedChanges ==
    ASSUME NEW c, NEW call, NEW i \in CItems, NEW n \in Nat, Cached(c, n),
           IsCall(call), call.kind \in C!TrackingKinds
    PROVE  Changed(C!Mutated(c, call, i), c, n)
<1> DEFINE r == C!Cancel(c, C!DetailKeys(c))
           t == IF C!Has(r, C!DetailKey(i)) THEN C!TrackingOf(C!Data(r, C!DetailKey(i))) ELSE C!Untracked
           o == C!Optimistic(call, t)
<1>1. C!Mutated(c, call, i) = C!UpdateTracking(r, i, o)
  BY DEF C!Mutated
<1>2. Changed(r, c, n) /\ Cached(r, n)
  BY CancelChanges DEF Changed
<1> HIDE DEF r
<1>3. t \in Tracked
  <2>1. C!Untracked \in Tracked
    BY DEF C!Untracked, Tracked
  <2>2. QED
    BY <1>2, <2>1, DetailType
<1> HIDE DEF t
<1>4. o \in Tracked
  BY <1>3, OptimisticType
<1> HIDE DEF o
<1>5. Changed(C!UpdateTracking(r, i, o), r, n)
  BY <1>2, <1>4, UpdateChanges
<1>6. QED
  BY <1>1, <1>2, <1>5, ChangedTwice

-----------------------------------------------------------------------------
(* Mutations are submitted *)

\* A snapshot of the details in c.
SnapSound(s, c) ==
    /\ IsSnap(s)
    /\ \A i \in CItems :
         C!DetailKey(i) \in DOMAIN s /\ (\A d \in C!Entry(c, C!DetailKey(i)).data : d.rating = "none")
           => s[C!DetailKey(i)].rating = "none"
SnapshotOf(c) == [k \in {d \in C!DetailKeys(c) : C!Has(c, d)} |-> C!Data(c, k)]

LEMMA SnapshotIsSound ==
    ASSUME NEW c, NEW n, Cached(c, n)
    PROVE  SnapSound(SnapshotOf(c), c)
<1> DEFINE s == SnapshotOf(c)
<1>1. ASSUME NEW k \in DOMAIN s
      PROVE  s[k] \in C!Entry(c, k).data /\ s[k] \in Details /\ k.of = "detail"
  <2>1. k \in DOMAIN c /\ k.of = "detail" /\ c[k].data # {} /\ s[k] = C!Data(c, k)
    BY DEF SnapshotOf, C!DetailKeys, C!Has, C!Entry
  <2>2. C!Data(c, k) \in c[k].data /\ C!Entry(c, k) = c[k]
    BY <2>1 DEF C!Data, C!Entry
  <2> HIDE DEF s
  <2>3. QED
    BY <2>1, <2>2 DEF Cached, Fits
<1> HIDE DEF s
<1>2. QED
  BY <1>1 DEF SnapSound, IsSnap, s

LEMMA OneMoreJob ==
    ASSUME NEW js, NEW j, NEW c, NewAreUnrated(cHist, js, c), SnapSound(j.snap, c),
           j.call.kind = "rate" => C!MineKey(j.item) \in DOMAIN c
    PROVE  NewAreUnrated(cHist, js \cup {j}, c)
<1> SUFFICES ASSUME NEW i \in CItems, C!MineKey(i) \notin DOMAIN c
             PROVE  Unrated(i, cHist, js \cup {j}, c)
  BY DEF NewAreUnrated
<1>1. Unrated(i, cHist, js, c)
  BY DEF NewAreUnrated
<1>2. j.item = i => j.call.kind # "rate"
  OBVIOUS
<1>3. C!DetailKey(i) \in DOMAIN j.snap => j.snap[C!DetailKey(i)].rating = "none"
  BY <1>1 DEF SnapSound, Unrated
<1>4. QED
  BY <1>1, <1>2, <1>3 DEF Unrated

LEMMA SubmitStep ==
    ASSUME ContentBounds, ContentInv, cHopped' = (cHopped \/ C!Loose'), NEW call, NEW i \in CItems,
           NEW loc \in [CItems -> Tracked], IsCall(call), call.kind \in C!TrackingKinds,
           C!Tracking(i) \in Tracked, C!Submit(call, i, loc), C!Counted
    PROVE  ContentInv'
<1> DEFINE n == Len(cHist)
           s == C!SnapshotContentDetails
           w == C!Tracking(i)
           j == [C!NewJob(call, i) EXCEPT !.snap = s, !.was = w]
           c == C!Mutated(cCache, call, i)
<1>1. /\ n \in Nat /\ Cached(cCache, n) /\ IsContentPage(cPage) /\ C!ActiveNow \subseteq DOMAIN cCache
      /\ \A k \in cJobs : IsJob(k)
      /\ NewAreUnrated(cHist, cJobs, cCache)
  BY ContentFacts
<1>2. cJobs' = cJobs \cup {j} /\ C!Render(cPage, c, loc) /\ UNCHANGED cHist
  BY DEF C!Submit
<1>3. SnapSound(s, cCache)
  BY <1>1, SnapshotIsSound DEF SnapshotOf, C!SnapshotContentDetails
<1>4. w \in Tracked
  OBVIOUS
<1> HIDE DEF s, w
<1>5. IsJob(j) /\ j.snap = s /\ j.item = i /\ j.call = call
  <2> DEFINE f == IF cPage.at = "list" THEN "row" ELSE "page"
             k == [call |-> call, item |-> i, snap |-> <<>>, was |-> C!Untracked, from |-> f,
                   mount |-> TRUE, state |-> "sent", result |-> C!Untracked, prompt |-> FALSE]
  <2>1. j = [k EXCEPT !.snap = s, !.was = w]
    BY DEF C!NewJob
  <2>2. C!Untracked \in Tracked /\ IsSnap(s)
    BY <1>3 DEF C!Untracked, Tracked, SnapSound
  <2> HIDE DEF j, f
  <2>3. QED
    BY <1>4, <2>1, <2>2 DEF IsJob
<1> HIDE DEF j
<1>6. Changed(c, cCache, n)
  BY <1>1, MutatedChanges
<1> HIDE DEF c
<1>7. Cached(c, n) /\ C!ActiveNow \subseteq DOMAIN c
  BY <1>1, <1>6 DEF Changed
<1>8. NewAreUnrated(cHist, cJobs', c)
  <2>1. call.kind # "rate"
    BY DEF C!TrackingKinds
  <2>2. NewAreUnrated(cHist, cJobs', cCache)
    BY <1>1, <1>2, <1>3, <1>5, <2>1, OneMoreJob
  <2>3. QED
    BY <1>6, <2>2, StillUnrated DEF Changed
<1>9. (\A k \in cJobs' : IsJob(k)) /\ cJobs' # {}
  BY <1>1, <1>2, <1>5
<1>10. cActs' \in 0 .. CActs /\ cLosses' \in 0 .. CLosses
  BY CountedType
<1>11. QED
  BY <1>1, <1>2, <1>7, <1>8, <1>9, <1>10, RenderStep

LEMMA ControlsType ==
    ASSUME ContentInv, NEW i \in CItems, C!ControlsOf(i)
    PROVE  C!Tracking(i) \in Tracked
<1>1. CASE cPage.at = "list"
  BY <1>1, ContentFacts DEF C!Tracking
<1>2. CASE cPage.at # "list"
  <2>1. C!View = "content" /\ C!AtContent(cPage)
    <3>1. C!UseContentData(cPage, cCache) # "list"
      BY DEF C!UseContentData
    <3>2. QED
      BY <1>2, <3>1 DEF C!ControlsOf, C!View
  <2>2. C!UseContentData(cPage, cCache) = "content"
    BY <1>2, <2>1 DEF C!View
  <2>3. C!Has(cCache, C!DetailKey(cPage.item))
    BY <2>2, ContentIsShown DEF C!Has
  <2>4. QED
    BY <1>2, <2>3, ContentFacts, DetailType DEF C!Tracking, C!Shown
<1>3. QED
  BY <1>1, <1>2

LEMMA OptimistType ==
    ASSUME ContentInv, NEW i \in CItems, NEW call, IsCall(call), call.kind \in C!TrackingKinds
    PROVE  C!Optimist(call, i) \in [CItems -> Tracked]
<1>1. cLocal \in [CItems -> Tracked]
  BY ContentFacts
<1>2. C!Optimistic(call, cLocal[i]) \in Tracked
  BY <1>1, OptimisticType
<1>3. QED
  BY <1>1, <1>2 DEF C!Optimist

LEMMA ChangeSteps ==
    ASSUME ContentBounds, ContentInv, cHopped' = (cHopped \/ C!Loose'),
           C!ChangeStatus \/ C!ChangeFavorite \/ C!StopTracking
    PROVE  ContentInv'
<1>1. \E i \in CItems : \E call : /\ C!ControlsOf(i) /\ IsCall(call) /\ call.kind \in C!TrackingKinds
                                 /\ C!Submit(call, i, C!Optimist(call, i))
  <2>1. CASE C!ChangeStatus
    <3>1. PICK i \in CItems :
            /\ C!ControlsOf(i)
            /\ \E s \in C!ContentTrackingControls(i).states :
                 LET call == C!Call("transition", s, FALSE) IN C!Submit(call, i, C!Optimist(call, i))
      BY <2>1 DEF C!ChangeStatus
    <3>2. PICK s \in C!ContentTrackingControls(i).states :
            LET call == C!Call("transition", s, FALSE) IN C!Submit(call, i, C!Optimist(call, i))
      BY <3>1
    <3>3. s \in C!Rules!Status
      BY DEF C!ContentTrackingControls, ContentBounds
    <3>4. IsCall(C!Call("transition", s, FALSE)) /\ C!Call("transition", s, FALSE).kind \in C!TrackingKinds
      BY <3>3 DEF C!Call, IsCall, C!TrackingKinds, Kinds
    <3>5. QED
      BY <3>1, <3>2, <3>4
  <2>2. CASE C!ChangeFavorite
    <3>1. PICK i \in CItems :
            /\ C!ControlsOf(i)
            /\ LET call == IF C!Tracking(i).favorite THEN C!Call("unfavorite", "completed", TRUE)
                           ELSE C!Call("favorite", "completed", FALSE)
               IN  C!Submit(call, i, C!Optimist(call, i))
      BY <2>2 DEF C!ChangeFavorite
    <3>2. \A b : \A kind \in {"unfavorite", "favorite"} :
            /\ IsCall(C!Call(kind, "completed", b))
            /\ C!Call(kind, "completed", b).kind \in C!TrackingKinds
      BY DEF C!Call, IsCall, C!TrackingKinds, Kinds, C!Rules!Status
    <3>3. QED
      BY <3>1, <3>2
  <2>3. CASE C!StopTracking
    <3>1. PICK i \in CItems : C!ControlsOf(i) /\ C!Submit(C!Call("remove", "untracked", FALSE), i,
                                          C!Optimist(C!Call("remove", "untracked", FALSE), i))
      BY <2>3 DEF C!StopTracking
    <3>2. /\ IsCall(C!Call("remove", "untracked", FALSE))
          /\ C!Call("remove", "untracked", FALSE).kind \in C!TrackingKinds
      BY DEF C!Call, IsCall, C!TrackingKinds, Kinds
    <3>3. QED
      BY <3>1, <3>2
  <2>4. QED
    BY <2>1, <2>2, <2>3
<1>2. PICK i \in CItems : \E call : /\ C!ControlsOf(i) /\ IsCall(call)
                                   /\ call.kind \in C!TrackingKinds
                                   /\ C!Submit(call, i, C!Optimist(call, i))
  BY <1>1
<1> PICK call : /\ C!ControlsOf(i) /\ IsCall(call) /\ call.kind \in C!TrackingKinds
                /\ C!Submit(call, i, C!Optimist(call, i))
  BY <1>2
<1>3. C!Tracking(i) \in Tracked /\ C!Optimist(call, i) \in [CItems -> Tracked]
  BY ControlsType, OptimistType
<1>4. C!Counted
  BY DEF C!ChangeStatus, C!ChangeFavorite, C!StopTracking
<1>5. QED
  BY <1>3, <1>4, SubmitStep

LEMMA RateSteps ==
    ASSUME ContentBounds, ContentInv, cHopped' = (cHopped \/ C!Loose'), C!HandleSubmitRating \/ C!HandleDeleteRating
    PROVE  ContentInv'
<1>1. PICK call : IsCall(call) /\ C!SubmitRating(call)
  <2>1. IsCall(C!Call("rate", "completed", FALSE)) /\ IsCall(C!Call("unrate", "completed", TRUE))
    BY DEF C!Call, IsCall, Kinds, C!Rules!Status
  <2>2. QED
    BY <2>1 DEF C!HandleSubmitRating, C!HandleDeleteRating
<1> DEFINE j == C!NewJob(call, cPage.item)
<1>2. /\ Cached(cCache, Len(cHist)) /\ IsContentPage(cPage) /\ C!ActiveNow \subseteq DOMAIN cCache
      /\ \A k \in cJobs : IsJob(k)
      /\ NewAreUnrated(cHist, cJobs, cCache) /\ cLocal \in [CItems -> Tracked]
  BY ContentFacts
<1>3. C!View = "content" /\ cJobs' = cJobs \cup {j} /\ C!Render(cPage, cCache, cLocal)
      /\ UNCHANGED cHist /\ C!Counted
  BY <1>1 DEF C!SubmitRating
<1>4. C!AtContent(cPage) /\ C!UseContentData(cPage, cCache) = "content"
  BY <1>3 DEF C!View
<1>5. cPage.item \in CItems /\ C!Has(cCache, C!DetailKey(cPage.item))
  BY <1>2, <1>4, ContentIsShown DEF IsContentPage, C!Has
<1>6. C!MineKey(cPage.item) \in DOMAIN cCache
  BY <1>2, <1>4, <1>5 DEF C!ActiveNow, C!Active
<1>7. IsJob(j) /\ j.item = cPage.item /\ SnapSound(j.snap, cCache)
  <2>1. C!Untracked \in Tracked
    BY DEF C!Untracked, Tracked
  <2>2. j.item = cPage.item /\ j.snap = <<>>
    BY DEF C!NewJob
  <2>3. SnapSound(j.snap, cCache)
    BY <2>2 DEF SnapSound, IsSnap
  <2>4. IsJob(j)
    BY <1>1, <1>5, <2>1 DEF C!NewJob, IsJob, IsSnap
  <2>5. QED
    BY <2>2, <2>3, <2>4
<1> HIDE DEF j
<1>8. NewAreUnrated(cHist, cJobs', cCache)
  BY <1>2, <1>3, <1>6, <1>7, OneMoreJob
<1>9. (\A k \in cJobs' : IsJob(k)) /\ cJobs' # {}
  BY <1>2, <1>3, <1>7
<1>10. cActs' \in 0 .. CActs /\ cLosses' \in 0 .. CLosses
  BY <1>3, CountedType
<1>11. QED
  BY <1>2, <1>3, <1>8, <1>9, <1>10, RenderStep

-----------------------------------------------------------------------------
(* Core's side *)

LEMMA BecomeStep ==
    ASSUME ContentBounds, ContentInv, cHopped' = (cHopped \/ C!Loose'), NEW j \in cJobs, NEW k, IsJob(k),
           k.item = j.item, k.call = j.call, k.snap = j.snap, C!Become(j, k),
           cHist' \in Seq([CItems -> C!Rules!Entry]), cHist' # <<>>, Len(cHist) <= Len(cHist'),
           \A i \in CItems : Unrated(i, cHist, cJobs, cCache)
                              => \A n \in 1 .. Len(cHist') : cHist'[n][i].rating = "none",
           cActs' \in 0 .. CActs, cLosses' \in 0 .. CLosses
    PROVE  ContentInv'
<1>1. cJobs' = (cJobs \ {j}) \cup {k} /\ cCache' = cCache /\ cPage' = cPage /\ cLocal' = cLocal
  BY DEF C!Become
<1>2. /\ Len(cHist) \in Nat /\ Cached(cCache, Len(cHist)) /\ C!ActiveNow \subseteq DOMAIN cCache
      /\ IsContentPage(cPage) /\ cLocal \in [CItems -> Tracked] /\ (\A x \in cJobs : IsJob(x))
      /\ NewAreUnrated(cHist, cJobs, cCache)
  BY ContentFacts
<1>3. Len(cHist') \in Nat
  OBVIOUS
<1>4. Cached(cCache, Len(cHist'))
  BY <1>2, <1>3 DEF Cached, IsContentEntry
<1>5. C!ActiveNow' = C!ActiveNow
  BY <1>1 DEF C!ActiveNow
<1>6. \A x \in cJobs' : IsJob(x)
  BY <1>1, <1>2
<1>7. ContentTyped'
  BY <1>1, <1>2, <1>4, <1>5, <1>6 DEF ContentTyped
<1>8. NewAreUnrated(cHist, cJobs, cCache)'
  <2> SUFFICES ASSUME NEW i \in CItems, C!MineKey(i) \notin DOMAIN cCache
               PROVE  Unrated(i, cHist', cJobs', cCache)
    BY <1>1 DEF NewAreUnrated
  <2>1. Unrated(i, cHist, cJobs, cCache)
    BY <1>2 DEF NewAreUnrated
  <2>2. \A n \in 1 .. Len(cHist') : cHist'[n][i].rating = "none"
    BY <2>1
  <2>3. QED
    BY <1>1, <2>1, <2>2 DEF Unrated
<1>9. cJobs' # {} /\ (C!Loose => cHopped)'
  BY <1>1
<1>10. QED
  BY <1>7, <1>8, <1>9 DEF ContentInv

LEMMA AfterType ==
    ASSUME NEW call, NEW e \in C!Rules!Entry, IsCall(call)
    PROVE  /\ C!Rules!After(call, e) \in C!Rules!Entry
           /\ C!TrackingOf(C!Rules!After(call, e)) \in Tracked
           /\ e.rating = "none" /\ call.kind # "rate" => C!Rules!After(call, e).rating = "none"
<1> DEFINE f == C!Rules!After(call, e)
<1>1. f \in C!Rules!Entry /\ (e.rating = "none" /\ call.kind # "rate" => f.rating = "none")
  <2>1. e.favorite \in BOOLEAN
    BY DEF C!Rules!Entry
  <2>2. CASE call.kind = "transition"
    <3>1. (e.favorite /\ call.to = "completed") \in BOOLEAN
      OBVIOUS
    <3>2. f = C!Rules!Transitioned(e, call.to)
      BY <2>2 DEF C!Rules!After
    <3>3. QED
      BY <3>1, <3>2 DEF C!Rules!Transitioned, IsCall, C!Rules!Entry
  <2>3. CASE call.kind = "remove"
    BY <2>3 DEF C!Rules!After, C!Rules!Removed, C!Rules!Entry
  <2>4. CASE call.kind \in {"favorite", "unfavorite"}
    BY <2>4 DEF C!Rules!After, C!Rules!Entry
  <2>5. CASE call.kind \in {"rate", "unrate"}
    BY <2>5 DEF C!Rules!After, C!Rules!Entry, C!Rules!Status
  <2>6. QED
    BY <2>2, <2>3, <2>4, <2>5 DEF IsCall, Kinds, C!TrackingKinds
<1> HIDE DEF f
<1>2. C!TrackingOf(f) \in Tracked
  BY <1>1 DEF C!TrackingOf, Tracked, C!Rules!Entry
<1>3. QED
  BY <1>1, <1>2 DEF f

LEMMA CarryOutStep ==
    ASSUME ContentBounds, ContentInv, cHopped' = (cHopped \/ C!Loose'), NEW j \in cJobs, C!CarryOut(j)
    PROVE  ContentInv'
<1> DEFINE e == C!Rules!After(j.call, C!Server[j.item])
           v == [C!Server EXCEPT ![j.item] = e]
           b == /\ j.call.kind = "transition" /\ j.call.to = "completed"
                /\ C!Server[j.item].rating = "none"
           k == [j EXCEPT !.state = "done", !.result = C!TrackingOf(e), !.prompt = b]
<1>1. /\ Len(cHist) \in Nat \ {0} /\ C!Server \in [CItems -> C!Rules!Entry] /\ IsJob(j)
      /\ cHist \in Seq([CItems -> C!Rules!Entry])
  BY ContentFacts DEF ContentInv, ContentTyped
<1>2. j.item \in CItems /\ IsCall(j.call) /\ C!Server[j.item] \in C!Rules!Entry
  BY <1>1 DEF IsJob
<1>3. e \in C!Rules!Entry /\ C!TrackingOf(e) \in Tracked
      /\ (C!Server[j.item].rating = "none" /\ j.call.kind # "rate" => e.rating = "none")
  BY <1>2, AfterType
<1>4. cHist' = Append(cHist, v) /\ C!Become(j, k) /\ C!Free
  BY DEF C!CarryOut
<1> HIDE DEF e, b
<1>5. v \in [CItems -> C!Rules!Entry] /\ \A i \in CItems : v[i] = IF i = j.item THEN e ELSE C!Server[i]
  BY <1>1, <1>3
<1>6. IsJob(k) /\ k.item = j.item /\ k.call = j.call /\ k.snap = j.snap
  BY <1>1, <1>3 DEF IsJob
<1> HIDE DEF v, k
<1>7. /\ cHist' \in Seq([CItems -> C!Rules!Entry]) /\ cHist' # <<>> /\ Len(cHist') = Len(cHist) + 1
      /\ \A n \in 1 .. Len(cHist') : cHist'[n] = IF n = Len(cHist') THEN v ELSE cHist[n]
      /\ \A n \in 1 .. Len(cHist') : n = Len(cHist') \/ n \in 1 .. Len(cHist)
  BY <1>1, <1>4, <1>5
<1>8. ASSUME NEW i \in CItems, Unrated(i, cHist, cJobs, cCache), NEW n \in 1 .. Len(cHist')
      PROVE  cHist'[n][i].rating = "none"
  <2>1. CASE n = Len(cHist')
    <3>1. C!Server[i].rating = "none"
      BY <1>1, <1>8 DEF C!Server, Unrated
    <3>2. i = j.item => j.call.kind # "rate"
      BY <1>8 DEF Unrated
    <3>3. v[i].rating = "none"
      BY <1>3, <1>5, <3>1, <3>2
    <3>4. QED
      BY <1>7, <2>1, <3>3
  <2>2. CASE n # Len(cHist')
    BY <1>7, <1>8, <2>2 DEF Unrated
  <2>3. QED
    BY <2>1, <2>2
<1>9. cActs' \in 0 .. CActs /\ cLosses' \in 0 .. CLosses
  BY <1>4, CountedType
<1>10. Len(cHist) <= Len(cHist')
  BY <1>1, <1>7
<1>11. QED
  BY <1>4, <1>6, <1>7, <1>8, <1>9, <1>10, BecomeStep

LEMMA AnswerLostSteps ==
    ASSUME ContentBounds, ContentInv, cHopped' = (cHopped \/ C!Loose'), NEW j \in cJobs, C!Refuse(j) \/ C!LoseAnswer(j)
    PROVE  ContentInv'
<1>1. PICK s \in {"unconfirmed", "refused"} : C!Become(j, [j EXCEPT !.state = s])
  <2>1. CASE C!Refuse(j)
    BY <2>1 DEF C!Refuse
  <2>2. CASE C!LoseAnswer(j)
    BY <2>2 DEF C!LoseAnswer
  <2>3. QED
    BY <2>1, <2>2
<1> DEFINE k == [j EXCEPT !.state = s]
<1>2. UNCHANGED <<cHist, cActs>> /\ (UNCHANGED cLosses \/ (cLosses < CLosses /\ cLosses' = cLosses + 1))
  BY DEF C!Refuse, C!LoseAnswer
<1>3. cActs' \in 0 .. CActs /\ cLosses' \in 0 .. CLosses
  BY <1>2 DEF ContentBounds, ContentInv, ContentTyped
<1>4. IsJob(j) /\ cHist \in Seq([CItems -> C!Rules!Entry]) /\ cHist # <<>> /\ Len(cHist) \in Nat
  BY ContentFacts DEF ContentInv, ContentTyped
<1>5. IsJob(k) /\ k.item = j.item /\ k.call = j.call /\ k.snap = j.snap
  BY <1>4 DEF IsJob
<1>6. C!Become(j, k)
  BY <1>1
<1> HIDE DEF k
<1>7. \A i \in CItems : Unrated(i, cHist, cJobs, cCache)
                         => \A n \in 1 .. Len(cHist') : cHist'[n][i].rating = "none"
  BY <1>2 DEF Unrated
<1>8. cHist' \in Seq([CItems -> C!Rules!Entry]) /\ cHist' # <<>> /\ Len(cHist) <= Len(cHist')
  BY <1>2, <1>4
<1>9. QED
  BY <1>3, <1>5, <1>6, <1>7, <1>8, BecomeStep

-----------------------------------------------------------------------------
(* Mutations settle *)

LEMMA CalmBefore ==
    ASSUME ContentInv, cJobs # {}, ~cHopped
    PROVE  Calm(cCache)
  BY DEF ContentInv, C!Loose, C!Unhealed, Calm

LEMMA RestoreHolds ==
    ASSUME ContentInv, NEW j \in cJobs
    PROVE  LET r == C!RestoreSnapshot(cCache, j.snap)
           IN  /\ Cached(r, Len(cHist)) /\ DOMAIN r = DOMAIN cCache
               /\ NewAreUnrated(cHist, cJobs, r)
               /\ Calm(cCache) => Calm(r)
<1> DEFINE n == Len(cHist)
           s == j.snap
           r == C!RestoreSnapshot(cCache, s)
<1>1. Cached(cCache, n) /\ NewAreUnrated(cHist, cJobs, cCache) /\ IsSnap(s)
  BY ContentFacts DEF IsJob
<1>2. NewAreUnrated(cHist, cJobs, cCache) /\ \A i \in CItems : C!MineKey(i) \notin DOMAIN cCache =>
        (C!DetailKey(i) \in DOMAIN s => s[C!DetailKey(i)].rating = "none")
  BY <1>1 DEF NewAreUnrated, Unrated
<1> HIDE DEF s
<1>3. DOMAIN r = DOMAIN cCache
  BY DEF C!RestoreSnapshot
<1>4. ASSUME NEW k \in DOMAIN cCache
      PROVE  /\ IsContentEntry(r[k], n) /\ r[k].asked = cCache[k].asked
             /\ r[k].data = IF k \in DOMAIN s THEN {s[k]} ELSE cCache[k].data
  <2>1. IsContentEntry(cCache[k], n)
    BY <1>1 DEF Cached
  <2>2. r[k] = IF k \in DOMAIN s
               THEN [cCache[k] EXCEPT !.data = {s[k]}, !.fresh = TRUE, !.failed = FALSE]
               ELSE cCache[k]
    BY DEF C!RestoreSnapshot
  <2> HIDE DEF r
  <2>3. QED
    BY <2>1, <2>2 DEF IsContentEntry
<1> HIDE DEF r
<1>5. Cached(r, n)
  <2> SUFFICES ASSUME NEW k \in DOMAIN r
               PROVE  IsKey(k) /\ IsContentEntry(r[k], n) /\ \A d \in r[k].data : Fits(k, d)
    BY DEF Cached
  <2>1. k \in DOMAIN s => Fits(k, s[k])
    BY <1>1 DEF IsSnap, Fits
  <2>2. QED
    BY <1>1, <1>3, <1>4, <2>1 DEF Cached
<1>6. NewAreUnrated(cHist, cJobs, r)
  <2> SUFFICES ASSUME NEW i \in CItems, C!MineKey(i) \notin DOMAIN cCache
               PROVE  Unrated(i, cHist, cJobs, r)
    BY <1>3 DEF NewAreUnrated
  <2>1. Unrated(i, cHist, cJobs, cCache)
    BY <1>1 DEF NewAreUnrated
  <2>2. \A d \in C!Entry(r, C!DetailKey(i)).data : d.rating = "none"
    <3>1. CASE C!DetailKey(i) \in DOMAIN cCache
      BY <1>2, <1>3, <1>4, <2>1, <3>1 DEF C!Entry, Unrated
    <3>2. CASE C!DetailKey(i) \notin DOMAIN cCache
      BY <1>3, <3>2 DEF C!Entry, C!NoEntry
    <3>3. QED
      BY <3>1, <3>2
  <2>3. QED
    BY <2>1, <2>2 DEF Unrated
<1>7. Calm(cCache) => Calm(r)
  BY <1>3, <1>4 DEF Calm
<1>8. QED
  BY <1>3, <1>5, <1>6, <1>7 DEF r, s

LEMMA InvalidateHolds ==
    ASSUME ContentInv, NEW c, NEW K, NEW js, Cached(c, Len(cHist)), NewAreUnrated(cHist, js, c),
           \A k \in DOMAIN c : k.of # "rows" => k \in K
    PROVE  LET r == C!Invalidate(c, K, C!ActiveNow)
           IN  /\ Cached(r, Len(cHist)) /\ DOMAIN r = DOMAIN c
               /\ NewAreUnrated(cHist, js, r)
               /\ Calm(c) => Healthy(r)
<1> DEFINE n == Len(cHist)
           r == C!Invalidate(c, K, C!ActiveNow)
<1>1. n \in Nat /\ \A k \in DOMAIN c : IsContentEntry(c[k], n)
  BY ContentFacts DEF Cached
<1>2. /\ DOMAIN r = DOMAIN c
      /\ \A k \in DOMAIN c :
           /\ IsContentEntry(r[k], n) /\ r[k].data = c[k].data
           /\ r[k].asked \in {c[k].asked, n}
           /\ k \in K => ~r[k].fresh
           /\ k \in K \cap C!ActiveNow /\ ~(c[k].asked > 0 /\ c[k].data = {}) => r[k].asked = n
  BY <1>1, InvalidateEntries
<1> HIDE DEF r
<1>3. Cached(r, n)
  BY <1>2 DEF Cached
<1>4. NewAreUnrated(cHist, js, r)
  BY <1>2 DEF NewAreUnrated, Unrated, C!Entry
<1>5. ASSUME Calm(c), NEW k \in DOMAIN r, k.of # "rows"
      PROVE  Sound(C!Server, n, k, r[k])
  <2>1. k \in DOMAIN c /\ k \in K /\ ~r[k].fresh
    BY <1>2, <1>5
  <2>2. r[k].asked \in {0, n}
    <3>1. IsContentEntry(c[k], n)
      BY <1>1, <2>1
    <3>2. CASE c[k].asked > 0
      BY <1>2, <1>5, <2>1, <3>2 DEF Calm
    <3>3. CASE c[k].asked = 0
      BY <1>2, <2>1, <3>3
    <3>4. QED
      BY <3>1, <3>2, <3>3 DEF IsContentEntry
  <2>3. QED
    BY <2>1, <2>2 DEF Sound
<1>6. QED
  BY <1>2, <1>3, <1>4, <1>5 DEF Healthy, r

LEMMA FewerJobs ==
    ASSUME NEW j, NEW c, NewAreUnrated(cHist, cJobs, c)
    PROVE  NewAreUnrated(cHist, cJobs \ {j}, c)
  BY DEF NewAreUnrated, Unrated

LEMMA SettleStep ==
    ASSUME ContentBounds, ContentInv, cHopped' = (cHopped \/ C!Loose'), NEW j \in cJobs, NEW p, NEW c, NEW K, NEW loc,
           C!Render(p, C!Invalidate(c, K, C!ActiveNow), loc), cJobs' = cJobs \ {j}, UNCHANGED cHist, C!Free,
           IsContentPage(p), loc \in [CItems -> Tracked], Cached(c, Len(cHist)),
           DOMAIN cCache \subseteq DOMAIN c, NewAreUnrated(cHist, cJobs, c),
           Calm(cCache) => Calm(c), \A k \in DOMAIN c : k.of # "rows" => k \in K
    PROVE  ContentInv'
<1> DEFINE r == C!Invalidate(c, K, C!ActiveNow)
<1>1. /\ Cached(r, Len(cHist)) /\ DOMAIN r = DOMAIN c /\ NewAreUnrated(cHist, cJobs, r)
      /\ Calm(c) => Healthy(r)
  BY InvalidateHolds
<1>2. C!Render(p, r, loc)
  OBVIOUS
<1> HIDE DEF r
<1>3. NewAreUnrated(cHist, cJobs', r)
  BY <1>1, FewerJobs
<1>4. cJobs' = {} /\ ~cHopped => Healthy(r)
  BY <1>1, CalmBefore
<1>5. C!ActiveNow \subseteq DOMAIN r /\ \A k \in cJobs' : IsJob(k)
  BY <1>1, ContentFacts
<1>6. cActs' \in 0 .. CActs /\ cLosses' \in 0 .. CLosses
  BY CountedType
<1>7. QED
  BY <1>1, <1>2, <1>3, <1>4, <1>5, <1>6, RenderStep

LEMMA RowType ==
    ASSUME ContentInv, NEW j \in cJobs, NEW t \in Tracked
    PROVE  C!SetRow(j, t) \in [CItems -> Tracked]
  BY ContentFacts DEF C!SetRow

LEMMA SameChanges ==
    ASSUME NEW c, NEW n, Cached(c, n)
    PROVE  Changed(c, c, n)
  BY DEF Changed, SameRatings

LEMMA TrackingDoneStep ==
    ASSUME ContentBounds, ContentInv, cHopped' = (cHopped \/ C!Loose'), NEW j \in cJobs, C!TrackingDone(j)
    PROVE  ContentInv'
<1> DEFINE c == IF j.call.kind = "remove" THEN cCache ELSE C!UpdateTracking(cCache, j.item, j.result)
           loc == IF j.call.kind = "remove" THEN cLocal ELSE C!SetRow(j, j.result)
           n == Len(cHist)
<1>1. /\ n \in Nat /\ Cached(cCache, n) /\ IsContentPage(cPage) /\ IsJob(j)
      /\ cLocal \in [CItems -> Tracked] /\ NewAreUnrated(cHist, cJobs, cCache)
  BY ContentFacts
<1>2. /\ C!Render(C!Prompted(j), C!Invalidate(c, DOMAIN c, C!ActiveNow), loc)
      /\ cJobs' = cJobs \ {j} /\ UNCHANGED cHist /\ C!Free
  BY DEF C!TrackingDone, C!InvalidateTrackingResources
<1>3. Changed(c, cCache, n)
  BY <1>1, SameChanges, UpdateChanges DEF IsJob
<1>4. loc \in [CItems -> Tracked]
  BY <1>1, RowType DEF IsJob
<1>5. IsContentPage(C!Prompted(j))
  BY <1>1, RatingPage DEF C!Prompted
<1> HIDE DEF c, loc
<1>6. NewAreUnrated(cHist, cJobs, c)
  BY <1>1, <1>3, StillUnrated DEF Changed
<1>7. Cached(c, n) /\ DOMAIN cCache \subseteq DOMAIN c /\ (Calm(cCache) => Calm(c))
  BY <1>3 DEF Changed
<1>8. \A k \in DOMAIN c : k.of # "rows" => k \in DOMAIN c
  OBVIOUS
<1>9. QED
  BY <1>2, <1>4, <1>5, <1>6, <1>7, <1>8, SettleStep

LEMMA TrackingFailedStep ==
    ASSUME ContentBounds, ContentInv, cHopped' = (cHopped \/ C!Loose'), NEW j \in cJobs, C!TrackingFailed(j)
    PROVE  ContentInv'
<1> DEFINE c == C!RestoreSnapshot(cCache, j.snap)
<1>1. /\ Cached(c, Len(cHist)) /\ DOMAIN c = DOMAIN cCache /\ NewAreUnrated(cHist, cJobs, c)
      /\ Calm(cCache) => Calm(c)
  BY RestoreHolds
<1>2. /\ C!Render(cPage, C!Invalidate(c, DOMAIN c, C!ActiveNow), C!SetRow(j, j.was))
      /\ cJobs' = cJobs \ {j} /\ UNCHANGED cHist /\ C!Free
  BY DEF C!TrackingFailed, C!Settled, C!InvalidateTrackingResources
<1> HIDE DEF c
<1>3. C!SetRow(j, j.was) \in [CItems -> Tracked] /\ IsContentPage(cPage)
  BY ContentFacts, RowType DEF IsJob
<1>4. \A k \in DOMAIN c : k.of # "rows" => k \in DOMAIN c
  OBVIOUS
<1>5. QED
  BY <1>1, <1>2, <1>3, <1>4, SettleStep

LEMMA TrackingRetriedStep ==
    ASSUME ContentBounds, ContentInv, cHopped' = (cHopped \/ C!Loose'), NEW j \in cJobs, C!TrackingRetried(j)
    PROVE  ContentInv'
<1> DEFINE n == Len(cHist)
           b == C!RestoreSnapshot(cCache, j.snap)
           c == C!Invalidate(b, DOMAIN b, C!ActiveNow)
           x == [j.call EXCEPT !.acked = TRUE]
           s == SnapshotOf(c)
           k == [j EXCEPT !.call = x, !.snap = s, !.state = "sent"]
           m == C!Mutated(c, x, j.item)
           loc == C!SetRow(j, IF x.kind = "remove" THEN C!Untracked ELSE j.was)
<1>1. /\ Cached(b, n) /\ DOMAIN b = DOMAIN cCache /\ NewAreUnrated(cHist, cJobs, b)
  BY RestoreHolds
<1>2. /\ cJobs' = (cJobs \ {j}) \cup {k} /\ C!Render(cPage, m, loc) /\ UNCHANGED cHist /\ C!Free
      /\ C!IsTracking(j)
  BY DEF C!TrackingRetried, C!Settled, C!InvalidateTrackingResources, SnapshotOf
<1>3. IsJob(j) /\ n \in Nat /\ IsContentPage(cPage) /\ C!ActiveNow \subseteq DOMAIN cCache
      /\ \A y \in cJobs : IsJob(y)
  BY ContentFacts
<1>4. loc \in [CItems -> Tracked]
  <2>1. C!Untracked \in Tracked
    BY DEF C!Untracked, Tracked
  <2>2. QED
    BY <1>3, <2>1, RowType DEF IsJob
<1> HIDE DEF b, loc
<1>5. Cached(c, n) /\ DOMAIN c = DOMAIN b /\ NewAreUnrated(cHist, cJobs, c)
  <2>1. \A y \in DOMAIN b : y.of # "rows" => y \in DOMAIN b
    OBVIOUS
  <2>2. QED
    BY <1>1, <2>1, InvalidateHolds
<1> HIDE DEF c
<1>6. SnapSound(s, c)
  BY <1>5, SnapshotIsSound
<1> HIDE DEF s
<1>7. /\ IsJob(k) /\ k.item = j.item /\ k.call = x /\ k.snap = s
      /\ IsCall(x) /\ x.kind = j.call.kind
  <2>1. IsSnap(s)
    BY <1>6 DEF SnapSound
  <2>2. IsCall(x) /\ x.kind = j.call.kind
    BY <1>3 DEF IsJob, IsCall
  <2> HIDE DEF x
  <2>3. QED
    BY <1>3, <2>1, <2>2 DEF IsJob
<1>8. x.kind \in C!TrackingKinds /\ x.kind # "rate"
  BY <1>2, <1>7 DEF C!IsTracking, C!TrackingKinds
<1> HIDE DEF x, k
<1>9. Changed(m, c, n)
  BY <1>3, <1>5, <1>7, <1>8, MutatedChanges DEF IsJob
<1> HIDE DEF m
<1>10. NewAreUnrated(cHist, cJobs', m)
  <2>1. NewAreUnrated(cHist, cJobs \ {j}, c)
    BY <1>5, FewerJobs
  <2>2. NewAreUnrated(cHist, cJobs', c)
    BY <1>2, <1>6, <1>7, <1>8, <2>1, OneMoreJob
  <2>3. QED
    BY <1>9, <2>2, StillUnrated DEF Changed
<1>11. Cached(m, n) /\ C!ActiveNow \subseteq DOMAIN m
  BY <1>1, <1>3, <1>5, <1>9 DEF Changed
<1>12. (\A y \in cJobs' : IsJob(y)) /\ cJobs' # {}
  BY <1>2, <1>3, <1>7
<1>13. cActs' \in 0 .. CActs /\ cLosses' \in 0 .. CLosses
  BY <1>2, CountedType
<1>14. QED
  BY <1>2, <1>3, <1>4, <1>10, <1>11, <1>12, <1>13, RenderStep

LEMMA RatingSettles ==
    ASSUME ContentBounds, ContentInv, cHopped' = (cHopped \/ C!Loose'), NEW j \in cJobs, C!RatingDone(j) \/ C!RatingFailed(j)
    PROVE  ContentInv'
<1> DEFINE n == Len(cHist)
           m == C!MineKey(j.item)
<1>1. /\ n \in Nat /\ Cached(cCache, n) /\ IsContentPage(cPage) /\ IsJob(j)
      /\ cLocal \in [CItems -> Tracked] /\ NewAreUnrated(cHist, cJobs, cCache)
  BY ContentFacts
<1>2. PICK p, c : /\ C!Render(p, C!InvalidateRatingResources(c), cLocal) /\ IsContentPage(p)
                  /\ c = cCache \/ c = C!Put(cCache, m, "active")
  <2>1. CASE C!RatingDone(j)
    <3>1. IsContentPage([cPage EXCEPT !.rating = @ /\ ~(j.mount /\ j.call.kind = "rate")])
      BY <1>1, RatingPage
    <3>2. QED
      BY <2>1, <3>1 DEF C!RatingDone
  <2>2. CASE C!RatingFailed(j)
    BY <1>1, <2>2 DEF C!RatingFailed
  <2>3. QED
    BY <2>1, <2>2
<1>3. cJobs' = cJobs \ {j} /\ UNCHANGED cHist /\ C!Free
  BY DEF C!RatingDone, C!RatingFailed
<1>4. Changed(c, cCache, n)
  <2>1. IsKey(m) /\ m.of = "mine"
    BY <1>1, KeyShapes DEF IsJob, IsKey
  <2>2. Fits(m, "active")
    BY <2>1 DEF Fits
  <2> HIDE DEF m
  <2>3. Changed(C!Put(cCache, m, "active"), cCache, n)
    BY <1>1, <2>1, <2>2, PutChanges
  <2>4. QED
    BY <1>1, <1>2, <2>3, SameChanges
<1>5. NewAreUnrated(cHist, cJobs, c)
  BY <1>1, <1>4, StillUnrated DEF Changed
<1>6. Cached(c, n) /\ DOMAIN cCache \subseteq DOMAIN c /\ (Calm(cCache) => Calm(c))
  BY <1>4 DEF Changed
<1> DEFINE K == {k \in DOMAIN c : k.of \in {"detail", "mine", "ratings"}}
<1>7. \A k \in DOMAIN c : k.of # "rows" => k \in K
  BY <1>6, KeyShapes DEF Cached
<1>8. C!Render(p, C!Invalidate(c, K, C!ActiveNow), cLocal)
  BY <1>2 DEF C!InvalidateRatingResources
<1> HIDE DEF K
<1>9. QED
  BY <1>1, <1>2, <1>3, <1>5, <1>6, <1>7, <1>8, SettleStep

-----------------------------------------------------------------------------
(* Reads *)

LEMMA ReadStep ==
    ASSUME ContentBounds, ContentInv, cHopped' = (cHopped \/ C!Loose'), NEW k \in DOMAIN cCache, NEW c,
           C!Render(cPage, c, cLocal), UNCHANGED <<cHist, cJobs>>,
           cActs' \in 0 .. CActs, cLosses' \in 0 .. CLosses,
           Cached(c, Len(cHist)), DOMAIN c = DOMAIN cCache,
           \A x \in DOMAIN cCache : x # k => c[x] = cCache[x],
           \A i \in CItems : k = C!DetailKey(i) /\ Unrated(i, cHist, cJobs, cCache)
                              => \A d \in c[k].data : d.rating = "none",
           k.of # "rows" /\ Sound(C!Server, Len(cHist), k, cCache[k])
                              => Sound(C!Server, Len(cHist), k, c[k])
    PROVE  ContentInv'
<1>1. /\ IsContentPage(cPage) /\ C!ActiveNow \subseteq DOMAIN cCache /\ cLocal \in [CItems -> Tracked]
      /\ \A j \in cJobs : IsJob(j)
      /\ NewAreUnrated(cHist, cJobs, cCache)
      /\ cJobs = {} /\ ~cHopped => Healthy(cCache)
  BY ContentFacts
<1>2. NewAreUnrated(cHist, cJobs, c)
  <2> SUFFICES ASSUME NEW i \in CItems, C!MineKey(i) \notin DOMAIN cCache
               PROVE  Unrated(i, cHist, cJobs, c)
    BY DEF NewAreUnrated
  <2>1. Unrated(i, cHist, cJobs, cCache)
    BY <1>1 DEF NewAreUnrated
  <2>2. \A d \in C!Entry(c, C!DetailKey(i)).data : d.rating = "none"
    <3>1. CASE C!DetailKey(i) = k
      BY <2>1, <3>1 DEF C!Entry
    <3>2. CASE C!DetailKey(i) # k
      BY <2>1, <3>2 DEF C!Entry, Unrated
    <3>3. QED
      BY <3>1, <3>2
  <2>3. QED
    BY <2>1, <2>2 DEF Unrated
<1>3. Healthy(cCache) => Healthy(c)
  <2> SUFFICES ASSUME Healthy(cCache), NEW x \in DOMAIN cCache, x.of # "rows"
               PROVE  Sound(C!Server, Len(cHist), x, c[x])
    BY DEF Healthy
  <2>1. Sound(C!Server, Len(cHist), x, cCache[x])
    BY DEF Healthy
  <2>2. QED
    BY <2>1
<1>4. NewAreUnrated(cHist, cJobs', c) /\ (cJobs' = {} /\ ~cHopped => Healthy(c))
  BY <1>1, <1>2, <1>3
<1>5. \A j \in cJobs' : IsJob(j)
  BY <1>1
<1>6. QED
  BY <1>1, <1>4, <1>5, RenderStep

LEMMA DeliverStep ==
    ASSUME ContentBounds, ContentInv, cHopped' = (cHopped \/ C!Loose'), NEW k \in DOMAIN cCache, C!Deliver(k)
    PROVE  ContentInv'
<1> DEFINE n == Len(cHist)
<1>1. PICK m \in cCache[k].asked .. n : /\ C!Answered(cHist[m], k)
                                       /\ C!Render(cPage, C!Arrived(cCache, k, C!Answer(cHist[m], k)), cLocal)
  BY DEF C!Deliver
<1>2. /\ n \in Nat \ {0} /\ Cached(cCache, n)
      /\ \A x \in 1 .. n : cHist[x] \in [CItems -> C!Rules!Entry]
  BY ContentFacts, ServerType DEF ContentInv, ContentTyped
<1>3. IsKey(k) /\ IsContentEntry(cCache[k], n) /\ cCache[k].asked > 0
  BY <1>2 DEF Cached, C!Deliver
<1>4. m \in 1 .. n /\ cHist[m] \in [CItems -> C!Rules!Entry]
  BY <1>1, <1>2, <1>3 DEF IsContentEntry
<1> DEFINE d == C!Answer(cHist[m], k)
           c == C!Arrived(cCache, k, d)
<1>5. Fits(k, d)
  BY <1>3, <1>4, ContentAnswerFits
<1>6. \A i \in CItems : k = C!DetailKey(i) /\ Unrated(i, cHist, cJobs, cCache) => d.rating = "none"
  BY <1>4, UnratedAnswer DEF Unrated
<1>7. k.of # "rows" /\ Sound(C!Server, n, k, cCache[k]) => d = C!Answer(C!Server, k)
  <2> SUFFICES ASSUME Sound(C!Server, n, k, cCache[k]) PROVE m = n
    BY DEF C!Server
  <2>1. cCache[k].asked = n
    BY <1>3 DEF Sound
  <2>2. QED
    BY <1>1, <1>2, <2>1
<1>8. C!Render(cPage, c, cLocal)
  BY <1>1
<1> HIDE DEF d
<1>9. /\ DOMAIN c = DOMAIN cCache /\ \A x \in DOMAIN cCache : x # k => c[x] = cCache[x]
      /\ c[k] = [data |-> {d}, fresh |-> TRUE, asked |-> 0, failed |-> FALSE]
  BY DEF C!Arrived
<1> HIDE DEF c
<1>10. IsContentEntry(c[k], n) /\ c[k].data = {d} /\ c[k].asked = 0
  <2>1. 0 \in 0 .. n
    BY <1>2
  <2>2. QED
    BY <1>9, <2>1 DEF IsContentEntry
<1>11. Cached(c, n)
  BY <1>2, <1>5, <1>9, <1>10 DEF Cached
<1>12. UNCHANGED <<cHist, cJobs>> /\ cActs' \in 0 .. CActs /\ cLosses' \in 0 .. CLosses
  BY CountedType DEF C!Deliver
<1>13. \A i \in CItems : k = C!DetailKey(i) /\ Unrated(i, cHist, cJobs, cCache)
                          => \A y \in c[k].data : y.rating = "none"
  BY <1>6, <1>10
<1>14. k.of # "rows" /\ Sound(C!Server, n, k, cCache[k]) => Sound(C!Server, n, k, c[k])
  <2> SUFFICES ASSUME k.of # "rows", Sound(C!Server, n, k, cCache[k]) PROVE Sound(C!Server, n, k, c[k])
    OBVIOUS
  <2>1. c[k].data = {C!Answer(C!Server, k)}
    BY <1>7, <1>10
  <2>2. QED
    BY <1>10, <2>1 DEF Sound
<1>15. QED
  BY <1>8, <1>9, <1>11, <1>12, <1>13, <1>14, ReadStep

LEMMA LoseReadStep ==
    ASSUME ContentBounds, ContentInv, cHopped' = (cHopped \/ C!Loose'), NEW k \in DOMAIN cCache, C!LoseRead(k)
    PROVE  ContentInv'
<1> DEFINE n == Len(cHist)
           c == C!Lost(cCache, k)
<1>1. n \in Nat \ {0} /\ Cached(cCache, n) /\ IsContentEntry(cCache[k], n)
  BY ContentFacts DEF Cached
<1>2. /\ C!Render(cPage, c, cLocal) /\ UNCHANGED <<cHist, cJobs, cActs>>
      /\ UNCHANGED cLosses \/ (cLosses < CLosses /\ cLosses' = cLosses + 1)
  BY DEF C!LoseRead
<1>3. cActs' \in 0 .. CActs /\ cLosses' \in 0 .. CLosses
  BY <1>2 DEF ContentBounds, ContentInv, ContentTyped
<1>4. c = [cCache EXCEPT ![k] = [cCache[k] EXCEPT !.asked = 0, !.failed = TRUE]]
  BY DEF C!Lost
<1> HIDE DEF c
<1>5. /\ DOMAIN c = DOMAIN cCache /\ \A x \in DOMAIN cCache : x # k => c[x] = cCache[x]
      /\ c[k] = [cCache[k] EXCEPT !.asked = 0, !.failed = TRUE]
  BY <1>4
<1>6. /\ IsContentEntry(c[k], n) /\ c[k].data = cCache[k].data /\ c[k].asked = 0
      /\ c[k].fresh = cCache[k].fresh
  <2> DEFINE yes == TRUE
  <2>1. yes \in BOOLEAN /\ 0 \in 0 .. n
    BY <1>1
  <2>2. c[k] = [cCache[k] EXCEPT !.asked = 0, !.failed = yes]
    BY <1>5
  <2> HIDE DEF yes
  <2>3. QED
    BY <1>1, <2>1, <2>2 DEF IsContentEntry
<1>7. Cached(c, n)
  BY <1>1, <1>5, <1>6 DEF Cached
<1>8. \A i \in CItems : k = C!DetailKey(i) /\ Unrated(i, cHist, cJobs, cCache)
                         => \A d \in c[k].data : d.rating = "none"
  BY <1>6 DEF Unrated, C!Entry
<1>9. Sound(C!Server, n, k, cCache[k]) => Sound(C!Server, n, k, c[k])
  BY <1>6 DEF Sound
<1>10. QED
  BY <1>2, <1>3, <1>5, <1>7, <1>8, <1>9, ReadStep

-----------------------------------------------------------------------------
(* Every step, and what the invariant says *)

LEMMA ContentNext ==
    ASSUME ContentBounds, ContentInv, [C!Next]_contentVars
    PROVE  ContentInv'
<1>1. CASE C!Next
  <2>1. cHopped' = (cHopped \/ C!Loose') /\ C!Step
    BY <1>1 DEF C!Next
  <2>2. CASE C!UserActs
    BY <2>1, <2>2, OpenSteps, RetryStep, TurnStep, ChangeSteps, DialogSteps, RateSteps DEF C!UserActs
  <2>3. ASSUME NEW j \in cJobs, C!Answering(j) PROVE ContentInv'
    BY <2>1, <2>3, CarryOutStep, AnswerLostSteps DEF C!Answering
  <2>4. ASSUME NEW j \in cJobs, C!Settling(j) PROVE ContentInv'
    BY <2>1, <2>4, TrackingDoneStep, TrackingRetriedStep, TrackingFailedStep, RatingSettles
       DEF C!Settling
  <2>5. ASSUME NEW k \in DOMAIN cCache, C!Deliver(k) \/ C!LoseRead(k) PROVE ContentInv'
    BY <2>1, <2>5, DeliverStep, LoseReadStep
  <2>6. QED
    BY <2>1, <2>2, <2>3, <2>4, <2>5 DEF C!Step
<1>2. CASE UNCHANGED contentVars
  <2>1. C!ActiveNow' = C!ActiveNow /\ (C!Loose' <=> C!Loose)
    BY <1>2 DEF contentVars, C!ActiveNow, C!Loose, C!Unhealed
  <2>2. ContentTyped'
    BY <1>2, <2>1 DEF contentVars, ContentInv, ContentTyped
  <2>3. NewAreUnrated(cHist, cJobs, cCache)' /\ (C!Loose => cHopped)'
    BY <1>2, <2>1 DEF contentVars, ContentInv
  <2>4. (cJobs = {} /\ ~cHopped => Healthy(cCache))'
    BY <1>2 DEF contentVars, ContentInv, Healthy, C!Server
  <2>5. QED
    BY <2>2, <2>3, <2>4 DEF ContentInv
<1>3. QED
  BY <1>1, <1>2

LEMMA ContentImply ==
    ASSUME ContentInv
    PROVE  C!TypeOK /\ C!ViewerSeesOwn
<1>1. C!TypeOK
  <2>1. \A n \in DOMAIN cHist : cHist[n] \in [CItems -> C!Rules!Entry]
    BY DEF ContentInv, ContentTyped
  <2>2. \A k \in DOMAIN cCache : /\ k.of \in {"detail", "mine", "ratings", "rows"}
                                /\ cCache[k].asked \in 0 .. Len(cHist)
    BY KeyShapes DEF ContentInv, ContentTyped, Cached, IsContentEntry
  <2>3. \A j \in cJobs : j.state \in {"sent", "done", "refused", "unconfirmed"}
    BY DEF ContentInv, ContentTyped, IsJob
  <2>4. /\ C!ActiveNow \subseteq DOMAIN cCache /\ cPage.listing \in Nat \ {0}
        /\ cActs \in 0 .. CActs /\ cLosses \in 0 .. CLosses
        /\ cLocal \in [CItems -> [status : C!Rules!Status \cup {"untracked"}, favorite : BOOLEAN]]
    BY DEF ContentInv, ContentTyped, IsContentPage, Tracked
  <2>5. QED
    BY <2>1, <2>2, <2>3, <2>4 DEF C!TypeOK
<1>2. ASSUME C!Quiet, NEW k \in DOMAIN cCache, k.of # "rows", cCache[k].fresh, C!Answered(C!Server, k)
      PROVE  C!Data(cCache, k) = C!Answer(C!Server, k)
  <2>1. Sound(C!Server, Len(cHist), k, cCache[k])
    BY <1>2 DEF ContentInv, C!Quiet, Healthy
  <2>2. cCache[k].data = {C!Answer(C!Server, k)}
    BY <1>2, <2>1 DEF Sound
  <2>3. QED
    BY <2>2 DEF C!Data, C!Entry
<1>3. ASSUME C!Quiet, C!View \in {"content", "list"}, C!AtContent(cPage),
             C!Entry(cCache, C!MineKey(cPage.item)).fresh
      PROVE  C!UserRating = C!Visible(C!Server[cPage.item]).rating
  <2> DEFINE k == C!MineKey(cPage.item)
  <2>1. k.of = "mine" /\ k.item = cPage.item
    BY KeyShapes
  <2> HIDE DEF k
  <2>2. C!Entry(cCache, k).fresh
    BY <1>3 DEF k
  <2>3. k \in DOMAIN cCache /\ cCache[k].fresh
    BY <2>2 DEF C!Entry, C!NoEntry
  <2>4. Sound(C!Server, Len(cHist), k, cCache[k]) /\ C!Answered(C!Server, k)
    BY <1>3, <2>1, <2>3 DEF ContentInv, C!Quiet, Healthy, C!Answered
  <2>5. cCache[k].data = {C!Answer(C!Server, k)}
    BY <2>3, <2>4 DEF Sound
  <2>6. C!Has(cCache, k) /\ C!Data(cCache, k) = C!Answer(C!Server, k)
    BY <2>3, <2>5 DEF C!Has, C!Data, C!Entry
  <2>7. C!Answer(C!Server, k) = C!Visible(C!Server[cPage.item]).rating
    BY <2>1 DEF C!Answer
  <2>8. QED
    BY <2>6, <2>7 DEF C!UserRating, k
<1>4. C!ActiveNow \subseteq DOMAIN cCache
  BY DEF ContentInv, ContentTyped
<1>5. C!ViewerSeesOwn
  BY <1>2, <1>3, <1>4 DEF C!ViewerSeesOwn
<1>6. QED
  BY <1>1, <1>5

\* The inductive invariant holds of every behaviour of the content page and of the rows
\* of a list, whatever is asked, lost or refused in whatever order.
THEOREM ContentInvariance == C!Spec => []ContentInv
<1>1. C!Init => ContentInv
  BY ContentStart, BoundsHold
<1>2. ContentInv /\ [C!Next]_contentVars => ContentInv'
  BY ContentNext, BoundsHold
<1>3. QED
  BY <1>1, <1>2, PTL DEF C!Spec, C!vars, contentVars

\* What the variables hold, for any items, ratings, states and bounds.
THEOREM ContentTypes == C!Spec => []C!TypeOK
<1>1. ContentInv => C!TypeOK
  BY ContentImply
<1>2. QED
  BY ContentInvariance, <1>1, PTL

\* useContentTrackingMutations, useRatingMutations: once every change made on the content
\* page or from the rows of a list has settled and no read was left that it does not restart,
\* what the content page shows as fresh of the viewer's own tracking and rating is what Core
\* keeps; no rollback undoes another change for good.
THEOREM ContentSeesOwn == C!Spec => []C!ViewerSeesOwn
<1>1. ContentInv => C!ViewerSeesOwn
  BY ContentImply
<1>2. QED
  BY ContentInvariance, <1>1, PTL
=============================================================================
