-------------------------- MODULE ProfilePageProofs --------------------------
(* Proofs about the profile page and the settings, for any contents and       *)
(* bounds.  Four parts make the invariant: what the variables hold; what the  *)
(* page on the screen may take for granted of the cache; that the overview,   *)
(* unless it was read out of view beside an edit, is one Core has had since   *)
(* the viewer's last edit; and that the copies of what Core keeps (the        *)
(* session store's, the settings' and those a saving took along to be put     *)
(* back) agree with Core as far as the saving under way lets them.            *)
EXTENDS MCPages, TLAPS

ProfileVersions == [bio : Nat, banner : PContents \cup {PNoContent}, favorites : SUBSET PContents,
                    adult : BOOLEAN, collections : BOOLEAN]
Overviews == [bio : Nat, banner : PContents \cup {PNoContent}, favorites : SUBSET PContents,
              selected : SUBSET PContents]
ProfileUsers == [bio : Nat, adult : BOOLEAN]

IsProfileKey(k) ==
    \/ k = P!OverviewKey
    \/ k = P!CollectionsKey
    \/ k.of = "tab" /\ \E d \in k.s : k.s = {d}
\* What Core answers for a key.
FitsProfile(k, d) ==
    /\ k = P!OverviewKey => d \in Overviews
    /\ k = P!CollectionsKey => d \in BOOLEAN
    /\ k.of = "tab" => d \in k.s
IsProfileEntry(e, n) ==
    /\ e = [data |-> e.data, fresh |-> e.fresh, asked |-> e.asked, failed |-> e.failed]
    /\ e.fresh \in BOOLEAN /\ e.asked \in 0 .. n /\ e.failed \in BOOLEAN
\* An entry that nothing is asked for has something, or its reading failed.
ReadingEnded(e) == (e.asked = 0 => e.data # {} \/ e.failed) /\ (e.fresh => e.data # {})
ProfileCached(c, n) ==
    \A k \in DOMAIN c : /\ IsProfileKey(k) /\ IsProfileEntry(c[k], n) /\ ReadingEnded(c[k])
                        /\ \A d \in c[k].data : FitsProfile(k, d)

\* What is being saved, and what is put back when it fails.
SavingKinds == {"edit", "preference", "collections"}
IsProfileJob(j) ==
    /\ DOMAIN j = {"kind", "value", "state", "n", "mount", "overview", "user", "was"}
    /\ j.kind \in SavingKinds /\ j.state \in {"sent", "done", "refused"}
    /\ j.n \in Nat /\ j.mount \in Nat /\ j.user \in ProfileUsers /\ j.was \in BOOLEAN
    /\ j.overview \subseteq Overviews
    /\ IF j.kind = "edit" THEN j.value.bio \in Nat /\ j.value.banner \in PContents \cup {PNoContent}
       ELSE j.value \in BOOLEAN
AreProfileJobs(js, a, m) == \A j \in js : IsProfileJob(j) /\ j.n < a /\ j.mount <= m

\* What the variables hold; a reading only fails when one is lost.
ProfileTyped ==
    /\ pHist \in Seq(ProfileVersions) /\ pHist # <<>>
    /\ ProfileCached(pCache, Len(pHist))
    /\ (\E k \in DOMAIN pCache : pCache[k].failed) => pLosses > 0
    /\ pUser \in ProfileUsers /\ pPref \in [enabled : BOOLEAN, pending : BOOLEAN]
    /\ pActs \in Nat /\ pLosses \in Nat /\ pMount \in Nat /\ AreProfileJobs(pJobs, pActs, pMount)

\* What is on the screen is in the cache, and shown as it should be.
ProfileDisplay ==
    /\ pLoaded.rows \subseteq {P!DataSearch(pLoaded.search)}
    /\ pView = "profile" =>
         P!Needed(pSearch) \subseteq DOMAIN pCache /\ P!Has(pCache, P!OverviewKey)
    /\ pView = "settings" => P!CollectionsKey \in DOMAIN pCache
    /\ P!BannerIsFavorite /\ P!RowsMatchSearch

\* The overview is as some version with Core's biography had it, and so will be the one asked for.
No(kind) == \A j \in pJobs : j.kind # kind
OverviewSound(e, h) ==
    LET bio == h[Len(h)].bio
    IN  /\ e.asked > 0 => \A n \in e.asked .. Len(h) : h[n].bio = bio
        /\ e.fresh => \A o \in e.data :
             /\ o.bio = bio
             /\ \E n \in 1 .. Len(h) : h[n].bio = bio /\ o.banner = h[n].banner
Watched ==
    /\ ~No("edit") => P!Has(pCache, P!OverviewKey)
    /\ P!Unwatched => "overview" \in pLoose
    /\ No("edit") /\ "overview" \notin pLoose =>
         OverviewSound(P!Entry(pCache, P!OverviewKey), pHist)

\* The session store's copy: Core's, but for the change under way, whose saving knows what it was.
UserIsKept ==
    /\ No("edit") /\ No("preference") => pUser = [bio |-> P!Server.bio, adult |-> P!Server.adult]
    /\ \A j \in pJobs :
         /\ j.kind = "edit" =>
              /\ pUser.bio = j.value.bio /\ pUser.adult = P!Server.adult
              /\ j.user.adult = P!Server.adult
              /\ P!Server.bio = IF j.state = "done" THEN j.value.bio ELSE j.user.bio
         /\ j.kind = "preference" =>
              /\ pUser.bio = P!Server.bio /\ j.was = pUser.adult /\ j.value # pUser.adult
              /\ P!Server.adult = IF j.state = "done" THEN j.value ELSE pUser.adult
\* The switch of the settings follows the session store, but for its own saving.
SwitchIsKept ==
    pView = "settings" /\ (\A j \in pJobs : j.kind = "preference" => j.mount # pMount) =>
        pPref.enabled = pUser.adult
\* The other preference, likewise in the cache alone.
CollectionsSound(e, h) ==
    LET v == h[Len(h)].collections
    IN  e.data \subseteq {v} /\ (e.asked > 0 => \A n \in e.asked .. Len(h) : h[n].collections = v)
CollectionsAreKept ==
    LET e == P!Entry(pCache, P!CollectionsKey)
    IN  /\ No("collections") => CollectionsSound(e, pHist)
        /\ \A j \in pJobs : j.kind = "collections" =>
             /\ e.asked = 0
             /\ IF j.state = "done" THEN P!Server.collections = j.value
                ELSE e.data \subseteq {P!Server.collections}
Copies ==
    /\ P!Overlapping => "copies" \in pLoose
    /\ "copies" \notin pLoose => UserIsKept /\ SwitchIsKept /\ CollectionsAreKept

ProfileInv == ProfileTyped /\ ProfileDisplay /\ Watched /\ Copies

-----------------------------------------------------------------------------
(* What the cache's operations keep *)

LEMMA ProfileFetched ==
    ASSUME NEW e, NEW n \in Nat, n = Len(pHist), IsProfileEntry(e, n)
    PROVE  LET f == P!Fetched(e)
           IN  /\ IsProfileEntry(f, n) /\ f.data = e.data /\ f.fresh = e.fresh
               /\ f.failed => e.failed
               /\ (f = e /\ e.asked > 0) \/ f.asked = n
               /\ ~(e.asked > 0 /\ e.data = {}) => f.asked = n
<1>1. CASE e.asked > 0 /\ e.data = {}
  BY <1>1 DEF P!Fetched
<1>2. CASE ~(e.asked > 0 /\ e.data = {})
  <2> DEFINE x == e.failed /\ e.data # {}
  <2>1. P!Fetched(e) = [data |-> e.data, fresh |-> e.fresh, asked |-> n, failed |-> x]
    BY <1>2 DEF P!Fetched, IsProfileEntry
  <2>2. x \in BOOLEAN /\ (x => e.failed)
    BY DEF IsProfileEntry
  <2> HIDE DEF x
  <2>3. QED
    BY <2>1, <2>2 DEF IsProfileEntry
<1>3. QED
  BY <1>1, <1>2

\* r has what c has, and may ask for more of it.
FollowsProfile(r, c, n) ==
    /\ DOMAIN c \subseteq DOMAIN r
    /\ \A k \in DOMAIN r :
         LET e == P!Entry(c, k)
         IN  /\ IsProfileEntry(r[k], n) /\ r[k].data = e.data /\ r[k].fresh = e.fresh
             /\ r[k].failed => e.failed
             /\ r[k].asked # n => k \in DOMAIN c /\ r[k] = c[k]

LEMMA ProfileEntryOf ==
    ASSUME NEW c, NEW n \in Nat, NEW k, \A x \in DOMAIN c : IsProfileEntry(c[x], n)
    PROVE  IsProfileEntry(P!Entry(c, k), n)
<1>1. CASE k \in DOMAIN c
  BY <1>1 DEF P!Entry
<1>2. CASE k \notin DOMAIN c
  <2>1. 0 \in 0 .. n
    OBVIOUS
  <2>2. QED
    BY <1>2, <2>1 DEF P!Entry, P!NoEntry, IsProfileEntry
<1>3. QED
  BY <1>1, <1>2

LEMMA ProfileRefetch ==
    ASSUME NEW c, NEW K, NEW n \in Nat, n = Len(pHist), \A k \in DOMAIN c : IsProfileEntry(c[k], n)
    PROVE  LET r == P!Refetch(c, K)
           IN  /\ DOMAIN r = DOMAIN c \cup K /\ FollowsProfile(r, c, n)
               /\ \A k \in K : r[k].asked = n \/ r[k].asked > 0
               /\ \A k \in K : ~(P!Entry(c, k).asked > 0 /\ P!Entry(c, k).data = {}) =>
                    r[k].asked = n
               /\ \A k \in DOMAIN c \ K : r[k] = c[k]
<1> DEFINE r == P!Refetch(c, K)
<1>1. DOMAIN r = DOMAIN c \cup K
  BY DEF P!Refetch
<1>2. ASSUME NEW k \in DOMAIN r
      PROVE  LET e == P!Entry(c, k)
             IN  /\ IsProfileEntry(r[k], n) /\ r[k].data = e.data /\ r[k].fresh = e.fresh
                 /\ r[k].failed => e.failed
                 /\ r[k].asked # n => k \in DOMAIN c /\ r[k] = c[k]
                 /\ k \in K => r[k].asked = n \/ r[k].asked > 0
                 /\ k \in K /\ ~(e.asked > 0 /\ e.data = {}) => r[k].asked = n
                 /\ k \notin K => r[k] = c[k]
  <2> DEFINE e == P!Entry(c, k)
  <2>1. IsProfileEntry(e, n)
    BY ProfileEntryOf
  <2>2. r[k] = IF k \in K THEN P!Fetched(e) ELSE c[k]
    BY DEF P!Refetch
  <2>3. (k \notin K => k \in DOMAIN c) /\ (k \in DOMAIN c => e = c[k])
    BY <1>1 DEF P!Entry
  <2>4. e.asked > 0 => k \in DOMAIN c
    BY DEF P!Entry, P!NoEntry
  <2> HIDE DEF e, r
  <2>5. CASE k \in K
    <3> DEFINE f == P!Fetched(e)
    <3>1. /\ IsProfileEntry(f, n) /\ f.data = e.data /\ f.fresh = e.fresh
          /\ f.failed => e.failed
          /\ (f = e /\ e.asked > 0) \/ f.asked = n
          /\ ~(e.asked > 0 /\ e.data = {}) => f.asked = n
      BY <2>1, ProfileFetched
    <3>2. r[k] = f
      BY <2>2, <2>5
    <3> HIDE DEF f
    <3>3. QED
      BY <2>3, <2>4, <2>5, <3>1, <3>2 DEF e
  <2>6. CASE k \notin K
    BY <2>1, <2>2, <2>3, <2>6 DEF e
  <2>7. QED
    BY <2>5, <2>6
<1> HIDE DEF r
<1>3. QED
  BY <1>1, <1>2 DEF FollowsProfile, r

LEMMA ProfileObserve ==
    ASSUME NEW c, NEW K, NEW old, NEW n \in Nat, n = Len(pHist),
           \A k \in DOMAIN c : IsProfileEntry(c[k], n)
    PROVE  LET r == P!Observe(c, K, old)
           IN  DOMAIN r = DOMAIN c \cup K /\ FollowsProfile(r, c, n)
<1> DEFINE due == {x \in K : x \notin DOMAIN c
                     \/ (P!Entry(c, x).asked = 0 /\ (old \/ ~P!Entry(c, x).fresh))}
<1>1. P!Observe(c, K, old) = P!Refetch(c, due)
  BY DEF P!Observe
<1>2. DOMAIN P!Refetch(c, due) = DOMAIN c \cup due /\ FollowsProfile(P!Refetch(c, due), c, n)
  BY ProfileRefetch
<1>3. DOMAIN c \cup due = DOMAIN c \cup K
  OBVIOUS
<1> HIDE DEF due
<1>4. QED
  BY <1>1, <1>2, <1>3

\* What is read beside c leaves what c holds of Core's, and may be asked for again or no more.
KeepsProfile(r, c, n) ==
    \A k \in {P!OverviewKey, P!CollectionsKey} :
        LET e == P!Entry(c, k)
            f == P!Entry(r, k)
        IN  f.data = e.data /\ f.fresh = e.fresh /\ f.asked \in {0, e.asked, n}

LEMMA FollowsKeeps ==
    ASSUME NEW c, NEW r, NEW n \in Nat, FollowsProfile(r, c, n)
    PROVE  KeepsProfile(r, c, n)
<1> SUFFICES ASSUME NEW k \in {P!OverviewKey, P!CollectionsKey}
             PROVE  LET e == P!Entry(c, k)
                        f == P!Entry(r, k)
                    IN  f.data = e.data /\ f.fresh = e.fresh /\ f.asked \in {0, e.asked, n}
  BY DEF KeepsProfile
<1>1. CASE k \in DOMAIN r
  <2>1. P!Entry(r, k) = r[k]
    BY <1>1 DEF P!Entry
  <2>2. k \in DOMAIN c => P!Entry(c, k) = c[k]
    BY DEF P!Entry
  <2>3. QED
    BY <1>1, <2>1, <2>2 DEF FollowsProfile
<1>2. CASE k \notin DOMAIN r
  <2>1. P!Entry(r, k) = P!NoEntry /\ P!Entry(c, k) = P!NoEntry
    BY <1>2 DEF FollowsProfile, P!Entry
  <2>2. QED
    BY <2>1 DEF P!NoEntry
<1>3. QED
  BY <1>1, <1>2

ProfileFailing(c) == \E k \in DOMAIN c : c[k].failed

LEMMA FollowsProfileCached ==
    ASSUME NEW c, NEW r, NEW n \in Nat \ {0}, FollowsProfile(r, c, n), ProfileCached(c, n),
           \A k \in DOMAIN r \ DOMAIN c : IsProfileKey(k)
    PROVE  ProfileCached(r, n) /\ (ProfileFailing(r) => ProfileFailing(c))
<1>1. ASSUME NEW k \in DOMAIN r
      PROVE  IsProfileKey(k) /\ IsProfileEntry(r[k], n) /\ ReadingEnded(r[k])
          /\ \A d \in r[k].data : FitsProfile(k, d)
  <2> DEFINE e == P!Entry(c, k)
  <2>1. /\ IsProfileEntry(r[k], n) /\ r[k].data = e.data /\ r[k].fresh = e.fresh
        /\ r[k].asked # n => k \in DOMAIN c /\ r[k] = c[k]
    BY DEF FollowsProfile
  <2>2. CASE k \in DOMAIN c
    <3>1. e = c[k] /\ ReadingEnded(c[k]) /\ IsProfileKey(k)
        /\ \A d \in c[k].data : FitsProfile(k, d)
      BY <2>2 DEF ProfileCached, P!Entry
    <3> HIDE DEF e
    <3>2. QED
      BY <2>1, <3>1 DEF ReadingEnded
  <2>3. CASE k \notin DOMAIN c
    <3>1. e.data = {} /\ e.fresh = FALSE
      BY <2>3 DEF P!Entry, P!NoEntry
    <3> HIDE DEF e
    <3>2. QED
      BY <2>1, <2>3, <3>1 DEF ReadingEnded
  <2>4. QED
    BY <2>2, <2>3
<1>2. ASSUME NEW k \in DOMAIN r, r[k].failed PROVE k \in DOMAIN c /\ c[k].failed
  BY <1>2 DEF FollowsProfile, P!Entry, P!NoEntry
<1>3. QED
  BY <1>1, <1>2 DEF ProfileCached, ProfileFailing

\* Asking for all of K, and then showing it.
LEMMA ReadCached ==
    ASSUME NEW c, NEW n \in Nat \ {0}, n = Len(pHist), ProfileCached(c, n), NEW K,
           \A k \in K : IsProfileKey(k)
    PROVE  /\ LET r == P!Refetch(c, K)
              IN  /\ ProfileCached(r, n) /\ FollowsProfile(r, c, n) /\ DOMAIN r = DOMAIN c \cup K
                  /\ ProfileFailing(r) => ProfileFailing(c)
           /\ \A old : LET r == P!Observe(c, K, old)
                       IN  /\ ProfileCached(r, n) /\ FollowsProfile(r, c, n)
                           /\ DOMAIN r = DOMAIN c \cup K
                           /\ ProfileFailing(r) => ProfileFailing(c)
<1>1. \A k \in DOMAIN c : IsProfileEntry(c[k], n)
  BY DEF ProfileCached
<1>2. DOMAIN P!Refetch(c, K) = DOMAIN c \cup K /\ FollowsProfile(P!Refetch(c, K), c, n)
  BY <1>1, ProfileRefetch
<1>3. \A old : DOMAIN P!Observe(c, K, old) = DOMAIN c \cup K
                       /\ FollowsProfile(P!Observe(c, K, old), c, n)
  BY <1>1, ProfileObserve
<1>4. QED
  BY <1>2, <1>3, FollowsProfileCached

LEMMA KeepsTwice ==
    ASSUME NEW c, NEW d, NEW r, NEW n, KeepsProfile(d, c, n), KeepsProfile(r, d, n)
    PROVE  KeepsProfile(r, c, n)
<1> SUFFICES ASSUME NEW k \in {P!OverviewKey, P!CollectionsKey}
             PROVE  LET e == P!Entry(c, k)
                        f == P!Entry(r, k)
                    IN  f.data = e.data /\ f.fresh = e.fresh /\ f.asked \in {0, e.asked, n}
  BY DEF KeepsProfile
<1>1. LET e == P!Entry(c, k)
          f == P!Entry(d, k)
      IN  f.data = e.data /\ f.fresh = e.fresh /\ f.asked \in {0, e.asked, n}
  BY DEF KeepsProfile
<1>2. LET e == P!Entry(d, k)
          f == P!Entry(r, k)
      IN  f.data = e.data /\ f.fresh = e.fresh /\ f.asked \in {0, e.asked, n}
  BY DEF KeepsProfile
<1>3. QED
  BY <1>1, <1>2

LEMMA ProfileKeyShapes ==
    /\ P!OverviewKey.of = "overview" /\ P!CollectionsKey.of = "collections"
    /\ \A s : P!TabKey(s).of = "tab" /\ P!TabKey(s).s = {P!DataSearch(s)}
    /\ IsProfileKey(P!OverviewKey) /\ IsProfileKey(P!CollectionsKey)
    /\ \A s : IsProfileKey(P!TabKey(s))
    /\ \A s : \A k \in P!Needed(s) : IsProfileKey(k)
    /\ \A s : P!OverviewKey \in P!Needed(s) /\ (s.tab # "overview" => P!TabKey(s) \in P!Needed(s))
    /\ P!OverviewKey # P!CollectionsKey
    /\ \A s : P!TabKey(s) # P!OverviewKey /\ P!TabKey(s) # P!CollectionsKey
<1>1. /\ P!OverviewKey.of = "overview" /\ P!CollectionsKey.of = "collections"
      /\ \A s : P!TabKey(s).of = "tab" /\ P!TabKey(s).s = {P!DataSearch(s)}
  BY DEF P!OverviewKey, P!CollectionsKey, P!TabKey
<1>2. IsProfileKey(P!OverviewKey) /\ IsProfileKey(P!CollectionsKey)
    /\ \A s : IsProfileKey(P!TabKey(s))
  BY <1>1 DEF IsProfileKey
<1>3. QED
  BY <1>1, <1>2 DEF P!Needed

\* r is c with d put under k.
ProfileHolds(r, c, k, d, n) ==
    /\ ProfileCached(r, n) /\ DOMAIN r = DOMAIN c \cup {k}
    /\ \A x : x # k => P!Entry(r, x) = P!Entry(c, x)
    /\ P!Entry(r, k).data = {d} /\ P!Entry(r, k).fresh = TRUE
    /\ P!Entry(r, k).asked = P!Entry(c, k).asked
    /\ ProfileFailing(r) => ProfileFailing(c)

LEMMA ProfilePut ==
    ASSUME NEW c, NEW k, NEW d, NEW n \in Nat, ProfileCached(c, n), IsProfileKey(k),
           FitsProfile(k, d)
    PROVE  ProfileHolds(P!Put(c, k, d), c, k, d, n)
<1> DEFINE r == P!Put(c, k, d)
           e == [data |-> {d}, fresh |-> TRUE, asked |-> P!Entry(c, k).asked, failed |-> FALSE]
<1>1. DOMAIN r = DOMAIN c \cup {k} /\ \A x \in DOMAIN r : r[x] = IF x = k THEN e ELSE c[x]
  BY DEF P!Put
<1>2. IsProfileEntry(P!Entry(c, k), n)
  BY ProfileEntryOf DEF ProfileCached
<1>3. IsProfileEntry(e, n) /\ e.data = {d}
  BY <1>2 DEF IsProfileEntry
<1>4. e.fresh = TRUE /\ e.failed = FALSE /\ e.asked = P!Entry(c, k).asked
  OBVIOUS
<1> HIDE DEF e, r
<1>5. ProfileCached(r, n)
  BY <1>1, <1>3 DEF ProfileCached, ReadingEnded
<1>6. ProfileFailing(r) => ProfileFailing(c)
  BY <1>1, <1>4 DEF ProfileFailing
<1>7. P!Entry(r, k) = e /\ \A x : x # k => P!Entry(r, x) = P!Entry(c, x)
  BY <1>1 DEF P!Entry
<1>8. ProfileHolds(r, c, k, d, n)
  BY <1>1, <1>3, <1>4, <1>5, <1>6, <1>7 DEF ProfileHolds
<1>9. QED
  BY <1>8 DEF r

-----------------------------------------------------------------------------
(* What is right of Core stays right while reads are asked for *)

LEMMA ProfileHist ==
    ASSUME pHist \in Seq(ProfileVersions), pHist # <<>>
    PROVE  /\ Len(pHist) \in Nat \ {0} /\ P!Server = pHist[Len(pHist)]
           /\ P!Server \in ProfileVersions
           /\ \A n \in 1 .. Len(pHist) : pHist[n] \in ProfileVersions
  BY DEF P!Server

LEMMA StillSound ==
    ASSUME NEW h, Len(h) \in Nat \ {0}, NEW e, NEW f,
           f.data = e.data, f.fresh = e.fresh, f.asked \in {0, e.asked, Len(h)}
    PROVE  /\ OverviewSound(e, h) => OverviewSound(f, h)
           /\ CollectionsSound(e, h) => CollectionsSound(f, h)
  BY DEF OverviewSound, CollectionsSound

LEMMA LaterSound ==
    ASSUME NEW h \in Seq(ProfileVersions), h # <<>>, NEW v \in ProfileVersions, NEW e,
           IsProfileEntry(e, Len(h))
    PROVE  /\ v.bio = h[Len(h)].bio /\ OverviewSound(e, h) => OverviewSound(e, Append(h, v))
           /\ v.collections = h[Len(h)].collections /\ CollectionsSound(e, h) =>
                CollectionsSound(e, Append(h, v))
<1> DEFINE n == Len(h)
           g == Append(h, v)
<1>1. /\ n \in Nat \ {0} /\ Len(g) = n + 1 /\ g[n + 1] = v
      /\ \A i \in 1 .. n : g[i] = h[i]
  OBVIOUS
<1>2. e.asked \in 0 .. n
  BY DEF IsProfileEntry
<1> HIDE DEF n, g
<1>3. ASSUME v.bio = h[n].bio, OverviewSound(e, h) PROVE OverviewSound(e, g)
  BY <1>1, <1>2, <1>3 DEF OverviewSound, n
<1>4. ASSUME v.collections = h[n].collections, CollectionsSound(e, h)
      PROVE  CollectionsSound(e, g)
  BY <1>1, <1>2, <1>4 DEF CollectionsSound, n
<1>5. QED
  BY <1>3, <1>4 DEF g, n

-----------------------------------------------------------------------------
(* What the page shows *)

BannerFits(b, o) ==
    /\ P!GetSelectedBannerMedia(o) # {} => b = P!GetSelectedBannerMedia(o)
    /\ b \subseteq o.favorites \cup {o.banner}
    /\ b = {} => o.favorites = {}

LEMMA SelectedFits ==
    ASSUME NEW o
    PROVE  P!GetSelectedBannerMedia(o) \subseteq {o.banner}
  BY DEF P!GetSelectedBannerMedia, P!Chosen

LEMMA RandomFits ==
    ASSUME NEW o, NEW b \in P!PickRandomFavoriteBanner(o)
    PROVE  BannerFits(b, o)
<1>1. CASE P!GetSelectedBannerMedia(o) # {}
  <2>1. b = P!GetSelectedBannerMedia(o)
    BY <1>1 DEF P!PickRandomFavoriteBanner
  <2>2. QED
    BY <1>1, <2>1, SelectedFits DEF BannerFits
<1>2. CASE P!GetSelectedBannerMedia(o) = {}
  <2>1. \/ o.favorites = {} /\ b = {}
        \/ \E c \in o.favorites : b = {c}
    BY <1>2 DEF P!PickRandomFavoriteBanner
  <2>2. QED
    BY <1>2, <2>1 DEF BannerFits
<1>3. QED
  BY <1>1, <1>2

LEMMA EffectFits ==
    ASSUME NEW o, NEW b \in P!BannerEffect(o)
    PROVE  BannerFits(b, o)
<1>1. CASE P!GetSelectedBannerMedia(o) # {}
  <2>1. b = P!GetSelectedBannerMedia(o)
    BY <1>1 DEF P!BannerEffect
  <2>2. QED
    BY <1>1, <2>1, SelectedFits DEF BannerFits
<1>2. CASE P!GetSelectedBannerMedia(o) = {}
  <2>1. \/ b \in P!PickRandomFavoriteBanner(o)
        \/ b = pBanner /\ pBanner # {} /\ pBanner \subseteq o.favorites
    BY <1>2 DEF P!BannerEffect, P!IsFavoriteBannerMedia
  <2>2. QED
    BY <1>2, <2>1, RandomFits DEF BannerFits
<1>3. QED
  BY <1>1, <1>2

LEMMA RowsFit ==
    ASSUME NEW c, NEW n, ProfileCached(c, n), NEW s, P!Needed(s) \subseteq DOMAIN c
    PROVE  /\ P!TabRows(c, s) \subseteq {P!DataSearch(s)}
           /\ s.tab # "overview" /\ (c[P!TabKey(s)].asked = 0 \/ P!Has(c, P!TabKey(s))) =>
                P!Rows(c, s) \subseteq {P!DataSearch(s)}
<1> DEFINE k == P!TabKey(s)
<1>1. s.tab # "overview" => /\ k \in DOMAIN c /\ P!Entry(c, k) = c[k] /\ ReadingEnded(c[k])
                            /\ \A d \in c[k].data : d = P!DataSearch(s)
  BY ProfileKeyShapes DEF ProfileCached, P!Entry, FitsProfile
<1>2. P!TabRows(c, s) \subseteq {P!DataSearch(s)}
  BY <1>1 DEF P!TabRows
<1>3. ASSUME s.tab # "overview", c[k].asked = 0 \/ P!Has(c, k)
      PROVE  P!Rows(c, s) \subseteq {P!DataSearch(s)}
  <2>1. P!Has(c, k) \/ P!Entry(c, k).failed
    BY <1>1, <1>3 DEF ReadingEnded, P!Has
  <2>2. QED
    BY <1>2, <2>1 DEF P!Rows
<1>4. QED
  BY <1>2, <1>3

\* A step that leaves a profile on the screen shows it.
LEMMA ProfileDisplayHolds ==
    ASSUME NEW n, ProfileCached(pCache', n),
           pLoaded'.rows \subseteq {P!DataSearch(pLoaded'.search)},
           pView' = "settings" => P!CollectionsKey \in DOMAIN pCache',
           pView' = "profile" => /\ P!Shown(pCache', pSearch')
                                 /\ P!Needed(pSearch') \subseteq DOMAIN pCache'
                                 /\ P!Has(pCache', P!OverviewKey)
    PROVE  ProfileDisplay'
<1>1. ASSUME pView' = "profile" PROVE P!BannerIsFavorite' /\ P!RowsMatchSearch'
  <2> DEFINE o == P!Data(pCache', P!OverviewKey)
  <2>1. pBanner' \in P!BannerEffect(o) /\ pShown' = P!Rows(pCache', pSearch')
    BY <1>1 DEF P!Shown
  <2>2. BannerFits(pBanner', o)
    <3> HIDE DEF o
    <3>1. QED
      BY <2>1, EffectFits
  <2>3. P!BannerIsFavorite'
    BY <2>2 DEF P!BannerIsFavorite, BannerFits
  <2>4. P!RowsMatchSearch'
    BY <1>1, <2>1, RowsFit DEF P!RowsMatchSearch
  <2>5. QED
    BY <2>3, <2>4
<1>2. pView' # "profile" => P!BannerIsFavorite' /\ P!RowsMatchSearch'
  BY DEF P!BannerIsFavorite, P!RowsMatchSearch
<1>3. QED
  BY <1>1, <1>2 DEF ProfileDisplay

\* A page that is mounted over the cache c, which r leads to.
LEMMA MountedHolds ==
    ASSUME NEW n \in Nat, NEW c, NEW s, ProfileCached(c, n), ProfileCached(pCache', n),
           P!Ready(c, s), P!Mounted(c, s),
           KeepsProfile(pCache', c, n), DOMAIN c \subseteq DOMAIN pCache', pSearch' = s
    PROVE  ProfileDisplay'
<1>1. P!Needed(s) \subseteq DOMAIN c /\ \A k \in P!Needed(s) : P!Has(c, k)
  BY DEF P!Ready, P!Has, P!Entry, P!NoEntry
<1>2. pView' \in {"error", "profile"} /\ pLoaded' = [search |-> s, rows |-> P!TabRows(c, s)]
  BY DEF P!Mounted
<1>3. pLoaded'.rows \subseteq {P!DataSearch(pLoaded'.search)}
  BY <1>1, <1>2, RowsFit
<1>4. P!BannerIsFavorite'
  <2> DEFINE o == P!Data(c, P!OverviewKey)
  <2>1. P!Data(pCache', P!OverviewKey) = o
    BY DEF KeepsProfile, P!Data
  <2>2. pBanner' \in P!PickRandomFavoriteBanner(o)
    BY DEF P!Mounted
  <2> HIDE DEF o
  <2>3. BannerFits(pBanner', o)
    BY <2>2, RandomFits
  <2>4. QED
    BY <2>1, <2>3 DEF P!BannerIsFavorite, BannerFits
<1>5. P!RowsMatchSearch'
  <2>1. s.tab # "overview" => P!Rows(c, s) \subseteq {P!DataSearch(s)}
    BY <1>1, RowsFit, ProfileKeyShapes
  <2>2. pShown' = P!Rows(c, s)
    BY DEF P!Mounted
  <2>3. QED
    BY <2>1, <2>2 DEF P!RowsMatchSearch
<1>6. P!Has(pCache', P!OverviewKey)
  BY <1>1, ProfileKeyShapes DEF KeepsProfile, P!Has
<1>7. QED
  BY <1>1, <1>2, <1>3, <1>4, <1>5, <1>6 DEF ProfileDisplay

-----------------------------------------------------------------------------
(* Steps that only read *)

LEMMA MixesGrow ==
    ASSUME pLoose' = pLoose \cup P!Mixes'
    PROVE  /\ P!Overlapping' => "copies" \in pLoose'
           /\ P!Unwatched' => "overview" \in pLoose'
           /\ "copies" \notin pLoose' => "copies" \notin pLoose /\ ~P!Overlapping'
           /\ "overview" \notin pLoose' => "overview" \notin pLoose
<1>1. P!Mixes' = {m \in {"copies", "overview"} :
                  IF m = "copies" THEN P!Overlapping' ELSE P!Unwatched'}
  BY DEF P!Mixes
<1>2. QED
  BY <1>1

Prefs == [enabled : BOOLEAN, pending : BOOLEAN]

LEMMA ProfileTypedHolds ==
    ASSUME ProfileTyped, pHist' = pHist, ProfileCached(pCache', Len(pHist)),
           ProfileFailing(pCache') => pLosses' > 0,
           pUser' \in ProfileUsers, pPref' \in Prefs,
           pActs' \in Nat, pActs' >= pActs, pLosses' \in Nat, pMount' \in Nat, pMount' >= pMount,
           \A j \in pJobs' : j \in pJobs \/ (IsProfileJob(j) /\ j.n < pActs' /\ j.mount <= pMount')
    PROVE  ProfileTyped'
<1>1. AreProfileJobs(pJobs', pActs', pMount')
  BY DEF ProfileTyped, AreProfileJobs, IsProfileJob
<1>2. (\E k \in DOMAIN pCache' : pCache'[k].failed) => pLosses' > 0
  BY DEF ProfileFailing
<1>3. ProfileCached(pCache', Len(pHist')) /\ pHist' \in Seq(ProfileVersions) /\ pHist' # <<>>
  BY DEF ProfileTyped
<1>4. QED
  BY <1>1, <1>2, <1>3 DEF ProfileTyped, Prefs

LEMMA ReadingHolds ==
    ASSUME ProfileInv, UNCHANGED <<pHist, pUser, pJobs>>, pLoose' = pLoose \cup P!Mixes',
           ProfileCached(pCache', Len(pHist)), ProfileFailing(pCache') => pLosses' > 0,
           KeepsProfile(pCache', pCache, Len(pHist)), pPref' \in Prefs,
           pActs' \in Nat, pActs' >= pActs, pLosses' \in Nat, pMount' \in Nat, pMount' >= pMount,
           ProfileDisplay',
           pView' = "settings" =>
             (pView = "settings" /\ pMount' = pMount /\ pPref' = pPref)
               \/ pPref'.enabled = pUser.adult
    PROVE  ProfileInv'
<1> DEFINE n == Len(pHist)
<1>1. pHist \in Seq(ProfileVersions) /\ pHist # <<>> /\ n \in Nat \ {0}
  BY ProfileHist DEF ProfileInv, ProfileTyped
<1>2. \A k \in {P!OverviewKey, P!CollectionsKey} :
         LET e == P!Entry(pCache, k)
             f == P!Entry(pCache', k)
         IN  f.data = e.data /\ f.fresh = e.fresh /\ f.asked \in {0, e.asked, n}
  BY DEF KeepsProfile
<1>3. ProfileTyped'
  BY ProfileTypedHolds DEF ProfileInv, ProfileTyped
<1>4. Watched'
  <2>1. P!Has(pCache, P!OverviewKey) => P!Has(pCache', P!OverviewKey)
    BY <1>2 DEF P!Has
  <2>2. No("edit")' <=> No("edit")
    BY DEF No
  <2>3. OverviewSound(P!Entry(pCache, P!OverviewKey), pHist) =>
            OverviewSound(P!Entry(pCache', P!OverviewKey), pHist)
    BY <1>1, <1>2, StillSound
  <2>4. (No("edit") /\ "overview" \notin pLoose =>
             OverviewSound(P!Entry(pCache, P!OverviewKey), pHist))'
    BY <2>2, <2>3, MixesGrow DEF ProfileInv, Watched
  <2>5. QED
    BY <2>1, <2>2, <2>4, MixesGrow DEF ProfileInv, Watched
<1>5. Copies'
  <2> SUFFICES ASSUME "copies" \notin pLoose'
               PROVE  UserIsKept' /\ SwitchIsKept' /\ CollectionsAreKept'
    BY MixesGrow DEF Copies
  <2>1. UserIsKept /\ SwitchIsKept /\ CollectionsAreKept /\ ~P!Overlapping'
    BY MixesGrow DEF ProfileInv, Copies
  <2>2. UserIsKept'
    BY <2>1 DEF UserIsKept, No, P!Server
  <2>3. SwitchIsKept'
    BY <2>1 DEF SwitchIsKept
  <2>4. CollectionsAreKept'
    <3> DEFINE e == P!Entry(pCache, P!CollectionsKey)
               f == P!Entry(pCache', P!CollectionsKey)
    <3>1. f.data = e.data /\ f.asked \in {0, e.asked, n}
      BY <1>2
    <3>2. CollectionsSound(e, pHist) => CollectionsSound(f, pHist)
      BY <1>1, <1>2, StillSound
    <3>3. IsProfileEntry(f, n)
      BY <1>1, ProfileEntryOf DEF ProfileCached
    <3>4. (\E j \in pJobs : j.kind = "collections") => f.asked = 0
      BY <1>1, <2>1, <3>3 DEF P!Overlapping, IsProfileEntry
    <3>5. /\ No("collections") => CollectionsSound(f, pHist)
          /\ \A j \in pJobs : j.kind = "collections" =>
               /\ f.asked = 0
               /\ IF j.state = "done" THEN P!Server.collections = j.value
                  ELSE f.data \subseteq {P!Server.collections}
      <4> HIDE DEF e, f
      <4>1. /\ No("collections") => CollectionsSound(e, pHist)
            /\ \A j \in pJobs : j.kind = "collections" =>
                 IF j.state = "done" THEN P!Server.collections = j.value
                 ELSE e.data \subseteq {P!Server.collections}
        BY <2>1 DEF CollectionsAreKept, e
      <4>2. QED
        BY <3>1, <3>2, <3>4, <4>1
    <3>6. QED
      BY <3>5 DEF CollectionsAreKept, No, P!Server
  <2>5. QED
    BY <2>2, <2>3, <2>4
<1>6. QED
  BY <1>3, <1>4, <1>5 DEF ProfileInv

LEMMA ProfileFacts ==
    ASSUME ProfileInv
    PROVE  /\ pHist \in Seq(ProfileVersions) /\ pHist # <<>> /\ Len(pHist) \in Nat \ {0}
           /\ ProfileCached(pCache, Len(pHist)) /\ (ProfileFailing(pCache) => pLosses > 0)
           /\ pActs \in Nat /\ pLosses \in Nat /\ pMount \in Nat /\ pUser \in ProfileUsers
           /\ pPref \in Prefs
           /\ \A j \in pJobs : IsProfileJob(j) /\ j.n < pActs /\ j.mount <= pMount
           /\ KeepsProfile(pCache, pCache, Len(pHist))
  BY ProfileHist DEF ProfileInv, ProfileTyped, ProfileFailing, AreProfileJobs, Prefs,
     KeepsProfile

LEMMA OpenProfileStep ==
    ASSUME ProfileInv, P!OpenProfile, pLoose' = pLoose \cup P!Mixes'
    PROVE  ProfileInv'
<1> DEFINE n == Len(pHist)
<1>1. pActs' = pActs + 1 /\ pMount' = pMount + 1 /\ UNCHANGED <<pHist, pUser, pJobs, pLosses>>
  BY DEF P!OpenProfile, P!Counted
<1>2. PICK raw \in P!Addresses, old \in BOOLEAN :
        LET s == P!Parse(raw)
            c == P!Refetch(pCache, {k \in P!Needed(s) : ~P!Has(pCache, k)})
        IN  /\ pSearch' = s /\ pPref' = [pPref EXCEPT !.pending = FALSE]
            /\ IF P!Ready(c, s)
               THEN P!Mounted(c, s)
                   /\ pCache' = IF pView' = "profile" THEN P!Observe(c, P!Needed(s), old) ELSE c
               ELSE pCache' = c /\ pView' = "loading" /\ UNCHANGED pLoaded /\ P!Still_shown
  BY DEF P!OpenProfile
<1> DEFINE s == P!Parse(raw)
           K == {k \in P!Needed(s) : ~P!Has(pCache, k)}
           c == P!Refetch(pCache, K)
<1>3. /\ pSearch' = s /\ pPref' = [pPref EXCEPT !.pending = FALSE]
      /\ \/ P!Ready(c, s) /\ P!Mounted(c, s) /\ pCache' \in {c, P!Observe(c, P!Needed(s), old)}
         \/ pCache' = c /\ pView' = "loading" /\ pLoaded' = pLoaded
  BY <1>2
<1>4. pPref' \in Prefs
  <2>1. FALSE \in BOOLEAN
    OBVIOUS
  <2>2. QED
    BY <1>3, <2>1, ProfileFacts DEF Prefs
<1> HIDE DEF s
<1>5. /\ ProfileCached(c, n) /\ FollowsProfile(c, pCache, n) /\ DOMAIN c = DOMAIN pCache \cup K
      /\ ProfileFailing(c) => ProfileFailing(pCache)
  <2>1. \A k \in K : IsProfileKey(k)
    BY ProfileKeyShapes
  <2> HIDE DEF K
  <2>2. QED
    BY <2>1, ProfileFacts, ReadCached
<1> HIDE DEF K, c
<1>6. LET r == P!Observe(c, P!Needed(s), old)
      IN  /\ ProfileCached(r, n) /\ FollowsProfile(r, c, n) /\ DOMAIN r = DOMAIN c \cup P!Needed(s)
          /\ ProfileFailing(r) => ProfileFailing(c)
  BY <1>5, ProfileFacts, ReadCached, ProfileKeyShapes
<1>7. KeepsProfile(c, pCache, n) /\ KeepsProfile(c, c, n)
    /\ KeepsProfile(P!Observe(c, P!Needed(s), old), c, n)
  <2>1. KeepsProfile(c, c, n)
    BY DEF KeepsProfile
  <2>2. QED
    BY <1>5, <1>6, <2>1, ProfileFacts, FollowsKeeps
<1>8. /\ ProfileCached(pCache', n)
      /\ (ProfileFailing(pCache') => pLosses' > 0) /\ KeepsProfile(pCache', c, n)
      /\ DOMAIN c \subseteq DOMAIN pCache' /\ KeepsProfile(pCache', pCache, n)
  <2>1. CASE pCache' = c
    BY <1>1, <1>5, <1>7, <2>1, ProfileFacts
  <2>2. CASE pCache' = P!Observe(c, P!Needed(s), old)
    BY <1>1, <1>5, <1>6, <1>7, <2>2, ProfileFacts, KeepsTwice
  <2>3. QED
    BY <1>3, <2>1, <2>2
<1>9. ProfileDisplay' /\ pView' # "settings"
  <2>1. CASE P!Ready(c, s) /\ P!Mounted(c, s)
    <3>1. pView' # "settings"
      BY <2>1 DEF P!Mounted
    <3>2. QED
      BY <1>3, <1>5, <1>8, <2>1, <3>1, ProfileFacts, MountedHolds
  <2>2. CASE pView' = "loading" /\ pLoaded' = pLoaded
    BY <1>8, <2>2, ProfileDisplayHolds DEF ProfileInv, ProfileDisplay
  <2>3. QED
    BY <1>3, <2>1, <2>2
<1>10. QED
  BY <1>1, <1>4, <1>8, <1>9, ProfileFacts, ReadingHolds

LEMMA NavigateStep ==
    ASSUME ProfileInv, NEW t, P!Navigate(t), pLoose' = pLoose \cup P!Mixes'
    PROVE  ProfileInv'
<1> DEFINE n == Len(pHist)
           s == pSearch'
           k == P!TabKey(s)
           first == s.tab # "overview" /\ ~P!Has(pCache, k) /\ P!SameDataSearch(s, pLoaded.search)
           c == IF first /\ pLoaded.rows # {}
                THEN P!Put(pCache, k, CHOOSE r \in pLoaded.rows : TRUE)
                ELSE pCache
<1>1. /\ pActs' = pActs + 1 /\ pView = "profile" /\ P!Shown(pCache', pSearch')
      /\ UNCHANGED <<pHist, pView, pMount, pLoaded, pUser, pPref, pJobs, pLosses>>
  BY DEF P!Navigate, P!Counted
<1>2. PICK old \in BOOLEAN : pCache' = P!Observe(c, P!Needed(s), old)
  BY DEF P!Navigate
<1>3. /\ ProfileCached(c, n) /\ DOMAIN pCache \subseteq DOMAIN c
      /\ (ProfileFailing(c) => ProfileFailing(pCache))
      /\ \A x \in {P!OverviewKey, P!CollectionsKey} : P!Entry(c, x) = P!Entry(pCache, x)
  <2>1. CASE c = pCache
    BY <2>1, ProfileFacts
  <2>2. CASE first /\ pLoaded.rows # {}
    <3> DEFINE d == CHOOSE r \in pLoaded.rows : TRUE
    <3>1. d \in pLoaded.rows
      BY <2>2
    <3>2. d = P!DataSearch(pLoaded.search) /\ P!DataSearch(pLoaded.search) = P!DataSearch(s)
      BY <2>2, <3>1 DEF ProfileInv, ProfileDisplay, P!SameDataSearch, P!ProfileDataSearchKey
    <3>3. c = P!Put(pCache, k, d)
      BY <2>2
    <3> HIDE DEF d, c, first
    <3>4. IsProfileKey(k) /\ FitsProfile(k, d) /\ k # P!OverviewKey /\ k # P!CollectionsKey
      BY <3>2, ProfileKeyShapes DEF FitsProfile
    <3> HIDE DEF k
    <3>5. ProfileHolds(c, pCache, k, d, n)
      BY <3>3, <3>4, ProfileFacts, ProfilePut
    <3>6. QED
      BY <3>4, <3>5 DEF ProfileHolds
  <2>3. QED
    BY <2>1, <2>2
<1> HIDE DEF c
<1>4. /\ ProfileCached(pCache', n) /\ FollowsProfile(pCache', c, n)
      /\ DOMAIN pCache' = DOMAIN c \cup P!Needed(s)
      /\ ProfileFailing(pCache') => ProfileFailing(c)
  BY <1>2, <1>3, ProfileFacts, ReadCached, ProfileKeyShapes
<1>5. KeepsProfile(pCache', c, n)
  BY <1>4, ProfileFacts, FollowsKeeps
<1>6. KeepsProfile(pCache', pCache, n)
  BY <1>3, <1>5 DEF KeepsProfile
<1>7. ProfileDisplay'
  <2>1. P!Has(pCache', P!OverviewKey)
    BY <1>1, <1>6 DEF ProfileInv, ProfileDisplay, KeepsProfile, P!Has
  <2>2. QED
    BY <1>1, <1>4, <2>1, ProfileDisplayHolds DEF ProfileInv, ProfileDisplay
<1>8. QED
  BY <1>1, <1>3, <1>4, <1>6, <1>7, ProfileFacts, ReadingHolds

LEMMA ProfileChangeSteps ==
    ASSUME ProfileInv, P!ChangeSearch \/ P!ChangeTab, pLoose' = pLoose \cup P!Mixes'
    PROVE  ProfileInv'
  BY NavigateStep DEF P!ChangeSearch, P!ChangeTab

LEMMA LoaderStep ==
    ASSUME ProfileInv, P!LoaderDone, pLoose' = pLoose \cup P!Mixes'
    PROVE  ProfileInv'
<1>1. /\ pView = "profile" /\ pLoaded' = [search |-> pSearch, rows |-> P!TabRows(pCache, pSearch)]
      /\ UNCHANGED <<pHist, pCache, pView, pMount, pSearch, pShown, pBanner,
                     pUser, pPref, pJobs, pActs, pLosses>>
  BY DEF P!LoaderDone
<1>2. pLoaded'.rows \subseteq {P!DataSearch(pLoaded'.search)}
  <2>1. P!TabRows(pCache, pSearch) \subseteq {P!DataSearch(pSearch)}
    BY <1>1, ProfileFacts, RowsFit DEF ProfileInv, ProfileDisplay
  <2>2. QED
    BY <1>1, <2>1
<1>3. ProfileDisplay'
  BY <1>1, <1>2 DEF ProfileInv, ProfileDisplay, P!BannerIsFavorite, P!RowsMatchSearch
<1>4. QED
  BY <1>1, <1>3, ProfileFacts, ReadingHolds

LEMMA ProfileRetryStep ==
    ASSUME ProfileInv, P!Retry, pLoose' = pLoose \cup P!Mixes'
    PROVE  ProfileInv'
<1> DEFINE n == Len(pHist)
<1>1. pActs' = pActs + 1 /\ UNCHANGED <<pHist, pMount, pSearch, pUser, pPref, pJobs, pLosses>>
  BY DEF P!Retry, P!Counted
<1>2. CASE pView = "error" /\ P!Ready(pCache, pSearch) /\ P!Mounted(pCache, pSearch)
    /\ UNCHANGED pCache
  <2>1. ProfileDisplay'
    BY <1>1, <1>2, ProfileFacts, MountedHolds
  <2>2. pView' # "settings"
    BY <1>2 DEF P!Mounted
  <2>3. QED
    BY <1>1, <1>2, <2>1, <2>2, ProfileFacts, ReadingHolds
<1>3. ASSUME NEW K \in SUBSET P!Needed(pSearch), pCache' = P!Refetch(pCache, K)
      PROVE  /\ ProfileCached(pCache', n) /\ DOMAIN pCache' = DOMAIN pCache \cup K

             /\ (ProfileFailing(pCache') => ProfileFailing(pCache))
             /\ KeepsProfile(pCache', pCache, n)
  <2>1. ProfileCached(pCache', n) /\ FollowsProfile(pCache', pCache, n)
      /\ DOMAIN pCache' = DOMAIN pCache \cup K
        /\ (ProfileFailing(pCache') => ProfileFailing(pCache))
    BY <1>3, ProfileFacts, ReadCached, ProfileKeyShapes
  <2>2. QED
    BY <2>1, ProfileFacts, FollowsKeeps
<1>4. CASE /\ pView' = "loading" /\ UNCHANGED pLoaded
           /\ pCache' = P!Refetch(pCache, {k \in P!Needed(pSearch) : ~P!Has(pCache, k)})
  <2> DEFINE K == {k \in P!Needed(pSearch) : ~P!Has(pCache, k)}
  <2>1. /\ ProfileCached(pCache', n) /\ DOMAIN pCache' = DOMAIN pCache \cup K
        /\ (ProfileFailing(pCache') => ProfileFailing(pCache)) /\ KeepsProfile(pCache', pCache, n)
    <3>1. K \in SUBSET P!Needed(pSearch) /\ pCache' = P!Refetch(pCache, K)
      BY <1>4
    <3> HIDE DEF K
    <3>2. QED
      BY <1>3, <3>1
  <2> HIDE DEF K
  <2>2. ProfileDisplay'
    BY <1>4, <2>1, ProfileDisplayHolds DEF ProfileInv, ProfileDisplay
  <2>3. QED
    BY <1>1, <1>4, <2>1, <2>2, ProfileFacts, ReadingHolds
<1>5. CASE /\ pView = "profile" /\ pSearch.tab # "overview"
           /\ pCache' = P!Refetch(pCache, {P!TabKey(pSearch)}) /\ UNCHANGED <<pView, pLoaded>>
           /\ P!Still_shown
  <2> DEFINE k == P!TabKey(pSearch)
  <2>1. /\ ProfileCached(pCache', n) /\ DOMAIN pCache' = DOMAIN pCache \cup {k}
        /\ (ProfileFailing(pCache') => ProfileFailing(pCache)) /\ KeepsProfile(pCache', pCache, n)
    <3>1. {k} \in SUBSET P!Needed(pSearch)
      BY <1>5, ProfileKeyShapes
    <3>2. QED
      BY <1>3, <1>5, <3>1
  <2>2. pCache'[k].asked # 0
    <3>1. \A x \in DOMAIN pCache : IsProfileEntry(pCache[x], n)
      BY ProfileFacts DEF ProfileCached
    <3>2. LET r == P!Refetch(pCache, {k})
          IN  \A x \in {k} : r[x].asked = n \/ r[x].asked > 0
      BY <3>1, ProfileFacts, ProfileRefetch
    <3>3. QED
      BY <1>5, <3>2, ProfileFacts
  <2>3. P!Data(pCache', P!OverviewKey) = P!Data(pCache, P!OverviewKey)
    BY <2>1 DEF KeepsProfile, P!Data
  <2>4. ProfileDisplay'
    <3>1. P!Has(pCache', P!OverviewKey)
      BY <1>5, <2>1 DEF ProfileInv, ProfileDisplay, KeepsProfile, P!Has
    <3>2. QED
      BY <1>1, <1>5, <2>1, <2>2, <2>3, <3>1
         DEF ProfileInv, ProfileDisplay, P!BannerIsFavorite, P!RowsMatchSearch, P!Still_shown
  <2>5. QED
    BY <1>1, <1>5, <2>1, <2>4, ProfileFacts, ReadingHolds
<1>6. QED
  BY <1>2, <1>4, <1>5 DEF P!Retry

LEMMA OpenSettingsStep ==
    ASSUME ProfileInv, P!OpenSettings, pLoose' = pLoose \cup P!Mixes'
    PROVE  ProfileInv'
<1> DEFINE n == Len(pHist)
<1>1. /\ pActs' = pActs + 1 /\ pMount' = pMount + 1 /\ pView' = "settings"
      /\ pPref' = [enabled |-> pUser.adult, pending |-> FALSE]
      /\ UNCHANGED <<pHist, pLoaded, pUser, pJobs, pLosses>>
  BY DEF P!OpenSettings, P!Counted
<1>2. PICK old \in BOOLEAN : pCache' = P!Observe(pCache, {P!CollectionsKey}, old)
  BY DEF P!OpenSettings
<1>3. /\ ProfileCached(pCache', n) /\ FollowsProfile(pCache', pCache, n)
      /\ DOMAIN pCache' = DOMAIN pCache \cup {P!CollectionsKey}
      /\ (ProfileFailing(pCache') => ProfileFailing(pCache))
  <2>1. \A k \in {P!CollectionsKey} : IsProfileKey(k)
    BY ProfileKeyShapes
  <2>2. QED
    BY <1>2, <2>1, ProfileFacts, ReadCached
<1>4. KeepsProfile(pCache', pCache, n)
  BY <1>3, ProfileFacts, FollowsKeeps
<1>5. ProfileDisplay'
  BY <1>1, <1>3, ProfileDisplayHolds DEF ProfileInv, ProfileDisplay
<1>6. pPref' \in Prefs /\ pPref'.enabled = pUser.adult
  BY <1>1, ProfileFacts DEF Prefs, ProfileUsers
<1>7. QED
  BY <1>1, <1>3, <1>4, <1>5, <1>6, ProfileFacts, ReadingHolds

LEMMA ProfileLoseReadStep ==
    ASSUME ProfileInv, NEW k \in DOMAIN pCache, P!LoseRead(k), pLoose' = pLoose \cup P!Mixes'
    PROVE  ProfileInv'
<1> DEFINE n == Len(pHist)
<1>1. /\ pLosses' = pLosses + 1 /\ pCache' = P!Lost(pCache, k) /\ pView' \in {pView, "error"}
      /\ pView' = "profile" => P!Shown(pCache', pSearch)
      /\ UNCHANGED <<pHist, pMount, pSearch, pLoaded, pUser, pPref, pJobs, pActs>>
  BY DEF P!LoseRead
<1>2. pCache' = [pCache EXCEPT ![k].asked = 0, ![k].failed = TRUE]
  BY <1>1 DEF P!Lost
<1>3. ASSUME NEW x \in DOMAIN pCache
      PROVE  /\ x # k => pCache'[x] = pCache[x]
             /\ pCache'[k].data = pCache[k].data /\ pCache'[k].fresh = pCache[k].fresh
             /\ pCache'[k].asked = 0 /\ pCache'[k].failed = TRUE
             /\ IsProfileEntry(pCache'[k], n)
  <2> DEFINE yes == TRUE
  <2>1. yes \in BOOLEAN /\ pCache' = [pCache EXCEPT ![k].asked = 0, ![k].failed = yes]
    BY <1>2
  <2>2. yes = TRUE
    OBVIOUS
  <2>3. IsProfileEntry(pCache[k], n)
    BY ProfileFacts DEF ProfileCached
  <2>4. 0 \in 0 .. n
    BY ProfileFacts
  <2> HIDE DEF yes
  <2>5. QED
    BY <2>1, <2>2, <2>3, <2>4 DEF IsProfileEntry
<1>4. DOMAIN pCache' = DOMAIN pCache
  BY <1>2
<1>5. ProfileCached(pCache', n)
  <2>1. ASSUME NEW x \in DOMAIN pCache'
        PROVE  IsProfileKey(x) /\ IsProfileEntry(pCache'[x], n) /\ ReadingEnded(pCache'[x])
            /\ \A d \in pCache'[x].data : FitsProfile(x, d)
    <3>1. IsProfileKey(x) /\ IsProfileEntry(pCache[x], n) /\ ReadingEnded(pCache[x])
        /\ \A d \in pCache[x].data : FitsProfile(x, d)
      BY <1>4, ProfileFacts DEF ProfileCached
    <3>2. CASE x = k
      BY <1>3, <3>1, <3>2 DEF ReadingEnded
    <3>3. CASE x # k
      BY <1>3, <1>4, <3>1, <3>3
    <3>4. QED
      BY <3>2, <3>3
  <2>2. QED
    BY <2>1 DEF ProfileCached
<1>6. KeepsProfile(pCache', pCache, n)
  BY <1>3, <1>4 DEF KeepsProfile, P!Entry
<1>7. ProfileDisplay'
  <2>1. pView = "profile" => P!Has(pCache', P!OverviewKey)
    BY <1>6 DEF ProfileInv, ProfileDisplay, KeepsProfile, P!Has
  <2>2. QED
    BY <1>1, <1>4, <1>5, <2>1, ProfileDisplayHolds DEF ProfileInv, ProfileDisplay
<1>8. pLosses' > 0 /\ pLosses' \in Nat
  BY <1>1, ProfileFacts
<1>9. QED
  BY <1>1, <1>5, <1>6, <1>7, <1>8, ProfileFacts, ReadingHolds

-----------------------------------------------------------------------------
(* An answer, and what others do *)

LEMMA ProfileAnswerFits ==
    ASSUME NEW v \in ProfileVersions
    PROVE  /\ \A k : IsProfileKey(k) => FitsProfile(k, P!AnswerTo(v, k))
           /\ P!AnswerTo(v, P!OverviewKey) = P!Overview(v) /\ P!Overview(v).bio = v.bio
           /\ P!Overview(v).banner = v.banner
           /\ P!AnswerTo(v, P!CollectionsKey) = v.collections
<1>1. P!AnswerTo(v, P!OverviewKey) = P!Overview(v)
    /\ P!AnswerTo(v, P!CollectionsKey) = v.collections
  BY ProfileKeyShapes DEF P!AnswerTo
<1>2. P!Overview(v) \in Overviews /\ P!Overview(v).bio = v.bio /\ P!Overview(v).banner = v.banner
  <2>1. {v.banner} \ {PNoContent} \subseteq PContents
    BY DEF ProfileVersions
  <2>2. QED
    BY <2>1 DEF P!Overview, ProfileVersions, Overviews
<1>3. ASSUME NEW k, IsProfileKey(k), k.of = "tab" PROVE P!AnswerTo(v, k) \in k.s
  <2>1. P!AnswerTo(v, k) = CHOOSE s \in k.s : TRUE
    BY <1>3 DEF P!AnswerTo
  <2>2. PICK d \in k.s : k.s = {d}
    BY <1>3, ProfileKeyShapes DEF IsProfileKey
  <2>3. QED
    BY <2>1, <2>2
<1>4. ASSUME NEW k, IsProfileKey(k) PROVE FitsProfile(k, P!AnswerTo(v, k))
  <2>1. k = P!OverviewKey => P!AnswerTo(v, k) \in Overviews
    BY <1>1, <1>2
  <2>2. k = P!CollectionsKey => P!AnswerTo(v, k) \in BOOLEAN
    BY <1>1 DEF ProfileVersions
  <2>3. QED
    BY <1>3, <1>4, <2>1, <2>2 DEF FitsProfile
<1>5. QED
  BY <1>1, <1>2, <1>4

LEMMA ProfileDeliverStep ==
    ASSUME ProfileInv, NEW k \in DOMAIN pCache, P!Deliver(k), pLoose' = pLoose \cup P!Mixes'
    PROVE  ProfileInv'
<1> DEFINE m == Len(pHist)
<1>1. /\ pCache[k].asked > 0
      /\ UNCHANGED <<pHist, pMount, pSearch, pUser, pPref, pJobs, pActs, pLosses>>
      /\ \/ pView = "profile" /\ P!Shown(pCache', pSearch) /\ UNCHANGED <<pView, pLoaded>>
         \/ pView = "loading" /\ P!Ready(pCache', pSearch) /\ P!Mounted(pCache', pSearch)
         \/ pView # "profile" /\ P!Still_shown /\ UNCHANGED <<pView, pLoaded>>
  BY DEF P!Deliver
<1>2. PICK n \in pCache[k].asked .. m : pCache' = P!Arrived(pCache, k, P!AnswerTo(pHist[n], k))
  BY DEF P!Deliver
<1> DEFINE d == P!AnswerTo(pHist[n], k)
<1>3. /\ IsProfileKey(k) /\ IsProfileEntry(pCache[k], m) /\ n \in 1 .. m
      /\ pHist[n] \in ProfileVersions /\ FitsProfile(k, d)
  <2>1. IsProfileKey(k) /\ IsProfileEntry(pCache[k], m)
    BY ProfileFacts DEF ProfileCached
  <2>2. n \in 1 .. m
    BY <1>1, <2>1, ProfileFacts DEF IsProfileEntry
  <2>3. QED
    BY <2>1, <2>2, ProfileFacts, ProfileHist, ProfileAnswerFits
<1>4. /\ DOMAIN pCache' = DOMAIN pCache
      /\ pCache'[k] = [data |-> {d}, fresh |-> TRUE, asked |-> 0, failed |-> FALSE]
      /\ \A x \in DOMAIN pCache : x # k => pCache'[x] = pCache[x]
  BY <1>2 DEF P!Arrived
<1> HIDE DEF d
<1>5. /\ pCache'[k].data = {d} /\ pCache'[k].fresh = TRUE /\ pCache'[k].asked = 0
      /\ pCache'[k].failed = FALSE /\ IsProfileEntry(pCache'[k], m)
  <2>1. 0 \in 0 .. m
    BY ProfileFacts
  <2>2. QED
    BY <1>4, <2>1 DEF IsProfileEntry
<1>6. ProfileCached(pCache', m) /\ (ProfileFailing(pCache') => ProfileFailing(pCache))
  <2>1. ASSUME NEW x \in DOMAIN pCache'
        PROVE  IsProfileKey(x) /\ IsProfileEntry(pCache'[x], m) /\ ReadingEnded(pCache'[x])
            /\ \A e \in pCache'[x].data : FitsProfile(x, e)
    <3>1. IsProfileKey(x) /\ IsProfileEntry(pCache[x], m) /\ ReadingEnded(pCache[x])
        /\ \A e \in pCache[x].data : FitsProfile(x, e)
      BY <1>4, ProfileFacts DEF ProfileCached
    <3>2. CASE x = k
      BY <1>3, <1>5, <3>1, <3>2 DEF ReadingEnded
    <3>3. CASE x # k
      BY <1>4, <3>1, <3>3
    <3>4. QED
      BY <3>2, <3>3
  <2>2. QED
    BY <1>4, <1>5, <2>1 DEF ProfileCached, ProfileFailing
<1>7. \A x : x # k => P!Entry(pCache', x) = P!Entry(pCache, x)
  BY <1>4 DEF P!Entry
<1>8. P!Entry(pCache', k) = pCache'[k] /\ P!Entry(pCache, k) = pCache[k]
  BY <1>4 DEF P!Entry
<1>9. P!Has(pCache, P!OverviewKey) => P!Has(pCache', P!OverviewKey)
  BY <1>5, <1>7, <1>8 DEF P!Has
<1>10. ProfileTyped'
  BY <1>1, <1>6, ProfileFacts, ProfileTypedHolds DEF ProfileInv
<1>11. ProfileDisplay'
  <2>1. CASE pView = "loading" /\ P!Ready(pCache', pSearch) /\ P!Mounted(pCache', pSearch)
    <3>1. KeepsProfile(pCache', pCache', m)
      BY DEF KeepsProfile
    <3>2. QED
      BY <1>1, <1>6, <2>1, <3>1, ProfileFacts, MountedHolds
  <2>2. CASE pView' = pView /\ pLoaded' = pLoaded
      /\ (pView = "profile" => P!Shown(pCache', pSearch))
    BY <1>1, <1>4, <1>6, <1>9, <2>2, ProfileDisplayHolds DEF ProfileInv, ProfileDisplay
  <2>3. QED
    BY <1>1, <2>1, <2>2
<1>12. Watched'
  <2>1. OverviewSound(P!Entry(pCache, P!OverviewKey), pHist) =>
            OverviewSound(P!Entry(pCache', P!OverviewKey), pHist)
    <3>1. CASE k = P!OverviewKey
      <4>1. d.bio = pHist[n].bio /\ d.banner = pHist[n].banner
        BY <1>3, <3>1, ProfileAnswerFits DEF d
      <4>2. QED
        BY <1>1, <1>2, <1>3, <1>5, <1>8, <3>1, <4>1 DEF OverviewSound
    <3>2. CASE k # P!OverviewKey
      BY <1>7, <3>2
    <3>3. QED
      BY <3>1, <3>2
  <2>2. No("edit")' <=> No("edit")
    BY <1>1 DEF No
  <2>3. QED
    BY <1>1, <1>9, <2>1, <2>2, MixesGrow DEF ProfileInv, Watched
<1>13. Copies'
  <2> SUFFICES ASSUME "copies" \notin pLoose'
               PROVE  UserIsKept' /\ SwitchIsKept' /\ CollectionsAreKept'
    BY MixesGrow DEF Copies
  <2>1. UserIsKept /\ SwitchIsKept /\ CollectionsAreKept /\ ~P!Overlapping
    BY MixesGrow DEF ProfileInv, Copies
  <2>2. UserIsKept'
    BY <1>1, <2>1 DEF UserIsKept, No, P!Server
  <2>3. SwitchIsKept'
    BY <1>1, <2>1 DEF SwitchIsKept, P!Mounted, P!Still_shown
  <2>4. CASE k # P!CollectionsKey
    <3>1. P!Entry(pCache', P!CollectionsKey) = P!Entry(pCache, P!CollectionsKey)
      BY <1>7, <2>4
    <3>2. CollectionsAreKept'
      BY <1>1, <2>1, <3>1 DEF CollectionsAreKept, No, P!Server
    <3>3. QED
      BY <2>2, <2>3, <3>2
  <2>5. CASE k = P!CollectionsKey
    <3>1. No("collections")
      BY <1>1, <1>8, <2>1, <2>5 DEF P!Overlapping, No
    <3>2. CollectionsSound(P!Entry(pCache, P!CollectionsKey), pHist)
      BY <2>1, <3>1 DEF CollectionsAreKept
    <3>3. d = pHist[n].collections
      BY <1>3, <2>5, ProfileAnswerFits DEF d
    <3>4. CollectionsSound(P!Entry(pCache', P!CollectionsKey), pHist)
      BY <1>1, <1>2, <1>3, <1>5, <1>8, <2>5, <3>2, <3>3 DEF CollectionsSound
    <3>5. CollectionsAreKept'
      BY <1>1, <3>1, <3>4 DEF CollectionsAreKept, No
    <3>6. QED
      BY <2>2, <2>3, <3>5
  <2>6. QED
    BY <2>4, <2>5
<1>14. QED
  BY <1>10, <1>11, <1>12, <1>13 DEF ProfileInv

LEMMA CachedLonger ==
    ASSUME NEW c, NEW n \in Nat, ProfileCached(c, n)
    PROVE  ProfileCached(c, n + 1)
  BY DEF ProfileCached, IsProfileEntry

\* Core has one version more.
LEMMA LaterTyped ==
    ASSUME ProfileTyped, NEW v \in ProfileVersions, pHist' = Append(pHist, v),
           UNCHANGED <<pCache, pUser, pPref, pMount, pActs, pLosses>>,
           AreProfileJobs(pJobs', pActs, pMount)
    PROVE  /\ ProfileTyped' /\ P!Server' = v
           /\ \A i \in 1 .. Len(pHist) : pHist'[i] = pHist[i]
<1>1. /\ pHist' \in Seq(ProfileVersions) /\ pHist' # <<>> /\ Len(pHist') = Len(pHist) + 1
      /\ pHist'[Len(pHist')] = v /\ \A i \in 1 .. Len(pHist) : pHist'[i] = pHist[i]
  BY DEF ProfileTyped
<1>2. ProfileCached(pCache', Len(pHist'))
  BY <1>1, CachedLonger DEF ProfileTyped
<1>3. QED
  BY <1>1, <1>2 DEF ProfileTyped, P!Server

LEMMA ElsewhereStep ==
    ASSUME ProfileInv, NEW c \in PContents, P!FavoriteElsewhere(c), pLoose' = pLoose \cup P!Mixes'
    PROVE  ProfileInv'
<1> DEFINE v == IF c \in P!Server.favorites
                THEN [P!Server EXCEPT !.favorites = @ \ {c},
                                     !.banner = IF @ = c THEN PNoContent ELSE @]
                ELSE [P!Server EXCEPT !.favorites = @ \cup {c}]
<1>1. /\ pHist' = Append(pHist, v)
      /\ UNCHANGED <<pCache, pView, pMount, pSearch, pLoaded, pShown, pBanner,
                     pUser, pPref, pJobs, pActs, pLosses>>
  BY DEF P!FavoriteElsewhere
<1>2. /\ v \in ProfileVersions /\ v.bio = P!Server.bio /\ v.adult = P!Server.adult
      /\ v.collections = P!Server.collections
  BY ProfileFacts, ProfileHist DEF ProfileVersions
<1> HIDE DEF v
<1>3. ProfileTyped' /\ P!Server' = v
  BY <1>1, <1>2, LaterTyped DEF ProfileInv, ProfileTyped
<1>4. /\ OverviewSound(P!Entry(pCache, P!OverviewKey), pHist) =>
           OverviewSound(P!Entry(pCache, P!OverviewKey), pHist')
      /\ CollectionsSound(P!Entry(pCache, P!CollectionsKey), pHist) =>
           CollectionsSound(P!Entry(pCache, P!CollectionsKey), pHist')
  <2>1. IsProfileEntry(P!Entry(pCache, P!OverviewKey), Len(pHist))
      /\ IsProfileEntry(P!Entry(pCache, P!CollectionsKey), Len(pHist))
    BY ProfileFacts, ProfileEntryOf DEF ProfileCached
  <2>2. QED
    BY <1>1, <1>2, <2>1, ProfileFacts, ProfileHist, LaterSound
<1>5. ProfileDisplay'
  BY <1>1 DEF ProfileInv, ProfileDisplay, P!BannerIsFavorite, P!RowsMatchSearch
<1>6. Watched'
  BY <1>1, <1>4, MixesGrow DEF ProfileInv, Watched, No
<1>7. Copies'
  <2> SUFFICES ASSUME "copies" \notin pLoose'
               PROVE  UserIsKept' /\ SwitchIsKept' /\ CollectionsAreKept'
    BY MixesGrow DEF Copies
  <2>1. UserIsKept /\ SwitchIsKept /\ CollectionsAreKept
    BY MixesGrow DEF ProfileInv, Copies
  <2>2. UserIsKept'
    BY <1>1, <1>2, <1>3, <2>1 DEF UserIsKept, No
  <2>3. SwitchIsKept'
    BY <1>1, <2>1 DEF SwitchIsKept
  <2>4. CollectionsAreKept'
    BY <1>1, <1>2, <1>3, <1>4, <2>1 DEF CollectionsAreKept, No
  <2>5. QED
    BY <2>2, <2>3, <2>4
<1>8. QED
  BY <1>3, <1>5, <1>6, <1>7 DEF ProfileInv

-----------------------------------------------------------------------------
(* What is being saved *)

LEMMA JobType ==
    ASSUME ProfileInv, NEW kind \in SavingKinds, NEW value,
           IF kind = "edit" THEN value.bio \in Nat /\ value.banner \in PContents \cup {PNoContent}
           ELSE value \in BOOLEAN
    PROVE  LET x == P!Job(kind, value)
           IN  /\ IsProfileJob(x) /\ x.n = pActs /\ x.mount = pMount /\ x.kind = kind
               /\ x.value = value
               /\ x.state = "sent" /\ x.user = pUser /\ x.was = pPref.enabled
               /\ x \notin pJobs
<1> DEFINE x == P!Job(kind, value)
<1>1. /\ x.n = pActs /\ x.mount = pMount /\ x.kind = kind /\ x.value = value
      /\ x.state = "sent" /\ x.user = pUser /\ x.was = pPref.enabled
      /\ x.overview = P!Entry(pCache, P!OverviewKey).data
      /\ DOMAIN x = {"kind", "value", "state", "n", "mount", "overview", "user", "was"}
  BY DEF P!Job
<1>2. P!Entry(pCache, P!OverviewKey).data \subseteq Overviews
  BY ProfileFacts DEF ProfileCached, P!Entry, P!NoEntry, FitsProfile
<1>3. pPref.enabled \in BOOLEAN
  BY ProfileFacts DEF Prefs
<1> HIDE DEF x
<1>4. IsProfileJob(x)
  BY <1>1, <1>2, <1>3, ProfileFacts DEF IsProfileJob
<1>5. x \notin pJobs
  BY <1>1, ProfileFacts
<1>6. QED
  BY <1>1, <1>4, <1>5 DEF x

\* One more saving, alone of its kind unless the copies are loose.
LEMMA AloneOf ==
    ASSUME ProfileInv, NEW x, x \notin pJobs, pJobs' = pJobs \cup {x}, "copies" \notin pLoose',
           pLoose' = pLoose \cup P!Mixes'
    PROVE  /\ x.kind = "collections" => No("collections")
           /\ x.kind \in {"edit", "preference"} => No("edit") /\ No("preference")
  BY MixesGrow DEF P!Overlapping, No

LEMMA UpdatePreferenceStep ==
    ASSUME ProfileInv, P!UpdatePreference, pLoose' = pLoose \cup P!Mixes'
    PROVE  ProfileInv'
<1> DEFINE y == ~pPref.enabled
           x == P!Job("preference", y)
<1>1. /\ pView = "settings" /\ pJobs' = pJobs \cup {x} /\ pActs' = pActs + 1
      /\ pPref' = [enabled |-> ~pPref.enabled, pending |-> TRUE]
      /\ UNCHANGED <<pHist, pCache, pView, pMount, pSearch, pLoaded, pShown, pBanner,
                     pUser, pLosses>>
  BY DEF P!UpdatePreference, P!Counted
<1>2. /\ IsProfileJob(x) /\ x.n = pActs /\ x.mount = pMount /\ x.kind = "preference" /\ x.value = y
      /\ x.state = "sent" /\ x.was = pPref.enabled /\ x \notin pJobs
  <2>1. "preference" \in SavingKinds /\ "preference" # "edit" /\ y \in BOOLEAN
    BY DEF SavingKinds
  <2> HIDE DEF y
  <2>2. QED
    BY <2>1, JobType
<1>3. pPref' \in Prefs /\ pPref.enabled \in BOOLEAN
  <2>1. (~pPref.enabled) \in BOOLEAN /\ TRUE \in BOOLEAN /\ pPref.enabled \in BOOLEAN
    BY ProfileFacts DEF Prefs
  <2>2. QED
    BY <1>1, <2>1 DEF Prefs
<1> HIDE DEF x
<1>4. ProfileTyped'
  BY <1>1, <1>2, <1>3, ProfileFacts, ProfileTypedHolds DEF ProfileInv
<1>5. ProfileDisplay'
  BY <1>1 DEF ProfileInv, ProfileDisplay, P!BannerIsFavorite, P!RowsMatchSearch
<1>6. Watched'
  BY <1>1, <1>2, MixesGrow DEF ProfileInv, Watched, No
<1>7. Copies'
  <2> SUFFICES ASSUME "copies" \notin pLoose'
               PROVE  UserIsKept' /\ SwitchIsKept' /\ CollectionsAreKept'
    BY MixesGrow DEF Copies
  <2>1. UserIsKept /\ SwitchIsKept /\ CollectionsAreKept
    BY MixesGrow DEF ProfileInv, Copies
  <2>2. No("edit") /\ No("preference")
    BY <1>1, <1>2, AloneOf
  <2>3. pUser = [bio |-> P!Server.bio, adult |-> P!Server.adult] /\ pPref.enabled = pUser.adult
    BY <1>1, <2>1, <2>2 DEF UserIsKept, SwitchIsKept, No
  <2>4. x.was = pUser.adult /\ x.value # pUser.adult
    BY <1>2, <1>3, <2>3
  <2>5. pUser.bio = P!Server.bio /\ pUser.adult = P!Server.adult
    BY <2>3
  <2>6. UserIsKept'
    BY <1>1, <1>2, <2>2, <2>4, <2>5 DEF UserIsKept, No, P!Server
  <2>7. SwitchIsKept'
    BY <1>1, <1>2 DEF SwitchIsKept
  <2>8. CollectionsAreKept'
    BY <1>1, <1>2, <2>1 DEF CollectionsAreKept, No, P!Server
  <2>9. QED
    BY <2>6, <2>7, <2>8
<1>8. QED
  BY <1>4, <1>5, <1>6, <1>7 DEF ProfileInv

LEMMA SaveCollectionsStep ==
    ASSUME ProfileInv, P!SaveCollections, pLoose' = pLoose \cup P!Mixes'
    PROVE  ProfileInv'
<1> DEFINE y == ~P!Data(pCache, P!CollectionsKey)
           x == P!Job("collections", y)
<1>1. /\ pView = "settings" /\ pJobs' = pJobs \cup {x} /\ pActs' = pActs + 1
      /\ P!Has(pCache, P!CollectionsKey) /\ pCache[P!CollectionsKey].asked = 0
      /\ UNCHANGED <<pHist, pCache, pView, pMount, pSearch, pLoaded, pShown, pBanner,
                     pUser, pPref, pLosses>>
  BY DEF P!SaveCollections, P!Counted
<1>2. /\ IsProfileJob(x) /\ x.n = pActs /\ x.mount = pMount /\ x.kind = "collections"
      /\ x.state = "sent" /\ x \notin pJobs
  <2>1. "collections" \in SavingKinds /\ "collections" # "edit" /\ y \in BOOLEAN
    BY DEF SavingKinds
  <2> HIDE DEF y
  <2>2. QED
    BY <2>1, JobType
<1> HIDE DEF x
<1>3. ProfileTyped'
  BY <1>1, <1>2, ProfileFacts, ProfileTypedHolds DEF ProfileInv
<1>4. ProfileDisplay'
  BY <1>1 DEF ProfileInv, ProfileDisplay, P!BannerIsFavorite, P!RowsMatchSearch
<1>5. Watched'
  BY <1>1, <1>2, MixesGrow DEF ProfileInv, Watched, No
<1>6. Copies'
  <2> SUFFICES ASSUME "copies" \notin pLoose'
               PROVE  UserIsKept' /\ SwitchIsKept' /\ CollectionsAreKept'
    BY MixesGrow DEF Copies
  <2>1. UserIsKept /\ SwitchIsKept /\ CollectionsAreKept
    BY MixesGrow DEF ProfileInv, Copies
  <2>2. No("collections")
    BY <1>1, <1>2, AloneOf
  <2>3. P!Entry(pCache, P!CollectionsKey).asked = 0
        /\ P!Entry(pCache, P!CollectionsKey).data \subseteq {P!Server.collections}
    <3>1. P!Entry(pCache, P!CollectionsKey).data \subseteq {P!Server.collections}
      BY <2>1, <2>2, ProfileFacts, ProfileHist DEF CollectionsAreKept, CollectionsSound
    <3>2. QED
      BY <1>1, <3>1 DEF P!Has, P!Entry, P!NoEntry
  <2>4. UserIsKept'
    BY <1>1, <1>2, <2>1 DEF UserIsKept, No, P!Server
  <2>5. SwitchIsKept'
    BY <1>1, <1>2, <2>1 DEF SwitchIsKept
  <2>6. CollectionsAreKept'
    BY <1>1, <1>2, <2>2, <2>3 DEF CollectionsAreKept, No, P!Server
  <2>7. QED
    BY <2>4, <2>5, <2>6
<1>7. QED
  BY <1>3, <1>4, <1>5, <1>6 DEF ProfileInv

LEMMA CancelPut ==
    ASSUME NEW d \in Overviews, NEW n \in Nat, ProfileCached(pCache, n),
           P!Has(pCache, P!OverviewKey)
    PROVE  LET r == P!Put(P!Cancel(pCache, {P!OverviewKey}), P!OverviewKey, d)
           IN  /\ ProfileCached(r, n) /\ DOMAIN r = DOMAIN pCache
               /\ (ProfileFailing(r) => ProfileFailing(pCache))
               /\ P!Has(r, P!OverviewKey)
               /\ \A x : x # P!OverviewKey => P!Entry(r, x) = P!Entry(pCache, x)
<1> DEFINE c == P!Cancel(pCache, {P!OverviewKey})
           k == P!OverviewKey
<1>1. /\ DOMAIN c = DOMAIN pCache
      /\ \A x \in DOMAIN pCache : c[x] =
           IF x \in {k} THEN [pCache[x] EXCEPT !.asked = 0] ELSE pCache[x]
  BY DEF P!Cancel
<1>2. k \in DOMAIN pCache /\ pCache[k].data # {}
  BY DEF P!Has, P!Entry, P!NoEntry
<1> HIDE DEF c, k
<1>3. ASSUME NEW x \in DOMAIN pCache
      PROVE  /\ x # k => c[x] = pCache[x]
             /\ c[x].data = pCache[x].data /\ c[x].failed = pCache[x].failed
             /\ IsProfileKey(x) /\ IsProfileEntry(c[x], n) /\ ReadingEnded(c[x])
             /\ \A e \in c[x].data : FitsProfile(x, e)
  <2>1. IsProfileKey(x) /\ IsProfileEntry(pCache[x], n) /\ ReadingEnded(pCache[x])
      /\ \A e \in pCache[x].data : FitsProfile(x, e)
    BY DEF ProfileCached
  <2>2. CASE x = k
    <3>1. c[x] = [pCache[x] EXCEPT !.asked = 0] /\ 0 \in 0 .. n
      BY <1>1, <2>2
    <3>2. c[x].data = pCache[x].data /\ c[x].failed = pCache[x].failed /\ IsProfileEntry(c[x], n)
      BY <2>1, <3>1 DEF IsProfileEntry
    <3>3. QED
      BY <1>2, <2>1, <2>2, <3>2 DEF ReadingEnded
  <2>3. CASE x # k
    BY <1>1, <2>1, <2>3
  <2>4. QED
    BY <2>2, <2>3
<1>4. ProfileCached(c, n) /\ (ProfileFailing(c) => ProfileFailing(pCache))
    /\ \A x : x # k => P!Entry(c, x) = P!Entry(pCache, x)
  BY <1>1, <1>3 DEF ProfileCached, ProfileFailing, P!Entry
<1>5. IsProfileKey(k) /\ FitsProfile(k, d)
  BY ProfileKeyShapes DEF FitsProfile, k
<1>6. ProfileHolds(P!Put(c, k, d), c, k, d, n)
  BY <1>4, <1>5, ProfilePut
<1>7. DOMAIN P!Put(c, k, d) = DOMAIN pCache /\ P!Has(P!Put(c, k, d), k)
  BY <1>1, <1>2, <1>6 DEF ProfileHolds, P!Has
<1>8. QED
  BY <1>4, <1>6, <1>7 DEF ProfileHolds, c, k

LEMMA OverviewType ==
    ASSUME ProfileInv, P!Has(pCache, P!OverviewKey)
    PROVE  P!Data(pCache, P!OverviewKey) \in Overviews
<1>1. P!Data(pCache, P!OverviewKey) \in P!Entry(pCache, P!OverviewKey).data
  BY DEF P!Has, P!Data
<1>2. QED
  BY <1>1, ProfileFacts DEF ProfileCached, P!Entry, P!NoEntry, FitsProfile

LEMMA SubmitEditStep ==
    ASSUME ProfileInv, P!SubmitEdit, pLoose' = pLoose \cup P!Mixes'
    PROVE  ProfileInv'
<1> DEFINE o == P!Data(pCache, P!OverviewKey)
<1>1. /\ pView = "profile" /\ pActs' = pActs + 1 /\ pUser' = [pUser EXCEPT !.bio = pActs + 1]
      /\ P!Shown(pCache', pSearch)
      /\ UNCHANGED <<pHist, pView, pMount, pSearch, pLoaded, pPref, pLosses>>
  BY DEF P!SubmitEdit, P!Counted
<1>2. PICK b \in P!ProfileBannerPicker(o) :
        /\ pJobs' = pJobs \cup {P!Job("edit", [bio |-> pActs + 1, banner |-> b])}
        /\ pCache' = P!Put(P!Cancel(pCache, {P!OverviewKey}), P!OverviewKey,
                          [o EXCEPT !.bio = pActs + 1, !.banner = b])
  BY DEF P!SubmitEdit
<1> DEFINE value == [bio |-> pActs + 1, banner |-> b]
           x == P!Job("edit", value)
<1>3. P!Has(pCache, P!OverviewKey) /\ o \in Overviews
  BY <1>1, OverviewType DEF ProfileInv, ProfileDisplay
<1>4. b \in PContents \cup {PNoContent} /\ pActs + 1 \in Nat
  BY <1>3, ProfileFacts DEF P!ProfileBannerPicker, Overviews
<1>5. /\ IsProfileJob(x) /\ x.n = pActs /\ x.mount = pMount /\ x.kind = "edit" /\ x.value = value
      /\ x.state = "sent" /\ x.user = pUser /\ x \notin pJobs
  <2>1. "edit" \in SavingKinds /\ value.bio \in Nat /\ value.banner \in PContents \cup {PNoContent}
    BY <1>4 DEF SavingKinds
  <2> HIDE DEF value
  <2>2. QED
    BY <2>1, JobType
<1>6. value.bio = pActs + 1
  OBVIOUS
<1>7. pJobs' = pJobs \cup {x}
  BY <1>2
<1> HIDE DEF x, value
<1>8. [o EXCEPT !.bio = pActs + 1, !.banner = b] \in Overviews
  BY <1>3, <1>4 DEF Overviews
<1> HIDE DEF o
<1>9. /\ ProfileCached(pCache', Len(pHist)) /\ DOMAIN pCache' = DOMAIN pCache
      /\ (ProfileFailing(pCache') => ProfileFailing(pCache)) /\ P!Has(pCache', P!OverviewKey)
      /\ \A k : k # P!OverviewKey => P!Entry(pCache', k) = P!Entry(pCache, k)
  BY <1>2, <1>3, <1>8, ProfileFacts, CancelPut
<1>10. pUser' \in ProfileUsers /\ pUser'.bio = pActs + 1 /\ pUser'.adult = pUser.adult
  BY <1>1, <1>4, ProfileFacts DEF ProfileUsers
<1>11. ProfileTyped'
  BY <1>1, <1>5, <1>7, <1>9, <1>10, ProfileFacts, ProfileTypedHolds DEF ProfileInv
<1>12. ProfileDisplay'
  BY <1>1, <1>9, ProfileDisplayHolds DEF ProfileInv, ProfileDisplay
<1>13. Watched'
  BY <1>5, <1>7, <1>9, MixesGrow DEF ProfileInv, Watched, No
<1>14. Copies'
  <2> SUFFICES ASSUME "copies" \notin pLoose'
               PROVE  UserIsKept' /\ SwitchIsKept' /\ CollectionsAreKept'
    BY MixesGrow DEF Copies
  <2>1. UserIsKept /\ SwitchIsKept /\ CollectionsAreKept
    BY MixesGrow DEF ProfileInv, Copies
  <2>2. No("edit") /\ No("preference")
    BY <1>5, <1>7, AloneOf
  <2>3. pUser = [bio |-> P!Server.bio, adult |-> P!Server.adult]
    BY <2>1, <2>2 DEF UserIsKept
  <2>4. pUser.bio = P!Server.bio /\ pUser.adult = P!Server.adult
    BY <2>3
  <2>5. UserIsKept'
    BY <1>1, <1>5, <1>6, <1>7, <1>10, <2>2, <2>4 DEF UserIsKept, No, P!Server
  <2>6. SwitchIsKept'
    BY <1>1 DEF SwitchIsKept
  <2>7. CollectionsAreKept'
    <3>1. P!Entry(pCache', P!CollectionsKey) = P!Entry(pCache, P!CollectionsKey)
      BY <1>9, ProfileKeyShapes
    <3>2. QED
      BY <1>1, <1>5, <1>7, <2>1, <3>1 DEF CollectionsAreKept, No, P!Server
  <2>8. QED
    BY <2>5, <2>6, <2>7
<1>15. QED
  BY <1>11, <1>12, <1>13, <1>14 DEF ProfileInv

-----------------------------------------------------------------------------
(* Core carries out or refuses what was sent *)

\* Savings of which one excludes the other.
LEMMA Alone ==
    ASSUME ProfileInv, "copies" \notin pLoose, NEW i \in pJobs, NEW j \in pJobs,
           \/ i.kind = j.kind
           \/ i.kind \in {"edit", "preference"} /\ j.kind \in {"edit", "preference"}
    PROVE  i = j
<1>1. ~P!Overlapping
  BY DEF ProfileInv, Copies
<1>2. i.kind = "edit" /\ j.kind = "preference" => {i.kind, j.kind} = {"edit", "preference"}
  OBVIOUS
<1>3. i.kind = "preference" /\ j.kind = "edit" => {i.kind, j.kind} = {"edit", "preference"}
  OBVIOUS
<1>4. i.kind = j.kind \/ {i.kind, j.kind} = {"edit", "preference"}
  BY <1>2, <1>3
<1>5. QED
  BY <1>1, <1>4 DEF P!Overlapping

\* v is Core's version after saving j.
Saves(v, j) ==
    /\ v \in ProfileVersions
    /\ IF j.kind = "edit" THEN v.bio = j.value.bio ELSE v.bio = P!Server.bio
    /\ IF j.kind = "preference" THEN v.adult = j.value ELSE v.adult = P!Server.adult
    /\ IF j.kind = "collections" THEN v.collections = j.value
       ELSE v.collections = P!Server.collections

LEMMA SavedVersion ==
    ASSUME ProfileInv, NEW j \in pJobs,
           j.kind = "edit" => j.value.banner \in P!Server.favorites \cup {PNoContent}
    PROVE  Saves(CASE j.kind = "edit" ->
                           [P!Server EXCEPT !.bio = j.value.bio, !.banner = j.value.banner]
                   [] j.kind = "preference" -> [P!Server EXCEPT !.adult = j.value]
                   [] OTHER -> [P!Server EXCEPT !.collections = j.value], j)
<1>1. IsProfileJob(j) /\ P!Server \in ProfileVersions
  BY ProfileFacts, ProfileHist
<1>2. CASE j.kind = "edit"
  <2>1. [P!Server EXCEPT !.bio = j.value.bio, !.banner = j.value.banner] \in ProfileVersions
    BY <1>1, <1>2 DEF IsProfileJob, ProfileVersions
  <2>2. QED
    BY <1>1, <1>2, <2>1 DEF Saves, ProfileVersions
<1>3. CASE j.kind = "preference"
  <2>1. [P!Server EXCEPT !.adult = j.value] \in ProfileVersions
    BY <1>1, <1>3 DEF IsProfileJob, ProfileVersions
  <2>2. QED
    BY <1>1, <1>3, <2>1 DEF Saves, ProfileVersions
<1>4. CASE j.kind = "collections"
  <2>1. [P!Server EXCEPT !.collections = j.value] \in ProfileVersions
    BY <1>1, <1>4 DEF IsProfileJob, ProfileVersions
  <2>2. QED
    BY <1>1, <1>4, <2>1 DEF Saves, ProfileVersions
<1>5. QED
  BY <1>1, <1>2, <1>3, <1>4 DEF IsProfileJob, SavingKinds

LEMMA AnsweredJob ==
    ASSUME ProfileInv, NEW j \in pJobs, NEW st \in {"done", "refused"}
    PROVE  LET k == [j EXCEPT !.state = st]
           IN  /\ IsProfileJob(k) /\ k.kind = j.kind /\ k.value = j.value /\ k.user = j.user
               /\ k.was = j.was /\ k.mount = j.mount /\ k.n = j.n /\ k.state = st
<1>1. IsProfileJob(j)
  BY ProfileFacts
<1>2. QED
  BY <1>1 DEF IsProfileJob

LEMMA ExecuteStep ==
    ASSUME ProfileInv, NEW j \in pJobs, P!Execute(j), pLoose' = pLoose \cup P!Mixes'
    PROVE  ProfileInv'
<1> DEFINE n == Len(pHist)
<1>1. /\ j.state = "sent"
      /\ UNCHANGED <<pCache, pView, pMount, pSearch, pLoaded, pShown, pBanner,
                     pUser, pPref, pActs, pLosses>>
  BY DEF P!Execute
<1>2. PICK st \in {"done", "refused"} :
        /\ pJobs' = (pJobs \ {j}) \cup {[j EXCEPT !.state = st]}
        /\ IF st = "done" THEN \E v : Saves(v, j) /\ pHist' = Append(pHist, v)
           ELSE pHist' = pHist
  BY SavedVersion DEF P!Execute, P!Replace
<1> DEFINE k == [j EXCEPT !.state = st]
<1>3. /\ IsProfileJob(k) /\ k.kind = j.kind /\ k.value = j.value /\ k.user = j.user
      /\ k.was = j.was /\ k.mount = j.mount /\ k.n = j.n /\ k.state = st
  BY AnsweredJob
<1>4. pJobs' = (pJobs \ {j}) \cup {k}
  BY <1>2
<1> HIDE DEF k
<1>5. AreProfileJobs(pJobs', pActs, pMount)
  BY <1>3, <1>4, ProfileFacts DEF AreProfileJobs
<1>6. /\ P!Server' \in ProfileVersions /\ ProfileTyped'
      /\ st = "done" => Saves(P!Server', j)
      /\ st # "done" => P!Server' = P!Server
      /\ P!Server'.bio = P!Server.bio /\ OverviewSound(P!Entry(pCache, P!OverviewKey), pHist) =>
           OverviewSound(P!Entry(pCache, P!OverviewKey), pHist')
      /\ P!Server'.collections = P!Server.collections
         /\ CollectionsSound(P!Entry(pCache, P!CollectionsKey), pHist) =>
           CollectionsSound(P!Entry(pCache, P!CollectionsKey), pHist')
  <2>1. CASE st = "done"
    <3>1. PICK v : Saves(v, j) /\ pHist' = Append(pHist, v)
      BY <1>2, <2>1
    <3>2. v \in ProfileVersions
      BY <3>1 DEF Saves
    <3>3. ProfileTyped' /\ P!Server' = v
      BY <1>1, <1>5, <3>1, <3>2, LaterTyped DEF ProfileInv
    <3>4. IsProfileEntry(P!Entry(pCache, P!OverviewKey), n)
        /\ IsProfileEntry(P!Entry(pCache, P!CollectionsKey), n)
      BY ProfileFacts, ProfileEntryOf DEF ProfileCached
    <3>5. /\ v.bio = pHist[n].bio /\ OverviewSound(P!Entry(pCache, P!OverviewKey), pHist) =>
               OverviewSound(P!Entry(pCache, P!OverviewKey), pHist')
          /\ v.collections = pHist[n].collections
             /\ CollectionsSound(P!Entry(pCache, P!CollectionsKey), pHist) =>
               CollectionsSound(P!Entry(pCache, P!CollectionsKey), pHist')
      BY <3>1, <3>2, <3>4, ProfileFacts, LaterSound
    <3>6. P!Server = pHist[n]
      BY DEF P!Server
    <3>7. QED
      BY <2>1, <3>1, <3>2, <3>3, <3>5, <3>6
  <2>2. CASE st # "done"
    <3>1. pHist' = pHist
      BY <1>2, <2>2
    <3>2. ProfileTyped'
      BY <1>1, <1>5, <3>1 DEF ProfileInv, ProfileTyped
    <3>3. QED
      BY <2>2, <3>1, <3>2, ProfileFacts, ProfileHist DEF P!Server
  <2>3. QED
    BY <2>1, <2>2
<1>7. ProfileDisplay'
  BY <1>1 DEF ProfileInv, ProfileDisplay, P!BannerIsFavorite, P!RowsMatchSearch
<1>8. \A kind : No(kind)' <=> No(kind)
  BY <1>3, <1>4 DEF No
<1>9. Watched'
  <2>1. No("edit") => P!Server'.bio = P!Server.bio
    BY <1>6 DEF No, Saves
  <2>2. QED
    BY <1>1, <1>6, <1>8, <2>1, MixesGrow DEF ProfileInv, Watched
<1>10. Copies'
  <2> SUFFICES ASSUME "copies" \notin pLoose'
               PROVE  UserIsKept' /\ SwitchIsKept' /\ CollectionsAreKept'
    BY MixesGrow DEF Copies
  <2>1. UserIsKept /\ SwitchIsKept /\ CollectionsAreKept /\ "copies" \notin pLoose
    BY MixesGrow DEF ProfileInv, Copies
  <2>2. \A i \in pJobs : \/ i.kind = j.kind
                         \/ i.kind \in {"edit", "preference"} /\ j.kind \in {"edit", "preference"}
                         => i = j
    BY <2>1, Alone
  <2>3. ASSUME No("edit"), No("preference")
        PROVE  pUser = [bio |-> P!Server'.bio, adult |-> P!Server'.adult]
    <3>1. P!Server'.bio = P!Server.bio /\ P!Server'.adult = P!Server.adult
      BY <1>6, <2>3 DEF No, Saves
    <3>2. QED
      BY <2>1, <2>3, <3>1 DEF UserIsKept
  <2>4. ASSUME NEW i \in pJobs', i.kind = "edit"
        PROVE  /\ pUser.bio = i.value.bio /\ pUser.adult = P!Server'.adult
               /\ i.user.adult = P!Server'.adult
               /\ P!Server'.bio = IF i.state = "done" THEN i.value.bio ELSE i.user.bio
    <3>1. CASE i = k
      <4>1. /\ pUser.bio = j.value.bio /\ pUser.adult = P!Server.adult
            /\ j.user.adult = P!Server.adult
            /\ P!Server.bio = j.user.bio
        BY <1>1, <1>3, <2>1, <2>4, <3>1 DEF UserIsKept
      <4>2. st = "done" => P!Server'.bio = j.value.bio /\ P!Server'.adult = P!Server.adult
        BY <1>3, <1>6, <2>4, <3>1 DEF Saves
      <4>3. QED
        BY <1>3, <1>6, <3>1, <4>1, <4>2
    <3>2. CASE i # k
      <4>1. i \in pJobs /\ i # j
        BY <1>4, <3>2
      <4>2. j.kind \notin {"edit", "preference"}
        BY <2>2, <2>4, <4>1
      <4>3. P!Server'.bio = P!Server.bio /\ P!Server'.adult = P!Server.adult
        BY <1>6, <4>2 DEF Saves
      <4>4. QED
        BY <2>1, <2>4, <4>1, <4>3 DEF UserIsKept
    <3>3. QED
      BY <3>1, <3>2
  <2>5. ASSUME NEW i \in pJobs', i.kind = "preference"
        PROVE  /\ pUser.bio = P!Server'.bio /\ i.was = pUser.adult /\ i.value # pUser.adult
               /\ P!Server'.adult = IF i.state = "done" THEN i.value ELSE pUser.adult
    <3>1. CASE i = k
      <4>1. /\ pUser.bio = P!Server.bio /\ j.was = pUser.adult /\ j.value # pUser.adult
            /\ P!Server.adult = pUser.adult
        BY <1>1, <1>3, <2>1, <2>5, <3>1 DEF UserIsKept
      <4>2. st = "done" => P!Server'.bio = P!Server.bio /\ P!Server'.adult = j.value
        BY <1>3, <1>6, <2>5, <3>1 DEF Saves
      <4>3. QED
        BY <1>3, <1>6, <3>1, <4>1, <4>2
    <3>2. CASE i # k
      <4>1. i \in pJobs /\ i # j
        BY <1>4, <3>2
      <4>2. j.kind \notin {"edit", "preference"}
        BY <2>2, <2>5, <4>1
      <4>3. P!Server'.bio = P!Server.bio /\ P!Server'.adult = P!Server.adult
        BY <1>6, <4>2 DEF Saves
      <4>4. QED
        BY <2>1, <2>5, <4>1, <4>3 DEF UserIsKept
    <3>3. QED
      BY <3>1, <3>2
  <2>6. UserIsKept'
    BY <1>1, <1>8, <2>3, <2>4, <2>5 DEF UserIsKept
  <2>7. SwitchIsKept'
    BY <1>1, <1>3, <1>4, <2>1 DEF SwitchIsKept
  <2> DEFINE e == P!Entry(pCache, P!CollectionsKey)
  <2>8. No("collections") => CollectionsSound(e, pHist')
    <3>1. No("collections") => P!Server'.collections = P!Server.collections
      BY <1>6 DEF No, Saves
    <3>2. QED
      BY <1>6, <2>1, <3>1 DEF CollectionsAreKept
  <2>9. ASSUME NEW i \in pJobs', i.kind = "collections"
        PROVE  /\ e.asked = 0
               /\ IF i.state = "done" THEN P!Server'.collections = i.value
                  ELSE e.data \subseteq {P!Server'.collections}
    <3>1. CASE i = k
      <4>1. e.asked = 0 /\ e.data \subseteq {P!Server.collections}
        BY <1>1, <1>3, <2>1, <2>9, <3>1 DEF CollectionsAreKept
      <4>2. st = "done" => P!Server'.collections = j.value
        BY <1>3, <1>6, <2>9, <3>1 DEF Saves
      <4>3. QED
        BY <1>3, <1>6, <3>1, <4>1, <4>2
    <3>2. CASE i # k
      <4>1. i \in pJobs /\ i # j
        BY <1>4, <3>2
      <4>2. P!Server'.collections = P!Server.collections
        BY <1>6, <2>2, <2>9, <4>1 DEF Saves
      <4>3. QED
        BY <2>1, <2>9, <4>1, <4>2 DEF CollectionsAreKept
    <3>3. QED
      BY <3>1, <3>2
  <2>10. CollectionsAreKept'
    BY <1>1, <1>8, <2>8, <2>9 DEF CollectionsAreKept
  <2>11. QED
    BY <2>6, <2>7, <2>10
<1>11. QED
  BY <1>6, <1>7, <1>9, <1>10 DEF ProfileInv

-----------------------------------------------------------------------------
(* The answer of what was sent *)

LEMMA SavedHolds ==
    ASSUME ProfileInv, NEW j \in pJobs, pJobs' = pJobs \ {j}, pLoose' = pLoose \cup P!Mixes',
           UNCHANGED <<pHist, pView, pMount, pSearch, pLoaded, pActs>>,
           pLosses' \in {pLosses, pLosses + 1},
           ProfileCached(pCache', Len(pHist)), ProfileFailing(pCache') => ProfileFailing(pCache),
           DOMAIN pCache \subseteq DOMAIN pCache',
           P!Has(pCache, P!OverviewKey) => P!Has(pCache', P!OverviewKey),
           pUser' \in ProfileUsers, pPref' \in Prefs,
           pView = "profile" => P!Shown(pCache', pSearch),
           LET e == P!Entry(pCache, P!OverviewKey)
               f == P!Entry(pCache', P!OverviewKey)
           IN  IF j.kind = "edit"
               THEN ~f.fresh /\ f.asked \in {e.asked, Len(pHist)}
                   /\ (pView = "profile" => f.asked = Len(pHist))
               ELSE f = e,
           "copies" \notin pLoose' => UserIsKept' /\ SwitchIsKept' /\ CollectionsAreKept'
    PROVE  ProfileInv'
<1> DEFINE n == Len(pHist)
           e == P!Entry(pCache, P!OverviewKey)
           f == P!Entry(pCache', P!OverviewKey)
<1>1. ProfileTyped'
  BY ProfileFacts, ProfileTypedHolds DEF ProfileInv
<1>2. ProfileDisplay'
  BY ProfileDisplayHolds DEF ProfileInv, ProfileDisplay
<1>3. Watched'
  <2>1. ~No("edit")' => ~No("edit")
    BY DEF No
  <2>2. ASSUME No("edit")', "overview" \notin pLoose' PROVE OverviewSound(f, pHist)
    <3>1. "overview" \notin pLoose
      BY <2>2, MixesGrow
    <3>2. CASE j.kind = "edit"
      <4>1. ~P!Unwatched
        BY <3>1 DEF ProfileInv, Watched
      <4>2. IsProfileEntry(e, n) /\ n \in Nat \ {0}
        BY ProfileFacts, ProfileEntryOf DEF ProfileCached
      <4>3. f.asked \in {0, n}
        <5>1. CASE pView = "profile"
          BY <3>2, <5>1
        <5>2. CASE pView # "profile"
          <6>1. ~(e.asked > 0)
            BY <3>2, <4>1, <5>2 DEF P!Unwatched
          <6>2. e.asked = 0
            <7>1. e.asked \in 0 .. n
              BY <4>2 DEF IsProfileEntry
            <7> HIDE DEF e
            <7>2. QED
              BY <4>2, <6>1, <7>1
          <6>3. QED
            BY <3>2, <6>2
        <5>3. QED
          BY <5>1, <5>2
      <4>4. ~f.fresh
        BY <3>2
      <4> HIDE DEF f
      <4>5. QED
        BY <4>2, <4>3, <4>4 DEF OverviewSound
    <3>3. CASE j.kind # "edit"
      <4>1. No("edit") /\ f = e
        BY <2>2, <3>3 DEF No
      <4>2. QED
        BY <3>1, <4>1 DEF ProfileInv, Watched
    <3>4. QED
      BY <3>2, <3>3
  <2>3. QED
    BY <2>1, <2>2, MixesGrow DEF ProfileInv, Watched
<1>4. Copies'
  BY MixesGrow DEF Copies
<1>5. QED
  BY <1>1, <1>2, <1>3, <1>4 DEF ProfileInv

LEMMA SettleFacts ==
    ASSUME ProfileInv, NEW j \in pJobs, P!Settle(j), pLoose' = pLoose \cup P!Mixes'
    PROVE  /\ IsProfileJob(j) /\ pJobs' = pJobs \ {j} /\ pLosses' \in {pLosses, pLosses + 1}
           /\ UNCHANGED <<pHist, pView, pMount, pSearch, pLoaded, pActs>>
           /\ pView = "profile" => P!Shown(pCache', pSearch)
           /\ LET right == "copies" \notin pLoose' => j.state = "done"
                  wrong == "copies" \notin pLoose' => j.state # "done"
              IN  \/ j.kind = "edit" /\ P!EditSaved(j) /\ right
                  \/ j.kind = "edit" /\ P!EditFailed(j) /\ wrong
                  \/ j.kind = "preference" /\ P!PreferenceSaved(j) /\ right
                  \/ j.kind = "preference" /\ P!PreferenceFailed(j) /\ wrong
                  \/ j.kind = "collections" /\ P!CollectionsSaved(j) /\ right
                  \/ j.kind = "collections" /\ UNCHANGED <<pCache, pUser, pPref>> /\ wrong
           /\ "copies" \notin pLoose' =>
                /\ UserIsKept /\ SwitchIsKept /\ CollectionsAreKept
                /\ \A i \in pJobs : \/ i.kind = j.kind
                                    \/ i.kind \in {"edit", "preference"}
                                       /\ j.kind \in {"edit", "preference"}
                                    => i = j
<1>1. IsProfileJob(j) /\ pLosses \in Nat
  BY ProfileFacts
<1>2. j.state = "done" /\ pLosses' = pLosses + 1 => "copies" \in pLoose'
  BY <1>1, MixesGrow DEF P!Overlapping
<1>3. "copies" \notin pLoose' =>
        /\ UserIsKept /\ SwitchIsKept /\ CollectionsAreKept
        /\ \A i \in pJobs : \/ i.kind = j.kind
                            \/ i.kind \in {"edit", "preference"}
                               /\ j.kind \in {"edit", "preference"}
                            => i = j
  BY Alone, MixesGrow DEF ProfileInv, Copies
<1>4. j.kind \in SavingKinds
  BY <1>1 DEF IsProfileJob
<1>5. /\ pJobs' = pJobs \ {j} /\ pLosses' \in {pLosses, pLosses + 1}
      /\ UNCHANGED <<pHist, pView, pMount, pSearch, pLoaded, pActs>>
      /\ pView = "profile" => P!Shown(pCache', pSearch)
  BY DEF P!Settle
<1>6. \/ j.state = "done" /\ j.kind = "edit" /\ P!EditSaved(j)
      \/ j.state = "done" /\ j.kind = "preference" /\ P!PreferenceSaved(j)
      \/ j.state = "done" /\ j.kind = "collections" /\ P!CollectionsSaved(j)
      \/ /\ j.state = "done" => pLosses' = pLosses + 1
         /\ \/ j.kind = "edit" /\ P!EditFailed(j)
            \/ j.kind = "preference" /\ P!PreferenceFailed(j)
            \/ j.kind = "collections" /\ UNCHANGED <<pCache, pUser, pPref>>
  BY <1>4 DEF P!Settle, SavingKinds
<1>7. QED
  BY <1>1, <1>2, <1>3, <1>5, <1>6

LEMMA PrefEffectType ==
    ASSUME NEW u \in ProfileUsers, NEW p \in Prefs
    PROVE  /\ P!PrefEffect(u, p) \in Prefs
           /\ P!PrefEffect(u, p).enabled = IF u.adult # pUser.adult THEN u.adult ELSE p.enabled
  BY DEF P!PrefEffect, Prefs, ProfileUsers

LEMMA SettleEditHolds ==
    ASSUME NEW c, NEW n \in Nat \ {0}, n = Len(pHist), ProfileCached(c, n), P!Has(c, P!OverviewKey)
    PROVE  LET r == P!SettleEdit(c)
               e == P!Entry(c, P!OverviewKey)
               f == P!Entry(r, P!OverviewKey)
           IN  /\ ProfileCached(r, n)
               /\ (ProfileFailing(r) => ProfileFailing(c)) /\ DOMAIN r = DOMAIN c
               /\ P!Has(r, P!OverviewKey)
               /\ P!Entry(r, P!CollectionsKey) = P!Entry(c, P!CollectionsKey)
               /\ ~f.fresh /\ f.asked \in {e.asked, n} /\ (pView = "profile" => f.asked = n)
<1> DEFINE k == P!OverviewKey
           s == [x \in DOMAIN c |-> IF x \in {k} THEN [c[x] EXCEPT !.fresh = FALSE] ELSE c[x]]
           K == {k} \cap P!Active \cap DOMAIN c
           r == P!Refetch(s, K)
<1>1. P!SettleEdit(c) = r
  BY DEF P!SettleEdit, P!Invalidate
<1>2. k \in DOMAIN c /\ c[k].data # {} /\ P!Entry(c, k) = c[k]
  BY DEF P!Has, P!Entry, P!NoEntry
<1>3. ASSUME NEW x \in DOMAIN c
      PROVE  /\ x # k => s[x] = c[x]
             /\ s[x].data = c[x].data /\ s[x].failed = c[x].failed /\ s[x].asked = c[x].asked
             /\ x = k => s[x].fresh = FALSE
             /\ IsProfileKey(x) /\ IsProfileEntry(s[x], n) /\ ReadingEnded(s[x])
             /\ \A d \in s[x].data : FitsProfile(x, d)
  <2> DEFINE no == FALSE
  <2>1. IsProfileKey(x) /\ IsProfileEntry(c[x], n) /\ ReadingEnded(c[x])
      /\ \A d \in c[x].data : FitsProfile(x, d)
    BY DEF ProfileCached
  <2>2. no \in BOOLEAN /\ no = FALSE
    OBVIOUS
  <2>3. s[x] = IF x = k THEN [c[x] EXCEPT !.fresh = no] ELSE c[x]
    OBVIOUS
  <2> HIDE DEF no, s, k
  <2>4. QED
    BY <2>1, <2>2, <2>3 DEF IsProfileEntry, ReadingEnded
<1>4. DOMAIN s = DOMAIN c
  OBVIOUS
<1>5. pView = "profile" => k \in K
  BY <1>2, ProfileKeyShapes DEF P!Active
<1>6. K \subseteq {k} /\ K \subseteq DOMAIN c
  OBVIOUS
<1>7. k # P!CollectionsKey
  BY ProfileKeyShapes
<1> HIDE DEF s, K
<1>8. ProfileCached(s, n) /\ (ProfileFailing(s) => ProfileFailing(c))
  BY <1>3, <1>4 DEF ProfileCached, ProfileFailing
<1>9. /\ DOMAIN r = DOMAIN s \cup K /\ FollowsProfile(r, s, n)
      /\ \A x \in K : ~(P!Entry(s, x).asked > 0 /\ P!Entry(s, x).data = {}) => r[x].asked = n
      /\ \A x \in DOMAIN s \ K : r[x] = s[x]
  <2>1. \A x \in DOMAIN s : IsProfileEntry(s[x], n)
    BY <1>8 DEF ProfileCached
  <2>2. QED
    BY <2>1, ProfileRefetch
<1> HIDE DEF r
<1>10. DOMAIN r = DOMAIN c
  BY <1>4, <1>6, <1>9
<1>11. ProfileCached(r, n) /\ (ProfileFailing(r) => ProfileFailing(s))
  BY <1>4, <1>8, <1>9, <1>10, FollowsProfileCached
<1>12. P!Entry(r, P!CollectionsKey) = P!Entry(c, P!CollectionsKey)
  BY <1>3, <1>4, <1>6, <1>7, <1>9, <1>10 DEF P!Entry
<1>13. P!Entry(r, k) = r[k] /\ P!Entry(s, k) = s[k]
  BY <1>2, <1>4, <1>10 DEF P!Entry
<1>14. r[k].data = s[k].data /\ r[k].fresh = s[k].fresh
  BY <1>2, <1>10, <1>9, <1>13 DEF FollowsProfile
<1>15. r[k].asked \in {c[k].asked, n} /\ (pView = "profile" => r[k].asked = n)
  <2>1. k \in K => r[k].asked = n
    BY <1>2, <1>3, <1>9, <1>13
  <2>2. k \notin K => r[k].asked = c[k].asked
    BY <1>2, <1>3, <1>4, <1>9
  <2>3. QED
    BY <1>5, <2>1, <2>2
<1>16. P!Has(r, k) /\ ~r[k].fresh
  BY <1>2, <1>3, <1>13, <1>14 DEF P!Has
<1>17. /\ ProfileCached(r, n) /\ (ProfileFailing(r) => ProfileFailing(c)) /\ DOMAIN r = DOMAIN c
       /\ P!Has(r, k) /\ P!Entry(r, P!CollectionsKey) = P!Entry(c, P!CollectionsKey)
       /\ ~P!Entry(r, k).fresh /\ P!Entry(r, k).asked \in {P!Entry(c, k).asked, n}
       /\ pView = "profile" => P!Entry(r, k).asked = n
  BY <1>2, <1>8, <1>10, <1>11, <1>12, <1>13, <1>15, <1>16
<1>18. QED
  BY <1>1, <1>17 DEF k

\* The profile is patched, or put back as it was, and then read again.
LEMMA EditSettles ==
    ASSUME ProfileInv, P!Has(pCache, P!OverviewKey), NEW c,
           c = pCache \/ \E d \in Overviews : c = P!Put(pCache, P!OverviewKey, d),
           pCache' = P!SettleEdit(c)
    PROVE  LET e == P!Entry(pCache, P!OverviewKey)
               f == P!Entry(pCache', P!OverviewKey)
           IN  /\ ProfileCached(pCache', Len(pHist))
               /\ (ProfileFailing(pCache') => ProfileFailing(pCache))
               /\ DOMAIN pCache \subseteq DOMAIN pCache' /\ P!Has(pCache', P!OverviewKey)
               /\ P!Entry(pCache', P!CollectionsKey) = P!Entry(pCache, P!CollectionsKey)
               /\ ~f.fresh /\ f.asked \in {e.asked, Len(pHist)}
               /\ pView = "profile" => f.asked = Len(pHist)
<1> DEFINE n == Len(pHist)
<1>1. /\ ProfileCached(c, n)
      /\ (ProfileFailing(c) => ProfileFailing(pCache)) /\ DOMAIN pCache \subseteq DOMAIN c
      /\ P!Has(c, P!OverviewKey) /\ P!Entry(c, P!CollectionsKey) = P!Entry(pCache, P!CollectionsKey)
      /\ P!Entry(c, P!OverviewKey).asked = P!Entry(pCache, P!OverviewKey).asked
  <2>1. CASE c = pCache
    BY <2>1, ProfileFacts
  <2>2. ASSUME NEW d \in Overviews, c = P!Put(pCache, P!OverviewKey, d)
        PROVE  /\ ProfileCached(c, n)
               /\ (ProfileFailing(c) => ProfileFailing(pCache)) /\ DOMAIN pCache \subseteq DOMAIN c
               /\ P!Has(c, P!OverviewKey)
               /\ P!Entry(c, P!CollectionsKey) = P!Entry(pCache, P!CollectionsKey)
               /\ P!Entry(c, P!OverviewKey).asked = P!Entry(pCache, P!OverviewKey).asked
    <3>1. FitsProfile(P!OverviewKey, d) /\ IsProfileKey(P!OverviewKey)
        /\ P!CollectionsKey # P!OverviewKey
      BY ProfileKeyShapes DEF FitsProfile
    <3>2. ProfileHolds(c, pCache, P!OverviewKey, d, n)
      BY <2>2, <3>1, ProfileFacts, ProfilePut
    <3>3. QED
      BY <3>1, <3>2 DEF ProfileHolds, P!Has
  <2>3. QED
    BY <2>1, <2>2
<1>2. QED
  BY <1>1, ProfileFacts, SettleEditHolds

LEMMA EditSavedStep ==
    ASSUME ProfileInv, NEW j \in pJobs, P!Settle(j), j.kind = "edit", P!EditSaved(j),
           "copies" \notin pLoose' => j.state = "done", pLoose' = pLoose \cup P!Mixes'
    PROVE  ProfileInv'
<1> DEFINE o == P!Data(pCache, P!OverviewKey)
           saved == [o EXCEPT !.bio = j.value.bio, !.banner = j.value.banner,
                              !.selected = o.favorites \cap {j.value.banner}]
           c == P!Patch(pCache, P!OverviewKey, saved)
<1>1. pCache' = P!SettleEdit(c) /\ pUser' = [pUser EXCEPT !.bio = j.value.bio] /\ pPref' = pPref
  BY DEF P!EditSaved
<1>2. P!Has(pCache, P!OverviewKey) /\ o \in Overviews /\ IsProfileJob(j)
  BY OverviewType, ProfileFacts DEF ProfileInv, Watched, No
<1>3. saved \in Overviews /\ c = P!Put(pCache, P!OverviewKey, saved)
  <2>1. o.favorites \cap {j.value.banner} \subseteq PContents
    BY <1>2 DEF Overviews
  <2>2. saved \in Overviews
    BY <1>2, <2>1 DEF IsProfileJob, Overviews
  <2>3. QED
    BY <1>2, <2>2 DEF P!Patch
<1> HIDE DEF saved, c
<1>4. LET e == P!Entry(pCache, P!OverviewKey)
          f == P!Entry(pCache', P!OverviewKey)
      IN  /\ ProfileCached(pCache', Len(pHist))
          /\ (ProfileFailing(pCache') => ProfileFailing(pCache))
          /\ DOMAIN pCache \subseteq DOMAIN pCache' /\ P!Has(pCache', P!OverviewKey)
          /\ P!Entry(pCache', P!CollectionsKey) = P!Entry(pCache, P!CollectionsKey)
          /\ ~f.fresh /\ f.asked \in {e.asked, Len(pHist)}
          /\ pView = "profile" => f.asked = Len(pHist)
  BY <1>1, <1>2, <1>3, EditSettles
<1>5. pUser' \in ProfileUsers /\ pUser'.bio = j.value.bio /\ pUser'.adult = pUser.adult
  BY <1>1, <1>2, ProfileFacts DEF IsProfileJob, ProfileUsers
<1>6. ASSUME "copies" \notin pLoose' PROVE UserIsKept' /\ SwitchIsKept' /\ CollectionsAreKept'
  <2>1. /\ UserIsKept /\ SwitchIsKept /\ CollectionsAreKept /\ j.state = "done"
        /\ \A i \in pJobs : i.kind \in {"edit", "preference"} => i = j
        /\ pJobs' = pJobs \ {j} /\ UNCHANGED <<pHist, pView, pMount>>
    BY <1>6, SettleFacts
  <2>2. pUser.adult = P!Server.adult /\ P!Server.bio = j.value.bio /\ P!Server' = P!Server
    BY <2>1 DEF UserIsKept, P!Server
  <2>3. pUser' = [bio |-> P!Server.bio, adult |-> P!Server.adult]
    BY <1>5, <2>2 DEF ProfileUsers
  <2>4. UserIsKept'
    BY <2>1, <2>2, <2>3 DEF UserIsKept
  <2>5. SwitchIsKept'
    BY <1>1, <1>5, <2>1 DEF SwitchIsKept
  <2>6. CollectionsAreKept'
    BY <1>4, <2>1, <2>2 DEF CollectionsAreKept, No
  <2>7. QED
    BY <2>4, <2>5, <2>6
<1>7. QED
  BY <1>1, <1>4, <1>5, <1>6, SettleFacts, ProfileFacts, SavedHolds

LEMMA EditFailedStep ==
    ASSUME ProfileInv, NEW j \in pJobs, P!Settle(j), j.kind = "edit", P!EditFailed(j),
           "copies" \notin pLoose' => j.state # "done", pLoose' = pLoose \cup P!Mixes'
    PROVE  ProfileInv'
<1> DEFINE d == CHOOSE o \in j.overview : TRUE
           c == IF j.overview = {} THEN pCache ELSE P!Put(pCache, P!OverviewKey, d)
<1>1. pCache' = P!SettleEdit(c) /\ pUser' = j.user /\ pPref' = P!PrefEffect(j.user, pPref)
  BY DEF P!EditFailed
<1>2. P!Has(pCache, P!OverviewKey) /\ IsProfileJob(j)
  BY ProfileFacts DEF ProfileInv, Watched, No
<1>3. c = pCache \/ \E x \in Overviews : c = P!Put(pCache, P!OverviewKey, x)
  BY <1>2 DEF IsProfileJob
<1> HIDE DEF c
<1>4. LET e == P!Entry(pCache, P!OverviewKey)
          f == P!Entry(pCache', P!OverviewKey)
      IN  /\ ProfileCached(pCache', Len(pHist))
          /\ (ProfileFailing(pCache') => ProfileFailing(pCache))
          /\ DOMAIN pCache \subseteq DOMAIN pCache' /\ P!Has(pCache', P!OverviewKey)
          /\ P!Entry(pCache', P!CollectionsKey) = P!Entry(pCache, P!CollectionsKey)
          /\ ~f.fresh /\ f.asked \in {e.asked, Len(pHist)}
          /\ pView = "profile" => f.asked = Len(pHist)
  BY <1>1, <1>2, <1>3, EditSettles
<1>5. /\ pUser' \in ProfileUsers /\ pPref' \in Prefs
      /\ pPref'.enabled = IF pUser'.adult # pUser.adult THEN pUser'.adult ELSE pPref.enabled
  BY <1>1, <1>2, ProfileFacts, PrefEffectType DEF IsProfileJob
<1>6. ASSUME "copies" \notin pLoose' PROVE UserIsKept' /\ SwitchIsKept' /\ CollectionsAreKept'
  <2>1. /\ UserIsKept /\ SwitchIsKept /\ CollectionsAreKept /\ j.state # "done"
        /\ \A i \in pJobs : i.kind \in {"edit", "preference"} => i = j
        /\ pJobs' = pJobs \ {j} /\ UNCHANGED <<pHist, pView, pMount>>
    BY <1>6, SettleFacts
  <2>2. /\ pUser.adult = P!Server.adult /\ pUser'.bio = P!Server.bio
        /\ pUser'.adult = P!Server.adult
        /\ P!Server' = P!Server
    BY <1>1, <2>1 DEF UserIsKept, P!Server
  <2>3. pUser' = [bio |-> P!Server.bio, adult |-> P!Server.adult]
    BY <1>5, <2>2 DEF ProfileUsers
  <2>4. UserIsKept'
    BY <2>1, <2>2, <2>3 DEF UserIsKept
  <2>5. SwitchIsKept'
    BY <1>5, <2>1, <2>2 DEF SwitchIsKept
  <2>6. CollectionsAreKept'
    BY <1>4, <2>1, <2>2 DEF CollectionsAreKept, No
  <2>7. QED
    BY <2>4, <2>5, <2>6
<1>7. QED
  BY <1>1, <1>4, <1>5, <1>6, SettleFacts, ProfileFacts, SavedHolds

LEMMA PreferenceSavedStep ==
    ASSUME ProfileInv, NEW j \in pJobs, P!Settle(j), j.kind = "preference", P!PreferenceSaved(j),
           "copies" \notin pLoose' => j.state = "done", pLoose' = pLoose \cup P!Mixes'
    PROVE  ProfileInv'
<1> DEFINE p == P!PrefEffect(pUser', pPref)
           q == IF j.mount = pMount THEN FALSE ELSE p.pending
<1>1. /\ pUser' = [bio |-> P!Server.bio, adult |-> j.value] /\ pCache' = pCache
      /\ pPref' = [p EXCEPT !.pending = q]
  BY DEF P!PreferenceSaved
<1>2. IsProfileJob(j) /\ j.value \in BOOLEAN /\ P!Server \in ProfileVersions
  BY ProfileFacts, ProfileHist DEF IsProfileJob
<1>3. pUser' \in ProfileUsers /\ pUser'.bio = P!Server.bio /\ pUser'.adult = j.value
  BY <1>1, <1>2 DEF ProfileUsers, ProfileVersions
<1>4. p \in Prefs /\ p.enabled = IF pUser'.adult # pUser.adult THEN pUser'.adult ELSE pPref.enabled
  BY <1>3, ProfileFacts, PrefEffectType
<1>5. q \in BOOLEAN
  BY <1>4 DEF Prefs
<1> HIDE DEF p, q
<1>6. pPref' \in Prefs /\ pPref'.enabled = p.enabled
  BY <1>1, <1>4, <1>5 DEF Prefs
<1>7. ASSUME "copies" \notin pLoose' PROVE UserIsKept' /\ SwitchIsKept' /\ CollectionsAreKept'
  <2>1. /\ UserIsKept /\ SwitchIsKept /\ CollectionsAreKept /\ j.state = "done"
        /\ \A i \in pJobs : i.kind \in {"edit", "preference"} => i = j
        /\ pJobs' = pJobs \ {j} /\ UNCHANGED <<pHist, pView, pMount>>
    BY <1>7, SettleFacts
  <2>2. P!Server.adult = j.value /\ j.value # pUser.adult /\ P!Server' = P!Server
    BY <2>1 DEF UserIsKept, P!Server
  <2>3. UserIsKept'
    BY <1>1, <2>1, <2>2 DEF UserIsKept
  <2>4. SwitchIsKept'
    BY <1>3, <1>4, <1>6, <2>2 DEF SwitchIsKept
  <2>5. CollectionsAreKept'
    BY <1>1, <2>1, <2>2 DEF CollectionsAreKept, No
  <2>6. QED
    BY <2>3, <2>4, <2>5
<1>8. QED
  BY <1>1, <1>3, <1>6, <1>7, SettleFacts, ProfileFacts, SavedHolds

LEMMA PreferenceFailedStep ==
    ASSUME ProfileInv, NEW j \in pJobs, P!Settle(j), j.kind = "preference", P!PreferenceFailed(j),
           "copies" \notin pLoose' => j.state # "done", pLoose' = pLoose \cup P!Mixes'
    PROVE  ProfileInv'
<1>1. /\ pCache' = pCache /\ pUser' = pUser
      /\ pPref' = IF j.mount = pMount THEN [enabled |-> j.was, pending |-> FALSE] ELSE pPref
  BY DEF P!PreferenceFailed
<1>2. IsProfileJob(j)
  BY ProfileFacts
<1>3. pPref' \in Prefs /\ pPref'.enabled = IF j.mount = pMount THEN j.was ELSE pPref.enabled
  <2>1. FALSE \in BOOLEAN
    OBVIOUS
  <2>2. QED
    BY <1>1, <1>2, <2>1, ProfileFacts DEF IsProfileJob, Prefs
<1>4. ASSUME "copies" \notin pLoose' PROVE UserIsKept' /\ SwitchIsKept' /\ CollectionsAreKept'
  <2>1. /\ UserIsKept /\ SwitchIsKept /\ CollectionsAreKept /\ j.state # "done"
        /\ \A i \in pJobs : i.kind \in {"edit", "preference"} => i = j
        /\ pJobs' = pJobs \ {j} /\ UNCHANGED <<pHist, pView, pMount>>
    BY <1>4, SettleFacts
  <2>2. /\ P!Server.adult = pUser.adult /\ pUser.bio = P!Server.bio /\ j.was = pUser.adult
        /\ P!Server' = P!Server
    BY <2>1 DEF UserIsKept, P!Server
  <2>3. pUser' = [bio |-> P!Server.bio, adult |-> P!Server.adult]
    BY <1>1, <2>2, ProfileFacts DEF ProfileUsers
  <2>4. UserIsKept'
    BY <2>1, <2>2, <2>3 DEF UserIsKept
  <2>5. SwitchIsKept'
    BY <1>1, <1>3, <2>1, <2>2 DEF SwitchIsKept
  <2>6. CollectionsAreKept'
    BY <1>1, <2>1, <2>2 DEF CollectionsAreKept, No
  <2>7. QED
    BY <2>4, <2>5, <2>6
<1>5. QED
  BY <1>1, <1>3, <1>4, SettleFacts, ProfileFacts, SavedHolds

LEMMA CollectionsStep ==
    ASSUME ProfileInv, NEW j \in pJobs, P!Settle(j), j.kind = "collections",
           UNCHANGED <<pUser, pPref>>,
           \/ pCache' = P!Put(pCache, P!CollectionsKey, j.value)
              /\ ("copies" \notin pLoose' => j.state = "done")
           \/ pCache' = pCache /\ ("copies" \notin pLoose' => j.state # "done"),
           pLoose' = pLoose \cup P!Mixes'
    PROVE  ProfileInv'
<1> DEFINE n == Len(pHist)
           e == P!Entry(pCache, P!CollectionsKey)
           f == P!Entry(pCache', P!CollectionsKey)
<1>1. IsProfileJob(j) /\ j.value \in BOOLEAN
  BY ProfileFacts DEF IsProfileJob
<1>2. pCache' = P!Put(pCache, P!CollectionsKey, j.value) =>
          ProfileHolds(pCache', pCache, P!CollectionsKey, j.value, n)
  <2>1. FitsProfile(P!CollectionsKey, j.value) /\ IsProfileKey(P!CollectionsKey)
    BY <1>1, ProfileKeyShapes DEF FitsProfile
  <2>2. QED
    BY <2>1, ProfileFacts, ProfilePut
<1>3. /\ ProfileCached(pCache', n)

      /\ (ProfileFailing(pCache') => ProfileFailing(pCache))
      /\ DOMAIN pCache \subseteq DOMAIN pCache'
      /\ P!Entry(pCache', P!OverviewKey) = P!Entry(pCache, P!OverviewKey)
  BY <1>2, ProfileFacts, ProfileKeyShapes DEF ProfileHolds
<1>4. ASSUME "copies" \notin pLoose' PROVE UserIsKept' /\ SwitchIsKept' /\ CollectionsAreKept'
  <2>1. /\ UserIsKept /\ SwitchIsKept /\ CollectionsAreKept
        /\ \A i \in pJobs : i.kind = "collections" => i = j
        /\ pJobs' = pJobs \ {j} /\ UNCHANGED <<pHist, pView, pMount>>
    BY <1>4, SettleFacts
  <2>2. /\ e.asked = 0 /\ P!Server' = P!Server
        /\ IF j.state = "done" THEN P!Server.collections = j.value
           ELSE e.data \subseteq {P!Server.collections}
    BY <2>1 DEF CollectionsAreKept, P!Server
  <2>3. f.asked = 0 /\ f.data \subseteq {P!Server.collections}
    <3>1. CASE pCache' = pCache /\ j.state # "done"
      BY <2>2, <3>1
    <3>2. CASE pCache' = P!Put(pCache, P!CollectionsKey, j.value) /\ j.state = "done"
      <4>1. f.asked = e.asked /\ f.data = {j.value}
        BY <1>2, <3>2 DEF ProfileHolds
      <4>2. QED
        BY <2>2, <3>2, <4>1
    <3>3. QED
      BY <1>4, <3>1, <3>2
  <2>4. UserIsKept'
    BY <2>1, <2>2 DEF UserIsKept, No
  <2>5. SwitchIsKept'
    BY <2>1 DEF SwitchIsKept
  <2>6. CollectionsAreKept'
    <3>1. pHist'[Len(pHist')].collections = P!Server.collections
      BY <2>1 DEF P!Server
    <3>2. CollectionsSound(f, pHist')
      <4> HIDE DEF f
      <4>1. QED
        BY <2>3, <3>1 DEF CollectionsSound
    <3>3. No("collections")'
      BY <2>1 DEF No
    <3>4. QED
      BY <3>2, <3>3 DEF CollectionsAreKept, No
  <2>7. QED
    BY <2>4, <2>5, <2>6
<1>5. QED
  BY <1>3, <1>4, SettleFacts, ProfileFacts, SavedHolds DEF P!Has

LEMMA ProfileSettleStep ==
    ASSUME ProfileInv, NEW j \in pJobs, P!Settle(j), pLoose' = pLoose \cup P!Mixes'
    PROVE  ProfileInv'
<1>1. LET right == "copies" \notin pLoose' => j.state = "done"
          wrong == "copies" \notin pLoose' => j.state # "done"
      IN  \/ j.kind = "edit" /\ P!EditSaved(j) /\ right
          \/ j.kind = "edit" /\ P!EditFailed(j) /\ wrong
          \/ j.kind = "preference" /\ P!PreferenceSaved(j) /\ right
          \/ j.kind = "preference" /\ P!PreferenceFailed(j) /\ wrong
          \/ j.kind = "collections" /\ P!CollectionsSaved(j) /\ right
          \/ j.kind = "collections" /\ UNCHANGED <<pCache, pUser, pPref>> /\ wrong
  BY SettleFacts
<1>2. P!CollectionsSaved(j) <=>
          pCache' = P!Put(pCache, P!CollectionsKey, j.value) /\ UNCHANGED <<pUser, pPref>>
  BY DEF P!CollectionsSaved
<1>3. QED
  BY <1>1, <1>2, EditSavedStep, EditFailedStep, PreferenceSavedStep, PreferenceFailedStep,
     CollectionsStep

-----------------------------------------------------------------------------
(* The invariant *)

LEMMA ProfileStart ==
    ASSUME P!Init
    PROVE  ProfileInv
<1> DEFINE v == [bio |-> 0, banner |-> PNoContent, favorites |-> PContents, adult |-> FALSE,
                 collections |-> TRUE]
<1>1. v \in ProfileVersions /\ pHist = <<v>> /\ v.bio = 0 /\ v.adult = FALSE
  BY DEF P!Init, ProfileVersions
<1> HIDE DEF v
<1>2. pHist \in Seq(ProfileVersions) /\ pHist # <<>> /\ Len(pHist) = 1 /\ P!Server = v
  BY <1>1 DEF P!Server
<1>3. /\ DOMAIN pCache = {} /\ pView = "away" /\ pMount = 0
      /\ pLoaded = [search |-> pSearch, rows |-> {}]
      /\ pUser = [bio |-> 0, adult |-> FALSE] /\ pPref = [enabled |-> FALSE, pending |-> FALSE]
      /\ pJobs = {} /\ pLoose = {} /\ pActs = 0 /\ pLosses = 0
  BY DEF P!Init
<1>4. FALSE \in BOOLEAN
  OBVIOUS
<1>5. P!Entry(pCache, P!OverviewKey) = P!NoEntry /\ P!Entry(pCache, P!CollectionsKey) = P!NoEntry
  BY <1>3 DEF P!Entry
<1>6. ProfileTyped
  BY <1>2, <1>3, <1>4 DEF ProfileTyped, ProfileCached, ProfileUsers, AreProfileJobs
<1>7. ProfileDisplay
  BY <1>3 DEF ProfileDisplay, P!BannerIsFavorite, P!RowsMatchSearch
<1>8. Watched
  <2>1. OverviewSound(P!Entry(pCache, P!OverviewKey), pHist)
    BY <1>5 DEF OverviewSound, P!NoEntry
  <2>2. No("edit") /\ ~P!Unwatched
    BY <1>3 DEF No, P!Unwatched
  <2>3. QED
    BY <2>1, <2>2 DEF Watched
<1>9. Copies
  <2>1. UserIsKept /\ SwitchIsKept
    BY <1>1, <1>2, <1>3 DEF UserIsKept, SwitchIsKept
  <2>2. CollectionsSound(P!Entry(pCache, P!CollectionsKey), pHist)
    BY <1>5 DEF CollectionsSound, P!NoEntry
  <2>3. CollectionsAreKept
    BY <1>3, <2>2 DEF CollectionsAreKept
  <2>4. ~P!Overlapping
    BY <1>3, <1>5 DEF P!Overlapping, P!NoEntry
  <2>5. QED
    BY <2>1, <2>3, <2>4 DEF Copies
<1>10. QED
  BY <1>6, <1>7, <1>8, <1>9 DEF ProfileInv

LEMMA ProfileNext ==
    ASSUME ProfileInv, [P!Next]_profileVars
    PROVE  ProfileInv'
<1>1. CASE UNCHANGED profileVars
  <2>1. ProfileTyped'
    BY <1>1 DEF profileVars, ProfileInv, ProfileTyped
  <2>2. ProfileDisplay'
    BY <1>1 DEF profileVars, ProfileInv, ProfileDisplay, P!BannerIsFavorite, P!RowsMatchSearch
  <2>3. Watched'
    BY <1>1 DEF profileVars, ProfileInv, Watched, No, P!Unwatched
  <2>4. P!Overlapping' <=> P!Overlapping
    BY <1>1 DEF profileVars, P!Overlapping
  <2>5. UserIsKept /\ SwitchIsKept /\ CollectionsAreKept
          => (UserIsKept /\ SwitchIsKept /\ CollectionsAreKept)'
    BY <1>1 DEF profileVars, UserIsKept, SwitchIsKept, CollectionsAreKept, No, P!Server
  <2>6. Copies'
    BY <1>1, <2>4, <2>5 DEF profileVars, ProfileInv, Copies
  <2>7. QED
    BY <2>1, <2>2, <2>3, <2>6 DEF ProfileInv
<1>2. CASE P!Next
  <2>1. P!Step /\ pLoose' = pLoose \cup P!Mixes'
    BY <1>2 DEF P!Next
  <2>2. QED
    BY <2>1, OpenProfileStep, OpenSettingsStep, ProfileChangeSteps, LoaderStep,
       ProfileRetryStep, SubmitEditStep, UpdatePreferenceStep, SaveCollectionsStep,
       ExecuteStep, ProfileSettleStep, ProfileDeliverStep, ProfileLoseReadStep,
       ElsewhereStep DEF P!Step
<1>3. QED
  BY <1>1, <1>2

LEMMA ProfileImply ==
    ASSUME ProfileInv
    PROVE  P!BannerIsFavorite /\ P!RowsMatchSearch /\ P!OwnerSeesOwn
<1>1. ASSUME pJobs = {}, "overview" \notin pLoose, pView = "profile", pCache[P!OverviewKey].fresh
      PROVE  LET o == P!Data(pCache, P!OverviewKey)
             IN  \E n \in DOMAIN pHist : /\ pHist[n].bio = P!Server.bio /\ o.bio = P!Server.bio
                                         /\ o.banner = pHist[n].banner
  <2> DEFINE e == P!Entry(pCache, P!OverviewKey)
             o == P!Data(pCache, P!OverviewKey)
  <2>1. o \in e.data
    BY <1>1 DEF ProfileInv, ProfileDisplay, P!Has, P!Data
  <2>2. e.fresh
    BY <1>1, <2>1 DEF P!Entry, P!NoEntry
  <2>3. OverviewSound(e, pHist)
    BY <1>1 DEF ProfileInv, Watched, No
  <2>4. DOMAIN pHist = 1 .. Len(pHist)
    BY ProfileFacts
  <2> HIDE DEF e, o
  <2>5. o.bio = P!Server.bio
      /\ \E n \in DOMAIN pHist : pHist[n].bio = P!Server.bio /\ o.banner = pHist[n].banner
    BY <2>1, <2>2, <2>3, <2>4 DEF OverviewSound, P!Server
  <2>6. QED
    BY <2>5 DEF o
<1>2. ASSUME pJobs = {}, P!Still, "copies" \notin pLoose
      PROVE  /\ pUser = [bio |-> P!Server.bio, adult |-> P!Server.adult]
             /\ pView = "settings" => /\ pPref.enabled = P!Server.adult
                                      /\ P!Data(pCache, P!CollectionsKey) = P!Server.collections
  <2>1. UserIsKept /\ SwitchIsKept /\ CollectionsAreKept /\ ~P!Overlapping
    BY <1>2 DEF ProfileInv, Copies
  <2>2. pUser = [bio |-> P!Server.bio, adult |-> P!Server.adult]
    BY <1>2, <2>1 DEF UserIsKept, No
  <2>3. pView = "settings" => pPref.enabled = P!Server.adult
    BY <1>2, <2>1, <2>2 DEF SwitchIsKept
  <2>4. ASSUME pView = "settings" PROVE P!Data(pCache, P!CollectionsKey) = P!Server.collections
    <3> DEFINE e == P!Entry(pCache, P!CollectionsKey)
    <3>1. P!CollectionsKey \in DOMAIN pCache /\ e = pCache[P!CollectionsKey]
      BY <2>4 DEF ProfileInv, ProfileDisplay, P!Entry
    <3>2. ReadingEnded(e) /\ e.asked = 0
      BY <1>2, <3>1, ProfileFacts DEF ProfileCached, P!Still
    <3>3. ~e.failed
      BY <2>1, <3>1, ProfileFacts DEF ProfileFailing, P!Overlapping
    <3>4. e.data \subseteq {P!Server.collections}
      BY <1>2, <2>1 DEF CollectionsAreKept, CollectionsSound, No, P!Server
    <3>5. e.data = {P!Server.collections}
      BY <3>2, <3>3, <3>4 DEF ReadingEnded
    <3>6. QED
      BY <3>5 DEF P!Data
  <2>5. QED
    BY <2>2, <2>3, <2>4
<1>3. P!OwnerSeesOwn
  BY <1>1, <1>2 DEF P!OwnerSeesOwn
<1>4. QED
  BY <1>3 DEF ProfileInv, ProfileDisplay

\* The inductive invariant holds of every behaviour of the profile page and the settings,
\* whatever is saved, refused, lost or changed elsewhere in whatever order.
THEOREM ProfileInvariance == P!Spec => []ProfileInv
<1>1. P!Init => ProfileInv
  BY ProfileStart
<1>2. ProfileInv /\ [P!Next]_profileVars => ProfileInv'
  BY ProfileNext
<1>3. QED
  BY <1>1, <1>2, PTL DEF P!Spec, P!vars, profileVars

\* PublicProfilePage and usePublicProfileMutation: the banner is the chosen one or a favorite
\* of those beneath it, settled rows are those of the address, and once nothing is in flight
\* the owner sees a profile Core has had since the last edit, and copies as Core keeps them.
THEOREM ProfileSeesOwn == P!Spec => [](P!BannerIsFavorite /\ P!RowsMatchSearch /\ P!OwnerSeesOwn)
<1>1. ProfileInv => P!BannerIsFavorite /\ P!RowsMatchSearch /\ P!OwnerSeesOwn
  BY ProfileImply
<1>2. QED
  BY <1>1, ProfileInvariance, PTL
=============================================================================
