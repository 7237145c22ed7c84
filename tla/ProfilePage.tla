----------------------------- MODULE ProfilePage -----------------------------
(***************************************************************************)
(* The web client's profile page and the settings that share its data: the  *)
(* overview with its banner, the tabs with their filters in the address,    *)
(* the optimistic edit of the profile, which also writes the copy of the    *)
(* viewer kept by the session store, and the two preferences.  The profile  *)
(* is the viewer's own, open in one tab; favorites also change elsewhere.   *)
(*                                                                          *)
(* A banner is a content; every favorite has artwork.  `rated` stands for   *)
(* the three yes-or-no filters and `minScore` for the two scores.  Bounds:  *)
(* MaxActs acts of the viewer, MaxLosses lost or failed reads and answers,  *)
(* MaxOutside changes made elsewhere.                                       *)
(***************************************************************************)
EXTENDS QueryCache

CONSTANTS Contents, NoContent, MaxActs, MaxLosses, MaxOutside

VARIABLES view,     \* "away" | "loading" | "profile" | "error" | "settings"
          mount,    \* counts the openings of a page
          search,   \* the search part of the address
          loaded,   \* what the route's loader last gave: [search, rows]
          shown,    \* the rows of the tab on the screen
          banner, previousKey,
          user,     \* the session store's copy of the viewer
          pref,     \* AdultContentPreference: [enabled, pending]
          jobs,     \* what is being saved
          loose,    \* what the behaviour went through that is not mended before the next load
          acts, losses, outside

vars == <<hist, cache, view, mount, search, loaded, shown, banner, previousKey, user, pref,
          jobs, loose, acts, losses, outside>>

Server == hist[Len(hist)]
OverviewKey == [of |-> "overview", s |-> {}]
CollectionsKey == [of |-> "collections", s |-> {}]

-----------------------------------------------------------------------------
(* The address: lib/profileSearch.ts *)

Unset == ""
Types == {"MOVIE", "TV_SHOW"}
Statuses == {"backlog", "completed"}
CleanSearchForTab(t) ==
    [tab |-> t, page |-> 1, q |-> Unset, type |-> {}, status |-> {}, sort |-> Unset, order |-> Unset,
     tvKind |-> Unset, rated |-> Unset, minScore |-> 0, role |-> Unset, view |-> Unset]
Parse_anyPage(raw) ==
    [raw EXCEPT !.tab = IF @ \in {"overview", "progress", "lists"} THEN @ ELSE "overview",
                !.type = @ \cap Types, !.status = @ \cap Statuses]
\* What does not fit the schema falls back to its default; a score is in half points.
Parse(raw) ==
    [raw EXCEPT !.tab = IF @ \in {"overview", "progress", "lists"} THEN @ ELSE "overview",
                !.page = IF @ >= 1 THEN @ ELSE 1,
                !.type = @ \cap Types, !.status = @ \cap Statuses,
                !.minScore = IF @ \in 1..20 THEN @ ELSE 0,
                !.rated = IF @ \in {"true", "false"} THEN @ ELSE Unset]
DataSearch(s) == [s EXCEPT !.view = Unset]
ProfileDataSearchKey_noStatus(s) == [DataSearch(s) EXCEPT !.status = {}]
ProfileDataSearchKey(s) == DataSearch(s)
SameDataSearch(a, b) == ProfileDataSearchKey(a) = ProfileDataSearchKey(b)
TabKey(s) == [of |-> "tab", s |-> {DataSearch(s)}]
Needed(s) == {OverviewKey} \cup (IF s.tab = "overview" THEN {} ELSE {TabKey(s)})

\* The controls of the tabs, each giving the changes it asks for.
Toggled(S, x) == IF x \in S THEN S \ {x} ELSE S \cup {x}
TypeFilters(s) ==
    {[s EXCEPT !.type = {}, !.tvKind = Unset]} \cup
    {[s EXCEPT !.type = Toggled(@, t), !.tvKind = IF "TV_SHOW" \in Toggled(s.type, t) THEN @ ELSE Unset] : t \in Types}
StatusFilters(s) == {[s EXCEPT !.status = {}]} \cup {[s EXCEPT !.status = Toggled(@, x)] : x \in Statuses}
ViewToggle(s) == {[s EXCEPT !.view = v] : v \in {"grid", "list"}}
DefaultOrder(sort) == IF sort = "title" THEN "asc" ELSE "desc"
\* The sort of the address, which may be one an older link has.
ResolveProgressSort(s) ==
    CASE s.sort = "recent" -> [sort |-> "updated", order |-> "desc"]
      [] s.sort = "oldest" -> [sort |-> "updated", order |-> "asc"]
      [] s.sort \in {"-title", "-score"} -> [sort |-> IF s.sort = "-title" THEN "title" ELSE "score", order |-> "desc"]
      [] OTHER -> LET sort == IF s.sort \in {"updated", "title", "score", "completed"} THEN s.sort ELSE "updated"
                  IN  [sort |-> sort, order |-> IF s.order = Unset THEN DefaultOrder(sort) ELSE s.order]
ProgressSort(s) ==
    LET r == ResolveProgressSort(s)
    IN  {[s EXCEPT !.sort = x, !.order = DefaultOrder(x)] : x \in {"updated", "title"}} \cup
        {[s EXCEPT !.sort = r.sort, !.order = IF r.order = "desc" THEN "asc" ELSE "desc"]}
ScoreInput(s) == {[s EXCEPT !.minScore = n] : n \in {0, 10, 30}}
AdvancedFilters(s) ==
    {[s EXCEPT !.rated = x] : x \in {Unset, "true"}} \cup ScoreInput(s) \cup
    {[s EXCEPT !.tvKind = k] : k \in IF "TV_SHOW" \in s.type THEN {"all", "series"} ELSE {}}
HasAdvancedFilters(s) == s.tvKind \notin {Unset, "all"} \/ s.rated # Unset \/ s.minScore # 0
HasFilters(s) ==
    \/ s.q # Unset \/ s.type # {} \/ s.status # {} \/ s.sort # Unset \/ s.order # Unset
    \/ HasAdvancedFilters(s)
SearchBox(s) == {[s EXCEPT !.q = q] : q \in {Unset, "a"}}
ProgressToolbar(s) ==
    UNION {SearchBox(s), TypeFilters(s), StatusFilters(s), ViewToggle(s), ProgressSort(s), AdvancedFilters(s)} \cup
    (IF HasFilters(s) THEN {[CleanSearchForTab(s.tab) EXCEPT !.view = s.view, !.role = s.role]} ELSE {})
ListSort(s) == {[s EXCEPT !.sort = x] : x \in {"updated", "name"}}
ListFilters(s) ==
    UNION {SearchBox(s), {[s EXCEPT !.role = r] : r \in {"all", "owner"}}, ListSort(s),
           {[CleanSearchForTab(s.tab) EXCEPT !.view = s.view]}}
\* A change of the filters goes back to the first page.
FirstPage(S) == {[c EXCEPT !.page = 1] : c \in S}
Pagination(s) == {[s EXCEPT !.page = 3 - @]}
Changes(s) == FirstPage(IF s.tab = "progress" THEN ProgressToolbar(s) ELSE ListFilters(s)) \cup Pagination(s)

-----------------------------------------------------------------------------
(* The overview and its banner *)

Overview(v) == [bio |-> v.bio, banner |-> v.banner, favorites |-> v.favorites,
                selected |-> {v.banner} \ {NoContent}]
AnswerTo(v, k) ==
    CASE k.of = "overview" -> Overview(v)
      [] k.of = "collections" -> v.collections
      [] OTHER -> CHOOSE s \in k.s : TRUE

\* Of the viewer's own favorites, which the overview offers its owner.
Chosen(o) == o.favorites \cap {o.banner}
GetSelectedBannerMedia(o) ==
    IF o.banner = NoContent THEN {}
    ELSE IF o.selected = {o.banner} THEN o.selected
    ELSE Chosen(o)
PickRandomFavoriteBanner(o) ==
    IF GetSelectedBannerMedia(o) # {} THEN {GetSelectedBannerMedia(o)}
    ELSE IF o.favorites = {} THEN {{}}
    ELSE {{c} : c \in o.favorites}
IsFavoriteBannerMedia_any(b, o) == TRUE
IsFavoriteBannerMedia(b, o) == b \subseteq o.favorites
\* The banners the effect of showing overview o may leave.
BannerEffect(o) ==
    IF GetSelectedBannerMedia(o) # {} THEN {GetSelectedBannerMedia(o)}
    ELSE IF previousKey # NoContent /\ o.banner = NoContent THEN PickRandomFavoriteBanner(o)
    ELSE IF banner # {} /\ IsFavoriteBannerMedia(banner, o) THEN {banner}
    ELSE PickRandomFavoriteBanner(o)

-----------------------------------------------------------------------------
(* What a page shows after each step *)

\* While a tab's rows are read, those of its last search stay.
TabRows(c, s) == IF s.tab = "overview" THEN {} ELSE Entry(c, TabKey(s)).data
Rows(c, s) ==
    IF s.tab = "overview" THEN {}
    ELSE IF Entry(c, TabKey(s)).failed THEN {}
    ELSE IF Has(c, TabKey(s)) THEN TabRows(c, s)
    ELSE {r \in shown : r.tab = s.tab}
Still_shown == UNCHANGED <<banner, previousKey, shown>>
\* The page is rendered over the cache c and the search s.
Shown(c, s) ==
    /\ banner' \in BannerEffect(Data(c, OverviewKey)) /\ previousKey' = Data(c, OverviewKey).banner
    /\ shown' = Rows(c, s)
\* The loader has all it waits for: the page is mounted over it, and throws when the last
\* reading of the overview failed, even over data: its retry then finds what it left.
Mounted(c, s) ==
    /\ view' = IF Entry(c, OverviewKey).failed THEN "error" ELSE "profile"
    /\ loaded' = [search |-> s, rows |-> TabRows(c, s)]
    /\ banner' \in PickRandomFavoriteBanner(Data(c, OverviewKey))
    /\ previousKey' = Data(c, OverviewKey).banner /\ shown' = Rows(c, s)
Ready(c, s) == \A k \in Needed(s) : Has(c, k)
Active == CASE view = "profile" -> Needed(search)
            [] view = "settings" -> {CollectionsKey}
            [] OTHER -> {}
PrefEffect(u, p) == IF u.adult # user.adult THEN [p EXCEPT !.enabled = u.adult] ELSE p

Init ==
    /\ hist = <<[bio |-> 0, banner |-> NoContent, favorites |-> Contents, adult |-> FALSE, collections |-> TRUE]>>
    /\ cache = [k \in {} |-> NoEntry]
    /\ view = "away" /\ mount = 0 /\ search = CleanSearchForTab("overview")
    /\ loaded = [search |-> search, rows |-> {}] /\ shown = {} /\ banner = {} /\ previousKey = NoContent
    /\ user = [bio |-> 0, adult |-> FALSE] /\ pref = [enabled |-> FALSE, pending |-> FALSE]
    /\ jobs = {} /\ loose = {} /\ acts = 0 /\ losses = 0 /\ outside = 0

Counted == acts < MaxActs /\ acts' = acts + 1
Addresses == {CleanSearchForTab(t) : t \in {"overview", "progress", "unknown"}} \cup
             {[CleanSearchForTab("lists") EXCEPT !.page = 0, !.minScore = 30]}

\* routes/user/$username.tsx: the loader waits for what the address needs.
OpenProfile ==
    /\ view # "profile" /\ view # "loading" /\ Counted /\ mount' = mount + 1
    /\ \E raw \in Addresses, old \in BOOLEAN :
         LET s == Parse(raw)
             c == Refetch(cache, {k \in Needed(s) : ~Has(cache, k)})
         IN  /\ search' = s /\ pref' = [pref EXCEPT !.pending = FALSE]
             /\ IF Ready(c, s) THEN Mounted(c, s) /\ cache' = IF view' = "profile" THEN Observe(c, Needed(s), old) ELSE c
                ELSE cache' = c /\ view' = "loading" /\ UNCHANGED loaded /\ Still_shown
    /\ UNCHANGED <<hist, user, jobs, losses, outside>>
\* A filter, a tab, a page: the page stays, the loader runs again behind it.
Navigate(s) ==
    /\ view = "profile" /\ Counted /\ search' = Parse(s)
    /\ \E old \in BOOLEAN :
         LET k == TabKey(search')
             first == search'.tab # "overview" /\ ~Has(cache, k) /\ SameDataSearch(search', loaded.search)
             c == IF first /\ loaded.rows # {} THEN Put(cache, k, CHOOSE r \in loaded.rows : TRUE) ELSE cache
         IN  cache' = Observe(c, Needed(search'), old)
    /\ Shown(cache', search')
    /\ UNCHANGED <<hist, view, mount, loaded, user, pref, jobs, losses, outside>>
ChangeSearch == \E s \in Changes(search) : search.tab # "overview" /\ Navigate(s)
ChangeTab == \E t \in {"overview", "progress", "lists"} \ {search.tab} : Navigate(CleanSearchForTab(t))
LoaderDone ==
    /\ view = "profile" /\ loaded.search # search /\ Ready(cache, search)
    /\ loaded' = [search |-> search, rows |-> TabRows(cache, search)]
    /\ UNCHANGED <<hist, cache, view, mount, search, shown, banner, previousKey, user, pref, jobs, acts, losses, outside>>
\* The retry of a tab that failed, and of the page.
Retry ==
    /\ \/ /\ view = "error" /\ ~Ready(cache, search) /\ view' = "loading"
          /\ cache' = Refetch(cache, {k \in Needed(search) : ~Has(cache, k)})
          /\ UNCHANGED loaded /\ Still_shown
       \/ view = "error" /\ Ready(cache, search) /\ Mounted(cache, search) /\ UNCHANGED cache
       \/ /\ view = "profile" /\ search.tab # "overview" /\ Entry(cache, TabKey(search)).failed
          /\ cache' = Refetch(cache, {TabKey(search)}) /\ UNCHANGED <<view, loaded>> /\ Still_shown
    /\ Counted
    /\ UNCHANGED <<hist, mount, search, user, pref, jobs, losses, outside>>

\* routes/settings.tsx: the two preferences.
OpenSettings ==
    /\ view # "settings" /\ view # "loading" /\ Counted /\ view' = "settings" /\ mount' = mount + 1
    /\ pref' = [enabled |-> user.adult, pending |-> FALSE]
    /\ \E old \in BOOLEAN : cache' = Observe(cache, {CollectionsKey}, old)
    /\ UNCHANGED <<hist, search, loaded, shown, banner, previousKey, user, jobs, losses, outside>>

-----------------------------------------------------------------------------
(* Saving *)

Job(kind, value) ==
    [kind |-> kind, value |-> value, state |-> "sent", n |-> acts, mount |-> mount,
     overview |-> Entry(cache, OverviewKey).data, user |-> user, was |-> pref.enabled]

\* The banner may be any favorite, or left to chance.
ProfileBannerPicker(o) == o.favorites \cup {NoContent}
\* onMutate: the read under way is cancelled, the cache and the store are patched.
SubmitEdit ==
    /\ view = "profile" /\ Counted /\ ~\E j \in jobs : j.kind = "edit" /\ j.mount = mount
    /\ LET o == Data(cache, OverviewKey)
       IN  \E b \in ProfileBannerPicker(o) :
             /\ jobs' = jobs \cup {Job("edit", [bio |-> acts + 1, banner |-> b])}
             /\ cache' = Put(Cancel(cache, {OverviewKey}), OverviewKey, [o EXCEPT !.bio = acts + 1, !.banner = b])
             /\ user' = [user EXCEPT !.bio = acts + 1]
    /\ Shown(cache', search)
    /\ UNCHANGED <<hist, view, mount, search, loaded, pref, losses, outside>>
UpdatePreference ==
    /\ view = "settings" /\ ~pref.pending /\ Counted
    /\ pref' = [enabled |-> ~pref.enabled, pending |-> TRUE]
    /\ jobs' = jobs \cup {Job("preference", ~pref.enabled)}
    /\ UNCHANGED <<hist, cache, view, mount, search, loaded, shown, banner, previousKey, user, losses, outside>>
\* Nothing holds back a second save while the first is under way.
SaveCollections ==
    /\ view = "settings" /\ Counted
    /\ Has(cache, CollectionsKey) /\ cache[CollectionsKey].asked = 0
    /\ jobs' = jobs \cup {Job("collections", ~Data(cache, CollectionsKey))}
    /\ UNCHANGED <<hist, cache, view, mount, search, loaded, shown, banner, previousKey, user, pref, losses, outside>>

Replace(j, k) == jobs' = (jobs \ {j}) \cup {k}
\* Core keeps the change or refuses it; a banner must be a favorite.
Execute(j) ==
    /\ j.state = "sent"
    /\ \/ /\ j.kind = "edit" => j.value.banner \in Server.favorites \cup {NoContent}
          /\ hist' = Append(hist, CASE j.kind = "edit" -> [Server EXCEPT !.bio = j.value.bio, !.banner = j.value.banner]
                                    [] j.kind = "preference" -> [Server EXCEPT !.adult = j.value]
                                    [] OTHER -> [Server EXCEPT !.collections = j.value])
          /\ Replace(j, [j EXCEPT !.state = "done"])
       \/ Replace(j, [j EXCEPT !.state = "refused"]) /\ UNCHANGED hist
    /\ UNCHANGED <<cache, view, mount, search, loaded, shown, banner, previousKey, user, pref, acts, losses, outside>>

\* onSuccess, onError, then onSettled, which refreshes the overview.
SettleEdit_not(c) == c
SettleEdit(c) == Invalidate(c, {OverviewKey}, Active)
EditSaved(j) ==
    LET o == Data(cache, OverviewKey)
        saved == [o EXCEPT !.bio = j.value.bio, !.banner = j.value.banner,
                           !.selected = o.favorites \cap {j.value.banner}]
    IN  /\ cache' = SettleEdit(Patch(cache, OverviewKey, saved)) /\ user' = [user EXCEPT !.bio = j.value.bio]
        /\ pref' = pref
EditFailed(j) ==
    /\ cache' = SettleEdit(IF j.overview = {} THEN cache ELSE Put(cache, OverviewKey, CHOOSE o \in j.overview : TRUE))
    /\ user' = j.user /\ pref' = PrefEffect(j.user, pref)
\* The answer of the preference is the whole user as Core had it; the session store takes it.
PreferenceSaved(j) ==
    /\ user' = [bio |-> Server.bio, adult |-> j.value] /\ UNCHANGED cache
    /\ pref' = [PrefEffect(user', pref) EXCEPT !.pending = IF j.mount = mount THEN FALSE ELSE @]
PreferenceFailed(j) ==
    /\ UNCHANGED <<cache, user>>
    /\ pref' = IF j.mount = mount THEN [enabled |-> j.was, pending |-> FALSE] ELSE pref
CollectionsSaved(j) == cache' = Put(cache, CollectionsKey, j.value) /\ UNCHANGED <<user, pref>>
Settle(j) ==
    /\ j.state \in {"done", "refused"} /\ jobs' = jobs \ {j}
    /\ \/ j.state = "done" /\ UNCHANGED losses
          /\ CASE j.kind = "edit" -> EditSaved(j)
               [] j.kind = "preference" -> PreferenceSaved(j)
               [] OTHER -> CollectionsSaved(j)
       \/ /\ IF j.state = "done" THEN losses < MaxLosses /\ losses' = losses + 1 ELSE UNCHANGED losses
          /\ CASE j.kind = "edit" -> EditFailed(j)
               [] j.kind = "preference" -> PreferenceFailed(j)
               [] OTHER -> UNCHANGED <<cache, user, pref>>
    /\ IF view = "profile" THEN Shown(cache', search) ELSE Still_shown
    /\ UNCHANGED <<hist, view, mount, search, loaded, acts, outside>>

-----------------------------------------------------------------------------
(* Reads, and what others do *)

Deliver(k) ==
    /\ cache[k].asked > 0
    /\ \E n \in cache[k].asked..Len(hist) : cache' = Arrived(cache, k, AnswerTo(hist[n], k))
    /\ CASE view = "profile" -> Shown(cache', search) /\ UNCHANGED <<view, loaded>>
         [] view = "loading" /\ Ready(cache', search) -> Mounted(cache', search)
         [] OTHER -> Still_shown /\ UNCHANGED <<view, loaded>>
    /\ UNCHANGED <<hist, mount, search, user, pref, jobs, acts, losses, outside>>
LoseRead(k) ==
    /\ cache[k].asked > 0 /\ losses < MaxLosses /\ losses' = losses + 1
    /\ cache' = Lost(cache, k)
    \* A failed reading of the overview is thrown to the route's error page.
    /\ view' = IF \/ view = "loading" /\ k \in Needed(search)
                  \/ view = "profile" /\ k = OverviewKey THEN "error" ELSE view
    /\ IF view' = "profile" THEN Shown(cache', search) ELSE Still_shown
    /\ UNCHANGED <<hist, mount, search, loaded, user, pref, jobs, acts, outside>>
\* A favorite is added or removed elsewhere; one that is removed is no banner any more.
FavoriteElsewhere(c) ==
    /\ outside < MaxOutside /\ outside' = outside + 1
    /\ hist' = Append(hist, IF c \in Server.favorites
                            THEN [Server EXCEPT !.favorites = @ \ {c}, !.banner = IF @ = c THEN NoContent ELSE @]
                            ELSE [Server EXCEPT !.favorites = @ \cup {c}])
    /\ UNCHANGED <<cache, view, mount, search, loaded, shown, banner, previousKey, user, pref, jobs, acts, losses>>

Step ==
    \/ OpenProfile \/ OpenSettings \/ ChangeSearch \/ ChangeTab \/ LoaderDone \/ Retry
    \/ SubmitEdit \/ UpdatePreference \/ SaveCollections
    \/ \E j \in jobs : Execute(j) \/ Settle(j)
    \/ \E k \in DOMAIN cache : Deliver(k) \/ LoseRead(k)
    \/ \E c \in Contents : FavoriteElsewhere(c)
\* Two writers of the store or of a setting, a reading beside the saving of the
\* collections, a lost answer: what is kept twice may then differ until the next load.
Overlapping ==
    \/ \E i, j \in jobs : i # j /\ (i.kind = j.kind \/ {i.kind, j.kind} = {"edit", "preference"})
    \/ Entry(cache, CollectionsKey).asked > 0 /\ \E j \in jobs : j.kind = "collections"
    \/ losses > 0
\* A reading of the overview goes on out of view while an edit is being saved, which
\* starts a new one only for the profile on the screen.
Unwatched ==
    view # "profile" /\ Entry(cache, OverviewKey).asked > 0 /\ \E j \in jobs : j.kind = "edit"
Mixes == {m \in {"copies", "overview"} : IF m = "copies" THEN Overlapping ELSE Unwatched}
Next == Step /\ loose' = loose \cup Mixes'

Spec == Init /\ [][Next]_vars

-----------------------------------------------------------------------------
(* Properties *)

\* What every variable may hold.
TypeOK ==
    /\ \A n \in DOMAIN hist : /\ hist[n].favorites \subseteq Contents
                              /\ hist[n].banner \in hist[n].favorites \cup {NoContent}
    /\ \A k \in DOMAIN cache : cache[k].asked \in 0..Len(hist)
    /\ view \in {"away", "loading", "profile", "error", "settings"}
    /\ banner \subseteq Contents /\ search = Parse(search) /\ search.page \in 1..2
    /\ \A j \in jobs : j.state \in {"sent", "done", "refused"}
    /\ acts \in 0..MaxActs /\ losses \in 0..MaxLosses /\ outside \in 0..MaxOutside

\* The banner on the screen is the one chosen, or else one of the favorites that the page
\* shows beneath it, through edits, their refusal and favorites removed elsewhere; it is
\* missing only when there is no favorite (PublicProfilePage/index.tsx, the banner's effect).
BannerIsFavorite ==
    view = "profile" =>
        LET o == Data(cache, OverviewKey)
        IN  /\ GetSelectedBannerMedia(o) # {} => banner = GetSelectedBannerMedia(o)
            /\ banner \subseteq o.favorites \cup {o.banner}
            /\ banner = {} => o.favorites = {}

\* Rows that are not being refreshed are those of the address (sameDataSearch lets the
\* loader's rows in only for the search they were read for).
RowsMatchSearch ==
    view = "profile" /\ search.tab # "overview" /\ cache[TabKey(search)].asked = 0 =>
        shown \subseteq {DataSearch(search)}

\* Once nothing is in flight the viewer's own profile is one Core has had since the
\* viewer's last edit, whatever was refused, lost or overlapped; the session store and the
\* settings are as Core keeps them, too, when nothing was.
OwnerSeesOwn ==
    jobs = {} /\ Still =>
        /\ "overview" \notin loose /\ view = "profile" /\ cache[OverviewKey].fresh =>
             LET o == Data(cache, OverviewKey)
             IN  \E n \in DOMAIN hist : /\ hist[n].bio = Server.bio /\ o.bio = Server.bio
                                        /\ o.banner = hist[n].banner
        /\ "copies" \notin loose =>
             /\ user = [bio |-> Server.bio, adult |-> Server.adult]
             /\ view = "settings" => /\ pref.enabled = Server.adult
                                     /\ Data(cache, CollectionsKey) = Server.collections
=============================================================================
