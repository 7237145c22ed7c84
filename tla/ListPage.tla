------------------------------- MODULE ListPage -------------------------------
(***************************************************************************)
(* The list page of the web client for one signed-in user and one list:     *)
(* the address and the query it holds, the query cache with its reads in    *)
(* flight, the mutations with their optimistic patches and rollbacks, the   *)
(* reorder mode, the navigation search and the dialogs.                     *)
(*                                                                          *)
(* A version of hist is [order, done, rated, name, gone].  A mutation is    *)
(* carried out, or refused, at any time before its answer is settled.       *)
(* Nobody else edits the list.                                              *)
(*                                                                          *)
(* Bounds: MaxActs of the user's acts that read, write or navigate,         *)
(* MaxLosses reads and answers that fail on the way.                        *)
(***************************************************************************)
EXTENDS ListQuery, QueryCache, FiniteSets, TLC

CONSTANTS FirstOrder,        \* the items, in the list's first order
          TitleRank,         \* an item's place in the order of titles
          Lists, User,       \* list records [owner, members, editors, type]
          InitialSearches,   \* addresses the page is opened with
          Sorts, FilterSets, GroupSet,   \* what the user explores
          MaxActs, MaxLosses

ASSUME ListAssumption ==
    /\ FirstOrder # <<>> /\ IsInjective(FirstOrder)
    /\ \A i \in Range(FirstOrder) : i # Absent
    /\ MaxActs \in Nat /\ MaxLosses \in Nat

VARIABLES list,      \* the list's record: rights and kind
          jobs,      \* mutations in flight
          url,       \* the address's parameters
          stored,    \* local storage: {} or {a query}
          page,      \* the page's own state
          reordering,\* the store's isReorderMode, which outlives the page
          acts, losses,
          hopped     \* the state has been Loose

vars == <<list, hist, cache, jobs, url, stored, page, reordering, acts, losses, hopped>>

-----------------------------------------------------------------------------
(* Core *)

Server == hist[Len(hist)]
Row(v, i) == [id |-> i, done |-> i \in v.done, rows |-> IF i \in v.rated THEN 1 ELSE 0]
Matches(v, q, i) == "context_status" \in q.filters => i \in v.done
Rank(v, c, i) == IF c.field = "display_title" THEN TitleRank[i]
                 ELSE CHOOSE n \in DOMAIN v.order : v.order[n] = i
Rows(v, q) ==
    LET found == SelectSeq(v.order, LAMBDA i : Matches(v, q, i))
        c == IF q.sort = <<>> THEN Asc("list_order") ELSE Head(q.sort)
        Before(i, j) == IF c.desc THEN Rank(v, c, i) > Rank(v, c, j)
                        ELSE Rank(v, c, i) < Rank(v, c, j)
        sorted == SortSeq(found, Before)
    IN  [n \in DOMAIN sorted |-> Row(v, sorted[n])]
SliceOf(items, q) ==
    SelectSeq([n \in DOMAIN items |-> <<n, items[n]>>],
              LAMBDA p : (q.page - 1) * q.size < p[1] /\ p[1] <= q.page * q.size)
PageSlice(items, q) == LET s == SliceOf(items, q) IN [n \in DOMAIN s |-> s[n][2]]

-----------------------------------------------------------------------------
(* Keys and the cache *)

PageKey(q) == [of |-> "page", q |-> q]
FullKey(q) == [of |-> "full", q |-> [q EXCEPT !.page = 1, !.size = DefaultSize]]
StatsKey == [of |-> "stats"]
ListKey == [of |-> "list"]

Answer(v, k) ==
    CASE k.of = "page" -> [items |-> PageSlice(Rows(v, k.q), k.q), count |-> Len(Rows(v, k.q))]
      [] k.of = "full" -> Rows(v, k.q)
      [] k.of = "stats" -> [total |-> Len(v.order), done |-> Cardinality(v.done)]
      [] k.of = "list" -> v.name

ItemKeys(c) == {k \in DOMAIN c : k.of \in {"page", "full"}}
ListKeys(c) == {k \in DOMAIN c : k.of \in {"stats", "list"}}

\* Row i with the fields of `to` replaced, or left out when `to` has none.
SetRow(items, i, to) ==
    IF to = {} THEN SelectSeq(items, LAMBDA r : r.id # i)
    ELSE [n \in DOMAIN items |->
            IF items[n].id = i THEN (CHOOSE new \in to : TRUE) @@ items[n] ELSE items[n]]
PatchItems(c, q, i, to) ==
    LET k == PageKey(q)
    IN  Patch(Patch(c, k, [Data(c, k) EXCEPT !.items = SetRow(@, i, to)]),
              FullKey(q), SetRow(Data(c, FullKey(q)), i, to))
SetStats(c, dTotal, dDone) ==
    IF ~Has(c, StatsKey) THEN c
    ELSE LET Less(n, d) == IF n + d < 0 THEN 0 ELSE n + d
             s == Data(c, StatsKey)
         IN  Put(c, StatsKey, [total |-> Less(s.total, dTotal), done |-> Less(s.done, dDone)])

-----------------------------------------------------------------------------
(* What the page shows *)

Q == ParseQuery(url)
Keys(q) == {PageKey(q), StatsKey, ListKey}
Active == IF page.open THEN Keys(Q) ELSE {}
\* The page of the query, or the one shown before it while that is on its way.
ShownKey == IF Has(cache, PageKey(Q)) THEN PageKey(Q) ELSE page.shown
PageItems == IF Has(cache, ShownKey) THEN Data(cache, ShownKey).items ELSE <<>>
TotalItemCount == IF Has(cache, ShownKey) THEN Data(cache, ShownKey).count ELSE 0
PagesOf(count, size) == IF count = 0 THEN 1 ELSE (count + size - 1) \div size
TotalPages == PagesOf(TotalItemCount, IF Has(cache, ShownKey) THEN ShownKey.q.size ELSE Q.size)
FullItems == IF Has(cache, FullKey(Q)) THEN Data(cache, FullKey(Q)) ELSE <<>>
ItemOf(items, i) == SelectSeq(items, LAMBDA r : r.id = i)

\* The share of completed items: of the whole list's, among those the query matches.
CompletionRate ==
    IF TotalItemCount = 0 \/ ~Has(cache, StatsKey) THEN 0
    ELSE (Data(cache, StatsKey).done * 100) \div TotalItemCount

View ==
    IF ~page.open THEN "away"
    ELSE IF \/ ~Has(cache, ListKey) /\ Entry(cache, ListKey).asked > 0
            \/ ~Has(cache, ShownKey) /\ Entry(cache, PageKey(Q)).asked > 0 THEN "loading"
    ELSE IF (\E k \in Active : Entry(cache, k).failed) \/ ~Has(cache, ListKey) THEN "error"
    ELSE "page"

Jobs(kinds) == {j \in jobs : j.kind \in kinds}
\* A job is the page's while the mount that submitted it lasts.
ActionLoading == \E j \in Jobs({"toggle", "rate", "update", "deleteItem", "deleteList"}) : j.mount
CanEdit == CanEditListContent(list, User)
CanManage == CanManageListSettings(list, User)
\* Whether the user has completed the item is left out: any item may be rated once.
ShouldInviteToRate(r) == r.rows = 0

Results ==
    LET full == page.all /\ Has(cache, FullKey(Q))
        items == IF full THEN FullItems ELSE PageItems
        hits == SelectSeq([n \in DOMAIN items |-> [id |-> items[n].id, index |-> n - 1]],
                          LAMBDA h : h.id = page.term)
    IN  [n \in DOMAIN hits |-> [id |-> hits[n].id,
                                pageIndex |-> IF full THEN hits[n].index ELSE -1]]
CanSearchAll == page.term # Absent /\ ~page.all /\ Results = <<>>

-----------------------------------------------------------------------------
(* The page's state *)

Mounted == [open |-> TRUE, seeded |-> FALSE, shown |-> PageKey(DefaultQuery),
            view |-> "list", term |-> Absent, all |-> FALSE, searching |-> {},
            preparing |-> {}, left |-> {}, original |-> <<>>, items |-> <<>>,
            active |-> Absent, dialog |-> None, item |-> Absent]
Away == [Mounted EXCEPT !.open = FALSE]

Init ==
    /\ list \in Lists
    /\ hist = <<[order |-> FirstOrder, done |-> {}, rated |-> {}, name |-> 0, gone |-> FALSE]>>
    /\ cache = <<>> /\ jobs = {} /\ stored = {} /\ page = Away /\ reordering = FALSE
    /\ url \in InitialSearches
    /\ acts = 0 /\ losses = 0 /\ hopped = FALSE

\* The pending mutations' callbacks follow the query of the last render.
Follow(js, q) == {IF j.current THEN [j EXCEPT !.q = q] ELSE j : j \in js}
\* The address changes to that of q: a replaced entry of the browser's history.
WriteQuery(q, c, js) ==
    /\ url' = Serialize(q)
    /\ stored' = {q}
    /\ \E old \in BOOLEAN : cache' = Observe(c, {PageKey(q)}, old)
    /\ jobs' = Follow(js, q)
Same == UNCHANGED <<list, hist>>
Counted == acts < MaxActs /\ acts' = acts + 1
Act == Counted /\ UNCHANGED losses
Free == UNCHANGED <<acts, losses>>

-----------------------------------------------------------------------------
(* Effects of a render: they come before anything else happens. *)

SeedDue == page.open /\ ~page.seeded
ClampDue == page.open /\ Q.page > TotalPages
ResetDue == page.open /\ Has(cache, ListKey) /\ list.type = "PERSONAL"
            /\ HasPersonalListContextQuery(Q)
Due == SeedDue \/ ClampDue \/ ResetDue

Seed ==
    /\ SeedDue
    /\ page' = [page EXCEPT !.seeded = TRUE]
    /\ IF HasAnyExploreParam(url) \/ stored = {}
       THEN stored' = {Q} /\ UNCHANGED <<url, cache, jobs>>
       ELSE \E q \in stored : WriteQuery(q, cache, jobs)
    /\ Same /\ Free /\ UNCHANGED reordering
Clamp ==
    /\ ~SeedDue /\ ClampDue
    /\ WriteQuery(SetPage(Q, TotalPages), cache, jobs)
    /\ Same /\ Free /\ UNCHANGED <<page, reordering>>
ResetPersonal ==
    /\ ~SeedDue /\ ~ClampDue /\ ResetDue
    /\ WriteQuery(ResetExploration(Q), cache, jobs)
    /\ Same /\ Free /\ UNCHANGED <<page, reordering>>

-----------------------------------------------------------------------------
(* Navigation *)

\* The server's render of a full load reads under the loader's query.  A full load
\* is taken when no mutation is in flight: nothing of the page would be left to answer.
Prefetched(v) == [k \in Keys(ParseListQuery(url)) |->
                    [data |-> {Answer(v, k)}, fresh |-> TRUE, asked |-> 0, failed |-> FALSE]]
Opening == IF page.open THEN Counted ELSE UNCHANGED acts
Reload ==
    /\ Opening /\ ~Server.gone /\ jobs = {}
    /\ \E failed \in SUBSET Keys(ParseListQuery(url)) :
         /\ losses' = losses + Cardinality(failed)
         /\ losses' <= MaxLosses
         /\ LET c == [k \in Keys(ParseListQuery(url)) \ failed |-> Prefetched(Server)[k]]
            IN  cache' = Observe(c, Keys(Q), FALSE)
    /\ page' = [Mounted EXCEPT !.shown = PageKey(Q)]
    /\ reordering' = FALSE
    /\ Same /\ UNCHANGED <<url, stored, jobs>>
\* A link inside the client: the cache stays, the address is plain.
OpenPage ==
    /\ ~page.open /\ ~Server.gone /\ Free
    /\ url' = EmptySearch
    /\ page' = [Mounted EXCEPT !.shown = PageKey(DefaultQuery), !.left = page.left]
    /\ \E old \in BOOLEAN : cache' = Observe(cache, Keys(DefaultQuery), old)
    /\ Same /\ UNCHANGED <<jobs, stored, reordering>>
Leave ==
    /\ Act /\ page.open
    /\ page' = [Away EXCEPT !.left = page.preparing \cup page.left]
    /\ jobs' = {[j EXCEPT !.mount = FALSE, !.current = FALSE] : j \in jobs}
    /\ Same /\ UNCHANGED <<url, stored, cache, reordering>>

-----------------------------------------------------------------------------
(* Exploring: the toolbar, the header, the navigation search *)

Ready == View = "page" /\ page.dialog = None
Exploring == Ready /\ ~reordering
Explore(q) == WriteQuery(q, cache, jobs) /\ Same /\ UNCHANGED <<page, reordering>>

SortIt == Act /\ Exploring /\ \E s \in Sorts : s # Q.sort /\ Explore(SetSort(Q, s))
FilterIt ==
    /\ Act /\ Exploring
    /\ \E f \in FilterOptions(list.type) \cap UNION FilterSets :
         Explore(SetFilter(Q, f, f \notin Q.filters))
GroupIt ==
    /\ Act /\ Exploring
    /\ \E g \in GroupByOptions(list.type) \cap GroupSet : g # Q.group /\ Explore(SetGroupBy(Q, g))
SizeIt == Act /\ Exploring /\ \E n \in Sizes : n # Q.size /\ Explore(SetPageSize(Q, n))
ResetIt == Act /\ Exploring /\ Q # ResetExploration(Q) /\ Explore(ResetExploration(Q))

PaginationShown == ~reordering /\ TotalPages > 1
TurnPage ==
    /\ Act /\ Ready /\ PaginationShown
    /\ \E n \in {Q.page - 1, Q.page + 1} \cap 1..TotalPages : Explore(SetPage(Q, n))

Local(p) == page' = p /\ Same /\ Free /\ UNCHANGED <<cache, jobs, url, stored, reordering>>

SetViewMode ==
    /\ Act /\ Exploring
    /\ page' = [page EXCEPT !.view = IF @ = "list" THEN "gallery" ELSE "list"]
    /\ Same /\ UNCHANGED <<cache, jobs, url, stored, reordering>>
Type ==
    /\ Act /\ Exploring /\ page.term = Absent
    /\ \E i \in Range(FirstOrder) : page' = [page EXCEPT !.term = i]
    /\ Same /\ UNCHANGED <<cache, jobs, url, stored, reordering>>
ClearQuery == Exploring /\ page.term # Absent /\ Local([page EXCEPT !.term = Absent, !.all = FALSE])

\* ensureFullItems: what is cached, however stale; else a read, and no items on failure.
SearchAll ==
    /\ Exploring /\ CanSearchAll /\ page.searching = {}
    /\ IF Has(cache, FullKey(Q))
       THEN page' = [page EXCEPT !.all = TRUE] /\ UNCHANGED cache
       ELSE /\ page' = [page EXCEPT !.searching = {FullKey(Q)}]
            /\ cache' = Refetch(cache, {FullKey(Q)})
           
    /\ Same /\ Free /\ UNCHANGED <<jobs, url, stored, reordering>>
HandleSearchSelect ==
    /\ Exploring /\ page.searching = {}
    /\ \E n \in DOMAIN Results :
         /\ page' = [page EXCEPT !.term = Absent, !.all = FALSE]
         /\ IF Results[n].pageIndex >= 0
            THEN WriteQuery(SetPage(Q, Results[n].pageIndex \div Q.size + 1), cache, jobs)
            ELSE UNCHANGED <<url, stored, cache, jobs>>
    /\ Same /\ Free /\ UNCHANGED reordering

-----------------------------------------------------------------------------
(* Mutations are submitted *)

NewJob(kind) ==
    [kind |-> kind, item |-> Absent, to |-> FALSE, q |-> Q, items |-> <<>>, was |-> <<>>,
     name |-> 0, state |-> "sent", mount |-> TRUE, current |-> kind \in {"toggle", "rate"}]
Submit(j, c) ==
    /\ jobs' = {IF j.current /\ k.kind = j.kind THEN [k EXCEPT !.current = FALSE] ELSE k : k \in jobs}
               \cup {j}
    /\ cache' = c
    /\ Same /\ UNCHANGED <<url, stored, reordering>>

\* Which rows are there to act on, and what a row of the list, or a card of the
\* gallery, offers: the groups are those of a page grouped by the items' status.
FlatListView == PageItems
FlatGalleryView == PageItems
Grouped == FlattenSeq([g \in DOMAIN BuildGroupedItems(PageItems, <<>>, "done") |->
                          BuildGroupedItems(PageItems, <<>>, "done")[g].items])
GroupedListView == Grouped
GroupedGalleryView == Grouped
ReorderListView == page.items
ContentShown ==
    IF TotalItemCount = 0 THEN "empty" ELSE IF reordering THEN "reorder"
    ELSE IF Entry(cache, PageKey(Q)).asked > 0 /\ Has(cache, PageKey(Q)) THEN "skeleton"
    ELSE "items"
Shown ==
    CASE ContentShown = "empty" -> <<>>
      [] ContentShown = "reorder" -> ReorderListView
      [] ContentShown = "skeleton" -> <<>>
      [] OTHER -> IF page.view = "list" THEN (IF Q.group = None THEN FlatListView ELSE GroupedListView)
                  ELSE (IF Q.group = None THEN FlatGalleryView ELSE GroupedGalleryView)
ListItemCardHover ==
    (IF CanEdit /\ ~IsPersonalList(list) THEN {"toggle"} ELSE {})
    \cup (IF CanEdit /\ list.type # "DYNAMIC" THEN {"deleteItem"} ELSE {}) \cup {"rate"}
ListItemRenderer ==
    (IF CanEdit /\ ~IsPersonalList(list) THEN {"toggle"} ELSE {})
    \cup (IF CanEdit /\ list.type # "DYNAMIC" THEN {"deleteItem"} ELSE {}) \cup {"rate"}
Offered(kind) ==
    /\ Ready /\ ContentShown = "items"
    /\ kind \in IF page.view = "list" THEN ListItemRenderer ELSE ListItemCardHover

HandleToggleItemStatus ==
    /\ Act /\ Offered("toggle")
    /\ \E n \in DOMAIN Shown :
         LET r == Shown[n]
         IN  /\ \A j \in Jobs({"toggle"}) : j.item # r.id
             /\ Submit([NewJob("toggle") EXCEPT !.item = r.id, !.to = ~r.done, !.was = <<r.done>>],
                       PatchItems(Cancel(cache, ItemKeys(cache)), Q, r.id, {[done |-> ~r.done]}))
    /\ UNCHANGED page

\* The list's modals; a dialog is confirmed only while nothing is loading.
OpenItemDialog ==
    \E k \in {"rate", "deleteItem"}, n \in DOMAIN Shown :
        /\ Offered(k)
        /\ k = "rate" => ShouldInviteToRate(Shown[n])
        /\ Local([page EXCEPT !.dialog = k, !.item = Shown[n].id])
OpenListDialog ==
    /\ Ready /\ ~reordering /\ CanManage /\ list.type # "DYNAMIC"
    /\ \E k \in {"update", "deleteList"} : Local([page EXCEPT !.dialog = k])
Closed == [page EXCEPT !.dialog = None, !.item = Absent]
CloseDialog == page.dialog # None /\ ~ActionLoading /\ Local(Closed)
Confirming(kind) == View = "page" /\ page.dialog = kind /\ ~ActionLoading

HandleSubmitRating ==
    /\ Act /\ Confirming("rate")
    /\ LET old == ItemOf(PageItems, page.item)
           rows == IF old = <<>> THEN 0 ELSE old[1].rows
       IN  Submit([NewJob("rate") EXCEPT !.item = page.item, !.was = <<rows>>],
                  PatchItems(Cancel(cache, ItemKeys(cache)), Q, page.item, {[rows |-> rows + 1]}))
    /\ UNCHANGED page
HandleDeleteItem ==
    /\ Act /\ Confirming("deleteItem")
    /\ Submit([NewJob("deleteItem") EXCEPT !.item = page.item, !.was = ItemOf(PageItems, page.item)],
              cache)
    /\ UNCHANGED page
\* Every submission gives a name of its own: the act's number.
HandleUpdateList ==
    /\ Act /\ Confirming("update")
    /\ Submit([NewJob("update") EXCEPT !.name = acts'], cache) /\ UNCHANGED page
HandleDeleteList ==
    /\ Act /\ Confirming("deleteList") /\ Submit(NewJob("deleteList"), cache) /\ UNCHANGED page
HandleApplySortAsListOrder ==
    /\ Act /\ Exploring /\ CanEdit /\ CanApplySort(Q)
    /\ \A j \in Jobs({"apply"}) : ~j.mount
    /\ Submit(NewJob("apply"), cache) /\ UNCHANGED page

-----------------------------------------------------------------------------
(* The reorder mode *)

ReorderOffered ==
    Ready /\ ~reordering /\ CanEdit /\ TotalItemCount > 0 /\ page.preparing = {} /\ ~ReorderDisabled(Q)
HandleEnterReorderMode ==
    /\ Act /\ ReorderOffered
    /\ IF Has(cache, FullKey(Q))
       THEN /\ page' = [page EXCEPT !.view = "list", !.original = FullItems, !.items = FullItems]
            /\ reordering' = TRUE
            /\ UNCHANGED cache
       ELSE /\ page' = [page EXCEPT !.view = "list", !.preparing = {FullKey(Q)}]
            /\ cache' = Refetch(cache, {FullKey(Q)})
           
            /\ UNCHANGED reordering
    /\ Same /\ UNCHANGED <<jobs, url, stored>>

Reordering == Ready /\ ContentShown = "reorder"
DragStart ==
    /\ Reordering /\ page.active = Absent
    /\ \E n \in DOMAIN Shown : Local([page EXCEPT !.active = Shown[n].id])
\* Passing over another row moves the dragged one there at once.
DragOver ==
    /\ Act /\ Reordering /\ page.active # Absent
    /\ \E a \in DOMAIN Shown, b \in DOMAIN Shown :
         /\ a # b /\ Shown[a].id = page.active
         /\ page' = [page EXCEPT !.items = InsertAt(RemoveAt(@, a), b, @[a])]
    /\ Same /\ UNCHANGED <<cache, jobs, url, stored, reordering>>
DragEnd == Reordering /\ page.active # Absent /\ Local([page EXCEPT !.active = Absent])
\* A cancelled drag restores the order the mode was entered with.
DragCancel ==
    /\ Reordering /\ page.active # Absent
    /\ Local([page EXCEPT !.active = Absent, !.items = page.original])
SaveIdle == Ready /\ reordering /\ \A j \in Jobs({"reorder"}) : ~j.mount
HandleCancelReorder ==
    /\ SaveIdle
    /\ page' = [page EXCEPT !.active = Absent, !.items = <<>>, !.original = <<>>]
    /\ reordering' = FALSE
    /\ Same /\ Free /\ UNCHANGED <<cache, jobs, url, stored>>
HandleSaveReorder ==
    /\ Free /\ SaveIdle /\ page.active = Absent
    /\ Submit([NewJob("reorder") EXCEPT !.items = page.items, !.was = page.original], Cancel(cache, ItemKeys(cache)))
    /\ UNCHANGED page

-----------------------------------------------------------------------------
(* Core's side of the mutations *)

IdsOf(items) == [n \in DOMAIN items |-> items[n].id]
Applied(v, j) ==
    CASE j.kind = "toggle" -> [v EXCEPT !.done = IF j.to THEN @ \cup {j.item} ELSE @ \ {j.item}]
      [] j.kind = "rate" -> [v EXCEPT !.rated = @ \cup {j.item}]
      [] j.kind = "deleteItem" -> [v EXCEPT !.order = SelectSeq(@, LAMBDA i : i # j.item),
                                            !.done = @ \ {j.item}, !.rated = @ \ {j.item}]
      [] j.kind = "update" -> [v EXCEPT !.name = j.name]
      [] j.kind = "deleteList" -> [v EXCEPT !.gone = TRUE]
      [] j.kind = "reorder" -> [v EXCEPT !.order = IdsOf(j.items)]
      [] j.kind = "apply" -> [v EXCEPT !.order = IdsOf(Rows(v, [j.q EXCEPT !.filters = {}]))]
Acceptable(v, j) ==
    /\ ~v.gone
    /\ j.kind \in {"toggle", "deleteItem"} => j.item \in Range(v.order)
    /\ j.kind = "reorder" => j.items # <<>> /\ Range(IdsOf(j.items)) = Range(v.order)

Become(j, k) == jobs' = (jobs \ {j}) \cup {k}
CarryOut(j) ==
    /\ j.state = "sent" /\ Acceptable(Server, j)
    /\ hist' = Append(hist, Applied(Server, j))
    /\ Become(j, [j EXCEPT !.state = "done"])
    /\ Free /\ UNCHANGED <<list, cache, url, stored, page, reordering>>
Refuse(j) ==
    /\ j.state = "sent"
    /\ IF Acceptable(Server, j) THEN losses < MaxLosses /\ losses' = losses + 1 ELSE UNCHANGED losses
    /\ Become(j, [j EXCEPT !.state = "refused"])
    /\ Same /\ UNCHANGED <<acts, cache, url, stored, page, reordering>>
\* What was done is reported as failed: the answer is lost.
LoseAnswer(j) ==
    /\ j.state = "done" /\ losses < MaxLosses
    /\ losses' = losses + 1
    /\ Become(j, [j EXCEPT !.state = "refused"])
    /\ Same /\ UNCHANGED <<acts, cache, url, stored, page, reordering>>

-----------------------------------------------------------------------------
(* Mutations settle *)

Finished(kind, ok) == {j \in Jobs({kind}) : j.state = IF ok THEN "done" ELSE "refused"}
Rest(j) == jobs \ {j}
Settle(j, c) == jobs' = Rest(j) /\ cache' = c /\ Same /\ Free
Stay == UNCHANGED <<url, stored, reordering>>
ClosedBy(j) == page' = IF j.mount THEN Closed ELSE page

ToggleDone ==
    \E j \in Finished("toggle", TRUE) :
        LET shown == ItemOf(PageItems, j.item)
            was == shown # <<>> /\ shown[1].done
            c == IF was = j.to THEN cache ELSE SetStats(cache, 0, IF j.to THEN 1 ELSE -1)
        IN  Settle(j, Invalidate(c, ItemKeys(c) \cup {StatsKey}, Active)) /\ Stay /\ UNCHANGED page
ToggleFailed ==
    \E j \in Finished("toggle", FALSE) :
        LET c == PatchItems(cache, j.q, j.item, {[done |-> j.was[1]]})
        IN  Settle(j, Invalidate(c, ItemKeys(c) \cup {StatsKey}, Active)) /\ Stay /\ UNCHANGED page
RateDone ==
    \E j \in Finished("rate", TRUE) :
        Settle(j, Invalidate(cache, ItemKeys(cache), Active)) /\ Stay /\ ClosedBy(j)
RateFailed ==
    \E j \in Finished("rate", FALSE) :
        LET c == PatchItems(cache, j.q, j.item, {[rows |-> j.was[1]]})
        IN  Settle(j, Invalidate(c, ItemKeys(c), Active)) /\ Stay /\ UNCHANGED page

\* The answer is patched in after the invalidation, under the query of the submission.
OnItemDeleted(c, j) ==
    LET c1 == PatchItems(c, j.q, j.item, {})
        p == PageKey(j.q)
        c2 == IF Has(c1, p) /\ j.was # <<>>
              THEN Put(c1, p, [Data(c1, p) EXCEPT !.count = IF @ = 0 THEN 0 ELSE @ - 1]) ELSE c1
    IN  IF j.was = <<>> THEN c1
        ELSE Refetch(SetStats(c2, -1, IF j.was[1].done THEN -1 ELSE 0),
                     IF j.mount THEN {PageKey(Q)} ELSE {})
DeleteItemDone ==
    \E j \in Finished("deleteItem", TRUE) :
        /\ Settle(j, OnItemDeleted(Invalidate(cache, DOMAIN cache, Active), j))
        /\ Stay /\ ClosedBy(j)
DeleteItemFailed ==
    \E j \in Finished("deleteItem", FALSE) :
        Settle(j, Invalidate(cache, DOMAIN cache, Active)) /\ Stay /\ ClosedBy(j)

UpdateDone ==
    \E j \in Finished("update", TRUE) :
        LET c == Invalidate(cache, ListKeys(cache), Active)
        IN  /\ Settle(j, IF Has(c, ListKey) THEN Put(c, ListKey, j.name) ELSE c)
            /\ Stay /\ ClosedBy(j)
UpdateFailed ==
    \E j \in Finished("update", FALSE) :
        Settle(j, Invalidate(cache, ListKeys(cache), Active)) /\ Stay /\ UNCHANGED page
DeleteListDone ==
    \E j \in Finished("deleteList", TRUE) :
        /\ Settle(j, Invalidate(cache, ListKeys(cache), {}))
        /\ page' = [Away EXCEPT !.left = page.preparing \cup page.left]
        /\ Stay
DeleteListFailed ==
    \E j \in Finished("deleteList", FALSE) :
        Settle(j, Invalidate(cache, ListKeys(cache), Active)) /\ Stay /\ ClosedBy(j)

OnReorderSaved(c, j) ==
    LET c1 == Put(c, FullKey(j.q), j.items)
        p == PageKey(j.q)
    IN  IF Has(c1, p) THEN Put(c1, p, [Data(c1, p) EXCEPT !.items = PageSlice(j.items, j.q)]) ELSE c1
ReorderDone ==
    \E j \in Finished("reorder", TRUE) :
        /\ Settle(j, OnReorderSaved(Invalidate(cache, ItemKeys(cache), Active), j))
        /\ page' = IF j.mount THEN [page EXCEPT !.original = j.items, !.items = <<>>] ELSE page
        /\ reordering' = FALSE
        /\ UNCHANGED <<url, stored>>
ReorderFailed ==
    \E j \in Finished("reorder", FALSE) :
        /\ Settle(j, Invalidate(cache, ItemKeys(cache), Active))
        /\ page' = IF j.mount THEN [page EXCEPT !.items = j.was] ELSE page
        /\ Stay

\* The query of the submission is written back, from wherever the user is by now.
ApplyDone ==
    \E j \in Finished("apply", TRUE) :
        LET q == SetSort(j.q, <<>>)
            c == Refetch(Invalidate(cache, ItemKeys(cache), Active),
                         IF j.mount THEN {PageKey(Q)} ELSE {})
        IN  /\ WriteQuery(q, IF page.open THEN c ELSE Observe(c, {StatsKey, ListKey}, FALSE), Rest(j))
            /\ page' = IF page.open THEN page
                       ELSE [Mounted EXCEPT !.shown = PageKey(q), !.left = page.left, !.seeded = TRUE]
            /\ Same /\ Free /\ UNCHANGED reordering
ApplyFailed ==
    \E j \in Finished("apply", FALSE) :
        Settle(j, Invalidate(cache, ItemKeys(cache), Active)) /\ Stay /\ UNCHANGED page

-----------------------------------------------------------------------------
(* Reads are answered *)

\* ensureFullItems resolves: the search widens, and the reorder mode is entered
\* even if the page that asked for it is gone.
Resolved(p, k, items) ==
    [p EXCEPT !.searching = @ \ {k}, !.preparing = @ \ {k}, !.left = @ \ {k},
              !.all = @ \/ k \in p.searching,
              !.original = IF k \in p.preparing THEN items ELSE @,
              !.items = IF k \in p.preparing THEN items ELSE @]
Resolve(k, items) ==
    /\ page' = [Resolved(page, k, items) EXCEPT
                  !.shown = IF k \in Active /\ k.of = "page" THEN k ELSE @]
    /\ reordering' = (reordering \/ k \in page.preparing \cup page.left)

Deliver(k) ==
    /\ cache[k].asked > 0
    /\ \E n \in cache[k].asked..Len(hist) :
         /\ ~hist[n].gone
         /\ cache' = Arrived(cache, k, Answer(hist[n], k))
         /\ Resolve(k, IF k.of = "full" THEN Answer(hist[n], k) ELSE <<>>)
    /\ Same /\ Free /\ UNCHANGED <<jobs, url, stored>>
LoseRead(k) ==
    /\ cache[k].asked > 0
    /\ IF Server.gone THEN UNCHANGED losses ELSE losses < MaxLosses /\ losses' = losses + 1
    /\ cache' = Lost(cache, k)
    /\ Resolve(k, IF k.of = "full" /\ Has(cache, k) THEN Data(cache, k) ELSE <<>>)
    /\ Same /\ UNCHANGED <<acts, jobs, url, stored>>
\* A full read that a mutation cancelled resolves with what there is: nothing.
ReadCancelled ==
    \E k \in page.searching \cup page.preparing \cup page.left :
        /\ Entry(cache, k).asked = 0
        /\ Resolve(k, <<>>)
        /\ Same /\ Free /\ UNCHANGED <<cache, jobs, url, stored>>

-----------------------------------------------------------------------------

Effects == Seed \/ Clamp \/ ResetPersonal
UserActs ==
    \/ Leave \/ SortIt \/ FilterIt \/ GroupIt \/ SizeIt \/ ResetIt \/ TurnPage
    \/ SetViewMode \/ Type \/ ClearQuery \/ SearchAll \/ HandleSearchSelect
    \/ HandleToggleItemStatus \/ OpenItemDialog \/ OpenListDialog \/ CloseDialog
    \/ HandleSubmitRating \/ HandleDeleteItem \/ HandleUpdateList \/ HandleDeleteList
    \/ HandleApplySortAsListOrder \/ HandleEnterReorderMode \/ DragStart \/ DragOver
    \/ DragEnd \/ DragCancel \/ HandleCancelReorder \/ HandleSaveReorder
Settled ==
    \/ ToggleDone \/ ToggleFailed \/ RateDone \/ RateFailed \/ DeleteItemDone \/ DeleteItemFailed
    \/ UpdateDone \/ UpdateFailed \/ DeleteListDone \/ DeleteListFailed
    \/ ReorderDone \/ ReorderFailed \/ ApplyDone \/ ApplyFailed
Answered == \E j \in jobs : CarryOut(j) \/ Refuse(j) \/ LoseAnswer(j)
Read == \E k \in DOMAIN cache : Deliver(k) \/ LoseRead(k)
\* A mutation settles beside reads it does not restart, or its page is gone: the patch the
\* page then makes after the invalidation passes for a fresh read.
Loose ==
    \/ jobs # {} /\ Unhealed(Active)
    \/ \E j \in Jobs({"deleteItem", "reorder"}) : ~j.mount
Step ==
    \/ Effects
    \/ ~Due /\ OpenPage
    \/ ~Due /\ Reload
    \/ ~Due /\ UserActs
    \/ ~Due /\ (Settled \/ Answered \/ Read \/ ReadCancelled)
Next == Step /\ hopped' = (hopped \/ Loose')

Spec == Init /\ [][Next]_vars

-----------------------------------------------------------------------------
(* Properties *)

TypeOK ==
    /\ list \in Lists /\ reordering \in BOOLEAN /\ hopped \in BOOLEAN
    /\ \A n \in DOMAIN hist : Range(hist[n].order) \subseteq Range(FirstOrder)
                              /\ hist[n].done \subseteq Range(hist[n].order)
    /\ \A k \in DOMAIN cache : k.of \in {"page", "full", "stats", "list"}
                               /\ cache[k].asked \in 0..Len(hist)
    /\ \A j \in jobs : j.state \in {"sent", "done", "refused"}
    /\ page.open => Keys(Q) \subseteq DOMAIN cache
    /\ acts \in 0..MaxActs /\ losses \in 0..MaxLosses

\* What an open page shows once nothing is in flight is what Core has: every patch a
\* mutation made, every rollback and every read that raced it is healed by the reads
\* its settling asks for.  After a step that Loose describes nothing is promised.
Quiet == View = "page" /\ ~Due /\ jobs = {} /\ ~hopped /\ Still
OpenPageIsTrue ==
    Quiet /\ ~Server.gone =>
        /\ \A k \in Active : cache[k].fresh => Data(cache, k) = Answer(Server, k)
        /\ Q.filters = {} /\ (\A k \in Active : cache[k].fresh) => CompletionRate <= 100

\* Saving the order the reorder mode was entered with changes nothing: the temporary
\* sort of the page is not the list's canonical order.
SavedOrderIsChosen ==
    \A j \in Jobs({"reorder"}) :
        j.items = j.was /\ j.items # <<>> => IdsOf(j.items) = Server.order
=============================================================================
