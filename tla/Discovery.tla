------------------------------- MODULE Discovery -------------------------------
(***************************************************************************)
(* The public pages that find titles: home, search and browse, with the     *)
(* input that searches when typing settles, the navigation that follows it, *)
(* and the reads through the web server.                                    *)
(*                                                                          *)
(* A page is what its route's loader read: [view, q, n, sort, adult], the   *)
(* query, the number of a browse page, its order, and whether the viewer    *)
(* has adult titles included.  A navigation is on its way in nav until the  *)
(* root route has asked for session and settings again and the loader has   *)
(* run; the address is then already the new one.  One family is browsed;    *)
(* country and route errors are left out.  hist holds what Core resolves.   *)
(***************************************************************************)
EXTENDS Catalog, QueryCache

CONSTANTS Texts,          \* what may stand in the input
          Trim,           \* text -> the query normalizeSearchQuery makes of it
          Titles,         \* what the proxy finds: [title, adult, found, page]
          Family,         \* the type that is browsed
          Resolvable,     \* sets Core may answer with
          MaxActs, MaxLosses, MaxMoves    \* bounds: user's steps, failed reads, Core's moves

VARIABLES page, nav, input, last, adult, acts, losses
vars == <<hist, cache, page, nav, input, last, adult, acts, losses>>

Page(v, q, n, sort, a) == [view |-> v, q |-> q, n |-> n, sort |-> sort, adult |-> a]
Home(a) == Page("home", "", 1, "popular", a)
Search(q, a) == Page("search", q, 1, "popular", a)
\* Results of a query are ordered by relevance: the address has no order then.
Browse(q, n, sort, a) == Page("browse", q, n, IF q = "" THEN sort ELSE "popular", a)

\* The address: where the latest navigation goes.
Loc == IF nav = {} THEN page ELSE CHOOSE to \in nav : TRUE

-----------------------------------------------------------------------------
(* Reads *)

\* Search reads for the settled query, the others for what the loader read.
Key_anyOrder(p, i) ==
    CASE p.view = "search" -> Search(i.debounced, p.adult)
      [] p.view = "browse" -> Browse(p.q, p.n, "popular", FALSE)
      [] OTHER -> Home(FALSE)
Key(p, i) ==
    CASE p.view = "search" -> Search(i.debounced, p.adult)
      [] p.view = "browse" -> Browse(p.q, p.n, p.sort, FALSE)
      [] OTHER -> Home(FALSE)
Enabled(k) == k.view = "search" => k.q # ""

\* The proxy's answer for a key.
Proxied(k) ==
    {t \in Titles : /\ k.q \in t.found /\ (t.adult => k.adult)
                    /\ k.view = "browse" => t.title.type = Family /\ t.page = k.n}
TotalPages(q) == Cardinality({t.page : t \in {x \in Titles : q \in x.found /\ x.title.type = Family}})
Answer(k, resolved) ==
    [for |-> k, status |-> IF Proxied(k) = {} THEN "empty" ELSE "complete",
     pages |-> TotalPages(k.q),
     items |-> ResolveCatalogContentIds(k.view, {t.title : t \in Proxied(k)}, resolved)]
\* What the server puts in place of a browse page it could not read.
DegradedBrowseResponse(k) == [for |-> k, status |-> "degraded", pages |-> 0, items |-> {}]

\* While a key has no data yet, what was held before stays; an empty query shows nothing.
Held ==
    LET k == Key(page, input)
    IN  CASE Has(cache, k) -> {Data(cache, k)}
          [] ~Has(cache, k) /\ ~Entry(cache, k).failed /\ last # {} /\ page.view # "home" ->
                 {Data(cache, CHOOSE l \in last : TRUE)}
          [] OTHER -> {}
Shown == IF Enabled(Key(page, input)) THEN Held ELSE {}
Fetching == Entry(cache, Key(page, input)).asked > 0
Error == Entry(cache, Key(page, input)).failed
HasResults == \E d \in Held : d.items # {}

\* The sections a page shows.
SearchPage ==
    LET loading == Fetching /\ Held = {}
        q == Trim[input.value]
    IN  {s \in {"loading", "results", "nothing", "error", "initial"} :
            CASE s = "loading" -> loading \/ (q # "" /\ ~HasResults /\ ~Error)
              [] s = "results" -> ~loading /\ ~Error /\ input.debounced # "" /\ HasResults
              [] s = "nothing" -> ~loading /\ ~Error /\ input.debounced # "" /\ ~HasResults
              [] s = "error" -> Error /\ ~loading
              [] OTHER -> q = "" /\ input.debounced = "" /\ ~loading /\ ~Error}
BrowsePage ==
    {s \in {"loading", "results", "error", "initial", "degraded", "nothing"} :
        CASE s = "loading" -> Fetching /\ Shown = {}
          [] s = "error" -> Error /\ Shown = {}
          [] s = "results" -> HasResults
          [] s = "initial" -> \E d \in Shown : d.status = "empty" /\ d.items = {}
          [] s = "degraded" -> \E d \in Shown : d.status = "degraded"
          [] OTHER -> \E d \in Shown : d.status # "empty" /\ d.items = {}}
HomePage ==
    {s \in {"loading", "results", "error", "nothing"} :
        CASE s = "loading" -> ~HasResults /\ ~Error /\ Fetching
          [] s = "error" -> Error
          [] s = "results" -> ~Error /\ HasResults
          [] OTHER -> ~HasResults /\ ~(Fetching /\ Shown = {})}

\* Page p with input i over cache c: the key in view is read if it is due, and a read
\* nobody looks at any more is broken off, except the homepage's.
Render(p, i, c, old) ==
    LET k == Key(p, i)
        gone == Key(page, input)
        left == IF gone # k /\ gone.view # "home" THEN Cancel(c, {gone} \cap DOMAIN c) ELSE c
    IN  /\ page' = p /\ input' = i
        /\ cache' = IF Enabled(k) THEN Observe(left, {k}, old) ELSE left
        /\ last' = IF Has(cache', k) THEN {k}
                   ELSE IF p.view = page.view THEN last
                   ELSE {}

-----------------------------------------------------------------------------
(* The input: what stands in it and the query that has settled.  The timer   *)
(* runs while they differ.                                                    *)

Both(q) == [value |-> q, debounced |-> q]
Debouncing == Trim[input.value] # input.debounced

\* Another query from the page's side replaces what stands in the input.
InitialValue(q, before) == IF q = before THEN input ELSE Both(q)

\* The callbacks: the search page compares with the address, the browse toolbar with
\* the page, the navigation bar of the home page has the address for its input.
UpdateRouteQuery(q) == IF q = Loc.q THEN nav ELSE {Search(q, page.adult)}
UpdateSearch(q) == IF q = page.q THEN nav ELSE {Browse(q, 1, page.sort, page.adult)}
NavigateToSearch(q) ==
    CASE Loc.view # "search" -> IF q = "" THEN nav ELSE {Search(q, page.adult)}
      [] OTHER -> UpdateRouteQuery(q)
OnDebouncedChange(q) ==
    CASE page.view = "search" -> UpdateRouteQuery(q)
      [] page.view = "browse" -> UpdateSearch(q)
      [] OTHER -> NavigateToSearch(q)

\* The home page's input has the query of the address, once that is a search.
Publish(value, q) ==
    /\ nav' = OnDebouncedChange(q)
    /\ LET follows == page.view = "home" /\ nav' # nav
       IN  Render(page, [value |-> IF follows THEN q ELSE value, debounced |-> q], cache, FALSE)
    /\ UNCHANGED <<hist, adult, losses>>

Act == acts < MaxActs /\ acts' = acts + 1

OnChange(t) ==
    /\ Act /\ t # input.value
    /\ input' = [input EXCEPT !.value = t]
    /\ UNCHANGED <<hist, cache, page, nav, last, adult, losses>>
TimerFires ==
    /\ Debouncing
    /\ Publish(input.value, Trim[input.value])
    /\ UNCHANGED acts
\* The browse form's button, and the cross of the inputs that have one.
Commit ==
    /\ Act /\ page.view = "browse"
    /\ Publish(input.value, Trim[input.value])
Clear ==
    /\ Act /\ page.view # "home" /\ input.value # ""
    /\ Publish("", "")

-----------------------------------------------------------------------------
(* Links, loaders and time *)

Go(to) == Act /\ nav' = {to} /\ UNCHANGED <<hist, cache, page, input, last, adult, losses>>

\* The pages of the family, under results only.
PageLink ==
    \E d \in Shown, n \in {page.n - 1, page.n + 1} :
        /\ page.view = "browse" /\ d.items # {} /\ n \in 1..d.pages
        /\ Go(Browse(page.q, n, page.sort, page.adult))
SortLink ==
    \E s \in {"popular", "recent"} :
        /\ page.view = "browse" /\ page.q = ""
        /\ Go(Browse("", page.n, s, page.adult))
\* The heading of a section of results.
BrowseSectionLink ==
    /\ page.view \in {"home", "search"}
    /\ page.view = "home" => HasResults /\ ~Error
    /\ page.view = "search" => SearchPage \cap {"results", "nothing"} # {}
    /\ Go(Browse(IF page.view = "search" THEN input.debounced ELSE "", 1, "popular", page.adult))
HomeLink == page.view # "home" /\ Go(Home(page.adult))

\* The loader is done.
Loaded ==
    \E to \in nav, old \in BOOLEAN :
        LET p == [to EXCEPT !.adult = adult]
            kept == p.view = page.view
            i == IF kept THEN InitialValue(p.q, page.q) ELSE Both(p.q)
        IN  /\ nav' = {}
            /\ Render(p, i, cache, old)
            /\ UNCHANGED <<hist, adult, acts, losses>>

\* The window has the focus again, the data are stale.
Focus ==
    /\ Act /\ Enabled(Key(page, input))
    /\ Render(page, input, cache, TRUE)
    /\ UNCHANGED <<hist, nav, adult, losses>>
Deliver ==
    \E k \in {x \in DOMAIN cache : cache[x].asked > 0}, v \in DOMAIN hist :
        /\ v >= cache[k].asked
        /\ LET c == Arrived(cache, k, Answer(k, hist[v]))
           IN  /\ cache' = c
               /\ last' = IF k = Key(page, input) THEN {k} ELSE last
        /\ UNCHANGED <<hist, page, nav, input, adult, acts, losses>>
\* The proxy is out of reach, or Core does not name the titles.
LoseRead ==
    \E k \in {x \in DOMAIN cache : cache[x].asked > 0} :
        /\ losses < MaxLosses /\ losses' = losses + 1
        /\ cache' = Lost(cache, k)
        /\ UNCHANGED <<hist, page, nav, input, last, adult, acts>>

CoreMoves ==
    /\ Len(hist) <= MaxMoves
    /\ \E r \in Resolvable : hist' = Append(hist, r)
    /\ UNCHANGED <<cache, page, nav, input, last, adult, acts, losses>>
\* The preference is changed in another tab.
ChangeAdult ==
    /\ Act /\ adult' = ~adult
    /\ UNCHANGED <<hist, cache, page, nav, input, last, losses>>

\* The first page comes from the server, with its data unless the read failed there.
Prefetched(k) ==
    IF ~Enabled(k) THEN {{}}
    ELSE IF k.view = "browse" THEN {{Answer(k, hist[1])}, {DegradedBrowseResponse(k)}}
    ELSE {{Answer(k, hist[1])}, {}}
Init ==
    /\ \E r \in Resolvable : hist = <<r>>
    /\ adult \in BOOLEAN
    /\ \E p \in {Home(adult)} \cup {Search(Trim[t], adult) : t \in Texts}
                \cup {Browse(Trim[t], 1, "popular", adult) : t \in Texts} :
         /\ page = p /\ input = Both(p.q)
         /\ LET k == Key(p, Both(p.q))
            IN  \E d \in Prefetched(k) :
                  /\ cache = IF ~Enabled(k) THEN <<>>
                             ELSE [x \in {k} |-> [NoEntry EXCEPT
                                      !.data = d, !.fresh = d # {}, !.asked = IF d = {} THEN 1 ELSE 0]]
                  /\ last = IF d = {} THEN {} ELSE {k}
    /\ nav = {} /\ acts = 0 /\ losses = 0

Next ==
    \/ \E t \in Texts : OnChange(t)
    \/ TimerFires \/ Commit \/ Clear \/ PageLink \/ SortLink \/ BrowseSectionLink \/ HomeLink
    \/ Loaded \/ Focus \/ Deliver \/ LoseRead \/ CoreMoves \/ ChangeAdult

Spec == Init /\ [][Next]_vars

-----------------------------------------------------------------------------
\* Typing has settled, no navigation is under way and no read either.
Quiet == nav = {} /\ ~Debouncing /\ Still /\ page.view # "home"

(* Once it is quiet, what is shown was read for just the query, page, order  *)
(* and adult choice of the page, never for those before; and on the search   *)
(* page that query is the address's (SearchRouteShell, keepPreviousData).    *)
ShownIsAsked ==
    Quiet =>
      /\ page.view = "search" => page.q = input.debounced
      /\ \A d \in Shown :
            /\ d.for.view = page.view /\ d.for.q = page.q
            /\ d.for.n = page.n /\ d.for.sort = page.sort
            /\ page.view = "search" => d.for.adult = page.adult

(* The address is the one truth about the query: once it is quiet, the input *)
(* has settled on it, on the search page and on the browse page alike.       *)
AddressIsTruth == Quiet => page.q = input.debounced

(* The answer of every read: a card leads to the title Core gave for just    *)
(* that identity, a browse page has no card that leads nowhere, and while    *)
(* judgments are shown the homepage has titles only that Core has called     *)
(* safe, in a judgment of the title as it is (server/catalog.ts).            *)
CardsAreRight ==
    \A k \in DOMAIN cache : \A d \in cache[k].data : \A t \in d.items :
        /\ t.dennId # 0 => \E v \in DOMAIN hist : \E r \in hist[v] :
               r.id = t.id /\ r.type = t.type /\ r.dennId = t.dennId
        /\ k.view = "browse" => t.dennId # 0
        /\ k.view = "home" /\ ModerationVisible => \E v \in DOMAIN hist : \E r \in hist[v] :
               /\ r.id = t.id /\ r.type = t.type
               /\ r.summary.status = "complete" /\ r.summary.classification = "safe"
=============================================================================
