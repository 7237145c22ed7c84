------------------------------- MODULE MCPages -------------------------------
(***************************************************************************)
(* The pages of the web client for TLC: a behaviour opens one of them (its  *)
(* scene), or looks at one sample of what the pages arrange without state.  *)
(* The pages do not share variables, so the state space is the sum of       *)
(* theirs; those of the scenes that are not played stay Off.                *)
(***************************************************************************)
EXTENDS MCListPage

CONSTANTS
  FActs, FSaved,                              \* of Forms: its bounds
  HAnchors, HViewports, HHeights, HGap,       \* of HoverCard: the browser's measures
  WItems, WNoImage, WIndex,                   \* of Artwork: what may be opened, and a bound
  CItems, CTypeOf, CReviewers, CFavoriteLimit, CNoItem, CStates,
  CActs, CLosses,                             \* of ContentPage: its parameters and bounds
  PContents, PNoContent, PActs, PLosses, POutside,  \* of ProfilePage: its parameters and bounds
  ASeasons, ALists, AFirstLists, AActs, ALosses,  \* of AddToList: its parameters and bounds
  DTexts, DTrim, DTitles, DFamily, DResolvable, DModerationVisible,
  DActs, DLosses, DMoves                      \* of Discovery: its parameters and bounds

VARIABLES
  scene, sample,
  cHist, cCache, cJobs, cPage, cLocal, cActs, cLosses, cHopped,
  aHist, aCache, aModal, aTasks, aActs, aLosses, aKnown, aBlind,
  fForm, fSaved, fJob, fBusy, fLeft, fActs,
  pHist, pCache, pView, pMount, pSearch, pLoaded, pShown, pBanner, pPreviousKey, pUser,
  pPref, pJobs, pLoose, pActs, pLosses, pOutside,
  hPointer, hFocus, hLayout, hHover, hLeaving, hVisit, hDismissed, hStray,
  wPage, wViewer, wReveal, wLightbox, wAsked,
  oTitle, oSelectedAction, oHasError,
  dHist, dCache, dPage, dNav, dInput, dLast, dAdult, dActs, dLosses

-----------------------------------------------------------------------------
(* Values of the constants *)

\* Two films, the first with a rating of somebody else.
MCContents == {"m", "n"}
MCTypeOf == [i \in MCContents |-> "MOVIE"]
MCReviewers == [i \in MCContents |-> IF i = "m" THEN <<"other">> ELSE <<>>]

\* A card in the middle of the window and one at its corner.
MCAnchors == {[top |-> 3, left |-> 2, width |-> 4, height |-> 6],
              [top |-> 12, left |-> 9, width |-> 4, height |-> 6]}

WItem(id, type, banner, images, card) ==
    [id |-> id, type |-> type, banner |-> banner, images |-> images, card |-> card]
MCViewports == {[width |-> 14, height |-> 14]}
MCItems == {WItem(1, "MOVIE", "b", <<"u", "v", "u">>, "c"), WItem(1, "MOVIE", "none", <<"w">>, "d"),
            WItem(2, "SEASON", "none", <<"none", "u">>, "none")}

OOffer(said, plain, id, logo, at) ==
    [name |-> [said |-> said, plain |-> plain], id |-> id, logo |-> logo, url |-> at]
OOffers == {OOffer("Netflix", "netflix", "8", "l", "http:n"),
            OOffer("NETFLIX", "netflix", "none", "l", "js"),
            OOffer("Amazon Prime", "amazon prime", "8", "none", "none"),
            OOffer("Amazon", "amazon video", "9", "none", "http:a"),
            OOffer("Netflix Ads", "netflix ads", "8", "none", "none")}
OGames == {<<"PS4", "ps4">>, <<"PlayStation 4", "ps4">>, <<"PS5", "ps5">>, <<"Future", "future">>}
OTitles ==
    {[type |-> "MOVIE", offers |-> <<[way |-> "flatrate", list |-> <<a, b>>],
                                     [way |-> "rent", list |-> <<c>>]>>]
         : a \in OOffers, b \in OOffers, c \in {o \in OOffers : o.url = "http:n"}}
    \cup {[type |-> "GAME", offers |-> <<[name |-> [said |-> p[1], plain |-> p[2]]],
                                        [name |-> [said |-> q[1], plain |-> q[2]]]>>]
         : p \in OGames, q \in OGames}
OConsoles == [p \in {"ps4", "ps5"} |->
    [name |-> p, family |-> "playstation", order |-> 10, released |-> IF p = "ps4" THEN 2 ELSE 3]]

MCTrim == [t \in {"", "a", "a ", "ab"} |-> IF t = "a " THEN "a" ELSE t]
DTitle(id, type, forAdults, found, n) ==
    [title |-> [id |-> id, type |-> type, dennId |-> 0,
                summary |-> [status |-> "none", classification |-> "none"]],
     adult |-> forAdults, found |-> found, page |-> n]
MCFound == {DTitle(5, "MOVIE", FALSE, {"", "a"}, 1), DTitle(5, "GAME", FALSE, {"", "a"}, 1),
            DTitle(6, "MOVIE", TRUE, {"", "ab"}, 2), DTitle(7, "PERSON", FALSE, {"ab"}, 1)}
DResolved(id, type, dennId, status, class) ==
    [id |-> id, type |-> type, dennId |-> dennId,
     summary |-> [status |-> status, classification |-> class]]
MCResolvable ==
    {{DResolved(5, "MOVIE", 1, "complete", "safe"), DResolved(5, "GAME", 2, "stale", "safe")},
     {DResolved(5, "MOVIE", 1, "complete", "adult"), DResolved(6, "MOVIE", 3, "complete", "safe")}}

\* As localeCompare orders them.
MCAlphabet == <<"1-2 Stars", "3-4 Stars", "5 Stars", "Amazon", "Amazon Prime", "DONE", "Future",
                "Game", "March", "May", "Movie", "Netflix", "NETFLIX", "PENDING", "PS4", "PS5",
                "PlayStation 4", "playstation", "Unrated">>

-----------------------------------------------------------------------------
(* The pages *)

C == INSTANCE ContentPage WITH
         hist <- cHist, cache <- cCache, jobs <- cJobs, page <- cPage, local <- cLocal,
         acts <- cActs, losses <- cLosses, hopped <- cHopped,
         MaxActs <- CActs, MaxLosses <- CLosses, Items <- CItems, TypeOf <- CTypeOf,
         FavoriteLimit <- CFavoriteLimit, NoItem <- CNoItem, Reviewers <- CReviewers,
         StatesOffered <- CStates
A == INSTANCE AddToList WITH
         hist <- aHist, cache <- aCache, modal <- aModal, tasks <- aTasks, acts <- aActs,
         losses <- aLosses, known <- aKnown, blind <- aBlind,
         MaxActs <- AActs, MaxLosses <- ALosses, Seasons <- ASeasons, Lists <- ALists,
         FirstLists <- AFirstLists
F == INSTANCE Forms WITH
         form <- fForm, saved <- fSaved, job <- fJob, busy <- fBusy, left <- fLeft,
         acts <- fActs,
         MaxActs <- FActs, MaxSaved <- FSaved
P == INSTANCE ProfilePage WITH
         hist <- pHist, cache <- pCache, view <- pView, mount <- pMount, search <- pSearch,
         loaded <- pLoaded, shown <- pShown, banner <- pBanner, previousKey <- pPreviousKey,
         user <- pUser, pref <- pPref, jobs <- pJobs, loose <- pLoose, acts <- pActs,
         losses <- pLosses, outside <- pOutside,
         Contents <- PContents, NoContent <- PNoContent, MaxActs <- PActs, MaxLosses <- PLosses,
         MaxOutside <- POutside
H == INSTANCE HoverCard WITH
         pointer <- hPointer, focus <- hFocus, layout <- hLayout, hover <- hHover,
         leaving <- hLeaving, visit <- hVisit, dismissed <- hDismissed, stray <- hStray,
         Anchors <- HAnchors, Viewports <- HViewports, Heights <- HHeights, Gap <- HGap
W == INSTANCE Artwork WITH
         page <- wPage, viewer <- wViewer, reveal <- wReveal, lightbox <- wLightbox,
         asked <- wAsked,
         Items <- WItems, NoImage <- WNoImage, MaxIndex <- WIndex
O == INSTANCE Platforms WITH
         title <- oTitle, selectedAction <- oSelectedAction, hasError <- oHasError,
         Titles <- OTitles, NoneOf <- "none", PlansAndChannels <- {"netflix ads"},
         WebUrls <- {"http:n", "http:a"}, Consoles <- OConsoles, Alphabet <- MCAlphabet
D == INSTANCE Discovery WITH
         hist <- dHist, cache <- dCache, page <- dPage, nav <- dNav, input <- dInput,
         last <- dLast, adult <- dAdult, acts <- dActs, losses <- dLosses,
         MaxActs <- DActs, MaxLosses <- DLosses, MaxMoves <- DMoves,
         ModerationVisible <- DModerationVisible, Texts <- DTexts, Trim <- DTrim, Titles <- DTitles,
         Family <- DFamily, Resolvable <- DResolvable

\* The states a content page offers are those of the progress policy.
ASSUME ContentAssumption ==
    CActs \in Nat /\ CLosses \in Nat /\ CStates \subseteq C!Rules!Status
\* The proxy does not name titles of Core, and people are neither browsed nor on its homepage.
ASSUME DiscoveryAssumption ==
    /\ \A t \in DTitles : /\ t.title = D!Unnamed(t.title.id, t.title.type)
                          /\ "" \in t.found => t.title.type \notin {"PERSON", "unknown"}
    /\ DFamily \notin {"PERSON", "unknown"}

-----------------------------------------------------------------------------
(* Samples of what the list page arranges *)

L == INSTANCE ListLayout WITH Alphabet <- MCAlphabet

LItem(id, rating, status, type, added, order, by) ==
    [id |-> id, rating |-> rating, context_status |-> status, content_type |-> type,
     date_added |-> added, list_order |-> order, added_at |-> order, added_by |-> by,
     context_completed_at |-> IF status = "DONE" THEN id ELSE 0, name |-> by]
LItems == {LItem(1, 0, "", "Movie", "May", 3, "Amazon"), LItem(2, 9, "DONE", "Game", "March", 1, "PS4"),
           LItem(3, 6, "PENDING", "Movie", "March", 2, "Netflix"), LItem(4, 0, "DONE", "Game", "May", 4, "PS4")}
LRows == UNION {{s \in [1..n -> LItems] : Cardinality(Range(s)) = n} : n \in 0..3}
LCriteria == {<<>>, <<"rating">>, <<"rating", "context_status">>, <<"date_added", "none", "content_type">>}
LayoutSamples ==
    [kind : {"layout"}, items : LRows, criteria : LCriteria,
     by : {"list_order", "context_completed_at", "list_rating", "name"}, order : {"asc", "desc"},
     size : {1, 2}]
QuerySamples ==
    [kind : {"query"},
     query : [filters : SUBSET {"context_status", "tracking_status"}, ranges : SUBSET {"added_at_gte"},
              sort : {<<>>, <<Asc("list_order")>>, <<Desc("tracking_status"), Asc("artist")>>},
              group : {None, "artist", "tracking_status"}, page : 1..2, size : Sizes]]
GroupSamples ==
    [kind : {"groups"}, items : LRows, by : {"content_type", "context_status"},
     named : {<<>>, <<"Game">>, <<"DONE", "PENDING">>}]
Samples == LayoutSamples \cup QuerySamples \cup GroupSamples

-----------------------------------------------------------------------------
(* Scenes *)

Off == "off"
contentVars == <<cHist, cCache, cJobs, cPage, cLocal, cActs, cLosses, cHopped>>
addToListVars == <<aHist, aCache, aModal, aTasks, aActs, aLosses, aKnown, aBlind>>
formsVars == <<fForm, fSaved, fJob, fBusy, fLeft, fActs>>
profileVars == <<pHist, pCache, pView, pMount, pSearch, pLoaded, pShown, pBanner, pPreviousKey, pUser,
    pPref, pJobs, pLoose, pActs, pLosses, pOutside>>
cardVars == <<hPointer, hFocus, hLayout, hHover, hLeaving, hVisit, hDismissed, hStray>>
artworkVars == <<wPage, wViewer, wReveal, wLightbox, wAsked>>
platformsVars == <<oTitle, oSelectedAction, oHasError>>
discoveryVars == <<dHist, dCache, dPage, dNav, dInput, dLast, dAdult, dActs, dLosses>>
ListOff ==
  /\ list = Off /\ hist = Off /\ cache = Off /\ jobs = Off /\ url = Off /\ stored = Off
  /\ page = Off /\ reordering = Off /\ acts = Off /\ losses = Off /\ hopped = Off
ContentOff ==
  /\ cHist = Off /\ cCache = Off /\ cJobs = Off /\ cPage = Off /\ cLocal = Off
  /\ cActs = Off /\ cLosses = Off /\ cHopped = Off
AddToListOff ==
  /\ aHist = Off /\ aCache = Off /\ aModal = Off /\ aTasks = Off /\ aActs = Off
  /\ aLosses = Off /\ aKnown = Off /\ aBlind = Off
FormsOff ==
  /\ fForm = Off /\ fSaved = Off /\ fJob = Off /\ fBusy = Off /\ fLeft = Off
  /\ fActs = Off
ProfileOff ==
  /\ pHist = Off /\ pCache = Off /\ pView = Off /\ pMount = Off /\ pSearch = Off
  /\ pLoaded = Off /\ pShown = Off /\ pBanner = Off /\ pPreviousKey = Off /\ pUser = Off
  /\ pPref = Off /\ pJobs = Off /\ pLoose = Off /\ pActs = Off /\ pLosses = Off
  /\ pOutside = Off
CardOff ==
  /\ hPointer = Off /\ hFocus = Off /\ hLayout = Off /\ hHover = Off /\ hLeaving = Off
  /\ hVisit = Off /\ hDismissed = Off /\ hStray = Off
ArtworkOff ==
  /\ wPage = Off /\ wViewer = Off /\ wReveal = Off /\ wLightbox = Off /\ wAsked = Off
PlatformsOff ==
  /\ oTitle = Off /\ oSelectedAction = Off /\ oHasError = Off
DiscoveryOff ==
  /\ dHist = Off /\ dCache = Off /\ dPage = Off /\ dNav = Off /\ dInput = Off
  /\ dLast = Off /\ dAdult = Off /\ dActs = Off /\ dLosses = Off

PagesInit ==
  \/ /\ scene = "list" /\ Init /\ sample = Off
     /\ ContentOff /\ AddToListOff /\ FormsOff /\ ProfileOff /\ CardOff /\ ArtworkOff
     /\ PlatformsOff /\ DiscoveryOff
  \/ /\ scene = "content" /\ C!Init /\ sample = Off
     /\ ListOff /\ AddToListOff /\ FormsOff /\ ProfileOff /\ CardOff /\ ArtworkOff
     /\ PlatformsOff /\ DiscoveryOff
  \/ /\ scene = "addToList" /\ A!Init /\ sample = Off
     /\ ListOff /\ ContentOff /\ FormsOff /\ ProfileOff /\ CardOff /\ ArtworkOff
     /\ PlatformsOff /\ DiscoveryOff
  \/ /\ scene = "forms" /\ F!Init /\ sample = Off
     /\ ListOff /\ ContentOff /\ AddToListOff /\ ProfileOff /\ CardOff /\ ArtworkOff
     /\ PlatformsOff /\ DiscoveryOff
  \/ /\ scene = "profile" /\ P!Init /\ sample = Off
     /\ ListOff /\ ContentOff /\ AddToListOff /\ FormsOff /\ CardOff /\ ArtworkOff
     /\ PlatformsOff /\ DiscoveryOff
  \/ /\ scene = "card" /\ H!Init /\ sample = Off
     /\ ListOff /\ ContentOff /\ AddToListOff /\ FormsOff /\ ProfileOff /\ ArtworkOff
     /\ PlatformsOff /\ DiscoveryOff
  \/ /\ scene = "artwork" /\ W!Init /\ sample = Off
     /\ ListOff /\ ContentOff /\ AddToListOff /\ FormsOff /\ ProfileOff /\ CardOff
     /\ PlatformsOff /\ DiscoveryOff
  \/ /\ scene = "platforms" /\ O!Init /\ sample = Off
     /\ ListOff /\ ContentOff /\ AddToListOff /\ FormsOff /\ ProfileOff /\ CardOff
     /\ ArtworkOff /\ DiscoveryOff
  \/ /\ scene = "discovery" /\ D!Init /\ sample = Off
     /\ ListOff /\ ContentOff /\ AddToListOff /\ FormsOff /\ ProfileOff /\ CardOff
     /\ ArtworkOff /\ PlatformsOff
  \/ /\ scene = "samples" /\ sample \in Samples
     /\ ListOff /\ ContentOff /\ AddToListOff /\ FormsOff /\ ProfileOff /\ CardOff
     /\ ArtworkOff /\ PlatformsOff /\ DiscoveryOff

PagesNext ==
  /\ UNCHANGED <<scene, sample>>
  /\ \/ /\ scene = "list" /\ Next
        /\ UNCHANGED <<contentVars, addToListVars, formsVars, profileVars, cardVars,
                        artworkVars, platformsVars, discoveryVars>>
     \/ /\ scene = "content" /\ C!Next
        /\ UNCHANGED <<vars, addToListVars, formsVars, profileVars, cardVars, artworkVars,
                        platformsVars, discoveryVars>>
     \/ /\ scene = "addToList" /\ A!Next
        /\ UNCHANGED <<vars, contentVars, formsVars, profileVars, cardVars, artworkVars,
                        platformsVars, discoveryVars>>
     \/ /\ scene = "forms" /\ F!Next
        /\ UNCHANGED <<vars, contentVars, addToListVars, profileVars, cardVars,
                        artworkVars, platformsVars, discoveryVars>>
     \/ /\ scene = "profile" /\ P!Next
        /\ UNCHANGED <<vars, contentVars, addToListVars, formsVars, cardVars, artworkVars,
                        platformsVars, discoveryVars>>
     \/ /\ scene = "card" /\ H!Next
        /\ UNCHANGED <<vars, contentVars, addToListVars, formsVars, profileVars,
                        artworkVars, platformsVars, discoveryVars>>
     \/ /\ scene = "artwork" /\ W!Next
        /\ UNCHANGED <<vars, contentVars, addToListVars, formsVars, profileVars, cardVars,
                        platformsVars, discoveryVars>>
     \/ /\ scene = "platforms" /\ O!Next
        /\ UNCHANGED <<vars, contentVars, addToListVars, formsVars, profileVars, cardVars,
                        artworkVars, discoveryVars>>
     \/ /\ scene = "discovery" /\ D!Next
        /\ UNCHANGED <<vars, contentVars, addToListVars, formsVars, profileVars, cardVars,
                        artworkVars, platformsVars>>

allVars ==
  <<scene, sample, vars, contentVars, addToListVars, formsVars, profileVars, cardVars, artworkVars,
    platformsVars, discoveryVars>>
PagesSpec == PagesInit /\ [][PagesNext]_allVars

\* Bound: on the pages that change what Core keeps, a loss (and a change made elsewhere) is
\* counted as one of the two or three things that happen; of a personal list, which has
\* the acts of a shared one and a reset of its own, as the one.
Events ==
    /\ scene = "list" => acts + losses <= IF list = PersonalList THEN 1 ELSE MaxActs
    /\ scene = "content" => cActs + cLosses <= 3
    /\ scene = "addToList" => aActs + aLosses <= 3
    /\ scene = "profile" => pActs + pLosses + pOutside <= 3

-----------------------------------------------------------------------------
(* Properties: those of the pages, each in its scene *)

\* What the variables of each page may hold.
PagesTypeOK ==
    /\ scene = "list" => TypeOK
    /\ scene = "content" => C!TypeOK
    /\ scene = "addToList" => A!TypeOK
    /\ scene = "forms" => F!TypeOK
    /\ scene = "profile" => P!TypeOK

\* An open list shows what Core has, once its optimistic patches, their rollbacks and
\* the reads that raced them are through (useListItemActions, useListMutations).
ListIsTrue == scene = "list" => OpenPageIsTrue

SameRows(s, t) == Len(s) = Len(t) /\ Range(s) = Range(t)
\* Grouping, sorting and paging neither lose nor double a row; the rows of a group are in
\* the order asked for; the pages put together are the whole, and no page number leads
\* to an empty page (ListDetailPage/utils.ts, functions the page itself no longer calls).
LayoutIsWhole(s) ==
    LET groups == L!SortGroupedItems(
                    IF Len(s.criteria) = 1 THEN L!GroupItemsByCriterion(s.items, s.criteria[1])
                    ELSE L!GroupItemsComposite(s.items, s.criteria), s.by, s.order)
        flat == L!FlattenGroups(groups)
        Shows(n) == L!PaginateItems(flat, n, s.size)
        pages == Shows(1).pages
    IN  /\ SameRows(flat, s.items)
        /\ \A i, j \in DOMAIN groups : i # j => groups[i].key # groups[j].key
        /\ \A g \in Range(groups) : \A i, j \in DOMAIN g.items : i < j =>
              ~(IF s.order = "asc" THEN L!Ascends(g.items[j], g.items[i], s.by)
                                   ELSE L!Ascends(g.items[i], g.items[j], s.by))
        /\ FlattenSeq([n \in 1..pages |-> Shows(n).items]) = flat
        /\ flat # <<>> => \A n \in -1..pages + 1 : Shows(n).items # <<>>

\* The address holds a query whole, for the page and for the route's loader alike
\* unless it is about the tracking status (useExploreQuery, routes/lists/$id).
QueryIsKept(q) ==
    /\ ParseQuery(Serialize(q)) = q
    /\ \/ ParseListQuery(Serialize(q)) = q
       \/ "tracking_status" \in q.filters \cup {q.group} \cup {q.sort[i].field : i \in DOMAIN q.sort}

\* A page in groups has every row once, and no group is empty or there twice
\* (buildGroupedItems).
GroupsAreWhole(s) ==
    LET groups == BuildGroupedItems(s.items, s.named, s.by)
    IN  /\ SameRows(FlattenSeq([i \in DOMAIN groups |-> groups[i].items]), s.items)
        /\ \A i, j \in DOMAIN groups : groups[i].items # <<>> /\ (i # j => groups[i].key # groups[j].key)

\* What is arranged for the screen or the address is all there once: the rows and the
\* query of a list, and the platforms a title is offered on (PlatformsDisplay).
ArrangementsAreWhole ==
    /\ scene = "samples" =>
         CASE sample.kind = "layout" -> LayoutIsWhole(sample)
           [] sample.kind = "query" -> QueryIsKept(sample.query)
           [] sample.kind = "groups" -> GroupsAreWhole(sample)
    /\ scene = "platforms" => O!PlatformsAreRight

\* Who writes sees it: ratings, tracking and favorites on the content page
\* (useRatingMutations, useTrackingMutations), and the boxes of the add-to-list dialog
\* (useListOperations), whatever was lost or crossed.
WritesAreSeen ==
    /\ scene = "content" => C!ViewerSeesOwn
    /\ scene = "addToList" => A!BoxesShowOwnCalls

\* An untouched dialog shows the record as the page has it, without the error of an
\* earlier submission (RatingModal, EditListModal, CreateListModal, EditProfileModal).
DialogsShowRecords == scene = "forms" => F!DialogShowsRecord

\* A profile's banner is chosen or a favorite, its rows are those of the address, and
\* its owner sees what Core keeps (PublicProfilePage, usePublicProfileMutation).
ProfileIsTrue ==
    scene = "profile" => P!BannerIsFavorite /\ P!RowsMatchSearch /\ P!OwnerSeesOwn

\* Nothing comes up that nobody asked for: a popover on the screen has a reason, and one
\* that was dismissed stays away (useCardHover); artwork is uncovered just where the viewer
\* asked for it (useModerationArtworkReveal).
NothingUnasked ==
    /\ scene = "card" => H!PopoverIsRight
    /\ scene = "artwork" => W!RevealIsAsked

\* Search, browse and home show what was asked for, and their cards lead to the titles
\* Core gave for them (SearchPage, BrowsePage, server/catalog.ts).
DiscoveryIsTrue == scene = "discovery" => D!ShownIsAsked /\ D!CardsAreRight
=============================================================================
