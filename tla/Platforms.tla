------------------------------- MODULE Platforms -------------------------------
(***************************************************************************)
(* "Where to watch" and "Where to play" on a title's page: the platforms of *)
(* the providers' records brought together, one tile for each provider or   *)
(* family of consoles, and the choice of one way to watch.                  *)
(*                                                                          *)
(* A name is [said, plain]: as the record has it, and what                  *)
(* normalizeLookupValue leaves of it.  An offer is [name, id, logo, url].   *)
(* A title is [type, offers]: offers of a game are platforms and networks,  *)
(* those of another type are sequences [way, list] under a way to watch.    *)
(***************************************************************************)
EXTENDS ListLayout

CONSTANTS Titles, NoneOf,  \* NoneOf: no id, logo, url or way
          PlansAndChannels, \* plain names that contain an excluded marker
          WebUrls,          \* addresses new URL() takes, with http or https
          Consoles          \* plain name -> [name, family, order, released] of the records

VARIABLES title, selectedAction, hasError
vars == <<title, selectedAction, hasError>>

All == "all"

-----------------------------------------------------------------------------
(* Ways to watch and providers *)

Ways ==
    [stream |-> [order |-> 10, aliases |-> {"stream", "streaming", "flatrate", "subscription", "watch"}],
     free |-> [order |-> 20, aliases |-> {"free", "gratis"}],
     ads |-> [order |-> 30, aliases |-> {"ads", "ad supported", "with ads", "free with ads",
                                         "stream with ads"}],
     buy |-> [order |-> 40, aliases |-> {"buy", "purchase", "buying"}],
     rent |-> [order |-> 50, aliases |-> {"rent", "rental", "renting"}]]
WayOrder(k) == IF k \in DOMAIN Ways THEN Ways[k].order ELSE 1000
NormalizeContentAction(way) ==
    CASE \E k \in DOMAIN Ways : way \in Ways[k].aliases ->
             CHOOSE k \in DOMAIN Ways : way \in Ways[k].aliases
      [] way = NoneOf -> "other"
      [] OTHER -> way

ProviderAliases ==
    [p \in {"amazon prime", "amazon prime video"} |-> "amazon video"]
    @@ [p \in {"google play movies tv", "google play movies and tv"} |-> "google play"]
    @@ ("apple tv plus" :> "apple tv")
NormalizeProviderKey(name) ==
    IF name.plain \in DOMAIN ProviderAliases THEN ProviderAliases[name.plain] ELSE name.plain
ProviderPriorities ==
    ("netflix" :> 10) @@ ("amazon video" :> 20) @@ ("disney plus" :> 30) @@ ("apple tv" :> 40)
    @@ ("crunchyroll" :> 50) @@ ("google play" :> 60)
Priority(key) == IF key \in DOMAIN ProviderPriorities THEN ProviderPriorities[key] ELSE 500

IsExcludedProvider(name) == name.plain \in PlansAndChannels
Counts(offer) == offer.name.plain # "" /\ ~IsExcludedProvider(offer.name)
GetValidPlatformUrl(offer) == IF offer.url \in WebUrls THEN offer.url ELSE NoneOf

\* While platforms are gathered: the tiles in the order they came, the tile of each
\* provider id, the tiles of each name.
Nothing == [tiles |-> <<>>, ids |-> <<>>, names |-> <<>>]
Tile(g, key) == CHOOSE i \in DOMAIN g.tiles : g.tiles[i].key = key
NamesOf(g, nameKey) == IF nameKey \in DOMAIN g.names THEN g.names[nameKey] ELSE <<>>

FindExistingProviderKey_idOnly(g, id, nameKey) ==
    CASE id # NoneOf /\ id \in DOMAIN g.ids -> {g.ids[id]}
      [] id = NoneOf /\ Len(NamesOf(g, nameKey)) = 1 -> {g.names[nameKey][1]}
      [] OTHER -> {}
FindExistingProviderKey(g, id, nameKey) ==
    IF id # NoneOf /\ id \in DOMAIN g.ids THEN {g.ids[id]}
    ELSE IF Len(NamesOf(g, nameKey)) = 1 THEN {g.names[nameKey][1]}
    ELSE {}

CreateProviderKey(g, id, nameKey) ==
    LET Key(n) == [by |-> IF id = NoneOf THEN "name" ELSE "id",
                   of |-> IF id = NoneOf THEN nameKey ELSE id, suffix |-> n]
        free == {n \in 1..Len(g.tiles) + 1 : \A i \in DOMAIN g.tiles : g.tiles[i].key # Key(n)}
    IN  Key(CHOOSE n \in free : \A m \in free : n <= m)

MergePlatformAction(actions, way, url) ==
    LET here == {i \in DOMAIN actions : actions[i].key = way}
        urls == IF url = NoneOf THEN <<>> ELSE <<url>>
    IN  IF here = {} THEN Append(actions, [key |-> way, urls |-> urls])
        ELSE [i \in DOMAIN actions |->
                 IF i \in here /\ url \notin Range(actions[i].urls)
                 THEN [actions[i] EXCEPT !.urls = @ \o urls] ELSE actions[i]]

Gather(g, way, offer) ==
    LET nameKey == NormalizeProviderKey(offer.name)
        found == FindExistingProviderKey(g, offer.id, nameKey)
        key == IF found = {} THEN CreateProviderKey(g, offer.id, nameKey)
               ELSE CHOOSE k \in found : TRUE
        new == [key |-> key, name |-> offer.name, logo |-> offer.logo, id |-> offer.id,
                priority |-> Priority(nameKey), actions |-> <<>>]
        tiles == IF found = {} THEN Append(g.tiles, new) ELSE g.tiles
        i == Tile([g EXCEPT !.tiles = tiles], key)
        Merged(t) == [t EXCEPT !.logo = IF @ = NoneOf THEN offer.logo ELSE @,
                               !.id = IF @ = NoneOf THEN offer.id ELSE @,
                               !.actions = MergePlatformAction(@, way, GetValidPlatformUrl(offer))]
    IN  [tiles |-> [tiles EXCEPT ![i] = Merged(@)],
         ids |-> IF offer.id = NoneOf THEN g.ids ELSE (offer.id :> key) @@ g.ids,
         names |-> IF found # {} THEN g.names
                   ELSE (nameKey :> Append(NamesOf(g, nameKey), key)) @@ g.names]

InOrder(actions) ==
    SortedBy(actions, LAMBDA a, b : \/ WayOrder(a.key) < WayOrder(b.key)
                                    \/ WayOrder(a.key) = WayOrder(b.key) /\ Before(a.key, b.key))
NormalizeContentPlatforms(offers) ==
    LET Under(g, w) == FoldLeft(LAMBDA h, o :
                           IF Counts(o) THEN Gather(h, NormalizeContentAction(w.way), o) ELSE h, g, w.list)
        tiles == FoldLeft(Under, Nothing, offers).tiles
    IN  SortedBy([i \in DOMAIN tiles |-> [tiles[i] EXCEPT !.actions = InOrder(@)]],
                 LAMBDA a, b : \/ a.priority < b.priority
                               \/ a.priority = b.priority /\ Before(a.name.said, b.name.said))

GetAvailableContentActions(platforms) ==
    LET seen == FlattenSeq([i \in DOMAIN platforms |->
                    [n \in DOMAIN platforms[i].actions |-> platforms[i].actions[n].key]])
        first == FoldLeft(LAMBDA s, k : IF k \in Range(s) THEN s ELSE Append(s, k), <<>>, seen)
    IN  InOrder([i \in DOMAIN first |-> [key |-> first[i]]])
FilterContentPlatformsByAction(platforms, key) ==
    LET Only(p) == [p EXCEPT !.actions = SelectSeq(@, LAMBDA a : a.key = key)]
    IN  IF key = All THEN platforms
        ELSE SelectSeq([i \in DOMAIN platforms |-> Only(platforms[i])], LAMBDA p : p.actions # <<>>)

-----------------------------------------------------------------------------
(* Games *)

ResolveGamePlatform(name) ==
    IF name.plain \in DOMAIN Consoles
    THEN LET c == Consoles[name.plain]
         IN  [said |-> name.said, key |-> c.name, group |-> <<"known", c.family>>,
              order |-> c.order, label |-> c.family, released |-> c.released]
    ELSE [said |-> name.said, key |-> name.plain, group |-> <<"unknown", name.plain>>,
          order |-> 10000, label |-> name.said, released |-> Null]

\* The newest first, then those without a date, each by name.
CompareGamePlatforms(a, b) ==
    CASE a.released = b.released -> Before(a.said, b.said)
      [] OTHER -> b.released = Null \/ (a.released # Null /\ a.released > b.released)
GroupGamePlatforms(offers) ==
    LET found == [i \in DOMAIN offers |-> ResolveGamePlatform(offers[i].name)]
        groups == Buckets(found, [p \in Range(found) |-> p.group])
        OncePerKey(s) == FoldLeft(LAMBDA t, p :
            IF \E i \in DOMAIN t : t[i].key = p.key THEN t ELSE Append(t, p), <<>>, s)
        Group(b) == [key |-> b.key, order |-> b.items[1].order, label |-> b.items[1].label,
                     platforms |-> SortedBy(OncePerKey(b.items), CompareGamePlatforms)]
    IN  SortedBy([i \in DOMAIN groups |-> Group(groups[i])],
                 LAMBDA a, b : \/ a.order < b.order
                               \/ a.order = b.order /\ Before(a.label, b.label))

-----------------------------------------------------------------------------
(* The page *)

IsGame(t) == t.type = "GAME"
PlatformsOf(t) == IF IsGame(t) THEN <<>> ELSE NormalizeContentPlatforms(t.offers)
GroupsOf(t) == IF IsGame(t) THEN GroupGamePlatforms(t.offers) ELSE <<>>

AvailableActions(t) == GetAvailableContentActions(PlatformsOf(t))
ActiveAction(t, chosen) ==
    IF \E i \in DOMAIN AvailableActions(t) : AvailableActions(t)[i].key = chosen THEN chosen ELSE All
VisiblePlatforms(t, chosen) ==
    FilterContentPlatformsByAction(PlatformsOf(t), ActiveAction(t, chosen))

Shown(s) == {s[i].key : i \in DOMAIN s}
Logos(t, chosen) == Shown(VisiblePlatforms(t, chosen)) \cup Shown(GroupsOf(t))

Init ==
    /\ title \in Titles /\ selectedAction = All /\ hasError = {}

\* Another title, or the same one read again: with the type the page keeps the
\* section, unless it is built anew; a tile that goes takes its logo's error along.
ShowTitle ==
    \E t \in Titles, kept \in BOOLEAN :
        /\ kept => t.type = title.type
        /\ title' = t
        /\ selectedAction' =
             IF kept /\ PlatformsOf(title) # <<>> /\ PlatformsOf(t) # <<>> THEN selectedAction ELSE All
        /\ hasError' = IF kept THEN hasError \cap Logos(t, selectedAction') ELSE {}

\* The buttons are there when there is something to choose.
SelectAction ==
    /\ Len(AvailableActions(title)) > 1
    /\ selectedAction' \in {All} \cup Shown(AvailableActions(title))
    /\ hasError' = hasError \cap Logos(title, selectedAction')
    /\ UNCHANGED title

LogoFails ==
    /\ \E k \in Logos(title, selectedAction) : hasError' = hasError \cup {k}
    /\ UNCHANGED <<title, selectedAction>>

Next == ShowTitle \/ SelectAction \/ LogoFails
Spec == Init /\ [][Next]_vars

-----------------------------------------------------------------------------
(* A provider has one tile: no two share a provider id, a name under its    *)
(* aliases, or a React key, in whatever order offers with and without an id *)
(* come (findExistingProviderKey, createProviderKey).                       *)
OneTilePerProvider ==
    LET p == PlatformsOf(title)
    IN  \A i, j \in DOMAIN p : i # j =>
            /\ p[i].key # p[j].key
            /\ p[i].id = NoneOf \/ p[i].id # p[j].id
            /\ NormalizeProviderKey(p[i].name) # NormalizeProviderKey(p[j].name)

(* Every offer that counts is on the page under its way to watch, with its  *)
(* address if that is a web address, whatever was chosen on an earlier      *)
(* title: the choice leaves out no provider that has the chosen way, and it *)
(* never empties the section (PlatformsDisplay's activeAction).             *)
EveryOfferIsShown ==
    LET shown == VisiblePlatforms(title, selectedAction)
        active == ActiveAction(title, selectedAction)
    IN  ~IsGame(title) =>
          \A n \in DOMAIN title.offers :
            LET way == NormalizeContentAction(title.offers[n].way)
            IN  \A o \in {x \in Range(title.offers[n].list) : Counts(x)} :
                  /\ shown # <<>>
                  /\ active \in {All, way} =>
                       \E i \in DOMAIN shown : \E a \in Range(shown[i].actions) :
                          /\ a.key = way
                          /\ GetValidPlatformUrl(o) \in Range(a.urls) \cup {NoneOf}

(* Every platform of a game is shown once, in the family it belongs to.     *)
EveryPlatformIsShownOnce ==
    LET g == GroupsOf(title)
    IN  IsGame(title) =>
          \A o \in Range(title.offers) :
            LET p == ResolveGamePlatform(o.name)
            IN  Cardinality({at \in (DOMAIN g) \X (1..Len(title.offers)) :
                   /\ at[2] \in DOMAIN g[at[1]].platforms
                   /\ g[at[1]].platforms[at[2]].key = p.key /\ g[at[1]].key = p.group}) = 1

PlatformsAreRight == OneTilePerProvider /\ EveryOfferIsShown /\ EveryPlatformIsShownOnce
=============================================================================
