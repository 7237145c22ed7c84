------------------------------ MODULE AddToList ------------------------------
(***************************************************************************)
(* The dialog with which a content card is put on the viewer's lists: the   *)
(* choice between a show and some of its seasons, the boxes that say which  *)
(* lists hold what, and the calls behind them.  One card is opened, closed  *)
(* and opened again; several boxes may be clicked before the first call is  *)
(* answered, and the lists change elsewhere too.  A version of hist is what *)
(* each existing list holds of the card's item.                             *)
(*                                                                          *)
(* A refresh that another replaces ends with it.  Bounds: MaxActs clicks    *)
(* that call Core or come from elsewhere, MaxLosses lost reads and answers. *)
(***************************************************************************)
EXTENDS QueryCache, FiniteSets

CONSTANTS Seasons, Lists, FirstLists, MaxActs, MaxLosses

VARIABLES modal, tasks, acts, losses,
          known,  \* the version the viewer's last answered call left
          blind   \* a call's answer was lost that nothing refreshes after, or a read
                  \* was under way at its end that no refresh restarts

vars == <<hist, cache, modal, tasks, acts, losses, known, blind>>

Server == hist[Len(hist)]
Closed == [open |-> FALSE, item |-> "none", phase |-> "lists", mode |-> "show",
           selected |-> {}, error |-> FALSE]

ContentKey == [of |-> "content"]
MemberKey(things) == [of |-> "members", things |-> things]
MemberKeys(c) == {k \in DOMAIN c : k.of = "members"}
Answer(v, k) ==
    IF k.of = "content" THEN Seasons ELSE [l \in DOMAIN v |-> v[l] \cap k.things]

-----------------------------------------------------------------------------
(* What the dialog shows *)

NeedsTvShowContent(m) == m.open /\ m.item = "show"
LoadingContent(m, c) == NeedsTvShowContent(m) /\ ~Has(c, ContentKey) /\ Entry(c, ContentKey).asked > 0
IsMultiSeasonShow(m, c) == m.item = "show" /\ Has(c, ContentKey) /\ Seasons # {}
MembershipItems(m, c) == {m.item} \cup (IF IsMultiSeasonShow(m, c) THEN Seasons ELSE {})
BulkListMembershipQuery(m, c) == MemberKey(MembershipItems(m, c))
Active(m, c) ==
    (IF NeedsTvShowContent(m) THEN {ContentKey} ELSE {})
    \cup (IF m.open /\ ~LoadingContent(m, c) THEN {BulkListMembershipQuery(m, c)} ELSE {})
ActiveNow == Active(modal, cache)

MyKey == BulkListMembershipQuery(modal, cache)
Shown == IF Has(cache, MyKey) THEN Data(cache, MyKey) ELSE <<>>
ListsLoading == Entry(cache, MyKey).asked > 0
CreatingNewList == \E t \in tasks : t.kind = "create"
LoadingListIds == {t.list : t \in {u \in tasks : u.kind # "create"}}

InSelection == /\ modal.open /\ ~LoadingContent(modal, cache)
               /\ IsMultiSeasonShow(modal, cache) /\ modal.phase = "selection"
InLists == modal.open /\ ~LoadingContent(modal, cache) /\ modal.phase = "lists"

GetItemInList(l) == modal.item \in Shown[l]
GetSeasonsInList(l) == Shown[l] \cap Seasons
\* A list's box: checked, and whether it may be clicked.
ListsPhase(l) ==
    LET inList == GetSeasonsInList(l) \cap modal.selected
    IN  [checked |-> IF modal.mode = "show" THEN GetItemInList(l)
                     ELSE inList # {} /\ inList = modal.selected,
         disabled |-> \/ l \in LoadingListIds \/ CreatingNewList
                      \/ modal.mode = "seasons" /\ modal.selected = {}]
Boxes == IF InLists /\ ~ListsLoading THEN {l \in DOMAIN Shown : ~ListsPhase(l).disabled} ELSE {}

-----------------------------------------------------------------------------
(* Rendering *)

ResetPhases(m, multi) ==
    [m EXCEPT !.phase = IF multi THEN "selection" ELSE "lists", !.mode = "show"]
ResetEffect(m, c) ==
    IF m.open /\ (~modal.open \/ IsMultiSeasonShow(m, c) # IsMultiSeasonShow(modal, cache))
    THEN ResetPhases([m EXCEPT !.error = FALSE, !.selected = {}], IsMultiSeasonShow(m, c))
    ELSE m
Render(m, c) ==
    \E old \in BOOLEAN :
      LET c1 == Observe(c, (Active(m, c) \cap {ContentKey}) \ ActiveNow, old)
      IN  /\ cache' = Observe(c1, Active(m, c1) \ ActiveNow, old)
          /\ modal' = ResetEffect(m, c1)
Click == UNCHANGED <<hist, tasks, acts, losses, known, blind>>
Counted == acts < MaxActs /\ acts' = acts + 1 /\ UNCHANGED <<losses, known, blind>>
Free == UNCHANGED <<acts, losses>>

Init ==
    /\ hist = <<[l \in FirstLists |-> {}]>> /\ cache = <<>>
    /\ modal = Closed /\ tasks = {}
    /\ acts = 0 /\ losses = 0 /\ known = 1 /\ blind = FALSE

OpenModal ==
    /\ ~modal.open /\ Counted
    /\ \E i \in IF modal.item = "none" THEN {"movie", "show"} ELSE {modal.item} :
         Render([modal EXCEPT !.open = TRUE, !.item = i], cache)
    /\ UNCHANGED <<hist, tasks>>
HandleClose ==
    /\ modal.open /\ ~CreatingNewList /\ Click
    /\ Render([ResetPhases(modal, IsMultiSeasonShow(modal, cache))
                 EXCEPT !.open = FALSE, !.error = FALSE], cache)
SetAddMode ==
    /\ InSelection /\ Click
    /\ \E mode \in {"show", "seasons"} : Render([modal EXCEPT !.mode = mode], cache)
ToggleSeason ==
    /\ InSelection /\ modal.mode = "seasons" /\ Click
    /\ \E s \in Seasons :
         Render([modal EXCEPT !.selected = IF s \in @ THEN @ \ {s} ELSE @ \cup {s}], cache)
SelectAllSeasons ==
    InSelection /\ modal.mode = "seasons" /\ Click /\ Render([modal EXCEPT !.selected = Seasons], cache)
DeselectAllSeasons ==
    InSelection /\ modal.mode = "seasons" /\ Click /\ Render([modal EXCEPT !.selected = {}], cache)
HandleContinueToLists ==
    /\ InSelection /\ ~(modal.mode = "seasons" /\ modal.selected = {}) /\ Click
    /\ Render([modal EXCEPT !.error = FALSE, !.phase = "lists"], cache)
HandleBackToSelection ==
    /\ InLists /\ IsMultiSeasonShow(modal, cache) /\ ~CreatingNewList /\ Click
    /\ Render([modal EXCEPT !.error = FALSE, !.phase = "selection"], cache)

-----------------------------------------------------------------------------
(* Calls *)

Task(kind, l, things) ==
    [kind |-> kind, list |-> l, todo |-> things, added |-> FALSE, failed |-> FALSE,
     state |-> IF things = {} THEN "settled" ELSE "sent"]
\* onMutate of the add mutation: reads of the lists are cancelled.
AddContentToList(c) == Cancel(c, MemberKeys(c))
HandleToggleList ==
    /\ Counted
    /\ \E l \in Boxes :
         LET seasons == modal.mode = "seasons"
             task == IF ListsPhase(l).checked /\ seasons THEN {}
                     ELSE IF ListsPhase(l).checked THEN {Task("remove", l, {modal.item})}
                     ELSE IF seasons THEN {Task("seasons", l, modal.selected \ GetSeasonsInList(l))}
                     ELSE {Task("add", l, {modal.item})}
         IN  /\ tasks' = tasks \cup task
             /\ Render([modal EXCEPT !.error = FALSE],
                       IF \E t \in task : t.kind = "add" THEN AddContentToList(cache) ELSE cache)
    /\ UNCHANGED hist
HandleCreateNewList ==
    /\ InLists /\ ~CreatingNewList /\ Counted
    /\ tasks' = tasks \cup {Task("create", "new", {modal.item})}
    /\ Render([modal EXCEPT !.error = FALSE], cache) /\ UNCHANGED hist

Become(t, u) == tasks' = (tasks \ {t}) \cup {u}
Quietly == UNCHANGED <<cache, modal>>
\* Core carries a call out; one of several seasons at a time.
CarryOut(t) ==
    /\ t.state = "sent" /\ Free /\ Quietly /\ UNCHANGED blind
    /\ IF t.kind = "create" /\ t.list = "new"
       THEN \E l \in Lists \ DOMAIN Server :
              /\ hist' = Append(hist, [k \in DOMAIN Server \cup {l} |->
                                         IF k = l THEN {} ELSE Server[k]])
              /\ Become(t, [t EXCEPT !.list = l, !.state = "created"])
       ELSE \E x \in t.todo :
              /\ (t.kind = "remove") = (x \in Server[t.list])
              /\ hist' = Append(hist, [Server EXCEPT ![t.list] =
                                         IF t.kind = "remove" THEN @ \ {x} ELSE @ \cup {x}])
              /\ Become(t, [t EXCEPT !.todo = @ \ {x}, !.added = TRUE,
                              !.state = IF t.todo = {x} THEN "settled" ELSE "sent"])
    /\ known' = Len(hist')
\* A refusal says what Core holds; duplicate is the one the dialog knows.
Refuse(t) ==
    /\ t.state = "sent" /\ t.list # "new" /\ Free /\ Quietly /\ UNCHANGED <<hist, known, blind>>
    /\ \E x \in t.todo :
         /\ (t.kind = "remove") # (x \in Server[t.list])
         /\ Become(t, [t EXCEPT !.todo = @ \ {x}, !.failed = TRUE,
                         !.state = IF t.todo # {x} THEN "sent"
                                   ELSE IF t.kind = "add" THEN "duplicate"
                                   ELSE "settled"])
\* Neither the call nor its answer is sure to arrive.
LoseCall(t) ==
    /\ t.state = "sent" /\ losses < MaxLosses /\ losses' = losses + 1
    /\ Quietly /\ UNCHANGED <<acts, known, hist>>
    /\ \E x \in t.todo :
         Become(t, [t EXCEPT !.todo = @ \ {x}, !.failed = TRUE,
                      !.state = IF t.todo = {x} THEN "settled" ELSE "sent"])
    /\ UNCHANGED blind
LoseAnswer(t) ==
    /\ t.state = "settled" /\ t.added /\ ~t.failed /\ losses < MaxLosses
    /\ losses' = losses + 1
    /\ Become(t, [t EXCEPT !.added = FALSE, !.failed = TRUE])
    /\ blind' = (blind \/ t.kind \in {"seasons", "remove"})
    /\ Quietly /\ UNCHANGED <<acts, known, hist>>

InvalidateLists(c) == Invalidate(c, MemberKeys(c), ActiveNow)
Refreshed_not(c) == c
\* refreshLists, of whatever the dialog asks for by now.
Refreshed(c) == Refetch(c, {MyKey})

\* The list is there; the item is sent after it.
Created(t) ==
    /\ t.state = "created" /\ Become(t, [t EXCEPT !.state = "sent"])
    /\ Render(modal, AddContentToList(InvalidateLists(cache)))
    /\ Free /\ UNCHANGED <<hist, known, blind>>
Succeeded(t) == ~t.failed \/ t.added \/ t.state = "duplicate"
Settle(t) ==
    /\ t.state \in {"settled", "duplicate"}
    /\ LET c == IF t.kind \in {"add", "create"} THEN InvalidateLists(cache) ELSE cache
       IN  Render([modal EXCEPT !.error = @ \/ ~Succeeded(t) \/ t.state = "duplicate"],
                  IF Succeeded(t) THEN Refreshed(c) ELSE c)
    /\ IF Succeeded(t) THEN Become(t, [t EXCEPT !.state = "refreshing"]) ELSE tasks' = tasks \ {t}
    /\ blind' = (blind \/ Unhealed(ActiveNow))
    /\ Free /\ UNCHANGED <<hist, known>>
Finish(t) ==
    /\ t.state = "refreshing" /\ Entry(cache, MyKey).asked = 0
    /\ tasks' = tasks \ {t} /\ Render(modal, cache)
    /\ Free /\ UNCHANGED <<hist, known, blind>>

Elsewhere ==
    /\ Counted /\ Quietly /\ UNCHANGED tasks
    /\ \E l \in DOMAIN Server, x \in {"movie", "show"} \cup Seasons :
         hist' = Append(hist, [Server EXCEPT ![l] = IF x \in @ THEN @ \ {x} ELSE @ \cup {x}])
Deliver(k) ==
    /\ cache[k].asked > 0
    /\ \E n \in cache[k].asked..Len(hist) : Render(modal, Arrived(cache, k, Answer(hist[n], k)))
    /\ Free /\ UNCHANGED <<hist, tasks, known, blind>>
LoseRead(k) ==
    /\ cache[k].asked > 0 /\ losses < MaxLosses /\ losses' = losses + 1
    /\ Render(modal, Lost(cache, k)) /\ UNCHANGED <<hist, tasks, acts, known, blind>>

UserActs ==
    \/ OpenModal \/ HandleClose \/ SetAddMode \/ ToggleSeason \/ SelectAllSeasons
    \/ DeselectAllSeasons \/ HandleContinueToLists \/ HandleBackToSelection
    \/ HandleToggleList \/ HandleCreateNewList
Tasks(t) == CarryOut(t) \/ Refuse(t) \/ LoseCall(t) \/ LoseAnswer(t) \/ Created(t) \/ Settle(t) \/ Finish(t)
Next ==
    \/ UserActs \/ Elsewhere
    \/ \E t \in tasks : Tasks(t)
    \/ \E k \in DOMAIN cache : Deliver(k) \/ LoseRead(k)

Spec == Init /\ [][Next]_vars

-----------------------------------------------------------------------------
(* Properties *)

TypeOK ==
    /\ modal.item \in {"none", "movie", "show"} /\ modal.phase \in {"selection", "lists"}
    /\ modal.selected \subseteq Seasons /\ modal.mode \in {"show", "seasons"}
    /\ \A t \in tasks : t.state \in {"sent", "created", "settled", "duplicate", "refreshing"}
    /\ ActiveNow \subseteq DOMAIN cache
    /\ \A k \in DOMAIN cache : cache[k].asked \in 0..Len(hist)
    /\ acts \in 0..MaxActs /\ losses \in 0..MaxLosses

\* Once the calls behind the boxes are settled, the boxes show the lists no older than
\* the last of them left them, in whatever order calls and refreshes crossed; unless the
\* refresh was lost or never asked for, or left an older read under way.
BoxesShowOwnCalls ==
    tasks = {} /\ Still /\ Boxes # {} /\ ~blind /\ cache[MyKey].fresh /\ ~cache[MyKey].failed =>
        \E n \in known..Len(hist) : Shown = Answer(hist[n], MyKey)
=============================================================================
