----------------------------- MODULE ContentPage -----------------------------
(***************************************************************************)
(* What a signed-in viewer keeps of content items, as the web client shows  *)
(* and changes it: the content page with its tracking controls, its rating  *)
(* and the pages of everyone's ratings, and the tracking controls of the    *)
(* rows of a list.  Both change the same items through the same mutations,  *)
(* which patch the cached details at once and put a snapshot of all of them *)
(* back when Core refuses.  Core decides by the rules of TrackingRules; a   *)
(* version of hist is the viewer's entry of each item.                      *)
(*                                                                          *)
(* One instance of the content page serves every item: going from one item  *)
(* to another keeps its dialog and its mutations.  Ratings are listed one   *)
(* to a page.  Bounds: MaxActs changes and visits of a page, MaxLosses      *)
(* reads and answers that are lost.                                         *)
(***************************************************************************)
EXTENDS QueryCache, FiniteSets

CONSTANTS Items, TypeOf, FavoriteLimit, NoItem,
          Reviewers,      \* item -> the others' ratings of it, newest first
          StatesOffered,  \* the progress policy's states
          MaxActs, MaxLosses

Rules == INSTANCE TrackingRules

VARIABLES jobs,    \* mutations in flight
          page,    \* what is mounted, and its state
          local,   \* a row's own copy of its item's tracking
          acts, losses,
          hopped   \* the state has been Loose

vars == <<hist, cache, jobs, page, local, acts, losses, hopped>>

-----------------------------------------------------------------------------
(* Core's answers *)

Server == hist[Len(hist)]
Untracked == [status |-> "untracked", favorite |-> FALSE]
TrackingOf(e) == [status |-> e.status, favorite |-> e.favorite]
\* An archived rating is not listed.
Visible(e) == [e EXCEPT !.rating = IF @ = "active" THEN "active" ELSE "none"]
Raters(v, i) == (IF v[i].rating = "active" THEN <<"viewer">> ELSE <<>>) \o Reviewers[i]

DetailKey(i) == [of |-> "detail", item |-> i]
MineKey(i) == [of |-> "mine", item |-> i]
RatingsKey(i, n) == [of |-> "ratings", item |-> i, n |-> n]
RowsKey == [of |-> "rows"]

\* The first page is there even when it is empty.
Answered(v, k) == k.of = "ratings" => k.n <= Len(Raters(v, k.item)) \/ k.n = 1
Answer(v, k) ==
    CASE k.of = "detail" -> Visible(v[k.item])
      [] k.of = "mine" -> Visible(v[k.item]).rating
      [] k.of = "rows" -> [i \in Items |-> TrackingOf(v[i])]
      [] k.of = "ratings" ->
           LET all == Raters(v, k.item)
           IN  [results |-> SubSeq(all, k.n, IF k.n <= Len(all) THEN k.n ELSE Len(all)),
                previous |-> k.n > 1, next |-> k.n < Len(all)]

-----------------------------------------------------------------------------
(* What is shown *)

AtContent(p) == p.at = "content"
\* loading, error, or the content; a failed refresh replaces what was shown.
UseContentData(p, c) ==
    LET e == Entry(c, DetailKey(p.item))
    IN  IF e.data = {} /\ e.asked > 0 THEN "loading"
        ELSE IF e.data = {} \/ e.failed THEN "error"
        ELSE "content"
View == CASE page.at = "list" -> IF Has(cache, RowsKey) THEN "list" ELSE "loading"
          [] AtContent(page) -> UseContentData(page, cache)
          [] OTHER -> "away"

Active(p, c) ==
    IF AtContent(p)
    THEN {DetailKey(p.item)}
         \cup (IF Has(c, DetailKey(p.item)) THEN {MineKey(p.item)} ELSE {})
         \cup (IF UseContentData(p, c) = "content" THEN {RatingsKey(p.item, p.listing)} ELSE {})
    ELSE IF p.at = "list" THEN {RowsKey} ELSE {}
ActiveNow == Active(page, cache)

Shown == Data(cache, DetailKey(page.item))
Tracking(i) == IF page.at = "list" THEN local[i] ELSE TrackingOf(Shown)
UserRating == IF Has(cache, MineKey(page.item)) THEN Data(cache, MineKey(page.item)) ELSE "none"

\* The ratings of the page, or of the page before it while that is on its way; the
\* viewer's own comes first.
RatingsShown ==
    LET k == RatingsKey(page.item, page.listing)
        data == IF Has(cache, k) \/ Entry(cache, k).asked = 0 THEN Entry(cache, k).data
                ELSE Entry(cache, page.listed).data
    IN  IF data = {} THEN [results |-> <<>>, previous |-> FALSE, next |-> FALSE]
        ELSE CHOOSE d \in data : TRUE
AllRatings ==
    LET mine == UserRating = "active"
        others == SelectSeq(RatingsShown.results, LAMBDA r : ~(mine /\ r = "viewer"))
    IN  IF mine THEN <<"viewer">> \o others ELSE others

TrackingKinds == {"transition", "favorite", "unfavorite", "remove"}
Pending(kinds, from, i) ==
    \E j \in jobs : /\ j.call.kind \in kinds /\ j.from = from /\ j.mount
                    /\ from = "row" => j.item = i
IsRatingLoading ==
    \/ Entry(cache, MineKey(page.item)).asked > 0 /\ ~Has(cache, MineKey(page.item))
    \/ Pending({"rate", "unrate"}, "page", page.item)

\* Which controls an item offers, and whether they may be used.
ContentTrackingControls(i) ==
    LET t == Tracking(i)
    IN  [states |-> StatesOffered \ {t.status},
         favorite |-> t.status = "completed",
         remove |-> t.status # "untracked",
         disabled |-> Pending(TrackingKinds, IF page.at = "list" THEN "row" ELSE "page", i)]
ControlsOf(i) ==
    /\ \/ View = "content" /\ page.item = i /\ ~page.rating
       \/ View = "list"
    /\ ~ContentTrackingControls(i).disabled

-----------------------------------------------------------------------------
(* Rendering *)

Away == [at |-> "away", item |-> CHOOSE i \in Items : TRUE, rating |-> FALSE, listing |-> 1,
         listed |-> RatingsKey(CHOOSE i \in Items : TRUE, 1)]

\* A row follows the list's data when that changes, and not otherwise.
ListItemTrackingSection(p, c, loc) ==
    IF p.at # "list" \/ ~Has(c, RowsKey) THEN [i \in Items |-> Untracked]
    ELSE [i \in Items |->
            IF \/ page.at # "list" \/ ~Has(cache, RowsKey)
               \/ Data(c, RowsKey)[i] # Data(cache, RowsKey)[i]
            THEN Data(c, RowsKey)[i] ELSE loc[i]]

\* The page p is rendered with the cache c.  The ratings start over when their section
\* was away; the viewer's rating starts with what the detail says.
Render(p, c, loc) ==
    LET p1 == IF AtContent(p) /\ UseContentData(p, c) = "content" THEN p
              ELSE [p EXCEPT !.listing = 1]
        m == MineKey(p.item)
        c1 == IF m \in Active(p1, c) /\ m \notin DOMAIN c
              THEN Put(c, m, Data(c, DetailKey(p.item)).rating) ELSE c
        new == Active(p1, c1) \ ActiveNow
    IN  /\ \E old \in BOOLEAN : cache' = Observe(c1, new, old)
        /\ page' = p1
        /\ local' = ListItemTrackingSection(p1, c1, loc)
Counted == acts < MaxActs /\ acts' = acts + 1 /\ UNCHANGED losses
Free == UNCHANGED <<acts, losses>>

Init ==
    /\ hist = <<[i \in Items |-> Rules!NoEntry]>>
    /\ cache = <<>> /\ jobs = {} /\ page = Away
    /\ local = [i \in Items |-> Untracked]
    /\ acts = 0 /\ losses = 0 /\ hopped = FALSE

Left(js) == {[j EXCEPT !.mount = FALSE] : j \in js}
OpenContent ==
    /\ Counted
    /\ \E i \in Items :
         /\ ~(AtContent(page) /\ page.item = i)
         /\ Render(IF AtContent(page) THEN [page EXCEPT !.item = i]
                   ELSE [Away EXCEPT !.at = "content", !.item = i, !.listed = RatingsKey(i, 1)],
                   cache, local)
    /\ jobs' = IF AtContent(page) THEN jobs ELSE Left(jobs)
    /\ UNCHANGED hist
OpenList ==
    /\ Counted /\ page.at # "list"
    /\ Render([Away EXCEPT !.at = "list"], cache, local)
    /\ jobs' = Left(jobs) /\ UNCHANGED hist
Retry ==
    /\ View = "error" /\ Counted
    /\ Render(page, Refetch(cache, {DetailKey(page.item)}), local)
    /\ UNCHANGED <<hist, jobs>>
TurnRatings ==
    /\ View = "content" /\ Free
    /\ Entry(cache, RatingsKey(page.item, page.listing)).asked = 0
    /\ \E n \in {page.listing - 1, page.listing + 1} :
         /\ IF n < page.listing THEN RatingsShown.previous ELSE RatingsShown.next
         /\ Render([page EXCEPT !.listing = n, !.listed = RatingsKey(page.item, page.listing)],
                   cache, local)
    /\ UNCHANGED <<hist, jobs>>

-----------------------------------------------------------------------------
(* Mutations are submitted *)

DetailKeys(c) == {k \in DOMAIN c : k.of = "detail"}
SnapshotContentDetails == [k \in {d \in DetailKeys(cache) : Has(cache, d)} |-> Data(cache, k)]
UpdateTracking(c, i, t) ==
    LET k == DetailKey(i)
    IN  Patch(c, k, [Data(c, k) EXCEPT !.status = t.status, !.favorite = t.favorite])
RestoreSnapshot(c, snap) ==
    [k \in DOMAIN c |-> IF k \in DOMAIN snap
                        THEN [c[k] EXCEPT !.data = {snap[k]}, !.fresh = TRUE, !.failed = FALSE]
                        ELSE c[k]]
Optimistic(call, t) ==
    CASE call.kind = "transition" ->
           [status |-> call.to, favorite |-> t.favorite /\ call.to = "completed"]
      [] call.kind = "favorite" -> [t EXCEPT !.favorite = t.status # "untracked"]
      [] call.kind = "unfavorite" -> [t EXCEPT !.favorite = FALSE]
      [] call.kind = "remove" -> Untracked

Call(kind, to, acked) == [kind |-> kind, to |-> to, acked |-> acked]
NewJob(call, i) ==
    [call |-> call, item |-> i, snap |-> <<>>, was |-> Untracked,
     from |-> IF page.at = "list" THEN "row" ELSE "page", mount |-> TRUE,
     state |-> "sent", result |-> Untracked, prompt |-> FALSE]
\* onMutate of the tracking mutations, in the cache c that the others left.
Mutated(c, call, i) ==
    LET c1 == Cancel(c, DetailKeys(c))
        t == IF Has(c1, DetailKey(i)) THEN TrackingOf(Data(c1, DetailKey(i))) ELSE Untracked
    IN  UpdateTracking(c1, i, Optimistic(call, t))
Submit(call, i, loc) ==
    /\ jobs' = jobs \cup {[NewJob(call, i) EXCEPT !.snap = SnapshotContentDetails,
                                                   !.was = Tracking(i)]}
    /\ Render(page, Mutated(cache, call, i), loc)
    /\ UNCHANGED hist
Optimist(call, i) ==
    IF page.at = "list" THEN [local EXCEPT ![i] = Optimistic(call, @)] ELSE local

ChangeStatus ==
    /\ Counted
    /\ \E i \in Items : ControlsOf(i) /\ \E s \in ContentTrackingControls(i).states :
         LET call == Call("transition", s, FALSE) IN Submit(call, i, Optimist(call, i))
ChangeFavorite ==
    /\ Counted
    /\ \E i \in Items :
         /\ ControlsOf(i) /\ ContentTrackingControls(i).favorite
         /\ LET call == IF Tracking(i).favorite THEN Call("unfavorite", "completed", TRUE)
                        ELSE Call("favorite", "completed", FALSE)
            IN  Submit(call, i, Optimist(call, i))
StopTracking ==
    /\ Counted
    /\ \E i \in Items :
         /\ ControlsOf(i) /\ ContentTrackingControls(i).remove
         /\ LET call == Call("remove", "untracked", FALSE) IN Submit(call, i, Optimist(call, i))

\* The dialog opens at once on a completed item, otherwise after a confirmation.
HandleRateContent ==
    /\ View = "content" /\ ~page.rating /\ Free
    /\ Render([page EXCEPT !.rating = TRUE], cache, local)
    /\ UNCHANGED <<hist, jobs>>
CloseRating ==
    /\ page.rating /\ ~IsRatingLoading /\ Free
    /\ Render([page EXCEPT !.rating = FALSE], cache, local)
    /\ UNCHANGED <<hist, jobs>>
SubmitRating(call) ==
    /\ View = "content" /\ ~IsRatingLoading /\ Counted
    /\ jobs' = jobs \cup {NewJob(call, page.item)}
    /\ Render(page, cache, local) /\ UNCHANGED hist
HandleSubmitRating == page.rating /\ SubmitRating(Call("rate", "completed", FALSE))
HandleDeleteRating ==
    ~page.rating /\ UserRating = "active" /\ SubmitRating(Call("unrate", "completed", TRUE))

-----------------------------------------------------------------------------
(* Core's side *)

Become(j, k) == jobs' = (jobs \ {j}) \cup {k} /\ UNCHANGED <<cache, page, local>>
CarryOut(j) ==
    /\ j.state = "sent" /\ Rules!Accepts(Server, j.item, j.call)
    /\ LET e == Rules!After(j.call, Server[j.item])
       IN  /\ hist' = Append(hist, [Server EXCEPT ![j.item] = e])
           /\ Become(j, [j EXCEPT !.state = "done", !.result = TrackingOf(e),
                           !.prompt = /\ j.call.kind = "transition" /\ j.call.to = "completed"
                                      /\ Server[j.item].rating = "none"])
    /\ Free
\* The effects of an unconfirmed call are to be confirmed; the rest is refused, or lost.
Refuse(j) ==
    /\ j.state = "sent"
    /\ IF Rules!Accepts(Server, j.item, j.call)
       THEN losses < MaxLosses /\ losses' = losses + 1 ELSE UNCHANGED losses
    /\ Become(j, [j EXCEPT !.state =
                    IF /\ ~Rules!Accepts(Server, j.item, j.call)
                       /\ Rules!Accepts(Server, j.item, [j.call EXCEPT !.acked = TRUE])
                    THEN "unconfirmed" ELSE "refused"])
    /\ UNCHANGED <<hist, acts>>
LoseAnswer(j) ==
    /\ j.state = "done" /\ losses < MaxLosses
    /\ losses' = losses + 1
    /\ Become(j, [j EXCEPT !.state = "refused"])
    /\ UNCHANGED <<hist, acts>>

-----------------------------------------------------------------------------
(* Mutations settle *)

InvalidateTrackingResources_noRatings(c) ==
    Invalidate(c, {k \in DOMAIN c : k.of \in {"detail", "rows"}}, ActiveNow)
InvalidateTrackingResources(c) == Invalidate(c, DOMAIN c, ActiveNow)
InvalidateRatingResources(c) ==
    Invalidate(c, {k \in DOMAIN c : k.of \in {"detail", "mine", "ratings"}}, ActiveNow)

SetRow(j, t) == IF j.from = "row" /\ j.mount THEN [local EXCEPT ![j.item] = t] ELSE local
Prompted(j) == [page EXCEPT !.rating = @ \/ (j.prompt /\ j.from = "page" /\ j.mount)]
IsTracking(j) == j.call.kind \in TrackingKinds

TrackingDone(j) ==
    /\ IsTracking(j) /\ j.state = "done"
    /\ LET c == IF j.call.kind = "remove" THEN cache ELSE UpdateTracking(cache, j.item, j.result)
       IN  Render(Prompted(j), InvalidateTrackingResources(c),
                  IF j.call.kind = "remove" THEN local ELSE SetRow(j, j.result))
    /\ jobs' = jobs \ {j}
    /\ Free /\ UNCHANGED hist

\* The snapshot is put back before anything is invalidated.
Settled(j) == InvalidateTrackingResources(RestoreSnapshot(cache, j.snap))
\* A confirmed retry of a row: of all its calls only the removal is shown at once.
TrackingRetried(j) ==
    /\ IsTracking(j) /\ j.state = "unconfirmed"
    /\ LET c == Settled(j)
           call == [j.call EXCEPT !.acked = TRUE]
           snap == [k \in {d \in DetailKeys(c) : Has(c, d)} |-> Data(c, k)]
           k == [j EXCEPT !.call = call, !.snap = snap, !.state = "sent"]
       IN  /\ jobs' = (jobs \ {j}) \cup {k}
           /\ Render(page, Mutated(c, call, j.item),
                     SetRow(j, IF call.kind = "remove" THEN Untracked ELSE j.was))
    /\ Free /\ UNCHANGED hist
TrackingFailed(j) ==
    /\ IsTracking(j) /\ j.state \in {"refused", "unconfirmed"}
    /\ jobs' = jobs \ {j}
    /\ Render(page, Settled(j), SetRow(j, j.was))
    /\ Free /\ UNCHANGED hist

\* The viewer's rating is kept at once; the dialog closes.
RatingDone(j) ==
    /\ j.call.kind \in {"rate", "unrate"} /\ j.state = "done"
    /\ LET c == IF j.call.kind = "rate" THEN Put(cache, MineKey(j.item), "active") ELSE cache
       IN  Render([page EXCEPT !.rating = @ /\ ~(j.mount /\ j.call.kind = "rate")],
                  InvalidateRatingResources(c), local)
    /\ jobs' = jobs \ {j}
    /\ Free /\ UNCHANGED hist
RatingFailed(j) ==
    /\ j.call.kind \in {"rate", "unrate"} /\ j.state = "refused"
    /\ Render(page, InvalidateRatingResources(cache), local)
    /\ jobs' = jobs \ {j}
    /\ Free /\ UNCHANGED hist

-----------------------------------------------------------------------------
(* Reads *)

Deliver(k) ==
    /\ cache[k].asked > 0
    /\ \E n \in cache[k].asked..Len(hist) :
         /\ Answered(hist[n], k)
         /\ Render(page, Arrived(cache, k, Answer(hist[n], k)), local)
    /\ Free /\ UNCHANGED <<hist, jobs>>
LoseRead(k) ==
    /\ cache[k].asked > 0
    /\ IF Answered(Server, k) THEN losses < MaxLosses /\ losses' = losses + 1 ELSE UNCHANGED losses
    /\ Render(page, Lost(cache, k), local)
    /\ UNCHANGED <<hist, jobs, acts>>

Answering(j) == CarryOut(j) \/ Refuse(j) \/ LoseAnswer(j)
Settling(j) ==
    TrackingDone(j) \/ TrackingRetried(j) \/ TrackingFailed(j) \/ RatingDone(j) \/ RatingFailed(j)
UserActs ==
    \/ OpenContent \/ OpenList \/ Retry \/ TurnRatings \/ ChangeStatus \/ ChangeFavorite
    \/ StopTracking \/ HandleRateContent \/ CloseRating \/ HandleSubmitRating \/ HandleDeleteRating
Step ==
    \/ UserActs
    \/ \E j \in jobs : Answering(j) \/ Settling(j)
    \/ \E k \in DOMAIN cache : Deliver(k) \/ LoseRead(k)

\* A read that no settling restarts is under way beside a mutation, or a row's change is
\* about to be undone over data that came in since.
Loose ==
    \/ jobs # {} /\ Unhealed(ActiveNow)
    \/ \E j \in jobs : /\ j.from = "row" /\ j.mount /\ Has(cache, RowsKey)
                       /\ j.was # Data(cache, RowsKey)[j.item]
Next == Step /\ hopped' = (hopped \/ Loose')

Spec == Init /\ [][Next]_vars

-----------------------------------------------------------------------------
(* Properties *)

TypeOK ==
    /\ \A n \in DOMAIN hist : hist[n] \in [Items -> Rules!Entry]
    /\ \A k \in DOMAIN cache : /\ k.of \in {"detail", "mine", "ratings", "rows"}
                               /\ cache[k].asked \in 0..Len(hist)
    /\ \A j \in jobs : j.state \in {"sent", "done", "refused", "unconfirmed"}
    /\ ActiveNow \subseteq DOMAIN cache
    /\ local \in [Items -> [status : Rules!Status \cup {"untracked"}, favorite : BOOLEAN]]
    /\ page.listing \in Nat \ {0} /\ acts \in 0..MaxActs /\ losses \in 0..MaxLosses

Quiet == jobs = {} /\ Still /\ ~hopped
\* Once nothing is in flight, what a page shows of the viewer's own as fresh is what Core
\* keeps: no snapshot put back by one mutation undoes another for good.
ViewerSeesOwn ==
    Quiet /\ View \in {"content", "list"} =>
        /\ \A k \in ActiveNow :
             k.of # "rows" /\ cache[k].fresh /\ Answered(Server, k) => Data(cache, k) = Answer(Server, k)
        /\ AtContent(page) /\ Entry(cache, MineKey(page.item)).fresh
             => UserRating = Visible(Server[page.item]).rating

\* Every family of reads a mutation touches is refreshed by it.
RowsAreTrue ==
    Quiet /\ View = "list" /\ cache[RowsKey].fresh =>
        /\ Data(cache, RowsKey) = Answer(Server, RowsKey)
        /\ \A i \in Items : local[i] = Data(cache, RowsKey)[i]
=============================================================================
