---------------------------- MODULE TrackingRules ----------------------------
(***************************************************************************)
(* What one tracking operation does to what a user keeps of one item: the   *)
(* tracking row, its favorite flag and the rating (tracking_service,        *)
(* progress_policy), and which dynamic collections the item then belongs to *)
(* (dynamic_collections).  Comments, scores and dates are left out: no      *)
(* operation's effect on the rest depends on them.  D_x is a mistaken       *)
(* variant of D, used by mutants only.                                      *)
(***************************************************************************)
EXTENDS Naturals, FiniteSets

CONSTANTS Items,          \* content items
          TypeOf,         \* ContentItem.content_type of each item
          FavoriteLimit,  \* FAVORITE_LIMIT_PER_TYPE
          NoItem          \* banner_content_item IS NULL

Types == {"MOVIE", "TV_SHOW", "SEASON", "GAME", "ALBUM", "BOOK"}

ASSUME ItemsAssumption == TypeOf \in [Items -> Types] /\ NoItem \notin Items
ASSUME FiniteAssumption == IsFiniteSet(Items)
ASSUME LimitAssumption == FavoriteLimit \in Nat

Status == {"backlog", "in_progress", "on_hold", "dropped", "completed"}

\* _SUPPORTED_STATES.
Supported(type) ==
    CASE type = "MOVIE" -> Status \ {"on_hold"}
      [] type = "ALBUM" -> {"backlog", "in_progress", "completed"}
      [] OTHER -> Status

\* A user's state of one item; "untracked" and "none" stand for no row.
Entry == [status : Status \cup {"untracked"}, favorite : BOOLEAN,
          rating : {"none", "active", "archived"}]
NoEntry == [status |-> "untracked", favorite |-> FALSE, rating |-> "none"]

\* The calls of the service.  `acked` is acknowledge_effects, or that the call
\* asks for the loss by itself.
Calls ==
    [kind : {"transition"}, to : Status, acked : BOOLEAN]
    \cup [kind : {"remove"}, to : {"untracked"}, acked : BOOLEAN]
    \cup [kind : {"ensure"}, to : {"backlog"}, acked : {FALSE}]
    \cup [kind : {"rate", "favorite"}, to : {"completed"}, acked : {FALSE}]
    \cup [kind : {"unfavorite", "unrate"}, to : {"completed"}, acked : {TRUE}]
-----------------------------------------------------------------------------
\* transition_tracking: leaving completed archives the rating and drops the
\* favorite, completing reactivates the rating.
Transitioned_archivedKept(e, s) ==
    [status |-> s, favorite |-> e.favorite /\ s = "completed",
     rating |-> IF e.rating = "active" /\ s # "completed" THEN "archived"
                ELSE e.rating]
Transitioned(e, s) ==
    [status |-> s, favorite |-> e.favorite /\ s = "completed",
     rating |-> IF e.rating = "none" THEN "none"
                ELSE IF s = "completed" THEN "active" ELSE "archived"]

Removed(e) ==
    [status |-> "untracked", favorite |-> FALSE,
     rating |-> IF e.rating = "active" THEN "archived" ELSE e.rating]

\* What a call makes of the entry it read.
After(call, e) ==
    CASE call.kind = "ensure" ->
           IF e.status = "untracked" THEN [e EXCEPT !.status = call.to] ELSE e
      [] call.kind = "transition" -> Transitioned(e, call.to)
      [] call.kind = "rate" -> [e EXCEPT !.status = "completed", !.rating = "active"]
      [] call.kind = "favorite" -> [e EXCEPT !.favorite = TRUE]
      [] call.kind = "unfavorite" -> [e EXCEPT !.favorite = FALSE]
      [] call.kind = "remove" -> Removed(e)
      [] call.kind = "unrate" -> [e EXCEPT !.rating = "none"]

\* The effects that a transition or a removal has to have acknowledged.
Effects(call, e) ==
    {x \in {"rating_archived", "favorite_removed"} :
       /\ \/ call.kind = "remove"
          \/ call.kind = "transition" /\ e.status = "completed" /\ call.to # "completed"
       /\ x = "rating_archived" => e.rating = "active"
       /\ x = "favorite_removed" => e.favorite}

\* The other favorites of the item's type leave room for one more.
Others(entries, i) ==
    {k \in Items \ {i} : entries[k].favorite /\ TypeOf[k] = TypeOf[i]}
HasRoom(entries, i) == Cardinality(Others(entries, i)) < FavoriteLimit

\* A call that is not accepted is answered with an error and changes nothing.
Accepts(entries, i, call) ==
    LET e == entries[i] IN
    /\ call.kind \in {"ensure", "transition"} => call.to \in Supported(TypeOf[i])
    /\ Effects(call, e) # {} => call.acked
    /\ call.kind = "favorite" =>
         e.status = "completed" /\ (e.favorite \/ HasRoom(entries, i))
    /\ call.kind \in {"unfavorite", "remove"} => e.status # "untracked"
    /\ call.kind = "unrate" => e.rating # "none"

DropsBanner_notOnRemoval(call, e) ==
    \/ call.kind = "unfavorite"
    \/ call.kind = "transition" /\ e.favorite /\ ~After(call, e).favorite
\* _clear_banner_selection: called when a favorite goes.
DropsBanner(call, e) ==
    \/ call.kind = "unfavorite"
    \/ call.kind \in {"transition", "remove"} /\ e.favorite /\ ~After(call, e).favorite
-----------------------------------------------------------------------------
\* The type collection of an item, and the collections it belongs to.
TypeCollection(type) ==
    CASE type = "MOVIE" -> "movies"
      [] type \in {"TV_SHOW", "SEASON"} -> "series"
      [] type = "GAME" -> "games"
      [] type = "ALBUM" -> "albums"
      [] type = "BOOK" -> "books"
Collections == Status \cup {TypeCollection(t) : t \in Types}

Membership_everyItem(entries) ==
    UNION {{<<k, i>> : k \in {entries[i].status, TypeCollection(TypeOf[i])}} : i \in Items}
\* expected_ids of sync_dynamic_collections, for one user's entries.
Membership(entries) ==
    UNION {{<<k, i>> : k \in {entries[i].status, TypeCollection(TypeOf[i])}} :
             i \in {n \in Items : entries[n].status # "untracked"}}
=============================================================================
