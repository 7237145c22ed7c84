------------------------------- MODULE Tracking -------------------------------
(***************************************************************************)
(* The tracking service under PostgreSQL's READ COMMITTED isolation: the    *)
(* calls of tracking_service, each a transaction that locks the user's row, *)
(* the deletion of a rating and the views that synchronize the dynamic      *)
(* collections, which take no such lock, the rating aggregates that the     *)
(* signals of Rating recompute, and the profile banner.                     *)
(*                                                                          *)
(* The variables before `req` are what is committed; `req` is what open     *)
(* transactions have read and mean to write.  What happens between two      *)
(* statements is merged unless another transaction could tell: reads of     *)
(* rows that only the holder of the user's lock writes count as one, and    *)
(* writes become visible, and their uniqueness is checked, at the commit.   *)
(* D_x is a mistaken variant of D, used by mutants only.                    *)
(***************************************************************************)
EXTENDS TrackingRules

CONSTANTS Users,
          Requests,      \* HTTP requests being served at the same time
          MaxCalls,      \* calls of the tracking service, in all
          MaxFailures    \* transactions that fail by themselves, in all

ASSUME BudgetAssumption == {MaxCalls, MaxFailures} \subseteq Nat

VARIABLES entry,     \* tracking and rating rows: each user's entries
          banner,    \* UserPublicProfile.banner_content_item
          rows,      \* list items of each user's dynamic collections
          counted,   \* users whose ratings an item's aggregates include
          req,       \* open transactions
          budget     \* calls and failures left

vars == <<entry, banner, rows, counted, req, budget>>
-----------------------------------------------------------------------------
View == [kind |-> "view", to |-> "untracked", acked |-> FALSE]
Idle == [at |-> "idle"]

\* saving: the rating is saved, its signal comes next; counting: the aggregate
\* UPDATE has its snapshot and wants the item's row; reading: the dynamic
\* collections are to be read; ready: everything is written but the commit.
Transaction ==
    {t \in [at : {"saving", "counting", "reading", "ready"},
            user : Users, item : Items \cup {NoItem}, call : Calls \cup {View},
            read : Entry,             \* the entry the call was decided on
            seen : SUBSET Users,      \* active ratings in the aggregate's snapshot
            expected : SUBSET (Collections \X Items),
            stale : SUBSET (Collections \X Items),     \* list items to delete, by id
            missing : SUBSET (Collections \X Items)] : \* list items to insert
       t.call = View <=> t.item = NoItem}

TypeOK ==
    /\ entry \in [Users -> [Items -> Entry]]
    /\ banner \in [Users -> Items \cup {NoItem}]
    /\ rows \in [Users -> SUBSET (Collections \X Items)]
    /\ counted \in [Items -> SUBSET Users]
    /\ req \in [Requests -> Transaction \cup {Idle}]
    /\ budget \in [calls : Nat, failures : Nat]

Init ==
    /\ entry = [u \in Users |-> [i \in Items |-> NoEntry]]
    /\ banner = [u \in Users |-> NoItem]
    /\ rows = [u \in Users |-> {}]
    /\ counted = [i \in Items |-> {}]
    /\ req = [p \in Requests |-> Idle]
    /\ budget = [calls |-> MaxCalls, failures |-> MaxFailures]
-----------------------------------------------------------------------------
(* Locks, held from the statement that takes them to the commit.            *)

LocksUser_notToFavorite(call) == call.kind \notin {"favorite", "unrate", "view"}
LocksUser_notToRate(call) == call.kind \notin {"rate", "unrate", "view"}
\* lock_user: every call but the deletion of a rating and the views.
LocksUser(call) == call.kind \notin {"unrate", "view"}

UserLocked(u) ==
    \E p \in Requests : req[p] # Idle /\ req[p].user = u /\ LocksUser(req[p].call)

\* SELECT ... FOR UPDATE, or DELETE, of the rating; delete_tracking selects
\* active ratings only.
LocksRating(call, e) ==
    \/ call.kind \in {"transition", "rate", "unrate"}
    \/ call.kind = "remove" /\ e.rating = "active"

RatingLocked(u, i) ==
    \E p \in Requests : /\ req[p] # Idle /\ req[p].user = u /\ req[p].item = i
                        /\ LocksRating(req[p].call, req[p].read)

\* Is the rating saved or deleted?  Its signal then recomputes the aggregates.
SavesRating(t) ==
    /\ t.call # View
    /\ t.call.kind = "rate" \/ After(t.call, t.read).rating # t.read.rating

\* The aggregate UPDATE locks the item's row.
ItemLocked(i) ==
    \E p \in Requests : /\ req[p] # Idle /\ req[p].item = i
                        /\ req[p].at \in {"reading", "ready"} /\ SavesRating(req[p])

Syncs(call) == call.kind \notin {"favorite", "unfavorite", "unrate"}
-----------------------------------------------------------------------------
\* A call of the service up to its signal or its synchronization: locks, reads,
\* checks.  A call that is not accepted leaves nothing behind.
BeginCall(p, u, i, call) ==
    LET t == [at |-> "saving", user |-> u, item |-> i, call |-> call,
              read |-> entry[u][i], seen |-> {}, stale |-> {}, missing |-> {},
              expected |-> IF Syncs(call)
                             THEN Membership([entry[u] EXCEPT ![i] = After(call, @)])
                             ELSE {}]
    IN
    /\ budget.calls > 0
    /\ budget' = [budget EXCEPT !.calls = @ - 1]
    /\ req[p] = Idle
    /\ LocksUser(call) => ~UserLocked(u)
    /\ LocksRating(call, entry[u][i]) => ~RatingLocked(u, i)
    /\ Accepts(entry[u], i, call)
    /\ req' = [req EXCEPT ![p] =
         [t EXCEPT !.at = IF SavesRating(t) THEN "saving"
                          ELSE IF Syncs(call) THEN "reading" ELSE "ready"]]
    /\ UNCHANGED <<entry, banner, rows, counted>>

\* A view that synchronizes the collections first, without the user's lock.
BeginView(p, u) ==
    /\ req[p] = Idle
    /\ req' = [req EXCEPT ![p] =
         [at |-> "reading", user |-> u, item |-> NoItem, call |-> View,
          read |-> NoEntry, seen |-> {}, stale |-> {}, missing |-> {},
          expected |-> Membership(entry[u])]]
    /\ UNCHANGED <<entry, banner, rows, counted, budget>>

\* The signal's UPDATE starts: its subqueries see the ratings that are committed
\* by now and the transaction's own.
TakeSnapshot(p) ==
    LET t == req[p]
        others == {u \in Users \ {t.user} : entry[u][t.item].rating = "active"}
    IN
    /\ t.at = "saving"
    /\ req' = [req EXCEPT ![p].at = "counting",
         ![p].seen = IF After(t.call, t.read).rating = "active"
                       THEN others \cup {t.user} ELSE others]
    /\ UNCHANGED <<entry, banner, rows, counted, budget>>

\* It gets the item's row, at once or after the transaction that held it.
UpdateItem(p) ==
    /\ req[p].at = "counting"
    /\ ~ItemLocked(req[p].item)
    /\ req' = [req EXCEPT ![p].at =
         IF Syncs(req[p].call) THEN "reading" ELSE "ready"]
    /\ UNCHANGED <<entry, banner, rows, counted, budget>>

Missing_none(t) == {}
Missing(t) == t.expected \ rows[t.user]

\* The second half of sync_dynamic_collections: compare with the list items.
ReadRows(p) ==
    LET t == req[p] IN
    /\ t.at = "reading"
    /\ req' = [req EXCEPT ![p].at = "ready",
                          ![p].stale = rows[t.user] \ t.expected,
                          ![p].missing = Missing(t)]
    /\ UNCHANGED <<entry, banner, rows, counted, budget>>
-----------------------------------------------------------------------------
\* The columns a transaction writes.
Writes(t) ==
    (IF t.call.kind \in {"ensure", "transition", "rate", "remove"}
       THEN {"status"} ELSE {})
    \cup (IF t.call.kind \in {"transition", "remove", "favorite", "unfavorite"}
            THEN {"favorite"} ELSE {})
    \cup (IF SavesRating(t) THEN {"rating"} ELSE {})

Counts_onSaveOnly(t) == SavesRating(t) /\ t.call.kind # "unrate"
Counts(t) == SavesRating(t)

\* unique_item_per_list: another transaction inserted the row meanwhile.
Conflicts(t) == t.missing \cap rows[t.user] # {}

Commit(p) ==
    LET t == req[p] IN
    /\ t.at = "ready"
    /\ ~Conflicts(t)
    \* The deferred foreign keys of new list items need the user's row.
    /\ t.missing # {} /\ ~LocksUser(t.call) => ~UserLocked(t.user)
    /\ IF t.call = View THEN UNCHANGED <<entry, banner>>
       ELSE LET new == After(t.call, t.read) IN
            /\ entry' = [entry EXCEPT ![t.user][t.item] =
                 [f \in DOMAIN @ |-> IF f \in Writes(t) THEN new[f] ELSE @[f]]]
            /\ banner' = [banner EXCEPT ![t.user] =
                 IF DropsBanner(t.call, t.read) /\ @ = t.item THEN NoItem ELSE @]
    /\ counted' = IF Counts(t) THEN [counted EXCEPT ![t.item] = t.seen] ELSE counted
    /\ rows' = [rows EXCEPT ![t.user] = (@ \ t.stale) \cup t.missing]
    \* Ids that are gone are gone from what the others mean to delete.
    /\ req' = [q \in Requests |->
         IF q = p THEN Idle
         ELSE IF req[q] # Idle /\ req[q].user = t.user
           THEN [req[q] EXCEPT !.stale = @ \ t.stale] ELSE req[q]]
    /\ UNCHANGED budget

Rollback(p) ==
    /\ req' = [req EXCEPT ![p] = Idle]
    /\ UNCHANGED <<entry, banner, rows, counted>>

Conflict(p) ==
    /\ req[p].at = "ready"
    /\ Conflicts(req[p])
    /\ Rollback(p)
    /\ UNCHANGED budget

\* Any other failure: a lost connection, a deadlock the database breaks, the
\* list_order or the collection another transaction took first.
Fail(p) ==
    /\ req[p] # Idle
    /\ budget.failures > 0
    /\ budget' = [budget EXCEPT !.failures = @ - 1]
    /\ Rollback(p)

\* CurrentUserPublicProfileView.patch, under lock_user.
ChooseBanner(u, i) ==
    /\ ~UserLocked(u)
    /\ i # NoItem => entry[u][i].favorite /\ entry[u][i].status = "completed"
    /\ banner' = [banner EXCEPT ![u] = i]
    /\ UNCHANGED <<entry, rows, counted, req, budget>>
-----------------------------------------------------------------------------
Proceed(p) ==
    \/ TakeSnapshot(p)
    \/ UpdateItem(p)
    \/ ReadRows(p)
    \/ Commit(p)
    \/ Conflict(p)

Next ==
    \/ \E p \in Requests :
         \/ \E u \in Users :
              \/ \E i \in Items, call \in Calls : BeginCall(p, u, i, call)
              \/ BeginView(p, u)
         \/ Proceed(p)
         \/ Fail(p)
    \/ \E u \in Users, i \in Items \cup {NoItem} : ChooseBanner(u, i)

Spec == Init /\ [][Next]_vars

\* Requests that have begun go on, and each user opens the collections again and
\* again.  Nobody has to call the service.
Fairness ==
    /\ \A p \in Requests : WF_vars(Proceed(p))
    /\ \A u \in Users : SF_vars(\E p \in Requests : BeginView(p, u))
FairSpec == Spec /\ Fairness
-----------------------------------------------------------------------------
(* Properties.                                                              *)

\* A user never has more favorites of one content type than the limit, however
\* many requests count them at once.
QuotaHeld ==
    \A u \in Users, type \in Types :
      Cardinality({i \in Items : entry[u][i].favorite /\ TypeOf[i] = type})
        <= FavoriteLimit

\* A rating counts in public exactly while its title is completed, whichever
\* calls archived, reactivated, deleted or created it.
RatingFollowsStatus ==
    \A u \in Users, i \in Items :
      entry[u][i].rating # "none" =>
        (entry[u][i].rating = "active" <=> entry[u][i].status = "completed")

\* The banner shows a completed favorite: whatever takes the favorite away takes
\* the banner away with it.
BannerIsFavorite ==
    \A u \in Users : \A i \in Items :
      banner[u] = i => entry[u][i].favorite /\ entry[u][i].status = "completed"

\* No rating is archived and no favorite lost by a transaction whose caller did
\* not acknowledge the loss, although the effects were computed before the commit.
Loses(e, f) == (e.rating = "active" /\ f.rating = "archived") \/ (e.favorite /\ ~f.favorite)
LossIsAcknowledged ==
    [][\A u \in Users, i \in Items :
         Loses(entry[u][i], entry'[u][i]) =>
           \E p \in Requests : /\ req[p] # Idle /\ req'[p] = Idle
                               /\ req[p].user = u /\ req[p].item = i
                               /\ req[p].call.acked]_vars

\* The aggregates of an item are those of its active ratings.
AggregatesMatch ==
    \A i \in Items : counted[i] = {u \in Users : entry[u][i].rating = "active"}

\* docs: the membership of the dynamic collections is materialized from tracking.
\* When none of a user's requests is open, the two agree.
Quiet(u) == \A p \in Requests : req[p] # Idle => req[p].user # u
CollectionsMatch ==
    \A u \in Users : Quiet(u) => rows[u] = Membership(entry[u])

\* A collection that disagrees with tracking does not stay so: a later view or
\* call repairs it.
CollectionsHeal ==
    \A u \in Users :
      rows[u] # Membership(entry[u]) ~> rows[u] = Membership(entry[u])

\* Every call behaves as one atomic step on what is committed (TrackingPromises):
\* the locks make up for READ COMMITTED.
Promises == INSTANCE TrackingPromises
ImplementsPromises == Promises!Spec
=============================================================================
