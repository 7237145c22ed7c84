------------------------------- MODULE ListQuery -------------------------------
(***************************************************************************)
(* The list page's query without state: what the address holds, how the     *)
(* page and the server route read it, what the toolbar offers and does, who *)
(* may do what with a list, and how a page of items is shown in groups.     *)
(*                                                                          *)
(* A filter is the name of its field: which value it has is left out, the   *)
(* field decides everything here.  Absent is a parameter that is not there. *)
(* D_x is a mistaken variant of D, used by mutants only.                    *)
(***************************************************************************)
EXTENDS Integers, Sequences, SequencesExt

CONSTANTS Sizes, DefaultSize     \* page sizes

ASSUME SizeAssumption == Sizes \subseteq Nat \ {0} /\ DefaultSize \in Sizes

Absent == 0
None == "none"

-----------------------------------------------------------------------------
(* The query *)

Filters == {"context_status", "tracking_status", "content_type", "source_api", "added_by"}
Ranges == {"list_rating_gte", "list_rating_lte", "added_at_gte", "added_at_lte",
           "context_completed_at_gte", "context_completed_at_lte",
           "release_date_gte", "release_date_lte"}
SortFields == <<"list_order", "added_at", "context_completed_at", "list_rating",
                "display_title", "artist", "album_title", "release_date",
                "context_status", "tracking_status", "content_type">>
Groups == {"context_status", "tracking_status", "content_type", "source_api",
           "added_by", "artist"}

Asc(f) == [field |-> f, desc |-> FALSE]
Desc(f) == [field |-> f, desc |-> TRUE]

DefaultQuery == [filters |-> {}, ranges |-> {}, sort |-> <<>>, group |-> None,
                 page |-> 1, size |-> DefaultSize]
IsQueryEmpty(q) == q.filters = {} /\ q.ranges = {} /\ q.group = None

\* What the address holds: the fields f of its filter[f], and the rest.
EmptySearch == [params |-> {}, sort |-> <<>>, group |-> None, page |-> Absent, size |-> Absent]
HasAnyExploreParam(u) == u # EmptySearch

ParseSort(clauses, fields) == SelectSeq(clauses, LAMBDA c : c.field \in fields)
ParsePage(n) == IF n >= 1 THEN n ELSE 1
ParsePageSize(n) == IF n \in Sizes THEN n ELSE DefaultSize

ParseQuery(u) ==
    [filters |-> u.params \cap Filters, ranges |-> u.params \cap Ranges,
     sort |-> ParseSort(u.sort, Range(SortFields)),
     group |-> IF u.group \in Groups THEN u.group ELSE None,
     page |-> ParsePage(u.page), size |-> ParsePageSize(u.size)]

\* The route's loader has lists of its own, which lack the tracking status.
RouteLacks == {"tracking_status"}
ParseListQuery(u) ==
    LET q == ParseQuery(u)
    IN  [q EXCEPT !.filters = @ \ RouteLacks,
                  !.sort = ParseSort(@, Range(SortFields) \ RouteLacks),
                  !.group = IF @ \in RouteLacks THEN None ELSE @]

Serialize_keeps(q) ==
    [params |-> q.filters, sort |-> q.sort, group |-> q.group,
     page |-> IF q.page > 1 THEN q.page ELSE Absent,
     size |-> IF q.size # DefaultSize THEN q.size ELSE Absent]
Serialize(q) ==
    [params |-> q.filters \cup q.ranges, sort |-> q.sort, group |-> q.group,
     page |-> IF q.page > 1 THEN q.page ELSE Absent,
     size |-> IF q.size # DefaultSize THEN q.size ELSE Absent]

SetPage(q, n) == [q EXCEPT !.page = IF n < 1 THEN 1 ELSE n]
SetPageSize(q, n) == [q EXCEPT !.size = n, !.page = 1]
SetSort(q, clauses) == [q EXCEPT !.sort = clauses, !.page = 1]
SetGroupBy(q, g) == [q EXCEPT !.group = g, !.page = 1]
SetFilter(q, f, on) ==
    [q EXCEPT !.filters = IF on THEN @ \cup {f} ELSE @ \ {f}, !.page = 1]
ResetExploration(q) == [DefaultQuery EXCEPT !.size = q.size]

-----------------------------------------------------------------------------
(* The page's rules on a query *)

\* A personal list has no state of its own to filter, group or sort by.
HasPersonalListContextQuery(q) ==
    \/ "context_status" \in q.filters \/ q.group = "context_status"
    \/ q.ranges \cap {"context_completed_at_gte", "context_completed_at_lte"} # {}
    \/ \E i \in DOMAIN q.sort : q.sort[i].field \in {"context_status", "context_completed_at"}

\* Either direction of the default order counts as the canonical order.
IsSortPureCanonical(q) ==
    q.sort = <<>> \/ (Len(q.sort) = 1 /\ q.sort[1].field = "list_order")
ReorderDisabled(q) == ~IsQueryEmpty(q) \/ ~IsSortPureCanonical(q)
CanApplySort(q) == IsQueryEmpty(q) /\ q.sort # <<>> /\ ~IsSortPureCanonical(q)

\* The toolbar: t is the type of the list.
SortFieldOptions(t) ==
    SelectSeq(SortFields, LAMBDA f :
        CASE f \in {"context_status", "context_completed_at"} -> t = "SHARED"
          [] f = "tracking_status" -> t = "DYNAMIC"
          [] OTHER -> TRUE)
GroupByOptions(t) ==
    {None} \cup {g \in Groups : /\ g = "context_status" => t = "SHARED"
                                /\ g = "tracking_status" => t = "DYNAMIC"}
StatusFields(t) ==
    CASE t = "SHARED" -> {"context_status"} [] t = "DYNAMIC" -> {"tracking_status"}
      [] OTHER -> {}
FilterOptions(t) == StatusFields(t) \cup {"content_type"}

\* "Add field" takes the first field no clause uses, if there is one.
AddSort(q, t) ==
    LET unused == SelectSeq(SortFieldOptions(t),
                            LAMBDA f : \A i \in DOMAIN q.sort : q.sort[i].field # f)
    IN  IF unused = <<>> THEN q.sort ELSE Append(q.sort, Asc(Head(unused)))
ChangeSortField(q, i, f) == [q.sort EXCEPT ![i].field = f]
ToggleSortDirection(q, i) == [q.sort EXCEPT ![i].desc = ~@]
RemoveSort(q, i) == RemoveAt(q.sort, i)

-----------------------------------------------------------------------------
(* Rights and ratings on a list.  l.members has the ids of the members and   *)
(* l.editors those with the role owner or editor; nobody is user 0.          *)

IsPersonalList(l) == l.members \subseteq {l.owner}
CanEditListContent(l, u) == u # 0 /\ (u = l.owner \/ u \in l.members \cap l.editors)
CanManageListSettings(l, u) == u # 0 /\ u = l.owner

\* The user's score, 0 when there is none; ratings[u] is a member's rating.
GetUserRating(item, u) == IF u \in DOMAIN item.ratings THEN item.ratings[u] ELSE 0
RatingBadges(item, l, u) ==
    IF IsPersonalList(l) THEN [user |-> FALSE, rating |-> 0, list |-> item.rating]
    ELSE [user |-> TRUE, rating |-> GetUserRating(item, u), list |-> item.rating]

-----------------------------------------------------------------------------
(* Groups of a page: keys in the server's order, then those it did not name. *)

KeysInOrder(items, by) ==
    FoldLeft(LAMBDA seen, it : IF it[by] \in Range(seen) THEN seen ELSE Append(seen, it[by]),
             <<>>, items)
BuildGroupedItems(items, named, by) ==
    LET found == KeysInOrder(items, by)
        all == named \o SelectSeq(found, LAMBDA k : k \notin Range(named))
        In(k) == SelectSeq(items, LAMBDA it : it[by] = k)
    IN  SelectSeq([i \in DOMAIN all |-> [key |-> all[i], items |-> In(all[i])]],
                  LAMBDA g : g.items # <<>>)
=============================================================================
