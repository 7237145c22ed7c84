------------------------------ MODULE ListLayout ------------------------------
(***************************************************************************)
(* The arranging of a list in the browser: grouping by one criterion or by *)
(* several, sorting, flattening and cutting into pages (ListDetailPage's   *)
(* utils.ts, whose page has left these to Core and exports them still).    *)
(* An item is a record of what the functions look at; labels are compared as *)
(* strings, which Alphabet puts in order.                                  *)
(***************************************************************************)
EXTENDS Integers, Sequences, SequencesExt, TLC

CONSTANT Alphabet      \* every label there is, as localeCompare orders them

Before(a, b) ==
    \E i, j \in DOMAIN Alphabet : i < j /\ Alphabet[i] = a /\ Alphabet[j] = b

\* Array.prototype.sort with a comparison: stable.
SortedBy(s, Precedes(_, _)) ==
    LET order == SetToSortSeq(DOMAIN s, LAMBDA i, j :
                     Precedes(s[i], s[j]) \/ (i < j /\ ~Precedes(s[j], s[i])))
    IN  [i \in DOMAIN s |-> s[order[i]]]

-----------------------------------------------------------------------------
(* Grouping *)

Null == 0

\* Ratings come in half stars.
GetRatingRangeLabel(r) ==
    IF r = Null THEN "Unrated" ELSE IF r >= 9 THEN "5 Stars" ELSE IF r >= 6 THEN "3-4 Stars"
    ELSE "1-2 Stars"

GroupKey(it, by) ==
    CASE by = "rating" -> GetRatingRangeLabel(it.rating)
      [] by = "context_status" -> IF it.context_status = "" THEN "PENDING" ELSE it.context_status
      [] by \in {"content_type", "date_added"} -> it[by]
      [] OTHER -> "unknown"

\* Items under their keys, keys in the order of their first item.
Buckets(items, key) ==
    LET keys == FoldLeft(LAMBDA seen, it :
                    IF key[it] \in Range(seen) THEN seen ELSE Append(seen, key[it]), <<>>, items)
    IN  [i \in DOMAIN keys |->
            [key |-> keys[i], items |-> SelectSeq(items, LAMBDA it : key[it] = keys[i])]]

RatingOrder == <<"5 Stars", "3-4 Stars", "1-2 Stars", "Unrated">>
SortGroups(groups, by) ==
    LET Place(g) == CHOOSE i \in DOMAIN RatingOrder : RatingOrder[i] = g.key
    IN  SortedBy(groups, LAMBDA a, b :
            CASE by = "context_status" -> a.key = "PENDING" /\ b.key # "PENDING"
              [] by = "content_type" -> Before(a.key, b.key)
              [] by = "date_added" -> Before(b.key, a.key)
              [] by = "rating" -> Place(a) < Place(b)
              [] OTHER -> FALSE)

AllItems(items) == <<[key |-> "all", items |-> items]>>
GroupItemsByCriterion(items, by) ==
    IF by = "none" THEN AllItems(items)
    ELSE SortGroups(Buckets(items, [it \in Range(items) |-> GroupKey(it, by)]), by)

\* Several criteria: the key is the tuple of the single ones, in their order.
LexBefore(a, b) ==
    \E n \in DOMAIN a : SubSeq(a, 1, n - 1) = SubSeq(b, 1, n - 1) /\ Before(a[n], b[n])
GroupItemsComposite(items, criteria) ==
    LET valid == SelectSeq(criteria, LAMBDA by : by # "none")
        key == [it \in Range(items) |-> [i \in DOMAIN valid |-> GroupKey(it, valid[i])]]
    IN  IF valid = <<>> THEN AllItems(items)
        ELSE SortedBy(Buckets(items, key), LAMBDA a, b : LexBefore(a.key, b.key))
GroupItems(items, primary, secondary) == GroupItemsComposite(items, <<primary, secondary>>)

FlattenGroups(groups) == FlattenSeq([i \in DOMAIN groups |-> groups[i].items])

-----------------------------------------------------------------------------
(* Sorting *)

\* Whether a comes before b: a missing date or rating comes last, and first when
\* the order is turned round.
Ascends(a, b, by) ==
    CASE by \in {"list_order", "added_at"} -> a[by] < b[by]
      [] by \in {"context_completed_at", "list_rating"} ->
             LET f == IF by = "list_rating" THEN "rating" ELSE by
             IN  a[f] # Null /\ (b[f] = Null \/ a[f] < b[f])
      [] by \in {"name", "added_by", "content_type"} -> Before(a[by], b[by])
      [] OTHER -> FALSE
SortItems(items, by, order) ==
    SortedBy(items, LAMBDA a, b : IF order = "asc" THEN Ascends(a, b, by) ELSE Ascends(b, a, by))
SortGroupedItems(groups, by, order) ==
    [i \in DOMAIN groups |-> [groups[i] EXCEPT !.items = SortItems(@, by, order)]]

-----------------------------------------------------------------------------
(* Pages *)

CeilDiv(n, size) == (n + size - 1) \div size
Clamp(n, last) == IF n > last THEN (IF last < 1 THEN 1 ELSE last) ELSE IF n < 1 THEN 1 ELSE n

\* The number of pages of `total` things, the page that is shown when page n is
\* asked for, and the first and the last of its things.
Page(total, n, size) ==
    LET pages == CeilDiv(total, size)
        valid == Clamp(n, IF pages = 0 THEN 1 ELSE pages)
    IN  [pages |-> pages, current |-> valid, from |-> (valid - 1) * size + 1,
         to |-> IF valid * size > total THEN total ELSE valid * size]

PaginateItems(items, n, size) ==
    LET p == Page(Len(items), n, size)
    IN  [items |-> SubSeq(items, p.from, p.to), pages |-> p.pages, current |-> p.current]

\* Pages of one group, of one subgroup and of the subgroups: at least one page.
PaginateGroup(group, n, size) ==
    LET p == PaginateItems(group.items, n, size)
    IN  [p EXCEPT !.pages = IF @ = 0 THEN 1 ELSE @]
PaginateSubGroup(group, n, size) == PaginateGroup(group, n, size)
PaginateSubGroups(groups, n, size) == PaginateGroup([items |-> groups], n, size)

\* The numbers of all items; the groups themselves are not cut.
PaginateGroupedItems(groups, n, size) ==
    LET p == PaginateItems(FlattenGroups(groups), n, size)
    IN  [items |-> groups, pages |-> p.pages, current |-> p.current]

-----------------------------------------------------------------------------
(* Preferences of a list in localStorage: what is stored over the defaults. *)

DefaultPreferences == [groupBy |-> <<>>, sortBy |-> "list_order", sortOrder |-> "asc",
                       pageSize |-> 20, currentPage |-> 1]
LoadPreferences(stored) == stored @@ DefaultPreferences
=============================================================================
