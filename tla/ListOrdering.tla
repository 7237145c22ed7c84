--------------------------- MODULE ListOrdering ---------------------------
(***************************************************************************)
(* The order of the items of one editable list, as its endpoints keep it:   *)
(* add, update, remove, reorder, apply-sort and move, each run by a request  *)
(* that reads the rows before its transaction and writes them later.        *)
(*                                                                          *)
(* rows maps the rows of the list to their list_order.  The unique          *)
(* constraint on (user_list, list_order) is not deferrable: a statement     *)
(* that breaks it fails, and its transaction with it.  Transactions that     *)
(* meet wait for each other's rows, run into a deadlock or into that index; *)
(* so the transaction of a request is one step, and every request may fail. *)
(***************************************************************************)
EXTENDS Naturals, FiniteSets, Sequences

CONSTANTS Items,      \* ids of rows; an id nobody refers to stands for a new one
          Requests,
          FirstRows   \* lists to start from, with and without gaps

VARIABLES rows, req
vars == <<rows, req>>

Nobody == 0
Idle == [step |-> "idle", seen |-> <<>>, item |-> Nobody, named |-> <<>>, to |-> 0]
Done == [Idle EXCEPT !.step = "done"]

Ids == DOMAIN rows
Numbers(r) == {r[i] : i \in DOMAIN r}
Distinct(r) == \A i, j \in DOMAIN r : r[i] = r[j] => i = j
\* Max('list_order') or 0
Last(r) == CHOOSE n \in Numbers(r) \cup {0} : \A m \in Numbers(r) : m <= n
NamedIds(named) == {named[k] : k \in DOMAIN named}

Running(r) == req[r].step \notin {"idle", "done"}
Known(r) == DOMAIN req[r].seen \cup {req[r].item}
Unheard == Items \ (Ids \cup UNION {Known(r) : r \in Requests})

\* A number stands for one place, and none of the temporary ones is left behind.
IsList(f) ==
    /\ DOMAIN f \subseteq Items /\ IsFiniteSet(DOMAIN f)
    /\ f \in [DOMAIN f -> Nat \ {0}] /\ Distinct(f)

Init ==
    /\ rows \in FirstRows /\ IsList(rows)
    /\ req = [r \in Requests |-> Idle]

-----------------------------------------------------------------------------
(* Add and remove *)

Asks(r, step, item, named, to) ==
    /\ req[r] = Idle
    /\ req' = [req EXCEPT ![r] = [step |-> step, seen |-> rows, item |-> item,
                                  named |-> named, to |-> to]]
    /\ UNCHANGED rows
Ends(r) == req' = [req EXCEPT ![r] = Done]

\* save() takes the place behind the last one it can see ...
AskAdd(r, i) ==
    /\ i \in Unheard
    /\ Asks(r, "add", i, <<>>, 0)
NewPlace_counted(r) == Cardinality(DOMAIN req[r].seen) + 1
NewPlace(r) == Last(req[r].seen) + 1
\* ... and inserts the row there.
Insert(r) ==
    /\ req[r].step = "add"
    /\ NewPlace(r) \notin Numbers(rows)
    /\ rows' = [i \in Ids \cup {req[r].item} |-> IF i \in Ids THEN rows[i] ELSE NewPlace(r)]
    /\ Ends(r)

\* The places behind a removed item are not closed up.
Remove(r, i) ==
    /\ req[r] = Idle /\ i \in Ids
    /\ rows' = [j \in Ids \ {i} |-> rows[j]]
    /\ Ends(r)

-----------------------------------------------------------------------------
(* Update *)

\* PUT and PATCH read the row to change its shared status ...
AskUpdate(r, i) ==
    /\ i \in Ids
    /\ Asks(r, "update", i, <<>>, 0)
OldPos(r) == req[r].seen[req[r].item]
Updated_last(r) ==
    [i \in Ids \cup {req[r].item} |-> IF i = req[r].item THEN Last(rows) + 1 ELSE rows[i]]
\* ... and save() without update_fields writes all of it back, its old number with the
\* rest; a row that was removed meanwhile is inserted again, under its id.
Updated(r) ==
    [i \in Ids \cup {req[r].item} |-> IF i = req[r].item THEN OldPos(r) ELSE rows[i]]
Update(r) ==
    /\ req[r].step = "update"
    /\ Distinct(Updated(r))
    /\ rows' = Updated(r)
    /\ Ends(r)

-----------------------------------------------------------------------------
(* Reorder and apply-sort *)

\* reorder takes exactly the current ids, which the web client sends once each;
\* apply-sort names the rows in the order of a query over the whole list.
Orders == {s \in [1..Cardinality(Ids) -> Ids] : NamedIds(s) = Ids}
AskOrder(r) ==
    /\ Ids # {}
    /\ \E named \in Orders : Asks(r, "order", Nobody, named, 0)

Place(named, i) == CHOOSE k \in DOMAIN named : named[k] = i
\* The rows by way of negative numbers; rows that went meanwhile are not
\* updated, and rows that came keep their number.
Arranged(r) ==
    [i \in Ids |-> IF i \in NamedIds(req[r].named) THEN Place(req[r].named, i) ELSE rows[i]]
Arrange(r) ==
    /\ req[r].step = "order"
    /\ Distinct(Arranged(r))
    /\ rows' = Arranged(r)
    /\ Ends(r)

-----------------------------------------------------------------------------
(* Move *)

\* get_object reads the row, a second query counts the rows.
AskMove(r, i, position) ==
    /\ i \in Ids
    /\ Asks(r, "asked", i, <<>>, position)
MayMove(r) ==
    /\ req[r].step = "asked"
    /\ req' = [req EXCEPT ![r] =
          IF req[r].to \in 1..Cardinality(Ids) /\ req[r].to # OldPos(r)
          THEN [@ EXCEPT !.step = "move"] ELSE Done]
    /\ UNCHANGED rows

\* save() takes the negative number for a missing one and puts the row last.
Aside(r) == [rows EXCEPT ![req[r].item] = Last(rows) + 1]
Shifted(r) ==
    LET at == Aside(r)
        old == OldPos(r)
        new == req[r].to
    IN  [i \in Ids |->
            IF new < old THEN IF new <= at[i] /\ at[i] < old THEN at[i] + 1 ELSE at[i]
                         ELSE IF old < at[i] /\ at[i] <= new THEN at[i] - 1 ELSE at[i]]
Moved(r) == [Shifted(r) EXCEPT ![req[r].item] = req[r].to]
Move(r) ==
    /\ req[r].step = "move"
    /\ req[r].item \in Ids
    /\ Distinct(Shifted(r)) /\ Distinct(Moved(r))
    /\ rows' = Moved(r)
    /\ Ends(r)

-----------------------------------------------------------------------------
\* A constraint (that of a title, or of an order while the rows of a shift change
\* one by one), a deadlock, a row that is gone, or a lost connection: the
\* transaction is rolled back.
Fail(r) == Running(r) /\ Ends(r) /\ UNCHANGED rows

Next ==
    \E r \in Requests :
       \/ \E i \in Items : AskAdd(r, i) \/ AskUpdate(r, i) \/ Remove(r, i)
       \/ \E i \in Items, n \in 1..Cardinality(Items) : AskMove(r, i, n)
       \/ AskOrder(r) \/ MayMove(r)
       \/ Insert(r) \/ Update(r) \/ Arrange(r) \/ Move(r) \/ Fail(r)

Spec == Init /\ [][Next]_vars

-----------------------------------------------------------------------------
(* Properties *)

Steps == {"idle", "add", "update", "order", "asked", "move", "done"}
\* What the rows and the requests may hold; a failed transaction leaves no negative
\* number and no two rows in one place.
TypeOK ==
    /\ IsList(rows)
    /\ \A r \in Requests :
          /\ req[r].step \in Steps
          /\ req[r].item \in Items \cup {Nobody}
          /\ DOMAIN req[r].seen \subseteq Items
          /\ NamedIds(req[r].named) = DOMAIN req[r].seen \/ req[r].named = <<>>

KeepsOrder(S) == \A i, j \in S : rows[i] < rows[j] <=> rows'[i] < rows'[j]
Stays == Ids \cap DOMAIN rows'

\* The new row is behind all those that are where its request saw them.
AddMeant(r) ==
    /\ DOMAIN rows' = Ids \cup {req[r].item}
    /\ KeepsOrder(Ids)
    /\ \A i \in DOMAIN req[r].seen \cap Ids :
          rows[i] = req[r].seen[i] => rows'[i] < rows'[req[r].item]

\* The named rows that are left are in the order asked for, the others in theirs.
OrderMeant(r) ==
    LET named == req[r].named
    IN  /\ DOMAIN rows' = Ids
        /\ KeepsOrder(Ids \ NamedIds(named))
        /\ \A i, j \in NamedIds(named) \cap Ids :
              Place(named, i) < Place(named, j) => rows'[i] < rows'[j]

\* An update leaves the other rows where they are. Its own changes place only if another
\* request has moved or removed it since the update read it: then it is back.
UpdateMeant(r) ==
    LET item == req[r].item
    IN  /\ DOMAIN rows' = Ids \cup {item}
        /\ \A i \in Ids \ {item} : rows'[i] = rows[i]
        /\ rows'[item] = OldPos(r)
        /\ item \in Ids => rows[item] # OldPos(r)

\* The other rows stay in their order, and the row that moves comes behind those up to
\* number `to`, or before that number when it goes towards the front. In a list without
\* gaps that nobody touched it is then the to-th, and there are no gaps after; where
\* there are gaps `to` is the number of a place, not a position.
MoveMeant(r) ==
    LET item == req[r].item
        to == req[r].to
    IN  /\ DOMAIN rows' = Ids
        /\ KeepsOrder(Ids \ {item})
        /\ \A i \in Ids \ {item} :
              rows'[i] < rows'[item] <=> IF to < OldPos(r) THEN rows[i] < to ELSE rows[i] <= to
        /\ rows = req[r].seen /\ Numbers(rows) = 1..Cardinality(Ids) /\ to \in Numbers(rows) =>
              rows'[item] = to /\ Numbers(rows') = 1..Cardinality(Ids)

\* Whatever is added, updated, removed, sorted and moved at the same time, the order of the
\* rows changes only as the one request that ends was asked to change it; and, what no
\* request asks for, by an update that undoes what was done to its own row meanwhile.
StepIsMeant ==
    rows' # rows =>
       \E r \in Requests :
          /\ req'[r] = Done
          /\ CASE req[r].step = "add" -> AddMeant(r)
               [] req[r].step = "update" -> UpdateMeant(r)
               [] req[r].step = "order" -> OrderMeant(r)
               [] req[r].step = "move" -> MoveMeant(r)
               [] req[r].step = "idle" -> DOMAIN rows' \subseteq Ids /\ KeepsOrder(Stays)
               [] OTHER -> FALSE
AnswersAreMeant == [][StepIsMeant]_vars

\* "Update specific fields of a list item": an update that is carried out leaves the order
\* and the rows of the list as they are (ListItemViewSet.partial_update). The code does so
\* only as far as UpdateMeant says.
UpdateKeepsOrder ==
    [][\A r \in Requests : req[r].step = "update" /\ req'[r] = Done => rows' = rows]_vars
=============================================================================
