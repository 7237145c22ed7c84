---------------------------- MODULE SourceData ----------------------------
(***************************************************************************)
(* Local-first reads of provider data in one process of Core: fresh rows    *)
(* are served, stale ones too while a thread pool refreshes them, and what  *)
(* is missing or incomplete is fetched from the proxy within the request.   *)
(*                                                                          *)
(* Requests and the workers of the pool run the same fetch; a worker's has  *)
(* no background of its own.  A row is "lacking" (there is none, or it is    *)
(* incomplete), "stale" or "fresh".  The pool, its queue and the ids in     *)
(* flight die with the process.                                             *)
(***************************************************************************)
EXTENDS Naturals, FiniteSets, Sequences

CONSTANTS Items, Requests, Workers

VARIABLES rows,
          refreshing,  \* _refreshing_ids
          queue,       \* of the pool: the ids of each task
          fetch        \* what each request and worker is at
vars == <<rows, refreshing, queue, fetch>>

Threads == Requests \cup Workers
Idle == [step |-> "idle", items |-> {}, later |-> FALSE, stale |-> {}, new |-> {}, asked |-> {},
         came |-> {}]
Goes(a, change) == fetch' = [fetch EXCEPT ![a] = change]
Of(a, kinds) == {i \in fetch[a].items : rows[i] \in kinds}

Init ==
    /\ rows \in [Items -> {"lacking", "stale", "fresh"}]
    /\ refreshing = {} /\ queue = <<>>
    /\ fetch = [a \in Threads |-> Idle]

-----------------------------------------------------------------------------
(* fetch_bulk_source_data *)

\* A page of content has its stale rows refreshed later; a list waits for them.
Ask(r, items, later) ==
    /\ fetch[r] = Idle
    /\ Goes(r, [Idle EXCEPT !.step = "reads", !.items = items, !.later = later])
    /\ UNCHANGED <<rows, refreshing, queue>>

Classify(a) ==
    /\ fetch[a].step = "reads"
    /\ LET waits == IF fetch[a].later THEN {} ELSE Of(a, {"stale"})
       IN  Goes(a, [fetch[a] EXCEPT
              !.step = IF fetch[a].later THEN "notes" ELSE "calls",
              !.stale = Of(a, {"stale"}) \ waits,
              !.asked = Of(a, {"lacking"}) \cup waits])
    /\ UNCHANGED <<rows, refreshing, queue>>

\* _schedule_stale_refresh: the ids are noted under the lock ...
NotInFlight_queued(ids) == ids \ UNION {fetch[w].items : w \in Workers}
NotInFlight(ids) == ids \ refreshing
Note(a) ==
    /\ fetch[a].step = "notes"
    /\ Goes(a, [fetch[a] EXCEPT !.step = "submits", !.stale = {}, !.new = NotInFlight(fetch[a].stale)])
    /\ refreshing' = refreshing \cup fetch[a].stale
    /\ UNCHANGED <<rows, queue>>
\* ... and submitted after it.
Submit(a) ==
    /\ fetch[a].step = "submits"
    /\ queue' = IF fetch[a].new = {} THEN queue ELSE Append(queue, fetch[a].new)
    /\ Goes(a, [fetch[a] EXCEPT !.step = "calls", !.new = {}])
    /\ UNCHANGED <<rows, refreshing>>

\* What the proxy has no answer for, or a partition that failed, is left out.
CallProxy(a) ==
    /\ fetch[a].step = "calls"
    /\ \E came \in SUBSET fetch[a].asked :
          Goes(a, [fetch[a] EXCEPT !.step = "stores", !.asked = {}, !.came = came])
    /\ UNCHANGED <<rows, refreshing, queue>>
\* A row at a time, whole or not; one that cannot be written is logged.
Persist(a) ==
    /\ fetch[a].step = "stores"
    /\ \E i \in fetch[a].came :
          /\ rows' \in {rows, [rows EXCEPT ![i] = "fresh"], [rows EXCEPT ![i] = "lacking"]}
          /\ Goes(a, [fetch[a] EXCEPT !.came = @ \ {i}])
    /\ UNCHANGED <<refreshing, queue>>
\* The fetch is over, or a query raised; a worker logs that.
End(a) ==
    /\ fetch[a].step \in {"reads", "notes", "calls", "stores"}
    /\ Goes(a, [Idle EXCEPT !.step = "ended", !.items = fetch[a].items])
    /\ UNCHANGED <<rows, refreshing, queue>>

Leave(r) ==
    /\ fetch[r].step = "ended"
    /\ Goes(r, Idle)
    /\ UNCHANGED <<rows, refreshing, queue>>

-----------------------------------------------------------------------------
(* The pool *)

Take(w) ==
    /\ fetch[w] = Idle /\ queue # <<>>
    /\ Goes(w, [Idle EXCEPT !.step = "reads", !.items = Head(queue)])
    /\ queue' = Tail(queue)
    /\ UNCHANGED <<rows, refreshing>>
\* finally: the ids are out again, whatever became of the task.
Release(w) ==
    /\ fetch[w].step = "ended"
    /\ refreshing' = refreshing \ fetch[w].items
    /\ Goes(w, Idle)
    /\ UNCHANGED <<rows, queue>>

-----------------------------------------------------------------------------

\* A row's time is up.
Age(i) ==
    /\ rows[i] = "fresh"
    /\ rows' = [rows EXCEPT ![i] = "stale"]
    /\ UNCHANGED <<refreshing, queue, fetch>>
\* The process is restarted: the rows are all that stays.
Restart ==
    /\ refreshing' = {} /\ queue' = <<>>
    /\ fetch' = [a \in Threads |-> Idle]
    /\ UNCHANGED rows

Next ==
    \/ \E r \in Requests, items \in (SUBSET Items) \ {{}}, later \in BOOLEAN : Ask(r, items, later)
    \/ \E a \in Threads :
          Classify(a) \/ Note(a) \/ Submit(a) \/ CallProxy(a) \/ Persist(a) \/ End(a)
    \/ \E r \in Requests : Leave(r)
    \/ \E w \in Workers : Take(w) \/ Release(w)
    \/ \E i \in Items : Age(i)
    \/ Restart

Spec == Init /\ [][Next]_vars

-----------------------------------------------------------------------------
(* Properties *)

\* What the rows, the queue and the fetches may hold.
TypeOK ==
    /\ rows \in [Items -> {"lacking", "stale", "fresh"}]
    /\ refreshing \subseteq Items
    /\ \A n \in DOMAIN queue : queue[n] \in (SUBSET Items) \ {{}}
    /\ \A a \in Threads :
          /\ fetch[a].step \in {"idle", "reads", "notes", "submits", "calls", "stores", "ended"}
          /\ fetch[a].stale \cup fetch[a].new \cup fetch[a].asked \cup fetch[a].came \subseteq fetch[a].items
          /\ fetch[a].items \subseteq Items

\* Who is about to refresh an id, or refreshes it.
Holders(i) ==
    Cardinality({a \in Threads : i \in fetch[a].new})
    + Cardinality({n \in DOMAIN queue : i \in queue[n]})
    + Cardinality({w \in Workers : i \in fetch[w].items})
\* An id is refreshed in the background once at a time, and it is noted just as long: none
\* is left behind that nobody would ever refresh again.
RefreshIsSingle ==
    \A i \in Items : Holders(i) = IF i \in refreshing THEN 1 ELSE 0
=============================================================================
