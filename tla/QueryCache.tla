------------------------------ MODULE QueryCache ------------------------------
(***************************************************************************)
(* The client's cache of reads (TanStack Query), as the pages of the web    *)
(* client use it.  hist is the sequence of the versions the server's state  *)
(* has had: a read that is asked at version n is answered with any version  *)
(* from n on, at any later time, or lost.  A cancelled read and the patch   *)
(* it makes way for are one step; the retry of a failed read is part of the *)
(* read.  The library is external: its operations are those the pages call. *)
(***************************************************************************)
EXTENDS Naturals, Sequences

VARIABLES hist,   \* the server's versions
          cache   \* key -> [data, fresh, asked, failed]: data is {} or {d}

NoEntry == [data |-> {}, fresh |-> FALSE, asked |-> 0, failed |-> FALSE]
Entry(c, k) == IF k \in DOMAIN c THEN c[k] ELSE NoEntry
Has(c, k) == Entry(c, k).data # {}
Data(c, k) == CHOOSE d \in Entry(c, k).data : TRUE

\* A mistake: every fetch joins the one in flight.
Fetched_joins(e) == IF e.asked > 0 THEN e ELSE [e EXCEPT !.asked = Len(hist), !.failed = @ /\ e.data # {}]
\* A fetch of a key without data joins the one in flight; with data it replaces it.
Fetched(e) == IF e.asked > 0 /\ e.data = {} THEN e
              ELSE [e EXCEPT !.asked = Len(hist), !.failed = @ /\ e.data # {}]
Refetch(c, K) == [k \in DOMAIN c \cup K |-> IF k \in K THEN Fetched(Entry(c, k)) ELSE c[k]]
\* A key comes into view; old says the stale time of its data is over.
Observe(c, K, old) ==
    LET Due(k) == Entry(c, k).asked = 0 /\ (old \/ ~Entry(c, k).fresh)
    IN  Refetch(c, {k \in K : k \notin DOMAIN c \/ Due(k)})
Invalidate(c, K, active) ==
    Refetch([k \in DOMAIN c |-> IF k \in K THEN [c[k] EXCEPT !.fresh = FALSE] ELSE c[k]],
            K \cap active \cap DOMAIN c)
Cancel(c, K) == [k \in DOMAIN c |-> IF k \in K THEN [c[k] EXCEPT !.asked = 0] ELSE c[k]]
Put(c, k, d) ==
    [x \in DOMAIN c \cup {k} |->
        IF x = k THEN [data |-> {d}, fresh |-> TRUE, asked |-> Entry(c, k).asked, failed |-> FALSE]
        ELSE c[x]]
Patch(c, k, d) == IF Has(c, k) THEN Put(c, k, d) ELSE c
Arrived(c, k, d) == [c EXCEPT ![k] = [data |-> {d}, fresh |-> TRUE, asked |-> 0, failed |-> FALSE]]
Lost(c, k) == [c EXCEPT ![k].asked = 0, ![k].failed = TRUE]
\* What the settling of a mutation does not heal: reads it does not restart, those of
\* keys out of view and the first of their key, which the restart joins.
Unhealed(active) ==
    \E k \in DOMAIN cache : cache[k].asked > 0 /\ (cache[k].data = {} \/ k \notin active)
Still == \A k \in DOMAIN cache : cache[k].asked = 0
=============================================================================
