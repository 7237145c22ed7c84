--------------------------- MODULE TrackingPromises ---------------------------
(***************************************************************************)
(* What the tracking service promises its users: each accepted call changes *)
(* what is committed as if it ran alone, in one step, on what is committed  *)
(* at that moment.  Nothing here knows of transactions or locks.            *)
(***************************************************************************)
EXTENDS TrackingRules

CONSTANT Users

VARIABLES entry,   \* each user's entries
          banner   \* each user's banner_content_item
-----------------------------------------------------------------------------
Init ==
    /\ entry = [u \in Users |-> [i \in Items |-> NoEntry]]
    /\ banner = [u \in Users |-> NoItem]

Perform(u, i, call) ==
    /\ Accepts(entry[u], i, call)
    /\ entry' = [entry EXCEPT ![u][i] = After(call, @)]
    /\ banner' = [banner EXCEPT ![u] =
         IF DropsBanner(call, entry[u][i]) /\ @ = i THEN NoItem ELSE @]

\* A banner shows a completed favorite.
ChooseBanner(u, i) ==
    /\ i # NoItem => entry[u][i].favorite /\ entry[u][i].status = "completed"
    /\ banner' = [banner EXCEPT ![u] = i]
    /\ UNCHANGED entry

Next ==
    \E u \in Users :
      \/ \E i \in Items, call \in Calls : Perform(u, i, call)
      \/ \E i \in Items \cup {NoItem} : ChooseBanner(u, i)

Spec == Init /\ [][Next]_<<entry, banner>>
=============================================================================
