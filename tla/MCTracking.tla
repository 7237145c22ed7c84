----------------------------- MODULE MCTracking -----------------------------
(* Instances of Tracking for TLC. *)
EXTENDS Tracking, TLC

\* Albums have the fewest statuses; in most instances every item is one.
Albums == [i \in Items |-> "ALBUM"]
OneMovie ==
    [i \in Items |-> IF i = (CHOOSE k \in Items : TRUE) THEN "MOVIE" ELSE "ALBUM"]

\* Requests, users and items of one type are interchangeable (safety runs only).
Symmetry == Permutations(Requests) \cup Permutations(Users) \cup Permutations(Items)
=============================================================================
