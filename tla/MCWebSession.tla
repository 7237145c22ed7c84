---------------------------- MODULE MCWebSession ----------------------------
(* Instances of WebSession for TLC. *)
EXTENDS WebSession, TLC

\* Slots for requests and processes are interchangeable (safety runs only).
Symmetry == Permutations(Requests) \cup Permutations(Processes)
=============================================================================
