------------------------- MODULE MCModerationOutbox -------------------------
(* Instances of ModerationOutbox for TLC: which sets are used is in the cfg. *)
EXTENDS ModerationOutbox, TLC

\* Items and workers are interchangeable (safety runs only).
Symmetry == Permutations(Items) \cup Permutations(Workers) \cup Permutations(Texts)
=============================================================================
