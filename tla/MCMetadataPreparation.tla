------------------------ MODULE MCMetadataPreparation ------------------------
(* Instances of MetadataPreparation for TLC. *)
EXTENDS MetadataPreparation, TLC

\* Workers are interchangeable, and so are requests (safety runs only).
Symmetry == Permutations(Workers) \cup Permutations(Resolvers)
=============================================================================
