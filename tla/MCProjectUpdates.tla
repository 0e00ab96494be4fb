--------------------------- MODULE MCProjectUpdates ---------------------------
(***************************************************************************)
(* Instances of ProjectUpdates for TLC.                                    *)
(***************************************************************************)
EXTENDS ProjectUpdatesRefinement, TLC

Alike == Permutations(States) \cup Permutations(Memories)
           \cup Permutations(Artifacts) \cup Permutations(Generators)
=============================================================================
