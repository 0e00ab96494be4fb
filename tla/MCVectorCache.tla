---------------------------- MODULE MCVectorCache ----------------------------
(***************************************************************************)
(* Instances of VectorHistory for TLC.                                     *)
(***************************************************************************)
EXTENDS VectorHistory, TLC

\* Memories, texts, models and embedders differ in nothing but their names.
Alike ==
  Permutations(Memories) \cup Permutations(Texts) \cup Permutations(Models)
    \cup Permutations(Embedders)
=============================================================================
