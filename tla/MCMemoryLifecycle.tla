-------------------------- MODULE MCMemoryLifecycle --------------------------
(***************************************************************************)
(* Instances of MemoryLifecycle for TLC.                                   *)
(***************************************************************************)
EXTENDS MemoryRefinement, TLC

\* Memories, and sweeps, differ in nothing but their names.
Alike == Permutations(Memories) \cup Permutations(Sweeps)
=============================================================================
