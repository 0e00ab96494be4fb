----------------------------- MODULE MCTaskQueue -----------------------------
(***************************************************************************)
(* Instances of TaskQueue for TLC.                                         *)
(***************************************************************************)
EXTENDS TaskQueueRefinement

CONSTANTS Plain, Private

\* Every caller's key is limited to the plain label.
PlainOnly == [w \in Workers |-> {Plain}]
=============================================================================
