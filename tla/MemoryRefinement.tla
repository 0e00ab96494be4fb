-------------------------- MODULE MemoryRefinement --------------------------
(***************************************************************************)
(* MemoryLifecycle implements Succession: a row in one of the live         *)
(* statuses is in use, its heir is superseded_by, and the rows that are    *)
(* revived are those a sweep writes over.                                  *)
(***************************************************************************)
EXTENDS MemoryLifecycle

State == [m \in Memories |-> IF IsLive(m) THEN "in use" ELSE mem[m].status]
Heir  == [m \in Memories |-> mem[m].by]

Line == INSTANCE Succession
          WITH Rows <- Memories, Retirements <- Retired,
               state <- State, heir <- Heir, revived <- swept

\* Whatever commits, reviews, corrections, undos, merges and expiries follow one
\* another: a retired row keeps its status and its successor for good, rows are
\* retired together with the step that puts their successor in use, and the
\* chain of successors never closes; only a staleness sweep brings rows back.
ImplementsSuccession == Line!Spec
=============================================================================
