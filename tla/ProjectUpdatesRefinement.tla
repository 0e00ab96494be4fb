---------------------- MODULE ProjectUpdatesRefinement ----------------------
(***************************************************************************)
(* ProjectUpdates implements ReviewBook: the inputs are the digests, and   *)
(* what is noted and filed for one are the rows that hold it.              *)
(***************************************************************************)
EXTENDS ProjectUpdates

OneOf(S) == IF S = {} THEN None ELSE CHOOSE x \in S : TRUE

Noted == [d \in Digests |-> OneOf(WithMemKey(d))]
Filed == [d \in Digests |-> OneOf(WithArtKey(d))]

Written == {m \in Memories : mem[m].status # "absent"}
WithStatus(s) == {a \in Artifacts : art[a].status = s}

Book == INSTANCE ReviewBook
          WITH Inputs <- Digests, Memos <- Memories, Proposals <- Artifacts,
               Texts <- States, text <- project, memos <- Written,
               noted <- Noted, filed <- Filed, open <- WithStatus("needs_review"),
               accepted <- WithStatus("accepted"), rejected <- WithStatus("rejected")

\* However generators with equal inputs overlap with one another, with reviews and
\* with redactions: their inputs have one memory and one artifact, an artifact is
\* decided once, the project's state is that of the last acceptance, and no
\* artifact under review loses its digest.
ImplementsReviewBook == Book!Spec
=============================================================================
