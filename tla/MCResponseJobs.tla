--------------------------- MODULE MCResponseJobs ---------------------------
(***************************************************************************)
(* Instances of ResponseJobs, with its refinement mapping, for TLC.  The   *)
(* run checks liveness: no symmetry is used.                               *)
(***************************************************************************)
EXTENDS ResponseRefinement
=============================================================================
