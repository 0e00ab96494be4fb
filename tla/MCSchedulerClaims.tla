------------------------ MODULE MCSchedulerClaims ------------------------
(* Small instances of the durable scheduler for TLC. *)
EXTENDS SchedulerRefinement, TLC

NoRequests == {}
Ask(e, p, k) == [enabled |-> e, paused |-> p, kind |-> k]
\* One request of each kind an operator can send.
SwitchRequests == {Ask(TRUE, None, None), Ask(None, TRUE, None)}
AllRequests == {Ask(TRUE, None, None), Ask(FALSE, None, None),
                Ask(None, TRUE, None), Ask(None, FALSE, None),
                Ask(None, None, "manual"), Ask(None, None, "timed")}
\* pause_all only.
PauseRequests == {Ask(None, TRUE, None)}

RunsAndWorkersAlike == Permutations(Runs) \cup Permutations(Workers)
RunsAndCallersAlike == Permutations(Runs) \cup Permutations(Callers)
===========================================================================
