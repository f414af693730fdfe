--------------------------- MODULE MCScheduledJobs ---------------------------
(* Small instances of ScheduledJobs for TLC: three jobs of which a tick     *)
(* selects two and runs one of the two tests.                               *)
EXTENDS ScheduledJobs

CONSTANTS j1, j2, j3, t1, t2

MCJobs == {j1, j2, j3}
MCTicks == {t1, t2}
MCPeriods == {1, 2}
MCTestJobs == {j1, j2}
MCMaxAttempts == [j \in MCJobs |-> CASE j = j1 -> 2 [] j = j2 -> 1 [] j = j3 -> 3]
MCBackoff == [j \in MCJobs |-> CASE j = j1 -> "linear" [] j = j2 -> "fixed" [] j = j3 -> "exponential"]
MCInitialDelay == [j \in MCJobs |-> 1]
Scene(e1, e2, e3, events) ==
    [every |-> [j \in MCJobs |-> CASE j = j1 -> e1 [] j = j2 -> e2 [] j = j3 -> e3], events |-> events]
MCScenes ==
    {Scene(1, 1, 1, {}), Scene(1, 2, 0, {"cut", "revoke"}), Scene(1, 2, 0, {"again"}),
     Scene(2, 1, 0, {"delete"}), Scene(0, 1, 0, {"again", "long"})}
    \cup {Scene(0, 0, 1, E) : E \in {{"again", "schedule"}, {"again", "switch", "revoke"},
                                   {"cut", "byHand", "unsent"}, {"byHand", "delete"},
                                   {"again", "unsent"}}}
=============================================================================
