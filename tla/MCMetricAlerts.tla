--------------------------- MODULE MCMetricAlerts ---------------------------
(* Small instances of MetricAlerts, with the jobs of MCScheduledJobs.       *)
EXTENDS MetricAlerts, MCScheduledJobs

CONSTANTS r1, r2, r3

MCRules == {r1, r2, r3}
MCCooldowns == {1, 2}

NoJobs(events) == Scene(0, 0, 0, events)
MCAllScenes ==
    MCScenes \cup {NoJobs(E) : E \in {{}, {"again", "long"}}} \cup {Scene(0, 0, 1, {"delete"})}

Alerts(jobs, e1, e2, e3, c, events) ==
    [scene |-> jobs, every |-> [r \in MCRules |-> CASE r = r1 -> e1 [] r = r2 -> e2 [] r = r3 -> e3],
     cooldown |-> [r \in MCRules |-> c], events |-> events]

\* The jobs alone; the rules, alone or with a job that may be deleted while it runs.
MCAlertScenes ==
    {Alerts(s, 0, 0, 0, 1, {}) : s \in MCScenes}
    \cup {Alerts(NoJobs({}), 1, 1, 2, 1, {}),
          Alerts(Scene(0, 0, 1, {"delete"}), 1, 0, 0, 1, {}),
          Alerts(NoJobs({"again", "long"}), 2, 0, 0, 2, {}),
          Alerts(NoJobs({}), 1, 0, 0, 2, {"schedule", "cooldown"}),
          Alerts(NoJobs({}), 1, 0, 0, 2, {"byHand", "delete"}),
          Alerts(NoJobs({}), 1, 0, 0, 2, {"byHand", "unsure"}),
          Alerts(NoJobs({}), 1, 0, 0, 2, {"cut", "throws", "access", "switch"})}
=============================================================================
