SPECIFICATION Spec
CONSTANTS
    w1 = w1
    m1 = m1
    t1 = t1
    t2 = t2
    Wakes <- MCWakes
    Requests <- MCRequests
    Ticks <- MCOneTick
    Cap = 1
    QueueMax = 1
    MaxRuns = 2
    MaxOccurrences = 0
    MaxKills = 0
    TriggerKind = "cron"
    Events = {}
INVARIANTS CapIsKept
