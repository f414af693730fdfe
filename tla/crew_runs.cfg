SPECIFICATION Spec
CONSTANTS
    w1 = w1
    m1 = m1
    t1 = t1
    t2 = t2
    Wakes <- MCWakes
    Requests <- MCNone
    Ticks <- MCTicks
    Cap = 1
    QueueMax = 1
    MaxRuns = 2
    MaxOccurrences = 1
    MaxKills = 2
    TriggerKind = "condition"
    Events = {}
SYMMETRY MCSymmetry
INVARIANTS TypeOK OneExecutor OneSecondChance OccurrenceOnce
PROPERTIES OutcomeIsFinal
