SPECIFICATION AlertSpec
CONSTANTS
    j1 = j1
    j2 = j2
    j3 = j3
    r1 = r1
    r2 = r2
    r3 = r3
    t1 = t1
    t2 = t2
    None = None
    Jobs <- MCJobs
    Ticks <- MCTicks
    Periods <- MCPeriods
    MaxAttempts <- MCMaxAttempts
    Backoff <- MCBackoff
    InitialDelay <- MCInitialDelay
    TestJobs <- MCTestJobs
    Scenes <- MCAllScenes
    Rules <- MCRules
    Hand = Hand
    Cooldowns <- MCCooldowns
    AlertScenes <- MCAlertScenes
    MaxDue = 2
    MaxTests = 1
    Cycle = 2
    MaxStay = 1
    MaxPast = 2
    MaxCuts = 1
INVARIANTS AlertTypeOK RetriesAreBounded FailingIsTold
PROPERTIES ClaimsGoForward DueJobsRun CooldownIsKept DueRulesRun LostAccessTurnsOff
