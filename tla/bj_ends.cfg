SPECIFICATION Spec
CONSTANTS
    s1 = s1
    s2 = s2
    h1 = h1
    k1 = k1
    NoKey = NoKey
    Alarm = Alarm
    Keys <- MCKeys
    Streams <- MCStreams
    Handlers <- MCHandlers
    MaxJobs = 1
    KeepJobs = 1
    KeepEvents = 1
    MaxBacklog = 1
    MaxCrashes = 2
    Events = {"delays"}
INVARIANTS UnwatchedIsToldAlive WatchedSawTheEnd NobodyWaitsInVain OrphansAreSettled
PROPERTIES EveryJobEnds ImplementsOneBuild
