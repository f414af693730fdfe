SPECIFICATION Spec
CONSTANTS
    a = a
    b = b
    c = c
    r1 = r1
    s1 = s1
    s2 = s2
    Tombstone = gone
    FirstSlug = s1
    Slugs <- MCSlugs
    None = None
    First = v0
    Authors <- MCPair
    Readers <- MCReaders
    Scenes <- MCScenes
    MaxSaves = 1
    MaxConfigs = 1
    MaxCrashes = 1
CHECK_DEADLOCK FALSE
INVARIANTS EditsBuildOnTheHead ServedIsWhole HeldUntilPassed CacheIsCurrent CheckedIsCurrent
PROPERTY CacheSettles
