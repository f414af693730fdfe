SPECIFICATION Spec
CONSTANTS
    a = a
    b = b
    c = c
    r1 = r1
    s1 = s1
    s2 = s2
    Tombstone = gone
    FirstSlug = s1
    Slugs <- MCSlugs
    None = None
    First = v0
    Authors <- MCPair
    Readers <- MCReaders
    Scenes <- MCGateScenes
    MaxSaves = 1
    MaxConfigs = 0
    MaxCrashes = 0
CHECK_DEADLOCK FALSE
PROPERTY GateIsMonotonic
