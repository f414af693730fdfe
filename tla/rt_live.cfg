SPECIFICATION Spec
CONSTANTS
    c1 = c1
    c2 = c2
    e1 = e1
    e2 = e2
    e3 = e3
    e4 = e4
    Reader = Reader
    Clients <- MCClients
    Edits <- MCEdits
    Updates <- MCUpdates
    LegacyDocs <- MCLegacyDocs
    CompactionThreshold = 3
    ColdLoadBatch = 2
    MaxPending = 1
    Events = {"importWrite", "d1Read", "afterImport"}
INVARIANT PendingHasAlarm
PROPERTIES EditsReachStorage
