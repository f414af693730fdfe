SPECIFICATION Spec
CONSTANTS
    c1 = c1
    c2 = c2
    e1 = e1
    e2 = e2
    e3 = e3
    e4 = e4
    Reader = Reader
    Clients <- MCClients
    Edits <- MCEdits
    Updates <- MCUpdates
    LegacyDocs <- MCLegacyDocs
    CompactionThreshold = 2
    ColdLoadBatch = 1
    MaxPending = 4
    Events = {"importWrite", "d1Batch", "hibernate"}
INVARIANTS SavedIsKept TailIsBounded
PROPERTIES ImplementsDurableDocument
