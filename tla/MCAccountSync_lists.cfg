SPECIFICATION FairSpec
CONSTANTS
    Syncs = {s1, s2}
    Requests = {}
    ExtIds = {x, y}
    Uuids = {u1, u2, u3}
    Fields = {"type"}
    Values = {zero}
    Zero = zero
    NoVal = NoVal
    NoExt = NoExt
    NoUuid = NoUuid
    NoRow = NoRow
    FETCH_ATTEMPTS = 2
    MaxManual = 1
INVARIANTS CleanSyncMirrors
PROPERTIES OnlyFullListDeactivates SyncEnds
CHECK_DEADLOCK FALSE
