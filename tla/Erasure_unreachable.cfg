\* An erasure that gets no connection reports success, and the rows stay.
CONSTANTS
    Hydration = Hydration
    Tokens = {t1}
    EntryIds = {i1}
    MaxRows = 1
    Scanners = {}
    MaxWrites = 1
    MaxReboots = 1
    NoEntry = NoEntry
SPECIFICATION WatchSpec
INVARIANT SuccessReachesTable
CHECK_DEADLOCK FALSE
