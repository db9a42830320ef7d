\* Every interleaving of handlers, mirror writes, failing writes, one erasure after
\* another and one restart.
CONSTANTS
    b1 = b1
    NoKey = NoKey NoRecord = NoRecord NoId = NoId NoBlock = NoBlock NoRow = NoRow
    Hydration = Hydration
    Keys = {k1}
    Hashes = {h1}
    Blocks = {b1}
    Submitters = {s1}
    Pollers = {p1}
    Evidence <- MirrorEvidence
    Family = "evm"
    Required = 1
    MaxPollAttempts = 1
    ExpirySweep = FALSE
    MaxQueue = 2
    MaxRestarts = 1
    Tokens = {t1}
    EntryIds = {i1, i2}
    MaxRows = 2
    Scanners = {c1}
    MaxWrites = 3
    MaxReboots = 1
    NoEntry = NoEntry
SPECIFICATION MirroredSpec
INVARIANT MirrorCatchesUp RemovedStaysRemoved ErasedComesBackLate TableFollowsMemory
VIEW View
SYMMETRY Symmetric
CHECK_DEADLOCK FALSE
