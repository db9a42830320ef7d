\* The placeholder row keeps the key, and the submitted record gets no row.
CONSTANTS
    b1 = b1
    NoKey = NoKey NoRecord = NoRecord NoId = NoId NoBlock = NoBlock NoRow = NoRow
    Hydration = Hydration
    Keys = {k1}
    Hashes = {h1}
    Blocks = {b1}
    Submitters = {s1}
    Pollers = {}
    Evidence <- MirrorEvidence
    Family = "evm"
    Required = 1
    MaxPollAttempts = 1
    ExpirySweep = FALSE
    MaxQueue = 3
    MaxRestarts = 1
SPECIFICATION MirrorSpec
INVARIANT SubmittedIsDurable
CHECK_DEADLOCK FALSE
