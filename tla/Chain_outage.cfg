\* The same where the server broadcasts nothing itself.
CONSTANTS
    NoKey = NoKey NoRecord = NoRecord NoId = NoId NoBlock = NoBlock NoReceipt = NoReceipt
    Keys = {}
    Hashes = {h1}
    Blocks = {b1, b2}
    Submitters = {}
    Pollers = {p1}
    FirstPoller = p1
    FirstBlock = b1
    Evidence <- AdapterEvidence
    Family = "evm"
    Required = 2
    MaxPollAttempts = 3
    ExpirySweep = FALSE
SPECIFICATION MCSpec
INVARIANT NoOutageFails
CHECK_DEADLOCK FALSE
