\* One transaction of an EVM wallet, over a chain with finality at depth two:
\* broadcast by the server or by the wallet and polled once at a time over two
\* blocks, or broadcast by the wallet and polled twice at a time over one.
CONSTANTS
    NoKey = NoKey NoRecord = NoRecord NoId = NoId NoBlock = NoBlock NoReceipt = NoReceipt
    Keys = {}
    Hashes = {h1}
    Blocks = {b1, b2}
    Submitters = {s1}
    Pollers = {p1, p2}
    FirstPoller = p1
    FirstBlock = b1
    Evidence <- AdapterEvidence
    Family = "evm"
    Required = 2
    MaxPollAttempts = 3
    ExpirySweep = FALSE
SPECIFICATION MCSpec
INVARIANT ConfirmedIsFinal FailedHasCause
PROPERTY PollingSettles
CHECK_DEADLOCK FALSE
