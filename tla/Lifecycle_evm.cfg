\* Two concurrent polls of one transaction against every answer of the EVM
\* adapter, with a submission, a rejection and an expiry sweep around them.
CONSTANTS
    b1 = b1 b2 = b2
    NoKey = NoKey NoRecord = NoRecord NoId = NoId NoBlock = NoBlock
    Keys = {}
    Hashes = {h1}
    Blocks = {b1, b2}
    Submitters = {s1}
    Pollers = {p1, p2}
    Evidence <- PollEvidence
    Family = "evm"
    Required = 2
    MaxPollAttempts = 3
    ExpirySweep = TRUE
SPECIFICATION Spec
INVARIANT TypeOK ConfirmedOnEvidence DroppedNeedsThreeAbsences
PROPERTY QuiescentTerminalIsFinal
SYMMETRY Symmetric
CHECK_DEADLOCK FALSE
