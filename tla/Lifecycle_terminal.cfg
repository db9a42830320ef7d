\* A poll that began before a rejection undoes it.
CONSTANTS
    b1 = b1 b2 = b2
    NoKey = NoKey NoRecord = NoRecord NoId = NoId NoBlock = NoBlock
    Keys = {}
    Hashes = {h1}
    Blocks = {b1, b2}
    Submitters = {s1}
    Pollers = {p1}
    Evidence <- PollEvidence
    Family = "evm"
    Required = 2
    MaxPollAttempts = 3
    ExpirySweep = FALSE
SPECIFICATION Spec
PROPERTY TerminalIsFinal
CHECK_DEADLOCK FALSE
