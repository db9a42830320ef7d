\* Two hashes under one key, or under none, of a Stellar wallet, whose
\* placeholders no lookup by hash finds; two batches of two streams over three
\* events, in one process or in two; two users and two intents over three windows.
CONSTANTS
    NoKey = NoKey NoRecord = NoRecord NoId = NoId NoBlock = NoBlock
    Keys = {k1}
    Hashes = {h1, h2}
    Blocks = {}
    Submitters = {s1, s2}
    Pollers = {p1}
    Evidence <- SubmitEvidence
    Family = "stellar"
    Required = 2
    MaxPollAttempts = 1
    ExpirySweep = FALSE
    t1 = t1 t2 = t2
    Streams = {t1, t2}
    Workers = {w1, w2}
    Wanted <- Policies
    MaxEvents = 3
    Limit = 2
    Retention = 2
    NoCursor = NoCursor NoWorker = NoWorker
    Users = {u, v}
    Tokens = {t}
    Amounts = {1, 2}
    Slippages = {1, 2}
    Charges <- DirectCharges
    Limits <- TwoDailyLimits
    DecisionLimits <- TwoDecisions
    Window = 1
    MaxLedger = 3
    MaxNonce = 1
    MaxIntents = 2
    MaxRefund = 1
    Funds = 2
    Transfers = {1, 2}
SPECIFICATION RacesSpec
SYMMETRY Symmetric
INVARIANT BroadcastOnce StoredUpToCursor WithinDecision OwnFundsOnly
PROPERTY CommittedStays WithinDailyLimit PaymentsAuthorised
CHECK_DEADLOCK FALSE
