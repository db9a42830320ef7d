\* The registry: every log of five events of a user, an agent, two policies and
\* one intent id.  The timelock: two proposals whose targets call back, change
\* parameters and fail.  The EVM policy and vault: two intents, two agents, two days,
\* and a token that calls back once.
CONSTANTS
    Users = {u}
    Agents = {g}
    Policies = {p, q}
    IntentIds = {i}
    NoAgent = NoAgent NoPolicy = NoPolicy NoIntent = NoIntent NoGrant = NoGrant
    Durations = {9, 14, 15}
    MaxAuthorizationWindow = 14
    MaxIntentWindow = 14
    MinTemporaryTtl = 1
    LedgerSeconds = {5, 7}
    MaxLedger = 4
    MaxEvents = 5
    a = a b = b
    Accounts = {a, b}
    Admin = b
    SignerLists <- Lists
    MinDelaySecs = 1
    MaxDelaySecs = 2
    MaxTime = 2
    MaxProposals = 2
    MaxCalls = 2
    Depositors = {d}
    Coins = {coin}
    Operators = {o1, o2}
    Sizes = {1}
    Caps <- Limits
    Savings = 2
    DayLength = 1
    LastClock = 3
    MaxDecisions = 1
    MaxMade = 2
    MaxTransfers = 2
SPECIFICATION ContractsSpec
SYMMETRY Symmetry
INVARIANT LogJustified NoReplayWhileLive
INVARIANT SignersAgree DoneOnce ExecutedIsDone ExecutedWithinRules
INVARIANT Solvent PaidWithinPlans
PROPERTY SpendsWithinDay KeepsPromise
CHECK_DEADLOCK FALSE
