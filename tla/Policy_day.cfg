\* Intents of one day, whose ledgers are twelve windows.
CONSTANTS
    u = u t = t s = s
    Users = {u}
    Tokens = {t}
    Amounts = {1}
    Slippages = {1}
    Charges = {1}
    Limits <- OneDailyLimit
    DecisionLimits <- AnyDecision
    Window = 1
    MaxLedger = 3
    MaxNonce = 1
    MaxIntents = 3
    MaxRefund = 0
SPECIFICATION PolicySpec
INVARIANT DailyLimitLastsADay
CHECK_DEADLOCK FALSE
