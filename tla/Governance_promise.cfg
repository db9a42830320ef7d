\* A proposal while signers, delays and pause change and time passes.
CONSTANTS
    a = a b = b c = c
    Accounts = {a, b, c}
    Admin = c
    Changes = {upgrade}
    SignerLists <- Lists
    MinDelaySecs = 1
    MaxDelaySecs = 2
    MaxTime = 3
    MaxProposals = 1
SPECIFICATION Spec
INVARIANT SignedBySnapshot
PROPERTY KeepsPromise
CHECK_DEADLOCK FALSE
