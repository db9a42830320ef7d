--------------------------------- MODULE Policy ---------------------------------
(***************************************************************************)
(* The Soroban policy contract: what the agent may do with users' funds.   *)
(*                                                                         *)
(* Decisions and intents are stored under the hash of their content, which *)
(* covers the user's nonce and the ledger, so a record stands for its      *)
(* hash.  What changes afterwards is in the sets revoked and executed.     *)
(* One clock stands for the ledger sequence and for its timestamp.  Who    *)
(* holds the roles of owner, emergency admin and agent is left out: a call *)
(* reserved to a role may come at any time.  A limit of 0 stands for every *)
(* limit that is not positive.                                             *)
(***************************************************************************)
EXTENDS Integers, FiniteSets, Amounts

CONSTANTS
    Users, Tokens,
    Amounts,          \* amounts of intents
    Slippages,        \* slippage_bps of intents
    Charges,          \* amounts check_daily_spend is called with directly, by anyone
    Limits,           \* arguments of set_limits
    DecisionLimits,   \* arguments of apply_policy
    Window,           \* daily_window, in ledgers
    MaxLedger,        \* bound: ledgers
    MaxNonce,         \* bound: decisions of a user
    MaxIntents,       \* bound: intents made
    MaxRefund         \* bound: what a window's negative charges give back

ASSUME PolicyAssumption ==
    /\ Amounts \subseteq Nat \ {0}
    /\ Slippages \subseteq Nat
    /\ Charges \subseteq Int
    /\ Limits \subseteq [value : Nat, slippage : Nat, daily : Nat]
    /\ DecisionLimits \subseteq [value : Nat, slippage : Nat]
    /\ Window \in Nat \ {0}
    /\ MaxLedger \in Nat \ {0}
    /\ MaxNonce \in Nat
    /\ MaxIntents \in Nat
    /\ MaxRefund \in Nat

VARIABLES
    ledger,      \* ledger sequence and time
    paused,
    limits,      \* MaxTransactionValue, MaxSlippageBps, MaxDailySpend; 0 is none
    allowed,     \* AllowedAsset
    listed,      \* AllowedAssetList
    blocked,     \* BlockedAsset: no key, FALSE or TRUE
    nonce,       \* Nonce
    decisions,   \* PolicyDecision
    revoked,     \* the decisions whose revoked is TRUE
    intents,     \* Intent
    executed,    \* the intents whose executed is TRUE
    spent,       \* DailySpend
    reset,       \* LastDailyReset, 0 before the first charge
    refunded     \* history: what negative charges gave back since the window opened

assetVars == <<allowed, listed, blocked>>
decisionVars == <<nonce, decisions, revoked>>
intentVars == <<intents, executed>>
spendVars == <<spent, reset, refunded>>
policyVars == <<ledger, paused, limits, assetVars, decisionVars, intentVars, spendVars>>

Decision == [user : Users, nonce : Nat, value : Nat, slippage : Nat, expiry : Nat]

Intent == [policy : Decision, token : Tokens, amount : Nat, slippage : Nat,
           expiry : Nat, created : Nat]

\* hash_intent leaves the slippage out.
SameHash(i, j) == [i EXCEPT !.slippage = 0] = [j EXCEPT !.slippage = 0]

AssetAllowed(t) ==
    /\ blocked[t] # "blocked"
    /\ t \in allowed \/ listed = {}

Over(amount, limit) == limit > 0 /\ amount > limit

\* After initialize and the owner's first set_limits.
PolicyInit ==
    /\ ledger = 1
    /\ paused = FALSE
    /\ limits \in Limits
    /\ allowed = {} /\ listed = {}
    /\ blocked = [t \in Tokens |-> "no key"]
    /\ nonce = [u \in Users |-> 0]
    /\ decisions = {} /\ revoked = {}
    /\ intents = {} /\ executed = {}
    /\ spent = 0 /\ reset = 0 /\ refunded = 0

-----------------------------------------------------------------------------

SetLimits ==
    /\ limits' \in Limits
    /\ UNCHANGED <<ledger, paused, assetVars, decisionVars, intentVars, spendVars>>

\* An asset that was blocked once keeps its key, unblocked or not.
AllowAsset(t) ==
    /\ blocked[t] = "no key"
    /\ allowed' = allowed \cup {t}
    /\ listed' = listed \cup {t}
    /\ UNCHANGED <<ledger, paused, limits, blocked, decisionVars, intentVars, spendVars>>

BlockAsset(t, on) ==
    /\ blocked' = [blocked EXCEPT ![t] = IF on THEN "blocked" ELSE "unblocked"]
    /\ allowed' = IF on THEN allowed \ {t} ELSE allowed
    /\ UNCHANGED <<ledger, paused, limits, listed, decisionVars, intentVars, spendVars>>

SetPaused(on) ==
    /\ paused' = on
    /\ UNCHANGED <<ledger, limits, assetVars, decisionVars, intentVars, spendVars>>

\* Mutant: the nonce is read and not stored.
ApplyPolicyUnnumbered(u, limit, expiry) ==
    /\ ~paused
    /\ expiry > ledger
    /\ nonce[u] < MaxNonce
    /\ decisions' = decisions \cup {[user |-> u, nonce |-> nonce[u] + 1, value |-> limit.value,
                                     slippage |-> limit.slippage, expiry |-> expiry]}
    /\ UNCHANGED <<ledger, paused, limits, assetVars, nonce, revoked, intentVars, spendVars>>

ApplyPolicy(u, limit, expiry) ==
    /\ ~paused
    /\ expiry > ledger
    /\ nonce[u] < MaxNonce
    /\ nonce' = [nonce EXCEPT ![u] = @ + 1]
    /\ decisions' = decisions \cup {[user |-> u, nonce |-> nonce[u] + 1, value |-> limit.value,
                                     slippage |-> limit.slippage, expiry |-> expiry]}
    /\ UNCHANGED <<ledger, paused, limits, assetVars, revoked, intentVars, spendVars>>

\* By the user of the decision, paused or not.
RevokePolicy(d) ==
    /\ revoked' = revoked \cup {d}
    /\ UNCHANGED <<ledger, paused, limits, assetVars, nonce, decisions, intentVars, spendVars>>

WindowOver == reset = 0 \/ ledger - reset >= Window

Refund(amount) == IF amount < 0 THEN -amount ELSE 0

Opens(amount) ==
    /\ WindowOver
    /\ spent' = amount
    /\ reset' = ledger
    /\ refunded' = Refund(amount)

Adds(amount) ==
    /\ ~WindowOver
    /\ spent + amount <= limits.daily
    /\ spent' = spent + amount
    /\ refunded' = refunded + Refund(amount)
    /\ UNCHANGED reset

\* Mutant: the first charge of a window is not compared with the limit.
ChargeUnchecked(amount) ==
    IF limits.daily = 0 THEN UNCHANGED spendVars ELSE Opens(amount) \/ Adds(amount)

\* check_daily_spend, of whatever amount: a negative one makes room for others.
Charge(amount) ==
    \/ limits.daily = 0 /\ UNCHANGED spendVars
    \/ limits.daily > 0 /\ amount <= limits.daily /\ Opens(amount)
    \/ limits.daily > 0 /\ Adds(amount)

\* check_daily_spend is an entry point of its own, which asks nobody's authorisation.
CheckDailySpend(amount) ==
    /\ Charge(amount)
    /\ refunded' <= MaxRefund
    /\ UNCHANGED <<ledger, paused, limits, assetVars, decisionVars, intentVars>>

\* Mutant: the expiry of the decision is not compared.
IntentFitsNow(i) ==
    /\ i.policy \notin revoked
    /\ ~Over(i.amount, i.policy.value)
    /\ ~Over(i.slippage, i.policy.slippage)

\* What create_intent asks of the decision.
IntentFits(i) ==
    /\ i.policy \notin revoked
    /\ i.expiry <= i.policy.expiry
    /\ ~Over(i.amount, i.policy.value)
    /\ ~Over(i.slippage, i.policy.slippage)

CreateIntent(i) ==
    /\ ~paused
    /\ i.expiry > ledger
    /\ ~Over(i.amount, limits.value)
    /\ i.slippage <= limits.slippage
    /\ AssetAllowed(i.token)
    /\ IntentFits(i)
    /\ Charge(i.amount)
    /\ \A j \in intents : ~SameHash(i, j)
    /\ Cardinality(intents) < MaxIntents
    /\ intents' = intents \cup {i}
    /\ UNCHANGED <<ledger, paused, limits, assetVars, decisionVars, executed>>

ExecuteIntent(i) ==
    /\ ~paused
    /\ i \notin executed
    /\ i.expiry >= ledger
    /\ i.policy \notin revoked
    /\ ~Over(i.amount, i.policy.value)
    /\ ~Over(i.slippage, i.policy.slippage)
    /\ executed' = executed \cup {i}
    /\ UNCHANGED <<ledger, paused, limits, assetVars, decisionVars, intents, spendVars>>

\* By the owner, whatever the state of the intent.
RevokeIntent(i) ==
    /\ executed' = executed \cup {i}
    /\ UNCHANGED <<ledger, paused, limits, assetVars, decisionVars, intents, spendVars>>

Tick ==
    /\ ledger < MaxLedger
    /\ ledger' = ledger + 1
    /\ UNCHANGED <<paused, limits, assetVars, decisionVars, intentVars, spendVars>>

Requests(d) ==
    {[policy |-> d, token |-> t, amount |-> n, slippage |-> s, expiry |-> e, created |-> ledger] :
        t \in Tokens, n \in Amounts, s \in Slippages, e \in ledger + 1 .. MaxLedger}

PolicyNext ==
    \/ SetLimits
    \/ \E t \in Tokens : AllowAsset(t)
    \/ \E t \in Tokens, on \in BOOLEAN : BlockAsset(t, on)
    \/ \E on \in BOOLEAN : SetPaused(on)
    \/ \E u \in Users, limit \in DecisionLimits, e \in ledger + 1 .. MaxLedger : ApplyPolicy(u, limit, e)
    \/ \E d \in decisions : RevokePolicy(d)
    \/ \E amount \in Charges : CheckDailySpend(amount)
    \/ \E d \in decisions : \E i \in Requests(d) : CreateIntent(i)
    \/ \E i \in intents : ExecuteIntent(i) \/ RevokeIntent(i)
    \/ Tick

PolicySpec == PolicyInit /\ [][PolicyNext]_policyVars

-----------------------------------------------------------------------------

\* What the storage holds: decisions are numbered by nonces already used, intents belong to stored decisions, marks to stored records.
PolicyTypeOK ==
    /\ ledger \in 1 .. MaxLedger
    /\ paused \in BOOLEAN
    /\ limits \in Limits
    /\ allowed \subseteq Tokens /\ listed \subseteq Tokens
    /\ blocked \in [Tokens -> {"no key", "unblocked", "blocked"}]
    /\ nonce \in [Users -> 0 .. MaxNonce]
    /\ decisions \subseteq Decision
    /\ \A d \in decisions : d.nonce \in 1 .. nonce[d.user]
    /\ revoked \subseteq decisions
    /\ intents \subseteq Intent
    /\ \A i \in intents : i.policy \in decisions
    /\ executed \subseteq intents
    /\ spent \in Int
    /\ reset \in 0 .. ledger
    /\ refunded \in Nat

\* An intent never outlives or exceeds its decision, and no two share a hash, however
\* decisions, limits and assets change after it was made (create_intent).
WithinDecision ==
    /\ \A i \in intents :
          /\ i.expiry <= i.policy.expiry
          /\ ~Over(i.amount, i.policy.value)
          /\ ~Over(i.slippage, i.policy.slippage)
    /\ \A i, j \in intents : SameHash(i, j) => i = j

\* An intent is made only if all intents made since the window opened stay within the
\* daily limit in force and what callers gave back with negative charges, and windows are
\* Window ledgers apart (check_daily_spend, with limits that are never lifted).
WithinDailyLimit ==
    [][(\A l \in Limits : l.daily > 0) =>
          /\ intents' # intents =>
                Total({i \in intents' : i.created >= reset'}) <= limits.daily + refunded'
          /\ reset' # reset => reset = 0 \/ reset' >= reset + Window]_policyVars

\* The ledgers of a day, at 5 seconds a ledger, for a Window of 1440 ledgers.
Day == 12 * Window

\* "The daily window resets every 24h": intents of the day the first intent opens stay
\* within the limit, if that limit never changes.
DailyLimitLastsADay ==
    \A first \in intents, l \in Limits :
        (Limits = {l} /\ \A i \in intents : first.created <= i.created) =>
            Total({i \in intents : i.created < first.created + Day}) <= l.daily

=============================================================================
