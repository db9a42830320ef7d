------------------------------- MODULE EvmVault -------------------------------
(***************************************************************************)
(* GoldRaccoonPolicy and GoldRaccoonVault, the EVM twins of Policy and     *)
(* PolicyVault.                                                            *)
(*                                                                         *)
(* What the twins do not have: the vault calls a token in the middle of a  *)
(* deposit or a withdrawal, whose code may call vault and policy again and *)
(* may revert; the daily spend is counted by agent and by calendar day.    *)
(* A transfer under way is an entry of "transfers" with the state that its *)
(* revert brings back; other actions taken meanwhile are what the token's  *)
(* code does.  A token that is there moves what it is told to move, at     *)
(* some moment of its call, or reverts.                                    *)
(*                                                                         *)
(* Decisions and intents are stored under the hash of their content, so a  *)
(* record stands for its hash.  Owner and emergency admin may call at any  *)
(* time.  Slippage is left out: it is compared when an intent is made and  *)
(* not kept, and without any an intent always passes.                      *)
(***************************************************************************)
EXTENDS Naturals, Sequences, FiniteSets, Amounts

CONSTANTS
    Depositors, Coins,
    Operators,      \* the addresses that setAgent names
    Sizes,          \* amounts of intents, deposits and withdrawals
    Caps,           \* arguments of setLimits
    Savings,        \* what each depositor has of each token at first
    DayLength,      \* one day, in block times
    LastClock,      \* bound: block time
    MaxDecisions,   \* bound: decisions of a user
    MaxMade,        \* bound: intents made
    MaxTransfers    \* bound: transfers within transfers

ASSUME EvmVaultAssumption ==
    /\ Sizes \subseteq Nat \ {0}
    /\ Caps \subseteq [value : Nat, daily : Nat]
    /\ Savings \in Nat
    /\ DayLength \in Nat \ {0}
    /\ LastClock \in Nat
    /\ MaxDecisions \in Nat
    /\ MaxMade \in Nat
    /\ MaxTransfers \in Nat

VARIABLES
    rules,      \* the policy's configuration: paused, agent, limits, assets
    plans,      \* the policy's decisions and intents
    spending,   \* dailySpend and lastDailyReset
    funds,      \* the vault's balances and consumed intents, and the token's
    transfers,  \* the transfers that have not returned, the innermost last
    clock       \* block time

evmVars == <<rules, plans, spending, funds, transfers, clock>>

Today == clock \div DayLength

Agreed == [user : Depositors, nonce : Nat, value : Nat, expiry : Nat]

\* With whom and when it was made, which its hash leaves out.
Plan == [decision : Agreed, coin : Coins, amount : Nat, expiry : Nat,
         by : Operators, day : Nat]

SamePlan(i, j) ==
    /\ i.decision = j.decision /\ i.coin = j.coin
    /\ i.amount = j.amount /\ i.expiry = j.expiry

\* After the owner's first setAgent and setLimits, on the first day.
EvmInit ==
    /\ \E a \in Operators, l \in Caps :
          rules = [paused |-> FALSE, agent |-> a, value |-> l.value, daily |-> l.daily,
                   allowed |-> {}, listed |-> FALSE, blocked |-> {}]
    /\ plans = [nonce |-> [u \in Depositors |-> 0], decisions |-> {}, revoked |-> {},
                intents |-> {}, executed |-> {}]
    /\ spending = [spent |-> [a \in Operators |-> 0], day |-> 0]
    /\ funds = [balance |-> [u \in Depositors |-> [c \in Coins |-> 0]], consumed |-> {},
                wallet |-> [u \in Depositors |-> [c \in Coins |-> Savings]],
                paid |-> [u \in Depositors |-> [c \in Coins |-> 0]]]
    /\ transfers = <<>>
    /\ clock = DayLength

-----------------------------------------------------------------------------
(* The policy *)

Configure(r) == rules' = r /\ UNCHANGED <<plans, spending, funds, transfers, clock>>

SetAgent(a) == Configure([rules EXCEPT !.agent = a])
SetCaps(l) == Configure([rules EXCEPT !.value = l.value, !.daily = l.daily])
SetHalted(on) == Configure([rules EXCEPT !.paused = on])

AllowCoin(c) ==
    /\ c \notin rules.allowed
    /\ c \notin rules.blocked
    /\ Configure([rules EXCEPT !.allowed = @ \cup {c}, !.listed = TRUE])

\* An asset unblocked is not allowed again.
BlockCoin(c, on) ==
    Configure([rules EXCEPT !.allowed = IF on THEN @ \ {c} ELSE @,
                            !.blocked = IF on THEN @ \cup {c} ELSE @ \ {c}])

CoinAllowed(c) == c \notin rules.blocked /\ (c \in rules.allowed \/ ~rules.listed)

Planned(p) == plans' = p /\ UNCHANGED <<rules, funds, transfers, clock>>

Decide(u, value, expiry) ==
    /\ ~rules.paused
    /\ expiry > clock
    /\ plans.nonce[u] < MaxDecisions
    /\ Planned([plans EXCEPT !.nonce[u] = @ + 1,
          !.decisions = @ \cup {[user |-> u, nonce |-> plans.nonce[u] + 1, value |-> value,
                                 expiry |-> expiry]}])
    /\ UNCHANGED spending

\* By owner, emergency admin, user or the agent of the decision, paused or not.
RevokeDecision(d) ==
    /\ Planned([plans EXCEPT !.revoked = @ \cup {d}])
    /\ UNCHANGED spending

\* Mutant: the day of the reset is not stored.
SpendResetting(amount) ==
    LET sofar == IF Today # spending.day THEN 0 ELSE spending.spent[rules.agent] IN
    /\ sofar + amount <= rules.daily
    /\ spending' = [spending EXCEPT !.spent[rules.agent] = sofar + amount]

\* _checkDailySpend: whichever agent spends first on a day opens it for all and
\* clears its own count; the others keep what they had.
Spend(amount) ==
    LET sofar == IF Today # spending.day THEN 0 ELSE spending.spent[rules.agent] IN
    /\ sofar + amount <= rules.daily
    /\ spending' = [spending EXCEPT !.spent[rules.agent] = sofar + amount, !.day = Today]

MakePlan(i) ==
    /\ ~rules.paused
    /\ CoinAllowed(i.coin)
    /\ i.expiry > clock
    /\ i.decision \notin plans.revoked
    /\ i.decision.expiry >= i.expiry
    /\ i.amount <= i.decision.value
    /\ i.amount <= rules.value
    /\ Spend(i.amount)
    /\ \A j \in plans.intents : ~SamePlan(i, j)
    /\ Cardinality(plans.intents) < MaxMade
    /\ Planned([plans EXCEPT !.intents = @ \cup {i}])

\* executeIntent calls nobody, so its guard against reentrancy never bites.
ExecutePlan(i) ==
    /\ ~rules.paused
    /\ i \notin plans.executed
    /\ i.expiry >= clock
    /\ i.decision \notin plans.revoked
    /\ Planned([plans EXCEPT !.executed = @ \cup {i}])
    /\ UNCHANGED spending

\* By owner or emergency admin, whatever the state of the intent.
RevokePlan(i) ==
    /\ Planned([plans EXCEPT !.executed = @ \cup {i}])
    /\ UNCHANGED spending

-----------------------------------------------------------------------------
(* The vault *)

Saved == [rules |-> rules, plans |-> plans, spending |-> spending, funds |-> funds]

\* The vault calls the token.
Calls(kind, u, c, n) ==
    /\ Len(transfers) < MaxTransfers
    /\ transfers' = Append(transfers, [kind |-> kind, user |-> u, coin |-> c, amount |-> n,
                                       moved |-> FALSE, before |-> Saved])
    /\ UNCHANGED <<rules, plans, spending, clock>>

PutIn(u, c, n) == Calls("in", u, c, n) /\ UNCHANGED funds

\* getIntentValidity: neither the pause, the limits nor the assets are asked.
PlanValid(i, c, n) ==
    /\ i \notin plans.executed
    /\ i.expiry >= clock
    /\ i.coin = c
    /\ i.amount >= n
    /\ i.decision \notin plans.revoked

\* Mutant: the intent is not consumed before the token is called.
TakeOutUnmarked(u, c, n, i) ==
    /\ i \notin funds.consumed
    /\ PlanValid(i, c, n)
    /\ i.decision.user = u
    /\ funds.balance[u][c] >= n
    /\ funds' = [funds EXCEPT !.balance[u][c] = @ - n]
    /\ Calls("out", u, c, n)

\* A smaller withdrawal consumes the whole intent.
TakeOut(u, c, n, i) ==
    /\ i \notin funds.consumed
    /\ PlanValid(i, c, n)
    /\ i.decision.user = u
    /\ funds.balance[u][c] >= n
    /\ funds' = [funds EXCEPT !.consumed = @ \cup {i}, !.balance[u][c] = @ - n]
    /\ Calls("out", u, c, n)

-----------------------------------------------------------------------------
(* The token *)

Busy == transfers # <<>>
Last == transfers[Len(transfers)]
Ended == transfers' = SubSeq(transfers, 1, Len(transfers) - 1)

\* Before the code it calls, or after it.
TokenMoves ==
    /\ Busy
    /\ ~Last.moved
    /\ \/ /\ Last.kind = "in"
          /\ funds.wallet[Last.user][Last.coin] >= Last.amount
          /\ funds' = [funds EXCEPT !.wallet[Last.user][Last.coin] = @ - Last.amount]
       \/ /\ Last.kind = "out"
          /\ funds' = [funds EXCEPT !.wallet[Last.user][Last.coin] = @ + Last.amount,
                                    !.paid[Last.user][Last.coin] = @ + Last.amount]
    /\ transfers' = [transfers EXCEPT ![Len(transfers)].moved = TRUE]
    /\ UNCHANGED <<rules, plans, spending, clock>>

\* What the vault does after the token's answer.
Credit ==
    funds' = IF Last.kind = "in"
             THEN [funds EXCEPT !.balance[Last.user][Last.coin] = @ + Last.amount]
             ELSE funds

TransferReturns ==
    /\ Busy
    /\ Last.moved
    /\ Credit
    /\ Ended
    /\ UNCHANGED <<rules, plans, spending, clock>>

\* Mutant: a transfer that fails is taken for one that succeeded.
TransferFailureIgnored ==
    /\ Busy
    /\ Credit
    /\ Ended
    /\ UNCHANGED <<rules, plans, spending, clock>>

\* The call of the vault reverts, and with it all that the token's code did.
TransferReverts ==
    /\ Busy
    /\ Ended
    /\ rules' = Last.before.rules /\ plans' = Last.before.plans
    /\ spending' = Last.before.spending /\ funds' = Last.before.funds
    /\ UNCHANGED clock

\* Blocks follow one another between transactions.
EvmTick ==
    /\ ~Busy
    /\ clock < LastClock
    /\ clock' = clock + 1
    /\ UNCHANGED <<rules, plans, spending, funds, transfers>>

-----------------------------------------------------------------------------

Ahead == clock + 1 .. LastClock

Offers(d) ==
    {[decision |-> d, coin |-> c, amount |-> n, expiry |-> e, by |-> rules.agent, day |-> Today] :
        c \in Coins, n \in Sizes, e \in Ahead}

PolicyCall ==
    \/ \E a \in Operators : SetAgent(a)
    \/ \E l \in Caps : SetCaps(l)
    \/ \E on \in BOOLEAN : SetHalted(on)
    \/ \E c \in Coins : AllowCoin(c) \/ \E on \in BOOLEAN : BlockCoin(c, on)
    \/ \E u \in Depositors, n \in Sizes, e \in Ahead : Decide(u, n, e)
    \/ \E d \in plans.decisions : RevokeDecision(d) \/ \E i \in Offers(d) : MakePlan(i)
    \/ \E i \in plans.intents : ExecutePlan(i) \/ RevokePlan(i)

VaultCall ==
    \E u \in Depositors, c \in Coins, n \in Sizes :
        PutIn(u, c, n) \/ \E i \in plans.intents : TakeOut(u, c, n, i)

TokenStep == TokenMoves \/ TransferReturns \/ TransferReverts

EvmNext == PolicyCall \/ VaultCall \/ TokenStep \/ EvmTick

EvmSpec == EvmInit /\ [][EvmNext]_evmVars

-----------------------------------------------------------------------------
(* Properties *)

\* Whatever a token's code calls, nests or reverts, and whenever it moves the
\* amount, the vault holds at least what it owes, in the middle of a call too
\* (deposit, withdraw): nobody has more in wallet and account than they brought.
Solvent ==
    \A u \in Depositors, c \in Coins : funds.wallet[u][c] + funds.balance[u][c] <= Savings

\* A user is paid no more than the intents allow that were made for them, that
\* were consumed and that no other payment used, however withdrawals overlap.
PaidWithinPlans ==
    \A u \in Depositors, c \in Coins :
        funds.paid[u][c] <=
            Total({i \in funds.consumed : i.decision.user = u /\ i.coin = c})

\* An intent is made only if all intents of its agent of that day stay within
\* the daily limit in force, whichever agents came before and between.
SpendsWithinDay ==
    [][\A i \in plans'.intents \ plans.intents :
          Total({j \in plans'.intents : j.by = i.by /\ j.day = i.day}) <= rules.daily]_evmVars

=============================================================================
