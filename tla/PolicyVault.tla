------------------------------ MODULE PolicyVault ------------------------------
(***************************************************************************)
(* The Soroban vault, which holds users' tokens and pays them out against  *)
(* intents of the policy contract.                                         *)
(*                                                                         *)
(* A withdrawal asks the policy whether the intent is valid and whose it   *)
(* is.  The vault remembers the intents it has consumed; the policy is not *)
(* told, so an intent is executed there and consumed here independently.   *)
(* A call that panics changes nothing, so each call is one step.  The      *)
(* token contract is external: it moves what transfer names or panics.     *)
(***************************************************************************)
EXTENDS Policy

CONSTANTS
    Funds,      \* what each user has of each token at first
    Transfers   \* amounts of deposits and withdrawals

ASSUME VaultAssumption ==
    /\ Funds \in Nat
    /\ Transfers \subseteq Nat \ {0}

VARIABLES
    balance,    \* Balance
    consumed,   \* ConsumedIntent
    wallet      \* the users' own balances of the tokens; the vault has the rest

vaultVars == <<balance, consumed, wallet>>

sorobanVars == <<policyVars, vaultVars>>

VaultInit ==
    /\ PolicyInit
    /\ balance = [u \in Users |-> [t \in Tokens |-> 0]]
    /\ consumed = {}
    /\ wallet = [u \in Users |-> [t \in Tokens |-> Funds]]

-----------------------------------------------------------------------------

\* Mutant: a revoked decision still validates its intents.
ValidThoughRevoked(i, t, n) ==
    /\ i \in intents \ executed
    /\ i.expiry >= ledger
    /\ i.token = t
    /\ i.amount >= n

\* get_intent_validity: neither the pause, the limits nor the assets are asked.
IntentValid(i, t, n) ==
    /\ i \in intents \ executed
    /\ i.expiry >= ledger
    /\ i.token = t
    /\ i.amount >= n
    /\ i.policy \notin revoked

Deposit(u, t, n) ==
    /\ wallet[u][t] >= n
    /\ wallet' = [wallet EXCEPT ![u][t] = @ - n]
    /\ balance' = [balance EXCEPT ![u][t] = @ + n]
    /\ UNCHANGED <<policyVars, consumed>>

\* Mutant: the user's balance is not compared.
WithdrawUnfunded(u, t, n, i) ==
    /\ i \notin consumed
    /\ IntentValid(i, t, n)
    /\ consumed' = consumed \cup {i}
    /\ i.policy.user = u
    /\ balance' = [balance EXCEPT ![u][t] = @ - n]
    /\ wallet' = [wallet EXCEPT ![u][t] = @ + n]
    /\ UNCHANGED policyVars

\* A smaller withdrawal consumes the whole intent.
Withdraw(u, t, n, i) ==
    /\ i \notin consumed
    /\ IntentValid(i, t, n)
    /\ consumed' = consumed \cup {i}
    /\ i.policy.user = u
    /\ balance[u][t] >= n
    /\ balance' = [balance EXCEPT ![u][t] = @ - n]
    /\ wallet' = [wallet EXCEPT ![u][t] = @ + n]
    /\ UNCHANGED policyVars

VaultNext ==
    \/ PolicyNext /\ UNCHANGED vaultVars
    \/ \E u \in Users, t \in Tokens, n \in Transfers : Deposit(u, t, n)
    \/ \E u \in Users, t \in Tokens, n \in Transfers, i \in intents : Withdraw(u, t, n, i)

VaultSpec == VaultInit /\ [][VaultNext]_sorobanVars

-----------------------------------------------------------------------------

VaultTypeOK ==
    /\ PolicyTypeOK
    /\ balance \in [Users -> [Tokens -> Nat]]
    /\ consumed \subseteq intents
    /\ wallet \in [Users -> [Tokens -> Nat]]

\* No user is paid from another's deposit: what a user has been paid is out of what they
\* deposited, and the vault's tokens, which are what the wallets lack, are the sum of the
\* balances it owes (deposit, withdraw).
OwnFundsOnly ==
    \A u \in Users, t \in Tokens :
        /\ balance[u][t] >= 0
        /\ wallet[u][t] + balance[u][t] = Funds

\* Some intent lets the user u receive n of t: their own, for that token and amount,
\* within its decision, and not executed, revoked or expired.
Authorises(i, u, t, n) ==
    /\ i \in intents \ executed
    /\ i.token = t
    /\ n <= i.amount
    /\ i.expiry >= ledger
    /\ i.policy.user = u
    /\ i.policy \in decisions \ revoked
    /\ i.policy.expiry >= ledger
    /\ ~Over(i.amount, i.policy.value)

Payment ==
    /\ consumed \subseteq consumed'
    /\ \A u \in Users, t \in Tokens :
          wallet'[u][t] > wallet[u][t] =>
             \E i \in consumed' \ consumed : Authorises(i, u, t, wallet'[u][t] - wallet[u][t])
    /\ \A i \in consumed' \ consumed : wallet'[i.policy.user][i.token] > wallet[i.policy.user][i.token]

\* Whatever the agent, the owner and the users do in between, every payment uses up an
\* intent that authorises it and that no payment used before, and an intent is used up by
\* its user's payment only: a withdrawal that fails leaves it (withdraw).
PaymentsAuthorised == [][Payment]_sorobanVars

=============================================================================
