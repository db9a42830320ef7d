---------------------------- MODULE MultisigTimelock ----------------------------
(***************************************************************************)
(* What both governance contracts promise: a proposal is executed at most  *)
(* once, only after its delay and the approval of several accounts, and    *)
(* never once it is cancelled.                                             *)
(***************************************************************************)
EXTENDS Naturals

CONSTANTS
    Ids,       \* possible proposals
    Accounts,
    Quorums,   \* the sets of accounts that are enough to approve one
    Delay      \* time no execution comes before

VARIABLES
    clock,
    state,     \* "none", "pending", "executed" or "cancelled", by proposal
    opened,    \* when a proposal was opened
    approvals  \* the accounts that approved it

abstractVars == <<clock, state, opened, approvals>>

AbstractInit ==
    /\ clock \in Nat
    /\ state = [i \in Ids |-> "none"]
    /\ opened = [i \in Ids |-> 0]
    /\ approvals = [i \in Ids |-> {}]

Pass ==
    /\ clock' = clock + 1
    /\ UNCHANGED <<state, opened, approvals>>

Open(i) ==
    /\ state[i] = "none"
    /\ state' = [state EXCEPT ![i] = "pending"]
    /\ opened' = [opened EXCEPT ![i] = clock]
    /\ UNCHANGED <<clock, approvals>>

Approve(i, a) ==
    /\ state[i] = "pending"
    /\ approvals' = [approvals EXCEPT ![i] = @ \cup {a}]
    /\ UNCHANGED <<clock, state, opened>>

Carry(i) ==
    /\ state[i] = "pending"
    /\ clock >= opened[i] + Delay
    /\ approvals[i] \in Quorums
    /\ state' = [state EXCEPT ![i] = "executed"]
    /\ UNCHANGED <<clock, opened, approvals>>

Drop(i) ==
    /\ state[i] = "pending"
    /\ state' = [state EXCEPT ![i] = "cancelled"]
    /\ UNCHANGED <<clock, opened, approvals>>

AbstractNext ==
    \/ Pass
    \/ \E i \in Ids : Open(i) \/ Carry(i) \/ Drop(i) \/ \E a \in Accounts : Approve(i, a)

AbstractSpec == AbstractInit /\ [][AbstractNext]_abstractVars

-----------------------------------------------------------------------------
(* A transaction may take several of these steps at once, of several       *)
(* proposals: the code an execution calls comes back.                      *)

\* What steps of one time may make of a proposal.
Advances(i) ==
    /\ state[i] \in {"none", "pending"}
    /\ state'[i] \in {"pending", "executed", "cancelled"}
    /\ opened'[i] = IF state[i] = "none" THEN clock ELSE opened[i]
    /\ approvals[i] \subseteq approvals'[i]
    /\ approvals'[i] \ approvals[i] \subseteq Accounts
    /\ state'[i] = "executed" => clock >= opened'[i] + Delay /\ approvals'[i] \in Quorums

Stays(i) == state'[i] = state[i] /\ opened'[i] = opened[i] /\ approvals'[i] = approvals[i]

Transaction ==
    /\ \A i \in Ids : Stays(i) \/ Advances(i)
    /\ UNCHANGED clock

TransactionSpec == AbstractInit /\ [][Pass \/ Transaction]_abstractVars

=============================================================================
