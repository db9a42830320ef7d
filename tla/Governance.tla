------------------------------- MODULE Governance -------------------------------
(***************************************************************************)
(* The Soroban governance contract: proposals that a snapshot of the       *)
(* signers signs and that may be executed after a delay.                   *)
(*                                                                         *)
(* An invocation is atomic: it panics and changes nothing, or is an action *)
(* below.  Authentication is the environment's, so an account appears as   *)
(* the caller it proved to be.  A proposal's id is the hash of proposer,   *)
(* change (target, selector, payload), delay and ledger time; the tuple    *)
(* of them stands for it.                                                  *)
(***************************************************************************)
EXTENDS Naturals, Sequences, FiniteSets

CONSTANTS
    Accounts,
    Admin,          \* the emergency admin
    Changes,        \* what may be proposed: target, selector and payload
    SignerLists,    \* lists of signers that callers pass
    MinDelaySecs, MaxDelaySecs,   \* MIN_DELAY_SECS, MAX_DELAY_SECS
    MaxTime,        \* bound: ledger time
    MaxProposals    \* bound: proposals opened

MinSigners == 2
MaxSigners == 10

ASSUME GovernanceAssumption ==
    /\ Admin \in Accounts
    /\ IsFiniteSet(Accounts)
    /\ SignerLists \subseteq Seq(Accounts)
    /\ MinDelaySecs \in Nat
    /\ MaxDelaySecs \in Nat
    /\ MinDelaySecs <= MaxDelaySecs
    /\ MaxTime \in Nat
    /\ MaxProposals \in Nat

VARIABLES
    signers,     \* the list of signers, which may repeat one; empty before initialize
    threshold,
    minDelay, maxDelay,
    paused,
    queue,       \* the ids proposed; the contract never takes one out
    proposals,   \* the proposal of each id in the queue
    now          \* ledger time

params == <<signers, threshold, minDelay, maxDelay>>
vars == <<params, paused, queue, proposals, now>>

Delays == MinDelaySecs .. MaxDelaySecs
Ids == Accounts \X Changes \X Delays \X (0 .. MaxTime)

Proposal == [effective : Nat, snapshot : SUBSET Accounts, signed : SUBSET Accounts,
             executed : BOOLEAN, cancelled : BOOLEAN]

Members(list) == {list[n] : n \in 1 .. Len(list)}

Initialized == signers # <<>>

Init ==
    /\ signers = <<>>
    /\ threshold = 0
    /\ minDelay = 0
    /\ maxDelay = 0
    /\ paused = FALSE
    /\ queue = {}
    /\ proposals = <<>>
    /\ now = 0

-----------------------------------------------------------------------------
(* Parameters: initialize, update_signers, update_delays, pause, unpause *)

\* The lengths count a repeated signer twice.
ValidSigners(list, t) ==
    /\ Len(list) \in MinSigners .. MaxSigners
    /\ t \in MinSigners .. Len(list)

ValidDelays(min, max) == min \in Delays /\ max \in Delays /\ min <= max

SetSigners(list, t) ==
    /\ ValidSigners(list, t)
    /\ signers' = list
    /\ threshold' = t

SetDelays(min, max) ==
    /\ ValidDelays(min, max)
    /\ minDelay' = min
    /\ maxDelay' = max

Initialize(list, t, min, max) ==
    /\ ~Initialized
    /\ SetSigners(list, t)
    /\ SetDelays(min, max)
    /\ UNCHANGED <<paused, queue, proposals, now>>

UpdateSigners(caller, list, t) ==
    /\ Initialized
    /\ caller = Admin
    /\ SetSigners(list, t)
    /\ UNCHANGED <<minDelay, maxDelay, paused, queue, proposals, now>>

UpdateDelays(caller, min, max) ==
    /\ Initialized
    /\ caller = Admin
    /\ SetDelays(min, max)
    /\ UNCHANGED <<signers, threshold, paused, queue, proposals, now>>

SetPaused(caller, b) ==
    /\ Initialized
    /\ caller = Admin
    /\ paused' = b
    /\ UNCHANGED <<params, queue, proposals, now>>

-----------------------------------------------------------------------------
(* Proposals: propose, sign, execute, cancel *)

\* Anyone may propose; the id must be new.
Propose(proposer, change, delay) ==
    LET id == <<proposer, change, delay, now>> IN
    /\ Initialized
    /\ ~paused
    /\ delay \in minDelay .. maxDelay
    /\ id \notin queue
    /\ Cardinality(queue) < MaxProposals
    /\ queue' = queue \cup {id}
    /\ proposals' = [i \in queue' |->
          IF i = id THEN [effective |-> now + delay, snapshot |-> Members(signers),
                          signed |-> {}, executed |-> FALSE, cancelled |-> FALSE]
          ELSE proposals[i]]
    /\ UNCHANGED <<params, paused, now>>

\* What sign, execute and cancel check first.
Open(id) == ~paused /\ ~proposals[id].executed /\ ~proposals[id].cancelled

\* Mutant: whoever is a signer when signing may sign.
SignByAnyone(signer, id) ==
    /\ Open(id)
    /\ signer \notin proposals[id].signed
    /\ proposals' = [proposals EXCEPT ![id].signed = @ \cup {signer}]
    /\ UNCHANGED <<params, paused, queue, now>>

\* The signers of the moment of the proposal sign, once each.
Sign(signer, id) ==
    /\ Open(id)
    /\ signer \in proposals[id].snapshot \ proposals[id].signed
    /\ proposals' = [proposals EXCEPT ![id].signed = @ \cup {signer}]
    /\ UNCHANGED <<params, paused, queue, now>>

\* Mutant: a cancelled proposal is executed.
ExecuteCancelled(id) ==
    /\ ~paused
    /\ ~proposals[id].executed
    /\ now >= proposals[id].effective
    /\ Cardinality(proposals[id].signed) >= threshold
    /\ proposals' = [proposals EXCEPT ![id].executed = TRUE]
    /\ UNCHANGED <<params, paused, queue, now>>

\* Anyone may execute, once the delay has passed and the signatures reach the
\* threshold of this moment.
Execute(id) ==
    /\ Open(id)
    /\ now >= proposals[id].effective
    /\ Cardinality(proposals[id].signed) >= threshold
    /\ proposals' = [proposals EXCEPT ![id].executed = TRUE]
    /\ UNCHANGED <<params, paused, queue, now>>

Cancel(caller, id) ==
    /\ Open(id)
    /\ caller \in {id[1], Admin} \cup proposals[id].snapshot
    /\ proposals' = [proposals EXCEPT ![id].cancelled = TRUE]
    /\ UNCHANGED <<params, paused, queue, now>>

\* Ledgers close.
Tick ==
    /\ now < MaxTime
    /\ now' = now + 1
    /\ UNCHANGED <<params, paused, queue, proposals>>

Next ==
    \/ \E list \in SignerLists, t \in 0 .. MaxSigners :
          \/ \E min, max \in Delays : Initialize(list, t, min, max)
          \/ \E a \in Accounts : UpdateSigners(a, list, t)
    \/ \E a \in Accounts :
          \/ \E min, max \in Delays : UpdateDelays(a, min, max)
          \/ \E b \in BOOLEAN : SetPaused(a, b)
          \/ \E change \in Changes, delay \in Delays : Propose(a, change, delay)
          \/ \E id \in queue : Sign(a, id) \/ Cancel(a, id)
    \/ \E id \in queue : Execute(id)
    \/ Tick

Spec == Init /\ [][Next]_vars

-----------------------------------------------------------------------------
(* Properties *)

\* The type invariant; a contract in use has at least two signatures to wait for.
TypeOK ==
    /\ signers \in Seq(Accounts)
    /\ threshold \in Nat
    /\ Initialized => ValidSigners(signers, threshold) /\ ValidDelays(minDelay, maxDelay)
    /\ paused \in BOOLEAN
    /\ queue \subseteq Ids
    /\ proposals \in [queue -> Proposal]
    /\ now \in 0 .. MaxTime

\* Signatures on a proposal are those of accounts that were signers when it was
\* opened: no later change of the signers adds a voice to it.
SignedBySnapshot ==
    \A id \in queue : proposals[id].signed \subseteq proposals[id].snapshot

\* "(1) no execution before effectiveAt, (2) single signer cannot schedule alone
\* (threshold enforcement), (3) cancel during delay permanently prevents
\* execution": the contract implements MultisigTimelock with the smallest
\* threshold and delay any parameters may have, however they are changed while
\* a proposal is pending.
StateOf(id) ==
    IF id \notin queue THEN "none"
    ELSE IF proposals[id].executed THEN "executed"
    ELSE IF proposals[id].cancelled THEN "cancelled"
    ELSE "pending"

OpenedOf(id) == IF id \in queue THEN id[4] ELSE 0

ApprovalsOf(id) == IF id \in queue THEN proposals[id].signed ELSE {}

Quorums == {voices \in SUBSET Accounts : Cardinality(voices) >= MinSigners}

Promise == INSTANCE MultisigTimelock WITH Delay <- MinDelaySecs, clock <- now,
    state <- [id \in Ids |-> StateOf(id)],
    opened <- [id \in Ids |-> OpenedOf(id)],
    approvals <- [id \in Ids |-> ApprovalsOf(id)]

KeepsPromise == Promise!AbstractSpec

=============
