-------------------------------- MODULE Timelock --------------------------------
(***************************************************************************)
(* GoldRaccoonTimelock, the EVM twin of Governance.                        *)
(*                                                                         *)
(* Executing a proposal calls its target, whose code may call the timelock *)
(* again before it returns, and may revert.  A call that runs is an entry  *)
(* of "calls" with the storage a revert of it brings back; other actions   *)
(* that happen meanwhile are what the code called does.  An id hashes the  *)
(* count of proposals, so the index of a proposal stands for it.           *)
(***************************************************************************)
EXTENDS Naturals, Sequences, FiniteSets

CONSTANTS
    Accounts,
    Admin,          \* emergencyAdmin
    SignerLists,    \* lists of signers that callers pass
    MinDelaySecs, MaxDelaySecs,   \* MIN_DELAY_SECS, MAX_DELAY_SECS
    MaxTime,        \* bound: block time
    MaxProposals,   \* bound: proposals made
    MaxCalls        \* bound: calls within calls

MinSigners == 2

ASSUME TimelockAssumption ==
    /\ Admin \in Accounts
    /\ IsFiniteSet(Accounts)
    /\ SignerLists \subseteq Seq(Accounts)
    /\ MinDelaySecs \in Nat
    /\ MaxDelaySecs \in Nat
    /\ MinDelaySecs <= MaxDelaySecs
    /\ MaxTime \in Nat \ {0}
    /\ MaxProposals \in Nat
    /\ MaxCalls \in Nat

VARIABLES
    store,   \* the contract's storage
    calls,   \* the calls of targets that have not returned, the innermost last
    now      \* block time

vars == <<store, calls, now>>

Delays == MinDelaySecs .. MaxDelaySecs

Proposal == [proposer : Accounts, created : Nat, effective : Nat, signed : SUBSET Accounts,
             signatures : Nat, executed : BOOLEAN, cancelled : BOOLEAN,
             done : Nat]     \* how often its target was called to the end

Storage == [signers : Seq(Accounts), isSigner : SUBSET Accounts, threshold : Nat,
            minDelay : Nat, maxDelay : Nat, paused : BOOLEAN, proposals : Seq(Proposal)]

Members(list) == {list[n] : n \in 1 .. Len(list)}

ValidSigners(list, t) ==
    /\ Len(list) >= MinSigners
    /\ t \in MinSigners .. Len(list)

ValidDelays(min, max) == min \in Delays /\ max \in Delays /\ min <= max

\* The constructor.
Deployed(list, t, min, max) ==
    [signers |-> list, isSigner |-> Members(list), threshold |-> t, minDelay |-> min,
     maxDelay |-> max, paused |-> FALSE, proposals |-> <<>>]

Init ==
    /\ \E list \in SignerLists : \E t \in MinSigners .. Len(list), min, max \in Delays :
          /\ ValidSigners(list, t)
          /\ ValidDelays(min, max)
          /\ store = Deployed(list, t, min, max)
    /\ calls = <<>>
    /\ now = 1

-----------------------------------------------------------------------------

\* Mutant: the signers replaced keep their entries in isSigner.
UpdateSignersKeeping(caller, list, t) ==
    /\ caller = Admin
    /\ ValidSigners(list, t)
    /\ store' = [store EXCEPT !.signers = list, !.isSigner = @ \cup Members(list), !.threshold = t]
    /\ UNCHANGED <<calls, now>>

UpdateSigners(caller, list, t) ==
    /\ caller = Admin
    /\ ValidSigners(list, t)
    /\ store' = [store EXCEPT !.signers = list, !.threshold = t,
                              !.isSigner = (@ \ Members(store.signers)) \cup Members(list)]
    /\ UNCHANGED <<calls, now>>

UpdateDelays(caller, min, max) ==
    /\ caller = Admin
    /\ ValidDelays(min, max)
    /\ store' = [store EXCEPT !.minDelay = min, !.maxDelay = max]
    /\ UNCHANGED <<calls, now>>

SetPaused(caller, b) ==
    /\ caller = Admin
    /\ store' = [store EXCEPT !.paused = b]
    /\ UNCHANGED <<calls, now>>

Propose(caller, delay) ==
    /\ ~store.paused
    /\ caller \in store.isSigner
    /\ delay \in store.minDelay .. store.maxDelay
    /\ Len(store.proposals) < MaxProposals
    /\ store' = [store EXCEPT !.proposals = Append(@,
          [proposer |-> caller, created |-> now, effective |-> now + delay, signed |-> {},
           signatures |-> 0, executed |-> FALSE, cancelled |-> FALSE, done |-> 0])]
    /\ UNCHANGED <<calls, now>>

Proposals == DOMAIN store.proposals

\* What sign, execute and cancel check first.
Open(id) ==
    /\ ~store.paused
    /\ ~store.proposals[id].executed
    /\ ~store.proposals[id].cancelled

Becomes(id, proposal) == store' = [store EXCEPT !.proposals[id] = proposal]

\* Mutant: a signer may sign again.
SignAgain(caller, id) ==
    /\ Open(id)
    /\ caller \in store.isSigner
    /\ Becomes(id, [store.proposals[id] EXCEPT !.signed = @ \cup {caller}, !.signatures = @ + 1])
    /\ UNCHANGED <<calls, now>>

\* The signers of this moment sign, once each.
Sign(caller, id) ==
    /\ Open(id)
    /\ caller \in store.isSigner
    /\ caller \notin store.proposals[id].signed
    /\ Becomes(id, [store.proposals[id] EXCEPT !.signed = @ \cup {caller}, !.signatures = @ + 1])
    /\ UNCHANGED <<calls, now>>

Executable(id) ==
    /\ Open(id)
    /\ now >= store.proposals[id].effective
    /\ store.proposals[id].signatures >= store.threshold
    /\ Len(calls) < MaxCalls

\* Mutant: executed is not set before the target is called.
ExecuteUnmarked(id) ==
    /\ Executable(id)
    /\ calls' = Append(calls, [id |-> id, before |-> store])
    /\ UNCHANGED <<store, now>>

\* Mutant: a cancelled proposal is executed.
ExecuteCancelled(id) ==
    /\ ~store.paused
    /\ ~store.proposals[id].executed
    /\ now >= store.proposals[id].effective
    /\ store.proposals[id].signatures >= store.threshold
    /\ Len(calls) < MaxCalls
    /\ Becomes(id, [store.proposals[id] EXCEPT !.executed = TRUE])
    /\ calls' = Append(calls, [id |-> id, before |-> store])
    /\ UNCHANGED now

\* Anyone executes: the proposal is marked and its target called.
Execute(id) ==
    /\ Executable(id)
    /\ Becomes(id, [store.proposals[id] EXCEPT !.executed = TRUE])
    /\ calls' = Append(calls, [id |-> id, before |-> store])
    /\ UNCHANGED now

Running == calls # <<>>
Innermost == calls[Len(calls)]
Returned == calls' = SubSeq(calls, 1, Len(calls) - 1)

CallReturns ==
    /\ Running
    /\ Returned
    /\ Becomes(Innermost.id, [store.proposals[Innermost.id] EXCEPT !.done = @ + 1])
    /\ UNCHANGED now

\* Mutant: a call that fails is taken for one that succeeded.
CallFailureIgnored ==
    /\ Running
    /\ Returned
    /\ UNCHANGED <<store, now>>

\* "call failed": the execution reverts, and with it all that the call did.
CallReverts ==
    /\ Running
    /\ Returned
    /\ store' = Innermost.before
    /\ UNCHANGED now

Cancel(caller, id) ==
    /\ Open(id)
    /\ caller \in {store.proposals[id].proposer, Admin} \cup store.isSigner
    /\ Becomes(id, [store.proposals[id] EXCEPT !.cancelled = TRUE])
    /\ UNCHANGED <<calls, now>>

\* Blocks follow one another between transactions.
Tick ==
    /\ ~Running
    /\ now < MaxTime
    /\ now' = now + 1
    /\ UNCHANGED <<store, calls>>

Next ==
    \/ \E a \in Accounts :
          \/ \E list \in SignerLists : \E t \in MinSigners .. Len(list) : UpdateSigners(a, list, t)
          \/ \E min, max \in Delays : UpdateDelays(a, min, max)
          \/ \E b \in BOOLEAN : SetPaused(a, b)
          \/ \E delay \in Delays : Propose(a, delay)
          \/ \E id \in Proposals : Sign(a, id) \/ Cancel(a, id)
    \/ \E id \in Proposals : Execute(id)
    \/ CallReturns
    \/ CallReverts
    \/ Tick

Spec == Init /\ [][Next]_vars

-----------------------------------------------------------------------------
(* Properties *)

\* The type invariant, and the bounds the parameters keep.
TypeOK ==
    /\ store \in Storage
    /\ ValidSigners(store.signers, store.threshold)
    /\ ValidDelays(store.minDelay, store.maxDelay)
    /\ calls \in Seq([id : Nat, before : Storage])
    /\ now \in 1 .. MaxTime

\* isSigner is kept apart from the list it caches: whatever replaces the
\* signers or reverts, it holds exactly the accounts of the list.
SignersAgree == store.isSigner = Members(store.signers)

\* "single signer cannot schedule alone (threshold enforcement)": the counter
\* the threshold is compared with counts distinct accounts.
SignaturesCounted ==
    \A id \in Proposals :
        store.proposals[id].signatures = Cardinality(store.proposals[id].signed)

\* A proposal's target is called to the end at most once, although its code may
\* call execute again, and only if the proposal is marked as executed.
DoneOnce ==
    \A id \in Proposals : LET p == store.proposals[id] IN p.done <= IF p.executed THEN 1 ELSE 0

\* An executed proposal was called to the end or is being called: no failed
\* call leaves a mark.
ExecutedIsDone ==
    \A id \in Proposals : store.proposals[id].executed =>
        \/ store.proposals[id].done = 1
        \/ \E n \in DOMAIN calls : calls[n].id = id

\* "no execution before effectiveAt", two signatures at least, "cancel during
\* delay permanently prevents execution".
ExecutedWithinRules ==
    \A id \in Proposals : LET p == store.proposals[id] IN
        p.executed => /\ ~p.cancelled
                      /\ now >= p.effective
                      /\ Cardinality(p.signed) >= MinSigners

\* What the chain has of the contract: a call that runs may still be undone, and
\* with the outermost one all that happened since.
Committed == IF Running THEN calls[1].before.proposals ELSE store.proposals

Ids == 1 .. MaxProposals

StateOf(id) ==
    IF id \notin DOMAIN Committed THEN "none"
    ELSE IF Committed[id].executed THEN "executed"
    ELSE IF Committed[id].cancelled THEN "cancelled"
    ELSE "pending"

OpenedOf(id) == IF id \in DOMAIN Committed THEN Committed[id].created ELSE 0

ApprovalsOf(id) == IF id \in DOMAIN Committed THEN Committed[id].signed ELSE {}

Quorums == {voices \in SUBSET Accounts : Cardinality(voices) >= MinSigners}

Promise == INSTANCE MultisigTimelock WITH Delay <- MinDelaySecs, clock <- now,
    state <- [id \in Ids |-> StateOf(id)],
    opened <- [id \in Ids |-> OpenedOf(id)],
    approvals <- [id \in Ids |-> ApprovalsOf(id)]

\* "(1) no execution before effectiveAt, (2) single signer cannot schedule alone,
\* (3) cancel during delay permanently prevents execution": whatever the targets
\* called do to the timelock and whichever of them fail, each transaction leaves
\* what MultisigTimelock promises.
KeepsPromise == Promise!TransactionSpec

=============
