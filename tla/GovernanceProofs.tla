--------------------------- MODULE GovernanceProofs ---------------------------
(***************************************************************************)
(* Proofs about Governance for any accounts, changes, signer lists and     *)
(* delays, any number of proposals and any ledger time.                    *)
(***************************************************************************)
EXTENDS Governance, FiniteSetTheorems, TLAPS

\* A proposal's delay was counted from the moment it was opened and is one
\* that some parameters allowed; there is none before initialize.
EffectiveAfterDelay ==
    \A id \in queue :
        /\ Initialized
        /\ proposals[id].effective = id[4] + id[3]
        /\ id[4] <= now

IInv == TypeOK /\ SignedBySnapshot /\ EffectiveAfterDelay

\* What an id is made of.
LEMMA IdParts ==
    ASSUME NEW id \in Ids
    PROVE  id[1] \in Accounts /\ id[3] \in Delays /\ id[4] \in 0 .. MaxTime
  BY DEF Ids

LEMMA InitOK == Init => IInv
  <1> SUFFICES ASSUME Init PROVE IInv
    OBVIOUS
  <1>1. proposals \in [queue -> Proposal]
    <2>1. queue = {} /\ proposals = <<>>
      BY DEF Init
    <2>2. DOMAIN proposals = {} /\ proposals = [i \in {} |-> proposals[i]]
      BY <2>1
    <2> QED
      BY <2>1, <2>2
  <1>2. signers \in Seq(Accounts) /\ ~Initialized
    BY DEF Init, Initialized
  <1>3. now \in 0 .. MaxTime /\ threshold \in Nat /\ queue = {}
    BY GovernanceAssumption DEF Init
  <1>4. paused \in BOOLEAN
    BY DEF Init
  <1> QED
    BY <1>1, <1>2, <1>3, <1>4 DEF IInv, TypeOK, SignedBySnapshot, EffectiveAfterDelay

\* Operations on the parameters leave proposals alone, and initialized stays so.
LEMMA ParametersOK ==
    ASSUME IInv,
           \/ \E list \in SignerLists, t \in 0 .. MaxSigners :
                 \/ \E min, max \in Delays : Initialize(list, t, min, max)
                 \/ \E a \in Accounts : UpdateSigners(a, list, t)
           \/ \E a \in Accounts :
                 \/ \E min, max \in Delays : UpdateDelays(a, min, max)
                 \/ \E b \in BOOLEAN : SetPaused(a, b)
    PROVE  IInv'
  <1> USE GovernanceAssumption DEF MaxSigners
  <1>1. UNCHANGED <<queue, proposals, now>>
    BY DEF Initialize, UpdateSigners, UpdateDelays, SetPaused
  <1>2. /\ signers' \in Seq(Accounts)
        /\ threshold' \in Nat
        /\ paused' \in BOOLEAN
    BY DEF IInv, TypeOK, Initialize, UpdateSigners, UpdateDelays, SetPaused, SetSigners,
           SetDelays, params
  <1>3. signers' # <<>> /\ ValidSigners(signers', threshold') /\ ValidDelays(minDelay', maxDelay')
    <2>1. ASSUME NEW list \in SignerLists, NEW t \in 0 .. MaxSigners, ValidSigners(list, t)
          PROVE  list # <<>>
      BY <2>1 DEF ValidSigners, MinSigners
    <2>2. ASSUME NEW list \in SignerLists, NEW t \in 0 .. MaxSigners, NEW min \in Delays,
                 NEW max \in Delays, Initialize(list, t, min, max)
          PROVE  <1>3
      BY <2>1, <2>2 DEF Initialize, SetSigners, SetDelays
    <2>3. ASSUME NEW list \in SignerLists, NEW t \in 0 .. MaxSigners, NEW a \in Accounts,
                 UpdateSigners(a, list, t)
          PROVE  <1>3
      BY <2>1, <2>3 DEF IInv, TypeOK, Initialized, UpdateSigners, SetSigners
    <2>4. ASSUME NEW a \in Accounts, NEW min \in Delays, NEW max \in Delays,
                 UpdateDelays(a, min, max)
          PROVE  <1>3
      BY <2>4 DEF IInv, TypeOK, Initialized, UpdateDelays, SetDelays
    <2>5. ASSUME NEW a \in Accounts, NEW b \in BOOLEAN, SetPaused(a, b)
          PROVE  <1>3
      BY <2>5 DEF IInv, TypeOK, Initialized, SetPaused, params
    <2> QED
      BY <2>2, <2>3, <2>4, <2>5
  <1> QED
    BY <1>1, <1>2, <1>3
    DEF IInv, TypeOK, SignedBySnapshot, EffectiveAfterDelay, Initialized, ValidSigners, ValidDelays

LEMMA ProposeOK ==
    ASSUME IInv, NEW a \in Accounts, NEW change \in Changes, NEW delay \in Delays,
           Propose(a, change, delay)
    PROVE  IInv'
  <1> DEFINE new == <<a, change, delay, now>>
  <1> USE GovernanceAssumption
  <1>1. new \in Ids /\ new[3] = delay /\ new[4] = now /\ delay \in Nat /\ now \in Nat
    BY DEF IInv, TypeOK, Ids, Delays
  <1>2. Members(signers) \in SUBSET Accounts
    BY DEF IInv, TypeOK, Members
  <1>3. /\ new \notin queue
        /\ queue' = queue \cup {new}
        /\ DOMAIN proposals' = queue'
        /\ proposals'[new] = [effective |-> now + delay, snapshot |-> Members(signers),
                              signed |-> {}, executed |-> FALSE, cancelled |-> FALSE]
        /\ \A id \in queue : proposals'[id] = proposals[id]
    BY DEF Propose
  <1> HIDE DEF new
  <1>4. proposals'[new] \in Proposal
    BY <1>1, <1>2, <1>3 DEF Proposal
  <1>5. proposals' \in [queue' -> Proposal]
    <2>1. \A id \in queue' : proposals'[id] \in Proposal
      BY <1>3, <1>4 DEF IInv, TypeOK
    <2>2. proposals' = [id \in queue' |-> proposals'[id]]
      BY DEF Propose
    <2> QED
      BY <2>1, <2>2
  <1>6. TypeOK'
    BY <1>1, <1>3, <1>5 DEF IInv, TypeOK, Propose, Initialized, params, ValidSigners, ValidDelays
  <1>7. SignedBySnapshot'
    BY <1>3 DEF IInv, SignedBySnapshot
  <1>8. EffectiveAfterDelay'
    BY <1>1, <1>3 DEF IInv, TypeOK, EffectiveAfterDelay, Propose, Initialized, params
  <1> QED
    BY <1>6, <1>7, <1>8 DEF IInv

\* Signing, executing and cancelling change one proposal and nothing of its
\* delay or snapshot.
LEMMA DecideOK ==
    ASSUME IInv, NEW a \in Accounts, NEW id \in queue,
           Sign(a, id) \/ Execute(id) \/ Cancel(a, id)
    PROVE  IInv'
  <1>1. PICK s \in SUBSET Accounts, e \in BOOLEAN, c \in BOOLEAN :
            /\ proposals' = [proposals EXCEPT ![id] =
                   [@ EXCEPT !.signed = s, !.executed = e, !.cancelled = c]]
            /\ s \subseteq proposals[id].snapshot
    <2>0. proposals[id] \in Proposal /\ proposals[id].signed \subseteq proposals[id].snapshot
      BY DEF IInv, TypeOK, SignedBySnapshot
    <2> USE <2>0 DEF Proposal
    <2>1. CASE Sign(a, id)
      <3> WITNESS proposals[id].signed \cup {a} \in SUBSET Accounts,
                  proposals[id].executed \in BOOLEAN, proposals[id].cancelled \in BOOLEAN
      <3> QED
        BY <2>0, <2>1 DEF Sign, Proposal
    <2>2. CASE Execute(id)
      <3> WITNESS proposals[id].signed \in SUBSET Accounts, TRUE \in BOOLEAN,
                  proposals[id].cancelled \in BOOLEAN
      <3> QED
        BY <2>0, <2>2 DEF Execute, Proposal
    <2>3. CASE Cancel(a, id)
      <3> WITNESS proposals[id].signed \in SUBSET Accounts,
                  proposals[id].executed \in BOOLEAN, TRUE \in BOOLEAN
      <3> QED
        BY <2>0, <2>3 DEF Cancel, Proposal
    <2> QED
      BY <2>1, <2>2, <2>3
  <1>2. UNCHANGED <<params, paused, queue, now>>
    BY DEF Sign, Execute, Cancel
  <1>3. proposals' \in [queue -> Proposal]
    BY <1>1 DEF IInv, TypeOK, Proposal
  <1>4. \A i \in queue : /\ proposals'[i].effective = proposals[i].effective
                         /\ proposals'[i].signed \subseteq proposals'[i].snapshot
    BY <1>1 DEF IInv, TypeOK, SignedBySnapshot, Proposal
  <1> QED
    BY <1>2, <1>3, <1>4
    DEF IInv, TypeOK, SignedBySnapshot, EffectiveAfterDelay, Initialized, params, ValidSigners,
        ValidDelays

LEMMA TickOK == IInv /\ Tick => IInv'
  BY GovernanceAssumption
  DEF IInv, TypeOK, SignedBySnapshot, EffectiveAfterDelay, Initialized, Tick, params,
      ValidSigners, ValidDelays, Ids

LEMMA Inductive == IInv /\ [Next]_vars => IInv'
  <1> SUFFICES ASSUME IInv, [Next]_vars PROVE IInv'
    OBVIOUS
  <1>1. ASSUME UNCHANGED vars PROVE IInv'
    BY <1>1 DEF IInv, TypeOK, SignedBySnapshot, EffectiveAfterDelay, Initialized, vars, params,
                ValidSigners, ValidDelays
  <1>2. ASSUME Next PROVE IInv'
    <2>1. CASE \/ \E list \in SignerLists, t \in 0 .. MaxSigners :
                     \/ \E min, max \in Delays : Initialize(list, t, min, max)
                     \/ \E a \in Accounts : UpdateSigners(a, list, t)
               \/ \E a \in Accounts :
                     \/ \E min, max \in Delays : UpdateDelays(a, min, max)
                     \/ \E b \in BOOLEAN : SetPaused(a, b)
      BY <2>1, <1>2, ParametersOK
    <2>2. CASE \E a \in Accounts, change \in Changes, delay \in Delays : Propose(a, change, delay)
      BY <2>2, <1>2, ProposeOK
    <2>3. ASSUME NEW id \in queue, NEW a \in Accounts, Sign(a, id) \/ Execute(id) \/ Cancel(a, id)
          PROVE  IInv'
      BY <2>3, <1>2, DecideOK
    <2> QED
      BY <1>2, <2>1, <2>2, <2>3, TickOK, GovernanceAssumption DEF Next
  <1> QED
    BY <1>1, <1>2

LEMMA Invariant == Spec => []IInv
  BY InitOK, Inductive, PTL DEF Spec

\* Every reachable state has its type and its parameters in bounds.
THEOREM TypeCorrect == Spec => []TypeOK
  <1>1. IInv => TypeOK
    BY DEF IInv
  <1> QED
    BY <1>1, Invariant, PTL

\* Only the signers of the moment of the proposal ever sign it.
THEOREM Snapshot == Spec => []SignedBySnapshot
  <1>1. IInv => SignedBySnapshot
    BY DEF IInv
  <1> QED
    BY <1>1, Invariant, PTL

-----------------------------------------------------------------------------
(* The contract keeps the promise of MultisigTimelock *)

\* A step that leaves proposals and time alone is a stutter.
LEMMA StutterStep ==
    ASSUME UNCHANGED <<queue, proposals, now>>
    PROVE  UNCHANGED Promise!abstractVars
  BY DEF Promise!abstractVars, StateOf, OpenedOf, ApprovalsOf

\* A step that changes one proposal in the queue, but not when it was opened.
LEMMA ChangedOne ==
    ASSUME NEW id \in queue, queue \subseteq Ids, UNCHANGED <<queue, now>>,
           \A i \in queue \ {id} : proposals'[i] = proposals[i]
    PROVE  /\ \A i \in Ids : OpenedOf(i)' = OpenedOf(i)
           /\ \A i \in Ids \ {id} : StateOf(i)' = StateOf(i) /\ ApprovalsOf(i)' = ApprovalsOf(i)
  BY DEF StateOf, OpenedOf, ApprovalsOf

LEMMA ProposeStep ==
    ASSUME IInv, NEW a \in Accounts, NEW change \in Changes, NEW delay \in Delays,
           Propose(a, change, delay)
    PROVE  \E i \in Ids : Promise!Open(i)
  <1>1. PICK new \in Ids : new = <<a, change, delay, now>>
    BY DEF IInv, TypeOK, Ids
  <1>2. /\ new \notin queue /\ queue' = queue \cup {new} /\ now' = now
        /\ proposals'[new].signed = {}
        /\ ~proposals'[new].executed /\ ~proposals'[new].cancelled
        /\ \A i \in queue : proposals'[i] = proposals[i]
        /\ new[4] = now
    BY <1>1 DEF Propose
  <1>3. /\ StateOf(new) = "none" /\ StateOf(new)' = "pending"
        /\ OpenedOf(new)' = now
        /\ ApprovalsOf(new) = {} /\ ApprovalsOf(new)' = {}
    BY <1>1, <1>2 DEF StateOf, OpenedOf, ApprovalsOf
  <1>4. \A i \in Ids \ {new} : /\ StateOf(i)' = StateOf(i)
                              /\ OpenedOf(i)' = OpenedOf(i)
                              /\ ApprovalsOf(i)' = ApprovalsOf(i)
    BY <1>2 DEF StateOf, OpenedOf, ApprovalsOf
  <1>5. Promise!Open(new)
    BY <1>2, <1>3, <1>4 DEF Promise!Open
  <1> QED
    BY <1>5

LEMMA DecideStep ==
    ASSUME IInv, NEW a \in Accounts, NEW id \in queue
    PROVE  /\ Sign(a, id) => Promise!Approve(id, a)
           /\ Execute(id) => Promise!Carry(id)
           /\ Cancel(a, id) => Promise!Drop(id)
  <1>0. /\ queue \subseteq Ids /\ id \in Ids
        /\ proposals \in [queue -> Proposal] /\ proposals[id] \in Proposal
    BY DEF IInv, TypeOK
  <1>1. Open(id) => StateOf(id) = "pending"
    BY DEF Open, StateOf
  <1>2. ASSUME Sign(a, id) PROVE Promise!Approve(id, a)
    <2>1. /\ UNCHANGED <<queue, now>> /\ Open(id)
          /\ proposals'[id] = [proposals[id] EXCEPT !.signed = @ \cup {a}]
          /\ \A i \in queue \ {id} : proposals'[i] = proposals[i]
      BY <1>0, <1>2 DEF Sign
    <2>2. /\ StateOf(id) = "pending" /\ StateOf(id)' = StateOf(id)
          /\ ApprovalsOf(id)' = ApprovalsOf(id) \cup {a}
      BY <1>0, <1>1, <2>1 DEF StateOf, ApprovalsOf, Proposal
    <2> QED
      BY <1>0, <2>1, <2>2, ChangedOne DEF Promise!Approve
  <1>3. ASSUME Execute(id) PROVE Promise!Carry(id)
    <2>1. /\ UNCHANGED <<queue, now>> /\ Open(id)
          /\ proposals'[id] = [proposals[id] EXCEPT !.executed = TRUE]
          /\ \A i \in queue \ {id} : proposals'[i] = proposals[i]
      BY <1>0, <1>3 DEF Execute
    <2>2. /\ StateOf(id) = "pending" /\ StateOf(id)' = "executed"
          /\ ApprovalsOf(id)' = ApprovalsOf(id)
      BY <1>0, <1>1, <2>1 DEF StateOf, ApprovalsOf, Proposal
    <2>3. now >= OpenedOf(id) + MinDelaySecs
      <3>1. /\ id[3] \in MinDelaySecs .. MaxDelaySecs /\ id[4] \in Nat /\ now \in Nat
            /\ now >= id[4] + id[3] /\ OpenedOf(id) = id[4]
        BY <1>0, <1>3, IdParts
        DEF IInv, TypeOK, EffectiveAfterDelay, Execute, OpenedOf, Delays
      <3> QED
        BY <3>1, GovernanceAssumption
    <2>4. ApprovalsOf(id) \in Quorums
      <3>0. ApprovalsOf(id) \subseteq Accounts
        BY <1>0 DEF ApprovalsOf, Proposal
      <3>1. threshold >= MinSigners /\ threshold \in Nat
        BY DEF IInv, TypeOK, EffectiveAfterDelay, ValidSigners, MinSigners
      <3>2. Cardinality(ApprovalsOf(id)) \in Nat
        BY <3>0, GovernanceAssumption, FS_Subset, FS_CardinalityType
      <3> QED
        BY <1>3, <3>0, <3>1, <3>2 DEF Execute, ApprovalsOf, MinSigners, Quorums
    <2>5. /\ \A i \in Ids : OpenedOf(i)' = OpenedOf(i) /\ ApprovalsOf(i)' = ApprovalsOf(i)
          /\ \A i \in Ids \ {id} : StateOf(i)' = StateOf(i)
      BY <1>0, <2>1, <2>2, ChangedOne
    <2>6. [i \in Ids |-> StateOf(i)]' = [[i \in Ids |-> StateOf(i)] EXCEPT ![id] = "executed"]
      BY <1>0, <2>2, <2>5
    <2>7. /\ [i \in Ids |-> OpenedOf(i)]' = [i \in Ids |-> OpenedOf(i)]
          /\ [i \in Ids |-> ApprovalsOf(i)]' = [i \in Ids |-> ApprovalsOf(i)]
      BY <2>5
    <2>8. /\ [i \in Ids |-> StateOf(i)][id] = "pending"
          /\ [i \in Ids |-> OpenedOf(i)][id] = OpenedOf(id)
          /\ [i \in Ids |-> ApprovalsOf(i)][id] = ApprovalsOf(id)
      BY <1>0, <2>2
    <2> QED
      BY <2>1, <2>3, <2>4, <2>6, <2>7, <2>8 DEF Promise!Carry
  <1>4. ASSUME Cancel(a, id) PROVE Promise!Drop(id)
    <2>1. /\ UNCHANGED <<queue, now>> /\ Open(id)
          /\ proposals'[id] = [proposals[id] EXCEPT !.cancelled = TRUE]
          /\ \A i \in queue \ {id} : proposals'[i] = proposals[i]
      BY <1>0, <1>4 DEF Cancel
    <2>2. /\ StateOf(id) = "pending" /\ StateOf(id)' = "cancelled"
          /\ ApprovalsOf(id)' = ApprovalsOf(id)
      BY <1>0, <1>1, <2>1 DEF StateOf, ApprovalsOf, Proposal, Open
    <2> QED
      BY <1>0, <2>1, <2>2, ChangedOne DEF Promise!Drop
  <1> QED
    BY <1>2, <1>3, <1>4

\* Every behaviour of the contract is one of the promised multisig timelock:
\* nothing is executed twice, before MinDelaySecs, with fewer than two
\* signatures or after a cancellation, whatever happens to the parameters.
THEOREM PromiseKept == Spec => KeepsPromise
  <1>1. Init => Promise!AbstractInit
    BY DEF Init, Promise!AbstractInit, StateOf, OpenedOf, ApprovalsOf
  <1>2. ASSUME IInv, [Next]_vars
        PROVE  [Promise!AbstractNext]_(Promise!abstractVars)
    <2>1. ASSUME UNCHANGED <<queue, proposals, now>>
          PROVE  [Promise!AbstractNext]_(Promise!abstractVars)
      BY <2>1, StutterStep
    <2>2. ASSUME NEW a \in Accounts, NEW change \in Changes, NEW delay \in Delays,
                 Propose(a, change, delay)
          PROVE  Promise!AbstractNext
      BY <1>2, <2>2, ProposeStep DEF Promise!AbstractNext
    <2>3. ASSUME NEW id \in queue, NEW a \in Accounts, Sign(a, id) \/ Execute(id) \/ Cancel(a, id)
          PROVE  Promise!AbstractNext
      <3>1. id \in Ids
        BY <1>2 DEF IInv, TypeOK
      <3> QED
        BY <1>2, <2>3, <3>1, DecideStep DEF Promise!AbstractNext
    <2>4. ASSUME Tick PROVE Promise!Pass
      BY <2>4 DEF Tick, Promise!Pass, StateOf, OpenedOf, ApprovalsOf
    <2> QED
      BY <1>2, <2>1, <2>2, <2>3, <2>4, GovernanceAssumption
      DEF Next, vars, Initialize, UpdateSigners, UpdateDelays, SetPaused, Promise!AbstractNext
  <1> QED
    BY <1>1, <1>2, Invariant, PTL DEF Spec, KeepsPromise, Promise!AbstractSpec

\* Every step of the promise is one that a transaction may take.
LEMMA StepIsTransaction == Promise!AbstractNext => Promise!Pass \/ Promise!Transaction
  <1> DEFINE state == [i \in Ids |-> StateOf(i)]
             opened == [i \in Ids |-> OpenedOf(i)]
             approvals == [i \in Ids |-> ApprovalsOf(i)]
  <1>1. SUFFICES ASSUME NEW i \in Ids,
                        \/ Promise!Open(i) \/ Promise!Carry(i) \/ Promise!Drop(i)
                        \/ \E a \in Accounts : Promise!Approve(i, a)
                 PROVE  Promise!Transaction
    BY DEF Promise!AbstractNext
  <1>2. \A j \in Ids \ {i} : state'[j] = state[j] /\ opened'[j] = opened[j] /\ approvals'[j] = approvals[j]
    BY <1>1 DEF Promise!Open, Promise!Carry, Promise!Drop, Promise!Approve
  <1>3. Promise!Advances(i)
    <2>1. CASE Promise!Open(i)
      BY <2>1 DEF Promise!Open, Promise!Advances
    <2>2. CASE Promise!Carry(i)
      BY <2>2 DEF Promise!Carry, Promise!Advances
    <2>3. CASE Promise!Drop(i)
      BY <2>3 DEF Promise!Drop, Promise!Advances
    <2>4. CASE \E a \in Accounts : Promise!Approve(i, a)
      BY <2>4 DEF Promise!Approve, Promise!Advances
    <2> QED
      BY <1>1, <2>1, <2>2, <2>3, <2>4
  <1>4. now' = now
    BY <1>1 DEF Promise!Open, Promise!Carry, Promise!Drop, Promise!Approve
  <1> QED
    BY <1>2, <1>3, <1>4 DEF Promise!Transaction, Promise!Stays

\* The contract keeps what its EVM twin, whose transactions may do several things
\* at once, keeps as well.
COROLLARY PromiseKeptByTransactions == Spec => Promise!TransactionSpec
  <1>1. [Promise!AbstractNext]_(Promise!abstractVars)
            => [Promise!Pass \/ Promise!Transaction]_(Promise!abstractVars)
    BY StepIsTransaction
  <1> QED
    BY <1>1, PromiseKept, PTL DEF KeepsPromise, Promise!AbstractSpec, Promise!TransactionSpec

=============================================================================
