---------------------------- MODULE TimelockProofs ----------------------------
(***************************************************************************)
(* Proofs about Timelock for any accounts, signer lists and delays, any    *)
(* number of proposals and any depth of calls within calls.                *)
(*                                                                         *)
(* A revert brings an earlier storage back, so the invariant speaks of     *)
(* every storage a call would restore as well as of the current one.       *)
(***************************************************************************)
EXTENDS Timelock, FiniteSetTheorems, SequenceTheorems, TLAPS

\* What every operation preserves of a storage at a time "t".
Sound(s, t) ==
    /\ s \in Storage
    /\ ValidSigners(s.signers, s.threshold)
    /\ ValidDelays(s.minDelay, s.maxDelay)
    /\ s.isSigner = Members(s.signers)
    /\ \A id \in DOMAIN s.proposals : LET p == s.proposals[id] IN
          /\ p.signatures = Cardinality(p.signed)
          /\ p.executed => ~p.cancelled /\ t >= p.effective /\ p.signatures >= MinSigners
          /\ p.done <= IF p.executed THEN 1 ELSE 0

\* The proposals executed in "s" are those done and those that the first "k" of
\* the calls "cs" are executing.
Accounted(s, cs, k) ==
    /\ \A n \in 1 .. k : LET id == cs[n].id IN
          /\ id \in DOMAIN s.proposals
          /\ s.proposals[id].executed
          /\ s.proposals[id].done = 0
    /\ \A id \in DOMAIN s.proposals : s.proposals[id].executed =>
          \/ s.proposals[id].done = 1
          \/ \E n \in 1 .. k : cs[n].id = id

\* The same of the storage each call would bring back, in which the proposal it
\* executes was not executed.
SavedSound(cs, t) ==
    \A n \in 1 .. Len(cs) :
        /\ Sound(cs[n].before, t)
        /\ Accounted(cs[n].before, cs, n - 1)
        /\ \A m \in 1 .. n - 1 : cs[m].id # cs[n].id

IInv ==
    /\ calls \in Seq([id : Nat, before : Storage])
    /\ now \in 1 .. MaxTime
    /\ Sound(store, now)
    /\ Accounted(store, calls, Len(calls))
    /\ SavedSound(calls, now)

USE TimelockAssumption

LEMMA InitOK == Init => IInv
  <1> SUFFICES ASSUME Init PROVE IInv
    OBVIOUS
  <1>1. PICK list \in SignerLists : \E t \in MinSigners .. Len(list), min, max \in Delays :
            ValidSigners(list, t) /\ ValidDelays(min, max) /\ store = Deployed(list, t, min, max)
    BY DEF Init
  <1>2. PICK t \in MinSigners .. Len(list), min \in Delays, max \in Delays :
            ValidSigners(list, t) /\ ValidDelays(min, max) /\ store = Deployed(list, t, min, max)
    BY <1>1
  <1>3. /\ list \in Seq(Accounts) /\ t \in Nat /\ min \in Nat /\ max \in Nat
        /\ Members(list) \in SUBSET Accounts
    BY DEF MinSigners, Delays, Members
  <1>4. store \in Storage
    BY <1>2, <1>3 DEF Deployed, Storage
  <1>5. Sound(store, now)
    BY <1>2, <1>4 DEF Deployed, Sound
  <1> QED
    BY <1>2, <1>5 DEF Init, IInv, Accounted, SavedSound, Deployed

\* A step outside execute and the calls disturbs nothing but the storage.
LEMMA StorageStep ==
    ASSUME IInv, UNCHANGED <<calls, now>>, Sound(store', now), Accounted(store', calls, Len(calls))
    PROVE  IInv'
  BY DEF IInv

LEMMA MembersInAccounts ==
    ASSUME NEW list \in Seq(Accounts)
    PROVE  Members(list) \in SUBSET Accounts
  BY DEF Members

\* Administration leaves the proposals alone.
LEMMA AdminOK ==
    ASSUME IInv, NEW a \in Accounts,
           \/ \E list \in SignerLists : \E t \in MinSigners .. Len(list) : UpdateSigners(a, list, t)
           \/ \E min, max \in Delays : UpdateDelays(a, min, max)
           \/ \E b \in BOOLEAN : SetPaused(a, b)
    PROVE  IInv'
  <1>0. /\ Sound(store, now) /\ store \in Storage
        /\ Accounted(store, calls, Len(calls))
    BY DEF IInv, Sound
  <1>1. UNCHANGED <<calls, now>> /\ store'.proposals = store.proposals
    BY <1>0 DEF UpdateSigners, UpdateDelays, SetPaused, Storage
  <1>2. /\ store' \in Storage
        /\ ValidSigners(store'.signers, store'.threshold)
        /\ ValidDelays(store'.minDelay, store'.maxDelay)
        /\ store'.isSigner = Members(store'.signers)
    <2>1. ASSUME NEW list \in SignerLists, NEW t \in MinSigners .. Len(list), UpdateSigners(a, list, t)
          PROVE  <1>2
      <3>1. list \in Seq(Accounts) /\ t \in Nat /\ Members(list) \in SUBSET Accounts
        BY MembersInAccounts DEF MinSigners
      <3>2. store.isSigner = Members(store.signers)
        BY <1>0 DEF Sound
      <3>3. store' = [store EXCEPT !.signers = list, !.threshold = t, !.isSigner = Members(list)]
        BY <2>1, <3>2 DEF UpdateSigners
      <3>4. /\ store' \in Storage
            /\ store'.signers = list /\ store'.threshold = t /\ store'.isSigner = Members(list)
            /\ store'.minDelay = store.minDelay /\ store'.maxDelay = store.maxDelay
        BY <1>0, <3>1, <3>3 DEF Storage
      <3> QED
        BY <1>0, <2>1, <3>4 DEF UpdateSigners, Sound
    <2>2. ASSUME NEW min \in Delays, NEW max \in Delays, UpdateDelays(a, min, max)
          PROVE  <1>2
      <3>1. min \in Nat /\ max \in Nat
        BY DEF Delays
      <3>2. /\ store' \in Storage
            /\ store'.minDelay = min /\ store'.maxDelay = max
            /\ store'.signers = store.signers /\ store'.threshold = store.threshold
            /\ store'.isSigner = store.isSigner
        BY <1>0, <2>2, <3>1 DEF UpdateDelays, Storage
      <3> QED
        BY <1>0, <2>2, <3>2 DEF UpdateDelays, Sound
    <2>3. ASSUME NEW b \in BOOLEAN, SetPaused(a, b)
          PROVE  <1>2
      <3>1. /\ store' \in Storage
            /\ store'.minDelay = store.minDelay /\ store'.maxDelay = store.maxDelay
            /\ store'.signers = store.signers /\ store'.threshold = store.threshold
            /\ store'.isSigner = store.isSigner
        BY <1>0, <2>3 DEF SetPaused, Storage
      <3> QED
        BY <1>0, <3>1 DEF Sound
    <2> QED
      BY <2>1, <2>2, <2>3
  <1>3. Sound(store', now)
    BY <1>0, <1>1, <1>2 DEF Sound
  <1>4. Accounted(store', calls, Len(calls))
    BY <1>0, <1>1 DEF Accounted
  <1> QED
    BY <1>1, <1>3, <1>4, StorageStep

LEMMA ProposeOK ==
    ASSUME IInv, NEW a \in Accounts, NEW delay \in Delays, Propose(a, delay)
    PROVE  IInv'
  <1> DEFINE new == [proposer |-> a, created |-> now, effective |-> now + delay, signed |-> {},
                     signatures |-> 0, executed |-> FALSE, cancelled |-> FALSE, done |-> 0]
             old == store.proposals
  <1>0. /\ Sound(store, now) /\ store \in Storage /\ old \in Seq(Proposal)
        /\ Accounted(store, calls, Len(calls)) /\ now \in Nat /\ delay \in Nat
    BY DEF IInv, Sound, Storage, Delays
  <1>1. new \in Proposal
    BY <1>0 DEF Proposal
  <1>2. /\ store' = [store EXCEPT !.proposals = Append(old, new)]
        /\ UNCHANGED <<calls, now>>
    BY DEF Propose
  <1>3. /\ store'.proposals \in Seq(Proposal)
        /\ DOMAIN store'.proposals = DOMAIN old \cup {Len(old) + 1}
        /\ store'.proposals[Len(old) + 1] = new
        /\ \A id \in DOMAIN old : store'.proposals[id] = old[id]
        /\ Len(old) + 1 \notin DOMAIN old
    <2>1. store'.proposals = Append(old, new)
      BY <1>0, <1>2 DEF Storage
    <2> QED
      BY <1>0, <1>1, <2>1
  <1>4. new.signatures = Cardinality(new.signed) /\ ~new.executed /\ new.done = 0
    BY FS_EmptySet
  <1> HIDE DEF new
  <1>5. Sound(store', now)
    <2>1. /\ store' \in Storage
          /\ store'.minDelay = store.minDelay /\ store'.maxDelay = store.maxDelay
          /\ store'.signers = store.signers /\ store'.threshold = store.threshold
          /\ store'.isSigner = store.isSigner
      BY <1>0, <1>2, <1>3 DEF Storage
    <2>2. ASSUME NEW id \in DOMAIN store'.proposals
          PROVE  LET p == store'.proposals[id] IN
                 /\ p.signatures = Cardinality(p.signed)
                 /\ p.executed => ~p.cancelled /\ now >= p.effective /\ p.signatures >= MinSigners
                 /\ p.done <= IF p.executed THEN 1 ELSE 0
      BY <1>0, <1>3, <1>4 DEF Sound
    <2> QED
      BY <1>0, <2>1, <2>2 DEF Sound
  <1>6. Accounted(store', calls, Len(calls))
    BY <1>0, <1>3, <1>4 DEF Accounted
  <1> QED
    BY <1>2, <1>5, <1>6, StorageStep

\* What happens to a storage when one proposal changes.
LEMMA BecomesOK ==
    ASSUME store \in Storage, NEW id \in Proposals, NEW q \in Proposal, Becomes(id, q)
    PROVE  /\ store' \in Storage
           /\ store'.signers = store.signers /\ store'.isSigner = store.isSigner
           /\ store'.threshold = store.threshold
           /\ store'.minDelay = store.minDelay /\ store'.maxDelay = store.maxDelay
           /\ DOMAIN store'.proposals = DOMAIN store.proposals
           /\ store'.proposals[id] = q
           /\ \A i \in Proposals \ {id} : store'.proposals[i] = store.proposals[i]
  <1>1. store.proposals \in Seq(Proposal)
    BY DEF Storage
  <1>2. store' = [store EXCEPT !.proposals = [store.proposals EXCEPT ![id] = q]]
    BY DEF Becomes
  <1>3. [store.proposals EXCEPT ![id] = q] \in Seq(Proposal)
    BY <1>1 DEF Proposals
  <1> QED
    BY <1>1, <1>2, <1>3 DEF Storage, Proposals

\* ... to one that is as sound, which storage that makes.
LEMMA BecomesSound ==
    ASSUME Sound(store, now), NEW id \in Proposals, NEW q \in Proposal, Becomes(id, q),
           q.signatures = Cardinality(q.signed),
           q.executed => ~q.cancelled /\ now >= q.effective /\ q.signatures >= MinSigners,
           q.done <= IF q.executed THEN 1 ELSE 0
    PROVE  Sound(store', now)
  BY BecomesOK DEF Sound, Proposals

\* One more signature is one more account.
LEMMA Signing ==
    ASSUME NEW p \in Proposal, NEW a \in Accounts, a \notin p.signed,
           ~p.executed, p.done = 0, p.signatures = Cardinality(p.signed)
    PROVE  LET q == [p EXCEPT !.signed = @ \cup {a}, !.signatures = @ + 1] IN
           q \in Proposal /\ ~q.executed /\ q.done = 0 /\ q.signatures = Cardinality(q.signed)
  <1> DEFINE q == [p EXCEPT !.signed = @ \cup {a}, !.signatures = @ + 1]
  <1>1. IsFiniteSet(p.signed)
    <2>1. p.signed \subseteq Accounts
      BY DEF Proposal
    <2> QED
      BY <2>1, FS_Subset
  <1>2. Cardinality(p.signed \cup {a}) = p.signatures + 1
    <2>1. Cardinality(p.signed \cup {a}) = Cardinality(p.signed) + 1
      BY <1>1, FS_AddElement
    <2> QED
      BY <2>1
  <1>0. p.signed \cup {a} \in SUBSET Accounts /\ p.signatures + 1 \in Nat
    BY DEF Proposal
  <1>3. /\ q \in Proposal /\ q.signed = p.signed \cup {a} /\ q.signatures = p.signatures + 1
        /\ q.executed = p.executed /\ q.done = p.done
    BY <1>0 DEF Proposal
  <1> QED
    BY <1>2, <1>3

LEMMA DecideOK ==
    ASSUME IInv, NEW a \in Accounts, NEW id \in Proposals, Sign(a, id) \/ Cancel(a, id)
    PROVE  IInv'
  <1> DEFINE p == store.proposals[id]
  <1>0. /\ Sound(store, now) /\ store \in Storage /\ p \in Proposal
        /\ Accounted(store, calls, Len(calls)) /\ UNCHANGED <<calls, now>>
    BY DEF IInv, Sound, Storage, Proposals, Sign, Cancel
  <1>1. ~p.executed /\ p.done = 0 /\ p.signatures = Cardinality(p.signed)
    BY <1>0 DEF Sign, Cancel, Open, Sound, Proposals, Proposal
  <1>2. PICK q \in Proposal : /\ Becomes(id, q) /\ ~q.executed /\ q.done = 0
                              /\ q.signatures = Cardinality(q.signed)
    <2>1. CASE Sign(a, id)
      <3>1. PICK q \in Proposal : /\ q = [p EXCEPT !.signed = @ \cup {a}, !.signatures = @ + 1]
                                  /\ ~q.executed /\ q.done = 0
                                  /\ q.signatures = Cardinality(q.signed)
        BY <1>0, <1>1, <2>1, Signing DEF Sign
      <3> QED
        BY <2>1, <3>1 DEF Sign
    <2>2. CASE Cancel(a, id)
      <3>1. [p EXCEPT !.cancelled = TRUE] \in Proposal
        BY <1>0 DEF Proposal
      <3> QED
        BY <1>0, <1>1, <2>2, <3>1 DEF Cancel, Proposal
    <2> QED
      BY <2>1, <2>2
  <1>3. Sound(store', now)
    BY <1>0, <1>2, BecomesSound
  <1>4. Accounted(store', calls, Len(calls))
    BY <1>0, <1>1, <1>2, BecomesOK DEF Accounted, Proposals
  <1> QED
    BY <1>0, <1>3, <1>4, StorageStep

-----------------------------------------------------------------------------
(* Executions and the calls they make *)

Call == [id : Nat, before : Storage]

\* Accounted and SavedSound only look at the calls up to a depth.
LEMMA SameCalls ==
    ASSUME NEW s, NEW cs, NEW ds, NEW k \in Nat, \A n \in 1 .. k : cs[n] = ds[n], Accounted(s, cs, k)
    PROVE  Accounted(s, ds, k)
  BY DEF Accounted

LEMMA SameSaved ==
    ASSUME NEW cs \in Seq(Call), NEW ds \in Seq(Call), NEW t, Len(ds) <= Len(cs),
           \A n \in 1 .. Len(ds) : cs[n] = ds[n], SavedSound(cs, t)
    PROVE  SavedSound(ds, t)
  <1> SUFFICES ASSUME NEW n \in 1 .. Len(ds)
               PROVE  /\ Sound(ds[n].before, t)
                      /\ Accounted(ds[n].before, ds, n - 1)
                      /\ \A m \in 1 .. n - 1 : ds[m].id # ds[n].id
    BY DEF SavedSound
  <1>1. n \in 1 .. Len(cs) /\ n - 1 \in Nat /\ \A m \in 1 .. n - 1 : m \in 1 .. Len(ds)
    OBVIOUS
  <1>2. /\ Sound(cs[n].before, t)
        /\ Accounted(cs[n].before, cs, n - 1)
        /\ \A m \in 1 .. n - 1 : cs[m].id # cs[n].id
    BY <1>1 DEF SavedSound
  <1> QED
    BY <1>1, <1>2, SameCalls

LEMMA ExecuteOK ==
    ASSUME IInv, NEW id \in Proposals, Execute(id)
    PROVE  IInv'
  <1> DEFINE p == store.proposals[id]
             k == Len(calls)
  <1>0. /\ calls \in Seq(Call) /\ k \in Nat /\ store \in Storage /\ Sound(store, now)
        /\ Accounted(store, calls, k) /\ SavedSound(calls, now)
        /\ p \in Proposal /\ id \in Nat /\ UNCHANGED now
    BY DEF IInv, Sound, Storage, Proposals, Execute, Call
  <1>1. /\ ~p.executed /\ p.done = 0 /\ ~p.cancelled /\ now >= p.effective
        /\ p.signatures >= MinSigners /\ p.signatures = Cardinality(p.signed)
    <2>1. store.threshold \in Nat /\ store.threshold >= MinSigners /\ p.signatures \in Nat
      BY <1>0 DEF Sound, Storage, Proposal, ValidSigners, MinSigners
    <2> QED
      BY <1>0, <2>1 DEF Execute, Executable, Open, Sound, Proposals, Proposal, MinSigners
  <1>2. PICK q \in Proposal :
            /\ Becomes(id, q) /\ q.executed /\ q.done = 0 /\ ~q.cancelled
            /\ q.effective = p.effective /\ q.signatures = p.signatures /\ q.signed = p.signed
    <2>1. [p EXCEPT !.executed = TRUE] \in Proposal
      BY <1>0 DEF Proposal
    <2> QED
      BY <1>0, <1>1, <2>1 DEF Execute, Proposal
  <1>3. Sound(store', now)
    BY <1>0, <1>1, <1>2, BecomesSound
  <1>4. /\ calls' \in Seq(Call) /\ Len(calls') = k + 1
        /\ \A n \in 1 .. k : calls'[n] = calls[n]
        /\ calls'[k + 1].id = id /\ calls'[k + 1].before = store
    <2>1. [id |-> id, before |-> store] \in Call
      BY <1>0 DEF Call
    <2> QED
      BY <1>0, <2>1 DEF Execute
  <1>5. Accounted(store, calls', k)
    BY <1>0, <1>4, SameCalls
  <1>6. Accounted(store', calls', k + 1)
    <2>1. /\ DOMAIN store'.proposals = DOMAIN store.proposals
          /\ store'.proposals[id] = q
          /\ \A i \in Proposals \ {id} : store'.proposals[i] = store.proposals[i]
      BY <1>0, <1>2, BecomesOK
    <2>2. \A n \in 1 .. k + 1 : n \in 1 .. k \/ n = k + 1
      BY <1>0
    <2>3. 1 .. k \subseteq 1 .. k + 1 /\ k + 1 \in 1 .. k + 1
      BY <1>0
    <2> HIDE DEF k
    <2>4. ASSUME NEW n \in 1 .. k + 1
          PROVE  /\ calls'[n].id \in DOMAIN store'.proposals
                 /\ store'.proposals[calls'[n].id].executed
                 /\ store'.proposals[calls'[n].id].done = 0
      BY <1>1, <1>2, <1>4, <1>5, <2>1, <2>2 DEF Accounted, Proposals
    <2>5. ASSUME NEW i \in DOMAIN store'.proposals, store'.proposals[i].executed
          PROVE  \/ store'.proposals[i].done = 1
                 \/ \E n \in 1 .. k + 1 : calls'[n].id = i
      BY <1>4, <1>5, <2>1, <2>3, <2>5 DEF Accounted, Proposals
    <2> QED
      BY <2>4, <2>5 DEF Accounted
  <1>7. SavedSound(calls', now)
    <2>1. ASSUME NEW n \in 1 .. k
          PROVE  /\ Sound(calls'[n].before, now)
                 /\ Accounted(calls'[n].before, calls', n - 1)
                 /\ \A m \in 1 .. n - 1 : calls'[m].id # calls'[n].id
      <3>1. n - 1 \in Nat /\ \A m \in 1 .. n - 1 : m \in 1 .. k
        BY <1>0
      <3>2. /\ Sound(calls[n].before, now)
            /\ Accounted(calls[n].before, calls, n - 1)
            /\ \A m \in 1 .. n - 1 : calls[m].id # calls[n].id
        BY <1>0 DEF SavedSound
      <3> QED
        BY <1>4, <3>1, <3>2, SameCalls
    <2>2. \A m \in 1 .. k : calls'[m].id # id
      BY <1>1, <1>5 DEF Accounted
    <2>3. \A n \in 1 .. k + 1 : n \in 1 .. k \/ (n = k + 1 /\ n - 1 = k)
      BY <1>0
    <2> HIDE DEF k
    <2> QED
      BY <1>0, <1>4, <1>5, <2>1, <2>2, <2>3 DEF SavedSound
  <1> QED
    BY <1>0, <1>3, <1>4, <1>6, <1>7 DEF IInv, Call

\* What the end of a call leaves of the calls.
LEMMA ReturnedOK ==
    ASSUME IInv, Running, Returned
    PROVE  /\ Len(calls) \in Nat \ {0}
           /\ calls' \in Seq(Call) /\ Len(calls') = Len(calls) - 1
           /\ \A n \in 1 .. Len(calls) - 1 : calls'[n] = calls[n]
           /\ SavedSound(calls', now)
  <1>1. calls \in Seq(Call) /\ Len(calls) \in Nat \ {0} /\ SavedSound(calls, now)
    BY DEF IInv, Running, Call
  <1>2. /\ calls' \in Seq(Call) /\ Len(calls') = Len(calls) - 1
        /\ \A n \in 1 .. Len(calls) - 1 : calls'[n] = calls[n]
    <2>1. calls' = SubSeq(calls, 1, Len(calls) - 1)
      BY DEF Returned
    <2>2. \A n \in 1 .. Len(calls) - 1 : calls[n] \in Call
      BY <1>1
    <2>3. Len(calls) - 1 \in Int
      BY <1>1
    <2>4. /\ SubSeq(calls, 1, Len(calls) - 1) \in Seq(Call)
          /\ Len(SubSeq(calls, 1, Len(calls) - 1)) =
                IF 1 <= Len(calls) - 1 THEN (Len(calls) - 1) - 1 + 1 ELSE 0
          /\ \A n \in 1 .. (Len(calls) - 1) - 1 + 1 :
                SubSeq(calls, 1, Len(calls) - 1)[n] = calls[1 + n - 1]
      BY <2>2, <2>3, SubSeqProperties
    <2>5. 1 .. (Len(calls) - 1) - 1 + 1 = 1 .. Len(calls) - 1 /\ \A n \in 1 .. Len(calls) - 1 : 1 + n - 1 = n
      BY <1>1
    <2>6. Len(calls') = Len(calls) - 1
      <3>1. PICK k \in Nat \ {0} : k = Len(calls)
        BY <1>1
      <3>2. Len(calls') = IF 1 <= k - 1 THEN (k - 1) - 1 + 1 ELSE 0
        BY <2>1, <2>4, <3>1 DEF Returned
      <3>3. (IF 1 <= k - 1 THEN (k - 1) - 1 + 1 ELSE 0) = k - 1
        OBVIOUS
      <3> QED
        BY <3>1, <3>2, <3>3
    <2> QED
      BY <2>1, <2>4, <2>5, <2>6
  <1> QED
    BY <1>1, <1>2, SameSaved

LEMMA CallReturnsOK ==
    ASSUME IInv, CallReturns
    PROVE  IInv'
  <1> DEFINE k == Len(calls)
  <1>0. /\ k \in Nat \ {0} /\ calls' \in Seq(Call) /\ Len(calls') = k - 1
        /\ \A n \in 1 .. k - 1 : calls'[n] = calls[n]
        /\ SavedSound(calls', now) /\ UNCHANGED now
    BY ReturnedOK DEF CallReturns
  <1>1. PICK id \in Proposals : /\ id = calls[k].id /\ store.proposals[id].executed
                                /\ store.proposals[id].done = 0
    BY <1>0 DEF IInv, Accounted, Proposals
  <1> DEFINE p == store.proposals[id]
  <1>2. /\ store \in Storage /\ Sound(store, now) /\ Accounted(store, calls, k) /\ p \in Proposal
    BY DEF IInv, Sound, Storage, Proposals
  <1>3. PICK q \in Proposal :
            /\ Becomes(id, q) /\ q.executed /\ q.done = 1 /\ q.cancelled = p.cancelled
            /\ q.effective = p.effective /\ q.signatures = p.signatures /\ q.signed = p.signed
    <2>1. PICK q \in Proposal :
              /\ q = [p EXCEPT !.done = 1] /\ q.executed /\ q.done = 1 /\ q.cancelled = p.cancelled
              /\ q.effective = p.effective /\ q.signatures = p.signatures /\ q.signed = p.signed
      <3>1. [p EXCEPT !.done = 1] \in Proposal
        BY <1>2 DEF Proposal
      <3> QED
        BY <1>1, <1>2, <3>1 DEF Proposal
    <2>2. p.done + 1 = 1
      BY <1>1
    <2>3. Becomes(id, [p EXCEPT !.done = p.done + 1])
      BY <1>1 DEF CallReturns, Innermost
    <2> QED
      BY <2>1, <2>2, <2>3
  <1>4. Sound(store', now)
    <2>1. p.signatures = Cardinality(p.signed) /\ ~p.cancelled /\ now >= p.effective
          /\ p.signatures >= MinSigners
      BY <1>1, <1>2 DEF Sound, Proposals
    <2> QED
      BY <1>2, <1>3, <2>1, BecomesSound
  <1>5. Accounted(store', calls', k - 1)
    <2>1. /\ DOMAIN store'.proposals = DOMAIN store.proposals
          /\ store'.proposals[id] = q
          /\ \A i \in Proposals \ {id} : store'.proposals[i] = store.proposals[i]
      BY <1>2, <1>3, BecomesOK
    <2>2. \A n \in 1 .. k - 1 : calls[n].id # id
      <3>1. k \in 1 .. Len(calls) /\ SavedSound(calls, now)
        BY <1>0 DEF IInv
      <3>2. \A n \in 1 .. k - 1 : calls[n].id # calls[k].id
        BY <3>1 DEF SavedSound
      <3> QED
        BY <1>1, <3>2
    <2>3. \A n \in 1 .. k : n \in 1 .. k - 1 \/ n = k
      BY <1>0
    <2>4. 1 .. k - 1 \subseteq 1 .. k
      BY <1>0
    <2> HIDE DEF k
    <2>5. ASSUME NEW n \in 1 .. k - 1
          PROVE  /\ calls'[n].id \in DOMAIN store'.proposals
                 /\ store'.proposals[calls'[n].id].executed
                 /\ store'.proposals[calls'[n].id].done = 0
      BY <1>0, <1>2, <2>1, <2>2, <2>4 DEF Accounted, Proposals
    <2>6. ASSUME NEW i \in DOMAIN store'.proposals, store'.proposals[i].executed
          PROVE  \/ store'.proposals[i].done = 1
                 \/ \E n \in 1 .. k - 1 : calls'[n].id = i
      BY <1>0, <1>1, <1>2, <1>3, <2>1, <2>3, <2>6 DEF Accounted, Proposals
    <2> QED
      BY <2>5, <2>6 DEF Accounted
  <1> QED
    BY <1>0, <1>4, <1>5 DEF IInv, Call

LEMMA CallRevertsOK ==
    ASSUME IInv, CallReverts
    PROVE  IInv'
  <1> DEFINE k == Len(calls)
  <1>0. /\ k \in Nat \ {0} /\ calls' \in Seq(Call) /\ Len(calls') = k - 1
        /\ \A n \in 1 .. k - 1 : calls'[n] = calls[n]
        /\ SavedSound(calls', now) /\ UNCHANGED now
    BY ReturnedOK DEF CallReverts
  <1>1. Sound(store', now) /\ Accounted(store', calls, k - 1)
    BY <1>0 DEF IInv, SavedSound, CallReverts, Innermost
  <1>2. Accounted(store', calls', k - 1)
    BY <1>0, <1>1, SameCalls
  <1> QED
    BY <1>0, <1>1, <1>2 DEF IInv, Call

LEMMA TickOK ==
    ASSUME IInv, Tick
    PROVE  IInv'
  <1>1. /\ calls = <<>> /\ UNCHANGED <<store, calls>>
        /\ now \in 1 .. MaxTime /\ now' = now + 1 /\ now' \in 1 .. MaxTime
    BY DEF IInv, Tick, Running
  <1>2. Sound(store, now')
    <2>1. ASSUME NEW id \in DOMAIN store.proposals
          PROVE  now >= store.proposals[id].effective => now' >= store.proposals[id].effective
      <3>1. store.proposals[id].effective \in Nat
        <4>1. store.proposals \in Seq(Proposal)
          BY DEF IInv, Sound, Storage
        <4>2. store.proposals[id] \in Proposal
          BY <4>1
        <4> QED
          BY <4>2 DEF Proposal
      <3> QED
        BY <1>1, <3>1
    <2> QED
      BY <2>1 DEF IInv, Sound
  <1>3. SavedSound(calls', now')
    BY <1>1 DEF SavedSound
  <1> QED
    BY <1>1, <1>2, <1>3 DEF IInv

LEMMA Inductive == IInv /\ [Next]_vars => IInv'
  <1> SUFFICES ASSUME IInv, [Next]_vars PROVE IInv'
    OBVIOUS
  <1>1. CASE UNCHANGED vars
    BY <1>1 DEF IInv, vars
  <1>2. CASE Next
    BY <1>2, AdminOK, ProposeOK, DecideOK, ExecuteOK, CallReturnsOK, CallRevertsOK, TickOK DEF Next
  <1> QED
    BY <1>1, <1>2

LEMMA Invariant == Spec => []IInv
  BY InitOK, Inductive, PTL DEF Spec

\* Every reachable state has its type and its parameters in bounds.
THEOREM TypeCorrect == Spec => []TypeOK
  <1>1. IInv => TypeOK
    BY DEF IInv, TypeOK, Sound
  <1> QED
    BY <1>1, Invariant, PTL

\* The cached set of signers never differs from the list.
THEOREM SignersMatch == Spec => []SignersAgree
  <1>1. IInv => SignersAgree
    BY DEF IInv, SignersAgree, Sound
  <1> QED
    BY <1>1, Invariant, PTL

\* The counter of signatures counts accounts.
THEOREM Counted == Spec => []SignaturesCounted
  <1>1. IInv => SignaturesCounted
    BY DEF IInv, SignaturesCounted, Sound, Proposals
  <1> QED
    BY <1>1, Invariant, PTL

\* No target is called twice to the end, however its code calls back.
THEOREM AtMostOnce == Spec => []DoneOnce
  <1>1. IInv => DoneOnce
    BY DEF IInv, DoneOnce, Sound, Proposals
  <1> QED
    BY <1>1, Invariant, PTL

\* A proposal counts as executed only while its call runs or once it has ended
\* well: a failed call, at any depth, leaves no mark.
THEOREM NoFalseMark == Spec => []ExecutedIsDone
  <1>1. IInv => ExecutedIsDone
    BY DEF IInv, ExecutedIsDone, Accounted, Proposals
  <1> QED
    BY <1>1, Invariant, PTL

\* Delay, quorum and cancellation bind every execution.
THEOREM WithinRules == Spec => []ExecutedWithinRules
  <1>1. IInv => ExecutedWithinRules
    BY DEF IInv, ExecutedWithinRules, Sound, Proposals
  <1> QED
    BY <1>1, Invariant, PTL

-----------------------------------------------------------------------------
(* The contract keeps the promise of MultisigTimelock                      *)
(*                                                                         *)
(* Until the outermost call ends, the chain has the proposals from before  *)
(* it.  What such a call leaves behind follows from these by steps of one  *)
(* time, for each revert goes back to one of the states on the way.        *)

\* Steps at a time "t" may make these proposals "r" of "s".
Leads(s, r, t) ==
    /\ Len(s) <= Len(r)
    /\ \A id \in DOMAIN r :
          /\ r[id].effective >= r[id].created + MinDelaySecs
          /\ id \notin DOMAIN s => r[id].created = t
          /\ id \in DOMAIN s =>
                /\ r[id].created = s[id].created
                /\ s[id].signed \subseteq r[id].signed
                /\ s[id].executed \/ s[id].cancelled =>
                      /\ r[id].executed = s[id].executed
                      /\ r[id].cancelled = s[id].cancelled
                      /\ r[id].signed = s[id].signed

Delayed(s) == \A id \in DOMAIN s : s[id].effective >= s[id].created + MinDelaySecs

\* The proposals that the n-th call would bring back.
Before(n) == calls[n].before.proposals

\* Every call began with what those around it had led to.
PInv ==
    /\ Delayed(store.proposals)
    /\ \A n \in 1 .. Len(calls) :
          /\ Delayed(Before(n))
          /\ Leads(Before(n), store.proposals, now)
          /\ \A m \in 1 .. n - 1 : Leads(Before(m), Before(n), now)

LEMMA LeadsReflexive ==
    ASSUME NEW s \in Seq(Proposal), Delayed(s), NEW t
    PROVE  Leads(s, s, t)
  BY DEF Leads, Delayed

LEMMA LeadsTransitive ==
    ASSUME NEW q \in Seq(Proposal), NEW r \in Seq(Proposal), NEW s \in Seq(Proposal), NEW t,
           Leads(q, r, t), Leads(r, s, t)
    PROVE  Leads(q, s, t)
  <1>1. /\ Len(q) <= Len(s)
        /\ \A id \in DOMAIN q : id \in DOMAIN r
        /\ \A id \in DOMAIN r : id \in DOMAIN s
    BY DEF Leads
  <1> QED
    BY <1>1 DEF Leads

LEMMA ProposalsTyped ==
    ASSUME IInv
    PROVE  /\ store.proposals \in Seq(Proposal)
           /\ calls \in Seq(Call)
           /\ Len(calls) \in Nat
           /\ \A n \in 1 .. Len(calls) : Before(n) \in Seq(Proposal)
  <1>1. calls \in Seq(Call) /\ Len(calls) \in Nat /\ store \in Storage
    BY DEF IInv, Sound, Call
  <1>2. \A n \in 1 .. Len(calls) : calls[n] \in Call
    BY <1>1
  <1> QED
    BY <1>1, <1>2 DEF Before, Call, Storage

\* One proposal that changes, with the delay it was made with, leads on.
LEMMA BecomesLeads ==
    ASSUME store \in Storage, Delayed(store.proposals), NEW id \in Proposals,
           NEW q \in Proposal, Becomes(id, q),
           LET p == store.proposals[id] IN
               /\ q.created = p.created /\ q.effective = p.effective
               /\ p.signed \subseteq q.signed
               /\ p.executed \/ p.cancelled =>
                     q.executed = p.executed /\ q.cancelled = p.cancelled /\ q.signed = p.signed
    PROVE  Leads(store.proposals, store'.proposals, now)
  <1> DEFINE s == store.proposals
             r == store'.proposals
  <1>1. /\ DOMAIN r = DOMAIN s /\ r[id] = q
        /\ \A i \in DOMAIN s \ {id} : r[i] = s[i]
    BY BecomesOK DEF Proposals
  <1>2. s \in Seq(Proposal) /\ r \in Seq(Proposal)
    BY BecomesOK DEF Storage
  <1>3. Len(s) <= Len(r)
    BY <1>1, <1>2
  <1>4. id \in DOMAIN s /\ q.created = s[id].created /\ q.effective = s[id].effective
    BY DEF Proposals
  <1> QED
    BY <1>1, <1>3, <1>4 DEF Leads, Delayed

\* What the operations outside execute lead to.
LEMMA OperationLeads ==
    ASSUME IInv, PInv, NEW a \in Accounts,
           \/ \E list \in SignerLists : \E t \in MinSigners .. Len(list) : UpdateSigners(a, list, t)
           \/ \E min, max \in Delays : UpdateDelays(a, min, max)
           \/ \E b \in BOOLEAN : SetPaused(a, b)
           \/ \E delay \in Delays : Propose(a, delay)
           \/ \E id \in Proposals : Sign(a, id) \/ Cancel(a, id)
    PROVE  Leads(store.proposals, store'.proposals, now) /\ UNCHANGED <<calls, now>>
  <1>0. /\ store \in Storage /\ store.proposals \in Seq(Proposal) /\ Delayed(store.proposals)
        /\ store.minDelay >= MinDelaySecs /\ now \in Nat
    BY DEF IInv, PInv, Sound, Storage, ValidDelays, Delays
  <1>1. CASE \/ \E list \in SignerLists :
                   \E t \in MinSigners .. Len(list) : UpdateSigners(a, list, t)
             \/ \E min, max \in Delays : UpdateDelays(a, min, max)
             \/ \E b \in BOOLEAN : SetPaused(a, b)
    <2>1. UNCHANGED <<calls, now>> /\ store'.proposals = store.proposals
      BY <1>0, <1>1 DEF UpdateSigners, UpdateDelays, SetPaused, Storage
    <2> QED
      BY <1>0, <2>1, LeadsReflexive
  <1>2. ASSUME NEW delay \in Delays, Propose(a, delay)
        PROVE  Leads(store.proposals, store'.proposals, now) /\ UNCHANGED <<calls, now>>
    <2> DEFINE new == [proposer |-> a, created |-> now, effective |-> now + delay, signed |-> {},
                       signatures |-> 0, executed |-> FALSE, cancelled |-> FALSE, done |-> 0]
               s == store.proposals
    <2>1. /\ store' = [store EXCEPT !.proposals = Append(s, new)]
          /\ delay \in store.minDelay .. store.maxDelay
          /\ UNCHANGED <<calls, now>>
      BY <1>2 DEF Propose
    <2>2. new \in Proposal /\ new.created = now /\ new.effective >= now + MinDelaySecs
      <3>1. delay \in Nat /\ delay >= MinDelaySecs
        BY DEF Delays
      <3> QED
        BY <1>0, <3>1 DEF Proposal
    <2>3. store'.proposals = Append(s, new)
      BY <1>0, <2>1 DEF Storage
    <2> HIDE DEF new, s
    <2>4. /\ DOMAIN Append(s, new) = DOMAIN s \cup {Len(s) + 1}
          /\ Len(s) <= Len(Append(s, new))
          /\ Len(s) + 1 \notin DOMAIN s
          /\ Append(s, new)[Len(s) + 1] = new
          /\ \A id \in DOMAIN s : Append(s, new)[id] = s[id]
      BY <1>0, <2>2 DEF s
    <2>5. Leads(s, Append(s, new), now)
      BY <1>0, <2>2, <2>4 DEF Leads, Delayed, s
    <2> QED
      BY <2>1, <2>3, <2>5 DEF s
  <1>3. ASSUME NEW id \in Proposals, Sign(a, id) \/ Cancel(a, id)
        PROVE  Leads(store.proposals, store'.proposals, now) /\ UNCHANGED <<calls, now>>
    <2> DEFINE p == store.proposals[id]
    <2>1. p \in Proposal /\ UNCHANGED <<calls, now>> /\ Open(id)
      <3>1. p \in Proposal
        BY <1>0 DEF Proposals
      <3>2. UNCHANGED <<calls, now>> /\ Open(id)
        BY <1>3 DEF Sign, Cancel
      <3> QED
        BY <3>1, <3>2
    <2>2. PICK q \in Proposal : /\ Becomes(id, q)
                                /\ q.created = p.created /\ q.effective = p.effective
                                /\ p.signed \subseteq q.signed
      <3>1. CASE Sign(a, id)
        <4> DEFINE q == [p EXCEPT !.signed = @ \cup {a}, !.signatures = @ + 1]
        <4>1. /\ q \in Proposal /\ q.created = p.created /\ q.effective = p.effective
              /\ p.signed \subseteq q.signed
          <5>1. p.signed \cup {a} \in SUBSET Accounts /\ p.signatures + 1 \in Nat
            BY <2>1 DEF Proposal
          <5> QED
            BY <2>1, <5>1 DEF Proposal
        <4>2. Becomes(id, q)
          BY <3>1 DEF Sign
        <4> QED
          BY <4>1, <4>2
      <3>2. CASE Cancel(a, id)
        <4> DEFINE q == [p EXCEPT !.cancelled = TRUE]
        <4>1. /\ q \in Proposal /\ q.created = p.created /\ q.effective = p.effective
              /\ p.signed \subseteq q.signed
          BY <2>1 DEF Proposal
        <4>2. Becomes(id, q)
          BY <3>2 DEF Cancel
        <4> QED
          BY <4>1, <4>2
      <3> QED
        BY <1>3, <3>1, <3>2
    <2>3. ~p.executed /\ ~p.cancelled
      BY <2>1 DEF Open
    <2> QED
      BY <1>0, <2>1, <2>2, <2>3, BecomesLeads
  <1> QED
    BY <1>1, <1>2, <1>3

LEMMA ExecuteLeads ==
    ASSUME IInv, PInv, NEW id \in Proposals, Execute(id)
    PROVE  Leads(store.proposals, store'.proposals, now)
  <1> DEFINE p == store.proposals[id]
             q == [p EXCEPT !.executed = TRUE]
  <1>0. store \in Storage /\ store.proposals \in Seq(Proposal) /\ Delayed(store.proposals)
    BY DEF IInv, PInv, Sound, Storage
  <1>1. p \in Proposal /\ Open(id) /\ Becomes(id, q)
    BY <1>0 DEF Proposals, Execute, Executable
  <1>2. /\ q \in Proposal /\ q.created = p.created /\ q.effective = p.effective
        /\ p.signed \subseteq q.signed
    BY <1>1 DEF Proposal
  <1> QED
    BY <1>0, <1>1, <1>2, BecomesLeads DEF Open

LEMMA ReturnLeads ==
    ASSUME IInv, PInv, CallReturns
    PROVE  Leads(store.proposals, store'.proposals, now)
  <1> DEFINE id == Innermost.id
             p == store.proposals[id]
             q == [p EXCEPT !.done = @ + 1]
  <1>0. store \in Storage /\ store.proposals \in Seq(Proposal) /\ Delayed(store.proposals)
    BY DEF IInv, PInv, Sound, Storage
  <1>1. id \in Proposals /\ p \in Proposal /\ Becomes(id, q)
    <2>1. Len(calls) \in 1 .. Len(calls)
      BY ReturnedOK DEF CallReturns
    <2>2. id \in Proposals
      BY <2>1 DEF IInv, Accounted, Proposals, Innermost
    <2> QED
      BY <1>0, <2>2 DEF Proposals, CallReturns
  <1>2. /\ q \in Proposal /\ q.created = p.created /\ q.effective = p.effective
        /\ q.signed = p.signed /\ q.executed = p.executed /\ q.cancelled = p.cancelled
    <2> HIDE DEF p
    <2>1. p.done + 1 \in Nat
      BY <1>1 DEF Proposal
    <2> QED
      BY <1>1, <2>1 DEF Proposal
  <1> QED
    BY <1>0, <1>1, <1>2, BecomesLeads

\* Proposals that others lead to are as delayed, and those led to the others
\* led to them as well.
LEMMA Onward ==
    ASSUME IInv, PInv, IInv', Leads(store.proposals, store'.proposals, now)
    PROVE  /\ Delayed(store'.proposals)
           /\ \A n \in 1 .. Len(calls) : Leads(Before(n), store'.proposals, now)
  <1>1. Delayed(store'.proposals)
    BY DEF Leads, Delayed
  <1>2. store.proposals \in Seq(Proposal) /\ store'.proposals \in Seq(Proposal)
    BY DEF IInv, Sound, Storage
  <1>3. ASSUME NEW n \in 1 .. Len(calls)
        PROVE  Leads(Before(n), store'.proposals, now)
    BY <1>2, ProposalsTyped, LeadsTransitive DEF PInv
  <1> QED
    BY <1>1, <1>3

LEMMA PromiseInitOK == Init => PInv
  <1> SUFFICES ASSUME Init PROVE PInv
    OBVIOUS
  <1>1. calls = <<>> /\ store.proposals = <<>>
    BY DEF Init, Deployed
  <1> QED
    BY <1>1 DEF PInv, Delayed

\* How a step goes from one committed state to the next.
Promised ==
    \/ now' = now + 1 /\ Committed' = Committed
    \/ now' = now /\ Leads(Committed, Committed', now)

\* What is committed, in terms of the calls, and that a sound storage has it.
CommittedOK ==
    /\ Committed \in Seq(Proposal)
    /\ Delayed(Committed)
    /\ Committed = IF Len(calls) > 0 THEN Before(1) ELSE store.proposals
    /\ \E s \in Storage : Committed = s.proposals /\ Sound(s, now)

LEMMA CommittedTyped == IInv /\ PInv => CommittedOK
  <1> SUFFICES ASSUME IInv, PInv PROVE CommittedOK
    OBVIOUS
  <1>1. Running <=> Len(calls) > 0
    BY ProposalsTyped DEF Running
  <1>2. Len(calls) > 0 => 1 \in 1 .. Len(calls)
    BY ProposalsTyped
  <1>3. \A n \in 1 .. Len(calls) : calls[n].before \in Storage /\ Sound(calls[n].before, now)
    BY DEF IInv, SavedSound, Sound
  <1>4. store \in Storage /\ Sound(store, now)
    BY DEF IInv, Sound
  <1> QED
    BY <1>1, <1>2, <1>3, <1>4, ProposalsTyped DEF Committed, Before, PInv, CommittedOK

LEMMA CommittedNext == IInv' /\ PInv' => CommittedOK'
  BY CommittedTyped, PTL

\* A step that neither begins nor ends a call.
LEMMA OperationStep ==
    ASSUME IInv, PInv, IInv', UNCHANGED <<calls, now>>,
           Leads(store.proposals, store'.proposals, now)
    PROVE  PInv' /\ Promised
  <1>1. PInv'
    BY Onward DEF PInv, Before
  <1>2. CASE Len(calls) > 0
    <2>1. Committed' = Committed
      BY <1>2 DEF Committed, Running
    <2> QED
      BY <1>1, <2>1, CommittedTyped, LeadsReflexive DEF CommittedOK, Promised
  <1>3. CASE ~(Len(calls) > 0)
    <2>1. Committed = store.proposals /\ Committed' = store'.proposals
      BY <1>1, <1>3, CommittedTyped, CommittedNext DEF CommittedOK
    <2> QED
      BY <1>1, <2>1 DEF Promised
  <1> QED
    BY <1>2, <1>3

LEMMA ExecuteStep ==
    ASSUME IInv, PInv, IInv', NEW id \in Proposals, Execute(id)
    PROVE  PInv' /\ Promised
  <1>k. PICK k \in Nat : k = Len(calls)
    BY ProposalsTyped
  <1>0. /\ calls \in Seq(Call) /\ UNCHANGED now
        /\ Leads(store.proposals, store'.proposals, now)
    BY ProposalsTyped, ExecuteLeads DEF Execute
  <1>1. /\ Len(calls') = k + 1
        /\ \A n \in 1 .. k : Before(n)' = Before(n)
        /\ Before(k + 1)' = store.proposals
    <2> DEFINE e == [id |-> id, before |-> store]
    <2>1. e \in Call /\ e.before = store
      BY DEF IInv, Sound, Storage, Proposals, Call
    <2>2. calls' = Append(calls, e)
      BY DEF Execute
    <2> HIDE DEF e
    <2>3. Len(calls') = k + 1
      BY <1>k, <1>0, <2>1, <2>2
    <2>4. calls'[k + 1] = e
      BY <1>k, <1>0, <2>1, <2>2
    <2>5. \A n \in 1 .. k : calls'[n] = calls[n]
      BY <1>k, <1>0, <2>1, <2>2
    <2> QED
      BY <2>1, <2>3, <2>4, <2>5 DEF Before
  <1>2. PInv'
    <2>1. /\ Delayed(store'.proposals)
          /\ \A n \in 1 .. k : Leads(Before(n), store'.proposals, now)
      BY Onward, <1>k, <1>0
    <2>2. \A n \in 1 .. k + 1 : n \in 1 .. k \/ (n = k + 1 /\ n - 1 = k)
      BY <1>0
    <2>3. \A n \in 1 .. k : \A m \in 1 .. n - 1 : m \in 1 .. k
      BY <1>0
    <2>4. ASSUME NEW n \in 1 .. k
          PROVE  /\ Delayed(Before(n)') /\ Leads(Before(n)', store'.proposals, now)
                 /\ \A m \in 1 .. n - 1 : Leads(Before(m)', Before(n)', now)
      <3>1. Delayed(Before(n)) /\ \A m \in 1 .. n - 1 : Leads(Before(m), Before(n), now)
        BY <1>k DEF PInv
      <3>2. Before(n)' = Before(n) /\ \A m \in 1 .. n - 1 : Before(m)' = Before(m)
        BY <1>1, <2>3
      <3>3. Leads(Before(n)', store'.proposals, now) /\ Delayed(Before(n)')
        BY <2>1, <3>1, <3>2
      <3>4. ASSUME NEW m \in 1 .. n - 1
            PROVE  Leads(Before(m)', Before(n)', now)
        BY <3>1, <3>2
      <3> QED
        BY <3>3, <3>4
    <2>5. /\ Delayed(Before(k + 1)') /\ Leads(Before(k + 1)', store'.proposals, now)
          /\ \A m \in 1 .. k : Leads(Before(m)', Before(k + 1)', now)
      BY <1>k, <1>0, <1>1 DEF PInv
    <2>6. ASSUME NEW n \in 1 .. k + 1
          PROVE  /\ Delayed(Before(n)') /\ Leads(Before(n)', store'.proposals, now)
                 /\ \A m \in 1 .. n - 1 : Leads(Before(m)', Before(n)', now)
      <3>1. CASE n \in 1 .. k
        BY <2>4, <3>1
      <3>2. CASE n = k + 1 /\ n - 1 = k
        BY <2>5, <3>2
      <3> QED
        BY <2>2, <3>1, <3>2
    <2> QED
      BY <1>0, <1>1, <2>1, <2>6 DEF PInv
  <1>3. Committed' = Committed
    <2>1. Len(calls') > 0 /\ (k > 0 => 1 \in 1 .. k)
      BY <1>0, <1>1
    <2>2. Committed' = Before(1)'
      BY <1>2, <2>1, CommittedNext DEF CommittedOK
    <2>3. CASE k > 0
      <3>1. Committed = Before(1)
        BY <1>k, <2>3, CommittedTyped DEF CommittedOK
      <3>2. Before(1)' = Before(1)
        BY <1>1, <2>1, <2>3
      <3> QED
        BY <2>2, <3>1, <3>2
    <2>4. CASE ~(k > 0)
      <3>1. k = 0 /\ k + 1 = 1
        BY <1>0, <2>4
      <3>2. Committed = store.proposals
        BY <1>k, <2>4, CommittedTyped DEF CommittedOK
      <3> QED
        BY <1>1, <2>2, <3>1, <3>2
    <2> QED
      BY <2>3, <2>4
  <1> QED
    BY <1>0, <1>2, <1>3, CommittedTyped, LeadsReflexive DEF CommittedOK, Promised

\* The end of a call leaves what led on from before those around it, whether it
\* returns or reverts.
LEMMA EndStep ==
    ASSUME IInv, PInv, IInv', CallReturns \/ CallReverts
    PROVE  PInv' /\ Promised
  <1> DEFINE k == Len(calls)
  <1>0. /\ k \in Nat \ {0} /\ Len(calls') = k - 1
        /\ \A n \in 1 .. k - 1 : Before(n)' = Before(n)
        /\ UNCHANGED now
    BY ReturnedOK DEF CallReturns, CallReverts, Before
  <1>1. 1 \in 1 .. k /\ k \in 1 .. k /\ \A n \in 1 .. k - 1 : n \in 1 .. k
    BY <1>0
  <1>2. /\ Delayed(store'.proposals)
        /\ \A n \in 1 .. k - 1 : Leads(Before(n), store'.proposals, now)
    <2>1. CASE CallReturns
      BY <1>1, <2>1, ReturnLeads, Onward
    <2>2. CASE CallReverts
      <3>1. store'.proposals = Before(k)
        BY <2>2 DEF CallReverts, Innermost, Before
      <3> QED
        BY <1>1, <3>1 DEF PInv
    <2> QED
      BY <2>1, <2>2
  <1>3. PInv'
    <2>1. \A n \in 1 .. k - 1 : \A m \in 1 .. n - 1 : m \in 1 .. k - 1
      BY <1>0
    <2> HIDE DEF k
    <2>2. ASSUME NEW n \in 1 .. k - 1
          PROVE  /\ Delayed(Before(n)') /\ Leads(Before(n)', store'.proposals, now)
                 /\ \A m \in 1 .. n - 1 : Leads(Before(m)', Before(n)', now)
      BY <1>0, <1>1, <1>2, <2>1 DEF PInv, k
    <2> QED
      BY <1>0, <1>2, <2>2 DEF PInv
  <1>4. Leads(Committed, Committed', now)
    <2>0. Committed = Before(1)
      BY <1>0, CommittedTyped DEF CommittedOK
    <2>1. CASE k > 1
      <3>1. Len(calls') > 0 /\ 1 \in 1 .. k - 1
        BY <1>0, <2>1
      <3>2. Committed' = Before(1)
        BY <1>0, <1>3, <3>1, CommittedNext DEF CommittedOK
      <3> QED
        BY <2>0, <3>2, CommittedTyped, LeadsReflexive DEF CommittedOK
    <2>2. CASE ~(k > 1)
      <3>1. k = 1 /\ ~(Len(calls') > 0)
        BY <1>0, <2>2
      <3>2. Committed' = store'.proposals
        BY <1>3, <3>1, CommittedNext DEF CommittedOK
      <3>3. CASE CallReturns
        BY <1>1, <2>0, <3>2, <3>3, ReturnLeads, Onward
      <3>4. CASE CallReverts
        <4>1. store'.proposals = Before(1)
          BY <3>1, <3>4 DEF CallReverts, Innermost, Before
        <4> QED
          BY <2>0, <3>2, <4>1, CommittedTyped, LeadsReflexive DEF CommittedOK
      <3> QED
        BY <3>3, <3>4
    <2> QED
      BY <2>1, <2>2
  <1> QED
    BY <1>0, <1>3, <1>4 DEF Promised

LEMMA PromiseStep ==
    ASSUME IInv, PInv, [Next]_vars
    PROVE  PInv' /\ Promised
  <1>0. IInv'
    BY Inductive
  <1>1. ASSUME UNCHANGED vars
        PROVE  PInv' /\ Promised
    <2>1. Leads(store.proposals, store'.proposals, now)
      BY <1>1, ProposalsTyped, LeadsReflexive DEF vars, PInv
    <2> QED
      BY <1>0, <1>1, <2>1, OperationStep DEF vars
  <1>2. ASSUME Tick
        PROVE  PInv' /\ Promised
    <2>1. /\ calls = <<>> /\ calls' = <<>> /\ store' = store /\ now' = now + 1
      BY <1>2 DEF Tick, Running
    <2> QED
      BY <2>1 DEF PInv, Promised, Committed, Running
  <1> QED
    BY <1>0, <1>1, <1>2, OperationLeads, OperationStep, ExecuteStep, EndStep DEF Next

\* What leads from one committed state to another is a transaction of the promise.
LEMMA LeadsPromised ==
    ASSUME IInv, PInv, IInv', PInv', Promised
    PROVE  Promise!Pass \/ Promise!Transaction
  <1> DEFINE s == Committed
             r == Committed'
  <1>0. /\ s \in Seq(Proposal) /\ r \in Seq(Proposal)
        /\ \E z \in Storage : r = z.proposals /\ Sound(z, now')
    BY CommittedTyped, CommittedNext DEF CommittedOK
  <1>1. CASE now' = now + 1 /\ Committed' = Committed
    BY <1>1 DEF Promise!Pass, StateOf, OpenedOf, ApprovalsOf
  <1>2. CASE now' = now /\ Leads(Committed, Committed', now)
    <2>1. ASSUME NEW i \in DOMAIN r, r[i].executed
          PROVE  /\ ~r[i].cancelled
                 /\ now >= r[i].created + MinDelaySecs
                 /\ r[i].signed \in Quorums
      <3>2. PICK z \in Storage : r = z.proposals /\ Sound(z, now)
        BY <1>0, <1>2
      <3> DEFINE p == r[i]
      <3>3. /\ p \in Proposal /\ ~p.cancelled /\ now >= p.effective
            /\ p.signatures >= MinSigners /\ p.signatures = Cardinality(p.signed)
        BY <1>0, <2>1, <3>2 DEF Sound
      <3>4. p.effective >= p.created + MinDelaySecs
        BY <1>2 DEF Leads
      <3>5. /\ now \in Nat /\ p.effective \in Nat /\ p.created \in Nat
            /\ p.signed \in SUBSET Accounts
        BY <3>3 DEF IInv, Proposal
      <3> HIDE DEF p, r
      <3>6. now >= p.created + MinDelaySecs
        BY <3>3, <3>4, <3>5
      <3>7. p.signed \in Quorums
        BY <3>3, <3>5 DEF Quorums
      <3> QED
        BY <3>3, <3>6, <3>7 DEF p
    <2>2. ASSUME NEW i \in Ids
          PROVE  Promise!Stays(i) \/ Promise!Advances(i)
      <3>1. CASE i \notin DOMAIN r
        <4>1. i \notin DOMAIN s
          BY <1>0, <1>2, <3>1 DEF Leads
        <4> QED
          BY <2>2, <3>1, <4>1 DEF Promise!Stays, StateOf, OpenedOf, ApprovalsOf
      <3>2. CASE i \in DOMAIN r /\ i \notin DOMAIN s
        <4>0. r[i] \in Proposal
          BY <1>0, <3>2
        <4>1. r[i].created = now /\ r[i].signed \subseteq Accounts
          BY <1>2, <3>2, <4>0 DEF Leads, Proposal
        <4> QED
          BY <2>1, <2>2, <3>2, <4>1 DEF Promise!Advances, StateOf, OpenedOf, ApprovalsOf
      <3>3. CASE i \in DOMAIN r /\ i \in DOMAIN s
        <4>0. r[i] \in Proposal /\ i \in 1 .. Len(s)
          BY <1>0, <3>3
        <4>1. /\ r[i].created = s[i].created /\ s[i].signed \subseteq r[i].signed
              /\ r[i].signed \subseteq Accounts
              /\ s[i].executed \/ s[i].cancelled =>
                      /\ r[i].executed = s[i].executed
                      /\ r[i].cancelled = s[i].cancelled
                      /\ r[i].signed = s[i].signed
          BY <1>2, <3>3, <4>0 DEF Leads, Proposal
        <4>2. CASE s[i].executed \/ s[i].cancelled
          BY <2>2, <3>3, <4>1, <4>2 DEF Promise!Stays, StateOf, OpenedOf, ApprovalsOf
        <4>3. CASE ~(s[i].executed \/ s[i].cancelled)
          BY <2>1, <2>2, <3>3, <4>1, <4>3 DEF Promise!Advances, StateOf, OpenedOf, ApprovalsOf
        <4> QED
          BY <4>2, <4>3
      <3> QED
        BY <3>1, <3>2, <3>3
    <2> QED
      BY <1>2, <2>2 DEF Promise!Transaction
  <1> QED
    BY <1>1, <1>2 DEF Promised

\* For any accounts, parameters, proposals and depth of calls: what each
\* transaction leaves of the contract is what MultisigTimelock promises, whatever
\* the targets called do to the contract and whichever of their calls revert.
THEOREM PromiseKept == Spec => KeepsPromise
  <1>1. Init => Promise!AbstractInit
    <2> SUFFICES ASSUME Init PROVE Promise!AbstractInit
      OBVIOUS
    <2>1. Committed = <<>> /\ now = 1
      BY DEF Init, Deployed, Committed, Running
    <2> QED
      BY <2>1 DEF Promise!AbstractInit, StateOf, OpenedOf, ApprovalsOf
  <1>2. IInv /\ PInv /\ [Next]_vars =>
            /\ IInv' /\ PInv'
            /\ Promise!Pass \/ Promise!Transaction
    BY Inductive, PromiseStep, LeadsPromised
  <1>3. Init => IInv /\ PInv
    BY InitOK, PromiseInitOK
  <1> QED
    BY <1>1, <1>2, <1>3, PTL DEF Spec, KeepsPromise, Promise!TransactionSpec

=============================================================================
