------------------------ MODULE TransactionChainProofs ------------------------
(***************************************************************************)
(* Proofs that what TransactionChain says of confirmed and failed records  *)
(* holds for any number of transactions, polls, submissions and blocks and *)
(* any depth of finality.  The invariant of the lifecycle is kept, since   *)
(* the adapter answers nothing the lifecycle does not allow for; on top of *)
(* it come two facts about what a poll may hold between its two reads.     *)
(***************************************************************************)
EXTENDS TransactionChain, TransactionLifecycleProofs

\* A transaction in a block without success has reverted.
RevertRemembered ==
    \A h \in Hashes : at[h] = "block" /\ ~receipt[h].ok => "reverted" \in past[h]

\* The receipt a poll holds is still the transaction's, unless its block was
\* replaced in the meantime.
ReadingCurrent ==
    \A p \in Pollers : reading[p] # NoReceipt =>
        /\ poller[p].hash \in Hashes
        /\ "torn" \notin past[poller[p].hash] =>
              /\ at[poller[p].hash] = "block"
              /\ receipt[poller[p].hash] = reading[p]
              /\ receipt[poller[p].hash].ok

CInv ==
    /\ IInv
    /\ ChainTypeOK
    /\ RevertRemembered
    /\ ReadingCurrent
    /\ ConfirmedIsFinal
    /\ FailedHasCause

\* A poll in flight goes on with the hash it began with.
PollsKept == \A p \in Pollers : poller[p].hash # NoId => poller'[p] = poller[p]

\* No record becomes confirmed or failed.
NoVerdict ==
    \A h \in Hashes : /\ Has(h, "confirmed")' => Has(h, "confirmed")
                      /\ Has(h, "failed")' => Has(h, "failed")

-----------------------------------------------------------------------------
(* The steps of the lifecycle *)

\* Only a failed answer fails a record that had not failed.
LEMMA DecidedFailed ==
    ASSUME NEW r \in Record, NEW o \in Evidence, ~Terminal(r.status),
           DecidedStatus(r, o) = "failed"
    PROVE  o.st = "failed"
  BY ConstantsAssumption
  DEF DecidedStatus, AbsenceStatus, InclusionStatus, Terminal, Record, Statuses,
      Observation, ObservationStatuses

\* The answer of a poll decides about its own record only, and a verdict comes
\* from an answer that says so.
LEMMA AnswerStep ==
    ASSUME IInv, NEW p \in Pollers, NEW o \in Evidence, Answer(p, o)
    PROVE  /\ IInv'
           /\ poller[p].hash \in Ids
           /\ poller' = [poller EXCEPT ![p] = IdlePoller]
           /\ reading' = [reading EXCEPT ![p] = NoReceipt]
           /\ \A h \in Hashes :
                 /\ Has(h, "confirmed")' =>
                       \/ Has(h, "confirmed")
                       \/ h = poller[p].hash /\ o.st = "included" /\ o.conf >= Required
                 /\ Has(h, "failed")' =>
                       \/ Has(h, "failed")
                       \/ h = poller[p].hash /\ o.st = "failed"
  <1> DEFINE i == poller[p].hash
             view == poller[p].view
             decided == DecidedStatus(view, o)
             checked == Checked(view.status, decided)
  <1>1. CASE PollRepeatedEvidence(p, o)
    <2>1. IInv'
      BY <1>1, NextIInv DEF Next
    <2> QED
      BY <1>1, <2>1 DEF PollRepeatedEvidence, Answer, Has, Exists, IInv, KInv, TypeOK
  <1>2. CASE StoreAnswer(p, o) \/ PollRepeatedAbsence(p, o)
    <2>1. i \in Ids /\ view \in Record /\ ~Terminal(view.status) /\ view.polls < MaxPollAttempts
      BY <1>2 DEF StoreAnswer, StoreEvidence, PollRepeatedAbsence, IInv, KInv, TypeOK, ViewLive
    <2>2. PICK st \in {decided, checked} :
             /\ Update(i, Reconciled(view, rec[i], o, st))
             /\ o \in observed'[i]
             /\ \A j \in Ids : observed[j] \subseteq observed'[j]
             /\ observed' \in [Ids -> SUBSET Evidence]
             /\ Answered(i, o)
             /\ poller' = [poller EXCEPT ![p] = IdlePoller]
             /\ UNCHANGED <<newest, submitter, broadcasts>>
      BY <1>2, <2>1 DEF StoreAnswer, StoreEvidence, PollRepeatedAbsence, IInv, KInv, TypeOK
    <2>3. st \in {decided, "manual_review"}
      BY DEF Checked
    <2>4. /\ st \in Statuses
          /\ st = "confirmed" => o.st = "included" /\ o.conf >= Required
          /\ st = "dropped" => o.st = "not_found" /\ view.missing + 1 >= AbsencesToDrop
          /\ st = "failed" => o.st = "failed"
      BY <2>1, <2>3, DecidedIsStatus, DecidedConfirmed, DecidedDropped, DecidedFailed
    <2> HIDE DEF decided, checked
    <2>5. IInv'
      <3>1. KInv' /\ \A j \in Ids : Exists(j)' <=> Exists(j)
        BY <2>1, <2>2, <2>4, UpdateKeepsKInv, ConstantsAssumption DEF IInv
      <3>2. broadcasts' = broadcasts
        BY <2>2
      <3> QED
        BY <3>1, <3>2 DEF IInv, BroadcastRecorded, BroadcastOnce, Ids
    <2>6. rec \in [Ids -> Record \cup {NoRecord}]
      BY DEF IInv, KInv, TypeOK
    <2>7. ASSUME NEW h \in Hashes, h # i
          PROVE  rec'[h] = rec[h]
      BY <2>1, <2>2, <2>6, <2>7 DEF Update, Ids
    <2>8. rec'[i] # NoRecord => rec'[i].status = st
      <3> SUFFICES ASSUME rec'[i] # NoRecord PROVE rec'[i].status = st
        OBVIOUS
      <3>1. Exists(i)
        BY <2>2 DEF Update, Exists
      <3>2. rec'[i] = Reconciled(view, rec[i], o, st) /\ rec[i] \in Record
        BY <2>1, <2>2, <2>6, <3>1 DEF Update, Exists
      <3> QED
        BY <2>1, <2>4, <3>2, ReconciledRecord
    <2>9. ASSUME NEW h \in Hashes, NEW verdict, rec'[h] # NoRecord, rec'[h].status = verdict
          PROVE  Has(h, verdict) \/ (h = i /\ st = verdict)
      BY <2>7, <2>8, <2>9 DEF Has, Exists
    <2>10. ASSUME NEW h \in Hashes
           PROVE  /\ Has(h, "confirmed")' =>
                        Has(h, "confirmed") \/ (h = i /\ st = "confirmed")
                  /\ Has(h, "failed")' => Has(h, "failed") \/ (h = i /\ st = "failed")
      <3>1. /\ Has(h, "confirmed")' <=> rec'[h] # NoRecord /\ rec'[h].status = "confirmed"
            /\ Has(h, "failed")' <=> rec'[h] # NoRecord /\ rec'[h].status = "failed"
        BY DEF Has, Exists
      <3> QED
        BY <2>9, <3>1
    <2>11. reading' = [reading EXCEPT ![p] = NoReceipt]
      BY DEF Answer
    <2> QED
      BY <2>1, <2>2, <2>4, <2>5, <2>10, <2>11
  <1> QED
    BY <1>1, <1>2 DEF Answer

\* Without the adapter nothing is confirmed and nothing fails.
LEMMA StoreStepKeeps == IInv /\ StoreStep => IInv' /\ PollsKept /\ NoVerdict
  <1> SUFFICES ASSUME IInv, StoreStep PROVE IInv' /\ PollsKept /\ NoVerdict
    OBVIOUS
  <1> USE DEF Ids
  <1>1. IInv'
    BY NextIInv DEF StoreStep, Next
  <1>2. /\ rec \in [Ids -> Record \cup {NoRecord}]
        /\ poller \in [Pollers -> [hash : Ids \cup {NoId}, view : Record \cup {NoRecord}]]
    BY DEF IInv, KInv, TypeOK
  <1>3. ASSUME NEW k \in Keys, Prepare(k) \/ ApproveTooLate(k)
        PROVE  PollsKept /\ NoVerdict
    BY <1>2, <1>3
    DEF Prepare, Create, NewRecord, ApproveTooLate, SetStatus, PollsKept, NoVerdict, Has, Exists,
        IInv, KInv, NewestExists, Record
  <1>4. ASSUME NEW s \in Submitters, SubmitRecord(s)
        PROVE  PollsKept /\ NoVerdict
    BY <1>2, <1>4 DEF SubmitRecord, NewRecord, PollsKept, NoVerdict, Has, Exists
  <1>5. ASSUME NEW p \in Pollers, NEW i \in Ids, PollBegin(p, i)
        PROVE  PollsKept /\ NoVerdict
    BY <1>2, <1>5 DEF PollBegin, StartPoll, PollsKept, NoVerdict, Has, Exists
  <1>6. ASSUME NEW p \in Pollers, NEW h \in Hashes, NEW k \in Keys \cup {NoKey},
               ConfirmUnknown(p, h, k)
        PROVE  PollsKept /\ NoVerdict
    BY <1>2, <1>6
    DEF ConfirmUnknown, StartPoll, Create, NewRecord, PollsKept, NoVerdict, Has, Exists
  <1>7. ASSUME NEW i \in Ids, PollExhausted(i) \/ Reject(i) \/ ExpireIfStale(i)
        PROVE  PollsKept /\ NoVerdict
    <2>1. PICK st \in {"manual_review", "user_rejected", "expired"} :
             rec' = [rec EXCEPT ![i].status = st] /\ poller' = poller /\ Exists(i)
      BY <1>7 DEF PollExhausted, Reject, ExpireIfStale, Live, Found, SetStatus
    <2> QED
      BY <1>2, <2>1 DEF PollsKept, NoVerdict, Has, Exists, Record
  <1>8. UNCHANGED <<rec, poller>> => PollsKept /\ NoVerdict
    BY DEF PollsKept, NoVerdict, Has, Exists
  <1> QED
    BY <1>1, <1>3, <1>4, <1>5, <1>6, <1>7, <1>8
    DEF StoreStep, SubmitBegin, SubmitKnownHash

-----------------------------------------------------------------------------
(* What the invariant keeps when the chain, or when a record, does not move *)

\* A step of the store leaves the chain's part alone.
LEMMA StoreKeepsCInv ==
    CInv /\ StoreStep /\ UNCHANGED <<chain, reading, past>> => CInv'
  <1> SUFFICES ASSUME CInv, StoreStep, UNCHANGED <<at, receipt, reading, past>> PROVE CInv'
    BY DEF chain
  <1>1. IInv' /\ PollsKept /\ NoVerdict
    BY StoreStepKeeps DEF CInv
  <1>2. ChainTypeOK'
    BY <1>1 DEF CInv, ChainTypeOK, IInv, KInv
  <1>3. RevertRemembered' /\ ConfirmedIsFinal' /\ FailedHasCause'
    BY <1>1 DEF CInv, RevertRemembered, ConfirmedIsFinal, FailedHasCause, NoVerdict
  <1>4. ReadingCurrent'
    <2>1. ASSUME NEW p \in Pollers, reading[p] # NoReceipt
          PROVE  poller'[p] = poller[p]
      <3>1. poller[p].hash # NoId
        BY <2>1, ConstantsAssumption DEF CInv, ReadingCurrent, Ids
      <3> QED
        BY <1>1, <3>1 DEF PollsKept
    <2> QED
      BY <2>1 DEF CInv, ReadingCurrent
  <1> QED
    BY <1>1, <1>2, <1>3, <1>4 DEF CInv

\* A receipt that grows older stays a receipt, of the same block and outcome.
LEMMA DeeperReceipt ==
    ASSUME NEW r \in Receipt \cup {NoReceipt}
    PROVE  /\ Deeper(r) \in Receipt \cup {NoReceipt}
           /\ Deeper(r) = NoReceipt <=> r = NoReceipt
           /\ r # NoReceipt => /\ Deeper(r).ok = r.ok
                               /\ r.depth = Required => Deeper(r).depth = Required
  BY ChainAssumption, ConstantsAssumption DEF Deeper, Receipt, Depths

\* The chain's own steps.
LEMMA ChainKeepsCInv == CInv /\ ChainStep => CInv'
  <1> SUFFICES ASSUME CInv, ChainStep PROVE CInv'
    OBVIOUS
  <1>0. /\ at \in [Hashes -> Places]
        /\ receipt \in [Hashes -> Receipt \cup {NoReceipt}]
        /\ reading \in [Pollers -> Receipt \cup {NoReceipt}]
        /\ past \in [Hashes -> SUBSET Events]
        /\ \A h \in Hashes : receipt[h] # NoReceipt <=> at[h] = "block"
        /\ NoReceipt \notin Receipt
    BY ChainAssumption DEF CInv, ChainTypeOK
  <1>1. vars' = vars
    BY DEF ChainStep, Propagate, Include, Grow, Reorganise, Forget
  <1>2. IInv'
    BY <1>1, NextIInv DEF CInv
  <1>3. UNCHANGED <<rec, poller>>
    BY <1>1 DEF vars
  <1>4. ASSUME NEW h \in Hashes, Propagate(h) \/ Forget(h)
        PROVE  CInv'
    <2>1. PICK place \in {"pool", "gone"} :
            /\ at[h] # "block" /\ at' = [at EXCEPT ![h] = place]
            /\ UNCHANGED <<receipt, reading, past>>
      BY <1>0, <1>4 DEF Propagate, Forget
    <2>2. \A g \in Hashes : at'[g] = "block" <=> at[g] = "block"
      BY <1>0, <2>1
    <2>3. ChainTypeOK'
      BY <1>0, <1>2, <2>1, <2>2 DEF ChainTypeOK, IInv, KInv, Places
    <2> QED
      BY <1>2, <1>3, <2>1, <2>2, <2>3
      DEF CInv, RevertRemembered, ReadingCurrent, ConfirmedIsFinal, FailedHasCause, Has, Exists
  <1>5. ASSUME NEW h \in Hashes, NEW b \in Blocks, NEW ok \in BOOLEAN, Include(h, b, ok)
        PROVE  CInv'
    <2> DEFINE r == [block |-> b, ok |-> ok, depth |-> 1]
    <2>1. r \in Receipt
      BY ChainAssumption, ConstantsAssumption DEF Receipt, Depths
    <2>2. /\ at[h] = "pool"
          /\ at' = [at EXCEPT ![h] = "block"]
          /\ receipt' = [receipt EXCEPT ![h] = r]
          /\ past' \in [Hashes -> SUBSET Events]
          /\ \A g \in Hashes : past[g] \subseteq past'[g] /\ past'[g] \subseteq past[g] \cup {"reverted"}
          /\ ~ok => "reverted" \in past'[h]
          /\ reading' = reading
      BY <1>0, <1>5 DEF Include, Remember, Events
    <2>3. ChainTypeOK'
      BY <1>0, <1>2, <2>1, <2>2 DEF ChainTypeOK, IInv, KInv, Places
    <2>4. \A g \in Hashes : "torn" \in past'[g] <=> "torn" \in past[g]
      BY <2>2
    <2>5. \A g \in Hashes : at[g] = "block" => g # h /\ at'[g] = at[g] /\ receipt'[g] = receipt[g]
      BY <1>0, <2>2
    <2>6. RevertRemembered'
      BY <1>0, <2>2, <2>5 DEF CInv, RevertRemembered
    <2>7. ReadingCurrent'
      BY <1>3, <2>2, <2>4, <2>5 DEF CInv, ReadingCurrent
    <2>8. ConfirmedIsFinal'
      BY <1>3, <2>4, <2>5 DEF CInv, ConfirmedIsFinal, Has, Exists
    <2>9. FailedHasCause'
      BY <1>3, <2>2 DEF CInv, FailedHasCause, Has, Exists
    <2> QED
      BY <1>2, <2>3, <2>6, <2>7, <2>8, <2>9 DEF CInv
  <1>6. ASSUME Grow
        PROVE  CInv'
    <2>1. /\ at' = at /\ past' = past
          /\ \A h \in Hashes : receipt'[h] = Deeper(receipt[h])
          /\ \A p \in Pollers : reading'[p] = Deeper(reading[p])
          /\ receipt' \in [Hashes -> Receipt \cup {NoReceipt}]
          /\ reading' \in [Pollers -> Receipt \cup {NoReceipt}]
      BY <1>0, <1>6, DeeperReceipt DEF Grow
    <2>2. /\ \A h \in Hashes : receipt'[h] = NoReceipt <=> receipt[h] = NoReceipt
          /\ \A p \in Pollers : reading'[p] = NoReceipt <=> reading[p] = NoReceipt
          /\ \A h \in Hashes : at[h] = "block" =>
                /\ receipt'[h].ok = receipt[h].ok
                /\ receipt[h].depth = Required => receipt'[h].depth = Required
      BY <1>0, <2>1, DeeperReceipt
    <2>3. ChainTypeOK'
      BY <1>0, <1>2, <2>1, <2>2 DEF ChainTypeOK, IInv, KInv
    <2>4. RevertRemembered' /\ ConfirmedIsFinal' /\ FailedHasCause'
      BY <1>3, <2>1, <2>2
      DEF CInv, RevertRemembered, ConfirmedIsFinal, FailedHasCause, Has, Exists
    <2>5. ReadingCurrent'
      BY <1>3, <2>1, <2>2 DEF CInv, ReadingCurrent
    <2> QED
      BY <1>2, <2>3, <2>4, <2>5 DEF CInv
  <1>7. ASSUME NEW h \in Hashes, Reorganise(h)
        PROVE  CInv'
    <2>1. /\ at[h] = "block" /\ receipt[h].depth < Required
          /\ at' = [at EXCEPT ![h] = "pool"]
          /\ receipt' = [receipt EXCEPT ![h] = NoReceipt]
          /\ past' \in [Hashes -> SUBSET Events]
          /\ \A g \in Hashes : past[g] \subseteq past'[g] /\ past'[g] \subseteq past[g] \cup {"torn"}
          /\ \A p \in Pollers : poller[p].hash = h /\ reading[p] # NoReceipt => "torn" \in past'[h]
          /\ reading' = reading
      BY <1>0, <1>7 DEF Reorganise, Remember, Events
    <2>2. ChainTypeOK'
      BY <1>0, <1>2, <2>1 DEF ChainTypeOK, IInv, KInv, Places
    <2>3. \A g \in Hashes \ {h} : at'[g] = at[g] /\ receipt'[g] = receipt[g]
      BY <1>0, <2>1
    <2>4. RevertRemembered'
      BY <1>0, <2>1, <2>3 DEF CInv, RevertRemembered
    <2>5. ReadingCurrent'
      <3> SUFFICES ASSUME NEW p \in Pollers, reading[p] # NoReceipt
                   PROVE  /\ poller[p].hash \in Hashes
                          /\ "torn" \notin past'[poller[p].hash] =>
                                /\ at'[poller[p].hash] = "block"
                                /\ receipt'[poller[p].hash] = reading[p]
                                /\ receipt'[poller[p].hash].ok
        BY <1>3, <2>1 DEF ReadingCurrent
      <3> QED
        BY <2>1, <2>3 DEF CInv, ReadingCurrent
    <2>6. ConfirmedIsFinal'
      <3>1. Required \in Nat
        BY ConstantsAssumption
      <3> QED
        BY <1>3, <2>1, <2>3, <3>1 DEF CInv, ConfirmedIsFinal, Has, Exists
    <2>7. FailedHasCause'
      BY <1>3, <2>1 DEF CInv, FailedHasCause, Has, Exists
    <2> QED
      BY <1>2, <2>2, <2>4, <2>5, <2>6, <2>7 DEF CInv
  <1> QED
    BY <1>4, <1>5, <1>6, <1>7 DEF ChainStep

-----------------------------------------------------------------------------
(* The adapter's steps *)

\* An answered poll keeps the invariant, if what it answers is so: an answer of
\* finality is the receipt it holds, and a failure has left its cause.
LEMMA AnswerKeepsCInv ==
    ASSUME CInv, NEW p \in Pollers, NEW o \in Evidence, Answer(p, o),
           UNCHANGED chain,
           past' \in [Hashes -> SUBSET Events],
           \A h \in Hashes : past[h] \subseteq past'[h],
           \A h \in Hashes : "torn" \in past'[h] <=> "torn" \in past[h],
           o.st = "included" /\ o.conf >= Required =>
               reading[p] # NoReceipt /\ reading[p].depth = Required,
           o.st = "failed" /\ poller[p].hash \in Hashes =>
               past'[poller[p].hash] \cap {"reverted", "refused", "misread", "errored"} # {}
    PROVE  CInv'
  <1>1. /\ IInv'
        /\ poller' = [poller EXCEPT ![p] = IdlePoller]
        /\ reading' = [reading EXCEPT ![p] = NoReceipt]
        /\ \A h \in Hashes :
              /\ Has(h, "confirmed")' =>
                    \/ Has(h, "confirmed")
                    \/ h = poller[p].hash /\ o.st = "included" /\ o.conf >= Required
              /\ Has(h, "failed")' =>
                    \/ Has(h, "failed")
                    \/ h = poller[p].hash /\ o.st = "failed"
    BY AnswerStep DEF CInv
  <1>2. at' = at /\ receipt' = receipt
    BY DEF chain
  <1>3. ChainTypeOK'
    BY <1>1, <1>2 DEF CInv, ChainTypeOK, IInv, KInv
  <1>4. RevertRemembered'
    BY <1>2 DEF CInv, RevertRemembered
  <1>5. ReadingCurrent'
    <2>1. \A q \in Pollers : reading'[q] # NoReceipt => reading'[q] = reading[q] /\ poller'[q] = poller[q]
      BY <1>1 DEF CInv, ChainTypeOK, IInv, KInv, TypeOK
    <2> QED
      BY <1>2, <2>1 DEF CInv, ReadingCurrent
  <1>6. ConfirmedIsFinal'
    <2> SUFFICES ASSUME NEW h \in Hashes, Has(h, "confirmed")', "torn" \notin past[h]
                 PROVE  at[h] = "block" /\ receipt[h].ok /\ receipt[h].depth = Required
      BY <1>2 DEF ConfirmedIsFinal
    <2>1. CASE Has(h, "confirmed")
      BY <2>1 DEF CInv, ConfirmedIsFinal
    <2>2. CASE h = poller[p].hash /\ o.st = "included" /\ o.conf >= Required
      BY <2>2 DEF CInv, ReadingCurrent
    <2> QED
      BY <1>1, <2>1, <2>2
  <1>7. FailedHasCause'
    <2> SUFFICES ASSUME NEW h \in Hashes, Has(h, "failed")'
                 PROVE  past'[h] \cap {"reverted", "refused", "misread", "errored"} # {}
      BY DEF FailedHasCause
    <2>1. CASE Has(h, "failed")
      BY <2>1 DEF CInv, FailedHasCause
    <2>2. CASE h = poller[p].hash /\ o.st = "failed"
      BY <2>2
    <2> QED
      BY <1>1, <2>1, <2>2
  <1> QED
    BY <1>1, <1>3, <1>4, <1>5, <1>6, <1>7 DEF CInv

\* What is remembered is added to what was.
LEMMA RememberAdds ==
    ASSUME past \in [Hashes -> SUBSET Events], NEW i, NEW e \in Events \ {"torn"}, Remember(i, e)
    PROVE  /\ past' \in [Hashes -> SUBSET Events]
           /\ \A h \in Hashes : past[h] \subseteq past'[h]
           /\ \A h \in Hashes : "torn" \in past'[h] <=> "torn" \in past[h]
           /\ i \in Hashes => e \in past'[i]
  BY DEF Remember

\* Every piece of the adapter's poll.
LEMMA AdapterKeepsCInv ==
    ASSUME CInv, NEW p \in Pollers, AdapterStep(p)
    PROVE  CInv'
  <1>0. /\ receipt \in [Hashes -> Receipt \cup {NoReceipt}]
        /\ reading \in [Pollers -> Receipt \cup {NoReceipt}]
        /\ past \in [Hashes -> SUBSET Events]
        /\ \A h \in Hashes : receipt[h] # NoReceipt <=> at[h] = "block"
    BY DEF CInv, ChainTypeOK
  <1>1. /\ Obs("not_found", NoBlock, 0) \in Evidence
        /\ Obs("pending", NoBlock, 0) \in Evidence
        /\ Obs("failed", NoBlock, 0) \in Evidence
        /\ \A r \in Receipt : /\ Obs("failed", r.block, 0) \in Evidence
                              /\ Obs("included", r.block, r.depth) \in Evidence
                              /\ Obs("included", r.block, 1) \in Evidence
    BY ChainAssumption, ConstantsAssumption DEF Obs, Receipt, Depths
  <1>2. ASSUME FindNothing(p)
        PROVE  CInv'
    <2> DEFINE o == Obs("not_found", NoBlock, 0)
    <2>1. o \in Evidence /\ o.st = "not_found" /\ Answer(p, o) /\ UNCHANGED <<chain, past>>
      BY <1>1, <1>2 DEF FindNothing, Obs
    <2> HIDE DEF o
    <2> QED
      BY <1>0, <2>1, AnswerKeepsCInv
  <1>3. ASSUME FindPending(p) \/ ErrorTransient(p)
        PROVE  CInv'
    <2> DEFINE o == Obs("pending", NoBlock, 0)
    <2>1. o \in Evidence /\ o.st = "pending" /\ Answer(p, o) /\ UNCHANGED <<chain, past>>
      BY <1>1, <1>3 DEF FindPending, ErrorTransient, Obs
    <2> HIDE DEF o
    <2> QED
      BY <1>0, <2>1, AnswerKeepsCInv
  <1>4. ASSUME FindReverted(p)
        PROVE  CInv'
    <2> DEFINE h == poller[p].hash
               o == Obs("failed", receipt[h].block, 0)
    <2>1. /\ h \in Hashes /\ at[h] = "block" /\ ~receipt[h].ok /\ Answer(p, o)
          /\ UNCHANGED <<chain, past>>
      BY <1>4 DEF FindReverted, In
    <2>2. o \in Evidence /\ o.st = "failed"
      BY <1>0, <1>1, <2>1 DEF Obs
    <2>3. "reverted" \in past[h]
      BY <2>1 DEF CInv, RevertRemembered
    <2> HIDE DEF o
    <2> QED
      BY <1>0, <2>1, <2>2, <2>3, AnswerKeepsCInv
  <1>5. ASSUME FindNoSender(p)
        PROVE  CInv'
    <2> DEFINE h == poller[p].hash
               o == Obs("failed", receipt[h].block, 0)
    <2>1. h \in Hashes /\ at[h] = "block" /\ Answer(p, o) /\ Remember(h, "misread") /\ UNCHANGED chain
      BY <1>5 DEF FindNoSender, In
    <2>2. o \in Evidence /\ o.st = "failed"
      BY <1>0, <1>1, <2>1 DEF Obs
    <2>3. /\ past' \in [Hashes -> SUBSET Events]
          /\ \A g \in Hashes : past[g] \subseteq past'[g]
          /\ \A g \in Hashes : "torn" \in past'[g] <=> "torn" \in past[g]
          /\ "misread" \in past'[h]
      BY <1>0, <2>1, RememberAdds DEF Events
    <2> HIDE DEF o
    <2> QED
      BY <2>1, <2>2, <2>3, AnswerKeepsCInv
  <1>6. ASSUME FindReceipt(p)
        PROVE  CInv'
    <2> DEFINE h == poller[p].hash
    <2>1. /\ h \in Hashes /\ at[h] = "block" /\ receipt[h].ok
          /\ reading' = [reading EXCEPT ![p] = receipt[h]]
          /\ UNCHANGED <<vars, at, receipt, past>>
      BY <1>6 DEF FindReceipt, In, chain
    <2>2. IInv'
      BY <2>1, NextIInv DEF CInv
    <2>3. UNCHANGED <<rec, poller>>
      BY <2>1 DEF vars
    <2>4. ChainTypeOK'
      BY <1>0, <2>1, <2>2 DEF CInv, ChainTypeOK, IInv, KInv
    <2>5. ReadingCurrent'
      <3>1. reading'[p] = receipt[h] /\ \A q \in Pollers \ {p} : reading'[q] = reading[q]
        BY <1>0, <2>1
      <3> QED
        BY <2>1, <2>3, <3>1 DEF CInv, ReadingCurrent
    <2>6. RevertRemembered' /\ ConfirmedIsFinal' /\ FailedHasCause'
      BY <2>1, <2>3
      DEF CInv, RevertRemembered, ConfirmedIsFinal, FailedHasCause, Has, Exists
    <2> QED
      BY <2>2, <2>4, <2>5, <2>6 DEF CInv
  <1>7. ASSUME ErrorUnknown(p)
        PROVE  CInv'
    <2> DEFINE h == poller[p].hash
               o == Obs("failed", NoBlock, 0)
    <2>1. /\ o \in Evidence /\ o.st = "failed" /\ Answer(p, o)
          /\ Remember(h, "errored") /\ UNCHANGED chain
      BY <1>1, <1>7 DEF ErrorUnknown, Obs
    <2>2. /\ past' \in [Hashes -> SUBSET Events]
          /\ \A g \in Hashes : past[g] \subseteq past'[g]
          /\ \A g \in Hashes : "torn" \in past'[g] <=> "torn" \in past[g]
          /\ h \in Hashes => "errored" \in past'[h]
      BY <1>0, <2>1, RememberAdds DEF Events
    <2> HIDE DEF o
    <2> QED
      BY <2>1, <2>2, AnswerKeepsCInv
  <1>8. ASSUME ReadHead(p)
        PROVE  CInv'
    <2> DEFINE o == Obs("included", reading[p].block, reading[p].depth)
    <2>1. /\ reading[p] # NoReceipt /\ Answer(p, o) /\ UNCHANGED <<chain, past>>
      BY <1>8 DEF ReadHead
    <2>2. reading[p] \in Receipt
      BY <1>0, <2>1
    <2>3. o \in Evidence /\ o.st = "included" /\ o.conf = reading[p].depth
      BY <1>1, <2>2 DEF Obs
    <2>4. o.conf >= Required => reading[p].depth = Required
      BY <2>2, <2>3, ConstantsAssumption DEF Receipt, Depths
    <2> HIDE DEF o
    <2> QED
      BY <1>0, <2>1, <2>3, <2>4, AnswerKeepsCInv
  <1>9. ASSUME ReadNoHead(p)
        PROVE  CInv'
    <2> DEFINE o == Obs("included", reading[p].block, 1)
    <2>1. /\ reading[p] # NoReceipt /\ Answer(p, o) /\ UNCHANGED <<chain, past>>
      BY <1>9 DEF ReadNoHead
    <2>2. reading[p] \in Receipt
      BY <1>0, <2>1
    <2>3. o \in Evidence /\ o.st = "included" /\ o.conf = 1
      BY <1>1, <2>2 DEF Obs
    <2>4. ~(o.conf >= Required)
      BY <2>3, ConstantsAssumption, ChainAssumption
    <2> HIDE DEF o
    <2> QED
      BY <1>0, <2>1, <2>3, <2>4, AnswerKeepsCInv
  <1> QED
    BY <1>2, <1>3, <1>4, <1>5, <1>6, <1>7, <1>8, <1>9 DEF AdapterStep

\* The end of a submission: a refusal is remembered as it fails the record.
LEMMA SubmitKeepsCInv ==
    ASSUME CInv, NEW s \in Submitters, Accepted(s) \/ Refused(s)
    PROVE  CInv'
  <1> DEFINE h == submitter[s].hash
  <1>1. PICK st \in {"submitted", "failed"} :
           /\ SubmitEnd(s, st)
           /\ UNCHANGED <<at, receipt, reading>>
           /\ past' \in [Hashes -> SUBSET Events]
           /\ \A g \in Hashes : past[g] \subseteq past'[g]
           /\ \A g \in Hashes : "torn" \in past'[g] <=> "torn" \in past[g]
           /\ st = "failed" /\ h \in Hashes => "refused" \in past'[h]
    <2>0. past \in [Hashes -> SUBSET Events]
      BY DEF CInv, ChainTypeOK
    <2>1. CASE Accepted(s)
      BY <2>0, <2>1, RememberAdds DEF Accepted, chain, Events
    <2>2. CASE Refused(s)
      BY <2>0, <2>2, RememberAdds DEF Refused, chain, Events
    <2> QED
      BY <2>1, <2>2
  <1>2. IInv'
    BY <1>1, NextIInv DEF CInv, Next
  <1>3. h \in Hashes /\ rec \in [Ids -> Record \cup {NoRecord}] /\ Exists(h)
    BY <1>1 DEF SubmitEnd, CInv, IInv, KInv, SubmitterOK, TypeOK
  <1>4. /\ poller' = poller
        /\ rec'[h].status = st
        /\ \A g \in Hashes \ {h} : rec'[g] = rec[g]
    BY <1>1, <1>3 DEF SubmitEnd, SetStatus, Ids, Record, Exists
  <1>5. ChainTypeOK'
    BY <1>1, <1>2 DEF CInv, ChainTypeOK, IInv, KInv
  <1>6. RevertRemembered' /\ ReadingCurrent'
    BY <1>1, <1>4 DEF CInv, RevertRemembered, ReadingCurrent
  <1>7. ConfirmedIsFinal' /\ FailedHasCause'
    BY <1>1, <1>3, <1>4 DEF CInv, ConfirmedIsFinal, FailedHasCause, Has, Exists
  <1> QED
    BY <1>2, <1>5, <1>6, <1>7 DEF CInv

-----------------------------------------------------------------------------
(* The theorems *)

LEMMA ChainInitCInv == ChainInit => CInv
  <1> SUFFICES ASSUME ChainInit PROVE CInv
    OBVIOUS
  <1>1. IInv
    BY InitIInv DEF ChainInit
  <1>2. ChainTypeOK
    BY <1>1 DEF ChainInit, ChainTypeOK, IInv, KInv, Places
  <1> QED
    BY <1>1, <1>2
    DEF CInv, ChainInit, Init, RevertRemembered, ReadingCurrent, ConfirmedIsFinal, FailedHasCause,
        Has, Exists, Ids

LEMMA ChainNextCInv == CInv /\ [ChainNext]_chainVars => CInv'
  <1> SUFFICES ASSUME CInv, [ChainNext]_chainVars PROVE CInv'
    OBVIOUS
  <1>1. CASE ChainNext
    BY <1>1, StoreKeepsCInv, ChainKeepsCInv, AdapterKeepsCInv, SubmitKeepsCInv DEF ChainNext
  <1>2. CASE UNCHANGED chainVars
    <2>1. vars' = vars /\ UNCHANGED <<rec, poller, at, receipt, reading, past>>
      BY <1>2 DEF chainVars, vars
    <2>2. IInv'
      BY <2>1, NextIInv DEF CInv
    <2> QED
      BY <2>1, <2>2
      DEF CInv, IInv, KInv, ChainTypeOK, RevertRemembered, ReadingCurrent, ConfirmedIsFinal,
          FailedHasCause, Has, Exists
  <1> QED
    BY <1>1, <1>2

\* The strengthened invariant is an invariant of the lifecycle over the chain.
THEOREM ChainInductive == ChainSpec => []CInv
  BY ChainInitCInv, ChainNextCInv, PTL DEF ChainSpec

\* Type correctness of the chain and of what the polls hold of it.
THEOREM ChainTypeCorrect == ChainSpec => []ChainTypeOK
  <1>1. CInv => ChainTypeOK
    BY DEF CInv
  <1> QED
    BY <1>1, ChainInductive, PTL

\* A confirmed record's transaction is final on the chain, unless a block was
\* replaced between the two reads of one poll.
THEOREM Final == ChainSpec => []ConfirmedIsFinal
  <1>1. CInv => ConfirmedIsFinal
    BY DEF CInv
  <1> QED
    BY <1>1, ChainInductive, PTL

\* No record fails without a revert, a refusal, a lone receipt or an unknown error.
THEOREM Cause == ChainSpec => []FailedHasCause
  <1>1. CInv => FailedHasCause
    BY DEF CInv
  <1> QED
    BY <1>1, ChainInductive, PTL

\* What holds of any adapter's answers holds of the EVM adapter's: a confirmed
\* record has its evidence, and no transaction is handed to a node twice.
THEOREM LifecycleKept ==
    ChainSpec => [](ConfirmedOnEvidence /\ BroadcastOnce /\ DroppedNeedsThreeAbsences)
  <1>1. CInv => ConfirmedOnEvidence /\ BroadcastOnce /\ DroppedNeedsThreeAbsences
    BY DEF CInv, IInv, KInv
  <1> QED
    BY <1>1, ChainInductive, PTL

=============================================================================
