---------------------- MODULE TransactionLifecycleProofs ----------------------
(***************************************************************************)
(* Proofs that the invariants of TransactionLifecycle hold for any keys,   *)
(* hashes, blocks, concurrent handlers, adapter answers, finality depth    *)
(* and poll bound.                                                         *)
(***************************************************************************)
EXTENDS TransactionLifecycle, TLAPS

\* What a key finds is a record, its own placeholder or a broadcast hash; a key
\* that finds nothing has no placeholder.
NewestExists ==
    \A k \in Keys : IF newest[k] = NoId THEN ~Exists(k)
                   ELSE newest[k] \in {k} \cup Hashes /\ Exists(newest[k])

\* A submission knows its hash, holds no placeholder but its own key's, and
\* while it awaits the broadcast its record is in the store.
SubmitterOK ==
    \A s \in Submitters :
        /\ submitter[s].pc # "idle" => submitter[s].hash \in Hashes
        /\ submitter[s].held \in {NoId, submitter[s].key}
        /\ submitter[s].pc = "broadcast" => Exists(submitter[s].hash)

\* A poll in flight holds a copy of a record that was live and had attempts left.
ViewLive ==
    \A p \in Pollers : poller[p].hash # NoId =>
        /\ poller[p].view \in Record
        /\ ~Terminal(poller[p].view.status)
        /\ poller[p].view.polls < MaxPollAttempts

\* A hash that was broadcast has a record, so no later submission gets by it.
BroadcastRecorded == \A h \in Hashes : broadcasts[h] # 0 => Exists(h)

\* No absence is counted, in a record or in a stale copy, that was not answered.
MissingAnswered ==
    /\ \A i \in Ids : Exists(i) => rec[i].missing <= absences[i]
    /\ \A p \in Pollers : poller[p].hash # NoId =>
          poller[p].view.missing <= absences[poller[p].hash]

\* What a server that restarts with an empty store keeps as well.
KInv ==
    /\ TypeOK
    /\ NewestExists
    /\ SubmitterOK
    /\ ViewLive
    /\ MissingAnswered
    /\ ConfirmedOnEvidence
    /\ DroppedNeedsThreeAbsences

IInv ==
    /\ KInv
    /\ BroadcastRecorded
    /\ BroadcastOnce

-----------------------------------------------------------------------------
(* What reconcileObservation returns *)

\* A decision is one of the statuses, before and after the transition table.
LEMMA DecidedIsStatus ==
    ASSUME NEW r \in Record, NEW o \in Evidence
    PROVE  /\ DecidedStatus(r, o) \in Statuses
           /\ Checked(r.status, DecidedStatus(r, o)) \in Statuses
  BY ConstantsAssumption
  DEF DecidedStatus, AbsenceStatus, InclusionStatus, Checked, Record, Statuses,
      Observation, ObservationStatuses

\* Only an inclusion deep enough confirms a record that was not confirmed.
LEMMA DecidedConfirmed ==
    ASSUME NEW r \in Record, NEW o \in Evidence, ~Terminal(r.status),
           DecidedStatus(r, o) = "confirmed"
    PROVE  o.st = "included" /\ o.conf >= Required
  BY ConstantsAssumption
  DEF DecidedStatus, AbsenceStatus, InclusionStatus, Terminal, Record, Statuses,
      Observation, ObservationStatuses

\* Only a third absence drops a record that was not dropped.
LEMMA DecidedDropped ==
    ASSUME NEW r \in Record, NEW o \in Evidence, ~Terminal(r.status),
           DecidedStatus(r, o) = "dropped"
    PROVE  o.st = "not_found" /\ r.missing + 1 >= AbsencesToDrop
  BY ConstantsAssumption
  DEF DecidedStatus, AbsenceStatus, InclusionStatus, Terminal, Record, Statuses,
      Observation, ObservationStatuses

\* The merged record: its type, its status, and a bound on its absences.
LEMMA ReconciledRecord ==
    ASSUME NEW r \in Record, NEW cur \in Record, NEW o \in Evidence, NEW st \in Statuses,
           r.polls < MaxPollAttempts
    PROVE  /\ Reconciled(r, cur, o, st) \in Record
           /\ Reconciled(r, cur, o, st).status = st
           /\ \/ Reconciled(r, cur, o, st).missing <= cur.missing
              \/ /\ o.st = "not_found"
                 /\ Reconciled(r, cur, o, st).missing <= r.missing + 1
  <1>1. o \in Observation
    BY ConstantsAssumption
  <1>2. /\ DecidedMissing(r, cur, o) \in 0 .. AbsencesToDrop
        /\ \/ DecidedMissing(r, cur, o) <= cur.missing
           \/ o.st = "not_found" /\ DecidedMissing(r, cur, o) <= r.missing + 1
    BY <1>1 DEF DecidedMissing, AtMost, AbsencesToDrop, Record, Observation, ObservationStatuses
  <1>3. DecidedBlock(cur, o) \in Blocks \cup {NoBlock}
    BY <1>1 DEF DecidedBlock, Record, Observation
  <1>4. r.polls + 1 \in 0 .. MaxPollAttempts
    BY ConstantsAssumption DEF Record
  <1> QED
    BY <1>2, <1>3, <1>4 DEF Reconciled, Record

\* A new record has its type and counts nothing.
LEMMA NewRecordType ==
    ASSUME NEW st \in Statuses, NEW k \in Keys \cup {NoKey}
    PROVE  /\ NewRecord(st, k) \in Record
           /\ NewRecord(st, k).status = st
           /\ NewRecord(st, k).missing = 0
           /\ NewRecord(st, k).polls = 0
  BY ConstantsAssumption DEF NewRecord, Record, AbsencesToDrop

-----------------------------------------------------------------------------
(* The inductive invariant *)

\* A change of nothing but a status, to one that needs no evidence, keeps the
\* invariant: what rejections, expiries and finished submissions do.
LEMMA SetStatusKeepsKInv ==
    ASSUME KInv, NEW i \in Ids, Exists(i),
           NEW st \in Statuses \ {"confirmed", "dropped"}, SetStatus(i, st),
           UNCHANGED <<newest, observed, poller, broadcasts, absences>>
    PROVE  /\ rec' \in [Ids -> Record \cup {NoRecord}]
           /\ NewestExists' /\ ViewLive' /\ MissingAnswered'
           /\ ConfirmedOnEvidence' /\ DroppedNeedsThreeAbsences'
           /\ \A j \in Ids : Exists(j) => Exists(j)'
  <1>1. rec \in [Ids -> Record \cup {NoRecord}] /\ rec[i] \in Record
    BY DEF KInv, TypeOK, Exists
  <1>2. /\ rec'[i] = [rec[i] EXCEPT !.status = st]
        /\ \A j \in Ids \ {i} : rec'[j] = rec[j]
    BY <1>1 DEF SetStatus
  <1>3. rec'[i] \in Record /\ rec'[i].status = st /\ rec'[i].missing = rec[i].missing
    BY <1>1, <1>2 DEF Record
  <1>4. rec' \in [Ids -> Record \cup {NoRecord}]
    BY <1>1, <1>3 DEF SetStatus
  <1>5. \A j \in Ids : Exists(j)' <=> Exists(j)
    BY <1>1, <1>2, <1>3, ConstantsAssumption DEF Exists
  <1>6. NewestExists'
    BY <1>5 DEF KInv, NewestExists, TypeOK, Ids
  <1>7. ViewLive'
    BY DEF KInv, ViewLive
  <1>8. MissingAnswered'
    BY <1>2, <1>3, <1>5 DEF KInv, MissingAnswered
  <1>9. ConfirmedOnEvidence' /\ DroppedNeedsThreeAbsences'
    BY <1>2, <1>3, <1>5 DEF KInv, ConfirmedOnEvidence, DroppedNeedsThreeAbsences
  <1> QED
    BY <1>4, <1>5, <1>6, <1>7, <1>8, <1>9

\* An answer counts one absence if it is one, and only about its own hash.
LEMMA AnsweredAbsence ==
    ASSUME NEW i \in Ids, NEW o \in Evidence, Answered(i, o),
           absences \in [Ids -> 0 .. AbsencesToDrop]
    PROVE  /\ absences' \in [Ids -> 0 .. AbsencesToDrop]
           /\ \A j \in Ids \ {i} : absences'[j] = absences[j]
           /\ absences[i] <= absences'[i]
           /\ absences'[i] = IF o.st = "not_found"
                             THEN AtMost(absences[i] + 1, AbsencesToDrop)
                             ELSE absences[i]
  BY DEF Answered, AtMost, AbsencesToDrop

\* The merge of an answered poll keeps the invariant, if its new status is
\* justified by the answer.
LEMMA UpdateKeepsKInv ==
    ASSUME KInv, NEW p \in Pollers, NEW o \in Evidence, NEW st \in Statuses,
           poller[p].hash # NoId,
           st = "confirmed" => o.st = "included" /\ o.conf >= Required,
           st = "dropped" => o.st = "not_found" /\ poller[p].view.missing + 1 >= AbsencesToDrop,
           Update(poller[p].hash, Reconciled(poller[p].view, rec[poller[p].hash], o, st)),
           o \in observed'[poller[p].hash],
           \A i \in Ids : observed[i] \subseteq observed'[i],
           observed' \in [Ids -> SUBSET Evidence],
           Answered(poller[p].hash, o),
           poller' = [poller EXCEPT ![p] = IdlePoller],
           UNCHANGED <<newest, submitter, broadcasts>>
    PROVE  KInv' /\ \A j \in Ids : Exists(j)' <=> Exists(j)
  <1> DEFINE i == poller[p].hash
             view == poller[p].view
             new == Reconciled(view, rec[i], o, st)
  <1>1. i \in Ids /\ view \in Record /\ view.polls < MaxPollAttempts
    BY DEF KInv, TypeOK, ViewLive
  <1>2. rec \in [Ids -> Record \cup {NoRecord}]
    BY DEF KInv, TypeOK
  <1>3. /\ absences' \in [Ids -> 0 .. AbsencesToDrop]
        /\ \A j \in Ids \ {i} : absences'[j] = absences[j]
        /\ absences[i] <= absences'[i]
        /\ o.st = "not_found" => absences'[i] = AtMost(absences[i] + 1, AbsencesToDrop)
    BY <1>1, AnsweredAbsence DEF KInv, TypeOK
  <1>4. \A j \in Ids \ {i} : rec'[j] = rec[j]
    BY <1>1, <1>2 DEF Update
  <1>5. /\ ~Exists(i) => rec'[i] = NoRecord
        /\ Exists(i) => /\ rec'[i] \in Record
                        /\ rec'[i].status = st
                        /\ rec'[i].missing <= absences'[i]
    <2>1. ~Exists(i) => rec'[i] = NoRecord
      BY DEF Update, Exists
    <2>2. ASSUME Exists(i)
          PROVE  rec'[i] \in Record /\ rec'[i].status = st /\ rec'[i].missing <= absences'[i]
      <3>1. rec[i] \in Record /\ rec'[i] = new
        BY <1>1, <1>2, <2>2 DEF Update, Exists
      <3>2. /\ new \in Record
            /\ new.status = st
            /\ \/ new.missing <= rec[i].missing
               \/ o.st = "not_found" /\ new.missing <= view.missing + 1
        BY <1>1, <3>1, ReconciledRecord
      <3>3. rec[i].missing <= absences[i] /\ view.missing <= absences[i]
        BY <1>1, <2>2 DEF KInv, MissingAnswered
      <3>4. /\ new.missing \in 0 .. 3 /\ rec[i].missing \in 0 .. 3 /\ view.missing \in 0 .. 3
            /\ absences[i] \in 0 .. 3 /\ absences'[i] \in 0 .. 3
        BY <1>1, <1>3, <3>1, <3>2 DEF Record, AbsencesToDrop, KInv, TypeOK
      <3>5. new.missing <= absences'[i]
        BY <1>3, <3>2, <3>3, <3>4 DEF AtMost, AbsencesToDrop
      <3> QED
        BY <3>1, <3>2, <3>5
    <2> QED
      BY <2>1, <2>2
  <1>6. rec' \in [Ids -> Record \cup {NoRecord}]
    BY <1>1, <1>2, <1>4, <1>5 DEF Update
  <1>7. \A j \in Ids : Exists(j)' <=> Exists(j)
    BY <1>1, <1>4, <1>5, ConstantsAssumption DEF Exists
  <1>8. /\ poller' \in [Pollers -> [hash : Ids \cup {NoId}, view : Record \cup {NoRecord}]]
        /\ \A q \in Pollers : poller'[q].hash # NoId => poller'[q] = poller[q]
    BY DEF KInv, TypeOK, IdlePoller
  <1>9. TypeOK'
    BY <1>3, <1>6, <1>8 DEF KInv, TypeOK
  <1>10. NewestExists' /\ SubmitterOK'
    BY <1>7 DEF KInv, NewestExists, SubmitterOK, TypeOK, Ids
  <1>11. ViewLive'
    BY <1>8 DEF KInv, ViewLive
  <1>12. MissingAnswered'
    <2>1. \A j \in Ids : Exists(j)' => rec'[j].missing <= absences'[j]
      BY <1>3, <1>4, <1>5, <1>7 DEF KInv, MissingAnswered
    <2>2. ASSUME NEW q \in Pollers, poller'[q].hash # NoId
          PROVE  poller'[q].view.missing <= absences'[poller'[q].hash]
      <3>1. /\ poller'[q] = poller[q]
            /\ poller[q].hash \in Ids
            /\ poller[q].view \in Record
            /\ poller[q].view.missing <= absences[poller[q].hash]
        BY <1>8, <2>2 DEF KInv, TypeOK, MissingAnswered, ViewLive
      <3>2. /\ poller[q].view.missing \in 0 .. 3
            /\ \A j \in Ids : absences[j] \in 0 .. 3 /\ absences'[j] \in 0 .. 3
        BY <1>3, <3>1 DEF Record, AbsencesToDrop, KInv, TypeOK
      <3> QED
        BY <1>1, <1>3, <3>1, <3>2
    <2> QED
      BY <2>1, <2>2 DEF MissingAnswered
  <1>13. ConfirmedOnEvidence'
    BY <1>1, <1>4, <1>5, <1>7 DEF KInv, ConfirmedOnEvidence
  <1>14. DroppedNeedsThreeAbsences'
    <2>1. ASSUME Exists(i), st = "dropped"
          PROVE  absences'[i] = AbsencesToDrop
      <3>1. /\ view.missing + 1 >= 3
            /\ view.missing <= absences[i]
            /\ absences'[i] = AtMost(absences[i] + 1, 3)
        BY <1>3, <2>1 DEF KInv, MissingAnswered, AbsencesToDrop
      <3>2. view.missing \in 0 .. 3 /\ absences[i] \in 0 .. 3
        BY <1>1 DEF Record, AbsencesToDrop, KInv, TypeOK
      <3> QED
        BY <3>1, <3>2 DEF AtMost, AbsencesToDrop
    <2> QED
      BY <1>1, <1>3, <1>4, <1>5, <1>7, <2>1 DEF KInv, DroppedNeedsThreeAbsences
  <1> QED
    BY <1>7, <1>9, <1>10, <1>11, <1>12, <1>13, <1>14 DEF KInv

-----------------------------------------------------------------------------
(* The theorems *)

\* The invariant holds of the empty store.
LEMMA InitKInv == Init => KInv
  <1> SUFFICES ASSUME Init PROVE KInv
    OBVIOUS
  <1>1. NoId \notin Ids
    BY ConstantsAssumption
  <1>2. TypeOK
    BY ConstantsAssumption DEF Init, TypeOK, IdleSubmitter, IdlePoller, AbsencesToDrop
  <1> QED
    BY <1>1, <1>2
    DEF KInv, Init, NewestExists, SubmitterOK, ViewLive, MissingAnswered,
        ConfirmedOnEvidence, DroppedNeedsThreeAbsences, Exists, Ids,
        IdleSubmitter, IdlePoller

\* Every handler's step keeps the invariant.
LEMMA NextKInv == KInv /\ [Next]_vars => KInv'
  <1> SUFFICES ASSUME KInv, [Next]_vars PROVE KInv'
    OBVIOUS
  <1> USE DEF Ids
  <1>0. /\ rec \in [Ids -> Record \cup {NoRecord}]
        /\ NoRecord \notin Record
        /\ NoId \notin Ids /\ NoKey \notin Keys /\ Keys \cap Hashes = {}
    BY ConstantsAssumption DEF KInv, TypeOK
  <1>1. ASSUME NEW k \in Keys, Prepare(k)
        PROVE  KInv'
    <2>1. NewRecord("prepared", k) \in Record /\ NewRecord("prepared", k).missing = 0
          /\ NewRecord("prepared", k).status = "prepared"
      BY NewRecordType DEF Statuses
    <2>2. /\ rec' = [rec EXCEPT ![k] = NewRecord("prepared", k)]
          /\ newest' = [newest EXCEPT ![k] = k]
          /\ UNCHANGED <<observed, submitter, poller, broadcasts, absences>>
      BY <1>0, <1>1 DEF Prepare, Create
    <2>3. /\ rec'[k] = NewRecord("prepared", k)
          /\ \A j \in Ids \ {k} : rec'[j] = rec[j]
          /\ \A j \in Ids : Exists(j) => Exists(j)'
          /\ Exists(k)'
      BY <1>0, <2>1, <2>2 DEF Exists
    <2>4. TypeOK'
      BY <2>1, <2>2 DEF KInv, TypeOK
    <2>5. NewestExists'
      <3> SUFFICES ASSUME NEW x \in Keys
                   PROVE  IF newest'[x] = NoId THEN rec'[x] = NoRecord
                          ELSE newest'[x] \in {x} \cup Hashes /\ rec'[newest'[x]] # NoRecord
        BY DEF NewestExists, Exists
      <3>1. CASE x = k
        BY <1>0, <2>2, <2>3, <3>1 DEF KInv, TypeOK, Exists
      <3>2. CASE x # k
        BY <1>0, <2>2, <2>3, <3>2 DEF KInv, TypeOK, NewestExists, Exists
      <3> QED
        BY <3>1, <3>2
    <2>8. SubmitterOK' /\ ViewLive'
      BY <2>2, <2>3 DEF KInv, SubmitterOK, ViewLive, TypeOK
    <2>6. MissingAnswered'
      <3>1. 0 <= absences[k]
        BY DEF KInv, TypeOK
      <3> QED
        BY <2>1, <2>2, <2>3, <3>1 DEF KInv, MissingAnswered, Exists
    <2>7. ConfirmedOnEvidence' /\ DroppedNeedsThreeAbsences'
      BY <2>1, <2>2, <2>3 DEF KInv, ConfirmedOnEvidence, DroppedNeedsThreeAbsences, Exists
    <2> QED
      BY <2>4, <2>5, <2>6, <2>7, <2>8 DEF KInv
  <1>2. ASSUME NEW k \in Keys, ApproveTooLate(k)
        PROVE  KInv'
    <2>1. newest[k] \in Ids /\ Exists(newest[k])
      BY <1>2 DEF ApproveTooLate, KInv, NewestExists
    <2> QED
      BY <1>2, <2>1, SetStatusKeepsKInv
      DEF ApproveTooLate, Statuses, KInv, SubmitterOK, TypeOK
  <1>3. ASSUME NEW s \in Submitters, NEW k \in Keys \cup {NoKey}, NEW h \in Hashes,
               SubmitBegin(s, k, h)
        PROVE  KInv'
    <2>1. PICK held \in Keys \cup {NoId} :
             /\ held \in {NoId, k}
             /\ submitter' = [submitter EXCEPT ![s] =
                                [pc |-> "derive", key |-> k, hash |-> h, held |-> held]]
      BY <1>0, <1>3 DEF SubmitBegin
    <2>2. TypeOK'
      BY <1>3, <2>1 DEF SubmitBegin, KInv, TypeOK
    <2>3. SubmitterOK'
      BY <1>3, <2>1 DEF SubmitBegin, KInv, SubmitterOK, TypeOK, Exists
    <2> QED
      BY <1>3, <2>2, <2>3
      DEF SubmitBegin, KInv, NewestExists, ViewLive, MissingAnswered,
          ConfirmedOnEvidence, DroppedNeedsThreeAbsences, Exists
  <1>4. ASSUME NEW s \in Submitters, SubmitKnownHash(s)
        PROVE  KInv'
    <2>1. TypeOK' /\ SubmitterOK'
      BY <1>4 DEF SubmitKnownHash, KInv, TypeOK, SubmitterOK, IdleSubmitter, Exists
    <2> QED
      BY <1>4, <2>1
      DEF SubmitKnownHash, KInv, NewestExists, ViewLive, MissingAnswered,
          ConfirmedOnEvidence, DroppedNeedsThreeAbsences, Exists
  <1>5. ASSUME NEW s \in Submitters, SubmitRecord(s)
        PROVE  KInv'
    <2>1. PICK h \in Hashes, k \in Keys \cup {NoKey}, held \in Keys \cup {NoId} :
             /\ h = submitter[s].hash /\ k = submitter[s].key /\ held = submitter[s].held
             /\ held \in {NoId, k} /\ ~Exists(h)
      BY <1>5 DEF SubmitRecord, KInv, SubmitterOK, TypeOK
    <2>2. /\ NewRecord("prepared", k) \in Record
          /\ NewRecord("prepared", k).missing = 0
          /\ NewRecord("prepared", k).status = "prepared"
      BY <2>1, NewRecordType DEF Statuses
    <2>3. /\ rec' \in [Ids -> Record \cup {NoRecord}]
          /\ rec'[h] = NewRecord("prepared", k)
          /\ \A j \in Ids \ {h} : rec'[j] = IF j = held THEN NoRecord ELSE rec[j]
      BY <1>0, <1>5, <2>1, <2>2 DEF SubmitRecord
    <2>4. /\ Exists(h)'
          /\ \A j \in Ids \ {held} : Exists(j) => Exists(j)'
          /\ \A j \in Ids \ {h} : Exists(j)' => rec'[j] = rec[j] /\ Exists(j)
      BY <1>0, <2>1, <2>2, <2>3 DEF Exists
    <2>5. \A j \in Hashes : Exists(j) => Exists(j)'
      BY <1>0, <2>1, <2>4
    <2>6. TypeOK'
      BY <1>5, <2>1, <2>3 DEF SubmitRecord, KInv, TypeOK
    <2>7. NewestExists'
      <3>1. newest' = IF k = NoKey THEN newest ELSE [newest EXCEPT ![k] = h]
        BY <1>5, <2>1 DEF SubmitRecord
      <3> SUFFICES ASSUME NEW x \in Keys
                   PROVE  IF newest'[x] = NoId THEN rec'[x] = NoRecord
                          ELSE newest'[x] \in {x} \cup Hashes /\ rec'[newest'[x]] # NoRecord
        BY DEF NewestExists, Exists
      <3>2. CASE x = k
        BY <1>0, <2>1, <2>4, <3>1, <3>2 DEF KInv, TypeOK, Exists
      <3>3. CASE x # k
        <4>1. newest'[x] = newest[x]
          BY <3>1, <3>3 DEF KInv, TypeOK
        <4>2. IF newest[x] = NoId THEN ~Exists(x)
              ELSE newest[x] \in {x} \cup Hashes /\ Exists(newest[x])
          BY DEF KInv, NewestExists
        <4>3. x # held /\ x # h
          BY <1>0, <2>1, <3>3
        <4> QED
          BY <1>0, <2>1, <2>4, <3>3, <4>1, <4>2, <4>3 DEF Exists
      <3> QED
        BY <3>2, <3>3
    <2>8. SubmitterOK'
      BY <1>5, <2>1, <2>4, <2>5 DEF SubmitRecord, KInv, SubmitterOK, TypeOK, Exists
    <2>9. ViewLive'
      BY <1>5 DEF SubmitRecord, KInv, ViewLive
    <2>10. MissingAnswered'
      <3>1. 0 <= absences[h]
        BY <2>1 DEF KInv, TypeOK
      <3> QED
        BY <1>5, <2>1, <2>2, <2>3, <2>4, <3>1 DEF SubmitRecord, KInv, MissingAnswered
    <2>11. ConfirmedOnEvidence' /\ DroppedNeedsThreeAbsences'
      BY <1>5, <2>2, <2>3, <2>4
      DEF SubmitRecord, KInv, ConfirmedOnEvidence, DroppedNeedsThreeAbsences
    <2> QED
      BY <2>6, <2>7, <2>8, <2>9, <2>10, <2>11 DEF KInv
  <1>6. ASSUME NEW s \in Submitters, NEW st \in {"submitted", "failed"}, SubmitEnd(s, st)
        PROVE  KInv'
    <2>1. submitter[s].hash \in Ids /\ Exists(submitter[s].hash)
      BY <1>6 DEF SubmitEnd, KInv, SubmitterOK
    <2>2. /\ rec' \in [Ids -> Record \cup {NoRecord}]
          /\ NewestExists' /\ ViewLive' /\ MissingAnswered'
          /\ ConfirmedOnEvidence' /\ DroppedNeedsThreeAbsences'
          /\ \A j \in Ids : Exists(j) => Exists(j)'
      BY <1>6, <2>1, SetStatusKeepsKInv DEF SubmitEnd, Statuses
    <2>3. TypeOK' /\ SubmitterOK'
      BY <1>6, <2>2 DEF SubmitEnd, KInv, TypeOK, SubmitterOK, IdleSubmitter
    <2> QED
      BY <2>2, <2>3 DEF KInv
  <1>7. ASSUME NEW p \in Pollers, NEW i \in Ids, PollBegin(p, i)
        PROVE  KInv'
    <2>1. /\ rec[i] \in Record /\ ~Terminal(rec[i].status) /\ rec[i].polls < MaxPollAttempts
          /\ Exists(i)
          /\ poller' = [poller EXCEPT ![p] = [hash |-> i, view |-> rec[i]]]
      BY <1>0, <1>7 DEF PollBegin, Live, Found, Exists, StartPoll
    <2>2. TypeOK'
      BY <1>7, <2>1 DEF PollBegin, KInv, TypeOK
    <2>3. ViewLive' /\ MissingAnswered'
      BY <1>7, <2>1 DEF PollBegin, KInv, TypeOK, ViewLive, MissingAnswered, Exists
    <2> QED
      BY <1>7, <2>2, <2>3
      DEF PollBegin, KInv, NewestExists, SubmitterOK,
          ConfirmedOnEvidence, DroppedNeedsThreeAbsences, Exists
  <1>8. ASSUME NEW i \in Ids, PollExhausted(i) \/ Reject(i) \/ ExpireIfStale(i)
        PROVE  KInv'
    <2>1. PICK st \in {"manual_review", "user_rejected", "expired"} :
             /\ Exists(i) /\ SetStatus(i, st)
             /\ UNCHANGED <<newest, observed, submitter, poller, broadcasts, absences>>
      BY <1>8 DEF PollExhausted, Reject, ExpireIfStale, Live, Found
    <2> QED
      BY <2>1, SetStatusKeepsKInv DEF Statuses, KInv, SubmitterOK, TypeOK
  <1>9. ASSUME NEW p \in Pollers, NEW o \in Evidence, PollNewEvidence(p, o)
        PROVE  KInv'
    <2> DEFINE i == poller[p].hash
               view == poller[p].view
               st == Checked(view.status, DecidedStatus(view, o))
    <2>1. i \in Ids /\ view \in Record /\ ~Terminal(view.status)
      BY <1>9 DEF PollNewEvidence, StoreEvidence, KInv, TypeOK, ViewLive
    <2>2. st \in Statuses
      BY <2>1, DecidedIsStatus
    <2>3. st \in {DecidedStatus(view, o), "manual_review"}
      BY DEF Checked
    <2>4. /\ st = "confirmed" => o.st = "included" /\ o.conf >= Required
          /\ st = "dropped" => o.st = "not_found" /\ view.missing + 1 >= AbsencesToDrop
      BY <2>1, <2>3, DecidedConfirmed, DecidedDropped
    <2>5. /\ o \in observed'[i]
          /\ \A j \in Ids : observed[j] \subseteq observed'[j]
          /\ observed' \in [Ids -> SUBSET Evidence]
      BY <1>9, <2>1 DEF PollNewEvidence, StoreEvidence, KInv, TypeOK
    <2>6. /\ Update(i, Reconciled(view, rec[i], o, st))
          /\ Answered(i, o)
          /\ i # NoId
          /\ poller' = [poller EXCEPT ![p] = IdlePoller]
          /\ UNCHANGED <<newest, submitter, broadcasts>>
      BY <1>9 DEF PollNewEvidence, StoreEvidence
    <2> HIDE DEF st
    <2> QED
      BY <2>2, <2>4, <2>5, <2>6, UpdateKeepsKInv
  <1>10. ASSUME NEW p \in Pollers, NEW o \in Evidence, PollRepeatedAbsence(p, o)
         PROVE  KInv'
    <2> DEFINE i == poller[p].hash
               view == poller[p].view
               st == DecidedStatus(view, o)
    <2>1. i \in Ids /\ view \in Record /\ ~Terminal(view.status)
      BY <1>10 DEF PollRepeatedAbsence, KInv, TypeOK, ViewLive
    <2>2. st \in Statuses
      BY <2>1, DecidedIsStatus
    <2>3. /\ st = "confirmed" => o.st = "included" /\ o.conf >= Required
          /\ st = "dropped" => o.st = "not_found" /\ view.missing + 1 >= AbsencesToDrop
      BY <2>1, DecidedConfirmed, DecidedDropped
    <2>4. /\ o \in observed'[i]
          /\ \A j \in Ids : observed[j] \subseteq observed'[j]
          /\ observed' \in [Ids -> SUBSET Evidence]
      BY <1>10, <2>1 DEF PollRepeatedAbsence, KInv, TypeOK
    <2>5. /\ Update(i, Reconciled(view, rec[i], o, st))
          /\ Answered(i, o)
          /\ i # NoId
          /\ poller' = [poller EXCEPT ![p] = IdlePoller]
          /\ UNCHANGED <<newest, submitter, broadcasts>>
      BY <1>10 DEF PollRepeatedAbsence
    <2> HIDE DEF st
    <2> QED
      BY <2>2, <2>3, <2>4, <2>5, UpdateKeepsKInv
  <1>11. ASSUME NEW p \in Pollers, NEW o \in Evidence, PollRepeatedEvidence(p, o)
         PROVE  KInv'
    <2> DEFINE i == poller[p].hash
    <2>1. /\ \A q \in Pollers : poller'[q].hash # NoId => poller'[q] = poller[q]
          /\ poller' \in [Pollers -> [hash : Ids \cup {NoId}, view : Record \cup {NoRecord}]]
          /\ i \in Ids
          /\ UNCHANGED <<rec, newest, observed, submitter, broadcasts>>
      BY <1>11 DEF PollRepeatedEvidence, KInv, TypeOK, IdlePoller
    <2>2. /\ absences' \in [Ids -> 0 .. AbsencesToDrop]
          /\ \A j \in Ids : absences'[j] = absences[j]
      BY <1>11, <2>1, AnsweredAbsence DEF PollRepeatedEvidence, KInv, TypeOK
    <2>3. TypeOK' /\ ViewLive' /\ MissingAnswered'
      BY <2>1, <2>2 DEF KInv, TypeOK, ViewLive, MissingAnswered, Exists
    <2> QED
      BY <2>1, <2>2, <2>3
      DEF KInv, NewestExists, SubmitterOK, ConfirmedOnEvidence,
          DroppedNeedsThreeAbsences, Exists
  <1>12. ASSUME NEW p \in Pollers, NEW h \in Hashes, NEW k \in Keys \cup {NoKey},
                ConfirmUnknown(p, h, k)
         PROVE  KInv'
    <2>1. /\ NewRecord("submitted", k) \in Record
          /\ NewRecord("submitted", k).missing = 0
          /\ NewRecord("submitted", k).polls = 0
          /\ NewRecord("submitted", k).status = "submitted"
      BY NewRecordType DEF Statuses
    <2>2. /\ rec' = [rec EXCEPT ![h] = NewRecord("submitted", k)]
          /\ newest' = IF k = NoKey THEN newest ELSE [newest EXCEPT ![k] = h]
          /\ poller' = [poller EXCEPT ![p] = [hash |-> h, view |-> NewRecord("submitted", k)]]
          /\ UNCHANGED <<observed, submitter, broadcasts, absences>>
      BY <1>12 DEF ConfirmUnknown, Create, StartPoll
    <2>3. /\ rec'[h] = NewRecord("submitted", k)
          /\ \A j \in Ids \ {h} : rec'[j] = rec[j]
          /\ \A j \in Ids : Exists(j) => Exists(j)'
          /\ Exists(h)'
      BY <1>0, <2>1, <2>2 DEF Exists
    <2>4. TypeOK'
      BY <2>1, <2>2 DEF KInv, TypeOK
    <2>5. NewestExists'
      <3> SUFFICES ASSUME NEW x \in Keys
                   PROVE  IF newest'[x] = NoId THEN rec'[x] = NoRecord
                          ELSE newest'[x] \in {x} \cup Hashes /\ rec'[newest'[x]] # NoRecord
        BY DEF NewestExists, Exists
      <3>1. CASE x = k
        BY <1>0, <2>2, <2>3, <3>1 DEF KInv, TypeOK, Exists
      <3>2. CASE x # k
        <4>1. newest'[x] = newest[x] /\ rec'[x] = rec[x]
          BY <1>0, <2>2, <2>3, <3>2 DEF KInv, TypeOK
        <4> QED
          BY <1>0, <2>3, <4>1 DEF KInv, NewestExists, Exists
      <3> QED
        BY <3>1, <3>2
    <2>9. SubmitterOK'
      BY <2>2, <2>3 DEF KInv, SubmitterOK, TypeOK
    <2>6. ViewLive'
      BY <2>1, <2>2, ConstantsAssumption DEF KInv, ViewLive, TypeOK, Terminal
    <2>7. MissingAnswered'
      <3>1. 0 <= absences[h]
        BY DEF KInv, TypeOK
      <3> QED
        BY <2>1, <2>2, <2>3, <3>1 DEF KInv, MissingAnswered, TypeOK, Exists
    <2>8. ConfirmedOnEvidence' /\ DroppedNeedsThreeAbsences'
      BY <2>1, <2>2, <2>3 DEF KInv, ConfirmedOnEvidence, DroppedNeedsThreeAbsences, Exists
    <2> QED
      BY <2>4, <2>5, <2>6, <2>7, <2>8, <2>9 DEF KInv
  <1>13. CASE UNCHANGED vars
    BY <1>13
    DEF vars, KInv, TypeOK, NewestExists, SubmitterOK, ViewLive,
        MissingAnswered, ConfirmedOnEvidence, DroppedNeedsThreeAbsences, Exists
  <1> QED
    BY <1>1, <1>2, <1>3, <1>4, <1>5, <1>6, <1>7, <1>8, <1>9, <1>10, <1>11, <1>12, <1>13
    DEF Next

\* A record of a hash is never removed, and the one step that hands a hash to
\* the adapter has found no record of it.
LEMMA NextBroadcasts == IInv /\ [Next]_vars => BroadcastRecorded' /\ BroadcastOnce'
  <1> SUFFICES ASSUME IInv, [Next]_vars PROVE BroadcastRecorded' /\ BroadcastOnce'
    OBVIOUS
  <1> USE DEF Ids
  <1>0. /\ rec \in [Ids -> Record \cup {NoRecord}]
        /\ NoRecord \notin Record
        /\ Keys \cap Hashes = {} /\ NoId \notin Ids
    BY ConstantsAssumption DEF IInv, KInv, TypeOK
  <1> DEFINE Stays == /\ broadcasts' = broadcasts
                      /\ \A h \in Hashes : rec[h] # NoRecord => rec'[h] # NoRecord
  <1>1. ASSUME NEW s \in Submitters, SubmitRecord(s)
        PROVE  BroadcastRecorded' /\ BroadcastOnce'
    <2>1. PICK h \in Hashes, held \in Keys \cup {NoId} :
             h = submitter[s].hash /\ held = submitter[s].held /\ ~Exists(h) /\ broadcasts[h] = 0
      BY <1>1 DEF SubmitRecord, IInv, KInv, SubmitterOK, TypeOK, BroadcastRecorded
    <2>2. NewRecord("prepared", submitter[s].key) \in Record
      BY NewRecordType DEF IInv, KInv, TypeOK, Statuses
    <2>3. \A g \in Hashes : g = h \/ Exists(g) => Exists(g)'
      BY <1>0, <1>1, <2>1, <2>2 DEF SubmitRecord, Exists
    <2>4. /\ \A g \in Hashes \ {h} : broadcasts'[g] = broadcasts[g]
          /\ broadcasts'[h] = 1
      BY <1>1, <2>1 DEF SubmitRecord, IInv, KInv, TypeOK
    <2> QED
      BY <2>1, <2>3, <2>4 DEF IInv, BroadcastRecorded, BroadcastOnce
  <1>2. ASSUME NEW k \in Keys, Prepare(k)
        PROVE  Stays
    BY <1>0, <1>2 DEF Prepare, Create
  <1>3. ASSUME NEW h \in Hashes, NEW k \in Keys \cup {NoKey}, NEW p \in Pollers,
               ConfirmUnknown(p, h, k)
        PROVE  Stays
    <2>1. NewRecord("submitted", k) \in Record
      BY NewRecordType DEF Statuses
    <2> QED
      BY <1>0, <1>3, <2>1 DEF ConfirmUnknown, Create, Exists
  <1>4. ASSUME NEW i \in Ids, NEW st \in Statuses, SetStatus(i, st), broadcasts' = broadcasts,
               Exists(i)
        PROVE  Stays
    <2>1. [rec[i] EXCEPT !.status = st] \in Record
      BY <1>0, <1>4 DEF Exists, Record
    <2> QED
      BY <1>0, <1>4, <2>1 DEF SetStatus
  <1>5. ASSUME NEW k \in Keys, ApproveTooLate(k)
        PROVE  Stays
    <2>1. newest[k] \in Ids /\ Exists(newest[k])
      BY <1>5 DEF ApproveTooLate, IInv, KInv, NewestExists
    <2> QED
      BY <1>4, <1>5, <2>1 DEF ApproveTooLate, Statuses
  <1>6. ASSUME NEW s \in Submitters, NEW st \in {"submitted", "failed"}, SubmitEnd(s, st)
        PROVE  Stays
    <2>1. submitter[s].hash \in Ids /\ Exists(submitter[s].hash)
      BY <1>6 DEF SubmitEnd, IInv, KInv, SubmitterOK
    <2> QED
      BY <1>4, <1>6, <2>1 DEF SubmitEnd, Statuses
  <1>7. ASSUME NEW i \in Ids, PollExhausted(i) \/ Reject(i) \/ ExpireIfStale(i)
        PROVE  Stays
    BY <1>4, <1>7 DEF PollExhausted, Reject, ExpireIfStale, Live, Found, Statuses
  <1>8. ASSUME NEW p \in Pollers, NEW o \in Evidence,
               PollNewEvidence(p, o) \/ PollRepeatedAbsence(p, o)
        PROVE  Stays
    <2> DEFINE i == poller[p].hash
               view == poller[p].view
               decided == DecidedStatus(view, o)
               checked == Checked(view.status, decided)
    <2>1. i \in Ids /\ view \in Record /\ view.polls < MaxPollAttempts /\ broadcasts' = broadcasts
      BY <1>8 DEF PollNewEvidence, StoreEvidence, PollRepeatedAbsence, IInv, KInv, TypeOK, ViewLive
    <2>2. decided \in Statuses /\ checked \in Statuses
      BY <2>1, DecidedIsStatus
    <2>3. PICK st \in {decided, checked} : Update(i, Reconciled(view, rec[i], o, st))
      BY <1>8 DEF PollNewEvidence, StoreEvidence, PollRepeatedAbsence
    <2> HIDE DEF decided, checked
    <2>4. ASSUME Exists(i)
          PROVE  Reconciled(view, rec[i], o, st) \in Record
      BY <1>0, <2>1, <2>2, <2>4, ReconciledRecord DEF Exists
    <2> QED
      BY <1>0, <2>1, <2>3, <2>4 DEF Update, Exists
  <1>9. Stays => BroadcastRecorded' /\ BroadcastOnce'
    BY DEF IInv, BroadcastRecorded, BroadcastOnce, Exists
  <1> HIDE DEF Stays
  <1>10. ASSUME UNCHANGED <<rec, broadcasts>>
         PROVE  BroadcastRecorded' /\ BroadcastOnce'
    BY <1>10 DEF IInv, BroadcastRecorded, BroadcastOnce, Exists
  <1> QED
    BY <1>1, <1>2, <1>3, <1>5, <1>6, <1>7, <1>8, <1>9, <1>10
    DEF Next, SubmitBegin, SubmitKnownHash, PollBegin, PollRepeatedEvidence, vars

LEMMA InitIInv == Init => IInv
  BY InitKInv DEF IInv, Init, BroadcastRecorded, BroadcastOnce

LEMMA NextIInv == IInv /\ [Next]_vars => IInv'
  BY NextKInv, NextBroadcasts DEF IInv

\* The strengthened invariant is an invariant of the specification.
THEOREM Inductive == Spec => []IInv
  BY InitIInv, NextIInv, PTL DEF Spec

\* Type correctness.
THEOREM TypeCorrect == Spec => []TypeOK
  <1>1. IInv => TypeOK
    BY DEF IInv, KInv
  <1> QED
    BY <1>1, Inductive, PTL

\* However handlers interleave, a record is confirmed only on evidence that was
\* final, for any number of concurrent polls and submissions.
THEOREM Confirmed == Spec => []ConfirmedOnEvidence
  <1>1. IInv => ConfirmedOnEvidence
    BY DEF IInv, KInv
  <1> QED
    BY <1>1, Inductive, PTL

\* No signed transaction is handed to the chain adapter twice.
THEOREM Once == Spec => []BroadcastOnce
  <1>1. IInv => BroadcastOnce
    BY DEF IInv, KInv
  <1> QED
    BY <1>1, Inductive, PTL

\* No transaction is dropped before the adapter failed three times to find it.
THEOREM Dropped == Spec => []DroppedNeedsThreeAbsences
  <1>1. IInv => DroppedNeedsThreeAbsences
    BY DEF IInv, KInv
  <1> QED
    BY <1>1, Inductive, PTL

\* A terminal record that no handler has read is never changed again.
THEOREM QuiescentFinal == Spec => QuiescentTerminalIsFinal
  <1> DEFINE Final(i) == Exists(i) /\ Terminal(rec[i].status) /\ ~InFlight(i) => rec'[i] = rec[i]
  <1>1. ASSUME IInv, [Next]_vars, NEW i \in Ids
        PROVE  Final(i)
    <2> SUFFICES ASSUME Exists(i), Terminal(rec[i].status), ~InFlight(i)
                 PROVE  rec'[i] = rec[i]
      OBVIOUS
    <2> USE DEF Ids
    <2>0. rec \in [Ids -> Record \cup {NoRecord}]
      BY <1>1 DEF IInv, KInv, TypeOK
    <2>1. ASSUME NEW k \in Keys, Prepare(k) \/ ApproveTooLate(k)
          PROVE  rec'[i] = rec[i]
      BY <1>1, <2>0, <2>1 DEF IInv, KInv, NewestExists, Prepare, Create, ApproveTooLate, SetStatus, Terminal
    <2>2. ASSUME NEW s \in Submitters,
                 SubmitRecord(s) \/ \E st \in {"submitted", "failed"} : SubmitEnd(s, st)
          PROVE  rec'[i] = rec[i]
      BY <2>0, <2>2 DEF SubmitRecord, SubmitEnd, SetStatus, InFlight
    <2>3. ASSUME NEW p \in Pollers, NEW o \in Evidence,
                 PollNewEvidence(p, o) \/ PollRepeatedAbsence(p, o)
          PROVE  rec'[i] = rec[i]
      <3>1. poller[p].hash # i
        BY DEF InFlight
      <3> QED
        BY <2>0, <2>3, <3>1 DEF PollNewEvidence, StoreEvidence, PollRepeatedAbsence, Update
    <2>4. ASSUME NEW p \in Pollers, NEW h \in Hashes, NEW k \in Keys \cup {NoKey},
                 ConfirmUnknown(p, h, k)
          PROVE  rec'[i] = rec[i]
      BY <2>0, <2>4 DEF ConfirmUnknown, Create
    <2>5. ASSUME NEW j \in Ids, PollExhausted(j) \/ Reject(j) \/ ExpireIfStale(j)
          PROVE  rec'[i] = rec[i]
      BY <2>0, <2>5 DEF PollExhausted, Reject, ExpireIfStale, Live, SetStatus
    <2>6. rec' = rec => rec'[i] = rec[i]
      OBVIOUS
    <2> QED
      BY <1>1, <2>1, <2>2, <2>3, <2>4, <2>5, <2>6
      DEF Next, SubmitBegin, SubmitKnownHash, PollBegin, PollRepeatedEvidence, vars
  <1>2. IInv /\ [Next]_vars => \A i \in Ids : Final(i)
    BY <1>1
  <1> QED
    BY <1>2, Inductive, PTL DEF Spec, QuiescentTerminalIsFinal

=============================================================================
