------------------------ MODULE TransactionLifecycle ------------------------
(***************************************************************************)
(* The transaction lifecycle manager and the in-memory record store it     *)
(* drives: prepare, approve, submit, confirm, poll, reject and expire.     *)
(*                                                                         *)
(* The server is one JavaScript process.  A handler runs without           *)
(* interruption between two awaits, so every action below is the code      *)
(* between two awaits.  submitTransaction awaits twice (the derivation of  *)
(* the hash, the broadcast) and pollTransaction once (the adapter), and    *)
(* both go on afterwards with the record they read before: the submitter's *)
(* `held` and the poller's `view` are those stale copies.                  *)
(*                                                                         *)
(* One wallet is modelled; a key is an idempotency key of that wallet.     *)
(* The placeholder of a prepared plan has the hash "pending:wallet:key",   *)
(* a function of the key, so the key itself stands for it as a record id.  *)
(***************************************************************************)
EXTENDS Naturals, FiniteSets

CONSTANTS
    Keys,            \* idempotency keys
    Hashes,          \* hashes of signed transactions
    Blocks,          \* block hashes a transaction may be included under
    Submitters,      \* concurrent calls of submitTransaction
    Pollers,         \* concurrent calls of pollTransaction
    Evidence,        \* what an adapter may answer to a poll
    NoKey, NoRecord, NoId, NoBlock,
    Family,          \* the wallet's chain family, "evm" or "stellar"
    Required,        \* confirmations required for finality
    MaxPollAttempts, \* MAX_POLL_ATTEMPTS
    ExpirySweep      \* does the deployment call expireTransactionIfStale?

Ids == Keys \cup Hashes

Statuses == {"prepared", "submitted", "pending", "confirming", "confirmed",
             "reorged", "manual_review", "failed", "replaced", "dropped",
             "expired", "user_rejected"}

ObservationStatuses == {"not_found", "pending", "included", "failed", "replaced",
                        "expired", "duplicate", "provider_disagreement"}

Observation == [st : ObservationStatuses, block : Blocks \cup {NoBlock}, conf : Nat]

\* Absences after which a transaction counts as dropped.
AbsencesToDrop == 3

\* A record keeps what the decisions depend on: pollAttempts,
\* missingObservationCount and lastObservedBlockHash beside status and key.
\* The absence count is only ever compared with three, so it stops there.
Record == [status : Statuses, key : Keys \cup {NoKey}, polls : 0 .. MaxPollAttempts,
           missing : 0 .. AbsencesToDrop, block : Blocks \cup {NoBlock}]

ASSUME ConstantsAssumption ==
    /\ Keys \cap Hashes = {}
    /\ NoKey \notin Keys
    /\ NoId \notin Ids
    /\ NoBlock \notin Blocks
    /\ NoRecord \notin Record
    /\ Evidence \subseteq Observation
    /\ Family \in {"evm", "stellar"}
    /\ Family = "stellar" => \A o \in Evidence : o.block = NoBlock
    /\ Required \in Nat \ {0}
    /\ MaxPollAttempts \in Nat \ {0}
    /\ ExpirySweep \in BOOLEAN

VARIABLES
    rec,        \* the store: the record of each id, or NoRecord
    newest,     \* the record a lookup by key finds: the store is newest first
    observed,   \* the observations stored for each id
    submitter,  \* where each submitTransaction call stands
    poller,     \* where each pollTransaction call stands
    broadcasts, \* history: how often each hash was handed to the chain adapter
    absences    \* history: how often the adapter did not find each id, up to AbsencesToDrop

vars == <<rec, newest, observed, submitter, poller, broadcasts, absences>>

IdleSubmitter == [pc |-> "idle", key |-> NoKey, hash |-> NoId, held |-> NoId]
IdlePoller    == [hash |-> NoId, view |-> NoRecord]

Init ==
    /\ rec = [i \in Ids |-> NoRecord]
    /\ newest = [k \in Keys |-> NoId]
    /\ observed = [i \in Ids |-> {}]
    /\ submitter = [s \in Submitters |-> IdleSubmitter]
    /\ poller = [p \in Pollers |-> IdlePoller]
    /\ broadcasts = [h \in Hashes |-> 0]
    /\ absences = [i \in Ids |-> 0]

-----------------------------------------------------------------------------
(* Records and statuses *)

Exists(i) == rec[i] # NoRecord

\* isImmutableTerminal
Terminal(st) == st \in {"confirmed", "failed", "replaced", "dropped", "expired", "user_rejected"}

\* getTransactionRecord takes any hash that is not of a chain's format for an
\* EVM one, lower case, while a Stellar placeholder is stored in upper case:
\* no lookup by hash finds that placeholder.
Found(i) == Exists(i) /\ (i \in Keys => Family = "evm")

\* Mutant: terminal records are polled, rejected and expired like any other.
LiveEvenTerminal(i) == Found(i)

Live(i) == Found(i) /\ ~Terminal(rec[i].status)

AtMost(n, bound) == IF n > bound THEN bound ELSE n

NewRecord(st, k) ==
    [status |-> st, key |-> k, polls |-> 0, missing |-> 0, block |-> NoBlock]

\* createTransactionRecord: the new record is the one its key now finds.
Create(i, st, k) ==
    /\ rec' = [rec EXCEPT ![i] = NewRecord(st, k)]
    /\ newest' = IF k = NoKey THEN newest ELSE [newest EXCEPT ![k] = i]

SetStatus(i, st) == rec' = [rec EXCEPT ![i].status = st]

\* LIFECYCLE_TRANSITIONS
Allowed == [
    prepared      |-> {"submitted", "pending", "failed", "expired", "user_rejected"},
    submitted     |-> {"pending", "confirming", "confirmed", "failed", "replaced",
                       "dropped", "expired", "manual_review"},
    pending       |-> {"pending", "confirming", "confirmed", "failed", "replaced",
                       "dropped", "expired", "manual_review"},
    confirming    |-> {"confirming", "confirmed", "failed", "replaced", "reorged",
                       "manual_review"},
    confirmed     |-> {"confirmed", "reorged", "manual_review"},
    reorged       |-> {"reorged", "confirming", "confirmed", "replaced", "dropped",
                       "manual_review"},
    manual_review |-> {"manual_review", "confirming", "confirmed", "failed", "replaced",
                       "reorged", "dropped"},
    failed        |-> {"failed", "manual_review"},
    replaced      |-> {"replaced", "manual_review"},
    dropped       |-> {"dropped", "manual_review"},
    expired       |-> {"expired", "manual_review"},
    user_rejected |-> {"user_rejected"}]

\* assertLifecycleTransition, and what pollTransaction does when it throws.
Checked(from, to) ==
    IF from = to \/ to \in Allowed[from] THEN to ELSE "manual_review"

-----------------------------------------------------------------------------
(* reconcileObservation: what observation o decides about record r *)

Vanished(r) == r.block # NoBlock \/ r.status \in {"confirmed", "confirming"}

Moved(r, o) == r.block # NoBlock /\ o.block # NoBlock /\ r.block # o.block

\* Mutant: the second absence drops.
AbsenceStatusEarly(r) ==
    IF Vanished(r) THEN "reorged"
    ELSE IF r.missing + 1 >= AbsencesToDrop - 1 THEN "dropped"
    ELSE IF r.status = "submitted" THEN "pending"
    ELSE r.status

AbsenceStatus(r) ==
    IF Vanished(r) THEN "reorged"
    ELSE IF r.missing + 1 >= AbsencesToDrop THEN "dropped"
    ELSE IF r.status = "submitted" THEN "pending"
    ELSE r.status

\* Mutant: finality one confirmation early.
InclusionStatusEarly(r, o) ==
    IF Moved(r, o) THEN "reorged"
    ELSE IF o.conf + 1 >= Required THEN "confirmed"
    ELSE "confirming"

InclusionStatus(r, o) ==
    IF Moved(r, o) THEN "reorged"
    ELSE IF o.conf >= Required THEN "confirmed"
    ELSE "confirming"

DecidedStatus(r, o) ==
    CASE o.st = "provider_disagreement" -> "manual_review"
      [] o.st \in {"replaced", "expired"} -> o.st
      [] o.st = "failed" -> IF r.status = "confirmed" THEN "manual_review" ELSE "failed"
      [] o.st = "not_found" -> AbsenceStatus(r)
      [] o.st = "duplicate" -> r.status
      [] o.st = "pending" -> IF r.status = "confirming" THEN "confirming" ELSE "pending"
      [] o.st = "included" -> InclusionStatus(r, o)

\* The updates merged into the current record cur; fields the decision does
\* not name keep their current value.
DecidedMissing(r, cur, o) ==
    CASE o.st = "not_found" -> AtMost(r.missing + 1, AbsencesToDrop)
      [] o.st = "pending" -> 0
      [] o.st = "included" -> IF Moved(r, o) THEN cur.missing ELSE 0
      [] OTHER -> cur.missing

DecidedBlock(cur, o) ==
    IF o.st = "included" THEN o.block ELSE cur.block

Reconciled(r, cur, o, st) ==
    [cur EXCEPT !.status = st,
                !.polls = r.polls + 1,
                !.missing = DecidedMissing(r, cur, o),
                !.block = DecidedBlock(cur, o)]

-----------------------------------------------------------------------------
(* Prepare and approve *)

\* prepareTransaction: a key that finds a record is answered with it.
Prepare(k) ==
    /\ newest[k] = NoId
    /\ Create(k, "prepared", k)
    /\ UNCHANGED <<observed, submitter, poller, broadcasts, absences>>

Broadcasting(i) == \E s \in Submitters : submitter[s].pc = "broadcast" /\ submitter[s].hash = i

\* validateApproval finds a prepared record older than its ten minutes.  A
\* provider call times out long before that, so a record whose broadcast is
\* still awaited is not that old.  Every other outcome leaves the store alone.
ApproveTooLate(k) ==
    /\ newest[k] # NoId
    /\ rec[newest[k]].status = "prepared"
    /\ ~Broadcasting(newest[k])
    /\ SetStatus(newest[k], "expired")
    /\ UNCHANGED <<newest, observed, submitter, poller, broadcasts, absences>>

-----------------------------------------------------------------------------
(* submitTransaction, in three pieces *)

\* The record a key finds must be its placeholder, or there is none: any other
\* answers the call as a duplicate.
SubmitBegin(s, k, h) ==
    LET found == IF k = NoKey THEN NoId ELSE newest[k] IN
    /\ submitter[s].pc = "idle"
    /\ found \in {NoId, k}
    /\ submitter' = [submitter EXCEPT ![s] =
                        [pc |-> "derive", key |-> k, hash |-> h, held |-> found]]
    /\ UNCHANGED <<rec, newest, observed, poller, broadcasts, absences>>

\* The hash is known: a record that has it answers the call.
SubmitKnownHash(s) ==
    /\ submitter[s].pc = "derive"
    /\ Exists(submitter[s].hash)
    /\ submitter' = [submitter EXCEPT ![s] = IdleSubmitter]
    /\ UNCHANGED <<rec, newest, observed, poller, broadcasts, absences>>

\* Mutant: the hash is not looked up before the broadcast.
SubmitRecordUnchecked(s) ==
    LET h == submitter[s].hash
        k == submitter[s].key
    IN
    /\ submitter[s].pc = "derive"
    /\ rec' = [i \in Ids |-> IF i = h THEN NewRecord("prepared", k)
                             ELSE IF i = submitter[s].held THEN NoRecord
                             ELSE rec[i]]
    /\ newest' = IF k = NoKey THEN newest ELSE [newest EXCEPT ![k] = h]
    /\ broadcasts' = [broadcasts EXCEPT ![h] = @ + 1]
    /\ submitter' = [submitter EXCEPT ![s].pc = "broadcast"]
    /\ UNCHANGED <<observed, poller, absences>>

\* Otherwise the placeholder read before the await is removed, whatever became
\* of it since, the real record is created and the adapter is called.
SubmitRecord(s) ==
    LET h == submitter[s].hash
        k == submitter[s].key
    IN
    /\ submitter[s].pc = "derive"
    /\ ~Exists(h)
    /\ rec' = [i \in Ids |-> IF i = h THEN NewRecord("prepared", k)
                             ELSE IF i = submitter[s].held THEN NoRecord
                             ELSE rec[i]]
    /\ newest' = IF k = NoKey THEN newest ELSE [newest EXCEPT ![k] = h]
    /\ broadcasts' = [broadcasts EXCEPT ![h] = @ + 1]
    /\ submitter' = [submitter EXCEPT ![s].pc = "broadcast"]
    /\ UNCHANGED <<observed, poller, absences>>

\* The adapter has answered or thrown; either way the status is overwritten.
SubmitEnd(s, st) ==
    /\ submitter[s].pc = "broadcast"
    /\ SetStatus(submitter[s].hash, st)
    /\ submitter' = [submitter EXCEPT ![s] = IdleSubmitter]
    /\ UNCHANGED <<newest, observed, poller, broadcasts, absences>>

-----------------------------------------------------------------------------
(* pollTransaction, in two pieces *)

StartPoll(p, i, r) ==
    poller' = [poller EXCEPT ![p] = [hash |-> i, view |-> r]]

\* Mutant: the attempts are not looked at before the adapter is called.
PollBeginPastLimit(p, i) ==
    /\ poller[p].hash = NoId
    /\ Live(i)
    /\ StartPoll(p, i, rec[i])
    /\ UNCHANGED <<rec, newest, observed, submitter, broadcasts, absences>>

PollBegin(p, i) ==
    /\ poller[p].hash = NoId
    /\ Live(i)
    /\ rec[i].polls < MaxPollAttempts
    /\ StartPoll(p, i, rec[i])
    /\ UNCHANGED <<rec, newest, observed, submitter, broadcasts, absences>>

\* The attempts are used up: no adapter call, the record goes to review.
PollExhausted(i) ==
    /\ Live(i)
    /\ rec[i].polls >= MaxPollAttempts
    /\ SetStatus(i, "manual_review")
    /\ UNCHANGED <<newest, observed, submitter, poller, broadcasts, absences>>

Answered(i, o) ==
    absences' = [absences EXCEPT ![i] =
                    IF o.st = "not_found" THEN AtMost(@ + 1, AbsencesToDrop) ELSE @]

\* The adapter is asked about a hash; of a placeholder no chain has heard.
PossibleAnswer(i, o) == i \in Keys => o.st = "not_found"

\* storage.update of a record that is gone does nothing.
Update(i, r) == rec' = IF Exists(i) THEN [rec EXCEPT ![i] = r] ELSE rec

\* Evidence that is stored as new decides, subject to the transition table.
StoreEvidence(p, o) ==
    LET i == poller[p].hash
        view == poller[p].view
    IN
    /\ i # NoId
    /\ PossibleAnswer(i, o)
    /\ observed' = [observed EXCEPT ![i] = @ \cup {o}]
    /\ Update(i, Reconciled(view, rec[i], o, Checked(view.status, DecidedStatus(view, o))))
    /\ Answered(i, o)
    /\ poller' = [poller EXCEPT ![p] = IdlePoller]
    /\ UNCHANGED <<newest, submitter, broadcasts>>

PollNewEvidence(p, o) ==
    /\ poller[p].hash # NoId
    /\ o \notin observed[poller[p].hash]
    /\ StoreEvidence(p, o)

\* Mutant: a repeated absence is skipped like any repeated evidence.
PollRepeatedAbsenceSkipped(p, o) ==
    LET i == poller[p].hash IN
    /\ i # NoId
    /\ o \in observed[i]
    /\ o.st = "not_found"
    /\ Answered(i, o)
    /\ poller' = [poller EXCEPT ![p] = IdlePoller]
    /\ UNCHANGED <<rec, newest, observed, submitter, broadcasts>>

\* A repeated absence decides again, and without the transition table.
PollRepeatedAbsence(p, o) ==
    LET i == poller[p].hash
        view == poller[p].view
    IN
    /\ i # NoId
    /\ o \in observed[i]
    /\ o.st = "not_found"
    /\ Update(i, Reconciled(view, rec[i], o, DecidedStatus(view, o)))
    /\ Answered(i, o)
    /\ poller' = [poller EXCEPT ![p] = IdlePoller]
    /\ UNCHANGED <<newest, observed, submitter, broadcasts>>

\* Any other repeated evidence leaves the record as it is.
PollRepeatedEvidence(p, o) ==
    LET i == poller[p].hash IN
    /\ i # NoId
    /\ o \in observed[i]
    /\ o.st # "not_found"
    /\ Answered(i, o)
    /\ poller' = [poller EXCEPT ![p] = IdlePoller]
    /\ UNCHANGED <<rec, newest, observed, submitter, broadcasts>>

-----------------------------------------------------------------------------
(* Confirm, reject, expire *)

\* POST /api/execute/confirm for a hash the store does not have: the wallet
\* broadcast it itself.  The record starts as submitted, under any key, and
\* the poll begins.  For a record that exists the call is PollBegin (or, its
\* attempts used up, PollExhausted), and for a terminal one it changes nothing.
ConfirmUnknown(p, h, k) ==
    /\ poller[p].hash = NoId
    /\ ~Exists(h)
    /\ Create(h, "submitted", k)
    /\ StartPoll(p, h, NewRecord("submitted", k))
    /\ UNCHANGED <<observed, submitter, broadcasts, absences>>

\* recordUserRejection: any record that is not terminal.
Reject(i) ==
    /\ Live(i)
    /\ SetStatus(i, "user_rejected")
    /\ UNCHANGED <<newest, observed, submitter, poller, broadcasts, absences>>

\* expireTransactionIfStale, once the time to live has passed.
ExpireIfStale(i) ==
    /\ ExpirySweep
    /\ Live(i)
    /\ ~Broadcasting(i)
    /\ SetStatus(i, "expired")
    /\ UNCHANGED <<newest, observed, submitter, poller, broadcasts, absences>>

-----------------------------------------------------------------------------

Next ==
    \/ \E k \in Keys : Prepare(k) \/ ApproveTooLate(k)
    \/ \E s \in Submitters :
          \/ \E k \in Keys \cup {NoKey}, h \in Hashes : SubmitBegin(s, k, h)
          \/ SubmitKnownHash(s)
          \/ SubmitRecord(s)
          \/ \E st \in {"submitted", "failed"} : SubmitEnd(s, st)
    \/ \E p \in Pollers :
          \/ \E i \in Ids : PollBegin(p, i)
          \/ \E o \in Evidence : \/ PollNewEvidence(p, o)
                                 \/ PollRepeatedAbsence(p, o)
                                 \/ PollRepeatedEvidence(p, o)
          \/ \E k \in Keys \cup {NoKey}, h \in Hashes : ConfirmUnknown(p, h, k)
    \/ \E i \in Ids : PollExhausted(i) \/ Reject(i) \/ ExpireIfStale(i)

Spec == Init /\ [][Next]_vars

-----------------------------------------------------------------------------
(* Properties *)

\* The type invariant.
TypeOK ==
    /\ rec \in [Ids -> Record \cup {NoRecord}]
    /\ newest \in [Keys -> Ids \cup {NoId}]
    /\ observed \in [Ids -> SUBSET Evidence]
    /\ submitter \in [Submitters -> [pc : {"idle", "derive", "broadcast"},
                                     key : Keys \cup {NoKey},
                                     hash : Hashes \cup {NoId},
                                     held : Keys \cup {NoId}]]
    /\ poller \in [Pollers -> [hash : Ids \cup {NoId}, view : Record \cup {NoRecord}]]
    /\ broadcasts \in [Hashes -> Nat]
    /\ absences \in [Ids -> 0 .. AbsencesToDrop]

\* A record is confirmed only on stored evidence of an inclusion as deep as
\* finality asks, whatever polls, rejections and submissions interleave: no
\* stale write can make a record confirmed that no adapter saw final.
ConfirmedOnEvidence ==
    \A i \in Ids : Exists(i) /\ rec[i].status = "confirmed" =>
        \E o \in observed[i] : o.st = "included" /\ o.conf >= Required

\* One signed transaction is handed to the chain adapter at most once, however
\* many submissions of it, under whatever keys, run at the same time: the
\* record is created before the broadcast is awaited.
BroadcastOnce == \A h \in Hashes : broadcasts[h] <= 1

\* A transaction is given up as dropped only when the adapter has failed to
\* find it at least three times, even when concurrent polls overwrite each
\* other's counter.
DroppedNeedsThreeAbsences ==
    \A i \in Ids : Exists(i) /\ rec[i].status = "dropped" => absences[i] = AbsencesToDrop

\* Some handler still holds what it read about record i.
InFlight(i) ==
    \/ \E p \in Pollers : poller[p].hash = i
    \/ \E s \in Submitters : submitter[s].pc # "idle" /\ i \in {submitter[s].hash, submitter[s].held}

\* A record that reached a terminal status while no handler was half way
\* through keeps it: only a handler that read the record earlier can undo it.
QuiescentTerminalIsFinal ==
    [][\A i \in Ids : Exists(i) /\ Terminal(rec[i].status) /\ ~InFlight(i)
                        => rec'[i] = rec[i]]_vars

-----------------------------------------------------------------------------
(* What the documentation says of the lifecycle, and the code does not do *)

\* "Failed, replaced, dropped, expired, and user-rejected outcomes are
\* terminal": no handler changes such a status.
TerminalIsFinal ==
    [][\A i \in Ids : Exists(i) /\ Exists(i)' /\ Terminal(rec[i].status)
                        => rec'[i].status = rec[i].status]_vars

=============
