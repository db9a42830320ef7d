--------------------------- MODULE TransactionMirror ---------------------------
(***************************************************************************)
(* The lifecycle manager over a store that is mirrored to Postgres.        *)
(*                                                                         *)
(* Memory is the source of truth; every created or updated record is handed *)
(* to the adapter, which writes it once, or not at all.  A restart loses   *)
(* memory and what the adapter holds.  No handler waits for the adapter.   *)
(***************************************************************************)
EXTENDS TransactionLifecycle, PostgresAdapter

CONSTANTS
    NoRow,
    MaxQueue,    \* bound: operations that the adapter holds
    MaxRestarts  \* bound: restarts of the process

\* The columns the decisions depend on: the row keeps neither attempts, absences
\* nor the block hash.
Row == [status : Statuses, key : Keys \cup {NoKey}]

ASSUME MirrorAssumption ==
    /\ NoRow \notin Row
    /\ MaxQueue \in Nat
    /\ MaxRestarts \in Nat

Write == [id : Ids, row : Row]

ASSUME HydrationAssumption == Hydration \notin Write

VARIABLES
    db,         \* the transactions table, by tx_hash
    lost,       \* history: the ids whose last write failed or was given up
    reordered,  \* history: the ids whose newest write left an older one behind
    restarts

mirrorVars == <<db, lost, reordered, restarts>>
allVars == <<vars, mirrorVars, adapterVars>>

MirrorInit ==
    /\ Init
    /\ AdapterInit
    /\ db = [i \in Ids |-> NoRow]
    /\ lost = {}
    /\ reordered = {}
    /\ restarts = 0

\* The records that operations of a sequence write.
Written(ops) == {i \in Ids : \E n \in 1 .. Len(ops) : ops[n] # Hydration /\ ops[n].id = i}

-----------------------------------------------------------------------------
(* A handler's step and its write *)

RowOf(r) == [status |-> r.status, key |-> r.key]

\* Mutant: the newest write overtakes all.
EnqueueFirst(i) ==
    /\ Pending < MaxQueue
    /\ queue' = IF rec'[i] # NoRecord THEN <<[id |-> i, row |-> RowOf(rec'[i])]>> \o queue ELSE queue
    /\ UNCHANGED <<link, waiting, mirrorVars>>

\* persistTransactionRecord, persistTransactionUpdate: the record as the step
\* leaves it.  An update of a record that is gone writes nothing.
Enqueue(i) ==
    /\ Pending < MaxQueue
    /\ IF rec'[i] # NoRecord
       THEN /\ Call(<<[id |-> i, row |-> RowOf(rec'[i])]>>)
            /\ reordered' = IF Ready /\ i \in Written(waiting) THEN reordered \cup {i}
                            ELSE reordered \ {i}
       ELSE UNCHANGED <<adapterVars, reordered>>
    /\ UNCHANGED <<db, lost, restarts>>

\* The steps that create or update a record, with the record they write.
WritingStep ==
    \/ \E k \in Keys : \/ Prepare(k) /\ Enqueue(k)
                       \/ ApproveTooLate(k) /\ Enqueue(newest[k])
    \/ \E s \in Submitters :
          \/ SubmitRecord(s) /\ Enqueue(submitter[s].hash)
          \/ \E st \in {"submitted", "failed"} : SubmitEnd(s, st) /\ Enqueue(submitter[s].hash)
    \/ \E p \in Pollers :
          \/ \E o \in Evidence : /\ PollNewEvidence(p, o) \/ PollRepeatedAbsence(p, o)
                                 /\ Enqueue(poller[p].hash)
          \/ \E k \in Keys \cup {NoKey}, h \in Hashes : ConfirmUnknown(p, h, k) /\ Enqueue(h)
    \/ \E i \in Ids : (PollExhausted(i) \/ Reject(i) \/ ExpireIfStale(i)) /\ Enqueue(i)

\* The steps that write nothing.
ReadingStep ==
    /\ UNCHANGED <<mirrorVars, adapterVars>>
    /\ \/ \E s \in Submitters :
             \/ \E k \in Keys \cup {NoKey}, h \in Hashes : SubmitBegin(s, k, h)
             \/ SubmitKnownHash(s)
       \/ \E p \in Pollers : \/ \E i \in Ids : PollBegin(p, i)
                             \/ \E o \in Evidence : PollRepeatedEvidence(p, o)

-----------------------------------------------------------------------------
(* The queue and the database *)

KeyTaken(i, k) == k # NoKey /\ \E j \in Ids \ {i} : db[j] # NoRow /\ db[j].key = k

\* insert ... on conflict (tx_hash) do update: an existing row takes the new
\* status; a new row whose (wallet, key) another row has violates the unique
\* index, and the failure is swallowed.
Flush ==
    LET i == Head(queue).id
        row == Head(queue).row
    IN
    /\ HasPool
    /\ queue # <<>> /\ Head(queue) # Hydration
    /\ Runs(Head(queue))
    /\ db' = IF db[i] # NoRow THEN [db EXCEPT ![i].status = row.status]
             ELSE IF KeyTaken(i, row.key) THEN db
             ELSE [db EXCEPT ![i] = row]
    /\ lost' = lost \ {i}
    /\ UNCHANGED <<vars, reordered, restarts>>

\* The database is away: one attempt, no retry, and the queue goes on.
FlushFails ==
    /\ queue # <<>> /\ Head(queue) # Hydration
    /\ Runs(Head(queue))
    /\ lost' = lost \cup {Head(queue).id}
    /\ UNCHANGED <<vars, db, reordered, restarts>>

\* hydrateTransactionTables restores nothing.  The driver hands jsonb columns
\* over parsed, so JSON.parse(String(row.policy_status)) throws at the first row
\* before it is added to memory, and enqueueMirror swallows the failure.
Hydrate ==
    /\ Runs(Hydration)
    /\ UNCHANGED <<vars, mirrorVars>>

\* The connection comes, or is given up with the writes that wait for it: an
\* older write of the same record that went ahead is all that runs.
ConnectionStep ==
    /\ UNCHANGED <<vars, mirrorVars>>
    /\ Connects \/ Migrated \/ MigrationFails \/ OthersCall

ConnectionFails ==
    /\ GivesUp
    /\ lost' = lost \cup Written(waiting)
    /\ reordered' = reordered \cup (Written(waiting) \cap Written(queue))
    /\ UNCHANGED <<vars, db, restarts>>

\* The process dies and starts again: everything but the table is gone, the
\* handlers under way included.
Restart ==
    /\ restarts < MaxRestarts
    /\ restarts' = restarts + 1
    /\ Restarted
    /\ rec' = [i \in Ids |-> NoRecord]
    /\ newest' = [k \in Keys |-> NoId]
    /\ observed' = [i \in Ids |-> {}]
    /\ submitter' = [s \in Submitters |-> IdleSubmitter]
    /\ poller' = [p \in Pollers |-> IdlePoller]
    /\ reordered' = {}
    /\ UNCHANGED <<broadcasts, absences, db, lost>>

MirrorNext ==
    \/ WritingStep \/ ReadingStep
    \/ Flush \/ FlushFails \/ Hydrate
    \/ ConnectionStep \/ ConnectionFails
    \/ Restart

MirrorSpec == MirrorInit /\ [][MirrorNext]_allVars

-----------------------------------------------------------------------------
(* Properties *)

\* The type invariant of the mirror, the table's unique index included.
MirrorTypeOK ==
    /\ db \in [Ids -> Row \cup {NoRow}]
    /\ \A i \in Ids : db[i] # NoRow => ~KeyTaken(i, db[i].key)
    /\ link \in {"down", "connecting", "migrating", "closing", "up"}
    /\ waiting \in Seq(Write \cup {Hydration})
    /\ queue \in Seq(Write \cup {Hydration})
    /\ link \in {"down", "up"} => waiting = <<>>
    /\ lost \subseteq Ids
    /\ reordered \subseteq Ids
    /\ restarts \in 0 .. MaxRestarts

Unwritten(i) == i \in Written(waiting) \cup Written(queue)

\* A record whose writes have all run, the last of them without failure, has
\* its status in the table, whatever writes failed or were lost in a restart
\* before, unless another row holds its key: the table keeps an older status
\* only if the newest write was made while the schema was being applied and an
\* older one still waited for the connection, and one more write makes up for
\* that and for all that were lost.
MirrorCatchesUp ==
    \A i \in Ids : Exists(i) /\ ~Unwritten(i) /\ i \notin lost \cup reordered =>
        IF db[i] # NoRow THEN db[i].status = rec[i].status ELSE KeyTaken(i, rec[i].key)

\* "Remove it so the real record below can use the same key without violating
\* the unique (wallet_address, idempotency_key) index": a submitted transaction
\* gets a row once its write has run.
SubmittedIsDurable ==
    \A h \in Hashes : Exists(h) /\ ~Unwritten(h) /\ h \notin lost => db[h] # NoRow

=============
