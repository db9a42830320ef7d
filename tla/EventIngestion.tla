--------------------------- MODULE EventIngestion ---------------------------
(***************************************************************************)
(* The ingestion of contract events into a JSON file: ingestBatch of       *)
(* GoldenRaccoonEventIngestor and commit of JsonFileStellarEventStore.     *)
(*                                                                         *)
(* A batch loads its stream's cursor, asks the RPC for the events after it *)
(* and commits: it reads the whole file, checks that the cursor is still   *)
(* the one it asked with, writes a new file and renames it over the old    *)
(* one.  All streams share the file.  A queue serialises the commits of    *)
(* one process; batches of different processes do not know of each other.  *)
(*                                                                         *)
(* An event is its position in the ledger's history; a cursor is the       *)
(* position up to which a stream has been read.                            *)
(***************************************************************************)
EXTENDS Naturals, FiniteSets, Sequences

CONSTANTS
    Streams,    \* streamId, each with its policy
    Workers,    \* concurrent batches
    Wanted,     \* the events each stream's policy requires
    MaxEvents,  \* how many events the ledger has: bound
    Limit,      \* events in one RPC page
    Retention,  \* retentionLimit
    NoCursor, NoWorker

Positions == 1 .. MaxEvents

ASSUME EventAssumption ==
    /\ MaxEvents \in Nat
    /\ Wanted \in [Streams -> SUBSET Positions]
    /\ Limit \in Nat \ {0}
    /\ Retention \in Nat \ {0}
    /\ NoCursor \notin 0 .. MaxEvents
    /\ NoWorker \notin Workers

VARIABLES
    head,      \* how many events the ledger has by now
    oldest,    \* the first event the RPC still has
    file,      \* the store: the checkpoint of each stream
    batch,     \* where each batch stands, with what it read
    turn,      \* whose commit the queue runs
    together   \* do all batches run in one process, behind one queue?

eventVars == <<head, oldest, file, batch, turn, together>>

Cursors == 0 .. MaxEvents
EmptyCheckpoint == [cursor |-> NoCursor, events |-> <<>>]
EmptyFile == [s \in Streams |-> EmptyCheckpoint]

IdleBatch == [pc |-> "idle", stream |-> CHOOSE s \in Streams : TRUE,
              expected |-> NoCursor, next |-> 0, temporary |-> EmptyFile]

EventInit ==
    /\ head = 0
    /\ oldest = 1
    /\ file = EmptyFile
    /\ batch = [w \in Workers |-> IdleBatch]
    /\ turn = NoWorker
    /\ together \in BOOLEAN

-----------------------------------------------------------------------------
(* The ledger behind the RPC *)

Emit ==
    /\ head < MaxEvents
    /\ head' = head + 1
    /\ UNCHANGED <<oldest, file, batch, turn, together>>

\* The RPC forgets its oldest event.
Prune ==
    /\ oldest <= head
    /\ oldest' = oldest + 1
    /\ UNCHANGED <<head, file, batch, turn, together>>

-----------------------------------------------------------------------------
(* A batch *)

End(w) == batch' = [batch EXCEPT ![w] = IdleBatch]

\* Mutant: commits are not queued.
QueueIgnored == TRUE

\* The queue of the process is free; a process of one batch has its own.
QueueFree == together => turn = NoWorker

Load(w, s) ==
    /\ batch[w].pc = "idle"
    /\ QueueFree
    /\ batch' = [batch EXCEPT ![w] =
                    [IdleBatch EXCEPT !.pc = "asking", !.stream = s, !.expected = file[s].cursor]]
    /\ UNCHANGED <<head, oldest, file, turn, together>>

\* How far the stream has been read; without a cursor it starts at the first
\* event, startLedger.
ReadUpTo(c) == IF c = NoCursor THEN 0 ELSE c

\* The events after the cursor are still to be had: the code refuses a start
\* ledger that is older, the RPC a cursor that is.
Available(c) == ReadUpTo(c) + 1 >= oldest

\* A page of events, as far as the endpoint that answers has got.
Fetch(w, n) ==
    LET from == ReadUpTo(batch[w].expected) IN
    /\ batch[w].pc = "asking"
    /\ Available(batch[w].expected)
    /\ n \in from .. head
    /\ n <= from + Limit
    /\ batch' = [batch EXCEPT ![w].pc = "waiting", ![w].next = n]
    /\ UNCHANGED <<head, oldest, file, turn, together>>

\* The RPC fails or refuses, or the code refuses a gap.
FetchFails(w) ==
    /\ batch[w].pc = "asking"
    /\ End(w)
    /\ UNCHANGED <<head, oldest, file, turn, together>>

\* slice(-retentionLimit)
Retained(q) ==
    SubSeq(q, IF Len(q) > Retention THEN Len(q) - Retention + 1 ELSE 1, Len(q))

\* Events in the ledger's order: the i-th is the one with i of them up to it.
InOrder(S) ==
    [i \in 1 .. Cardinality(S) |-> CHOOSE e \in S : Cardinality({d \in S : d <= e}) = i]

\* knownIds
Known(s) == {file[s].events[i] : i \in DOMAIN file[s].events}

\* The required events of the page that are not known yet join those stored,
\* of which the last stay.
Stored(s, b) ==
    LET new == {e \in Wanted[s] \ Known(s) : ReadUpTo(b.expected) < e /\ e <= b.next}
    IN Retained(file[s].events \o InOrder(new))

Write(w, contents) ==
    batch' = [batch EXCEPT ![w] =
                 [IdleBatch EXCEPT !.pc = "writing", !.temporary = contents]]

\* Mutant: the cursor is not compared.
CommitReadUnchecked(w) ==
    LET b == batch[w] IN
    /\ b.pc = "waiting"
    /\ QueueFree
    /\ turn' = IF together THEN w ELSE turn
    /\ Write(w, [file EXCEPT ![b.stream] =
                    [cursor |-> b.next, events |-> Stored(b.stream, b)]])
    /\ UNCHANGED <<head, oldest, file, together>>

\* commit, up to the rename: the new contents of the whole file.
CommitRead(w) ==
    LET b == batch[w] IN
    /\ b.pc = "waiting"
    /\ QueueFree
    /\ file[b.stream].cursor = b.expected
    /\ turn' = IF together THEN w ELSE turn
    /\ Write(w, [file EXCEPT ![b.stream] =
                    [cursor |-> b.next, events |-> Stored(b.stream, b)]])
    /\ UNCHANGED <<head, oldest, file, together>>

\* "Event cursor changed concurrently": the batch ends with an error.
CommitConflict(w) ==
    /\ batch[w].pc = "waiting"
    /\ QueueFree
    /\ file[batch[w].stream].cursor # batch[w].expected
    /\ End(w)
    /\ UNCHANGED <<head, oldest, file, turn, together>>

Release == turn' = IF together THEN NoWorker ELSE turn

CommitRename(w) ==
    /\ batch[w].pc = "writing"
    /\ file' = batch[w].temporary
    /\ End(w)
    /\ Release
    /\ UNCHANGED <<head, oldest, together>>

\* Mutant: an operation that failed stops the queue.
WriteFailsHolding(w) ==
    /\ batch[w].pc = "writing"
    /\ End(w)
    /\ UNCHANGED <<head, oldest, file, turn, together>>

\* The temporary file could not be written; the queue goes on.
WriteFails(w) ==
    /\ batch[w].pc = "writing"
    /\ End(w)
    /\ Release
    /\ UNCHANGED <<head, oldest, file, together>>

\* The process stops, at any point.  What it had written so far is a temporary
\* file that nobody reads.
Crash ==
    /\ IF together
       THEN /\ \E w \in Workers : batch[w].pc # "idle"
            /\ batch' = [w \in Workers |-> IdleBatch]
       ELSE \E w \in Workers : batch[w].pc # "idle" /\ End(w)
    /\ Release
    /\ UNCHANGED <<head, oldest, file, together>>

-----------------------------------------------------------------------------

BatchStep(w) ==
    \/ \E n \in Cursors : Fetch(w, n)
    \/ FetchFails(w) \/ CommitRead(w) \/ CommitConflict(w)
    \/ CommitRename(w) \/ WriteFails(w)

EventNext ==
    \/ Emit \/ Prune \/ Crash
    \/ \E w \in Workers : BatchStep(w) \/ \E s \in Streams : Load(w, s)

\* Batches of every stream are started again and again, the queue serves its
\* commits in turn, an RPC call ends, and a stream that asks for events that
\* are there gets some sooner or later.
Reads(s) ==
    \E w \in Workers, n \in Cursors :
        batch[w].stream = s /\ n > ReadUpTo(batch[w].expected) /\ Fetch(w, n)

EventFairness ==
    /\ \A s \in Streams :
          SF_eventVars(\E w \in Workers : Load(w, s)) /\ SF_eventVars(Reads(s))
    /\ \A w \in Workers :
          WF_eventVars(BatchStep(w)) /\ SF_eventVars(CommitRead(w) \/ CommitConflict(w))

EventSpec == EventInit /\ [][EventNext]_eventVars /\ EventFairness

-----------------------------------------------------------------------------
(* Properties *)

\* The type invariant; what the events of a stream are is said below.
EventTypeOK ==
    /\ head \in Cursors
    /\ oldest \in 1 .. MaxEvents + 1
    /\ \A s \in Streams : file[s].cursor \in Cursors \cup {NoCursor}
    /\ \A w \in Workers :
          /\ batch[w].pc \in {"idle", "asking", "waiting", "writing"}
          /\ batch[w].pc # "idle" => batch[w].stream \in Streams
          /\ batch[w].pc = "waiting" => batch[w].next \in Cursors
    /\ turn \in Workers \cup {NoWorker}
    /\ together \in BOOLEAN

\* What is stored is what the stream wanted of everything up to its cursor, in
\* order, without a gap and without a duplicate, as far as it is retained: in
\* one process or several, whichever batches fail, stop or overlap.
StoredUpToCursor ==
    \A s \in Streams :
        /\ file[s].events =
              Retained(InOrder({e \in Wanted[s] : e <= ReadUpTo(file[s].cursor)}))
        /\ Len(file[s].events) <= Retention

\* Within one process what was committed stays: no batch of any stream writes
\* an older cursor over a newer one, its own or another stream's.
CommittedStays ==
    [][together => \A s \in Streams :
          ReadUpTo(file'[s].cursor) >= ReadUpTo(file[s].cursor)]_file

Disturbed == Crash \/ \E w \in Workers : WriteFails(w)

\* Within one process every event is stored unless the RPC forgets what comes
\* after the cursor: conflicts, refused reads, and failures and restarts that
\* come to an end only put it off.
CatchesUp ==
    <>[][~Disturbed]_eventVars =>
        \A n \in Positions :
            together /\ head >= n ~>
                \A s \in Streams :
                    ReadUpTo(file[s].cursor) >= n \/ ~Available(file[s].cursor)

=============
