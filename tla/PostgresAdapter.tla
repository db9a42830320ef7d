---------------------------- MODULE PostgresAdapter ----------------------------
(***************************************************************************)
(* The connection to Postgres and the chain of mirror operations.          *)
(*                                                                         *)
(* An operation first asks for the connection, then joins the chain, whose *)
(* operations run one after the other, once each.  The connection counts   *)
(* as made before the schema is applied: while that is awaited, operations *)
(* that ask join the chain at once, ahead of those that asked earlier and  *)
(* still wait.  A connection whose attempt fails is given up with all that *)
(* wait for it, and the next operation tries again; one whose schema is    *)
(* applied is kept for the life of the process.                            *)
(***************************************************************************)
EXTENDS Naturals, Sequences

CONSTANT Hydration  \* the operation that fills memory at the start of the process

VARIABLES
    link,     \* the pool: none, tried, in use while the schema is applied, closed, or kept
    waiting,  \* the operations that wait for the connection
    queue     \* the operations in the chain

adapterVars == <<link, waiting, queue>>

\* The hydration is the first operation of the process.
AdapterInit ==
    /\ link = "connecting"
    /\ waiting = <<Hydration>>
    /\ queue = <<>>

Pending == Len(waiting) + Len(queue)
InQueue(w) == \E n \in 1 .. Len(queue) : queue[n] = w
IsWaiting(w) == \E n \in 1 .. Len(waiting) : waiting[n] = w
IsPending(w) == IsWaiting(w) \/ InQueue(w)

\* this.pool && this.connected
Ready == link \in {"migrating", "up"}

\* ensurePool, then enqueueMirror for each operation.
Call(work) ==
    IF Ready
    THEN /\ queue' = queue \o work
         /\ UNCHANGED <<link, waiting>>
    ELSE /\ waiting' = waiting \o work
         /\ link' = IF link = "down" THEN "connecting" ELSE link
         /\ UNCHANGED queue

\* The first operation of the chain runs, or fails without a retry.  Without a
\* pool every operation fails.
Runs(w) == queue # <<>> /\ Head(queue) = w /\ queue' = Tail(queue) /\ UNCHANGED <<link, waiting>>
HasPool == link # "down"

-----------------------------------------------------------------------------
(* doConnect *)

\* SELECT 1 is answered.
Connects ==
    /\ link = "connecting"
    /\ link' = "migrating"
    /\ UNCHANGED <<waiting, queue>>

\* The schema is applied, and what waits joins the chain.
Migrated ==
    /\ link = "migrating"
    /\ link' = "up"
    /\ queue' = queue \o waiting
    /\ waiting' = <<>>

\* The schema is refused: the connection counts as lost while the pool is closed.
MigrationFails ==
    /\ link = "migrating"
    /\ link' = "closing"
    /\ UNCHANGED <<waiting, queue>>

\* The attempt has failed, and what waits for it returns without being run.
GivesUp ==
    /\ link \in {"connecting", "closing"}
    /\ link' = "down"
    /\ waiting' = <<>>
    /\ UNCHANGED queue

\* The operations of the other tables try to connect too.
OthersCall ==
    /\ link = "down"
    /\ Call(<<>>)

\* The process starts again.
Restarted ==
    /\ link' = "connecting"
    /\ waiting' = <<Hydration>>
    /\ queue' = <<>>

=============
