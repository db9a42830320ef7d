------------------------------ MODULE Watchlist ------------------------------
(***************************************************************************)
(* The watchlist of one wallet, mirrored to Postgres, and the erasure of   *)
(* the wallet's data.                                                      *)
(*                                                                         *)
(* Memory is the source of truth.  Additions and removals are handed to    *)
(* the adapter, which writes each once, or not at all.  An erasure empties *)
(* memory at once and, past the adapter's chain, the table when there is a *)
(* connection; it succeeds if nothing of the wallet is found in memory     *)
(* then.  A rescan awaits its agents between reading its entry and         *)
(* recording its run.                                                      *)
(*                                                                         *)
(* Runs are kept of no more than their entry, and only of entries that     *)
(* are not watched: what a scan leaves of an entry that went meanwhile.    *)
(***************************************************************************)
EXTENDS PostgresAdapter

CONSTANTS
    Tokens,      \* identity keys
    EntryIds,    \* bound: the ids that may be minted for a token
    MaxRows,     \* bound: rows of an imported file that are not watched
    Scanners,    \* rescans under way
    MaxWrites,   \* bound: operations that the adapter holds
    MaxReboots,  \* bound: restarts of the process
    NoEntry

Entries == Tokens \X EntryIds
TokenOf(e) == e[1]

ASSUME WatchlistAssumption ==
    /\ MaxRows \in Nat /\ MaxWrites \in Nat /\ MaxReboots \in Nat
    /\ NoEntry \notin Entries

Insert(e) == [op |-> "insert", entry |-> e]
Delete(e) == [op |-> "delete", entry |-> e]
EntryWrites == {Insert(e) : e \in Entries} \cup {Delete(e) : e \in Entries}

ASSUME LoadAssumption == Hydration \notin EntryWrites

NoErasure == [pc |-> "idle", of |-> {}]

VARIABLES
    watched,  \* the entries in memory
    orphans,  \* the entries that are not, with a run in memory
    made,     \* the entries ever made: no id is used twice
    scanning, \* the entry each rescan has read
    loading,  \* whether the hydration will fill the array in use, or has run
    erasure,  \* how far the erasure under way is, with the entries made before it
    table,    \* the rows
    reboots,
    removed,    \* history: the entries removed one by one
    undeleted,  \* history: those whose deletion failed, was lost or left their insertion behind
    erased,     \* history: the entries made before an erasure that succeeded
    late,       \* history: those with a write or a rescan under way at its DELETE
    unreached,  \* history: those with a row, a write or a rescan when it got no connection
    apart       \* history: what memory and table cannot agree about before a restart

removalVars == <<removed, undeleted>>
recordVars == <<removalVars, erased, late, unreached, apart>>
memoryVars == <<watched, orphans, made, scanning>>
watchVars == <<memoryVars, loading, erasure, table, reboots, recordVars>>
allWatchVars == <<watchVars, adapterVars>>

WatchInit ==
    /\ AdapterInit
    /\ watched = {}
    /\ orphans = {}
    /\ made = {}
    /\ scanning = [s \in Scanners |-> NoEntry]
    /\ loading = "waits"
    /\ erasure = NoErasure
    /\ table = {}
    /\ reboots = 0
    /\ removed = {} /\ undeleted = {}
    /\ erased = {} /\ late = {} /\ unreached = {} /\ apart = {}

Watching(t) == \E e \in watched : TokenOf(e) = t

\* Memory's arrays are replaced by filtered copies: a hydration that waits goes
\* on with the old ones.
Detached == IF loading = "waits" THEN "detached" ELSE loading

-----------------------------------------------------------------------------
(* The handlers *)

\* A new entry for each row, written in the order of the rows.
AddAll(rows) ==
    \E new \in [1 .. Len(rows) -> Entries \ made] :
        /\ \A n \in 1 .. Len(rows) : TokenOf(new[n]) = rows[n]
        /\ \A n, m \in 1 .. Len(rows) : n # m => new[n] # new[m]
        /\ Pending + Len(rows) <= MaxWrites
        /\ made' = made \cup {new[n] : n \in 1 .. Len(rows)}
        /\ watched' = watched \cup {new[n] : n \in 1 .. Len(rows)}
        /\ Call([n \in 1 .. Len(rows) |-> Insert(new[n])])
        /\ UNCHANGED <<orphans, scanning, loading, erasure, table, reboots, recordVars>>

\* POST /watchlist waits for the hydration; an identity that is watched is
\* answered with its entry.
Add(t) ==
    /\ loading = "done"
    /\ ~Watching(t)
    /\ AddAll(<<t>>)

\* POST /watchlist/import does not wait.  Rows of identities that are watched are
\* skipped, but the rows of one file are not compared with each other.
Import(rows) ==
    /\ \A n \in 1 .. Len(rows) : ~Watching(rows[n])
    /\ AddAll(rows)

\* Mutant: the deletion is sent past the chain.
RemoveAtOnce(e) ==
    /\ e \in watched
    /\ Pending < MaxWrites
    /\ watched' = watched \ {e}
    /\ loading' = Detached
    /\ queue' = <<Delete(e)>> \o queue
    /\ removed' = removed \cup {e}
    /\ UNCHANGED <<orphans, made, scanning, erasure, table, reboots, link, waiting,
                   undeleted, erased, late, unreached, apart>>

\* DELETE /watchlist/[id] does not wait either.  A deletion that joins the chain
\* while the insertion waits for the connection leaves the insertion behind.
RemoveEntry(e) ==
    LET overtakes == {f \in {e} : Ready /\ IsWaiting(Insert(e))} IN
    /\ e \in watched
    /\ Pending < MaxWrites
    /\ watched' = watched \ {e}
    /\ loading' = Detached
    /\ Call(<<Delete(e)>>)
    /\ removed' = removed \cup {e}
    /\ undeleted' = undeleted \cup overtakes
    /\ apart' = apart \cup overtakes
    /\ UNCHANGED <<orphans, made, scanning, erasure, table, reboots, erased, late, unreached>>

\* Removals and erasures of other wallets replace the arrays of all.
OthersReplace ==
    /\ loading = "waits"
    /\ loading' = "detached"
    /\ UNCHANGED <<memoryVars, erasure, table, reboots, recordVars, adapterVars>>

ScanBegin(s, e) ==
    /\ loading = "done"
    /\ scanning[s] = NoEntry
    /\ e \in watched
    /\ scanning' = [scanning EXCEPT ![s] = e]
    /\ UNCHANGED <<watched, orphans, made, loading, erasure, table, reboots, recordVars,
                   adapterVars>>

\* The run is added whether or not the entry is still there.
ScanEnd(s) ==
    /\ scanning[s] # NoEntry
    /\ orphans' = IF scanning[s] \in watched THEN orphans ELSE orphans \cup {scanning[s]}
    /\ scanning' = [scanning EXCEPT ![s] = NoEntry]
    /\ UNCHANGED <<watched, made, loading, erasure, table, reboots, recordVars, adapterVars>>

-----------------------------------------------------------------------------
(* The erasure *)

\* eraseWalletDataFromMemory, and the call for a connection.
EraseMemory ==
    /\ erasure.pc = "idle"
    /\ erasure' = [pc |-> IF Ready THEN "deleting" ELSE "asking", of |-> made]
    /\ Call(<<>>)
    /\ watched' = {}
    /\ orphans' = {}
    /\ loading' = Detached
    /\ UNCHANGED <<made, scanning, table, reboots, recordVars>>

\* What waits or is under way while the rows go.
UnderWay == {e \in Entries : IsPending(Insert(e)) \/ \E s \in Scanners : scanning[s] = e}

\* The DELETE of deleteWalletDataFromPg takes the rows added meanwhile too.
EraseTable ==
    /\ erasure.pc = "deleting"
    /\ erasure' = [erasure EXCEPT !.pc = "checking"]
    /\ table' = {}
    /\ late' = late \cup UnderWay
    /\ apart' = apart \cup UnderWay \cup (table \cap watched)
    /\ UNCHANGED <<memoryVars, loading, reboots, adapterVars, removalVars, erased, unreached>>

\* A DELETE fails: so does the erasure, which may be tried again.
EraseFails ==
    /\ erasure.pc = "deleting"
    /\ erasure' = NoErasure
    /\ apart' = apart \cup table \cup UnderWay
    /\ UNCHANGED <<memoryVars, loading, table, reboots, adapterVars, removalVars,
                   erased, late, unreached>>

\* Mutant: the receipt is given without the residue check.
EraseEndsUnchecked ==
    /\ erasure.pc = "checking"
    /\ erasure' = NoErasure
    /\ erased' = erased \cup erasure.of
    /\ UNCHANGED <<memoryVars, loading, table, reboots, adapterVars, removalVars,
                   late, unreached, apart>>

\* The deletions from the tables that follow may fail too, and so does an erasure
\* whose residue check finds something of the wallet in memory.
EraseEnds ==
    /\ erasure.pc = "checking"
    /\ erasure' = NoErasure
    /\ erased' \in {erased} \cup
          {erased \cup of : of \in IF watched \cup orphans = {} THEN {erasure.of} ELSE {}}
    /\ UNCHANGED <<memoryVars, loading, table, reboots, adapterVars, removalVars,
                   late, unreached, apart>>

-----------------------------------------------------------------------------
(* The queue and the table *)

\* The unique index on (wallet, identity).
Taken(e) == \E f \in table \ {e} : TokenOf(f) = TokenOf(e)

\* Mutant: the upsert goes by identity, and the later entry takes the row.
FlushInsertOver(e) ==
    /\ HasPool
    /\ Runs(Insert(e))
    /\ table' = {f \in table : TokenOf(f) # TokenOf(e)} \cup {e}
    /\ UNCHANGED <<memoryVars, loading, erasure, reboots, recordVars>>

\* insert ... on conflict (id): a second row of an identity is refused, and the
\* failure is swallowed.
FlushInsert(e) ==
    /\ HasPool
    /\ Runs(Insert(e))
    /\ table' = IF Taken(e) THEN table ELSE table \cup {e}
    /\ apart' = IF Taken(e) THEN apart \cup {e} ELSE apart
    /\ UNCHANGED <<memoryVars, loading, erasure, reboots, removalVars, erased, late, unreached>>

\* Runs and alerts of the entry go with its row.
FlushDelete(e) ==
    /\ HasPool
    /\ Runs(Delete(e))
    /\ table' = table \ {e}
    /\ apart' = IF IsPending(Insert(e)) THEN apart ELSE apart \ {e}
    /\ UNCHANGED <<memoryVars, loading, erasure, reboots, removalVars, erased, late, unreached>>

\* The database is away: one attempt, no retry, and the queue goes on.
FlushWriteFails(e) ==
    /\ Runs(Insert(e)) \/ Runs(Delete(e))
    /\ apart' = apart \cup {e}
    /\ undeleted' = IF Head(queue) = Delete(e) THEN undeleted \cup {e} ELSE undeleted
    /\ UNCHANGED <<memoryVars, loading, erasure, table, reboots,
                   removed, erased, late, unreached>>

\* hydrateWatchlistTables: the rows that memory lacks join the arrays that were
\* in use when the process started, and are seen if these still are.
LoadTable ==
    /\ HasPool
    /\ Runs(Hydration)
    /\ watched' = IF loading = "waits" THEN watched \cup table ELSE watched
    /\ apart' = IF loading = "waits" THEN apart ELSE apart \cup (table \ watched)
    /\ loading' = "done"
    /\ UNCHANGED <<orphans, made, scanning, erasure, table, reboots, removalVars,
                   erased, late, unreached>>

\* A hydration that fails is not tried again.
LoadTableFails ==
    /\ Runs(Hydration)
    /\ loading' = "done"
    /\ apart' = apart \cup (table \ watched)
    /\ UNCHANGED <<memoryVars, erasure, table, reboots, removalVars, erased, late, unreached>>

-----------------------------------------------------------------------------
(* The connection *)

\* An erasure that waits for the connection goes on with it.
ConnectionComes ==
    /\ Connects \/ Migrated \/ MigrationFails \/ OthersCall
    /\ erasure' = IF link' = "up" /\ erasure.pc = "asking" THEN [erasure EXCEPT !.pc = "deleting"]
                  ELSE erasure
    /\ UNCHANGED <<memoryVars, loading, table, reboots, recordVars>>

\* Without a connection nothing is written, the hydration restores nothing, and
\* deleteWalletDataFromPg returns as if it had found nothing to delete.  The end
\* of the pool waits for a DELETE under way.
ConnectionLost ==
    /\ GivesUp
    /\ erasure.pc # "deleting"
    /\ erasure' = IF erasure.pc = "asking" THEN [erasure EXCEPT !.pc = "checking"] ELSE erasure
    /\ loading' = IF IsWaiting(Hydration) THEN "done" ELSE loading
    /\ undeleted' = undeleted \cup {e \in Entries : IsWaiting(Delete(e))}
    /\ unreached' = IF erasure.pc = "asking" THEN unreached \cup table \cup UnderWay ELSE unreached
    /\ apart' = apart \cup {e \in Entries : IsWaiting(Insert(e)) \/ IsWaiting(Delete(e))}
                \cup IF erasure.pc = "asking" THEN (table \cup UnderWay) \ watched
                     ELSE IF IsWaiting(Hydration) THEN table \ watched ELSE {}
    /\ UNCHANGED <<memoryVars, table, reboots, removed, erased, late>>

\* The process dies and starts again: what is left is the table.
Reboot ==
    /\ reboots < MaxReboots
    /\ reboots' = reboots + 1
    /\ Restarted
    /\ watched' = {}
    /\ orphans' = {}
    /\ scanning' = [s \in Scanners |-> NoEntry]
    /\ loading' = "waits"
    /\ erasure' = NoErasure
    /\ undeleted' = undeleted \cup {e \in Entries : IsPending(Delete(e))}
    /\ apart' = {}
    /\ UNCHANGED <<made, table, removed, erased, late, unreached>>

WatchNext ==
    \/ \E t \in Tokens : Add(t)
    \/ \E n \in 1 .. MaxRows : \E rows \in [1 .. n -> Tokens] : Import(rows)
    \/ \E e \in Entries :
          \/ RemoveEntry(e)
          \/ \E s \in Scanners : ScanBegin(s, e)
          \/ FlushInsert(e) \/ FlushDelete(e) \/ FlushWriteFails(e)
    \/ \E s \in Scanners : ScanEnd(s)
    \/ EraseMemory \/ EraseTable \/ EraseFails \/ EraseEnds
    \/ OthersReplace
    \/ LoadTable \/ LoadTableFails
    \/ ConnectionComes \/ ConnectionLost
    \/ Reboot

WatchSpec == WatchInit /\ [][WatchNext]_allWatchVars

-----------------------------------------------------------------------------
(* Properties *)

WatchTypeOK ==
    /\ watched \subseteq Entries
    /\ orphans \subseteq Entries \ watched
    /\ made \subseteq Entries
    /\ scanning \in [Scanners -> Entries \cup {NoEntry}]
    /\ loading \in {"waits", "detached", "done"}
    /\ erasure \in [pc : {"idle", "asking", "deleting", "checking"}, of : SUBSET Entries]
    /\ table \subseteq Entries
    /\ link \in {"down", "connecting", "migrating", "closing", "up"}
    /\ waiting \in Seq(EntryWrites \cup {Hydration})
    /\ queue \in Seq(EntryWrites \cup {Hydration})
    /\ link \in {"down", "up"} => waiting = <<>>
    /\ reboots \in 0 .. MaxReboots

\* What the user removes comes back only if its deletion failed, was given up with
\* the connection, was lost with the process, or went ahead of its insertion while
\* the schema was being applied: a hydration never shows an entry between its
\* addition and its removal, and no other write that waits makes the row again.
RemovedStaysRemoved ==
    \A e \in removed : e \in watched => e \in undeleted

\* After an erasure that succeeded, what was made before it is in memory or in the
\* table only if its insertion waited, or a rescan of it was under way, while the
\* rows were deleted, or if the erasure got no connection and reported success.
ErasedComesBackLate ==
    \A e \in erased : e \in watched \cup orphans \cup table => e \in late \cup unreached

\* "On partial failure (e.g. PG unreachable): ok: false": an erasure that reports
\* success has deleted the rows, but for those of writes and rescans under way.
SuccessReachesTable ==
    \A e \in erased : e \in table => e \in late

\* Once its writes have run, an entry has a row if and only if it is watched,
\* but for what is known to part them until the next restart: a write that failed,
\* was given up or that the unique index refused, a deletion that left its
\* insertion behind, a hydration that failed or filled arrays no longer in use, an
\* erasure that was overtaken or got no connection.
TableFollowsMemory ==
    \A e \in Entries :
        /\ loading = "done"
        /\ erasure.pc \notin {"asking", "deleting"}
        /\ ~IsPending(Insert(e)) /\ ~IsPending(Delete(e))
        /\ e \notin apart
        => (e \in watched <=> e \in table)

=============
