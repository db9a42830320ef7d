----------------------------- MODULE ServerCache -----------------------------
(***************************************************************************)
(* The server's cache of what its providers answer, for one key: getOrLoad *)
(* over MemoryCacheStore and SingleFlight, and the invalidations with      *)
(* which the store follows a change of a wallet's records.                 *)
(*                                                                         *)
(* A load awaits providers and looks at the world at some moment of its    *)
(* own; whatever is invalidated while it is under way, it stores its value *)
(* when it ends.  Readers that miss share one load and are answered by it. *)
(* A hit changes nothing but the order of eviction.                        *)
(***************************************************************************)
EXTENDS Naturals

CONSTANTS
    Readers,      \* concurrent runs of getOrLoad
    Ttl,          \* ttlMs, in ticks
    StaleFor,     \* staleMs
    NegativeTtl,  \* how long a failure is remembered
    MaxVersion,   \* how often what is loaded changes: bound
    NoEntry

Lifetime == Ttl + StaleFor
Versions == 0 .. MaxVersion

Entry == [kind : {"value", "failure"}, version : Versions, age : 0 .. Lifetime,
          overtaken : BOOLEAN]

ASSUME CacheAssumption ==
    /\ Ttl \in Nat /\ StaleFor \in Nat
    /\ NegativeTtl \in 1 .. Lifetime
    /\ MaxVersion \in Nat
    /\ NoEntry \notin Entry

VARIABLES
    data,     \* the version of what the loader would see now
    entry,    \* the store's entry
    load,     \* the load that SingleFlight has under way, with what it has seen
    waiting,  \* the readers that await it
    since     \* history: the version at the last invalidation

cacheVars == <<data, entry, load, waiting, since>>

LoadRecord == [pc : {"none", "begun", "seen"}, version : Versions, overtaken : BOOLEAN]

NoLoad == [pc |-> "none", version |-> 0, overtaken |-> FALSE]
BegunLoad == [NoLoad EXCEPT !.pc = "begun"]

CacheInit ==
    /\ data = 0
    /\ entry = NoEntry
    /\ load = NoLoad
    /\ waiting = {}
    /\ since = 0

-----------------------------------------------------------------------------
(* The store *)

HasValue == entry # NoEntry /\ entry.kind = "value"

Fresh == HasValue /\ entry.age < Ttl

\* Mutant: the end of staleness is not looked at.
StaleForEver == HasValue /\ entry.age >= Ttl

Stale == HasValue /\ entry.age >= Ttl /\ entry.age < Lifetime

Negative == entry # NoEntry /\ entry.kind = "failure" /\ entry.age < NegativeTtl

Missing == ~Fresh /\ ~Stale /\ ~Negative

ValueOf(l) ==
    [kind |-> "value", version |-> l.version, age |-> 0, overtaken |-> l.overtaken]

Failure == [kind |-> "failure", version |-> 0, age |-> 0, overtaken |-> FALSE]

-----------------------------------------------------------------------------
(* getOrLoad *)

\* The load under way is joined, or one is begun.
Joined == IF load.pc = "none" THEN BegunLoad ELSE load

\* A stale value is answered at once, and a load that nobody awaits begins.
ReadStale ==
    /\ Stale
    /\ load' = Joined
    /\ UNCHANGED <<data, entry, waiting, since>>

\* The reader awaits the load; an entry that has expired is deleted.
ReadMiss(r) ==
    /\ Missing
    /\ r \notin waiting
    /\ entry' = NoEntry
    /\ load' = Joined
    /\ waiting' = waiting \cup {r}
    /\ UNCHANGED <<data, since>>

\* The providers answer the loader.
LoadSees ==
    /\ load.pc = "begun"
    /\ load' = [pc |-> "seen", version |-> data, overtaken |-> FALSE]
    /\ UNCHANGED <<data, entry, waiting, since>>

\* The value is stored, and those who wait are answered.
LoadEnds ==
    /\ load.pc = "seen"
    /\ entry' = ValueOf(load)
    /\ load' = NoLoad
    /\ waiting' = {}
    /\ UNCHANGED <<data, since>>

\* The failure takes the place of the entry, of one that could still be served
\* too.
LoadFails ==
    /\ load.pc # "none"
    /\ entry' = Failure
    /\ load' = NoLoad
    /\ waiting' = {}
    /\ UNCHANGED <<data, since>>

-----------------------------------------------------------------------------
(* The world, the records and the clock *)

WorldMoves ==
    /\ data < MaxVersion
    /\ data' = data + 1
    /\ UNCHANGED <<entry, load, waiting, since>>

\* Mutant: what is served while it is stale is spared.
InvalidateFresh ==
    /\ entry' = IF Stale THEN entry ELSE NoEntry
    /\ load' = [load EXCEPT !.overtaken = load.pc = "seen"]
    /\ since' = data
    /\ UNCHANGED <<data, waiting>>

\* A record of the wallet was written: its tag's entries go.  A load under way
\* is not told; the model remembers that it was overtaken.
Invalidate ==
    /\ entry' = NoEntry
    /\ load' = [load EXCEPT !.overtaken = load.pc = "seen"]
    /\ since' = data
    /\ UNCHANGED <<data, waiting>>

\* The store is full and this entry the least recently used.
Evict ==
    /\ entry # NoEntry
    /\ entry' = NoEntry
    /\ UNCHANGED <<data, load, waiting, since>>

CacheTick ==
    /\ entry # NoEntry
    /\ entry.age < Lifetime
    /\ entry' = [entry EXCEPT !.age = @ + 1]
    /\ UNCHANGED <<data, load, waiting, since>>

-----------------------------------------------------------------------------

CacheNext ==
    \/ ReadStale \/ LoadSees \/ LoadEnds \/ LoadFails
    \/ WorldMoves \/ Invalidate \/ Evict \/ CacheTick
    \/ \E r \in Readers : ReadMiss(r)

\* Time passes.  Nobody need ever read, and no load need end.
CacheSpec == CacheInit /\ [][CacheNext]_cacheVars /\ WF_cacheVars(CacheTick)

-----------------------------------------------------------------------------
(* Properties *)

\* The type invariant.
CacheTypeOK ==
    /\ data \in Versions
    /\ entry \in Entry \cup {NoEntry}
    /\ load \in LoadRecord
    /\ waiting \subseteq Readers
    /\ since \in Versions

Served == Fresh \/ Stale

\* What was invalidated is not served again, by whatever joined loads, stale
\* answers and failures follow, unless a load that had looked at the world
\* before the invalidation ended after it.
ComesBackOvertaken == Served /\ entry.version < since => entry.overtaken

\* Even then not for good: once the world rests, the value that is served is
\* the current one from some moment on, though nothing invalidates it, a load
\* ends at any time and a stale value is answered without waiting.
ServesCurrent == <>[][data' = data]_cacheVars => <>[](Served => entry.version = data)

=============
