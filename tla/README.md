# TLA+ models of golden-raccoon

golden-raccoon is a Web3 risk platform. Its server prepares transactions, has the user
approve and sign them, and follows them to finality; its contracts (Solidity and
Soroban) bound what an agent may do with a user's funds, record what it decided, and
put administrative changes behind several signers and a delay. This project models
the parts whose correctness depends on the order of events, checks them with TLC on
small instances and proves their most important invariants with TLAPS for every value
of the constants.

Paths below are those of the repository. `PROJECT.json` maps every definition to the
lines it models and lists runs, mutants, hazards, findings and theorems.

## 1. The system

### Transactions (the server, `frontend/src/server`)

The server is one JavaScript process: a handler runs without interruption between two
awaits, and other handlers run while it waits.

| component | state | operations | talks to |
|---|---|---|---|
| lifecycle manager (`transactions/lifecycleManager.ts`) | none of its own | prepare, submit, confirm, poll, reject, expire | store, chain adapters |
| store (`storage/index.ts`) | transaction records; index by hash; newest record of an idempotency key | create, update, remove, find | mirror |
| Postgres mirror (`storage/postgresAdapter.ts`, `storage/schema.sql`) | the connection; operations that wait for it; the chain of those that run one by one; the tables | connect and apply the schema, enqueue, write once, hydrate at start | database |
| chain adapters (`transactions/adapters`) | none | derive the hash, broadcast, observe | RPC providers |
| approval flow and execute routes | approval's expiry | approve and the five routes | lifecycle manager |

A chain is behind it all: it includes transactions, replaces blocks and forgets what it
never included, while the adapter's calls to an RPC endpoint fail one by one.

*Hard:* handlers go on after an await with the record they had read before it; the same
payload can be submitted twice; several polls of one record interleave; writes to the
database are lost by a failure or a restart, given up with a connection, or run ahead of
older ones. *Correct means:* a signed transaction is
broadcast once; `confirmed` and `dropped` rest on evidence; what is terminal stays so;
the table catches up with memory.

### Contracts

| component | state | operations | talks to |
|---|---|---|---|
| governance, Soroban (`soroban/contracts/governance`) | signers, threshold, delays, pause, proposals with a snapshot of signers | initialize, propose, sign, execute, cancel, update_signers, update_delays, pause | nobody: execute records |
| timelock, EVM (`backend/contracts/contracts/GoldRaccoonTimelock.sol`) | the same without snapshots, a cache `isSigner`, a counter of signatures | the same | calls the target, which may call back |
| policy, Soroban (`soroban/contracts/policy`) | limits, asset lists, decisions, intents, daily spend | set_limits, apply_policy, create/execute/revoke intent, check_daily_spend, pause | |
| vault, Soroban (`soroban/contracts/vault`) | balances, consumed intents | deposit, withdraw | policy, token |
| audit registry, Soroban (`soroban/contracts/audit-registry`) | policy and grants of a user, pause, temporary marks of intents, published events | set policy, authorize, revoke, pause, log decision, record intent | indexers |
| risk registry, Soroban (`soroban/contracts/risk-registry`) | records with version and time | publish, revoke | readers |
| policy and vault, EVM (`GoldRaccoonPolicy.sol`, `GoldRaccoonVault.sol`) | the same, the daily spend by agent and calendar day | the same | the vault: policy, and a token whose code may call back |
| audit, EVM (`GoldenRaccoonAudit.sol`) | twin of the audit registry whose marks never end | | |

*Hard:* parameters change while proposals are pending; reentrancy and reverts, of the
timelock's target and of the vault's token; limits
that change between decision, intent and payment; expiry in seconds against time to
live in ledgers. *Correct means:* the promise of a multisig timelock; no payment without
an authorisation that covers it, none from somebody else's deposit; an event log that
justifies itself, without replays.

### The rest of the server

| component | state | what is hard | what makes it correct |
|---|---|---|---|
| provider adapter and circuit breaker (`providers/adapter.ts`) | a circuit per provider | calls share a circuit across awaits, retries, time-outs and cancellation | the circuit follows the failures counted; a probe leaves no mark behind; an open circuit is tried again |
| cache (`cache`) | entries, tags, the load under way | invalidation during a load; a stale entry refreshed in the background | what is invalidated comes back only by a load it overtook, and not for good |
| alert engine and deliveries (`observability`) | alerts, cooldowns | runs are ingested late and in any order, deliveries are awaited, newer alerts hide older ones | one alert per condition among those a decision sees; a lasting condition is alerted, a past one cleared |
| Stellar event ingestion (`stellar/eventIngestion.ts`) | cursor and events of all streams in one file | batches ask and commit concurrently, in one process or several; crashes; the retention of RPC and file | no gap, no duplicate, no step back; everything is read in the end |
| x402 payments and settlement ledger (`x402`) | receipts, ledger entries, in memory | a receipt is stored before the paid work | a payment buys one scan; settled amounts agree |
| recovery requests (`recovery`) | requests | staleness computed at reading | a stale request is not acted on |
| auto mode (`autoMode`) | policy versions, kill switch, per wallet | confirmation of an expansion after other changes | no run outside the confirmed policy |
| watchlist (`discovery/watchlist.ts`) | entries and their scans, mirrored like the transactions | hydration while requests are served; rescans under way; the unique index | what is removed stays removed; table and memory agree |
| token discovery (`discovery`) | cursors, observations | overlapping polls, backoff | no observation skipped |
| wallet session (`security`) | signed cookies only | cryptography | |
| privacy and retention (`privacy`) | deletes the others' records | memory, mirror and table, with or without a connection | erased data does not return |
| rate limit, feature flags, rules, snapshots, portfolio, scan, simulation, agents, quotes, observability, environment, UI, read client and scripts | counters, records or none | data, not order | |

`PROJECT.json` lists each with its sources and the reason it is modelled or not.

## 2. Modules

| module | models | composition |
|---|---|---|
| `TransactionLifecycle` | lifecycle manager over the memory store, adapters that answer anything | |
| `TransactionChain` | the EVM adapter's poll and submit over a chain and an RPC endpoint that fail | EXTENDS `TransactionLifecycle` |
| `PostgresAdapter` | the connection to the database and the chain of mirror operations | |
| `TransactionMirror` | the writes of the lifecycle, the table, restarts | EXTENDS `TransactionLifecycle` and `PostgresAdapter` |
| `Watchlist` | a wallet's watchlist, its mirror and the erasure of the wallet's data | EXTENDS `PostgresAdapter` |
| `MultisigTimelock` | abstract: what both governance contracts promise, step by step and by transactions | |
| `Governance` | the Soroban governance contract | implements `MultisigTimelock` (INSTANCE, property `KeepsPromise`) |
| `Timelock` | the EVM timelock with nested calls | implements `MultisigTimelock`'s transactions (INSTANCE, property `KeepsPromise`) |
| `Amounts` | the sum of the amounts of a set of intents | EXTENDED by `Policy` and `EvmVault` |
| `Policy` | the Soroban policy | |
| `PolicyVault` | the vault over the policy | EXTENDS `Policy` |
| `EvmVault` | the EVM policy and vault over a token that calls back | |
| `AuditRegistry` | the Soroban audit registry and its event log | |
| `ProviderCircuit` | the circuit breaker and the calls that share it | |
| `AlertEngine` | the alerts of one condition and the ingestions that evaluate it | |
| `EventIngestion` | batches of event streams, the file, the commit queue | |
| `ServerCache` | stale-while-revalidate reads, the shared load, invalidation | |
| `MC...` | instances for TLC | EXTENDS the modules they instantiate |
| `...Proofs` | theorems and their proofs | EXTENDS the modules and TLAPS |

`MCRaces`, `MCMirror`, `MCTransactionChain`, `MCServer` and `MCContracts` hold parts that share no state. Their initial
states choose the part that runs, and the others keep still, so that one run is the union
of the parts' state graphs and not their product.

### TransactionLifecycle

`rec` is the memory store by record id, `newest` what a key finds. One action is the
code between two awaits:

* `submitTransaction` has three pieces: `SubmitBegin` (lookup by key, early returns),
  `SubmitKnownHash` or `SubmitRecord` (after the hash is known: duplicate check, removal of
  the placeholder, creation), `SubmitEnd` (after the broadcast: the status is written
  without reading it again). `submitter[s].held` is the record the call read before its
  first await.
* `pollTransaction` has two: `PollBegin` reads the record into `poller[p].view`, then
  `PollNewEvidence`, `PollRepeatedAbsence` or `PollRepeatedEvidence` decides from that
  copy and merges into the record of the moment. `PollExhausted` is the early return at
  the attempt limit. `ConfirmUnknown` is a confirm call for a hash the store does not
  have, followed by its poll.
* `Prepare`, `Reject`, `ExpireIfStale` and `ApproveTooLate` have no await.

`DecidedStatus` and `Reconciled` are `reconcileObservation`; `Allowed` is the
`TRANSITIONS` table, and `Checked` what `assertTransition` makes of a decision the table
refuses. `observed` holds the observations stored for each record, by which a repeated
answer is recognised. `broadcasts` and `absences` are histories no guard reads: calls of
the adapter's broadcast, and absences answered, counted up to three. An adapter's answer
is any member of `Evidence`, so the properties here speak about answers.

### TransactionChain

Here the answers come from a chain. `at` and `receipt` say where a transaction is and how
deep; blocks less deep than finality (`Required`) may be replaced. The EVM adapter's poll has
two awaits of its own: the `Find...` and `Error...` actions are what it makes of transaction
and receipt, asked for together and failing independently; `ReadHead` and `ReadNoHead`
relate the receipt it holds in `reading` to a head of a later moment. `Accepted` and
`Refused` are the two ends of a broadcast; a lost answer looks like a refusal. `past` is a history of
what may excuse a record's status, read by no guard. `FailureLost` is the one way in which a record
stays open for good: a poll stored `failed`, another that held an older answer overwrote
it, and every later poll finds the same revert, which is repeated evidence and counts no attempt.

### PostgresAdapter

An operation awaits `ensurePool` before it joins the chain. `connect` sets `connected` and only
then awaits the schema (`postgresAdapter.ts:300-303`), so there are three places an operation can
be: `waiting` for the connection, in `queue`, or run. `link` is the state of the pool: `connecting`
and `migrating` are the two awaits of `doConnect`, `closing` the end of a pool whose schema was
refused, `down` and `up` what comes of it. `Call` is `ensurePool` and `enqueueMirror`: in
`migrating` and `up` an operation joins the chain at once, and in `migrating` it so gets ahead of
all that wait. `Migrated` lets these join; `GivesUp` makes them return without having run; the next
operation tries again. `Runs` is the head of the chain, tried once. A connection that was made is kept
until the process ends, for the pool replaces its sockets itself. That `pg` is installed and a database
configured is assumed: without them nothing is mirrored.

### TransactionMirror

Every create and update calls the adapter with the row (`Enqueue`). `Flush` writes one (and drops
it when the unique index on wallet and key refuses it), `FlushFails` loses it, as the
code swallows the error. The hydration is the first operation called after `Restart`, not
the first to run, and restores nothing, because the statements that read the transactions fail
on the first row whose `jsonb` column was already parsed (`postgresAdapter.ts:891`) and the failure
is swallowed. Removal of a placeholder is not mirrored. A handler that runs writes memory and calls
the adapter in the same step. `lost` and `reordered` are histories: the records whose last write
failed or was given up, and those whose newest write left an older one behind in `waiting`.

### Watchlist

`watched` is the array of entries in memory, `table` the rows. Each write is tried once
(`FlushWriteFails`) and a deletion can run ahead of the insertion that waits. Removal and erasure
*replace* the array while the hydration goes on with the one it was given, so `loading` tells
whether its rows will be seen. Addition and rescan wait for the hydration, import and removal do not.
An erasure empties memory (`EraseMemory`) and asks for the connection: with one it deletes past
the chain (`EraseTable` or `EraseFails`), without one `ConnectionLost` lets it go on as if there had been nothing
to delete (`postgresAdapter.ts:1104-1106`), and `EraseEnds` looks for residues in memory only.
Everything else may happen in between. One erasure runs at a time. Of the runs a scan stores, only
those that outlive their entry are kept (`orphans`), as the residue check looks for them. `removed`,
`undeleted`, `erased`, `late`, `unreached` and `apart` are histories.

### Governance and Timelock

A Soroban invocation is atomic, so `Governance` has one action per entry point. A
proposal id hashes proposer, change, delay and ledger time; the tuple stands for the hash.
The refinement maps a proposal to its state, the time it was opened and its signatures;
`Quorums` are the sets of at least two accounts, the smallest threshold the contract
accepts.

`Timelock.execute` calls the target in the middle. `calls` is the stack of executions
under way, each with the storage its revert brings back. `CallReturns` and `CallReverts`
end the innermost one, and any other action taken while the stack is not empty is what
the target's code does. A proposal's `done` counts the calls of it that returned.
`Committed` is what the chain has of the proposals: while a call runs, those from before the
outermost one, for all that happened since may still be undone. What the end of that call leaves
may be many steps at once, so the refinement maps `Committed` to the coarser form of the
promise, `TransactionSpec`: a transaction moves each proposal on by the rules or leaves it alone.
`Governance` keeps that form too (`PromiseKeptByTransactions`).

### Policy and PolicyVault

A decision or intent is stored under the hash of its content; the record stands for
its hash. One clock counts ledgers and stands for their timestamps too. Every call
reserved to owner, emergency admin or agent may come at any time: who holds these roles is
left out, and so no property is about them. `Charge` is `check_daily_spend` with its
window: the charge that opens a window replaces the sum (`Opens`), any other adds to it (`Adds`). The entry
point is public and takes negative amounts, which make room for more intents; `refunded` is the history of what
they gave back since the window opened, and `MaxRefund` bounds it. `Withdraw` asks `IntentValid` of the
policy, consumes the intent, moves the token. The token contract is external.

### EvmVault

The EVM twins differ where it is hard. `deposit` and `withdraw` call the token in the
middle: `transfers` is the stack of these calls, each with everything its revert brings back,
and what happens while it is not empty is what the token's code does. The token itself is external and
assumed to move what it is told to, at any moment of its call, or to revert; one that keeps a
fee is outside the model. `Spend` is `_checkDailySpend`, which has a count per agent and one day of
the last reset for all. `PlanValid` is `getIntentValidity`, which asks neither pause nor limits
nor assets, so a withdrawal is stopped only by revocation, execution or expiry.

### AuditRegistry

The contract's product is its events, so the model keeps the log whole. A temporary entry
marks an intent; `LiveLedgers` is the code's division of the time left by five seconds per
ledger, and `LedgerSeconds` is how much time really passes from one ledger to the next.

### ProviderCircuit

`Acquired`, `Counted` and `Uncounted` are the registry; a call is idle, awaits its operation or
sleeps before the next attempt. `TurnAway` contains what the code does after `acquire`
throws: the rejection is reported to the registry as a failure that does not count, which
clears the mark of whoever is the probe. Late answers of calls admitted in an earlier state of the
circuit reach it in any order.

### AlertEngine

An ingestion evaluates and stores in one piece and then awaits the deliveries; what its
agents saw was fixed when it was scheduled, and any number of others may run before it. The
decision is one action per branch (`Trigger`, `Deteriorate`, `Recover`, `Suppress`,
`Ignore`). It sees the first `listed` of the active alerts: `listAlerts` returns the 200 newest of
the wallet, and `NewerAlerts` is the moment other alerts have pushed out those of this condition, the
recovered one whose cooldown runs among them. Many kinds of observation are made of bad values only; `emitted`
is the set of values this one is made of, and `IngestNothing` what becomes of the others.
Of the deliveries the model keeps that they take time and end.

### EventIngestion

A batch loads the cursor, fetches a page, reads the file inside the commit queue, compares the
cursor, writes a temporary file and renames it. The pieces are actions with `Crash`
between any two. `together` tells whether all batches run behind one queue or in processes
of their own, which know nothing of each other. An event is its position in the ledger.

### ServerCache

One key: `getOrLoad` over the store with its fresh, stale, negative and missing entries, the
shared load and the invalidation by tag. A load looks at the world (`LoadSees`) at
some moment between its start and its end. `overtaken` and `since` are histories.

## 3. Runs

All finish within five minutes on two workers.

| run | instance | shows |
|---|---|---|
| `Races` | 2 submissions of 2 hashes, 1 poll, a key or none, Stellar; or 2 batches of 2 streams over 3 events, pages and retention of 2, in one process or two; or 2 users of the Soroban policy and vault, 2 intents of 1 or 2 with slippage 1 or 2, decisions that limit the value or the slippage to 1, daily limits 3 and 1, charges 2 and -1, 3 ledgers that are windows | `BroadcastOnce`; `StoredUpToCursor`, `CommittedStays`; `WithinDecision`, `WithinDailyLimit`; `OwnFundsOnly`, `PaymentsAuthorised` |
| `Lifecycle_evm` | 1 hash, 1 submission, 2 polls, 2 blocks, finality at depth 2, 3 attempts, expiry sweep | `TypeOK`, `ConfirmedOnEvidence`, `DroppedNeedsThreeAbsences`, `QuiescentTerminalIsFinal` |
| `Lifecycle_terminal` | 1 poll, without the sweep | `TerminalIsFinal` is violated |
| `Chain_settles` | 1 hash, finality at depth 2, 3 attempts, with fairness: every answer of the adapter, 1 poll at a time, 1 submission, 2 blocks; or 2 polls at a time of a transaction the wallet broadcast, 1 block that stays | `ConfirmedIsFinal`, `FailedHasCause`, `PollingSettles` |
| `Chain_outage` | the same with 1 poller, broadcast by the wallet | `NoOutageFails` is violated |
| `Mirror_order` | transactions: 1 key, 1 hash, 2 operations held by the adapter, 1 submission and 1 restart, or 1 poll; or watchlist: 1 token, 2 entries, imports of up to 2 rows, 1 rescan, 3 operations, 1 restart; connections that come, fail or are refused the schema | `MirrorCatchesUp`; `RemovedStaysRemoved`, `ErasedComesBackLate`, `TableFollowsMemory` |
| `Mirror_durable` | transactions without the poll, with 3 operations | `SubmittedIsDurable` is violated |
| `Erasure_unreachable` | watchlist: 1 entry, 1 operation, 1 restart | `SuccessReachesTable` is violated |
| `Governance_promise` | 3 accounts, 1 proposal, delays of 1 and 2, time to 3, lists that repeat, replace and lack a signer | `SignedBySnapshot`, `KeepsPromise` |
| `Contracts` | audit registry: 1 user, 1 agent, 2 policies, 1 intent id, 4 ledgers of 5 or 7 seconds, 5 events; or EVM timelock: 2 accounts, 2 proposals, 2 calls within one another, time to 2; or EVM policy: 2 agents, 2 intents, 2 daily limits, 3 days; or EVM vault: the same with 2 transfers within one another | `LogJustified`, `NoReplayWhileLive`; `SignersAgree`, `DoneOnce`, `ExecutedIsDone`, `ExecutedWithinRules`, `KeepsPromise`; `SpendsWithinDay`; `Solvent`, `PaidWithinPlans` |
| `Policy_day` | windows of 1 ledger, of which a day has twelve | `DailyLimitLastsADay` is violated |
| `Server_fair` | 3 calls, threshold 2, 1 retry; or 2 ingestions, levels 0 to 3, bad from 2, of a kind that observes all or the bad ones only, 1 hidden alert; or 2 batches of 2 streams; or 2 readers of the cache; with fairness | `OpenIffFailing`, `MarkHasProbe`, `EveryCallEnds`, `TriedAgain`; `OneActive`, `BadIsAlerted`, `AlertsClear`; `CatchesUp`; `ComesBackOvertaken`, `ServesCurrent` |

### Why the bounds are enough

* *Lifecycle.* A race needs two handlers of one record, and each run has two of the kind it
  is about with the other kinds around them. Three attempts replace the code's fifty:
  they are the least that let three absences drop a record, and two polls can still be at
  the limit together. Two blocks at depths one and two let a transaction move between blocks
  and lose depth, with finality between the depths. `replaced` and `expired` answers end a
  record as `failed` does and `duplicate` changes no status, so `PollEvidence` leaves them out.
* *Chain.* Records of different hashes do not touch each other there, so one is enough. One
  poll at a time is joined by the submission that overwrites its result, and a second block
  is what a reorganisation needs. Two polls overwrite each other; this part keeps the answers that
  end a record or leave it open, over a block that stays, for a third poll or a second
  block add no new pair of a stale and a stored answer.
* *Mirror.* One operation that waits and one in the chain show every order the connection
  allows, the hydration among them; one restart loses either or both. Submissions and polls of the
  transactions are looked at apart. `VIEW` hides the histories of the lifecycle, which these
  properties do not mention.
* *Watchlist.* Two entries of one token are an imported file with the token twice, or a removed
  entry and its successor, whose row the unique index refuses while the older one stands. Three
  operations are the hydration, an insertion and its deletion. Entries of different tokens meet
  only in an erasure and in the order of the writes. `EntryIds` are interchangeable.
* *Governance, Timelock.* Two is the smallest quorum; the third account allows a signer
  replaced during a proposal. Two proposals nested in one another are what reentrancy needs;
  the delays and times put execution before, at and after the moment it is allowed.
* *Policies, vaults.* Two windows or days and two limits; two intents of different decisions or
  the same one. On Soroban one decision limits the value and another the slippage, with a request
  at and above each; two intents that differ in the slippage only would share a hash; intents of 1 and
  2 and a charge that gives back 1 put the sum below, at and above the daily limits; a balance of 1
  or 2 is smaller than, equal to or larger than a payment; two users so that one could be paid
  from the other's deposit. Intents are looked at with changing limits, assets and direct charges;
  payments with requests of one slippage and decisions without a limit on the value. On the EVM two agents that alternate over the days, and a second transfer inside the first.
* *Audit.* Durations 9, 14 and 15 lie inside, at and beyond the window of 14 seconds and
  at both sides of a multiple of 5, where the division loses most. Five events allow policy,
  grant, intent, a change and the repetition.
* *Circuit.* Three calls are a probe, one that is turned away and one admitted before the circuit
  opened; two failures open it, so that one alone does not; one retry puts a sleep between attempts.
* *Alerts.* Level 0 is recovered, 1 within the hysteresis, 2 and 3 bad, so that an alert can
  worsen. Two ingestions are what a late one needs. One hidden alert stands beside the one in the list.
* *Events.* Two batches of one stream conflict, of two streams overwrite the shared file;
  a page and a retention smaller than the history cut both ways.
* *Cache.* One key is enough, for keys share nothing but eviction, which may strike at any
  time. Two versions after the first allow an invalidation between two changes.

Deadlock is not checked: each model stops at its bounds, and the real system may rest too.
Symmetry is used only over sets whose members no definition tells apart, and in no run with
a liveness property.

### Fairness and liveness

A specification states fairness where the code gives a reason to assume it; the others
(the lifecycle alone, the mirror, the contracts, the races) state none.

* `ChainFairness`: the server does not poll on its own, so its client is assumed to keep asking
  `GET /api/execute/transactions/[hash]`, which polls (weak); an RPC call ends (weak) and,
  asked again and again, sometimes answers (strong); the chain grows (weak). `PollingSettles` then
  needs a transaction that comes to rest on or off the chain, and that no stored failure was overwritten
  (`FailureLost`), after which no poll settles the record. The run asks fairness of the pollers of each part.
* `CircuitFairness`: an operation is raced against a timer, a sleep ends by one, and time
  passes (weak). Nobody need make a call; `TriedAgain` supposes that somebody keeps doing so.
* `AlertFairness`: a scheduled ingestion runs, deliveries have time-outs, cooldowns elapse
  (weak). That runs keep reporting is a premise of the properties; that the wallet's alerts stop
  hiding each other is the bound `MaxHidden`. Were they hidden over and over, one after another
  would be raised.
* `EventFairness`: batches of each stream are started again and again, the promise queue
  serves its commits in turn, and an endpoint that has events returns some in the end (strong), a batch
  goes on (weak). That crashes and failing writes come to an end is a premise of `CatchesUp`.
* `ServerCache` assumes only that time passes.

## 4. What is proved

Eight modules, for every value of the constants that satisfies their `ASSUME`s.

* `TransactionLifecycleProofs`: `TypeCorrect`, `Confirmed`, `Once`, `Dropped`,
  `QuiescentFinal`. The invariants are not inductive alone, for a handler acts on what it
  read before. `IInv` adds what the stale copies still guarantee: a poll in flight holds a
  live record with attempts left (`ViewLive`) and no copy counts more absences than were
  answered (`MissingAnswered`); a broadcast hash has a record (`BroadcastRecorded`), so no
  later submission gets by the duplicate check; a submission holds at most its own key's
  placeholder (`SubmitterOK`). `KInv` is the part that survives a restart.
* `TransactionChainProofs`: `ChainTypeCorrect`, `Final`, `Cause`, `LifecycleKept`. `CInv` adds to
  `IInv` that a revert on the chain is remembered (`RevertRemembered`) and that the receipt
  a poll holds is the chain's unless its block was replaced meanwhile (`ReadingCurrent`).
* `TransactionMirrorProofs`, about all the adapter holds as one sequence, the chain followed by
  what waits (`Line`): a call puts its operation at the end, or before what waits while the schema is
  applied; a connection leaves the sequence alone; one that is given up cuts it. For the transactions
  `MirrorTypeCorrect`, `CatchesUp`, `RestartsKeepEvidence`. `MInv` rests on `LastWriteCurrent`: the last write
  of a record in that sequence carries its present row, unless the newest is known to have left an
  older one behind (`reordered`). A restart forgets records whose hash was broadcast, so
  `BroadcastRecorded` is lost and only `KInv` is kept: what is confirmed or dropped still has its
  evidence. For the watchlist `WatchTyped`, `RemovedStays`, `ErasedStays`, `TableFollows`. A removed entry is
  safe because a deletion follows its insertion (`RemovedGone`), unless it went ahead of it, was given up,
  failed or was lost (`undeleted`); an erased one, because nothing that could write it is left
  (`Unreachable`), unless it was under way at the DELETE (`late`) or there was none (`unreached`). `TInv` adds that
  no insertion runs after its deletion (`DeletedLast`) and what each entry's row will be (`Mirrored`), except
  for the entries in `apart`.
* `GovernanceProofs`: `TypeCorrect`, `Snapshot`, and `PromiseKept`, that every step maps to
  a step or stutter of `MultisigTimelock`. It needs `EffectiveAfterDelay`: a proposal's time
  was computed from a delay that was at least the minimum when it was made.
  `PromiseKeptByTransactions` is the same promise in the form of `TransactionSpec`.
* `TimelockProofs`: `TypeCorrect`, `SignersMatch`, `Counted`, `AtMostOnce`, `NoFalseMark`,
  `WithinRules`, at any depth of calls. A revert brings back an older storage, so the invariant
  speaks of the current storage and of every storage on the stack (`SavedSound`), and accounts each
  executed proposal to a call that returned or to one that runs (`Accounted`). `PromiseKept` adds
  `PInv`: the proposals each call began with lead, by steps of one time, to those each later call
  began with and to those of the moment (`Leads`). A revert goes back to one of the states on that
  way, so what the outermost call leaves in the end follows from what it found, however
  the calls inside it went.
* `VaultProofs`, the Soroban pair: `PolicyTypeCorrect`, `IntentsWithinDecisions` and `DailyLimit` of the
  policy alone, `VaultTypeCorrect`, `OwnFunds`, `Payments` of the composition. Decisions are
  numbered by used nonces, so a new one cannot share the hash of an old one; balances are
  covered by what the vault holds. `WindowInv` is behind the daily limit: what the contract counts as spent,
  which may be negative, and what was given back since the window opened cover together
  the intents made since then, and no window opens in the ledger of an
  intent, which would count in both. `VaultLeavesPolicy` shows that policy and vault together
  behave as the policy alone, so that its limit holds of both (`VaultDailyLimit`).
* `VaultProofs`, the EVM pair: `EvmTypeCorrect`, `VaultSolvent`, `PaymentsWithinPlans`, `SpendingLimited`, at
  any depth of transfers. Solvency is not inductive: a revert brings back an older
  state, and in the middle of a transfer vault and token do not agree. `EvmInv` says
  that every state a revert can bring back is sound (`Sound`), and that from the state before a transfer to
  the one the code it called has come to, nothing was gained or lost but what that transfer still
  holds (`Underway`). The differences telescope over the stack, so no sum over it is needed.
* Sums of amounts (`Total`): the fold of the community modules takes the members of a set in an
  order CHOOSE fixes. `TotalWith`, that one more intent adds its amount, is proved
  without induction: if it failed for some set, it would fail for one of least size.
* `AuditRegistryProofs`: `TypeCorrect`, `Justification`, `NoReplay`. The stored policy, grants
  and pauses are the last ones published (`PolicyLogged`, `GrantLogged`, `PauseLogged`), and
  the mark of a live intent lives as many ledgers as five-second ledgers fit in the time it
  has left (`MarkOutlives`).
* `ServerProofs`: for the circuit `CircuitTyped`, `CircuitCounts` and `MarkIsHeld` (with any number
  of calls, thresholds and retries), for the alerts `AlertTyped` and `OneAlert` (one at most in the list a
  decision looks at, whatever is hidden), for the events
  `EventTyped` and `NothingUnread` (within one process no cursor goes back: whoever writes holds the queue, and
  what it writes is the file with one stream moved on) and `StoredComplete`, for the cache `CacheTyped` and
  `InvalidatedStaysOut`. `StoredComplete` needs `FilesComplete`, the property of the file *and* of each
  temporary file about to replace it. Sorting is by rank, the number of members up to an event, so that the
  proof speaks of positions and not of a recursion (`OrderedByRank`, `OrderedUnion`); that a
  merge may forget what an earlier one had retained, and still retain the same, is `RetainedAgain`.

Type invariants that are proved are mostly left out of the runs, and so is `SignaturesCounted`: a
signature that counts twice shows in `KeepsPromise`. *Assumptions:* ledgers are
at least five seconds apart (`AuditAssumption`), the figure the contracts count with: on a
network with faster ledgers a mark would end before its intent; ids and placeholders of
distinct content are distinct.

*Only model-checked:* the liveness properties, for fairness and ENABLED are out of the
prover's reach: `PollingSettles`, `EveryCallEnds`, `TriedAgain`, `BadIsAlerted`, `AlertsClear`,
`CatchesUp` of the event ingestion and `ServesCurrent`. `MirrorCatchesUp` is a safety
property and proved. The five violations of section 5 are TLC's. Every invariant and every action
property of the passing runs is a theorem. No module declares a RECURSIVE operator.

## 5. Findings

* **`TerminalIsFinal`** (`Lifecycle_terminal`): a submission or poll under way when the user
  rejects the transaction overwrites the rejection, although
  `docs/TRANSACTION_RECONCILIATION.md:15` calls it terminal. `QuiescentTerminalIsFinal` is what
  does hold: only a handler that read the record before it became terminal can do so.
* **`SubmittedIsDurable`** (`Mirror_durable`): the placeholder's row stays in the table and
  its key refuses the row of the submitted transaction (`lifecycleManager.ts:373-376`).
* **`SuccessReachesTable`** (`Erasure_unreachable`): without a connection the erasure deletes no row and
  reports success (`postgresAdapter.ts:1104-1106`); `docs/OPERATOR_PRIVACY_PROCEDURES.md:182-184` has it
  fail when Postgres cannot be reached. `ErasedComesBackLate` names this exception.
* **`DailyLimitLastsADay`** (`Policy_day`): the window is 1440 ledgers, two hours.
* **`NoOutageFails`** (`Chain_outage`): the transaction could not be read, its receipt could; the
  effects then count as not verified and the record fails for good (`evm.ts:424`), though the comment
  at `evm.ts:492-494` promises that transient errors do no such thing.

Read in the source while modelling, with no run of their own:

* `postgresAdapter.ts:13-18` and `:356-364` promise that the mirror keeps the order of calls. `connected` is
  set before the schema is applied (`:300-303`, `:945-946`), so what is called meanwhile runs before what
  already waits: an older status may be written last, a DELETE may pass its INSERT, and a request's write
  may precede the hydration.
* `docs/TRANSACTION_RECONCILIATION.md:11` bounds polling by 50 attempts "instead of retrying forever"; a repeated answer
  counts no attempt (`lifecycleManager.ts:699-706`). When one poll stores a failure and another that
  held an older answer overwrites it, the failure is repeated evidence ever after and the record
  stays open for good; `PollingSettles` names this exception (`FailureLost`). `:19` wants three *consecutive*
  absences; a pending answer between does not reset the counter.
* `docs/RUNBOOKS.md:213` describes the hydration that `postgresAdapter.ts:891` makes fail: one
  row that cannot be read aborts the hydration of all, silently.
* `docs/V3_CONTRACT_SPEC.md:677` calls governance and timelock identical: anyone may
  propose on Soroban (`governance/src/lib.rs:320`), and a removed signer of the snapshot may
  still sign (`:417`). `docs/V3_UPGRADE_RECOVERY.md:13` puts signer changes behind the
  timelock; the emergency admin makes them at once (`GoldRaccoonTimelock.sol:263`).
* `check_daily_spend` is public and takes negative amounts (`policy/src/lib.rs:676-711`): a charge that anyone makes
  lowers the sum, and the intents of the window exceed the limit by as much, although
  `docs/V3_AUDIT_CHECKLIST.md:69` has agents not bypass it. `WithinDailyLimit` states the limit with what was
  given back.
* Neither vault has a pause, and none asks for the policy's. `docs/V3_AUDIT_CHECKLIST.md:153` has
  a daily limit per wallet and `:152` one that resets every 24 hours; the EVM policy counts by
  agent, and an agent that does not open the day keeps the count of an earlier one
  (`GoldRaccoonPolicy.sol:333`), which refuses it more than the limit does.
* `docs/PROVIDER_RESILIENCE.md:12` admits exactly one half-open probe; a caller that is
  turned away clears the mark of the one under way (`providers/adapter.ts:115`, `:268`).
* `observability/alertDeliveries.ts` ends every failure as terminal, so the retry of a transient one
  that `docs/ALERT_DELIVERY.md:43` describes is refused; the delivery of a recovery may
  overtake the one of its alert. `docs/ALERT_DELIVERY.md:3` speaks of triggered and recovered alerts; eight kinds of
  observation are made of bad values only (`observations.ts:108`, `:133`, `:181`, `:261`, `:337`, `:468`, `:494`, `:518`), so
  their alerts never recover. `listAlerts` returns the 200 newest of a wallet (`storage/index.ts:579-587`): beside an
  active alert it hides a second one is raised, and the hidden one never recovers. Deleting a rule leaves its alert active, and the
  default rules come back whenever none is enabled (comment at `alertIngestion.ts:88-91`).
* `docs/STELLAR_DATA_LAYER.md:42-44`: the queue of commits is one of the process. Batches of two
  processes rewrite each other's streams, so `CommittedStays` and `CatchesUp` are stated for one;
  `StoredUpToCursor` holds for several too.
* `docs/OPERATOR_PRIVACY_PROCEDURES.md:323` lets an erasure remove all of a wallet's identity. Its DELETEs go
  past the mirror queue (`postgresAdapter.ts:1096`), so a write that waits brings its row back, and
  a rescan under way its run; the residue check looks at memory only. `ErasedComesBackLate` is
  what holds.
* Removal and erasure replace the array the hydration was given (`storage/index.ts:136-139`, `:1180`): its rows are then
  invisible until a restart, and adding one of them again is refused in silence by the unique
  index. An imported file with one identity twice makes two entries (`:1585-1595`, although the route has
  marked the second a duplicate), of which one gets no row.
* A completed run of a scan gets no row: `agent_run_id` is a uuid (`schema.sql:760`) and run ids begin with
  `run_` (`storage/index.ts:408`), against `V2_COMPLETION_REPORT.md:50`.
* A background refresh that fails replaces a stale value that could still be served by a
  failure (`cache/swr.ts:57-64`), and `invalidatePortfolioForWallet` drops every wallet's
  portfolio, for its tags are alternatives.
* An x402 receipt is stored before the paid scan is awaited, in memory only
  (`api/x402/deep-scan/route.ts:46-68`). The settlement ledger's reconciliation sets `failed` from
  any status, past its own table; nothing calls the ledger.
* `recovery/store.ts:77` promises one active record per wallet, type and asset; a request without
  an asset matches any, and consumers are told apart.
* `discovery/pipeline.ts:177` names four of the five results of its specialists, so what it
  calls the portfolio's is a second run of the news agent.

Hazards met in modelled code that have no entry in `PROJECT.json`: the placeholder removed after
the hash derivation (`lifecycleManager.ts:372`); repeated signers and the growing queue of the
governance contract (`governance/src/lib.rs:271`, `:377`); an event that a page repeats, which the commit
filters out by its id (`stellar/eventIngestion.ts:165`) and the model's positions cannot show. And one in
code that is not modelled: the x402 receipt above.

## 6. Not modelled

Most of the repository keeps no state whose order matters. Of its more than 150 000 lines the greater part
is the user interface, fixtures and their checks, prompts and the analyses of agents, inspectors of
single facts, types, providers that translate one request, and stores that read and write a record.
A model of these would repeat their data. What does depend on order is modelled, except:

* *Auto mode, recovery requests:* records per wallet changed by synchronous handlers; auto mode is
  switched off in `runtime.ts`.
* *x402:* the check and the receipt are one synchronous piece, and the verification is a
  library's; the settlement ledger, which has a lock, has no caller.
* *EVM audit contract, Soroban risk registry:* atomic calls of one contract whose properties a
  single guard gives.
* *Discovery:* a lost or repeated observation is only shown.
* *Privacy and retention:* the pruning of old records is run by hand from a script; the erasure is
  modelled for the watchlist, whose records have the longest way through queue and hydration.
* *Of modelled components:* roles, fields shown only, listing functions, the Stellar adapter's
  answers (they are members of `Evidence`), the single delivery of an alert, overflow of 256-bit sums,
  which reverts.

## 7. Plan

Done: the lifecycle, over any adapter and over a chain; the connection to the database and the
mirror; the watchlist and its erasure; governance with its abstract
specification, the EVM timelock, which implements it too; both policies and vaults; the audit registry; circuit, alerts,
event ingestion, cache; theorems about all of them.

Next, in this order:

1. x402 once the settlement ledger has a caller: one scan per payment under concurrent requests.
2. Recovery requests; auto mode once it can be activated.
3. The EVM audit contract as an instance of the registry's promise; the risk registry.
4. Proofs: an abstract vault that the Soroban and the EVM one both implement.
