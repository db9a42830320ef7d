--------------------------- MODULE TransactionChain ---------------------------
(***************************************************************************)
(* The lifecycle manager with the EVM adapter and a chain behind it.  In   *)
(* TransactionLifecycle an adapter answers anything; here poll reads a     *)
(* chain that includes, reorganises and forgets transactions, through RPC  *)
(* calls that fail, and its answer is what the code makes of them.         *)
(*                                                                         *)
(* The adapter's poll awaits twice more: the transaction and its receipt   *)
(* are asked for together, the head afterwards, so that the number of      *)
(* confirmations relates a receipt to a head of another moment.            *)
(***************************************************************************)
EXTENDS TransactionLifecycle

CONSTANT NoReceipt

\* Blocks added on top of a receipt's block, itself included, up to finality:
\* a chain reorganises blocks that are less deep and no others.
Depths == 1 .. Required

Receipt == [block : Blocks, ok : BOOLEAN, depth : Depths]

\* Where a transaction is: with no node yet, in the pool, in a block, or gone
\* for good (its nonce used, or forgotten).  A receipt that is not "ok" is one
\* of a transaction that reverted or did not do what was expected of it.
Places == {"nowhere", "pool", "block", "gone"}

ASSUME ChainAssumption ==
    /\ NoReceipt \notin Receipt
    /\ Required > 1
    /\ Evidence = [st : {"not_found", "pending"}, block : {NoBlock}, conf : {0}] \cup
                  [st : {"failed"}, block : Blocks \cup {NoBlock}, conf : {0}] \cup
                  [st : {"included"}, block : Blocks, conf : Depths]

VARIABLES
    at,        \* the place of each transaction
    receipt,   \* its receipt while it is in a block
    reading,   \* the receipt each poll holds while it asks for the head
    past       \* history: what befell each transaction that explains its record

chain == <<at, receipt>>
chainVars == <<vars, at, receipt, reading, past>>

Events == {"reverted", "refused", "misread", "errored", "torn", "overwritten"}

ChainInit ==
    /\ Init
    /\ at = [h \in Hashes |-> "nowhere"]
    /\ receipt = [h \in Hashes |-> NoReceipt]
    /\ reading = [p \in Pollers |-> NoReceipt]
    /\ past = [h \in Hashes |-> {}]

Remember(i, e) == past' = [h \in Hashes |-> IF h = i THEN past[h] \cup {e} ELSE past[h]]

-----------------------------------------------------------------------------
(* The chain *)

Deeper(r) == IF r = NoReceipt \/ r.depth = Required THEN r ELSE [r EXCEPT !.depth = @ + 1]

\* A node takes the transaction, from the server's broadcast or the wallet's own.
Propagate(h) ==
    /\ at[h] = "nowhere"
    /\ at' = [at EXCEPT ![h] = "pool"]
    /\ UNCHANGED <<vars, receipt, reading, past>>

Include(h, b, ok) ==
    /\ at[h] = "pool"
    /\ at' = [at EXCEPT ![h] = "block"]
    /\ receipt' = [receipt EXCEPT ![h] = [block |-> b, ok |-> ok, depth |-> 1]]
    /\ IF ok THEN UNCHANGED past ELSE Remember(h, "reverted")
    /\ UNCHANGED <<vars, reading>>

\* A block is added; the receipt a poll holds gets as much older.
Grow ==
    /\ receipt' = [h \in Hashes |-> Deeper(receipt[h])]
    /\ reading' = [p \in Pollers |-> Deeper(reading[p])]
    /\ UNCHANGED <<vars, at, past>>

\* The block is replaced, and the transaction is back in the pool.
Reorganise(h) ==
    /\ at[h] = "block"
    /\ receipt[h].depth < Required
    /\ at' = [at EXCEPT ![h] = "pool"]
    /\ receipt' = [receipt EXCEPT ![h] = NoReceipt]
    /\ IF \E p \in Pollers : poller[p].hash = h /\ reading[p] # NoReceipt
       THEN Remember(h, "torn")
       ELSE UNCHANGED past
    /\ UNCHANGED <<vars, reading>>

\* The pool forgets it, or another transaction has used its nonce.
Forget(h) ==
    /\ at[h] \in {"nowhere", "pool"}
    /\ at' = [at EXCEPT ![h] = "gone"]
    /\ UNCHANGED <<vars, receipt, reading, past>>

-----------------------------------------------------------------------------
(* poll of the EVM adapter, and what pollTransaction does with its answer *)

Obs(st, b, c) == [st |-> st, block |-> b, conf |-> c]

\* Confirmations are told apart up to finality only.  The chain has grown
\* between most polls, so an answer that deep may well be new again.
StoreAnswer(p, o) ==
    /\ o \in observed[poller[p].hash] => o.conf = Required
    /\ StoreEvidence(p, o)

Answer(p, o) ==
    /\ StoreAnswer(p, o) \/ PollRepeatedAbsence(p, o) \/ PollRepeatedEvidence(p, o)
    /\ reading' = [reading EXCEPT ![p] = NoReceipt]

Asking(p) == poller[p].hash # NoId /\ reading[p] = NoReceipt

In(h, places) == h \in Hashes /\ at[h] \in places

\* No node knows the hash, a placeholder's among them, or both calls failed:
\* a failed call is read as an absence.
FindNothing(p) ==
    /\ Asking(p)
    /\ Answer(p, Obs("not_found", NoBlock, 0))
    /\ UNCHANGED <<chain, past>>

\* There is no receipt, or the call for it failed.
FindPending(p) ==
    /\ Asking(p)
    /\ In(poller[p].hash, {"pool", "block"})
    /\ Answer(p, Obs("pending", NoBlock, 0))
    /\ UNCHANGED <<chain, past>>

\* The receipt shows that it reverted or did something else.
FindReverted(p) ==
    LET h == poller[p].hash IN
    /\ Asking(p)
    /\ In(h, {"block"})
    /\ ~receipt[h].ok
    /\ Answer(p, Obs("failed", receipt[h].block, 0))
    /\ UNCHANGED <<chain, past>>

\* The call for the transaction failed and the one for its receipt did not:
\* without a sender the effects count as not verified.
FindNoSender(p) ==
    LET h == poller[p].hash IN
    /\ Asking(p)
    /\ In(h, {"block"})
    /\ Answer(p, Obs("failed", receipt[h].block, 0))
    /\ Remember(h, "misread")
    /\ UNCHANGED chain

\* Both are found as expected; the head is asked for next.
FindReceipt(p) ==
    LET h == poller[p].hash IN
    /\ Asking(p)
    /\ In(h, {"block"})
    /\ receipt[h].ok
    /\ reading' = [reading EXCEPT ![p] = receipt[h]]
    /\ UNCHANGED <<vars, chain, past>>

\* Mutant: the message of the error is not looked at.
ErrorAlwaysFails(p) ==
    /\ Asking(p)
    /\ Answer(p, Obs("failed", NoBlock, 0))
    /\ UNCHANGED <<chain, past>>

\* The chain id could not be read, before anything else was asked.
ErrorTransient(p) ==
    /\ Asking(p)
    /\ Answer(p, Obs("pending", NoBlock, 0))
    /\ UNCHANGED <<chain, past>>

\* The same, with a message that is not one of those known to be transient.
ErrorUnknown(p) ==
    /\ Asking(p)
    /\ Answer(p, Obs("failed", NoBlock, 0))
    /\ Remember(poller[p].hash, "errored")
    /\ UNCHANGED chain

\* The head is read.
ReadHead(p) ==
    /\ reading[p] # NoReceipt
    /\ Answer(p, Obs("included", reading[p].block, reading[p].depth))
    /\ UNCHANGED <<chain, past>>

\* It could not be read: the receipt's own block stands for it.
ReadNoHead(p) ==
    /\ reading[p] # NoReceipt
    /\ Answer(p, Obs("included", reading[p].block, 1))
    /\ UNCHANGED <<chain, past>>

-----------------------------------------------------------------------------
(* submit of the EVM adapter *)

\* The node has answered, so it has the transaction.  What a poll has made of
\* the record by then is overwritten.
Accepted(s) ==
    LET h == submitter[s].hash IN
    /\ submitter[s].pc = "broadcast"
    /\ at[h] # "nowhere"
    /\ SubmitEnd(s, "submitted")
    /\ IF Exists(h) /\ rec[h].status # "prepared" THEN Remember(h, "overwritten") ELSE UNCHANGED past
    /\ UNCHANGED <<chain, reading>>

\* The broadcast was refused, or its answer lost with the transaction taken.
Refused(s) ==
    /\ SubmitEnd(s, "failed")
    /\ Remember(submitter[s].hash, "refused")
    /\ UNCHANGED <<chain, reading>>

-----------------------------------------------------------------------------

\* What the store and the manager do without the adapter.
StoreStep ==
    \/ \E k \in Keys : Prepare(k) \/ ApproveTooLate(k)
    \/ \E s \in Submitters :
          \/ \E k \in Keys \cup {NoKey}, h \in Hashes : SubmitBegin(s, k, h)
          \/ SubmitKnownHash(s)
          \/ SubmitRecord(s)
    \/ \E p \in Pollers :
          \/ \E i \in Ids : PollBegin(p, i)
          \/ \E k \in Keys \cup {NoKey}, h \in Hashes : ConfirmUnknown(p, h, k)
    \/ \E i \in Ids : PollExhausted(i) \/ Reject(i) \/ ExpireIfStale(i)

ChainStep ==
    \/ Grow
    \/ \E h \in Hashes : \/ Propagate(h) \/ Reorganise(h) \/ Forget(h)
                         \/ \E b \in Blocks, ok \in BOOLEAN : Include(h, b, ok)

AdapterStep(p) ==
    \/ FindNothing(p) \/ FindPending(p) \/ FindReverted(p) \/ FindNoSender(p)
    \/ FindReceipt(p) \/ ErrorTransient(p) \/ ErrorUnknown(p)
    \/ ReadHead(p) \/ ReadNoHead(p)

ChainNext ==
    \/ StoreStep /\ UNCHANGED <<chain, reading, past>>
    \/ ChainStep
    \/ \E p \in Pollers : AdapterStep(p)
    \/ \E s \in Submitters : Accepted(s) \/ Refused(s)

\* The lifecycle under a client that keeps asking for a hash, by the route that
\* reports on a transaction, an RPC endpoint that sometimes answers, whatever it
\* does in between, and a chain that goes on growing.
AsksAgain(p, h) ==
    (PollBegin(p, h) \/ PollExhausted(h)) /\ UNCHANGED <<chain, reading, past>>

SeesChain(p) ==
    \/ FindReverted(p) \/ FindReceipt(p)
    \/ In(poller[p].hash, {"nowhere", "gone"}) /\ FindNothing(p)

SeesHead(p) ==
    /\ reading[p] # NoReceipt
    /\ StoreAnswer(p, Obs("included", reading[p].block, reading[p].depth))
    /\ reading' = [reading EXCEPT ![p] = NoReceipt]
    /\ UNCHANGED <<chain, past>>

ChainFairness ==
    /\ WF_chainVars(Grow)
    /\ \A p \in Pollers :
          /\ \A h \in Hashes : WF_chainVars(AsksAgain(p, h))
          /\ WF_chainVars(AdapterStep(p))
          /\ SF_chainVars(SeesChain(p))
          /\ SF_chainVars(SeesHead(p))

ChainSpec == ChainInit /\ [][ChainNext]_chainVars /\ ChainFairness

-----------------------------------------------------------------------------
(* Properties *)

\* The type invariant.
ChainTypeOK ==
    /\ TypeOK
    /\ at \in [Hashes -> Places]
    /\ receipt \in [Hashes -> Receipt \cup {NoReceipt}]
    /\ reading \in [Pollers -> Receipt \cup {NoReceipt}]
    /\ past \in [Hashes -> SUBSET Events]
    /\ \A h \in Hashes : receipt[h] # NoReceipt <=> at[h] = "block"

Has(h, st) == Exists(h) /\ rec[h].status = st

\* A confirmed record's transaction is on the chain, with success and too deep
\* to be reorganised, whatever failed or was reorganised on the way; the one
\* exception is a block that was replaced between a poll's two reads.
ConfirmedIsFinal ==
    \A h \in Hashes : Has(h, "confirmed") /\ "torn" \notin past[h] =>
        at[h] = "block" /\ receipt[h].ok /\ receipt[h].depth = Required

\* A failed record has a cause: its transaction reverted in some block, its
\* broadcast threw, a poll read the receipt alone or met an error it does not
\* know.  No stale answer, absence, reorganisation or transient error fails it.
FailedHasCause ==
    \A h \in Hashes : Has(h, "failed") =>
        past[h] \cap {"reverted", "refused", "misread", "errored"} # {}

\* What the store still waits to learn.
Open(h) == Exists(h) /\ ~Terminal(rec[h].status) /\ rec[h].status # "manual_review"

\* A poll that held an older answer has overwritten the failure another stored;
\* the revert is then found again and again, and is repeated evidence.
FailureLost(h) ==
    /\ Open(h)
    /\ at[h] = "block"
    /\ ~receipt[h].ok
    /\ Obs("failed", receipt[h].block, 0) \in observed[h]

\* Once a transaction stays on the chain, or is gone, polling settles its
\* record or hands it to an operator: no sequence of failed reads, repeated
\* evidence and overwritten counters keeps it open for ever, but for a failure
\* that was stored and overwritten.
PollingSettles ==
    \A h \in Hashes :
        <>[](at[h] # "pool" /\ "overwritten" \notin past[h] /\ ~FailureLost(h)) => []<>~Open(h)

-----------------------------------------------------------------------------
(* What a comment of the adapter says, and the code does not do *)

\* "Transient errors (timeout, connection refused, etc.) must not produce an
\* immutable terminal failed": where the server broadcasts nothing itself, only
\* a revert or an error that is not one of those fails a record.
NoOutageFails ==
    \A h \in Hashes : Has(h, "failed") => past[h] \cap {"reverted", "errored"} # {}

=============
