-------------------------- MODULE MCTransactionChain --------------------------
(***************************************************************************)
(* Instances of TransactionChain for TLC, in two parts that share nothing: *)
(* every answer of the EVM adapter, to one poll at a time; and two polls   *)
(* at a time, of a transaction the wallet broadcast, over one block that   *)
(* stays, by calls that fail in the ways the adapter takes for an absence. *)
(***************************************************************************)
EXTENDS TransactionChain

CONSTANTS FirstPoller, FirstBlock

AdapterEvidence ==
    [st : {"not_found", "pending"}, block : {NoBlock}, conf : {0}] \cup
    [st : {"failed"}, block : Blocks \cup {NoBlock}, conf : {0}] \cup
    [st : {"included"}, block : Blocks, conf : 1 .. Required]

VARIABLE part

mcVars == <<chainVars, part>>

MCInit == ChainInit /\ part \in {"one", "two"}

\* The pollers of each part, the only ones of whom fairness is asked.
Polls(p) == part = "two" \/ p = FirstPoller

TwoPolls ==
    \/ StoreStep /\ (\A s \in Submitters : submitter'[s] = submitter[s]) /\ UNCHANGED <<chain, reading, past>>
    \/ Grow
    \/ \E h \in Hashes : \/ Propagate(h) \/ Forget(h)
                         \/ \E ok \in BOOLEAN : Include(h, FirstBlock, ok)
    \/ \E p \in Pollers :
          FindNothing(p) \/ FindPending(p) \/ FindReverted(p) \/ FindReceipt(p) \/ ReadHead(p)

MCNext ==
    /\ UNCHANGED part
    /\ \/ part = "one" /\ ChainNext /\ \A p \in Pollers \ {FirstPoller} : poller'[p] = poller[p]
       \/ part = "two" /\ TwoPolls

MCFairness ==
    /\ WF_chainVars(Grow)
    /\ \A p \in Pollers :
          /\ \A h \in Hashes : WF_chainVars(Polls(p) /\ AsksAgain(p, h))
          /\ WF_chainVars(Polls(p) /\ AdapterStep(p))
          /\ SF_chainVars(Polls(p) /\ SeesChain(p))
          /\ SF_chainVars(Polls(p) /\ SeesHead(p))

MCSpec == MCInit /\ [][MCNext]_mcVars /\ MCFairness

=============
