-------------------------- MODULE MCTransactionMirror --------------------------
(* Instances of TransactionMirror for TLC. *)
EXTENDS TransactionMirror

CONSTANT b1

\* An answer that leaves the record open.
MirrorEvidence == {[st |-> "pending", block |-> NoBlock, conf |-> 0]}

\* The histories of the lifecycle guard no step and occur in no property here.
WithoutHistory ==
    <<rec, newest, observed, submitter, poller, adapterVars, mirrorVars>>

=============================================================================
