-------------------------------- MODULE Amounts --------------------------------
(* What the intents of a set amount to, for both policies. *)
EXTENDS FiniteSetsExt

Total(set) == MapThenSumSet(LAMBDA i : i.amount, set)

=============================================================================
