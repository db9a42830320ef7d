------------------------------ MODULE MCGovernance ------------------------------
(* Instances of Governance for TLC. *)
EXTENDS Governance

CONSTANTS a, b, c

\* A list that repeats a signer, one that replaces one, and one too short.
Lists == {<<a, b>>, <<b, b>>, <<b, c>>, <<a>>}

=============================================================================
