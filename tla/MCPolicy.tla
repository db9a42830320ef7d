-------------------------------- MODULE MCPolicy --------------------------------
(* Instances of Policy for TLC. *)
EXTENDS Policy

CONSTANTS u, t, s

OneDailyLimit == {[value |-> 0, slippage |-> 1, daily |-> 1]}
AnyDecision == {[value |-> 0, slippage |-> 0]}

=============================================================================
