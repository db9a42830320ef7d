------------------------------ MODULE MCContracts ------------------------------
(***************************************************************************)
(* The audit registry, the EVM timelock, and the EVM policy with its vault *)
(* for TLC.  None of the three knows of another, and the vault does not    *)
(* read the policy's configuration: the initial state chooses what runs.   *)
(***************************************************************************)
EXTENDS AuditRegistry, Timelock, EvmVault, TLC

CONSTANTS a, b

VARIABLE contract

contractVars == <<auditVars, vars, evmVars, contract>>

\* Users, agents and policies of the registry, and the policy's agents, are
\* interchangeable.
Symmetry == Permutations(Users) \cup Permutations(Agents) \cup Permutations(Policies)
                \cup Permutations(Operators)

\* A list of signers that repeats one never reaches its threshold.
Lists == {<<a, b>>, <<b, b>>}

\* Two transactions' worth, and what one takes.
Limits == {[value |-> 2, daily |-> 2], [value |-> 1, daily |-> 1]}

ContractsInit ==
    /\ contract \in {"audit registry", "timelock", "evm policy", "evm vault"}
    /\ AuditInit
    /\ Init
    /\ contract = "timelock" \/ store = Deployed(<<a, b>>, MinSigners, MinDelaySecs, MaxDelaySecs)
    /\ EvmInit
    /\ contract = "evm policy" \/ rules.daily = 2

ContractsNext ==
    /\ UNCHANGED contract
    /\ \/ contract = "audit registry" /\ AuditNext /\ UNCHANGED <<vars, evmVars>>
       \/ contract = "timelock" /\ Next /\ UNCHANGED <<auditVars, evmVars>>
       \/ contract = "evm policy" /\ (PolicyCall \/ EvmTick) /\ UNCHANGED <<auditVars, vars>>
       \/ contract = "evm vault" /\ EvmNext /\ rules' = rules /\ UNCHANGED <<auditVars, vars>>

ContractsSpec == ContractsInit /\ [][ContractsNext]_contractVars

=============
