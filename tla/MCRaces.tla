-------------------------------- MODULE MCRaces --------------------------------
(***************************************************************************)
(* Callers that know nothing of each other, for TLC: submissions of one    *)
(* wallet, batches of event streams that share a file, and the agent, the  *)
(* owner and the users of the Soroban policy and vault.  The initial state *)
(* chooses which of them run.                                              *)
(***************************************************************************)
EXTENDS TransactionLifecycle, EventIngestion, PolicyVault, TLC

CONSTANTS t1, t2

VARIABLE race

raceVars == <<vars, eventVars, sorobanVars, race>>

Obs(st, b, c) == [st |-> st, block |-> b, conf |-> c]

\* The submission races need little of the chain: a final inclusion, from an
\* adapter that knows no block hash as Stellar's, and a duplicate.
SubmitEvidence == {Obs("included", NoBlock, 2), Obs("duplicate", NoBlock, 0)}

\* One stream wants every event, the other the second one.
Policies == [s \in {t1, t2} |-> IF s = t1 THEN Positions ELSE {2}]

\* One intent a window or two, or none of 2 at all.
TwoDailyLimits == {[value |-> 0, slippage |-> 2, daily |-> 3],
                   [value |-> 0, slippage |-> 2, daily |-> 1]}

\* A decision without a limit on the slippage, and one without a limit on the value.
TwoDecisions == {[value |-> 1, slippage |-> 0], [value |-> 0, slippage |-> 1]}

\* A charge, and one that gives back.
DirectCharges == {2, -1}

\* Hashes, submitters, pollers, batches and users are interchangeable.
Symmetric == Permutations(Hashes) \cup Permutations(Submitters)
                \cup Permutations(Pollers) \cup Permutations(Workers)
                \cup Permutations(Users)

RacesInit ==
    /\ race \in {"submissions", "batches", "intents", "payments"}
    /\ Init
    /\ EventInit
    /\ VaultInit
    /\ race \in {"submissions", "intents", "payments"} => together
    /\ race = "intents" \/ limits.daily = 3

\* Intents are looked at while limits and assets change and anyone charges; payments
\* while intents and decisions are executed and revoked.
RacesNext ==
    /\ UNCHANGED race
    /\ \/ race = "submissions" /\ Next /\ UNCHANGED <<eventVars, sorobanVars>>
       \/ race = "batches" /\ EventNext /\ UNCHANGED <<vars, sorobanVars>>
       \/ race = "intents" /\ PolicyNext
             /\ UNCHANGED <<executed, revoked, vaultVars, vars, eventVars>>
       \/ race = "payments" /\ VaultNext
             /\ (spendVars' = spendVars \/ intents' # intents)
             /\ (\A i \in intents' : i.slippage = 1) /\ (\A d \in decisions' : d.value = 0)
             /\ UNCHANGED <<limits, assetVars, paused, vars, eventVars>>

RacesSpec == RacesInit /\ [][RacesNext]_raceVars

=============
