------------------------------ MODULE MCServer ------------------------------
(***************************************************************************)
(* The provider circuit, the alerts, the event ingestion and the cache for *)
(* TLC.  They share no state: the initial state chooses the part of the    *)
(* server that runs, in one process.                                       *)
(***************************************************************************)
EXTENDS ProviderCircuit, AlertEngine, EventIngestion, ServerCache

CONSTANTS s1, s2

VARIABLE part

serverVars == <<circuitVars, alertVars, eventVars, cacheVars, part>>

\* One stream wants every event, the other the second one.
Policies == [s \in {s1, s2} |-> IF s = s1 THEN 1 .. MaxEvents ELSE {2}]

Parts == {"circuit", "alerts", "events", "cache"}

ServerInit ==
    /\ part \in Parts
    /\ CircuitInit
    /\ AlertInit
    /\ EventInit
    /\ CacheInit
    /\ together
    /\ part = "alerts" \/ emitted = Levels

InCircuit(A) == part = "circuit" /\ A /\ UNCHANGED <<alertVars, eventVars, cacheVars, part>>
InAlerts(A) == part = "alerts" /\ A /\ UNCHANGED <<circuitVars, eventVars, cacheVars, part>>
InEvents(A) == part = "events" /\ A /\ UNCHANGED <<circuitVars, alertVars, cacheVars, part>>
InCache(A) == part = "cache" /\ A /\ UNCHANGED <<circuitVars, alertVars, eventVars, part>>

ServerNext ==
    \/ InCircuit(CircuitNext)
    \/ InAlerts(AlertNext)
    \/ InEvents(EventNext)
    \/ InCache(CacheNext)

\* The fairness of each part, while it runs.
ServerFairness ==
    /\ WF_serverVars(InCircuit(CircuitTick))
    /\ \A c \in Calls : WF_serverVars(InCircuit(GoesOn(c)))
    /\ \A r \in Runs : WF_serverVars(InAlerts(IngestStep(r)))
    /\ WF_serverVars(InAlerts(AlertTick))
    /\ WF_serverVars(InCache(CacheTick))
    /\ \A s \in Streams :
          /\ SF_serverVars(InEvents(\E w \in Workers : Load(w, s)))
          /\ SF_serverVars(InEvents(Reads(s)))
    /\ \A w \in Workers :
          /\ WF_serverVars(InEvents(BatchStep(w)))
          /\ SF_serverVars(InEvents(CommitRead(w) \/ CommitConflict(w)))

ServerSpec == ServerInit /\ [][ServerNext]_serverVars /\ ServerFairness

=============
