---------------------------- MODULE AlertEngine ----------------------------
(***************************************************************************)
(* The alerts of one wallet for one rule and one observation key: agent    *)
(* runs report what they observed, and evaluateAndPersistObservation       *)
(* raises, worsens and recovers an alert.                                  *)
(*                                                                         *)
(* An ingestion evaluates an observation and stores what it decided        *)
(* without an await; it then awaits the deliveries.  Several ingestions    *)
(* run at once: the route that schedules one waits for none, and the       *)
(* agents of a run have read the world some time before it is ingested.    *)
(* The rule is a high_is_bad one; a low_is_bad rule is its mirror image.   *)
(* It is a rule the wallet keeps: each ingestion seeds the default rules   *)
(* again when it finds none enabled, in the step that reads them.          *)
(*                                                                         *)
(* A decision looks at the newest alerts of the wallet only, whatever      *)
(* their rules and status.  An alert that others have pushed out of that   *)
(* list stays as it is, and no later decision finds it.                    *)
(***************************************************************************)
EXTENDS Naturals, Sequences

CONSTANTS
    Runs,        \* ingestions that may be under way together
    MaxLevel,    \* the highest value observed
    BadFrom,     \* rule.threshold
    Hysteresis,  \* rule.hysteresis
    Kinds,       \* per kind of observation, the values extraction makes one of
    Cooldown,    \* rule.cooldownMinutes, in ticks
    MaxHidden    \* bound on the active alerts pushed out of the list

Levels == 0 .. MaxLevel

ASSUME AlertAssumption ==
    /\ MaxLevel \in Nat
    /\ BadFrom \in Levels
    /\ Hysteresis \in Nat
    /\ Kinds \subseteq SUBSET Levels
    /\ Cooldown \in Nat
    /\ MaxHidden \in Nat

VARIABLES
    level,    \* what an agent that looked now would observe
    emitted,  \* the kind of the observation; some are made of bad values only
    active,   \* the alerts not recovered, newest first
    listed,   \* how many of them listAlerts returns
    cooling,  \* ticks left of the cooldown since the last recovery
    ingest    \* the ingestion of each run

alertVars == <<level, emitted, active, listed, cooling, ingest>>

ActiveAlert == [status : {"triggered", "acknowledged"}, after : Levels]

\* What an incomplete result shows: a source was unavailable.
Unseen == MaxLevel + 1

Ingestion == [pc : {"idle", "scheduled", "delivering"}, value : Levels \cup {Unseen}]

IdleIngestion == [pc |-> "idle", value |-> 0]

AlertInit ==
    /\ level = 0
    /\ emitted \in Kinds
    /\ active = <<>>
    /\ listed = 0
    /\ cooling = 0
    /\ ingest = [r \in Runs |-> IdleIngestion]

-----------------------------------------------------------------------------
(* The decision *)

IsBad(v) == v >= BadFrom

\* Mutant: an alert recovers only below twice the hysteresis.
RecoveredTwiceBelow(v) == v + 2 * Hysteresis < BadFrom

\* evaluateObservationVsRule
IsRecovered(v) == v + Hysteresis < BadFrom

\* Mutant: an acknowledged alert is not looked for.
TriggeredAlerts == {i \in 1 .. listed : active[i].status = "triggered"}

\* activeAlertFor: alerts triggered or acknowledged; the newest is taken.
ActiveAlerts == 1 .. listed

NoActiveAlert == ActiveAlerts = {}

TheActiveAlert == CHOOSE i \in ActiveAlerts : \A j \in ActiveAlerts : i <= j

ActiveWithout(i) == SubSeq(active, 1, i - 1) \o SubSeq(active, i + 1, Len(active))

\* Mutant: a bad value in the cooldown starts it again.
SuppressRestarting(v) ==
    /\ NoActiveAlert /\ IsBad(v) /\ cooling > 0
    /\ cooling' = Cooldown
    /\ UNCHANGED <<active, listed>>

\* "cooldown": since the last recovery; the observation is not kept for later.
Suppress(v) ==
    /\ NoActiveAlert /\ IsBad(v) /\ cooling > 0
    /\ UNCHANGED <<active, listed, cooling>>

\* "trigger"
Trigger(v) ==
    /\ NoActiveAlert /\ IsBad(v) /\ cooling = 0
    /\ active' = <<[status |-> "triggered", after |-> v]>> \o active
    /\ listed' = listed + 1
    /\ UNCHANGED cooling

\* "recovered": the cooldown counts from here, never from an older
\* acknowledgement.
Recover(v) ==
    /\ ~NoActiveAlert /\ IsRecovered(v)
    /\ active' = ActiveWithout(TheActiveAlert)
    /\ listed' = listed - 1
    /\ cooling' = Cooldown

\* "deteriorate", with no delivery of its own.
Deteriorate(v) ==
    /\ ~NoActiveAlert /\ IsBad(v) /\ v > active[TheActiveAlert].after
    /\ active' = [active EXCEPT ![TheActiveAlert].after = v]
    /\ UNCHANGED <<listed, cooling>>

\* "dedupe" and "below_threshold"
Ignore(v) ==
    /\ \/ NoActiveAlert /\ ~IsBad(v)
       \/ ~NoActiveAlert /\ ~IsBad(v) /\ ~IsRecovered(v)
       \/ ~NoActiveAlert /\ IsBad(v) /\ v <= active[TheActiveAlert].after
    /\ UNCHANGED <<active, listed, cooling>>

-----------------------------------------------------------------------------
(* The ingestion *)

Schedule(r, v) ==
    /\ ingest[r].pc = "idle"
    /\ ingest' = [ingest EXCEPT ![r] = [pc |-> "scheduled", value |-> v]]
    /\ UNCHANGED <<level, emitted, active, listed, cooling>>

\* A run has ended and its record is posted: what its agents saw is fixed.
Report(r) == Schedule(r, level)

ReportIncomplete(r) == Schedule(r, Unseen)

\* Extraction makes no observation of the result.
IngestNothing(r) ==
    /\ ingest[r].pc = "scheduled"
    /\ ingest[r].value \notin emitted
    /\ ingest' = [ingest EXCEPT ![r] = IdleIngestion]
    /\ UNCHANGED <<level, emitted, active, listed, cooling>>

\* An evaluation that ends the ingestion.
IngestQuietly(r) ==
    LET v == ingest[r].value IN
    /\ ingest[r].pc = "scheduled"
    /\ v \in emitted
    /\ Suppress(v) \/ Deteriorate(v) \/ Ignore(v)
    /\ ingest' = [ingest EXCEPT ![r] = IdleIngestion]
    /\ UNCHANGED <<level, emitted>>

\* An evaluation that goes on to await the deliveries.
IngestLoudly(r) ==
    LET v == ingest[r].value IN
    /\ ingest[r].pc = "scheduled"
    /\ v \in emitted
    /\ Trigger(v) \/ Recover(v)
    /\ ingest' = [ingest EXCEPT ![r] = [@ EXCEPT !.pc = "delivering"]]
    /\ UNCHANGED <<level, emitted>>

\* Every channel has answered, timed out or used up its attempts; none of
\* these outcomes changes the alert.
Delivered(r) ==
    /\ ingest[r].pc = "delivering"
    /\ ingest' = [ingest EXCEPT ![r] = IdleIngestion]
    /\ UNCHANGED <<level, emitted, active, listed, cooling>>

-----------------------------------------------------------------------------
(* The user, the wallet's other alerts, the clock and the world *)

\* The acknowledge route: the alert stays active.
Acknowledge ==
    \E i \in DOMAIN active :
        /\ active[i].status = "triggered"
        /\ active' = [active EXCEPT ![i].status = "acknowledged"]
        /\ UNCHANGED <<level, emitted, listed, cooling, ingest>>

\* The wallet's other rules and keys raise so many alerts that listAlerts returns
\* none of this condition: neither the active one nor the one that has recovered,
\* whose cooldown is forgotten with it.
NewerAlerts ==
    /\ Len(active) <= MaxHidden
    /\ listed' = 0
    /\ cooling' = 0
    /\ UNCHANGED <<level, emitted, active, ingest>>

AlertTick ==
    /\ cooling > 0
    /\ cooling' = cooling - 1
    /\ UNCHANGED <<level, emitted, active, listed, ingest>>

WorldChanges ==
    /\ level' \in Levels \ {level}
    /\ UNCHANGED <<emitted, active, listed, cooling, ingest>>

-----------------------------------------------------------------------------

IngestStep(r) ==
    IngestNothing(r) \/ IngestQuietly(r) \/ IngestLoudly(r) \/ Delivered(r)

AlertNext ==
    \/ \E r \in Runs : Report(r) \/ ReportIncomplete(r) \/ IngestStep(r)
    \/ Acknowledge \/ NewerAlerts \/ AlertTick \/ WorldChanges

\* A scheduled ingestion runs, deliveries have timeouts, and time passes.
\* Nobody need ever report a run or acknowledge an alert.
AlertFairness ==
    /\ \A r \in Runs : WF_alertVars(IngestStep(r))
    /\ WF_alertVars(AlertTick)

AlertSpec == AlertInit /\ [][AlertNext]_alertVars /\ AlertFairness

-----------------------------------------------------------------------------
(* Properties *)

\* The type invariant.
AlertTypeOK ==
    /\ level \in Levels
    /\ emitted \in Kinds
    /\ active \in Seq(ActiveAlert)
    /\ listed \in 0 .. Len(active)
    /\ cooling \in 0 .. Cooldown
    /\ ingest \in [Runs -> Ingestion]

\* However many ingestions evaluate the same condition, and whether or not its
\* alert was acknowledged meanwhile, one alert at most stands for it among those
\* a decision looks at.  A second one is raised beside an alert that newer
\* alerts of the wallet hide, and beside no other.
OneActive == listed <= 1

Reported == []<><<\E r \in Runs : Report(r)>>_alertVars

\* A condition that stays bad is alerted while runs keep reporting it, of every
\* kind of observation that is made of its bad values: neither a late observation
\* from better times, nor the cooldown, which drops what it suppresses, nor the
\* alerts that hide its own, which must come to an end (MaxHidden), keep it off
\* the user's list for good.
BadIsAlerted ==
    Reported /\ <>[](IsBad(level) /\ level \in emitted) => <>[](listed > 0)

\* An alert whose cause is over ends while runs keep reporting, if a value that
\* ends it is one that an observation is made of, and unless it is hidden by then.
AlertsClear == Reported /\ <>[](level = 0 /\ level \in emitted) => <>[](listed = 0)

=============
