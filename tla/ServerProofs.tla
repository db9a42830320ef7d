----------------------------- MODULE ServerProofs -----------------------------
(***************************************************************************)
(* The invariants of the circuit breaker, of the alerts, of the event      *)
(* store and of the cache, each for any number of concurrent calls,        *)
(* ingestions, batches or readers and any value of its parameters.  The    *)
(* four share no state.                                                    *)
(***************************************************************************)
EXTENDS ProviderCircuit, AlertEngine, EventIngestion, ServerCache,
        FiniteSetTheorems, SequenceTheorems, TLAPS

-----------------------------------------------------------------------------
(* The circuit breaker *)

USE CircuitAssumption DEF CircuitStates

\* The circuit as the registry keeps it between steps.
Sound(k) ==
    /\ k \in Circuit
    /\ k.state = "closed" <=> k.failures < Threshold
    /\ k.mark => k.state = "half_open"

\* A call that sleeps has an attempt left.
SleepersRetry == \A c \in Calls : call[c].pc = "sleeping" => call[c].attempt < Retries

IInv ==
    /\ CircuitTypeOK
    /\ Sound(circuit)
    /\ SleepersRetry
    /\ MarkHasProbe

\* What acquire finds when an interval has passed is sound.
LEMMA AcquiredSound ==
    ASSUME Sound(circuit)
    PROVE  Sound(Acquired) /\ (Acquired.mark => circuit.mark)
BY DEF Sound, Acquired, Circuit

\* A failure leaves the circuit sound and without a mark, counted or not.
LEMMA FailureSound ==
    ASSUME NEW k, Sound(k)
    PROVE  /\ Sound(Uncounted(k)) /\ ~Uncounted(k).mark
           /\ Sound(Counted(k)) /\ ~Counted(k).mark
<1>1. Sound(Uncounted(k)) /\ ~Uncounted(k).mark
  BY DEF Sound, Uncounted, Circuit
<1>2. Sound(Counted(k)) /\ ~Counted(k).mark
  <2> DEFINE n == IF k.failures < Threshold THEN k.failures + 1 ELSE Threshold
  <2>1. k \in Circuit /\ n \in 0 .. Threshold
    BY DEF Sound, Circuit
  <2>2. CASE k.state = "half_open" \/ n = Threshold
    <3> DEFINE r == [k EXCEPT !.state = "open", !.failures = n, !.age = 0, !.mark = FALSE]
    <3>1. Counted(k) = r
      BY <2>2 DEF Counted
    <3>2. r \in Circuit /\ r.state = "open" /\ r.failures = n /\ r.mark = FALSE
      <4> HIDE DEF n
      <4>1. 0 \in 0 .. OpenTicks
        OBVIOUS
      <4>2. r \in Circuit
        BY <2>1, <4>1 DEF Circuit
      <4>3. r.state = "open" /\ r.failures = n /\ r.mark = FALSE
        BY <2>1, Zenon DEF Circuit
      <4> QED BY <4>2, <4>3
    <3>3. n = Threshold
      BY <2>2, <2>1 DEF Sound, Circuit
    <3> QED BY <3>1, <3>2, <3>3 DEF Sound
  <2>3. CASE k.state # "half_open" /\ n # Threshold
    <3> DEFINE r == [k EXCEPT !.failures = n, !.mark = FALSE]
    <3>1. Counted(k) = r
      BY <2>3 DEF Counted
    <3>2. r \in Circuit /\ r.state = k.state /\ r.failures = n /\ r.mark = FALSE
      BY <2>1 DEF Circuit
    <3>3. n < Threshold /\ k.failures < Threshold
      BY <2>3, <2>1
    <3> QED BY <3>1, <3>2, <3>3 DEF Sound
  <2> QED BY <2>2, <2>3
<1> QED BY <1>1, <1>2

\* A step that leaves the circuit sound and unmarked, and the calls well typed,
\* keeps the invariant.
LEMMA Unmarked ==
    ASSUME Sound(circuit)', ~circuit.mark', call' \in [Calls -> Call], SleepersRetry'
    PROVE  IInv'
BY DEF IInv, Sound, CircuitTypeOK, MarkHasProbe

\* Ending a call, or putting it to sleep, keeps the calls well typed.
LEMMA EndOrSleepKeeps ==
    ASSUME IInv, NEW c \in Calls, NEW n \in 0 .. Retries, EndOrSleep(c, n)
    PROVE  call' \in [Calls -> Call] /\ SleepersRetry'
BY DEF IInv, CircuitTypeOK, EndOrSleep, EndCall, Call, IdleCall, SleepersRetry

\* An attempt that begins is one of those the retries allow.
LEMMA AttemptInRange ==
    ASSUME IInv, NEW c \in Calls, AtAttempt(c)
    PROVE  Attempt(c) \in 0 .. Retries
BY DEF IInv, CircuitTypeOK, SleepersRetry, Attempt, AtAttempt, Call

LEMMA InitOK == CircuitInit => IInv
BY DEF CircuitInit, IInv, CircuitTypeOK, Circuit, Call, ClosedCircuit, IdleCall, Sound,
       SleepersRetry, MarkHasProbe

\* An admitted attempt is the probe its circuit is marked for.
LEMMA AdmitOK == ASSUME IInv, NEW c \in Calls, Admit(c) PROVE IInv'
<1>1. Sound(Acquired) /\ (Acquired.mark => circuit.mark)
  BY AcquiredSound DEF IInv
<1>2. Sound(circuit)'
  BY <1>1 DEF Admit, Sound, Circuit
<1>3. Attempt(c) \in 0 .. Retries
  BY AttemptInRange DEF Admit
<1>4. call' \in [Calls -> Call] /\ SleepersRetry'
  BY <1>1, <1>3 DEF IInv, CircuitTypeOK, Admit, Call, Sound, Circuit, SleepersRetry
<1>5. MarkHasProbe'
  <2> SUFFICES ASSUME circuit.mark' PROVE circuit.state' = "half_open" /\ Probes' # {}
    BY DEF MarkHasProbe
  <2>1. circuit.state' = "half_open"
    BY <1>2 DEF Sound
  <2>2. Acquired.state = "half_open"
    BY <1>1, <2>1 DEF Admit, Sound, Circuit
  <2>3. c \in Probes'
    BY <2>2 DEF Admit, Probes, IInv, CircuitTypeOK
  <2> QED BY <2>1, <2>3
<1> QED BY <1>2, <1>4, <1>5 DEF IInv, CircuitTypeOK, Sound

\* The other pieces of a call leave no mark, or do not touch the circuit and
\* end no probe.
LEMMA CallStepOK == ASSUME IInv, NEW c \in Calls, CallStep(c) PROVE IInv'
<1> USE DEF IInv
<1>1. CASE Admit(c)
  BY <1>1, AdmitOK
<1>2. CASE TurnAway(c)
  <2>1. Attempt(c) \in 0 .. Retries
    BY <1>2, AttemptInRange DEF TurnAway
  <2>2. call' \in [Calls -> Call] /\ SleepersRetry'
    BY <1>2, <2>1, EndOrSleepKeeps DEF TurnAway
  <2>3. Sound(circuit)' /\ ~circuit.mark'
    BY <1>2, AcquiredSound, FailureSound DEF TurnAway
  <2> QED BY <2>2, <2>3, Unmarked
<1>3. CASE AlreadyAborted(c)
  <2>1. Sound(circuit)' /\ ~circuit.mark'
    BY <1>3, FailureSound DEF AlreadyAborted
  <2>2. call' \in [Calls -> Call] /\ SleepersRetry'
    BY <1>3 DEF AlreadyAborted, CircuitTypeOK, SleepersRetry
  <2> QED BY <2>1, <2>2, Unmarked
<1>4. CASE AbortedAsleep(c)
  <2>1. call' \in [Calls -> Call] /\ SleepersRetry'
    BY <1>4, EndOrSleepKeeps DEF AbortedAsleep, EndOrSleep
  <2>2. Probes' = Probes
    BY <1>4 DEF AbortedAsleep, EndCall, Probes, CircuitTypeOK, IdleCall
  <2> QED BY <1>4, <2>1, <2>2 DEF AbortedAsleep, CircuitTypeOK, Sound, MarkHasProbe
<1>5. CASE Succeed(c)
  <2>1. Sound(circuit)' /\ ~circuit.mark'
    BY <1>5 DEF Succeed, Sound, ClosedCircuit, Circuit
  <2>2. call' \in [Calls -> Call] /\ SleepersRetry'
    BY <1>5, EndOrSleepKeeps DEF Succeed, EndOrSleep
  <2> QED BY <2>1, <2>2, Unmarked
<1>6. CASE FailRetryably(c)
  <2>1. call[c].attempt \in 0 .. Retries
    BY DEF CircuitTypeOK, Call
  <2>2. call' \in [Calls -> Call] /\ SleepersRetry'
    BY <1>6, <2>1, EndOrSleepKeeps DEF FailRetryably
  <2>3. Sound(circuit)' /\ ~circuit.mark'
    BY <1>6, FailureSound DEF FailRetryably
  <2> QED BY <2>2, <2>3, Unmarked
<1>7. CASE FailFinally(c)
  <2>1. Sound(circuit)' /\ ~circuit.mark'
    BY <1>7, FailureSound DEF FailFinally
  <2>2. call' \in [Calls -> Call] /\ SleepersRetry'
    BY <1>7, EndOrSleepKeeps DEF FailFinally, EndOrSleep
  <2> QED BY <2>1, <2>2, Unmarked
<1> QED BY <1>1, <1>2, <1>3, <1>4, <1>5, <1>6, <1>7 DEF CallStep, Asks

LEMMA StepOK == IInv /\ [CircuitNext]_circuitVars => IInv'
<1> SUFFICES ASSUME IInv, [CircuitNext]_circuitVars PROVE IInv'
  OBVIOUS
<1>1. CASE CircuitTick
  <2>1. ~circuit.mark /\ ~circuit.mark'
    BY <1>1 DEF IInv, MarkHasProbe, CircuitTick, CircuitTypeOK, Circuit
  <2>2. Sound(circuit)'
    BY <1>1 DEF IInv, CircuitTick, Sound, Circuit
  <2>3. call' \in [Calls -> Call] /\ SleepersRetry'
    BY <1>1 DEF IInv, CircuitTick, CircuitTypeOK, SleepersRetry
  <2> QED BY <2>1, <2>2, <2>3, Unmarked
<1>2. CASE \E c \in Calls : CallStep(c)
  BY <1>2, CallStepOK
<1>3. CASE UNCHANGED circuitVars
  BY <1>3 DEF circuitVars, IInv, CircuitTypeOK, Sound, SleepersRetry, MarkHasProbe, Probes
<1> QED BY <1>1, <1>2, <1>3 DEF CircuitNext

LEMMA Invariance == CircuitSpec => []IInv
BY InitOK, StepOK, PTL DEF CircuitSpec

\* The registry's entry and every call stay within their types.
THEOREM CircuitTyped == CircuitSpec => []CircuitTypeOK
<1>1. IInv => CircuitTypeOK
  BY DEF IInv
<1> QED BY <1>1, Invariance, PTL

\* The circuit is closed exactly while fewer failures than the threshold have
\* been counted since the last success, in whatever order answers arrive.
THEOREM CircuitCounts == CircuitSpec => []OpenIffFailing
<1>1. IInv => OpenIffFailing
  BY DEF IInv, Sound, OpenIffFailing
<1> QED BY <1>1, Invariance, PTL

\* A mark that turns callers away always belongs to a probe still under way.
THEOREM MarkIsHeld == CircuitSpec => []MarkHasProbe
<1>1. IInv => MarkHasProbe
  BY DEF IInv
<1> QED BY <1>1, Invariance, PTL

HIDE CircuitAssumption DEF CircuitStates

-----------------------------------------------------------------------------
(* The alerts *)

AInv == AlertTypeOK /\ OneActive

\* What an evaluation reads and leaves.
AlertsTyped ==
    /\ active \in Seq(ActiveAlert)
    /\ listed \in 0 .. Len(active)
    /\ cooling \in 0 .. Cooldown

\* With one alert at most in the list, the active alert is the first.
LEMMA FirstIsActive ==
    ASSUME AlertsTyped, OneActive
    PROVE  /\ NoActiveAlert <=> listed = 0
           /\ ~NoActiveAlert => /\ TheActiveAlert = 1
                                /\ listed = 1
                                /\ 1 \in 1 .. Len(active)
                                /\ active[1] \in ActiveAlert
  <1>1. listed \in {0, 1} /\ Len(active) \in Nat /\ listed <= Len(active)
    BY DEF AlertsTyped, OneActive
  <1>2. CASE listed = 0
    <2>1. ActiveAlerts = {}
      BY <1>2 DEF ActiveAlerts
    <2> QED
      BY <1>2, <2>1 DEF NoActiveAlert
  <1>3. CASE listed = 1
    <2>1. ActiveAlerts = {1}
      BY <1>3 DEF ActiveAlerts
    <2>2. TheActiveAlert = 1 /\ ~NoActiveAlert
      BY <2>1 DEF TheActiveAlert, NoActiveAlert
    <2>3. 1 \in 1 .. Len(active)
      BY <1>1, <1>3
    <2>4. active[1] \in ActiveAlert
      BY <2>3 DEF AlertsTyped
    <2> QED
      BY <1>3, <2>2, <2>3, <2>4
  <1> QED
    BY <1>1, <1>2, <1>3

\* What an evaluation leaves active.
LEMMA Evaluated ==
    ASSUME AInv, NEW v \in Levels,
           Suppress(v) \/ Trigger(v) \/ Recover(v) \/ Deteriorate(v) \/ Ignore(v)
    PROVE  AlertsTyped' /\ OneActive'
  <1>0. AlertsTyped /\ OneActive /\ Len(active) \in Nat
    BY DEF AInv, AlertTypeOK, AlertsTyped
  <1>a. active \in Seq(ActiveAlert) /\ listed \in 0 .. Len(active) /\ cooling \in 0 .. Cooldown
    BY <1>0 DEF AlertsTyped
  <1>1. CASE Trigger(v)
    <2> DEFINE a == [status |-> "triggered", after |-> v]
    <2>1. active' = <<a>> \o active /\ a \in ActiveAlert /\ cooling' = cooling /\ listed' = listed + 1
      BY <1>1 DEF Trigger, ActiveAlert
    <2>2. listed = 0
      BY <1>0, <1>1, FirstIsActive DEF Trigger
    <2> HIDE DEF a
    <2>3. active' \in Seq(ActiveAlert) /\ Len(active') = Len(active) + 1
      BY <1>a, <2>1
    <2> QED
      BY <1>0, <1>a, <2>1, <2>2, <2>3 DEF AlertsTyped, OneActive
  <1>2. CASE Recover(v)
    <2>1. TheActiveAlert = 1 /\ listed = 1 /\ 1 \in 1 .. Len(active)
      BY <1>0, <1>2, FirstIsActive DEF Recover
    <2>2. active' = SubSeq(active, 1, 1 - 1) \o SubSeq(active, 1 + 1, Len(active))
      BY <1>2, <2>1 DEF Recover, ActiveWithout
    <2>3. SubSeq(active, 1, 0) = <<>>
      BY <1>a
    <2>4. SubSeq(active, 2, Len(active)) \in Seq(ActiveAlert)
      BY <1>a, <1>0, <2>1
    <2>5. active' \in Seq(ActiveAlert)
      BY <2>2, <2>3, <2>4
    <2>6. listed' = 0 /\ cooling' = Cooldown
      BY <1>2, <2>1 DEF Recover
    <2> QED
      BY <2>5, <2>6, AlertAssumption DEF AlertsTyped, OneActive
  <1>3. CASE Deteriorate(v)
    <2> DEFINE a == [active[1] EXCEPT !.after = v]
    <2>1. /\ active' = [active EXCEPT ![1] = a]
          /\ active[1] \in ActiveAlert
          /\ 1 \in 1 .. Len(active)
          /\ listed' = listed /\ cooling' = cooling
      BY <1>0, <1>3, FirstIsActive DEF Deteriorate
    <2>2. a \in ActiveAlert
      BY <2>1 DEF ActiveAlert
    <2> HIDE DEF a
    <2>3. active' \in Seq(ActiveAlert) /\ Len(active') = Len(active)
      BY <1>a, <2>1, <2>2
    <2> QED
      BY <1>0, <1>a, <2>1, <2>3 DEF AlertsTyped, OneActive
  <1>4. CASE Suppress(v) \/ Ignore(v)
    BY <1>0, <1>4 DEF Suppress, Ignore, AlertsTyped, OneActive
  <1> QED
    BY <1>1, <1>2, <1>3, <1>4

LEMMA AlertInitOK == AlertInit => AInv
  <1> SUFFICES ASSUME AlertInit PROVE AInv
    OBVIOUS
  <1>1. active = <<>> /\ <<>> \in Seq(ActiveAlert) /\ Len(<<>>) = 0
    BY DEF AlertInit
  <1> QED
    BY <1>1, AlertAssumption
    DEF AlertInit, AInv, AlertTypeOK, OneActive, Levels, Ingestion, IdleIngestion

LEMMA AlertStepOK == AInv /\ [AlertNext]_alertVars => AInv'
  <1> SUFFICES ASSUME AInv, [AlertNext]_alertVars PROVE AInv'
    OBVIOUS
  <1>0. /\ level \in Levels
        /\ emitted \in Kinds
        /\ active \in Seq(ActiveAlert)
        /\ listed \in 0 .. Len(active)
        /\ listed <= 1
        /\ cooling \in 0 .. Cooldown
        /\ ingest \in [Runs -> Ingestion]
    BY DEF AInv, AlertTypeOK, OneActive
  <1>1. ASSUME NEW r \in Runs, Report(r) \/ ReportIncomplete(r)
        PROVE  AInv'
    <2>1. PICK v \in Levels \cup {Unseen} : Schedule(r, v)
      BY <1>0, <1>1 DEF Report, ReportIncomplete
    <2>2. ingest' \in [Runs -> Ingestion]
      BY <1>0, <2>1 DEF Schedule, Ingestion
    <2> QED
      BY <1>0, <2>1, <2>2 DEF Schedule, AInv, AlertTypeOK, OneActive
  <1>2. ASSUME NEW r \in Runs, IngestNothing(r) \/ Delivered(r)
        PROVE  AInv'
    <2>1. IdleIngestion \in Ingestion
      BY AlertAssumption DEF IdleIngestion, Ingestion, Levels
    <2> QED
      BY <1>0, <1>2, <2>1 DEF IngestNothing, Delivered, AInv, AlertTypeOK, OneActive
  <1>3. ASSUME NEW r \in Runs, IngestQuietly(r) \/ IngestLoudly(r)
        PROVE  AInv'
    <2>1. /\ ingest[r].value \in Levels
          /\ \/ Suppress(ingest[r].value) \/ Trigger(ingest[r].value)
             \/ Recover(ingest[r].value) \/ Deteriorate(ingest[r].value)
             \/ Ignore(ingest[r].value)
          /\ level' = level /\ emitted' = emitted
      BY <1>0, <1>3, AlertAssumption DEF IngestQuietly, IngestLoudly
    <2>2. AlertsTyped' /\ OneActive'
      BY <2>1, Evaluated
    <2>3. IdleIngestion \in Ingestion
      BY AlertAssumption DEF IdleIngestion, Ingestion, Levels
    <2>4. ingest' \in [Runs -> Ingestion]
      <3>1. CASE ingest' = [ingest EXCEPT ![r] = IdleIngestion]
        BY <1>0, <2>3, <3>1
      <3>2. CASE ingest' = [ingest EXCEPT ![r] = [@ EXCEPT !.pc = "delivering"]]
        BY <1>0, <3>2 DEF Ingestion
      <3> QED
        BY <1>3, <3>1, <3>2 DEF IngestQuietly, IngestLoudly
    <2> QED
      BY <1>0, <2>1, <2>2, <2>4 DEF AInv, AlertTypeOK, AlertsTyped, OneActive
  <1>4. CASE Acknowledge
    <2>1. PICK i \in DOMAIN active :
            /\ active' = [active EXCEPT ![i].status = "acknowledged"]
            /\ UNCHANGED <<level, emitted, listed, cooling, ingest>>
      BY <1>4 DEF Acknowledge
    <2>2. active[i] \in ActiveAlert /\ i \in 1 .. Len(active)
      BY <1>0, <2>1
    <2>3. [active[i] EXCEPT !.status = "acknowledged"] \in ActiveAlert
      BY <2>2 DEF ActiveAlert
    <2>4. active' \in Seq(ActiveAlert) /\ Len(active') = Len(active)
      BY <1>0, <2>1, <2>2, <2>3
    <2> QED
      BY <1>0, <2>1, <2>4 DEF AInv, AlertTypeOK, OneActive
  <1>5. CASE AlertTick
    BY <1>0, <1>5, AlertAssumption DEF AlertTick, AInv, AlertTypeOK, OneActive
  <1>6. CASE WorldChanges
    BY <1>0, <1>6 DEF WorldChanges, AInv, AlertTypeOK, OneActive
  <1>7. CASE NewerAlerts
    BY <1>0, <1>7, AlertAssumption DEF NewerAlerts, AInv, AlertTypeOK, OneActive
  <1>8. CASE UNCHANGED alertVars
    BY <1>0, <1>8 DEF alertVars, AInv, AlertTypeOK, OneActive
  <1> QED
    BY <1>1, <1>2, <1>3, <1>4, <1>5, <1>6, <1>7, <1>8 DEF AlertNext, IngestStep

LEMMA AlertInvariance == AlertSpec => []AInv
  BY AlertInitOK, AlertStepOK, PTL DEF AlertSpec

\* Alerts, the cooldown and the ingestions stay within their types.
THEOREM AlertTyped == AlertSpec => []AlertTypeOK
  <1>1. AInv => AlertTypeOK
    BY DEF AInv
  <1> QED
    BY <1>1, AlertInvariance, PTL

\* However many ingestions run, one alert at most stands for a condition among
\* those a decision looks at; the others are hidden by newer alerts of the wallet.
THEOREM OneAlert == AlertSpec => []OneActive
  <1>1. AInv => OneActive
    BY DEF AInv
  <1> QED
    BY <1>1, AlertInvariance, PTL

-----------------------------------------------------------------------------
(* The event store *)

CursorOrNone == Cursors \cup {NoCursor}

\* The cursors of a file's contents.
CursorsTyped(f) == DOMAIN f = Streams /\ \A s \in Streams : f[s].cursor \in CursorOrNone

\* One file has read every stream at least as far as another.
AsFar(f, g) == \A s \in Streams : ReadUpTo(f[s].cursor) >= ReadUpTo(g[s].cursor)

\* What a batch under way knows: the page it fetched begins at the cursor it
\* asked with, and behind the queue nothing has moved since it read the file.
BatchSound(w, b) ==
    /\ DOMAIN b = {"pc", "stream", "expected", "next", "temporary"}
    /\ b.pc \in {"idle", "asking", "waiting", "writing"}
    /\ b.pc # "idle" => b.stream \in Streams /\ b.expected \in CursorOrNone
    /\ b.pc = "waiting" => b.next \in Cursors /\ b.next >= ReadUpTo(b.expected)
    /\ b.pc = "writing" => /\ CursorsTyped(b.temporary)
                           /\ together => turn = w /\ AsFar(b.temporary, file)

EInv ==
    /\ together \in BOOLEAN
    /\ CursorsTyped(file)
    /\ DOMAIN batch = Workers
    /\ \A w \in Workers : BatchSound(w, batch[w])

\* Steps that leave the file and the queue alone.
LEMMA BatchStays ==
    ASSUME EInv, NEW w \in Workers, UNCHANGED <<file, turn, together>>,
           DOMAIN batch' = Workers,
           \A v \in Workers \ {w} : batch'[v] = batch[v],
           BatchSound(w, batch[w])'
    PROVE  EInv'
  BY DEF EInv, BatchSound

LEMMA IdleSound == \A w \in Workers : BatchSound(w, IdleBatch) /\ IdleBatch.pc = "idle"
  BY DEF BatchSound, IdleBatch

LEMMA EventInitOK == EventInit => EInv
  BY IdleSound DEF EventInit, EInv, EmptyFile, EmptyCheckpoint, CursorsTyped, CursorOrNone

\* A batch that ends, with the file as it is, holds the queue no longer.
LEMMA EndOK ==
    ASSUME EInv, NEW w \in Workers, End(w), UNCHANGED <<file, together>>,
           turn' = turn \/ (turn' = NoWorker /\ (together => batch[w].pc = "writing"))
    PROVE  EInv'
  <1>1. /\ DOMAIN batch' = Workers
        /\ batch'[w] = IdleBatch
        /\ \A v \in Workers \ {w} : batch'[v] = batch[v]
    BY DEF End, EInv
  <1>2. ASSUME NEW v \in Workers \ {w}, batch[v].pc = "writing", together
        PROVE  turn' = v
    BY <1>2 DEF EInv, BatchSound
  <1>3. ASSUME NEW v \in Workers
        PROVE  BatchSound(v, batch[v])'
    <2>1. CASE v = w
      BY <1>1, <2>1 DEF BatchSound, IdleBatch
    <2>2. CASE v # w
      BY <1>1, <1>2, <2>2 DEF EInv, BatchSound
    <2> QED
      BY <2>1, <2>2
  <1> QED
    BY <1>1, <1>3 DEF EInv

LEMMA EventStepOK ==
    EInv /\ [EventNext]_eventVars =>
        EInv' /\ (file' # file /\ together => AsFar(file', file))
  <1> SUFFICES ASSUME EInv, [EventNext]_eventVars
               PROVE  EInv' /\ (file' # file /\ together => AsFar(file', file))
    OBVIOUS
  <1>0. /\ CursorsTyped(file)
        /\ DOMAIN batch = Workers
        /\ \A w \in Workers : BatchSound(w, batch[w])
        /\ NoCursor \notin Cursors
        /\ NoWorker \notin Workers
    BY EventAssumption DEF EInv, Cursors
  <1>1. ASSUME Emit \/ Prune \/ UNCHANGED eventVars
        PROVE  EInv' /\ file' = file
    BY <1>1 DEF Emit, Prune, eventVars, EInv, BatchSound
  <1>2. ASSUME NEW w \in Workers, NEW s \in Streams, Load(w, s)
        PROVE  EInv' /\ file' = file
    <2> DEFINE b == [IdleBatch EXCEPT !.pc = "asking", !.stream = s, !.expected = file[s].cursor]
    <2>1. batch' = [batch EXCEPT ![w] = b] /\ UNCHANGED <<file, turn, together>>
      BY <1>2 DEF Load
    <2>2. DOMAIN b = {"pc", "stream", "expected", "next", "temporary"}
          /\ b.pc = "asking" /\ b.stream = s /\ b.expected = file[s].cursor
      BY DEF IdleBatch
    <2> HIDE DEF b
    <2>3. batch'[w] = b /\ DOMAIN batch' = Workers /\ \A v \in Workers \ {w} : batch'[v] = batch[v]
      BY <1>0, <2>1
    <2>4. BatchSound(w, batch[w])'
      BY <1>0, <2>1, <2>2, <2>3 DEF BatchSound, CursorsTyped
    <2> QED
      BY <2>1, <2>3, <2>4, BatchStays
  <1>3. ASSUME NEW w \in Workers, NEW n \in Cursors, Fetch(w, n)
        PROVE  EInv' /\ file' = file
    <2> DEFINE b == [batch[w] EXCEPT !.pc = "waiting", !.next = n]
    <2>0. n >= ReadUpTo(batch[w].expected) /\ batch[w].pc = "asking"
      BY <1>3 DEF Fetch
    <2>1. batch' = [batch EXCEPT ![w] = b] /\ UNCHANGED <<file, turn, together>>
      BY <1>3 DEF Fetch
    <2>2. DOMAIN b = {"pc", "stream", "expected", "next", "temporary"}
          /\ b.pc = "waiting" /\ b.next = n
          /\ b.stream = batch[w].stream /\ b.expected = batch[w].expected
      BY <1>0 DEF BatchSound
    <2> HIDE DEF b
    <2>3. batch'[w] = b /\ DOMAIN batch' = Workers /\ \A v \in Workers \ {w} : batch'[v] = batch[v]
      BY <1>0, <2>1
    <2>4. BatchSound(w, batch[w])'
      BY <1>0, <2>0, <2>1, <2>2, <2>3 DEF BatchSound
    <2> QED
      BY <2>1, <2>3, <2>4, BatchStays
  <1>4. ASSUME NEW w \in Workers, FetchFails(w) \/ CommitConflict(w) \/ WriteFails(w)
        PROVE  EInv' /\ file' = file
    BY <1>4, EndOK DEF FetchFails, CommitConflict, WriteFails, Release
  <1>5. ASSUME NEW w \in Workers, CommitRead(w)
        PROVE  EInv' /\ file' = file
    <2> DEFINE s == batch[w].stream
               point == [cursor |-> batch[w].next, events |-> Stored(s, batch[w])]
               f == [file EXCEPT ![s] = point]
               b == [IdleBatch EXCEPT !.pc = "writing", !.temporary = f]
    <2>1. /\ batch[w].pc = "waiting"
          /\ together => turn = NoWorker
          /\ file[s].cursor = batch[w].expected
          /\ turn' = IF together THEN w ELSE turn
          /\ batch' = [batch EXCEPT ![w] = b]
          /\ UNCHANGED <<file, together>>
      BY <1>5 DEF CommitRead, Write, QueueFree
    <2>2. /\ DOMAIN b = {"pc", "stream", "expected", "next", "temporary"}
          /\ b.pc = "writing" /\ b.temporary = f
          /\ b.expected = NoCursor /\ b.stream = IdleBatch.stream
      BY DEF IdleBatch
    <2>3. /\ s \in Streams /\ batch[w].next \in Cursors
          /\ batch[w].next >= ReadUpTo(file[s].cursor)
      BY <1>0, <2>1 DEF BatchSound
    <2>4. point.cursor = batch[w].next
      OBVIOUS
    <2> HIDE DEF point, b
    <2>5. /\ DOMAIN f = Streams /\ f[s] = point
          /\ \A t \in Streams \ {s} : f[t] = file[t]
      BY <1>0, <2>3 DEF CursorsTyped
    <2>6. CursorsTyped(f)
      BY <1>0, <2>3, <2>4, <2>5 DEF CursorsTyped, CursorOrNone
    <2>7. AsFar(f, file)
      <3>1. ASSUME NEW t \in Streams
            PROVE  ReadUpTo(f[t].cursor) >= ReadUpTo(file[t].cursor)
        <4>1. CASE t = s
          BY <1>0, <2>3, <2>4, <2>5, <4>1 DEF ReadUpTo
        <4>2. CASE t # s
          BY <1>0, <2>5, <4>2, EventAssumption DEF ReadUpTo, CursorsTyped, CursorOrNone, Cursors
        <4> QED
          BY <4>1, <4>2
      <3> QED
        BY <3>1 DEF AsFar
    <2> HIDE DEF f
    <2>8. batch'[w] = b /\ DOMAIN batch' = Workers /\ \A v \in Workers \ {w} : batch'[v] = batch[v]
      BY <1>0, <2>1
    <2>9. ASSUME NEW v \in Workers \ {w}
          PROVE  together => batch[v].pc # "writing"
      BY <1>0, <2>1 DEF BatchSound
    <2>10. b.stream = IdleBatch.stream /\ IdleBatch.stream = CHOOSE t \in Streams : TRUE
      BY <2>2 DEF IdleBatch
    <2>11. IdleBatch.stream \in Streams
      BY <2>3, <2>10
    <2>12. ASSUME NEW v \in Workers
           PROVE  BatchSound(v, batch[v])'
      <3>1. CASE v = w
        BY <1>0, <2>1, <2>2, <2>6, <2>7, <2>8, <2>10, <2>11, <3>1
        DEF BatchSound, CursorOrNone, AsFar, CursorsTyped
      <3>2. CASE v # w
        BY <1>0, <2>1, <2>8, <2>9, <3>2 DEF BatchSound
      <3> QED
        BY <3>1, <3>2
    <2> QED
      BY <1>0, <2>1, <2>8, <2>12 DEF EInv, CursorsTyped
  <1>6. ASSUME NEW w \in Workers, CommitRename(w)
        PROVE  EInv' /\ (together => AsFar(file', file))
    <2>1. /\ batch[w].pc = "writing"
          /\ file' = batch[w].temporary
          /\ batch' = [batch EXCEPT ![w] = IdleBatch]
          /\ turn' = IF together THEN NoWorker ELSE turn
          /\ together' = together
      BY <1>6 DEF CommitRename, End, Release
    <2>2. CursorsTyped(batch[w].temporary) /\ (together => turn = w /\ AsFar(batch[w].temporary, file))
      BY <1>0, <2>1 DEF BatchSound
    <2>3. ASSUME NEW v \in Workers \ {w}
          PROVE  batch'[v] = batch[v] /\ (together => batch[v].pc # "writing")
      BY <1>0, <2>1, <2>2 DEF BatchSound
    <2>4. batch'[w] = IdleBatch /\ DOMAIN batch' = Workers
      BY <1>0, <2>1
    <2>5. ASSUME NEW v \in Workers
          PROVE  BatchSound(v, batch[v])'
      <3>1. CASE v = w
        BY <2>4, <3>1 DEF BatchSound, IdleBatch
      <3>2. CASE v # w
        BY <1>0, <2>1, <2>3, <3>2 DEF BatchSound
      <3> QED
        BY <3>1, <3>2
    <2> QED
      BY <2>1, <2>2, <2>4, <2>5 DEF EInv, CursorsTyped
  <1>7. ASSUME Crash
        PROVE  EInv' /\ file' = file
    <2>1. file' = file /\ together' = together /\ turn' = (IF together THEN NoWorker ELSE turn)
      BY <1>7 DEF Crash, Release
    <2>2. CASE together
      <3>1. batch' = [w \in Workers |-> IdleBatch]
        BY <1>7, <2>2 DEF Crash
      <3> QED
        BY <2>1, <3>1 DEF EInv, BatchSound, IdleBatch
    <2>3. CASE ~together
      BY <1>7, <2>1, <2>3, EndOK DEF Crash
    <2> QED
      BY <2>1, <2>2, <2>3
  <1> QED
    BY <1>1, <1>2, <1>3, <1>4, <1>5, <1>6, <1>7 DEF EventNext, BatchStep

\* Behind one queue no commit of any stream writes an older cursor over a newer
\* one, for any number of batches and streams, failures and restarts.
THEOREM NothingUnread == EventSpec => CommittedStays
  <1>1. EInv /\ [EventNext]_eventVars =>
            [together => \A s \in Streams :
                ReadUpTo(file'[s].cursor) >= ReadUpTo(file[s].cursor)]_file
    BY EventStepOK DEF AsFar
  <1>2. EInv /\ [EventNext]_eventVars => EInv'
    BY EventStepOK
  <1> QED
    BY <1>1, <1>2, EventInitOK, PTL DEF EventSpec, CommittedStays

\* The ledger's positions and the holder of the queue.
LedgerTyped ==
    /\ head \in Cursors
    /\ oldest \in 1 .. MaxEvents + 1
    /\ turn \in Workers \cup {NoWorker}

LEMMA LedgerStepOK == LedgerTyped /\ [EventNext]_eventVars => LedgerTyped'
  <1> SUFFICES ASSUME LedgerTyped, [EventNext]_eventVars PROVE LedgerTyped'
    OBVIOUS
  <1>1. CASE Emit \/ Prune
    BY <1>1, EventAssumption DEF Emit, Prune, LedgerTyped, Cursors
  <1>2. CASE Crash
    BY <1>2 DEF Crash, Release, LedgerTyped
  <1>3. ASSUME NEW w \in Workers, BatchStep(w) \/ \E s \in Streams : Load(w, s)
        PROVE  LedgerTyped'
    BY <1>3
    DEF BatchStep, Load, Fetch, FetchFails, CommitRead, CommitConflict, CommitRename, WriteFails,
        Release, LedgerTyped
  <1>4. CASE UNCHANGED eventVars
    BY <1>4 DEF eventVars, LedgerTyped
  <1> QED
    BY <1>1, <1>2, <1>3, <1>4 DEF EventNext

\* Cursors, positions and queue keep their types, and so does what a batch holds.
THEOREM EventTyped == EventSpec => []EventTypeOK
  <1>1. EventInit => EInv /\ LedgerTyped
    BY EventInitOK, EventAssumption DEF EventInit, LedgerTyped, Cursors
  <1>2. EInv /\ LedgerTyped /\ [EventNext]_eventVars => EInv' /\ LedgerTyped'
    BY EventStepOK, LedgerStepOK
  <1>3. EInv /\ LedgerTyped => EventTypeOK
    BY DEF EInv, LedgerTyped, EventTypeOK, CursorsTyped, CursorOrNone, BatchSound
  <1> QED
    BY <1>1, <1>2, <1>3, PTL DEF EventSpec

-----------------------------------------------------------------------------
(* The order of events, and what is retained of them *)

\* How many of the events of a set there are up to one of them.
Rank(S, e) == Cardinality({d \in S : d <= e})

\* Every event has a place of its own, and every place is taken.
LEMMA Ranks ==
    ASSUME NEW S \in SUBSET Nat, IsFiniteSet(S)
    PROVE  /\ Cardinality(S) \in Nat
           /\ \A e \in S : Rank(S, e) \in 1 .. Cardinality(S)
           /\ \A d, e \in S : Rank(S, d) = Rank(S, e) => d = e
           /\ \A i \in 1 .. Cardinality(S) : \E e \in S : Rank(S, e) = i
  <1> DEFINE n == Cardinality(S)
             f == [e \in S |-> Rank(S, e)]
  <1>1. n \in Nat /\ IsFiniteSet(1 .. n) /\ Cardinality(1 .. n) = n
    <2>1. n \in Nat
      BY FS_CardinalityType
    <2> QED
      BY <2>1, FS_Interval
  <1>2. ASSUME NEW e \in S
        PROVE  Rank(S, e) \in 1 .. n
    <2> DEFINE T == {d \in S : d <= e}
    <2>1. T \in SUBSET S /\ T # {}
      OBVIOUS
    <2> HIDE DEF T
    <2>2. IsFiniteSet(T) /\ Cardinality(T) <= n
      BY <2>1, FS_Subset
    <2>3. Cardinality(T) \in Nat /\ Cardinality(T) # 0
      BY <2>1, <2>2, FS_CardinalityType, FS_EmptySet
    <2> HIDE DEF n
    <2>4. Cardinality(T) \in 1 .. n
      BY <1>1, <2>2, <2>3
    <2> QED
      BY <2>4 DEF Rank, T
  <1>3. ASSUME NEW d \in S, NEW e \in S, d < e
        PROVE  Rank(S, d) # Rank(S, e)
    <2> DEFINE T == {x \in S : x <= e}
               U == {x \in S : x <= d}
    <2>0. \A x \in S : x \in Nat /\ (x <= d => x <= e) /\ e <= e /\ ~(e <= d)
      <3>1. d \in Nat /\ e \in Nat /\ \A x \in S : x \in Nat
        OBVIOUS
      <3> QED
        BY <1>3, <3>1
    <2>1. T \in SUBSET S /\ U \in SUBSET T /\ e \in T /\ e \notin U
      BY <2>0
    <2> HIDE DEF T, U
    <2>2. IsFiniteSet(T)
      BY <2>1, FS_Subset
    <2>3. Cardinality(T) # Cardinality(U)
      BY <2>1, <2>2, FS_Subset
    <2> QED
      BY <2>3 DEF Rank, T, U
  <1>4. \A d, e \in S : Rank(S, d) = Rank(S, e) => d = e
    BY <1>3
  <1>5. f \in Injection(S, 1 .. n)
    BY <1>2, <1>4 DEF Injection, IsInjective
  <1>6. f \in Surjection(S, 1 .. n)
    <2> HIDE DEF f, n
    <2>1. Cardinality(S) = Cardinality(1 .. n)
      BY <1>1 DEF n
    <2> QED
      BY <1>1, <1>5, <2>1, FS_Injection
  <1>7. \A i \in 1 .. n : \E e \in S : Rank(S, e) = i
    BY <1>6 DEF Surjection
  <1> QED
    BY <1>1, <1>2, <1>4, <1>7

\* What InOrder says: at each place stands the event of that rank.
LEMMA OrderedByRank ==
    ASSUME NEW S \in SUBSET Nat, IsFiniteSet(S)
    PROVE  /\ InOrder(S) \in Seq(Nat)
           /\ Len(InOrder(S)) = Cardinality(S)
           /\ \A i \in 1 .. Cardinality(S) : InOrder(S)[i] \in S /\ Rank(S, InOrder(S)[i]) = i
  <1> DEFINE n == Cardinality(S)
             at(i) == CHOOSE e \in S : Rank(S, e) = i
  <1>1. n \in Nat
    BY Ranks
  <1>2. ASSUME NEW i \in 1 .. n
        PROVE  at(i) \in S /\ Rank(S, at(i)) = i
    BY Ranks
  <1>3. InOrder(S) = [i \in 1 .. n |-> at(i)]
    BY DEF InOrder, Rank
  <1> HIDE DEF n, at
  <1>4. InOrder(S) \in [1 .. n -> Nat]
    BY <1>2, <1>3
  <1>5. InOrder(S) \in Seq(Nat) /\ Len(InOrder(S)) = n
    BY <1>1, <1>4
  <1>6. \A i \in 1 .. n : InOrder(S)[i] \in S /\ Rank(S, InOrder(S)[i]) = i
    BY <1>2, <1>3
  <1> QED
    BY <1>5, <1>6 DEF n

\* Events that are all later than others stand behind them.
LEMMA OrderedUnion ==
    ASSUME NEW A \in SUBSET Nat, NEW B \in SUBSET Nat, IsFiniteSet(A), IsFiniteSet(B),
           \A a \in A, b \in B : a < b
    PROVE  InOrder(A) \o InOrder(B) = InOrder(A \cup B)
  <1> DEFINE U == A \cup B
             m == Cardinality(A)
             n == Cardinality(B)
             q == InOrder(A) \o InOrder(B)
             u == InOrder(U)
  <1>1. /\ U \in SUBSET Nat /\ IsFiniteSet(U)
        /\ m \in Nat /\ n \in Nat
        /\ Cardinality(U) = m + n
    <2>1. A \cap B = {}
      OBVIOUS
    <2>2. m \in Nat /\ n \in Nat /\ Cardinality(A \cap B) = 0
      BY <2>1, FS_CardinalityType, FS_EmptySet
    <2>3. IsFiniteSet(U) /\ Cardinality(U) = m + n - Cardinality(A \cap B)
      BY FS_Union
    <2> HIDE DEF U, m, n
    <2>4. Cardinality(U) = m + n
      BY <2>2, <2>3
    <2> QED
      BY <2>2, <2>3, <2>4 DEF U
  <1>2. ASSUME NEW a \in A
        PROVE  Rank(U, a) = Rank(A, a)
    <2>1. \A b \in B : ~(b <= a)
      OBVIOUS
    <2>2. {d \in U : d <= a} = {d \in A : d <= a}
      BY <2>1
    <2> QED
      BY <2>2 DEF Rank
  <1>3. ASSUME NEW b \in B
        PROVE  Rank(U, b) = m + Rank(B, b)
    <2> DEFINE T == {d \in B : d <= b}
    <2>0. \A a \in A : a <= b /\ a \notin B
      OBVIOUS
    <2>1. {d \in U : d <= b} = A \cup T /\ A \cap T = {} /\ T \in SUBSET B
      BY <2>0
    <2> HIDE DEF T, U
    <2>2. IsFiniteSet(T) /\ Cardinality(T) \in Nat
      BY <2>1, FS_Subset, FS_CardinalityType
    <2>3. Cardinality(A \cup T) = m + Cardinality(T) - Cardinality(A \cap T)
      BY <2>2, FS_Union
    <2>4. Cardinality(A \cap T) = 0
      BY <2>1, FS_EmptySet
    <2> HIDE DEF m
    <2>5. Cardinality(A \cup T) = m + Cardinality(T)
      BY <1>1, <2>2, <2>3, <2>4
    <2> QED
      BY <2>1, <2>5 DEF Rank, T
  <1>4. /\ InOrder(A) \in Seq(Nat) /\ Len(InOrder(A)) = m
        /\ \A i \in 1 .. m : InOrder(A)[i] \in A /\ Rank(A, InOrder(A)[i]) = i
    BY OrderedByRank
  <1>5. /\ InOrder(B) \in Seq(Nat) /\ Len(InOrder(B)) = n
        /\ \A i \in 1 .. n : InOrder(B)[i] \in B /\ Rank(B, InOrder(B)[i]) = i
    BY OrderedByRank
  <1>6. /\ u \in Seq(Nat) /\ Len(u) = m + n
        /\ \A i \in 1 .. m + n : u[i] \in U /\ Rank(U, u[i]) = i
    <2> HIDE DEF U
    <2> QED
      BY <1>1, OrderedByRank
  <1>7. \A d, e \in U : Rank(U, d) = Rank(U, e) => d = e
    <2> HIDE DEF U
    <2> QED
      BY <1>1, Ranks
  <1>8. /\ q \in Seq(Nat) /\ Len(q) = m + n
        /\ \A i \in 1 .. m + n :
              q[i] = IF i <= m THEN InOrder(A)[i] ELSE InOrder(B)[i - m]
    <2> HIDE DEF m, n
    <2> QED
      BY <1>4, <1>5, ConcatProperties
  <1> HIDE DEF m, n, q, u
  <1>9. ASSUME NEW i \in 1 .. m + n
        PROVE  q[i] = u[i]
    <2>1. CASE i <= m
      <3>1. i \in 1 .. m
        BY <1>1, <2>1
      <3>2. q[i] \in A /\ Rank(A, q[i]) = i
        BY <1>4, <1>8, <2>1, <3>1
      <3>3. q[i] \in U /\ Rank(U, q[i]) = i
        BY <1>2, <3>2
      <3> QED
        BY <1>6, <1>7, <3>3
    <2>2. CASE i > m
      <3>1. i - m \in 1 .. n /\ ~(i <= m)
        BY <1>1, <2>2
      <3>2. q[i] \in B /\ Rank(B, q[i]) = i - m
        BY <1>5, <1>8, <3>1
      <3>3. m + (i - m) = i
        BY <1>1
      <3>4. q[i] \in U /\ Rank(U, q[i]) = i
        BY <1>3, <3>2, <3>3
      <3> QED
        BY <1>6, <1>7, <3>4
    <2> QED
      BY <1>1, <2>1, <2>2
  <1>10. q = u
    BY <1>6, <1>8, <1>9, SeqEqual
  <1> QED
    BY <1>10 DEF q, u

\* What is retained of a sequence, place by place.
LEMMA RetainedLast ==
    ASSUME NEW q \in Seq(Nat),
           NEW k, k = IF Len(q) > Retention THEN Len(q) - Retention ELSE 0
    PROVE  /\ Retained(q) \in Seq(Nat)
           /\ Len(Retained(q)) = Len(q) - k
           /\ Len(Retained(q)) <= Retention
           /\ \A i \in 1 .. Len(q) - k : Retained(q)[i] = q[k + i]
  <1> DEFINE n == Len(q)
  <1>1. n \in Nat /\ Retention \in Nat /\ k \in 0 .. n
    BY EventAssumption
  <1>2. Retained(q) = SubSeq(q, k + 1, n)
    BY <1>1 DEF Retained
  <1>3. \A i \in k + 1 .. n : q[i] \in Nat
    <2>1. \A i \in 1 .. n : q[i] \in Nat
      OBVIOUS
    <2> HIDE DEF n
    <2> QED
      BY <1>1, <2>1
  <1>4. n - k <= Retention
    BY <1>1
  <1> DEFINE a == k + 1
             s == SubSeq(q, a, n)
  <1>5. a \in Int /\ n \in Int /\ n - a + 1 = n - k /\ (a <= n <=> k < n)
        /\ \A i \in 1 .. n - k : a + i - 1 = k + i
    BY <1>1
  <1>6. s = Retained(q) /\ \A i \in a .. n : q[i] \in Nat
    BY <1>2, <1>3
  <1> HIDE DEF n, a
  <1>7. /\ s \in Seq(Nat)
        /\ Len(s) = IF a <= n THEN n - a + 1 ELSE 0
        /\ \A i \in 1 .. n - a + 1 : s[i] = q[a + i - 1]
    <2>1. a \in Int /\ n \in Int /\ \A i \in a .. n : q[i] \in Nat
      BY <1>5, <1>6
    <2>2. s \in Seq(Nat)
      BY <2>1
    <2>3. Len(s) = IF a <= n THEN n - a + 1 ELSE 0
      BY <2>1
    <2>4. \A i \in 1 .. n - a + 1 : s[i] = q[a + i - 1]
      BY <2>1
    <2> QED
      BY <2>2, <2>3, <2>4
  <1> HIDE DEF s
  <1>8. Len(s) = n - k /\ \A i \in 1 .. n - k : s[i] = q[k + i]
    <2>1. Len(s) = n - k
      <3>1. CASE k < n
        BY <1>5, <1>7, <3>1
      <3>2. CASE ~(k < n)
        <4>1. n - k = 0
          BY <1>1, <3>2
        <4> QED
          BY <1>5, <1>7, <3>2, <4>1
      <3> QED
        BY <3>1, <3>2
    <2>2. ASSUME NEW i \in 1 .. n - k
          PROVE  s[i] = q[k + i]
      <3>1. i \in 1 .. n - a + 1 /\ a + i - 1 = k + i
        BY <1>5
      <3> QED
        BY <1>7, <3>1
    <2> QED
      BY <2>1, <2>2
  <1> QED
    BY <1>4, <1>6, <1>7, <1>8 DEF n

\* Forgetting in between makes no difference to what is retained in the end.
LEMMA RetainedAgain ==
    ASSUME NEW q \in Seq(Nat), NEW r \in Seq(Nat)
    PROVE  Retained(Retained(q) \o r) = Retained(q \o r)
  <1> DEFINE p == Retained(q)
             m == Len(q)
             n == Len(r)
             R == Retention
             k == IF m > R THEN m - R ELSE 0
             l == Len(p)
             j == IF l + n > R THEN (l + n) - R ELSE 0
             h == IF m + n > R THEN (m + n) - R ELSE 0
  <1>1. p \in Seq(Nat) /\ l = m - k /\ \A i \in 1 .. m - k : p[i] = q[k + i]
    <2>1. k = IF Len(q) > Retention THEN Len(q) - Retention ELSE 0
      OBVIOUS
    <2> HIDE DEF k
    <2> QED
      BY <2>1, RetainedLast
  <1>2. m \in Nat /\ n \in Nat /\ R \in Nat /\ l \in Nat
    <2> HIDE DEF p
    <2> QED
      BY <1>1, EventAssumption
  <1>3. /\ p \o r \in Seq(Nat) /\ Len(p \o r) = l + n
        /\ \A i \in 1 .. l + n : (p \o r)[i] = IF i <= l THEN p[i] ELSE r[i - l]
    <2> HIDE DEF p
    <2> QED
      BY <1>1, ConcatProperties
  <1>4. /\ q \o r \in Seq(Nat) /\ Len(q \o r) = m + n
        /\ \A i \in 1 .. m + n : (q \o r)[i] = IF i <= m THEN q[i] ELSE r[i - m]
    BY ConcatProperties
  <1> DEFINE pr == p \o r
             qr == q \o r
             s == Retained(pr)
             t == Retained(qr)
  <1>5. s \in Seq(Nat) /\ Len(s) = (l + n) - j /\ \A i \in 1 .. (l + n) - j : s[i] = pr[j + i]
    <2>1. pr \in Seq(Nat) /\ Len(pr) = l + n
      BY <1>3
    <2>2. j = IF Len(pr) > Retention THEN Len(pr) - Retention ELSE 0
      <3> HIDE DEF pr, l, n, R
      <3> QED
        BY <1>2, <2>1 DEF R
    <2> HIDE DEF pr, l, n, j
    <2>3. /\ s \in Seq(Nat) /\ Len(s) = Len(pr) - j
          /\ \A i \in 1 .. Len(pr) - j : s[i] = pr[j + i]
      BY <2>1, <2>2, RetainedLast
    <2> HIDE DEF s
    <2> QED
      BY <2>1, <2>3
  <1>6. t \in Seq(Nat) /\ Len(t) = (m + n) - h /\ \A i \in 1 .. (m + n) - h : t[i] = qr[h + i]
    <2>1. qr \in Seq(Nat) /\ Len(qr) = m + n
      BY <1>4
    <2>2. h = IF Len(qr) > Retention THEN Len(qr) - Retention ELSE 0
      <3> HIDE DEF qr, m, n, R
      <3> QED
        BY <1>2, <2>1 DEF R
    <2> HIDE DEF qr, m, n, h
    <2>3. /\ t \in Seq(Nat) /\ Len(t) = Len(qr) - h
          /\ \A i \in 1 .. Len(qr) - h : t[i] = qr[h + i]
      BY <2>1, <2>2, RetainedLast
    <2> HIDE DEF t
    <2> QED
      BY <2>1, <2>3
  <1>7. \A i \in 1 .. l + n : pr[i] = IF i <= l THEN p[i] ELSE r[i - l]
    BY <1>3
  <1>8. \A i \in 1 .. m + n : qr[i] = IF i <= m THEN q[i] ELSE r[i - m]
    BY <1>4
  <1> HIDE DEF p, pr, qr, s, t, m, n, l, R
  <1>9. k \in Nat /\ k <= m /\ h = j + k /\ (l + n) - j = (m + n) - h /\ j \in Nat /\ j <= l + n
    BY <1>1, <1>2
  <1> HIDE DEF k, j, h
  <1>10. ASSUME NEW i \in 1 .. (l + n) - j
         PROVE  s[i] = t[i]
    <2>1. j + i \in 1 .. l + n /\ h + i \in 1 .. m + n /\ h + i = k + (j + i) /\ i \in 1 .. (m + n) - h
      BY <1>1, <1>2, <1>9
    <2>2. CASE j + i <= l
      <3>1. h + i <= m /\ j + i \in 1 .. m - k
        BY <1>1, <1>2, <1>9, <2>1, <2>2
      <3>2. s[i] = p[j + i] /\ p[j + i] = q[h + i]
        BY <1>1, <1>5, <1>7, <2>1, <2>2, <3>1
      <3>3. t[i] = q[h + i]
        BY <1>6, <1>8, <2>1, <3>1
      <3> QED
        BY <3>2, <3>3
    <2>3. CASE ~(j + i <= l)
      <3>1. ~(h + i <= m) /\ (j + i) - l = (h + i) - m
        BY <1>1, <1>2, <1>9, <2>1, <2>3
      <3>2. s[i] = r[(j + i) - l]
        BY <1>5, <1>7, <2>1, <2>3
      <3>3. t[i] = r[(h + i) - m]
        BY <1>6, <1>8, <2>1, <3>1
      <3> QED
        BY <3>1, <3>2, <3>3
    <2> QED
      BY <2>2, <2>3
  <1>11. s = t
    BY <1>5, <1>6, <1>9, <1>10, SeqEqual
  <1> QED
    BY <1>11 DEF p, pr, qr, s, t
\* Nothing is retained that was not there.
LEMMA RetainedFrom ==
    ASSUME NEW A, NEW q \in Seq(Nat), \A i \in 1 .. Len(q) : q[i] \in A
    PROVE  \A i \in DOMAIN Retained(q) : Retained(q)[i] \in A
  <1> DEFINE n == Len(q)
             k == IF n > Retention THEN n - Retention ELSE 0
             p == Retained(q)
  <1>1. /\ p \in Seq(Nat) /\ Len(p) = n - k
        /\ \A i \in 1 .. n - k : p[i] = q[k + i]
    <2>1. k = IF Len(q) > Retention THEN Len(q) - Retention ELSE 0
      OBVIOUS
    <2> HIDE DEF k
    <2> QED
      BY <2>1, RetainedLast
  <1>2. n \in Nat /\ k \in 0 .. n
    BY EventAssumption
  <1> HIDE DEF k, p
  <1>3. DOMAIN p = 1 .. n - k
    BY <1>1
  <1>4. ASSUME NEW i \in 1 .. n - k
        PROVE  k + i \in 1 .. n
    <2> HIDE DEF n
    <2> QED
      BY <1>2
  <1> QED
    BY <1>1, <1>3, <1>4 DEF p

\* What a stream wants of everything up to a cursor.
WantedUpTo(s, c) == {e \in Wanted[s] : e <= ReadUpTo(c)}

\* A file's contents that have, of every stream, what is retained of that.
Complete(f) ==
    \A s \in Streams : f[s].events = Retained(InOrder(WantedUpTo(s, f[s].cursor)))

LEMMA WantedFinite ==
    ASSUME NEW s \in Streams, NEW S \in SUBSET Wanted[s]
    PROVE  S \in SUBSET Nat /\ IsFiniteSet(S)
  <1>1. Wanted[s] \in SUBSET Positions /\ MaxEvents \in Nat
    BY EventAssumption
  <1>2. S \in SUBSET Positions /\ Positions \in SUBSET Nat
    BY <1>1 DEF Positions
  <1>3. IsFiniteSet(Positions)
    BY <1>1, FS_Interval DEF Positions
  <1> QED
    BY <1>2, <1>3, FS_Subset

\* The page that follows a cursor makes the stored events those up to the next
\* one: those known are all in the page's past, however few of them are retained.
LEMMA StoredFollows ==
    ASSUME Complete(file), NEW s \in Streams, NEW b, file[s].cursor \in CursorOrNone,
           b.expected = file[s].cursor, b.next \in Cursors, b.next >= ReadUpTo(b.expected)
    PROVE  Stored(s, b) = Retained(InOrder(WantedUpTo(s, b.next)))
  <1> DEFINE from == ReadUpTo(b.expected)
             A == WantedUpTo(s, b.expected)
             B == {e \in Wanted[s] : from < e /\ e <= b.next}
             new == {e \in Wanted[s] \ Known(s) : from < e /\ e <= b.next}
  <1>1. from \in Nat /\ b.next \in Nat /\ from <= b.next /\ ReadUpTo(b.next) = b.next
    BY EventAssumption DEF CursorOrNone, Cursors, ReadUpTo
  <1>2. file[s].events = Retained(InOrder(A))
    BY DEF Complete
  <1>3. /\ A \in SUBSET Nat /\ IsFiniteSet(A)
        /\ B \in SUBSET Nat /\ IsFiniteSet(B)
    <2>1. A \in SUBSET Wanted[s] /\ B \in SUBSET Wanted[s]
      BY DEF WantedUpTo
    <2> HIDE DEF A, B
    <2> QED
      BY <2>1, WantedFinite
  <1>4. \A e \in A : e <= from
    BY DEF WantedUpTo
  <1>5. /\ InOrder(A) \in Seq(Nat)
        /\ \A i \in 1 .. Len(InOrder(A)) : InOrder(A)[i] \in A
    <2> HIDE DEF A
    <2> QED
      BY <1>3, OrderedByRank
  <1>6. Known(s) \subseteq A
    <2> HIDE DEF A
    <2>1. \A i \in DOMAIN file[s].events : file[s].events[i] \in A
      BY <1>2, <1>5, RetainedFrom
    <2> QED
      BY <2>1 DEF Known
  <1>7. A \cup B = WantedUpTo(s, b.next)
    <2>1. \A e \in Wanted[s] : e \in Nat
      BY WantedFinite
    <2> HIDE DEF from
    <2>2. \A e \in Wanted[s] : e <= b.next <=> e <= from \/ (from < e /\ e <= b.next)
      BY <1>1, <2>1
    <2> QED
      BY <1>1, <2>2 DEF WantedUpTo, from
  <1>8. \A a \in A, e \in B : a < e
    <2> HIDE DEF from, A
    <2> QED
      BY <1>1, <1>3, <1>4
  <1>9. new = B
    <2>1. ASSUME NEW e \in Known(s)
          PROVE  ~(from < e)
      <3> HIDE DEF from, A
      <3>1. e \in Nat /\ e <= from
        BY <1>3, <1>4, <1>6
      <3> QED
        BY <1>1, <3>1
    <2> HIDE DEF from
    <2> QED
      BY <2>1
  <1>10. InOrder(B) \in Seq(Nat)
    <2> HIDE DEF B
    <2> QED
      BY <1>3, OrderedByRank
  <1> HIDE DEF A, B
  <1>11. InOrder(A) \o InOrder(B) = InOrder(A \cup B)
    BY <1>3, <1>8, OrderedUnion
  <1>12. Retained(Retained(InOrder(A)) \o InOrder(B)) = Retained(InOrder(A) \o InOrder(B))
    BY <1>5, <1>10, RetainedAgain
  <1>13. Stored(s, b) = Retained(file[s].events \o InOrder(new))
    BY DEF Stored
  <1> HIDE DEF new
  <1> QED
    BY <1>2, <1>7, <1>9, <1>11, <1>12, <1>13

\* The file and what is about to replace it are complete.
FilesComplete ==
    /\ Complete(file)
    /\ \A w \in Workers : batch[w].pc = "writing" => Complete(batch[w].temporary)

LEMMA EmptyComplete == Complete(EmptyFile)
  <1> SUFFICES ASSUME NEW s \in Streams
               PROVE  EmptyFile[s].events = Retained(InOrder(WantedUpTo(s, EmptyFile[s].cursor)))
    BY DEF Complete
  <1> DEFINE A == WantedUpTo(s, NoCursor)
  <1>1. EmptyFile[s].events = <<>> /\ EmptyFile[s].cursor = NoCursor
    BY DEF EmptyFile, EmptyCheckpoint
  <1>2. A = {}
    <2>1. \A e \in Wanted[s] : ~(e <= 0)
      BY EventAssumption DEF Positions
    <2> QED
      BY <2>1 DEF WantedUpTo, ReadUpTo
  <1>3. InOrder({}) = <<>>
    <2>1. InOrder({}) \in Seq(Nat) /\ Len(InOrder({})) = 0
      BY FS_EmptySet, OrderedByRank
    <2> QED
      BY <2>1
  <1>4. Retained(<<>>) = <<>>
    <2>1. Len(<<>>) = 0 /\ ~(0 > Retention)
      BY EventAssumption
    <2>2. Retained(<<>>) = SubSeq(<<>>, 1, 0)
      BY <2>1 DEF Retained
    <2> QED
      BY <2>2, SubSeqEmpty
  <1> QED
    BY <1>1, <1>2, <1>3, <1>4

LEMMA CompleteStepOK ==
    EInv /\ FilesComplete /\ [EventNext]_eventVars => FilesComplete'
  <1> SUFFICES ASSUME EInv, FilesComplete, [EventNext]_eventVars PROVE FilesComplete'
    OBVIOUS
  <1>0. /\ CursorsTyped(file)
        /\ DOMAIN batch = Workers
        /\ \A w \in Workers : BatchSound(w, batch[w])
    BY DEF EInv
  <1>1. ASSUME UNCHANGED file,
               \A w \in Workers : batch'[w].pc = "writing" => batch'[w] = batch[w]
        PROVE  FilesComplete'
    BY <1>1 DEF FilesComplete, Complete
  <1>2. CASE Emit \/ Prune \/ UNCHANGED eventVars
    BY <1>1, <1>2 DEF Emit, Prune, eventVars
  <1>3. ASSUME NEW w \in Workers, NEW b, b.pc # "writing",
               batch' = [batch EXCEPT ![w] = b], UNCHANGED file
        PROVE  FilesComplete'
    BY <1>0, <1>1, <1>3
  <1>4. ASSUME NEW w \in Workers, NEW s \in Streams, Load(w, s)
        PROVE  FilesComplete'
    <2> DEFINE b == [IdleBatch EXCEPT !.pc = "asking", !.stream = s, !.expected = file[s].cursor]
    <2>1. b.pc # "writing"
      BY DEF IdleBatch
    <2>2. batch' = [batch EXCEPT ![w] = b] /\ UNCHANGED file
      BY <1>4 DEF Load
    <2> HIDE DEF b
    <2> QED
      BY <1>3, <2>1, <2>2
  <1>5. ASSUME NEW w \in Workers, NEW n \in Cursors, Fetch(w, n)
        PROVE  FilesComplete'
    <2> DEFINE b == [batch[w] EXCEPT !.pc = "waiting", !.next = n]
    <2>1. b.pc # "writing"
      BY <1>0 DEF BatchSound
    <2>2. batch' = [batch EXCEPT ![w] = b] /\ UNCHANGED file
      BY <1>0, <1>5 DEF Fetch
    <2> HIDE DEF b
    <2> QED
      BY <1>3, <2>1, <2>2
  <1>6. ASSUME NEW w \in Workers, End(w), UNCHANGED file
        PROVE  FilesComplete'
    BY <1>3, <1>6, IdleSound DEF End
  <1>7. ASSUME NEW w \in Workers, FetchFails(w) \/ CommitConflict(w) \/ WriteFails(w)
        PROVE  FilesComplete'
    BY <1>6, <1>7 DEF FetchFails, CommitConflict, WriteFails
  <1>8. ASSUME NEW w \in Workers, CommitRead(w)
        PROVE  FilesComplete'
    <2> DEFINE s == batch[w].stream
               point == [cursor |-> batch[w].next, events |-> Stored(s, batch[w])]
               f == [file EXCEPT ![s] = point]
               b == [IdleBatch EXCEPT !.pc = "writing", !.temporary = f]
    <2>1. /\ batch[w].pc = "waiting"
          /\ file[s].cursor = batch[w].expected
          /\ batch' = [batch EXCEPT ![w] = b]
          /\ file' = file
      BY <1>8 DEF CommitRead, Write
    <2>2. /\ s \in Streams /\ batch[w].next \in Cursors
          /\ batch[w].next >= ReadUpTo(batch[w].expected)
          /\ file[s].cursor \in CursorOrNone
      BY <1>0, <2>1 DEF BatchSound, CursorsTyped
    <2>3. point.cursor = batch[w].next /\ point.events = Stored(s, batch[w])
      OBVIOUS
    <2>4. b.temporary = f
      BY DEF IdleBatch
    <2>5. Stored(s, batch[w]) = Retained(InOrder(WantedUpTo(s, batch[w].next)))
      BY <2>1, <2>2, StoredFollows DEF FilesComplete
    <2> HIDE DEF point, b
    <2>6. f[s] = point /\ \A t \in Streams \ {s} : f[t] = file[t]
      BY <1>0, <2>2 DEF CursorsTyped
    <2> HIDE DEF f
    <2>7. Complete(f)
      BY <2>2, <2>3, <2>5, <2>6 DEF FilesComplete, Complete
    <2>8. batch'[w] = b /\ \A v \in Workers \ {w} : batch'[v] = batch[v]
      BY <1>0, <2>1
    <2> QED
      BY <2>1, <2>4, <2>7, <2>8 DEF FilesComplete, Complete
  <1>9. ASSUME NEW w \in Workers, CommitRename(w)
        PROVE  FilesComplete'
    <2>1. /\ batch[w].pc = "writing"
          /\ file' = batch[w].temporary
          /\ batch' = [batch EXCEPT ![w] = IdleBatch]
      BY <1>9 DEF CommitRename, End
    <2>2. batch'[w].pc # "writing" /\ \A v \in Workers \ {w} : batch'[v] = batch[v]
      BY <1>0, <2>1, IdleSound
    <2> QED
      BY <2>1, <2>2 DEF FilesComplete, Complete
  <1>10. CASE Crash
    <2>1. file' = file
      BY <1>10 DEF Crash
    <2>2. CASE together
      BY <1>1, <1>10, <2>1, <2>2, IdleSound DEF Crash
    <2>3. CASE ~together
      BY <1>6, <1>10, <2>1, <2>3 DEF Crash
    <2> QED
      BY <2>2, <2>3
  <1> QED
    BY <1>2, <1>4, <1>5, <1>7, <1>8, <1>9, <1>10 DEF EventNext, BatchStep

\* For any number of streams and batches, of one process or of several: what is
\* stored of a stream is what it wanted of everything up to its cursor, in order,
\* without a gap or a duplicate, as far as it is retained, whichever batches fail,
\* stop or overlap.
THEOREM StoredComplete == EventSpec => []StoredUpToCursor
  <1>1. EventInit => EInv /\ FilesComplete
    BY EventInitOK, EmptyComplete, IdleSound DEF EventInit, FilesComplete
  <1>2. EInv /\ FilesComplete /\ [EventNext]_eventVars => EInv' /\ FilesComplete'
    BY EventStepOK, CompleteStepOK
  <1>3. EInv /\ FilesComplete => StoredUpToCursor
    <2> SUFFICES ASSUME FilesComplete, NEW s \in Streams
                 PROVE  /\ file[s].events = Retained(InOrder(WantedUpTo(s, file[s].cursor)))
                        /\ Len(file[s].events) <= Retention
      BY DEF StoredUpToCursor, WantedUpTo
    <2> DEFINE A == WantedUpTo(s, file[s].cursor)
    <2>1. file[s].events = Retained(InOrder(A))
      BY DEF FilesComplete, Complete
    <2>2. A \in SUBSET Wanted[s]
      BY DEF WantedUpTo
    <2> HIDE DEF A
    <2>3. InOrder(A) \in Seq(Nat)
      BY <2>2, WantedFinite, OrderedByRank
    <2>4. Len(Retained(InOrder(A))) <= Retention
      BY <2>3, RetainedLast
    <2> QED
      BY <2>1, <2>4 DEF A
  <1> QED
    BY <1>1, <1>2, <1>3, PTL DEF EventSpec

-----------------------------------------------------------------------------
(* The cache *)

\* A load that has seen what an invalidation found out of date is marked, and so
\* is the value it leaves behind.
CacheInv ==
    /\ CacheTypeOK
    /\ since <= data
    /\ load.pc = "seen" /\ load.version < since => load.overtaken
    /\ HasValue /\ entry.version < since => entry.overtaken

LEMMA CacheInitOK == CacheInit => CacheInv
BY CacheAssumption DEF CacheInit, CacheInv, CacheTypeOK, LoadRecord, NoLoad, HasValue,
   Versions, Entry

\* Joining the load under way, or beginning one, marks nothing and forgets no mark.
LEMMA JoinedOK ==
    ASSUME CacheInv
    PROVE  /\ Joined \in LoadRecord
           /\ Joined.pc = "seen" => Joined = load
<1>1. load \in LoadRecord
  BY DEF CacheInv, CacheTypeOK
<1>2. BegunLoad \in LoadRecord /\ BegunLoad.pc = "begun"
  <2>1. NoLoad \in LoadRecord
    BY CacheAssumption DEF NoLoad, LoadRecord, Versions
  <2> QED
    BY <2>1 DEF BegunLoad, LoadRecord
<1>3. CASE load.pc = "none"
  BY <1>2, <1>3 DEF Joined
<1>4. CASE load.pc # "none"
  BY <1>1, <1>4 DEF Joined
<1> QED
  BY <1>3, <1>4

LEMMA CacheStepOK == CacheInv /\ [CacheNext]_cacheVars => CacheInv'
<1> SUFFICES ASSUME CacheInv, [CacheNext]_cacheVars
             PROVE  CacheInv'
  OBVIOUS
<1> USE CacheAssumption DEF CacheInv, CacheTypeOK, Versions
<1>0. CASE UNCHANGED cacheVars
  BY <1>0 DEF cacheVars, HasValue
<1>1. CASE ReadStale
  BY <1>1, JoinedOK DEF ReadStale, HasValue
<1>2. CASE \E r \in Readers : ReadMiss(r)
  BY <1>2, JoinedOK DEF ReadMiss, HasValue
<1>3. CASE LoadSees
  BY <1>3 DEF LoadSees, LoadRecord, HasValue
<1>4. CASE LoadEnds
  <2>1. ValueOf(load) \in Entry
    BY DEF ValueOf, Entry, Lifetime, LoadRecord
  <2> QED
    BY <1>4, <2>1 DEF LoadEnds, ValueOf, NoLoad, LoadRecord, HasValue
<1>5. CASE LoadFails
  <2>1. Failure \in Entry
    BY DEF Failure, Entry, Lifetime
  <2> QED
    BY <1>5, <2>1 DEF LoadFails, Failure, NoLoad, LoadRecord, HasValue
<1>6. CASE WorldMoves
  BY <1>6 DEF WorldMoves, HasValue, LoadRecord
<1>7. CASE Invalidate
  <2>1. load' \in LoadRecord /\ (load'.pc = "seen" => load'.overtaken)
    BY <1>7 DEF Invalidate, LoadRecord
  <2>2. ~HasValue'
    BY <1>7 DEF Invalidate, HasValue
  <2> QED
    BY <1>7, <2>1, <2>2 DEF Invalidate
<1>8. CASE Evict
  BY <1>8 DEF Evict, HasValue
<1>9. CASE CacheTick
  BY <1>9 DEF CacheTick, HasValue, Entry, Lifetime
<1> QED
  BY <1>0, <1>1, <1>2, <1>3, <1>4, <1>5, <1>6, <1>7, <1>8, <1>9 DEF CacheNext

LEMMA CacheAlways == CacheSpec => []CacheInv
BY CacheInitOK, CacheStepOK, PTL DEF CacheSpec

\* Every reachable state of entry, load and readers has its type, whatever the
\* lifetimes and however many readers there are.
THEOREM CacheTyped == CacheSpec => []CacheTypeOK
<1>1. CacheInv => CacheTypeOK
  BY DEF CacheInv
<1> QED
  BY <1>1, CacheAlways, PTL

\* What was invalidated is served again only if a load that had looked before
\* the invalidation ended after it, for any lifetimes and any number of readers.
THEOREM InvalidatedStaysOut == CacheSpec => []ComesBackOvertaken
<1>1. CacheInv => ComesBackOvertaken
  BY DEF CacheInv, ComesBackOvertaken, Served, Fresh, Stale
<1> QED
  BY <1>1, CacheAlways, PTL

=============================================================================
