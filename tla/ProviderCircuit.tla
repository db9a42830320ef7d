--------------------------- MODULE ProviderCircuit ---------------------------
(***************************************************************************)
(* The circuit breaker of one provider and the calls that share it:        *)
(* ProviderCircuitRegistry and the attempt loop of executeProviderAdapter. *)
(*                                                                         *)
(* A call runs without interruption between two awaits: from the start of  *)
(* an attempt to the operation it awaits, and from the operation's answer  *)
(* to the sleep before the next attempt.  Those pieces are the actions.    *)
(* The registry keeps a circuit per provider and network; the quotes, its  *)
(* only users, have a handful of them, so that its bound of 128 is never   *)
(* met and one circuit shows what happens to each.                         *)
(***************************************************************************)
EXTENDS Naturals

CONSTANTS
    Calls,       \* concurrent runs of executeProviderAdapter
    Threshold,   \* failureThreshold
    OpenTicks,   \* openMs, the recovery interval, in ticks
    Retries      \* attempts after the first

ASSUME CircuitAssumption ==
    /\ Threshold \in Nat \ {0}
    /\ OpenTicks \in Nat \ {0}
    /\ Retries \in Nat

VARIABLES
    circuit,   \* the registry's entry
    call       \* where each call stands, with the circuit's state that admitted it

circuitVars == <<circuit, call>>

CircuitStates == {"closed", "open", "half_open"}

\* Failures are only ever compared with the threshold and the age of an open
\* circuit with the interval, so both stop there.
Circuit == [state : CircuitStates, failures : 0 .. Threshold, age : 0 .. OpenTicks,
            mark : BOOLEAN]

Call == [pc : {"idle", "waiting", "sleeping"}, attempt : 0 .. Retries,
         as : CircuitStates]

ClosedCircuit == [state |-> "closed", failures |-> 0, age |-> 0, mark |-> FALSE]
IdleCall == [pc |-> "idle", attempt |-> 0, as |-> "closed"]

CircuitInit ==
    /\ circuit = ClosedCircuit
    /\ call = [c \in Calls |-> IdleCall]

-----------------------------------------------------------------------------
(* The registry *)

\* acquire, first part: an open circuit is tried again after its interval.
Acquired ==
    IF circuit.state = "open" /\ circuit.age = OpenTicks
    THEN [circuit EXCEPT !.state = "half_open", !.mark = FALSE]
    ELSE circuit

TurnsAway(k) == k.state = "open" \/ (k.state = "half_open" /\ k.mark)

\* Mutant: a probe ends without its mark when its failure does not count.
UncountedKeepingMark(k) == k

\* failure, of an error that says nothing about the provider.
Uncounted(k) == [k EXCEPT !.mark = FALSE]

\* Mutant: the circuit opens one failure early.
CountedEarly(k) ==
    LET n == IF k.failures < Threshold THEN k.failures + 1 ELSE Threshold IN
    IF k.state = "half_open" \/ n + 1 >= Threshold
    THEN [k EXCEPT !.state = "open", !.failures = n, !.age = 0, !.mark = FALSE]
    ELSE [k EXCEPT !.failures = n, !.mark = FALSE]

\* failure, of one that does.
Counted(k) ==
    LET n == IF k.failures < Threshold THEN k.failures + 1 ELSE Threshold IN
    IF k.state = "half_open" \/ n = Threshold
    THEN [k EXCEPT !.state = "open", !.failures = n, !.age = 0, !.mark = FALSE]
    ELSE [k EXCEPT !.failures = n, !.mark = FALSE]

-----------------------------------------------------------------------------
(* The attempt loop *)

EndCall(c) == call' = [call EXCEPT ![c] = IdleCall]

\* After a retryable error the call ends, its attempts or its time used up, or
\* sleeps before the next attempt.
EndOrSleep(c, n) ==
    \/ EndCall(c)
    \/ /\ n < Retries
       /\ call' = [call EXCEPT ![c] = [pc |-> "sleeping", attempt |-> n, as |-> "closed"]]

AtAttempt(c) == call[c].pc \in {"idle", "sleeping"}

\* Mutant: an attempt after a sleep has the number of the one before.
AttemptUncounted(c) == call[c].attempt

\* The attempt a call begins: its first, or the one after its sleep.
Attempt(c) == IF call[c].pc = "idle" THEN 0 ELSE call[c].attempt + 1

\* acquire lets the attempt through and the operation is awaited.
Admit(c) ==
    /\ AtAttempt(c)
    /\ ~TurnsAway(Acquired)
    /\ circuit' = [Acquired EXCEPT !.mark = @ \/ Acquired.state = "half_open"]
    /\ call' = [call EXCEPT ![c] = [pc |-> "waiting", attempt |-> Attempt(c),
                                    as |-> Acquired.state]]

\* Mutant: being turned away counts as a failure of the provider.
TurnAwayCounted(c) ==
    /\ AtAttempt(c)
    /\ TurnsAway(Acquired)
    /\ circuit' = Counted(Acquired)
    /\ EndOrSleep(c, Attempt(c))

\* acquire throws, and the call reports that to the registry as an error of
\* its own, one that does not count.
TurnAway(c) ==
    /\ AtAttempt(c)
    /\ TurnsAway(Acquired)
    /\ circuit' = Uncounted(Acquired)
    /\ EndOrSleep(c, Attempt(c))

\* The caller gave up before the first attempt; that too is reported.
AlreadyAborted(c) ==
    /\ call[c].pc = "idle"
    /\ circuit' = Uncounted(circuit)
    /\ UNCHANGED call

\* The caller gives up while the call sleeps.
AbortedAsleep(c) ==
    /\ call[c].pc = "sleeping"
    /\ EndCall(c)
    /\ UNCHANGED circuit

\* The operation has answered in time and its answer is valid.
Succeed(c) ==
    /\ call[c].pc = "waiting"
    /\ circuit' = ClosedCircuit
    /\ EndCall(c)

\* A timeout, a refused connection, a malformed answer, a rate limit.
FailRetryably(c) ==
    /\ call[c].pc = "waiting"
    /\ circuit' = Counted(circuit)
    /\ EndOrSleep(c, call[c].attempt)

\* A cancelled call or an invalid request.
FailFinally(c) ==
    /\ call[c].pc = "waiting"
    /\ circuit' = Uncounted(circuit)
    /\ EndCall(c)

\* Time passes; it matters to an open circuit only.
CircuitTick ==
    /\ circuit.state = "open"
    /\ circuit.age < OpenTicks
    /\ circuit' = [circuit EXCEPT !.age = @ + 1]
    /\ UNCHANGED call

-----------------------------------------------------------------------------

Asks(c) == Admit(c) \/ TurnAway(c)

CallStep(c) == Asks(c) \/ AlreadyAborted(c) \/ AbortedAsleep(c)
                       \/ Succeed(c) \/ FailRetryably(c) \/ FailFinally(c)

CircuitNext == CircuitTick \/ \E c \in Calls : CallStep(c)

\* A call under way goes on: an operation is raced against a timer and a sleep
\* ends by one.  Time passes.  Nobody need ever make a call.
GoesOn(c) == call[c].pc # "idle" /\ CallStep(c)

CircuitFairness ==
    /\ WF_circuitVars(CircuitTick)
    /\ \A c \in Calls : WF_circuitVars(GoesOn(c))

CircuitSpec == CircuitInit /\ [][CircuitNext]_circuitVars /\ CircuitFairness

-----------------------------------------------------------------------------
(* Properties *)

\* The type invariant.
CircuitTypeOK ==
    /\ circuit \in Circuit
    /\ call \in [Calls -> Call]

\* The circuit is closed exactly as long as fewer than the threshold of
\* failures were counted since the last success, whatever late answers of calls
\* admitted earlier do to a circuit that is open or on trial by now.
OpenIffFailing == circuit.state = "closed" <=> circuit.failures < Threshold

Probes == {c \in Calls : call[c].pc = "waiting" /\ call[c].as = "half_open"}

\* A half-open circuit that turns callers away waits for a probe that is under
\* way: no outcome of a probe, its cancellation included, leaves the mark
\* behind, which would shut the provider out for good.
MarkHasProbe == circuit.mark => circuit.state = "half_open" /\ Probes # {}

\* Every call ends, however the provider and the circuit treat its attempts.
EveryCallEnds == \A c \in Calls : call[c].pc # "idle" ~> call[c].pc = "idle"

\* While callers keep asking, an open circuit does not stay open: the provider
\* gets its probe, and being turned away does not put that off.
TriedAgain ==
    []<><<\E c \in Calls : Asks(c)>>_circuitVars
        => (circuit.state = "open" ~> circuit.state # "open")

=============
