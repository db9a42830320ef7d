-------------------------- MODULE AuditRegistryProofs --------------------------
(***************************************************************************)
(* Proofs that the log of AuditRegistry is justified and free of replays   *)
(* for any users, agents, policies, windows and ledger spacing of at least *)
(* five seconds.                                                           *)
(***************************************************************************)
EXTENDS AuditRegistry, TLAPS

\* Event m is the last of its kinds about u and a so far.
Latest(m, kinds, u, a) ==
    /\ m \in 1 .. Len(events)
    /\ Concerns(m, kinds, u, a)
    /\ \A k \in m + 1 .. Len(events) : ~Concerns(k, kinds, u, a)

\* The policy a user is committed to is the last one published.
PolicyLogged ==
    \A u \in Users : policy[u] # NoPolicy =>
        \E p \in 1 .. Len(events) : /\ Latest(p, {"policy"}, u, NoAgent)
                                    /\ events[p].policy = policy[u]

\* An active authorization is the last grant published, and no revocation followed.
GrantLogged ==
    \A u \in Users, a \in Agents : grant[u][a] # NoGrant /\ grant[u][a].active =>
        \E g \in 1 .. Len(events) : /\ Latest(g, {"grant", "revoke"}, u, a)
                                    /\ events[g].kind = "grant"
                                    /\ events[g].policy = grant[u][a].policy
                                    /\ events[g].expires = grant[u][a].expires

\* A user who is not paused published no pause, or resumed after it.
PauseLogged ==
    \A u \in Users, q \in 1 .. Len(events) :
        u \notin paused /\ Latest(q, {"paused", "unpaused"}, u, NoAgent) =>
            events[q].kind = "unpaused"

\* The mark of an intent that has not expired lives at least as many ledgers as
\* five-second ledgers fit in the time it has left.
MarkOutlives ==
    \A m \in 1 .. Len(events) : events[m].kind = "intent" =>
        LET until == marker[events[m].user][events[m].id] IN
        \/ events[m].expires <= closeTime
        \/ ledger <= until /\ events[m].expires <= closeTime + 5 * (until + 1 - ledger)

\* An event about an intent has its id; one about an agent names the agent.
EventShape ==
    \A m \in 1 .. Len(events) : events[m].kind = "intent" => events[m].id \in IntentIds

IInv ==
    /\ AuditTypeOK
    /\ EventShape
    /\ PolicyLogged
    /\ GrantLogged
    /\ PauseLogged
    /\ MarkOutlives
    /\ LogJustified
    /\ NoReplayWhileLive

-----------------------------------------------------------------------------
(* The log *)

\* The fields of a published event have their types.
LEMMA EventFields ==
    ASSUME events \in Seq(Event), NEW n \in 1 .. Len(events)
    PROVE  /\ events[n] \in Event
           /\ events[n].user \in Users
           /\ events[n].expires \in Nat
           /\ events[n].at \in Nat
  <1>1. events[n] \in Event
    OBVIOUS
  <1> QED
    BY <1>1 DEF Event

\* Publishing appends one event and changes none.
LEMMA PublishAppends ==
    ASSUME events \in Seq(Event), NEW e \in Event, Publish(e)
    PROVE  /\ events' \in Seq(Event)
           /\ Len(events') = Len(events) + 1
           /\ Len(events) \in Nat
           /\ events'[Len(events) + 1] = e
           /\ \A n \in 1 .. Len(events) : events'[n] = events[n]
  BY DEF Publish

\* What came before an event does not change.
LEMMA PastKept ==
    ASSUME events \in Seq(Event), NEW e \in Event, Publish(e), NEW n \in 1 .. Len(events),
           Justified(n)
    PROVE  Justified(n)'
  <1>1. /\ Len(events) \in Nat
        /\ \A k \in 1 .. n : events'[k] = events[k]
    BY PublishAppends
  <1>2. \A m \in 1 .. n - 1 : \A kinds, u, a : Concerns(m, kinds, u, a)' <=> Concerns(m, kinds, u, a)
    BY <1>1 DEF Concerns
  <1>3. \A m \in 1 .. n - 1 : \A kinds, u, a :
           LastBefore(m, n, kinds, u, a)' <=> LastBefore(m, n, kinds, u, a)
    BY <1>2 DEF LastBefore
  <1> QED
    BY <1>1, <1>3 DEF Justified

\* The new event is the last of its kind; every other last event remains one.
LEMMA LatestAfter ==
    ASSUME events \in Seq(Event), NEW e \in Event, Publish(e), NEW kinds, NEW u, NEW a,
           NEW m \in 1 .. Len(events) + 1
    PROVE  Latest(m, kinds, u, a)' <=>
             IF e.kind \in kinds /\ e.user = u /\ e.agent = a THEN m = Len(events) + 1
             ELSE m \in 1 .. Len(events) /\ Latest(m, kinds, u, a)
  <1>1. /\ Len(events') = Len(events) + 1
        /\ Len(events) \in Nat
        /\ events'[Len(events) + 1] = e
        /\ \A n \in 1 .. Len(events) : events'[n] = events[n]
    BY PublishAppends
  <1>2. /\ \A n \in 1 .. Len(events) : Concerns(n, kinds, u, a)' <=> Concerns(n, kinds, u, a)
        /\ events'[Len(events) + 1].kind \in kinds /\ events'[Len(events) + 1].user = u
             /\ events'[Len(events) + 1].agent = a
           <=> e.kind \in kinds /\ e.user = u /\ e.agent = a
    BY <1>1 DEF Concerns
  <1> QED
    BY <1>1, <1>2 DEF Latest, Concerns

-----------------------------------------------------------------------------
(* What an event leaves as it was *)

LEMMA PolicyKept ==
    ASSUME IInv, NEW e \in Event, Publish(e), UNCHANGED policy, e.kind # "policy"
    PROVE  PolicyLogged'
  <1>1. events \in Seq(Event)
    BY DEF IInv, AuditTypeOK
  <1>2. /\ Len(events') = Len(events) + 1
        /\ Len(events) \in Nat
        /\ \A n \in 1 .. Len(events) : events'[n] = events[n]
    BY <1>1, PublishAppends
  <1>3. \A u \in Users, p \in 1 .. Len(events) :
           Latest(p, {"policy"}, u, NoAgent) => Latest(p, {"policy"}, u, NoAgent)'
    BY <1>1, <1>2, LatestAfter
  <1> QED
    BY <1>2, <1>3 DEF IInv, PolicyLogged

LEMMA GrantKept ==
    ASSUME IInv, NEW e \in Event, Publish(e), UNCHANGED grant, e.kind \notin {"grant", "revoke"}
    PROVE  GrantLogged'
  <1>1. events \in Seq(Event)
    BY DEF IInv, AuditTypeOK
  <1>2. /\ Len(events') = Len(events) + 1
        /\ Len(events) \in Nat
        /\ \A n \in 1 .. Len(events) : events'[n] = events[n]
    BY <1>1, PublishAppends
  <1>3. \A u \in Users, a \in Agents, g \in 1 .. Len(events) :
           Latest(g, {"grant", "revoke"}, u, a) => Latest(g, {"grant", "revoke"}, u, a)'
    BY <1>1, <1>2, LatestAfter
  <1> QED
    BY <1>2, <1>3 DEF IInv, GrantLogged

LEMMA PauseKept ==
    ASSUME IInv, NEW e \in Event, Publish(e), UNCHANGED paused,
           e.kind \notin {"paused", "unpaused"}
    PROVE  PauseLogged'
  <1>1. events \in Seq(Event)
    BY DEF IInv, AuditTypeOK
  <1>2. /\ Len(events') = Len(events) + 1
        /\ Len(events) \in Nat
        /\ \A n \in 1 .. Len(events) : events'[n] = events[n]
    BY <1>1, PublishAppends
  <1>3. \A u \in Users, q \in 1 .. Len(events') :
           Latest(q, {"paused", "unpaused"}, u, NoAgent)' =>
             q \in 1 .. Len(events) /\ Latest(q, {"paused", "unpaused"}, u, NoAgent)
    BY <1>1, <1>2, LatestAfter
  <1> QED
    BY <1>2, <1>3 DEF IInv, PauseLogged

\* An event that is neither a decision nor an intent leaves the rest as it was.
LEMMA QuietKept ==
    ASSUME IInv, NEW e \in Event, Publish(e), UNCHANGED marker,
           e.kind \notin {"decision", "intent"}
    PROVE  EventShape' /\ MarkOutlives' /\ LogJustified' /\ NoReplayWhileLive'
  <1>1. events \in Seq(Event)
    BY DEF IInv, AuditTypeOK
  <1>2. /\ Len(events') = Len(events) + 1
        /\ Len(events) \in Nat
        /\ events'[Len(events) + 1] = e
        /\ \A n \in 1 .. Len(events) : events'[n] = events[n]
        /\ UNCHANGED <<ledger, closeTime>>
    BY <1>1, PublishAppends DEF Publish
  <1>3. \A n \in 1 .. Len(events') : events'[n].kind \in {"decision", "intent"} =>
           n \in 1 .. Len(events) /\ events'[n] = events[n]
    BY <1>2
  <1>4. EventShape' /\ MarkOutlives'
    BY <1>2, <1>3 DEF IInv, EventShape, MarkOutlives
  <1>5. LogJustified'
    BY <1>1, <1>3, PastKept DEF IInv, LogJustified
  <1>6. NoReplayWhileLive'
    BY <1>3 DEF IInv, NoReplayWhileLive
  <1> QED
    BY <1>4, <1>5, <1>6

\* An event dated now, within the windows, keeps the log's type.
LEMMA LogTypeKept ==
    ASSUME IInv, NEW e \in Event, Publish(e), e.at = closeTime,
           e.kind = "grant" => e.expires <= closeTime + MaxAuthorizationWindow,
           e.kind = "intent" => e.expires <= closeTime + MaxIntentWindow
    PROVE  /\ events' \in Seq(Event)
           /\ \A n \in 1 .. Len(events') :
                 /\ events'[n].at <= closeTime'
                 /\ events'[n].kind = "grant" =>
                       events'[n].expires <= events'[n].at + MaxAuthorizationWindow
                 /\ events'[n].kind = "intent" =>
                       events'[n].expires <= events'[n].at + MaxIntentWindow
  <1>1. events \in Seq(Event) /\ closeTime \in Nat /\ closeTime' = closeTime
    BY DEF IInv, AuditTypeOK, Publish
  <1>2. /\ events' \in Seq(Event)
        /\ Len(events') = Len(events) + 1
        /\ Len(events) \in Nat
        /\ events'[Len(events) + 1] = e
        /\ \A n \in 1 .. Len(events) : events'[n] = events[n]
    BY <1>1, PublishAppends
  <1> SUFFICES ASSUME NEW n \in 1 .. Len(events')
               PROVE  /\ events'[n].at <= closeTime'
                      /\ events'[n].kind = "grant" =>
                            events'[n].expires <= events'[n].at + MaxAuthorizationWindow
                      /\ events'[n].kind = "intent" =>
                            events'[n].expires <= events'[n].at + MaxIntentWindow
    BY <1>2
  <1>3. CASE n = Len(events) + 1
    BY <1>1, <1>2, <1>3
  <1>4. CASE n \in 1 .. Len(events)
    BY <1>1, <1>2, <1>4 DEF IInv, AuditTypeOK
  <1> QED
    BY <1>2, <1>3, <1>4

\* What a live agent logs is justified by the log.
LEMMA LiveJustified ==
    ASSUME IInv, NEW u \in Users, NEW a \in Agents, NEW p \in Policies, LiveAgent(u, a, p),
           NEW e \in Event, Publish(e), e.user = u, e.agent = a, e.at = closeTime,
           NEW n, n = Len(events) + 1
    PROVE  Justified(n)'
  <1>1. events \in Seq(Event)
    BY DEF IInv, AuditTypeOK
  <1>2. /\ Len(events) \in Nat
        /\ events'[n] = e
        /\ \A k \in 1 .. n - 1 : events'[k] = events[k]
    BY <1>1, PublishAppends
  <1>3. \A m \in 1 .. n - 1 : \A kinds, w, b :
           LastBefore(m, n, kinds, w, b)' <=> Latest(m, kinds, w, b)
    BY <1>2 DEF LastBefore, Latest, Concerns
  <1>4. PICK g \in 1 .. n - 1 : /\ Latest(g, {"grant", "revoke"}, u, a)
                                /\ events[g].kind = "grant"
                                /\ events[g].policy = p
                                /\ events[g].expires > closeTime
    BY <1>2 DEF IInv, GrantLogged, LiveAgent
  <1>5. PICK q \in 1 .. n - 1 : /\ Latest(q, {"policy"}, u, NoAgent)
                                /\ events[q].policy = p
    BY <1>2, AuditAssumption DEF IInv, PolicyLogged, LiveAgent
  <1>6. \A q1 \in 1 .. n - 1 :
           Latest(q1, {"paused", "unpaused"}, u, NoAgent) => events[q1].kind = "unpaused"
    BY <1>2 DEF IInv, PauseLogged, LiveAgent
  <1> QED
    BY <1>2, <1>3, <1>4, <1>5, <1>6 DEF Justified

-----------------------------------------------------------------------------
(* The inductive invariant *)

LEMMA InitIInv == AuditInit => IInv
  <1> SUFFICES ASSUME AuditInit PROVE IInv
    OBVIOUS
  <1>1. Len(events) = 0 /\ events \in Seq(Event)
    BY DEF AuditInit
  <1>2. AuditTypeOK
    BY <1>1 DEF AuditInit, AuditTypeOK, SecondsPerLedger
  <1> QED
    BY <1>1, <1>2
    DEF IInv, EventShape, PolicyLogged, GrantLogged, PauseLogged, MarkOutlives, LogJustified,
        NoReplayWhileLive, AuditInit

LEMMA SetPolicyIInv ==
    ASSUME IInv, NEW u \in Users, NEW p \in Policies, SetPolicy(u, p)
    PROVE  IInv'
  <1> DEFINE e == [Say("policy", u, NoAgent) EXCEPT !.policy = p]
  <1>1. /\ events \in Seq(Event) /\ closeTime \in Nat
        /\ policy' = [policy EXCEPT ![u] = p]
        /\ policy \in [Users -> Policies \cup {NoPolicy}]
        /\ Publish(e)
        /\ UNCHANGED <<grant, paused, marker, ledger, closeTime>>
    BY DEF SetPolicy, IInv, AuditTypeOK, Publish
  <1>2. /\ e \in Event /\ e.kind = "policy" /\ e.user = u /\ e.agent = NoAgent
        /\ e.policy = p /\ e.at = closeTime
    BY <1>1 DEF Say, Event, Kinds
  <1> HIDE DEF e
  <1>3. AuditTypeOK'
    BY <1>1, <1>2, LogTypeKept DEF IInv, AuditTypeOK
  <1>4. GrantLogged' /\ PauseLogged'
    BY <1>1, <1>2, GrantKept, PauseKept
  <1>5. EventShape' /\ MarkOutlives' /\ LogJustified' /\ NoReplayWhileLive'
    BY <1>1, <1>2, QuietKept
  <1>6. PolicyLogged'
    <2> SUFFICES ASSUME NEW w \in Users, policy'[w] # NoPolicy
                 PROVE  \E q \in 1 .. Len(events') : /\ Latest(q, {"policy"}, w, NoAgent)'
                                                     /\ events'[q].policy = policy'[w]
      BY DEF PolicyLogged
    <2>1. /\ Len(events') = Len(events) + 1
          /\ Len(events) \in Nat
          /\ events'[Len(events) + 1] = e
          /\ \A n \in 1 .. Len(events) : events'[n] = events[n]
      BY <1>1, <1>2, PublishAppends
    <2>2. CASE w = u
      <3>1. PICK q \in 1 .. Len(events') : q = Len(events) + 1
        BY <2>1
      <3>2. Latest(q, {"policy"}, w, NoAgent)'
        BY <1>1, <1>2, <2>1, <2>2, <3>1, LatestAfter
      <3> QED
        BY <1>1, <1>2, <2>1, <2>2, <3>1, <3>2
    <2>3. CASE w # u
      <3>1. PICK q \in 1 .. Len(events) : /\ Latest(q, {"policy"}, w, NoAgent)
                                          /\ events[q].policy = policy[w]
        BY <1>1, <2>3 DEF IInv, PolicyLogged
      <3>2. Latest(q, {"policy"}, w, NoAgent)'
        BY <1>1, <1>2, <2>1, <2>3, <3>1, LatestAfter
      <3> QED
        BY <1>1, <2>1, <2>3, <3>1, <3>2
    <2> QED
      BY <2>2, <2>3
  <1> QED
    BY <1>3, <1>4, <1>5, <1>6 DEF IInv

LEMMA AuthorizeAgentIInv ==
    ASSUME IInv, NEW u \in Users, NEW a \in Agents, NEW p \in Policies, NEW x \in Nat,
           AuthorizeAgent(u, a, p, x)
    PROVE  IInv'
  <1> DEFINE e == [Say("grant", u, a) EXCEPT !.policy = p, !.expires = x]
             new == [policy |-> p, expires |-> x, active |-> TRUE]
  <1>1. /\ events \in Seq(Event) /\ closeTime \in Nat
        /\ grant' = [grant EXCEPT ![u][a] = new]
        /\ grant \in [Users -> [Agents -> Authorization \cup {NoGrant}]]
        /\ Publish(e)
        /\ x - closeTime <= MaxAuthorizationWindow
        /\ UNCHANGED <<policy, paused, marker, ledger, closeTime>>
    BY DEF AuthorizeAgent, IInv, AuditTypeOK, Publish
  <1>2. /\ e \in Event /\ e.kind = "grant" /\ e.user = u /\ e.agent = a
        /\ e.policy = p /\ e.expires = x /\ e.at = closeTime
    BY <1>1 DEF Say, Event, Kinds
  <1>3. new \in Authorization /\ new.policy = p /\ new.expires = x
    BY DEF Authorization
  <1> HIDE DEF e, new
  <1>4. x <= closeTime + MaxAuthorizationWindow
    BY <1>1, AuditAssumption
  <1>5. AuditTypeOK'
    <2>1. grant' \in [Users -> [Agents -> Authorization \cup {NoGrant}]]
      BY <1>1, <1>3
    <2> QED
      BY <1>1, <1>2, <1>4, <2>1, LogTypeKept DEF IInv, AuditTypeOK
  <1>6. PolicyLogged' /\ PauseLogged'
    BY <1>1, <1>2, PolicyKept, PauseKept
  <1>7. EventShape' /\ MarkOutlives' /\ LogJustified' /\ NoReplayWhileLive'
    BY <1>1, <1>2, QuietKept
  <1>8. GrantLogged'
    <2> SUFFICES ASSUME NEW w \in Users, NEW b \in Agents, grant'[w][b] # NoGrant,
                        grant'[w][b].active
                 PROVE  \E g \in 1 .. Len(events') :
                           /\ Latest(g, {"grant", "revoke"}, w, b)'
                           /\ events'[g].kind = "grant"
                           /\ events'[g].policy = grant'[w][b].policy
                           /\ events'[g].expires = grant'[w][b].expires
      BY DEF GrantLogged
    <2>1. /\ Len(events') = Len(events) + 1
          /\ Len(events) \in Nat
          /\ events'[Len(events) + 1] = e
          /\ \A n \in 1 .. Len(events) : events'[n] = events[n]
      BY <1>1, <1>2, PublishAppends
    <2>2. CASE w = u /\ b = a
      <3>1. PICK g \in 1 .. Len(events') : g = Len(events) + 1
        BY <2>1
      <3>2. Latest(g, {"grant", "revoke"}, w, b)'
        BY <1>1, <1>2, <2>1, <2>2, <3>1, LatestAfter
      <3>3. grant'[w][b] = new
        BY <1>1, <2>2
      <3> QED
        BY <1>2, <1>3, <2>1, <3>1, <3>2, <3>3
    <2>3. CASE w # u \/ b # a
      <3>1. grant'[w][b] = grant[w][b]
        BY <1>1, <2>3
      <3>2. PICK g \in 1 .. Len(events) : /\ Latest(g, {"grant", "revoke"}, w, b)
                                          /\ events[g].kind = "grant"
                                          /\ events[g].policy = grant[w][b].policy
                                          /\ events[g].expires = grant[w][b].expires
        BY <3>1 DEF IInv, GrantLogged
      <3>3. Latest(g, {"grant", "revoke"}, w, b)'
        BY <1>1, <1>2, <2>1, <2>3, <3>2, LatestAfter
      <3> QED
        BY <2>1, <3>1, <3>2, <3>3
    <2> QED
      BY <2>2, <2>3
  <1> QED
    BY <1>5, <1>6, <1>7, <1>8 DEF IInv

LEMMA RevokeAgentIInv ==
    ASSUME IInv, NEW u \in Users, NEW a \in Agents, RevokeAgent(u, a)
    PROVE  IInv'
  <1> DEFINE e == Say("revoke", u, a)
  <1>1. /\ events \in Seq(Event) /\ closeTime \in Nat
        /\ grant' = IF grant[u][a] = NoGrant THEN grant
                    ELSE [grant EXCEPT ![u][a].active = FALSE]
        /\ grant \in [Users -> [Agents -> Authorization \cup {NoGrant}]]
        /\ Publish(e)
        /\ UNCHANGED <<policy, paused, marker, ledger, closeTime>>
    BY DEF RevokeAgent, IInv, AuditTypeOK, Publish
  <1>2. e \in Event /\ e.kind = "revoke" /\ e.user = u /\ e.agent = a /\ e.at = closeTime
    BY <1>1 DEF Say, Event, Kinds
  <1> HIDE DEF e
  <1>3. /\ grant' \in [Users -> [Agents -> Authorization \cup {NoGrant}]]
        /\ grant'[u][a] # NoGrant => ~grant'[u][a].active
        /\ \A w \in Users, b \in Agents : w # u \/ b # a => grant'[w][b] = grant[w][b]
    <2>1. CASE grant[u][a] = NoGrant
      BY <1>1, <2>1
    <2>2. CASE grant[u][a] # NoGrant
      <3> DEFINE new == [grant[u][a] EXCEPT !.active = FALSE]
      <3>1. grant[u][a] \in Authorization
        BY <1>1, <2>2
      <3>2. new \in Authorization /\ new.active = FALSE
        BY <3>1, Zenon DEF Authorization
      <3>3. grant' = [grant EXCEPT ![u] = [grant[u] EXCEPT ![a] = new]]
        BY <1>1, <2>2, Zenon
      <3>4. grant \in [Users -> [Agents -> Authorization \cup {NoGrant}]]
        BY <1>1
      <3> HIDE DEF new
      <3> QED
        BY <3>2, <3>3, <3>4
    <2> QED
      BY <2>1, <2>2
  <1>4. AuditTypeOK'
    BY <1>1, <1>2, <1>3, LogTypeKept DEF IInv, AuditTypeOK
  <1>5. PolicyLogged' /\ PauseLogged'
    BY <1>1, <1>2, PolicyKept, PauseKept
  <1>6. EventShape' /\ MarkOutlives' /\ LogJustified' /\ NoReplayWhileLive'
    BY <1>1, <1>2, QuietKept
  <1>7. GrantLogged'
    <2> SUFFICES ASSUME NEW w \in Users, NEW b \in Agents, grant'[w][b] # NoGrant,
                        grant'[w][b].active
                 PROVE  \E g \in 1 .. Len(events') :
                           /\ Latest(g, {"grant", "revoke"}, w, b)'
                           /\ events'[g].kind = "grant"
                           /\ events'[g].policy = grant'[w][b].policy
                           /\ events'[g].expires = grant'[w][b].expires
      BY DEF GrantLogged
    <2>1. /\ Len(events') = Len(events) + 1
          /\ Len(events) \in Nat
          /\ events'[Len(events) + 1] = e
          /\ \A n \in 1 .. Len(events) : events'[n] = events[n]
      BY <1>1, <1>2, PublishAppends
    <2>2. (w # u \/ b # a) /\ grant'[w][b] = grant[w][b]
      BY <1>3
    <2>3. PICK g \in 1 .. Len(events) : /\ Latest(g, {"grant", "revoke"}, w, b)
                                        /\ events[g].kind = "grant"
                                        /\ events[g].policy = grant[w][b].policy
                                        /\ events[g].expires = grant[w][b].expires
      BY <2>2 DEF IInv, GrantLogged
    <2>4. Latest(g, {"grant", "revoke"}, w, b)'
      BY <1>1, <1>2, <2>1, <2>2, <2>3, LatestAfter
    <2> QED
      BY <2>1, <2>2, <2>3, <2>4
  <1> QED
    BY <1>4, <1>5, <1>6, <1>7 DEF IInv

LEMMA PauseAuditIInv ==
    ASSUME IInv, NEW u \in Users, NEW on \in BOOLEAN, PauseAudit(u, on)
    PROVE  IInv'
  <1> DEFINE kind == IF on THEN "paused" ELSE "unpaused"
             e == Say(kind, u, NoAgent)
  <1>1. /\ events \in Seq(Event) /\ closeTime \in Nat
        /\ paused' = IF on THEN paused \cup {u} ELSE paused \ {u}
        /\ paused \subseteq Users
        /\ Publish(e)
        /\ UNCHANGED <<policy, grant, marker, ledger, closeTime>>
    BY DEF PauseAudit, IInv, AuditTypeOK, Publish
  <1>2. /\ e \in Event /\ e.user = u /\ e.agent = NoAgent /\ e.at = closeTime
        /\ e.kind = kind /\ kind \in {"paused", "unpaused"}
        /\ u \notin paused' => kind = "unpaused"
    BY <1>1 DEF Say, Event, Kinds
  <1> HIDE DEF e, kind
  <1>3. AuditTypeOK'
    BY <1>1, <1>2, LogTypeKept DEF IInv, AuditTypeOK
  <1>4. PolicyLogged' /\ GrantLogged'
    BY <1>1, <1>2, PolicyKept, GrantKept
  <1>5. EventShape' /\ MarkOutlives' /\ LogJustified' /\ NoReplayWhileLive'
    BY <1>1, <1>2, QuietKept
  <1>6. PauseLogged'
    <2> SUFFICES ASSUME NEW w \in Users, NEW q \in 1 .. Len(events'), w \notin paused',
                        Latest(q, {"paused", "unpaused"}, w, NoAgent)'
                 PROVE  events'[q].kind = "unpaused"
      BY DEF PauseLogged
    <2>1. /\ Len(events') = Len(events) + 1
          /\ Len(events) \in Nat
          /\ events'[Len(events) + 1] = e
          /\ \A n \in 1 .. Len(events) : events'[n] = events[n]
      BY <1>1, <1>2, PublishAppends
    <2>2. CASE w = u
      <3>1. q = Len(events) + 1
        BY <1>1, <1>2, <2>1, <2>2, LatestAfter
      <3> QED
        BY <1>2, <2>1, <2>2, <3>1
    <2>3. CASE w # u
      <3>1. q \in 1 .. Len(events) /\ Latest(q, {"paused", "unpaused"}, w, NoAgent)
        BY <1>1, <1>2, <2>1, <2>3, LatestAfter
      <3>2. w \notin paused
        BY <1>1, <2>3
      <3> QED
        BY <2>1, <3>1, <3>2 DEF IInv, PauseLogged
    <2> QED
      BY <2>2, <2>3
  <1> QED
    BY <1>3, <1>4, <1>5, <1>6 DEF IInv

LEMMA LogDecisionIInv ==
    ASSUME IInv, NEW u \in Users, NEW a \in Agents, NEW p \in Policies, LogDecision(u, a, p)
    PROVE  IInv'
  <1> DEFINE e == Say("decision", u, a)
  <1>1. /\ events \in Seq(Event) /\ closeTime \in Nat
        /\ LiveAgent(u, a, p)
        /\ Publish(e)
        /\ UNCHANGED <<policy, grant, paused, marker, ledger, closeTime>>
    BY DEF LogDecision, IInv, AuditTypeOK, Publish
  <1>2. e \in Event /\ e.kind = "decision" /\ e.user = u /\ e.agent = a /\ e.at = closeTime
    BY <1>1 DEF Say, Event, Kinds
  <1> HIDE DEF e
  <1>3. /\ Len(events') = Len(events) + 1
        /\ Len(events) \in Nat
        /\ events'[Len(events) + 1] = e
        /\ \A n \in 1 .. Len(events) : events'[n] = events[n]
    BY <1>1, <1>2, PublishAppends
  <1>4. AuditTypeOK'
    BY <1>1, <1>2, LogTypeKept DEF IInv, AuditTypeOK
  <1>5. PolicyLogged' /\ GrantLogged' /\ PauseLogged'
    BY <1>1, <1>2, PolicyKept, GrantKept, PauseKept
  <1>6. \A n \in 1 .. Len(events') : events'[n].kind = "intent" =>
           n \in 1 .. Len(events) /\ events'[n] = events[n]
    BY <1>2, <1>3
  <1>7. EventShape' /\ MarkOutlives' /\ NoReplayWhileLive'
    BY <1>1, <1>3, <1>6 DEF IInv, EventShape, MarkOutlives, NoReplayWhileLive
  <1>8. LogJustified'
    <2>1. \A n \in 1 .. Len(events') : n \in 1 .. Len(events) \/ n = Len(events) + 1
      BY <1>3
    <2>2. ASSUME NEW n \in 1 .. Len(events'), events'[n].kind \in {"decision", "intent"}
          PROVE  Justified(n)'
      <3>1. CASE n = Len(events) + 1
        BY <1>1, <1>2, <3>1, LiveJustified
      <3>2. CASE n \in 1 .. Len(events)
        <4>1. Justified(n)
          BY <1>3, <2>2, <3>2 DEF IInv, LogJustified
        <4> QED
          BY <1>1, <1>2, <3>2, <4>1, PastKept
      <3> QED
        BY <2>1, <3>1, <3>2
    <2> QED
      BY <2>2 DEF LogJustified
  <1> QED
    BY <1>4, <1>5, <1>7, <1>8 DEF IInv

\* The mark set now outlives the intent: floor division loses less than a ledger,
\* and the ledger the mark is set in counts besides.
LEMMA MarkedLongEnough ==
    ASSUME ledger \in Nat, NEW d \in Nat
    PROVE  /\ MarkedUntil(d) \in Nat
           /\ ledger <= MarkedUntil(d)
           /\ d <= 5 * (MarkedUntil(d) + 1 - ledger)
  <1>1. LiveLedgers(d) \in Nat /\ d <= 5 * (LiveLedgers(d) + 1)
    BY DEF LiveLedgers, SecondsPerLedger
  <1>2. MarkedUntil(d) \in Nat /\ MarkedUntil(d) >= ledger + LiveLedgers(d)
    BY <1>1, AuditAssumption DEF MarkedUntil
  <1> HIDE DEF MarkedUntil
  <1> QED
    BY <1>1, <1>2

LEMMA RecordIntentIInv ==
    ASSUME IInv, NEW u \in Users, NEW a \in Agents, NEW p \in Policies, NEW i \in IntentIds,
           NEW x \in Nat, RecordIntent(u, a, p, i, x)
    PROVE  IInv'
  <1> DEFINE e == [Say("intent", u, a) EXCEPT !.id = i, !.expires = x]
             until == MarkedUntil(x - closeTime)
  <1>1. /\ events \in Seq(Event) /\ closeTime \in Nat /\ ledger \in Nat \ {0}
        /\ LiveAgent(u, a, p)
        /\ x > closeTime /\ x - closeTime <= MaxIntentWindow
        /\ marker[u][i] < ledger
        /\ marker' = [marker EXCEPT ![u][i] = until]
        /\ marker \in [Users -> [IntentIds -> Nat]]
        /\ Publish(e)
        /\ UNCHANGED <<policy, grant, paused, ledger, closeTime>>
    BY DEF RecordIntent, Marked, IInv, AuditTypeOK, Publish
  <1>2. /\ e \in Event /\ e.kind = "intent" /\ e.user = u /\ e.agent = a
        /\ e.id = i /\ e.expires = x /\ e.at = closeTime
    BY <1>1 DEF Say, Event, Kinds
  <1>3. /\ x - closeTime \in Nat
        /\ until \in Nat /\ ledger <= until
        /\ x - closeTime <= 5 * (until + 1 - ledger)
    <2>1. x - closeTime \in Nat
      BY <1>1
    <2> QED
      BY <1>1, <2>1, MarkedLongEnough
  <1> HIDE DEF e, until
  <1>4. x <= closeTime + MaxIntentWindow
    BY <1>1, AuditAssumption
  <1>5. /\ Len(events') = Len(events) + 1
        /\ Len(events) \in Nat
        /\ events'[Len(events) + 1] = e
        /\ \A n \in 1 .. Len(events) : events'[n] = events[n]
    BY <1>1, <1>2, PublishAppends
  <1>6. \A n \in 1 .. Len(events') : n \in 1 .. Len(events) \/ n = Len(events) + 1
    BY <1>5
  <1>7. /\ marker' \in [Users -> [IntentIds -> Nat]]
        /\ marker'[u][i] = until
        /\ \A w \in Users, j \in IntentIds : w # u \/ j # i => marker'[w][j] = marker[w][j]
    BY <1>1, <1>3
  <1>8. AuditTypeOK'
    BY <1>1, <1>2, <1>4, <1>7, LogTypeKept DEF IInv, AuditTypeOK
  <1>9. PolicyLogged' /\ GrantLogged' /\ PauseLogged'
    BY <1>1, <1>2, PolicyKept, GrantKept, PauseKept
  <1>10. EventShape'
    BY <1>2, <1>5, <1>6 DEF IInv, EventShape
  <1>11. \A m \in 1 .. Len(events) :
            events[m].kind = "intent" /\ events[m].user = u /\ events[m].id = i =>
               events[m].expires <= closeTime
    <2> SUFFICES ASSUME NEW m \in 1 .. Len(events), events[m].kind = "intent",
                        events[m].user = u, events[m].id = i
                 PROVE  events[m].expires <= closeTime
      OBVIOUS
    <2>1. \/ events[m].expires <= closeTime
          \/ ledger <= marker[u][i]
      BY DEF IInv, MarkOutlives
    <2>2. marker[u][i] \in Nat
      BY <1>1
    <2> QED
      BY <1>1, <2>1, <2>2
  <1>12. MarkOutlives'
    <2> SUFFICES ASSUME NEW m \in 1 .. Len(events'), events'[m].kind = "intent"
                 PROVE  LET mark == marker'[events'[m].user][events'[m].id] IN
                        \/ events'[m].expires <= closeTime'
                        \/ ledger' <= mark /\ events'[m].expires <= closeTime' + 5 * (mark + 1 - ledger')
      BY DEF MarkOutlives
    <2>1. CASE m = Len(events) + 1
      <3>1. events'[m].user = u /\ events'[m].id = i /\ events'[m].expires = x
        BY <1>2, <1>5, <2>1
      <3>2. x <= closeTime + 5 * (until + 1 - ledger)
        BY <1>1, <1>3
      <3> QED
        BY <1>1, <1>3, <1>7, <3>1, <3>2
    <2>2. CASE m \in 1 .. Len(events) /\ events[m].user = u /\ events[m].id = i
      BY <1>1, <1>5, <1>11, <2>2
    <2>3. CASE m \in 1 .. Len(events) /\ (events[m].user # u \/ events[m].id # i)
      <3>1. events'[m] = events[m] /\ events[m].user \in Users /\ events[m].id \in IntentIds
        BY <1>1, <1>5, <2>3, EventFields DEF IInv, EventShape
      <3>2. marker'[events[m].user][events[m].id] = marker[events[m].user][events[m].id]
        BY <1>7, <2>3, <3>1
      <3> QED
        BY <1>1, <2>3, <3>1, <3>2 DEF IInv, MarkOutlives
    <2> QED
      BY <1>6, <2>1, <2>2, <2>3
  <1>13. NoReplayWhileLive'
    <2> SUFFICES ASSUME NEW m \in 1 .. Len(events'), NEW n \in 1 .. Len(events'), m < n,
                        events'[m].kind = "intent", events'[n].kind = "intent",
                        events'[m].user = events'[n].user, events'[m].id = events'[n].id
                 PROVE  events'[m].expires <= events'[n].at
      BY DEF NoReplayWhileLive
    <2>1. m \in 1 .. Len(events) /\ events'[m] = events[m]
      BY <1>5
    <2>2. CASE n = Len(events) + 1
      BY <1>2, <1>5, <1>11, <2>1, <2>2
    <2>3. CASE n \in 1 .. Len(events)
      BY <1>5, <2>1, <2>3 DEF IInv, NoReplayWhileLive
    <2> QED
      BY <1>6, <2>2, <2>3
  <1>14. LogJustified'
    <2>1. ASSUME NEW n \in 1 .. Len(events'), events'[n].kind \in {"decision", "intent"}
          PROVE  Justified(n)'
      <3>1. CASE n = Len(events) + 1
        BY <1>1, <1>2, <3>1, LiveJustified
      <3>2. CASE n \in 1 .. Len(events)
        <4>1. Justified(n)
          BY <1>5, <2>1, <3>2 DEF IInv, LogJustified
        <4> QED
          BY <1>1, <1>2, <3>2, <4>1, PastKept
      <3> QED
        BY <1>6, <3>1, <3>2
    <2> QED
      BY <2>1 DEF LogJustified
  <1> QED
    BY <1>8, <1>9, <1>10, <1>12, <1>13, <1>14 DEF IInv

\* A ledger of at least five seconds takes no more from a mark than from its intent.
LEMMA LedgerPasses ==
    ASSUME NEW x \in Nat, NEW t \in Nat, NEW l \in Nat, NEW k \in Nat, NEW s \in Nat, s >= 5,
           x <= t \/ (l <= k /\ x <= t + 5 * (k + 1 - l))
    PROVE  x <= t + s \/ (l + 1 <= k /\ x <= t + s + 5 * (k + 1 - (l + 1)))
  OBVIOUS

LEMMA TickIInv ==
    ASSUME IInv, AuditTick
    PROVE  IInv'
  <1>1. PICK s \in LedgerSeconds : closeTime' = closeTime + s
    BY DEF AuditTick
  <1>2. s \in Nat /\ s >= 5
    BY AuditAssumption DEF SecondsPerLedger
  <1>3. /\ ledger' = ledger + 1 /\ ledger \in Nat \ {0} /\ closeTime \in Nat
        /\ UNCHANGED <<policy, grant, paused, marker, events>>
    BY DEF AuditTick, IInv, AuditTypeOK
  <1>4. AuditTypeOK'
    <2>1. \A n \in 1 .. Len(events) : events[n].at <= closeTime => events[n].at <= closeTime'
      <3>1. \A n \in 1 .. Len(events) : events[n].at \in Nat
        BY EventFields DEF IInv, AuditTypeOK
      <3> QED
        BY <1>1, <1>2, <1>3, <3>1
    <2> QED
      BY <1>1, <1>2, <1>3, <2>1 DEF IInv, AuditTypeOK
  <1>5. MarkOutlives'
    <2> SUFFICES ASSUME NEW m \in 1 .. Len(events), events[m].kind = "intent"
                 PROVE  LET mark == marker[events[m].user][events[m].id] IN
                        \/ events[m].expires <= closeTime'
                        \/ ledger' <= mark /\ events[m].expires <= closeTime' + 5 * (mark + 1 - ledger')
      BY <1>3 DEF MarkOutlives
    <2> DEFINE mark == marker[events[m].user][events[m].id]
    <2>1. /\ events[m] \in Event /\ events[m].id \in IntentIds
          /\ \/ events[m].expires <= closeTime
             \/ ledger <= mark /\ events[m].expires <= closeTime + 5 * (mark + 1 - ledger)
      BY DEF IInv, AuditTypeOK, EventShape, MarkOutlives
    <2>2. mark \in Nat /\ events[m].expires \in Nat
      BY <2>1, EventFields DEF IInv, AuditTypeOK
    <2> HIDE DEF mark
    <2>3. \/ events[m].expires <= closeTime'
          \/ ledger' <= mark /\ events[m].expires <= closeTime' + 5 * (mark + 1 - ledger')
      <3>1. \/ events[m].expires <= closeTime
            \/ ledger <= mark /\ events[m].expires <= closeTime + 5 * (mark + 1 - ledger)
        BY <2>1 DEF mark
      <3> QED
        BY <1>1, <1>2, <1>3, <2>2, <3>1, LedgerPasses
    <2> QED
      BY <2>3 DEF mark
  <1> QED
    BY <1>3, <1>4, <1>5
    DEF IInv, EventShape, PolicyLogged, GrantLogged, PauseLogged, LogJustified, Justified,
        NoReplayWhileLive, Latest, LastBefore, Concerns

\* Every call and every ledger keeps the invariant.
LEMMA NextIInv == IInv /\ [AuditNext]_auditVars => IInv'
  <1> SUFFICES ASSUME IInv, [AuditNext]_auditVars PROVE IInv'
    OBVIOUS
  <1>1. \A d \in Durations : closeTime + d \in Nat
    <2>1. closeTime \in Nat
      BY DEF IInv, AuditTypeOK
    <2> QED
      BY <2>1, AuditAssumption
  <1>2. CASE AuditNext
    BY <1>1, <1>2, SetPolicyIInv, PauseAuditIInv, AuthorizeAgentIInv, RevokeAgentIInv,
       LogDecisionIInv, RecordIntentIInv, TickIInv DEF AuditNext
  <1>3. CASE UNCHANGED auditVars
    BY <1>3
    DEF auditVars, IInv, AuditTypeOK, EventShape, PolicyLogged, GrantLogged, PauseLogged, MarkOutlives,
        LogJustified, Justified, NoReplayWhileLive, Latest, LastBefore, Concerns
  <1> QED
    BY <1>2, <1>3

-----------------------------------------------------------------------------
(* The theorems *)

\* The strengthened invariant is an invariant of the specification.
THEOREM Inductive == AuditSpec => []IInv
  BY InitIInv, NextIInv, PTL DEF AuditSpec

\* Type correctness, and the windows of what is published.
THEOREM TypeCorrect == AuditSpec => []AuditTypeOK
  <1>1. IInv => AuditTypeOK
    BY DEF IInv
  <1> QED
    BY <1>1, Inductive, PTL

\* The events published before a decision or an intent show that it was allowed.
THEOREM Justification == AuditSpec => []LogJustified
  <1>1. IInv => LogJustified
    BY DEF IInv
  <1> QED
    BY <1>1, Inductive, PTL

\* No intent id is recorded twice while the intent that has it may be executed, as
\* long as ledgers are at least five seconds apart.
THEOREM NoReplay == AuditSpec => []NoReplayWhileLive
  <1>1. IInv => NoReplayWhileLive
    BY DEF IInv
  <1> QED
    BY <1>1, Inductive, PTL

=============================================================================
