----------------------------- MODULE AuditRegistry -----------------------------
(***************************************************************************)
(* The Soroban audit registry: which agent may act for a user, under which *)
(* policy, and what it decided.                                            *)
(*                                                                         *)
(* The contract holds no funds.  What it is for is the log of the events   *)
(* it publishes, which an indexer reads: the model keeps that log whole.   *)
(* Persistent entries are not lost when their time to live ends (a call    *)
(* that needs one restores it first or fails), so only the temporary       *)
(* entries, which mark the intents, end with their ledger.  The governance *)
(* address, which no operation reads, is left out.                         *)
(***************************************************************************)
EXTENDS Naturals, Sequences

CONSTANTS
    Users, Agents, Policies, IntentIds,
    NoAgent, NoPolicy, NoIntent, NoGrant,
    Durations,              \* how far ahead of the ledger's time expires_at may lie
    MaxAuthorizationWindow, \* MAX_AUTHORIZATION_WINDOW, in seconds
    MaxIntentWindow,        \* MAX_INTENT_WINDOW, in seconds
    MinTemporaryTtl,        \* the network's least time to live, in ledgers
    LedgerSeconds,          \* seconds from one ledger to the next
    MaxLedger,              \* bound: ledgers
    MaxEvents               \* bound: events published

\* The seconds of a ledger, by the contract's arithmetic.
SecondsPerLedger == 5

ASSUME AuditAssumption ==
    /\ NoAgent \notin Agents
    /\ NoPolicy \notin Policies
    /\ NoIntent \notin IntentIds
    /\ NoGrant \notin [policy : Policies, expires : Nat, active : BOOLEAN]
    /\ Durations \subseteq Nat
    /\ MaxAuthorizationWindow \in Nat
    /\ MaxIntentWindow \in Nat
    /\ MinTemporaryTtl \in Nat \ {0}
    /\ LedgerSeconds \subseteq {n \in Nat : n >= SecondsPerLedger}
    /\ MaxLedger \in Nat
    /\ MaxEvents \in Nat

VARIABLES
    policy,    \* Policy: the hash each user committed to
    grant,     \* Authorization, by user and agent
    paused,    \* Paused: the users who stopped all logging
    marker,    \* Intent: the last ledger in which the mark of an id lives, 0 for none
    ledger,    \* the ledger sequence number
    closeTime, \* the ledger's timestamp
    events     \* the events published so far

auditVars == <<policy, grant, paused, marker, ledger, closeTime, events>>

Authorization == [policy : Policies, expires : Nat, active : BOOLEAN]

AuditInit ==
    /\ policy = [u \in Users |-> NoPolicy]
    /\ grant = [u \in Users |-> [a \in Agents |-> NoGrant]]
    /\ paused = {}
    /\ marker = [u \in Users |-> [i \in IntentIds |-> 0]]
    /\ ledger = 1
    /\ closeTime = SecondsPerLedger
    /\ events = <<>>

-----------------------------------------------------------------------------

Kinds == {"policy", "grant", "revoke", "paused", "unpaused", "decision", "intent"}

Event == [kind : Kinds, user : Users, agent : Agents \cup {NoAgent},
          policy : Policies \cup {NoPolicy}, id : IntentIds \cup {NoIntent},
          expires : Nat, at : Nat]

Publish(event) ==
    /\ Len(events) < MaxEvents
    /\ events' = Append(events, event)
    /\ UNCHANGED <<ledger, closeTime>>

\* What every event says: whom it is about, and when.
Say(kind, u, a) ==
    [kind |-> kind, user |-> u, agent |-> a, policy |-> NoPolicy, id |-> NoIntent,
     expires |-> 0, at |-> closeTime]

SetPolicy(u, p) ==
    /\ policy' = [policy EXCEPT ![u] = p]
    /\ Publish([Say("policy", u, NoAgent) EXCEPT !.policy = p])
    /\ UNCHANGED <<grant, paused, marker>>

\* A grant names the policy its user is committed to at that moment.
AuthorizeAgent(u, a, p, expires) ==
    /\ policy[u] = p
    /\ expires > closeTime
    /\ expires - closeTime <= MaxAuthorizationWindow
    /\ grant' = [grant EXCEPT ![u][a] = [policy |-> p, expires |-> expires, active |-> TRUE]]
    /\ Publish([Say("grant", u, a) EXCEPT !.policy = p, !.expires = expires])
    /\ UNCHANGED <<policy, paused, marker>>

\* An agent that never had a grant is revoked like any other.
RevokeAgent(u, a) ==
    /\ grant' = IF grant[u][a] = NoGrant THEN grant
                ELSE [grant EXCEPT ![u][a].active = FALSE]
    /\ Publish(Say("revoke", u, a))
    /\ UNCHANGED <<policy, paused, marker>>

PauseAudit(u, on) ==
    /\ paused' = IF on THEN paused \cup {u} ELSE paused \ {u}
    /\ Publish(Say(IF on THEN "paused" ELSE "unpaused", u, NoAgent))
    /\ UNCHANGED <<policy, grant, marker>>

\* Mutant: the policy is compared with the grant's and not with the user's.
LiveAgentOfGrant(u, a, p) ==
    /\ u \notin paused
    /\ grant[u][a] # NoGrant
    /\ grant[u][a].active
    /\ grant[u][a].expires > closeTime
    /\ grant[u][a].policy = p

\* require_live_agent
LiveAgent(u, a, p) ==
    /\ u \notin paused
    /\ grant[u][a] # NoGrant
    /\ grant[u][a].active
    /\ grant[u][a].expires > closeTime
    /\ grant[u][a].policy = p
    /\ policy[u] = p

LogDecision(u, a, p) ==
    /\ LiveAgent(u, a, p)
    /\ Publish(Say("decision", u, a))
    /\ UNCHANGED <<policy, grant, paused, marker>>

\* Mutant: the mark lives for whole ledgers of ten seconds.
LiveLedgersShort(seconds) ==
    LET n == seconds \div (2 * SecondsPerLedger) IN IF n = 0 THEN 1 ELSE n

LiveLedgers(seconds) ==
    LET n == seconds \div SecondsPerLedger IN IF n = 0 THEN 1 ELSE n

\* The ledger up to which a mark set now lives: the network's least time to
\* live counts this ledger, and extend_ttl only ever lengthens it.
MarkedUntil(seconds) ==
    IF MinTemporaryTtl - 1 < LiveLedgers(seconds)
    THEN ledger + LiveLedgers(seconds)
    ELSE ledger + MinTemporaryTtl - 1

\* is_intent_used
Marked(u, i) == marker[u][i] >= ledger

RecordIntent(u, a, p, i, expires) ==
    /\ LiveAgent(u, a, p)
    /\ expires > closeTime
    /\ expires - closeTime <= MaxIntentWindow
    /\ ~Marked(u, i)
    /\ marker' = [marker EXCEPT ![u][i] = MarkedUntil(expires - closeTime)]
    /\ Publish([Say("intent", u, a) EXCEPT !.id = i, !.expires = expires])
    /\ UNCHANGED <<policy, grant, paused>>

\* The next ledger closes.
AuditTick ==
    /\ ledger < MaxLedger
    /\ ledger' = ledger + 1
    /\ \E s \in LedgerSeconds : closeTime' = closeTime + s
    /\ UNCHANGED <<policy, grant, paused, marker, events>>

AuditNext ==
    \/ \E u \in Users :
          \/ \E p \in Policies : SetPolicy(u, p)
          \/ \E on \in BOOLEAN : PauseAudit(u, on)
          \/ \E a \in Agents :
                \/ \E p \in Policies, d \in Durations : AuthorizeAgent(u, a, p, closeTime + d)
                \/ RevokeAgent(u, a)
                \/ \E p \in Policies : LogDecision(u, a, p)
                \/ \E p \in Policies, i \in IntentIds, d \in Durations :
                      RecordIntent(u, a, p, i, closeTime + d)
    \/ AuditTick

AuditSpec == AuditInit /\ [][AuditNext]_auditVars

-----------------------------------------------------------------------------
(* Properties *)

\* The type invariant; nothing published lives longer than its window.
AuditTypeOK ==
    /\ policy \in [Users -> Policies \cup {NoPolicy}]
    /\ grant \in [Users -> [Agents -> Authorization \cup {NoGrant}]]
    /\ paused \subseteq Users
    /\ marker \in [Users -> [IntentIds -> Nat]]
    /\ ledger \in Nat \ {0}
    /\ closeTime \in Nat
    /\ events \in Seq(Event)
    /\ \A n \in 1 .. Len(events) :
          /\ events[n].at <= closeTime
          /\ events[n].kind = "grant" => events[n].expires <= events[n].at + MaxAuthorizationWindow
          /\ events[n].kind = "intent" => events[n].expires <= events[n].at + MaxIntentWindow

\* Event m is about user u and agent a, and of one of the kinds.
Concerns(m, kinds, u, a) ==
    events[m].kind \in kinds /\ events[m].user = u /\ events[m].agent = a

\* Event m is the last of them before event n.
LastBefore(m, n, kinds, u, a) ==
    /\ m \in 1 .. n - 1
    /\ Concerns(m, kinds, u, a)
    /\ \A k \in m + 1 .. n - 1 : ~Concerns(k, kinds, u, a)

\* What was published before event n allows it: a grant not revoked or expired,
\* under the policy the user is committed to, and no pause.
Justified(n) ==
    LET e == events[n] IN
    /\ \E g, p \in 1 .. n - 1 :
          /\ LastBefore(g, n, {"grant", "revoke"}, e.user, e.agent)
          /\ events[g].kind = "grant"
          /\ events[g].expires > e.at
          /\ LastBefore(p, n, {"policy"}, e.user, NoAgent)
          /\ events[p].policy = events[g].policy
    /\ \A q \in 1 .. n - 1 :
          LastBefore(q, n, {"paused", "unpaused"}, e.user, NoAgent) => events[q].kind = "unpaused"

\* "An agent is live only when all of the following hold": the log alone shows
\* that every decision and intent in it was allowed when it was logged.
LogJustified ==
    \A n \in 1 .. Len(events) : events[n].kind \in {"decision", "intent"} => Justified(n)

\* "An intent cannot be replayed while it could still be executed": an id is
\* recorded again only after the intent that had it has expired, although its
\* mark is counted in ledgers and its expiry in seconds.
NoReplayWhileLive ==
    \A m, n \in 1 .. Len(events) :
        /\ m < n
        /\ events[m].kind = "intent" /\ events[n].kind = "intent"
        /\ events[m].user = events[n].user /\ events[m].id = events[n].id
        => events[m].expires <= events[n].at

=============================================================================
