------------------------------- MODULE VaultProofs -------------------------------
(***************************************************************************)
(* Proofs about the two policies and the two vaults.                       *)
(*                                                                         *)
(* First what sums over sets of intents come to: Total is a recursion over *)
(* the subsets of its argument, and what is said of it is proved from a    *)
(* smallest subset that would contradict it.  Then Policy and PolicyVault: *)
(* what every policy call preserves, what deposits and withdrawals         *)
(* preserve on top of it, that every payment is authorised, and the daily  *)
(* limit.  Then EvmVault: what a transfer under way holds, the relation    *)
(* between the state it began in and the state it has come to, and from it *)
(* that reentrance and reverts create no money.                            *)
(***************************************************************************)
EXTENDS PolicyVault, EvmVault, FiniteSetTheorems, SequenceTheorems, TLAPS

-----------------------------------------------------------------------------
(* Sums over sets of intents. *)

\* Among any subsets of a finite set there is a smallest one.
LEMMA SmallestSubset ==
  ASSUME NEW S, IsFiniteSet(S), NEW T, T \subseteq SUBSET S, T # {}
  PROVE  \E m \in T : \A s \in T : s \subseteq m => s = m
  <1>1. IsWellFoundedOn(StrictSubsetOrdering(S), SUBSET S)
    BY FS_StrictSubsetOrderingWellFounded, FS_FiniteSubsetsOfFinite
  <1>2. PICK m \in T : \A s \in T : <<s, m>> \notin StrictSubsetOrdering(S)
    BY <1>1, WFMin
  <1> QED
    BY <1>2 DEF StrictSubsetOrdering

\* Total as the recursion it is: one element's amount, and the rest.
AnyOf(s) == CHOOSE i \in s : TRUE

Summed(g, s) == IF s = {} THEN 0 ELSE AnyOf(s).amount + g[s \ {AnyOf(s)}]

IsSum(g, S) == g = [s \in SUBSET S |-> Summed(g, s)]

SumOver(S) == CHOOSE g : IsSum(g, S)

LEMMA TotalFolds ==
  ASSUME NEW S
  PROVE  Total(S) = SumOver(S)[S]
  BY Zenon DEF Total, MapThenSumSet, MapThenFoldSet, SumOver, IsSum, Summed, AnyOf

\* Two solutions of the recursion agree where both are defined.
LEMMA SumsAgree ==
  ASSUME NEW S, IsFiniteSet(S), NEW R \in SUBSET S, NEW g, NEW h, IsSum(g, S), IsSum(h, R)
  PROVE  \A s \in SUBSET R : g[s] = h[s]
  <1> DEFINE T == {s \in SUBSET R : g[s] # h[s]}
  <1>1. CASE T = {}
    BY <1>1
  <1>2. CASE T # {}
    <2>1. T \subseteq SUBSET S
      OBVIOUS
    <2>2. PICK m \in T : \A s \in T : s \subseteq m => s = m
      <3> HIDE DEF T
      <3> QED
        BY <1>2, <2>1, SmallestSubset
    <2>3. g[m] = Summed(g, m) /\ h[m] = Summed(h, m)
      <3>1. m \in SUBSET R /\ m \in SUBSET S
        OBVIOUS
      <3>2. g = [s \in SUBSET S |-> Summed(g, s)] /\ h = [s \in SUBSET R |-> Summed(h, s)]
        BY DEF IsSum
      <3> HIDE DEF T
      <3> QED
        BY <3>1, <3>2, Zenon
    <2>4. m # {}
      BY <2>3 DEF Summed
    <2>5. AnyOf(m) \in m
      BY <2>4 DEF AnyOf
    <2>6. m \ {AnyOf(m)} \notin T
      BY <2>2, <2>5
    <2>7. g[m \ {AnyOf(m)}] = h[m \ {AnyOf(m)}]
      BY <2>6
    <2> QED
      BY <2>3, <2>4, <2>7 DEF Summed
  <1> QED
    BY <1>1, <1>2

\* The recursion has a solution on every finite set: it is put together from the
\* solutions on the smaller sets.
LEMMA SumExists ==
  ASSUME NEW S, IsFiniteSet(S)
  PROVE  IsSum(SumOver(S), S)
  <1> DEFINE T == {s \in SUBSET S : ~ IsSum(SumOver(s), s)}
  <1>1. CASE T = {}
    BY <1>1
  <1>2. CASE T # {}
    <2>1. PICK m \in T : \A s \in T : s \subseteq m => s = m
      <3>1. T \subseteq SUBSET S
        OBVIOUS
      <3> HIDE DEF T
      <3> QED
        BY <1>2, <3>1, SmallestSubset
    <2>2. \A s \in SUBSET m : s # m => IsSum(SumOver(s), s)
      BY <2>1
    <2> DEFINE sum(s) == SumOver(s)[s]
               g == [s \in SUBSET m |-> IF s = m THEN Summed([r \in SUBSET m |-> sum(r)], m) ELSE sum(s)]
    <2>3. \A s \in SUBSET m : s # {} => AnyOf(s) \in s
      BY DEF AnyOf
    <2>4. ASSUME NEW s \in SUBSET m
          PROVE  g[s] = Summed(g, s)
      <3>1. CASE s = m
        <4>1. CASE m = {}
          BY <3>1, <4>1 DEF Summed
        <4>2. CASE m # {}
          <5>1. m \ {AnyOf(m)} \in SUBSET m /\ m \ {AnyOf(m)} # m
            BY <2>3, <4>2
          <5> HIDE DEF sum
          <5>2. g[m \ {AnyOf(m)}] = sum(m \ {AnyOf(m)})
            BY <5>1
          <5>3. g[m] = AnyOf(m).amount + sum(m \ {AnyOf(m)})
            BY <4>2, <5>1 DEF Summed
          <5> QED
            BY <3>1, <4>2, <5>2, <5>3 DEF Summed
        <4> QED
          BY <4>1, <4>2
      <3>2. CASE s # m /\ s = {}
        <4>1. IsSum(SumOver(s), s)
          BY <2>2, <3>2
        <4>2. SumOver(s)[s] = Summed(SumOver(s), s)
          BY <4>1, Zenon DEF IsSum
        <4> QED
          BY <3>2, <4>2 DEF Summed
      <3>3. CASE s # m /\ s # {}
        <4> DEFINE r == s \ {AnyOf(s)}
        <4>1. r \in SUBSET s /\ r \in SUBSET m /\ r # m /\ r # s
          BY <2>3, <3>3
        <4>2. IsSum(SumOver(s), s) /\ IsSum(SumOver(r), r)
          BY <2>2, <3>3, <4>1
        <4>3. IsFiniteSet(s)
          BY FS_Subset
        <4>4. SumOver(s)[r] = SumOver(r)[r]
          <5> HIDE DEF r
          <5>1. \A q \in SUBSET r : SumOver(s)[q] = SumOver(r)[q]
            BY <4>1, <4>2, <4>3, SumsAgree
          <5> QED
            BY <5>1
        <4>5. SumOver(s)[s] = Summed(SumOver(s), s)
          BY <4>2, Zenon DEF IsSum
        <4>6. g[s] = SumOver(s)[s] /\ g[r] = SumOver(r)[r]
          BY <3>3, <4>1
        <4> HIDE DEF g
        <4> QED
          BY <3>3, <4>4, <4>5, <4>6 DEF Summed
      <3> QED
        BY <3>1, <3>2, <3>3
    <2>5. IsSum(g, m)
      <3>1. g = [s \in SUBSET m |-> g[s]]
        OBVIOUS
      <3> HIDE DEF g
      <3> QED
        BY <2>4, <3>1 DEF IsSum
    <2>6. IsSum(SumOver(m), m)
      <3> HIDE DEF g
      <3> QED
        BY <2>5 DEF SumOver
    <2> QED
      BY <2>1, <2>6
  <1> QED
    BY <1>1, <1>2

LEMMA TotalOfNone == Total({}) = 0
  <1>1. IsSum(SumOver({}), {})
    BY SumExists, FS_EmptySet
  <1>2. SumOver({})[{}] = Summed(SumOver({}), {})
    BY <1>1, Zenon DEF IsSum
  <1> QED
    BY <1>2, TotalFolds DEF Summed

\* So Total follows the recursion.
LEMMA TotalOfSome ==
  ASSUME NEW S, IsFiniteSet(S), S # {}
  PROVE  Total(S) = AnyOf(S).amount + Total(S \ {AnyOf(S)})
  <1> DEFINE R == S \ {AnyOf(S)}
  <1>1. IsFiniteSet(R) /\ R \in SUBSET S
    BY FS_Subset
  <1>2. IsSum(SumOver(S), S) /\ IsSum(SumOver(R), R)
    BY <1>1, SumExists
  <1>3. SumOver(S)[R] = SumOver(R)[R]
    <2> HIDE DEF R
    <2>1. \A r \in SUBSET R : SumOver(S)[r] = SumOver(R)[r]
      BY <1>1, <1>2, SumsAgree
    <2> QED
      BY <2>1
  <1>4. SumOver(S)[S] = Summed(SumOver(S), S)
    BY <1>2, Zenon DEF IsSum
  <1> QED
    BY <1>3, <1>4, TotalFolds DEF Summed

HasAmounts(S) == IsFiniteSet(S) /\ \A i \in S : i.amount \in Nat

\* Amounts that are numbers add up to one.
LEMMA TotalTyped ==
  ASSUME NEW S, HasAmounts(S)
  PROVE  Total(S) \in Nat
  <1> DEFINE T == {s \in SUBSET S : Total(s) \notin Nat}
  <1>1. CASE T = {}
    BY <1>1
  <1>2. CASE T # {}
    <2>1. PICK m \in T : \A s \in T : s \subseteq m => s = m
      <3>1. T \subseteq SUBSET S
        OBVIOUS
      <3> HIDE DEF T
      <3> QED
        BY <1>2, <3>1, SmallestSubset DEF HasAmounts
    <2>2. m # {}
      <3>1. Total(m) \notin Nat
        OBVIOUS
      <3>2. Total({}) \in Nat
        BY TotalOfNone
      <3> QED
        BY <3>1, <3>2, Zenon
    <2>3. AnyOf(m) \in m /\ AnyOf(m).amount \in Nat
      BY <2>2 DEF AnyOf, HasAmounts
    <2>4. Total(m \ {AnyOf(m)}) \in Nat
      BY <2>1, <2>3
    <2>5. IsFiniteSet(m)
      BY FS_Subset DEF HasAmounts
    <2>6. Total(m) = AnyOf(m).amount + Total(m \ {AnyOf(m)})
      BY <2>2, <2>5, TotalOfSome
    <2> QED
      BY <2>3, <2>4, <2>6
  <1> QED
    BY <1>1, <1>2

\* The order in which elements are taken does not matter.
LEMMA TotalWithout ==
  ASSUME NEW S, HasAmounts(S), NEW x \in S
  PROVE  Total(S) = x.amount + Total(S \ {x})
  <1> DEFINE T == {s \in SUBSET S : \E y \in s : Total(s) # y.amount + Total(s \ {y})}
  <1>1. CASE T = {}
    BY <1>1
  <1>2. CASE T # {}
    <2>1. PICK m \in T : \A s \in T : s \subseteq m => s = m
      <3>1. T \subseteq SUBSET S
        OBVIOUS
      <3> HIDE DEF T
      <3> QED
        BY <1>2, <3>1, SmallestSubset DEF HasAmounts
    <2>2. PICK y \in m : Total(m) # y.amount + Total(m \ {y})
      BY <2>1
    <2> DEFINE z == AnyOf(m)
    <2>3. z \in m
      BY <2>2 DEF AnyOf
    <2>4. IsFiniteSet(m)
      BY FS_Subset DEF HasAmounts
    <2>5. Total(m) = z.amount + Total(m \ {z})
      BY <2>2, <2>4, TotalOfSome
    <2>6. y # z
      BY <2>2, <2>5
    <2>7. m \ {z} \notin T /\ m \ {y} \notin T
      BY <2>1, <2>3
    <2> DEFINE r == m \ {y, z}
    <2>8. r = (m \ {z}) \ {y} /\ r = (m \ {y}) \ {z}
      OBVIOUS
    <2>9. Total(m \ {z}) = y.amount + Total(r) /\ Total(m \ {y}) = z.amount + Total(r)
      <3>1. y \in m \ {z} /\ z \in m \ {y}
        BY <2>3, <2>6
      <3>2. m \ {z} \in SUBSET S /\ m \ {y} \in SUBSET S
        OBVIOUS
      <3> HIDE DEF r, z
      <3> QED
        BY <2>7, <2>8, <3>1, <3>2
    <2>10. y.amount \in Nat /\ z.amount \in Nat
      BY <2>3 DEF HasAmounts
    <2>11. Total(r) \in Nat
      <3>1. HasAmounts(r)
        BY FS_Subset DEF HasAmounts
      <3> QED
        BY <3>1, TotalTyped
    <2> HIDE DEF r, z
    <2> QED
      BY <2>2, <2>5, <2>9, <2>10, <2>11
  <1> QED
    BY <1>1, <1>2

\* A new intent adds its amount.
LEMMA TotalWith ==
  ASSUME NEW S, HasAmounts(S), NEW x, x \notin S, x.amount \in Nat
  PROVE  HasAmounts(S \cup {x}) /\ Total(S \cup {x}) = Total(S) + x.amount
  <1>1. HasAmounts(S \cup {x})
    BY FS_AddElement DEF HasAmounts
  <1>2. (S \cup {x}) \ {x} = S
    OBVIOUS
  <1>3. Total(S \cup {x}) = x.amount + Total(S)
    BY <1>1, <1>2, TotalWithout
  <1> QED
    BY <1>1, <1>3, TotalTyped

-----------------------------------------------------------------------------
(* The policy contract. *)

USE PolicyAssumption DEF PolicyAssumption

PolicyInv == PolicyTypeOK /\ WithinDecision

LEMMA PolicyStarts == PolicyInit => PolicyInv
  <1> SUFFICES ASSUME PolicyInit PROVE PolicyInv
    OBVIOUS
  <1>1. ledger = 1 /\ reset = 0 /\ spent = 0 /\ refunded = 0 /\ limits \in Limits
    BY DEF PolicyInit
  <1>2. blocked = [t \in Tokens |-> "no key"] /\ paused = FALSE
    BY DEF PolicyInit
  <1>3. nonce = [u \in Users |-> 0]
    BY DEF PolicyInit
  <1>4. ledger \in 1 .. MaxLedger /\ reset \in 0 .. ledger /\ spent \in Int /\ refunded \in Nat
    BY <1>1
  <1>5. nonce \in [Users -> 0 .. MaxNonce]
    BY <1>3
  <1>6. blocked \in [Tokens -> {"no key", "unblocked", "blocked"}] /\ paused \in BOOLEAN
    BY <1>2, Zenon
  <1>7. allowed = {} /\ listed = {} /\ decisions = {} /\ revoked = {} /\ intents = {} /\ executed = {}
    BY DEF PolicyInit
  <1> QED
    BY <1>1, <1>4, <1>5, <1>6, <1>7 DEF PolicyInv, PolicyTypeOK, WithinDecision

\* check_daily_spend leaves numbers behind, and a reset that is not in the future.
LEMMA ChargeTyped ==
  ASSUME PolicyTypeOK, NEW amount \in Int, Charge(amount)
  PROVE  spent' \in Int /\ reset' \in 0 .. ledger /\ refunded' \in Nat
  <1>1. ledger \in Nat \ {0} /\ spent \in Int /\ reset \in 0 .. ledger /\ refunded \in Nat
    <2>1. ledger \in 1 .. MaxLedger /\ spent \in Int /\ reset \in 0 .. ledger /\ refunded \in Nat
      BY DEF PolicyTypeOK
    <2> QED
      BY <2>1
  <1>2. Refund(amount) \in Nat
    BY DEF Refund
  <1>3. CASE UNCHANGED spendVars
    BY <1>1, <1>3 DEF spendVars
  <1>4. CASE Opens(amount)
    BY <1>1, <1>2, <1>4 DEF Opens
  <1>5. CASE Adds(amount)
    BY <1>1, <1>2, <1>5 DEF Adds
  <1> QED
    BY <1>3, <1>4, <1>5 DEF Charge

LEMMA RequestsTyped ==
  ASSUME PolicyTypeOK, NEW d \in decisions, NEW i \in Requests(d)
  PROVE  i \in Intent /\ i.policy = d /\ i.amount \in Nat
  <1>1. d \in Decision /\ ledger \in 1 .. MaxLedger
    BY DEF PolicyTypeOK
  <1>2. PICK t \in Tokens, n \in Amounts, s \in Slippages, e \in ledger + 1 .. MaxLedger :
           i = [policy |-> d, token |-> t, amount |-> n, slippage |-> s, expiry |-> e,
                created |-> ledger]
    BY DEF Requests
  <1> QED
    BY <1>1, <1>2 DEF Intent

\* Decisions are numbered by the nonces their user has used.
LEMMA ApplyPolicyKeeps ==
  ASSUME PolicyInv, NEW u \in Users, NEW limit \in DecisionLimits, NEW e \in ledger + 1 .. MaxLedger,
         ApplyPolicy(u, limit, e)
  PROVE  PolicyInv'
  <1> DEFINE d == [user |-> u, nonce |-> nonce[u] + 1, value |-> limit.value,
                   slippage |-> limit.slippage, expiry |-> e]
  <1>1. PolicyTypeOK /\ WithinDecision
    BY DEF PolicyInv
  <1>2. /\ nonce[u] < MaxNonce
        /\ nonce' = [nonce EXCEPT ![u] = @ + 1]
        /\ decisions' = decisions \cup {d}
        /\ UNCHANGED <<ledger, paused, limits, assetVars, revoked, intentVars, spendVars>>
    BY DEF ApplyPolicy
  <1>3. nonce \in [Users -> 0 .. MaxNonce] /\ limit.value \in Nat /\ limit.slippage \in Nat /\ e \in Nat
    <2>1. nonce \in [Users -> 0 .. MaxNonce] /\ ledger \in 1 .. MaxLedger
      BY <1>1 DEF PolicyTypeOK
    <2>2. limit \in [value : Nat, slippage : Nat]
      OBVIOUS
    <2> QED
      BY <2>1, <2>2
  <1>4. d \in Decision /\ d.user = u /\ d.nonce = nonce[u] + 1
    BY <1>3 DEF Decision
  <1>5. nonce' \in [Users -> 0 .. MaxNonce] /\ \A w \in Users : nonce'[w] >= nonce[w]
    BY <1>2, <1>3
  <1>6. \A c \in decisions' : c.nonce \in 1 .. nonce'[c.user]
    <2> SUFFICES ASSUME NEW c \in decisions' PROVE c.nonce \in 1 .. nonce'[c.user]
      OBVIOUS
    <2>1. CASE c \in decisions
      <3>1. c \in Decision /\ c.nonce \in 1 .. nonce[c.user]
        BY <1>1, <2>1 DEF PolicyTypeOK
      <3>2. c.user \in Users
        BY <3>1 DEF Decision
      <3> QED
        BY <1>3, <1>5, <3>1, <3>2
    <2>2. CASE c = d
      <3>1. nonce'[u] = nonce[u] + 1
        BY <1>2, <1>3
      <3> QED
        BY <1>3, <1>4, <2>2, <3>1
    <2> QED
      BY <1>2, <2>1, <2>2
  <1>7. PolicyTypeOK'
    BY <1>1, <1>2, <1>4, <1>5, <1>6 DEF PolicyTypeOK, assetVars, intentVars, spendVars
  <1>8. WithinDecision'
    BY <1>1, <1>2 DEF WithinDecision, intentVars
  <1> QED
    BY <1>7, <1>8 DEF PolicyInv

\* create_intent compares the intent with its decision, and its hash with all others.
LEMMA CreateIntentKeeps ==
  ASSUME PolicyInv, NEW d \in decisions, NEW i \in Requests(d), CreateIntent(i)
  PROVE  PolicyInv'
  <1>1. PolicyTypeOK /\ WithinDecision
    BY DEF PolicyInv
  <1>2. i \in Intent /\ i.policy = d /\ i.amount \in Nat
    BY <1>1, RequestsTyped
  <1>3. /\ IntentFits(i)
        /\ Charge(i.amount)
        /\ \A j \in intents : ~SameHash(i, j)
        /\ intents' = intents \cup {i}
        /\ UNCHANGED <<ledger, paused, limits, assetVars, decisionVars, executed>>
    BY DEF CreateIntent
  <1>4. spent' \in Int /\ reset' \in 0 .. ledger /\ refunded' \in Nat
    BY <1>1, <1>2, <1>3, ChargeTyped
  <1>5. \A j \in intents' : j \in Intent /\ j.policy \in decisions
    BY <1>1, <1>2, <1>3 DEF PolicyTypeOK
  <1>6. PolicyTypeOK'
    BY <1>1, <1>3, <1>4, <1>5 DEF PolicyTypeOK, assetVars, decisionVars
  <1>7. \A j \in intents' : /\ j.expiry <= j.policy.expiry
                            /\ ~Over(j.amount, j.policy.value)
                            /\ ~Over(j.slippage, j.policy.slippage)
    BY <1>1, <1>3 DEF WithinDecision, IntentFits
  <1>8. \A j, k \in intents' : SameHash(j, k) => j = k
    <2> SUFFICES ASSUME NEW j \in intents', NEW k \in intents', SameHash(j, k) PROVE j = k
      OBVIOUS
    <2>1. SameHash(k, j)
      BY DEF SameHash
    <2>2. CASE j \in intents /\ k \in intents
      BY <1>1, <2>2 DEF WithinDecision
    <2>3. CASE j = i /\ k = i
      BY <2>3
    <2> QED
      BY <1>3, <2>1, <2>2, <2>3
  <1> QED
    BY <1>6, <1>7, <1>8 DEF PolicyInv, WithinDecision

\* Every call on the policy contract, and the passing of time, keeps the invariant.
LEMMA PolicyStep ==
  ASSUME PolicyInv, [PolicyNext]_policyVars
  PROVE  PolicyInv'
  <1> USE DEF PolicyInv
  <1>1. CASE SetLimits
    BY <1>1 DEF SetLimits, PolicyTypeOK, WithinDecision, assetVars, decisionVars, intentVars, spendVars
  <1>2. ASSUME NEW t \in Tokens, AllowAsset(t) PROVE PolicyInv'
    BY <1>2 DEF AllowAsset, PolicyTypeOK, WithinDecision, decisionVars, intentVars, spendVars
  <1>3. ASSUME NEW t \in Tokens, NEW on \in BOOLEAN, BlockAsset(t, on) PROVE PolicyInv'
    BY <1>3 DEF BlockAsset, PolicyTypeOK, WithinDecision, decisionVars, intentVars, spendVars
  <1>4. ASSUME NEW on \in BOOLEAN, SetPaused(on) PROVE PolicyInv'
    BY <1>4 DEF SetPaused, PolicyTypeOK, WithinDecision, assetVars, decisionVars, intentVars, spendVars
  <1>5. ASSUME NEW u \in Users, NEW limit \in DecisionLimits, NEW e \in ledger + 1 .. MaxLedger,
               ApplyPolicy(u, limit, e)
        PROVE  PolicyInv'
    BY <1>5, ApplyPolicyKeeps
  <1>6. ASSUME NEW d \in decisions, RevokePolicy(d) PROVE PolicyInv'
    BY <1>6 DEF RevokePolicy, PolicyTypeOK, WithinDecision, assetVars, intentVars, spendVars
  <1>7. ASSUME NEW amount \in Charges, CheckDailySpend(amount) PROVE PolicyInv'
    <2>1. spent' \in Int /\ reset' \in 0 .. ledger /\ refunded' \in Nat
      BY <1>7, ChargeTyped DEF CheckDailySpend
    <2> QED
      BY <1>7, <2>1 DEF CheckDailySpend, PolicyTypeOK, WithinDecision, assetVars, decisionVars, intentVars
  <1>8. ASSUME NEW d \in decisions, NEW i \in Requests(d), CreateIntent(i) PROVE PolicyInv'
    BY <1>8, CreateIntentKeeps
  <1>9. ASSUME NEW i \in intents, ExecuteIntent(i) \/ RevokeIntent(i) PROVE PolicyInv'
    BY <1>9 DEF ExecuteIntent, RevokeIntent, PolicyTypeOK, WithinDecision, assetVars, decisionVars, spendVars
  <1>10. CASE Tick
    <2>1. ledger' \in 1 .. MaxLedger /\ reset \in 0 .. ledger'
      <3>1. ledger \in 1 .. MaxLedger /\ reset \in 0 .. ledger
        BY DEF PolicyTypeOK
      <3> QED
        BY <1>10, <3>1 DEF Tick
    <2> QED
      BY <1>10, <2>1 DEF Tick, PolicyTypeOK, WithinDecision, assetVars, decisionVars, intentVars, spendVars
  <1>11. CASE UNCHANGED policyVars
    BY <1>11 DEF policyVars, PolicyTypeOK, WithinDecision, assetVars, decisionVars, intentVars, spendVars
  <1> QED
    BY <1>1, <1>2, <1>3, <1>4, <1>5, <1>6, <1>7, <1>8, <1>9, <1>10, <1>11 DEF PolicyNext

\* For any users, tokens, amounts, limits and number of calls, the policy's records have
\* their types, and decisions are numbered by nonces their user has used.
THEOREM PolicyTypeCorrect == PolicySpec => []PolicyTypeOK
  <1>1. PolicyInv => PolicyTypeOK
    BY DEF PolicyInv
  <1> QED
    BY <1>1, PolicyStarts, PolicyStep, PTL DEF PolicySpec

\* For any parameters, every intent fits its decision and no two share a hash.
THEOREM IntentsWithinDecisions == PolicySpec => []WithinDecision
  <1>1. PolicyInv => WithinDecision
    BY DEF PolicyInv
  <1> QED
    BY <1>1, PolicyStarts, PolicyStep, PTL DEF PolicySpec

-----------------------------------------------------------------------------
(* The vault. *)

VaultInv == VaultTypeOK /\ WithinDecision /\ OwnFundsOnly

LEMMA VaultStarts == VaultInit => VaultInv
  <1> SUFFICES ASSUME VaultInit PROVE VaultInv
    OBVIOUS
  <1>1. PolicyInv
    BY PolicyStarts DEF VaultInit
  <1> QED
    BY <1>1, VaultAssumption DEF VaultAssumption, VaultInit, VaultInv, PolicyInv, VaultTypeOK, OwnFundsOnly

LEMMA VaultStep ==
  ASSUME VaultInv, [VaultNext]_sorobanVars
  PROVE  VaultInv'
  <1>1. PolicyInv
    BY DEF VaultInv, VaultTypeOK, PolicyInv
  <1>2. ASSUME [PolicyNext]_policyVars, UNCHANGED vaultVars PROVE VaultInv'
    <2>1. PolicyInv'
      BY <1>1, <1>2, PolicyStep
    <2>2. intents \subseteq intents'
      BY <1>2 DEF PolicyNext, SetLimits, AllowAsset, BlockAsset, SetPaused, ApplyPolicy, RevokePolicy,
                  CheckDailySpend, CreateIntent, ExecuteIntent, RevokeIntent, Tick, policyVars, intentVars
    <2> QED
      BY <1>2, <2>1, <2>2 DEF VaultInv, VaultTypeOK, PolicyInv, OwnFundsOnly, vaultVars
  <1>3. ASSUME NEW u \in Users, NEW t \in Tokens, NEW n \in Transfers, Deposit(u, t, n) PROVE VaultInv'
    <2>1. PolicyInv' /\ intents' = intents
      BY <1>1, <1>3, PolicyStep DEF Deposit, policyVars, intentVars
    <2>2. n \in Nat /\ wallet[u][t] >= n
      BY <1>3, VaultAssumption DEF VaultAssumption, Deposit
    <2> QED
      BY <1>3, <2>1, <2>2 DEF Deposit, VaultInv, VaultTypeOK, PolicyInv, OwnFundsOnly
  <1>4. ASSUME NEW u \in Users, NEW t \in Tokens, NEW n \in Transfers, NEW i \in intents,
               Withdraw(u, t, n, i)
        PROVE  VaultInv'
    <2>1. PolicyInv' /\ intents' = intents
      BY <1>1, <1>4, PolicyStep DEF Withdraw, policyVars, intentVars
    <2>2. n \in Nat /\ balance[u][t] >= n
      BY <1>4, VaultAssumption DEF VaultAssumption, Withdraw
    <2> QED
      BY <1>4, <2>1, <2>2 DEF Withdraw, VaultInv, VaultTypeOK, PolicyInv, OwnFundsOnly
  <1>5. CASE UNCHANGED sorobanVars
    BY <1>2, <1>5 DEF sorobanVars
  <1> QED
    BY <1>2, <1>3, <1>4, <1>5 DEF VaultNext

\* For any parameters the vault's storage has its type.
THEOREM VaultTypeCorrect == VaultSpec => []VaultTypeOK
  <1>1. VaultInv => VaultTypeOK
    BY DEF VaultInv
  <1> QED
    BY <1>1, VaultStarts, VaultStep, PTL DEF VaultSpec

\* For any number of users, tokens, intents and calls, no user is paid from another's deposit:
\* nobody's balance is negative, and with the wallet it makes what they brought.
THEOREM OwnFunds == VaultSpec => []OwnFundsOnly
  <1>1. VaultInv => OwnFundsOnly
    BY DEF VaultInv
  <1> QED
    BY <1>1, VaultStarts, VaultStep, PTL DEF VaultSpec

\* A payment is authorised by the intent the withdrawal names: the policy says that it is
\* live, and the invariant that it is within its decision.
LEMMA PaymentStep ==
  ASSUME VaultInv, [VaultNext]_sorobanVars
  PROVE  [Payment]_sorobanVars
  <1>1. /\ wallet \in [Users -> [Tokens -> Nat]]
        /\ \A i \in intents : i \in Intent /\ i.policy \in decisions
        /\ ledger \in 1 .. MaxLedger
    BY DEF VaultInv, VaultTypeOK, PolicyTypeOK
  <1>2. ASSUME UNCHANGED vaultVars PROVE Payment
    BY <1>1, <1>2 DEF Payment, vaultVars
  <1>3. ASSUME NEW u \in Users, NEW t \in Tokens, NEW n \in Transfers, Deposit(u, t, n) PROVE Payment
    <2>1. n \in Nat /\ consumed' = consumed /\ wallet' = [wallet EXCEPT ![u][t] = @ - n]
      BY <1>3, VaultAssumption DEF VaultAssumption, Deposit
    <2>2. \A w \in Users, x \in Tokens : ~(wallet'[w][x] > wallet[w][x])
      BY <1>1, <2>1
    <2> QED
      BY <2>1, <2>2 DEF Payment
  <1>4. ASSUME NEW u \in Users, NEW t \in Tokens, NEW n \in Transfers, NEW i \in intents,
               Withdraw(u, t, n, i)
        PROVE  Payment
    <2>1. n \in Nat /\ wallet' = [wallet EXCEPT ![u][t] = @ + n]
      BY <1>4, VaultAssumption DEF VaultAssumption, Withdraw
    <2>2. \A w \in Users, x \in Tokens :
             wallet'[w][x] > wallet[w][x] => w = u /\ x = t /\ wallet'[w][x] - wallet[w][x] = n
      BY <1>1, <2>1
    <2>3. consumed' = consumed \cup {i} /\ i \in consumed' \ consumed
      BY <1>4 DEF Withdraw
    <2>4. IntentValid(i, t, n) /\ i.policy.user = u
      BY <1>4 DEF Withdraw
    <2>5. i.expiry \in Nat /\ i.policy \in Decision
      BY <1>1 DEF Intent
    <2>6. i.policy.expiry \in Nat
      BY <2>5 DEF Decision
    <2>7. i.expiry <= i.policy.expiry /\ ~Over(i.amount, i.policy.value)
      BY DEF VaultInv, WithinDecision
    <2>8. ledger \in Nat
      BY <1>1
    <2>9. i.policy.expiry >= ledger
      BY <2>4, <2>5, <2>6, <2>7, <2>8 DEF IntentValid
    <2>10. n <= i.amount
      BY <1>1, <2>1, <2>4 DEF IntentValid, Intent
    <2>11. Authorises(i, u, t, n)
      BY <1>1, <2>4, <2>7, <2>9, <2>10 DEF Authorises, IntentValid
    <2>12. i.policy.user = u /\ i.token = t /\ wallet'[u][t] > wallet[u][t]
      <3>1. n > 0 /\ wallet[u][t] \in Nat /\ wallet'[u][t] = wallet[u][t] + n
        BY <1>1, <2>1, VaultAssumption DEF VaultAssumption
      <3> QED
        BY <2>1, <2>4, <3>1 DEF IntentValid
    <2> QED
      BY <2>2, <2>3, <2>11, <2>12 DEF Payment
  <1> QED
    BY <1>2, <1>3, <1>4 DEF VaultNext, sorobanVars

\* For any parameters, and whatever is revoked, executed, paused or changed in between,
\* every payment uses up an intent that authorises it, none pays twice, and nothing else uses
\* one up.
THEOREM Payments == VaultSpec => PaymentsAuthorised
  BY VaultStarts, VaultStep, PaymentStep, PTL DEF VaultSpec, PaymentsAuthorised

-----------------------------------------------------------------------------
(* The daily limit. *)

\* A limit of 0 is none, and a charge then does not count.
NeverLifted == \A l \in Limits : l.daily > 0

\* The intents made since the window opened.
InWindow == {i \in intents : i.created >= reset}

\* What is spent, with what was given back, covers the intents of the window.  A window
\* cannot open in the ledger of an intent, which would count in both: the intent's own
\* charge was in a window that is not over.
WindowInv ==
    /\ IsFiniteSet(intents)
    /\ reset = 0 => intents = {}
    /\ \A i \in intents : i.created <= ledger
    /\ \A i \in intents : i.created = ledger => ~WindowOver
    /\ Total(InWindow) <= spent + refunded

LEMMA WindowStarts == PolicyInit => WindowInv
  <1> SUFFICES ASSUME PolicyInit PROVE WindowInv
    OBVIOUS
  <1>1. intents = {} /\ spent = 0 /\ refunded = 0
    BY DEF PolicyInit
  <1>2. InWindow = {}
    BY <1>1 DEF InWindow
  <1>3. Total(InWindow) = 0
    BY <1>2, TotalOfNone
  <1> QED
    BY <1>1, <1>3, FS_EmptySet DEF WindowInv

LEMMA WindowNumbers ==
  ASSUME PolicyTypeOK, IsFiniteSet(intents)
  PROVE  /\ ledger \in Nat \ {0} /\ reset \in 0 .. ledger /\ spent \in Int /\ refunded \in Nat
         /\ \A i \in intents : i \in Intent /\ i.created \in Nat /\ i.amount \in Nat
         /\ \A S \in SUBSET intents : HasAmounts(S) /\ Total(S) \in Nat
  <1>1. /\ ledger \in 1 .. MaxLedger /\ reset \in 0 .. ledger /\ spent \in Int /\ refunded \in Nat
        /\ intents \subseteq Intent
    BY DEF PolicyTypeOK
  <1>2. \A i \in intents : i \in Intent /\ i.created \in Nat /\ i.amount \in Nat
    BY <1>1 DEF Intent
  <1>3. ASSUME NEW S \in SUBSET intents PROVE HasAmounts(S) /\ Total(S) \in Nat
    <2>1. IsFiniteSet(S)
      BY FS_Subset
    <2>2. HasAmounts(S)
      BY <1>2, <2>1 DEF HasAmounts
    <2> QED
      BY <2>2, TotalTyped
  <1> QED
    BY <1>1, <1>2, <1>3

\* A charge that opens a window finds no intent in it, and any other adds to what is spent;
\* a negative one adds nothing to what is spent and given back.
LEMMA ChargeCounts ==
  ASSUME NeverLifted, PolicyTypeOK, WindowInv, NEW n \in Int, Charge(n)
  PROVE  /\ spent' \in Int /\ refunded' \in Nat /\ reset' \in Nat /\ reset' # 0
         /\ n \in Nat => spent' <= limits.daily
         /\ reset' # reset => reset = 0 \/ reset' >= reset + Window
         /\ reset' <= ledger /\ ~(ledger - reset' >= Window)
         /\ HasAmounts({i \in intents : i.created >= reset'})
         /\ Total({i \in intents : i.created >= reset'}) + n + Refund(n) <= spent' + refunded'
  <1> DEFINE later == {i \in intents : i.created >= reset'}
  <1>1. /\ ledger \in Nat \ {0} /\ reset \in 0 .. ledger /\ spent \in Int /\ refunded \in Nat
        /\ \A i \in intents : i \in Intent /\ i.created \in Nat
        /\ \A S \in SUBSET intents : HasAmounts(S) /\ Total(S) \in Nat
    BY WindowNumbers DEF WindowInv
  <1>2. limits.daily > 0 /\ limits.daily \in Nat
    BY DEF NeverLifted, PolicyTypeOK
  <1> DEFINE back == Refund(n)
  <1>3. back \in Nat
    BY DEF Refund
  <1>4. CASE n <= limits.daily /\ Opens(n)
    <2>1. WindowOver /\ spent' = n /\ reset' = ledger /\ refunded' = back
      BY <1>4 DEF Opens
    <2>2. later = {}
      BY <1>1, <2>1 DEF WindowInv
    <2>3. HasAmounts(later) /\ Total(later) = 0
      <3>1. later \in SUBSET intents
        OBVIOUS
      <3> HIDE DEF later
      <3> QED
        BY <1>1, <2>2, <3>1, TotalOfNone
    <2>4. reset = 0 \/ ledger >= reset + Window
      BY <1>1, <2>1 DEF WindowOver
    <2>5. ledger \in Nat /\ ledger # 0 /\ ~(ledger - ledger >= Window)
      BY <1>1
    <2> HIDE DEF later, back
    <2>6. Total(later) + n + back <= spent' + refunded'
      BY <1>3, <2>1, <2>3
    <2> QED
      BY <1>3, <1>4, <2>1, <2>3, <2>4, <2>5, <2>6 DEF later, back
  <1>5. CASE Adds(n)
    <2>1. ~WindowOver /\ spent + n <= limits.daily /\ spent' = spent + n /\ reset' = reset
          /\ refunded' = refunded + back
      BY <1>5 DEF Adds
    <2>2. later = InWindow
      BY <2>1 DEF InWindow
    <2> DEFINE sum == Total(InWindow)
    <2>3. HasAmounts(InWindow) /\ sum \in Nat /\ sum <= spent + refunded
      BY <1>1 DEF InWindow, WindowInv
    <2>4. reset # 0 /\ ~(ledger - reset >= Window)
      BY <1>1, <2>1 DEF WindowOver
    <2> HIDE DEF later, sum, back
    <2>5. sum + n + back <= spent' + refunded'
      BY <1>1, <1>3, <2>1, <2>3
    <2>6. Total(later) = sum
      BY <2>2 DEF sum
    <2> QED
      BY <1>1, <1>3, <2>1, <2>2, <2>3, <2>4, <2>5, <2>6 DEF later, back
  <1> QED
    BY <1>2, <1>4, <1>5 DEF Charge

\* What WithinDailyLimit says of a step.
Daily ==
    /\ intents' # intents =>
          Total({i \in intents' : i.created >= reset'}) <= limits.daily + refunded'
    /\ reset' # reset => reset = 0 \/ reset' >= reset + Window

\* Every call on the policy keeps the count, and makes an intent only within the limit.
LEMMA WindowStep ==
  ASSUME NeverLifted, PolicyInv, WindowInv, [PolicyNext]_policyVars
  PROVE  WindowInv' /\ Daily
  <1>1. /\ PolicyTypeOK /\ ledger \in Nat \ {0} /\ reset \in 0 .. ledger
        /\ \A i \in intents : i \in Intent /\ i.created \in Nat
    BY WindowNumbers DEF PolicyInv, WindowInv
  <1>2. CASE UNCHANGED <<ledger, intents, spendVars>>
    BY <1>2 DEF WindowInv, WindowOver, InWindow, Daily, spendVars
  <1>3. ASSUME NEW n \in Charges, CheckDailySpend(n) PROVE WindowInv' /\ Daily
    <2>1. n \in Int /\ Charge(n) /\ ledger' = ledger /\ intents' = intents
      BY <1>3 DEF CheckDailySpend, intentVars
    <2> DEFINE sum == Total(InWindow')
    <2>2. /\ spent' \in Int /\ refunded' \in Nat /\ reset' \in Nat /\ reset' # 0
          /\ reset' # reset => reset = 0 \/ reset' >= reset + Window
          /\ ~(ledger - reset' >= Window)
          /\ HasAmounts({i \in intents : i.created >= reset'})
          /\ Total({i \in intents : i.created >= reset'}) + n + Refund(n) <= spent' + refunded'
      BY <1>1, <2>1, ChargeCounts
    <2>3. InWindow' = {i \in intents : i.created >= reset'}
      BY <2>1 DEF InWindow
    <2>4. sum \in Nat /\ sum + n + Refund(n) <= spent' + refunded'
      BY <2>2, <2>3, TotalTyped
    <2>5. Refund(n) \in Nat /\ n + Refund(n) >= 0
      BY <2>1 DEF Refund
    <2> HIDE DEF sum
    <2>6. sum <= spent' + refunded'
      <3> DEFINE back == Refund(n)
                 all == spent' + refunded'
      <3>1. sum \in Nat /\ n \in Int /\ back \in Nat /\ n + back >= 0 /\ all \in Int /\ sum + n + back <= all
        BY <2>1, <2>2, <2>4, <2>5
      <3> HIDE DEF back, all
      <3>2. sum <= all
        BY <3>1
      <3> QED
        BY <3>2 DEF all
    <2>7. ~WindowOver'
      BY <1>1, <2>1, <2>2 DEF WindowOver
    <2> QED
      BY <2>1, <2>2, <2>6, <2>7 DEF WindowInv, Daily, sum
  <1>4. ASSUME NEW d \in decisions, NEW i \in Requests(d), CreateIntent(i) PROVE WindowInv' /\ Daily
    <2> DEFINE n == i.amount
               later == {j \in intents : j.created >= reset'}
    <2>1. /\ n \in Nat /\ Charge(n) /\ ledger' = ledger /\ intents' = intents \cup {i}
          /\ i.created = ledger /\ i \notin intents /\ limits' = limits
      BY <1>1, <1>4, RequestsTyped DEF CreateIntent, SameHash, Requests
    <2>2. /\ spent' \in Int /\ refunded' \in Nat /\ reset' \in Nat /\ reset' # 0
          /\ spent' <= limits.daily
          /\ reset' # reset => reset = 0 \/ reset' >= reset + Window
          /\ reset' <= ledger /\ ~(ledger - reset' >= Window)
          /\ HasAmounts(later) /\ Total(later) + n <= spent' + refunded'
      <3>1. n \in Int /\ Refund(n) = 0
        BY <2>1 DEF Refund
      <3>2. Total(later) \in Nat => Total(later) + n + 0 = Total(later) + n
        BY <2>1
      <3> QED
        BY <1>1, <2>1, <3>1, <3>2, ChargeCounts, TotalTyped
    <2>3. InWindow' = later \cup {i}
      BY <2>1, <2>2 DEF InWindow
    <2>4. i \notin later
      BY <2>1
    <2> HIDE DEF later
    <2>5. Total(InWindow') = Total(later) + n /\ Total(InWindow') \in Nat
      BY <2>1, <2>2, <2>3, <2>4, TotalWith, TotalTyped
    <2>6. Total(InWindow') <= spent' + refunded'
      BY <2>2, <2>5
    <2>7. ~WindowOver'
      BY <1>1, <2>1, <2>2 DEF WindowOver
    <2>8. IsFiniteSet(intents')
      BY <2>1, FS_AddElement DEF WindowInv
    <2>9. WindowInv'
      BY <1>1, <2>1, <2>2, <2>6, <2>7, <2>8 DEF WindowInv
    <2>10. limits.daily \in Nat
      BY <1>1 DEF PolicyTypeOK
    <2> DEFINE sum == Total(InWindow')
    <2>11. sum \in Nat /\ sum <= spent' + refunded'
      BY <2>5, <2>6
    <2> HIDE DEF sum
    <2>12. sum <= limits.daily + refunded'
      <3> DEFINE most == limits.daily
                 charged == spent'
                 back == refunded'
      <3>1. /\ sum \in Nat /\ most \in Nat /\ charged \in Int /\ back \in Nat
            /\ charged <= most /\ sum <= charged + back
        BY <2>2, <2>10, <2>11
      <3> HIDE DEF most, charged, back
      <3>2. sum <= most + back
        BY <3>1
      <3> QED
        BY <3>2 DEF most, back
    <2> QED
      BY <2>2, <2>9, <2>12 DEF Daily, InWindow, sum
  <1>5. CASE Tick
    <2>1. ledger' = ledger + 1 /\ UNCHANGED <<intents, spent, reset, refunded>>
      BY <1>5 DEF Tick, intentVars, spendVars
    <2>2. \A i \in intents : i.created <= ledger' /\ i.created # ledger'
      BY <1>1, <2>1 DEF WindowInv
    <2> QED
      BY <2>1, <2>2 DEF WindowInv, InWindow, Daily
  <1>6. ASSUME \/ SetLimits
               \/ \E t \in Tokens : AllowAsset(t)
               \/ \E t \in Tokens, on \in BOOLEAN : BlockAsset(t, on)
               \/ \E on \in BOOLEAN : SetPaused(on)
               \/ \E u \in Users, limit \in DecisionLimits, e \in ledger + 1 .. MaxLedger :
                     ApplyPolicy(u, limit, e)
               \/ \E d \in decisions : RevokePolicy(d)
               \/ \E i \in intents : ExecuteIntent(i) \/ RevokeIntent(i)
               \/ UNCHANGED policyVars
        PROVE  UNCHANGED <<ledger, intents, spendVars>>
    BY <1>6 DEF SetLimits, AllowAsset, BlockAsset, SetPaused, ApplyPolicy, RevokePolicy, ExecuteIntent,
                RevokeIntent, policyVars, intentVars
  <1> QED
    BY <1>2, <1>3, <1>4, <1>5, <1>6 DEF PolicyNext

\* The vault reads the policy's storage and never writes it.
THEOREM VaultLeavesPolicy == VaultSpec => PolicySpec
  <1>1. VaultInit => PolicyInit
    BY DEF VaultInit
  <1>2. [VaultNext]_sorobanVars => [PolicyNext]_policyVars
    BY DEF VaultNext, sorobanVars, Deposit, Withdraw
  <1> QED
    BY <1>1, <1>2, PTL DEF VaultSpec, PolicySpec

\* For any window, any charges and any limits, none of them 0: the intents made since the window
\* opened stay within the limit in force when the last of them is made and what negative charges
\* gave back, and windows are Window ledgers apart.
THEOREM DailyLimit == PolicySpec => WithinDailyLimit
  <1>1. PolicyInit => PolicyInv /\ (NeverLifted => WindowInv)
    BY PolicyStarts, WindowStarts
  <1>2. PolicyInv /\ (NeverLifted => WindowInv) /\ [PolicyNext]_policyVars
           => PolicyInv' /\ (NeverLifted' => WindowInv') /\ [NeverLifted => Daily]_policyVars
    BY PolicyStep, WindowStep DEF NeverLifted
  <1>3. [NeverLifted => Daily]_policyVars
           <=> [(\A l \in Limits : l.daily > 0) =>
                   /\ intents' # intents =>
                         Total({i \in intents' : i.created >= reset'}) <= limits.daily + refunded'
                   /\ reset' # reset => reset = 0 \/ reset' >= reset + Window]_policyVars
    BY DEF NeverLifted, Daily
  <1> QED
    BY <1>1, <1>2, <1>3, PTL DEF PolicySpec, WithinDailyLimit

\* So it is with the vault, which only asks whether intents are valid.
COROLLARY VaultDailyLimit == VaultSpec => WithinDailyLimit
  BY VaultLeavesPolicy, DailyLimit, PTL

-----------------------------------------------------------------------------
(* The EVM policy and vault. *)

HIDE PolicyAssumption DEF PolicyAssumption
USE EvmVaultAssumption DEF EvmVaultAssumption

\* The types of the policy's storage, the vault's storage and the token's.
EvmRules == [paused : BOOLEAN, agent : Operators, value : Nat, daily : Nat,
             allowed : SUBSET Coins, listed : BOOLEAN, blocked : SUBSET Coins]

EvmPlans == [nonce : [Depositors -> Nat], decisions : SUBSET Agreed, revoked : SUBSET Agreed,
             intents : SUBSET Plan, executed : SUBSET Plan]

EvmSpending == [spent : [Operators -> Nat], day : Nat]

EvmFunds == [balance : [Depositors -> [Coins -> Nat]], consumed : SUBSET Plan,
             wallet : [Depositors -> [Coins -> Nat]], paid : [Depositors -> [Coins -> Nat]]]

\* What a revert brings back.
EvmState == [rules : EvmRules, plans : EvmPlans, spending : EvmSpending, funds : EvmFunds]

Transfer == [kind : {"in", "out"}, user : Depositors, coin : Coins, amount : Nat,
             moved : BOOLEAN, before : EvmState]

EvmTypeOK ==
    /\ rules \in EvmRules
    /\ plans \in EvmPlans
    /\ spending \in EvmSpending
    /\ funds \in EvmFunds
    /\ transfers \in Seq(Transfer)
    /\ clock \in Nat

Held(x, u, c) == x.funds.wallet[u][c] + x.funds.balance[u][c]

Granted(x, u, c) == Total({i \in x.funds.consumed : i.decision.user = u /\ i.coin = c})

MadeOn(x, o, day) == Total({i \in x.plans.intents : i.by = o /\ i.day = day})

\* What a transfer has taken from wallet or balance and not given yet.
Owed(f, u, c) ==
    IF f.user = u /\ f.coin = c /\ (f.kind = "in" <=> f.moved) THEN f.amount ELSE 0

\* What a withdrawal will still pay.
Unpaid(f, u, c) ==
    IF f.user = u /\ f.coin = c /\ f.kind = "out" /\ ~f.moved THEN f.amount ELSE 0

\* Between two states nothing was gained, and every payment used up intents.
Settles(x, y) ==
    /\ x.plans.intents \subseteq y.plans.intents
    /\ \A u \in Depositors, c \in Coins :
          /\ Held(y, u, c) = Held(x, u, c)
          /\ y.funds.paid[u][c] + Granted(x, u, c) <= x.funds.paid[u][c] + Granted(y, u, c)

\* So it is from the call of a transfer on, but for what the transfer holds.
Underway(f, y) ==
    /\ f.before.plans.intents \subseteq y.plans.intents
    /\ \A u \in Depositors, c \in Coins :
          /\ Held(y, u, c) + Owed(f, u, c) = Held(f.before, u, c)
          /\ y.funds.paid[u][c] + Unpaid(f, u, c) + Granted(f.before, u, c)
                <= f.before.funds.paid[u][c] + Granted(y, u, c)

Records(x) == IsFiniteSet(x.plans.intents) /\ x.funds.consumed \subseteq x.plans.intents

Covered(x) ==
    \A u \in Depositors, c \in Coins :
        Held(x, u, c) <= Savings /\ x.funds.paid[u][c] <= Granted(x, u, c)

Counted(x, today) ==
    /\ \A i \in x.plans.intents : i.day <= x.spending.day
    /\ x.spending.day <= today
    /\ \A o \in Operators : MadeOn(x, o, x.spending.day) <= x.spending.spent[o]

Sound(x, today) == Records(x) /\ Covered(x) /\ Counted(x, today)

\* The state that the code called by the k-th transfer has come to.
After(k) == IF k = Len(transfers) THEN Saved ELSE transfers[k + 1].before

\* The invariant: every state that a revert can bring back is sound, and so is the current
\* one, and each transfer still holds what separates its first state from its last.
EvmInv ==
    /\ EvmTypeOK
    /\ Sound(Saved, Today)
    /\ \A k \in 1 .. Len(transfers) :
          Sound(transfers[k].before, Today) /\ Underway(transfers[k], After(k))

-----------------------------------------------------------------------------

LEMMA SavedTyped == ASSUME EvmTypeOK PROVE Saved \in EvmState
  BY DEF EvmTypeOK, Saved, EvmState

\* The sums that the invariant compares are numbers.
LEMMA PlansCountable ==
  ASSUME NEW x \in EvmState, Records(x)
  PROVE  /\ \A S \in SUBSET x.plans.intents : HasAmounts(S)
         /\ \A S \in SUBSET x.plans.intents : Total(S) \in Nat
  <1> SUFFICES ASSUME NEW S \in SUBSET x.plans.intents PROVE HasAmounts(S) /\ Total(S) \in Nat
    OBVIOUS
  <1>1. IsFiniteSet(S)
    BY FS_Subset DEF Records
  <1>2. x.plans.intents \subseteq Plan
    BY DEF EvmState, EvmPlans
  <1>3. HasAmounts(S)
    BY <1>1, <1>2 DEF HasAmounts, Plan
  <1> QED
    BY <1>3, TotalTyped

LEMMA Numbers ==
  ASSUME NEW x \in EvmState, Records(x), NEW u \in Depositors, NEW c \in Coins
  PROVE  /\ x.funds.wallet[u][c] \in Nat /\ x.funds.balance[u][c] \in Nat
         /\ Held(x, u, c) \in Nat /\ x.funds.paid[u][c] \in Nat /\ Granted(x, u, c) \in Nat
  <1>1. x.funds.wallet[u][c] \in Nat /\ x.funds.balance[u][c] \in Nat /\ x.funds.paid[u][c] \in Nat
    BY DEF EvmState, EvmFunds
  <1>2. {i \in x.funds.consumed : i.decision.user = u /\ i.coin = c} \in SUBSET x.plans.intents
    BY DEF Records
  <1> QED
    BY <1>1, <1>2, PlansCountable DEF Held, Granted

LEMMA MadeTyped ==
  ASSUME NEW x \in EvmState, Records(x), NEW o, NEW day
  PROVE  MadeOn(x, o, day) \in Nat
  BY PlansCountable DEF MadeOn

LEMMA TransferTyped ==
  ASSUME NEW f \in Transfer, NEW u \in Depositors, NEW c \in Coins
  PROVE  Owed(f, u, c) \in Nat /\ Unpaid(f, u, c) \in Nat
  BY DEF Transfer, Owed, Unpaid

\* A transfer called by another leaves the other where it was, once it has settled.
LEMMA SettlesTelescopes ==
  ASSUME NEW f \in Transfer, NEW x \in EvmState, NEW y \in EvmState,
         Records(f.before), Records(x), Records(y), Underway(f, x), Settles(x, y)
  PROVE  Underway(f, y)
  <1>0. f.before \in EvmState
    BY DEF Transfer
  <1>1. f.before.plans.intents \subseteq y.plans.intents
    BY DEF Underway, Settles
  <1>2. ASSUME NEW u \in Depositors, NEW c \in Coins
        PROVE  /\ Held(y, u, c) + Owed(f, u, c) = Held(f.before, u, c)
               /\ y.funds.paid[u][c] + Unpaid(f, u, c) + Granted(f.before, u, c)
                     <= f.before.funds.paid[u][c] + Granted(y, u, c)
    <2>1. /\ Held(x, u, c) + Owed(f, u, c) = Held(f.before, u, c)
          /\ x.funds.paid[u][c] + Unpaid(f, u, c) + Granted(f.before, u, c)
                <= f.before.funds.paid[u][c] + Granted(x, u, c)
      BY DEF Underway
    <2>2. /\ Held(y, u, c) = Held(x, u, c)
          /\ y.funds.paid[u][c] + Granted(x, u, c) <= x.funds.paid[u][c] + Granted(y, u, c)
      BY DEF Settles
    <2>3. /\ Unpaid(f, u, c) \in Nat
          /\ x.funds.paid[u][c] \in Nat /\ Granted(x, u, c) \in Nat
          /\ y.funds.paid[u][c] \in Nat /\ Granted(y, u, c) \in Nat
          /\ f.before.funds.paid[u][c] \in Nat /\ Granted(f.before, u, c) \in Nat
      BY <1>0, Numbers, TransferTyped
    <2> DEFINE granted0 == Granted(f.before, u, c)
               granted1 == Granted(x, u, c)
               granted2 == Granted(y, u, c)
               paid0 == f.before.funds.paid[u][c]
               paid1 == x.funds.paid[u][c]
               paid2 == y.funds.paid[u][c]
               n == Unpaid(f, u, c)
    <2>4. paid2 + n + granted0 <= paid0 + granted2
      <3>1. paid1 + n + granted0 <= paid0 + granted1 /\ paid2 + granted1 <= paid1 + granted2
        BY <2>1, <2>2
      <3>2. /\ n \in Nat /\ granted0 \in Nat /\ granted1 \in Nat /\ granted2 \in Nat
            /\ paid0 \in Nat /\ paid1 \in Nat /\ paid2 \in Nat
        BY <2>3
      <3> HIDE DEF granted0, granted1, granted2, paid0, paid1, paid2, n
      <3> QED
        BY <3>1, <3>2
    <2> QED
      BY <2>1, <2>2, <2>4
  <1> QED
    BY <1>1, <1>2 DEF Underway

\* Neither funds nor the intents made before are touched.
LEMMA SettlesItself ==
  ASSUME NEW x \in EvmState, NEW y \in EvmState, Records(x),
         x.plans.intents \subseteq y.plans.intents, x.funds = y.funds
  PROVE  Settles(x, y)
  <1>1. ASSUME NEW u \in Depositors, NEW c \in Coins
        PROVE  /\ Held(y, u, c) = Held(x, u, c) /\ y.funds.paid[u][c] = x.funds.paid[u][c]
               /\ Granted(y, u, c) = Granted(x, u, c)
               /\ y.funds.paid[u][c] \in Nat /\ Granted(x, u, c) \in Nat
    BY Numbers DEF Held, Granted
  <1> QED
    BY <1>1 DEF Settles

\* A step of the current state alone.
LEMMA StepInside ==
  ASSUME EvmInv, EvmTypeOK', transfers' = transfers, Today' = Today, Sound(Saved', Today'), Settles(Saved, Saved')
  PROVE  EvmInv'
  <1>1. transfers \in Seq(Transfer) /\ Saved \in EvmState /\ Saved' \in EvmState
    BY SavedTyped DEF EvmInv, EvmTypeOK, Saved, EvmState
  <1>2. Records(Saved) /\ Records(Saved')
    BY DEF EvmInv, Sound
  <1>3. ASSUME NEW k \in 1 .. Len(transfers)
        PROVE  Sound(transfers[k].before, Today') /\ Underway(transfers[k], After(k)')
    <2>1. transfers[k] \in Transfer /\ Sound(transfers[k].before, Today) /\ Underway(transfers[k], After(k))
      BY <1>1 DEF EvmInv
    <2>2. Records(transfers[k].before)
      BY <2>1 DEF Sound
    <2>3. CASE k = Len(transfers)
      <3>1. After(k) = Saved /\ After(k)' = Saved'
        BY <2>3 DEF After
      <3>2. Underway(transfers[k], Saved')
        BY <1>1, <1>2, <2>1, <2>2, <3>1, SettlesTelescopes
      <3> QED
        BY <2>1, <3>1, <3>2 DEF Sound
    <2>4. CASE k # Len(transfers)
      <3>1. After(k)' = After(k)
        BY <2>4 DEF After
      <3> QED
        BY <2>1, <3>1 DEF Sound
    <2> QED
      BY <2>3, <2>4
  <1> QED
    BY <1>3 DEF EvmInv

\* A call of the token opens a transfer.
LEMMA StepCalls ==
  ASSUME EvmInv, EvmTypeOK', NEW f \in Transfer, transfers' = Append(transfers, f),
         f.before = Saved, Today' = Today, Sound(Saved', Today'), Underway(f, Saved')
  PROVE  EvmInv'
  <1>1. transfers \in Seq(Transfer)
    BY DEF EvmInv, EvmTypeOK
  <1>2. Len(transfers') = Len(transfers) + 1
    BY <1>1
  <1>3. ASSUME NEW k \in 1 .. Len(transfers')
        PROVE  Sound(transfers'[k].before, Today') /\ Underway(transfers'[k], After(k)')
    <2>1. CASE k = Len(transfers')
      <3>1. transfers'[k] = f /\ After(k)' = Saved'
        BY <1>1, <1>2, <2>1 DEF After
      <3>2. Sound(Saved, Today)
        BY DEF EvmInv
      <3> QED
        BY <3>1, <3>2 DEF Sound
    <2>2. CASE k # Len(transfers')
      <3>1. k \in 1 .. Len(transfers) /\ transfers'[k] = transfers[k]
        BY <1>1, <1>2, <2>2
      <3>2. After(k)' = After(k)
        <4>1. CASE k = Len(transfers)
          BY <1>1, <1>2, <2>2, <4>1 DEF After
        <4>2. CASE k # Len(transfers)
          <5>1. transfers'[k + 1] = transfers[k + 1]
            BY <1>1, <3>1, <4>2
          <5> QED
            BY <2>2, <4>2, <5>1 DEF After
        <4> QED
          BY <4>1, <4>2
      <3>3. Sound(transfers[k].before, Today) /\ Underway(transfers[k], After(k))
        BY <3>1 DEF EvmInv
      <3> QED
        BY <3>1, <3>2, <3>3 DEF Sound
    <2> QED
      BY <2>1, <2>2
  <1> QED
    BY <1>3 DEF EvmInv

LEMMA AllButLast ==
  ASSUME NEW S, NEW s \in Seq(S), NEW n \in Nat, Len(s) = n + 1, NEW t, t = SubSeq(s, 1, n)
  PROVE  t \in Seq(S) /\ Len(t) = n /\ \A k \in 1 .. n : t[k] = s[k]
  <1>1. \A k \in 1 .. n : s[k] \in S
    OBVIOUS
  <1>2. 1 \in Int /\ n \in Int
    OBVIOUS
  <1>3. /\ t \in Seq(S)
        /\ Len(t) = IF 1 <= n THEN n - 1 + 1 ELSE 0
        /\ \A k \in 1 .. n - 1 + 1 : t[k] = s[1 + k - 1]
    BY <1>1, <1>2, SubSeqProperties
  <1> QED
    BY <1>3

\* The innermost transfer ends.
LEMMA StepEnds ==
  ASSUME EvmInv, EvmTypeOK', Busy, Ended, Today' = Today, Sound(Saved', Today'), Settles(Last.before, Saved')
  PROVE  EvmInv'
  <1>1. transfers \in Seq(Transfer) /\ Len(transfers) \in Nat \ {0}
    BY DEF EvmInv, EvmTypeOK, Busy
  <1>2. Last \in Transfer /\ Saved' \in EvmState
    BY <1>1, SavedTyped DEF Last, EvmTypeOK, Saved, EvmState
  <1>3. Sound(Last.before, Today)
    BY <1>1 DEF EvmInv, Last
  <1>4. /\ Len(transfers') = Len(transfers) - 1
        /\ \A k \in 1 .. Len(transfers) - 1 : transfers'[k] = transfers[k]
    <2> DEFINE n == Len(transfers) - 1
    <2>1. n \in Nat /\ Len(transfers) = n + 1 /\ transfers' = SubSeq(transfers, 1, n)
      BY <1>1 DEF Ended
    <2> HIDE DEF n
    <2>2. Len(transfers') = n /\ \A k \in 1 .. n : transfers'[k] = transfers[k]
      BY <1>1, <2>1, AllButLast
    <2> QED
      BY <2>2 DEF n
  <1>5. ASSUME NEW k \in 1 .. Len(transfers')
        PROVE  Sound(transfers'[k].before, Today') /\ Underway(transfers'[k], After(k)')
    <2>1. k \in 1 .. Len(transfers) /\ k # Len(transfers) /\ transfers'[k] = transfers[k]
      BY <1>1, <1>4
    <2>2. transfers[k] \in Transfer /\ After(k) = transfers[k + 1].before
      BY <1>1, <2>1 DEF After
    <2>3. Sound(transfers[k].before, Today) /\ Underway(transfers[k], transfers[k + 1].before)
      BY <2>1, <2>2 DEF EvmInv
    <2>4. CASE k = Len(transfers')
      <3>1. After(k)' = Saved' /\ transfers[k + 1] = Last
        BY <1>1, <1>4, <2>4 DEF After, Last
      <3>2. /\ Records(transfers[k].before) /\ Records(Last.before) /\ Records(Saved')
            /\ Last.before \in EvmState
        BY <1>2, <1>3, <2>3 DEF Sound, Transfer
      <3>3. Underway(transfers[k], Saved')
        BY <1>2, <2>2, <2>3, <3>1, <3>2, SettlesTelescopes
      <3> QED
        BY <2>1, <2>3, <3>1, <3>3 DEF Sound
    <2>5. CASE k # Len(transfers')
      <3>1. k + 1 \in 1 .. Len(transfers) - 1
        BY <1>1, <1>4, <2>5
      <3>2. After(k)' = transfers[k + 1].before
        BY <1>4, <2>5, <3>1 DEF After
      <3> QED
        BY <2>1, <2>3, <3>2 DEF Sound
    <2> QED
      BY <2>4, <2>5
  <1> QED
    BY <1>5 DEF EvmInv

LEMMA Days ==
  ASSUME NEW s \in Nat, NEW t \in Nat, s <= t
  PROVE  /\ s \div DayLength \in Nat /\ t \div DayLength \in Nat
         /\ s \div DayLength <= t \div DayLength
  OBVIOUS

LEMMA OffersTyped ==
  ASSUME EvmTypeOK, NEW d \in plans.decisions, NEW i \in Offers(d)
  PROVE  i \in Plan /\ i.by = rules.agent /\ i.day = Today
  <1>1. d \in Agreed /\ rules.agent \in Operators /\ clock \in Nat
    BY DEF EvmTypeOK, EvmPlans, EvmRules
  <1>2. Today \in Nat
    BY <1>1, Days DEF Today
  <1>3. PICK c \in Coins, n \in Sizes, e \in Ahead :
           i = [decision |-> d, coin |-> c, amount |-> n, expiry |-> e, by |-> rules.agent, day |-> Today]
    BY DEF Offers
  <1>4. e \in Nat /\ n \in Nat
    BY <1>1 DEF Ahead
  <1> QED
    BY <1>1, <1>2, <1>3, <1>4 DEF Plan

ConfigurationCall ==
    \/ \E o \in Operators : SetAgent(o)
    \/ \E l \in Caps : SetCaps(l)
    \/ \E on \in BOOLEAN : SetHalted(on)
    \/ \E c \in Coins : AllowCoin(c) \/ \E on \in BOOLEAN : BlockCoin(c, on)

\* The owner's calls change the configuration only.
LEMMA ConfigurationTyped ==
  ASSUME EvmTypeOK, ConfigurationCall
  PROVE  rules' \in EvmRules /\ UNCHANGED <<plans, spending, funds, transfers, clock>>
  <1>1. rules \in EvmRules
    BY DEF EvmTypeOK
  <1>2. ASSUME NEW o \in Operators, SetAgent(o)
        PROVE  rules' \in EvmRules /\ UNCHANGED <<plans, spending, funds, transfers, clock>>
    BY <1>1, <1>2 DEF SetAgent, Configure, EvmRules
  <1>3. ASSUME NEW l \in Caps, SetCaps(l)
        PROVE  rules' \in EvmRules /\ UNCHANGED <<plans, spending, funds, transfers, clock>>
    <2>1. l.value \in Nat /\ l.daily \in Nat
      OBVIOUS
    <2> QED
      BY <1>1, <1>3, <2>1 DEF SetCaps, Configure, EvmRules
  <1>4. ASSUME NEW on \in BOOLEAN, SetHalted(on)
        PROVE  rules' \in EvmRules /\ UNCHANGED <<plans, spending, funds, transfers, clock>>
    BY <1>1, <1>4 DEF SetHalted, Configure, EvmRules
  <1>5. ASSUME NEW c \in Coins, AllowCoin(c)
        PROVE  rules' \in EvmRules /\ UNCHANGED <<plans, spending, funds, transfers, clock>>
    BY <1>1, <1>5 DEF AllowCoin, Configure, EvmRules
  <1>6. ASSUME NEW c \in Coins, NEW on \in BOOLEAN, BlockCoin(c, on)
        PROVE  rules' \in EvmRules /\ UNCHANGED <<plans, spending, funds, transfers, clock>>
    BY <1>1, <1>6 DEF BlockCoin, Configure, EvmRules
  <1> QED
    BY <1>2, <1>3, <1>4, <1>5, <1>6 DEF ConfigurationCall

\* What a step keeps that changes neither funds nor transfers, if it keeps the plans.
LEMMA PlansStep ==
  ASSUME EvmInv, EvmTypeOK', UNCHANGED <<funds, transfers, clock>>,
         plans.intents \subseteq plans'.intents, IsFiniteSet(plans'.intents), Counted(Saved', Today)
  PROVE  EvmInv'
  <1>1. Saved \in EvmState /\ Saved' \in EvmState
    BY SavedTyped DEF EvmInv, EvmTypeOK, Saved, EvmState
  <1>2. Saved.plans = plans /\ Saved'.plans = plans' /\ Saved.funds = funds /\ Saved'.funds = funds
    BY DEF Saved
  <1>3. Records(Saved) /\ Covered(Saved)
    BY DEF EvmInv, Sound
  <1>4. Settles(Saved, Saved')
    BY <1>1, <1>2, <1>3, SettlesItself
  <1>5. Records(Saved') /\ Covered(Saved')
    BY <1>2, <1>3 DEF Records, Covered, Held, Granted
  <1>6. Today' = Today
    BY DEF Today
  <1> QED
    BY <1>4, <1>5, <1>6, StepInside DEF Sound

LEMMA ConfigurationStep ==
  ASSUME EvmInv, ConfigurationCall
  PROVE  EvmInv'
  <1>1. rules' \in EvmRules /\ UNCHANGED <<plans, spending, funds, transfers, clock>>
    BY ConfigurationTyped DEF EvmInv
  <1>2. EvmTypeOK'
    BY <1>1 DEF EvmInv, EvmTypeOK
  <1>3. Counted(Saved', Today) /\ IsFiniteSet(plans.intents)
    BY <1>1 DEF EvmInv, Sound, Counted, Records, Saved, MadeOn
  <1> QED
    BY <1>1, <1>2, <1>3, PlansStep

\* Decisions, revocations and executions make no intent.
LEMMA DecisionStep ==
  ASSUME EvmInv, UNCHANGED <<rules, spending, funds, transfers, clock>>, plans' \in EvmPlans,
         plans'.intents = plans.intents
  PROVE  EvmInv'
  <1>1. EvmTypeOK'
    BY DEF EvmInv, EvmTypeOK
  <1>2. Counted(Saved', Today) /\ IsFiniteSet(plans.intents)
    BY DEF EvmInv, Sound, Counted, Records, Saved, MadeOn
  <1> QED
    BY <1>1, <1>2, PlansStep

LEMMA DecideStep ==
  ASSUME EvmInv, NEW u \in Depositors, NEW n \in Sizes, NEW e \in Ahead, Decide(u, n, e)
  PROVE  EvmInv'
  <1> DEFINE d == [user |-> u, nonce |-> plans.nonce[u] + 1, value |-> n, expiry |-> e]
  <1>1. plans \in EvmPlans /\ clock \in Nat
    BY DEF EvmInv, EvmTypeOK
  <1>2. n \in Nat /\ e \in Nat
    BY <1>1 DEF Ahead
  <1>3. plans.nonce \in [Depositors -> Nat]
    BY <1>1 DEF EvmPlans
  <1>4. d \in Agreed
    BY <1>2, <1>3 DEF Agreed
  <1>5. /\ plans' = [plans EXCEPT !.nonce[u] = @ + 1, !.decisions = @ \cup {d}]
        /\ UNCHANGED <<rules, spending, funds, transfers, clock>>
    BY DEF Decide, Planned
  <1>6. plans' \in EvmPlans /\ plans'.intents = plans.intents
    <2> DEFINE m == plans.nonce[u] + 1
    <2>1. m \in Nat
      BY <1>3
    <2> HIDE DEF d, m
    <2>2. plans' = [plans EXCEPT !.nonce = [plans.nonce EXCEPT ![u] = m], !.decisions = @ \cup {d}]
      BY <1>5 DEF m
    <2>3. [plans.nonce EXCEPT ![u] = m] \in [Depositors -> Nat]
      BY <1>3, <2>1
    <2> QED
      BY <1>1, <1>4, <2>2, <2>3 DEF EvmPlans
  <1> QED
    BY <1>5, <1>6, DecisionStep

LEMMA MarkStep ==
  ASSUME EvmInv,
         \/ \E d \in plans.decisions : RevokeDecision(d)
         \/ \E i \in plans.intents : ExecutePlan(i) \/ RevokePlan(i)
  PROVE  EvmInv'
  <1>1. plans \in EvmPlans
    BY DEF EvmInv, EvmTypeOK
  <1>2. ASSUME NEW d \in plans.decisions, RevokeDecision(d) PROVE EvmInv'
    <2>1. /\ plans' = [plans EXCEPT !.revoked = @ \cup {d}]
          /\ UNCHANGED <<rules, spending, funds, transfers, clock>>
      BY <1>2 DEF RevokeDecision, Planned
    <2>2. plans' \in EvmPlans /\ plans'.intents = plans.intents
      BY <1>1, <2>1 DEF EvmPlans
    <2> QED
      BY <2>1, <2>2, DecisionStep
  <1>3. ASSUME NEW i \in plans.intents, ExecutePlan(i) \/ RevokePlan(i) PROVE EvmInv'
    <2>1. /\ plans' = [plans EXCEPT !.executed = @ \cup {i}]
          /\ UNCHANGED <<rules, spending, funds, transfers, clock>>
      BY <1>3 DEF ExecutePlan, RevokePlan, Planned
    <2>2. plans' \in EvmPlans /\ plans'.intents = plans.intents
      BY <1>1, <2>1 DEF EvmPlans
    <2> QED
      BY <2>1, <2>2, DecisionStep
  <1> QED
    BY <1>2, <1>3

\* The intents made today are what the agent has spent today at most, and the new one is
\* among them.
LEMMA MakePlanCounts ==
  ASSUME EvmInv, NEW d \in plans.decisions, NEW i \in Offers(d), MakePlan(i)
  PROVE  /\ EvmTypeOK' /\ UNCHANGED <<rules, funds, transfers, clock>>
         /\ plans'.intents = plans.intents \cup {i} /\ IsFiniteSet(plans'.intents)
         /\ Counted(Saved', Today)
         /\ i.by \in Operators /\ i.day = spending'.day /\ spending'.spent[i.by] <= rules.daily
  <1>1. EvmTypeOK /\ Sound(Saved, Today) /\ Saved \in EvmState
    BY SavedTyped DEF EvmInv
  <1>2. i \in Plan /\ i.by = rules.agent /\ i.day = Today /\ i.amount \in Nat /\ rules.agent \in Operators
    BY <1>1, OffersTyped DEF EvmTypeOK, EvmRules, Plan
  <1> DEFINE o == rules.agent
             sofar == IF Today # spending.day THEN 0 ELSE spending.spent[o]
             n == i.amount
  <1>3. /\ sofar + n <= rules.daily
        /\ spending' = [spending EXCEPT !.spent[o] = sofar + n, !.day = Today]
        /\ plans' = [plans EXCEPT !.intents = @ \cup {i}]
        /\ UNCHANGED <<rules, funds, transfers, clock>>
        /\ \A j \in plans.intents : ~SamePlan(i, j)
    BY DEF MakePlan, Spend, Planned
  <1>4. spending.spent \in [Operators -> Nat] /\ spending.day \in Nat /\ Today \in Nat /\ sofar \in Nat
    <2>1. spending.spent \in [Operators -> Nat] /\ spending.day \in Nat /\ clock \in Nat
      BY <1>1 DEF EvmTypeOK, EvmSpending
    <2>2. Today \in Nat
      BY <2>1, Days DEF Today
    <2> QED
      BY <1>2, <2>1, <2>2
  <1>5. i \notin plans.intents
    BY <1>3 DEF SamePlan
  <1>6. plans'.intents = plans.intents \cup {i} /\ IsFiniteSet(plans'.intents)
    <2>1. plans'.intents = plans.intents \cup {i}
      BY <1>1, <1>3 DEF EvmTypeOK, EvmPlans
    <2>2. IsFiniteSet(plans.intents)
      BY <1>1 DEF Sound, Records, Saved
    <2> QED
      BY <2>1, <2>2, FS_AddElement
  <1>7. /\ spending'.day = Today
        /\ spending'.spent[o] = sofar + n
        /\ \A p \in Operators : p # o => spending'.spent[p] = spending.spent[p]
        /\ spending' \in EvmSpending
    <2> DEFINE m == sofar + n
    <2>1. spending \in EvmSpending /\ m \in Nat
      BY <1>1, <1>2, <1>4 DEF EvmTypeOK
    <2>2. spending' = [spending EXCEPT !.spent = [spending.spent EXCEPT ![o] = m], !.day = Today]
      BY <1>3
    <2> HIDE DEF m
    <2>3. [spending.spent EXCEPT ![o] = m] \in [Operators -> Nat]
      BY <1>4, <2>1
    <2>4. /\ spending'.day = Today /\ spending'.spent[o] = m /\ spending' \in EvmSpending
          /\ \A p \in Operators : p # o => spending'.spent[p] = spending.spent[p]
      BY <1>2, <1>4, <2>1, <2>2, <2>3 DEF EvmSpending
    <2> QED
      BY <2>4 DEF m
  <1>8. EvmTypeOK'
    <2>1. plans' \in EvmPlans
      BY <1>1, <1>2, <1>3 DEF EvmTypeOK, EvmPlans
    <2> QED
      BY <1>1, <1>3, <1>7, <2>1 DEF EvmTypeOK
  <1>9. \A j \in plans.intents : j.day <= spending.day /\ j.day \in Nat
    BY <1>1 DEF Sound, Counted, Saved, EvmTypeOK, EvmPlans, Plan
  <1>10. spending.day <= Today
    BY <1>1 DEF Sound, Counted, Saved
  <1> DEFINE made(p) == {j \in plans.intents : j.by = p /\ j.day = Today}
  <1>11. ASSUME NEW p \in Operators
         PROVE  /\ HasAmounts(made(p)) /\ Total(made(p)) \in Nat
                /\ Total(made(p)) <= IF Today = spending.day THEN spending.spent[p] ELSE 0
    <2>1. made(p) \in SUBSET Saved.plans.intents /\ Records(Saved)
      BY <1>1 DEF Saved, Sound
    <2>2. HasAmounts(made(p)) /\ Total(made(p)) \in Nat
      BY <1>1, <2>1, PlansCountable
    <2>3. CASE Today = spending.day
      <3>1. MadeOn(Saved, p, spending.day) <= spending.spent[p]
        BY <1>1 DEF Sound, Counted, Saved
      <3>2. MadeOn(Saved, p, spending.day) = Total(made(p))
        BY <2>3 DEF MadeOn, Saved
      <3> QED
        BY <2>2, <2>3, <3>1, <3>2
    <2>4. CASE Today # spending.day
      <3>1. made(p) = {}
        BY <1>4, <1>9, <1>10, <2>4
      <3> HIDE DEF made
      <3>2. Total(made(p)) = 0
        BY <3>1, TotalOfNone
      <3> QED
        BY <2>2, <2>4, <3>2
    <2> QED
      BY <2>2, <2>3, <2>4
  <1>12. ASSUME NEW p \in Operators
         PROVE  MadeOn(Saved', p, spending'.day) <= spending'.spent[p]
    <2>1. MadeOn(Saved', p, spending'.day) = Total({j \in plans.intents \cup {i} : j.by = p /\ j.day = Today})
      BY <1>6, <1>7 DEF MadeOn, Saved
    <2>2. CASE p = o
      <3>1. {j \in plans.intents \cup {i} : j.by = p /\ j.day = Today} = made(o) \cup {i}
        BY <1>2, <2>2
      <3>2. i \notin made(o)
        BY <1>5
      <3>3. HasAmounts(made(o)) /\ Total(made(o)) \in Nat /\ Total(made(o)) <= sofar
        BY <1>2, <1>4, <1>11
      <3> HIDE DEF made
      <3>4. Total(made(o) \cup {i}) = Total(made(o)) + n
        BY <1>2, <3>2, <3>3, TotalWith
      <3>5. spending'.spent[p] = sofar + n /\ MadeOn(Saved', p, spending'.day) = Total(made(o)) + n
        BY <1>7, <2>1, <2>2, <3>1, <3>4
      <3> DEFINE sum == Total(made(o))
      <3>6. n \in Nat /\ sofar \in Nat /\ sum \in Nat /\ sum <= sofar
        BY <1>2, <1>4, <3>3
      <3> HIDE DEF sofar, n, sum
      <3>7. sum + n <= sofar + n
        BY <3>6
      <3> QED
        BY <3>5, <3>7 DEF sum
    <2>3. CASE p # o
      <3>1. {j \in plans.intents \cup {i} : j.by = p /\ j.day = Today} = made(p)
        BY <1>2, <2>3
      <3>2. spending'.spent[p] = spending.spent[p] /\ spending.spent[p] \in Nat
        BY <1>4, <1>7, <2>3
      <3> HIDE DEF made
      <3>3. Total(made(p)) <= spending.spent[p]
        BY <1>11, <3>2
      <3> QED
        BY <2>1, <3>1, <3>2, <3>3
    <2> QED
      BY <2>2, <2>3
  <1>13. Counted(Saved', Today)
    <2>1. Saved'.plans = plans' /\ Saved'.spending = spending'
      BY DEF Saved
    <2>2. \A j \in plans'.intents : j.day <= Today
      BY <1>2, <1>4, <1>6, <1>9, <1>10
    <2> QED
      BY <1>4, <1>7, <1>12, <2>1, <2>2 DEF Counted
  <1> QED
    BY <1>2, <1>3, <1>6, <1>7, <1>8, <1>13

LEMMA MakePlanStep ==
  ASSUME EvmInv, NEW d \in plans.decisions, NEW i \in Offers(d), MakePlan(i)
  PROVE  EvmInv'
  BY MakePlanCounts, PlansStep

\* From a state that is covered a transfer under way comes to states that are.
LEMMA UnderwayCovers ==
  ASSUME NEW f \in Transfer, NEW y \in EvmState, Records(f.before), Records(y), Covered(f.before),
         Underway(f, y)
  PROVE  Covered(y)
  <1>0. f.before \in EvmState
    BY DEF Transfer
  <1>1. ASSUME NEW u \in Depositors, NEW c \in Coins
        PROVE  Held(y, u, c) <= Savings /\ y.funds.paid[u][c] <= Granted(y, u, c)
    <2> DEFINE held0 == Held(f.before, u, c)
               held1 == Held(y, u, c)
               granted0 == Granted(f.before, u, c)
               granted1 == Granted(y, u, c)
               paid0 == f.before.funds.paid[u][c]
               paid1 == y.funds.paid[u][c]
               m == Owed(f, u, c)
               n == Unpaid(f, u, c)
    <2>1. held1 + m = held0 /\ paid1 + n + granted0 <= paid0 + granted1
      BY DEF Underway
    <2>2. held0 <= Savings /\ paid0 <= granted0
      BY DEF Covered
    <2>3. /\ held0 \in Nat /\ held1 \in Nat /\ granted0 \in Nat /\ granted1 \in Nat
          /\ paid0 \in Nat /\ paid1 \in Nat /\ m \in Nat /\ n \in Nat
      BY <1>0, Numbers, TransferTyped
    <2> HIDE DEF held0, held1, granted0, granted1, paid0, paid1, m, n
    <2>4. held1 <= Savings /\ paid1 <= granted1
      BY <2>1, <2>2, <2>3
    <2> QED
      BY <2>4 DEF held1, paid1, granted1
  <1> QED
    BY <1>1 DEF Covered

LEMMA SettlesCovers ==
  ASSUME NEW x \in EvmState, NEW y \in EvmState, Records(x), Records(y), Covered(x), Settles(x, y)
  PROVE  Covered(y)
  <1>1. ASSUME NEW u \in Depositors, NEW c \in Coins
        PROVE  Held(y, u, c) <= Savings /\ y.funds.paid[u][c] <= Granted(y, u, c)
    <2> DEFINE granted0 == Granted(x, u, c)
               granted1 == Granted(y, u, c)
               paid0 == x.funds.paid[u][c]
               paid1 == y.funds.paid[u][c]
    <2>1. Held(y, u, c) = Held(x, u, c) /\ paid1 + granted0 <= paid0 + granted1
      BY DEF Settles
    <2>2. Held(x, u, c) <= Savings /\ paid0 <= granted0
      BY DEF Covered
    <2>3. granted0 \in Nat /\ granted1 \in Nat /\ paid0 \in Nat /\ paid1 \in Nat
      BY Numbers
    <2> HIDE DEF granted0, granted1, paid0, paid1
    <2>4. paid1 <= granted1
      BY <2>1, <2>2, <2>3
    <2> QED
      BY <2>1, <2>2, <2>4 DEF paid1, granted1
  <1> QED
    BY <1>1 DEF Covered

\* A deposit begins: nothing has moved yet.
LEMMA PutInStep ==
  ASSUME EvmInv, NEW u \in Depositors, NEW c \in Coins, NEW n \in Sizes, PutIn(u, c, n)
  PROVE  EvmInv'
  <1> DEFINE f == [kind |-> "in", user |-> u, coin |-> c, amount |-> n, moved |-> FALSE, before |-> Saved]
  <1>1. EvmTypeOK /\ Saved \in EvmState /\ Sound(Saved, Today)
    BY SavedTyped DEF EvmInv
  <1>2. transfers' = Append(transfers, f) /\ UNCHANGED <<rules, plans, spending, clock, funds>>
    BY DEF PutIn, Calls
  <1>3. n \in Nat
    OBVIOUS
  <1>4. f \in Transfer
    BY <1>1, <1>3 DEF Transfer
  <1>5. EvmTypeOK'
    <2> HIDE DEF f
    <2> QED
      BY <1>1, <1>2, <1>4 DEF EvmTypeOK
  <1>6. Saved' = Saved /\ Today' = Today
    BY <1>2 DEF Saved, Today
  <1>7. Underway(f, Saved)
    <2>1. ASSUME NEW w \in Depositors, NEW x \in Coins
          PROVE  /\ Held(Saved, w, x) + Owed(f, w, x) = Held(Saved, w, x)
                 /\ Saved.funds.paid[w][x] + Unpaid(f, w, x) + Granted(Saved, w, x)
                       <= Saved.funds.paid[w][x] + Granted(Saved, w, x)
      <3>1. Owed(f, w, x) = 0 /\ Unpaid(f, w, x) = 0
        BY DEF Owed, Unpaid
      <3>2. Held(Saved, w, x) \in Nat /\ Saved.funds.paid[w][x] \in Nat /\ Granted(Saved, w, x) \in Nat
        BY <1>1, Numbers DEF Sound
      <3> QED
        BY <3>1, <3>2
    <2>2. f.before = Saved
      OBVIOUS
    <2> HIDE DEF f
    <2> QED
      BY <2>1, <2>2 DEF Underway
  <1>8. f.before = Saved
    OBVIOUS
  <1> HIDE DEF f
  <1> QED
    BY <1>1, <1>2, <1>4, <1>5, <1>6, <1>7, <1>8, StepCalls

\* A withdrawal begins: the balance is lower by what the transfer holds, and the intent
\* that was consumed grants at least that.
LEMMA TakeOutStep ==
  ASSUME EvmInv, NEW u \in Depositors, NEW c \in Coins, NEW n \in Sizes, NEW i \in plans.intents,
         TakeOut(u, c, n, i)
  PROVE  EvmInv'
  <1> DEFINE f == [kind |-> "out", user |-> u, coin |-> c, amount |-> n, moved |-> FALSE, before |-> Saved]
  <1>1. EvmTypeOK /\ Saved \in EvmState /\ Sound(Saved, Today)
    BY SavedTyped DEF EvmInv
  <1>2. /\ transfers' = Append(transfers, f)
        /\ funds' = [funds EXCEPT !.consumed = @ \cup {i}, !.balance[u][c] = @ - n]
        /\ UNCHANGED <<rules, plans, spending, clock>>
        /\ i \notin funds.consumed /\ funds.balance[u][c] >= n
        /\ i.decision.user = u /\ i.coin = c /\ i.amount >= n
    BY DEF TakeOut, Calls, PlanValid
  <1>3. n \in Nat /\ i \in Plan /\ i.amount \in Nat /\ funds \in EvmFunds
    BY <1>1 DEF EvmTypeOK, EvmPlans, Plan
  <1>4. f \in Transfer /\ f.before = Saved
    BY <1>1, <1>3 DEF Transfer
  <1>5. /\ funds' \in EvmFunds /\ funds'.consumed = funds.consumed \cup {i}
        /\ funds'.wallet = funds.wallet /\ funds'.paid = funds.paid
        /\ \A w \in Depositors, x \in Coins :
              funds'.balance[w][x] = IF w = u /\ x = c THEN funds.balance[u][c] - n ELSE funds.balance[w][x]
    <2> DEFINE m == funds.balance[u][c] - n
    <2>1. m \in Nat /\ funds.balance \in [Depositors -> [Coins -> Nat]]
      BY <1>2, <1>3 DEF EvmFunds
    <2> DEFINE b == [funds.balance EXCEPT ![u] = [funds.balance[u] EXCEPT ![c] = m]]
    <2>2. funds' = [funds EXCEPT !.consumed = funds.consumed \cup {i}, !.balance = b]
      BY <1>2
    <2> HIDE DEF m
    <2>3. /\ b \in [Depositors -> [Coins -> Nat]]
          /\ \A w \in Depositors, x \in Coins :
                b[w][x] = IF w = u /\ x = c THEN m ELSE funds.balance[w][x]
      BY <2>1
    <2> HIDE DEF b
    <2> QED
      BY <1>3, <2>2, <2>3 DEF EvmFunds, m
  <1>6. EvmTypeOK'
    <2> HIDE DEF f
    <2> QED
      BY <1>1, <1>2, <1>4, <1>5 DEF EvmTypeOK
  <1>7. Saved' \in EvmState /\ Records(Saved') /\ Records(Saved) /\ Today' = Today
    BY <1>1, <1>2, <1>5, <1>6, SavedTyped DEF Saved, Records, Sound, Today, EvmState, EvmTypeOK
  <1>8. ASSUME NEW w \in Depositors, NEW x \in Coins
        PROVE  /\ Held(Saved', w, x) + Owed(f, w, x) = Held(Saved, w, x)
               /\ Saved'.funds.paid[w][x] + Unpaid(f, w, x) + Granted(Saved, w, x)
                     <= Saved.funds.paid[w][x] + Granted(Saved', w, x)
    <2> DEFINE used == {j \in funds.consumed : j.decision.user = w /\ j.coin = x}
               granted == Granted(Saved, w, x)
               paid == funds.paid[w][x]
               purse == funds.wallet[w][x]
               account == funds.balance[w][x]
    <2>1. granted = Total(used) /\ HasAmounts(used) /\ i \notin used
      <3>1. used \in SUBSET Saved.plans.intents
        BY <1>1 DEF Saved, Records, Sound
      <3>2. HasAmounts(used)
        BY <1>1, <1>7, <3>1, PlansCountable
      <3> QED
        BY <1>2, <3>2 DEF Granted, Saved
    <2>2. granted \in Nat /\ paid \in Nat /\ purse \in Nat /\ account \in Nat
      BY <1>1, <1>7, Numbers DEF Saved
    <2>3. Saved.funds = funds /\ Saved'.funds = funds'
      BY DEF Saved
    <2>4. Held(Saved, w, x) = purse + account /\ Saved'.funds.paid[w][x] = paid /\ Saved.funds.paid[w][x] = paid
      BY <1>5, <2>3 DEF Held
    <2>5. CASE w = u /\ x = c
      <3>1. Owed(f, w, x) = n /\ Unpaid(f, w, x) = n
        BY <2>5 DEF Owed, Unpaid
      <3>2. Held(Saved', w, x) = purse + (account - n)
        BY <1>5, <2>3, <2>5 DEF Held
      <3>3. {j \in funds.consumed \cup {i} : j.decision.user = w /\ j.coin = x} = used \cup {i}
        BY <1>2, <2>5
      <3>4. Granted(Saved', w, x) = granted + i.amount
        <4> HIDE DEF used, granted
        <4>1. Granted(Saved', w, x) = Total(used \cup {i})
          BY <1>5, <2>3, <3>3 DEF Granted
        <4> QED
          BY <1>3, <2>1, <4>1, TotalWith
      <3> HIDE DEF granted, paid, purse, account, used, f
      <3> DEFINE a == i.amount
      <3>5. a \in Nat /\ n <= a /\ n \in Nat
        BY <1>2, <1>3
      <3> HIDE DEF a
      <3>6. purse + (account - n) + n = purse + account /\ paid + n + granted <= paid + (granted + a)
        BY <2>2, <3>5
      <3> QED
        BY <2>4, <3>1, <3>2, <3>4, <3>6 DEF a, granted
    <2>6. CASE ~(w = u /\ x = c)
      <3>1. Owed(f, w, x) = 0 /\ Unpaid(f, w, x) = 0
        BY <2>6 DEF Owed, Unpaid
      <3>2. Held(Saved', w, x) = purse + account
        BY <1>5, <2>3, <2>6 DEF Held
      <3>3. {j \in funds.consumed \cup {i} : j.decision.user = w /\ j.coin = x} = used
        BY <1>2, <2>6
      <3>4. Granted(Saved', w, x) = granted
        BY <1>5, <2>1, <2>3, <3>3 DEF Granted
      <3> HIDE DEF granted, paid, purse, account, used, f
      <3>5. purse + account + 0 = purse + account /\ paid + 0 + granted <= paid + granted
        BY <2>2
      <3> QED
        BY <2>4, <3>1, <3>2, <3>4, <3>5 DEF granted
    <2> QED
      BY <2>5, <2>6
  <1> HIDE DEF f
  <1>9. Underway(f, Saved')
    <2>1. Saved.plans.intents \subseteq Saved'.plans.intents
      BY <1>2 DEF Saved
    <2> QED
      BY <1>4, <1>8, <2>1 DEF Underway
  <1>10. Sound(Saved', Today')
    <2>1. Covered(Saved')
      BY <1>1, <1>4, <1>7, <1>9, UnderwayCovers DEF Sound
    <2>2. Counted(Saved', Today')
      BY <1>1, <1>2, <1>7 DEF Sound, Counted, Saved, MadeOn
    <2> QED
      BY <1>7, <2>1, <2>2 DEF Sound
  <1> QED
    BY <1>2, <1>4, <1>6, <1>7, <1>9, <1>10, StepCalls

LEMMA InnermostTyped ==
  ASSUME EvmInv, Busy
  PROVE  /\ Last \in Transfer /\ Last.before \in EvmState
         /\ Len(transfers) \in 1 .. Len(transfers)
         /\ Sound(Last.before, Today) /\ Underway(Last, Saved)
         /\ Saved \in EvmState /\ Sound(Saved, Today)
  <1>1. transfers \in Seq(Transfer) /\ Len(transfers) \in Nat \ {0}
    BY DEF EvmInv, EvmTypeOK, Busy
  <1>2. Last \in Transfer /\ Len(transfers) \in 1 .. Len(transfers)
    BY <1>1 DEF Last
  <1>3. Sound(Last.before, Today) /\ Underway(Last, Saved)
    BY <1>2 DEF EvmInv, Last, After
  <1> QED
    BY <1>2, <1>3, SavedTyped DEF EvmInv, Transfer

\* The token moves the amount: what the transfer held is given, or taken.
LEMMA TokenMovesFunds ==
  ASSUME EvmInv, TokenMoves
  PROVE  /\ funds' \in EvmFunds /\ funds'.consumed = funds.consumed
         /\ \A u \in Depositors, c \in Coins :
               LET n == IF Last.user = u /\ Last.coin = c THEN Last.amount ELSE 0 IN
               IF Last.kind = "in"
               THEN /\ Held(Saved, u, c) = Held(Saved', u, c) + n
                    /\ funds'.paid[u][c] = funds.paid[u][c]
               ELSE /\ Held(Saved', u, c) = Held(Saved, u, c) + n
                    /\ funds'.paid[u][c] = funds.paid[u][c] + n
  <1> DEFINE u == Last.user
             c == Last.coin
             n == Last.amount
             purse == funds.wallet[u][c]
             paid == funds.paid[u][c]
  <1>1. Last \in Transfer /\ funds \in EvmFunds
    BY InnermostTyped DEF EvmInv, EvmTypeOK, TokenMoves
  <1>2. u \in Depositors /\ c \in Coins /\ n \in Nat /\ Last.kind \in {"in", "out"}
    BY <1>1 DEF Transfer
  <1>3. /\ funds.wallet \in [Depositors -> [Coins -> Nat]]
        /\ funds.paid \in [Depositors -> [Coins -> Nat]]
        /\ funds.balance \in [Depositors -> [Coins -> Nat]]
    BY <1>1 DEF EvmFunds
  <1>4. purse \in Nat /\ paid \in Nat
    BY <1>2, <1>3
  <1>5. CASE Last.kind = "in"
    <2> DEFINE m == purse - n
               s == [funds.wallet EXCEPT ![u] = [funds.wallet[u] EXCEPT ![c] = m]]
    <2>1. funds' = [funds EXCEPT !.wallet = s] /\ purse >= n
      BY <1>5 DEF TokenMoves
    <2>2. m \in Nat /\ m + n = purse
      BY <1>2, <1>4, <2>1
    <2> HIDE DEF m, u, c, n, purse
    <2>3. /\ s \in [Depositors -> [Coins -> Nat]]
          /\ \A v \in Depositors, d \in Coins : s[v][d] = IF v = u /\ d = c THEN m ELSE funds.wallet[v][d]
      BY <1>2, <1>3, <2>2
    <2> HIDE DEF s
    <2>4. /\ funds' \in EvmFunds /\ funds'.consumed = funds.consumed /\ funds'.wallet = s
          /\ funds'.paid = funds.paid /\ funds'.balance = funds.balance
      BY <1>1, <2>1, <2>3 DEF EvmFunds
    <2>5. ASSUME NEW v \in Depositors, NEW d \in Coins
          PROVE  Held(Saved, v, d) = Held(Saved', v, d) + (IF u = v /\ c = d THEN n ELSE 0)
      <3>1. /\ funds.wallet[v][d] \in Nat /\ funds.balance[v][d] \in Nat
            /\ Held(Saved, v, d) = funds.wallet[v][d] + funds.balance[v][d]
            /\ Held(Saved', v, d) = s[v][d] + funds.balance[v][d]
        BY <1>3, <2>4 DEF Held, Saved
      <3>2. CASE u = v /\ c = d
        <4>1. s[v][d] = m /\ funds.wallet[v][d] = purse
          BY <2>3, <3>2 DEF purse
        <4> QED
          BY <1>2, <2>2, <3>1, <3>2, <4>1
      <3>3. CASE ~(u = v /\ c = d)
        BY <2>3, <3>1, <3>3
      <3> QED
        BY <3>2, <3>3
    <2> QED
      BY <1>5, <2>4, <2>5 DEF u, c, n
  <1>6. CASE Last.kind = "out"
    <2> DEFINE m == purse + n
               q == paid + n
               s == [funds.wallet EXCEPT ![u] = [funds.wallet[u] EXCEPT ![c] = m]]
               p == [funds.paid EXCEPT ![u] = [funds.paid[u] EXCEPT ![c] = q]]
    <2>1. funds' = [funds EXCEPT !.wallet = s, !.paid = p]
      BY <1>6 DEF TokenMoves
    <2>2. m \in Nat /\ m = purse + n /\ q \in Nat /\ q = paid + n
      BY <1>2, <1>4
    <2> HIDE DEF m, q, u, c, n, purse, paid
    <2>3. /\ s \in [Depositors -> [Coins -> Nat]] /\ p \in [Depositors -> [Coins -> Nat]]
          /\ \A v \in Depositors, d \in Coins :
                /\ s[v][d] = IF v = u /\ d = c THEN m ELSE funds.wallet[v][d]
                /\ p[v][d] = IF v = u /\ d = c THEN q ELSE funds.paid[v][d]
      BY <1>2, <1>3, <2>2
    <2> HIDE DEF s, p
    <2>4. /\ funds' \in EvmFunds /\ funds'.consumed = funds.consumed /\ funds'.wallet = s
          /\ funds'.paid = p /\ funds'.balance = funds.balance
      BY <1>1, <2>1, <2>3 DEF EvmFunds
    <2>5. ASSUME NEW v \in Depositors, NEW d \in Coins
          PROVE  /\ Held(Saved', v, d) = Held(Saved, v, d) + (IF u = v /\ c = d THEN n ELSE 0)
                 /\ funds'.paid[v][d] = funds.paid[v][d] + (IF u = v /\ c = d THEN n ELSE 0)
      <3>1. /\ funds.wallet[v][d] \in Nat /\ funds.balance[v][d] \in Nat /\ funds.paid[v][d] \in Nat
            /\ Held(Saved, v, d) = funds.wallet[v][d] + funds.balance[v][d]
            /\ Held(Saved', v, d) = s[v][d] + funds.balance[v][d]
            /\ funds'.paid[v][d] = p[v][d]
        BY <1>3, <2>4 DEF Held, Saved
      <3>2. CASE u = v /\ c = d
        <4>1. s[v][d] = m /\ funds.wallet[v][d] = purse /\ p[v][d] = q /\ funds.paid[v][d] = paid
          BY <2>3, <3>2 DEF purse, paid
        <4> QED
          BY <1>2, <2>2, <3>1, <3>2, <4>1
      <3>3. CASE ~(u = v /\ c = d)
        BY <2>3, <3>1, <3>3
      <3> QED
        BY <3>2, <3>3
    <2> QED
      BY <1>6, <2>4, <2>5 DEF u, c, n
  <1> QED
    BY <1>2, <1>5, <1>6

LEMMA TokenMovesStep ==
  ASSUME EvmInv, TokenMoves
  PROVE  EvmInv'
  <1> DEFINE k == Len(transfers)
             f == [Last EXCEPT !.moved = TRUE]
  <1>1. /\ Last \in Transfer /\ Last.before \in EvmState /\ k \in 1 .. Len(transfers)
        /\ Sound(Last.before, Today) /\ Underway(Last, Saved)
        /\ Saved \in EvmState /\ Sound(Saved, Today)
    BY InnermostTyped DEF TokenMoves
  <1>2. /\ transfers' = [transfers EXCEPT ![k] = f] /\ ~Last.moved
        /\ UNCHANGED <<rules, plans, spending, clock>>
    BY DEF TokenMoves, Last
  <1>3. f \in Transfer /\ f.before = Last.before /\ f.kind = Last.kind /\ f.user = Last.user
        /\ f.coin = Last.coin /\ f.amount = Last.amount /\ f.moved = TRUE
    BY <1>1 DEF Transfer
  <1>4. transfers \in Seq(Transfer)
    BY DEF EvmInv, EvmTypeOK
  <1> HIDE DEF f
  <1>5. /\ transfers' \in Seq(Transfer) /\ Len(transfers') = Len(transfers) /\ transfers'[k] = f
        /\ \A j \in 1 .. Len(transfers) : j # k => transfers'[j] = transfers[j]
    BY <1>1, <1>2, <1>3, <1>4
  <1>6. EvmTypeOK'
    BY <1>2, <1>5, TokenMovesFunds DEF EvmInv, EvmTypeOK
  <1>7. Saved' \in EvmState /\ Records(Saved') /\ Records(Saved) /\ Today' = Today
        /\ Saved'.plans = plans /\ Saved'.spending = spending /\ Saved'.funds = funds' /\ Saved.funds = funds
    BY <1>1, <1>2, <1>6, SavedTyped, TokenMovesFunds DEF Saved, Records, Sound, Today, EvmState, EvmTypeOK
  <1>8. Underway(f, Saved')
    <2>1. ASSUME NEW u \in Depositors, NEW c \in Coins
          PROVE  /\ Held(Saved', u, c) + Owed(f, u, c) = Held(f.before, u, c)
                 /\ Saved'.funds.paid[u][c] + Unpaid(f, u, c) + Granted(f.before, u, c)
                       <= f.before.funds.paid[u][c] + Granted(Saved', u, c)
      <3> DEFINE n == IF Last.user = u /\ Last.coin = c THEN Last.amount ELSE 0
                 held0 == Held(f.before, u, c)
                 held1 == Held(Saved, u, c)
                 held2 == Held(Saved', u, c)
                 paid0 == f.before.funds.paid[u][c]
                 paid1 == funds.paid[u][c]
                 paid2 == funds'.paid[u][c]
                 granted0 == Granted(f.before, u, c)
                 granted == Granted(Saved, u, c)
      <3>1. /\ held1 + Owed(Last, u, c) = held0
            /\ paid1 + Unpaid(Last, u, c) + granted0 <= paid0 + granted
        BY <1>1, <1>3, <1>7 DEF Underway
      <3>2. /\ held0 \in Nat /\ held1 \in Nat /\ held2 \in Nat /\ paid0 \in Nat /\ paid1 \in Nat
            /\ paid2 \in Nat /\ granted0 \in Nat /\ granted \in Nat
        BY <1>1, <1>3, <1>7, Numbers DEF Sound
      <3>3. n \in Nat /\ Last.kind \in {"in", "out"}
        BY <1>1 DEF Transfer
      <3>4. Granted(Saved', u, c) = granted
        BY <1>7, TokenMovesFunds DEF Granted
      <3>5. IF Last.kind = "in"
            THEN held1 = held2 + n /\ paid2 = paid1
            ELSE held2 = held1 + n /\ paid2 = paid1 + n
        BY TokenMovesFunds
      <3>6. CASE Last.kind = "in"
        <4>1. Owed(Last, u, c) = 0 /\ Unpaid(Last, u, c) = 0 /\ Owed(f, u, c) = n /\ Unpaid(f, u, c) = 0
          BY <1>2, <1>3, <3>6 DEF Owed, Unpaid
        <4>2. held1 = held2 + n /\ paid2 = paid1
          BY <3>5, <3>6
        <4> HIDE DEF n, held0, held1, held2, paid0, paid1, paid2, granted0, granted
        <4>3. held1 + 0 = held0 /\ paid1 + 0 + granted0 <= paid0 + granted
          BY <3>1, <4>1
        <4>4. held2 + n = held0 /\ paid2 + 0 + granted0 <= paid0 + granted
          BY <3>2, <3>3, <4>2, <4>3
        <4> QED
          BY <1>7, <3>4, <4>1, <4>4 DEF held0, held2, paid0, paid2, granted0
      <3>7. CASE Last.kind = "out"
        <4>1. Owed(Last, u, c) = n /\ Unpaid(Last, u, c) = n /\ Owed(f, u, c) = 0 /\ Unpaid(f, u, c) = 0
          BY <1>2, <1>3, <3>7 DEF Owed, Unpaid
        <4>2. held2 = held1 + n /\ paid2 = paid1 + n
          BY <3>5, <3>7
        <4> HIDE DEF n, held0, held1, held2, paid0, paid1, paid2, granted0, granted
        <4>3. held1 + n = held0 /\ paid1 + n + granted0 <= paid0 + granted
          BY <3>1, <4>1
        <4>4. held2 + 0 = held0 /\ paid2 + 0 + granted0 <= paid0 + granted
          BY <3>2, <3>3, <4>2, <4>3
        <4> QED
          BY <1>7, <3>4, <4>1, <4>4 DEF held0, held2, paid0, paid2, granted0
      <3> QED
        BY <3>3, <3>6, <3>7
    <2>2. f.before.plans.intents \subseteq Saved'.plans.intents
      BY <1>1, <1>3, <1>7 DEF Underway, Saved
    <2> QED
      BY <2>1, <2>2 DEF Underway
  <1>9. Sound(Saved', Today')
    <2>1. Covered(Saved')
      BY <1>1, <1>3, <1>7, <1>8, UnderwayCovers DEF Sound
    <2>2. Counted(Saved', Today')
      BY <1>1, <1>7 DEF Sound, Counted, Saved, MadeOn
    <2> QED
      BY <1>7, <2>1, <2>2 DEF Sound
  <1>10. ASSUME NEW j \in 1 .. Len(transfers')
         PROVE  Sound(transfers'[j].before, Today') /\ Underway(transfers'[j], After(j)')
    <2>1. CASE j = k
      <3>1. After(j)' = Saved'
        BY <1>5, <2>1 DEF After
      <3> QED
        BY <1>1, <1>3, <1>5, <1>7, <1>8, <2>1, <3>1
    <2>2. CASE j # k
      <3>1. j \in 1 .. Len(transfers) /\ transfers'[j] = transfers[j]
        BY <1>5, <2>2
      <3>2. transfers'[j + 1].before = transfers[j + 1].before
        <4>1. CASE j + 1 = k
          BY <1>3, <1>5, <4>1 DEF Last
        <4>2. CASE j + 1 # k
          BY <1>1, <1>5, <2>2, <3>1, <4>2
        <4> QED
          BY <4>1, <4>2
      <3>3. After(j)' = After(j)
        BY <1>5, <2>2, <3>2 DEF After
      <3>4. Sound(transfers[j].before, Today) /\ Underway(transfers[j], After(j))
        BY <3>1 DEF EvmInv
      <3> QED
        BY <1>7, <3>1, <3>3, <3>4
    <2> QED
      BY <2>1, <2>2
  <1> QED
    BY <1>6, <1>9, <1>10 DEF EvmInv

\* What a transfer that has moved still holds, a deposit gives to the balance.
LEMMA TransferReturnsStep ==
  ASSUME EvmInv, TransferReturns
  PROVE  EvmInv'
  <1> DEFINE u == Last.user
             c == Last.coin
             n == Last.amount
  <1>1. /\ Last \in Transfer /\ Last.before \in EvmState
        /\ Sound(Last.before, Today) /\ Underway(Last, Saved)
        /\ Saved \in EvmState /\ Sound(Saved, Today)
    BY InnermostTyped DEF TransferReturns
  <1>2. Last.moved /\ Busy /\ Credit /\ Ended /\ UNCHANGED <<rules, plans, spending, clock>>
    BY DEF TransferReturns
  <1>3. /\ u \in Depositors /\ c \in Coins /\ n \in Nat /\ Last.kind \in {"in", "out"}
        /\ funds \in EvmFunds /\ transfers \in Seq(Transfer) /\ Len(transfers) \in Nat \ {0}
    BY <1>1, <1>2 DEF Transfer, EvmInv, EvmTypeOK, Busy
  <1>4. /\ funds' \in EvmFunds /\ funds'.consumed = funds.consumed
        /\ funds'.wallet = funds.wallet /\ funds'.paid = funds.paid
        /\ \A w \in Depositors, x \in Coins :
              funds'.balance[w][x] =
                 IF Last.kind = "in" /\ w = u /\ x = c THEN funds.balance[w][x] + n ELSE funds.balance[w][x]
    <2>1. CASE Last.kind = "in"
      <3> DEFINE m == funds.balance[u][c] + n
                 b == [funds.balance EXCEPT ![u] = [funds.balance[u] EXCEPT ![c] = m]]
      <3>1. funds.balance \in [Depositors -> [Coins -> Nat]]
        BY <1>3 DEF EvmFunds
      <3>2. m \in Nat
        BY <1>3, <3>1
      <3>3. funds' = [funds EXCEPT !.balance = b]
        BY <1>2, <2>1 DEF Credit
      <3> HIDE DEF m, u, c, n
      <3>4. /\ b \in [Depositors -> [Coins -> Nat]]
            /\ \A w \in Depositors, x \in Coins :
                  b[w][x] = IF w = u /\ x = c THEN m ELSE funds.balance[w][x]
        BY <1>3, <3>1, <3>2
      <3> HIDE DEF b
      <3>5. /\ funds' \in EvmFunds /\ funds'.consumed = funds.consumed /\ funds'.balance = b
            /\ funds'.wallet = funds.wallet /\ funds'.paid = funds.paid
        BY <1>3, <3>3, <3>4 DEF EvmFunds
      <3> QED
        BY <2>1, <3>4, <3>5 DEF m
    <2>2. CASE Last.kind # "in"
      BY <1>2, <1>3, <2>2 DEF Credit
    <2> QED
      BY <2>1, <2>2
  <1>5. EvmTypeOK'
    <2> DEFINE l == Len(transfers) - 1
    <2>1. l \in Nat /\ Len(transfers) = l + 1 /\ transfers' = SubSeq(transfers, 1, l)
      BY <1>2, <1>3 DEF Ended
    <2> HIDE DEF l
    <2>2. transfers' \in Seq(Transfer)
      BY <1>3, <2>1, AllButLast
    <2> QED
      BY <1>2, <1>4, <2>2 DEF EvmInv, EvmTypeOK
  <1>6. Saved' \in EvmState /\ Records(Saved') /\ Records(Saved) /\ Records(Last.before) /\ Today' = Today
        /\ Saved'.plans = plans /\ Saved'.spending = spending /\ Saved'.funds = funds' /\ Saved.funds = funds
    BY <1>1, <1>2, <1>4, <1>5, SavedTyped DEF Saved, Records, Sound, Today, EvmState, EvmTypeOK
  <1>7. Settles(Last.before, Saved')
    <2>1. ASSUME NEW w \in Depositors, NEW x \in Coins
          PROVE  /\ Held(Saved', w, x) = Held(Last.before, w, x)
                 /\ Saved'.funds.paid[w][x] + Granted(Last.before, w, x)
                       <= Last.before.funds.paid[w][x] + Granted(Saved', w, x)
      <3> DEFINE held0 == Held(Last.before, w, x)
                 paid0 == Last.before.funds.paid[w][x]
                 paid1 == funds.paid[w][x]
                 granted0 == Granted(Last.before, w, x)
                 granted1 == Granted(Saved, w, x)
                 purse == funds.wallet[w][x]
                 account == funds.balance[w][x]
      <3>1. /\ held0 \in Nat /\ paid0 \in Nat /\ paid1 \in Nat /\ granted0 \in Nat /\ granted1 \in Nat
            /\ purse \in Nat /\ account \in Nat
        BY <1>1, <1>6, Numbers
      <3>2. Unpaid(Last, w, x) = 0
        BY <1>2 DEF Unpaid
      <3>3. Owed(Last, w, x) = IF Last.kind = "in" /\ w = u /\ x = c THEN n ELSE 0
        BY <1>2, <1>3 DEF Owed
      <3>4. /\ purse + account + Owed(Last, w, x) = held0
            /\ paid1 + Unpaid(Last, w, x) + granted0 <= paid0 + granted1
        BY <1>1, <1>6 DEF Underway, Held
      <3>5. Granted(Saved', w, x) = granted1 /\ Saved'.funds.paid[w][x] = paid1
        BY <1>4, <1>6 DEF Granted
      <3>6. Held(Saved', w, x) =
               purse + (IF Last.kind = "in" /\ w = u /\ x = c THEN account + n ELSE account)
        BY <1>4, <1>6 DEF Held
      <3> HIDE DEF held0, paid0, paid1, granted0, granted1, purse, account, u, c, n
      <3>7. Held(Saved', w, x) = held0
        BY <1>3, <3>1, <3>3, <3>4, <3>6
      <3>8. paid1 + granted0 <= paid0 + granted1
        BY <3>1, <3>2, <3>4
      <3> QED
        BY <3>5, <3>7, <3>8 DEF held0, paid0, granted0
    <2>2. Last.before.plans.intents \subseteq Saved'.plans.intents
      BY <1>1, <1>6 DEF Underway, Saved
    <2> QED
      BY <2>1, <2>2 DEF Settles
  <1>8. Sound(Saved', Today')
    <2>1. Covered(Saved')
      BY <1>1, <1>6, <1>7, SettlesCovers DEF Sound
    <2>2. Counted(Saved', Today')
      BY <1>1, <1>6 DEF Sound, Counted, Saved, MadeOn
    <2> QED
      BY <1>6, <2>1, <2>2 DEF Sound
  <1> QED
    BY <1>2, <1>5, <1>6, <1>7, <1>8, StepEnds

\* A revert brings back the state of the call, whose invariant the transfer kept.
LEMMA TransferRevertsStep ==
  ASSUME EvmInv, TransferReverts
  PROVE  EvmInv'
  <1>1. /\ Last \in Transfer /\ Last.before \in EvmState /\ Sound(Last.before, Today)
    BY InnermostTyped DEF TransferReverts
  <1>2. /\ Busy /\ Ended /\ clock' = clock
        /\ rules' = Last.before.rules /\ plans' = Last.before.plans
        /\ spending' = Last.before.spending /\ funds' = Last.before.funds
    BY DEF TransferReverts
  <1>3. transfers \in Seq(Transfer) /\ Len(transfers) \in Nat \ {0} /\ clock \in Nat
    BY <1>2 DEF EvmInv, EvmTypeOK, Busy
  <1>4. Saved' = Last.before /\ Today' = Today
    BY <1>1, <1>2 DEF Saved, EvmState, Today
  <1>5. EvmTypeOK'
    <2> DEFINE l == Len(transfers) - 1
    <2>1. l \in Nat /\ Len(transfers) = l + 1 /\ transfers' = SubSeq(transfers, 1, l)
      BY <1>2, <1>3 DEF Ended
    <2> HIDE DEF l
    <2>2. transfers' \in Seq(Transfer)
      BY <1>3, <2>1, AllButLast
    <2> QED
      BY <1>1, <1>2, <1>3, <2>2 DEF EvmState, EvmTypeOK
  <1>6. Settles(Last.before, Saved')
    BY <1>1, <1>4, SettlesItself DEF Sound
  <1> QED
    BY <1>1, <1>2, <1>4, <1>5, <1>6, StepEnds

\* Days pass only between transactions.
LEMMA EvmTickStep ==
  ASSUME EvmInv, EvmTick
  PROVE  EvmInv'
  <1>1. /\ transfers = <<>> /\ clock' = clock + 1 /\ clock \in Nat
        /\ UNCHANGED <<rules, plans, spending, funds, transfers>>
    BY DEF EvmTick, Busy, EvmInv, EvmTypeOK
  <1>2. EvmTypeOK'
    BY <1>1 DEF EvmInv, EvmTypeOK
  <1>3. Saved' = Saved
    BY <1>1 DEF Saved
  <1>4. Today \in Nat /\ Today' \in Nat /\ Today <= Today'
    <2>1. clock \in Nat /\ clock' \in Nat /\ clock <= clock'
      BY <1>1
    <2>2. /\ clock \div DayLength \in Nat /\ clock' \div DayLength \in Nat
          /\ clock \div DayLength <= clock' \div DayLength
      BY <2>1, Days
    <2> QED
      BY <2>2 DEF Today
  <1>5. Sound(Saved', Today')
    <2>1. Sound(Saved, Today) /\ Saved.spending.day \in Nat
      BY DEF EvmInv, EvmTypeOK, EvmSpending, Saved
    <2> QED
      BY <1>3, <1>4, <2>1 DEF Sound, Counted
  <1>6. Len(transfers') = 0
    BY <1>1
  <1> QED
    BY <1>2, <1>5, <1>6 DEF EvmInv

LEMMA EvmStarts == EvmInit => EvmInv
  <1> SUFFICES ASSUME EvmInit PROVE EvmInv
    OBVIOUS
  <1>1. /\ plans = [nonce |-> [u \in Depositors |-> 0], decisions |-> {}, revoked |-> {},
                    intents |-> {}, executed |-> {}]
        /\ spending = [spent |-> [o \in Operators |-> 0], day |-> 0]
        /\ funds = [balance |-> [u \in Depositors |-> [c \in Coins |-> 0]], consumed |-> {},
                    wallet |-> [u \in Depositors |-> [c \in Coins |-> Savings]],
                    paid |-> [u \in Depositors |-> [c \in Coins |-> 0]]]
        /\ transfers = <<>>
        /\ clock = DayLength
    BY DEF EvmInit
  <1>2. rules \in EvmRules
    <2>1. PICK o \in Operators, l \in Caps :
             rules = [paused |-> FALSE, agent |-> o, value |-> l.value, daily |-> l.daily,
                      allowed |-> {}, listed |-> FALSE, blocked |-> {}]
      BY DEF EvmInit
    <2>2. l.value \in Nat /\ l.daily \in Nat
      OBVIOUS
    <2> QED
      BY <2>1, <2>2 DEF EvmRules
  <1>3. plans \in EvmPlans /\ spending \in EvmSpending /\ clock \in Nat /\ transfers \in Seq(Transfer)
    BY <1>1 DEF EvmPlans, EvmSpending
  <1>4. funds \in EvmFunds
    BY <1>1 DEF EvmFunds
  <1>5. EvmTypeOK
    BY <1>2, <1>3, <1>4 DEF EvmTypeOK
  <1>6. /\ Saved.plans.intents = {} /\ Saved.funds.consumed = {} /\ Saved.spending.day = 0
        /\ \A o \in Operators : Saved.spending.spent[o] = 0
    BY <1>1 DEF Saved
  <1>7. Records(Saved)
    BY <1>6, FS_EmptySet DEF Records
  <1>8. Covered(Saved)
    <2>1. ASSUME NEW u \in Depositors, NEW c \in Coins
          PROVE  Held(Saved, u, c) = Savings /\ Saved.funds.paid[u][c] = 0 /\ Granted(Saved, u, c) = 0
      <3>1. Held(Saved, u, c) = Savings + 0 /\ Saved.funds.paid[u][c] = 0
        BY <1>1 DEF Held, Saved
      <3>2. {i \in Saved.funds.consumed : i.decision.user = u /\ i.coin = c} = {}
        BY <1>6
      <3>3. Granted(Saved, u, c) = 0
        BY <3>2, TotalOfNone, Zenon DEF Granted
      <3>4. Savings + 0 = Savings
        OBVIOUS
      <3> QED
        BY <3>1, <3>3, <3>4, Zenon
    <2> QED
      BY <2>1 DEF Covered
  <1>9. Counted(Saved, Today)
    <2>1. Today \in Nat
      BY <1>3, Days DEF Today
    <2>2. ASSUME NEW o \in Operators PROVE MadeOn(Saved, o, 0) = 0
      <3>1. {i \in Saved.plans.intents : i.by = o /\ i.day = 0} = {}
        BY <1>6
      <3> QED
        BY <3>1, TotalOfNone DEF MadeOn
    <2> QED
      BY <1>6, <2>1, <2>2 DEF Counted
  <1>10. Len(transfers) = 0
    BY <1>1
  <1> QED
    BY <1>5, <1>7, <1>8, <1>9, <1>10 DEF EvmInv, Sound

\* Every call on policy and vault, the token's moves and the passing of time.
LEMMA EvmStep ==
  ASSUME EvmInv, [EvmNext]_evmVars
  PROVE  EvmInv'
  <1>1. CASE PolicyCall
    BY <1>1, ConfigurationStep, DecideStep, MarkStep, MakePlanStep DEF PolicyCall, ConfigurationCall
  <1>2. CASE VaultCall
    BY <1>2, PutInStep, TakeOutStep DEF VaultCall
  <1>3. CASE TokenStep
    BY <1>3, TokenMovesStep, TransferReturnsStep, TransferRevertsStep DEF TokenStep
  <1>4. CASE EvmTick
    BY <1>4, EvmTickStep
  <1>5. CASE UNCHANGED evmVars
    <2>1. UNCHANGED <<rules, spending, funds, transfers, clock>> /\ plans' = plans /\ plans \in EvmPlans
      BY <1>5 DEF evmVars, EvmInv, EvmTypeOK
    <2> QED
      BY <2>1, DecisionStep
  <1> QED
    BY <1>1, <1>2, <1>3, <1>4, <1>5 DEF EvmNext

\* For any parameters and any depth of transfers within transfers, policy, vault and the
\* states kept for reverts have their types; no balance is negative.
THEOREM EvmTypeCorrect == EvmSpec => []EvmTypeOK
  <1>1. EvmInv => EvmTypeOK
    BY DEF EvmInv
  <1> QED
    BY <1>1, EvmStarts, EvmStep, PTL DEF EvmSpec

\* For any parameters, nobody has more in wallet and account than they brought, whatever the
\* token's code calls and whichever transfers revert.
THEOREM VaultSolvent == EvmSpec => []Solvent
  <1>1. EvmInv => Solvent
    BY DEF EvmInv, Sound, Covered, Held, Saved, Solvent
  <1> QED
    BY <1>1, EvmStarts, EvmStep, PTL DEF EvmSpec

\* For any parameters, what a user was paid is covered by the intents consumed for them.
THEOREM PaymentsWithinPlans == EvmSpec => []PaidWithinPlans
  <1>1. EvmInv => PaidWithinPlans
    BY DEF EvmInv, Sound, Covered, Granted, Saved, PaidWithinPlans
  <1> QED
    BY <1>1, EvmStarts, EvmStep, PTL DEF EvmSpec

\* What SpendsWithinDay says of a step.
SpendsToday ==
    \A i \in plans'.intents \ plans.intents :
        Total({j \in plans'.intents : j.by = i.by /\ j.day = i.day}) <= rules.daily

\* Only createIntent makes an intent: a revert brings back plans that had no more of them.
LEMMA SpendsTodayStep ==
  ASSUME EvmInv, [EvmNext]_evmVars
  PROVE  [SpendsToday]_evmVars
  <1>1. ASSUME NEW d \in plans.decisions, NEW i \in Offers(d), MakePlan(i) PROVE SpendsToday
    <2>1. /\ plans'.intents = plans.intents \cup {i} /\ Counted(Saved', Today)
          /\ i.by \in Operators /\ i.day = spending'.day /\ spending'.spent[i.by] <= rules.daily
          /\ EvmTypeOK' /\ rules \in EvmRules
      BY <1>1, MakePlanCounts DEF EvmInv, EvmTypeOK
    <2>2. MadeOn(Saved', i.by, i.day) <= spending'.spent[i.by]
      BY <2>1 DEF Counted, Saved
    <2>3. Saved' \in EvmState /\ Records(Saved')
      <3>1. EvmInv'
        BY <1>1, MakePlanStep
      <3> QED
        BY <3>1, SavedTyped DEF EvmInv, Sound, Saved, EvmState, EvmTypeOK
    <2>4. MadeOn(Saved', i.by, i.day) \in Nat
      BY <2>3, MadeTyped
    <2>5. spending'.spent[i.by] \in Nat /\ rules.daily \in Nat
      BY <2>1 DEF EvmTypeOK, EvmSpending, EvmRules
    <2>6. MadeOn(Saved', i.by, i.day) <= rules.daily
      BY <2>1, <2>2, <2>4, <2>5
    <2>7. Saved'.plans = plans'
      BY DEF Saved
    <2> QED
      BY <2>1, <2>6, <2>7 DEF MadeOn, SpendsToday
  <1>2. ASSUME plans'.intents \subseteq plans.intents PROVE SpendsToday
    BY <1>2 DEF SpendsToday
  <1>3. ASSUME NEW u \in Depositors, NEW n \in Sizes, NEW e \in Ahead, Decide(u, n, e)
        PROVE  plans'.intents = plans.intents
    BY <1>3 DEF Decide, Planned, EvmInv, EvmTypeOK, EvmPlans
  <1>4. ASSUME NEW i, ExecutePlan(i) \/ RevokePlan(i) \/ RevokeDecision(i)
        PROVE  plans'.intents = plans.intents
    BY <1>4 DEF ExecutePlan, RevokePlan, RevokeDecision, Planned, EvmInv, EvmTypeOK, EvmPlans
  <1>5. ASSUME TransferReverts PROVE plans'.intents \subseteq plans.intents
    <2>1. Underway(Last, Saved) /\ plans' = Last.before.plans
      BY <1>5, InnermostTyped DEF TransferReverts
    <2> QED
      BY <2>1 DEF Underway, Saved
  <1>6. CASE PolicyCall
    <2>1. ASSUME ConfigurationCall
          PROVE  SpendsToday
      BY <1>2, <2>1 DEF ConfigurationCall, SetAgent, SetCaps, SetHalted, AllowCoin, BlockCoin, Configure
    <2> QED
      BY <1>1, <1>2, <1>3, <1>4, <1>6, <2>1 DEF PolicyCall, ConfigurationCall
  <1>7. CASE VaultCall \/ TokenMoves \/ TransferReturns \/ EvmTick
    <2>1. plans' = plans
      BY <1>7 DEF VaultCall, PutIn, TakeOut, Calls, TokenMoves, TransferReturns, EvmTick
    <2> QED
      BY <1>2, <2>1
  <1> QED
    BY <1>2, <1>5, <1>6, <1>7 DEF EvmNext, TokenStep

\* For any parameters, the intents an agent makes on a day stay within the daily limit in force
\* when the last of them is made, whichever agents come between and whatever reverts.
THEOREM SpendingLimited == EvmSpec => SpendsWithinDay
  <1>1. [SpendsToday]_evmVars <=> [\A i \in plans'.intents \ plans.intents :
          Total({j \in plans'.intents : j.by = i.by /\ j.day = i.day}) <= rules.daily]_evmVars
    BY DEF SpendsToday
  <1> QED
    BY <1>1, EvmStarts, EvmStep, SpendsTodayStep, PTL DEF EvmSpec, SpendsWithinDay

=============================================================================
