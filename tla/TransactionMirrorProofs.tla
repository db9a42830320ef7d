------------------------ MODULE TransactionMirrorProofs ------------------------
(***************************************************************************)
(* Proofs that the table catches up with the memory, for any number of     *)
(* records, handlers, operations, failures, connections and restarts.  A   *)
(* restart empties the store but not the chain's memory of broadcasts, so  *)
(* of the lifecycle's invariant it keeps KInv only.                        *)
(*                                                                         *)
(* Then, of the watchlist, that what is removed or erased does not come    *)
(* back, for any number of entries, rescans, erasures and restarts.        *)
(*                                                                         *)
(* All of it is argued on one sequence, the chain followed by what waits   *)
(* for the connection: a call puts its operations into it, a connection    *)
(* leaves it as it is, and one that is given up cuts it.                   *)
(***************************************************************************)
EXTENDS TransactionMirror, Watchlist, TransactionLifecycleProofs

-----------------------------------------------------------------------------
(* Sequences of operations *)

Has(q, w) == \E n \in 1 .. Len(q) : q[n] = w

\* Every a has a b behind it.
Follows(q, a, b) == \A n \in 1 .. Len(q) : q[n] = a => \E m \in 1 .. Len(q) : m > n /\ q[m] = b

\* No a is behind a b.
Leads(q, a, b) == \A n, m \in 1 .. Len(q) : q[n] = b /\ q[m] = a => n >= m

\* The operations in the order in which they run if no other is called.
Line == queue \o waiting

LEMMA Concatenation ==
    ASSUME NEW S, NEW p \in Seq(S), NEW q \in Seq(S)
    PROVE  /\ p \o q \in Seq(S) /\ Len(p) \in Nat /\ Len(q) \in Nat
           /\ Len(p \o q) = Len(p) + Len(q)
           /\ \A n \in 1 .. Len(p) : n \in 1 .. Len(p \o q) /\ (p \o q)[n] = p[n]
           /\ \A n \in 1 .. Len(q) :
                 Len(p) + n \in 1 .. Len(p \o q) /\ (p \o q)[Len(p) + n] = q[n]
           /\ \A n \in 1 .. Len(p \o q) :
                 n \in 1 .. Len(p) \/ (n - Len(p) \in 1 .. Len(q) /\ n = Len(p) + (n - Len(p)))
  <1>1. /\ p \o q \in Seq(S) /\ Len(p) \in Nat /\ Len(q) \in Nat
        /\ Len(p \o q) = Len(p) + Len(q)
        /\ \A n \in 1 .. Len(p) : (p \o q)[n] = p[n]
        /\ \A n \in 1 .. Len(p) + Len(q) : n > Len(p) => (p \o q)[n] = q[n - Len(p)]
    OBVIOUS
  <1> DEFINE r == p \o q
             lp == Len(p)
             lq == Len(q)
             lr == Len(r)
  <1>2. /\ lp \in Nat /\ lq \in Nat /\ lr = lp + lq
        /\ \A n \in 1 .. lp : r[n] = p[n]
        /\ \A n \in 1 .. lp + lq : n > lp => r[n] = q[n - lp]
    BY <1>1
  <1> HIDE DEF r, lp, lq, lr
  <1>3. \A n \in 1 .. lp : n \in 1 .. lr /\ r[n] = p[n]
    BY <1>2
  <1>4. ASSUME NEW n \in 1 .. lq
        PROVE  lp + n \in 1 .. lr /\ r[lp + n] = q[n]
    <2>1. lp + n \in 1 .. lp + lq /\ lp + n > lp /\ (lp + n) - lp = n
      BY <1>2
    <2> QED
      BY <1>2, <2>1
  <1>5. \A n \in 1 .. lr : n \in 1 .. lp \/ (n - lp \in 1 .. lq /\ n = lp + (n - lp))
    BY <1>2
  <1> QED
    BY <1>1, <1>3, <1>4, <1>5 DEF r, lp, lq, lr

LEMMA JoinedHas ==
    ASSUME NEW S, NEW p \in Seq(S), NEW q \in Seq(S), NEW w
    PROVE  Has(p \o q, w) <=> Has(p, w) \/ Has(q, w)
  <1> DEFINE r == p \o q
             lp == Len(p)
             lq == Len(q)
             lr == Len(r)
  <1>1. /\ lp \in Nat /\ lq \in Nat /\ lr = lp + lq
        /\ \A n \in 1 .. lp : n \in 1 .. lr /\ r[n] = p[n]
        /\ \A n \in 1 .. lq : lp + n \in 1 .. lr /\ r[lp + n] = q[n]
        /\ \A n \in 1 .. lr : n \in 1 .. lp \/ (n - lp \in 1 .. lq /\ n = lp + (n - lp))
    BY Concatenation
  <1> HIDE DEF r, lp, lq, lr
  <1>2. ASSUME NEW n \in 1 .. lr, r[n] = w
        PROVE  (\E m \in 1 .. lp : p[m] = w) \/ \E m \in 1 .. lq : q[m] = w
    <2>1. CASE n \in 1 .. lp
      BY <1>1, <1>2, <2>1
    <2>2. CASE n - lp \in 1 .. lq /\ n = lp + (n - lp)
      <3>1. q[n - lp] = w
        BY <1>1, <1>2, <2>2
      <3> QED
        BY <2>2, <3>1
    <2> QED
      BY <1>1, <2>1, <2>2
  <1>3. (\E n \in 1 .. lp : p[n] = w) => \E n \in 1 .. lr : r[n] = w
    BY <1>1
  <1>4. (\E n \in 1 .. lq : q[n] = w) => \E n \in 1 .. lr : r[n] = w
    BY <1>1
  <1> QED
    BY <1>2, <1>3, <1>4 DEF Has, r, lp, lq, lr

LEMMA JoinedFollows ==
    ASSUME NEW S, NEW p \in Seq(S), NEW q \in Seq(S), NEW a, NEW b
    PROVE  Follows(p \o q, a, b) <=> (Follows(p, a, b) \/ Has(q, b)) /\ Follows(q, a, b)
  <1> DEFINE r == p \o q
             lp == Len(p)
             lq == Len(q)
             lr == Len(r)
  <1>1. /\ lp \in Nat /\ lq \in Nat /\ lr = lp + lq
        /\ \A n \in 1 .. lp : n \in 1 .. lr /\ r[n] = p[n]
        /\ \A n \in 1 .. lq : lp + n \in 1 .. lr /\ r[lp + n] = q[n]
        /\ \A n \in 1 .. lr : n \in 1 .. lp \/ (n - lp \in 1 .. lq /\ n = lp + (n - lp))
    BY Concatenation
  <1> HIDE DEF r, lp, lq, lr
  <1>2. ASSUME (\A n \in 1 .. lp : p[n] = a => \E m \in 1 .. lp : m > n /\ p[m] = b)
                  \/ \E m \in 1 .. lq : q[m] = b,
               \A n \in 1 .. lq : q[n] = a => \E m \in 1 .. lq : m > n /\ q[m] = b,
               NEW n \in 1 .. lr, r[n] = a
        PROVE  \E m \in 1 .. lr : m > n /\ r[m] = b
    <2>1. CASE n \in 1 .. lp
      <3>1. CASE \E m \in 1 .. lp : m > n /\ p[m] = b
        BY <1>1, <3>1
      <3>2. CASE \E m \in 1 .. lq : q[m] = b
        <4>1. PICK m \in 1 .. lq : q[m] = b
          BY <3>2
        <4>2. lp + m \in 1 .. lr /\ lp + m > n /\ r[lp + m] = b
          BY <1>1, <2>1, <4>1
        <4> QED
          BY <4>2
      <3> QED
        BY <1>1, <1>2, <2>1, <3>1, <3>2
    <2>2. CASE n - lp \in 1 .. lq /\ n = lp + (n - lp)
      <3>1. q[n - lp] = a
        BY <1>1, <1>2, <2>2
      <3>2. PICK m \in 1 .. lq : m > n - lp /\ q[m] = b
        BY <1>2, <2>2, <3>1
      <3>3. lp + m \in 1 .. lr /\ lp + m > n /\ r[lp + m] = b
        BY <1>1, <2>2, <3>2
      <3> QED
        BY <3>3
    <2> QED
      BY <1>1, <2>1, <2>2
  <1>3. ASSUME \A n \in 1 .. lr : r[n] = a => \E m \in 1 .. lr : m > n /\ r[m] = b,
               NEW n \in 1 .. lq, q[n] = a
        PROVE  \E m \in 1 .. lq : m > n /\ q[m] = b
    <2>1. lp + n \in 1 .. lr /\ r[lp + n] = a
      BY <1>1, <1>3
    <2>2. PICK m \in 1 .. lr : m > lp + n /\ r[m] = b
      BY <1>3, <2>1
    <2>3. m - lp \in 1 .. lq /\ m = lp + (m - lp) /\ m - lp > n
      BY <1>1, <2>2
    <2> QED
      BY <1>1, <2>2, <2>3
  <1>4. ASSUME \A n \in 1 .. lr : r[n] = a => \E m \in 1 .. lr : m > n /\ r[m] = b,
               ~\E m \in 1 .. lq : q[m] = b,
               NEW n \in 1 .. lp, p[n] = a
        PROVE  \E m \in 1 .. lp : m > n /\ p[m] = b
    <2>1. n \in 1 .. lr /\ r[n] = a
      BY <1>1, <1>4
    <2>2. PICK m \in 1 .. lr : m > n /\ r[m] = b
      BY <1>4, <2>1
    <2>3. m \in 1 .. lp
      BY <1>1, <1>4, <2>2
    <2> QED
      BY <1>1, <2>2, <2>3
  <1> QED
    BY <1>2, <1>3, <1>4 DEF Follows, Has, r, lp, lq, lr

LEMMA JoinedLeads ==
    ASSUME NEW S, NEW p \in Seq(S), NEW q \in Seq(S), NEW a, NEW b
    PROVE  Leads(p \o q, a, b)
              <=> Leads(p, a, b) /\ Leads(q, a, b) /\ ~(Has(p, b) /\ Has(q, a))
  <1> DEFINE r == p \o q
             lp == Len(p)
             lq == Len(q)
             lr == Len(r)
  <1>1. /\ lp \in Nat /\ lq \in Nat /\ lr = lp + lq
        /\ \A n \in 1 .. lp : n \in 1 .. lr /\ r[n] = p[n]
        /\ \A n \in 1 .. lq : lp + n \in 1 .. lr /\ r[lp + n] = q[n]
        /\ \A n \in 1 .. lr : n \in 1 .. lp \/ (n - lp \in 1 .. lq /\ n = lp + (n - lp))
    BY Concatenation
  <1> HIDE DEF r, lp, lq, lr
  <1>2. ASSUME \A n, m \in 1 .. lp : p[n] = b /\ p[m] = a => n >= m,
               \A n, m \in 1 .. lq : q[n] = b /\ q[m] = a => n >= m,
               ~((\E n \in 1 .. lp : p[n] = b) /\ \E m \in 1 .. lq : q[m] = a),
               NEW n \in 1 .. lr, NEW m \in 1 .. lr, r[n] = b, r[m] = a
        PROVE  n >= m
    <2>1. CASE n \in 1 .. lp /\ m \in 1 .. lp
      BY <1>1, <1>2, <2>1
    <2>2. CASE n \notin 1 .. lp /\ m \in 1 .. lp
      BY <1>1, <2>2
    <2>3. CASE n \in 1 .. lp /\ m \notin 1 .. lp
      BY <1>1, <1>2, <2>3
    <2>4. CASE n \notin 1 .. lp /\ m \notin 1 .. lp
      <3>1. n - lp \in 1 .. lq /\ m - lp \in 1 .. lq /\ n = lp + (n - lp) /\ m = lp + (m - lp)
        BY <1>1, <2>4
      <3>2. q[n - lp] = b /\ q[m - lp] = a
        BY <1>1, <1>2, <3>1
      <3>3. n - lp >= m - lp
        BY <1>2, <3>1, <3>2
      <3> QED
        BY <1>1, <3>3
    <2> QED
      BY <2>1, <2>2, <2>3, <2>4
  <1>3. ASSUME \A n, m \in 1 .. lr : r[n] = b /\ r[m] = a => n >= m
        PROVE  /\ \A n, m \in 1 .. lp : p[n] = b /\ p[m] = a => n >= m
               /\ \A n, m \in 1 .. lq : q[n] = b /\ q[m] = a => n >= m
               /\ ~((\E n \in 1 .. lp : p[n] = b) /\ \E m \in 1 .. lq : q[m] = a)
    <2>1. \A n, m \in 1 .. lp : p[n] = b /\ p[m] = a => n >= m
      BY <1>1, <1>3
    <2>2. ASSUME NEW n \in 1 .. lq, NEW m \in 1 .. lq, q[n] = b, q[m] = a
          PROVE  n >= m
      <3>1. lp + n >= lp + m
        BY <1>1, <1>3, <2>2
      <3> QED
        BY <1>1, <3>1
    <2>3. ASSUME NEW n \in 1 .. lp, p[n] = b, NEW m \in 1 .. lq, q[m] = a
          PROVE  FALSE
      <3>1. n >= lp + m
        BY <1>1, <1>3, <2>3
      <3> QED
        BY <1>1, <3>1
    <2> QED
      BY <2>1, <2>2, <2>3
  <1> QED
    BY <1>2, <1>3 DEF Leads, Has, r, lp, lq, lr

LEMMA Singletons ==
    ASSUME NEW w
    PROVE  /\ \A v : Has(<<w>>, v) <=> v = w
           /\ \A v : ~Has(<<>>, v)
           /\ \A a, b : Follows(<<w>>, a, b) <=> a # w
           /\ \A a, b : Follows(<<>>, a, b)
           /\ \A a, b : a # b => Leads(<<w>>, a, b)
           /\ \A a, b : Leads(<<>>, a, b)
  BY DEF Has, Follows, Leads

\* What a sequence says of its head and of the rest.
LEMMA Beheaded ==
    ASSUME NEW S, NEW q \in Seq(S), q # <<>>
    PROVE  /\ Tail(q) \in Seq(S) /\ Head(q) \in S /\ <<Head(q)>> \in Seq(S)
           /\ q = <<Head(q)>> \o Tail(q)
           /\ \A w : Has(q, w) <=> w = Head(q) \/ Has(Tail(q), w)
           /\ \A a, b : Follows(q, a, b)
                 <=> (a = Head(q) => Has(Tail(q), b)) /\ Follows(Tail(q), a, b)
           /\ \A a, b : Leads(q, a, b)
                 => Leads(Tail(q), a, b) /\ (b = Head(q) => ~Has(Tail(q), a))
  <1> DEFINE h == <<Head(q)>>
             t == Tail(q)
  <1>1. t \in Seq(S) /\ Head(q) \in S /\ h \in Seq(S) /\ q = h \o t
    OBVIOUS
  <1>2. /\ \A w : Has(h, w) <=> w = Head(q)
        /\ \A a, b : Follows(h, a, b) <=> a # Head(q)
    BY Singletons
  <1> HIDE DEF h, t
  <1>3. \A w : Has(h \o t, w) <=> Has(h, w) \/ Has(t, w)
    BY <1>1, JoinedHas
  <1>4. \A a, b : Follows(h \o t, a, b) <=> (Follows(h, a, b) \/ Has(t, b)) /\ Follows(t, a, b)
    BY <1>1, JoinedFollows
  <1>5. \A a, b : Leads(h \o t, a, b)
           <=> Leads(h, a, b) /\ Leads(t, a, b) /\ ~(Has(h, b) /\ Has(t, a))
    BY <1>1, JoinedLeads
  <1>6. /\ \A w : Has(q, w) <=> w = Head(q) \/ Has(t, w)
        /\ \A a, b : Follows(q, a, b) <=> (a = Head(q) => Has(t, b)) /\ Follows(t, a, b)
        /\ \A a, b : Leads(q, a, b) => Leads(t, a, b) /\ (b = Head(q) => ~Has(t, a))
    BY <1>1, <1>2, <1>3, <1>4, <1>5
  <1> QED
    BY <1>1, <1>6 DEF h, t

-----------------------------------------------------------------------------
(* The adapter's steps *)

LinkOK(S) ==
    /\ link \in {"down", "connecting", "migrating", "closing", "up"}
    /\ waiting \in Seq(S)
    /\ queue \in Seq(S)
    /\ link \in {"down", "up"} => waiting = <<>>

LEMMA LineHolds ==
    ASSUME NEW S, LinkOK(S)
    PROVE  /\ Line \in Seq(S)
           /\ \A w : IsPending(w) <=> Has(Line, w)
           /\ \A w : IsWaiting(w) <=> Has(waiting, w)
           /\ \A w : InQueue(w) <=> Has(queue, w)
  <1>1. waiting \in Seq(S) /\ queue \in Seq(S)
    BY DEF LinkOK
  <1>2. queue \o waiting \in Seq(S)
    BY <1>1, Concatenation
  <1>3. \A w : Has(queue \o waiting, w) <=> Has(queue, w) \/ Has(waiting, w)
    BY <1>1, JoinedHas
  <1> QED
    BY <1>2, <1>3 DEF Line, IsPending, IsWaiting, InQueue, Has

\* An operation that is called comes after all those in the chain, and after those
\* that wait too unless the connection counts as made.
LEMMA CallKeepsLine ==
    ASSUME NEW S, LinkOK(S), NEW work \in Seq(S), Call(work)
    PROVE  /\ LinkOK(S)'
           /\ \A w : Has(Line', w) <=> Has(Line, w) \/ Has(work, w)
           /\ \A a, b : ~Has(work, a) /\ Follows(Line, a, b) => Follows(Line', a, b)
           /\ \A a, b : ~Has(work, a) /\ ~Has(work, b) /\ Leads(Line, a, b) => Leads(Line', a, b)
           /\ \A a, b : work = <<b>> /\ a # b /\ ~(Ready /\ IsWaiting(a))
                 => Follows(Line', a, b) /\ (Leads(Line, a, b) => Leads(Line', a, b))
  <1> USE DEF Line
  <1>1. waiting \in Seq(S) /\ queue \in Seq(S)
    BY DEF LinkOK
  <1>2. /\ \A w : Has(queue \o waiting, w) <=> Has(queue, w) \/ Has(waiting, w)
        /\ \A a, b : Follows(queue \o waiting, a, b)
              <=> (Follows(queue, a, b) \/ Has(waiting, b)) /\ Follows(waiting, a, b)
        /\ \A a, b : Leads(queue \o waiting, a, b)
              <=> Leads(queue, a, b) /\ Leads(waiting, a, b) /\ ~(Has(queue, b) /\ Has(waiting, a))
    BY <1>1, JoinedHas, JoinedFollows, JoinedLeads
  <1>3. /\ \A a, b : ~Has(work, a) => Follows(work, a, b)
        /\ \A a, b : ~Has(work, a) => Leads(work, a, b)
    BY DEF Has, Follows, Leads
  <1>4. ASSUME NEW a, NEW b, work = <<b>>, a # b
        PROVE  Has(work, b) /\ ~Has(work, a) /\ Follows(work, a, b) /\ Leads(work, a, b)
    <2>1. Has(<<b>>, b) /\ ~Has(<<b>>, a) /\ Follows(<<b>>, a, b) /\ Leads(<<b>>, a, b)
      BY <1>4, Singletons
    <2> QED
      BY <1>4, <2>1
  <1>5. CASE Ready
    <2>1. queue' = queue \o work /\ waiting' = waiting /\ link' = link
      BY <1>5 DEF Call
    <2>2. queue \o work \in Seq(S)
      BY <1>1, Concatenation
    <2>3. /\ \A w : Has(queue \o work, w) <=> Has(queue, w) \/ Has(work, w)
          /\ \A a, b : Follows(queue \o work, a, b)
                <=> (Follows(queue, a, b) \/ Has(work, b)) /\ Follows(work, a, b)
          /\ \A a, b : Leads(queue \o work, a, b)
                <=> Leads(queue, a, b) /\ Leads(work, a, b) /\ ~(Has(queue, b) /\ Has(work, a))
      BY <1>1, JoinedHas, JoinedFollows, JoinedLeads
    <2>4. /\ \A w : Has(Line', w) <=> Has(queue \o work, w) \/ Has(waiting, w)
          /\ \A a, b : Follows(Line', a, b)
                <=> (Follows(queue \o work, a, b) \/ Has(waiting, b)) /\ Follows(waiting, a, b)
          /\ \A a, b : Leads(Line', a, b)
                <=> /\ Leads(queue \o work, a, b) /\ Leads(waiting, a, b)
                    /\ ~(Has(queue \o work, b) /\ Has(waiting, a))
      <3>1. Line' = (queue \o work) \o waiting
        BY <2>1
      <3> DEFINE front == queue \o work
      <3>2. front \in Seq(S) /\ Line' = front \o waiting
        BY <2>2, <3>1
      <3> HIDE DEF front, Line
      <3>3. /\ \A w : Has(Line', w) <=> Has(front, w) \/ Has(waiting, w)
            /\ \A a, b : Follows(Line', a, b)
                  <=> (Follows(front, a, b) \/ Has(waiting, b)) /\ Follows(waiting, a, b)
            /\ \A a, b : Leads(Line', a, b)
                  <=> Leads(front, a, b) /\ Leads(waiting, a, b) /\ ~(Has(front, b) /\ Has(waiting, a))
        BY <1>1, <3>2, JoinedHas, JoinedFollows, JoinedLeads
      <3> QED
        BY <3>3 DEF front
    <2>5. \A a, b : ~IsWaiting(a) => ~Has(waiting, a) /\ Follows(waiting, a, b)
                                        /\ Leads(waiting, a, b)
      BY DEF IsWaiting, Has, Follows, Leads
    <2>6. LinkOK(S)'
      BY <2>1, <2>2 DEF LinkOK
    <2>7. \A w : Has(Line', w) <=> Has(Line, w) \/ Has(work, w)
      BY <1>2, <2>3, <2>4
    <2>8. \A a, b : ~Has(work, a) /\ Follows(Line, a, b) => Follows(Line', a, b)
      BY <1>2, <1>3, <2>3, <2>4
    <2>9. \A a, b : ~Has(work, a) /\ ~Has(work, b) /\ Leads(Line, a, b) => Leads(Line', a, b)
      BY <1>2, <1>3, <2>3, <2>4
    <2>10. ASSUME NEW a, NEW b, work = <<b>>, a # b, ~IsWaiting(a)
           PROVE  Follows(Line', a, b) /\ (Leads(Line, a, b) => Leads(Line', a, b))
      BY <1>2, <1>4, <2>3, <2>4, <2>5, <2>10
    <2> QED
      BY <1>5, <2>6, <2>7, <2>8, <2>9, <2>10
  <1>6. CASE ~Ready
    <2>1. /\ queue' = queue /\ waiting' = waiting \o work
          /\ link' = IF link = "down" THEN "connecting" ELSE link
      BY <1>6 DEF Call
    <2>2. waiting \o work \in Seq(S)
      BY <1>1, Concatenation
    <2>3. /\ \A w : Has(waiting \o work, w) <=> Has(waiting, w) \/ Has(work, w)
          /\ \A a, b : Follows(waiting \o work, a, b)
                <=> (Follows(waiting, a, b) \/ Has(work, b)) /\ Follows(work, a, b)
          /\ \A a, b : Leads(waiting \o work, a, b)
                <=> Leads(waiting, a, b) /\ Leads(work, a, b) /\ ~(Has(waiting, b) /\ Has(work, a))
      BY <1>1, JoinedHas, JoinedFollows, JoinedLeads
    <2>4. /\ \A w : Has(Line', w) <=> Has(queue, w) \/ Has(waiting \o work, w)
          /\ \A a, b : Follows(Line', a, b)
                <=> (Follows(queue, a, b) \/ Has(waiting \o work, b)) /\ Follows(waiting \o work, a, b)
          /\ \A a, b : Leads(Line', a, b)
                <=> /\ Leads(queue, a, b) /\ Leads(waiting \o work, a, b)
                    /\ ~(Has(queue, b) /\ Has(waiting \o work, a))
      BY <1>1, <2>1, <2>2, JoinedHas, JoinedFollows, JoinedLeads
    <2>5. LinkOK(S)'
      BY <1>6, <2>1, <2>2 DEF LinkOK, Ready
    <2>6. \A w : Has(Line', w) <=> Has(Line, w) \/ Has(work, w)
      BY <1>2, <2>3, <2>4
    <2>7. \A a, b : ~Has(work, a) /\ Follows(Line, a, b) => Follows(Line', a, b)
      BY <1>2, <1>3, <2>3, <2>4
    <2>8. \A a, b : ~Has(work, a) /\ ~Has(work, b) /\ Leads(Line, a, b) => Leads(Line', a, b)
      BY <1>2, <1>3, <2>3, <2>4
    <2>9. ASSUME NEW a, NEW b, work = <<b>>, a # b
          PROVE  Follows(Line', a, b) /\ (Leads(Line, a, b) => Leads(Line', a, b))
      BY <1>2, <1>4, <2>3, <2>4, <2>9
    <2> QED
      BY <2>5, <2>6, <2>7, <2>8, <2>9
  <1> QED
    BY <1>5, <1>6

\* The first operation of the line runs.
LEMMA RunsKeepLine ==
    ASSUME NEW S, LinkOK(S), NEW v, Runs(v)
    PROVE  /\ LinkOK(S)' /\ v \in S
           /\ queue # <<>> /\ Head(queue) = v
           /\ \A w : Has(Line, w) <=> w = v \/ Has(Line', w)
           /\ \A a, b : Follows(Line, a, b)
                 => Follows(Line', a, b) /\ (a = v => Has(Line', b))
           /\ \A a, b : Leads(Line, a, b)
                 => Leads(Line', a, b) /\ (b = v => ~Has(Line', a))
  <1> USE DEF Line
  <1>1. /\ waiting \in Seq(S) /\ queue \in Seq(S)
        /\ queue # <<>> /\ Head(queue) = v
        /\ queue' = Tail(queue) /\ waiting' = waiting /\ link' = link
    BY DEF LinkOK, Runs
  <1>2. /\ queue' \in Seq(S) /\ v \in S
        /\ \A w : Has(queue, w) <=> w = v \/ Has(queue', w)
        /\ \A a, b : Follows(queue, a, b) <=> (a = v => Has(queue', b)) /\ Follows(queue', a, b)
        /\ \A a, b : Leads(queue, a, b) => Leads(queue', a, b) /\ (b = v => ~Has(queue', a))
    BY <1>1, Beheaded
  <1>3. /\ \A w : Has(queue \o waiting, w) <=> Has(queue, w) \/ Has(waiting, w)
        /\ \A a, b : Follows(queue \o waiting, a, b)
              <=> (Follows(queue, a, b) \/ Has(waiting, b)) /\ Follows(waiting, a, b)
        /\ \A a, b : Leads(queue \o waiting, a, b)
              <=> Leads(queue, a, b) /\ Leads(waiting, a, b) /\ ~(Has(queue, b) /\ Has(waiting, a))
    BY <1>1, JoinedHas, JoinedFollows, JoinedLeads
  <1>4. /\ \A w : Has(Line', w) <=> Has(queue', w) \/ Has(waiting, w)
        /\ \A a, b : Follows(Line', a, b)
              <=> (Follows(queue', a, b) \/ Has(waiting, b)) /\ Follows(waiting, a, b)
        /\ \A a, b : Leads(Line', a, b)
              <=> Leads(queue', a, b) /\ Leads(waiting, a, b) /\ ~(Has(queue', b) /\ Has(waiting, a))
    BY <1>1, <1>2, JoinedHas, JoinedFollows, JoinedLeads
  <1>5. LinkOK(S)'
    BY <1>1, <1>2 DEF LinkOK
  <1>6. \A w : Has(Line, w) <=> w = v \/ Has(Line', w)
    BY <1>2, <1>3, <1>4
  <1>7. \A a, b : Follows(Line, a, b) => Follows(Line', a, b) /\ (a = v => Has(Line', b))
    BY <1>2, <1>3, <1>4
  <1>8. \A a, b : Leads(Line, a, b) => Leads(Line', a, b) /\ (b = v => ~Has(Line', a))
    BY <1>2, <1>3, <1>4
  <1> QED
    BY <1>1, <1>2, <1>5, <1>6, <1>7, <1>8

\* The connection's steps, and a call without an operation, leave the line as it is.
LEMMA ConnectionKeepsLine ==
    ASSUME NEW S, LinkOK(S), Connects \/ Migrated \/ MigrationFails \/ Call(<<>>)
    PROVE  LinkOK(S)' /\ Line' = Line
  <1>1. waiting \in Seq(S) /\ queue \in Seq(S)
    BY DEF LinkOK
  <1>2. CASE Connects \/ MigrationFails
    BY <1>2 DEF Connects, MigrationFails, LinkOK, Line
  <1>3. CASE Migrated
    <2>1. (queue \o waiting) \o <<>> = queue \o waiting /\ queue \o waiting \in Seq(S)
      BY <1>1
    <2> QED
      BY <1>3, <2>1 DEF Migrated, LinkOK, Line
  <1>4. CASE Call(<<>>)
    <2>1. queue \o <<>> = queue /\ waiting \o <<>> = waiting
      BY <1>1
    <2> QED
      BY <1>4, <2>1 DEF Call, Ready, LinkOK, Line
  <1> QED
    BY <1>2, <1>3, <1>4

\* A connection that is given up takes the end of the line with it.
LEMMA GivesUpKeepsLine ==
    ASSUME NEW S, LinkOK(S), GivesUp
    PROVE  /\ LinkOK(S)'
           /\ \A w : Has(Line, w) <=> Has(Line', w) \/ IsWaiting(w)
           /\ \A a, b : Follows(Line, a, b) /\ ~IsWaiting(b) => Follows(Line', a, b)
           /\ \A a, b : Leads(Line, a, b) => Leads(Line', a, b)
  <1>1. waiting \in Seq(S) /\ queue \in Seq(S)
    BY DEF LinkOK
  <1>2. /\ \A w : Has(Line, w) <=> Has(queue, w) \/ Has(waiting, w)
        /\ \A a, b : Follows(Line, a, b)
              <=> (Follows(queue, a, b) \/ Has(waiting, b)) /\ Follows(waiting, a, b)
        /\ \A a, b : Leads(Line, a, b)
              <=> Leads(queue, a, b) /\ Leads(waiting, a, b) /\ ~(Has(queue, b) /\ Has(waiting, a))
    BY <1>1, JoinedHas, JoinedFollows, JoinedLeads DEF Line
  <1>3. Line' = queue
    <2>1. queue \o <<>> = queue
      BY <1>1
    <2> QED
      BY <2>1 DEF GivesUp, Line
  <1>4. LinkOK(S)'
    BY <1>1 DEF GivesUp, LinkOK
  <1>5. \A w : IsWaiting(w) <=> Has(waiting, w)
    BY DEF IsWaiting, Has
  <1> QED
    BY <1>2, <1>3, <1>4, <1>5

\* A process that starts has the hydration before it, and nothing else.
LEMMA StartsLine ==
    ASSUME NEW S, Hydration \in S
    PROVE  /\ AdapterInit =>
                 /\ LinkOK(S)
                 /\ \A w : Has(Line, w) <=> w = Hydration
                 /\ \A a, b : a # Hydration => Follows(Line, a, b) /\ Leads(Line, a, b)
           /\ Restarted =>
                 /\ LinkOK(S)'
                 /\ \A w : Has(Line', w) <=> w = Hydration
                 /\ \A a, b : a # Hydration => Follows(Line', a, b) /\ Leads(Line', a, b)
  <1>1. <<>> \o <<Hydration>> = <<Hydration>> /\ <<Hydration>> \in Seq(S) /\ <<>> \in Seq(S)
    OBVIOUS
  <1>2. /\ \A w : Has(<<Hydration>>, w) <=> w = Hydration
        /\ \A a, b : a # Hydration => Follows(<<Hydration>>, a, b)
        /\ \A a, b : a # Hydration => Leads(<<Hydration>>, a, b)
    BY DEF Has, Follows, Leads
  <1>3. AdapterInit => Line = <<Hydration>> /\ LinkOK(S)
    BY <1>1 DEF AdapterInit, LinkOK, Line
  <1>4. Restarted => Line' = <<Hydration>> /\ LinkOK(S)'
    BY <1>1 DEF Restarted, LinkOK, Line
  <1> QED
    BY <1>2, <1>3, <1>4
-----------------------------------------------------------------------------
(* Writes of a record *)

Operation == Write \cup {Hydration}

IsWriteOf(w, i) == w # Hydration /\ w.id = i

\* The last write of i, if there is one, has the row r.
EndsWith(q, i, r) ==
    \A n \in 1 .. Len(q) :
        IsWriteOf(q[n], i) /\ (\A m \in 1 .. Len(q) : m > n => ~IsWriteOf(q[m], i)) => q[n].row = r

LEMMA JoinedWrites ==
    ASSUME NEW p \in Seq(Operation), NEW q \in Seq(Operation)
    PROVE  Written(p \o q) = Written(p) \cup Written(q)
  <1> DEFINE r == p \o q
             lp == Len(p)
             lq == Len(q)
             lr == Len(r)
  <1>1. /\ lp \in Nat /\ lq \in Nat /\ lr = lp + lq
        /\ \A n \in 1 .. lp : n \in 1 .. lr /\ r[n] = p[n]
        /\ \A n \in 1 .. lq : lp + n \in 1 .. lr /\ r[lp + n] = q[n]
        /\ \A n \in 1 .. lr : n \in 1 .. lp \/ (n - lp \in 1 .. lq /\ n = lp + (n - lp))
    BY Concatenation
  <1> HIDE DEF r, lp, lq, lr
  <1>2. ASSUME NEW i, NEW n \in 1 .. lr, IsWriteOf(r[n], i)
        PROVE  (\E m \in 1 .. lp : IsWriteOf(p[m], i)) \/ \E m \in 1 .. lq : IsWriteOf(q[m], i)
    <2>1. CASE n \in 1 .. lp
      BY <1>1, <1>2, <2>1
    <2>2. CASE n - lp \in 1 .. lq /\ n = lp + (n - lp)
      <3>1. q[n - lp] = r[n]
        BY <1>1, <2>2
      <3> QED
        BY <1>2, <2>2, <3>1
    <2> QED
      BY <1>1, <2>1, <2>2
  <1>3. \A i : (\E n \in 1 .. lp : IsWriteOf(p[n], i)) => \E n \in 1 .. lr : IsWriteOf(r[n], i)
    BY <1>1
  <1>4. \A i : (\E n \in 1 .. lq : IsWriteOf(q[n], i)) => \E n \in 1 .. lr : IsWriteOf(r[n], i)
    BY <1>1
  <1>5. \A i : (\E n \in 1 .. lr : IsWriteOf(r[n], i))
           <=> (\E n \in 1 .. lp : IsWriteOf(p[n], i)) \/ \E n \in 1 .. lq : IsWriteOf(q[n], i)
    BY <1>2, <1>3, <1>4
  <1> QED
    BY <1>5 DEF Written, IsWriteOf, r, lp, lq, lr

\* The last write of a concatenation is that of its second part, if it has one.
LEMMA JoinedEnds ==
    ASSUME NEW p \in Seq(Operation), NEW q \in Seq(Operation), NEW i \in Ids, NEW row
    PROVE  EndsWith(p \o q, i, row)
              <=> EndsWith(q, i, row) /\ (i \in Written(q) \/ EndsWith(p, i, row))
  <1> DEFINE r == p \o q
             lp == Len(p)
             lq == Len(q)
             lr == Len(r)
  <1>1. /\ lp \in Nat /\ lq \in Nat /\ lr = lp + lq
        /\ \A n \in 1 .. lp : n \in 1 .. lr /\ r[n] = p[n]
        /\ \A n \in 1 .. lq : lp + n \in 1 .. lr /\ r[lp + n] = q[n]
        /\ \A n \in 1 .. lr : n \in 1 .. lp \/ (n - lp \in 1 .. lq /\ n = lp + (n - lp))
    BY Concatenation
  <1> DEFINE Last(s, l, n) == IsWriteOf(s[n], i) /\ \A m \in 1 .. l : m > n => ~IsWriteOf(s[m], i)
             Some == \E m \in 1 .. lq : IsWriteOf(q[m], i)
  <1> HIDE DEF r, lp, lq, lr
  <1>2. ASSUME NEW n \in 1 .. lq
        PROVE  Last(r, lr, lp + n) <=> Last(q, lq, n)
    <2>1. lp + n \in 1 .. lr /\ r[lp + n] = q[n]
      BY <1>1
    <2>2. ASSUME NEW m \in 1 .. lr, m > lp + n
          PROVE  m - lp \in 1 .. lq /\ m - lp > n /\ r[m] = q[m - lp]
      <3>1. m - lp \in 1 .. lq /\ m - lp > n /\ m = lp + (m - lp)
        BY <1>1, <2>2
      <3> QED
        BY <1>1, <3>1
    <2>3. ASSUME NEW m \in 1 .. lq, m > n
          PROVE  lp + m \in 1 .. lr /\ lp + m > lp + n /\ r[lp + m] = q[m]
      BY <1>1, <2>3
    <2> QED
      BY <2>1, <2>2, <2>3
  <1>3. ASSUME NEW n \in 1 .. lp
        PROVE  Last(r, lr, n) <=> Last(p, lp, n) /\ ~Some
    <2>1. n \in 1 .. lr /\ r[n] = p[n]
      BY <1>1
    <2>2. ASSUME NEW m \in 1 .. lq
          PROVE  lp + m \in 1 .. lr /\ lp + m > n /\ r[lp + m] = q[m]
      BY <1>1
    <2>3. ASSUME NEW m \in 1 .. lr
          PROVE  \/ m \in 1 .. lp /\ r[m] = p[m]
                 \/ m - lp \in 1 .. lq /\ r[m] = q[m - lp]
      BY <1>1
    <2>4. \A m \in 1 .. lp : m \in 1 .. lr /\ r[m] = p[m]
      BY <1>1
    <2> QED
      BY <2>1, <2>2, <2>3, <2>4
  <1>4. (\A n \in 1 .. lr : Last(r, lr, n) => r[n].row = row)
           <=> /\ \A n \in 1 .. lq : Last(q, lq, n) => q[n].row = row
               /\ Some \/ \A n \in 1 .. lp : Last(p, lp, n) => p[n].row = row
    <2>1. \A n \in 1 .. lr : \/ n \in 1 .. lp
                             \/ n - lp \in 1 .. lq /\ n = lp + (n - lp)
      BY <1>1
    <2>2. \A n \in 1 .. lp : n \in 1 .. lr /\ r[n] = p[n]
      BY <1>1
    <2>3. \A n \in 1 .. lq : lp + n \in 1 .. lr /\ r[lp + n] = q[n]
      BY <1>1
    <2> HIDE DEF Last, Some
    <2>4. ASSUME \A n \in 1 .. lr : Last(r, lr, n) => r[n].row = row
          PROVE  /\ \A n \in 1 .. lq : Last(q, lq, n) => q[n].row = row
                 /\ Some \/ \A n \in 1 .. lp : Last(p, lp, n) => p[n].row = row
      <3>1. ASSUME NEW n \in 1 .. lq, Last(q, lq, n)
            PROVE  q[n].row = row
        <4>1. Last(r, lr, lp + n)
          BY <1>2, <3>1
        <4> QED
          BY <2>3, <2>4, <4>1
      <3>2. ASSUME ~Some, NEW n \in 1 .. lp, Last(p, lp, n)
            PROVE  p[n].row = row
        <4>1. Last(r, lr, n)
          BY <1>3, <3>2
        <4> QED
          BY <2>2, <2>4, <4>1
      <3> QED
        BY <3>1, <3>2
    <2>5. ASSUME \A n \in 1 .. lq : Last(q, lq, n) => q[n].row = row,
                 Some \/ \A n \in 1 .. lp : Last(p, lp, n) => p[n].row = row,
                 NEW n \in 1 .. lr, Last(r, lr, n)
          PROVE  r[n].row = row
      <3>1. CASE n \in 1 .. lp
        <4>1. Last(p, lp, n) /\ ~Some
          BY <1>3, <2>5, <3>1
        <4> QED
          BY <2>2, <2>5, <3>1, <4>1
      <3>2. CASE n - lp \in 1 .. lq /\ n = lp + (n - lp)
        <4>1. PICK k \in 1 .. lq : n = lp + k
          BY <3>2
        <4>2. Last(q, lq, k)
          BY <1>2, <2>5, <4>1
        <4>3. q[k].row = row /\ r[n] = q[k]
          BY <2>3, <2>5, <4>1, <4>2
        <4> QED
          BY <4>3
      <3> QED
        BY <2>1, <3>1, <3>2
    <2> QED
      BY <2>4, <2>5
  <1>5. i \in Written(q) <=> Some
    BY DEF Written, IsWriteOf, lq
  <1> QED
    BY <1>4, <1>5 DEF EndsWith, r, lp, lq, lr

LEMMA SingleWrite ==
    ASSUME NEW w \in Operation, NEW i \in Ids
    PROVE  /\ i \in Written(<<w>>) <=> IsWriteOf(w, i)
           /\ \A r : EndsWith(<<w>>, i, r) <=> (IsWriteOf(w, i) => w.row = r)
           /\ i \notin Written(<<>>)
           /\ \A r : EndsWith(<<>>, i, r)
  BY DEF Written, EndsWith, IsWriteOf

\* Without a write of i there is no last one.
LEMMA NoWriteEnds ==
    ASSUME NEW q \in Seq(Operation), NEW i \in Ids, i \notin Written(q)
    PROVE  \A r : EndsWith(q, i, r)
  BY DEF Written, EndsWith, IsWriteOf

-----------------------------------------------------------------------------
(* The adapter's steps and the last writes *)

LEMMA LineWrites == LinkOK(Operation) => \A i \in Ids : Unwritten(i) <=> i \in Written(Line)
  <1> SUFFICES ASSUME LinkOK(Operation)
               PROVE  \A i \in Ids : Unwritten(i) <=> i \in Written(Line)
    OBVIOUS
  <1>1. waiting \in Seq(Operation) /\ queue \in Seq(Operation)
    BY DEF LinkOK
  <1>2. Written(queue \o waiting) = Written(queue) \cup Written(waiting)
    BY <1>1, JoinedWrites
  <1> QED
    BY <1>2 DEF Line, Unwritten

LEMMA LineWritesNext ==
    (LinkOK(Operation) => \A i \in Ids : Unwritten(i) <=> i \in Written(Line))'
  BY LineWrites, PTL

\* A write that is called is the last of its record, unless an older one waits
\* while the connection counts as made.
LEMMA CallEnds ==
    ASSUME LinkOK(Operation), NEW w \in Write, Call(<<w>>)
    PROVE  /\ Written(Line') = Written(Line) \cup {w.id}
           /\ \A j \in Ids : \A r : j # w.id /\ EndsWith(Line, j, r) => EndsWith(Line', j, r)
           /\ ~(Ready /\ w.id \in Written(waiting)) => EndsWith(Line', w.id, w.row)
  <1>1. waiting \in Seq(Operation) /\ queue \in Seq(Operation)
    BY DEF LinkOK
  <1> DEFINE work == <<w>>
  <1>2. /\ w \in Operation /\ w # Hydration /\ w.id \in Ids /\ work \in Seq(Operation)
    BY HydrationAssumption DEF Operation, Write
  <1>3. /\ Written(work) = {w.id}
        /\ \A j \in Ids : \A r : j # w.id => EndsWith(work, j, r)
        /\ EndsWith(work, w.id, w.row)
    <2>1. \A j \in Ids : IsWriteOf(w, j) <=> j = w.id
      BY <1>2 DEF IsWriteOf
    <2>2. \A j \in Ids : /\ j \in Written(work) <=> IsWriteOf(w, j)
                         /\ \A r : EndsWith(work, j, r) <=> (IsWriteOf(w, j) => w.row = r)
      BY <1>2, SingleWrite
    <2>3. Written(work) \subseteq Ids
      BY DEF Written
    <2> HIDE DEF work
    <2> QED
      BY <1>2, <2>1, <2>2, <2>3
  <1>4. Call(work)
    OBVIOUS
  <1> HIDE DEF work
  <1>5. /\ Written(queue \o waiting) = Written(queue) \cup Written(waiting)
        /\ \A j \in Ids : \A r : EndsWith(queue \o waiting, j, r)
              <=> EndsWith(waiting, j, r) /\ (j \in Written(waiting) \/ EndsWith(queue, j, r))
    BY <1>1, JoinedWrites, JoinedEnds
  <1>6. CASE Ready
    <2> DEFINE front == queue \o work
    <2>1. Line' = front \o waiting
      BY <1>4, <1>6 DEF Call, Line
    <2>2. front \in Seq(Operation)
      BY <1>1, <1>2, Concatenation
    <2>3. /\ Written(front) = Written(queue) \cup Written(work)
          /\ \A j \in Ids : \A r : EndsWith(front, j, r)
                <=> EndsWith(work, j, r) /\ (j \in Written(work) \/ EndsWith(queue, j, r))
      BY <1>1, <1>2, JoinedWrites, JoinedEnds
    <2> HIDE DEF front
    <2>4. /\ Written(Line') = Written(front) \cup Written(waiting)
          /\ \A j \in Ids : \A r : EndsWith(Line', j, r)
                <=> EndsWith(waiting, j, r) /\ (j \in Written(waiting) \/ EndsWith(front, j, r))
      BY <1>1, <2>1, <2>2, JoinedWrites, JoinedEnds
    <2>5. Written(Line') = Written(Line) \cup {w.id}
      BY <1>3, <1>5, <2>3, <2>4 DEF Line
    <2>6. \A j \in Ids : \A r : j # w.id /\ EndsWith(Line, j, r) => EndsWith(Line', j, r)
      BY <1>3, <1>5, <2>3, <2>4 DEF Line
    <2>7. w.id \notin Written(waiting) => EndsWith(Line', w.id, w.row)
      BY <1>1, <1>2, <1>3, <2>3, <2>4, NoWriteEnds
    <2> QED
      BY <1>6, <2>5, <2>6, <2>7
  <1>7. CASE ~Ready
    <2> DEFINE back == waiting \o work
    <2>1. Line' = queue \o back
      BY <1>4, <1>7 DEF Call, Line
    <2>2. back \in Seq(Operation)
      BY <1>1, <1>2, Concatenation
    <2>3. /\ Written(back) = Written(waiting) \cup Written(work)
          /\ \A j \in Ids : \A r : EndsWith(back, j, r)
                <=> EndsWith(work, j, r) /\ (j \in Written(work) \/ EndsWith(waiting, j, r))
      BY <1>1, <1>2, JoinedWrites, JoinedEnds
    <2> HIDE DEF back
    <2>4. /\ Written(Line') = Written(queue) \cup Written(back)
          /\ \A j \in Ids : \A r : EndsWith(Line', j, r)
                <=> EndsWith(back, j, r) /\ (j \in Written(back) \/ EndsWith(queue, j, r))
      BY <1>1, <2>1, <2>2, JoinedWrites, JoinedEnds
    <2>5. Written(Line') = Written(Line) \cup {w.id}
      BY <1>3, <1>5, <2>3, <2>4 DEF Line
    <2>6. \A j \in Ids : \A r : j # w.id /\ EndsWith(Line, j, r) => EndsWith(Line', j, r)
      BY <1>3, <1>5, <2>3, <2>4 DEF Line
    <2>7. EndsWith(Line', w.id, w.row)
      BY <1>2, <1>3, <2>3, <2>4
    <2> QED
      BY <2>5, <2>6, <2>7
  <1> QED
    BY <1>6, <1>7

\* The operation that runs was the first of all.
LEMMA RunsEnds ==
    ASSUME LinkOK(Operation), NEW v, Runs(v)
    PROVE  /\ v \in Operation
           /\ \A j \in Ids : j \in Written(Line) <=> IsWriteOf(v, j) \/ j \in Written(Line')
           /\ \A j \in Ids : \A r : EndsWith(Line, j, r) =>
                 /\ EndsWith(Line', j, r)
                 /\ IsWriteOf(v, j) /\ j \notin Written(Line') => v.row = r
  <1>1. /\ waiting \in Seq(Operation) /\ queue \in Seq(Operation)
        /\ queue # <<>> /\ Head(queue) = v
        /\ queue' = Tail(queue) /\ waiting' = waiting
    BY DEF LinkOK, Runs
  <1> DEFINE h == <<v>>
             t == Tail(queue)
  <1>2. v \in Operation /\ h \in Seq(Operation) /\ t \in Seq(Operation) /\ queue = h \o t
    BY <1>1, Beheaded
  <1>3. \A j \in Ids : /\ j \in Written(h) <=> IsWriteOf(v, j)
                       /\ \A r : EndsWith(h, j, r) <=> (IsWriteOf(v, j) => v.row = r)
    BY <1>2, SingleWrite
  <1>4. Line' = t \o waiting /\ Line = queue \o waiting
    BY <1>1 DEF Line
  <1> HIDE DEF h, t
  <1>5. /\ Written(h \o t) = Written(h) \cup Written(t)
        /\ \A j \in Ids : \A r : EndsWith(h \o t, j, r)
              <=> EndsWith(t, j, r) /\ (j \in Written(t) \/ EndsWith(h, j, r))
    BY <1>2, JoinedWrites, JoinedEnds
  <1>6. /\ Written(queue \o waiting) = Written(queue) \cup Written(waiting)
        /\ \A j \in Ids : \A r : EndsWith(queue \o waiting, j, r)
              <=> EndsWith(waiting, j, r) /\ (j \in Written(waiting) \/ EndsWith(queue, j, r))
    BY <1>1, JoinedWrites, JoinedEnds
  <1>7. /\ Written(t \o waiting) = Written(t) \cup Written(waiting)
        /\ \A j \in Ids : \A r : EndsWith(t \o waiting, j, r)
              <=> EndsWith(waiting, j, r) /\ (j \in Written(waiting) \/ EndsWith(t, j, r))
    BY <1>1, <1>2, JoinedWrites, JoinedEnds
  <1>8. \A j \in Ids : j \in Written(Line) <=> IsWriteOf(v, j) \/ j \in Written(Line')
    BY <1>2, <1>3, <1>4, <1>5, <1>6, <1>7
  <1>9. ASSUME NEW j \in Ids, NEW r, EndsWith(Line, j, r)
        PROVE  /\ EndsWith(Line', j, r)
               /\ IsWriteOf(v, j) /\ j \notin Written(Line') => v.row = r
    BY <1>2, <1>3, <1>4, <1>5, <1>6, <1>7, <1>9
  <1> QED
    BY <1>2, <1>8, <1>9

\* What a connection that is given up leaves in the chain may end with an older write.
LEMMA GivesUpEnds ==
    ASSUME LinkOK(Operation), GivesUp
    PROVE  /\ Written(Line) = Written(Line') \cup Written(waiting)
           /\ \A j \in Ids \ (Written(waiting) \cap Written(queue)) : \A r :
                 EndsWith(Line, j, r) => EndsWith(Line', j, r)
  <1>1. waiting \in Seq(Operation) /\ queue \in Seq(Operation)
    BY DEF LinkOK
  <1>2. Line' = queue
    <2>1. queue \o <<>> = queue
      BY <1>1
    <2> QED
      BY <2>1 DEF GivesUp, Line
  <1>3. /\ Written(Line) = Written(queue) \cup Written(waiting)
        /\ \A j \in Ids : \A r : EndsWith(Line, j, r)
              <=> EndsWith(waiting, j, r) /\ (j \in Written(waiting) \/ EndsWith(queue, j, r))
    BY <1>1, JoinedWrites, JoinedEnds DEF Line
  <1>4. \A j \in Ids : \A r : j \notin Written(queue) => EndsWith(queue, j, r)
    BY <1>1, NoWriteEnds
  <1> QED
    BY <1>2, <1>3, <1>4

-----------------------------------------------------------------------------
(* The invariant of the mirrored store *)

\* The last write of a record that is to come, if there is one, has its current
\* row, but for those known to run in another order.
LastWriteCurrent ==
    \A i \in Ids \ reordered : Exists(i) => EndsWith(Line, i, RowOf(rec[i]))

CatchesUpWith(j) == IF db[j] # NoRow THEN db[j].status = rec[j].status ELSE KeyTaken(j, rec[j].key)

MInv ==
    /\ KInv
    /\ MirrorTypeOK
    /\ LastWriteCurrent
    /\ MirrorCatchesUp

\* A step changes record i only: every other one stays or is removed.
OnlyTouches(i) == \A j \in Ids \ {i} : rec'[j] = rec[j] \/ rec'[j] = NoRecord

\* The row of a record is a row.
LEMMA Rows ==
    /\ \A r \in Record : RowOf(r) \in Row /\ RowOf(r).status = r.status /\ RowOf(r).key = r.key
    /\ \A r \in Row : r # NoRow
  BY ConstantsAssumption, MirrorAssumption DEF RowOf, Row, Record

LEMMA MirrorLink == MirrorTypeOK => LinkOK(Operation)
  BY DEF MirrorTypeOK, LinkOK, Operation

\* A step that writes is one of the lifecycle's, and enqueues the one record
\* it changes.
LEMMA WritingTouches ==
    ASSUME KInv, WritingStep
    PROVE  /\ KInv'
           /\ \E i \in Ids : Enqueue(i) /\ OnlyTouches(i)
  <1> USE DEF Ids
  <1>1. KInv'
    BY NextKInv DEF WritingStep, Next
  <1>2. rec \in [Ids -> Record \cup {NoRecord}]
    BY DEF KInv, TypeOK
  <1>3. ASSUME NEW k \in Keys, Prepare(k), Enqueue(k)
        PROVE  \E i \in Ids : Enqueue(i) /\ OnlyTouches(i)
    BY <1>2, <1>3 DEF Prepare, Create, OnlyTouches
  <1>4. ASSUME NEW k \in Keys, ApproveTooLate(k), Enqueue(newest[k])
        PROVE  \E i \in Ids : Enqueue(i) /\ OnlyTouches(i)
    <2>1. newest[k] \in Ids
      BY <1>4 DEF ApproveTooLate, KInv, TypeOK
    <2> QED
      BY <1>2, <1>4, <2>1 DEF ApproveTooLate, SetStatus, OnlyTouches
  <1>5. ASSUME NEW s \in Submitters, SubmitRecord(s), Enqueue(submitter[s].hash)
        PROVE  \E i \in Ids : Enqueue(i) /\ OnlyTouches(i)
    <2>1. submitter[s].hash \in Ids
      BY <1>5 DEF SubmitRecord, KInv, SubmitterOK
    <2> QED
      BY <1>2, <1>5, <2>1 DEF SubmitRecord, OnlyTouches
  <1>6. ASSUME NEW s \in Submitters, NEW st \in {"submitted", "failed"}, SubmitEnd(s, st),
               Enqueue(submitter[s].hash)
        PROVE  \E i \in Ids : Enqueue(i) /\ OnlyTouches(i)
    <2>1. submitter[s].hash \in Ids
      BY <1>6 DEF SubmitEnd, KInv, SubmitterOK
    <2> QED
      BY <1>2, <1>6, <2>1 DEF SubmitEnd, SetStatus, OnlyTouches
  <1>7. ASSUME NEW p \in Pollers, NEW o \in Evidence,
               PollNewEvidence(p, o) \/ PollRepeatedAbsence(p, o), Enqueue(poller[p].hash)
        PROVE  \E i \in Ids : Enqueue(i) /\ OnlyTouches(i)
    <2>1. poller[p].hash \in Ids
      BY <1>7 DEF PollNewEvidence, PollRepeatedAbsence, KInv, TypeOK
    <2> QED
      BY <1>2, <1>7, <2>1
      DEF PollNewEvidence, StoreEvidence, PollRepeatedAbsence, Update, OnlyTouches
  <1>8. ASSUME NEW p \in Pollers, NEW h \in Hashes, NEW k \in Keys \cup {NoKey},
               ConfirmUnknown(p, h, k), Enqueue(h)
        PROVE  \E i \in Ids : Enqueue(i) /\ OnlyTouches(i)
    BY <1>2, <1>8 DEF ConfirmUnknown, Create, OnlyTouches
  <1>9. ASSUME NEW i \in Ids, PollExhausted(i) \/ Reject(i) \/ ExpireIfStale(i), Enqueue(i)
        PROVE  OnlyTouches(i)
    BY <1>2, <1>9 DEF PollExhausted, Reject, ExpireIfStale, SetStatus, OnlyTouches
  <1> QED
    BY <1>1, <1>3, <1>4, <1>5, <1>6, <1>7, <1>8, <1>9 DEF WritingStep

\* A step that writes makes its write the last of its record, or is known to have
\* left an older one behind; the record is waited for.
LEMMA WritingKeepsMInv == MInv /\ WritingStep => MInv'
  <1> SUFFICES ASSUME MInv, WritingStep PROVE MInv'
    OBVIOUS
  <1>1. KInv'
    BY WritingTouches DEF MInv
  <1>2. PICK i \in Ids : Enqueue(i) /\ OnlyTouches(i)
    BY WritingTouches DEF MInv
  <1>3. /\ rec' \in [Ids -> Record \cup {NoRecord}]
        /\ UNCHANGED <<db, lost, restarts>>
        /\ MirrorTypeOK /\ LinkOK(Operation)
    BY <1>1, <1>2, MirrorLink DEF KInv, TypeOK, MInv, Enqueue
  <1>4. ASSUME NEW j \in Ids \ {i}, Exists(j)'
        PROVE  rec'[j] = rec[j] /\ Exists(j)
    BY <1>2, <1>4 DEF OnlyTouches, Exists
  <1>5. CASE rec'[i] = NoRecord
    <2>1. UNCHANGED <<link, waiting, queue, reordered>> /\ Line' = Line
      BY <1>2, <1>5 DEF Enqueue, adapterVars, Line
    <2>2. MirrorTypeOK'
      BY <1>3, <2>1 DEF MirrorTypeOK, KeyTaken
    <2>3. LastWriteCurrent'
      BY <1>4, <1>5, <2>1 DEF MInv, LastWriteCurrent, Exists
    <2>4. MirrorCatchesUp'
      BY <1>3, <1>4, <1>5, <2>1 DEF MInv, MirrorCatchesUp, Unwritten, KeyTaken, Exists
    <2> QED
      BY <1>1, <2>2, <2>3, <2>4 DEF MInv
  <1>6. CASE rec'[i] # NoRecord
    <2> DEFINE w == [id |-> i, row |-> RowOf(rec'[i])]
    <2>1. /\ Call(<<w>>)
          /\ reordered' = IF Ready /\ i \in Written(waiting) THEN reordered \cup {i}
                          ELSE reordered \ {i}
      BY <1>2, <1>6 DEF Enqueue
    <2>2. w \in Write /\ w.id = i /\ w.row = RowOf(rec'[i]) /\ w \in Operation /\ <<w>> \in Seq(Operation)
      BY <1>3, <1>6, Rows DEF Write, Operation
    <2> HIDE DEF w
    <2>3. /\ Written(Line') = Written(Line) \cup {i}
          /\ \A j \in Ids : \A r : j # i /\ EndsWith(Line, j, r) => EndsWith(Line', j, r)
          /\ i \notin reordered' => EndsWith(Line', i, RowOf(rec'[i]))
      BY <1>3, <2>1, <2>2, CallEnds
    <2>4. LinkOK(Operation)'
      BY <1>3, <2>1, <2>2, CallKeepsLine
    <2>5. MirrorTypeOK'
      <3>1. reordered' \subseteq Ids
        BY <1>3, <2>1 DEF MirrorTypeOK
      <3> QED
        BY <1>3, <2>4, <3>1 DEF LinkOK, Operation, MirrorTypeOK, KeyTaken
    <2>6. LastWriteCurrent'
      <3> SUFFICES ASSUME NEW j \in Ids \ reordered', Exists(j)'
                   PROVE  EndsWith(Line', j, RowOf(rec'[j]))
        BY DEF LastWriteCurrent
      <3>1. CASE j = i
        BY <2>3, <3>1
      <3>2. CASE j # i
        <4>1. j \notin reordered /\ rec'[j] = rec[j] /\ Exists(j)
          BY <1>4, <2>1, <3>2
        <4> QED
          BY <2>3, <3>2, <4>1 DEF MInv, LastWriteCurrent
      <3> QED
        BY <3>1, <3>2
    <2>7. MirrorCatchesUp'
      <3> SUFFICES ASSUME NEW j \in Ids, Exists(j)', ~Unwritten(j)', j \notin lost' \cup reordered'
                   PROVE  CatchesUpWith(j)'
        BY DEF MirrorCatchesUp, CatchesUpWith
      <3>1. j \notin Written(Line')
        BY <2>4, LineWritesNext
      <3>2. j # i /\ j \notin reordered /\ j \notin Written(Line)
        BY <2>1, <2>3, <3>1
      <3>3. ~Unwritten(j) /\ rec'[j] = rec[j] /\ Exists(j)
        BY <1>3, <1>4, <3>2, LineWrites
      <3> QED
        BY <1>3, <3>2, <3>3 DEF MInv, MirrorCatchesUp, CatchesUpWith, KeyTaken
    <2> QED
      BY <1>1, <2>5, <2>6, <2>7 DEF MInv
  <1> QED
    BY <1>5, <1>6

\* A step that leaves records, operations and table alone.
LEMMA ReadingKeepsMInv == MInv /\ ReadingStep => MInv'
  <1> SUFFICES ASSUME MInv, ReadingStep PROVE MInv'
    OBVIOUS
  <1>1. KInv'
    BY NextKInv DEF MInv, ReadingStep, Next
  <1>2. UNCHANGED <<rec, db, link, waiting, queue, lost, reordered, restarts>>
    BY DEF ReadingStep, mirrorVars, adapterVars, SubmitBegin, SubmitKnownHash, PollBegin,
           PollRepeatedEvidence
  <1> QED
    BY <1>1, <1>2
    DEF MInv, MirrorTypeOK, LastWriteCurrent, MirrorCatchesUp, Unwritten, KeyTaken, Exists, Line

-----------------------------------------------------------------------------
(* The steps of the chain and of the connection *)

\* What running an operation leaves of the order.
LEMMA RunningKeepsOrder ==
    ASSUME MInv, NEW v, Runs(v), UNCHANGED <<rec, reordered>>
    PROVE  /\ LinkOK(Operation)' /\ v \in Operation
           /\ LastWriteCurrent'
           /\ \A j \in Ids : ~IsWriteOf(v, j) => (Unwritten(j)' <=> Unwritten(j))
           /\ \A j \in Ids \ reordered : IsWriteOf(v, j) /\ ~Unwritten(j)' /\ Exists(j)
                 => v.row = RowOf(rec[j])
  <1>1. LinkOK(Operation)
    BY MirrorLink DEF MInv
  <1>2. LinkOK(Operation)'
    BY <1>1, RunsKeepLine
  <1>3. /\ v \in Operation
        /\ \A j \in Ids : j \in Written(Line) <=> IsWriteOf(v, j) \/ j \in Written(Line')
        /\ \A j \in Ids : \A r : EndsWith(Line, j, r) =>
              /\ EndsWith(Line', j, r)
              /\ IsWriteOf(v, j) /\ j \notin Written(Line') => v.row = r
    BY <1>1, RunsEnds
  <1>4. \A j \in Ids : /\ Unwritten(j) <=> j \in Written(Line)
                       /\ Unwritten(j)' <=> j \in Written(Line')
    BY <1>1, <1>2, LineWrites, LineWritesNext
  <1>5. LastWriteCurrent'
    BY <1>3 DEF MInv, LastWriteCurrent, Exists
  <1>6. \A j \in Ids \ reordered : IsWriteOf(v, j) /\ ~Unwritten(j)' /\ Exists(j)
           => v.row = RowOf(rec[j])
    BY <1>3, <1>4 DEF MInv, LastWriteCurrent
  <1> QED
    BY <1>2, <1>3, <1>4, <1>5, <1>6

\* A write never removes a row, and keeps keys unique.
LEMMA FlushKeepsMInv == MInv /\ Flush => MInv'
  <1> SUFFICES ASSUME MInv, Flush PROVE MInv'
    OBVIOUS
  <1> DEFINE w == Head(queue)
             i == w.id
             row == w.row
  <1>1. UNCHANGED <<rec, reordered, restarts>> /\ vars' = vars
    BY DEF Flush, vars
  <1>2. KInv'
    BY <1>1, NextKInv DEF MInv
  <1>3. /\ w # Hydration /\ Runs(w)
        /\ lost' = lost \ {i}
        /\ db' = IF db[i] # NoRow THEN [db EXCEPT ![i].status = row.status]
                 ELSE IF KeyTaken(i, row.key) THEN db
                 ELSE [db EXCEPT ![i] = row]
    BY DEF Flush
  <1> HIDE DEF w
  <1>4. /\ LinkOK(Operation)' /\ w \in Operation
        /\ LastWriteCurrent'
        /\ \A j \in Ids : ~IsWriteOf(w, j) => (Unwritten(j)' <=> Unwritten(j))
        /\ \A j \in Ids \ reordered : IsWriteOf(w, j) /\ ~Unwritten(j)' /\ Exists(j)
              => w.row = RowOf(rec[j])
    BY <1>1, <1>3, RunningKeepsOrder
  <1>5. i \in Ids /\ row \in Row /\ \A j \in Ids : IsWriteOf(w, j) <=> j = i
    BY <1>3, <1>4 DEF Operation, Write, IsWriteOf
  <1>6. db \in [Ids -> Row \cup {NoRow}]
    BY DEF MInv, MirrorTypeOK
  <1> HIDE DEF i, row
  <1>7. /\ db' \in [Ids -> Row \cup {NoRow}]
        /\ \A j \in Ids \ {i} : db'[j] = db[j]
        /\ db[i] # NoRow => db'[i] \in Row /\ db'[i].key = db[i].key /\ db'[i].status = row.status
        /\ db[i] = NoRow => IF KeyTaken(i, row.key) THEN db'[i] = NoRow ELSE db'[i] = row
    <2>1. CASE db[i] # NoRow
      <3>1. db[i] \in Row /\ row.status \in Statuses
        BY <1>5, <1>6, <2>1 DEF Row
      <3>2. db' = [db EXCEPT ![i] = [db[i] EXCEPT !.status = row.status]]
        BY <1>3, <2>1
      <3>3. /\ [db[i] EXCEPT !.status = row.status] \in Row
            /\ [db[i] EXCEPT !.status = row.status].key = db[i].key
            /\ [db[i] EXCEPT !.status = row.status].status = row.status
        BY <3>1 DEF Row
      <3> QED
        BY <1>5, <1>6, <2>1, <3>2, <3>3
    <2>2. CASE db[i] = NoRow
      BY <1>3, <1>5, <1>6, <2>2
    <2> QED
      BY <2>1, <2>2
  <1>8. ASSUME NEW j \in Ids, NEW k, KeyTaken(j, k)
        PROVE  k # NoKey /\ \E m \in Ids \ {j} : db'[m] # NoRow /\ db'[m].key = k
    <2>1. \A m \in Ids : db[m] # NoRow => db'[m] # NoRow /\ db'[m].key = db[m].key
      BY <1>6, <1>7, Rows
    <2> QED
      BY <1>8, <2>1 DEF KeyTaken
  <1>9. MirrorTypeOK'
    <2>1. ASSUME NEW j \in Ids, db'[j] # NoRow
          PROVE  ~KeyTaken(j, db[j].key)'
      <3> SUFFICES ASSUME NEW m \in Ids \ {j}, db'[m] # NoRow, db'[m].key = db'[j].key,
                          db'[j].key # NoKey
                   PROVE  FALSE
        BY DEF KeyTaken
      <3>1. CASE db[i] # NoRow
        <4>1. \A n \in Ids : db'[n] # NoRow => db[n] # NoRow /\ db[n].key = db'[n].key
          BY <1>7, <3>1
        <4> QED
          BY <2>1, <4>1 DEF MInv, MirrorTypeOK, KeyTaken
      <3>2. CASE db[i] = NoRow
        <4>1. CASE j # i /\ m # i
          BY <1>7, <2>1, <4>1 DEF MInv, MirrorTypeOK, KeyTaken
        <4>2. CASE j = i \/ m = i
          <5>1. db'[i] = row /\ ~KeyTaken(i, row.key)
            BY <1>7, <2>1, <3>2, <4>2
          <5> QED
            BY <1>7, <2>1, <4>2, <5>1 DEF KeyTaken
        <4> QED
          BY <4>1, <4>2
      <3> QED
        BY <3>1, <3>2
    <2>2. lost' \subseteq Ids /\ reordered' \subseteq Ids /\ restarts' \in 0 .. MaxRestarts
      BY <1>1, <1>3 DEF MInv, MirrorTypeOK
    <2> QED
      BY <1>4, <1>7, <2>1, <2>2 DEF LinkOK, Operation, MirrorTypeOK
  <1>10. MirrorCatchesUp'
    <2> SUFFICES ASSUME NEW j \in Ids, Exists(j), ~Unwritten(j)', j \notin lost' \cup reordered
                 PROVE  \/ db'[j] # NoRow /\ db'[j].status = rec[j].status
                        \/ /\ db'[j] = NoRow
                           /\ rec[j].key # NoKey
                           /\ \E m \in Ids \ {j} : db'[m] # NoRow /\ db'[m].key = rec[j].key
      BY <1>1 DEF MirrorCatchesUp, Exists, KeyTaken
    <2>1. CASE j = i
      <3>1. row = RowOf(rec[i])
        BY <1>4, <1>5, <2>1 DEF row
      <3>2. rec[i] \in Record
        BY <1>5, <2>1 DEF MInv, KInv, TypeOK, Exists
      <3>3. row.status = rec[i].status /\ row.key = rec[i].key /\ row # NoRow
        BY <1>5, <3>1, <3>2, Rows
      <3>4. CASE db[i] # NoRow
        BY <1>7, <2>1, <3>3, <3>4, Rows
      <3>5. CASE db[i] = NoRow /\ ~KeyTaken(i, row.key)
        BY <1>7, <2>1, <3>3, <3>5
      <3>6. CASE db[i] = NoRow /\ KeyTaken(i, row.key)
        BY <1>7, <1>8, <2>1, <3>3, <3>6
      <3> QED
        BY <3>4, <3>5, <3>6
    <2>2. CASE j # i
      <3>1. ~Unwritten(j) /\ j \notin lost \cup reordered
        BY <1>3, <1>4, <1>5, <2>2
      <3>2. db'[j] = db[j]
        BY <1>7, <2>2
      <3> QED
        BY <1>8, <3>1, <3>2 DEF MInv, MirrorCatchesUp
    <2> QED
      BY <2>1, <2>2
  <1> QED
    BY <1>2, <1>4, <1>9, <1>10 DEF MInv

\* A write that failed, and the hydration, leave the table as it is.
LEMMA QueueKeepsMInv == MInv /\ (FlushFails \/ Hydrate) => MInv'
  <1> SUFFICES ASSUME MInv, FlushFails \/ Hydrate PROVE MInv'
    OBVIOUS
  <1>1. UNCHANGED <<rec, db, reordered, restarts>> /\ vars' = vars
    BY DEF FlushFails, Hydrate, mirrorVars, vars
  <1>2. KInv'
    BY <1>1, NextKInv DEF MInv
  <1>3. PICK v : /\ Runs(v)
                 /\ lost' = IF v # Hydration THEN lost \cup {v.id} ELSE lost
    BY DEF FlushFails, Hydrate, mirrorVars
  <1>4. /\ LinkOK(Operation)' /\ v \in Operation
        /\ LastWriteCurrent'
        /\ \A j \in Ids : ~IsWriteOf(v, j) => (Unwritten(j)' <=> Unwritten(j))
    BY <1>1, <1>3, RunningKeepsOrder
  <1>5. /\ lost \subseteq lost' /\ lost' \subseteq Ids
        /\ \A j \in Ids : IsWriteOf(v, j) => j \in lost'
    BY <1>3, <1>4 DEF Operation, Write, IsWriteOf, MInv, MirrorTypeOK
  <1>6. MirrorTypeOK'
    BY <1>1, <1>4, <1>5 DEF LinkOK, Operation, MInv, MirrorTypeOK, KeyTaken
  <1>7. MirrorCatchesUp'
    <2> SUFFICES ASSUME NEW j \in Ids, Exists(j), ~Unwritten(j)', j \notin lost' \cup reordered
                 PROVE  CatchesUpWith(j)
      BY <1>1 DEF MirrorCatchesUp, Exists, KeyTaken, CatchesUpWith
    <2> QED
      BY <1>4, <1>5 DEF MInv, MirrorCatchesUp, CatchesUpWith
  <1> QED
    BY <1>2, <1>4, <1>6, <1>7 DEF MInv

\* A connection that comes leaves the order as it is; one that is given up loses
\* the writes that wait, and the order of the records with writes on both sides.
LEMMA ConnectionKeepsMInv == MInv /\ (ConnectionStep \/ ConnectionFails) => MInv'
  <1> SUFFICES ASSUME MInv, ConnectionStep \/ ConnectionFails PROVE MInv'
    OBVIOUS
  <1>1. UNCHANGED <<rec, db, restarts>> /\ vars' = vars /\ LinkOK(Operation)
    BY MirrorLink DEF MInv, ConnectionStep, ConnectionFails, mirrorVars, vars
  <1>2. KInv'
    BY <1>1, NextKInv DEF MInv
  <1>3. \A j \in Ids : Unwritten(j) <=> j \in Written(Line)
    BY <1>1, LineWrites
  <1>4. CASE ConnectionStep
    <2>1. LinkOK(Operation)' /\ Line' = Line /\ UNCHANGED <<lost, reordered>>
      BY <1>1, <1>4, ConnectionKeepsLine DEF ConnectionStep, OthersCall, mirrorVars
    <2>2. \A j \in Ids : Unwritten(j)' <=> Unwritten(j)
      BY <1>3, <2>1, LineWritesNext
    <2>3. MirrorTypeOK'
      BY <1>1, <2>1 DEF LinkOK, Operation, MInv, MirrorTypeOK, KeyTaken
    <2>4. LastWriteCurrent'
      BY <1>1, <2>1 DEF MInv, LastWriteCurrent, Exists
    <2>5. MirrorCatchesUp'
      BY <1>1, <2>1, <2>2 DEF MInv, MirrorCatchesUp, Exists, KeyTaken
    <2> QED
      BY <1>2, <2>3, <2>4, <2>5 DEF MInv
  <1>5. CASE ConnectionFails
    <2>1. /\ GivesUp
          /\ lost' = lost \cup Written(waiting)
          /\ reordered' = reordered \cup (Written(waiting) \cap Written(queue))
      BY <1>5 DEF ConnectionFails
    <2>2. /\ LinkOK(Operation)'
          /\ Written(Line) = Written(Line') \cup Written(waiting)
          /\ \A j \in Ids \ (Written(waiting) \cap Written(queue)) : \A r :
                EndsWith(Line, j, r) => EndsWith(Line', j, r)
      BY <1>1, <2>1, GivesUpKeepsLine, GivesUpEnds
    <2>3. \A j \in Ids : Unwritten(j)' <=> j \in Written(Line')
      BY <2>2, LineWritesNext
    <2>4. MirrorTypeOK'
      <3>1. lost' \subseteq Ids /\ reordered' \subseteq Ids
        BY <2>1 DEF MInv, MirrorTypeOK, Written
      <3> QED
        BY <1>1, <2>2, <3>1 DEF LinkOK, Operation, MInv, MirrorTypeOK, KeyTaken
    <2>5. LastWriteCurrent'
      BY <1>1, <2>1, <2>2 DEF MInv, LastWriteCurrent, Exists
    <2>6. MirrorCatchesUp'
      <3> SUFFICES ASSUME NEW j \in Ids, Exists(j), ~Unwritten(j)', j \notin lost' \cup reordered'
                   PROVE  CatchesUpWith(j)
        BY <1>1 DEF MirrorCatchesUp, Exists, KeyTaken, CatchesUpWith
      <3>1. ~Unwritten(j) /\ j \notin lost \cup reordered
        BY <1>3, <2>1, <2>2, <2>3
      <3> QED
        BY <3>1 DEF MInv, MirrorCatchesUp, CatchesUpWith
    <2> QED
      BY <1>2, <2>4, <2>5, <2>6 DEF MInv
  <1> QED
    BY <1>4, <1>5

\* After a restart the store is empty: nothing is confirmed, written or held.
LEMMA RestartKeepsMInv == MInv /\ Restart => MInv'
  <1> SUFFICES ASSUME MInv, Restart PROVE MInv'
    OBVIOUS
  <1>1. \A j \in Ids : ~Exists(j)'
    BY DEF Restart, Exists
  <1>2. NoId \notin Ids /\ NoRecord \notin Record
    BY ConstantsAssumption
  <1>3. TypeOK'
    BY DEF Restart, MInv, KInv, TypeOK, IdleSubmitter, IdlePoller
  <1>4. KInv'
    BY <1>1, <1>2, <1>3
    DEF Restart, KInv, NewestExists, SubmitterOK, ViewLive, MissingAnswered, ConfirmedOnEvidence,
        DroppedNeedsThreeAbsences, IdleSubmitter, IdlePoller, Ids
  <1>5. LinkOK(Operation)'
    BY StartsLine DEF Restart, Operation
  <1>6. MirrorTypeOK'
    BY <1>5, MirrorAssumption DEF LinkOK, Operation, Restart, MInv, MirrorTypeOK, KeyTaken
  <1>7. LastWriteCurrent' /\ MirrorCatchesUp'
    BY <1>1 DEF LastWriteCurrent, MirrorCatchesUp, Exists
  <1> QED
    BY <1>4, <1>6, <1>7 DEF MInv

-----------------------------------------------------------------------------
(* The theorems *)

LEMMA MirrorInitMInv == MirrorInit => MInv
  <1> SUFFICES ASSUME MirrorInit PROVE MInv
    OBVIOUS
  <1>1. KInv
    BY InitKInv DEF MirrorInit
  <1>2. LinkOK(Operation)
    BY StartsLine DEF MirrorInit, Operation
  <1>3. MirrorTypeOK
    BY <1>2, MirrorAssumption DEF MirrorInit, MirrorTypeOK, KeyTaken, LinkOK, Operation
  <1>4. LastWriteCurrent /\ MirrorCatchesUp
    BY DEF MirrorInit, Init, LastWriteCurrent, MirrorCatchesUp, Exists
  <1> QED
    BY <1>1, <1>3, <1>4 DEF MInv

LEMMA MirrorNextMInv == MInv /\ [MirrorNext]_allVars => MInv'
  <1> SUFFICES ASSUME MInv, [MirrorNext]_allVars PROVE MInv'
    OBVIOUS
  <1>1. CASE MirrorNext
    BY <1>1, WritingKeepsMInv, ReadingKeepsMInv, FlushKeepsMInv, QueueKeepsMInv,
       ConnectionKeepsMInv, RestartKeepsMInv
    DEF MirrorNext
  <1>2. CASE UNCHANGED allVars
    <2>1. vars' = vars /\ UNCHANGED <<rec, db, link, waiting, queue, lost, reordered, restarts>>
      BY <1>2 DEF allVars, vars, mirrorVars, adapterVars
    <2>2. KInv'
      BY <2>1, NextKInv DEF MInv
    <2> QED
      BY <2>1, <2>2
      DEF MInv, MirrorTypeOK, LastWriteCurrent, MirrorCatchesUp, Unwritten, KeyTaken, Exists, Line
  <1> QED
    BY <1>1, <1>2

\* The strengthened invariant is an invariant of the mirrored store.
THEOREM MirrorInductive == MirrorSpec => []MInv
  BY MirrorInitMInv, MirrorNextMInv, PTL DEF MirrorSpec

\* Type correctness, the unique index of the table included.
THEOREM MirrorTypeCorrect == MirrorSpec => []MirrorTypeOK
  <1>1. MInv => MirrorTypeOK
    BY DEF MInv
  <1> QED
    BY <1>1, MirrorInductive, PTL

\* The table catches up with every record whose writes have run, though writes fail,
\* are given up with the connection or overtake those that wait for it, except
\* while the newest write is known to have left an older one behind.
THEOREM CatchesUp == MirrorSpec => []MirrorCatchesUp
  <1>1. MInv => MirrorCatchesUp
    BY DEF MInv
  <1> QED
    BY <1>1, MirrorInductive, PTL

\* Through any restarts, a record is confirmed only on final evidence that this
\* process has stored, and dropped only after three absences.
THEOREM RestartsKeepEvidence ==
    MirrorSpec => [](ConfirmedOnEvidence /\ DroppedNeedsThreeAbsences)
  <1>1. MInv => ConfirmedOnEvidence /\ DroppedNeedsThreeAbsences
    BY DEF MInv, KInv
  <1> QED
    BY <1>1, MirrorInductive, PTL

-----------------------------------------------------------------------------
(* The watchlist *)

WatchOp == EntryWrites \cup {Hydration}

\* Nothing is held, watched, stored or to be written that was never made, and
\* nothing was scanned before the hydration.
Known ==
    /\ watched \cup orphans \cup table \cup removed \cup erased \cup erasure.of \subseteq made
    /\ \A s \in Scanners : scanning[s] \in made \cup {NoEntry}
    /\ \A e \in Entries : Has(Line, Insert(e)) => e \in made
    /\ loading = "waits" => orphans = {} /\ \A s \in Scanners : scanning[s] = NoEntry

\* A deletion follows every insertion of e that is to run, and the row of e; a
\* hydration that will be seen finds neither.
RemovedGone(e) ==
    /\ e \notin watched
    /\ Follows(Line, Insert(e), Delete(e))
    /\ e \in table => Has(Line, Delete(e))
    /\ loading = "waits" => e \notin table /\ ~Has(Line, Insert(e))

\* Nothing is left that could write e's row or its run.
Unreachable(e) ==
    /\ e \notin table
    /\ ~Has(Line, Insert(e))
    /\ \A s \in Scanners : scanning[s] # e

Excused == late \cup unreached

\* During an erasure nothing made before it is watched, and after its DELETE, or
\* without a connection, only what was under way then can return.
ErasureSound ==
    /\ erasure.pc # "idle" => loading # "waits" /\ watched \cap erasure.of = {}
    /\ erasure.pc = "checking" => \A e \in erasure.of \ Excused : Unreachable(e)

WInv ==
    /\ WatchTypeOK
    /\ Known
    /\ \A e \in removed \ undeleted : RemovedGone(e)
    /\ \A e \in erased \ Excused : e \notin watched \cup orphans /\ Unreachable(e)
    /\ ErasureSound

\* The operations differ in kind and entry.
LEMMA Ops ==
    \A e, f \in Entries :
        /\ Insert(e) \in WatchOp /\ Delete(e) \in WatchOp
        /\ Insert(e) # Delete(f) /\ Insert(e) # Hydration /\ Delete(e) # Hydration
        /\ Insert(e) = Insert(f) => e = f
        /\ Delete(e) = Delete(f) => e = f
  <1>1. \A e \in Entries : Insert(e) \in EntryWrites /\ Delete(e) \in EntryWrites
    BY DEF EntryWrites
  <1>2. \A e, f \in Entries : /\ Insert(e) # Delete(f)
                              /\ Insert(e) = Insert(f) => e = f
                              /\ Delete(e) = Delete(f) => e = f
    BY DEF Insert, Delete
  <1> QED
    BY <1>1, <1>2, LoadAssumption DEF WatchOp

LEMMA WatchLink ==
    ASSUME WatchTypeOK
    PROVE  /\ LinkOK(WatchOp)
           /\ \A w : IsPending(w) <=> Has(Line, w)
           /\ \A w : IsWaiting(w) <=> Has(waiting, w)
  <1>1. LinkOK(WatchOp)
    BY DEF WatchTypeOK, LinkOK, WatchOp
  <1> QED
    BY <1>1, LineHolds

LEMMA WatchInitWInv == WatchInit => WInv
  <1> SUFFICES ASSUME WatchInit PROVE WInv
    OBVIOUS
  <1>1. /\ LinkOK(WatchOp)
        /\ \A w : Has(Line, w) <=> w = Hydration
    BY StartsLine DEF WatchInit, WatchOp
  <1>2. \A e \in Entries : ~Has(Line, Insert(e))
    BY <1>1, Ops
  <1>3. WatchTypeOK
    BY <1>1, WatchlistAssumption DEF WatchInit, WatchTypeOK, LinkOK, WatchOp, NoErasure
  <1> QED
    BY <1>2, <1>3 DEF WatchInit, WInv, Known, ErasureSound, NoErasure

-----------------------------------------------------------------------------
(* The handlers keep WInv *)

\* New entries have no past, and their insertions are all that is called.
LEMMA AddedWrites ==
    ASSUME WatchTypeOK, NEW rows, Len(rows) \in Nat, AddAll(rows)
    PROVE  /\ UNCHANGED <<orphans, scanning, loading, erasure, table, reboots, recordVars>>
           /\ made \subseteq made' /\ made' \subseteq Entries
           /\ watched' = watched \cup (made' \ made)
           /\ LinkOK(WatchOp)'
           /\ \A e \in Entries : /\ Has(Line', Insert(e)) <=> Has(Line, Insert(e)) \/ e \in made' \ made
                                 /\ Has(Line', Delete(e)) <=> Has(Line, Delete(e))
           /\ \A e \in Entries \ (made' \ made) :
                 /\ Follows(Line, Insert(e), Delete(e)) => Follows(Line', Insert(e), Delete(e))
                 /\ Leads(Line, Insert(e), Delete(e)) => Leads(Line', Insert(e), Delete(e))
  <1>1. PICK new \in [1 .. Len(rows) -> Entries \ made] :
            /\ made' = made \cup {new[n] : n \in 1 .. Len(rows)}
            /\ watched' = watched \cup {new[n] : n \in 1 .. Len(rows)}
            /\ Call([n \in 1 .. Len(rows) |-> Insert(new[n])])
    BY DEF AddAll
  <1> DEFINE k == Len(rows)
             work == [n \in 1 .. k |-> Insert(new[n])]
  <1>2. /\ made \subseteq Entries /\ k \in Nat
        /\ made' \ made = {new[n] : n \in 1 .. k} /\ made' \subseteq Entries
        /\ made \subseteq made'
        /\ watched' = watched \cup (made' \ made)
    BY <1>1 DEF WatchTypeOK
  <1>3. work \in Seq(WatchOp) /\ Len(work) = k /\ \A n \in 1 .. k : work[n] = Insert(new[n])
    BY <1>2, Ops
  <1>4. Call(work) /\ LinkOK(WatchOp)
    BY <1>1, WatchLink
  <1>5. UNCHANGED <<orphans, scanning, loading, erasure, table, reboots, recordVars>>
    BY DEF AddAll
  <1> HIDE DEF work, k
  <1>6. ASSUME NEW w
        PROVE  Has(work, w) <=> \E e \in made' \ made : w = Insert(e)
    <2>1. Has(work, w) <=> \E n \in 1 .. k : work[n] = w
      BY <1>3 DEF Has
    <2>2. (\E n \in 1 .. k : work[n] = w) <=> \E n \in 1 .. k : w = Insert(new[n])
      BY <1>3
    <2>3. (\E n \in 1 .. k : w = Insert(new[n])) <=> \E e \in made' \ made : w = Insert(e)
      BY <1>2
    <2> QED
      BY <2>1, <2>2, <2>3
  <1>7. \A e \in Entries : /\ Has(work, Insert(e)) <=> e \in made' \ made
                           /\ ~Has(work, Delete(e))
    BY <1>2, <1>6, Ops
  <1>8. /\ LinkOK(WatchOp)'
        /\ \A w : Has(Line', w) <=> Has(Line, w) \/ Has(work, w)
        /\ \A a, b : ~Has(work, a) /\ Follows(Line, a, b) => Follows(Line', a, b)
        /\ \A a, b : ~Has(work, a) /\ ~Has(work, b) /\ Leads(Line, a, b) => Leads(Line', a, b)
    BY <1>3, <1>4, CallKeepsLine
  <1>9. \A e \in Entries : /\ Has(Line', Insert(e)) <=> Has(Line, Insert(e)) \/ e \in made' \ made
                           /\ Has(Line', Delete(e)) <=> Has(Line, Delete(e))
    BY <1>7, <1>8
  <1>10. ASSUME NEW e \in Entries \ (made' \ made)
         PROVE  /\ Follows(Line, Insert(e), Delete(e)) => Follows(Line', Insert(e), Delete(e))
                /\ Leads(Line, Insert(e), Delete(e)) => Leads(Line', Insert(e), Delete(e))
    BY <1>7, <1>8
  <1> QED
    BY <1>2, <1>5, <1>8, <1>9, <1>10

LEMMA AddAllKeepsWInv ==
    ASSUME WInv, NEW rows, Len(rows) \in Nat, AddAll(rows)
    PROVE  WInv'
  <1>1. WatchTypeOK /\ Known
    BY DEF WInv
  <1>2. /\ UNCHANGED <<orphans, scanning, loading, erasure, table, reboots,
                       removed, undeleted, erased, late, unreached>>
        /\ made \subseteq made' /\ made' \subseteq Entries
        /\ watched' = watched \cup (made' \ made)
    BY <1>1, AddedWrites DEF recordVars, removalVars
  <1>3. /\ LinkOK(WatchOp)'
        /\ \A e \in Entries : /\ Has(Line', Insert(e)) <=> Has(Line, Insert(e)) \/ e \in made' \ made
                              /\ Has(Line', Delete(e)) <=> Has(Line, Delete(e))
        /\ \A e \in Entries \ (made' \ made) :
              Follows(Line, Insert(e), Delete(e)) => Follows(Line', Insert(e), Delete(e))
    BY <1>1, AddedWrites
  <1>4. WatchTypeOK'
    BY <1>1, <1>2, <1>3 DEF WatchTypeOK, Known, WatchOp, LinkOK
  <1>5. Known'
    BY <1>1, <1>2, <1>3 DEF Known
  <1>6. \A e \in made : e \in Entries /\ e \notin made' \ made
    BY <1>2
  <1>7. \A e \in removed' \ undeleted' : RemovedGone(e)'
    BY <1>1, <1>2, <1>3, <1>6 DEF WInv, RemovedGone, Known
  <1>8. \A e \in made : Unreachable(e) => Unreachable(e)'
    BY <1>2, <1>3, <1>6 DEF Unreachable
  <1>9. ErasureSound'
    BY <1>1, <1>2, <1>6, <1>8 DEF WInv, ErasureSound, Known, Excused
  <1>10. \A e \in erased' \ Excused' : e \notin watched' \cup orphans' /\ Unreachable(e)'
    BY <1>1, <1>2, <1>6, <1>8 DEF WInv, Known, Excused
  <1> QED
    BY <1>4, <1>5, <1>7, <1>9, <1>10 DEF WInv

\* A deletion comes after its insertion, or is known to have left it behind.
LEMMA RemovedLine ==
    ASSUME WatchTypeOK, NEW f \in Entries, RemoveEntry(f)
    PROVE  /\ LinkOK(WatchOp)'
           /\ \A e \in Entries : /\ Has(Line', Insert(e)) <=> Has(Line, Insert(e))
                                 /\ Has(Line', Delete(e)) <=> Has(Line, Delete(e)) \/ e = f
                                 /\ Follows(Line, Insert(e), Delete(e))
                                       => Follows(Line', Insert(e), Delete(e))
           /\ \A e \in Entries \ {f} :
                 Leads(Line, Insert(e), Delete(e)) => Leads(Line', Insert(e), Delete(e))
           /\ ~(Ready /\ IsWaiting(Insert(f))) =>
                 /\ Follows(Line', Insert(f), Delete(f))
                 /\ Leads(Line, Insert(f), Delete(f)) => Leads(Line', Insert(f), Delete(f))
  <1> DEFINE work == <<Delete(f)>>
  <1>1. LinkOK(WatchOp) /\ Call(work) /\ Delete(f) \in WatchOp
    BY WatchLink, Ops DEF RemoveEntry
  <1>2. work \in Seq(WatchOp)
    BY <1>1
  <1>3. \A w : Has(work, w) <=> w = Delete(f)
    BY Singletons
  <1>4. /\ LinkOK(WatchOp)'
        /\ \A w : Has(Line', w) <=> Has(Line, w) \/ Has(work, w)
        /\ \A a, b : ~Has(work, a) /\ Follows(Line, a, b) => Follows(Line', a, b)
        /\ \A a, b : ~Has(work, a) /\ ~Has(work, b) /\ Leads(Line, a, b) => Leads(Line', a, b)
        /\ \A a, b : work = <<b>> /\ a # b /\ ~(Ready /\ IsWaiting(a))
              => Follows(Line', a, b) /\ (Leads(Line, a, b) => Leads(Line', a, b))
    BY <1>1, <1>2, CallKeepsLine
  <1>5. ~(Ready /\ IsWaiting(Insert(f))) =>
                 /\ Follows(Line', Insert(f), Delete(f))
                 /\ Leads(Line, Insert(f), Delete(f)) => Leads(Line', Insert(f), Delete(f))
    BY <1>4, Ops
  <1> HIDE DEF work
  <1>6. ASSUME NEW e \in Entries
        PROVE  /\ Has(Line', Insert(e)) <=> Has(Line, Insert(e))
               /\ Has(Line', Delete(e)) <=> Has(Line, Delete(e)) \/ e = f
               /\ Follows(Line, Insert(e), Delete(e)) => Follows(Line', Insert(e), Delete(e))
    BY <1>3, <1>4, Ops
  <1>7. ASSUME NEW e \in Entries \ {f}
        PROVE  Leads(Line, Insert(e), Delete(e)) => Leads(Line', Insert(e), Delete(e))
    BY <1>3, <1>4, Ops
  <1> QED
    BY <1>4, <1>5, <1>6, <1>7

\* The hydration that waits will fill what is no longer in use.
LEMMA RemoveKeepsWInv ==
    ASSUME WInv, NEW f \in Entries, RemoveEntry(f)
    PROVE  WInv'
  <1>1. /\ f \in watched
        /\ watched' = watched \ {f}
        /\ loading' = Detached
        /\ removed' = removed \cup {f}
        /\ undeleted' = undeleted \cup {e \in {f} : Ready /\ IsWaiting(Insert(f))}
        /\ UNCHANGED <<orphans, made, scanning, erasure, table, reboots, erased, late, unreached>>
    BY DEF RemoveEntry
  <1>2. WatchTypeOK /\ Known
    BY DEF WInv
  <1>3. /\ LinkOK(WatchOp)'
        /\ \A e \in Entries : /\ Has(Line', Insert(e)) <=> Has(Line, Insert(e))
                              /\ Has(Line', Delete(e)) <=> Has(Line, Delete(e)) \/ e = f
                              /\ Follows(Line, Insert(e), Delete(e))
                                    => Follows(Line', Insert(e), Delete(e))
        /\ ~(Ready /\ IsWaiting(Insert(f))) => Follows(Line', Insert(f), Delete(f))
    BY <1>2, RemovedLine
  <1>4. loading' \in {"detached", "done"}
    BY <1>1, <1>2 DEF Detached, WatchTypeOK
  <1>5. WatchTypeOK'
    BY <1>1, <1>2, <1>3, <1>4 DEF WatchTypeOK, WatchOp, LinkOK
  <1>6. Known'
    BY <1>1, <1>2, <1>3, <1>4 DEF Known
  <1>7. ASSUME NEW e \in removed' \ undeleted'
        PROVE  RemovedGone(e)'
    <2>1. e \in Entries
      BY <1>1, <1>2 DEF Known, WatchTypeOK
    <2>2. CASE e = f
      BY <1>1, <1>3, <1>4, <1>7, <2>2 DEF RemovedGone
    <2>3. CASE e # f
      <3>1. RemovedGone(e)
        BY <1>1, <1>7, <2>3 DEF WInv
      <3> QED
        BY <1>1, <1>3, <1>4, <2>1, <3>1 DEF RemovedGone
    <2> QED
      BY <2>2, <2>3
  <1>8. \A e \in Entries : Unreachable(e) => Unreachable(e)'
    BY <1>1, <1>3 DEF Unreachable
  <1>9. \A e \in made : e \in Entries
    BY <1>2 DEF WatchTypeOK
  <1>10. ErasureSound'
    BY <1>1, <1>2, <1>4, <1>8, <1>9 DEF WInv, ErasureSound, Known, Excused
  <1>11. \A e \in erased' \ Excused' : e \notin watched' \cup orphans' /\ Unreachable(e)'
    BY <1>1, <1>2, <1>8, <1>9 DEF WInv, Known, Excused
  <1> QED
    BY <1>5, <1>6, <1>7, <1>10, <1>11 DEF WInv

\* A rescan holds an entry that was watched, and leaves a run of no other.
LEMMA ScanKeepsWInv ==
    ASSUME WInv, NEW s \in Scanners, ScanEnd(s) \/ \E e \in Entries : ScanBegin(s, e)
    PROVE  WInv'
  <1>1. /\ UNCHANGED <<watched, made, loading, erasure, table, link, waiting, queue, reboots,
                       removed, undeleted, erased, late, unreached>>
        /\ Line' = Line
    BY DEF ScanBegin, ScanEnd, adapterVars, recordVars, removalVars, Line
  <1>2. WatchTypeOK /\ Known
    BY DEF WInv
  <1>3. \A e \in removed \ undeleted : RemovedGone(e)'
    BY <1>1 DEF WInv, RemovedGone
  <1>4. CASE \E e \in Entries : ScanBegin(s, e)
    <2>1. PICK e \in Entries : ScanBegin(s, e)
      BY <1>4
    <2>2. /\ loading = "done" /\ e \in watched /\ orphans' = orphans
          /\ \A v \in Scanners : scanning'[v] = IF v = s THEN e ELSE scanning[v]
          /\ scanning' \in [Scanners -> Entries \cup {NoEntry}]
      BY <1>2, <2>1 DEF ScanBegin, WatchTypeOK
    <2>3. WatchTypeOK' /\ Known'
      BY <1>1, <1>2, <2>2 DEF WatchTypeOK, Known
    <2>4. ASSUME NEW f, f # e, Unreachable(f)
          PROVE  Unreachable(f)'
      BY <1>1, <2>2, <2>4 DEF Unreachable
    <2>5. \A f \in erased' \ Excused' : f \notin watched' \cup orphans' /\ Unreachable(f)'
      BY <1>1, <2>2, <2>4 DEF WInv, Excused
    <2>6. ErasureSound'
      BY <1>1, <2>2, <2>4 DEF WInv, ErasureSound, Excused
    <2> QED
      BY <1>1, <1>3, <2>3, <2>5, <2>6 DEF WInv
  <1>5. CASE ScanEnd(s)
    <2>1. /\ scanning[s] # NoEntry /\ scanning[s] \in made
          /\ orphans \subseteq orphans'
          /\ \A f \in orphans' : f \in orphans \/ (f = scanning[s] /\ f \notin watched)
          /\ \A v \in Scanners : scanning'[v] = IF v = s THEN NoEntry ELSE scanning[v]
          /\ scanning' \in [Scanners -> Entries \cup {NoEntry}]
      BY <1>2, <1>5 DEF ScanEnd, WatchTypeOK, Known
    <2>2. WatchTypeOK' /\ Known'
      BY <1>1, <1>2, <2>1 DEF WatchTypeOK, Known
    <2>3. ASSUME NEW f \in Entries, Unreachable(f)
          PROVE  Unreachable(f)' /\ (f \notin orphans => f \notin orphans')
      BY <1>1, <2>1, <2>3, WatchlistAssumption DEF Unreachable
    <2>4. \A f \in erased' \ Excused' : f \notin watched' \cup orphans' /\ Unreachable(f)'
      BY <1>1, <1>2, <2>3 DEF WInv, Known, WatchTypeOK, Excused
    <2>5. ErasureSound'
      BY <1>1, <1>2, <2>3 DEF WInv, ErasureSound, Known, WatchTypeOK, Excused
    <2> QED
      BY <1>1, <1>3, <2>2, <2>4, <2>5 DEF WInv
  <1> QED
    BY <1>4, <1>5

\* What is under way is all that could write a row or leave a run.
LEMMA UnderWayReaches ==
    ASSUME WatchTypeOK
    PROVE  \A e \in Entries \ UnderWay : /\ ~Has(Line, Insert(e))
                                         /\ \A s \in Scanners : scanning[s] # e
  BY WatchLink DEF UnderWay

\* The steps of an erasure: what is not under way at its DELETE has nothing left
\* that could write it again.
LEMMA EraseKeepsWInv ==
    ASSUME WInv, EraseMemory \/ EraseTable \/ EraseFails \/ EraseEnds
    PROVE  WInv'
  <1>1. WatchTypeOK /\ Known /\ LinkOK(WatchOp)
    BY WatchLink DEF WInv
  <1>2. /\ UNCHANGED <<made, scanning, reboots, removed, undeleted>>
        /\ LinkOK(WatchOp)' /\ Line' = Line
    <2>1. UNCHANGED <<made, scanning, reboots, removed, undeleted>>
      BY DEF EraseMemory, EraseTable, EraseFails, EraseEnds, recordVars, removalVars, memoryVars
    <2>2. CASE EraseMemory
      BY <1>1, <2>1, <2>2, ConnectionKeepsLine DEF EraseMemory
    <2>3. CASE EraseTable \/ EraseFails \/ EraseEnds
      <3>1. UNCHANGED <<link, waiting, queue>>
        BY <2>3 DEF EraseTable, EraseFails, EraseEnds, adapterVars
      <3> QED
        BY <1>1, <2>1, <3>1 DEF LinkOK, Line
    <2> QED
      BY <2>2, <2>3
  <1>3. CASE EraseMemory
    <2>1. /\ erasure'.pc \in {"asking", "deleting"} /\ erasure'.of = made
          /\ erasure' \in [pc : {"idle", "asking", "deleting", "checking"}, of : SUBSET Entries]
          /\ watched' = {} /\ orphans' = {} /\ loading' = Detached
          /\ UNCHANGED <<table, erased, late, unreached>>
      BY <1>1, <1>3 DEF EraseMemory, recordVars, WatchTypeOK
    <2>2. loading' \in {"detached", "done"}
      BY <1>1, <2>1 DEF Detached, WatchTypeOK
    <2>3. WatchTypeOK' /\ Known'
      BY <1>1, <1>2, <2>1, <2>2 DEF WatchTypeOK, Known, LinkOK, WatchOp
    <2>4. \A e \in removed \ undeleted : RemovedGone(e)'
      BY <1>2, <2>1, <2>2 DEF WInv, RemovedGone
    <2>5. \A e \in erased \ Excused : Unreachable(e)'
      BY <1>2, <2>1 DEF WInv, Unreachable
    <2>6. ErasureSound'
      BY <2>1, <2>2 DEF ErasureSound
    <2> QED
      BY <1>2, <2>1, <2>3, <2>4, <2>5, <2>6 DEF WInv, Excused
  <1>4. CASE EraseTable
    <2>1. /\ erasure.pc = "deleting" /\ erasure' = [erasure EXCEPT !.pc = "checking"]
          /\ table' = {} /\ late' = late \cup UnderWay
          /\ UNCHANGED <<watched, orphans, loading, erased, unreached>>
      BY <1>4 DEF EraseTable, memoryVars
    <2>2. /\ erasure' \in [pc : {"idle", "asking", "deleting", "checking"}, of : SUBSET Entries]
          /\ erasure'.of = erasure.of /\ erasure'.pc = "checking"
      BY <1>1, <2>1 DEF WatchTypeOK
    <2>3. WatchTypeOK' /\ Known'
      BY <1>1, <1>2, <2>1, <2>2 DEF WatchTypeOK, Known, LinkOK, WatchOp
    <2>4. \A e \in removed \ undeleted : RemovedGone(e)'
      BY <1>2, <2>1 DEF WInv, RemovedGone
    <2>5. \A e \in Entries \ UnderWay : Unreachable(e)'
      BY <1>1, <1>2, <2>1, UnderWayReaches DEF Unreachable
    <2>6. \A e \in made : e \in Entries
      BY <1>1 DEF WatchTypeOK
    <2>7. \A e \in erased' \ Excused' : e \notin watched' \cup orphans' /\ Unreachable(e)'
      BY <1>1, <2>1, <2>5, <2>6 DEF WInv, Excused, Known
    <2>8. ErasureSound'
      BY <1>1, <2>1, <2>2, <2>5, <2>6 DEF WInv, ErasureSound, Excused, Known
    <2> QED
      BY <1>2, <2>3, <2>4, <2>7, <2>8 DEF WInv
  <1>5. CASE EraseFails \/ EraseEnds
    <2>1. /\ erasure' = NoErasure
          /\ UNCHANGED <<watched, orphans, loading, table, late, unreached>>
          /\ erased' \subseteq erased \cup erasure.of
          /\ erased' # erased => erasure.pc = "checking" /\ watched \cup orphans = {}
      <3>1. CASE EraseFails
        BY <3>1 DEF EraseFails, memoryVars
      <3>2. CASE EraseEnds
        BY <3>2 DEF EraseEnds, memoryVars
      <3> QED
        BY <1>5, <3>1, <3>2
    <2>2. WatchTypeOK' /\ Known'
      BY <1>1, <1>2, <2>1 DEF WatchTypeOK, Known, LinkOK, WatchOp, NoErasure
    <2>3. \A e \in removed \ undeleted : RemovedGone(e)'
      BY <1>2, <2>1 DEF WInv, RemovedGone
    <2>4. \A e : Unreachable(e) => Unreachable(e)'
      BY <1>2, <2>1 DEF Unreachable
    <2>5. \A e \in erased' \ Excused' : e \notin watched' \cup orphans' /\ Unreachable(e)'
      BY <2>1, <2>4 DEF WInv, ErasureSound, Excused
    <2>6. ErasureSound'
      BY <2>1 DEF ErasureSound, NoErasure
    <2> QED
      BY <1>2, <2>2, <2>3, <2>5, <2>6 DEF WInv
  <1> QED
    BY <1>3, <1>4, <1>5

-----------------------------------------------------------------------------
(* The chain and the connection keep WInv *)

\* An insertion that runs has its deletion behind it if the entry was removed.
LEMMA FlushKeepsWInv ==
    ASSUME WInv, NEW f \in Entries, FlushInsert(f) \/ FlushDelete(f) \/ FlushWriteFails(f)
    PROVE  WInv'
  <1>1. WatchTypeOK /\ Known /\ LinkOK(WatchOp)
    BY WatchLink DEF WInv
  <1>2. PICK v \in {Insert(f), Delete(f)} :
           /\ Runs(v)
           /\ table \subseteq table' \cup {f} /\ table' \subseteq table \cup {f}
           /\ f \in table' => f \in table \/ v = Insert(f)
           /\ v = Delete(f) => f \notin table' \/ f \in undeleted'
           /\ undeleted \subseteq undeleted'
           /\ UNCHANGED <<watched, orphans, made, scanning, loading, erasure, reboots,
                          removed, erased, late, unreached>>
    <2>1. CASE FlushInsert(f)
      BY <2>1, Ops DEF FlushInsert, memoryVars, removalVars
    <2>2. CASE FlushDelete(f)
      BY <2>2, Ops DEF FlushDelete, memoryVars, removalVars
    <2>3. CASE FlushWriteFails(f)
      <3>1. PICK v \in {Insert(f), Delete(f)} : Runs(v)
        BY <2>3 DEF FlushWriteFails
      <3>2. Head(queue) = v
        BY <3>1 DEF Runs
      <3> QED
        BY <2>3, <3>1, <3>2, Ops DEF FlushWriteFails, memoryVars
    <2> QED
      BY <2>1, <2>2, <2>3
  <1>3. /\ LinkOK(WatchOp)'
        /\ \A w : Has(Line, w) <=> w = v \/ Has(Line', w)
        /\ \A a, b : Follows(Line, a, b) => Follows(Line', a, b) /\ (a = v => Has(Line', b))
    BY <1>1, <1>2, RunsKeepLine
  <1>4. \A e \in Entries : e # f => (e \in table' <=> e \in table)
    BY <1>2
  <1>5. WatchTypeOK'
    BY <1>1, <1>2, <1>3 DEF WatchTypeOK, LinkOK, WatchOp
  <1>6. f \in table' => f \in made
    BY <1>1, <1>2, <1>3 DEF Known
  <1>7. Known'
    <2>1. \A e \in Entries : Has(Line', Insert(e)) => e \in made
      BY <1>1, <1>3 DEF Known
    <2>2. table' \subseteq made
      BY <1>1, <1>2, <1>6 DEF Known
    <2> QED
      BY <1>1, <1>2, <2>1, <2>2 DEF Known
  <1>8. ASSUME NEW e \in removed' \ undeleted'
        PROVE  RemovedGone(e)'
    <2>1. e \in Entries /\ RemovedGone(e)
      BY <1>1, <1>2, <1>8 DEF WInv, Known, WatchTypeOK
    <2>2. Follows(Line', Insert(e), Delete(e))
      BY <1>3, <2>1 DEF RemovedGone
    <2>3. e \in table' => Has(Line', Delete(e))
      <3>1. CASE e # f
        BY <1>2, <1>3, <1>4, <2>1, <3>1, Ops DEF RemovedGone
      <3>2. CASE e = f /\ v = Insert(f)
        BY <1>3, <2>1, <3>2 DEF RemovedGone
      <3>3. CASE e = f /\ v = Delete(f)
        BY <1>2, <1>8, <3>3
      <3> QED
        BY <1>2, <3>1, <3>2, <3>3
    <2>4. loading' = "waits" => e \notin table' /\ ~Has(Line', Insert(e))
      <3> SUFFICES ASSUME loading = "waits" PROVE e \notin table' /\ ~Has(Line', Insert(e))
        BY <1>2
      <3>1. e \notin table /\ ~Has(Line, Insert(e))
        BY <2>1 DEF RemovedGone
      <3>2. e = f => v # Insert(f)
        BY <1>3, <3>1
      <3> QED
        BY <1>2, <1>3, <1>4, <2>1, <3>1, <3>2
    <2> QED
      BY <1>2, <2>1, <2>2, <2>3, <2>4 DEF RemovedGone
  <1>9. ASSUME NEW e \in Entries, Unreachable(e)
        PROVE  Unreachable(e)'
    <2>1. ~Has(Line', Insert(e)) /\ (e = f => v # Insert(f))
      BY <1>3, <1>9 DEF Unreachable
    <2> QED
      BY <1>2, <1>4, <1>9, <2>1 DEF Unreachable
  <1>10. \A e \in made : e \in Entries
    BY <1>1 DEF WatchTypeOK
  <1>11. ErasureSound'
    BY <1>1, <1>2, <1>9, <1>10 DEF WInv, ErasureSound, Known, Excused
  <1>12. \A e \in erased' \ Excused' : e \notin watched' \cup orphans' /\ Unreachable(e)'
    BY <1>1, <1>2, <1>9, <1>10 DEF WInv, Known, Excused
  <1> QED
    BY <1>5, <1>7, <1>8, <1>11, <1>12 DEF WInv

\* The hydration runs, and finds no row of what was removed or erased.
LEMMA LoadKeepsWInv ==
    ASSUME WInv, LoadTable \/ LoadTableFails
    PROVE  WInv'
  <1>1. WatchTypeOK /\ Known /\ LinkOK(WatchOp)
    BY WatchLink DEF WInv
  <1>2. /\ Runs(Hydration)
        /\ loading' = "done"
        /\ watched \subseteq watched' /\ watched' \subseteq watched \cup table
        /\ loading # "waits" => watched' = watched
        /\ UNCHANGED <<orphans, made, scanning, erasure, table, reboots,
                       removed, undeleted, erased, late, unreached>>
    BY DEF LoadTable, LoadTableFails, memoryVars, removalVars
  <1>3. /\ LinkOK(WatchOp)'
        /\ \A w : Has(Line, w) <=> w = Hydration \/ Has(Line', w)
        /\ \A a, b : Follows(Line, a, b) => Follows(Line', a, b)
    BY <1>1, <1>2, RunsKeepLine
  <1>4. \A e \in Entries : /\ Has(Line', Insert(e)) <=> Has(Line, Insert(e))
                           /\ Has(Line', Delete(e)) <=> Has(Line, Delete(e))
    BY <1>3, Ops
  <1>5. WatchTypeOK'
    <2>1. orphans' \subseteq Entries \ watched'
      BY <1>1, <1>2 DEF WatchTypeOK, Known
    <2> QED
      BY <1>1, <1>2, <1>3, <2>1 DEF WatchTypeOK, LinkOK, WatchOp
  <1>6. Known'
    BY <1>1, <1>2, <1>4 DEF Known
  <1>7. \A e \in made : e \in Entries
    BY <1>1 DEF WatchTypeOK
  <1>8. ASSUME NEW e \in removed' \ undeleted'
        PROVE  RemovedGone(e)'
    <2>1. e \in Entries /\ RemovedGone(e)
      BY <1>1, <1>2, <1>7 DEF WInv, Known
    <2> QED
      BY <1>2, <1>3, <1>4, <2>1 DEF RemovedGone
  <1>9. \A e \in Entries : Unreachable(e) => Unreachable(e)' /\ (e \notin watched => e \notin watched')
    BY <1>2, <1>4 DEF Unreachable
  <1>10. ErasureSound'
    BY <1>1, <1>2, <1>7, <1>9 DEF WInv, ErasureSound, Known, Excused
  <1>11. \A e \in erased' \ Excused' : e \notin watched' \cup orphans' /\ Unreachable(e)'
    BY <1>1, <1>2, <1>7, <1>9 DEF WInv, Known, Excused
  <1> QED
    BY <1>5, <1>6, <1>8, <1>10, <1>11 DEF WInv

LEMMA OthersKeepWInv ==
    ASSUME WInv, OthersReplace
    PROVE  WInv'
  <1>1. /\ loading = "waits" /\ loading' = "detached"
        /\ UNCHANGED <<watched, orphans, made, scanning, erasure, table, reboots,
                       removed, undeleted, erased, late, unreached, link, waiting, queue>>
        /\ Line' = Line
    BY DEF OthersReplace, memoryVars, recordVars, removalVars, adapterVars, Line
  <1> QED
    BY <1>1 DEF WInv, WatchTypeOK, Known, RemovedGone, Unreachable, ErasureSound, Excused

\* An erasure that goes on has kept what it is about out of memory.
LEMMA ConnectionComesKeepsWInv ==
    ASSUME WInv, ConnectionComes
    PROVE  WInv'
  <1>1. WatchTypeOK /\ Known /\ LinkOK(WatchOp)
    BY WatchLink DEF WInv
  <1>2. /\ LinkOK(WatchOp)' /\ Line' = Line
        /\ UNCHANGED <<watched, orphans, made, scanning, loading, table, reboots,
                       removed, undeleted, erased, late, unreached>>
    BY <1>1, ConnectionKeepsLine
    DEF ConnectionComes, OthersCall, memoryVars, recordVars, removalVars
  <1>3. /\ erasure' \in [pc : {"idle", "asking", "deleting", "checking"}, of : SUBSET Entries]
        /\ erasure'.of = erasure.of
        /\ erasure' = erasure \/ (erasure.pc = "asking" /\ erasure'.pc = "deleting")
    <2>1. erasure \in [pc : {"idle", "asking", "deleting", "checking"}, of : SUBSET Entries]
      BY <1>1 DEF WatchTypeOK
    <2>2. CASE erasure' = erasure
      BY <2>1, <2>2
    <2>3. CASE erasure.pc = "asking" /\ erasure' = [erasure EXCEPT !.pc = "deleting"]
      BY <2>1, <2>3
    <2> QED
      BY <2>2, <2>3 DEF ConnectionComes
  <1>4. WatchTypeOK' /\ Known'
    BY <1>1, <1>2, <1>3 DEF WatchTypeOK, Known, LinkOK, WatchOp
  <1>5. \A e : /\ RemovedGone(e) => RemovedGone(e)'
               /\ Unreachable(e) => Unreachable(e)'
    BY <1>2 DEF RemovedGone, Unreachable
  <1>6. ErasureSound'
    BY <1>2, <1>3, <1>5 DEF WInv, ErasureSound, Excused
  <1> QED
    BY <1>2, <1>4, <1>5, <1>6 DEF WInv, Excused

\* What an erasure without a connection leaves is what it could not reach.
LEMMA ConnectionLostKeepsWInv ==
    ASSUME WInv, ConnectionLost
    PROVE  WInv'
  <1>1. WatchTypeOK /\ Known /\ LinkOK(WatchOp)
    BY WatchLink DEF WInv
  <1>2. /\ GivesUp
        /\ undeleted' = undeleted \cup {e \in Entries : IsWaiting(Delete(e))}
        /\ unreached' = IF erasure.pc = "asking" THEN unreached \cup table \cup UnderWay ELSE unreached
        /\ loading' \in {"done", loading}
        /\ UNCHANGED <<watched, orphans, made, scanning, table, reboots, removed, erased, late>>
    BY DEF ConnectionLost, memoryVars
  <1>3. /\ LinkOK(WatchOp)'
        /\ \A w : Has(Line, w) <=> Has(Line', w) \/ IsWaiting(w)
        /\ \A a, b : Follows(Line, a, b) /\ ~IsWaiting(b) => Follows(Line', a, b)
    BY <1>1, <1>2, GivesUpKeepsLine
  <1>4. /\ erasure' \in [pc : {"idle", "asking", "deleting", "checking"}, of : SUBSET Entries]
        /\ erasure'.of = erasure.of
        /\ \/ erasure' = erasure /\ erasure.pc # "asking"
           \/ erasure.pc = "asking" /\ erasure'.pc = "checking"
    <2>1. erasure \in [pc : {"idle", "asking", "deleting", "checking"}, of : SUBSET Entries]
      BY <1>1 DEF WatchTypeOK
    <2>2. CASE erasure.pc # "asking" /\ erasure' = erasure
      BY <2>1, <2>2
    <2>3. CASE erasure.pc = "asking" /\ erasure' = [erasure EXCEPT !.pc = "checking"]
      BY <2>1, <2>3
    <2> QED
      BY <2>2, <2>3 DEF ConnectionLost
  <1>5. WatchTypeOK' /\ Known'
    BY <1>1, <1>2, <1>3, <1>4 DEF WatchTypeOK, Known, LinkOK, WatchOp
  <1>6. ASSUME NEW e \in removed' \ undeleted'
        PROVE  RemovedGone(e)'
    <2>1. e \in Entries /\ RemovedGone(e) /\ ~IsWaiting(Delete(e))
      BY <1>1, <1>2, <1>6 DEF WInv, Known, WatchTypeOK
    <2> QED
      BY <1>2, <1>3, <2>1 DEF RemovedGone
  <1>7. \A e : Unreachable(e) => Unreachable(e)'
    BY <1>2, <1>3 DEF Unreachable
  <1>8. ErasureSound'
    <2>1. CASE erasure' = erasure /\ erasure.pc # "asking"
      BY <1>2, <1>7, <2>1 DEF WInv, ErasureSound, Excused
    <2>2. CASE erasure.pc = "asking" /\ erasure'.pc = "checking"
      <3>1. ASSUME NEW e \in erasure.of \ Excused'
            PROVE  Unreachable(e)'
        <4>1. e \in Entries /\ e \notin table /\ e \notin UnderWay
          BY <1>1, <1>2, <2>2, <3>1 DEF Excused, WatchTypeOK
        <4>2. Unreachable(e)
          BY <1>1, <4>1, UnderWayReaches DEF Unreachable
        <4> QED
          BY <1>7, <4>2
      <3> QED
        BY <1>2, <1>4, <2>2, <3>1 DEF WInv, ErasureSound
    <2> QED
      BY <1>4, <2>1, <2>2
  <1>9. \A e \in erased' \ Excused' : e \notin watched' \cup orphans' /\ Unreachable(e)'
    BY <1>2, <1>7 DEF WInv, Excused
  <1> QED
    BY <1>5, <1>6, <1>8, <1>9 DEF WInv

\* A process that starts holds nothing; a row it will show has no deletion that
\* the process before it took along.
LEMMA RebootKeepsWInv ==
    ASSUME WInv, Reboot
    PROVE  WInv'
  <1>1. WatchTypeOK /\ Known /\ LinkOK(WatchOp)
    BY WatchLink DEF WInv
  <1>2. /\ watched' = {} /\ orphans' = {} /\ loading' = "waits" /\ erasure' = NoErasure
        /\ scanning' = [s \in Scanners |-> NoEntry]
        /\ reboots' \in 0 .. MaxReboots
        /\ undeleted' = undeleted \cup {e \in Entries : IsPending(Delete(e))}
        /\ UNCHANGED <<made, table, removed, erased, late, unreached>>
        /\ Restarted
    BY <1>1, WatchlistAssumption DEF Reboot, WatchTypeOK
  <1>3. /\ LinkOK(WatchOp)'
        /\ \A w : Has(Line', w) <=> w = Hydration
        /\ \A a, b : a # Hydration => Follows(Line', a, b)
    BY <1>2, StartsLine DEF WatchOp
  <1>4. \A e \in Entries : ~Has(Line', Insert(e)) /\ Follows(Line', Insert(e), Delete(e))
    BY <1>3, Ops
  <1>5. WatchTypeOK' /\ Known'
    BY <1>1, <1>2, <1>3, <1>4 DEF WatchTypeOK, Known, LinkOK, WatchOp, NoErasure
  <1>6. ASSUME NEW e \in removed' \ undeleted'
        PROVE  RemovedGone(e)'
    <2>1. e \in Entries /\ RemovedGone(e)
      BY <1>1, <1>2, <1>6 DEF WInv, Known, WatchTypeOK
    <2>2. ~Has(Line, Delete(e))
      BY <1>1, <1>2, <1>6, <2>1, WatchLink
    <2>3. e \notin table
      BY <2>1, <2>2 DEF RemovedGone
    <2> QED
      BY <1>2, <1>4, <2>1, <2>3 DEF RemovedGone
  <1>7. \A e \in made : e \in Entries
    BY <1>1 DEF WatchTypeOK
  <1>8. \A e \in erased' \ Excused' : e \notin watched' \cup orphans' /\ Unreachable(e)'
    <2>1. ASSUME NEW e \in erased \ Excused
          PROVE  Unreachable(e)'
      <3>1. e \in Entries /\ e \notin table /\ e # NoEntry
        BY <1>1, <1>7, <2>1, WatchlistAssumption DEF WInv, Known, Unreachable
      <3> QED
        BY <1>2, <1>4, <3>1 DEF Unreachable
    <2> QED
      BY <1>2, <2>1 DEF Excused
  <1>9. ErasureSound'
    BY <1>2 DEF ErasureSound, NoErasure
  <1> QED
    BY <1>5, <1>6, <1>8, <1>9 DEF WInv

LEMMA WatchNextWInv == WInv /\ [WatchNext]_allWatchVars => WInv'
  <1> SUFFICES ASSUME WInv, [WatchNext]_allWatchVars PROVE WInv'
    OBVIOUS
  <1>1. ASSUME NEW t \in Tokens, Add(t)
        PROVE  WInv'
    BY <1>1, AddAllKeepsWInv DEF Add
  <1>2. ASSUME NEW n \in 1 .. MaxRows, NEW rows \in [1 .. n -> Tokens], Import(rows)
        PROVE  WInv'
    <2>1. Len(rows) \in Nat
      BY WatchlistAssumption
    <2> QED
      BY <1>2, <2>1, AddAllKeepsWInv DEF Import
  <1>3. CASE UNCHANGED allWatchVars
    <2>1. /\ UNCHANGED <<watched, orphans, made, scanning, loading, erasure, table, reboots,
                         removed, undeleted, erased, late, unreached, link, waiting, queue>>
          /\ Line' = Line
      BY <1>3 DEF allWatchVars, watchVars, memoryVars, recordVars, removalVars, adapterVars, Line
    <2> QED
      BY <2>1 DEF WInv, WatchTypeOK, Known, RemovedGone, Unreachable, ErasureSound, Excused
  <1> QED
    BY <1>1, <1>2, <1>3, RemoveKeepsWInv, ScanKeepsWInv, EraseKeepsWInv, FlushKeepsWInv,
       LoadKeepsWInv, OthersKeepWInv, ConnectionComesKeepsWInv, ConnectionLostKeepsWInv,
       RebootKeepsWInv
    DEF WatchNext

\* The strengthened invariant is an invariant of the watchlist.
THEOREM WatchInductive == WatchSpec => []WInv
  BY WatchInitWInv, WatchNextWInv, PTL DEF WatchSpec

\* Type correctness of the watchlist.
THEOREM WatchTyped == WatchSpec => []WatchTypeOK
  <1>1. WInv => WatchTypeOK
    BY DEF WInv
  <1> QED
    BY <1>1, WatchInductive, PTL

\* What the user removes comes back only if its deletion failed, was given up or
\* lost, or left its insertion behind.
THEOREM RemovedStays == WatchSpec => []RemovedStaysRemoved
  <1>1. WInv => RemovedStaysRemoved
    BY DEF WInv, RemovedStaysRemoved, RemovedGone
  <1> QED
    BY <1>1, WatchInductive, PTL

\* What an erasure that succeeded was about is found again only if it was under way
\* at the DELETE, or if the erasure got no connection.
THEOREM ErasedStays == WatchSpec => []ErasedComesBackLate
  <1>1. WInv => ErasedComesBackLate
    BY DEF WInv, ErasedComesBackLate, Unreachable, Excused
  <1> QED
    BY <1>1, WatchInductive, PTL

-----------------------------------------------------------------------------
(* The table and the memory *)

\* No insertion runs after the deletion of its entry.
DeletedLast(e) == Leads(Line, Insert(e), Delete(e))

\* A watched entry has a row or an insertion to come.  Of one that is not watched,
\* outside an erasure, the deletion follows every insertion, and the row.
Mirrored(e) ==
    /\ DeletedLast(e)
    /\ e \in watched => e \in table \/ Has(Line, Insert(e))
    /\ e \notin watched /\ erasure.pc \notin {"asking", "deleting"} =>
          /\ Follows(Line, Insert(e), Delete(e))
          /\ loading = "done" /\ e \in table => Has(Line, Delete(e))

\* What is to be deleted was removed from memory, and no hydration shows it again.
DeletedUnwatched ==
    \A e \in Entries : Has(Line, Delete(e)) => e \in made /\ e \notin watched /\ loading # "waits"

TInv ==
    /\ WInv
    /\ DeletedUnwatched
    /\ \A e \in Entries \ apart : Mirrored(e)

\* Without an operation of e, its order is right.
LEMMA NoneAgree ==
    \A q, a, b : /\ ~Has(q, a) => Follows(q, a, b) /\ Leads(q, a, b)
                 /\ ~Has(q, b) => Leads(q, a, b)
  BY DEF Has, Follows, Leads

LEMMA AddAllKeepsTInv ==
    ASSUME TInv, NEW rows, Len(rows) \in Nat, AddAll(rows)
    PROVE  TInv'
  <1>1. WInv /\ WatchTypeOK /\ Known /\ DeletedUnwatched
    BY DEF TInv, WInv
  <1>2. WInv'
    BY <1>1, AddAllKeepsWInv
  <1>3. /\ UNCHANGED <<loading, erasure, table, apart>>
        /\ made \subseteq made' /\ made' \subseteq Entries
        /\ watched' = watched \cup (made' \ made)
    BY <1>1, AddedWrites DEF recordVars
  <1>4. /\ \A e \in Entries : /\ Has(Line', Insert(e)) <=> Has(Line, Insert(e)) \/ e \in made' \ made
                              /\ Has(Line', Delete(e)) <=> Has(Line, Delete(e))
        /\ \A e \in Entries \ (made' \ made) :
              /\ Follows(Line, Insert(e), Delete(e)) => Follows(Line', Insert(e), Delete(e))
              /\ Leads(Line, Insert(e), Delete(e)) => Leads(Line', Insert(e), Delete(e))
    BY <1>1, AddedWrites
  <1>5. DeletedUnwatched'
    BY <1>1, <1>3, <1>4 DEF DeletedUnwatched
  <1>6. ASSUME NEW e \in Entries \ apart'
        PROVE  Mirrored(e)'
    <2>1. CASE e \in made' \ made
      <3>1. ~Has(Line', Delete(e))
        BY <1>1, <1>4, <2>1 DEF DeletedUnwatched
      <3>2. Leads(Line', Insert(e), Delete(e))
        BY <3>1, NoneAgree
      <3> QED
        BY <1>3, <1>4, <2>1, <3>2 DEF Mirrored, DeletedLast
    <2>2. CASE e \notin made' \ made
      <3>1. Mirrored(e)
        BY <1>3 DEF TInv
      <3> QED
        BY <1>3, <1>4, <2>2, <3>1 DEF Mirrored, DeletedLast
    <2> QED
      BY <2>1, <2>2
  <1> QED
    BY <1>2, <1>5, <1>6 DEF TInv

LEMMA RemoveKeepsTInv ==
    ASSUME TInv, NEW f \in Entries, RemoveEntry(f)
    PROVE  TInv'
  <1>1. WInv /\ WatchTypeOK /\ Known /\ DeletedUnwatched
    BY DEF TInv, WInv
  <1>2. WInv'
    BY <1>1, RemoveKeepsWInv
  <1>3. /\ f \in watched /\ f \in made
        /\ watched' = watched \ {f}
        /\ loading' = Detached
        /\ apart' = apart \cup {e \in {f} : Ready /\ IsWaiting(Insert(f))}
        /\ UNCHANGED <<made, erasure, table>>
    BY <1>1 DEF RemoveEntry, Known
  <1>4. loading' # "waits" /\ (loading' = "done" <=> loading = "done")
    BY <1>1, <1>3 DEF Detached, WatchTypeOK
  <1>5. /\ \A e \in Entries : /\ Has(Line', Insert(e)) <=> Has(Line, Insert(e))
                              /\ Has(Line', Delete(e)) <=> Has(Line, Delete(e)) \/ e = f
                              /\ Follows(Line, Insert(e), Delete(e))
                                    => Follows(Line', Insert(e), Delete(e))
        /\ \A e \in Entries \ {f} :
              Leads(Line, Insert(e), Delete(e)) => Leads(Line', Insert(e), Delete(e))
        /\ ~(Ready /\ IsWaiting(Insert(f))) =>
              /\ Follows(Line', Insert(f), Delete(f))
              /\ Leads(Line, Insert(f), Delete(f)) => Leads(Line', Insert(f), Delete(f))
    BY <1>1, RemovedLine
  <1>6. DeletedUnwatched'
    BY <1>1, <1>3, <1>4, <1>5 DEF DeletedUnwatched
  <1>7. ASSUME NEW e \in Entries \ apart'
        PROVE  Mirrored(e)'
    <2>1. Mirrored(e)
      BY <1>3 DEF TInv
    <2>2. CASE e = f
      <3>1. ~(Ready /\ IsWaiting(Insert(f)))
        BY <1>3, <1>7, <2>2
      <3> QED
        BY <1>3, <1>5, <2>1, <2>2, <3>1 DEF Mirrored, DeletedLast
    <2>3. CASE e # f
      BY <1>3, <1>4, <1>5, <2>1, <2>3 DEF Mirrored, DeletedLast
    <2> QED
      BY <2>2, <2>3
  <1> QED
    BY <1>2, <1>6, <1>7 DEF TInv

LEMMA ScanKeepsTInv ==
    ASSUME TInv, NEW s \in Scanners, ScanEnd(s) \/ \E e \in Entries : ScanBegin(s, e)
    PROVE  TInv'
  <1>1. WInv'
    BY ScanKeepsWInv DEF TInv
  <1>2. UNCHANGED <<watched, made, loading, erasure, table, apart>> /\ Line' = Line
    BY DEF ScanBegin, ScanEnd, recordVars, adapterVars, Line
  <1> QED
    BY <1>1, <1>2 DEF TInv, DeletedUnwatched, Mirrored, DeletedLast

\* What is to come, or was written again since memory was emptied, is known to
\* differ after the DELETE; everything else is gone from both.
LEMMA EraseKeepsTInv ==
    ASSUME TInv, EraseMemory \/ EraseTable \/ EraseFails \/ EraseEnds
    PROVE  TInv'
  <1>1. WInv /\ WatchTypeOK /\ DeletedUnwatched /\ LinkOK(WatchOp)
    BY WatchLink DEF TInv, WInv
  <1>2. WInv'
    BY <1>1, EraseKeepsWInv
  <1>3. made' = made /\ Line' = Line
    <2>1. CASE EraseMemory
      BY <1>1, <2>1, ConnectionKeepsLine DEF EraseMemory
    <2>2. CASE EraseTable \/ EraseFails \/ EraseEnds
      BY <2>2 DEF EraseTable, EraseFails, EraseEnds, memoryVars, adapterVars, Line
    <2> QED
      BY <2>1, <2>2
  <1>4. CASE EraseMemory
    <2>1. /\ watched' = {} /\ erasure'.pc \in {"asking", "deleting"}
          /\ loading' = Detached /\ apart' = apart
      BY <1>4 DEF EraseMemory, recordVars
    <2>2. loading' # "waits"
      BY <1>1, <2>1 DEF Detached, WatchTypeOK
    <2>3. DeletedUnwatched'
      BY <1>1, <1>3, <2>1, <2>2 DEF DeletedUnwatched
    <2> QED
      BY <1>2, <1>3, <2>1, <2>3 DEF TInv, Mirrored, DeletedLast
  <1>5. CASE EraseTable \/ EraseFails
    <2>1. /\ UNCHANGED <<watched, loading>>
          /\ \A e \in Entries \ apart' :
                /\ e \notin apart /\ e \notin table' /\ e \notin UnderWay
                /\ e \in watched => e \notin table
      BY <1>5 DEF EraseTable, EraseFails, memoryVars
    <2>2. DeletedUnwatched'
      BY <1>1, <1>3, <2>1 DEF DeletedUnwatched
    <2>3. ASSUME NEW e \in Entries \ apart'
          PROVE  Mirrored(e)'
      <3>1. ~Has(Line, Insert(e)) /\ Mirrored(e)
        BY <1>1, <2>1, UnderWayReaches DEF TInv
      <3>2. e \notin watched /\ Follows(Line, Insert(e), Delete(e))
        BY <2>1, <3>1, NoneAgree DEF Mirrored
      <3> QED
        BY <1>3, <2>1, <3>1, <3>2 DEF Mirrored, DeletedLast
    <2> QED
      BY <1>2, <2>2, <2>3 DEF TInv
  <1>6. CASE EraseEnds
    <2>1. UNCHANGED <<watched, loading, table, apart>> /\ erasure.pc \notin {"asking", "deleting"}
      BY <1>6 DEF EraseEnds, memoryVars
    <2> QED
      BY <1>2, <1>3, <2>1 DEF TInv, DeletedUnwatched, Mirrored, DeletedLast
  <1> QED
    BY <1>4, <1>5, <1>6

LEMMA FlushKeepsTInv ==
    ASSUME TInv, NEW f \in Entries, FlushInsert(f) \/ FlushDelete(f) \/ FlushWriteFails(f)
    PROVE  TInv'
  <1>1. WInv /\ WatchTypeOK /\ DeletedUnwatched /\ LinkOK(WatchOp)
    BY WatchLink DEF TInv, WInv
  <1>2. WInv'
    BY <1>1, FlushKeepsWInv
  <1>3. PICK v \in {Insert(f), Delete(f)} :
           /\ Runs(v)
           /\ \A e \in Entries \ {f} : e \in table' <=> e \in table
           /\ apart \subseteq apart' \cup {f}
           /\ f \notin apart' => IF v = Insert(f) THEN f \notin apart /\ f \in table'
                                 ELSE f \notin table' /\ (f \in apart => ~IsPending(Insert(f)))
           /\ UNCHANGED <<watched, made, loading, erasure>>
    <2>1. CASE FlushInsert(f)
      BY <2>1, Ops DEF FlushInsert, memoryVars
    <2>2. CASE FlushDelete(f)
      BY <2>2, Ops DEF FlushDelete, memoryVars
    <2>3. CASE FlushWriteFails(f)
      BY <2>3 DEF FlushWriteFails, memoryVars
    <2> QED
      BY <2>1, <2>2, <2>3
  <1>4. /\ \A w : Has(Line, w) <=> w = v \/ Has(Line', w)
        /\ \A a, b : Follows(Line, a, b) => Follows(Line', a, b) /\ (a = v => Has(Line', b))
        /\ \A a, b : Leads(Line, a, b) => Leads(Line', a, b) /\ (b = v => ~Has(Line', a))
    BY <1>1, <1>3, RunsKeepLine
  <1>5. DeletedUnwatched'
    BY <1>1, <1>3, <1>4 DEF DeletedUnwatched
  <1>6. ASSUME NEW e \in Entries \ apart', e # f
        PROVE  Mirrored(e)'
    <2>1. Mirrored(e)
      BY <1>3, <1>6 DEF TInv
    <2>2. /\ Has(Line', Insert(e)) <=> Has(Line, Insert(e))
          /\ Has(Line', Delete(e)) <=> Has(Line, Delete(e))
      BY <1>4, <1>6, Ops
    <2> QED
      BY <1>3, <1>4, <1>6, <2>1, <2>2 DEF Mirrored, DeletedLast
  <1>7. ASSUME f \notin apart'
        PROVE  Mirrored(f)'
    <2>1. CASE v = Insert(f)
      <3>1. f \in table' /\ Mirrored(f)
        BY <1>3, <1>7, <2>1 DEF TInv
      <3> QED
        BY <1>3, <1>4, <2>1, <3>1 DEF Mirrored, DeletedLast
    <2>2. CASE v = Delete(f)
      <3>1. f \notin table' /\ f \notin watched
        BY <1>1, <1>3, <1>4, <1>7, <2>2, Ops DEF DeletedUnwatched
      <3>2. ~Has(Line', Insert(f))
        <4>1. CASE f \in apart
          <5>1. ~Has(Line, Insert(f))
            BY <1>1, <1>3, <1>7, <2>2, <4>1, WatchLink, Ops
          <5> QED
            BY <1>4, <5>1
        <4>2. CASE f \notin apart
          BY <1>4, <2>2, <4>2 DEF TInv, Mirrored, DeletedLast
        <4> QED
          BY <4>1, <4>2
      <3> QED
        BY <1>3, <3>1, <3>2, NoneAgree DEF Mirrored, DeletedLast
    <2> QED
      BY <1>3, <2>1, <2>2
  <1> QED
    BY <1>2, <1>5, <1>6, <1>7 DEF TInv

LEMMA LoadKeepsTInv ==
    ASSUME TInv, LoadTable \/ LoadTableFails
    PROVE  TInv'
  <1>1. WInv /\ WatchTypeOK /\ DeletedUnwatched /\ LinkOK(WatchOp)
    BY WatchLink DEF TInv, WInv
  <1>2. WInv'
    BY <1>1, LoadKeepsWInv
  <1>3. /\ Runs(Hydration)
        /\ loading' = "done"
        /\ watched \subseteq watched' /\ watched' \subseteq watched \cup table
        /\ loading # "waits" => watched' = watched
        /\ \A e \in Entries \ apart' : e \notin apart /\ (e \in table => e \in watched')
        /\ UNCHANGED <<made, erasure, table>>
    BY DEF LoadTable, LoadTableFails, memoryVars
  <1>4. /\ \A w : Has(Line, w) <=> w = Hydration \/ Has(Line', w)
        /\ \A a, b : Follows(Line, a, b) => Follows(Line', a, b)
        /\ \A a, b : Leads(Line, a, b) => Leads(Line', a, b)
    BY <1>1, <1>3, RunsKeepLine
  <1>5. \A e \in Entries : /\ Has(Line', Insert(e)) <=> Has(Line, Insert(e))
                           /\ Has(Line', Delete(e)) <=> Has(Line, Delete(e))
    BY <1>4, Ops
  <1>6. DeletedUnwatched'
    BY <1>1, <1>3, <1>5 DEF DeletedUnwatched
  <1>7. ASSUME NEW e \in Entries \ apart'
        PROVE  Mirrored(e)'
    <2>1. Mirrored(e)
      BY <1>3 DEF TInv
    <2> QED
      BY <1>3, <1>4, <1>5, <2>1 DEF Mirrored, DeletedLast
  <1> QED
    BY <1>2, <1>6, <1>7 DEF TInv

LEMMA OthersKeepTInv ==
    ASSUME TInv, OthersReplace
    PROVE  TInv'
  <1>1. WInv'
    BY OthersKeepWInv DEF TInv
  <1>2. /\ loading = "waits" /\ loading' = "detached"
        /\ UNCHANGED <<watched, made, erasure, table, apart>>
        /\ Line' = Line
    BY DEF OthersReplace, memoryVars, recordVars, adapterVars, Line
  <1> QED
    BY <1>1, <1>2 DEF TInv, DeletedUnwatched, Mirrored, DeletedLast

LEMMA ConnectionComesKeepsTInv ==
    ASSUME TInv, ConnectionComes
    PROVE  TInv'
  <1>1. WInv /\ WatchTypeOK /\ LinkOK(WatchOp)
    BY WatchLink DEF TInv, WInv
  <1>2. WInv'
    BY <1>1, ConnectionComesKeepsWInv
  <1>3. UNCHANGED <<watched, made, loading, table, apart>> /\ Line' = Line
    BY <1>1, ConnectionKeepsLine DEF ConnectionComes, OthersCall, memoryVars, recordVars
  <1>4. erasure'.pc \notin {"asking", "deleting"} => erasure.pc \notin {"asking", "deleting"}
    <2>1. erasure \in [pc : {"idle", "asking", "deleting", "checking"}, of : SUBSET Entries]
      BY <1>1 DEF WatchTypeOK
    <2>2. erasure' = erasure \/ erasure' = [erasure EXCEPT !.pc = "deleting"]
      BY DEF ConnectionComes
    <2> QED
      BY <2>1, <2>2
  <1> QED
    BY <1>2, <1>3, <1>4 DEF TInv, DeletedUnwatched, Mirrored, DeletedLast

\* What waits for a connection that is given up, and what an erasure or a hydration
\* would have found with it, is known to differ.
LEMMA ConnectionLostKeepsTInv ==
    ASSUME TInv, ConnectionLost
    PROVE  TInv'
  <1>1. WInv /\ WatchTypeOK /\ DeletedUnwatched /\ LinkOK(WatchOp)
    BY WatchLink DEF TInv, WInv
  <1>2. WInv'
    BY <1>1, ConnectionLostKeepsWInv
  <1>3. /\ GivesUp
        /\ UNCHANGED <<watched, made, table>>
        /\ loading' = IF IsWaiting(Hydration) THEN "done" ELSE loading
        /\ \A e \in Entries \ apart' :
              /\ e \notin apart /\ ~IsWaiting(Insert(e)) /\ ~IsWaiting(Delete(e))
              /\ e \notin watched /\ erasure.pc = "asking" => e \notin table /\ e \notin UnderWay
              /\ e \notin watched /\ erasure.pc # "asking" /\ IsWaiting(Hydration) => e \notin table
        /\ erasure.pc # "deleting"
    BY DEF ConnectionLost, memoryVars
  <1>4. /\ \A w : Has(Line, w) <=> Has(Line', w) \/ IsWaiting(w)
        /\ \A a, b : Follows(Line, a, b) /\ ~IsWaiting(b) => Follows(Line', a, b)
        /\ \A a, b : Leads(Line, a, b) => Leads(Line', a, b)
    BY <1>1, <1>3, GivesUpKeepsLine
  <1>5. DeletedUnwatched'
    BY <1>1, <1>3, <1>4 DEF DeletedUnwatched
  <1>6. ASSUME NEW e \in Entries \ apart'
        PROVE  Mirrored(e)'
    <2>1. Mirrored(e)
      BY <1>3 DEF TInv
    <2>2. /\ Has(Line', Insert(e)) <=> Has(Line, Insert(e))
          /\ Has(Line', Delete(e)) <=> Has(Line, Delete(e))
      BY <1>3, <1>4, <1>6
    <2>3. DeletedLast(e)'
      BY <1>4, <2>1 DEF Mirrored, DeletedLast
    <2>4. CASE erasure.pc = "asking"
      <3>1. e \notin watched => e \notin table /\ ~Has(Line, Insert(e))
        BY <1>1, <1>3, <1>6, <2>4, UnderWayReaches
      <3>2. e \notin watched => Follows(Line', Insert(e), Delete(e))
        BY <2>2, <3>1, NoneAgree
      <3> QED
        BY <1>3, <2>1, <2>2, <2>3, <3>1, <3>2 DEF Mirrored
    <2>5. CASE erasure.pc # "asking"
      <3>1. ASSUME e \notin watched
            PROVE  /\ Follows(Line', Insert(e), Delete(e))
                   /\ loading' = "done" /\ e \in table => Has(Line', Delete(e))
        BY <1>3, <1>4, <1>6, <2>1, <2>2, <2>5, <3>1 DEF Mirrored
      <3> QED
        BY <1>3, <2>1, <2>2, <2>3, <3>1 DEF Mirrored
    <2> QED
      BY <2>4, <2>5
  <1> QED
    BY <1>2, <1>5, <1>6 DEF TInv

LEMMA RebootKeepsTInv ==
    ASSUME TInv, Reboot
    PROVE  TInv'
  <1>1. WInv'
    BY RebootKeepsWInv DEF TInv
  <1>2. watched' = {} /\ loading' = "waits" /\ Restarted
    BY DEF Reboot
  <1>3. \A w : Has(Line', w) <=> w = Hydration
    BY <1>2, StartsLine DEF WatchOp
  <1>4. \A e \in Entries : ~Has(Line', Insert(e)) /\ ~Has(Line', Delete(e))
    BY <1>3, Ops
  <1> QED
    BY <1>1, <1>2, <1>4, NoneAgree DEF TInv, DeletedUnwatched, Mirrored, DeletedLast

LEMMA WatchInitTInv == WatchInit => TInv
  <1> SUFFICES ASSUME WatchInit PROVE TInv
    OBVIOUS
  <1>1. WInv
    BY WatchInitWInv
  <1>2. watched = {} /\ loading = "waits" /\ AdapterInit
    BY DEF WatchInit
  <1>3. \A w : Has(Line, w) <=> w = Hydration
    BY <1>2, StartsLine DEF WatchOp
  <1>4. \A e \in Entries : ~Has(Line, Insert(e)) /\ ~Has(Line, Delete(e))
    BY <1>3, Ops
  <1> QED
    BY <1>1, <1>2, <1>4, NoneAgree DEF TInv, DeletedUnwatched, Mirrored, DeletedLast

LEMMA WatchNextTInv == TInv /\ [WatchNext]_allWatchVars => TInv'
  <1> SUFFICES ASSUME TInv, [WatchNext]_allWatchVars PROVE TInv'
    OBVIOUS
  <1>1. ASSUME NEW t \in Tokens, Add(t)
        PROVE  TInv'
    BY <1>1, AddAllKeepsTInv DEF Add
  <1>2. ASSUME NEW n \in 1 .. MaxRows, NEW rows \in [1 .. n -> Tokens], Import(rows)
        PROVE  TInv'
    <2>1. Len(rows) \in Nat
      BY WatchlistAssumption
    <2> QED
      BY <1>2, <2>1, AddAllKeepsTInv DEF Import
  <1>3. CASE UNCHANGED allWatchVars
    <2>1. WInv'
      BY <1>3, WatchNextWInv DEF TInv
    <2>2. UNCHANGED <<watched, made, loading, erasure, table, apart>> /\ Line' = Line
      BY <1>3 DEF allWatchVars, watchVars, memoryVars, recordVars, adapterVars, Line
    <2> QED
      BY <2>1, <2>2 DEF TInv, DeletedUnwatched, Mirrored, DeletedLast
  <1> QED
    BY <1>1, <1>2, <1>3, RemoveKeepsTInv, ScanKeepsTInv, EraseKeepsTInv, FlushKeepsTInv,
       LoadKeepsTInv, OthersKeepTInv, ConnectionComesKeepsTInv, ConnectionLostKeepsTInv,
       RebootKeepsTInv
    DEF WatchNext

\* Once its writes have run, an entry that is not known to differ has a row if and
\* only if it is watched.
THEOREM TableFollows == WatchSpec => []TableFollowsMemory
  <1>1. TInv => TableFollowsMemory
    <2> SUFFICES ASSUME TInv, NEW e \in Entries, loading = "done",
                        erasure.pc \notin {"asking", "deleting"},
                        ~IsPending(Insert(e)), ~IsPending(Delete(e)), e \notin apart
                 PROVE  e \in watched <=> e \in table
      BY DEF TableFollowsMemory
    <2>1. Mirrored(e) /\ WatchTypeOK
      BY DEF TInv, WInv
    <2>2. ~Has(Line, Insert(e)) /\ ~Has(Line, Delete(e))
      BY <2>1, WatchLink
    <2> QED
      BY <2>1, <2>2 DEF Mirrored
  <1> QED
    BY <1>1, WatchInitTInv, WatchNextTInv, PTL DEF WatchSpec

=============================================================================
