---------------------------- MODULE FanoutProofs ----------------------------
(***************************************************************************)
(* The safety theorems of Fanout, for any number of connections, frames    *)
(* and messages, any capacities and any patterns.                          *)
(***************************************************************************)
EXTENDS Fanout, SequenceTheorems, WellFoundedInduction, TLAPS

(* Induction *)

\* The least-number principle for sets.
LEMMA LeastNumber == ASSUME NEW T, T \subseteq Nat, T # {} PROVE \E m \in T : \A n \in T : m <= n
  <1> DEFINE R == {ss \in Nat \X Nat : ss[1] < ss[2]}
  <1>1. IsWellFoundedOn(R, Nat)
    BY NatLessThanWellFounded DEF OpToRel
  <1>2. ASSUME NEW x \in Nat, NEW y \in Nat PROVE <<y, x>> \in R <=> y < x
    <2>1. <<y, x>> \in Nat \X Nat /\ <<y, x>>[1] = y /\ <<y, x>>[2] = x
      OBVIOUS
    <2> QED BY <2>1, Zenon
  <1> HIDE DEF R
  <1>3. PICK m \in T : \A y \in T : ~ (<<y, m>> \in R)
    BY <1>1, WFMin
  <1>4. ASSUME NEW n \in T PROVE m <= n
    <2>1. m \in Nat /\ n \in Nat /\ ~(<<n, m>> \in R)
      BY <1>3
    <2>2. ~(n < m)
      BY <1>2, <2>1
    <2> QED BY <2>1, <2>2
  <1> QED BY <1>4

\* Downward induction on a set.
LEMMA DownwardInduction ==
    ASSUME NEW m \in Nat, NEW S, m \in S, \A n \in Nat : n < m /\ n + 1 \in S => n \in S
    PROVE  \A n \in 0..m : n \in S
  <1> DEFINE T == {k \in 0..m : m - k \notin S}
  <1> SUFFICES ASSUME NEW n \in 0..m, n \notin S PROVE FALSE
    OBVIOUS
  <1>1. m - n \in T
    OBVIOUS
  <1>2. PICK k \in T : \A j \in T : k <= j
    <2>1. T \subseteq Nat /\ T # {}
      BY <1>1
    <2> HIDE DEF T
    <2> QED BY <2>1, LeastNumber
  <1>3. k # 0 /\ k \in 1..m /\ m - k \notin S
    OBVIOUS
  <1>4. k - 1 \notin T
    BY <1>2, <1>3
  <1>5. (m - k) + 1 \in S
    BY <1>3, <1>4
  <1> QED BY <1>3, <1>5
-----------------------------------------------------------------------------
(* Topics *)

\* What topic_matches finds from segment i on, without the loop.
MatchesFrom(p, t, i) ==
    \/ /\ Len(t) = Len(p)
       /\ \A j \in i..Len(p) : p[j] # "#" /\ p[j] \in {"*", t[j]}
    \/ /\ i <= Len(p) /\ p[Len(p)] = "#"
       /\ \A j \in i..(Len(p) - 1) : j <= Len(t) /\ p[j] # "#" /\ p[j] \in {"*", t[j]}

\* The loop's body, with g for what it finds in the next round.
MatchBody(p, t, g, i) ==
    IF i > Len(p) THEN Len(t) = Len(p)
    ELSE IF p[i] = "#" THEN i = Len(p)
    ELSE i <= Len(t) /\ p[i] \in {"*", t[i]} /\ g[i + 1]

LEMMA MatchesFromStep ==
    ASSUME NEW p \in Seq(STRING), NEW t \in Seq(STRING), NEW i \in 1..(Len(p) + 1), NEW g,
           i <= Len(p) => (g[i + 1] <=> MatchesFrom(p, t, i + 1))
    PROVE  MatchesFrom(p, t, i) <=> MatchBody(p, t, g, i)
  <1> USE DEF MatchesFrom, MatchBody
  <1>0. Len(p) \in Nat /\ Len(t) \in Nat
    OBVIOUS
  <1>1. CASE i > Len(p)
    BY <1>0, <1>1
  <1>2. CASE i <= Len(p) /\ p[i] = "#"
    BY <1>0, <1>2
  <1>3. CASE i <= Len(p) /\ p[i] # "#"
    BY <1>0, <1>3
  <1> QED BY <1>0, <1>1, <1>2, <1>3

LEMMA TopicMatchesMeans ==
    ASSUME NEW p \in Seq(STRING), NEW t \in Seq(STRING)
    PROVE  TopicMatches(p, t) <=> MatchesFrom(p, t, 1)
  <1> DEFINE L == Len(p)
             D == 1..(L + 1)
             f == [i \in D |-> MatchesFrom(p, t, i)]
             from == CHOOSE g : g = [i \in D |-> MatchBody(p, t, g, i)]
  <1>0. L \in Nat
    OBVIOUS
  <1>1. f = [i \in D |-> MatchBody(p, t, f, i)]
    <2>1. ASSUME NEW i \in D PROVE MatchesFrom(p, t, i) <=> MatchBody(p, t, f, i)
      <3>1. i <= L => i + 1 \in D /\ f[i + 1] = MatchesFrom(p, t, i + 1)
        OBVIOUS
      <3> QED BY <3>1, MatchesFromStep
    <2>2. ASSUME NEW i \in D
          PROVE  MatchesFrom(p, t, i) \in BOOLEAN /\ MatchBody(p, t, f, i) \in BOOLEAN
      BY Zenon DEF MatchesFrom, MatchBody
    <2>3. \A i \in D : MatchesFrom(p, t, i) = MatchBody(p, t, f, i)
      BY <2>1, <2>2, Zenon
    <2> QED BY <2>3, Zenon
  <1>2. from = [i \in D |-> MatchBody(p, t, from, i)]
    <2> HIDE DEF f
    <2> QED BY <1>1, Zenon
  <1>3. TopicMatches(p, t) = from[1]
    BY Zenon DEF TopicMatches, MatchBody
  <1> HIDE DEF from
  <1> DEFINE S == {i \in Nat : i >= 1 => (from[i] <=> MatchesFrom(p, t, i))}
  <1>4. ASSUME NEW i \in D, i <= L => (from[i + 1] <=> MatchesFrom(p, t, i + 1)) PROVE i \in S
    <2>1. from[i] = MatchBody(p, t, from, i)
      BY <1>2
    <2>2. MatchesFrom(p, t, i) <=> MatchBody(p, t, from, i)
      BY <1>4, MatchesFromStep
    <2> QED BY <2>1, <2>2
  <1>5. L + 1 \in S
    BY <1>0, <1>4
  <1>6. ASSUME NEW n \in Nat, n < L + 1, n + 1 \in S PROVE n \in S
    <2>1. CASE n = 0
      BY <2>1
    <2>2. CASE n # 0
      BY <1>0, <1>4, <1>6, <2>2
    <2> QED BY <2>1, <2>2
  <1>7. 1 \in S
    <2> HIDE DEF S
    <2>1. \A n \in 0..(L + 1) : n \in S
      BY <1>0, <1>5, <1>6, DownwardInduction
    <2> QED BY <1>0, <2>1
  <1> QED BY <1>3, <1>7

\* A pattern that ends in # stands for the topics that begin with the rest.
LEMMA DenotesMeans ==
    ASSUME NEW p \in Seq(STRING), NEW t \in Seq(STRING), \A i \in DOMAIN t : t[i] # "#"
    PROVE  Denotes(p, t) <=> MatchesFrom(p, t, 1)
  <1> DEFINE L == Len(p)
             q(n) == SubSeq(p, 1, L - 1) \o [i \in 1..n |-> "*"]
  <1>0. L \in Nat /\ Len(t) \in Nat /\ DOMAIN t = 1..Len(t) /\ DOMAIN p = 1..L
    OBVIOUS
  <1>1. CASE p = <<>> \/ p[L] # "#"
    <2>1. Denotes(p, t) <=> Len(p) = Len(t) /\ \A i \in DOMAIN p : p[i] \in {"*", t[i]}
      <3>1. ~(p # <<>> /\ p[Len(p)] = "#") /\ 0 \in 0..Len(t)
        BY <1>0, <1>1
      <3> QED BY <3>1, Zenon DEF Denotes
    <2>2. ~(1 <= L /\ p[L] = "#")
      BY <1>0, <1>1
    <2> QED BY <1>0, <2>1, <2>2 DEF MatchesFrom
  <1>2. CASE p # <<>> /\ p[L] = "#"
    <2>0. L \in Nat \ {0}
      BY <1>0, <1>2
    <2> DEFINE m == L - 1
    <2>1. ASSUME NEW n \in Nat
          PROVE  /\ Len(q(n)) = m + n /\ DOMAIN q(n) = 1..(m + n)
                 /\ \A i \in 1..(m + n) : q(n)[i] = IF i <= m THEN p[i] ELSE "*"
      <3> DEFINE a == SubSeq(p, 1, m)
                 b == [i \in 1..n |-> "*"]
                 U == STRING \union {"*"}
      <3>1. m \in Nat /\ \A i \in 1..m : p[i] \in U
        BY <1>0, <2>0
      <3>2. a \in Seq(U) /\ Len(a) = m /\ \A i \in 1..m : a[i] = p[i]
        <4> HIDE DEF m, U
        <4>1. \A i \in 1..m : p[i] \in U
          BY <3>1
        <4>2. 1 \in Int /\ m \in Int
          BY <3>1
        <4>3. /\ a \in Seq(U) /\ Len(a) = IF 1 <= m THEN m - 1 + 1 ELSE 0
              /\ \A i \in 1..(m - 1 + 1) : a[i] = p[1 + i - 1]
          BY <4>1, <4>2, SubSeqProperties
        <4> HIDE DEF a
        <4>4. Len(a) = m
          BY <3>1, <4>3
        <4>5. ASSUME NEW i \in 1..m PROVE a[i] = p[i]
          <5>1. i \in 1..(m - 1 + 1) /\ 1 + i - 1 = i
            BY <3>1
          <5>2. a[i] = p[1 + i - 1]
            BY <4>3, <5>1
          <5> QED BY <5>1, <5>2
        <4> QED BY <4>3, <4>4, <4>5
      <3>3. b \in Seq(U) /\ Len(b) = n /\ \A i \in 1..n : b[i] = "*"
        <4>1. b \in [1..n -> U]
          BY Zenon
        <4>2. \A i \in 1..n : b[i] = "*"
          BY Zenon
        <4> HIDE DEF b, U
        <4>3. b \in Seq(U)
          BY <4>1, SeqDef
        <4>4. DOMAIN b = 1..n /\ DOMAIN b = 1..Len(b) /\ Len(b) \in Nat
          BY <4>1, <4>3, LenProperties
        <4>5. Len(b) = n
          BY <4>4
        <4> QED BY <4>2, <4>3, <4>5
      <3>4. /\ a \o b \in Seq(U) /\ Len(a \o b) = Len(a) + Len(b)
            /\ \A i \in 1..(Len(a) + Len(b)) : (a \o b)[i] = IF i <= Len(a) THEN a[i] ELSE b[i - Len(a)]
        <4> HIDE DEF a, b, U
        <4> QED BY <3>2, <3>3, ConcatProperties
      <3>5. q(n) = a \o b
        OBVIOUS
      <3> HIDE DEF a, b, m, q, U
      <3>6. DOMAIN q(n) = 1..(m + n)
        BY <3>2, <3>3, <3>4, <3>5
      <3>7. ASSUME NEW i \in 1..(m + n) PROVE q(n)[i] = IF i <= m THEN p[i] ELSE "*"
        <4>1. CASE i <= m
          BY <3>1, <3>2, <3>3, <3>4, <3>5, <4>1
        <4>2. CASE ~(i <= m)
          <5>1. i - m \in 1..n
            BY <3>1, <4>2
          <5> QED BY <3>1, <3>2, <3>3, <3>4, <3>5, <4>2, <5>1
        <4> QED BY <4>1, <4>2
      <3> QED BY <3>2, <3>3, <3>4, <3>5, <3>6, <3>7
    <2>2. Denotes(p, t) <=>
            \E n \in 0..Len(t) : Len(q(n)) = Len(t) /\ \A i \in DOMAIN q(n) : q(n)[i] \in {"*", t[i]}
      BY <1>2 DEF Denotes
    <2> HIDE DEF q
    <2>3. ASSUME NEW n \in 0..Len(t), Len(q(n)) = Len(t), \A i \in DOMAIN q(n) : q(n)[i] \in {"*", t[i]}
          PROVE  MatchesFrom(p, t, 1)
      <3>1. n \in Nat /\ m \in Nat /\ L = m + 1
        BY <1>0, <2>0
      <3> HIDE DEF m
      <3>2. Len(t) = m + n /\ DOMAIN q(n) = 1..Len(t) /\ \A j \in 1..Len(t) : j <= m => q(n)[j] = p[j]
        BY <2>1, <2>3, <3>1
      <3>3. \A j \in 1..m : j \in 1..Len(t) /\ q(n)[j] = p[j]
        BY <3>1, <3>2
      <3>4. \A j \in 1..m : j <= Len(t) /\ j \in DOMAIN t /\ p[j] \in {"*", t[j]}
        BY <1>0, <2>3, <3>2, <3>3
      <3>5. \A j \in 1..m : p[j] # "#"
        BY <3>4
      <3>6. m = Len(p) - 1
        BY DEF m
      <3>7. \A j \in 1..(Len(p) - 1) : j <= Len(t) /\ p[j] # "#" /\ p[j] \in {"*", t[j]}
        BY <3>4, <3>5, <3>6
      <3>8. 1 <= Len(p) /\ p[Len(p)] = "#"
        BY <1>2, <2>0
      <3> QED BY <3>7, <3>8, Zenon DEF MatchesFrom
    <2>4. ASSUME MatchesFrom(p, t, 1) PROVE Denotes(p, t)
      <3>1. \A j \in 1..(L - 1) : j <= Len(t) /\ p[j] \in {"*", t[j]}
        <4>1. ~(\A j \in 1..L : p[j] # "#")
          BY <1>2, <2>0
        <4> QED BY <2>4, <4>1 DEF MatchesFrom
      <3>2. L - 1 <= Len(t)
        BY <1>0, <2>0, <3>1
      <3>3. Len(t) - (L - 1) \in 0..Len(t)
        BY <1>0, <2>0, <3>2
      <3> DEFINE n == Len(t) - (L - 1)
      <3>4. Len(q(n)) = Len(t) /\ \A i \in DOMAIN q(n) : q(n)[i] \in {"*", t[i]}
        <4>1. n \in Nat /\ m + n = Len(t)
          BY <1>0, <2>0, <3>3
        <4>2. /\ Len(q(n)) = Len(t) /\ DOMAIN q(n) = 1..Len(t)
              /\ \A i \in 1..Len(t) : q(n)[i] = IF i <= m THEN p[i] ELSE "*"
          <5> HIDE DEF m, n
          <5> QED BY <2>1, <4>1
        <4> HIDE DEF n
        <4>3. ASSUME NEW i \in 1..Len(t) PROVE q(n)[i] \in {"*", t[i]}
          <5>1. CASE i <= m
            BY <1>0, <2>0, <3>1, <4>2, <5>1
          <5>2. CASE ~(i <= m)
            BY <4>2, <5>2
          <5> QED BY <5>1, <5>2
        <4> QED BY <4>2, <4>3
      <3> QED BY <2>2, <3>3, <3>4
    <2> QED BY <2>2, <2>3, <2>4
  <1> QED BY <1>1, <1>2

\* topic_matches finds the topics that a pattern stands for.
LEMMA TopicsMatched ==
    ASSUME NEW p \in Patterns, NEW t \in Topics PROVE TopicMatches(p, t) <=> Denotes(p, t)
  <1>1. p \in Seq(STRING) /\ t \in Seq(STRING) /\ \A i \in DOMAIN t : t[i] # "#"
    BY FanoutAssumption
  <1> QED BY <1>1, TopicMatchesMeans, DenotesMeans
-----------------------------------------------------------------------------
(* Queues of frames *)

LEMMA QueueTyped ==
    ASSUME NEW w \in Seq(Frame), NEW o \in Seq(Frame)
    PROVE  /\ w \o o \in Seq(Frame) /\ Len(w \o o) = Len(w) + Len(o)
           /\ \A i \in 1..Len(w) : i \in 1..Len(w \o o) /\ (w \o o)[i] = w[i]
  OBVIOUS

\* A frame appended to the outbound queue is appended to the whole.
LEMMA QueueAppend ==
    ASSUME NEW w \in Seq(Frame), NEW o \in Seq(Frame), NEW f \in Frame
    PROVE  w \o Append(o, f) = Append(w \o o, f)
  <1>1. w \o Append(o, f) \in Seq(Frame) /\ Append(w \o o, f) \in Seq(Frame)
    OBVIOUS
  <1>2. Len(w \o Append(o, f)) = Len(Append(w \o o, f))
    OBVIOUS
  <1>3. ASSUME NEW i \in 1..Len(Append(w \o o, f))
        PROVE  (w \o Append(o, f))[i] = Append(w \o o, f)[i]
    <2>1. CASE i <= Len(w)
      BY <2>1
    <2>2. CASE i > Len(w) /\ i <= Len(w) + Len(o)
      BY <2>2
    <2>3. CASE i = Len(w) + Len(o) + 1
      BY <2>3
    <2> QED BY <2>1, <2>2, <2>3
  <1> QED BY <1>1, <1>2, <1>3, SeqEqual

\* Writing a frame moves it from one part of the whole to the other.
LEMMA QueueWrite ==
    ASSUME NEW w \in Seq(Frame), NEW o \in Seq(Frame), o # <<>>
    PROVE  Append(w, Head(o)) \o Tail(o) = w \o o
  <1>1. Append(w, Head(o)) \o Tail(o) \in Seq(Frame) /\ w \o o \in Seq(Frame)
    OBVIOUS
  <1>2. Len(Append(w, Head(o)) \o Tail(o)) = Len(w \o o)
    OBVIOUS
  <1>3. ASSUME NEW i \in 1..Len(w \o o)
        PROVE  (Append(w, Head(o)) \o Tail(o))[i] = (w \o o)[i]
    <2>1. CASE i <= Len(w)
      BY <2>1
    <2>2. CASE i = Len(w) + 1
      BY <2>2
    <2>3. CASE i > Len(w) + 1
      BY <2>3
    <2> QED BY <2>1, <2>2, <2>3
  <1> QED BY <1>1, <1>2, <1>3, SeqEqual

\* What appending does to a set of positions and to their numbers.
LEMMA NumbersKept ==
    ASSUME NEW q \in Seq(Frame), NEW f \in Frame, NEW P, P \subseteq DOMAIN q
    PROVE  Numbers(Append(q, f), P) = Numbers(q, P) /\ (Rising(q, P) => Rising(Append(q, f), P))
  <1> DEFINE r == Append(q, f)
  <1>1. \A i \in P : r[i] = q[i]
    OBVIOUS
  <1> HIDE DEF r
  <1>2. Numbers(r, P) = Numbers(q, P)
    BY <1>1 DEF Numbers
  <1>3. Rising(q, P) => Rising(r, P)
    BY <1>1 DEF Rising
  <1> QED BY <1>2, <1>3 DEF r

LEMMA NumbersAppend ==
    ASSUME NEW q \in Seq(Frame), NEW f \in Frame, NEW P, P \subseteq DOMAIN q,
           Rising(q, P), \A i \in P : q[i].n < f.n
    PROVE  /\ Numbers(Append(q, f), P \union {Len(q) + 1}) = Numbers(q, P) \union {f.n}
           /\ Rising(Append(q, f), P \union {Len(q) + 1})
  <1> DEFINE r == Append(q, f)
  <1>1. /\ \A i \in P : r[i] = q[i] /\ i \in Nat /\ i < Len(q) + 1
        /\ r[Len(q) + 1] = f /\ Len(q) + 1 \in Nat
    OBVIOUS
  <1> HIDE DEF r
  <1>2. Numbers(r, P \union {Len(q) + 1}) = Numbers(q, P) \union {f.n}
    BY <1>1 DEF Numbers
  <1>3. Rising(r, P \union {Len(q) + 1})
    BY <1>1 DEF Rising
  <1> QED BY <1>2, <1>3 DEF r

LEMMA EventsAppend ==
    ASSUME NEW q \in Seq(Frame), NEW f \in Frame, NEW s
    PROVE  /\ f.kind = "event" /\ f.sub = s => EventFrames(Append(q, f), s) = EventFrames(q, s) \union {Len(q) + 1}
           /\ ~(f.kind = "event" /\ f.sub = s) => EventFrames(Append(q, f), s) = EventFrames(q, s)
  <1> DEFINE r == Append(q, f)
  <1>1. /\ DOMAIN r = DOMAIN q \union {Len(q) + 1} /\ Len(q) + 1 \notin DOMAIN q
        /\ r[Len(q) + 1] = f /\ \A i \in DOMAIN q : r[i] = q[i]
    OBVIOUS
  <1> HIDE DEF r
  <1>2. /\ f.kind = "event" /\ f.sub = s => EventFrames(r, s) = EventFrames(q, s) \union {Len(q) + 1}
        /\ ~(f.kind = "event" /\ f.sub = s) => EventFrames(r, s) = EventFrames(q, s)
    BY <1>1 DEF EventFrames
  <1> QED BY <1>2 DEF r

LEMMA ResponsesAppend ==
    ASSUME NEW q \in Seq(Frame), NEW f \in Frame
    PROVE  /\ f.kind = "response" => Responses(Append(q, f)) = Responses(q) \union {Len(q) + 1}
           /\ f.kind # "response" => Responses(Append(q, f)) = Responses(q)
  <1> DEFINE r == Append(q, f)
  <1>1. /\ DOMAIN r = DOMAIN q \union {Len(q) + 1} /\ Len(q) + 1 \notin DOMAIN q
        /\ r[Len(q) + 1] = f /\ \A i \in DOMAIN q : r[i] = q[i]
    OBVIOUS
  <1> HIDE DEF r
  <1>2. /\ f.kind = "response" => Responses(r) = Responses(q) \union {Len(q) + 1}
        /\ f.kind # "response" => Responses(r) = Responses(q)
    BY <1>1 DEF Responses
  <1> QED BY <1>2 DEF r

-----------------------------------------------------------------------------
(* Responses in order *)

LEMMA ResponseQueued ==
    ASSUME NEW q \in Seq(Frame), NEW n \in Nat, NEW m \in Nat, m = n + 1, InOrder(q, n, TRUE)
    PROVE  InOrder(Append(q, Response(m)), m, TRUE)
  <1>0. /\ Response(m) \in Frame /\ Response(m).kind = "response" /\ Response(m).n = m
        /\ Responses(q) \subseteq DOMAIN q
    BY DEF Response, Frame, Responses
  <1> DEFINE r == Append(q, Response(m))
             P == Responses(q)
  <1>1. Responses(r) = P \union {Len(q) + 1}
    BY <1>0, ResponsesAppend
  <1>2. Rising(q, P) /\ Numbers(q, P) = 1..n
    BY DEF InOrder
  <1>3. \A i \in P : q[i].n < m
    <2> HIDE DEF P
    <2>1. \A i \in P : q[i].n \in Numbers(q, P)
      BY DEF Numbers
    <2> QED BY <1>2, <2>1
  <1>4. Rising(r, P \union {Len(q) + 1}) /\ Numbers(r, P \union {Len(q) + 1}) = 1..n \union {m}
    <2>1. \A i \in P : q[i].n < Response(m).n
      BY <1>0, <1>3
    <2>2. /\ Rising(r, P \union {Len(q) + 1})
          /\ Numbers(r, P \union {Len(q) + 1}) = Numbers(q, P) \union {Response(m).n}
      BY <1>0, <1>2, <2>1, NumbersAppend, Zenon
    <2> QED BY <1>0, <1>2, <2>2, Zenon
  <1>5. 1..n \union {m} = 1..m /\ m \in 0..m
    OBVIOUS
  <1> HIDE DEF r, P
  <1>6. InOrder(r, m, TRUE)
    BY <1>1, <1>4, <1>5 DEF InOrder
  <1> QED BY <1>6 DEF r

LEMMA EventQueuedInOrder ==
    ASSUME NEW q \in Seq(Frame), NEW n \in Nat, NEW f \in Frame, f.kind = "event",
           NEW whole \in BOOLEAN, InOrder(q, n, whole)
    PROVE  InOrder(Append(q, f), n, whole)
  <1>1. f.kind # "response" /\ Responses(q) \subseteq DOMAIN q
    BY DEF Responses
  <1>2. Responses(Append(q, f)) = Responses(q)
    BY <1>1, ResponsesAppend
  <1>3. /\ Numbers(Append(q, f), Responses(q)) = Numbers(q, Responses(q))
        /\ Rising(q, Responses(q)) => Rising(Append(q, f), Responses(q))
    BY <1>1, NumbersKept, Zenon
  <1> QED BY <1>2, <1>3, Zenon DEF InOrder

\* A set of numbers that goes down to 1 without a gap is an interval.
LEMMA Interval ==
    ASSUME NEW k \in Nat, NEW S, S \subseteq 1..k,
           \A n \in S : \A m \in 1..k : m < n => m \in S
    PROVE  \E j \in 0..k : S = 1..j
  <1> DEFINE T == {x \in 0..k : x + 1 \notin S}
  <1>1. k \in T
    OBVIOUS
  <1>2. PICK j \in T : \A x \in T : j <= x
    <2>1. T \subseteq Nat /\ T # {}
      BY <1>1
    <2> HIDE DEF T
    <2> QED BY <2>1, LeastNumber
  <1>3. j \in 0..k /\ j + 1 \notin S
    OBVIOUS
  <1>4. ASSUME NEW x \in 1..j PROVE x \in S
    <2>1. x - 1 \in 0..k /\ ~(j <= x - 1)
      BY <1>3
    <2>2. x - 1 \notin T
      BY <1>2, <2>1
    <2> QED BY <2>1, <2>2
  <1>5. ASSUME NEW x \in S PROVE x \in 1..j
    <2>1. SUFFICES ASSUME x > j PROVE FALSE
      BY <1>3
    <2>2. x # j + 1 /\ j + 1 \in 1..k /\ j + 1 < x
      BY <1>3, <2>1
    <2> QED BY <1>3, <2>2
  <1> QED BY <1>3, <1>4, <1>5

\* A queue that is cut short still holds the responses in order, to the first frames.
LEMMA CutInOrder ==
    ASSUME NEW q \in Seq(Frame), NEW w \in Seq(Frame), NEW n \in Nat, NEW whole \in BOOLEAN,
           \A i \in 1..Len(w) : i \in 1..Len(q) /\ q[i] = w[i],
           InOrder(q, n, whole)
    PROVE  InOrder(w, n, FALSE)
  <1> DEFINE S == Numbers(w, Responses(w))
  <1>1. PICK k \in 0..n : Numbers(q, Responses(q)) = 1..k
    BY DEF InOrder
  <1>2. Rising(q, Responses(q))
    BY DEF InOrder
  <1>3. /\ \A i \in Responses(w) : i \in Responses(q) /\ w[i] = q[i] /\ i \in 1..Len(w)
        /\ \A i \in Responses(q) : i \in Nat /\ (i <= Len(w) => i \in Responses(w))
    BY DEF Responses
  <1>4. Rising(w, Responses(w))
    BY <1>2, <1>3 DEF Rising
  <1>5. S \subseteq 1..k
    BY <1>1, <1>3 DEF Numbers
  <1>6. ASSUME NEW x \in S, NEW m \in 1..k, m < x PROVE m \in S
    <2>1. PICK i \in Responses(w) : x = w[i].n
      BY DEF Numbers
    <2>2. PICK j \in Responses(q) : m = q[j].n
      BY <1>1 DEF Numbers
    <2>3. i \in Responses(q) /\ i \in 1..Len(w) /\ x = q[i].n /\ j \in Nat
      BY <1>3, <2>1
    <2>4. ~(i < j)
      <3>1. x \in 1..k
        BY <1>5
      <3> QED BY <1>2, <1>6, <2>2, <2>3, <3>1 DEF Rising
    <2>5. j \in Responses(w) /\ w[j] = q[j]
      BY <1>3, <2>2, <2>3, <2>4
    <2> QED BY <2>2, <2>5 DEF Numbers
  <1>7. \E j \in 0..k : S = 1..j
    <2> HIDE DEF S
    <2>1. k \in Nat /\ \A x \in S : \A m \in 1..k : m < x => m \in S
      BY <1>6
    <2> QED BY <1>5, <2>1, Interval, Zenon
  <1>8. \E j \in 0..n : S = 1..j
    BY <1>7
  <1> QED BY <1>4, <1>8 DEF InOrder
-----------------------------------------------------------------------------
(* Faithful streams *)

\* A frame that is not of subscription s leaves its stream alone.
LEMMA OtherFrameQueued ==
    ASSUME NEW q \in Seq(Frame), NEW g \in Frame, NEW s, NEW f, NEW due, NEW whole,
           ~(g.kind = "event" /\ g.sub = s), Faithful(q, s, f, due, whole)
    PROVE  Faithful(Append(q, g), s, f, due, whole)
  <1> DEFINE r == Append(q, g)
             P == EventFrames(q, s)
  <1>1. P \subseteq DOMAIN q /\ \A i \in P : r[i] = q[i]
    BY DEF EventFrames
  <1>2. EventFrames(r, s) = P
    BY EventsAppend
  <1>3. Numbers(r, P) = Numbers(q, P) /\ (Rising(q, P) => Rising(r, P))
    BY <1>1, NumbersKept, Zenon
  <1> HIDE DEF r
  <1>4. Faithful(r, s, f, due, whole)
    BY <1>1, <1>2, <1>3, Zenon DEF Faithful, Passed
  <1> QED BY <1>4 DEF r

\* The message in the forwarder's hands goes to the queue.
LEMMA MessageQueued ==
    ASSUME NEW q \in Seq(Frame), NEW s \in Nat, NEW f \in Sub, NEW h \in Sub, NEW due, NEW whole,
           f.msg # 0, h.msg = 0, h.lagged = f.lagged, Faithful(q, s, f, due, whole)
    PROVE  Faithful(Append(q, Event(f.msg, s)), s, h, due, whole)
  <1> DEFINE r == Append(q, Event(f.msg, s))
             P == EventFrames(q, s)
  <1>0. /\ Event(f.msg, s) \in Frame /\ Event(f.msg, s).kind = "event"
        /\ Event(f.msg, s).sub = s /\ Event(f.msg, s).n = f.msg /\ P \subseteq DOMAIN q
    BY DEF Event, Frame, Sub, EventFrames
  <1>1. EventFrames(r, s) = P \union {Len(q) + 1}
    BY <1>0, EventsAppend
  <1>2. Rising(q, P) /\ \A i \in P : q[i].n < f.msg
    BY DEF Faithful
  <1>3. /\ Numbers(r, P \union {Len(q) + 1}) = Numbers(q, P) \union {f.msg}
        /\ Rising(r, P \union {Len(q) + 1})
    <2>1. \A i \in P : q[i].n < Event(f.msg, s).n
      BY <1>0, <1>2
    <2> QED BY <1>0, <1>2, <2>1, NumbersAppend, Zenon
  <1>4. Passed(r, s, h) = Passed(q, s, f)
    BY <1>1, <1>3 DEF Passed
  <1> HIDE DEF r
  <1>5. Faithful(r, s, h, due, whole)
    BY <1>1, <1>3, <1>4 DEF Faithful
  <1> QED BY <1>5 DEF r

\* A queue that is cut short holds part of what it held.
LEMMA CutFaithful ==
    ASSUME NEW q \in Seq(Frame), NEW w \in Seq(Frame), NEW s, NEW f, NEW due, NEW whole,
           \A i \in 1..Len(w) : i \in 1..Len(q) /\ q[i] = w[i],
           Faithful(q, s, f, due, whole)
    PROVE  Faithful(w, s, f, due, FALSE)
  <1>1. \A i \in EventFrames(w, s) : i \in EventFrames(q, s) /\ w[i] = q[i]
    BY DEF EventFrames
  <1>2. Rising(w, EventFrames(w, s))
    BY <1>1 DEF Rising, Faithful
  <1>3. f.msg # 0 => \A i \in EventFrames(w, s) : w[i].n < f.msg
    BY <1>1 DEF Faithful
  <1>4. Passed(w, s, f) \subseteq due
    BY <1>1 DEF Faithful, Passed, Numbers
  <1> QED BY <1>2, <1>3, <1>4 DEF Faithful

\* Faithful depends on the message in hand and the lag of a subscription only.
LEMMA FaithfulSame ==
    ASSUME NEW q, NEW s, NEW f, NEW h, NEW due, NEW whole,
           h.msg = f.msg, h.lagged = f.lagged, Faithful(q, s, f, due, whole)
    PROVE  Faithful(q, s, h, due, whole)
  BY Zenon DEF Faithful, Passed

\* Without the message in hand what is left of a cut queue is still due.
LEMMA DroppedFaithful ==
    ASSUME NEW q, NEW s, NEW f, NEW h, NEW due, NEW whole, h.msg = 0, Faithful(q, s, f, due, whole)
    PROVE  Faithful(q, s, h, due, FALSE)
  BY DEF Faithful, Passed

\* The next message: of another topic, or taken in hand.
LEMMA NextMessage ==
    ASSUME NEW q \in Seq(Frame), NEW s, NEW f \in Sub, NEW h \in Sub, NEW due, NEW due2, NEW whole,
           NEW n \in Nat \ {0}, f.msg = 0, \A m \in due : m \in Nat /\ m < n,
           \/ h.msg = 0 /\ due2 = due
           \/ h.msg = n /\ due2 = due \union {n},
           f.lagged => h.lagged, Faithful(q, s, f, due, whole)
    PROVE  Faithful(q, s, h, due2, whole)
  <1>1. \A i \in EventFrames(q, s) : q[i].n \in due
    BY DEF Faithful, Passed, Numbers
  <1>2. h.msg # 0 => \A i \in EventFrames(q, s) : q[i].n < h.msg
    BY <1>1
  <1>3. Passed(q, s, f) = Numbers(q, EventFrames(q, s))
    BY DEF Passed
  <1>4. \/ Passed(q, s, h) = Passed(q, s, f) /\ due2 = due
        \/ Passed(q, s, h) = Passed(q, s, f) \union {n} /\ due2 = due \union {n}
    BY <1>3 DEF Passed
  <1>5. h.lagged \in BOOLEAN /\ f.lagged \in BOOLEAN
    BY DEF Sub
  <1> QED BY <1>2, <1>4, <1>5 DEF Faithful

\* A receiver that lagged behind goes on at message n, and is marked for it.
Skips(f, h, due, due2, n) ==
    /\ f.msg = 0 /\ (\A m \in due : m < n) /\ due \subseteq due2
    /\ (h.msg = 0 \/ (h.msg = n /\ n \in due2)) /\ h.lagged

\* After a lag what is due grows by the messages that were skipped.
LEMMA Skipped ==
    ASSUME NEW q, NEW s, NEW f, NEW h, NEW due, NEW due2, NEW whole, NEW n,
           Skips(f, h, due, due2, n), Faithful(q, s, f, due, whole)
    PROVE  Faithful(q, s, h, due2, whole)
  <1>0. /\ f.msg = 0 /\ (\A m \in due : m < n) /\ due \subseteq due2
        /\ (h.msg = 0 \/ (h.msg = n /\ n \in due2)) /\ h.lagged
    BY DEF Skips
  <1>1. Rising(q, EventFrames(q, s)) /\ \A i \in EventFrames(q, s) : q[i].n \in due
    BY <1>0 DEF Faithful, Passed, Numbers
  <1>2. h.msg # 0 => \A i \in EventFrames(q, s) : q[i].n < h.msg
    BY <1>0, <1>1
  <1>3. Passed(q, s, h) \subseteq due2
    BY <1>0, <1>1 DEF Passed, Numbers
  <1> QED BY <1>0, <1>1, <1>2, <1>3 DEF Faithful

\* A new subscription: nothing is due and nothing is queued.
LEMMA NewFaithful ==
    ASSUME NEW q \in Seq(Frame), NEW s, NEW f, NEW whole, f.msg = 0, EventFrames(q, s) = {}
    PROVE  Faithful(q, s, f, {}, whole)
  BY DEF Faithful, Passed, Numbers, Rising

-----------------------------------------------------------------------------
(* The inductive invariant, connection by connection *)

\* The messages that a subscription asked for, among those of a channel.
DueIn(pub, f) == {n \in DOMAIN pub : f.since < n /\ n < f.cursor /\ Denotes(f.pat, pub[n])}

\* A forwarder's cursor is past where it began and at most one past the last
\* message; it has a message in its hands exactly while it sends one.
SubOK(pub, q, s, f, whole) ==
    /\ f.since < f.cursor /\ f.cursor <= Len(pub) + 1
    /\ (f.pc = "send") <=> (f.msg # 0)
    /\ Faithful(q, s, f, DueIn(pub, f), whole)

ConnTyped(rd, sb, o, wr, w) ==
    /\ rd \in [pc : {"open", "reply", "closing", "closed"}, frames : 0..MaxFrames]
    /\ sb \in Seq(Sub) /\ o \in Seq(Frame) /\ Len(o) <= OutCapacity
    /\ wr \in {"up", "down"} /\ w \in Seq(Frame)

\* A reply is under way for a frame that was read.
AnswersOK(rd, q, whole) ==
    /\ rd.pc = "reply" => rd.frames > 0
    /\ InOrder(q, rd.frames - (IF rd.pc = "reply" THEN 1 ELSE 0), whole)

\* The events in a queue are of subscriptions that were opened.
Owned(q, sb) == \A i \in DOMAIN q : q[i].kind = "event" => q[i].sub \in DOMAIN sb

ConnOK(pub, rd, sb, o, wr, w) ==
    /\ ConnTyped(rd, sb, o, wr, w)
    /\ AnswersOK(rd, w \o o, wr = "up")
    /\ Owned(w \o o, sb)
    /\ \A s \in DOMAIN sb : SubOK(pub, w \o o, s, sb[s], wr = "up")

ConnInv(c) == ConnOK(published, reader[c], subs[c], out[c], writer[c], wire[c])

FanInv ==
    /\ published \in Seq(Topics)
    /\ DOMAIN reader = Conns /\ DOMAIN subs = Conns /\ DOMAIN out = Conns
    /\ DOMAIN writer = Conns /\ DOMAIN wire = Conns
    /\ \A c \in Conns : ConnInv(c)
-----------------------------------------------------------------------------
(* What each operation does to one connection *)

\* A message published is beyond every cursor.
LEMMA PublishOK ==
    ASSUME NEW pub \in Seq(Topics), NEW t \in Topics, NEW rd, NEW sb, NEW o, NEW wr, NEW w,
           ConnOK(pub, rd, sb, o, wr, w)
    PROVE  ConnOK(Append(pub, t), rd, sb, o, wr, w)
  <1> SUFFICES ASSUME NEW s \in DOMAIN sb
               PROVE  SubOK(Append(pub, t), w \o o, s, sb[s], wr = "up")
    BY DEF ConnOK
  <1> DEFINE f == sb[s]
             pub2 == Append(pub, t)
  <1>1. SubOK(pub, w \o o, s, f, wr = "up")
    BY DEF ConnOK
  <1>2. f \in Sub
    BY DEF ConnOK, ConnTyped
  <1>3. /\ DOMAIN pub2 = DOMAIN pub \union {Len(pub) + 1}
        /\ \A n \in DOMAIN pub : pub2[n] = pub[n]
        /\ Len(pub2) = Len(pub) + 1 /\ Len(pub) \in Nat
    OBVIOUS
  <1>4. f.cursor \in Nat /\ f.cursor <= Len(pub) + 1
    BY <1>1, <1>2 DEF SubOK, Sub
  <1> HIDE DEF f, pub2
  <1>5. DueIn(pub2, f) = DueIn(pub, f)
    BY <1>3, <1>4 DEF DueIn
  <1>6. f.cursor <= Len(pub2) + 1
    BY <1>3, <1>4
  <1>7. SubOK(pub2, w \o o, s, f, wr = "up")
    BY <1>1, <1>5, <1>6 DEF SubOK
  <1> QED BY <1>7 DEF f, pub2

\* A frame is read: its response is owed.
LEMMA HandledOK ==
    ASSUME NEW pub, NEW rd, NEW sb, NEW o, NEW wr, NEW w, ConnOK(pub, rd, sb, o, wr, w),
           rd.pc = "open", rd.frames < MaxFrames
    PROVE  ConnOK(pub, [pc |-> "reply", frames |-> rd.frames + 1], sb, o, wr, w)
  <1> DEFINE r2 == [pc |-> "reply", frames |-> rd.frames + 1]
  <1>1. ConnTyped(rd, sb, o, wr, w) /\ AnswersOK(rd, w \o o, wr = "up")
    BY DEF ConnOK
  <1>2. /\ rd.frames \in Nat /\ r2.pc = "reply" /\ r2.frames = rd.frames + 1
        /\ r2 \in [pc : {"open", "reply", "closing", "closed"}, frames : 0..MaxFrames]
    BY <1>1, FanoutAssumption DEF ConnTyped
  <1>3. rd.frames - (IF rd.pc = "reply" THEN 1 ELSE 0) = r2.frames - (IF r2.pc = "reply" THEN 1 ELSE 0)
    BY <1>2
  <1>4. r2.frames > 0
    BY <1>2
  <1> HIDE DEF r2
  <1>5. AnswersOK(r2, w \o o, wr = "up")
    BY <1>1, <1>3, <1>4 DEF AnswersOK
  <1>6. ConnTyped(r2, sb, o, wr, w)
    BY <1>1, <1>2 DEF ConnTyped
  <1>7. ConnOK(pub, r2, sb, o, wr, w)
    BY <1>5, <1>6 DEF ConnOK
  <1> QED BY <1>7 DEF r2

\* The read loop moves on without a frame.
LEMMA ReaderOK ==
    ASSUME NEW pub, NEW rd, NEW sb, NEW o, NEW wr, NEW w, ConnOK(pub, rd, sb, o, wr, w),
           rd.pc # "reply", NEW p \in {"closing", "closed"}
    PROVE  ConnOK(pub, [rd EXCEPT !.pc = p], sb, o, wr, w)
  <1> DEFINE r2 == [rd EXCEPT !.pc = p]
  <1>1. ConnTyped(rd, sb, o, wr, w) /\ AnswersOK(rd, w \o o, wr = "up")
    BY DEF ConnOK
  <1>2. /\ r2.pc # "reply" /\ r2.frames = rd.frames
        /\ r2 \in [pc : {"open", "reply", "closing", "closed"}, frames : 0..MaxFrames]
    BY <1>1 DEF ConnTyped
  <1> HIDE DEF r2
  <1>3. AnswersOK(r2, w \o o, wr = "up")
    BY <1>1, <1>2 DEF AnswersOK
  <1>4. ConnTyped(r2, sb, o, wr, w)
    BY <1>1, <1>2 DEF ConnTyped
  <1>5. ConnOK(pub, r2, sb, o, wr, w)
    BY <1>3, <1>4 DEF ConnOK
  <1> QED BY <1>5 DEF r2

\* A subscription is opened: no event of the queue is its own.
LEMMA SubscribeOK ==
    ASSUME NEW pub \in Seq(Topics), NEW rd, NEW sb, NEW o, NEW wr, NEW w,
           ConnOK(pub, rd, sb, o, wr, w), NEW p \in Patterns
    PROVE  ConnOK(pub, rd,
              Append(sb, [pat |-> p, pc |-> "recv", cursor |-> Len(pub) + 1, msg |-> 0,
                          cancelled |-> FALSE, since |-> Len(pub), lagged |-> FALSE]), o, wr, w)
  <1> DEFINE h == [pat |-> p, pc |-> "recv", cursor |-> Len(pub) + 1, msg |-> 0,
                   cancelled |-> FALSE, since |-> Len(pub), lagged |-> FALSE]
             sb2 == Append(sb, h)
             q == w \o o
  <1>1. /\ ConnTyped(rd, sb, o, wr, w) /\ Owned(q, sb)
        /\ \A s \in DOMAIN sb : SubOK(pub, q, s, sb[s], wr = "up")
    BY DEF ConnOK
  <1>2. h \in Sub /\ h.since = Len(pub) /\ h.cursor = Len(pub) + 1 /\ h.msg = 0 /\ h.pc = "recv"
    BY DEF Sub
  <1>3. sb \in Seq(Sub) /\ q \in Seq(Frame)
    BY <1>1 DEF ConnTyped
  <1> HIDE DEF h
  <1>4. /\ sb2 \in Seq(Sub) /\ DOMAIN sb2 = DOMAIN sb \union {Len(sb) + 1}
        /\ Len(sb) + 1 \notin DOMAIN sb /\ sb2[Len(sb) + 1] = h /\ \A s \in DOMAIN sb : sb2[s] = sb[s]
    BY <1>2, <1>3
  <1> HIDE DEF sb2, q
  <1>5. EventFrames(q, Len(sb) + 1) = {}
    BY <1>1, <1>4 DEF Owned, EventFrames
  <1>6. DueIn(pub, h) = {}
    BY <1>2 DEF DueIn
  <1>7. Faithful(q, Len(sb) + 1, h, {}, wr = "up")
    BY <1>2, <1>3, <1>5, NewFaithful
  <1>8. SubOK(pub, q, Len(sb) + 1, h, wr = "up")
    BY <1>2, <1>6, <1>7 DEF SubOK
  <1>9. \A s \in DOMAIN sb2 : SubOK(pub, q, s, sb2[s], wr = "up")
    BY <1>1, <1>4, <1>8
  <1>10. ConnTyped(rd, sb2, o, wr, w) /\ Owned(q, sb2)
    BY <1>1, <1>4 DEF ConnTyped, Owned
  <1>11. ConnOK(pub, rd, sb2, o, wr, w)
    BY <1>9, <1>10 DEF ConnOK, q
  <1> QED BY <1>11 DEF sb2, h

\* Handles dropped and forwarders stopped: nothing that was passed on changes.
LEMMA HandlesOK ==
    ASSUME NEW pub, NEW rd, NEW sb, NEW sb2 \in Seq(Sub), NEW o, NEW wr, NEW w,
           ConnOK(pub, rd, sb, o, wr, w), DOMAIN sb2 = DOMAIN sb,
           \A s \in DOMAIN sb :
              /\ sb2[s].pat = sb[s].pat /\ sb2[s].cursor = sb[s].cursor /\ sb2[s].msg = sb[s].msg
              /\ sb2[s].since = sb[s].since /\ sb2[s].lagged = sb[s].lagged
              /\ (sb2[s].pc = "send" <=> sb[s].pc = "send")
    PROVE  ConnOK(pub, rd, sb2, o, wr, w)
  <1>1. ASSUME NEW s \in DOMAIN sb PROVE SubOK(pub, w \o o, s, sb2[s], wr = "up")
    <2> DEFINE f == sb[s]
               h == sb2[s]
    <2>1. /\ h.pat = f.pat /\ h.cursor = f.cursor /\ h.msg = f.msg /\ h.since = f.since
          /\ h.lagged = f.lagged /\ (h.pc = "send" <=> f.pc = "send")
      OBVIOUS
    <2>2. SubOK(pub, w \o o, s, f, wr = "up")
      BY DEF ConnOK
    <2> HIDE DEF f, h
    <2>3. DueIn(pub, h) = DueIn(pub, f)
      BY <2>1 DEF DueIn
    <2>4. Faithful(w \o o, s, h, DueIn(pub, f), wr = "up")
      BY <2>1, <2>2, FaithfulSame, Zenon DEF SubOK
    <2>5. SubOK(pub, w \o o, s, h, wr = "up")
      BY <2>1, <2>2, <2>3, <2>4 DEF SubOK
    <2> QED BY <2>5 DEF h
  <1>2. ConnTyped(rd, sb2, o, wr, w) /\ Owned(w \o o, sb2)
    BY DEF ConnOK, ConnTyped, Owned
  <1>3. \A s \in DOMAIN sb2 : SubOK(pub, w \o o, s, sb2[s], wr = "up")
    BY <1>1
  <1> QED BY <1>2, <1>3 DEF ConnOK

\* A response takes its place at the end of the queue.
LEMMA ReplyOK ==
    ASSUME NEW pub, NEW rd, NEW sb, NEW o, NEW wr, NEW w, ConnOK(pub, rd, sb, o, wr, w),
           rd.pc = "reply", wr = "up", Len(o) < OutCapacity
    PROVE  ConnOK(pub, [rd EXCEPT !.pc = "open"], sb, Append(o, Response(rd.frames)), wr, w)
  <1> DEFINE r2 == [rd EXCEPT !.pc = "open"]
             n == rd.frames
             q == w \o o
             o2 == Append(o, Response(n))
  <1>1. /\ ConnTyped(rd, sb, o, wr, w) /\ AnswersOK(rd, q, TRUE) /\ Owned(q, sb)
        /\ \A s \in DOMAIN sb : SubOK(pub, q, s, sb[s], TRUE)
    BY DEF ConnOK
  <1>2. /\ r2.pc = "open" /\ r2.frames = n /\ n \in Nat
        /\ r2 \in [pc : {"open", "reply", "closing", "closed"}, frames : 0..MaxFrames]
    BY <1>1, SMTT(30) DEF ConnTyped
  <1>3. n - 1 \in Nat /\ n = (n - 1) + 1 /\ InOrder(q, n - 1, TRUE)
    <2>1. n > 0
      BY <1>1, Zenon DEF AnswersOK
    <2>2. InOrder(q, n - 1, TRUE)
      BY <1>1, Zenon DEF AnswersOK
    <2>3. n - 1 \in Nat /\ n = (n - 1) + 1
      <3> HIDE DEF n
      <3> QED BY <1>2, <2>1
    <2> QED BY <2>2, <2>3, Zenon
  <1>4. q \in Seq(Frame) /\ o \in Seq(Frame) /\ w \in Seq(Frame)
    BY <1>1 DEF ConnTyped
  <1>5. Response(n) \in Frame /\ Response(n).kind = "response"
    BY <1>2 DEF Response, Frame
  <1>6. w \o o2 = Append(q, Response(n))
    BY <1>4, <1>5, QueueAppend
  <1>7. o2 \in Seq(Frame) /\ Len(o2) <= OutCapacity
    BY <1>4, <1>5, FanoutAssumption
  <1> HIDE DEF r2, q, n
  <1>8. InOrder(Append(q, Response(n)), n, TRUE)
    <2> DEFINE m == n - 1
    <2>1. m \in Nat /\ n = m + 1 /\ InOrder(q, m, TRUE)
      BY <1>3
    <2> HIDE DEF m
    <2> QED BY <1>2, <1>4, <2>1, ResponseQueued
  <1>9. AnswersOK(r2, Append(q, Response(n)), TRUE)
    <2>1. r2.frames - (IF r2.pc = "reply" THEN 1 ELSE 0) = n
      BY <1>2
    <2> QED BY <1>2, <1>8, <2>1 DEF AnswersOK
  <1>10. ASSUME NEW s \in DOMAIN sb PROVE SubOK(pub, Append(q, Response(n)), s, sb[s], TRUE)
    <2>1. ~(Response(n).kind = "event" /\ Response(n).sub = s)
      BY <1>5
    <2>2. Faithful(q, s, sb[s], DueIn(pub, sb[s]), TRUE)
      BY <1>1 DEF SubOK
    <2>3. Faithful(Append(q, Response(n)), s, sb[s], DueIn(pub, sb[s]), TRUE)
      BY <1>4, <1>5, <2>1, <2>2, OtherFrameQueued, Zenon
    <2> QED BY <1>1, <2>3 DEF SubOK
  <1>11. Owned(Append(q, Response(n)), sb)
    BY <1>1, <1>4, <1>5 DEF Owned
  <1>12. ConnTyped(r2, sb, o2, wr, w)
    BY <1>1, <1>2, <1>7 DEF ConnTyped
  <1>13. ConnOK(pub, r2, sb, o2, wr, w)
    BY <1>6, <1>9, <1>10, <1>11, <1>12 DEF ConnOK
  <1> QED BY <1>13 DEF r2, n

\* Without a writer the response is dropped.
LEMMA ReplyDroppedOK ==
    ASSUME NEW pub, NEW rd, NEW sb, NEW o, NEW wr, NEW w, ConnOK(pub, rd, sb, o, wr, w),
           rd.pc = "reply", wr = "down"
    PROVE  ConnOK(pub, [rd EXCEPT !.pc = "open"], sb, o, wr, w)
  <1> DEFINE r2 == [rd EXCEPT !.pc = "open"]
             n == rd.frames
  <1>1. ConnTyped(rd, sb, o, wr, w) /\ AnswersOK(rd, w \o o, FALSE)
    BY DEF ConnOK
  <1>2. /\ r2.pc = "open" /\ r2.frames = n /\ n \in Nat
        /\ r2 \in [pc : {"open", "reply", "closing", "closed"}, frames : 0..MaxFrames]
    <2>1. rd \in [pc : {"open", "reply", "closing", "closed"}, frames : 0..MaxFrames]
      BY <1>1, Zenon DEF ConnTyped
    <2> QED BY <2>1, FanoutAssumption
  <1>3. InOrder(w \o o, n - 1, FALSE) /\ n > 0
    BY <1>1 DEF AnswersOK
  <1>4. InOrder(w \o o, n, FALSE)
    <2>1. \A k \in 0..(n - 1) : k \in 0..n
      BY <1>2
    <2> QED BY <1>3, <2>1, Zenon DEF InOrder
  <1> HIDE DEF r2, n
  <1>5. AnswersOK(r2, w \o o, FALSE)
    <2>1. r2.frames - (IF r2.pc = "reply" THEN 1 ELSE 0) = n
      BY <1>2
    <2> QED BY <1>2, <1>4, <2>1 DEF AnswersOK
  <1>6. ConnTyped(r2, sb, o, wr, w)
    BY <1>1, <1>2 DEF ConnTyped
  <1>7. ConnOK(pub, r2, sb, o, wr, w)
    BY <1>5, <1>6 DEF ConnOK
  <1> QED BY <1>7 DEF r2

\* The next message of the channel is passed over or taken in hand.
LEMMA ReceiveOK ==
    ASSUME NEW pub \in Seq(Topics), NEW rd, NEW sb, NEW o, NEW wr, NEW w,
           ConnOK(pub, rd, sb, o, wr, w), NEW s \in DOMAIN sb, NEW h \in Sub, NEW n,
           sb[s].pc = "recv", sb[s].cursor <= Len(pub),
           n = IF sb[s].cursor + Capacity <= Len(pub) THEN Len(pub) + 1 - Capacity ELSE sb[s].cursor,
           h.pat = sb[s].pat, h.since = sb[s].since, h.cursor = n + 1,
           h.lagged <=> sb[s].lagged \/ sb[s].cursor + Capacity <= Len(pub),
           IF TopicMatches(sb[s].pat, pub[n]) THEN h.pc = "send" /\ h.msg = n
                                              ELSE h.pc = "recv" /\ h.msg = 0
    PROVE  ConnOK(pub, rd, [sb EXCEPT ![s] = h], o, wr, w)
  <1> DEFINE f == sb[s]
             q == w \o o
             sb2 == [sb EXCEPT ![s] = h]
  <1>1. /\ ConnTyped(rd, sb, o, wr, w) /\ Owned(q, sb)
        /\ \A x \in DOMAIN sb : SubOK(pub, q, x, sb[x], wr = "up")
    BY DEF ConnOK
  <1>2. sb \in Seq(Sub) /\ q \in Seq(Frame) /\ f \in Sub
    BY <1>1 DEF ConnTyped
  <1>3. /\ f.cursor \in Nat /\ f.since \in Nat /\ f.since < f.cursor /\ f.pat \in Patterns
        /\ f.msg = 0 /\ Faithful(q, s, f, DueIn(pub, f), wr = "up")
    BY <1>1, <1>2 DEF SubOK, Sub
  <1>4. /\ n \in DOMAIN pub /\ n \in Nat \ {0} /\ f.cursor <= n /\ n <= Len(pub)
        /\ (~(f.cursor + Capacity <= Len(pub)) => n = f.cursor)
    BY <1>3, FanoutAssumption, SMTT(30)
  <1>5. TopicMatches(f.pat, pub[n]) <=> Denotes(f.pat, pub[n])
    BY <1>3, <1>4, TopicsMatched
  <1>6. sb2 \in Seq(Sub) /\ DOMAIN sb2 = DOMAIN sb /\ sb2[s] = h /\ \A x \in DOMAIN sb : x # s => sb2[x] = sb[x]
    BY <1>2
  <1>7. h.pat = f.pat /\ h.since = f.since /\ h.cursor = n + 1
    OBVIOUS
  <1>8. (h.lagged <=> f.lagged \/ f.cursor + Capacity <= Len(pub)) /\ h.lagged \in BOOLEAN /\ f.lagged \in BOOLEAN
    BY <1>2 DEF Sub
  <1>9. IF Denotes(f.pat, pub[n]) THEN h.pc = "send" /\ h.msg = n ELSE h.pc = "recv" /\ h.msg = 0
    BY <1>5
  <1> HIDE DEF f, q, sb2
  <1>10. \A m \in DueIn(pub, f) : m \in Nat /\ m < n
    BY <1>3, <1>4 DEF DueIn
  <1>11. Faithful(q, s, h, DueIn(pub, h), wr = "up")
    <2>1. CASE f.cursor + Capacity <= Len(pub)
      <3> DEFINE due == DueIn(pub, f)
                 due2 == DueIn(pub, h)
                 whole == wr = "up"
      <3>1. due \subseteq due2
        BY <1>3, <1>4, <1>7 DEF DueIn
      <3>2. h.msg = 0 \/ (h.msg = n /\ n \in due2)
        BY <1>3, <1>4, <1>7, <1>9 DEF DueIn
      <3>3. h.lagged
        BY <1>8, <2>1
      <3>4. f.msg = 0 /\ Faithful(q, s, f, due, whole) /\ \A m \in due : m < n
        BY <1>3, <1>10
      <3> HIDE DEF due, due2, whole
      <3>5. Faithful(q, s, h, due2, whole)
        <4>1. Skips(f, h, due, due2, n)
          BY <3>1, <3>2, <3>3, <3>4, Zenon DEF Skips
        <4> QED BY <3>4, <4>1, Skipped, Zenon
      <3> QED BY <3>5 DEF due2, whole
    <2>2. CASE ~(f.cursor + Capacity <= Len(pub))
      <3>1. n = f.cursor /\ (f.lagged => h.lagged)
        BY <1>4, <1>8, <2>2
      <3>2. CASE Denotes(f.pat, pub[n])
        <4>1. DueIn(pub, h) = DueIn(pub, f) \union {n}
          BY <1>3, <1>4, <1>7, <3>1, <3>2 DEF DueIn
        <4>2. h.msg = n
          BY <1>9, <3>2
        <4> QED BY <1>2, <1>3, <1>4, <1>10, <3>1, <4>1, <4>2, NextMessage, Zenon
      <3>3. CASE ~Denotes(f.pat, pub[n])
        <4>1. DueIn(pub, h) = DueIn(pub, f)
          BY <1>3, <1>4, <1>7, <3>1, <3>3 DEF DueIn
        <4>2. h.msg = 0
          BY <1>9, <3>3
        <4> QED BY <1>2, <1>3, <1>4, <1>10, <3>1, <4>1, <4>2, NextMessage, Zenon
      <3> QED BY <3>2, <3>3
    <2> QED BY <2>1, <2>2
  <1>12. h.since < h.cursor /\ h.cursor <= Len(pub) + 1 /\ ((h.pc = "send") <=> (h.msg # 0))
    BY <1>3, <1>4, <1>7, <1>9
  <1>13. SubOK(pub, q, s, h, wr = "up")
    BY <1>11, <1>12 DEF SubOK
  <1>14. \A x \in DOMAIN sb2 : SubOK(pub, q, x, sb2[x], wr = "up")
    BY <1>1, <1>6, <1>13
  <1>15. ConnTyped(rd, sb2, o, wr, w) /\ Owned(q, sb2)
    BY <1>1, <1>6 DEF ConnTyped, Owned
  <1>16. ConnOK(pub, rd, sb2, o, wr, w)
    BY <1>14, <1>15 DEF ConnOK, q
  <1> QED BY <1>16 DEF sb2

\* The message in hand takes its place at the end of the queue.
LEMMA ForwardOK ==
    ASSUME NEW pub, NEW rd, NEW sb, NEW o, NEW wr, NEW w,
           ConnOK(pub, rd, sb, o, wr, w), NEW s \in DOMAIN sb,
           sb[s].pc = "send", wr = "up", Len(o) < OutCapacity
    PROVE  ConnOK(pub, rd, [sb EXCEPT ![s] = [sb[s] EXCEPT !.pc = "recv", !.msg = 0]],
                  Append(o, Event(sb[s].msg, s)), wr, w)
  <1> DEFINE f == sb[s]
             h == [f EXCEPT !.pc = "recv", !.msg = 0]
             e == Event(f.msg, s)
             q == w \o o
             o2 == Append(o, e)
             sb2 == [sb EXCEPT ![s] = h]
  <1>1. /\ ConnTyped(rd, sb, o, wr, w) /\ Owned(q, sb) /\ AnswersOK(rd, q, TRUE)
        /\ \A x \in DOMAIN sb : SubOK(pub, q, x, sb[x], TRUE)
    BY DEF ConnOK
  <1>2. sb \in Seq(Sub) /\ q \in Seq(Frame) /\ o \in Seq(Frame) /\ w \in Seq(Frame) /\ s \in Nat
    BY <1>1 DEF ConnTyped
  <1>3. f \in Sub
    BY <1>2
  <1>4. e \in Frame /\ e.kind = "event" /\ e.sub = s
    BY <1>2, <1>3 DEF Event, Frame, Sub
  <1>5. /\ h \in Sub /\ h.pat = f.pat /\ h.cursor = f.cursor /\ h.since = f.since
        /\ h.lagged = f.lagged /\ h.msg = 0 /\ h.pc = "recv"
    BY <1>3 DEF Sub
  <1>6. /\ f.msg # 0 /\ f.since < f.cursor /\ f.cursor <= Len(pub) + 1
        /\ Faithful(q, s, f, DueIn(pub, f), TRUE)
    BY <1>1 DEF SubOK
  <1> HIDE DEF f, h
  <1>7. sb2 \in Seq(Sub) /\ DOMAIN sb2 = DOMAIN sb /\ sb2[s] = h /\ \A x \in DOMAIN sb : x # s => sb2[x] = sb[x]
    BY <1>2, <1>5
  <1>8. w \o o2 = Append(q, e)
    BY <1>2, <1>4, QueueAppend
  <1>9. o2 \in Seq(Frame) /\ Len(o2) <= OutCapacity
    <2> HIDE DEF e
    <2> QED BY <1>2, <1>4, FanoutAssumption
  <1> HIDE DEF q, o2, sb2
  <1>10. Faithful(Append(q, e), s, h, DueIn(pub, f), TRUE)
    BY <1>2, <1>3, <1>5, <1>6, MessageQueued, Zenon
  <1> HIDE DEF e
  <1>11. DueIn(pub, h) = DueIn(pub, f)
    BY <1>5 DEF DueIn
  <1>12. SubOK(pub, Append(q, e), s, h, TRUE)
    BY <1>5, <1>6, <1>10, <1>11 DEF SubOK
  <1>13. ASSUME NEW x \in DOMAIN sb, x # s PROVE SubOK(pub, Append(q, e), x, sb[x], TRUE)
    <2>1. ~(e.kind = "event" /\ e.sub = x)
      BY <1>4, <1>13
    <2>2. Faithful(q, x, sb[x], DueIn(pub, sb[x]), TRUE)
      BY <1>1 DEF SubOK
    <2>3. Faithful(Append(q, e), x, sb[x], DueIn(pub, sb[x]), TRUE)
      BY <1>2, <1>4, <2>1, <2>2, OtherFrameQueued, Zenon
    <2> QED BY <1>1, <2>3 DEF SubOK
  <1>14. \A x \in DOMAIN sb2 : SubOK(pub, Append(q, e), x, sb2[x], TRUE)
    BY <1>7, <1>12, <1>13
  <1>15. AnswersOK(rd, Append(q, e), TRUE)
    <2> DEFINE m == rd.frames - (IF rd.pc = "reply" THEN 1 ELSE 0)
    <2>1. m \in Nat
      BY <1>1 DEF AnswersOK, ConnTyped
    <2>2. InOrder(q, m, TRUE)
      BY <1>1 DEF AnswersOK
    <2> HIDE DEF m
    <2>3. InOrder(Append(q, e), m, TRUE)
      BY <1>2, <1>4, <2>1, <2>2, EventQueuedInOrder
    <2> QED BY <1>1, <2>3 DEF AnswersOK, m
  <1>16. Owned(Append(q, e), sb2)
    BY <1>1, <1>2, <1>4, <1>7 DEF Owned
  <1>17. ConnTyped(rd, sb2, o2, wr, w)
    BY <1>1, <1>7, <1>9 DEF ConnTyped
  <1>18. ConnOK(pub, rd, sb2, o2, wr, w)
    BY <1>8, <1>14, <1>15, <1>16, <1>17 DEF ConnOK
  <1> QED BY <1>18 DEF f, h, e, o2, sb2

\* Without a writer the message in hand is dropped and the forwarder ends.
LEMMA ForwardDroppedOK ==
    ASSUME NEW pub, NEW rd, NEW sb, NEW o, NEW wr, NEW w,
           ConnOK(pub, rd, sb, o, wr, w), NEW s \in DOMAIN sb, wr = "down"
    PROVE  ConnOK(pub, rd, [sb EXCEPT ![s] = [sb[s] EXCEPT !.pc = "dead", !.msg = 0]], o, wr, w)
  <1> DEFINE f == sb[s]
             h == [f EXCEPT !.pc = "dead", !.msg = 0]
             q == w \o o
             sb2 == [sb EXCEPT ![s] = h]
  <1>1. /\ ConnTyped(rd, sb, o, wr, w) /\ Owned(q, sb)
        /\ \A x \in DOMAIN sb : SubOK(pub, q, x, sb[x], FALSE)
    BY DEF ConnOK
  <1>2. sb \in Seq(Sub) /\ f \in Sub
    BY <1>1 DEF ConnTyped
  <1>3. /\ h \in Sub /\ h.pat = f.pat /\ h.cursor = f.cursor /\ h.since = f.since
        /\ h.msg = 0 /\ h.pc = "dead"
    BY <1>2 DEF Sub
  <1>4. /\ f.since < f.cursor /\ f.cursor <= Len(pub) + 1
        /\ Faithful(q, s, f, DueIn(pub, f), FALSE)
    BY <1>1 DEF SubOK
  <1> HIDE DEF f, h, q
  <1>5. sb2 \in Seq(Sub) /\ DOMAIN sb2 = DOMAIN sb /\ sb2[s] = h /\ \A x \in DOMAIN sb : x # s => sb2[x] = sb[x]
    BY <1>2, <1>3
  <1> HIDE DEF sb2
  <1>6. DueIn(pub, h) = DueIn(pub, f)
    BY <1>3 DEF DueIn
  <1>7. Faithful(q, s, h, DueIn(pub, f), FALSE)
    BY <1>3, <1>4, DroppedFaithful, Zenon
  <1>8. SubOK(pub, q, s, h, FALSE)
    BY <1>3, <1>4, <1>6, <1>7 DEF SubOK
  <1>9. \A x \in DOMAIN sb2 : SubOK(pub, q, x, sb2[x], wr = "up")
    BY <1>1, <1>5, <1>8
  <1>10. ConnTyped(rd, sb2, o, wr, w) /\ Owned(q, sb2)
    BY <1>1, <1>5 DEF ConnTyped, Owned
  <1>11. ConnOK(pub, rd, sb2, o, wr, w)
    BY <1>9, <1>10 DEF ConnOK, q
  <1> QED BY <1>11 DEF sb2, h, f

\* A frame written stays where it is in the whole.
LEMMA WriteOK ==
    ASSUME NEW pub, NEW rd, NEW sb, NEW o, NEW wr, NEW w, ConnOK(pub, rd, sb, o, wr, w), o # <<>>
    PROVE  ConnOK(pub, rd, sb, Tail(o), wr, Append(w, Head(o)))
  <1>1. ConnTyped(rd, sb, o, wr, w)
    BY DEF ConnOK
  <1>2. o \in Seq(Frame) /\ w \in Seq(Frame) /\ Len(o) <= OutCapacity
    BY <1>1 DEF ConnTyped
  <1>3. Append(w, Head(o)) \o Tail(o) = w \o o
    BY <1>2, QueueWrite
  <1>4. Tail(o) \in Seq(Frame) /\ Append(w, Head(o)) \in Seq(Frame) /\ Len(Tail(o)) <= OutCapacity
    BY <1>2, FanoutAssumption
  <1>5. ConnTyped(rd, sb, Tail(o), wr, Append(w, Head(o)))
    BY <1>1, <1>4, Zenon DEF ConnTyped
  <1> QED BY <1>3, <1>5, Zenon DEF ConnOK

\* The socket fails, or the writer ends: the whole is cut to what was written.
LEMMA CutOK ==
    ASSUME NEW pub, NEW rd, NEW sb, NEW o, NEW wr, NEW w, ConnOK(pub, rd, sb, o, wr, w)
    PROVE  ConnOK(pub, rd, sb, <<>>, "down", w)
  <1> DEFINE q == w \o o
             q2 == w \o <<>>
  <1>1. /\ ConnTyped(rd, sb, o, wr, w) /\ Owned(q, sb) /\ AnswersOK(rd, q, wr = "up")
        /\ \A x \in DOMAIN sb : SubOK(pub, q, x, sb[x], wr = "up")
    BY DEF ConnOK
  <1>2. o \in Seq(Frame) /\ w \in Seq(Frame) /\ <<>> \in Seq(Frame)
    BY <1>1 DEF ConnTyped
  <1>3. /\ q \in Seq(Frame) /\ q2 \in Seq(Frame)
        /\ \A i \in 1..Len(q2) : i \in 1..Len(q) /\ q[i] = q2[i]
    BY <1>2
  <1> HIDE DEF q, q2
  <1>4. AnswersOK(rd, q2, FALSE)
    <2> DEFINE m == rd.frames - (IF rd.pc = "reply" THEN 1 ELSE 0)
    <2>1. m \in Nat
      BY <1>1 DEF AnswersOK, ConnTyped
    <2>2. InOrder(q, m, wr = "up")
      BY <1>1 DEF AnswersOK
    <2> HIDE DEF m
    <2>3. InOrder(q2, m, FALSE)
      BY <1>3, <2>1, <2>2, CutInOrder
    <2> QED BY <1>1, <2>3 DEF AnswersOK, m
  <1>5. ASSUME NEW s \in DOMAIN sb PROVE SubOK(pub, q2, s, sb[s], FALSE)
    <2>1. Faithful(q, s, sb[s], DueIn(pub, sb[s]), wr = "up")
      BY <1>1 DEF SubOK
    <2>2. Faithful(q2, s, sb[s], DueIn(pub, sb[s]), FALSE)
      BY <1>3, <2>1, CutFaithful, Zenon
    <2> QED BY <1>1, <2>2 DEF SubOK
  <1>6. Owned(q2, sb)
    <2>1. DOMAIN q = 1..Len(q) /\ DOMAIN q2 = 1..Len(q2)
      BY <1>3
    <2> QED BY <1>1, <1>3, <2>1 DEF Owned
  <1>7. ConnTyped(rd, sb, <<>>, "down", w)
    BY <1>1, <1>2, FanoutAssumption DEF ConnTyped
  <1>8. ("down" = "up") = FALSE
    OBVIOUS
  <1> QED BY <1>4, <1>5, <1>6, <1>7, <1>8 DEF ConnOK, q2

-----------------------------------------------------------------------------
(* Every step keeps the invariant *)

\* A step of connection c leaves the others alone.
LEMMA OthersKept ==
    ASSUME FanInv, NEW c \in Conns, published' = published,
           DOMAIN reader' = Conns, DOMAIN subs' = Conns, DOMAIN out' = Conns,
           DOMAIN writer' = Conns, DOMAIN wire' = Conns,
           \A d \in Conns \ {c} : /\ reader'[d] = reader[d] /\ subs'[d] = subs[d] /\ out'[d] = out[d]
                                  /\ writer'[d] = writer[d] /\ wire'[d] = wire[d],
           ConnOK(published, reader'[c], subs'[c], out'[c], writer'[c], wire'[c])
    PROVE  FanInv'
  <1>1. ASSUME NEW d \in Conns PROVE ConnInv(d)'
    <2>1. CASE d = c
      BY <2>1, Zenon DEF ConnInv
    <2>2. CASE d # c
      <3>1. /\ reader'[d] = reader[d] /\ subs'[d] = subs[d] /\ out'[d] = out[d]
            /\ writer'[d] = writer[d] /\ wire'[d] = wire[d]
        BY <2>2
      <3>2. ConnInv(d)
        BY DEF FanInv
      <3> QED BY <3>1, <3>2, Zenon DEF ConnInv
    <2> QED BY <2>1, <2>2
  <1> QED BY <1>1 DEF FanInv

LEMMA PublishKept == ASSUME FanInv, NEW t \in Topics, Publish(t) PROVE FanInv'
  <1>1. ASSUME NEW d \in Conns PROVE ConnInv(d)'
    <2>1. ConnOK(published, reader[d], subs[d], out[d], writer[d], wire[d]) /\ published \in Seq(Topics)
      BY DEF FanInv, ConnInv
    <2>2. ConnOK(Append(published, t), reader[d], subs[d], out[d], writer[d], wire[d])
      BY <2>1, PublishOK, Zenon
    <2> QED BY <2>2, Zenon DEF ConnInv, Publish
  <1> QED BY <1>1 DEF FanInv, Publish

LEMMA OtherFrameKept == ASSUME FanInv, NEW c \in Conns, OtherFrame(c) PROVE FanInv'
  <1>1. ConnOK(published, reader[c], subs[c], out[c], writer[c], wire[c])
    BY DEF FanInv, ConnInv
  <1>2. /\ reader[c].pc = "open" /\ reader[c].frames < MaxFrames
        /\ reader' = [reader EXCEPT ![c] = [pc |-> "reply", frames |-> reader[c].frames + 1]]
        /\ UNCHANGED <<published, out, writer, wire, subs>>
    BY Zenon DEF OtherFrame, Handled
  <1>3. ConnOK(published, [pc |-> "reply", frames |-> reader[c].frames + 1], subs[c], out[c], writer[c], wire[c])
    BY <1>1, <1>2, HandledOK, Zenon
  <1>4. ConnOK(published, reader'[c], subs'[c], out'[c], writer'[c], wire'[c])
    <2>1. reader'[c] = [pc |-> "reply", frames |-> reader[c].frames + 1]
      BY <1>2 DEF FanInv
    <2> QED BY <1>2, <1>3, <2>1, Zenon
  <1> QED BY <1>2, <1>4, OthersKept DEF FanInv

LEMMA SubscribeKept == ASSUME FanInv, NEW c \in Conns, NEW p \in Patterns, Subscribe(c, p) PROVE FanInv'
  <1> DEFINE h == [pat |-> p, pc |-> "recv", cursor |-> Len(published) + 1, msg |-> 0,
                   cancelled |-> FALSE, since |-> Len(published), lagged |-> FALSE]
             r2 == [pc |-> "reply", frames |-> reader[c].frames + 1]
  <1>1. ConnOK(published, reader[c], subs[c], out[c], writer[c], wire[c]) /\ published \in Seq(Topics)
    BY DEF FanInv, ConnInv
  <1>2. /\ reader[c].pc = "open" /\ reader[c].frames < MaxFrames
        /\ reader' = [reader EXCEPT ![c] = r2]
        /\ subs' = [subs EXCEPT ![c] = Append(subs[c], h)]
        /\ UNCHANGED <<published, out, writer, wire>>
    BY Zenon DEF Subscribe, Handled
  <1>3. ConnOK(published, r2, subs[c], out[c], writer[c], wire[c])
    BY <1>1, <1>2, HandledOK, Zenon
  <1>4. ConnOK(published, r2, Append(subs[c], h), out[c], writer[c], wire[c])
    BY <1>1, <1>3, SubscribeOK, Zenon
  <1> HIDE DEF r2, h
  <1>5. ConnOK(published, reader'[c], subs'[c], out'[c], writer'[c], wire'[c])
    <2>1. reader'[c] = r2 /\ subs'[c] = Append(subs[c], h)
      BY <1>2 DEF FanInv
    <2> QED BY <1>2, <1>4, <2>1, Zenon
  <1> QED BY <1>2, <1>5, OthersKept DEF FanInv

LEMMA SubUpdated ==
    ASSUME NEW sb \in Seq(Sub), NEW s \in DOMAIN sb, NEW h \in Sub
    PROVE  /\ [sb EXCEPT ![s] = h] \in Seq(Sub) /\ DOMAIN [sb EXCEPT ![s] = h] = DOMAIN sb
           /\ [sb EXCEPT ![s] = h][s] = h
           /\ \A x \in DOMAIN sb : x # s => [sb EXCEPT ![s] = h][x] = sb[x]
  OBVIOUS

LEMMA UnsubscribeKept ==
    ASSUME FanInv, NEW c \in Conns, NEW s \in DOMAIN subs[c], Unsubscribe(c, s) PROVE FanInv'
  <1> DEFINE r2 == [pc |-> "reply", frames |-> reader[c].frames + 1]
             sb2 == [subs[c] EXCEPT ![s] = [subs[c][s] EXCEPT !.cancelled = TRUE]]
  <1>1. ConnOK(published, reader[c], subs[c], out[c], writer[c], wire[c]) /\ subs[c] \in Seq(Sub)
    BY DEF FanInv, ConnInv, ConnOK, ConnTyped
  <1>2. /\ reader[c].pc = "open" /\ reader[c].frames < MaxFrames
        /\ reader' = [reader EXCEPT ![c] = r2] /\ subs' = [subs EXCEPT ![c] = sb2]
        /\ UNCHANGED <<published, out, writer, wire>>
    BY DEF Unsubscribe, Handled
  <1>3. ConnOK(published, r2, subs[c], out[c], writer[c], wire[c])
    BY <1>1, <1>2, HandledOK, Zenon
  <1>4. /\ sb2 \in Seq(Sub) /\ DOMAIN sb2 = DOMAIN subs[c]
        /\ \A x \in DOMAIN subs[c] :
              /\ sb2[x].pat = subs[c][x].pat /\ sb2[x].cursor = subs[c][x].cursor /\ sb2[x].msg = subs[c][x].msg
              /\ sb2[x].since = subs[c][x].since /\ sb2[x].lagged = subs[c][x].lagged
              /\ (sb2[x].pc = "send" <=> subs[c][x].pc = "send")
    <2> DEFINE f == subs[c][s]
               h == [f EXCEPT !.cancelled = TRUE]
    <2>1. f \in Sub
      BY <1>1
    <2>2. /\ h \in Sub /\ h.pat = f.pat /\ h.cursor = f.cursor /\ h.msg = f.msg /\ h.since = f.since
          /\ h.lagged = f.lagged /\ h.pc = f.pc
      BY <2>1 DEF Sub
    <2> HIDE DEF h
    <2>3. /\ sb2 \in Seq(Sub) /\ DOMAIN sb2 = DOMAIN subs[c] /\ sb2[s] = h
          /\ \A x \in DOMAIN subs[c] : x # s => sb2[x] = subs[c][x]
      BY <1>1, <2>2, SubUpdated, Zenon DEF h
    <2> HIDE DEF sb2
    <2> QED BY <2>2, <2>3
  <1> HIDE DEF r2, sb2
  <1>5. ConnOK(published, r2, sb2, out[c], writer[c], wire[c])
    BY <1>3, <1>4, HandlesOK, Zenon
  <1>6. ConnOK(published, reader'[c], subs'[c], out'[c], writer'[c], wire'[c])
    <2>1. reader'[c] = r2 /\ subs'[c] = sb2
      BY <1>2 DEF FanInv
    <2> QED BY <1>2, <1>5, <2>1, Zenon
  <1> QED BY <1>2, <1>6, OthersKept DEF FanInv

LEMMA ReplyKept == ASSUME FanInv, NEW c \in Conns, Reply(c) PROVE FanInv'
  <1> DEFINE r2 == [reader[c] EXCEPT !.pc = "open"]
  <1>1. ConnOK(published, reader[c], subs[c], out[c], writer[c], wire[c])
    BY DEF FanInv, ConnInv
  <1>2. /\ reader[c].pc = "reply" /\ reader' = [reader EXCEPT ![c] = r2]
        /\ UNCHANGED <<published, subs, writer, wire>>
    BY DEF Reply
  <1>3. CASE /\ writer[c] = "up" /\ Len(out[c]) < OutCapacity
             /\ out' = [out EXCEPT ![c] = Append(out[c], Response(reader[c].frames))]
    <2>1. ConnOK(published, r2, subs[c], Append(out[c], Response(reader[c].frames)), writer[c], wire[c])
      BY <1>1, <1>2, <1>3, ReplyOK, Zenon
    <2> HIDE DEF r2
    <2>2. ConnOK(published, reader'[c], subs'[c], out'[c], writer'[c], wire'[c])
      <3>1. reader'[c] = r2 /\ out'[c] = Append(out[c], Response(reader[c].frames))
        BY <1>2, <1>3 DEF FanInv
      <3> QED BY <1>2, <2>1, <3>1, Zenon
    <2> QED BY <1>2, <1>3, <2>2, OthersKept DEF FanInv
  <1>4. CASE writer[c] = "down" /\ UNCHANGED out
    <2>1. ConnOK(published, r2, subs[c], out[c], writer[c], wire[c])
      BY <1>1, <1>2, <1>4, ReplyDroppedOK, Zenon
    <2> HIDE DEF r2
    <2>2. ConnOK(published, reader'[c], subs'[c], out'[c], writer'[c], wire'[c])
      <3>1. reader'[c] = r2
        BY <1>2 DEF FanInv
      <3> QED BY <1>2, <1>4, <2>1, <3>1, Zenon
    <2> QED BY <1>2, <1>4, <2>2, OthersKept DEF FanInv
  <1> QED BY <1>3, <1>4, Zenon DEF Reply

LEMMA CloseKept == ASSUME FanInv, NEW c \in Conns, Close(c) PROVE FanInv'
  <1> DEFINE r2 == [reader[c] EXCEPT !.pc = "closing"]
             sb2 == [s \in DOMAIN subs[c] |-> [subs[c][s] EXCEPT !.cancelled = TRUE]]
  <1>1. ConnOK(published, reader[c], subs[c], out[c], writer[c], wire[c]) /\ subs[c] \in Seq(Sub)
    BY DEF FanInv, ConnInv, ConnOK, ConnTyped
  <1>2. /\ reader[c].pc = "open" /\ reader' = [reader EXCEPT ![c] = r2] /\ subs' = [subs EXCEPT ![c] = sb2]
        /\ UNCHANGED <<published, out, writer, wire>>
    BY Zenon DEF Close
  <1>3. reader[c].pc # "reply"
    BY <1>2
  <1>4. ConnOK(published, r2, subs[c], out[c], writer[c], wire[c])
    BY <1>1, <1>3, ReaderOK
  <1>5. /\ sb2 \in Seq(Sub) /\ DOMAIN sb2 = DOMAIN subs[c]
        /\ \A x \in DOMAIN subs[c] :
              /\ sb2[x].pat = subs[c][x].pat /\ sb2[x].cursor = subs[c][x].cursor /\ sb2[x].msg = subs[c][x].msg
              /\ sb2[x].since = subs[c][x].since /\ sb2[x].lagged = subs[c][x].lagged
              /\ (sb2[x].pc = "send" <=> subs[c][x].pc = "send")
    <2>1. /\ DOMAIN sb2 = 1..Len(subs[c]) /\ DOMAIN sb2 = DOMAIN subs[c] /\ Len(subs[c]) \in Nat
          /\ \A x \in DOMAIN sb2 : sb2[x] \in Sub
      <3>1. DOMAIN sb2 = DOMAIN subs[c]
        BY Zenon
      <3>2. DOMAIN subs[c] = 1..Len(subs[c]) /\ Len(subs[c]) \in Nat
        BY <1>1
      <3>3. ASSUME NEW x \in DOMAIN subs[c] PROVE sb2[x] \in Sub
        <4>1. subs[c][x] \in Sub
          BY <1>1
        <4>2. [subs[c][x] EXCEPT !.cancelled = TRUE] \in Sub
          BY <4>1 DEF Sub
        <4> QED BY <4>2, Zenon
      <3> QED BY <3>1, <3>2, <3>3, Zenon
    <2>2. \A x \in DOMAIN subs[c] :
              /\ sb2[x].pat = subs[c][x].pat /\ sb2[x].cursor = subs[c][x].cursor /\ sb2[x].msg = subs[c][x].msg
              /\ sb2[x].since = subs[c][x].since /\ sb2[x].lagged = subs[c][x].lagged
              /\ (sb2[x].pc = "send" <=> subs[c][x].pc = "send")
      BY <1>1 DEF Sub
    <2>3. sb2 \in [1..Len(subs[c]) -> Sub]
      BY <2>1, Zenon
    <2>4. sb2 \in Seq(Sub)
      <3> HIDE DEF sb2
      <3> QED BY <2>1, <2>3, SeqDef
    <2> QED BY <2>1, <2>2, <2>4
  <1> HIDE DEF r2, sb2
  <1>6. ConnOK(published, r2, sb2, out[c], writer[c], wire[c])
    BY <1>4, <1>5, HandlesOK, Zenon
  <1>7. ConnOK(published, reader'[c], subs'[c], out'[c], writer'[c], wire'[c])
    <2>1. reader'[c] = r2 /\ subs'[c] = sb2
      BY <1>2 DEF FanInv
    <2> QED BY <1>2, <1>6, <2>1, Zenon
  <1> QED BY <1>2, <1>7, OthersKept DEF FanInv

LEMMA ClosedKept == ASSUME FanInv, NEW c \in Conns, Closed(c) PROVE FanInv'
  <1> DEFINE r2 == [reader[c] EXCEPT !.pc = "closed"]
  <1>1. ConnOK(published, reader[c], subs[c], out[c], writer[c], wire[c])
    BY DEF FanInv, ConnInv
  <1>2. /\ reader[c].pc # "reply" /\ reader' = [reader EXCEPT ![c] = r2]
        /\ UNCHANGED <<published, subs, out, writer, wire>>
    BY DEF Closed
  <1>3. ConnOK(published, r2, subs[c], out[c], writer[c], wire[c])
    BY <1>1, <1>2, ReaderOK
  <1> HIDE DEF r2
  <1>4. ConnOK(published, reader'[c], subs'[c], out'[c], writer'[c], wire'[c])
    <2>1. reader'[c] = r2
      BY <1>2 DEF FanInv
    <2> QED BY <1>2, <1>3, <2>1, Zenon
  <1> QED BY <1>2, <1>4, OthersKept DEF FanInv

LEMMA ReceiveKept ==
    ASSUME FanInv, NEW c \in Conns, NEW s \in DOMAIN subs[c], Receive(c, s) PROVE FanInv'
  <1> DEFINE f == subs[c][s]
             n == Oldest(f.cursor)
             hit == TopicMatches(f.pat, published[n])
             h == [f EXCEPT !.cursor = n + 1, !.lagged = f.lagged \/ f.cursor + Capacity <= Len(published),
                            !.pc = IF hit THEN "send" ELSE "recv", !.msg = IF hit THEN n ELSE 0]
             sb2 == [subs[c] EXCEPT ![s] = h]
  <1>1. /\ ConnOK(published, reader[c], subs[c], out[c], writer[c], wire[c]) /\ subs[c] \in Seq(Sub)
        /\ published \in Seq(Topics)
    BY DEF FanInv, ConnInv, ConnOK, ConnTyped
  <1>2. /\ f.pc = "recv" /\ f.cursor <= Len(published) /\ subs' = [subs EXCEPT ![c] = sb2]
        /\ UNCHANGED <<published, reader, out, writer, wire>>
    BY DEF Receive
  <1>3. f \in Sub
    BY <1>1
  <1>4. n \in Nat /\ n = IF f.cursor + Capacity <= Len(published) THEN Len(published) + 1 - Capacity ELSE f.cursor
    <2>1. f.cursor \in Nat /\ Len(published) \in Nat /\ Capacity \in Nat
      BY <1>1, <1>3, FanoutAssumption, SMTT(30) DEF Sub
    <2> QED BY <2>1 DEF Oldest
  <1> HIDE DEF n
  <1>5. /\ h \in Sub /\ h.pat = f.pat /\ h.since = f.since /\ h.cursor = n + 1
        /\ (h.lagged <=> f.lagged \/ f.cursor + Capacity <= Len(published))
        /\ IF hit THEN h.pc = "send" /\ h.msg = n ELSE h.pc = "recv" /\ h.msg = 0
    <2> HIDE DEF f, hit
    <2> DEFINE lag == f.lagged \/ f.cursor + Capacity <= Len(published)
               p2 == IF hit THEN "send" ELSE "recv"
               m2 == IF hit THEN n ELSE 0
    <2>1. lag \in BOOLEAN /\ p2 \in {"recv", "send", "dead"} /\ m2 \in Nat
      BY <1>4
    <2>2. h = [f EXCEPT !.cursor = n + 1, !.lagged = lag, !.pc = p2, !.msg = m2]
      OBVIOUS
    <2>3. IF hit THEN p2 = "send" /\ m2 = n ELSE p2 = "recv" /\ m2 = 0
      OBVIOUS
    <2>4. lag <=> f.lagged \/ f.cursor + Capacity <= Len(published)
      OBVIOUS
    <2> HIDE DEF h, lag, p2, m2
    <2>5. h.pat = f.pat /\ h.since = f.since /\ h.cursor = n + 1 /\ h.pc = p2 /\ h.msg = m2
      BY <1>3, <1>4, <2>1, <2>2 DEF Sub
    <2>6. h.lagged <=> lag
      BY <1>3, <1>4, <2>1, <2>2 DEF Sub
    <2>7. h \in Sub
      <3> DEFINE f1 == [f EXCEPT !.cursor = n + 1]
                 f2 == [f1 EXCEPT !.lagged = lag]
                 f3 == [f2 EXCEPT !.pc = p2]
                 f4 == [f3 EXCEPT !.msg = m2]
      <3>1. f1 \in Sub
        BY <1>3, <1>4 DEF Sub
      <3>2. h = f4
        BY <2>2, Zenon
      <3> HIDE DEF f1
      <3>3. f2 \in Sub
        BY <2>1, <3>1 DEF Sub
      <3> HIDE DEF f2
      <3>4. f3 \in Sub
        BY <2>1, <3>3 DEF Sub
      <3> HIDE DEF f3
      <3>5. f4 \in Sub
        BY <2>1, <3>4 DEF Sub
      <3> QED BY <3>2, <3>5
    <2> QED BY <2>3, <2>4, <2>5, <2>6, <2>7
  <1> HIDE DEF h
  <1>6. ConnOK(published, reader[c], sb2, out[c], writer[c], wire[c])
    BY <1>1, <1>2, <1>4, <1>5, ReceiveOK
  <1> HIDE DEF sb2
  <1>7. ConnOK(published, reader'[c], subs'[c], out'[c], writer'[c], wire'[c])
    <2>1. subs'[c] = sb2
      BY <1>2 DEF FanInv
    <2> QED BY <1>2, <1>6, <2>1, Zenon
  <1> QED BY <1>2, <1>7, OthersKept DEF FanInv

LEMMA ForwardKept ==
    ASSUME FanInv, NEW c \in Conns, NEW s \in DOMAIN subs[c], Forward(c, s) PROVE FanInv'
  <1> DEFINE f == subs[c][s]
  <1>1. ConnOK(published, reader[c], subs[c], out[c], writer[c], wire[c]) /\ DOMAIN subs = Conns
    BY DEF FanInv, ConnInv
  <1>2. f.pc = "send" /\ UNCHANGED <<published, reader, writer, wire>>
    BY DEF Forward
  <1>3. CASE /\ writer[c] = "up" /\ Len(out[c]) < OutCapacity
             /\ out' = [out EXCEPT ![c] = Append(out[c], Event(f.msg, s))]
             /\ subs' = [subs EXCEPT ![c][s].pc = "recv", ![c][s].msg = 0]
    <2> DEFINE sb2 == [subs[c] EXCEPT ![s] = [f EXCEPT !.pc = "recv", !.msg = 0]]
    <2>1. ConnOK(published, reader[c], sb2, Append(out[c], Event(f.msg, s)), writer[c], wire[c])
      BY <1>1, <1>2, <1>3, ForwardOK, Zenon
    <2>2. subs'[c] = sb2
      BY <1>1, <1>3
    <2> HIDE DEF sb2
    <2>3. ConnOK(published, reader'[c], subs'[c], out'[c], writer'[c], wire'[c])
      <3>1. out'[c] = Append(out[c], Event(f.msg, s))
        BY <1>3 DEF FanInv
      <3> QED BY <1>2, <2>1, <2>2, <3>1, Zenon
    <2> QED BY <1>2, <1>3, <2>3, OthersKept DEF FanInv
  <1>4. CASE /\ writer[c] = "down" /\ UNCHANGED out
             /\ subs' = [subs EXCEPT ![c][s].pc = "dead", ![c][s].msg = 0]
    <2> DEFINE sb2 == [subs[c] EXCEPT ![s] = [f EXCEPT !.pc = "dead", !.msg = 0]]
    <2>1. ConnOK(published, reader[c], sb2, out[c], writer[c], wire[c])
      BY <1>1, <1>4, ForwardDroppedOK, Zenon
    <2>2. subs'[c] = sb2
      BY <1>1, <1>4
    <2> HIDE DEF sb2
    <2>3. ConnOK(published, reader'[c], subs'[c], out'[c], writer'[c], wire'[c])
      BY <1>2, <1>4, <2>1, <2>2, Zenon
    <2> QED BY <1>2, <1>4, <2>3, OthersKept DEF FanInv
  <1> QED BY <1>3, <1>4, Zenon DEF Forward

LEMMA StopKept ==
    ASSUME FanInv, NEW c \in Conns, NEW s \in DOMAIN subs[c], Stop(c, s) PROVE FanInv'
  <1> DEFINE f == subs[c][s]
             h == [f EXCEPT !.pc = "dead"]
             sb2 == [subs[c] EXCEPT ![s] = h]
  <1>1. ConnOK(published, reader[c], subs[c], out[c], writer[c], wire[c]) /\ subs[c] \in Seq(Sub)
    BY DEF FanInv, ConnInv, ConnOK, ConnTyped
  <1>2. /\ f.pc = "recv" /\ subs' = [subs EXCEPT ![c] = sb2]
        /\ UNCHANGED <<published, reader, out, writer, wire>>
    BY DEF Stop
  <1>3. f \in Sub
    BY <1>1
  <1>4. /\ h \in Sub /\ h.pat = f.pat /\ h.cursor = f.cursor /\ h.msg = f.msg /\ h.since = f.since
        /\ h.lagged = f.lagged /\ h.pc = "dead"
    BY <1>3 DEF Sub
  <1> HIDE DEF h
  <1>5. /\ sb2 \in Seq(Sub) /\ DOMAIN sb2 = DOMAIN subs[c] /\ sb2[s] = h
        /\ \A x \in DOMAIN subs[c] : x # s => sb2[x] = subs[c][x]
    BY <1>1, <1>4, SubUpdated, Zenon
  <1> HIDE DEF sb2
  <1>6. \A x \in DOMAIN subs[c] :
              /\ sb2[x].pat = subs[c][x].pat /\ sb2[x].cursor = subs[c][x].cursor /\ sb2[x].msg = subs[c][x].msg
              /\ sb2[x].since = subs[c][x].since /\ sb2[x].lagged = subs[c][x].lagged
              /\ (sb2[x].pc = "send" <=> subs[c][x].pc = "send")
    BY <1>2, <1>4, <1>5
  <1>7. ConnOK(published, reader[c], sb2, out[c], writer[c], wire[c])
    BY <1>1, <1>5, <1>6, HandlesOK, ZenonT(40)
  <1>8. ConnOK(published, reader'[c], subs'[c], out'[c], writer'[c], wire'[c])
    <2>1. subs'[c] = sb2
      BY <1>2 DEF FanInv
    <2> QED BY <1>2, <1>7, <2>1, Zenon
  <1> QED BY <1>2, <1>8, OthersKept DEF FanInv

LEMMA WriteKept == ASSUME FanInv, NEW c \in Conns, Write(c) PROVE FanInv'
  <1>1. ConnOK(published, reader[c], subs[c], out[c], writer[c], wire[c])
    BY DEF FanInv, ConnInv
  <1>2. /\ out[c] # <<>> /\ wire' = [wire EXCEPT ![c] = Append(wire[c], Head(out[c]))]
        /\ out' = [out EXCEPT ![c] = Tail(out[c])] /\ UNCHANGED <<published, reader, subs, writer>>
    BY DEF Write
  <1>3. ConnOK(published, reader[c], subs[c], Tail(out[c]), writer[c], Append(wire[c], Head(out[c])))
    BY <1>1, <1>2, WriteOK, Zenon
  <1>4. ConnOK(published, reader'[c], subs'[c], out'[c], writer'[c], wire'[c])
    <2>1. out'[c] = Tail(out[c]) /\ wire'[c] = Append(wire[c], Head(out[c]))
      BY <1>2 DEF FanInv
    <2> QED BY <1>2, <1>3, <2>1, Zenon
  <1> QED BY <1>2, <1>4, OthersKept DEF FanInv

LEMMA CutKept == ASSUME FanInv, NEW c \in Conns, WriteFails(c) \/ WriterEnds(c) PROVE FanInv'
  <1>1. ConnOK(published, reader[c], subs[c], out[c], writer[c], wire[c])
    BY DEF FanInv, ConnInv
  <1>2. /\ DOMAIN writer' = Conns /\ writer'[c] = "down" /\ DOMAIN out' = Conns /\ out'[c] = <<>>
        /\ \A d \in Conns \ {c} : writer'[d] = writer[d] /\ out'[d] = out[d]
        /\ UNCHANGED <<published, reader, subs, wire>>
    <2>1. CASE WriteFails(c)
      BY <2>1 DEF WriteFails, FanInv
    <2>2. CASE WriterEnds(c)
      BY <2>2 DEF WriterEnds, FanInv
    <2> QED BY <2>1, <2>2
  <1>3. ConnOK(published, reader[c], subs[c], <<>>, "down", wire[c])
    BY <1>1, CutOK, Zenon
  <1>4. ConnOK(published, reader'[c], subs'[c], out'[c], writer'[c], wire'[c])
    BY <1>2, <1>3, Zenon
  <1> QED BY <1>2, <1>4, OthersKept DEF FanInv

LEMMA FanInitially == FanInit => FanInv
  <1> SUFFICES ASSUME FanInit PROVE FanInv
    OBVIOUS
  <1>1. ASSUME NEW c \in Conns PROVE ConnInv(c)
    <2> DEFINE r == [pc |-> "open", frames |-> 0]
    <2>1. reader[c] = r /\ subs[c] = <<>> /\ out[c] = <<>> /\ writer[c] = "up" /\ wire[c] = <<>>
      BY DEF FanInit
    <2>2. <<>> \o <<>> = <<>> /\ <<>> \in Seq(Frame) /\ <<>> \in Seq(Sub) /\ Len(<<>>) = 0 /\ DOMAIN <<>> = {}
      OBVIOUS
    <2>3. r.pc = "open" /\ r.frames = 0 /\ r \in [pc : {"open", "reply", "closing", "closed"}, frames : 0..MaxFrames]
      BY FanoutAssumption
    <2> HIDE DEF r
    <2>4. ConnTyped(r, <<>>, <<>>, "up", <<>>)
      BY <2>2, <2>3, FanoutAssumption DEF ConnTyped
    <2>5. InOrder(<<>>, 0, TRUE)
      <3>1. Responses(<<>>) = {}
        BY <2>2 DEF Responses
      <3>2. Numbers(<<>>, {}) = 1..0 /\ Rising(<<>>, {}) /\ 0 \in 0..0
        BY DEF Numbers, Rising
      <3> QED BY <3>1, <3>2, Zenon DEF InOrder
    <2>6. AnswersOK(r, <<>>, TRUE)
      <3>1. r.frames - (IF r.pc = "reply" THEN 1 ELSE 0) = 0
        BY <2>3
      <3> QED BY <2>3, <2>5, <3>1 DEF AnswersOK
    <2>7. Owned(<<>>, <<>>) /\ \A s \in DOMAIN <<>> : SubOK(published, <<>>, s, <<>>[s], TRUE)
      BY <2>2 DEF Owned
    <2>8. ("up" = "up") = TRUE
      OBVIOUS
    <2>9. ConnOK(published, r, <<>>, <<>>, "up", <<>>)
      BY <2>2, <2>4, <2>6, <2>7, <2>8, Zenon DEF ConnOK
    <2> QED BY <2>1, <2>9, Zenon DEF ConnInv
  <1>2. published \in Seq(Topics)
    BY DEF FanInit
  <1> QED BY <1>1, <1>2 DEF FanInv, FanInit

LEMMA FanKept == FanInv /\ [FanNext]_fanVars => FanInv'
  <1> SUFFICES ASSUME FanInv, [FanNext]_fanVars PROVE FanInv'
    OBVIOUS
  <1>1. ASSUME NEW t \in Topics, Publish(t) PROVE FanInv'
    BY <1>1, PublishKept
  <1>2. ASSUME NEW c \in Conns, ReaderStep(c) PROVE FanInv'
    <2>1. CASE OtherFrame(c)
      BY <2>1, OtherFrameKept
    <2>2. ASSUME NEW p \in Patterns, Subscribe(c, p) PROVE FanInv'
      BY <2>2, SubscribeKept
    <2>3. ASSUME NEW s \in DOMAIN subs[c], Unsubscribe(c, s) PROVE FanInv'
      BY <2>3, UnsubscribeKept
    <2>4. CASE Reply(c)
      BY <2>4, ReplyKept
    <2>5. CASE Close(c)
      BY <2>5, CloseKept
    <2>6. CASE Closed(c)
      BY <2>6, ClosedKept
    <2> QED BY <1>2, <2>1, <2>2, <2>3, <2>4, <2>5, <2>6 DEF ReaderStep
  <1>3. ASSUME NEW c \in Conns, NEW s \in DOMAIN subs[c], Receive(c, s) PROVE FanInv'
    BY <1>3, ReceiveKept
  <1>4. ASSUME NEW c \in Conns, NEW s \in DOMAIN subs[c], Forward(c, s) PROVE FanInv'
    BY <1>4, ForwardKept
  <1>5. ASSUME NEW c \in Conns, NEW s \in DOMAIN subs[c], Stop(c, s) PROVE FanInv'
    BY <1>5, StopKept
  <1>6. ASSUME NEW c \in Conns, Write(c) PROVE FanInv'
    BY <1>6, WriteKept
  <1>7. ASSUME NEW c \in Conns, WriteFails(c) \/ WriterEnds(c) PROVE FanInv'
    BY <1>7, CutKept
  <1>8. CASE UNCHANGED fanVars
    <2>1. ASSUME NEW c \in Conns PROVE ConnInv(c)'
      <3>1. ConnInv(c)
        BY DEF FanInv
      <3> QED BY <1>8, <3>1, Zenon DEF ConnInv, fanVars
    <2> QED BY <1>8, <2>1 DEF FanInv, fanVars
  <1> QED BY <1>1, <1>2, <1>3, <1>4, <1>5, <1>6, <1>7, <1>8, Zenon DEF FanNext

LEMMA FanAlways == FanSpec => []FanInv
  BY FanInitially, FanKept, PTL DEF FanSpec
\* reader and writer are functions on the connections.
Maps == reader = [c \in Conns |-> reader[c]] /\ writer = [c \in Conns |-> writer[c]]

LEMMA MapsKept == Maps /\ [FanNext]_fanVars => Maps'
  <1> SUFFICES ASSUME Maps, [FanNext]_fanVars PROVE Maps'
    OBVIOUS
  <1>1. reader' = reader \/ \E c \in Conns : reader' = [reader EXCEPT ![c] = reader'[c]]
    <2>1. ASSUME NEW c \in Conns, ReaderStep(c) PROVE reader' = [reader EXCEPT ![c] = reader'[c]]
      BY <2>1 DEF ReaderStep, OtherFrame, Subscribe, Unsubscribe, Handled, Reply, Close, Closed, Maps
    <2>2. ASSUME NEW c \in Conns, NEW s \in DOMAIN subs[c], Receive(c, s) \/ Forward(c, s) \/ Stop(c, s)
          PROVE  reader' = reader
      BY <2>2 DEF Receive, Forward, Stop
    <2>3. ASSUME NEW c \in Conns, Write(c) \/ WriteFails(c) \/ WriterEnds(c) PROVE reader' = reader
      BY <2>3 DEF Write, WriteFails, WriterEnds
    <2>4. ASSUME NEW t \in Topics, Publish(t) PROVE reader' = reader
      BY <2>4 DEF Publish
    <2> QED BY <2>1, <2>2, <2>3, <2>4, Zenon DEF FanNext, fanVars
  <1>2. writer' = writer \/ \E c \in Conns : writer' = [writer EXCEPT ![c] = writer'[c]]
    <2>1. ASSUME NEW c \in Conns, ReaderStep(c) PROVE writer' = writer
      BY <2>1 DEF ReaderStep, OtherFrame, Subscribe, Unsubscribe, Handled, Reply, Close, Closed
    <2>2. ASSUME NEW c \in Conns, NEW s \in DOMAIN subs[c], Receive(c, s) \/ Forward(c, s) \/ Stop(c, s)
          PROVE  writer' = writer
      BY <2>2 DEF Receive, Forward, Stop
    <2>3. ASSUME NEW c \in Conns, Write(c) PROVE writer' = writer
      BY <2>3 DEF Write
    <2>4. ASSUME NEW c \in Conns, WriteFails(c) \/ WriterEnds(c) PROVE writer' = [writer EXCEPT ![c] = writer'[c]]
      BY <2>4 DEF WriteFails, WriterEnds, Maps
    <2>5. ASSUME NEW t \in Topics, Publish(t) PROVE writer' = writer
      BY <2>5 DEF Publish
    <2> QED BY <2>1, <2>2, <2>3, <2>4, <2>5, Zenon DEF FanNext, fanVars
  <1>3. reader' = [c \in Conns |-> reader'[c]]
    BY <1>1 DEF Maps
  <1>4. writer' = [c \in Conns |-> writer'[c]]
    BY <1>2 DEF Maps
  <1> QED BY <1>3, <1>4 DEF Maps

LEMMA MapsAlways == FanSpec => []Maps
  <1>1. FanInit => Maps
    BY DEF FanInit, Maps
  <1> QED BY <1>1, MapsKept, PTL DEF FanSpec
-----------------------------------------------------------------------------
(* The theorems *)

\* Every variable of the fan-out stays within its type, and a connection's
\* queue of outbound frames within its capacity (handle_socket).
THEOREM FanoutTyped == FanSpec => []FanTypeOK
  <1>1. FanInv /\ Maps => FanTypeOK
    <2> SUFFICES ASSUME FanInv, Maps PROVE FanTypeOK
      OBVIOUS
    <2>1. ASSUME NEW c \in Conns PROVE ConnTyped(reader[c], subs[c], out[c], writer[c], wire[c])
      BY DEF FanInv, ConnInv, ConnOK
    <2>2. ASSUME NEW c \in Conns, NEW s \in DOMAIN subs[c], subs[c][s].pc = "send"
          PROVE  subs[c][s].msg \in DOMAIN published
      <3>1. SubOK(published, Queue(c), s, subs[c][s], writer[c] = "up")
        BY DEF FanInv, ConnInv, ConnOK, Queue
      <3>2. subs[c][s].msg \in Passed(Queue(c), s, subs[c][s])
        BY <2>2, <3>1 DEF SubOK, Passed
      <3>3. subs[c][s].msg \in DueIn(published, subs[c][s])
        BY <3>1, <3>2 DEF SubOK, Faithful
      <3> QED BY <3>3 DEF DueIn
    <2>3. reader \in [Conns -> [pc : {"open", "reply", "closing", "closed"}, frames : 0..MaxFrames]]
      BY <2>1 DEF Maps, ConnTyped
    <2>4. writer \in [Conns -> {"up", "down"}]
      BY <2>1 DEF Maps, ConnTyped
    <2>5. ASSUME NEW c \in Conns
          PROVE  subs[c] \in Seq(Sub) /\ out[c] \in Seq(Frame) /\ Len(out[c]) <= OutCapacity /\ wire[c] \in Seq(Frame)
      BY <2>1 DEF ConnTyped
    <2> QED BY <2>2, <2>3, <2>4, <2>5 DEF FanTypeOK, FanInv
  <1> QED BY <1>1, FanAlways, MapsAlways, PTL

\* Whatever else shares the queue and however the tasks interleave, a
\* subscription's events are those of its topics since it was opened, in the
\* order of publication and each once, without a gap unless it lagged or the
\* socket failed (BroadcastPublisher::subscribe and its forwarder).
THEOREM StreamsAreFaithful == FanSpec => []StreamFaithful
  <1>1. FanInv => StreamFaithful
    <2> SUFFICES ASSUME FanInv, NEW c \in Conns, NEW s \in DOMAIN subs[c]
                 PROVE  Faithful(Queue(c), s, subs[c][s], Due(subs[c][s]), writer[c] = "up")
      BY DEF StreamFaithful
    <2>1. SubOK(published, Queue(c), s, subs[c][s], writer[c] = "up")
      BY DEF FanInv, ConnInv, ConnOK, Queue
    <2>2. Due(subs[c][s]) = DueIn(published, subs[c][s])
      BY DEF Due, DueIn
    <2> QED BY <2>1, <2>2 DEF SubOK
  <1> QED BY <1>1, FanAlways, PTL

\* The responses of a connection go out one for each client frame and in the
\* order of the frames, a socket failure cutting off the last ones only.
THEOREM ResponsesInOrder == FanSpec => []AnsweredInOrder
  <1>1. FanInv => AnsweredInOrder
    <2> SUFFICES ASSUME FanInv, NEW c \in Conns
                 PROVE  InOrder(Queue(c), Answered(c), writer[c] = "up")
      BY DEF AnsweredInOrder
    <2>1. AnswersOK(reader[c], Queue(c), writer[c] = "up")
      BY DEF FanInv, ConnInv, ConnOK, Queue
    <2> QED BY <2>1 DEF AnswersOK, Answered
  <1> QED BY <1>1, FanAlways, PTL
=============================================================================
