-------------------------- MODULE OutboxRelayProofs --------------------------
(***************************************************************************)
(* The relay, for any number of relays, rows and passes cut short: the     *)
(* types, at-least-once delivery, and the safety part of the refinement of *)
(* OutboxDelivery.  A step either appends a row or moves one relay; what a *)
(* relay in the middle of a batch relies on (CountedOut, InTurn)    *)
(* survives the steps of the others because the log is only appended to,   *)
(* rows are never unmarked and counts never fall.                          *)
(***************************************************************************)
EXTENDS OutboxRelay, FiniteSetTheorems, SequenceTheorems, TLAPS

USE DEF outboxVars

Inv == OutboxTypeOK /\ Shapes /\ PassSound /\ MarkedDelivered

Topics == {"proposed", "transitioned", "entered", "drafted", "issued", "sent", "viewed",
           "paid", "partially_paid", "voided", "none"}

LEMMA EventsLen ==
    ASSUME NEW h PROVE EventsOf(h) \in Seq(Topics) /\ Len(EventsOf(h)) \in Nat
  <1>1. Mechanic(h) = <<"proposed", "transitioned", "entered">> \/ Mechanic(h) = <<>>
    BY DEF Mechanic
  <1>2. /\ <<"proposed", "transitioned", "entered">> \in Seq(Topics)
        /\ <<>> \in Seq(Topics)
    BY DEF Topics
  <1>3. DomainTopic(h) \in Topics
    BY Zenon DEF DomainTopic, Topics
  <1>4. <<DomainTopic(h)>> \in Seq(Topics)
    BY <1>3
  <1> DEFINE rest == IF DomainTopic(h) = "none" THEN <<>> ELSE <<DomainTopic(h)>>
  <1>5. rest \in Seq(Topics) /\ Mechanic(h) \in Seq(Topics)
    BY <1>1, <1>2, <1>4
  <1>6. EventsOf(h) = Mechanic(h) \o rest
    BY DEF EventsOf
  <1> HIDE DEF rest
  <1>7. EventsOf(h) \in Seq(Topics)
    BY <1>5, <1>6
  <1> QED BY <1>7

(* Sequences *)

LEMMA HeadTail ==
    ASSUME NEW S, NEW q \in Seq(S)
    PROVE  /\ Len(q) \in Nat /\ \A i \in 1..Len(q) : q[i] \in S
           /\ q = <<>> <=> Len(q) = 0
           /\ q # <<>> =>
                 /\ 1 \in 1..Len(q) /\ Head(q) = q[1] /\ Head(q) \in S
                 /\ Tail(q) \in Seq(S) /\ Len(Tail(q)) = Len(q) - 1
                 /\ \A i \in 1..(Len(q) - 1) : Tail(q)[i] = q[i + 1]
  <1>1. Len(q) \in Nat /\ \A i \in 1..Len(q) : q[i] \in S
    OBVIOUS
  <1>2. q = <<>> <=> Len(q) = 0
    OBVIOUS
  <1>3. ASSUME q # <<>>
        PROVE  /\ 1 \in 1..Len(q) /\ Head(q) = q[1] /\ Head(q) \in S
               /\ Tail(q) \in Seq(S) /\ Len(Tail(q)) = Len(q) - 1
               /\ \A i \in 1..(Len(q) - 1) : Tail(q)[i] = q[i + 1]
    BY <1>1, <1>2, <1>3
  <1> QED BY <1>1, <1>2, <1>3

\* Every transition that a command records has a domain event.
LEMMA EdgeHasTopic ==
    ASSUME NEW h, RecordedEdge(h) PROVE DomainTopic(h) # "none"
  BY DEF RecordedEdge, CommandEdge, DomainTopic

LEMMA BatchFacts ==
    ASSUME Inv, NEW r \in Relays
    PROVE  LET b == relay[r].batch
           IN  /\ Len(log) \in Nat /\ Len(b) \in Nat
               /\ \A i \in 1..Len(b) : b[i] \in 1..Len(log)
               /\ b = <<>> <=> Len(b) = 0
               /\ b # <<>> => /\ 1 \in 1..Len(b) /\ Head(b) = b[1]
                              /\ Head(b) \in 1..Len(log)
                              /\ Tail(b) \in Seq(1..Len(log)) /\ Len(Tail(b)) = Len(b) - 1
                              /\ \A i \in 1..(Len(b) - 1) : Tail(b)[i] = b[i + 1]
  <1>1. log \in Seq(LogRow) /\ relay[r].batch \in Seq(1..Len(log))
    BY DEF Inv, OutboxTypeOK, PassOK
  <1>2. Len(log) \in Nat
    BY <1>1
  <1> QED BY <1>1, <1>2, HeadTail

LEMMA InvInit == OutboxInit => Inv
  <1> SUFFICES ASSUME OutboxInit PROVE Inv
    OBVIOUS
  <1> USE DEF OutboxInit, NoPass
  <1>1. OutboxTypeOK
    <2>1. log \in Seq(LogRow) /\ Len(log) = 0 /\ marked \subseteq 1..0 /\ DOMAIN copies = 1..0
      OBVIOUS
    <2>2. failures \in 0..MaxFailures
      BY OutboxAssumption
    <2>3. \A r \in Relays : relay[r] = NoPass
      OBVIOUS
    <2>4. NoPass.batch \in Seq(1..0) /\ NoPass.sent = 0 /\ NoPass.table = "none" /\ NoPass.batch = <<>>
      OBVIOUS
    <2>5. 0 \in Nat /\ "none" \in Tables \union {"none"} /\ 1..0 = {}
      OBVIOUS
    <2> HIDE DEF OutboxInit, NoPass
    <2> QED BY <2>1, <2>2, <2>3, <2>4, <2>5 DEF OutboxTypeOK, PassOK
  <1>2. Shapes
    BY DEF Shapes, Tables, PassVal
  <1>3. PassSound /\ MarkedDelivered
    BY DEF PassSound, CountedOut, InTurn, MarkedDelivered
  <1> QED BY <1>1, <1>2, <1>3 DEF Inv

(* A new row *)

LEMMA RecordFacts ==
    ASSUME Inv, NEW e \in Edges, NEW t \in Times, Record(e, t)
    PROVE  /\ Len(log) \in Nat /\ Len(log') = Len(log) + 1 /\ log' \in Seq(LogRow)
           /\ \A n \in 1..Len(log) : log'[n] = log[n] /\ copies'[n] = copies[n]
           /\ LET h == log'[Len(log) + 1]
              IN  /\ h = [table |-> e.table, event |-> e.event, from |-> e.from,
                          to |-> e.to, at |-> t]
                  /\ RecordedEdge(h)
                  /\ copies'[Len(log) + 1] = [j \in 1..Len(EventsOf(h)) |-> 0]
           /\ copies' \in Seq(UNION {[1..k -> Nat] : k \in Nat})
           /\ Len(copies') = Len(copies) + 1 /\ Len(copies) = Len(log)
           /\ UNCHANGED <<marked, failures, relay>>
  <1> DEFINE h == [table |-> e.table, event |-> e.event, from |-> e.from, to |-> e.to, at |-> t]
             zero == [j \in 1..Len(EventsOf(h)) |-> 0]
             CV == UNION {[1..k -> Nat] : k \in Nat}
  <1>1. log' = Append(log, h) /\ copies' = Append(copies, zero)
        /\ UNCHANGED <<marked, failures, relay>>
    BY DEF Record
  <1>2. h \in LogRow /\ RecordedEdge(h)
    BY OutboxAssumption DEF LogRow, EdgeVal, RecordedEdge
  <1>3. zero \in CV
    BY EventsLen
  <1>4. log \in Seq(LogRow) /\ copies \in Seq(CV) /\ Len(copies) = Len(log)
    BY DEF Inv, OutboxTypeOK, Shapes
  <1> HIDE DEF h, zero, CV
  <1>5. /\ Len(log) \in Nat /\ Len(log') = Len(log) + 1 /\ log' \in Seq(LogRow)
        /\ \A n \in 1..Len(log) : log'[n] = log[n] /\ copies'[n] = copies[n]
        /\ log'[Len(log) + 1] = h /\ copies'[Len(log) + 1] = zero
        /\ copies' \in Seq(CV) /\ Len(copies') = Len(copies) + 1
    BY <1>1, <1>2, <1>3, <1>4
  <1> QED BY <1>1, <1>2, <1>4, <1>5 DEF h, zero, CV

LEMMA RecordInv ==
    ASSUME Inv, NEW e \in Edges, NEW t \in Times, Record(e, t) PROVE Inv'
  <1> DEFINE N == Len(log) + 1
  <1>0. /\ Len(log) \in Nat /\ Len(log') = N /\ log' \in Seq(LogRow)
        /\ \A n \in 1..Len(log) : log'[n] = log[n] /\ copies'[n] = copies[n]
        /\ RecordedEdge(log'[N]) /\ copies'[N] = [j \in 1..Len(EventsOf(log'[N])) |-> 0]
        /\ copies' \in Seq(UNION {[1..k -> Nat] : k \in Nat})
        /\ Len(copies') = N
        /\ UNCHANGED <<marked, failures, relay>>
    BY RecordFacts
  <1>1. OutboxTypeOK'
    <2>1. ASSUME NEW n \in 1..N PROVE copies'[n] \in [1..Len(EventsOf(log'[n])) -> Nat]
      <3>1. CASE n = N
        BY <1>0, <3>1
      <3>2. CASE n # N
        <4>1. n \in 1..Len(log)
          BY <1>0, <3>2
        <4> QED BY <1>0, <4>1 DEF Inv, OutboxTypeOK
      <3> QED BY <3>1, <3>2
    <2>2. ASSUME NEW r \in Relays
          PROVE  PassOK(r)'
      <3>1. relay[r].batch \in Seq(1..Len(log)) /\ 1..Len(log) \subseteq 1..N
        BY <1>0 DEF Inv, OutboxTypeOK, PassOK
      <3>2. relay[r].batch \in Seq(1..N)
        BY <3>1, SeqMonotonic
      <3>3. relay[r].batch # <<>> => log'[Head(relay[r].batch)] = log[Head(relay[r].batch)]
        BY <1>0, BatchFacts
      <3> QED BY <1>0, <3>2, <3>3 DEF Inv, OutboxTypeOK, PassOK
    <2>3. DOMAIN copies' = 1..N /\ marked' \subseteq 1..N /\ failures' \in 0..MaxFailures
      BY <1>0 DEF Inv, OutboxTypeOK
    <2> QED BY <1>0, <2>1, <2>2, <2>3 DEF OutboxTypeOK
  <1>2. Shapes'
    <2>1. ASSUME NEW n \in 1..N PROVE RecordedEdge(log'[n])
      <3>1. n = N \/ n \in 1..Len(log)
        BY <1>0
      <3> QED BY <1>0, <3>1 DEF Inv, Shapes
    <2> QED BY <1>0, <2>1 DEF Inv, Shapes
  <1>3. ASSUME NEW r \in Relays PROVE CountedOut(r)'
    BY <1>0, BatchFacts DEF Inv, PassSound, CountedOut
  <1>4. ASSUME NEW r \in Relays PROVE InTurn(r)'
    <2>1. ASSUME NEW i \in 1..Len(relay[r].batch), NEW m \in 1..N,
                 m < relay[r].batch[i], log'[m].table = log'[relay[r].batch[i]].table,
                 log'[m].at < log'[relay[r].batch[i]].at
          PROVE  m \in marked \/ \E k \in 1..(i - 1) : relay[r].batch[k] = m
      <3>1. relay[r].batch[i] \in 1..Len(log) /\ m \in 1..Len(log)
        BY SMTT(30), <1>0, <2>1, BatchFacts
      <3>2. Earlier(m, relay[r].batch[i])
        BY <1>0, <2>1, <3>1 DEF Earlier
      <3> QED BY <3>1, <3>2 DEF Inv, PassSound, InTurn
    <2> QED BY <1>0, <2>1 DEF InTurn, Earlier
  <1>5. MarkedDelivered'
    BY <1>0 DEF Inv, MarkedDelivered, OutboxTypeOK
  <1> QED BY <1>0, <1>1, <1>2, <1>3, <1>4, <1>5 DEF Inv, PassSound

(* A step of one relay *)

\* A step of r keeps the invariant when r itself is fine after it: the others
\* see marks that stay and counts that only grow.
LEMMA RelayMoves ==
    ASSUME Inv, NEW r \in Relays, log' = log,
           \A q \in Relays \ {r} : relay'[q] = relay[q],
           OutboxTypeOK', Shapes', MarkedDelivered', marked \subseteq marked',
           \A n \in 1..Len(log) : \A j \in 1..Len(EventsOf(log[n])) :
               copies[n][j] > 0 => copies'[n][j] > 0,
           CountedOut(r)', InTurn(r)'
    PROVE  Inv'
  <1>1. ASSUME NEW q \in Relays \ {r} PROVE CountedOut(q)'
    <2>1. ASSUME relay[q].batch # <<>>, NEW j \in 1..relay[q].sent
          PROVE  copies'[Head(relay[q].batch)][j] > 0
      <3>1. Head(relay[q].batch) \in 1..Len(log)
        BY <2>1, BatchFacts
      <3>2. copies[Head(relay[q].batch)][j] > 0
        BY <2>1 DEF Inv, PassSound, CountedOut
      <3>3. j \in 1..Len(EventsOf(log[Head(relay[q].batch)]))
        BY <2>1, EventsLen DEF Inv, OutboxTypeOK, PassOK
      <3> QED BY <3>1, <3>2, <3>3
    <2> QED BY <2>1 DEF CountedOut
  <1>2. ASSUME NEW q \in Relays \ {r} PROVE InTurn(q)'
    <2>1. InTurn(q)
      BY DEF Inv, PassSound
    <2> QED BY SMTT(30), <2>1 DEF InTurn, Earlier
  <1> QED BY <1>1, <1>2 DEF Inv, PassSound

\* The rows that pending_outbox returns.
LEMMA PendingFinite ==
    ASSUME Inv, NEW table
    PROVE  IsFiniteSet(Pending(table)) /\ Cardinality(Pending(table)) \in Nat
  <1>1. Pending(table) \in SUBSET (1..Len(log)) /\ Len(log) \in Nat
    BY DEF Pending, Inv, OutboxTypeOK
  <1>2. IsFiniteSet(1..Len(log))
    BY <1>1, FS_Interval
  <1> QED BY <1>1, <1>2, FS_Subset, FS_CardinalityType

LEMMA FetchInv ==
    ASSUME Inv, NEW r \in Relays, NEW table \in Tables, Fetch(r, table) PROVE Inv'
  <1> DEFINE size == IF Cardinality(Pending(table)) < Limit
                     THEN Cardinality(Pending(table)) ELSE Limit
  <1>1. PICK b \in [1..size -> Pending(table)] :
              /\ IsBatch(b, table)
              /\ relay' = [relay EXCEPT ![r] = [table |-> table, batch |-> b, sent |-> 0]]
    BY DEF Fetch
  <1>2. UNCHANGED <<log, marked, copies, failures>>
    BY DEF Fetch
  <1>3. size \in Nat
    BY PendingFinite, OutboxAssumption
  <1> HIDE DEF size
  <1>4. /\ Pending(table) \subseteq 1..Len(log) /\ Len(log) \in Nat
        /\ \A n \in Pending(table) : log[n].table = table
        /\ \A n \in 1..Len(log) : log[n] \in LogRow
    BY DEF Pending, Inv, OutboxTypeOK
  <1>5. b \in Seq(1..Len(log)) /\ Len(b) = size /\ \A i \in 1..size : b[i] \in Pending(table)
    BY <1>1, <1>3, <1>4
  <1>6. /\ relay'[r] = [table |-> table, batch |-> b, sent |-> 0]
        /\ \A q \in Relays \ {r} : relay'[q] = relay[q]
        /\ relay' \in [Relays -> PassVal]
    <2>1. b \in Seq(Nat)
      BY <1>4, <1>5, SeqMonotonic
    <2> QED BY <1>1, <2>1 DEF Inv, Shapes, PassVal
  <1>7. OutboxTypeOK'
    <2>1. \A h : 0 <= Len(EventsOf(h))
      BY EventsLen
    <2>2. PassOK(r)'
      BY <1>2, <1>5, <1>6, <2>1 DEF PassOK
    <2>3. ASSUME NEW q \in Relays \ {r} PROVE PassOK(q)'
      BY <1>2, <1>6, <2>3 DEF Inv, OutboxTypeOK, PassOK
    <2> QED BY <1>2, <2>2, <2>3 DEF Inv, OutboxTypeOK
  <1>8. Shapes' /\ MarkedDelivered'
    BY <1>2, <1>6 DEF Inv, Shapes, MarkedDelivered
  <1>9. ASSUME NEW i \in 1..Len(b), NEW m \in 1..Len(log), Earlier(m, b[i])
        PROVE  m \in marked \/ \E k \in 1..(i - 1) : b[k] = m
    <2>1. SUFFICES ASSUME m \notin marked PROVE \E k \in 1..(i - 1) : b[k] = m
      OBVIOUS
    <2>2. i \in 1..size /\ b[i] \in Pending(table) /\ DOMAIN b = 1..size
      BY <1>1, <1>5
    <2>3. m \in Pending(table) /\ log[m].at < log[b[i]].at
      BY <1>4, <1>9, <2>1, <2>2 DEF Pending, Earlier
    <2>4. log[m].at \in Nat /\ log[b[i]].at \in Nat
      BY <1>4, <2>2, <2>3 DEF LogRow
    <2>5. PICK k \in 1..size : b[k] = m
      BY <1>1, <2>2, <2>3, <2>4 DEF IsBatch
    <2>6. k # i
      BY <2>3, <2>4, <2>5
    <2>7. i < k => log[b[i]].at <= log[b[k]].at
      BY <1>1, <2>2, <2>5 DEF IsBatch
    <2>8. ~(i < k)
      BY <2>3, <2>4, <2>5, <2>7
    <2> QED BY <1>3, <2>2, <2>5, <2>6, <2>8
  <1>10. CountedOut(r)'
    <2>1. relay'[r].sent = 0 /\ 1..0 = {}
      BY <1>6
    <2> QED BY <2>1 DEF CountedOut
  <1>11. InTurn(r)'
    <2>1. relay'[r].batch = b
      BY <1>6
    <2> QED BY <1>2, <1>9, <2>1 DEF InTurn, Earlier
  <1> QED BY <1>2, <1>6, <1>7, <1>8, <1>10, <1>11, RelayMoves

\* A pass ends or is cut short.
LEMMA IdleInv ==
    ASSUME Inv, NEW r \in Relays, relay' \in [Relays -> PassVal], relay'[r] = NoPass,
           \A q \in Relays \ {r} : relay'[q] = relay[q],
           UNCHANGED <<log, marked, copies>>, failures' \in 0..MaxFailures
    PROVE  Inv'
  <1>2. relay'[r].batch = <<>> /\ relay'[r].sent = 0 /\ relay'[r].table = "none"
    BY DEF NoPass
  <1>3. PassOK(r)'
    <2>1. <<>> \in Seq(1..Len(log'))
      OBVIOUS
    <2>2. 0 \in Nat /\ "none" \in Tables \union {"none"}
      OBVIOUS
    <2> QED BY <1>2, <2>1, <2>2, Zenon DEF PassOK
  <1>4. ASSUME NEW q \in Relays \ {r} PROVE PassOK(q)'
    BY DEF Inv, OutboxTypeOK, PassOK
  <1>5. OutboxTypeOK' /\ Shapes' /\ MarkedDelivered'
    BY <1>3, <1>4 DEF Inv, OutboxTypeOK, Shapes, MarkedDelivered
  <1>6. CountedOut(r)' /\ InTurn(r)'
    BY <1>2 DEF CountedOut, InTurn
  <1> QED BY <1>5, <1>6, RelayMoves

\* What one publish changes.
LEMMA PublishFacts ==
    ASSUME Inv, NEW r \in Relays, PublishEvent(r)
    PROVE  LET n == Head(relay[r].batch)
               j == relay[r].sent + 1
           IN  /\ relay[r].batch # <<>> /\ n \in 1..Len(log) /\ j \in 1..Len(EventsOf(log[n]))
               /\ UNCHANGED <<log, marked, failures>>
               /\ copies[n] \in [1..Len(EventsOf(log[n])) -> Nat]
               /\ copies' = [copies EXCEPT ![n] = [copies[n] EXCEPT ![j] = copies[n][j] + 1]]
               /\ DOMAIN copies = 1..Len(log)
               /\ relay'[r].batch = relay[r].batch /\ relay'[r].sent = j
               /\ relay'[r].table = relay[r].table
               /\ \A q \in Relays \ {r} : relay'[q] = relay[q]
               /\ relay' \in [Relays -> PassVal]
  <1> DEFINE n == Head(relay[r].batch)
             j == relay[r].sent + 1
  <1>1. relay[r].batch # <<>> /\ j <= Len(EventsOf(log[n])) /\ UNCHANGED <<log, marked, failures>>
        /\ copies' = [copies EXCEPT ![n] = [copies[n] EXCEPT ![j] = copies[n][j] + 1]]
        /\ relay' = [relay EXCEPT ![r].sent = j]
    BY DEF PublishEvent
  <1>2. n \in 1..Len(log) /\ relay[r].sent \in Nat
    BY <1>1, BatchFacts DEF Inv, OutboxTypeOK, PassOK
  <1>3. j \in 1..Len(EventsOf(log[n]))
    BY <1>1, <1>2, EventsLen
  <1>4. copies[n] \in [1..Len(EventsOf(log[n])) -> Nat] /\ DOMAIN copies = 1..Len(log)
    BY <1>2 DEF Inv, OutboxTypeOK
  <1>5. /\ relay'[r].batch = relay[r].batch /\ relay'[r].sent = j
        /\ relay'[r].table = relay[r].table
        /\ \A q \in Relays \ {r} : relay'[q] = relay[q]
        /\ relay' \in [Relays -> PassVal]
    <2>1. relay \in [Relays -> PassVal] /\ j \in Nat
      BY <1>2 DEF Inv, Shapes
    <2> HIDE DEF j
    <2> QED BY <1>1, <2>1 DEF PassVal
  <1> QED BY <1>1, <1>2, <1>3, <1>4, <1>5

LEMMA Counting ==
    ASSUME NEW K \in Nat, NEW f \in [1..K -> Nat], NEW j \in 1..K
    PROVE  LET g == [f EXCEPT ![j] = f[j] + 1]
           IN  /\ g \in [1..K -> Nat] /\ g[j] > 0
               /\ \A i \in 1..K : g[i] > 0 <=> f[i] > 0 \/ i = j
  OBVIOUS

LEMMA PublishInv ==
    ASSUME Inv, NEW r \in Relays, PublishEvent(r) PROVE Inv'
  <1> DEFINE n == Head(relay[r].batch)
             j == relay[r].sent + 1
             CV == UNION {[1..k -> Nat] : k \in Nat}
  <1>0. /\ relay[r].batch # <<>> /\ n \in 1..Len(log) /\ j \in 1..Len(EventsOf(log[n]))
        /\ UNCHANGED <<log, marked, failures>>
        /\ copies[n] \in [1..Len(EventsOf(log[n])) -> Nat]
        /\ copies' = [copies EXCEPT ![n] = [copies[n] EXCEPT ![j] = copies[n][j] + 1]]
        /\ DOMAIN copies = 1..Len(log)
        /\ relay'[r].batch = relay[r].batch /\ relay'[r].sent = j
        /\ relay'[r].table = relay[r].table
        /\ \A q \in Relays \ {r} : relay'[q] = relay[q]
        /\ relay' \in [Relays -> PassVal]
    BY PublishFacts
  <1> DEFINE new == [copies[n] EXCEPT ![j] = copies[n][j] + 1]
  <1>1. /\ new \in [1..Len(EventsOf(log[n])) -> Nat] /\ new[j] > 0
        /\ \A i \in 1..Len(EventsOf(log[n])) : new[i] > 0 <=> copies[n][i] > 0 \/ i = j
    <2>1. Len(EventsOf(log[n])) \in Nat
      BY EventsLen
    <2>2. copies[n] \in [1..Len(EventsOf(log[n])) -> Nat] /\ j \in 1..Len(EventsOf(log[n]))
      BY <1>0
    <2> HIDE DEF n, j
    <2> QED BY <2>1, <2>2, Counting
  <1>2. copies'[n] = new /\ \A m \in 1..Len(log) : m # n => copies'[m] = copies[m]
    BY <1>0
  <1>3. DOMAIN copies' = 1..Len(log) /\ copies' \in Seq(CV)
    <2>1. copies \in Seq(CV) /\ Len(copies) = Len(log)
      BY <1>0 DEF Inv, Shapes
    <2>2. new \in CV
      BY <1>1, EventsLen
    <2> HIDE DEF new, CV
    <2> QED BY <1>0, <2>1, <2>2 DEF new
  <1> HIDE DEF new, CV
  <1>4. \A m \in 1..Len(log) : \A i \in 1..Len(EventsOf(log[m])) :
            copies[m][i] > 0 => copies'[m][i] > 0
    BY <1>1, <1>2
  <1>5. ASSUME NEW q \in Relays PROVE PassOK(q)'
    <2>1. CASE q = r
      <3>1. PassOK(r) /\ j \in Nat /\ j <= Len(EventsOf(log[n]))
        BY <1>0, EventsLen DEF Inv, OutboxTypeOK
      <3> HIDE DEF j
      <3> QED BY <1>0, <2>1, <3>1 DEF PassOK
    <2>2. CASE q # r
      BY <1>0, <2>2 DEF Inv, OutboxTypeOK, PassOK
    <2> QED BY <2>1, <2>2
  <1>6. \A m \in 1..Len(log) : copies'[m] \in [1..Len(EventsOf(log[m])) -> Nat]
    BY <1>1, <1>2 DEF Inv, OutboxTypeOK
  <1>7. OutboxTypeOK'
    BY <1>0, <1>3, <1>5, <1>6 DEF Inv, OutboxTypeOK
  <1>8. Shapes'
    BY <1>0, <1>3 DEF Inv, Shapes, CV
  <1>9. MarkedDelivered'
    BY <1>0, <1>4 DEF Inv, MarkedDelivered, OutboxTypeOK
  <1>10. CountedOut(r)'
    <2>1. ASSUME NEW i \in 1..j PROVE copies'[n][i] > 0
      <3>1. CASE i = j
        BY <1>1, <1>2, <3>1
      <3>2. CASE i # j
        <4>1. i \in 1..relay[r].sent /\ i \in 1..Len(EventsOf(log[n]))
          BY SMTT(30), <1>0, <3>2, EventsLen DEF Inv, OutboxTypeOK, PassOK
        <4> QED BY <1>0, <1>1, <1>2, <4>1 DEF Inv, PassSound, CountedOut
      <3> QED BY <3>1, <3>2
    <2> QED BY <1>0, <2>1 DEF CountedOut
  <1>11. InTurn(r)'
    <2>1. InTurn(r)
      BY DEF Inv, PassSound
    <2>2. relay'[r].batch = relay[r].batch /\ log' = log /\ marked' = marked
      BY <1>0
    <2> QED BY SMTT(30), <2>1, <2>2 DEF InTurn, Earlier
  <1> QED BY <1>0, <1>4, <1>7, <1>8, <1>9, <1>10, <1>11, RelayMoves

\* What a mark changes.
LEMMA MarkFacts ==
    ASSUME Inv, NEW r \in Relays, Mark(r)
    PROVE  LET n == Head(relay[r].batch)
           IN  /\ relay[r].batch # <<>> /\ n \in 1..Len(log)
               /\ relay[r].sent = Len(EventsOf(log[n]))
               /\ UNCHANGED <<log, copies, failures>> /\ marked' = marked \union {n}
               /\ relay'[r].batch = Tail(relay[r].batch) /\ relay'[r].sent = 0
               /\ relay'[r].table = relay[r].table
               /\ \A q \in Relays \ {r} : relay'[q] = relay[q]
               /\ relay' \in [Relays -> PassVal]
  <1> DEFINE n == Head(relay[r].batch)
  <1>1. /\ relay[r].batch # <<>> /\ relay[r].sent = Len(EventsOf(log[n]))
        /\ UNCHANGED <<log, copies, failures>> /\ marked' = marked \union {n}
        /\ relay' = [relay EXCEPT ![r] = [relay[r] EXCEPT !.batch = Tail(relay[r].batch), !.sent = 0]]
    BY DEF Mark
  <1>2. n \in 1..Len(log)
    BY <1>1, BatchFacts
  <1>3. relay \in [Relays -> PassVal] /\ Tail(relay[r].batch) \in Seq(Nat)
    BY <1>1, HeadTail DEF Inv, Shapes, PassVal
  <1>4. /\ relay'[r].batch = Tail(relay[r].batch) /\ relay'[r].sent = 0
        /\ relay'[r].table = relay[r].table
        /\ \A q \in Relays \ {r} : relay'[q] = relay[q]
        /\ relay' \in [Relays -> PassVal]
    BY <1>1, <1>3 DEF PassVal
  <1> QED BY <1>1, <1>2, <1>4

LEMMA MarkInv ==
    ASSUME Inv, NEW r \in Relays, Mark(r) PROVE Inv'
  <1> DEFINE n == Head(relay[r].batch)
             b == relay[r].batch
  <1>0. /\ b # <<>> /\ n \in 1..Len(log) /\ relay[r].sent = Len(EventsOf(log[n]))
        /\ UNCHANGED <<log, copies, failures>> /\ marked' = marked \union {n}
        /\ relay'[r].batch = Tail(b) /\ relay'[r].sent = 0
        /\ relay'[r].table = relay[r].table
        /\ \A q \in Relays \ {r} : relay'[q] = relay[q]
        /\ relay' \in [Relays -> PassVal]
    BY MarkFacts
  <1>1. /\ Len(b) \in Nat /\ n = b[1] /\ Tail(b) \in Seq(1..Len(log)) /\ Len(Tail(b)) = Len(b) - 1
        /\ \A i \in 1..(Len(b) - 1) : Tail(b)[i] = b[i + 1]
    BY <1>0, BatchFacts
  <1>2. \A h : 0 <= Len(EventsOf(h))
    BY EventsLen
  <1>3. ASSUME NEW q \in Relays PROVE PassOK(q)'
    <2>1. CASE q = r
      BY SMTT(30), <1>0, <1>1, <1>2, <2>1 DEF Inv, OutboxTypeOK, PassOK
    <2>2. CASE q # r
      BY <1>0, <2>2 DEF Inv, OutboxTypeOK, PassOK
    <2> QED BY <2>1, <2>2
  <1>4. OutboxTypeOK' /\ Shapes'
    BY <1>0, <1>3 DEF Inv, OutboxTypeOK, Shapes
  <1>5. MarkedDelivered'
    <2>1. DomainTopic(log[n]) # "none"
      BY <1>0, EdgeHasTopic DEF Inv, Shapes
    <2>2. \A j \in 1..Len(EventsOf(log[n])) : copies[n][j] > 0
      BY <1>0 DEF Inv, PassSound, CountedOut
    <2> QED BY <1>0, <2>1, <2>2 DEF Inv, MarkedDelivered
  <1>6. CountedOut(r)'
    <2>1. 1..0 = {}
      OBVIOUS
    <2> QED BY <1>0, <2>1 DEF CountedOut
  <1>7. InTurn(r)'
    <2>1. ASSUME NEW i \in 1..Len(Tail(b)), NEW m \in 1..Len(log), Earlier(m, Tail(b)[i])
          PROVE  m \in marked' \/ \E k \in 1..(i - 1) : Tail(b)[k] = m
      <3>1. i + 1 \in 1..Len(b) /\ Earlier(m, b[i + 1])
        BY <1>1, <2>1
      <3>2. m \in marked \/ \E k \in 1..i : b[k] = m
        BY <3>1 DEF Inv, PassSound, InTurn
      <3>3. ASSUME NEW k \in 1..i, b[k] = m, k # 1 PROVE \E l \in 1..(i - 1) : Tail(b)[l] = m
        <4>1. k - 1 \in 1..(i - 1) /\ Tail(b)[k - 1] = m
          BY <1>1, <3>3
        <4> QED BY <4>1
      <3> QED BY <1>0, <1>1, <3>2, <3>3
    <2>2. relay'[r].batch = Tail(b) /\ log' = log
      BY <1>0
    <2> HIDE DEF b, n
    <2>3. ASSUME NEW i \in 1..Len(relay'[r].batch), NEW m \in 1..Len(log'),
                 Earlier(m, relay[r].batch[i])'
          PROVE  m \in marked' \/ \E k \in 1..(i - 1) : relay'[r].batch[k] = m
      <3>1. Earlier(m, Tail(b)[i])
        BY <2>2, <2>3 DEF Earlier
      <3> QED BY <2>1, <2>2, <3>1
    <2> QED BY <2>3 DEF InTurn
  <1>8. marked \subseteq marked'
    BY <1>0
  <1>9. \A m \in 1..Len(log) : \A j \in 1..Len(EventsOf(log[m])) :
            copies[m][j] > 0 => copies'[m][j] > 0
    BY <1>0
  <1> QED BY <1>0, <1>4, <1>5, <1>6, <1>7, <1>8, <1>9, RelayMoves

LEMMA Emptied ==
    ASSUME Inv, NEW r \in Relays, relay' = [relay EXCEPT ![r] = NoPass]
    PROVE  /\ relay' \in [Relays -> PassVal] /\ relay'[r] = NoPass
           /\ \A q \in Relays \ {r} : relay'[q] = relay[q]
  BY DEF Inv, Shapes, NoPass, PassVal

LEMMA InvNext == ASSUME Inv, [OutboxNext]_outboxVars PROVE Inv'
  <1>1. ASSUME NEW e \in Edges, NEW t \in Times, Record(e, t) PROVE Inv'
    BY <1>1, RecordInv
  <1>2. ASSUME NEW r \in Relays, StartPass(r) \/ NextTable(r) PROVE Inv'
    BY <1>2, FetchInv DEF StartPass, NextTable, Tables
  <1>3. ASSUME NEW r \in Relays, EndPass(r) PROVE Inv'
    BY <1>3, Emptied, IdleInv DEF EndPass, Inv, OutboxTypeOK
  <1>4. ASSUME NEW r \in Relays, Abort(r) PROVE Inv'
    <2>1. relay' = [relay EXCEPT ![r] = NoPass] /\ UNCHANGED <<log, marked, copies>>
      BY <1>4 DEF Abort
    <2>2. failures' \in 0..MaxFailures
      BY <1>4, OutboxAssumption DEF Abort, Inv, OutboxTypeOK
    <2> QED BY <2>1, <2>2, Emptied, IdleInv
  <1>5. ASSUME NEW r \in Relays, PublishEvent(r) PROVE Inv'
    BY <1>5, PublishInv
  <1>6. ASSUME NEW r \in Relays, Mark(r) PROVE Inv'
    BY <1>6, MarkInv
  <1>7. CASE UNCHANGED outboxVars
    <2>1. OutboxTypeOK' /\ Shapes' /\ MarkedDelivered'
      BY <1>7 DEF Inv, OutboxTypeOK, PassOK, Shapes, MarkedDelivered
    <2>2. ASSUME NEW r \in Relays PROVE CountedOut(r)'
      BY <1>7 DEF Inv, PassSound, CountedOut
    <2>3. ASSUME NEW r \in Relays PROVE InTurn(r)'
      <3>1. InTurn(r)
        BY DEF Inv, PassSound
      <3> QED BY ZenonT(40), <1>7, <3>1 DEF InTurn, Earlier
    <2> QED BY <2>1, <2>2, <2>3 DEF Inv, PassSound
  <1> QED BY <1>1, <1>2, <1>3, <1>4, <1>5, <1>6, <1>7 DEF OutboxNext, RelayStep

LEMMA InvAlways == OutboxSpec => []Inv
  BY InvInit, InvNext, PTL DEF OutboxSpec

\* Every reachable state of the relays is well typed, and no pass counts more
\* events than invoice_row_to_events gives for its row.
THEOREM RelayTyped == OutboxSpec => []OutboxTypeOK
  BY InvAlways, PTL DEF Inv

\* At least once: mark_published only ever marks rows whose events have all
\* been published, however many relays share the rows and wherever passes end.
THEOREM DeliveredBeforeMark == OutboxSpec => []MarkedDelivered
  BY InvAlways, PTL DEF Inv

(* Refinement *)

\* Delivered, at the level of the rows: a pair whose count is not zero.
OutPairs == {p \in (1..Len(log)) \X Nat :
                 p[2] \in 1..Len(EventsOf(log[p[1]])) /\ copies[p[1]][p[2]] > 0}

LEMMA SeenPairs == OutboxTypeOK => SeenEvents = OutPairs
  <1> SUFFICES ASSUME OutboxTypeOK PROVE SeenEvents = OutPairs
    OBVIOUS
  <1>1. DOMAIN log = 1..Len(log) /\ \A n \in 1..Len(log) : DOMAIN copies[n] = 1..Len(EventsOf(log[n]))
    BY DEF OutboxTypeOK
  <1>2. ASSUME NEW p \in SeenEvents PROVE p \in OutPairs
    <2>1. PICK n \in 1..Len(log) : \E j \in 1..Len(EventsOf(log[n])) : copies[n][j] > 0 /\ p = <<n, j>>
      BY <1>1, <1>2 DEF SeenEvents
    <2>2. PICK j \in 1..Len(EventsOf(log[n])) : copies[n][j] > 0 /\ p = <<n, j>>
      BY <2>1
    <2>3. j \in Nat
      BY EventsLen
    <2> QED BY <2>2, <2>3 DEF OutPairs
  <1>3. ASSUME NEW p \in OutPairs PROVE p \in SeenEvents
    BY <1>1, <1>3 DEF SeenEvents, OutPairs
  <1> QED BY <1>2, <1>3

LEMMA SeenPairsNext == (OutboxTypeOK => SeenEvents = OutPairs)'
  BY SeenPairs, PTL

SeenRow == [stream : Tables, at : Nat, size : Nat]

SeenFacts ==
    /\ Len(log) \in Nat /\ SeenRows \in Seq(SeenRow) /\ Len(SeenRows) = Len(log)
    /\ DOMAIN SeenRows = 1..Len(log) /\ \A n \in 1..Len(log) : SeenRows[n] = Seen(log[n])

LEMMA SeenTyped == OutboxTypeOK => SeenFacts
  <1> SUFFICES ASSUME OutboxTypeOK PROVE SeenFacts
    OBVIOUS
  <1>1. log \in Seq(LogRow) /\ Len(log) \in Nat /\ DOMAIN log = 1..Len(log)
    BY DEF OutboxTypeOK
  <1>2. ASSUME NEW n \in 1..Len(log) PROVE Seen(log[n]) \in SeenRow
    <2>1. log[n] \in LogRow
      BY <1>1
    <2> QED BY <2>1, EventsLen DEF Seen, LogRow, SeenRow
  <1> QED BY <1>1, <1>2 DEF SeenRows, SeenFacts

LEMMA SeenTypedNext == (OutboxTypeOK => SeenFacts)'
  BY SeenTyped, PTL

\* A step of the relays is a step of the delivery: a row commits, an event is
\* delivered that was not, a row settles; or nothing that its readers see.
LEMMA StepRefines == ASSUME Inv, Inv', [OutboxNext]_outboxVars PROVE [Delivery!Next]_(Delivery!vars)
  <1>0. /\ Len(log) \in Nat /\ SeenRows \in Seq(SeenRow) /\ Len(SeenRows) = Len(log)
        /\ DOMAIN SeenRows = 1..Len(log) /\ \A n \in 1..Len(log) : SeenRows[n] = Seen(log[n])
    BY SeenTyped DEF Inv, SeenFacts
  <1>1. ASSUME NEW e \in Edges, NEW t \in Times, Record(e, t)
        PROVE  \E h \in {Seen([table |-> f.table, event |-> f.event, from |-> f.from,
                              to |-> f.to, at |-> u]) : f \in Edges, u \in Times} :
                   Delivery!Commit(h)
    <2> DEFINE h == [table |-> e.table, event |-> e.event, from |-> e.from, to |-> e.to, at |-> t]
               N == Len(log) + 1
    <2>1. /\ Len(log') = N /\ log' \in Seq(LogRow) /\ log'[N] = h /\ marked' = marked
          /\ \A n \in 1..Len(log) : log'[n] = log[n] /\ copies'[n] = copies[n]
          /\ copies'[N] = [j \in 1..Len(EventsOf(h)) |-> 0]
      BY <1>1, RecordFacts
    <2> HIDE DEF h
    <2>2. Len(SeenRows) < MaxRows
      BY <1>0, <1>1 DEF Record
    <2>3. SeenRows' = Append(SeenRows, Seen(h))
      <3>1. /\ SeenRows' \in Seq(SeenRow) /\ Len(SeenRows') = N
            /\ \A n \in 1..N : SeenRows'[n] = Seen(log'[n])
        BY <2>1, SeenTypedNext DEF Inv, SeenFacts
      <3>2. Seen(h) \in SeenRow
        <4>1. N \in 1..N
          BY <1>0
        <4> QED BY <2>1, <3>1, <4>1
      <3>3. \A n \in 1..N : n \in 1..Len(log) \/ n = N
        BY <1>0
      <3>4. \A n \in 1..N : SeenRows'[n] = Append(SeenRows, Seen(h))[n]
        BY <1>0, <2>1, <3>1, <3>3
      <3>5. Append(SeenRows, Seen(h)) \in Seq(SeenRow) /\ Len(Append(SeenRows, Seen(h))) = N
        BY <1>0, <3>2
      <3> QED BY <3>1, <3>4, <3>5, SeqEqual
    <2>4. OutPairs' = OutPairs
      <3>1. \A n \in 1..Len(log') : n \in 1..Len(log) \/ n = N
        BY <1>0, <2>1
      <3>2. \A j \in 1..Len(EventsOf(log'[N])) : ~(copies'[N][j] > 0)
        BY <2>1
      <3>3. 1..Len(log) \subseteq 1..Len(log')
        BY <1>0, <2>1
      <3> QED BY <2>1, <3>1, <3>2, <3>3 DEF OutPairs
    <2>5. SeenEvents' = SeenEvents
      BY <2>4, SeenPairs, SeenPairsNext DEF Inv
    <2>6. Delivery!Commit(Seen(h))
      BY <2>1, <2>2, <2>3, <2>5 DEF Delivery!Commit
    <2> QED BY <2>6 DEF h
  <1>2. ASSUME NEW r \in Relays, PublishEvent(r)
        PROVE  \E n \in DOMAIN SeenRows : \E j \in 1..SeenRows[n].size : Delivery!Deliver(n, j)
    <2> DEFINE n == Head(relay[r].batch)
               j == relay[r].sent + 1
               new == [copies[n] EXCEPT ![j] = copies[n][j] + 1]
    <2>1. /\ relay[r].batch # <<>> /\ n \in 1..Len(log) /\ j \in 1..Len(EventsOf(log[n]))
          /\ UNCHANGED <<log, marked>> /\ copies[n] \in [1..Len(EventsOf(log[n])) -> Nat]
          /\ copies' = [copies EXCEPT ![n] = new] /\ DOMAIN copies = 1..Len(log)
      BY <1>2, PublishFacts
    <2>2. SeenRows[n].size = Len(EventsOf(log[n])) /\ SeenRows' = SeenRows
      BY <1>0, <2>1 DEF SeenRows, Seen
    <2>3. ASSUME NEW i \in 1..(j - 1) PROVE <<n, i>> \in SeenEvents
      <3>1. i \in 1..relay[r].sent /\ i \in Nat /\ i \in 1..Len(EventsOf(log[n]))
        <4>1. relay[r].sent \in Nat /\ i \in Nat /\ 1 <= i /\ i <= relay[r].sent
          BY DEF Inv, OutboxTypeOK, PassOK
        <4>2. Len(EventsOf(log[n])) \in Nat
          BY EventsLen
        <4>3. relay[r].sent <= Len(EventsOf(log[n]))
          BY <2>1 DEF Inv, OutboxTypeOK, PassOK
        <4> QED BY <4>1, <4>2, <4>3
      <3>2. copies[n][i] > 0
        BY <2>1, <3>1 DEF Inv, PassSound, CountedOut
      <3> HIDE DEF n
      <3> QED BY <2>1, <3>1, <3>2, SeenPairs DEF Inv, OutPairs
    <2>4. ASSUME NEW m \in 1..(n - 1), Delivery!Precedes(m, n) PROVE m \in marked
      <3> HIDE DEF n, j, new
      <3>1. m \in 1..Len(log) /\ m < n
        BY <1>0, <2>1
      <3>2. Earlier(m, n)
        BY <1>0, <2>1, <2>4, <3>1 DEF Earlier, Delivery!Precedes, Seen
      <3> USE DEF n
      <3>3. 1 \in 1..Len(relay[r].batch) /\ n = relay[r].batch[1] /\ 1..(1 - 1) = {}
        BY <2>1, BatchFacts
      <3> HIDE DEF n
      <3> QED BY <3>1, <3>2, <3>3 DEF Inv, PassSound, InTurn
    <2>5. OutPairs' = OutPairs \union {<<n, j>>}
      <3>1. /\ Len(EventsOf(log[n])) \in Nat
            /\ j \in 1..Len(EventsOf(log[n])) /\ j \in Nat
        BY <2>1, EventsLen
      <3> HIDE DEF n, j
      <3>2. \A i \in 1..Len(EventsOf(log[n])) : new[i] > 0 <=> copies[n][i] > 0 \/ i = j
        BY <2>1, <3>1, Counting
      <3>3. copies'[n] = new /\ \A m \in 1..Len(log) \ {n} : copies'[m] = copies[m]
        BY <2>1
      <3> HIDE DEF new
      <3>4. ASSUME NEW p \in (1..Len(log)) \X Nat
            PROVE  p \in OutPairs' <=> p \in OutPairs \/ p = <<n, j>>
        <4>1. PICK m \in 1..Len(log), i \in Nat : p = <<m, i>>
          BY <3>4
        <4>2. CASE m = n
          BY <2>1, <3>1, <3>2, <3>3, <4>1, <4>2 DEF OutPairs
        <4>3. CASE m # n
          BY <2>1, <3>3, <4>1, <4>3 DEF OutPairs
        <4> QED BY <4>2, <4>3
      <3>5. /\ OutPairs' \subseteq (1..Len(log)) \X Nat /\ OutPairs \subseteq (1..Len(log)) \X Nat
            /\ <<n, j>> \in (1..Len(log)) \X Nat
        BY <2>1, <3>1 DEF OutPairs
      <3> QED BY <3>4, <3>5
    <2>6. SeenEvents' = SeenEvents \union {<<n, j>>}
      BY <2>5, SeenPairs, SeenPairsNext DEF Inv
    <2> HIDE DEF n, j
    <2>7. Delivery!Deliver(n, j)
      BY <2>1, <2>2, <2>3, <2>4, <2>6 DEF Delivery!Deliver
    <2> QED BY <1>0, <2>1, <2>2, <2>7
  <1>3. ASSUME NEW r \in Relays, Mark(r)
        PROVE  \E n \in DOMAIN SeenRows : Delivery!Settle(n)
    <2> DEFINE n == Head(relay[r].batch)
    <2>1. /\ relay[r].batch # <<>> /\ n \in 1..Len(log) /\ relay[r].sent = Len(EventsOf(log[n]))
          /\ UNCHANGED <<log, copies>> /\ marked' = marked \union {n}
      BY <1>3, MarkFacts
    <2>2. SeenRows[n].size = Len(EventsOf(log[n]))
      BY <1>0, <2>1 DEF Seen
    <2>3. ASSUME NEW j \in 1..SeenRows[n].size PROVE <<n, j>> \in SeenEvents
      <3>1. copies[n][j] > 0 /\ j \in Nat /\ j \in 1..Len(EventsOf(log[n]))
        BY <2>1, <2>2, EventsLen DEF Inv, PassSound, CountedOut
      <3> HIDE DEF n
      <3> QED BY <2>1, <3>1, SeenPairs DEF Inv, OutPairs
    <2>4. UNCHANGED <<SeenRows, SeenEvents>>
      BY <2>1 DEF SeenRows, SeenEvents
    <2> HIDE DEF n
    <2>5. Delivery!Settle(n)
      BY <2>1, <2>3, <2>4 DEF Delivery!Settle
    <2> QED BY <1>0, <2>1, <2>5
  <1>4. ASSUME UNCHANGED <<log, copies, marked>> PROVE UNCHANGED Delivery!vars
    BY <1>4 DEF Delivery!vars, SeenRows, SeenEvents
  <1> QED BY <1>1, <1>2, <1>3, <1>4 DEF OutboxNext, RelayStep, StartPass, NextTable, Fetch, EndPass, Abort,
             Delivery!Next

\* The safety part of DeliveryRefined: whatever the relays do, their readers see
\* a behaviour of OutboxDelivery, in which an event is first delivered after the
\* events before it and after the rows that precede its own are settled.
THEOREM DeliverySafe == OutboxSpec => Delivery!SafeSpec
  <1>1. OutboxInit => Delivery!Init
    BY DEF OutboxInit, Delivery!Init, SeenRows, SeenEvents
  <1>2. Inv /\ Inv' /\ [OutboxNext]_outboxVars => [Delivery!Next]_(Delivery!vars)
    BY StepRefines
  <1> QED BY <1>1, <1>2, InvAlways, PTL DEF OutboxSpec, Delivery!SafeSpec
=============================================================================
