---------------------------- MODULE TickersProofs ----------------------------
(***************************************************************************)
(* The two tickers that only announce, for any number of reminders,        *)
(* invoices, commands, ticking processes and cancellations.  The overdue   *)
(* tick: its queries follow the lifecycle, so that an invoice that moves   *)
(* forward is found by a later query.  The reminder tick: a row is saved   *)
(* before it is announced, and a saved row never becomes due again.        *)
(***************************************************************************)
EXTENDS Reminders, OverdueTicker, FiniteSetTheorems, SequenceTheorems, TLAPS

USE DEF remVars, overdueVars

(* The overdue tick *)

OverdueInv == OverdueTypeOK /\ ScanSound

LEMMA ScanOrderFacts ==
    /\ Len(ScanOrder) = 4
    /\ ScanOrder[1] = "Issued" /\ ScanOrder[2] = "Sent" /\ ScanOrder[3] = "Viewed"
    /\ ScanOrder[4] = "PartiallyPaid"
  BY DEF ScanOrder

\* A command moves an unpaid invoice along the order of the queries, or settles it.
LEMMA MovesForward ==
    ASSUME NEW ev, NEW f \in Payable, NEW to, CommandEdge(ev, f, to), to \notin Terminal,
           NEW q \in 0..4, \E k \in (q + 1)..4 : f = ScanOrder[k]
    PROVE  to \in Payable /\ \E k \in (q + 1)..4 : to = ScanOrder[k]
  <1>1. PICK k \in (q + 1)..4 : f = ScanOrder[k]
    OBVIOUS
  <1>2. /\ k = 1 \/ k = 2 \/ k = 3 \/ k = 4
        /\ \/ to = f
           \/ f = "Issued" /\ to = "Sent"
           \/ f = "Sent" /\ to = "Viewed"
           \/ to = "PartiallyPaid"
    BY DEF CommandEdge, Payable, Terminal
  <1>3. CASE to = f
    BY <1>1, <1>3
  <1>4. CASE f = "Issued" /\ to = "Sent"
    <2>1. k = 1
      BY <1>1, <1>2, <1>4, ScanOrderFacts
    <2> QED BY <2>1, <1>4, ScanOrderFacts DEF Payable
  <1>5. CASE f = "Sent" /\ to = "Viewed"
    <2>1. k = 2
      BY <1>1, <1>2, <1>5, ScanOrderFacts
    <2> QED BY <2>1, <1>5, ScanOrderFacts DEF Payable
  <1>6. CASE to = "PartiallyPaid"
    BY <1>6, ScanOrderFacts DEF Payable
  <1> QED BY <1>2, <1>3, <1>4, <1>5, <1>6

\* Where an unpaid invoice stands in the lifecycle, the queries follow.
LEMMA NotBack ==
    ASSUME NEW f \in Payable, NEW to \in States, to # "Draft", to \notin Terminal, ~Precedes(to, f),
           NEW q \in 0..4, \E k \in (q + 1)..4 : f = ScanOrder[k]
    PROVE  \E k \in (q + 1)..4 : to = ScanOrder[k]
  <1>1. PICK k \in (q + 1)..4 : f = ScanOrder[k]
    OBVIOUS
  <1>2. k \in 1..4 /\ to \in Payable
    BY DEF States, Terminal, Payable
  <1>3. PICK j \in 1..4 : to = ScanOrder[j]
    BY <1>2, ScanOrderFacts DEF Payable
  <1>4. /\ DOMAIN Lifecycle = 1..5
        /\ \A m \in 1..4 : Lifecycle[m + 1] = ScanOrder[m]
    <2>1. /\ DOMAIN Lifecycle = 1..5
          /\ Lifecycle[2] = "Issued" /\ Lifecycle[3] = "Sent" /\ Lifecycle[4] = "Viewed"
          /\ Lifecycle[5] = "PartiallyPaid"
      BY DEF Lifecycle
    <2> QED BY <2>1, ScanOrderFacts
  <1>5. j >= k
    <2> SUFFICES ASSUME j < k PROVE FALSE
      BY <1>2, <1>3
    <2>1. /\ j + 1 \in DOMAIN Lifecycle /\ k + 1 \in DOMAIN Lifecycle /\ j + 1 < k + 1
          /\ to = Lifecycle[j + 1] /\ f = Lifecycle[k + 1]
      BY <1>1, <1>2, <1>3, <1>4
    <2> QED BY <2>1 DEF Precedes
  <1> QED BY <1>2, <1>3, <1>5

LEMMA OverdueInitInv == OverdueInit => OverdueInv
  <1> SUFFICES ASSUME OverdueInit PROVE OverdueInv
    OBVIOUS
  <1>1. /\ scan \in ScanVal /\ scan.pc = "idle" /\ scan.at = 0 /\ scan.queried = 0 /\ scan.rows = <<>>
    BY DEF OverdueInit, NoScan, ScanVal
  <1>2. day \in 1..LastDay /\ 0 <= day /\ 0 \in 0..LastDay
    BY OverdueAssumption DEF OverdueInit
  <1>3. /\ state \in [Billed -> States] /\ flagged = {} /\ announced = {} /\ steady = {} /\ setBack = {}
        /\ flight \in [Commands -> FlightVal]
    BY DEF OverdueInit, FlightVal
  <1>4. OverdueTypeOK
    BY <1>1, <1>2, <1>3 DEF OverdueTypeOK
  <1>5. ScanSound
    BY <1>1, <1>2, <1>3 DEF ScanSound
  <1> QED BY <1>4, <1>5 DEF OverdueInv

LEMMA LoadInv ==
    ASSUME OverdueInv, NEW c \in Commands, NEW i \in Billed,
           NEW ev \in {"issue", "send", "view", "pay", "void"}, NEW to \in States,
           CommandLoad(c, i, ev, to)
    PROVE  OverdueInv'
  <1> DEFINE w == [pc |-> "save", inv |-> i, from |-> state[i], to |-> to]
  <1>1. /\ CommandEdge(ev, state[i], to) /\ flight' = [flight EXCEPT ![c] = w]
        /\ UNCHANGED <<day, state, scan, flagged, announced, steady, setBack>>
    BY DEF CommandLoad
  <1>2. state[i] \in States /\ flight \in [Commands -> FlightVal]
    BY DEF OverdueInv, OverdueTypeOK
  <1>3. w \in FlightVal
    <2>1. /\ w \in [pc : {"save"}, inv : Billed, from : States, to : States]
          /\ w.from = state[i] /\ w.to = to
      BY <1>2
    <2> HIDE DEF w
    <2> QED BY <1>1, <2>1 DEF FlightVal
  <1> HIDE DEF w
  <1>4. flight' \in [Commands -> FlightVal]
    BY <1>1, <1>2, <1>3
  <1>5. OverdueTypeOK'
    BY <1>1, <1>4 DEF OverdueInv, OverdueTypeOK
  <1>6. ScanSound'
    BY <1>1 DEF OverdueInv, ScanSound, WasRead, WillBeRead
  <1> QED BY <1>5, <1>6 DEF OverdueInv

LEMMA FailInv == ASSUME OverdueInv, NEW c \in Commands, CommandFail(c) PROVE OverdueInv'
  <1>1. /\ flight' = [flight EXCEPT ![c] = Over]
        /\ UNCHANGED <<day, state, scan, flagged, announced, steady, setBack>>
    BY DEF CommandFail
  <1>2. flight' \in [Commands -> FlightVal]
    BY <1>1 DEF OverdueInv, OverdueTypeOK, FlightVal
  <1>3. OverdueTypeOK'
    BY <1>1, <1>2 DEF OverdueInv, OverdueTypeOK
  <1>4. ScanSound'
    BY <1>1 DEF OverdueInv, ScanSound, WasRead, WillBeRead
  <1> QED BY <1>3, <1>4 DEF OverdueInv

LEMMA SaveInv == ASSUME OverdueInv, NEW c \in Commands, CommandSave(c) PROVE OverdueInv'
  <1> DEFINE w == flight[c]
             i == w.inv
             f == state[i]
             to == w.to
             back == i \in steady /\ f # w.from /\ Precedes(to, f)
  <1>1. /\ w.pc = "save"
        /\ state' = [state EXCEPT ![i] = to]
        /\ flight' = [flight EXCEPT ![c] = Over]
        /\ steady' = IF to \in Terminal THEN steady \ {i} ELSE steady
        /\ setBack' = IF back THEN setBack \union {i} ELSE setBack
        /\ UNCHANGED <<day, scan, flagged, announced>>
    BY DEF CommandSave
  <1>2. w \in FlightVal /\ w # Waiting /\ w # Over
    BY <1>1 DEF OverdueInv, OverdueTypeOK, Waiting, Over
  <1>3. PICK ev \in {"issue", "send", "view", "pay", "void"} : CommandEdge(ev, w.from, to)
    BY <1>2 DEF FlightVal
  <1>4. i \in Billed /\ to \in States /\ to # "Draft"
    <2>1. i \in Billed /\ to \in States
      BY <1>2 DEF FlightVal
    <2> QED BY <1>3, <2>1 DEF CommandEdge
  <1>5. f \in States
    BY <1>4 DEF OverdueInv, OverdueTypeOK
  <1>6. flight' \in [Commands -> FlightVal]
    <2> HIDE DEF w, i, f, to, back
    <2> QED BY <1>1 DEF OverdueInv, OverdueTypeOK, FlightVal
  <1> HIDE DEF w, i, f, to, back
  <1>7. /\ state' \in [Billed -> States] /\ state'[i] = to
        /\ \A j \in Billed \ {i} : state'[j] = state[j]
    BY <1>1, <1>4 DEF OverdueInv, OverdueTypeOK
  <1>8. steady' \subseteq steady /\ setBack \subseteq setBack' /\ setBack' \subseteq Billed
    BY <1>1, <1>4 DEF OverdueInv, OverdueTypeOK
  <1>9. OverdueTypeOK'
    BY <1>1, <1>6, <1>7, <1>8 DEF OverdueInv, OverdueTypeOK
  <1>10. ASSUME NEW j \in steady'
         PROVE  /\ state'[j] \in Payable /\ DueAt[j] # 0 /\ DueAt[j] < scan.at
                /\ j \in flagged \/ j \in setBack' \/ WasRead(j)' \/ WillBeRead(j)'
    <2>1. /\ j \in Billed /\ j \in steady /\ state[j] \in Payable /\ DueAt[j] # 0 /\ DueAt[j] < scan.at
          /\ j \in flagged \/ j \in setBack \/ WasRead(j) \/ WillBeRead(j)
          /\ scan.queried \in 0..4
      BY <1>8 DEF OverdueInv, OverdueTypeOK, ScanSound
    <2>2. WasRead(j)' = WasRead(j)
      BY <1>1 DEF WasRead
    <2>3. CASE j # i
      BY <1>1, <1>7, <1>8, <2>1, <2>2, <2>3 DEF WillBeRead
    <2>4. CASE j = i
      <3>1. to \notin Terminal
        BY <1>1, <2>4
      <3>2. to \in Payable
        BY <1>4, <3>1 DEF States, Payable, Terminal
      <3>3. ASSUME WillBeRead(j), j \notin setBack' PROVE WillBeRead(j)'
        <4>1. scan.pc = "query" /\ \E k \in (scan.queried + 1)..4 : f = ScanOrder[k]
          BY <2>4, <3>3, ScanOrderFacts DEF WillBeRead, f
        <4>2. f \in Payable
          BY <2>1, <2>4 DEF f
        <4>3. CASE f = w.from
          <5>1. CommandEdge(ev, f, to)
            BY <1>3, <4>3
          <5>2. \E k \in (scan.queried + 1)..4 : to = ScanOrder[k]
            BY <2>1, <3>1, <4>1, <4>2, <5>1, MovesForward
          <5> QED BY <1>1, <1>7, <2>4, <4>1, <5>2, ScanOrderFacts DEF WillBeRead
        <4>4. CASE f # w.from
          <5>1. ~Precedes(to, f)
            BY <1>1, <2>1, <2>4, <3>3, <4>4 DEF back
          <5>2. \E k \in (scan.queried + 1)..4 : to = ScanOrder[k]
            BY <1>4, <2>1, <3>1, <4>1, <4>2, <5>1, NotBack
          <5> QED BY <1>1, <1>7, <2>4, <4>1, <5>2, ScanOrderFacts DEF WillBeRead
        <4> QED BY <4>3, <4>4
      <3> QED BY <1>7, <1>8, <2>1, <2>2, <2>4, <3>2, <3>3
    <2> QED BY <2>3, <2>4
  <1>11. ScanSound'
    BY <1>1, <1>10 DEF OverdueInv, ScanSound
  <1> QED BY <1>9, <1>11 DEF OverdueInv

\* A state that a query lists is read completely.
LEMMA AllFound ==
    ASSUME NEW S \in SUBSET Billed, NEW b \in [1..Cardinality(S) -> S],
           \A i, j \in DOMAIN b : i # j => b[i] # b[j]
    PROVE  Cardinality(S) \in Nat /\ \A i \in S : \E k \in 1..Cardinality(S) : b[k] = i
  <1>1. IsFiniteSet(S) /\ Cardinality(S) \in Nat
    BY OverdueAssumption, FS_Subset, FS_CardinalityType
  <1>2. b \in Injection(1..Cardinality(S), S)
    BY DEF Injection, IsInjective
  <1>3. Cardinality(1..Cardinality(S)) = Cardinality(S)
    BY <1>1, FS_Interval
  <1>4. b \in Surjection(1..Cardinality(S), S)
    BY <1>1, <1>2, <1>3, FS_Injection
  <1> QED BY <1>1, <1>4 DEF Surjection

LEMMA QueryInv == ASSUME OverdueInv, ScanQuery PROVE OverdueInv'
  <1> DEFINE q == scan.queried
             s == ScanOrder[q + 1]
             found == {i \in Billed : state[i] = s}
             n == Cardinality(found)
  <1>1. scan.pc = "query" /\ UNCHANGED <<day, state, flight, flagged, announced, steady, setBack>>
    BY DEF ScanQuery
  <1>2. PICK b \in [1..n -> found] :
              /\ \A i, j \in DOMAIN b : i # j => b[i] # b[j]
              /\ scan' = [scan EXCEPT
                    !.queried = @ + 1,
                    !.rows = @ \o [k \in DOMAIN b |-> [inv |-> b[k], state |-> s]],
                    !.pc = IF scan.queried + 1 = Len(ScanOrder) THEN "announce" ELSE "query"]
    BY DEF ScanQuery
  <1>3. n \in Nat /\ \A i \in found : \E k \in 1..n : b[k] = i
    <2>1. found \in SUBSET Billed
      OBVIOUS
    <2> HIDE DEF found
    <2> QED BY <1>2, <2>1, AllFound
  <1>4. q \in 0..3 /\ s \in Payable
    <2>1. q \in 0..3
      BY <1>1, ScanOrderFacts DEF OverdueInv, ScanSound, ScanVal
    <2> QED BY <2>1, ScanOrderFacts DEF Payable
  <1> DEFINE R == [inv : Billed, state : Payable]
             add == [k \in DOMAIN b |-> [inv |-> b[k], state |-> s]]
             all == scan.rows \o add
             pc == IF q + 1 = 4 THEN "announce" ELSE "query"
  <1>5. add \in Seq(R) /\ Len(add) = n /\ \A k \in 1..n : add[k].inv = b[k]
    <2> HIDE DEF s, n
    <2>1. \A k \in 1..n : [inv |-> b[k], state |-> s] \in R
      BY <1>4
    <2>2. DOMAIN b = 1..n
      OBVIOUS
    <2>3. add \in [1..n -> R] /\ \A k \in 1..n : add[k].inv = b[k]
      BY <2>1, <2>2
    <2> HIDE DEF add, R
    <2>4. Len(add) = n /\ add \in Seq(R)
      BY <1>3, <2>3
    <2> QED BY <2>3, <2>4
  <1>6. scan.rows \in Seq(R)
    BY DEF OverdueInv, ScanSound, ScanVal
  <1> HIDE DEF add
  <1>7. /\ all \in Seq(R) /\ DOMAIN all = 1..(Len(scan.rows) + n)
        /\ \A k \in DOMAIN scan.rows : k \in DOMAIN all /\ all[k] = scan.rows[k]
        /\ \A k \in 1..n : Len(scan.rows) + k \in DOMAIN all /\ all[Len(scan.rows) + k] = add[k]
    <2>1. /\ all \in Seq(R) /\ Len(all) = Len(scan.rows) + n
          /\ \A i \in 1..Len(scan.rows) + n :
                all[i] = IF i <= Len(scan.rows) THEN scan.rows[i] ELSE add[i - Len(scan.rows)]
      <3> HIDE DEF n, R
      <3> QED BY <1>5, <1>6, ConcatProperties
    <2>2. Len(scan.rows) \in Nat /\ DOMAIN scan.rows = 1..Len(scan.rows)
      BY <1>6, LenProperties
    <2>3. DOMAIN all = 1..(Len(scan.rows) + n)
      BY <2>1, LenProperties
    <2> HIDE DEF all, n
    <2>4. \A k \in DOMAIN scan.rows : k \in DOMAIN all /\ all[k] = scan.rows[k]
      BY <1>3, <2>1, <2>2, <2>3
    <2>5. ASSUME NEW k \in 1..n
          PROVE  Len(scan.rows) + k \in DOMAIN all /\ all[Len(scan.rows) + k] = add[k]
      <3>1. /\ Len(scan.rows) + k \in 1..Len(scan.rows) + n /\ ~(Len(scan.rows) + k <= Len(scan.rows))
            /\ Len(scan.rows) + k - Len(scan.rows) = k
        BY <1>3, <2>2
      <3> QED BY <2>1, <2>3, <3>1
    <2> QED BY <2>1, <2>3, <2>4, <2>5
  <1>8. scan' = [scan EXCEPT !.queried = q + 1, !.rows = all, !.pc = pc]
    BY <1>2, ScanOrderFacts DEF add
  <1>8a. scan \in ScanVal /\ pc \in {"query", "announce"} /\ q + 1 \in 0..4
    BY <1>4 DEF OverdueInv, ScanSound
  <1> HIDE DEF all, pc
  <1>9. /\ scan' \in ScanVal /\ scan'.queried = q + 1 /\ scan'.rows = all /\ scan'.at = scan.at
        /\ scan'.pc = pc
    BY <1>7, <1>8, <1>8a DEF ScanVal
  <1>10. OverdueTypeOK'
    BY <1>1, <1>9 DEF OverdueInv, OverdueTypeOK, ScanVal
  <1>11. ASSUME NEW i \in steady
         PROVE  i \in flagged \/ i \in setBack \/ WasRead(i)' \/ WillBeRead(i)'
    <2>1. i \in Billed /\ (i \in flagged \/ i \in setBack \/ WasRead(i) \/ WillBeRead(i))
      BY DEF OverdueInv, OverdueTypeOK, ScanSound
    <2>2. ASSUME WasRead(i) PROVE WasRead(i)'
      BY <1>7, <1>9, <2>2 DEF WasRead
    <2>3. ASSUME WillBeRead(i) PROVE WasRead(i)' \/ WillBeRead(i)'
      <3>1. PICK k \in (q + 1)..4 : state[i] = ScanOrder[k]
        BY <2>3, ScanOrderFacts DEF WillBeRead
      <3>2. CASE k = q + 1
        <4>1. i \in found
          BY <2>1, <3>1, <3>2
        <4>2. PICK j \in 1..n : b[j] = i
          BY <1>3, <4>1
        <4>3. all[Len(scan.rows) + j].inv = i /\ Len(scan.rows) + j \in DOMAIN all
          BY <1>5, <1>7, <4>2
        <4> HIDE DEF n
        <4> QED BY <1>9, <4>3 DEF WasRead
      <3>3. CASE k # q + 1
        <4>1. k \in (q + 2)..4 /\ q + 1 # 4
          BY <1>4, <3>1, <3>3
        <4>2. scan'.pc = "query" /\ k \in (scan'.queried + 1)..Len(ScanOrder)
          BY <1>4, <1>9, <4>1, ScanOrderFacts DEF pc
        <4> QED BY <1>1, <3>1, <4>2 DEF WillBeRead
      <3> QED BY <3>2, <3>3
    <2> QED BY <2>1, <2>2, <2>3
  <1>12. scan'.pc = "query" => scan'.queried < Len(ScanOrder)
    BY <1>4, <1>9, ScanOrderFacts DEF pc
  <1>13. ScanSound'
    BY <1>1, <1>9, <1>11, <1>12 DEF OverdueInv, ScanSound
  <1> QED BY <1>10, <1>13 DEF OverdueInv

LEMMA AnnounceInv == ASSUME OverdueInv, ScanAnnounce PROVE OverdueInv'
  <1> DEFINE h == Head(scan.rows)
             R == [inv : Billed, state : Payable]
             hit == IF IsOverdue(h.inv, h.state, scan.at) THEN {h.inv} ELSE {}
  <1>1. /\ scan.pc = "announce" /\ scan.rows # <<>> /\ UNCHANGED <<day, state, flight, steady, setBack>>
        /\ flagged' = flagged \union hit
        /\ announced' \in {announced, announced \union hit}
        /\ scan' = [scan EXCEPT !.rows = Tail(@)]
    BY DEF ScanAnnounce
  <1>2. /\ h \in R /\ Tail(scan.rows) \in Seq(R) /\ scan.rows \in Seq(R)
        /\ \A k \in DOMAIN scan.rows : scan.rows[k] = h \/
              \E j \in DOMAIN Tail(scan.rows) : Tail(scan.rows)[j] = scan.rows[k]
    <2>1. scan.rows \in Seq(R)
      BY DEF OverdueInv, ScanSound, ScanVal
    <2>2. /\ h \in R /\ Tail(scan.rows) \in Seq(R) /\ Len(Tail(scan.rows)) = Len(scan.rows) - 1
          /\ \A i \in 1..Len(Tail(scan.rows)) : Tail(scan.rows)[i] = scan.rows[i + 1]
      BY <1>1, <2>1, HeadTailProperties
    <2>3. h = scan.rows[1] /\ DOMAIN scan.rows = 1..Len(scan.rows) /\ Len(scan.rows) \in Nat
          /\ DOMAIN Tail(scan.rows) = 1..(Len(scan.rows) - 1)
      BY <1>1, <2>1, <2>2
    <2>4. ASSUME NEW k \in DOMAIN scan.rows, k # 1
          PROVE  k - 1 \in DOMAIN Tail(scan.rows) /\ Tail(scan.rows)[k - 1] = scan.rows[k]
      BY <2>2, <2>3, <2>4
    <2> QED BY <2>1, <2>2, <2>3, <2>4
  <1>3. /\ scan' \in ScanVal /\ scan'.pc = "announce" /\ scan'.rows = Tail(scan.rows)
        /\ scan'.at = scan.at /\ scan'.queried = scan.queried
    BY <1>1, <1>2 DEF OverdueInv, ScanSound, ScanVal
  <1>4. flagged' \subseteq Billed
    BY <1>1, <1>2 DEF OverdueInv, OverdueTypeOK
  <1>5. OverdueTypeOK'
    BY <1>1, <1>3, <1>4 DEF OverdueInv, OverdueTypeOK, ScanVal
  <1>6. \A i \in flagged' : DueAt[i] # 0 /\ DueAt[i] < day
    <2>1. ASSUME IsOverdue(h.inv, h.state, scan.at) PROVE DueAt[h.inv] # 0 /\ DueAt[h.inv] < day
      BY <1>2, <2>1, OverdueAssumption DEF IsOverdue, OverdueInv, OverdueTypeOK, ScanSound, ScanVal
    <2> QED BY <1>1, <2>1 DEF OverdueInv, ScanSound
  <1>6a. announced' \subseteq flagged'
    BY <1>1 DEF OverdueInv, ScanSound
  <1>7. ASSUME NEW i \in steady PROVE i \in flagged' \/ i \in setBack \/ WasRead(i)'
    <2>1. i \in flagged \/ i \in setBack \/ WasRead(i)
      BY <1>1 DEF OverdueInv, ScanSound, WillBeRead
    <2>2. CASE i \in flagged
      BY <1>1, <2>2
    <2>3. CASE WasRead(i)
      <3>1. PICK k \in DOMAIN scan.rows : scan.rows[k].inv = i
        BY <2>3 DEF WasRead
      <3>2. CASE scan.rows[k] = h
        <4>1. IsOverdue(h.inv, h.state, scan.at)
          BY <1>2, <3>1, <3>2 DEF IsOverdue, OverdueInv, ScanSound
        <4> QED BY <1>1, <3>1, <3>2, <4>1
      <3>3. CASE scan.rows[k] # h
        BY <1>2, <1>3, <3>1, <3>3 DEF WasRead
      <3> QED BY <3>2, <3>3
    <2> QED BY <2>1, <2>2, <2>3
  <1>8. ScanSound'
    BY <1>1, <1>3, <1>6, <1>6a, <1>7 DEF OverdueInv, ScanSound
  <1> QED BY <1>5, <1>8 DEF OverdueInv

LEMMA OverdueNextInv == OverdueInv /\ [OverdueNext]_overdueVars => OverdueInv'
  <1> SUFFICES ASSUME OverdueInv, [OverdueNext]_overdueVars PROVE OverdueInv'
    OBVIOUS
  <1>1. CASE DayPasses
    <2>1. /\ day' \in 1..LastDay /\ day' > day /\ UNCHANGED <<state, flight, scan, flagged, announced, steady, setBack>>
          /\ day \in Nat /\ day' \in Nat
      BY <1>1, OverdueAssumption DEF DayPasses, OverdueInv, OverdueTypeOK
    <2>2. OverdueTypeOK'
      BY <2>1 DEF OverdueInv, OverdueTypeOK
    <2>3. scan.at <= day' /\ \A i \in flagged : DueAt[i] < day'
      BY <2>1, OverdueAssumption DEF OverdueInv, OverdueTypeOK, ScanSound, ScanVal
    <2>4. ScanSound'
      BY <2>1, <2>3 DEF OverdueInv, ScanSound, WasRead, WillBeRead
    <2> QED BY <2>2, <2>4 DEF OverdueInv
  <1>2. CASE ScanStart
    <2>1. /\ scan' = [pc |-> "query", at |-> day, queried |-> 0, rows |-> <<>>]
          /\ UNCHANGED <<day, state, flight, flagged, announced, setBack>>
          /\ steady' = {i \in Billed : state[i] \in Payable /\ DueAt[i] # 0 /\ DueAt[i] < day}
      BY <1>2 DEF ScanStart
    <2>2. /\ scan' \in ScanVal /\ scan'.pc = "query" /\ scan'.at = day /\ scan'.queried = 0
          /\ day \in 0..LastDay /\ day <= day
      BY <2>1, OverdueAssumption DEF ScanVal, OverdueInv, OverdueTypeOK
    <2>3. OverdueTypeOK'
      BY <2>1, <2>2 DEF OverdueInv, OverdueTypeOK, ScanVal
    <2>4. ASSUME NEW i, state[i] \in Payable PROVE WillBeRead(i)'
      <3>1. \E k \in 1..4 : state[i] = ScanOrder[k]
        BY <2>4, ScanOrderFacts DEF Payable
      <3> QED BY <2>1, <2>2, <3>1, ScanOrderFacts DEF WillBeRead
    <2>5. ScanSound'
      BY <2>1, <2>2, <2>4, ScanOrderFacts DEF OverdueInv, ScanSound
    <2> QED BY <2>3, <2>5 DEF OverdueInv
  <1>3. CASE ScanEnd
    <2>1. /\ scan' = NoScan /\ flagged' = {} /\ announced' = {} /\ steady' = {} /\ setBack' = {}
          /\ UNCHANGED <<day, state, flight>>
      BY <1>3 DEF ScanEnd
    <2>2. /\ scan' \in ScanVal /\ scan'.pc = "idle" /\ scan'.at = 0
          /\ 0 \in 0..LastDay /\ 0 <= day
      BY <2>1, OverdueAssumption DEF NoScan, ScanVal, OverdueInv, OverdueTypeOK
    <2>3. OverdueTypeOK'
      BY <2>1, <2>2 DEF OverdueInv, OverdueTypeOK, ScanVal
    <2>4. ScanSound'
      BY <2>1, <2>2 DEF OverdueInv, ScanSound
    <2> QED BY <2>3, <2>4 DEF OverdueInv
  <1>4. ASSUME NEW c \in Commands, CommandStep(c) PROVE OverdueInv'
    BY <1>4, LoadInv, SaveInv, FailInv DEF CommandStep
  <1>5. CASE UNCHANGED overdueVars
    BY <1>5 DEF OverdueInv, OverdueTypeOK, ScanSound, WasRead, WillBeRead
  <1> QED
    BY <1>1, <1>2, <1>3, <1>4, <1>5, QueryInv, AnnounceInv DEF OverdueNext

\* mark_overdue_ticker reports every invoice that was unpaid and past due from
\* the beginning of the tick and that no stale write took back, and reports or
\* announces none before its due date: for any number of invoices and commands.
THEOREM OverdueNoneMissed == OverdueSpec => []NoneMissed
  <1>1. OverdueInv => NoneMissed
    BY DEF OverdueInv, ScanSound, NoneMissed, ScanDone, WasRead, WillBeRead
  <1> QED BY <1>1, OverdueInitInv, OverdueNextInv, PTL DEF OverdueSpec
-----------------------------------------------------------------------------
(* The reminder tick *)

RemInv == RemTypeOK /\ RemSound

DueRow == [id : Reminders, row : Reminder]
CancelVal == [pc : {"idle", "save"}, id : Reminders, row : Reminder]

\* What the inductive invariant says of the variables, one by one.
LEMMA RemFacts ==
    ASSUME RemInv
    PROVE  /\ now \in Times /\ now \in Nat /\ now # 0
           /\ reminder \in [Reminders -> Reminder] /\ cancel \in [Cancellers -> CancelVal]
           /\ emitted \in [Reminders -> Nat] /\ quiet \subseteq Reminders /\ cut \subseteq Reminders
           /\ cuts \in 0..MaxCuts /\ remTick \in [RemTickers -> RemTickVal]
           /\ \A t \in RemTickers : /\ remTick[t].due \in Seq(DueRow) /\ RemTickSound(t)
                                    /\ remTick[t].at \in 0..MaxTime
           /\ \A c \in Cancellers : CancelSound(c)
           /\ \A r \in Reminders : RemRowSound(r)
           /\ Cardinality(RemTickers) \in Nat
  <1>1. now \in Nat /\ now # 0
    BY ReminderAssumption DEF RemInv, RemTypeOK, Times
  <1>2. Cardinality(RemTickers) \in Nat
    BY ReminderAssumption, FS_CardinalityType
  <1>3. \A t \in RemTickers : remTick[t].due \in Seq(DueRow) /\ remTick[t].at \in 0..MaxTime
    BY DEF RemInv, RemTypeOK, RemSound, RemTickVal, DueRow
  <1> QED BY <1>1, <1>2, <1>3 DEF RemInv, RemTypeOK, RemSound, CancelVal

\* The converse, for the next state.
RemParts ==
    /\ now \in Times
    /\ reminder \in [Reminders -> Reminder]
    /\ \A r \in Reminders : (reminder[r].state = "sent") = (reminder[r].sentAt # 0)
    /\ cancel \in [Cancellers -> CancelVal]
    /\ emitted \in [Reminders -> Nat] /\ quiet \subseteq Reminders /\ cut \subseteq Reminders
    /\ cuts \in 0..MaxCuts /\ remTick \in [RemTickers -> RemTickVal]
    /\ \A t \in RemTickers : RemTickSound(t) /\ remTick[t].at \in 0..MaxTime
    /\ \A c \in Cancellers : CancelSound(c)
    /\ \A r \in Reminders : RemRowSound(r)

LEMMA RemFactsSuffice == RemParts => RemInv
  <1> SUFFICES ASSUME RemParts PROVE RemInv
    OBVIOUS
  <1> USE DEF RemParts
  <1>1. ASSUME NEW t \in RemTickers
        PROVE  /\ remTick[t].pc \in {"idle", "save", "publish"}
               /\ remTick[t].pc # "idle" => remTick[t].due # <<>>
               /\ \A i \in DOMAIN remTick[t].due : remTick[t].due[i] \in [id : Reminders, row : Reminder]
    <2>1. remTick[t].due \in Seq(DueRow) /\ remTick[t].pc \in {"idle", "save", "publish"}
      BY DEF RemTickVal, DueRow
    <2>2. \A i \in DOMAIN remTick[t].due : remTick[t].due[i] \in DueRow
      BY <2>1
    <2> QED BY <2>1, <2>2 DEF RemTickSound, DueRow
  <1>2. RemTypeOK
    BY <1>1 DEF RemTypeOK, CancelVal
  <1> QED BY <1>2 DEF RemInv, RemSound

LEMMA HoldersFinite ==
    ASSUME NEW S \in SUBSET RemTickers
    PROVE  IsFiniteSet(S) /\ Cardinality(S) \in Nat /\ Cardinality(S) <= Cardinality(RemTickers)
  BY ReminderAssumption, FS_Subset, FS_CardinalityType

\* Nobody takes a reminder's time back, and a saved or cancelled row stays so.
RowsKeep ==
    \A r \in Reminders : reminder[r].state # "absent" =>
        /\ reminder'[r].at = reminder[r].at /\ reminder'[r].state # "absent"
        /\ reminder[r].state \in {"sent", "cancelled"} => reminder'[r].state \in {"sent", "cancelled"}

\* A tick that does not move.
LEMMA TickKept ==
    ASSUME RemInv, RowsKeep, now' \in Nat, now' >= now, NEW t \in RemTickers, remTick'[t] = remTick[t]
    PROVE  RemTickSound(t)'
  <1> DEFINE due == remTick[t].due
  <1>1. due \in Seq(DueRow) /\ RemTickSound(t) /\ now \in Nat
    BY RemFacts
  <1>2. \A i \in DOMAIN due : due[i].id \in Reminders /\ due[i].row.at \in Nat
    <2>1. \A i \in DOMAIN due : due[i] \in DueRow
      BY <1>1
    <2> QED BY <2>1 DEF DueRow, Reminder
  <1>3. \A i \in DOMAIN due : /\ due[i].row.at = reminder'[due[i].id].at /\ due[i].row.at <= now'
                              /\ due[i].row.sentAt = 0 /\ reminder'[due[i].id].state # "absent"
    BY SMTT(30), <1>1, <1>2 DEF RemTickSound, RowsKeep
  <1>4. ASSUME remTick[t].pc = "publish"
        PROVE  reminder'[Head(due).id].state \in {"sent", "cancelled"}
    <2>1. due # <<>> /\ reminder[Head(due).id].state \in {"sent", "cancelled"}
      BY <1>1, <1>4 DEF RemTickSound
    <2>2. Head(due) \in DueRow
      <3> HIDE DEF due
      <3> QED BY <1>1, <2>1, HeadTailProperties
    <2>3. Head(due).id \in Reminders
      BY <2>2 DEF DueRow
    <2> QED BY <2>1, <2>3 DEF RowsKeep
  <1> QED BY <1>1, <1>3, <1>4 DEF RemTickSound

LEMMA CancelKept ==
    ASSUME RemInv, RowsKeep, NEW c \in Cancellers, cancel'[c] = cancel[c]
    PROVE  CancelSound(c)'
  <1>1. CancelSound(c) /\ cancel[c].id \in Reminders
    BY RemFacts DEF CancelVal
  <1> QED BY <1>1 DEF CancelSound, RowsKeep

LEMMA RemInitInv == RemInit => RemInv
  <1> SUFFICES ASSUME RemInit PROVE RemInv
    OBVIOUS
  <1>1. NoReminder \in Reminder /\ NoReminder.state = "absent" /\ NoReminder.sentAt = 0
    BY DEF NoReminder, Reminder
  <1>2. NoRemTick \in RemTickVal /\ NoRemTick.pc = "idle" /\ NoRemTick.due = <<>> /\ NoRemTick.at = 0
    BY DEF NoRemTick, RemTickVal
  <1>3. NoCancel \in CancelVal /\ NoCancel.pc = "idle"
    <2>1. (CHOOSE r \in Reminders : TRUE) \in Reminders
      BY ReminderAssumption
    <2> QED BY <1>1, <2>1 DEF NoCancel, CancelVal
  <1>4. /\ \A r \in Reminders : reminder[r] = NoReminder /\ emitted[r] = 0
        /\ \A t \in RemTickers : remTick[t] = NoRemTick
        /\ \A c \in Cancellers : cancel[c] = NoCancel
    BY DEF RemInit
  <1>5. \A t \in RemTickers : RemTickSound(t) /\ remTick[t].at \in 0..MaxTime
    <2>1. 0 \in 0..MaxTime
      BY ReminderAssumption
    <2> QED BY <1>2, <1>4, <2>1 DEF RemTickSound
  <1>6. \A c \in Cancellers : CancelSound(c)
    BY <1>3, <1>4 DEF CancelSound
  <1>7. ASSUME NEW r \in Reminders PROVE RemRowSound(r)
    <2>1. /\ Cardinality(Holders(r)) \in Nat /\ Cardinality(RemTickers) \in Nat
          /\ Cardinality(Holders(r)) <= Cardinality(RemTickers)
      BY HoldersFinite DEF Holders
    <2>2. emitted[r] = 0 /\ quiet = {}
      BY <1>4 DEF RemInit
    <2> QED BY <2>1, <2>2 DEF RemRowSound
  <1>8. now \in Times /\ cuts \in 0..MaxCuts
    BY ReminderAssumption DEF RemInit, Times
  <1>9. /\ reminder \in [Reminders -> Reminder] /\ cancel \in [Cancellers -> CancelVal]
        /\ emitted \in [Reminders -> Nat] /\ quiet \subseteq Reminders /\ cut \subseteq Reminders
        /\ remTick \in [RemTickers -> RemTickVal]
    BY <1>1, <1>2, <1>3 DEF RemInit
  <1>10. \A r \in Reminders : (reminder[r].state = "sent") = (reminder[r].sentAt # 0)
    BY <1>1, <1>4
  <1> QED BY <1>5, <1>6, <1>7, <1>8, <1>9, <1>10, RemFactsSuffice DEF RemParts

\* A row that nothing is announced about and no tick takes up.
LEMMA RowKept ==
    ASSUME RemInv, RowsKeep, now' \in Nat, now' >= now, NEW r \in Reminders,
           reminder' \in [Reminders -> Reminder],
           emitted'[r] = emitted[r], Holders(r)' \subseteq Holders(r),
           r \in quiet' => r \in quiet, r \in quiet => reminder'[r].state = "cancelled"
    PROVE  RemRowSound(r)'
  <1>1. /\ RemRowSound(r) /\ now \in Nat /\ emitted[r] \in Nat /\ Cardinality(RemTickers) \in Nat
        /\ reminder[r] \in Reminder /\ reminder'[r] \in Reminder
    BY RemFacts
  <1>2. reminder'[r].state \in {"absent", "scheduled"} => emitted'[r] = 0
    BY <1>1 DEF RemRowSound, RowsKeep, Reminder
  <1>3. emitted'[r] > 0 => reminder'[r].at <= now'
    <2> SUFFICES ASSUME emitted[r] > 0 PROVE reminder'[r].at <= now'
      OBVIOUS
    <2>1. reminder[r].state # "absent" /\ reminder[r].at <= now
      BY <1>1 DEF RemRowSound
    <2>2. reminder'[r].at = reminder[r].at /\ reminder[r].at \in Nat
      BY <1>1, <2>1 DEF RowsKeep, Reminder
    <2> QED BY <1>1, <2>1, <2>2
  <1>4. emitted'[r] + Cardinality(Holders(r)') <= Cardinality(RemTickers)
    <2>1. IsFiniteSet(Holders(r)) /\ Cardinality(Holders(r)) \in Nat
      BY HoldersFinite DEF Holders
    <2>2. Cardinality(Holders(r)') <= Cardinality(Holders(r)) /\ Cardinality(Holders(r)') \in Nat
      BY <2>1, FS_Subset, FS_CardinalityType
    <2>3. emitted[r] + Cardinality(Holders(r)) <= Cardinality(RemTickers)
      BY <1>1 DEF RemRowSound
    <2> HIDE DEF Holders
    <2> QED BY <1>1, <2>1, <2>2, <2>3
  <1>5. r \in quiet' => reminder'[r].state = "cancelled" /\ Holders(r)' = {} /\ emitted'[r] = 0
    BY <1>1 DEF RemRowSound
  <1> QED BY <1>2, <1>3, <1>4, <1>5 DEF RemRowSound

\* Only the clock and the cancellations move.
LEMMA RowsUntouched ==
    ASSUME RemInv, UNCHANGED <<reminder, remTick, emitted, quiet>>, now' \in Nat, now' >= now
    PROVE  /\ RowsKeep /\ \A t \in RemTickers : RemTickSound(t)'
           /\ \A r \in Reminders : RemRowSound(r)'
  <1>1. RowsKeep
    BY DEF RowsKeep
  <1>2. \A t \in RemTickers : RemTickSound(t)'
    BY <1>1, TickKept
  <1>3. ASSUME NEW r \in Reminders PROVE RemRowSound(r)'
    <2>1. Holders(r)' = Holders(r) /\ reminder' \in [Reminders -> Reminder]
      BY RemFacts DEF Holders
    <2>2. r \in quiet => reminder[r].state = "cancelled"
      BY RemFacts DEF RemRowSound
    <2> QED BY <1>1, <2>1, <2>2, RowKept
  <1> QED BY <1>1, <1>2, <1>3

\* The columns that RemTypeOK relates.
LEMMA SentAtFacts ==
    ASSUME RemInv, NEW r \in Reminders
    PROVE  (reminder[r].state = "sent") = (reminder[r].sentAt # 0)
  BY DEF RemInv, RemTypeOK

LEMMA TimePassesInv == ASSUME RemInv, TimePasses PROVE RemInv'
  <1>1. /\ UNCHANGED <<reminder, remTick, cancel, emitted, quiet, cut, cuts>>
        /\ now' \in Times /\ now' \in Nat /\ now' >= now
    BY RemFacts, ReminderAssumption DEF TimePasses, Times
  <1>2. /\ RowsKeep /\ \A t \in RemTickers : RemTickSound(t)'
        /\ \A r \in Reminders : RemRowSound(r)'
    BY <1>1, RowsUntouched
  <1>3. \A c \in Cancellers : CancelSound(c)'
    BY <1>1, <1>2, CancelKept
  <1>4. RemTypeOK'
    BY <1>1 DEF RemInv, RemTypeOK
  <1> QED BY <1>1, <1>2, <1>3, <1>4 DEF RemInv, RemSound

LEMMA CancelLoadInv ==
    ASSUME RemInv, NEW c \in Cancellers, NEW r \in Reminders, CancelLoad(c, r) PROVE RemInv'
  <1> DEFINE v == [pc |-> "save", id |-> r, row |-> reminder[r]]
  <1>1. /\ UNCHANGED <<now, reminder, remTick, emitted, quiet, cut, cuts>>
        /\ reminder[r].state = "scheduled" /\ cancel' = [cancel EXCEPT ![c] = v]
        /\ now' \in Nat /\ now' >= now
    BY RemFacts DEF CancelLoad
  <1>2. /\ RowsKeep /\ \A t \in RemTickers : RemTickSound(t)'
        /\ \A q \in Reminders : RemRowSound(q)'
    BY <1>1, RowsUntouched
  <1>3. v \in CancelVal /\ v.id = r /\ v.row = reminder[r]
    BY RemFacts DEF CancelVal
  <1> HIDE DEF v
  <1>4. cancel' \in [Cancellers -> CancelVal] /\ cancel'[c] = v
        /\ \A d \in Cancellers \ {c} : cancel'[d] = cancel[d]
    BY <1>1, <1>3, RemFacts
  <1>5. CancelSound(c)'
    <2>1. reminder[r].sentAt = 0
      BY <1>1, SentAtFacts
    <2> QED BY <1>1, <1>3, <1>4, <2>1 DEF CancelSound
  <1>6. \A d \in Cancellers : CancelSound(d)'
    BY <1>2, <1>4, <1>5, CancelKept
  <1>7. RemTypeOK'
    BY <1>1, <1>4 DEF RemInv, RemTypeOK, CancelVal
  <1> QED BY <1>1, <1>2, <1>6, <1>7 DEF RemInv, RemSound

LEMMA ScheduleReminderInv ==
    ASSUME RemInv, NEW r \in Reminders, NEW at \in Times, ScheduleReminder(r, at) PROVE RemInv'
  <1> DEFINE v == [state |-> "scheduled", at |-> at, sentAt |-> 0]
  <1>1. /\ UNCHANGED <<now, remTick, cancel, emitted, quiet, cut, cuts>>
        /\ reminder[r].state = "absent" /\ reminder' = [reminder EXCEPT ![r] = v]
        /\ now' \in Nat /\ now' >= now
    BY RemFacts DEF ScheduleReminder
  <1>2. v \in Reminder /\ v.state = "scheduled" /\ v.sentAt = 0
    BY ReminderAssumption DEF Reminder, Times
  <1> HIDE DEF v
  <1>3. /\ reminder' \in [Reminders -> Reminder] /\ reminder'[r] = v
        /\ \A q \in Reminders \ {r} : reminder'[q] = reminder[q]
    BY <1>1, <1>2, RemFacts
  <1>4. RowsKeep
    BY <1>1, <1>3 DEF RowsKeep
  <1>5. /\ \A t \in RemTickers : RemTickSound(t)'
        /\ \A c \in Cancellers : CancelSound(c)'
    BY <1>1, <1>4, TickKept, CancelKept
  <1>6. ASSUME NEW q \in Reminders PROVE RemRowSound(q)'
    <2>1. Holders(q)' = Holders(q)
      BY <1>1 DEF Holders
    <2>2. q \in quiet => reminder'[q].state = "cancelled"
      BY <1>1, <1>3, RemFacts DEF RemRowSound
    <2> QED BY <1>1, <1>3, <1>4, <2>1, <2>2, RowKept
  <1>7. \A q \in Reminders : (reminder'[q].state = "sent") = (reminder'[q].sentAt # 0)
    BY <1>2, <1>3, SentAtFacts
  <1>8. RemTypeOK'
    BY <1>1, <1>3, <1>7 DEF RemInv, RemTypeOK
  <1> QED BY <1>1, <1>5, <1>6, <1>8 DEF RemInv, RemSound

LEMMA CancelSaveInv == ASSUME RemInv, NEW c \in Cancellers, CancelSave(c) PROVE RemInv'
  <1>0. PICK r \in Reminders : r = cancel[c].id
    BY RemFacts DEF CancelVal
  <1> DEFINE v == [cancel[c].row EXCEPT !.state = "cancelled"]
  <1>1. /\ cancel[c].pc = "save" /\ UNCHANGED <<now, remTick, emitted, cut, cuts>>
        /\ reminder' = [reminder EXCEPT ![r] = v] /\ cancel' = [cancel EXCEPT ![c] = NoCancel]
        /\ quiet' = Quietly(c) /\ now' \in Nat /\ now' >= now
    BY <1>0, RemFacts DEF CancelSave
  <1>2. /\ v \in Reminder /\ v.state = "cancelled" /\ v.at = reminder[r].at /\ v.sentAt = 0
        /\ reminder[r].state # "absent"
    <2>1. cancel[c].row \in Reminder /\ CancelSound(c)
      BY RemFacts DEF CancelVal
    <2> QED BY <1>0, <1>1, <2>1 DEF CancelSound, Reminder
  <1> HIDE DEF v
  <1>3. /\ reminder' \in [Reminders -> Reminder] /\ reminder'[r] = v
        /\ \A q \in Reminders \ {r} : reminder'[q] = reminder[q]
    BY <1>1, <1>2, RemFacts
  <1>4. RowsKeep
    BY <1>2, <1>3 DEF RowsKeep
  <1>5. NoCancel \in CancelVal /\ NoCancel.pc = "idle"
    <2>1. (CHOOSE q \in Reminders : TRUE) \in Reminders
      BY ReminderAssumption
    <2> QED BY <2>1 DEF NoCancel, CancelVal, NoReminder, Reminder
  <1>6. cancel' \in [Cancellers -> CancelVal] /\ cancel'[c].pc = "idle"
        /\ \A d \in Cancellers \ {c} : cancel'[d] = cancel[d]
    BY <1>1, <1>5, RemFacts
  <1>7. \A d \in Cancellers : CancelSound(d)'
    <2>1. CancelSound(c)'
      BY <1>6 DEF CancelSound
    <2> QED BY <1>4, <1>6, <2>1, CancelKept
  <1>8. \A t \in RemTickers : RemTickSound(t)'
    BY <1>1, <1>4, TickKept
  <1>9. /\ \A q \in Reminders \ {r} : q \in quiet' => q \in quiet
        /\ r \in quiet' => r \in quiet \/ (reminder[r].state = "scheduled" /\ ~InHand(r))
        /\ quiet' \subseteq Reminders /\ quiet \subseteq quiet'
    BY <1>0, <1>1, RemFacts DEF Quietly
  <1>10. ASSUME NEW q \in Reminders PROVE RemRowSound(q)'
    <2>1. Holders(q)' = Holders(q)
      BY <1>1 DEF Holders
    <2>2. q \in quiet => reminder'[q].state = "cancelled"
      BY <1>2, <1>3, RemFacts DEF RemRowSound
    <2>3. CASE q \in quiet' => q \in quiet
      BY <1>1, <1>3, <1>4, <2>1, <2>2, <2>3, RowKept
    <2>4. CASE q = r /\ reminder[r].state = "scheduled" /\ ~InHand(r)
      <3>1. Holders(q) = {} /\ reminder'[q].state = "cancelled"
        BY <1>2, <1>3, <2>4 DEF InHand, Holders
      <3>2. emitted'[q] = 0
        BY <1>1, <2>4, RemFacts DEF RemRowSound
      <3>3. emitted'[q] + Cardinality(Holders(q)') <= Cardinality(RemTickers)
        BY <1>1, <2>1, RemFacts DEF RemRowSound
      <3> QED BY <2>1, <3>1, <3>2, <3>3 DEF RemRowSound
    <2> QED BY <1>9, <2>3, <2>4
  <1>11. \A q \in Reminders : (reminder'[q].state = "sent") = (reminder'[q].sentAt # 0)
    BY <1>2, <1>3, SentAtFacts
  <1>12. RemTypeOK'
    BY <1>1, <1>3, <1>6, <1>9, <1>11 DEF RemInv, RemTypeOK, CancelVal
  <1> QED BY <1>1, <1>7, <1>8, <1>10, <1>12 DEF RemInv, RemSound

\* The row a tick works on.
LEMMA HeadFacts ==
    ASSUME RemInv, NEW t \in RemTickers, remTick[t].pc # "idle"
    PROVE  LET due == remTick[t].due
               h == Head(due)
           IN  /\ due \in Seq(DueRow) /\ due # <<>> /\ 1 \in DOMAIN due /\ h = due[1]
               /\ h \in DueRow /\ h.id \in Reminders /\ h.row \in Reminder
               /\ h.row.at = reminder[h.id].at /\ h.row.at <= now /\ h.row.sentAt = 0
               /\ reminder[h.id].state # "absent" /\ t \in Holders(h.id)
               /\ remTick[t].at \in Times /\ remTick[t].at \in Nat /\ remTick[t].at # 0
               /\ remTick[t].pc = "publish" => reminder[h.id].state \in {"sent", "cancelled"}
  <1> DEFINE due == remTick[t].due
             h == Head(due)
  <1>1. due \in Seq(DueRow) /\ due # <<>> /\ RemTickSound(t)
    BY RemFacts DEF RemTickSound
  <1>2. 1 \in DOMAIN due /\ h = due[1] /\ h \in DueRow
    <2> HIDE DEF due
    <2> QED BY <1>1, HeadTailProperties
  <1>3. h.id \in Reminders /\ h.row \in Reminder
    BY <1>2 DEF DueRow
  <1>4. /\ h.row.at = reminder[h.id].at /\ h.row.at <= now /\ h.row.sentAt = 0
        /\ reminder[h.id].state # "absent"
    BY <1>1, <1>2 DEF RemTickSound
  <1>5. remTick[t].at \in Times /\ remTick[t].at \in Nat /\ remTick[t].at # 0
    BY <1>1, ReminderAssumption DEF RemTickSound, Times
  <1>6. t \in Holders(h.id)
    BY <1>2 DEF Holders
  <1>7. remTick[t].pc = "publish" => reminder[h.id].state \in {"sent", "cancelled"}
    BY <1>1 DEF RemTickSound
  <1> QED BY <1>1, <1>2, <1>3, <1>4, <1>5, <1>6, <1>7

LEMMA RemTickSaveInv == ASSUME RemInv, NEW t \in RemTickers, RemTickSave(t) PROVE RemInv'
  <1> DEFINE due == remTick[t].due
             h == Head(due)
             v == [h.row EXCEPT !.state = "sent", !.sentAt = remTick[t].at]
  <1>0. remTick[t].pc = "save"
    BY DEF RemTickSave
  <1>1. /\ due \in Seq(DueRow) /\ due # <<>> /\ 1 \in DOMAIN due /\ h = due[1]
        /\ h \in DueRow /\ h.id \in Reminders /\ h.row \in Reminder
        /\ h.row.at = reminder[h.id].at /\ h.row.at <= now /\ h.row.sentAt = 0
        /\ reminder[h.id].state # "absent" /\ t \in Holders(h.id)
        /\ remTick[t].at \in Times /\ remTick[t].at \in Nat /\ remTick[t].at # 0
    BY <1>0, HeadFacts
  <1>2. PICK r \in Reminders : r = h.id
    BY <1>1
  <1>3. /\ reminder' = [reminder EXCEPT ![r] = v] /\ remTick' = [remTick EXCEPT ![t].pc = "publish"]
        /\ UNCHANGED <<now, cancel, emitted, quiet, cut, cuts>> /\ now' \in Nat /\ now' >= now
    BY <1>2, RemFacts DEF RemTickSave
  <1>4. v \in Reminder /\ v.state = "sent" /\ v.at = reminder[r].at /\ v.sentAt # 0
    BY <1>1, <1>2 DEF Reminder
  <1> HIDE DEF v
  <1>5. /\ reminder' \in [Reminders -> Reminder] /\ reminder'[r] = v
        /\ \A q \in Reminders \ {r} : reminder'[q] = reminder[q]
    BY <1>3, <1>4, RemFacts
  <1>6. RowsKeep
    BY <1>1, <1>2, <1>4, <1>5 DEF RowsKeep
  <1>7. /\ remTick' \in [RemTickers -> RemTickVal] /\ remTick'[t].pc = "publish"
        /\ remTick'[t].due = due /\ remTick'[t].at = remTick[t].at
        /\ \A u \in RemTickers \ {t} : remTick'[u] = remTick[u]
    BY <1>3, RemFacts DEF RemTickVal
  <1>8. RemTickSound(t)'
    <2>1. RemTickSound(t) /\ \A i \in DOMAIN due : due[i] \in DueRow
      BY <1>1, RemFacts
    <2>2. \A i \in DOMAIN due :
             /\ due[i].row.at = reminder'[due[i].id].at /\ due[i].row.at <= now'
             /\ due[i].row.sentAt = 0 /\ reminder'[due[i].id].state # "absent"
      BY <1>3, <1>6, <2>1 DEF RemTickSound, RowsKeep, DueRow
    <2>3. reminder'[h.id].state \in {"sent", "cancelled"}
      BY <1>2, <1>4, <1>5
    <2>4. \A i, j \in DOMAIN due : due[i].id = due[j].id => i = j
      BY <2>1 DEF RemTickSound
    <2>5. (remTick'[t].pc = "idle") = (remTick'[t].due = <<>>)
      BY <1>1, <1>7
    <2> HIDE DEF due
    <2> QED BY <1>1, <1>7, <2>2, <2>3, <2>4, <2>5 DEF RemTickSound
  <1>9. \A u \in RemTickers : RemTickSound(u)'
    BY <1>3, <1>6, <1>7, <1>8, TickKept
  <1>10. \A c \in Cancellers : CancelSound(c)'
    BY <1>3, <1>6, CancelKept
  <1>11. ASSUME NEW q \in Reminders PROVE RemRowSound(q)'
    <2>1. Holders(q)' = Holders(q)
      <3>1. \A u \in RemTickers : remTick'[u].due = remTick[u].due
        BY <1>7
      <3> QED BY <3>1 DEF Holders
    <2>2. q \in quiet => q # r /\ reminder[q].state = "cancelled"
      BY <1>1, <1>2, RemFacts DEF RemRowSound
    <2>3. q \in quiet => reminder'[q].state = "cancelled"
      BY <1>5, <2>2
    <2> QED BY <1>3, <1>5, <1>6, <2>1, <2>3, RowKept
  <1>12. \A q \in Reminders : (reminder'[q].state = "sent") = (reminder'[q].sentAt # 0)
    BY <1>4, <1>5, SentAtFacts
  <1>13. \A u \in RemTickers : remTick'[u].at \in 0..MaxTime
    BY <1>7, RemFacts
  <1>14. /\ now' \in Times /\ cancel' \in [Cancellers -> CancelVal] /\ emitted' \in [Reminders -> Nat]
         /\ quiet' \subseteq Reminders /\ cut' \subseteq Reminders /\ cuts' \in 0..MaxCuts
    BY <1>3, RemFacts
  <1>15. RemParts'
    BY <1>5, <1>7, <1>9, <1>10, <1>11, <1>12, <1>13, <1>14 DEF RemParts
  <1> QED BY <1>15, RemFactsSuffice, PTL

\* A tick moves and the rows stay as they are.
LEMMA TickMoves ==
    ASSUME RemInv, NEW t \in RemTickers, UNCHANGED <<now, reminder, cancel, quiet>>,
           remTick' \in [RemTickers -> RemTickVal],
           \A u \in RemTickers \ {t} : remTick'[u] = remTick[u],
           RemTickSound(t)', remTick'[t].at \in 0..MaxTime,
           emitted' \in [Reminders -> Nat], cut' \subseteq Reminders, cuts' \in 0..MaxCuts,
           \A r \in Reminders : RemRowSound(r)'
    PROVE  RemInv'
  <1>1. RowsKeep /\ now' \in Nat /\ now' >= now
    BY RemFacts DEF RowsKeep
  <1>2. \A u \in RemTickers : RemTickSound(u)'
    BY <1>1, TickKept
  <1>3. \A u \in RemTickers : remTick'[u].at \in 0..MaxTime
    BY RemFacts
  <1>4. \A c \in Cancellers : CancelSound(c)'
    BY <1>1, CancelKept
  <1>5. /\ now' \in Times /\ reminder' \in [Reminders -> Reminder]
        /\ cancel' \in [Cancellers -> CancelVal] /\ quiet' \subseteq Reminders
    BY RemFacts
  <1>6. \A r \in Reminders : (reminder'[r].state = "sent") = (reminder'[r].sentAt # 0)
    BY SentAtFacts
  <1>7. RemParts'
    BY <1>2, <1>3, <1>4, <1>5, <1>6 DEF RemParts
  <1> QED BY <1>7, RemFactsSuffice, PTL

\* The rows that a tick did not take up, while it moved.
LEMMA RowStays ==
    ASSUME RemInv, UNCHANGED <<now, reminder, quiet>>, NEW r \in Reminders,
           emitted'[r] = emitted[r], Holders(r)' \subseteq Holders(r)
    PROVE  RemRowSound(r)'
  <1>1. RowsKeep /\ now' \in Nat /\ now' >= now /\ reminder' \in [Reminders -> Reminder]
    BY RemFacts DEF RowsKeep
  <1>2. r \in quiet => reminder'[r].state = "cancelled"
    BY RemFacts DEF RemRowSound
  <1> QED BY <1>1, <1>2, RowKept

LEMMA RemTickStartInv == ASSUME RemInv, NEW t \in RemTickers, RemTickStart(t) PROVE RemInv'
  <1> DEFINE n == Cardinality(DueReminders)
  <1>1. /\ remTick[t].pc = "idle" /\ DueReminders # {}
        /\ UNCHANGED <<now, reminder, cancel, emitted, quiet, cut, cuts>>
    BY DEF RemTickStart
  <1>2. PICK b \in [1..n -> DueReminders] :
          /\ \A i, j \in DOMAIN b :
                i < j => b[i] # b[j] /\ reminder[b[i]].at <= reminder[b[j]].at
          /\ remTick' = [remTick EXCEPT ![t] =
                [pc |-> "save", at |-> now,
                 due |-> [i \in DOMAIN b |-> [id |-> b[i], row |-> reminder[b[i]]]]]]
    BY DEF RemTickStart
  <1>3. n \in Nat /\ n # 0
    <2>1. DueReminders \in SUBSET Reminders
      BY DEF DueReminders
    <2>2. IsFiniteSet(DueReminders)
      BY <2>1, ReminderAssumption, FS_Subset
    <2> QED BY <1>1, <2>2, FS_EmptySet, FS_CardinalityType
  <1> DEFINE due == [i \in DOMAIN b |-> [id |-> b[i], row |-> reminder[b[i]]]]
             v == [pc |-> "save", at |-> now, due |-> due]
  <1>4. \A i \in 1..n : /\ b[i] \in Reminders /\ reminder[b[i]] \in Reminder
                        /\ reminder[b[i]].state = "scheduled" /\ reminder[b[i]].at <= now
                        /\ reminder[b[i]].sentAt = 0
    BY RemFacts, SentAtFacts DEF DueReminders
  <1> HIDE DEF n
  <1>5. /\ due \in [1..n -> DueRow] /\ DOMAIN due = 1..n
        /\ \A i \in 1..n : due[i].id = b[i] /\ due[i].row = reminder[b[i]]
    <2>1. \A i \in 1..n : [id |-> b[i], row |-> reminder[b[i]]] \in DueRow
      BY <1>4 DEF DueRow
    <2> QED BY <2>1
  <1> HIDE DEF due
  <1>6. due \in Seq(DueRow) /\ due # <<>>
    BY <1>3, <1>5
  <1>7. /\ v \in RemTickVal /\ v.pc = "save" /\ v.at = now /\ v.due = due
    BY <1>6, RemFacts DEF RemTickVal, DueRow
  <1>8. remTick' = [remTick EXCEPT ![t] = v]
    BY <1>2 DEF due
  <1> HIDE DEF v
  <1>9. /\ remTick' \in [RemTickers -> RemTickVal] /\ remTick'[t] = v
        /\ \A u \in RemTickers \ {t} : remTick'[u] = remTick[u]
    BY <1>7, <1>8, RemFacts
  <1>10. \A i, j \in 1..n : b[i] = b[j] => i = j
    BY <1>2, <1>3
  <1>11. RemTickSound(t)'
    <2>1. (remTick'[t].pc = "idle") = (remTick'[t].due = <<>>)
      BY <1>6, <1>7, <1>9
    <2>2. \A i, j \in DOMAIN due : due[i].id = due[j].id => i = j
      BY <1>5, <1>10
    <2>3. \A i \in DOMAIN due :
             /\ due[i].row.at = reminder'[due[i].id].at /\ due[i].row.at <= now'
             /\ due[i].row.sentAt = 0 /\ reminder'[due[i].id].state # "absent"
      BY <1>1, <1>4, <1>5
    <2> QED BY <1>1, <1>7, <1>9, <2>1, <2>2, <2>3, RemFacts DEF RemTickSound
  <1>12. ASSUME NEW r \in Reminders PROVE RemRowSound(r)'
    <2>1. CASE reminder[r].state = "scheduled"
      <3>1. emitted'[r] = 0 /\ r \notin quiet'
        BY <1>1, <2>1, RemFacts DEF RemRowSound
      <3>2. /\ Cardinality(Holders(r)') <= Cardinality(RemTickers)
            /\ Cardinality(Holders(r)') \in Nat /\ Cardinality(RemTickers) \in Nat
        BY HoldersFinite, RemFacts DEF Holders
      <3> HIDE DEF Holders
      <3> QED BY <3>1, <3>2 DEF RemRowSound
    <2>2. CASE reminder[r].state # "scheduled"
      <3>1. \A i \in DOMAIN due : due[i].id # r
        BY <1>4, <1>5, <2>2
      <3>2. Holders(r)' \subseteq Holders(r)
        BY <1>7, <1>9, <3>1 DEF Holders
      <3> QED BY <1>1, <3>2, RowStays
    <2> QED BY <2>1, <2>2
  <1>13. now \in 0..MaxTime
    BY RemFacts, ReminderAssumption DEF Times
  <1> QED BY <1>1, <1>7, <1>9, <1>11, <1>12, <1>13, RemFacts, TickMoves

\* On with the next row: the one in hand leaves the tick for good.
LEMMA TickOnFacts ==
    ASSUME RemInv, NEW t \in RemTickers, remTick[t].pc # "idle", RemTickOn(t),
           UNCHANGED <<now, reminder>>
    PROVE  /\ remTick' \in [RemTickers -> RemTickVal]
           /\ \A u \in RemTickers \ {t} : remTick'[u] = remTick[u]
           /\ RemTickSound(t)' /\ remTick'[t].at \in 0..MaxTime
           /\ \A r \in Reminders : Holders(r)' \subseteq Holders(r)
           /\ \A r \in Reminders : r = Head(remTick[t].due).id => t \notin Holders(r)'
  <1> DEFINE due == remTick[t].due
             rest == Tail(due)
  <1>1. due \in Seq(DueRow) /\ due # <<>> /\ Head(due) = due[1] /\ 1 \in DOMAIN due /\ RemTickSound(t)
    BY HeadFacts, RemFacts
  <1>2. /\ rest \in Seq(DueRow)
        /\ \A i \in DOMAIN rest : /\ i + 1 \in DOMAIN due /\ rest[i] = due[i + 1]
                                  /\ i \in Nat /\ i + 1 # 1
    <2>1. /\ rest \in Seq(DueRow) /\ Len(rest) = Len(due) - 1
          /\ \A i \in 1..Len(rest) : rest[i] = due[i + 1]
      <3> HIDE DEF due
      <3> QED BY <1>1, HeadTailProperties
    <2>2. DOMAIN rest = 1..Len(rest) /\ DOMAIN due = 1..Len(due) /\ Len(due) \in Nat
      BY <1>1, <2>1, LenProperties
    <2> HIDE DEF due, rest
    <2> QED BY <2>1, <2>2
  <1> DEFINE v == IF rest = <<>> THEN NoRemTick
                  ELSE [remTick[t] EXCEPT !.pc = "save", !.due = rest]
  <1>3. remTick' = [remTick EXCEPT ![t] = v]
    BY DEF RemTickOn
  <1> HIDE DEF rest
  <1>4. /\ v \in RemTickVal /\ v.due = rest /\ (v.pc = "idle") = (rest = <<>>) /\ v.pc # "publish"
        /\ v.at = 0 \/ v.at = remTick[t].at
    <2>1. CASE rest = <<>>
      BY <2>1 DEF NoRemTick, RemTickVal
    <2>2. CASE rest # <<>>
      <3>1. remTick[t] \in RemTickVal
        BY RemFacts
      <3> QED BY <1>2, <2>2, <3>1 DEF RemTickVal, DueRow
    <2> QED BY <2>1, <2>2
  <1>4a. v.pc # "idle" => v.at = remTick[t].at
    BY RemFacts DEF NoRemTick, RemTickVal
  <1> HIDE DEF v
  <1>5. /\ remTick' \in [RemTickers -> RemTickVal] /\ remTick'[t] = v
        /\ \A u \in RemTickers \ {t} : remTick'[u] = remTick[u]
    BY <1>3, <1>4, RemFacts
  <1>6. RemTickSound(t)'
    <2>1. (remTick'[t].pc = "idle") = (remTick'[t].due = <<>>)
      BY <1>4, <1>5
    <2>2. \A i, j \in DOMAIN rest : rest[i].id = rest[j].id => i = j
      <3>1. \A i, j \in DOMAIN due : due[i].id = due[j].id => i = j
        BY <1>1 DEF RemTickSound
      <3> HIDE DEF due
      <3> QED BY <1>2, <3>1
    <2>3. \A i \in DOMAIN rest :
             /\ rest[i].row.at = reminder'[rest[i].id].at /\ rest[i].row.at <= now'
             /\ rest[i].row.sentAt = 0 /\ reminder'[rest[i].id].state # "absent"
      BY SMTT(30), <1>1, <1>2 DEF RemTickSound
    <2>4. remTick'[t].pc # "idle" => remTick'[t].at \in Times
      BY <1>1, <1>4a, <1>5 DEF RemTickSound
    <2> QED BY <1>4, <1>5, <2>1, <2>2, <2>3, <2>4 DEF RemTickSound
  <1>7. remTick'[t].at \in 0..MaxTime
    BY <1>4, <1>5, RemFacts, ReminderAssumption
  <1>8. ASSUME NEW r \in Reminders PROVE Holders(r)' \subseteq Holders(r)
    BY SMTT(30), <1>2, <1>4, <1>5 DEF Holders
  <1>9. ASSUME NEW r \in Reminders, r = Head(due).id PROVE t \notin Holders(r)'
    <2>1. \A i \in DOMAIN rest : rest[i].id # r
      BY <1>1, <1>2, <1>9 DEF RemTickSound
    <2> QED BY <1>4, <1>5, <2>1 DEF Holders
  <1> QED BY <1>5, <1>6, <1>7, <1>8, <1>9

LEMMA RemTickPublishInv == ASSUME RemInv, NEW t \in RemTickers, RemTickPublish(t) PROVE RemInv'
  <1>1. /\ remTick[t].pc = "publish" /\ RemTickOn(t)
        /\ UNCHANGED <<now, reminder, cancel, quiet, cut, cuts>>
    BY DEF RemTickPublish
  <1>2. PICK r \in Reminders :
          /\ r = Head(remTick[t].due).id /\ reminder[r].at <= now /\ t \in Holders(r)
          /\ reminder[r].state \in {"sent", "cancelled"}
    BY <1>1, HeadFacts
  <1>3. emitted' = [emitted EXCEPT ![r] = @ + 1]
    BY <1>2 DEF RemTickPublish
  <1>4. /\ remTick' \in [RemTickers -> RemTickVal]
        /\ \A u \in RemTickers \ {t} : remTick'[u] = remTick[u]
        /\ RemTickSound(t)' /\ remTick'[t].at \in 0..MaxTime
        /\ \A q \in Reminders : Holders(q)' \subseteq Holders(q)
        /\ t \notin Holders(r)'
    BY <1>1, <1>2, TickOnFacts
  <1>5. /\ emitted' \in [Reminders -> Nat] /\ emitted'[r] = emitted[r] + 1 /\ emitted[r] \in Nat
        /\ \A q \in Reminders \ {r} : emitted'[q] = emitted[q]
    BY <1>3, RemFacts
  <1>6. RemRowSound(r)'
    <2>1. RemRowSound(r) /\ Cardinality(RemTickers) \in Nat
      BY RemFacts
    <2>2. r \notin quiet
      BY <1>2, <2>1 DEF RemRowSound
    <2>3. Cardinality(Holders(r)') <= Cardinality(Holders(r)) - 1
          /\ Cardinality(Holders(r)') \in Nat /\ Cardinality(Holders(r)) \in Nat
      <3>1. IsFiniteSet(Holders(r)) /\ Cardinality(Holders(r)) \in Nat
        BY HoldersFinite DEF Holders
      <3>2. IsFiniteSet(Holders(r) \ {t}) /\ Cardinality(Holders(r) \ {t}) = Cardinality(Holders(r)) - 1
        BY <1>2, <3>1, FS_RemoveElement
      <3>3. Holders(r)' \in SUBSET (Holders(r) \ {t})
        BY <1>4
      <3>4. IsFiniteSet(Holders(r)') /\ Cardinality(Holders(r)') <= Cardinality(Holders(r) \ {t})
        BY <3>2, <3>3, FS_Subset
      <3> QED BY <3>1, <3>2, <3>4, FS_CardinalityType
    <2>4. emitted[r] + Cardinality(Holders(r)) <= Cardinality(RemTickers)
      BY <2>1 DEF RemRowSound
    <2>5. emitted'[r] + Cardinality(Holders(r)') <= Cardinality(RemTickers)
      <3> HIDE DEF Holders
      <3> QED BY <1>5, <2>1, <2>3, <2>4
    <2> QED BY <1>1, <1>2, <2>2, <2>5 DEF RemRowSound
  <1>7. \A q \in Reminders : RemRowSound(q)'
    BY <1>1, <1>4, <1>5, <1>6, RowStays
  <1> QED BY <1>1, <1>4, <1>5, <1>7, RemFacts, TickMoves

LEMMA RemPublishLostInv == ASSUME RemInv, NEW t \in RemTickers, RemPublishLost(t) PROVE RemInv'
  <1>1. /\ remTick[t].pc = "publish" /\ cuts < MaxCuts /\ cuts' = cuts + 1
        /\ cut' = cut \union {Head(remTick[t].due).id} /\ RemTickOn(t)
        /\ UNCHANGED <<now, reminder, cancel, emitted, quiet>>
    BY DEF RemPublishLost
  <1>2. cut' \subseteq Reminders /\ cuts' \in 0..MaxCuts
    BY <1>1, HeadFacts, RemFacts, ReminderAssumption
  <1>3. /\ remTick' \in [RemTickers -> RemTickVal]
        /\ \A u \in RemTickers \ {t} : remTick'[u] = remTick[u]
        /\ RemTickSound(t)' /\ remTick'[t].at \in 0..MaxTime
        /\ \A r \in Reminders : Holders(r)' \subseteq Holders(r)
    BY <1>1, TickOnFacts
  <1>4. \A r \in Reminders : RemRowSound(r)'
    BY <1>1, <1>3, RowStays
  <1> QED BY <1>1, <1>2, <1>3, <1>4, RemFacts, TickMoves

LEMMA RemTickFailInv == ASSUME RemInv, NEW t \in RemTickers, RemTickFail(t) PROVE RemInv'
  <1>1. /\ remTick[t].pc # "idle" /\ cuts < MaxCuts /\ cuts' = cuts + 1
        /\ cut' \subseteq cut \union {Head(remTick[t].due).id}
        /\ remTick' = [remTick EXCEPT ![t] = NoRemTick]
        /\ UNCHANGED <<now, reminder, cancel, emitted, quiet>>
    BY DEF RemTickFail
  <1>2. cut' \subseteq Reminders /\ cuts' \in 0..MaxCuts
    BY <1>1, HeadFacts, RemFacts, ReminderAssumption
  <1>3. NoRemTick \in RemTickVal /\ NoRemTick.pc = "idle" /\ NoRemTick.due = <<>> /\ NoRemTick.at = 0
    BY DEF NoRemTick, RemTickVal
  <1>4. /\ remTick' \in [RemTickers -> RemTickVal] /\ remTick'[t] = NoRemTick
        /\ \A u \in RemTickers \ {t} : remTick'[u] = remTick[u]
    BY <1>1, <1>3, RemFacts
  <1>5. RemTickSound(t)' /\ remTick'[t].at \in 0..MaxTime
    <2>1. 0 \in 0..MaxTime
      BY ReminderAssumption
    <2> QED BY <1>3, <1>4, <2>1 DEF RemTickSound
  <1>6. \A r \in Reminders : Holders(r)' \subseteq Holders(r)
    BY <1>3, <1>4 DEF Holders
  <1>7. \A r \in Reminders : RemRowSound(r)'
    BY <1>1, <1>6, RowStays
  <1> QED BY <1>1, <1>2, <1>4, <1>5, <1>7, RemFacts, TickMoves

LEMMA RemNextInv == RemInv /\ [RemNext]_remVars => RemInv'
  <1> SUFFICES ASSUME RemInv, [RemNext]_remVars PROVE RemInv'
    OBVIOUS
  <1>1. CASE UNCHANGED remVars
    <2>1. /\ RowsKeep /\ \A t \in RemTickers : RemTickSound(t)'
          /\ \A r \in Reminders : RemRowSound(r)'
      BY <1>1, RowsUntouched, RemFacts
    <2>2. \A c \in Cancellers : CancelSound(c)'
      BY <1>1, <2>1, CancelKept
    <2>3. RemTypeOK'
      BY <1>1 DEF RemInv, RemTypeOK
    <2> QED BY <1>1, <2>1, <2>2, <2>3 DEF RemInv, RemSound
  <1>2. ASSUME NEW r \in Reminders, NEW t \in Times, ScheduleReminder(r, t) PROVE RemInv'
    BY <1>2, ScheduleReminderInv
  <1>3. ASSUME NEW c \in Cancellers, NEW r \in Reminders, CancelLoad(c, r) PROVE RemInv'
    BY <1>3, CancelLoadInv
  <1>4. ASSUME NEW c \in Cancellers, CancelSave(c) PROVE RemInv'
    BY <1>4, CancelSaveInv
  <1>5. ASSUME NEW t \in RemTickers, RemTickStep(t) \/ RemTickFail(t) PROVE RemInv'
    BY <1>5, RemTickStartInv, RemTickSaveInv, RemTickPublishInv, RemPublishLostInv, RemTickFailInv
       DEF RemTickStep
  <1> QED BY <1>1, <1>2, <1>3, <1>4, <1>5, TimePassesInv DEF RemNext

LEMMA RemInvariant == RemSpec => []RemInv
  BY RemInitInv, RemNextInv, PTL DEF RemSpec

\* reminders_tick announces a reminder never before its time, and at most once
\* for each process that ticks, whatever cancellations and failures interfere.
THEOREM AnnouncementsBounded == RemSpec => []AnnouncedBounded
  <1>1. RemInv => AnnouncedBounded
    <2> SUFFICES ASSUME RemInv, NEW r \in Reminders
                 PROVE  /\ emitted[r] <= Cardinality(RemTickers)
                        /\ emitted[r] > 0 => reminder[r].at <= now
      BY DEF AnnouncedBounded
    <2>1. RemRowSound(r) /\ emitted[r] \in Nat /\ Cardinality(RemTickers) \in Nat
      BY RemFacts
    <2>2. Cardinality(Holders(r)) \in Nat
      BY HoldersFinite DEF Holders
    <2> QED BY <2>1, <2>2 DEF RemRowSound
  <1> QED BY <1>1, RemInvariant, PTL

\* A reminder_cancel that found the reminder scheduled and in the hands of no
\* tick is final: the reminder is never announced.
THEOREM CancelIsFinal == RemSpec => []CancelledIsQuiet
  <1>1. RemInv => CancelledIsQuiet
    BY RemFacts DEF CancelledIsQuiet, RemRowSound
  <1> QED BY <1>1, RemInvariant, PTL
=============================================================================
