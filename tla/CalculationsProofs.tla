------------------------ MODULE CalculationsProofs -------------------------
(***************************************************************************)
(* The theorems of the pure parts.  The bare machine and the statig        *)
(* adapters agree, for every sequence of events, every seed and every set  *)
(* of payment operands.  The runs of a schedule follow its cadence from    *)
(* every start on the calendar.                                            *)
(***************************************************************************)
EXTENDS StateMachines, Cadence, TaxEngine, WellFoundedInduction, TLAPS

USE DEF machineVars, cadenceVars
-----------------------------------------------------------------------------
(* The state machines *)

\* No event leads back to Draft.
LEMMA DraftIsLeft ==
    /\ \A s, e, paid, total : NextState(s, e, paid, total) # "Draft"
    /\ \A s : NoteNextState(s) # "Draft"
  BY DEF NextState, NoteNextState, PayFromOpen, ClassifyPayment

\* A document that was loaded in a later state never is a draft again: the
\* statig machine, which waits in Draft, is not driven.
MachinesInv == StatigInStep /\ (seed # "Draft" => shadow # "Draft")

LEMMA MachinesInitInv == MachineInit => MachinesInv
  BY DEF MachineInit, MachinesInv, StatigInStep

\* Where the two are in one state, the table has one verdict on both.
LEMMA ApplyInv ==
    ASSUME MachinesInv, NEW next, NEW handled, StatigApply(next, handled), next # "Draft",
           inner = shadow => handled = next
    PROVE  MachinesInv'
  <1>1. CASE next \in Rejections
    BY <1>1 DEF StatigApply, MachinesInv, StatigInStep
  <1>2. CASE next \notin Rejections
    <2>1. /\ shadow' = next /\ seed' = seed
          /\ inner' = IF inner = shadow THEN Dispatch(handled) ELSE inner
      BY <1>2 DEF StatigApply
    <2>2. ASSUME seed = "Draft" PROVE inner' = shadow'
      BY <1>2, <2>1, <2>2 DEF MachinesInv, StatigInStep, Dispatch
    <2>3. ASSUME seed # "Draft" PROVE inner' = "Draft"
      BY <2>1, <2>3 DEF MachinesInv, StatigInStep
    <2> QED BY <2>1, <2>2, <2>3 DEF MachinesInv, StatigInStep
  <1> QED BY <1>1, <1>2

\* StatigAdapter: the statig machine is driven in step with the shadow or, for
\* a document loaded in a later state, never.
THEOREM StatigKeepsStep == MachineSpec => []StatigInStep
  <1>1. MachinesInv /\ [MachineNext]_machineVars => MachinesInv'
    <2> SUFFICES ASSUME MachinesInv, [MachineNext]_machineVars PROVE MachinesInv'
      OBVIOUS
    <2>1. CASE UNCHANGED machineVars
      BY <2>1 DEF MachinesInv, StatigInStep
    <2>2. CASE NoteApply
      BY <2>2, DraftIsLeft, ApplyInv DEF NoteApply
    <2>3. ASSUME NEW e \in Events, NEW paid \in Amounts, NEW total \in Amounts,
                 InvoiceApply(e, paid, total)
          PROVE  MachinesInv'
      <3> DEFINE next == NextState(shadow, e, paid, total)
                 handled == NextState(inner, e, paid, total)
      <3>1. StatigApply(next, handled) /\ next # "Draft" /\ (inner = shadow => handled = next)
        BY <2>3, DraftIsLeft, Zenon DEF InvoiceApply
      <3> HIDE DEF next, handled
      <3> QED BY <3>1, ApplyInv, Zenon
    <2> QED BY <2>1, <2>2, <2>3 DEF MachineNext
  <1>2. MachinesInv => StatigInStep
    BY DEF MachinesInv
  <1> QED BY <1>1, <1>2, MachinesInitInv, PTL DEF MachineSpec
-----------------------------------------------------------------------------
(* The cadence *)

LEMMA ShortMonth == ASSUME NEW y \in Nat, NEW m \in 1..12 PROVE DaysIn(y, m) \in 28..31
  BY DEF DaysIn

LEMMA InCalendar ==
    ASSUME NEW y, NEW m, NEW d, y \in Nat, m \in 1..12, d \in 1..28
    PROVE  Date(y, m, d) \in Dates
  <1>1. DaysIn(y, m) \in 28..31
    BY ShortMonth
  <1>2. Date(y, m, d) \in [year : Nat, month : 1..12, day : 1..31]
    BY DEF Date
  <1>3. Date(y, m, d).year = y /\ Date(y, m, d).month = m /\ Date(y, m, d).day = d
    BY DEF Date
  <1> QED BY <1>1, <1>2, <1>3 DEF Dates

LEMMA DateFields ==
    ASSUME NEW y, NEW m, NEW d, NEW b, y \in Nat, m \in 1..12, d \in 1..28, b = Date(y, m, d)
    PROVE  b \in Dates /\ b.year = y /\ b.month = m /\ b.day = d
  <1>1. b \in Dates
    BY InCalendar
  <1> QED BY <1>1 DEF Date

\* Advance by month numbers: a month or three on, within a year of the start.
LEMMA InMonthsAdvances ==
    ASSUME NEW a \in Dates, NEW n \in 0..12, NEW day \in 1..28, NEW b, b = InMonths(a, n, day)
    PROVE  b \in Dates /\ b.day = day /\ MonthNo(b) = MonthNo(a) + n
  <1>1. a.year \in Nat /\ a.month \in 1..12
    BY DEF Dates
  <1> DEFINE past == a.month + n > 12
             y == IF past THEN a.year + 1 ELSE a.year
             m == IF past THEN a.month + n - 12 ELSE a.month + n
  <1>2. b = Date(y, m, day)
    BY <1>1 DEF InMonths
  <1>3. y \in Nat /\ m \in 1..12 /\ 12 * y + m = 12 * a.year + a.month + n
    BY <1>1
  <1> HIDE DEF y, m
  <1>4. b \in Dates /\ b.year = y /\ b.month = m /\ b.day = day
    BY <1>2, <1>3, DateFields
  <1> QED BY <1>3, <1>4 DEF MonthNo

\* The order of dates is that of month numbers, then of days.
LEMMA BeforeByMonth ==
    ASSUME NEW a \in Dates, NEW b \in Dates
    PROVE  Before(a, b) <=> (MonthNo(a) < MonthNo(b) \/ (MonthNo(a) = MonthNo(b) /\ a.day < b.day))
  <1>1. a.year \in Nat /\ a.month \in 1..12 /\ b.year \in Nat /\ b.month \in 1..12
    BY DEF Dates
  <1>2. a.day \in Nat /\ b.day \in Nat
    BY DEF Dates
  <1> QED BY <1>1, <1>2 DEF Before, MonthNo

LEMMA DateTypes ==
    ASSUME NEW a \in Dates PROVE a.year \in Nat /\ a.month \in 1..12 /\ a.day \in Nat /\ MonthNo(a) \in Nat
  <1>1. a.year \in Nat /\ a.month \in 1..12
    BY DEF Dates
  <1>2. a.day \in Nat
    BY DEF Dates
  <1> QED BY <1>1, <1>2 DEF MonthNo

\* Cadence::advance returns the first date on the cadence after the given one.
LEMMA AdvanceFollows ==
    ASSUME NEW c \in Cadences, NEW a \in Dates, NEW b, b = Advance(c, a) PROVE Follows(c, a, b)
  <1>0. c.day \in 1..28 /\ c.month \in 1..12 /\ c.kind \in {"monthly", "quarterly", "yearly"}
    BY DEF Cadences
  <1>1. a.year \in Nat /\ a.month \in 1..12 /\ a.day \in Nat /\ MonthNo(a) \in Nat
    BY DateTypes
  <1>2. CASE c.kind = "monthly"
    <2> DEFINE n == IF a.day < c.day THEN 0 ELSE 1
    <2>1. b = InMonths(a, n, c.day) /\ n \in 0..12
      BY <1>2 DEF Advance
    <2> HIDE DEF n
    <2>2. b \in Dates /\ b.day = c.day /\ MonthNo(b) = MonthNo(a) + n
      <3> DEFINE dd == c.day
      <3>1. dd \in 1..28 /\ b = InMonths(a, n, dd)
        BY <1>0, <2>1
      <3> HIDE DEF dd
      <3>2. b \in Dates /\ b.day = dd /\ MonthNo(b) = MonthNo(a) + n
        BY <2>1, <3>1, InMonthsAdvances
      <3> QED BY <3>2 DEF dd
    <2>3. Before(a, b)
      BY <1>0, <1>1, <2>2, BeforeByMonth DEF n
    <2>4. ASSUME NEW m \in MonthNo(a) .. (MonthNo(b) - 1) PROVE m = MonthNo(a) /\ c.day <= a.day
      BY <1>0, <1>1, <2>2 DEF n
    <2>5. Occurs(c, a, MonthNo(b))
      BY <1>2 DEF Occurs
    <2> QED BY <2>2, <2>3, <2>4, <2>5 DEF Follows
  <1>3. CASE c.kind = "quarterly"
    <2> DEFINE n == IF a.day < c.day THEN 0 ELSE 3
    <2>1. b = InMonths(a, n, c.day) /\ n \in 0..12
      BY <1>3 DEF Advance
    <2> HIDE DEF n
    <2>2. b \in Dates /\ b.day = c.day /\ MonthNo(b) = MonthNo(a) + n
      <3> DEFINE dd == c.day
      <3>1. dd \in 1..28 /\ b = InMonths(a, n, dd)
        BY <1>0, <2>1
      <3> HIDE DEF dd
      <3>2. b \in Dates /\ b.day = dd /\ MonthNo(b) = MonthNo(a) + n
        BY <2>1, <3>1, InMonthsAdvances
      <3> QED BY <3>2 DEF dd
    <2>3. Before(a, b)
      BY <1>0, <1>1, <2>2, BeforeByMonth DEF n
    <2>4. ASSUME NEW m \in MonthNo(a) .. (MonthNo(b) - 1), Occurs(c, a, m)
          PROVE  m = MonthNo(a) /\ c.day <= a.day
      <3>1. (m - MonthNo(a)) % 3 = 0 /\ m - MonthNo(a) \in 0..2 /\ c.day <= a.day
        BY <1>0, <1>1, <1>3, <2>2, <2>4 DEF Occurs, n
      <3> QED BY <1>1, <3>1
    <2>5. Occurs(c, a, MonthNo(b))
      BY <1>1, <1>3, <2>2 DEF Occurs, n
    <2> QED BY <2>2, <2>3, <2>4, <2>5 DEF Follows
  <1>4. CASE c.kind = "yearly"
    <2> DEFINE here == Date(a.year, c.month, c.day)
               y == IF Before(a, here) THEN a.year ELSE a.year + 1
    <2>1. b = Date(y, c.month, c.day) /\ y \in Nat
      BY <1>1, <1>4 DEF Advance
    <2> HIDE DEF y
    <2>2. here \in Dates /\ here.year = a.year /\ here.month = c.month /\ here.day = c.day
      <3> DEFINE yy == a.year
                 mm == c.month
                 dd == c.day
      <3>1. yy \in Nat /\ mm \in 1..12 /\ dd \in 1..28 /\ here = Date(yy, mm, dd)
        BY <1>0, <1>1
      <3> HIDE DEF yy, mm, dd, here
      <3>2. here \in Dates /\ here.year = yy /\ here.month = mm /\ here.day = dd
        BY <3>1, DateFields
      <3> QED BY <3>2 DEF yy, mm, dd
    <2>3. Before(a, here) <=> (MonthNo(a) < MonthNo(here) \/ (MonthNo(a) = MonthNo(here) /\ a.day < c.day))
      BY <2>2, BeforeByMonth
    <2>4. MonthNo(here) = 12 * a.year + c.month
      BY <2>2 DEF MonthNo
    <2> HIDE DEF here
    <2>5. b \in Dates /\ b.year = y /\ b.month = c.month /\ b.day = c.day
      <3> DEFINE mm == c.month
                 dd == c.day
      <3>1. mm \in 1..12 /\ dd \in 1..28 /\ b = Date(y, mm, dd)
        BY <1>0, <2>1
      <3> HIDE DEF mm, dd
      <3>2. b \in Dates /\ b.year = y /\ b.month = mm /\ b.day = dd
        BY <2>1, <3>1, DateFields
      <3> QED BY <3>2 DEF mm, dd
    <2>6. MonthNo(b) = 12 * y + c.month
      BY <2>5 DEF MonthNo
    <2>7. MonthNo(a) = 12 * a.year + a.month
      BY DEF MonthNo
    <2>8. Before(a, b)
      <3>1. MonthNo(a) < MonthNo(b) \/ (MonthNo(a) = MonthNo(b) /\ a.day < b.day)
        BY <1>0, <1>1, <2>3, <2>4, <2>5, <2>6, <2>7 DEF y
      <3> QED BY <2>5, <3>1, BeforeByMonth
    <2>9. Occurs(c, a, MonthNo(b))
      <3>1. MonthNo(b) - c.month = 12 * y
        BY <1>0, <2>1, <2>6
      <3>2. (12 * y) % 12 = 0
        BY <2>1
      <3> QED BY <1>4, <3>1, <3>2 DEF Occurs
    <2>10. ASSUME NEW m \in MonthNo(a) .. (MonthNo(b) - 1), Occurs(c, a, m)
           PROVE  m = MonthNo(a) /\ c.day <= a.day
      <3> DEFINE k == (m - c.month) \div 12
      <3>1. m \in Int /\ m - c.month \in Int /\ (m - c.month) % 12 = 0
        BY <1>0, <1>1, <1>4, <2>1, <2>6, <2>10 DEF Occurs
      <3>2. k \in Int /\ m = 12 * k + c.month
        BY <1>0, <3>1
      <3> HIDE DEF k
      <3>3. 12 * a.year + a.month <= 12 * k + c.month /\ k < y
        BY <1>0, <1>1, <2>1, <2>6, <2>7, <2>10, <3>2
      <3>4. CASE Before(a, here)
        <4>1. y = a.year /\ a.month <= c.month
          BY <1>0, <1>1, <2>3, <2>4, <2>7, <3>4 DEF y
        <4> QED BY <1>0, <1>1, <3>2, <3>3, <4>1
      <3>5. CASE ~Before(a, here)
        <4>1. y = a.year + 1 /\ (c.month < a.month \/ (c.month = a.month /\ c.day <= a.day))
          BY <1>0, <1>1, <2>3, <2>4, <2>7, <3>5 DEF y
        <4>2. k = a.year
          BY <1>0, <1>1, <3>2, <3>3, <4>1
        <4> QED BY <1>0, <1>1, <2>7, <3>2, <3>3, <4>1, <4>2
      <3> QED BY <3>4, <3>5
    <2> QED BY <2>5, <2>8, <2>9, <2>10 DEF Follows
  <1> QED BY <1>0, <1>2, <1>3, <1>4

\* Every run is a date, so that the cadence can be advanced from it.
CadenceInv == cadence \in Cadences /\ runs \in Seq(Dates) /\ Len(runs) > 0 /\ RunsOnCadence

\* A schedule's dates follow its cadence: from any start on the calendar, for
\* every cadence that parses and however long it runs, each next_run is the
\* first date on the cadence after the one before.
THEOREM SchedulesKeepTime == CadenceSpec => []RunsOnCadence
  <1>1. CadenceInit => CadenceInv
    <2> SUFFICES ASSUME CadenceInit PROVE CadenceInv
      OBVIOUS
    <2>1. PICK start \in Dates : runs = <<start>>
      BY DEF CadenceInit
    <2>2. runs \in Seq(Dates) /\ Len(runs) = 1
      BY <2>1
    <2> QED BY <2>2 DEF CadenceInit, CadenceInv, RunsOnCadence
  <1>2. CadenceInv /\ [Run]_cadenceVars => CadenceInv'
    <2> SUFFICES ASSUME CadenceInv, [Run]_cadenceVars PROVE CadenceInv'
      OBVIOUS
    <2>1. CASE UNCHANGED cadenceVars
      BY <2>1 DEF CadenceInv, RunsOnCadence
    <2>2. CASE Run
      <3> DEFINE n == Len(runs)
                 a == runs[n]
                 b == Advance(cadence, a)
      <3>1. cadence \in Cadences /\ runs \in Seq(Dates) /\ n \in Nat \ {0} /\ a \in Dates /\ RunsOnCadence
        BY DEF CadenceInv
      <3>2. Follows(cadence, a, b)
        BY <3>1, AdvanceFollows
      <3>3. runs' = Append(runs, b) /\ cadence' = cadence
        BY <2>2 DEF Run
      <3> HIDE DEF b
      <3>4. b \in Dates
        BY <3>2 DEF Follows
      <3>5. /\ runs' \in Seq(Dates) /\ Len(runs') = n + 1 /\ runs'[n + 1] = b
            /\ \A i \in 1..n : runs'[i] = runs[i]
        BY <3>1, <3>3, <3>4
      <3>6. ASSUME NEW i \in 1..(Len(runs') - 1) PROVE Follows(cadence, runs'[i], runs'[i + 1])
        <4>1. CASE i = n
          BY <3>1, <3>2, <3>5, <4>1
        <4>2. CASE i # n
          <5>1. i \in 1..(n - 1) /\ runs'[i] = runs[i] /\ runs'[i + 1] = runs[i + 1]
            BY <3>1, <3>5, <4>2
          <5> QED BY <3>1, <5>1 DEF RunsOnCadence
        <4> QED BY <4>1, <4>2
      <3>7. RunsOnCadence'
        BY <3>3, <3>6 DEF RunsOnCadence
      <3> QED BY <3>1, <3>3, <3>5, <3>7 DEF CadenceInv
    <2> QED BY <2>1, <2>2
  <1>3. CadenceInv => RunsOnCadence
    BY DEF CadenceInv
  <1> QED BY <1>1, <1>2, <1>3, PTL DEF CadenceSpec
-----------------------------------------------------------------------------
(* Sums *)

LEMMA UpwardInduction ==
    ASSUME NEW m \in Nat, NEW S, 0 \in S, \A n \in Nat : n < m /\ n \in S => n + 1 \in S
    PROVE  \A n \in 0..m : n \in S
  <1> DEFINE T == {n \in 0..m : n \notin S}
             R == {ss \in Nat \X Nat : ss[1] < ss[2]}
  <1> SUFFICES ASSUME T # {} PROVE FALSE
    OBVIOUS
  <1>1. IsWellFoundedOn(R, Nat)
    BY NatLessThanWellFounded DEF OpToRel
  <1>2. ASSUME NEW x \in Nat, NEW y \in Nat, y < x PROVE <<y, x>> \in R
    <2>1. <<y, x>> \in Nat \X Nat /\ <<y, x>>[1] = y /\ <<y, x>>[2] = x
      OBVIOUS
    <2> QED BY <1>2, <2>1, Zenon
  <1>3. T \subseteq Nat
    OBVIOUS
  <1> HIDE DEF R, T
  <1>4. PICK k \in T : \A y \in T : ~ (<<y, k>> \in R)
    BY <1>1, <1>3, WFMin
  <1>5. k \in 1..m /\ k \notin S
    BY DEF T
  <1>6. k - 1 \in Nat /\ k \in Nat /\ k - 1 < k /\ k - 1 < m /\ k = (k - 1) + 1
    BY <1>5
  <1>7. k - 1 \notin T
    BY <1>2, <1>4, <1>6
  <1>8. k - 1 \in S
    BY <1>5, <1>7 DEF T
  <1>9. (k - 1) + 1 \in S
    BY <1>6, <1>8
  <1> QED BY <1>5, <1>6, <1>9

\* The body of the sum, with g for the sums so far.
SumBody(s, g, k) == IF k = 0 THEN 0 ELSE g[k - 1] + s[k]

LEMMA SumExists == ASSUME NEW s, NEW n \in Nat PROVE \E g : g = [k \in 0..n |-> SumBody(s, g, k)]
  <1> DEFINE S == {j \in Nat : \E g : g = [k \in 0..j |-> SumBody(s, g, k)]}
  <1>1. 0 \in S
    <2> DEFINE g == [k \in 0..0 |-> 0]
    <2>1. g = [k \in 0..0 |-> SumBody(s, g, k)]
      BY DEF SumBody
    <2> QED BY <2>1
  <1>2. ASSUME NEW j \in Nat, j \in S PROVE j + 1 \in S
    <2>1. PICK g : g = [k \in 0..j |-> SumBody(s, g, k)]
      BY <1>2
    <2> DEFINE h == [k \in 0..(j + 1) |-> IF k <= j THEN g[k] ELSE g[j] + s[j + 1]]
    <2>2. \A k \in 0..j : h[k] = g[k]
      OBVIOUS
    <2>3. h[j + 1] = g[j] + s[j + 1]
      OBVIOUS
    <2>4. ASSUME NEW k \in 0..(j + 1) PROVE h[k] = SumBody(s, h, k)
      <3>1. CASE k = j + 1
        <4>1. k # 0 /\ k - 1 = j /\ h[j] = g[j]
          BY <2>2, <3>1
        <4> QED BY <2>3, <3>1, <4>1 DEF SumBody
      <3>2. CASE k # j + 1
        <4>1. k \in 0..j /\ (k # 0 => k - 1 \in 0..j)
          BY <3>2
        <4>2. g[k] = SumBody(s, g, k)
          BY <2>1, <4>1
        <4>3. k # 0 => h[k - 1] = g[k - 1]
          BY <2>2, <4>1
        <4> QED BY <2>2, <4>1, <4>2, <4>3 DEF SumBody
      <3> QED BY <3>1, <3>2
    <2>5. h = [k \in 0..(j + 1) |-> h[k]]
      OBVIOUS
    <2> HIDE DEF h
    <2>6. h = [k \in 0..(j + 1) |-> SumBody(s, h, k)]
      BY <2>4, <2>5, Zenon
    <2> QED BY <2>6
  <1> HIDE DEF S
  <1>3. \A j \in 0..n : j \in S
    BY <1>1, <1>2, UpwardInduction
  <1>4. n \in S
    BY <1>3
  <1> QED BY <1>4 DEF S

\* SumOf adds one amount after the other.
SumsTo(s, g) ==
    /\ g \in [0..Len(s) -> Int] /\ g[0] = 0 /\ SumOf(s) = g[Len(s)]
    /\ \A k \in 1..Len(s) : g[k] = g[k - 1] + s[k]

LEMMA SumUnfolds == ASSUME NEW s \in Seq(Int) PROVE \E g : SumsTo(s, g)
  <1> DEFINE n == Len(s)
             upTo == CHOOSE g : g = [k \in 0..n |-> SumBody(s, g, k)]
  <1>0. n \in Nat
    OBVIOUS
  <1>1. upTo = [k \in 0..n |-> SumBody(s, upTo, k)]
    <2>1. \E g : g = [k \in 0..n |-> SumBody(s, g, k)]
      BY <1>0, SumExists
    <2> QED BY <2>1, Zenon
  <1>2. SumOf(s) = upTo[n]
    BY Zenon DEF SumOf, SumBody
  <1> HIDE DEF upTo
  <1>3. upTo[0] = 0
    BY <1>0, <1>1 DEF SumBody
  <1>4. ASSUME NEW k \in 1..n PROVE upTo[k] = upTo[k - 1] + s[k]
    BY <1>0, <1>1 DEF SumBody
  <1>5. \A k \in 0..n : upTo[k] \in Int
    <2> DEFINE S == {k \in Nat : upTo[k] \in Int}
    <2>1. 0 \in S
      BY <1>3
    <2>2. ASSUME NEW j \in Nat, j < n, j \in S PROVE j + 1 \in S
      <3>1. j + 1 \in 1..n /\ s[j + 1] \in Int
        BY <1>0, <2>2
      <3> QED BY <1>4, <2>2, <3>1
    <2> HIDE DEF S
    <2>3. \A k \in 0..n : k \in S
      BY <1>0, <2>1, <2>2, UpwardInduction
    <2> QED BY <2>3 DEF S
  <1>6. upTo \in [0..n -> Int]
    BY <1>1, <1>5
  <1>7. SumsTo(s, upTo)
    BY <1>2, <1>3, <1>4, <1>6 DEF SumsTo
  <1> QED BY <1>7

LEMMA SumIsInt == ASSUME NEW s \in Seq(Int) PROVE SumOf(s) \in Int
  <1>1. PICK g : SumsTo(s, g)
    BY SumUnfolds
  <1> QED BY <1>1 DEF SumsTo

\* The sum of sums.
LEMMA SumOfTwo ==
    ASSUME NEW s \in Seq(Int), NEW t \in Seq(Int), NEW w \in Seq(Int), Len(t) = Len(s), Len(w) = Len(s),
           \A i \in 1..Len(s) : w[i] = s[i] + t[i]
    PROVE  SumOf(w) = SumOf(s) + SumOf(t)
  <1> DEFINE n == Len(s)
  <1>1. PICK f : SumsTo(s, f)
    BY SumUnfolds
  <1>2. PICK g : SumsTo(t, g)
    BY SumUnfolds
  <1>3. PICK h : SumsTo(w, h)
    BY SumUnfolds
  <1> DEFINE S == {k \in Nat : h[k] = f[k] + g[k]}
  <1>4. 0 \in S
    BY <1>1, <1>2, <1>3 DEF SumsTo
  <1>5. ASSUME NEW j \in Nat, j < n, j \in S PROVE j + 1 \in S
    <2>1. j + 1 \in 1..n /\ j \in 0..n /\ s[j + 1] \in Int /\ t[j + 1] \in Int
      BY <1>5
    <2>2. f[j] \in Int /\ g[j] \in Int
      BY <1>1, <1>2, <2>1 DEF SumsTo
    <2>3. f[j + 1] = f[j] + s[j + 1] /\ g[j + 1] = g[j] + t[j + 1] /\ h[j + 1] = h[j] + w[j + 1]
      BY <1>1, <1>2, <1>3, <2>1 DEF SumsTo
    <2> QED BY <1>5, <2>1, <2>2, <2>3, SMTT(30)
  <1>6. n \in Nat /\ n \in 0..n
    OBVIOUS
  <1> HIDE DEF S
  <1>7. \A k \in 0..n : k \in S
    BY <1>4, <1>5, <1>6, UpwardInduction
  <1> QED BY <1>1, <1>2, <1>3, <1>6, <1>7 DEF S, SumsTo

\* A factor of every amount is one of the sum.
LEMMA SumScaled ==
    ASSUME NEW s \in Seq(Int), NEW w \in Seq(Int), NEW b \in Int, Len(w) = Len(s),
           \A i \in 1..Len(s) : w[i] = b * s[i]
    PROVE  SumOf(w) = b * SumOf(s)
  <1> DEFINE n == Len(s)
  <1>1. PICK f : SumsTo(s, f)
    BY SumUnfolds
  <1>3. PICK h : SumsTo(w, h)
    BY SumUnfolds
  <1> DEFINE S == {k \in Nat : h[k] = b * f[k]}
  <1>4. 0 \in S
    BY <1>1, <1>3 DEF SumsTo
  <1>5. ASSUME NEW j \in Nat, j < n, j \in S PROVE j + 1 \in S
    <2>1. j + 1 \in 1..n /\ j \in 0..n /\ s[j + 1] \in Int
      BY <1>5
    <2>2. f[j] \in Int
      BY <1>1, <2>1 DEF SumsTo
    <2>3. f[j + 1] = f[j] + s[j + 1] /\ h[j + 1] = h[j] + b * s[j + 1] /\ h[j] = b * f[j]
      BY <1>1, <1>3, <1>5, <2>1 DEF SumsTo
    <2>4. b * f[j] + b * s[j + 1] = b * (f[j] + s[j + 1])
      BY <2>1, <2>2
    <2> QED BY <2>3, <2>4
  <1>6. n \in Nat /\ n \in 0..n
    OBVIOUS
  <1> HIDE DEF S
  <1>7. \A k \in 0..n : k \in S
    BY <1>4, <1>5, <1>6, UpwardInduction
  <1> QED BY <1>1, <1>3, <1>6, <1>7 DEF S, SumsTo
-----------------------------------------------------------------------------
(* Rounding *)

\* Division by a positive unit.
LEMMA DivMod ==
    ASSUME NEW u \in Nat \ {0}, NEW x \in Int
    PROVE  x \div u \in Int /\ x % u \in 0..(u - 1) /\ x = u * (x \div u) + (x % u)
  BY SMT

LEMMA NoMultipleBetween ==
    ASSUME NEW u \in Nat \ {0}, NEW k \in Int, u * k < u, -u < u * k PROVE k = 0
  <1>1. CASE k >= 1
    <2>1. u * k = u * (k - 1) + u /\ u * (k - 1) >= 0
      BY <1>1, SMT
    <2> QED BY <2>1, SMT
  <1>2. CASE k <= -1
    <2>1. u * k = u * (k + 1) - u
      BY SMT
    <2>2. u * (0 - (k + 1)) >= 0
      BY <1>2, SMT
    <2>3. u * (k + 1) <= 0
      BY <2>2, SMT
    <2> QED BY <2>1, <2>3, SMT
  <1> QED BY <1>1, <1>2, SMT

LEMMA DivIsUnique ==
    ASSUME NEW u \in Nat \ {0}, NEW k \in Int, NEW r \in 0..(u - 1), NEW x, x = u * k + r
    PROVE  x \div u = k /\ x % u = r
  <1>1. x \in Int
    BY SMT
  <1> DEFINE q == x \div u
             s == x % u
  <1>2. q \in Int /\ s \in 0..(u - 1) /\ x = u * q + s
    BY <1>1, DivMod
  <1> HIDE DEF q, s
  <1>3. u * (k - q) = s - r
    BY <1>2, SMT
  <1>4. k - q = 0
    BY <1>2, <1>3, NoMultipleBetween
  <1>5. k = q
    BY <1>2, <1>4, SMT
  <1>6. s = r
    BY <1>2, <1>5, SMT
  <1> QED BY <1>5, <1>6 DEF q, s

LEMMA MultipleOf ==
    ASSUME NEW u \in Nat \ {0}, NEW k \in Int PROVE (u * k) % u = 0 /\ (u * k) \div u = k
  <1> DEFINE x == u * k
  <1>1. x = u * k + 0 /\ 0 \in 0..(u - 1)
    BY SMT
  <1> HIDE DEF x
  <1>2. x \div u = k /\ x % u = 0
    BY <1>1, DivIsUnique
  <1> QED BY <1>2 DEF x

LEMMA ScaleIs == ASSUME NEW c PROVE Scale(c) \in Nat \ {0}
  BY PrecisionAssumption, SMT DEF Scale

LEMMA ZeroMultiple == ASSUME NEW c PROVE 0 % Scale(c) = 0
  <1> DEFINE u == Scale(c)
  <1>1. u \in Nat \ {0}
    BY ScaleIs
  <1> HIDE DEF u
  <1>2. 0 % u = 0
    BY <1>1, SMT
  <1> QED BY <1>2 DEF u

LEMMA MultiplesSum ==
    ASSUME NEW u \in Nat \ {0}, NEW x \in Int, NEW y \in Int, x % u = 0, y % u = 0
    PROVE  (x + y) % u = 0
  <1>1. x = u * (x \div u) /\ x \div u \in Int /\ y = u * (y \div u) /\ y \div u \in Int
    BY DivMod, SMT
  <1> DEFINE a == x \div u
             b == y \div u
  <1>2. a \in Int /\ b \in Int /\ a + b \in Int /\ x + y = u * (a + b)
    <2> HIDE DEF a, b
    <2>1. a \in Int /\ b \in Int /\ x = u * a /\ y = u * b
      BY <1>1 DEF a, b
    <2> QED BY <2>1, SMT
  <1> HIDE DEF a, b
  <1> QED BY <1>2, MultipleOf

LEMMA MultiplesAdd ==
    ASSUME NEW c, NEW x \in Int, NEW y \in Int, x % Scale(c) = 0, y % Scale(c) = 0
    PROVE  (x + y) % Scale(c) = 0
  BY ScaleIs, MultiplesSum

LEMMA SumOfMultiples ==
    ASSUME NEW c, NEW s \in Seq(Int), \A i \in 1..Len(s) : s[i] % Scale(c) = 0
    PROVE  SumOf(s) % Scale(c) = 0
  <1> DEFINE n == Len(s)
  <1>1. PICK f : SumsTo(s, f)
    BY SumUnfolds
  <1> DEFINE S == {k \in Nat : f[k] % Scale(c) = 0}
  <1>2. 0 \in S
    BY <1>1, ZeroMultiple DEF SumsTo
  <1>3. ASSUME NEW j \in Nat, j < n, j \in S PROVE j + 1 \in S
    <2> DEFINE x == f[j]
               y == s[j + 1]
    <2>1. j + 1 \in 1..n /\ j \in 0..n /\ y \in Int /\ y % Scale(c) = 0
      BY <1>3
    <2>2. x \in Int /\ x % Scale(c) = 0
      BY <1>1, <1>3, <2>1 DEF SumsTo
    <2>3. f[j + 1] = x + y
      BY <1>1, <2>1 DEF SumsTo
    <2> HIDE DEF x, y
    <2>4. (x + y) % Scale(c) = 0
      BY <2>1, <2>2, MultiplesAdd
    <2> QED BY <2>3, <2>4
  <1>4. n \in Nat /\ n \in 0..n
    OBVIOUS
  <1> HIDE DEF S
  <1>5. \A k \in 0..n : k \in S
    BY <1>2, <1>3, <1>4, UpwardInduction
  <1> QED BY <1>1, <1>4, <1>5 DEF S, SumsTo

\* Amounts that stay within a unit of others, one by one, do so in their sum.
LEMMA SumsClose ==
    ASSUME NEW c, NEW s \in Seq(Int), NEW t \in Seq(Int), Len(t) = Len(s),
           \A i \in 1..Len(s) : s[i] - t[i] \in -Scale(c)..Scale(c)
    PROVE  SumOf(s) - SumOf(t) \in -(Scale(c) * Len(s))..(Scale(c) * Len(s))
  <1> DEFINE n == Len(s)
             u == Scale(c)
  <1>1. PICK f : SumsTo(s, f)
    BY SumUnfolds
  <1>2. PICK g : SumsTo(t, g)
    BY SumUnfolds
  <1> DEFINE S == {k \in Nat : f[k] - g[k] \in -(u * k)..(u * k)}
  <1>3. u \in Nat
    BY ScaleIs, SMT
  <1> HIDE DEF u
  <1>4. 0 \in S
    BY <1>1, <1>2, <1>3 DEF SumsTo
  <1>5. ASSUME NEW j \in Nat, j < n, j \in S PROVE j + 1 \in S
    <2>1. j + 1 \in 1..n /\ j \in 0..n /\ s[j + 1] \in Int /\ t[j + 1] \in Int
      BY <1>5
    <2>2. f[j] \in Int /\ g[j] \in Int
      BY <1>1, <1>2, <2>1 DEF SumsTo
    <2>3. f[j + 1] = f[j] + s[j + 1] /\ g[j + 1] = g[j] + t[j + 1]
      BY <1>1, <1>2, <2>1 DEF SumsTo
    <2>4. s[j + 1] - t[j + 1] \in -u..u
      BY <2>1 DEF u
    <2>5. f[j] - g[j] \in -(u * j)..(u * j)
      BY <1>5
    <2>6. u * (j + 1) = u * j + u /\ u * j \in Nat
      BY <1>3
    <2>7. f[j + 1] - g[j + 1] = (f[j] - g[j]) + (s[j + 1] - t[j + 1])
      BY <2>1, <2>2, <2>3, SMTT(30)
    <2> DEFINE p == f[j] - g[j]
               q == s[j + 1] - t[j + 1]
               v == u * j
    <2>8. p \in Int /\ q \in Int /\ v \in Nat /\ p \in -v..v /\ q \in -u..u
      BY <1>3, <2>1, <2>2, <2>4, <2>5, <2>6
    <2> HIDE DEF p, q, v
    <2>9. p + q \in -(v + u)..(v + u)
      BY <1>3, <2>8
    <2>10. f[j + 1] - g[j + 1] \in -(u * (j + 1))..(u * (j + 1))
      BY <2>6, <2>7, <2>9 DEF p, q, v
    <2> QED BY <2>10
  <1>6. n \in Nat /\ n \in 0..n
    OBVIOUS
  <1> HIDE DEF S
  <1>7. \A k \in 0..n : k \in S
    BY <1>4, <1>5, <1>6, UpwardInduction
  <1>8. f[n] - g[n] \in -(u * n)..(u * n)
    BY <1>6, <1>7 DEF S
  <1> QED BY <1>1, <1>2, <1>8 DEF SumsTo, u

\* Currency::round gives the nearest multiple of the minor unit.
LEMMA RoundNearest ==
    ASSUME NEW c, NEW x \in Int
    PROVE  Round(c, x) \in Int /\ IsNearest(c, Round(c, x), x)
  <1> DEFINE u == Scale(c)
             q == x \div u
             r == x % u
             m == IF 2 * r < u \/ (2 * r = u /\ q % 2 = 0) THEN q ELSE q + 1
             n == u * m
             d == IF n > x THEN n - x ELSE x - n
  <1>1. u \in Nat \ {0}
    BY ScaleIs
  <1>2. Round(c, x) = n
    BY Zenon DEF Round
  <1> HIDE DEF u
  <1>3. q \in Int /\ r \in 0..(u - 1) /\ x = u * q + r
    BY <1>1, DivMod
  <1> HIDE DEF q, r
  <1>4. m \in Int /\ (m = q \/ m = q + 1)
    BY <1>3, SMT
  <1>5. n \in Int /\ n % u = 0 /\ n \div u = m
    <2> HIDE DEF m
    <2> QED BY <1>1, <1>4, MultipleOf, SMT
  <1>6. 2 * d < u \/ (2 * d = u /\ m % 2 = 0)
    <2>1. CASE 2 * r < u \/ (2 * r = u /\ q % 2 = 0)
      <3>1. m = q
        BY <2>1
      <3>2. n = x - r
        BY <1>1, <1>3, <3>1, SMT
      <3> HIDE DEF m, n
      <3>3. d = r
        BY <1>1, <1>3, <3>2, SMT
      <3> HIDE DEF d
      <3> QED BY <2>1, <3>1, <3>3
    <2>2. CASE ~(2 * r < u \/ (2 * r = u /\ q % 2 = 0))
      <3>1. m = q + 1
        BY <2>2
      <3>2. n = x + (u - r)
        BY <1>1, <1>3, <3>1, SMT
      <3> HIDE DEF m, n
      <3>3. d = u - r
        BY <1>1, <1>3, <1>5, <3>2, SMT
      <3> HIDE DEF d
      <3> QED BY <1>1, <1>3, <2>2, <3>1, <3>3, SMT
    <2> QED BY <2>1, <2>2, Zenon
  <1>7. n % u = 0 /\ (2 * d < u \/ (2 * d = u /\ (n \div u) % 2 = 0))
    BY <1>5, <1>6, Zenon
  <1>8. IsNearest(c, n, x)
    BY <1>7, Zenon DEF IsNearest, u, d
  <1> QED BY <1>2, <1>5, <1>8, Zenon

\* A rounded amount is not changed by rounding.
LEMMA RoundedStays ==
    ASSUME NEW c, NEW x \in Int, x % Scale(c) = 0 PROVE Round(c, x) = x
  <1> DEFINE u == Scale(c)
             q == x \div u
             r == x % u
             m == IF 2 * r < u \/ (2 * r = u /\ q % 2 = 0) THEN q ELSE q + 1
  <1>1. u \in Nat \ {0} /\ r = 0
    BY ScaleIs
  <1>2. Round(c, x) = u * m
    BY Zenon DEF Round
  <1> HIDE DEF u
  <1>3. q \in Int /\ x = u * q + r
    BY <1>1, DivMod
  <1>4. 2 * r < u
    <2> HIDE DEF r
    <2> QED BY <1>1, SMT
  <1>5. m = q
    BY <1>4, Zenon
  <1> HIDE DEF q, r, m
  <1> QED BY <1>1, <1>2, <1>3, <1>5, SMT
-----------------------------------------------------------------------------
(* The tax of a line *)

FiguresSet == [revenue : Nat, txn_count : Nat]

LEMMA SaleFields ==
    ASSUME NEW s \in Sales
    PROVE  /\ s.seller \in Sellers /\ s.buyer.country \in Codes /\ s.buyer.region \in Codes \cup {None}
           /\ s.lines \in Seq(Lines) /\ s.table \in Seq(TaxRate) /\ s.figures \in FiguresSet /\ s.at \in Nat
           /\ DOMAIN s.nexus \subseteq Codes /\ \A k \in DOMAIN s.nexus : s.nexus[k] \in Thresholds
  <1>1. /\ s.seller \in Sellers /\ s.buyer.country \in Codes /\ s.buyer.region \in Codes \cup {None}
        /\ s.lines \in Seq(Lines) /\ s.table \in Seq(TaxRate) /\ s.figures \in FiguresSet /\ s.at \in Nat
    BY DEF Sales, FiguresSet
  <1>2. s.nexus \in UNION {[D -> Thresholds] : D \in SUBSET Codes}
    BY DEF Sales
  <1>3. PICK D \in SUBSET Codes : s.nexus \in [D -> Thresholds]
    BY <1>2
  <1> QED BY <1>1, <1>3

\* TaxTable::lookup finds the rows in force.
LEMMA LookupIsDue ==
    ASSUME NEW s \in Sales, NEW category
    PROVE  Lookup(s.table, s.seller, s.buyer, category, s.at) = Due(s, category)
  <1>1. ASSUME NEW i \in DOMAIN s.table
        PROVE  IsEffectiveOn(s.table[i], s.at)
                  <=> s.at \in s.table[i].from .. (IF s.table[i].to = 0 THEN s.at ELSE s.table[i].to)
    <2>1. s.table[i] \in TaxRate /\ s.at \in Nat
      BY SaleFields
    <2>2. s.table[i].from \in Nat /\ s.table[i].to \in Nat
      BY <2>1 DEF TaxRate
    <2> QED BY <2>1, <2>2 DEF IsEffectiveOn
  <1> QED BY <1>1 DEF Lookup, Due

LEMMA PickedAreDue ==
    ASSUME NEW s \in Sales, NEW line
    PROVE  PickRates(s.seller, s.buyer, line.category, s.table, s.at) = DueRows(s, line)
  BY LookupIsDue DEF PickRates, DueRows

\* NexusConfig::get and NexusThreshold::has_nexus say that the threshold is crossed.
LEMMA NexusIsCrossed ==
    ASSUME NEW s \in Sales, NEW f \in FiguresSet, s.buyer.region # None
    PROVE  LET state == NexusGet(s.nexus, s.buyer.region)
           IN  (state # None /\ HasNexus(s.nexus[state], f)) <=> Crossed(s, f)
  <1> DEFINE r == s.buyer.region
             U == Upper[r]
             state == NexusGet(s.nexus, r)
             Met(t) == /\ t.enabled
                       /\ \/ {t.revenue, t.txn_count} = {-1}
                          \/ t.revenue \in 0..f.revenue
                          \/ t.txn_count \in 0..f.txn_count
  <1>1. r \in Codes /\ U \in Codes /\ None \notin Codes /\ f.revenue \in Nat /\ f.txn_count \in Nat
    BY SaleFields, TaxAssumption DEF FiguresSet, None
  <1>2. ASSUME NEW k \in DOMAIN s.nexus PROVE HasNexus(s.nexus[k], f) <=> Met(s.nexus[k])
    <2>1. s.nexus[k] \in Thresholds
      BY SaleFields
    <2>2. s.nexus[k].revenue \in Nat \cup {-1} /\ s.nexus[k].txn_count \in Nat \cup {-1}
      BY <2>1 DEF Thresholds
    <2> QED BY <1>1, <2>2 DEF HasNexus
  <1>3. Crossed(s, f) <=> \E k \in DOMAIN s.nexus \cap {U, r} : (U \in DOMAIN s.nexus => k = U) /\ Met(s.nexus[k])
    BY DEF Crossed
  <1>4. DOMAIN s.nexus \subseteq Codes
    BY SaleFields
  <1> HIDE DEF Met
  <1>5. CASE U \in DOMAIN s.nexus
    <2>1. state = U /\ state # None
      BY <1>1, <1>5 DEF NexusGet
    <2>2. Crossed(s, f) <=> Met(s.nexus[U])
      BY <1>3, <1>5
    <2> QED BY <1>2, <1>5, <2>1, <2>2
  <1>6. CASE U \notin DOMAIN s.nexus /\ r \in DOMAIN s.nexus
    <2>1. state = r /\ state # None
      BY <1>1, <1>6 DEF NexusGet
    <2>2. Crossed(s, f) <=> Met(s.nexus[r])
      BY <1>3, <1>6
    <2> QED BY <1>2, <1>6, <2>1, <2>2
  <1>7. CASE U \notin DOMAIN s.nexus /\ r \notin DOMAIN s.nexus
    <2>1. state = None
      BY <1>7 DEF NexusGet
    <2>2. ~Crossed(s, f)
      BY <1>3, <1>7
    <2> QED BY <2>1, <2>2
  <1> QED BY <1>5, <1>6, <1>7

\* The rates of some rows of the table, in table order.
RatesOf(s, rows) == [i \in DOMAIN s.table |-> IF i \in rows THEN s.table[i].rate ELSE 0]

LEMMA TaxAtNearest ==
    ASSUME NEW s \in Sales, NEW rows, NEW base \in Int, NEW c, NEW amount, amount = TaxAt(rows, base, c, s.table)
    PROVE  /\ amount \in Int /\ base * SumOf(RatesOf(s, rows)) \in Int
           /\ IsNearest(c, amount, base * SumOf(RatesOf(s, rows)))
  <1> DEFINE R == RatesOf(s, rows)
             W == [i \in DOMAIN s.table |-> IF i \in rows THEN base * s.table[i].rate ELSE 0]
             n == Len(s.table)
  <1>1. s.table \in Seq(TaxRate) /\ n \in Nat /\ DOMAIN s.table = 1..n
    BY SaleFields
  <1>2. ASSUME NEW i \in 1..n PROVE s.table[i].rate \in Nat
    <2>1. s.table[i] \in TaxRate
      BY <1>1
    <2> QED BY <2>1 DEF TaxRate
  <1>3. R \in Seq(Int) /\ Len(R) = n
    BY <1>1, <1>2 DEF RatesOf
  <1>4. W \in Seq(Int) /\ Len(W) = n
    <2>1. ASSUME NEW i \in 1..n PROVE (IF i \in rows THEN base * s.table[i].rate ELSE 0) \in Int
      BY <1>2
    <2> QED BY <1>1, <2>1
  <1>5. \A i \in 1..Len(R) : W[i] = base * R[i]
    BY <1>1, <1>2, <1>3 DEF RatesOf
  <1>6. amount = Round(c, SumOf(W))
    BY DEF TaxAt
  <1> HIDE DEF R, W
  <1>7. SumOf(W) = base * SumOf(R) /\ SumOf(R) \in Int /\ SumOf(W) \in Int
    BY <1>3, <1>4, <1>5, SumScaled, SumIsInt
  <1> DEFINE x == SumOf(W)
  <1>8. x \in Int /\ amount = Round(c, x)
    BY <1>6, <1>7
  <1> HIDE DEF x
  <1>9. amount \in Int /\ IsNearest(c, amount, x)
    BY <1>8, RoundNearest
  <1>10. x = base * SumOf(R)
    BY <1>7 DEF x
  <1> QED BY <1>8, <1>9, <1>10 DEF R

LEMMA RoundZero == ASSUME NEW c PROVE Round(c, 0) = 0 /\ IsNearest(c, 0, 0)
  <1>1. Round(c, 0) = 0
    BY ZeroMultiple, RoundedStays, SMT
  <1>2. IsNearest(c, Round(c, 0), 0)
    BY RoundNearest, SMT
  <1> QED BY <1>1, <1>2, Zenon

\* What TaxExplained says of a line.
Explained(s, line, f, r) ==
    /\ r.amount \in Int /\ ExactTax(s, line, f) \in Int
    /\ Taxable(s, line, f) => r.rates = DueRows(s, line)
    /\ IsNearest(s.currency, r.amount, ExactTax(s, line, f))
    /\ r.export <=> Abroad(s)
    /\ r.review <=> ~Taxable(s, line, f) /\ ~Abroad(s) /\ line.category \in {"Standard", "Reduced"}

LEMMA ZeroIsInt == 0 \in Int
  OBVIOUS

LEMMA TaxedFields ==
    ASSUME NEW a, NEW x, NEW r, r = ResolvedTax(a, x, FALSE, FALSE)
    PROVE  r.amount = a /\ r.rates = x /\ ~r.review /\ ~r.export
  BY DEF ResolvedTax

LEMMA ExportFields ==
    ASSUME NEW a, NEW x, NEW r, r = ResolvedTax(a, x, FALSE, TRUE)
    PROVE  r.amount = a /\ r.rates = x /\ ~r.review /\ r.export
  BY DEF ResolvedTax

LEMMA ReviewFields ==
    ASSUME NEW a, NEW x, NEW r, r = ResolvedTax(a, x, TRUE, FALSE)
    PROVE  r.amount = a /\ r.rates = x /\ r.review /\ ~r.export
  BY DEF ResolvedTax

LEMMA ResolveExplained ==
    ASSUME NEW s \in Sales, s.buyer.country # "", NEW line \in Lines, NEW f \in FiguresSet, NEW r,
           r = ResolveTax(s.seller, s.buyer, line, s.currency, s.table, s.nexus, f, s.at)
    PROVE  Explained(s, line, f, r)
  <1> DEFINE scope == Classify(s.seller, s.buyer)
             rows == DueRows(s, line)
             zero == Round(s.currency, 0)
             tax == TaxAt(rows, line.base, s.currency, s.table)
             taxed == ResolvedTax(tax, rows, FALSE, FALSE)
             reviewed == ResolvedTax(zero, {}, TRUE, FALSE)
             crossed == Crossed(s, f)
             dear == line.category \in {"Standard", "Reduced"}
  <1>1. /\ s.seller \in Sellers /\ line.base \in Int /\ line.category \in Categories
    BY SaleFields DEF Lines
  <1>2. PickRates(s.seller, s.buyer, line.category, s.table, s.at) = rows
    BY PickedAreDue
  <1>3. zero = 0 /\ IsNearest(s.currency, 0, 0)
    BY RoundZero
  <1>4. tax \in Int /\ (Taxable(s, line, f) => ExactTax(s, line, f) \in Int /\ IsNearest(s.currency, tax, ExactTax(s, line, f)))
    <2>1. Taxable(s, line, f) => ExactTax(s, line, f) = line.base * SumOf(RatesOf(s, rows))
      BY DEF ExactTax, RatesOf
    <2> DEFINE b == line.base
               c == s.currency
               x == b * SumOf(RatesOf(s, rows))
    <2>2. b \in Int /\ tax = TaxAt(rows, b, c, s.table)
      BY <1>1
    <2> HIDE DEF b, c, rows, tax
    <2>3. tax \in Int /\ x \in Int /\ IsNearest(c, tax, x)
      BY <2>2, TaxAtNearest
    <2> QED BY <2>1, <2>3 DEF b, c
  <1>5. ~Taxable(s, line, f) => ExactTax(s, line, f) = 0
    BY DEF ExactTax
  <1>6. s.buyer.region # None =>
            LET state == NexusGet(s.nexus, s.buyer.region)
            IN  (state # None /\ HasNexus(s.nexus[state], f)) <=> crossed
    BY NexusIsCrossed
  <1>7. scope \in {"Export", "DomesticLocal", "DomesticOther"} /\ (scope = "Export" <=> Abroad(s))
    BY DEF Classify, Abroad
  <1>8. Taxable(s, line, f) <=> /\ dear /\ scope # "Export"
                                /\ \/ scope = "DomesticLocal" \/ s.seller # "US-DE"
                                   \/ s.buyer.region # None /\ crossed
    <2>1. s.seller = "US-DE" =>
            /\ scope = "DomesticLocal" => s.buyer.region # None /\ Upper[s.buyer.region] = "DE"
            /\ scope = "DomesticOther" => s.buyer.region = None \/ Upper[s.buyer.region] # "DE"
      <3>1. Region["US-DE"] = "DE"
        BY DEF Region, Sellers
      <3> QED BY <3>1 DEF Classify
    <2> HIDE DEF scope, crossed
    <2> QED BY <1>7, <2>1 DEF Taxable, crossed
  <1>9. r = IF ~dear THEN ResolvedTax(zero, rows, FALSE, scope = "Export")
            ELSE IF scope = "Export" THEN ResolvedTax(zero, {}, FALSE, TRUE)
            ELSE IF scope = "DomesticLocal" \/ s.seller # "US-DE" THEN taxed
            ELSE IF s.buyer.region # None /\ crossed THEN taxed ELSE reviewed
    <2>1. line.category \in {"ZeroRated", "Exempt"} <=> ~dear
      BY <1>1 DEF Categories
    <2> DEFINE state == NexusGet(s.nexus, s.buyer.region)
               open == state # None /\ HasNexus(s.nexus[state], f)
    <2>2. r = IF scope = "InvalidBuyerCountry" THEN [error |-> scope]
              ELSE IF line.category \in {"ZeroRated", "Exempt"}
              THEN ResolvedTax(zero, rows, FALSE, scope = "Export")
              ELSE IF scope = "Export" THEN ResolvedTax(zero, {}, FALSE, TRUE)
              ELSE IF scope = "DomesticLocal" \/ s.seller # "US-DE" THEN taxed
              ELSE IF s.buyer.region # None /\ open THEN taxed ELSE reviewed
      <3> DEFINE picked == PickRates(s.seller, s.buyer, line.category, s.table, s.at)
      <3>1. r = IF scope = "InvalidBuyerCountry" THEN [error |-> scope]
                ELSE IF line.category \in {"ZeroRated", "Exempt"}
                THEN ResolvedTax(zero, picked, FALSE, scope = "Export")
                ELSE IF scope = "Export" THEN ResolvedTax(zero, {}, FALSE, TRUE)
                ELSE IF scope = "DomesticLocal" \/ s.seller # "US-DE"
                THEN ResolvedTax(TaxAt(picked, line.base, s.currency, s.table), picked, FALSE, FALSE)
                ELSE IF s.buyer.region # None /\ open
                THEN ResolvedTax(TaxAt(picked, line.base, s.currency, s.table), picked, FALSE, FALSE)
                ELSE reviewed
        BY Zenon DEF ResolveTax
      <3> HIDE DEF picked, rows, open, scope, reviewed, zero
      <3>2. picked = rows
        BY <1>2 DEF picked
      <3> QED BY <3>1, <3>2, Zenon
    <2> HIDE DEF scope, zero, rows, taxed, reviewed, crossed, open
    <2>3. s.buyer.region # None => (open <=> crossed)
      BY <1>6 DEF open
    <2> QED BY <1>7, <2>1, <2>2, <2>3
  <1> HIDE DEF scope, rows, tax, zero, crossed
  <1>11. ASSUME ~Taxable(s, line, f), r.amount = 0
         PROVE  r.amount \in Int /\ ExactTax(s, line, f) \in Int /\ IsNearest(s.currency, r.amount, ExactTax(s, line, f))
    <2>1. ExactTax(s, line, f) = 0
      BY <1>5, <1>11
    <2>2. IsNearest(s.currency, r.amount, ExactTax(s, line, f))
      BY <1>3, <1>11, <2>1, Zenon
    <2>3. r.amount \in Int
      BY <1>11, ZeroIsInt, Zenon
    <2>4. ExactTax(s, line, f) \in Int
      BY <2>1, ZeroIsInt, Zenon
    <2> QED BY <2>2, <2>3, <2>4, Zenon
  <1>12. CASE ~dear
    <2>1. r = ResolvedTax(zero, rows, FALSE, scope = "Export")
      BY <1>9, <1>12
    <2>2. CASE scope = "Export"
      <3>1. r = ResolvedTax(zero, rows, FALSE, TRUE)
        BY <2>1, <2>2, Zenon
      <3>2. r.amount = zero /\ r.rates = rows /\ ~r.review /\ r.export
        BY <3>1, ExportFields, Zenon
      <3>3. r.amount = 0
        BY <1>3, <3>2
      <3> QED BY <1>7, <1>8, <1>11, <1>12, <2>2, <3>2, <3>3 DEF Explained
    <2>3. CASE scope # "Export"
      <3>1. r = ResolvedTax(zero, rows, FALSE, FALSE)
        BY <2>1, <2>3, Zenon
      <3>2. r.amount = zero /\ r.rates = rows /\ ~r.review /\ ~r.export
        BY <3>1, TaxedFields, Zenon
      <3>3. r.amount = 0
        BY <1>3, <3>2
      <3> QED BY <1>7, <1>8, <1>11, <1>12, <2>3, <3>2, <3>3 DEF Explained
    <2> QED BY <2>2, <2>3
  <1>13. CASE dear /\ scope = "Export"
    <2>1. r = ResolvedTax(zero, {}, FALSE, TRUE)
      BY <1>9, <1>13
    <2>2. r.amount = zero /\ r.rates = {} /\ ~r.review /\ r.export
      BY <2>1, ExportFields, Zenon
    <2>3. r.amount = 0
      BY <1>3, <2>2
    <2> QED BY <1>7, <1>8, <1>11, <1>13, <2>2, <2>3 DEF Explained
  <1>14. CASE dear /\ Taxable(s, line, f)
    <2>1. r = ResolvedTax(tax, rows, FALSE, FALSE)
      BY <1>8, <1>9, <1>14
    <2>2. r.amount = tax /\ r.rates = rows /\ ~r.review /\ ~r.export
      BY <2>1, TaxedFields, Zenon
    <2>3. IsNearest(s.currency, r.amount, ExactTax(s, line, f))
      BY <1>4, <1>14, <2>2, Zenon
    <2> QED BY <1>4, <1>7, <1>8, <1>14, <2>2, <2>3 DEF Explained, rows
  <1>15. CASE dear /\ scope # "Export" /\ ~Taxable(s, line, f)
    <2>1. r = ResolvedTax(zero, {}, TRUE, FALSE)
      BY <1>8, <1>9, <1>15
    <2>2. r.amount = zero /\ r.rates = {} /\ r.review /\ ~r.export
      BY <2>1, ReviewFields, Zenon
    <2>3. r.amount = 0
      BY <1>3, <2>2
    <2> QED BY <1>7, <1>11, <1>15, <2>2, <2>3 DEF Explained
  <1> QED BY <1>12, <1>13, <1>14, <1>15

LEMMA ElementOf == ASSUME NEW S, NEW q \in Seq(S), NEW i \in DOMAIN q PROVE q[i] \in S
  OBVIOUS

\* The tax of every line of every sale is explained by the tables: for any table
\* of rates, any thresholds, any codes and any amounts.
THEOREM TaxIsExplained == TaxSpec => []TaxExplained
  <1>1. ASSUME sale \in Sales PROVE TaxExplained
    <2> SUFFICES ASSUME sale.buyer.country # "", NEW n \in DOMAIN sale.lines
                 PROVE  LET line == sale.lines[n]
                            r == ResolveTax(sale.seller, sale.buyer, line, sale.currency, sale.table, sale.nexus,
                                            sale.figures, sale.at)
                        IN  /\ Taxable(sale, line, sale.figures) => r.rates = DueRows(sale, line)
                            /\ IsNearest(sale.currency, r.amount, ExactTax(sale, line, sale.figures))
                            /\ r.export <=> Abroad(sale)
                            /\ r.review <=> /\ ~Taxable(sale, line, sale.figures) /\ ~Abroad(sale)
                                            /\ line.category \in {"Standard", "Reduced"}
      BY Zenon DEF TaxExplained
    <2> DEFINE line == sale.lines[n]
               f == sale.figures
               r == ResolveTax(sale.seller, sale.buyer, line, sale.currency, sale.table, sale.nexus, f, sale.at)
    <2>1. line \in Lines /\ f \in FiguresSet
      <3>1. sale.lines \in Seq(Lines) /\ f \in FiguresSet
        BY <1>1, SaleFields
      <3> QED BY <3>1, ElementOf, Zenon
    <2> HIDE DEF line, f
    <2>2. Explained(sale, line, f, r)
      BY <1>1, <2>1, ResolveExplained
    <2> HIDE DEF r
    <2>3. /\ Taxable(sale, line, f) => r.rates = DueRows(sale, line)
          /\ IsNearest(sale.currency, r.amount, ExactTax(sale, line, f))
          /\ r.export <=> Abroad(sale)
          /\ r.review <=> ~Taxable(sale, line, f) /\ ~Abroad(sale) /\ line.category \in {"Standard", "Reduced"}
      BY <2>2 DEF Explained
    <2> QED BY <2>3, Zenon DEF r, line, f
  <1>2. sale \in Sales /\ [sale' \in Sales]_sale => (sale \in Sales)'
    OBVIOUS
  <1> QED BY <1>1, <1>2, PTL DEF TaxSpec
-----------------------------------------------------------------------------
(* The totals of an invoice *)

\* What is nearest is a multiple of the unit, and no more than half of one away.
LEMMA NearestBounds ==
    ASSUME NEW c, NEW n \in Int, NEW x \in Int, IsNearest(c, n, x)
    PROVE  n % Scale(c) = 0 /\ 2 * (n - x) \in -Scale(c)..Scale(c)
  <1> DEFINE u == Scale(c)
             d == IF n > x THEN n - x ELSE x - n
  <1>1. u \in Int
    BY ScaleIs, SMT
  <1>2. n % u = 0 /\ (2 * d < u \/ (2 * d = u /\ (n \div u) % 2 = 0))
    BY Zenon DEF IsNearest
  <1>3. 2 * d < u \/ 2 * d = u
    BY <1>2, Zenon
  <1> HIDE DEF u
  <1>4. 2 * (n - x) \in -u..u
    BY <1>1, <1>3
  <1> QED BY <1>2, <1>4, Zenon DEF u

\* Two amounts within half a unit are together within a unit.
LEMMA HalvesAdd ==
    ASSUME NEW u \in Int, NEW a \in Int, NEW x \in Int, NEW b \in Int, NEW y \in Int,
           2 * (a - x) \in -u..u, 2 * (b - y) \in -u..u
    PROVE  (a + b) - (x + y) \in -u..u
  OBVIOUS

LEMMA SumOfRounded ==
    ASSUME NEW c, NEW x \in Int, NEW y \in Int, x % Scale(c) = 0, y % Scale(c) = 0
    PROVE  Round(c, x + y) = x + y
  <1> DEFINE z == x + y
  <1>1. z \in Int
    OBVIOUS
  <1>2. z % Scale(c) = 0
    BY MultiplesAdd
  <1> HIDE DEF z
  <1>3. Round(c, z) = z
    BY <1>1, <1>2, RoundedStays
  <1> QED BY <1>3, Zenon DEF z

\* What issue_invoice makes of a line, with e its exact tax.
Priced(c, line, e, p) ==
    /\ p.subtotal \in Int /\ p.tax \in Int /\ p.total \in Int /\ e \in Int
    /\ p.subtotal = Subtotal(line, c)
    /\ p.subtotal % Scale(c) = 0 /\ p.tax % Scale(c) = 0
    /\ p.total = p.subtotal + p.tax
    /\ p.total - (RateUnit * line.base + e) \in -Scale(c)..Scale(c)

LEMMA LineAddsUp ==
    ASSUME NEW c, NEW x \in Int, NEW sub, sub = Round(c, x), NEW tax \in Int, NEW e \in Int, IsNearest(c, tax, e)
    PROVE  /\ sub \in Int /\ sub % Scale(c) = 0 /\ tax % Scale(c) = 0
           /\ Round(c, sub + tax) = sub + tax
           /\ (sub + tax) - (x + e) \in -Scale(c)..Scale(c)
  <1>1. sub \in Int /\ IsNearest(c, sub, x)
    BY RoundNearest
  <1>2. sub % Scale(c) = 0 /\ 2 * (sub - x) \in -Scale(c)..Scale(c)
    BY <1>1, NearestBounds
  <1>3. tax % Scale(c) = 0 /\ 2 * (tax - e) \in -Scale(c)..Scale(c)
    BY NearestBounds
  <1>4. Round(c, sub + tax) = sub + tax
    BY <1>1, <1>2, <1>3, SumOfRounded
  <1> DEFINE u == Scale(c)
  <1>5. u \in Int
    BY ScaleIs, SMT
  <1> HIDE DEF u
  <1>6. 2 * (sub - x) \in -u..u /\ 2 * (tax - e) \in -u..u
    BY <1>2, <1>3, Zenon DEF u
  <1>7. (sub + tax) - (x + e) \in -u..u
    BY <1>1, <1>5, <1>6, HalvesAdd
  <1> QED BY <1>1, <1>2, <1>3, <1>4, <1>7, Zenon DEF u

LEMMA PricedFields ==
    ASSUME NEW a, NEW b, NEW d, NEW p, p = [subtotal |-> a, tax |-> b, total |-> d]
    PROVE  p.subtotal = a /\ p.tax = b /\ p.total = d
  OBVIOUS

LEMMA BaseIsInt == ASSUME NEW line \in Lines PROVE RateUnit * line.base \in Int
  <1>1. line.base \in Int /\ RateUnit \in Int
    BY PrecisionAssumption DEF Lines
  <1> QED BY <1>1

LEMMA NoFiguresTyped == NoFigures \in FiguresSet
  BY DEF NoFigures, FiguresSet

LEMMA IntPlus == ASSUME NEW a \in Int, NEW b \in Int PROVE a + b \in Int
  OBVIOUS

LEMMA PricedMade ==
    ASSUME NEW c, NEW line \in Lines, NEW tax \in Int, NEW e \in Int, IsNearest(c, tax, e), NEW p,
           p = [subtotal |-> Subtotal(line, c), tax |-> tax, total |-> Round(c, Subtotal(line, c) + tax)]
    PROVE  Priced(c, line, e, p)
  <1> DEFINE x == RateUnit * line.base
             sub == Subtotal(line, c)
             tot == sub + tax
  <1>1. x \in Int
    BY BaseIsInt, Zenon
  <1>2. sub = Round(c, x)
    BY Zenon DEF Subtotal
  <1> HIDE DEF x, sub
  <1>3. /\ sub \in Int /\ sub % Scale(c) = 0 /\ tax % Scale(c) = 0
        /\ Round(c, sub + tax) = sub + tax
        /\ (sub + tax) - (x + e) \in -Scale(c)..Scale(c)
    BY <1>1, <1>2, LineAddsUp
  <1>4. p = [subtotal |-> sub, tax |-> tax, total |-> tot]
    BY <1>3, Zenon DEF sub
  <1>5. tot \in Int
    BY <1>3
  <1> HIDE DEF tot
  <1>6. p.subtotal = sub /\ p.tax = tax /\ p.total = tot
    BY <1>4, PricedFields
  <1>7. p.subtotal \in Int /\ p.tax \in Int /\ p.total \in Int
    BY <1>3, <1>5, <1>6, Zenon
  <1>8. p.subtotal = Subtotal(line, c) /\ p.total = p.subtotal + p.tax
    BY <1>6, Zenon DEF tot, sub
  <1>9. p.subtotal % Scale(c) = 0 /\ p.tax % Scale(c) = 0
    BY <1>3, <1>6, Zenon
  <1>10. p.total - (RateUnit * line.base + e) \in -Scale(c)..Scale(c)
    BY <1>3, <1>6, Zenon DEF x, tot
  <1> QED BY <1>7, <1>8, <1>9, <1>10, Zenon DEF Priced

LEMMA LinePriced ==
    ASSUME NEW s \in Sales, s.buyer.country # "", NEW line \in Lines, NEW p,
           p = IssueLine(s.seller, s.buyer, line, s.currency, s.table, s.nexus, s.at)
    PROVE  Priced(s.currency, line, ExactTax(s, line, NoFigures), p)
  <1> DEFINE c == s.currency
             f == NoFigures
             r == ResolveTax(s.seller, s.buyer, line, c, s.table, s.nexus, f, s.at)
             e == ExactTax(s, line, f)
             tax == r.amount
  <1>1. f \in FiguresSet
    BY NoFiguresTyped, Zenon
  <1>2. p = [subtotal |-> Subtotal(line, c), tax |-> tax, total |-> Round(c, Subtotal(line, c) + tax)]
    BY Zenon DEF IssueLine
  <1> HIDE DEF f
  <1>3. Explained(s, line, f, r)
    BY <1>1, ResolveExplained
  <1> HIDE DEF r
  <1>4. tax \in Int /\ e \in Int /\ IsNearest(c, tax, e)
    BY <1>3, Zenon DEF Explained
  <1> HIDE DEF e, tax, c
  <1>5. Priced(c, line, e, p)
    BY <1>2, <1>4, PricedMade, Zenon
  <1> QED BY <1>5, Zenon DEF c, e, f

\* Rounding once more changes nothing in sums of rounded amounts.
LEMMA SumRoundStays ==
    ASSUME NEW c, NEW s \in Seq(Int), \A i \in 1..Len(s) : s[i] % Scale(c) = 0
    PROVE  Round(c, SumOf(s)) = SumOf(s) /\ SumOf(s) \in Int /\ SumOf(s) % Scale(c) = 0
  <1> DEFINE x == SumOf(s)
  <1>1. x \in Int /\ x % Scale(c) = 0
    BY SumIsInt, SumOfMultiples
  <1> HIDE DEF x
  <1>2. Round(c, x) = x
    BY <1>1, RoundedStays
  <1> QED BY <1>1, <1>2 DEF x

LEMMA IntSeq ==
    ASSUME NEW n \in Nat, NEW F, F \in [1..n -> Int] PROVE F \in Seq(Int) /\ Len(F) = n
  OBVIOUS

LEMMA SeqFacts == ASSUME NEW S, NEW q \in Seq(S) PROVE Len(q) \in Nat /\ DOMAIN q = 1..Len(q)
  OBVIOUS

\* The columns of priced lines, and what stands at their foot.
Columns(c, A, B, T, E) ==
    /\ A \in Seq(Int) /\ B \in Seq(Int) /\ T \in Seq(Int) /\ E \in Seq(Int)
    /\ Len(B) = Len(A) /\ Len(T) = Len(A) /\ Len(E) = Len(T)
    /\ \A i \in 1..Len(A) : A[i] % Scale(c) = 0
    /\ \A i \in 1..Len(B) : B[i] % Scale(c) = 0
    /\ \A i \in 1..Len(A) : T[i] = A[i] + B[i]
    /\ \A i \in 1..Len(T) : T[i] - E[i] \in -Scale(c)..Scale(c)

Foot(c, A, B, T, E) ==
    /\ Round(c, SumOf(A)) = SumOf(A) /\ Round(c, SumOf(B)) = SumOf(B)
    /\ Round(c, SumOf(A) + SumOf(B)) = SumOf(A) + SumOf(B)
    /\ SumOf(T) = SumOf(A) + SumOf(B)
    /\ SumOf(T) - SumOf(E) \in -(Scale(c) * Len(T))..(Scale(c) * Len(T))

LEMMA FootAddsUp ==
    ASSUME NEW c, NEW A, NEW B, NEW T, NEW E, Columns(c, A, B, T, E) PROVE Foot(c, A, B, T, E)
  <1> SUFFICES ASSUME A \in Seq(Int), B \in Seq(Int), T \in Seq(Int), E \in Seq(Int),
                      Len(B) = Len(A), Len(T) = Len(A), Len(E) = Len(T),
                      \A i \in 1..Len(A) : A[i] % Scale(c) = 0, \A i \in 1..Len(B) : B[i] % Scale(c) = 0,
                      \A i \in 1..Len(A) : T[i] = A[i] + B[i],
                      \A i \in 1..Len(T) : T[i] - E[i] \in -Scale(c)..Scale(c)
               PROVE  Foot(c, A, B, T, E)
    BY Zenon DEF Columns
  <1>1. Round(c, SumOf(A)) = SumOf(A) /\ SumOf(A) \in Int /\ SumOf(A) % Scale(c) = 0
    BY SumRoundStays, Zenon
  <1>2. Round(c, SumOf(B)) = SumOf(B) /\ SumOf(B) \in Int /\ SumOf(B) % Scale(c) = 0
    BY SumRoundStays, Zenon
  <1>3. Round(c, SumOf(A) + SumOf(B)) = SumOf(A) + SumOf(B)
    BY <1>1, <1>2, SumOfRounded, Zenon
  <1>4. SumOf(T) = SumOf(A) + SumOf(B)
    BY SumOfTwo
  <1>5. SumOf(T) - SumOf(E) \in -(Scale(c) * Len(T))..(Scale(c) * Len(T))
    BY SumsClose, Zenon
  <1> QED BY <1>1, <1>2, <1>3, <1>4, <1>5, Zenon DEF Foot

AllPriced(c, lines, X, P) ==
    lines \in Seq(Lines) /\ \A i \in 1..Len(lines) : Priced(c, lines[i], X[i], P[i])

Subtotals(lines, P) == [i \in DOMAIN lines |-> P[i].subtotal]
Taxes(lines, P) == [i \in DOMAIN lines |-> P[i].tax]
LineTotals(lines, P) == [i \in DOMAIN lines |-> P[i].total]
Exact(lines, X) == [i \in DOMAIN lines |-> RateUnit * lines[i].base + X[i]]

LEMMA PricedSums ==
    ASSUME NEW c, NEW lines, NEW X, NEW P, AllPriced(c, lines, X, P)
    PROVE  /\ Foot(c, Subtotals(lines, P), Taxes(lines, P), LineTotals(lines, P), Exact(lines, X))
           /\ Len(LineTotals(lines, P)) = Len(lines)
           /\ DraftSubtotal(lines, c) = SumOf(Subtotals(lines, P))
  <1> SUFFICES ASSUME lines \in Seq(Lines), \A i \in 1..Len(lines) : Priced(c, lines[i], X[i], P[i])
               PROVE  /\ Foot(c, Subtotals(lines, P), Taxes(lines, P), LineTotals(lines, P), Exact(lines, X))
                      /\ Len(LineTotals(lines, P)) = Len(lines)
                      /\ DraftSubtotal(lines, c) = SumOf(Subtotals(lines, P))
    BY Zenon DEF AllPriced
  <1> DEFINE n == Len(lines)
             D == DOMAIN lines
             A == Subtotals(lines, P)
             B == Taxes(lines, P)
             T == LineTotals(lines, P)
             E == Exact(lines, X)
  <1>1. n \in Nat /\ D = 1..n
    BY SeqFacts, Zenon
  <1>2. \A i \in 1..n : /\ A[i] = P[i].subtotal /\ B[i] = P[i].tax /\ T[i] = P[i].total
                        /\ E[i] = RateUnit * lines[i].base + X[i]
    BY <1>1, Zenon DEF Subtotals, Taxes, LineTotals, Exact
  <1>3. A = [i \in D |-> A[i]] /\ B = [i \in D |-> B[i]] /\ T = [i \in D |-> T[i]] /\ E = [i \in D |-> E[i]]
    BY Zenon DEF Subtotals, Taxes, LineTotals, Exact
  <1>4. DraftSubtotal(lines, c) = Round(c, SumOf(A))
    <2>1. \A i \in D : Subtotal(lines[i], c) = P[i].subtotal
      BY <1>1, Zenon DEF Priced
    <2>2. [i \in D |-> Subtotal(lines[i], c)] = A
      BY <2>1, Zenon DEF Subtotals
    <2> QED BY <2>2, Zenon DEF DraftSubtotal
  <1> HIDE DEF A, B, T, E, D
  <1>5. ASSUME NEW i \in 1..n
        PROVE  /\ A[i] \in Int /\ B[i] \in Int /\ T[i] \in Int /\ E[i] \in Int
               /\ A[i] % Scale(c) = 0 /\ B[i] % Scale(c) = 0 /\ T[i] = A[i] + B[i]
               /\ T[i] - E[i] \in -Scale(c)..Scale(c)
    <2>1. Priced(c, lines[i], X[i], P[i])
      BY Zenon
    <2>2. lines[i] \in Lines
      BY <1>1, ElementOf, Zenon DEF D
    <2>3. RateUnit * lines[i].base \in Int
      BY <2>2, BaseIsInt, Zenon
    <2>4. X[i] \in Int
      BY <2>1, Zenon DEF Priced
    <2>5. E[i] \in Int
      BY <1>2, <2>3, <2>4, IntPlus, Zenon
    <2> QED BY <1>2, <2>1, <2>5, Zenon DEF Priced
  <1>6. A \in Seq(Int) /\ Len(A) = n
    <2>1. A \in [1..n -> Int]
      BY <1>1, <1>3, <1>5, Zenon
    <2> QED BY <1>1, <2>1, IntSeq
  <1>7. B \in Seq(Int) /\ Len(B) = n
    <2>1. B \in [1..n -> Int]
      BY <1>1, <1>3, <1>5, Zenon
    <2> QED BY <1>1, <2>1, IntSeq
  <1>8. T \in Seq(Int) /\ Len(T) = n
    <2>1. T \in [1..n -> Int]
      BY <1>1, <1>3, <1>5, Zenon
    <2> QED BY <1>1, <2>1, IntSeq
  <1>9. E \in Seq(Int) /\ Len(E) = n
    <2>1. E \in [1..n -> Int]
      BY <1>1, <1>3, <1>5, Zenon
    <2> QED BY <1>1, <2>1, IntSeq
  <1>10. /\ \A i \in 1..Len(A) : A[i] % Scale(c) = 0 /\ T[i] = A[i] + B[i]
         /\ \A i \in 1..Len(B) : B[i] % Scale(c) = 0
         /\ \A i \in 1..Len(T) : T[i] - E[i] \in -Scale(c)..Scale(c)
    BY <1>5, <1>6, <1>7, <1>8, Zenon
  <1>11. Len(B) = Len(A) /\ Len(T) = Len(A) /\ Len(E) = Len(T)
    BY <1>6, <1>7, <1>8, <1>9, Zenon
  <1>12. Columns(c, A, B, T, E)
    BY <1>6, <1>7, <1>8, <1>9, <1>10, <1>11, Zenon DEF Columns
  <1>13. Foot(c, A, B, T, E)
    BY <1>12, FootAddsUp, Zenon
  <1>14. DraftSubtotal(lines, c) = SumOf(A)
    BY <1>4, <1>13, Zenon DEF Foot
  <1> QED BY <1>8, <1>13, <1>14, Zenon DEF A, B, T, E

LEMMA TotalsFields ==
    ASSUME NEW p, NEW a, NEW b, NEW d, NEW t, t = [lines |-> p, subtotal |-> a, tax_total |-> b, total |-> d]
    PROVE  t.lines = p /\ t.subtotal = a /\ t.tax_total = b /\ t.total = d
  OBVIOUS

\* The totals of every issued invoice add up, for any number of lines, amounts
\* and rates: no minor unit is lost between the lines and the foot.
THEOREM TotalsAreExact == TaxSpec => []TotalsAddUp
  <1>1. ASSUME sale \in Sales PROVE TotalsAddUp
    <2> SUFFICES ASSUME sale.buyer.country # ""
                 PROVE  LET t == IssueTotals(sale.seller, sale.buyer, sale.lines, sale.currency, sale.table,
                                             sale.nexus, sale.at)
                            exact == SumOf([n \in DOMAIN sale.lines |->
                                              RateUnit * sale.lines[n].base + ExactTax(sale, sale.lines[n], NoFigures)])
                            slack == Scale(sale.currency) * Len(sale.lines)
                        IN  /\ t.total = SumOf([n \in DOMAIN sale.lines |-> t.lines[n].total])
                            /\ t.total = t.subtotal + t.tax_total
                            /\ t.subtotal = DraftSubtotal(sale.lines, sale.currency)
                            /\ t.total - exact \in -slack .. slack
      BY Zenon DEF TotalsAddUp
    <2> DEFINE c == sale.currency
               lines == sale.lines
               D == DOMAIN lines
               P == [i \in D |-> IssueLine(sale.seller, sale.buyer, lines[i], c, sale.table, sale.nexus, sale.at)]
               X == [i \in D |-> ExactTax(sale, lines[i], NoFigures)]
               A == Subtotals(lines, P)
               B == Taxes(lines, P)
               T == LineTotals(lines, P)
               E == Exact(lines, X)
               a == SumOf(A)
               b == SumOf(B)
               t == IssueTotals(sale.seller, sale.buyer, lines, c, sale.table, sale.nexus, sale.at)
    <2>1. lines \in Seq(Lines)
      BY <1>1, SaleFields, Zenon
    <2>2. D = 1..Len(lines)
      BY <2>1, SeqFacts, Zenon
    <2>3. ASSUME NEW i \in D PROVE Priced(c, lines[i], X[i], P[i])
      <3> DEFINE line == lines[i]
                 p == P[i]
      <3>1. line \in Lines
        BY <2>1, ElementOf, Zenon
      <3>2. p = IssueLine(sale.seller, sale.buyer, line, c, sale.table, sale.nexus, sale.at)
        BY Zenon
      <3>3. X[i] = ExactTax(sale, line, NoFigures)
        BY Zenon
      <3> HIDE DEF line, p
      <3>4. Priced(c, line, ExactTax(sale, line, NoFigures), p)
        BY <1>1, <3>1, <3>2, LinePriced, Zenon
      <3> QED BY <3>3, <3>4, Zenon DEF line, p
    <2>4. t = [lines |-> P, subtotal |-> Round(c, a), tax_total |-> Round(c, b),
               total |-> Round(c, Round(c, a) + Round(c, b))]
      BY Zenon DEF IssueTotals, Subtotals, Taxes
    <2>5. E = [n \in DOMAIN lines |-> RateUnit * lines[n].base + ExactTax(sale, lines[n], NoFigures)]
      BY Zenon DEF Exact
    <2> HIDE DEF P, X, t
    <2>6. AllPriced(c, lines, X, P)
      BY <2>1, <2>2, <2>3, Zenon DEF AllPriced
    <2> HIDE DEF lines, c
    <2>7. /\ Round(c, a) = a /\ Round(c, b) = b /\ Round(c, a + b) = a + b /\ SumOf(T) = a + b
          /\ SumOf(T) - SumOf(E) \in -(Scale(c) * Len(lines))..(Scale(c) * Len(lines))
          /\ DraftSubtotal(lines, c) = a
      <3>1. Foot(c, A, B, T, E) /\ Len(T) = Len(lines) /\ DraftSubtotal(lines, c) = a
        BY <2>6, PricedSums, Zenon
      <3> QED BY <3>1, Zenon DEF Foot
    <2> HIDE DEF A, B, T, E, a, b
    <2> DEFINE d == a + b
    <2>8. t = [lines |-> P, subtotal |-> a, tax_total |-> b, total |-> d]
      BY <2>4, <2>7, Zenon
    <2> HIDE DEF d
    <2>9. t.lines = P /\ t.subtotal = a /\ t.tax_total = b /\ t.total = d
      BY <2>8, TotalsFields, Zenon
    <2>10. t.total = SumOf(T) /\ t.total = t.subtotal + t.tax_total
      BY <2>7, <2>9, Zenon DEF d
    <2>11. t.total = SumOf([k \in DOMAIN lines |-> t.lines[k].total])
      BY <2>9, <2>10, Zenon DEF T, LineTotals
    <2>12. t.subtotal = DraftSubtotal(lines, c)
      BY <2>7, <2>9, Zenon
    <2>13. t.total - SumOf(E) \in -(Scale(c) * Len(lines))..(Scale(c) * Len(lines))
      BY <2>7, <2>10, Zenon
    <2> QED BY <2>5, <2>10, <2>11, <2>12, <2>13, Zenon DEF t, lines, c
  <1>2. sale \in Sales /\ [sale' \in Sales]_sale => (sale \in Sales)'
    OBVIOUS
  <1> QED BY <1>1, <1>2, PTL DEF TaxSpec
=============================================================================
