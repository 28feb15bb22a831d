------------------------ MODULE ScheduleTickerProofs ------------------------
(***************************************************************************)
(* Schedules, for any number of schedules, ticks, requests and days, and   *)
(* any cadence that moves forward: one invoice per cycle, none skipped,    *)
(* none early or late.  The invariant speaks of every row anybody holds,   *)
(* stored or in a snapshot: a stale row may be written back at any time, so*)
(* it has to be as sound as the one it replaces.                           *)
(***************************************************************************)
EXTENDS ScheduleTicker, FiniteSetTheorems, SequenceTheorems, TLAPS

USE DEF vars

Inv == TypeOK /\ RowsSound /\ OneInvoicePerRun /\ BilledWhenDue

(* The cycle *)

\* A set that has the start and that Advance does not leave has the cycle.
LEMMA CycleInduction ==
    ASSUME NEW s \in Schedules, NEW S \in SUBSET Days, StartDate[s] \in S,
           \A e \in S : Advance[e] \in Days => Advance[e] \in S
    PROVE  CycleDates(s) \subseteq S
  BY DEF CycleDates

LEMMA CycleClosed ==
    ASSUME NEW s \in Schedules
    PROVE  /\ CycleDates(s) \subseteq Days /\ StartDate[s] \in CycleDates(s)
           /\ \A e \in CycleDates(s) : Advance[e] \in Days => Advance[e] \in CycleDates(s)
  BY ScheduleAssumption DEF CycleDates

LEMMA DayFacts ==
    /\ MaxDay \in Nat /\ \A d \in Days : d \in Nat /\ Advance[d] \in Nat /\ d < Advance[d]
    /\ \A s \in Schedules : StartDate[s] \in Days
  BY ScheduleAssumption DEF Days

LEMMA CycleFromStart ==
    ASSUME NEW s \in Schedules, NEW d \in CycleDates(s) PROVE StartDate[s] <= d
  <1> DEFINE First == {e \in CycleDates(s) : StartDate[s] <= e}
  <1>1. First \in SUBSET Days /\ StartDate[s] \in First
    BY CycleClosed, DayFacts
  <1>2. ASSUME NEW e \in First, Advance[e] \in Days PROVE Advance[e] \in First
    <2>1. Advance[e] \in CycleDates(s) /\ e \in Days
      BY <1>2, CycleClosed
    <2>2. e \in Nat /\ Advance[e] \in Nat /\ e < Advance[e] /\ StartDate[s] \in Nat /\ StartDate[s] <= e
      BY <2>1, DayFacts
    <2> QED BY <2>1, <2>2
  <1>3. CycleDates(s) \subseteq First
    BY <1>1, <1>2, CycleInduction
  <1> QED BY <1>3

\* No date of the cycle lies between a date of the cycle and its successor.
LEMMA CycleHasNoGap ==
    ASSUME NEW s \in Schedules, NEW c \in CycleDates(s), NEW d \in CycleDates(s),
           d < Advance[c]
    PROVE  d <= c
  <1> DEFINE C == CycleDates(s)
             Clear(x) == \A e \in C : e < x => Advance[e] <= x
             E == {x \in C : Clear(x)}
             Beside(x) == {e \in C : e <= x \/ Advance[x] <= e}
  <1>1. /\ C \subseteq Days /\ StartDate[s] \in C
        /\ \A e \in C : e \in Nat /\ Advance[e] \in Nat /\ e < Advance[e]
        /\ \A e \in C : Advance[e] \in Days => Advance[e] \in C
        /\ StartDate[s] \in Nat
    BY CycleClosed, DayFacts
  <1>2. \A e \in C : StartDate[s] <= e
    BY CycleFromStart
  <1>3. ASSUME NEW x \in E PROVE C \subseteq Beside(x)
    <2>1. Beside(x) \in SUBSET Days
      BY <1>1
    <2>2. StartDate[s] \in Beside(x)
      BY <1>1, <1>2
    <2>3. ASSUME NEW e \in Beside(x), Advance[e] \in Days PROVE Advance[e] \in Beside(x)
      <3>1. Advance[e] \in C /\ x \in C /\ e \in C
        BY <1>1, <2>3
      <3>2. CASE e < x
        BY <3>1, <3>2
      <3>3. CASE e = x
        BY <1>1, <3>1, <3>3
      <3>4. CASE e > x
        BY <1>1, <3>1, <3>4, <2>3
      <3> QED BY <1>1, <3>1, <3>2, <3>3, <3>4
    <2> QED BY <2>1, <2>2, <2>3, CycleInduction
  <1>4. C \subseteq E
    <2>1. E \in SUBSET Days
      BY <1>1
    <2>2. StartDate[s] \in E
      BY <1>1, <1>2
    <2>3. ASSUME NEW x \in E, Advance[x] \in Days PROVE Advance[x] \in E
      <3>1. Advance[x] \in C
        BY <1>1, <2>3
      <3>2. ASSUME NEW e \in C, e < Advance[x] PROVE Advance[e] <= Advance[x]
        <4>1. e <= x
          BY <1>1, <1>3, <3>2
        <4>2. e < x => Advance[e] <= x
          BY <2>3
        <4> QED BY <1>1, <4>1, <4>2
      <3> QED BY <3>1, <3>2
    <2> QED BY <2>1, <2>2, <2>3, CycleInduction
  <1> QED BY <1>1, <1>3, <1>4

(* What a step may do to the invoices *)

\* Invoices are only added and issued, and time does not go back.
Grown ==
    /\ \A i \in DOMAIN invoices :
          /\ i \in DOMAIN invoices'
          /\ invoices'[i].sched = invoices[i].sched /\ invoices'[i].run = invoices[i].run
          /\ invoices[i].state = "Issued" => invoices'[i].state = "Issued"
    /\ today <= today'

LEMMA RunsKept == ASSUME Grown PROVE BilledRuns \subseteq BilledRuns'
  BY DEF Grown, BilledRuns

LEMMA TickFacts ==
    ASSUME Inv, NEW t \in Tickers
    PROVE  /\ ticker[t] \in TickVal /\ Len(ticker[t].due) \in Nat
           /\ \A i \in 1..Len(ticker[t].due) : ticker[t].due[i] \in Snapshot
           /\ ticker[t].pc # "idle" =>
                 /\ 1 \in 1..Len(ticker[t].due) /\ Current(t) = ticker[t].due[1]
                 /\ Current(t) \in Snapshot
                 /\ ticker[t].due # <<>>
  <1>1. ticker[t] \in TickVal
    BY DEF Inv, RowsSound
  <1>2. ticker[t].due \in Seq(Snapshot)
    BY <1>1 DEF TickVal
  <1>3. ticker[t].pc # "idle" => ticker[t].due # <<>>
    BY DEF Inv, TypeOK, TickOK
  <1> HIDE DEF Snapshot
  <1> QED BY <1>1, <1>2, <1>3 DEF Current

\* A tick that does not move stays sound.
LEMMA TickKept ==
    ASSUME Inv, Grown, today' \in Days, NEW t \in Tickers, ticker'[t] = ticker[t]
    PROVE  TickSound(t)' /\ TickOK(t)'
  <1>1. TickSound(t) /\ TickOK(t) /\ today \in Days
    BY DEF Inv, RowsSound, TypeOK
  <1>2. TickOK(t)'
    BY <1>1 DEF TickOK, Grown
  <1>3. ASSUME NEW i \in 1..Len(ticker[t].due)
        PROVE  /\ ticker[t].due[i].row.state = "active"
               /\ ticker[t].due[i].row.nextRun <= today'
               /\ RowSound(ticker[t].due[i].sched, ticker[t].due[i].row)'
    <2>1. ticker[t].due[i].row.nextRun \in Nat
      BY TickFacts DEF Snapshot, Sched
    <2>2. ticker[t].due[i].row.nextRun <= today'
      BY <1>1, <2>1, DayFacts DEF TickSound, Grown
    <2>3. RowSound(ticker[t].due[i].sched, ticker[t].due[i].row)
      BY <1>1 DEF TickSound
    <2>4. RowSound(ticker[t].due[i].sched, ticker[t].due[i].row)'
      BY <2>3, RunsKept DEF RowSound
    <2> QED BY <1>1, <2>2, <2>4 DEF TickSound
  <1>4. TickSound(t)'
    BY <1>1, <1>3 DEF TickSound, Grown, RowSound
  <1> QED BY <1>2, <1>4

LEMMA RequestKept ==
    ASSUME Inv, Grown, NEW q \in Requests, request'[q] = request[q] PROVE RequestSound(q)'
  <1>1. RequestSound(q)
    BY DEF Inv, RowsSound
  <1> QED BY <1>1, RunsKept DEF RequestSound, RowSound

LEMMA TableKept ==
    ASSUME Inv, Grown, NEW s \in Schedules, sched'[s] = sched[s] PROVE RowSound(s, sched[s])'
  <1>1. RowSound(s, sched[s])
    BY DEF Inv, RowsSound
  <1> QED BY <1>1, RunsKept DEF RowSound

LEMMA InvoiceFacts ==
    ASSUME Inv
    PROVE  /\ invoices \in Seq(Invoice) /\ Len(invoices) \in Nat
           /\ DOMAIN invoices = 1..Len(invoices)
           /\ \A i \in DOMAIN invoices : invoices[i] \in Invoice /\ invoices[i].run \in Nat
  <1>1. invoices \in Seq(Invoice)
    BY DEF Inv, TypeOK
  <1>2. \A i \in DOMAIN invoices : invoices[i] \in Invoice
    BY <1>1
  <1> QED BY <1>1, <1>2 DEF Invoice

\* The invoices stay fine when they do not change.
LEMMA InvoicesKept ==
    ASSUME Inv, invoices' = invoices, today' \in Days, today <= today'
    PROVE  OneInvoicePerRun' /\ BilledWhenDue' /\ Grown
  <1>1. \A i \in DOMAIN invoices : invoices[i].run \in Nat
    BY InvoiceFacts
  <1>2. today \in Nat /\ today' \in Nat
    BY DayFacts DEF Inv, TypeOK
  <1>3. OneInvoicePerRun'
    BY DEF Inv, OneInvoicePerRun
  <1>4. BilledWhenDue'
    BY <1>1, <1>2 DEF Inv, BilledWhenDue
  <1> QED BY <1>3, <1>4 DEF Grown

(* Steps that move no tick *)

LEMMA InvInit == Init => Inv
  <1> SUFFICES ASSUME Init PROVE Inv
    OBVIOUS
  <1>1. NoTick \in TickVal /\ NoTick.due = <<>> /\ NoTick.pc = "idle"
    BY DEF NoTick, TickVal
  <1>2. \A t \in Tickers : ticker[t] = NoTick
    BY DEF Init
  <1>3. NoReq \in [pc : {"idle", "save"}, sched : Schedules, row : Sched] /\ NoReq.pc = "idle"
    <2>1. (CHOOSE s \in Schedules : TRUE) \in Schedules
      BY ScheduleAssumption
    <2>2. NoSched \in Sched
      BY DEF NoSched, Sched
    <2> QED BY <2>1, <2>2 DEF NoReq
  <1>4. \A t \in Tickers : TickOK(t) /\ TickSound(t)
    BY <1>1, <1>2 DEF TickOK, TickSound
  <1>5. TypeOK
    BY <1>3, <1>4, ScheduleAssumption DEF Init, TypeOK, Days, NoSched, Sched
  <1>6. ASSUME NEW s \in Schedules PROVE RowSound(s, sched[s])
    <2>1. sched[s] = NoSched
      BY DEF Init
    <2>2. \A d \in CycleDates(s) : ~(d < 0)
      BY CycleClosed, DayFacts
    <2> QED BY <2>1, <2>2 DEF RowSound, NoSched
  <1>7. RowsSound
    <2>1. ticker \in [Tickers -> TickVal]
      BY <1>1 DEF Init
    <2>2. \A q \in Requests : RequestSound(q)
      BY <1>3 DEF Init, RequestSound
    <2> QED BY <1>4, <1>6, <2>1, <2>2 DEF RowsSound
  <1> QED BY <1>5, <1>7 DEF Init, Inv, OneInvoicePerRun, BilledWhenDue

\* A step that leaves the ticks and the invoices alone.
LEMMA RowsMove ==
    ASSUME Inv, UNCHANGED <<ticker, invoices, failures>>, today' \in Days, today <= today',
           sched' \in [Schedules -> Sched],
           request' \in [Requests -> [pc : {"idle", "save"}, sched : Schedules, row : Sched]],
           \A s \in Schedules : RowSound(s, sched[s])',
           \A q \in Requests : RequestSound(q)'
    PROVE  Inv'
  <1>1. OneInvoicePerRun' /\ BilledWhenDue' /\ Grown
    BY InvoicesKept
  <1>2. \A t \in Tickers : TickSound(t)' /\ TickOK(t)'
    BY <1>1, TickKept
  <1>3. TypeOK'
    BY <1>2 DEF Inv, TypeOK
  <1>4. RowsSound'
    BY <1>2 DEF Inv, RowsSound
  <1> QED BY <1>1, <1>3, <1>4 DEF Inv

LEMMA TodayFacts == ASSUME Inv PROVE today \in Days /\ today \in Nat /\ today <= today
  BY DayFacts DEF Inv, TypeOK

LEMMA NextDayInv == ASSUME Inv, NextDay PROVE Inv'
  <1>1. today' \in Days /\ today <= today'
    BY TodayFacts, DayFacts DEF NextDay, Days
  <1>2. UNCHANGED <<sched, invoices, ticker, request, failures>>
    BY DEF NextDay
  <1>3. Grown
    BY <1>1, <1>2, InvoicesKept
  <1>4. \A s \in Schedules : RowSound(s, sched[s])'
    BY <1>2, <1>3, TableKept
  <1>5. \A q \in Requests : RequestSound(q)'
    BY <1>2, <1>3, RequestKept
  <1>6. /\ sched' \in [Schedules -> Sched]
        /\ request' \in [Requests -> [pc : {"idle", "save"}, sched : Schedules, row : Sched]]
    BY <1>2 DEF Inv, TypeOK
  <1> QED BY <1>1, <1>2, <1>4, <1>5, <1>6, RowsMove

LEMMA CreateInv == ASSUME Inv, NEW s \in Schedules, Create(s) PROVE Inv'
  <1> DEFINE new == [state |-> "active", nextRun |-> StartDate[s], lastRun |-> 0]
  <1>1. UNCHANGED <<today, invoices, ticker, request, failures>> /\ sched' = [sched EXCEPT ![s] = new]
    BY DEF Create
  <1>2. today' \in Days /\ today <= today'
    BY <1>1, TodayFacts
  <1>3. Grown
    BY <1>1, <1>2, InvoicesKept
  <1>4. StartDate[s] \in Nat /\ StartDate[s] \in CycleDates(s)
        /\ \A d \in CycleDates(s) : d \in Nat /\ ~(d < StartDate[s])
    BY DayFacts, CycleClosed, CycleFromStart
  <1>5. new \in Sched
    BY <1>4 DEF Sched
  <1>6. RowSound(s, new)'
    BY <1>4, ScheduleAssumption DEF RowSound
  <1>7. sched' \in [Schedules -> Sched] /\ sched'[s] = new
        /\ \A x \in Schedules \ {s} : sched'[x] = sched[x]
    BY <1>1, <1>5 DEF Inv, TypeOK
  <1>8. ASSUME NEW x \in Schedules PROVE RowSound(x, sched[x])'
    <2>1. CASE x = s
      BY <1>6, <1>7, <2>1 DEF RowSound
    <2>2. CASE x # s
      BY <1>3, <1>7, <2>2, TableKept
    <2> QED BY <2>1, <2>2
  <1>9. \A q \in Requests : RequestSound(q)'
    BY <1>1, <1>3, RequestKept
  <1>10. request' \in [Requests -> [pc : {"idle", "save"}, sched : Schedules, row : Sched]]
    BY <1>1 DEF Inv, TypeOK
  <1> QED BY <1>1, <1>2, <1>7, <1>8, <1>9, <1>10, RowsMove

LEMMA ChangeLoadInv ==
    ASSUME Inv, NEW q \in Requests, NEW s \in Schedules, NEW to \in {"paused", "cancelled"},
           ChangeLoad(q, s, to)
    PROVE  Inv'
  <1> DEFINE row == [sched[s] EXCEPT !.state = to]
  <1>1. /\ UNCHANGED <<today, sched, invoices, ticker, failures>> /\ sched[s].state # "absent"
        /\ request' = [request EXCEPT ![q] = [pc |-> "save", sched |-> s, row |-> row]]
    BY DEF ChangeLoad
  <1>2. today' \in Days /\ today <= today'
    BY <1>1, TodayFacts
  <1>3. Grown
    BY <1>1, <1>2, InvoicesKept
  <1>4. sched[s] \in Sched /\ sched' \in [Schedules -> Sched] /\ RowSound(s, sched[s])
    BY <1>1 DEF Inv, TypeOK, RowsSound
  <1>5. row \in Sched /\ row.state = to /\ row.nextRun = sched[s].nextRun
    BY <1>4 DEF Sched
  <1> HIDE DEF row
  <1>6. RowSound(s, row)
    BY <1>1, <1>4, <1>5 DEF RowSound
  <1>7. /\ request' \in [Requests -> [pc : {"idle", "save"}, sched : Schedules, row : Sched]]
        /\ request'[q] = [pc |-> "save", sched |-> s, row |-> row]
        /\ \A p \in Requests \ {q} : request'[p] = request[p]
    BY <1>1, <1>5 DEF Inv, TypeOK
  <1>8. ASSUME NEW p \in Requests PROVE RequestSound(p)'
    <2>1. CASE p = q
      BY <1>3, <1>5, <1>6, <1>7, <2>1, RunsKept DEF RequestSound, RowSound
    <2>2. CASE p # q
      BY <1>3, <1>7, <2>2, RequestKept
    <2> QED BY <2>1, <2>2
  <1>9. \A x \in Schedules : RowSound(x, sched[x])'
    BY <1>1, <1>3, TableKept
  <1> QED BY <1>1, <1>2, <1>4, <1>7, <1>8, <1>9, RowsMove

LEMMA ChangeSaveInv == ASSUME Inv, NEW q \in Requests, ChangeSave(q) PROVE Inv'
  <1> DEFINE s == request[q].sched
             row == request[q].row
  <1>1. /\ UNCHANGED <<today, invoices, ticker, failures>> /\ request[q].pc = "save"
        /\ sched' = [sched EXCEPT ![s] = row] /\ request' = [request EXCEPT ![q] = NoReq]
    BY DEF ChangeSave
  <1>2. today' \in Days /\ today <= today'
    BY <1>1, TodayFacts
  <1>3. Grown
    BY <1>1, <1>2, InvoicesKept
  <1>4. s \in Schedules /\ row \in Sched /\ RowSound(s, row)
    BY <1>1 DEF Inv, TypeOK, RowsSound, RequestSound
  <1>5. NoReq \in [pc : {"idle", "save"}, sched : Schedules, row : Sched] /\ NoReq.pc = "idle"
    BY ScheduleAssumption DEF NoReq, NoSched, Sched
  <1>6. /\ request' \in [Requests -> [pc : {"idle", "save"}, sched : Schedules, row : Sched]]
        /\ request'[q] = NoReq /\ \A p \in Requests \ {q} : request'[p] = request[p]
    BY <1>1, <1>5 DEF Inv, TypeOK
  <1> HIDE DEF s, row
  <1>7. sched' \in [Schedules -> Sched] /\ sched'[s] = row
        /\ \A x \in Schedules \ {s} : sched'[x] = sched[x]
    BY <1>1, <1>4 DEF Inv, TypeOK
  <1>8. ASSUME NEW x \in Schedules PROVE RowSound(x, sched[x])'
    <2>1. CASE x = s
      BY <1>3, <1>4, <1>7, <2>1, RunsKept DEF RowSound
    <2>2. CASE x # s
      BY <1>3, <1>7, <2>2, TableKept
    <2> QED BY <2>1, <2>2
  <1>9. ASSUME NEW p \in Requests PROVE RequestSound(p)'
    <2>1. CASE p = q
      BY <1>5, <1>6, <2>1 DEF RequestSound
    <2>2. CASE p # q
      BY <1>3, <1>6, <2>2, RequestKept
    <2> QED BY <2>1, <2>2
  <1> QED BY <1>1, <1>2, <1>6, <1>7, <1>8, <1>9, RowsMove

(* Steps of a tick *)

\* A step of tick t that leaves the tables of schedules and requests alone.
LEMMA TickMoves ==
    ASSUME Inv, NEW t \in Tickers, UNCHANGED <<today, sched, request>>,
           failures' \in 0..MaxFailures, invoices' \in Seq(Invoice), Grown,
           OneInvoicePerRun', BilledWhenDue',
           ticker' \in [Tickers -> TickVal],
           \A u \in Tickers \ {t} : ticker'[u] = ticker[u],
           TickOK(t)', TickSound(t)'
    PROVE  Inv'
  <1>1. today' \in Days
    BY TodayFacts
  <1>2. ASSUME NEW u \in Tickers PROVE TickSound(u)' /\ TickOK(u)'
    BY <1>1, TickKept
  <1>3. TypeOK'
    BY <1>1, <1>2 DEF Inv, TypeOK
  <1>4. RowsSound'
    BY <1>2, TableKept, RequestKept DEF RowsSound
  <1> QED BY <1>3, <1>4 DEF Inv

\* The tick ends, whatever the reason.
LEMMA TickEnds ==
    ASSUME Inv, NEW t \in Tickers, ticker' = [ticker EXCEPT ![t] = NoTick],
           UNCHANGED <<today, sched, invoices, request>>, failures' \in 0..MaxFailures
    PROVE  Inv'
  <1>1. NoTick \in TickVal /\ NoTick.due = <<>> /\ NoTick.pc = "idle"
    BY DEF NoTick, TickVal
  <1>2. ticker' \in [Tickers -> TickVal] /\ ticker'[t] = NoTick
        /\ \A u \in Tickers \ {t} : ticker'[u] = ticker[u]
    BY <1>1 DEF Inv, RowsSound
  <1>3. TickOK(t)' /\ TickSound(t)'
    BY <1>1, <1>2 DEF TickOK, TickSound
  <1>4. OneInvoicePerRun' /\ BilledWhenDue' /\ Grown
    BY InvoicesKept, TodayFacts
  <1>5. invoices' \in Seq(Invoice)
    BY InvoiceFacts
  <1> QED BY <1>2, <1>3, <1>4, <1>5, TickMoves

\* Tick t goes to pc with inv and the same snapshots.
Moved(t, pc, inv) ==
    /\ ticker' \in [Tickers -> TickVal] /\ \A u \in Tickers \ {t} : ticker'[u] = ticker[u]
    /\ ticker'[t].pc = pc /\ ticker'[t].inv = inv /\ ticker'[t].due = ticker[t].due

LEMMA MovedBy ==
    ASSUME Inv, NEW t \in Tickers, NEW pc \in {"insert", "load", "issue", "save"}, NEW inv \in Nat
    PROVE  /\ ticker' = [ticker EXCEPT ![t].pc = pc] => Moved(t, pc, ticker[t].inv)
           /\ ticker' = [ticker EXCEPT ![t].pc = pc, ![t].inv = inv] => Moved(t, pc, inv)
           /\ ticker[t].inv \in Nat
  <1>1. ticker \in [Tickers -> TickVal]
    BY DEF Inv, RowsSound
  <1>2. ticker[t] \in TickVal /\ ticker[t].inv \in Nat
    BY <1>1 DEF TickVal
  <1>3. ASSUME ticker' = [ticker EXCEPT ![t].pc = pc] PROVE Moved(t, pc, ticker[t].inv)
    <2>1. [ticker[t] EXCEPT !.pc = pc] \in TickVal
      BY <1>2 DEF TickVal
    <2>2. ticker' \in [Tickers -> TickVal]
      BY <1>1, <1>3, <2>1
    <2> QED BY <1>1, <1>2, <1>3, <2>2 DEF Moved, TickVal
  <1>4. ASSUME ticker' = [ticker EXCEPT ![t].pc = pc, ![t].inv = inv] PROVE Moved(t, pc, inv)
    <2>1. [ticker[t] EXCEPT !.pc = pc, !.inv = inv] \in TickVal
      BY <1>2 DEF TickVal
    <2>2. ticker'[t] = [ticker[t] EXCEPT !.pc = pc, !.inv = inv]
      BY <1>1, <1>2, <1>4 DEF TickVal
    <2>3. DOMAIN ticker' = Tickers /\ \A u \in Tickers \ {t} : ticker'[u] = ticker[u]
      BY <1>1, <1>4
    <2>4. ticker' \in [Tickers -> TickVal]
      <3>1. \A u \in Tickers : ticker'[u] \in TickVal
        BY <1>1, <2>1, <2>2, <2>3
      <3>2. ticker' = [u \in Tickers |-> ticker'[u]]
        BY <1>1, <1>4
      <3> QED BY <3>1, <3>2
    <2>5. ticker'[t].pc = pc /\ ticker'[t].inv = inv /\ ticker'[t].due = ticker[t].due
      BY <1>2, <2>2 DEF TickVal
    <2> QED BY <2>3, <2>4, <2>5 DEF Moved
  <1> QED BY <1>2, <1>3, <1>4

\* A tick moves on within its current snapshot: the clauses of TickSound about
\* the snapshots carry over.
LEMMA TickGoesOn ==
    ASSUME Inv, NEW t \in Tickers, ticker[t].pc # "idle", NEW pc, NEW inv \in Nat,
           pc \in {"insert", "load", "issue", "save"},
           Moved(t, pc, inv),
           UNCHANGED <<today, sched, request, failures>>, Grown, invoices' \in Seq(Invoice),
           OneInvoicePerRun', BilledWhenDue',
           pc # "insert" =>
               /\ inv \in DOMAIN invoices'
               /\ invoices'[inv].sched = Current(t).sched
               /\ invoices'[inv].run = Current(t).row.nextRun,
           pc = "save" /\ Current(t).sched \in AutoIssue => invoices'[inv].state = "Issued"
    PROVE  Inv'
  <1>3. Current(t) = ticker[t].due[1] /\ ticker[t].due # <<>>
    BY TickFacts
  <1>4. TickOK(t) /\ TickSound(t)
    BY DEF Inv, TypeOK, RowsSound
  <1>5. TickOK(t)'
    BY <1>3, <1>4 DEF TickOK, Moved
  <1>6. ASSUME NEW i \in 1..Len(ticker[t].due)
        PROVE  /\ ticker[t].due[i].row.state = "active"
               /\ ticker[t].due[i].row.nextRun <= today'
               /\ RowSound(ticker[t].due[i].sched, ticker[t].due[i].row)
    BY <1>4 DEF TickSound
  <1>7. TickSound(t)'
    BY <1>3, <1>6, RunsKept DEF TickSound, RowSound, Moved
  <1>8. failures' \in 0..MaxFailures
    BY DEF Inv, TypeOK
  <1> QED BY <1>5, <1>7, <1>8, TickMoves DEF Moved

LEMMA DueFinite == IsFiniteSet(Due) /\ Cardinality(Due) \in Nat /\ (Due # {} => Cardinality(Due) # 0)
  <1>1. IsFiniteSet(Due)
    BY ScheduleAssumption, FS_Subset DEF Due
  <1> QED BY <1>1, FS_CardinalityType, FS_EmptySet

LEMMA TickStartInv == ASSUME Inv, NEW t \in Tickers, TickStart(t) PROVE Inv'
  <1> DEFINE n == Cardinality(Due)
  <1>1. PICK b \in [1..n -> Due] :
           ticker' = [ticker EXCEPT ![t] =
                [pc |-> "lookup", inv |-> 0,
                 due |-> [i \in DOMAIN b |-> [sched |-> b[i], row |-> sched[b[i]]]]]]
    BY DEF TickStart
  <1>2. UNCHANGED <<today, sched, invoices, request, failures>> /\ Due # {}
    BY DEF TickStart
  <1>3. n \in Nat /\ n # 0
    BY <1>2, DueFinite
  <1> HIDE DEF n
  <1> DEFINE d == [i \in 1..n |-> [sched |-> b[i], row |-> sched[b[i]]]]
  <1>4. \A i \in 1..n : b[i] \in Schedules /\ sched[b[i]].state = "active"
                        /\ sched[b[i]].nextRun <= today /\ sched[b[i]] \in Sched
    BY DEF Due, Inv, TypeOK
  <1>5. d \in Seq(Snapshot) /\ Len(d) = n /\ d # <<>> /\ DOMAIN d = 1..n
        /\ \A i \in 1..n : d[i] = [sched |-> b[i], row |-> sched[b[i]]] /\ d[i] \in Snapshot
    BY <1>3, <1>4 DEF Snapshot
  <1>6. ticker' = [ticker EXCEPT ![t] = [pc |-> "lookup", inv |-> 0, due |-> d]]
    BY <1>1
  <1> HIDE DEF d
  <1>7. /\ ticker'[t] = [pc |-> "lookup", inv |-> 0, due |-> d]
        /\ ticker' \in [Tickers -> TickVal] /\ \A u \in Tickers \ {t} : ticker'[u] = ticker[u]
    BY <1>5, <1>6 DEF Inv, RowsSound, TickVal
  <1>8. ticker'[t].pc = "lookup" /\ ticker'[t].due = d
    BY <1>7
  <1>9. TickOK(t)'
    BY <1>5, <1>8 DEF TickOK, Snapshot
  <1>10. OneInvoicePerRun' /\ BilledWhenDue' /\ Grown
    BY <1>2, InvoicesKept, TodayFacts
  <1>11. ASSUME NEW i \in 1..n
         PROVE  d[i].row.state = "active" /\ d[i].row.nextRun <= today /\ RowSound(d[i].sched, d[i].row)
    <2>1. d[i].row = sched[b[i]] /\ d[i].sched = b[i]
      BY <1>5
    <2>2. RowSound(b[i], sched[b[i]])
      BY <1>4 DEF Inv, RowsSound
    <2> QED BY <1>4, <2>1, <2>2
  <1>12. TickSound(t)'
    BY <1>2, <1>5, <1>8, <1>10, <1>11, RunsKept DEF TickSound, RowSound
  <1>13. failures' \in 0..MaxFailures /\ invoices' \in Seq(Invoice)
    BY <1>2 DEF Inv, TypeOK
  <1> QED BY <1>2, <1>7, <1>9, <1>10, <1>12, <1>13, TickMoves

LEMMA DraftLookupInv == ASSUME Inv, NEW t \in Tickers, DraftLookup(t) PROVE Inv'
  <1>1. ticker[t].pc = "lookup" /\ UNCHANGED <<today, sched, invoices, request, failures>>
    BY DEF DraftLookup
  <1>2. OneInvoicePerRun' /\ BilledWhenDue' /\ Grown /\ invoices' \in Seq(Invoice)
    BY <1>1, InvoicesKept, InvoiceFacts, TodayFacts
  <1>4. ASSUME NEW i \in Keyed(t),
               ticker' = [ticker EXCEPT ![t].pc = AfterDraft(t), ![t].inv = i]
        PROVE  Inv'
    <2>2. /\ i \in DOMAIN invoices /\ i \in Nat
          /\ invoices[i].sched = Current(t).sched /\ invoices[i].run = Current(t).row.nextRun
      BY InvoiceFacts DEF Keyed
    <2>3. AfterDraft(t) \in {"load", "save"} /\ (AfterDraft(t) = "save" => Current(t).sched \notin AutoIssue)
      BY DEF AfterDraft
    <2>4. Moved(t, AfterDraft(t), i)
      BY <1>4, <2>2, <2>3, MovedBy
    <2> QED BY <1>1, <1>2, <2>2, <2>3, <2>4, TickGoesOn
  <1>5. ASSUME ticker' = [ticker EXCEPT ![t].pc = "insert"] PROVE Inv'
    <2>1. Moved(t, "insert", ticker[t].inv) /\ ticker[t].inv \in Nat
      BY <1>5, MovedBy
    <2> QED BY <1>1, <1>2, <2>1, TickGoesOn
  <1> QED BY <1>4, <1>5 DEF DraftLookup

\* The insert takes the key of the current cycle, which is due.
LEMMA DraftInsertInv == ASSUME Inv, NEW t \in Tickers, DraftInsert(t) PROVE Inv'
  <1>1. ticker[t].pc = "insert" /\ UNCHANGED <<today, sched, request, failures>>
    BY DEF DraftInsert
  <1>2. CASE Keyed(t) # {} /\ ticker' = [ticker EXCEPT ![t] = NoTick] /\ UNCHANGED invoices
    BY <1>1, <1>2, TickEnds DEF Inv, TypeOK
  <1>3. CASE /\ Keyed(t) = {}
             /\ invoices' = Append(invoices, [sched |-> Current(t).sched,
                                    run |-> Current(t).row.nextRun, state |-> "Draft"])
             /\ ticker' = [ticker EXCEPT ![t].pc = AfterDraft(t), ![t].inv = Len(invoices) + 1]
    <2> DEFINE new == [sched |-> Current(t).sched, run |-> Current(t).row.nextRun, state |-> "Draft"]
               N == Len(invoices) + 1
    <2>1. /\ Current(t) \in Snapshot /\ Current(t) = ticker[t].due[1]
          /\ 1 \in 1..Len(ticker[t].due)
      BY <1>1, TickFacts
    <2>2. new \in Invoice
      BY <2>1 DEF Invoice, Snapshot, Sched
    <2>3. /\ invoices \in Seq(Invoice) /\ Len(invoices) \in Nat /\ DOMAIN invoices = 1..Len(invoices)
          /\ \A i \in DOMAIN invoices : invoices[i] \in Invoice
      BY InvoiceFacts
    <2>4. /\ invoices' \in Seq(Invoice) /\ DOMAIN invoices' = 1..N /\ invoices'[N] = new
          /\ \A i \in DOMAIN invoices : i \in DOMAIN invoices' /\ invoices'[i] = invoices[i]
          /\ \A i \in DOMAIN invoices' : i \in DOMAIN invoices \/ i = N
          /\ N \in DOMAIN invoices' /\ N \in Nat
      <3> HIDE DEF new
      <3>1. invoices' = Append(invoices, new)
        BY <1>3 DEF new
      <3> QED BY <2>2, <2>3, <3>1
    <2>5. Grown
      BY <1>1, <2>4, TodayFacts DEF Grown
    <2>6. OneInvoicePerRun'
      <3>1. \A i \in DOMAIN invoices : ~(invoices[i].sched = new.sched /\ invoices[i].run = new.run)
        BY <1>3 DEF Keyed
      <3> HIDE DEF new, N
      <3> QED BY <2>4, <3>1 DEF Inv, OneInvoicePerRun
    <2>7. /\ StartDate[new.sched] <= new.run /\ new.run <= today
          /\ EndDate[new.sched] # 0 => new.run <= EndDate[new.sched]
      <3>1. /\ Current(t).row.state = "active" /\ Current(t).row.nextRun <= today
            /\ RowSound(Current(t).sched, Current(t).row)
        BY <2>1 DEF Inv, RowsSound, TickSound
      <3> QED BY <3>1 DEF RowSound
    <2>8. BilledWhenDue'
      <3> HIDE DEF new, N
      <3> QED BY <1>1, <2>4, <2>7 DEF Inv, BilledWhenDue
    <2>9. AfterDraft(t) \in {"load", "save"} /\ (AfterDraft(t) = "save" => Current(t).sched \notin AutoIssue)
      BY DEF AfterDraft
    <2>10. Moved(t, AfterDraft(t), N)
      BY <1>3, <2>4, <2>9, MovedBy
    <2>11. /\ N \in DOMAIN invoices' /\ invoices'[N].sched = Current(t).sched
           /\ invoices'[N].run = Current(t).row.nextRun
      BY <2>4
    <2> HIDE DEF new, N
    <2> QED BY <1>1, <2>4, <2>5, <2>6, <2>8, <2>9, <2>10, <2>11, TickGoesOn
  <1> QED BY <1>2, <1>3 DEF DraftInsert

LEMMA IssueLoadInv == ASSUME Inv, NEW t \in Tickers, IssueLoad(t) PROVE Inv'
  <1>1. ticker[t].pc = "load" /\ UNCHANGED <<today, sched, invoices, request, failures>>
    BY DEF IssueLoad
  <1>2. CASE ticker' = [ticker EXCEPT ![t] = NoTick]
    BY <1>1, <1>2, TickEnds DEF Inv, TypeOK
  <1>3. CASE ticker' = [ticker EXCEPT ![t].pc = "issue"]
    <2>1. OneInvoicePerRun' /\ BilledWhenDue' /\ Grown /\ invoices' \in Seq(Invoice)
      BY <1>1, InvoicesKept, InvoiceFacts, TodayFacts
    <2>2. Moved(t, "issue", ticker[t].inv) /\ ticker[t].inv \in Nat
      BY <1>3, MovedBy
    <2>3. /\ ticker[t].inv \in DOMAIN invoices
          /\ invoices[ticker[t].inv].sched = Current(t).sched
          /\ invoices[ticker[t].inv].run = Current(t).row.nextRun
      BY <1>1, TickFacts DEF Inv, RowsSound, TickSound
    <2> QED BY <1>1, <2>1, <2>2, <2>3, TickGoesOn
  <1> QED BY <1>2, <1>3 DEF IssueLoad

LEMMA IssueCommitInv == ASSUME Inv, NEW t \in Tickers, IssueCommit(t) PROVE Inv'
  <1> DEFINE k == ticker[t].inv
  <1>1. /\ ticker[t].pc = "issue" /\ UNCHANGED <<today, sched, request, failures>>
        /\ invoices' = [invoices EXCEPT ![k] = [invoices[k] EXCEPT !.state = "Issued"]]
        /\ ticker' = [ticker EXCEPT ![t].pc = "save"]
    BY DEF IssueCommit
  <1>2. /\ k \in DOMAIN invoices
        /\ invoices[k].sched = Current(t).sched /\ invoices[k].run = Current(t).row.nextRun
    BY <1>1, TickFacts DEF Inv, RowsSound, TickSound
  <1>3. /\ invoices \in Seq(Invoice) /\ DOMAIN invoices = 1..Len(invoices) /\ Len(invoices) \in Nat
        /\ \A i \in DOMAIN invoices : invoices[i] \in Invoice
    BY InvoiceFacts
  <1>4. Moved(t, "save", k) /\ k \in Nat
    BY <1>1, MovedBy
  <1> HIDE DEF k
  <1> DEFINE new == [invoices[k] EXCEPT !.state = "Issued"]
  <1>5. /\ new \in Invoice /\ new.state = "Issued"
        /\ new.sched = invoices[k].sched /\ new.run = invoices[k].run
    BY <1>2, <1>3 DEF Invoice
  <1> HIDE DEF new
  <1>6. /\ invoices' \in Seq(Invoice) /\ DOMAIN invoices' = DOMAIN invoices /\ invoices'[k] = new
        /\ \A i \in DOMAIN invoices : i # k => invoices'[i] = invoices[i]
    BY <1>1, <1>2, <1>3, <1>5, ExceptSeq DEF new
  <1>7. \A i \in DOMAIN invoices :
            invoices'[i].sched = invoices[i].sched /\ invoices'[i].run = invoices[i].run
    BY <1>5, <1>6
  <1>8. Grown
    BY <1>1, <1>5, <1>6, <1>7, TodayFacts DEF Grown
  <1>9. OneInvoicePerRun'
    BY <1>6, <1>7 DEF Inv, OneInvoicePerRun
  <1>10. BilledWhenDue'
    BY <1>1, <1>6, <1>7 DEF Inv, BilledWhenDue
  <1> QED BY <1>1, <1>2, <1>4, <1>5, <1>6, <1>7, <1>8, <1>9, <1>10, TickGoesOn

\* The advanced snapshot is sound: its cycle was the last one before the new
\* next_run, and it is billed by now.
LEMMA AdvancedSound ==
    ASSUME Inv, NEW t \in Tickers, ticker[t].pc = "save"
    PROVE  LET c == Current(t)
           IN  /\ c.sched \in Schedules /\ Advanced(c.sched, c.row) \in Sched
               /\ RowSound(c.sched, Advanced(c.sched, c.row))
  <1> DEFINE c == Current(t)
             s == c.sched
             run == c.row.nextRun
             new == Advanced(s, c.row)
  <1>1. c \in Snapshot /\ c = ticker[t].due[1] /\ 1 \in 1..Len(ticker[t].due)
    BY TickFacts
  <1>2. s \in Schedules /\ c.row \in Sched /\ run \in Nat
    BY <1>1 DEF Snapshot, Sched
  <1>3. /\ c.row.state = "active" /\ run <= today /\ RowSound(s, c.row)
        /\ ticker[t].inv \in DOMAIN invoices
        /\ invoices[ticker[t].inv].sched = s /\ invoices[ticker[t].inv].run = run
        /\ s \in AutoIssue => invoices[ticker[t].inv].state = "Issued"
    BY <1>1 DEF Inv, RowsSound, TickSound
  <1>4. run \in CycleDates(s) /\ run \in Days
    <2>1. StartDate[s] <= run /\ StartDate[s] \in Days
      BY <1>2, <1>3, DayFacts DEF RowSound
    <2>2. run \in Days
      BY <1>2, <1>3, <2>1, TodayFacts, DayFacts DEF Days
    <2> QED BY <1>3, <2>2 DEF RowSound
  <1>5. Advance[run] \in Nat /\ run < Advance[run]
    BY <1>4, DayFacts
  <1>6. /\ new.nextRun = Advance[run] /\ new.lastRun = run
        /\ new.state \in {"active", "cancelled"}
        /\ new.state = "active" /\ EndDate[s] # 0 => ~(new.nextRun > EndDate[s])
        /\ new \in Sched
    BY <1>2, <1>3, <1>5 DEF Advanced, Sched
  <1>7. <<s, run>> \in BilledRuns
    BY <1>3 DEF BilledRuns
  <1> HIDE DEF new, run, s
  <1>8. ASSUME NEW d \in CycleDates(s), d < Advance[run] PROVE <<s, d>> \in BilledRuns
    <2>1. d <= run
      BY <1>2, <1>4, <1>8, CycleHasNoGap
    <2>2. d \in Nat
      BY <1>2, CycleClosed, DayFacts
    <2>3. CASE d = run
      BY <1>7, <2>3
    <2>4. CASE d # run
      <3>1. d < run
        BY <1>2, <2>1, <2>2, <2>4
      <3> QED BY <1>3, <3>1 DEF RowSound, run
    <2> QED BY <2>3, <2>4
  <1>9. Advance[run] \in Days => Advance[run] \in CycleDates(s)
    BY <1>2, <1>4, CycleClosed
  <1>10. StartDate[s] <= Advance[run]
    <2>1. StartDate[s] <= run /\ StartDate[s] \in Nat /\ run \in Nat
      BY <1>2, <1>4, CycleFromStart, DayFacts
    <2> QED BY <1>5, <2>1
  <1>11. EndDate[s] \in Nat
    BY <1>2, ScheduleAssumption
  <1>12. RowSound(s, new)
    BY <1>5, <1>6, <1>8, <1>9, <1>10, <1>11 DEF RowSound
  <1> QED BY <1>2, <1>6, <1>12 DEF s, new

LEMMA TickSaveInv == ASSUME Inv, NEW t \in Tickers, TickSave(t) PROVE Inv'
  <1> DEFINE c == Current(t)
             rest == Tail(ticker[t].due)
             v == IF rest = <<>> THEN NoTick ELSE [pc |-> "lookup", due |-> rest, inv |-> 0]
             new == Advanced(c.sched, c.row)
  <1>1. /\ ticker[t].pc = "save" /\ UNCHANGED <<today, invoices, request, failures>>
        /\ sched' = [sched EXCEPT ![c.sched] = new] /\ ticker' = [ticker EXCEPT ![t] = v]
    BY DEF TickSave
  <1>2. c.sched \in Schedules /\ new \in Sched /\ RowSound(c.sched, new)
    BY <1>1, AdvancedSound
  <1>3. OneInvoicePerRun' /\ BilledWhenDue' /\ Grown /\ today' \in Days
    BY <1>1, InvoicesKept, TodayFacts
  <1>4. /\ rest \in Seq(Snapshot) /\ Len(rest) = Len(ticker[t].due) - 1 /\ Len(ticker[t].due) \in Nat
        /\ \A i \in 1..Len(rest) : rest[i] = ticker[t].due[i + 1]
                                   /\ rest[i] \in Snapshot
    <2>1. ticker[t].due \in Seq(Snapshot) /\ ticker[t].due # <<>>
      BY <1>1, TickFacts DEF TickVal
    <2> HIDE DEF Snapshot
    <2> QED BY <2>1, HeadTailProperties, ElementOfSeq
  <1> HIDE DEF rest
  <1>5. v \in TickVal /\ v.pc \in {"idle", "lookup"} /\ (v.pc # "idle" => v.due # <<>>)
        /\ (v.due = rest \/ v.due = <<>>)
    BY <1>4 DEF TickVal, NoTick
  <1> HIDE DEF v, new, c
  <1>6. ticker' \in [Tickers -> TickVal] /\ ticker'[t] = v
        /\ \A u \in Tickers \ {t} : ticker'[u] = ticker[u]
    BY <1>1, <1>5 DEF Inv, RowsSound
  <1>7. sched' \in [Schedules -> Sched] /\ sched'[c.sched] = new
        /\ \A x \in Schedules \ {c.sched} : sched'[x] = sched[x]
    BY <1>1, <1>2 DEF Inv, TypeOK
  <1>8. ASSUME NEW x \in Schedules PROVE RowSound(x, sched[x])'
    <2>1. CASE x = c.sched
      BY <1>2, <1>3, <1>7, <2>1, RunsKept DEF RowSound
    <2>2. CASE x # c.sched
      BY <1>3, <1>7, <2>2, TableKept
    <2> QED BY <2>1, <2>2
  <1>9. TickOK(t)' /\ TickSound(t)'
    <2>1. ASSUME NEW i \in 1..Len(v.due)
          PROVE  /\ v.due[i] \in Snapshot /\ v.due[i].row.state = "active"
                 /\ v.due[i].row.nextRun <= today /\ RowSound(v.due[i].sched, v.due[i].row)
      <3>1. v.due = rest /\ i \in 1..Len(rest)
        BY <1>5, <2>1
      <3>2. i + 1 \in 1..Len(ticker[t].due) /\ v.due[i] = ticker[t].due[i + 1] /\ v.due[i] \in Snapshot
        BY <1>4, <3>1
      <3> QED BY <3>2 DEF Inv, RowsSound, TickSound
    <2>2. TickSound(t)'
      BY <1>1, <1>3, <1>5, <1>6, <2>1, RunsKept DEF TickSound, RowSound
    <2>3. DOMAIN v.due = 1..Len(v.due)
      BY <1>5 DEF TickVal
    <2>4. TickOK(t)'
      BY <1>5, <1>6, <2>1, <2>3 DEF TickOK, Snapshot
    <2> QED BY <2>2, <2>4
  <1>10. ASSUME NEW u \in Tickers PROVE TickOK(u)' /\ TickSound(u)'
    BY <1>3, <1>6, <1>9, TickKept
  <1>11. \A q \in Requests : RequestSound(q)'
    BY <1>1, <1>3, RequestKept
  <1>12. TypeOK'
    BY <1>1, <1>3, <1>7, <1>10 DEF Inv, TypeOK
  <1>13. RowsSound'
    BY <1>6, <1>8, <1>10, <1>11 DEF RowsSound
  <1> QED BY <1>3, <1>12, <1>13 DEF Inv

LEMMA InvNext == ASSUME Inv, [Next]_vars PROVE Inv'
  <1>1. ASSUME NEW t \in Tickers, TickStep(t) PROVE Inv'
    BY <1>1, TickStartInv, DraftLookupInv, DraftInsertInv, IssueLoadInv, IssueCommitInv, TickSaveInv
       DEF TickStep
  <1>2. ASSUME NEW t \in Tickers, TickFail(t) PROVE Inv'
    <2>1. failures' \in 0..MaxFailures
      BY <1>2, ScheduleAssumption DEF TickFail, Inv, TypeOK
    <2> QED BY <1>2, <2>1, TickEnds DEF TickFail
  <1>3. CASE UNCHANGED vars
    <2>1. UNCHANGED <<today, sched, invoices, ticker, request, failures>>
      BY <1>3
    <2>2. today' \in Days /\ today <= today'
      BY <2>1, TodayFacts
    <2>3. Grown
      BY <2>1, <2>2, InvoicesKept
    <2>4. /\ \A s \in Schedules : RowSound(s, sched[s])'
          /\ \A q \in Requests : RequestSound(q)'
      BY <2>1, <2>3, TableKept, RequestKept
    <2>5. /\ sched' \in [Schedules -> Sched]
          /\ request' \in [Requests -> [pc : {"idle", "save"}, sched : Schedules, row : Sched]]
      BY <2>1 DEF Inv, TypeOK
    <2> QED BY <2>1, <2>2, <2>4, <2>5, RowsMove
  <1> QED BY <1>1, <1>2, <1>3, NextDayInv, CreateInv, ChangeLoadInv, ChangeSaveInv DEF Next

LEMMA InvAlways == Spec => []Inv
  BY InvInit, InvNext, PTL DEF Spec

\* Every reachable state is well typed; in particular Advance is only asked for
\* dates it has, and a tick past draft_invoice has the invoice it issues.
THEOREM SchedulesTyped == Spec => []TypeOK
  BY InvAlways, PTL DEF Inv

\* The key schedule:{id}:run:{next_run} bills a cycle once, however many ticks
\* race, stop or work on stale rows.
THEOREM CyclesBilledOnce == Spec => []OneInvoicePerRun
  BY InvAlways, PTL DEF Inv

\* schedules_tick bills nothing early and nothing past the end of its schedule.
THEOREM CyclesBilledWhenDue == Spec => []BilledWhenDue
  BY InvAlways, PTL DEF Inv

\* schedules_tick and transition_schedule write whole rows from stale reads, and
\* yet no date of the cycle is ever passed without its invoice.
THEOREM CyclesNotSkipped == Spec => []NoRunSkipped
  <1>1. Inv => NoRunSkipped
    BY DEF Inv, RowsSound, RowSound, NoRunSkipped
  <1> QED BY <1>1, InvAlways, PTL
=============================================================================
