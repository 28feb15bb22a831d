--------------------------- MODULE ScheduleTicker ---------------------------
(***************************************************************************)
(* Recurring schedules (crates/commands/src/schedule.rs): create, pause,   *)
(* cancel, and the tick that turns every due schedule into an invoice and  *)
(* advances it.  A tick works on the rows it read at its start and writes  *)
(* them back whole, after draft_invoice and issue_invoice have committed on*)
(* their own; ticks of other processes and requests to pause or cancel come*)
(* in between, and a tick may stop anywhere.                               *)
(***************************************************************************)
EXTENDS Naturals, Sequences, FiniteSets

CONSTANTS
    Schedules,    \* schedule ids
    Tickers,      \* processes that may run schedules_tick
    Requests,     \* requests to pause or cancel that may be in flight
    AutoIssue,    \* the schedules created with auto_issue
    MaxDay,       \* bound on today's date
    StartDate,    \* start_date of each schedule
    EndDate,      \* end_date of each schedule, 0 when it has none
    Advance,      \* Cadence::advance: the next date of the cycle
    MaxFailures   \* bound on the ticks and requests cut short

Days == 1..MaxDay

ASSUME ScheduleAssumption ==
    /\ AutoIssue \subseteq Schedules
    /\ IsFiniteSet(Schedules) /\ Schedules # {}
    /\ MaxDay \in Nat \ {0}
    /\ StartDate \in [Schedules -> Days]
    /\ EndDate \in [Schedules -> Nat]
    /\ \A s \in Schedules : EndDate[s] # 0 => StartDate[s] <= EndDate[s]
    /\ Advance \in [Days -> Nat]
    /\ \A d \in Days : d < Advance[d]
    /\ MaxFailures \in Nat

VARIABLES
    today,      \* the injected clock, in days
    sched,      \* the schedules table
    invoices,   \* the invoices that schedules produced, by insertion
    ticker,     \* the tick a process is in
    request,    \* the pause or cancel a request is in
    failures    \* ticks and requests cut short so far

vars == <<today, sched, invoices, ticker, request, failures>>
-----------------------------------------------------------------------------
Sched == [state : {"absent", "active", "paused", "cancelled"}, nextRun : Nat, lastRun : Nat]
NoSched == [state |-> "absent", nextRun |-> 0, lastRun |-> 0]

\* idempotency_key: schedule:{id}:run:{next_run}
Invoice == [sched : Schedules, run : Nat, state : {"Draft", "Issued"}]

\* A tick: the snapshots it has still to work on, the first being the current
\* one, and the invoice of the current one (0 before there is one).
NoTick == [pc |-> "idle", due |-> <<>>, inv |-> 0]

\* A request: the row it read and the state it will write.
NoReq == [pc |-> "idle", sched |-> CHOOSE s \in Schedules : TRUE, row |-> NoSched]

Init ==
    /\ today = 1
    /\ sched = [s \in Schedules |-> NoSched]
    /\ invoices = <<>>
    /\ ticker = [t \in Tickers |-> NoTick]
    /\ request = [q \in Requests |-> NoReq]
    /\ failures = 0
-----------------------------------------------------------------------------
(* Requests *)

\* schedule_create
Create(s) ==
    /\ sched[s].state = "absent"
    /\ sched' = [sched EXCEPT ![s] =
                    [state |-> "active", nextRun |-> StartDate[s], lastRun |-> 0]]
    /\ UNCHANGED <<today, invoices, ticker, request, failures>>

\* transition_schedule: the row is read, a cancelled schedule may only be
\* cancelled again ...
ChangeLoad(q, s, to) ==
    /\ request[q].pc = "idle"
    /\ sched[s].state # "absent"
    /\ sched[s].state = "cancelled" => to = "cancelled"
    /\ request' = [request EXCEPT ![q] =
                      [pc |-> "save", sched |-> s, row |-> [sched[s] EXCEPT !.state = to]]]
    /\ UNCHANGED <<today, sched, invoices, ticker, failures>>

\* ... and written back whole.
ChangeSave(q) ==
    /\ request[q].pc = "save"
    /\ sched' = [sched EXCEPT ![request[q].sched] = request[q].row]
    /\ request' = [request EXCEPT ![q] = NoReq]
    /\ UNCHANGED <<today, invoices, ticker, failures>>
-----------------------------------------------------------------------------
(* schedules_tick *)

Current(t) == Head(ticker[t].due)

\* WHERE state = 'active' AND next_run <= today
Due == {s \in Schedules : sched[s].state = "active" /\ sched[s].nextRun <= today}

\* ScheduleRepo::due, ORDER BY next_run ASC.  A tick that finds nothing due
\* changes nothing.
TickStart(t) ==
    /\ ticker[t].pc = "idle" /\ Due # {}
    /\ \E b \in [1..Cardinality(Due) -> Due] :
          /\ \A i, j \in DOMAIN b :
                i < j => b[i] # b[j] /\ sched[b[i]].nextRun <= sched[b[j]].nextRun
          /\ ticker' = [ticker EXCEPT ![t] =
                [pc |-> "lookup", inv |-> 0,
                 due |-> [i \in DOMAIN b |-> [sched |-> b[i], row |-> sched[b[i]]]]]]
    /\ UNCHANGED <<today, sched, invoices, request, failures>>

\* Mutant of Keyed: the key leaves out the date.
KeyedBySchedule(t) == {i \in DOMAIN invoices : invoices[i].sched = Current(t).sched}

\* The invoices with the key of the current cycle.
Keyed(t) == {i \in DOMAIN invoices : /\ invoices[i].sched = Current(t).sched
                                     /\ invoices[i].run = Current(t).row.nextRun}

\* After draft_invoice: issue, if the schedule says so.
AfterDraft(t) == IF Current(t).sched \in AutoIssue THEN "load" ELSE "save"

\* draft_invoice: the look-up of the key, a hit replays ...
DraftLookup(t) ==
    /\ ticker[t].pc = "lookup"
    /\ \/ \E i \in Keyed(t) :
            ticker' = [ticker EXCEPT ![t].pc = AfterDraft(t), ![t].inv = i]
       \/ Keyed(t) = {} /\ ticker' = [ticker EXCEPT ![t].pc = "insert"]
    /\ UNCHANGED <<today, sched, invoices, request, failures>>

\* Mutant of DraftInsert: no UNIQUE constraint.
DraftInsertAny(t) ==
    /\ ticker[t].pc = "insert"
    /\ invoices' = Append(invoices, [sched |-> Current(t).sched,
                              run |-> Current(t).row.nextRun, state |-> "Draft"])
    /\ ticker' = [ticker EXCEPT ![t].pc = AfterDraft(t), ![t].inv = Len(invoices) + 1]
    /\ UNCHANGED <<today, sched, request, failures>>

\* ... and otherwise the insert, which the UNIQUE key rejects when another
\* tick was first: the ? ends the whole tick.
DraftInsert(t) ==
    /\ ticker[t].pc = "insert"
    /\ \/ /\ Keyed(t) = {}
          /\ invoices' = Append(invoices, [sched |-> Current(t).sched,
                                    run |-> Current(t).row.nextRun, state |-> "Draft"])
          /\ ticker' = [ticker EXCEPT ![t].pc = AfterDraft(t), ![t].inv = Len(invoices) + 1]
       \/ /\ Keyed(t) # {}
          /\ ticker' = [ticker EXCEPT ![t] = NoTick]
          /\ UNCHANGED invoices
    /\ UNCHANGED <<today, sched, request, failures>>

\* issue_invoice reads the invoice; anything but a draft is an error that ends
\* the whole tick.
IssueLoad(t) ==
    /\ ticker[t].pc = "load"
    /\ ticker' = IF invoices[ticker[t].inv].state = "Draft"
                 THEN [ticker EXCEPT ![t].pc = "issue"] ELSE [ticker EXCEPT ![t] = NoTick]
    /\ UNCHANGED <<today, sched, invoices, request, failures>>

IssueCommit(t) ==
    /\ ticker[t].pc = "issue"
    /\ invoices' = [invoices EXCEPT ![ticker[t].inv].state = "Issued"]
    /\ ticker' = [ticker EXCEPT ![t].pc = "save"]
    /\ UNCHANGED <<today, sched, request, failures>>

\* Mutants of Advanced: the cycle advances from today; the last run counts as
\* inside the schedule whatever its date.
AdvancedFromToday(s, row) ==
    LET next == Advance[today]
    IN  [state |-> IF EndDate[s] # 0 /\ next > EndDate[s] THEN "cancelled" ELSE row.state,
         nextRun |-> next, lastRun |-> row.nextRun]
AdvancedForEver(s, row) ==
    [state |-> row.state, nextRun |-> Advance[row.nextRun], lastRun |-> row.nextRun]

\* The snapshot, advanced by one cycle; past its end the schedule is over.
Advanced(s, row) ==
    LET next == Advance[row.nextRun]
    IN  [state |-> IF EndDate[s] # 0 /\ next > EndDate[s] THEN "cancelled" ELSE row.state,
         nextRun |-> next, lastRun |-> row.nextRun]

\* ScheduleRepo::save writes the advanced snapshot over the row.
TickSave(t) ==
    LET c == Current(t)
        rest == Tail(ticker[t].due)
    IN  /\ ticker[t].pc = "save"
        /\ sched' = [sched EXCEPT ![c.sched] = Advanced(c.sched, c.row)]
        /\ ticker' = [ticker EXCEPT ![t] =
              IF rest = <<>> THEN NoTick ELSE [pc |-> "lookup", due |-> rest, inv |-> 0]]
        /\ UNCHANGED <<today, invoices, request, failures>>

\* A statement fails or the process stops.
TickFail(t) ==
    /\ ticker[t].pc # "idle" /\ failures < MaxFailures
    /\ failures' = failures + 1
    /\ ticker' = [ticker EXCEPT ![t] = NoTick]
    /\ UNCHANGED <<today, sched, invoices, request>>

NextDay ==
    /\ today < MaxDay
    /\ today' = today + 1
    /\ UNCHANGED <<sched, invoices, ticker, request, failures>>

TickStep(t) ==
    \/ TickStart(t) \/ DraftLookup(t) \/ DraftInsert(t)
    \/ IssueLoad(t) \/ IssueCommit(t) \/ TickSave(t)

Next ==
    \/ NextDay
    \/ \E s \in Schedules : Create(s)
    \/ \E q \in Requests, s \in Schedules, to \in {"paused", "cancelled"} : ChangeLoad(q, s, to)
    \/ \E q \in Requests : ChangeSave(q)
    \/ \E t \in Tickers : TickStep(t) \/ TickFail(t)

\* The server's loop ticks for ever and awaits each tick.
Fairness == \A t \in Tickers : WF_vars(TickStep(t))

Spec == Init /\ [][Next]_vars /\ Fairness
-----------------------------------------------------------------------------
\* A tick at work has snapshots, and past its draft an invoice.
TickOK(t) ==
    /\ ticker[t].pc \in {"idle", "lookup", "insert", "load", "issue", "save"}
    /\ ticker[t].pc # "idle" => ticker[t].due # <<>>
    /\ \A i \in DOMAIN ticker[t].due : ticker[t].due[i] \in [sched : Schedules, row : Sched]
    /\ ticker[t].pc \in {"load", "issue", "save"} => ticker[t].inv \in DOMAIN invoices

\* Every variable stays within its type.
TypeOK ==
    /\ today \in Days
    /\ sched \in [Schedules -> Sched]
    /\ invoices \in Seq(Invoice)
    /\ \A t \in Tickers : TickOK(t)
    /\ request \in [Requests -> [pc : {"idle", "save"}, sched : Schedules, row : Sched]]
    /\ failures \in 0..MaxFailures

\* No cycle is billed twice: racing ticks, retried ticks and ticks on stale
\* rows all end up at one invoice per schedule and date.
OneInvoicePerRun ==
    \A i, j \in DOMAIN invoices :
        invoices[i].sched = invoices[j].sched /\ invoices[i].run = invoices[j].run => i = j

\* The dates of the cycle of a schedule: the least set with its start date that
\* Advance does not leave.
CycleDates(s) ==
    {d \in Days : \A S \in SUBSET Days :
        (StartDate[s] \in S /\ \A e \in S : Advance[e] \in Days => Advance[e] \in S) => d \in S}

\* The cycles that are done with: invoiced, and issued if the schedule says so.
BilledRuns ==
    {<<invoices[i].sched, invoices[i].run>> :
        i \in {j \in DOMAIN invoices :
                  invoices[j].sched \in AutoIssue => invoices[j].state = "Issued"}}

\* No cycle is skipped: once next_run is past a date of the cycle, that date
\* has its invoice, issued if the schedule says so, although next_run is
\* written in a transaction of its own and may be written from a stale row.
NoRunSkipped ==
    \A s \in Schedules : \A d \in CycleDates(s) :
        d < sched[s].nextRun => <<s, d>> \in BilledRuns

\* Nothing is billed before its date or after the end of its schedule.
BilledWhenDue ==
    \A i \in DOMAIN invoices :
        LET v == invoices[i]
        IN  /\ StartDate[v.sched] <= v.run /\ v.run <= today
            /\ EndDate[v.sched] # 0 => v.run <= EndDate[v.sched]

\* A due schedule whose current cycle can no longer be auto-issued: its invoice
\* has left the draft state, next_run still names its date, and no tick is left
\* that issued it and has only to save the schedule.
Stuck(s) ==
    /\ s \in AutoIssue /\ s \in Due
    /\ \E i \in DOMAIN invoices : /\ invoices[i].sched = s /\ invoices[i].run = sched[s].nextRun
                                  /\ invoices[i].state # "Draft"
    /\ \A t \in Tickers : ticker[t].pc = "save" => Current(t).sched # s

Billed(s, d) == \E i \in DOMAIN invoices : invoices[i].sched = s /\ invoices[i].run = d

\* A due cycle is eventually billed, or its schedule is no longer active, or
\* some auto-issue schedule is stuck for good: neither races of ticks nor up to
\* MaxFailures cut-off ticks hold the ticker up in any other way.  An error that
\* every tick meets again (issue_invoice refused over and over, say after an
\* issue in the first second of a year) would, and is not in this model.
OnlyStuckBlocks ==
    \A s \in Schedules, d \in Days :
        (s \in Due /\ sched[s].nextRun = d)
            ~> (Billed(s, d) \/ sched[s].state # "active" \/ \E x \in Schedules : []Stuck(x))
-----------------------------------------------------------------------------
(* What a tick in flight relies on: the strengthening for the proofs *)

Snapshot == [sched : Schedules, row : Sched]
TickVal == [pc : {"idle", "lookup", "insert", "load", "issue", "save"},
            due : Seq(Snapshot), inv : Nat]

\* A row of schedule s, stored or read at some time: it is on the cycle and
\* within the schedule, and every cycle before its next_run is billed.
RowSound(s, row) ==
    /\ row.state = "absent" => row.nextRun = 0
    /\ row.state # "absent" => /\ StartDate[s] <= row.nextRun
                               /\ row.nextRun \in Days => row.nextRun \in CycleDates(s)
    /\ row.state = "active" /\ EndDate[s] # 0 => row.nextRun <= EndDate[s]
    /\ \A d \in CycleDates(s) : d < row.nextRun => <<s, d>> \in BilledRuns

\* The rows a tick works on are due, and its invoice is the current cycle's.
TickSound(t) ==
    /\ \A i \in 1..Len(ticker[t].due) :
          /\ ticker[t].due[i].row.state = "active"
          /\ ticker[t].due[i].row.nextRun <= today
          /\ RowSound(ticker[t].due[i].sched, ticker[t].due[i].row)
    /\ ticker[t].pc \in {"load", "issue", "save"} =>
          /\ ticker[t].inv \in DOMAIN invoices
          /\ invoices[ticker[t].inv].sched = ticker[t].due[1].sched
          /\ invoices[ticker[t].inv].run = ticker[t].due[1].row.nextRun
    /\ ticker[t].pc = "save" /\ ticker[t].due[1].sched \in AutoIssue =>
          invoices[ticker[t].inv].state = "Issued"

RequestSound(q) ==
    request[q].pc = "save" => /\ request[q].row.state \in {"paused", "cancelled"}
                              /\ RowSound(request[q].sched, request[q].row)

RowsSound ==
    /\ ticker \in [Tickers -> TickVal]
    /\ \A s \in Schedules : RowSound(s, sched[s])
    /\ \A t \in Tickers : TickSound(t)
    /\ \A q \in Requests : RequestSound(q)
-----------------------------------------------------------------------------
(* What the documentation says and the code does not do *)

\* design-spec: for every active schedule with next_run <= today an invoice is
\* materialised.
EveryDueRunBilled ==
    \A s \in Schedules, d \in Days :
        (s \in Due /\ sched[s].nextRun = d) ~> (Billed(s, d) \/ sched[s].state # "active")

\* schedule_cancel: "Cancelled is terminal"; at least it is never active again.
CancelledForGood ==
    [][\A s \in Schedules : sched[s].state = "cancelled" => sched'[s].state # "active"]_vars
=============================================================================
