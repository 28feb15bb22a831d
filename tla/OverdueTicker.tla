--------------------------- MODULE OverdueTicker ---------------------------
(***************************************************************************)
(* mark_overdue_ticker (crates/commands/src/overdue.rs) reads the unpaid   *)
(* invoices with one query per state and reports those past their due      *)
(* date.  Commands commit between the queries, so that an invoice moves    *)
(* from a state that was read to one that was not, or the other way.  A    *)
(* command writes the whole row from what it read before, so that it may   *)
(* also take the invoice back to an earlier state.                         *)
(***************************************************************************)
EXTENDS InvoiceFsm, Sequences, FiniteSets

CONSTANTS
    Billed,    \* invoices
    DueAt,     \* due_at of each invoice, 0 when it has none; only draft sets it
    Commands,  \* the commands that run beside the ticks, each once
    LastDay    \* bound on the clock

ASSUME OverdueAssumption ==
    /\ IsFiniteSet(Billed) /\ DueAt \in [Billed -> Nat]
    /\ LastDay \in Nat \ {0}

VARIABLES
    day,       \* the injected clock
    state,     \* the state of each invoice
    flight,    \* what each command has read and will write
    scan,      \* the tick: the queries done, the rows read, the clock
    flagged,   \* overdue_invoices, the tick's output
    announced, \* the invoices whose event reached a publisher in this tick
    steady,    \* invoices unpaid and past due ever since this tick began
    setBack    \* invoices that a stale write took back during this tick

overdueVars == <<day, state, flight, scan, flagged, announced, steady, setBack>>

\* Mutant of ScanOrder: the other way round.
ScanOrderReversed == <<"PartiallyPaid", "Viewed", "Sent", "Issued">>

\* The order of collect_unpaid_unvoided.
ScanOrder == <<"Issued", "Sent", "Viewed", "PartiallyPaid">>

NoScan == [pc |-> "idle", at |-> 0, queried |-> 0, rows |-> <<>>]

Waiting == [pc |-> "new"]
Over == [pc |-> "done"]

OverdueInit ==
    /\ day = 1
    /\ state \in [Billed -> States]
    /\ flight = [c \in Commands |-> Waiting]
    /\ scan = NoScan
    /\ flagged = {} /\ announced = {} /\ steady = {} /\ setBack = {}

\* A command reads a row and asks the table where its event leads.
CommandLoad(c, i, event, to) ==
    /\ flight[c] = Waiting
    /\ CommandEdge(event, state[i], to)
    /\ flight' = [flight EXCEPT ![c] = [pc |-> "save", inv |-> i, from |-> state[i], to |-> to]]
    /\ UNCHANGED <<day, state, scan, flagged, announced, steady, setBack>>

\* The states an unpaid invoice goes through, in order.
Lifecycle == <<"Draft", "Issued", "Sent", "Viewed", "PartiallyPaid">>

Precedes(s, t) ==
    \E j, k \in DOMAIN Lifecycle : j < k /\ s = Lifecycle[j] /\ t = Lifecycle[k]

\* save_in_tx: the upsert of the whole row, over whatever is there by now.
CommandSave(c) ==
    LET w == flight[c]
    IN  /\ w.pc = "save"
        /\ state' = [state EXCEPT ![w.inv] = w.to]
        /\ flight' = [flight EXCEPT ![c] = Over]
        /\ steady' = IF w.to \in Terminal THEN steady \ {w.inv} ELSE steady
        /\ setBack' = IF w.inv \in steady /\ state[w.inv] # w.from /\ Precedes(w.to, state[w.inv])
                      THEN setBack \union {w.inv} ELSE setBack
        /\ UNCHANGED <<day, scan, flagged, announced>>

\* The command fails before its transaction commits.
CommandFail(c) ==
    /\ flight[c].pc = "save"
    /\ flight' = [flight EXCEPT ![c] = Over]
    /\ UNCHANGED <<day, state, scan, flagged, announced, steady, setBack>>

\* is_overdue, on the state that was read
IsOverdue(i, s, at) == s \in Payable /\ DueAt[i] # 0 /\ DueAt[i] < at

ScanStart ==
    /\ scan.pc = "idle"
    /\ scan' = [pc |-> "query", at |-> day, queried |-> 0, rows |-> <<>>]
    /\ steady' = {i \in Billed : state[i] \in Payable /\ DueAt[i] # 0 /\ DueAt[i] < day}
    /\ UNCHANGED <<day, state, flight, flagged, announced, setBack>>

\* InvoiceRepo::list for the next state; an invoice may be read twice.
ScanQuery ==
    LET s == ScanOrder[scan.queried + 1]
        found == {i \in Billed : state[i] = s}
    IN  /\ scan.pc = "query"
        /\ \E b \in [1..Cardinality(found) -> found] :
              /\ \A i, j \in DOMAIN b : i # j => b[i] # b[j]
              /\ scan' = [scan EXCEPT
                    !.queried = @ + 1,
                    !.rows = @ \o [k \in DOMAIN b |-> [inv |-> b[k], state |-> s]],
                    !.pc = IF scan.queried + 1 = Len(ScanOrder) THEN "announce" ELSE "query"]
        /\ UNCHANGED <<day, state, flight, flagged, announced, steady, setBack>>

\* One row of the merged list: if overdue it is in the output, and try_publish
\* announces it or does nothing (no publisher, or its error is logged).
ScanAnnounce ==
    LET h == Head(scan.rows)
        hit == IF IsOverdue(h.inv, h.state, scan.at) THEN {h.inv} ELSE {}
    IN  /\ scan.pc = "announce" /\ scan.rows # <<>>
        /\ flagged' = flagged \union hit
        /\ announced' \in {announced, announced \union hit}
        /\ scan' = [scan EXCEPT !.rows = Tail(@)]
        /\ UNCHANGED <<day, state, flight, steady, setBack>>

\* The tick returns, or a statement fails and the loop waits for its next tick.
ScanEnd ==
    /\ \/ scan.pc = "announce" /\ scan.rows = <<>>
       \/ scan.pc = "query"
    /\ scan' = NoScan
    /\ flagged' = {} /\ announced' = {} /\ steady' = {} /\ setBack' = {}
    /\ UNCHANGED <<day, state, flight>>

DayPasses ==
    /\ day < LastDay
    /\ day' = day + 1
    /\ UNCHANGED <<state, flight, scan, flagged, announced, steady, setBack>>

CommandStep(c) ==
    \/ CommandSave(c) \/ CommandFail(c)
    \/ \E i \in Billed, ev \in {"issue", "send", "view", "pay", "void"}, to \in States :
          CommandLoad(c, i, ev, to)

OverdueNext ==
    \/ DayPasses \/ ScanStart \/ ScanQuery \/ ScanAnnounce \/ ScanEnd
    \/ \E c \in Commands : CommandStep(c)

OverdueSpec == OverdueInit /\ [][OverdueNext]_overdueVars
-----------------------------------------------------------------------------
\* What a command in flight holds: an edge of the table from the state it read.
FlightVal ==
    {Waiting, Over} \union
    {w \in [pc : {"save"}, inv : Billed, from : States, to : States] :
        \E ev \in {"issue", "send", "view", "pay", "void"} : CommandEdge(ev, w.from, w.to)}

\* Every variable stays within its type.
OverdueTypeOK ==
    /\ day \in 1..LastDay
    /\ state \in [Billed -> States]
    /\ flight \in [Commands -> FlightVal]
    /\ scan.pc \in {"idle", "query", "announce"} /\ scan.at \in 0..LastDay
    /\ scan.queried \in 0..4 /\ scan.rows \in Seq([inv : Billed, state : Payable])
    /\ flagged \subseteq Billed /\ steady \subseteq Billed /\ setBack \subseteq Billed

ScanDone == scan.pc = "announce" /\ scan.rows = <<>>

\* A tick that runs to its end has reported every invoice that was unpaid and
\* past due from its beginning, whatever commands moved the invoice between
\* the four queries (the queries follow the direction of the lifecycle),
\* unless a command wrote over a state it had not read and took the invoice
\* back to an earlier one.  And no invoice is reported or announced before its
\* due date, or announced without being reported.  (mark_overdue_ticker and
\* collect_unpaid_unvoided; that an announcement goes out is not promised.)
NoneMissed ==
    /\ ScanDone => (steady \ setBack) \subseteq flagged
    /\ announced \subseteq flagged
    /\ \A i \in flagged : DueAt[i] # 0 /\ DueAt[i] < day

\* `inv tick overdue`: "Flag Issued | Sent | Viewed | PartiallyPaid invoices
\* past their due date" (docs/reference/cli.md): all of them, also those that
\* a stale write of another command moves behind the queries.
OverdueAllFlagged == ScanDone => steady \subseteq flagged
-----------------------------------------------------------------------------
(* What a tick in flight relies on: the strengthening for the proof *)

ScanVal == [pc : {"idle", "query", "announce"}, at : Nat, queried : 0..4,
            rows : Seq([inv : Billed, state : Payable])]

WasRead(i) == \E k \in DOMAIN scan.rows : scan.rows[k].inv = i

\* A query that has still to run will find the invoice where it is now.
WillBeRead(i) ==
    scan.pc = "query" /\ \E k \in (scan.queried + 1)..Len(ScanOrder) : state[i] = ScanOrder[k]

ScanSound ==
    /\ scan \in ScanVal /\ scan.at <= day
    /\ scan.pc = "query" => scan.queried < Len(ScanOrder)
    /\ announced \subseteq flagged
    /\ \A i \in flagged : DueAt[i] # 0 /\ DueAt[i] < day
    /\ \A i \in steady :
          /\ state[i] \in Payable /\ DueAt[i] # 0 /\ DueAt[i] < scan.at
          /\ i \in flagged \/ i \in setBack \/ WasRead(i) \/ WillBeRead(i)
=============================================================================
