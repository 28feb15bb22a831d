---------------------------- MODULE OutboxRelay ----------------------------
(***************************************************************************)
(* The transactional outbox (crates/bus/src/outbox.rs).  The history rows  *)
(* that commands commit are the outbox; a relay polls the two history      *)
(* tables for rows without published_at, publishes the events that each row*)
(* stands for, and marks the row.  Every server process runs a relay, so   *)
(* several may work on one database, and a pass may end at any point: a    *)
(* publish or a statement fails, or the process stops.                     *)
(***************************************************************************)
EXTENDS InvoiceFsm, Sequences, FiniteSets

CONSTANTS
    Relays,       \* server processes, one relay loop each
    Edges,        \* the transitions that commands record here
    Times,        \* values of occurred_at
    Limit,        \* rows per table and pass
    MaxRows,      \* bound on the history rows
    MaxFailures   \* bound on the passes cut short

Tables == {"invoice", "credit_note"}

\* What a command may record: the invoice transitions, the creation and the
\* issue of a credit note.
RecordedEdge(e) ==
    \/ e.table = "invoice" /\ CommandEdge(e.event, e.from, e.to)
    \/ e.table = "credit_note" /\ e.event = "draft" /\ e.from = "Absent" /\ e.to = "Draft"
    \/ e.table = "credit_note" /\ e.event = "issue" /\ e.from = "Draft" /\ e.to = "Issued"

EdgeVal == [table : Tables, event : {"draft", "issue", "send", "view", "pay", "void"},
            from : States \union {"Absent"}, to : States]

ASSUME OutboxAssumption ==
    /\ Edges \subseteq EdgeVal
    /\ \A e \in Edges : RecordedEdge(e)
    /\ Times \subseteq Nat
    /\ IsFiniteSet(Relays)
    /\ Limit \in Nat \ {0}
    /\ MaxRows \in Nat
    /\ MaxFailures \in Nat

VARIABLES
    log,       \* the history rows of both tables, in commit order
    marked,    \* the rows with published_at set
    copies,    \* how often each event of a row was published
    failures,  \* passes cut short so far
    relay      \* the pass a relay is in

outboxVars == <<log, marked, copies, failures, relay>>
-----------------------------------------------------------------------------
(* From a history row to its events *)

\* reconstruct_invoice_event succeeds; a credit note has one event only.
Reconstructed(h) ==
    \/ h.table = "credit_note"
    \/ h.event \in {"issue", "send", "remind", "view", "void"}
    \/ h.event = "pay" /\ h.to \in {"Paid", "PartiallyPaid"}

\* A row that did not move the state has no mechanic events.
Mechanic(h) ==
    IF h.from # "Absent" /\ h.from # h.to /\ Reconstructed(h)
    THEN <<"proposed", "transitioned", "entered">> ELSE <<>>

\* invoice_domain_topic, credit_note_domain_topic
DomainTopic(h) ==
    IF      h.event = "draft" /\ h.to = "Draft" THEN "drafted"
    ELSE IF h.event = "issue" /\ h.to = "Issued" THEN "issued"
    ELSE IF h.table = "credit_note" THEN "none"
    ELSE IF h.event = "send" /\ h.to = "Sent" THEN "sent"
    ELSE IF h.event = "view" /\ h.to = "Viewed" THEN "viewed"
    ELSE IF h.event = "pay" /\ h.to = "Paid" THEN "paid"
    ELSE IF h.event = "pay" /\ h.to = "PartiallyPaid" THEN "partially_paid"
    ELSE IF h.event = "void" /\ h.to = "Voided" THEN "voided"
    ELSE "none"

\* invoice_row_to_events, credit_note_row_to_events
EventsOf(h) ==
    Mechanic(h) \o (IF DomainTopic(h) = "none" THEN <<>> ELSE <<DomainTopic(h)>>)
-----------------------------------------------------------------------------
LogRow == [table : Tables, event : {"draft", "issue", "send", "view", "pay", "void"},
           from : States \union {"Absent"}, to : States, at : Nat]

\* A pass: the table it is at, the rows it has fetched and not yet marked,
\* and how many events of the first of them it has published.
NoPass == [table |-> "none", batch |-> <<>>, sent |-> 0]

OutboxInit ==
    /\ log = <<>>
    /\ marked = {}
    /\ copies = <<>>
    /\ failures = 0
    /\ relay = [r \in Relays |-> NoPass]

\* A command commits its history row.  occurred_at is the clock of the
\* command, or the received_at of a payment: any instant, not the commit's.
Record(e, t) ==
    LET h == [table |-> e.table, event |-> e.event, from |-> e.from, to |-> e.to, at |-> t]
    IN  /\ Len(log) < MaxRows
        /\ log' = Append(log, h)
        /\ copies' = Append(copies, [j \in 1..Len(EventsOf(h)) |-> 0])
        /\ UNCHANGED <<marked, failures, relay>>

\* WHERE published_at IS NULL
Pending(table) == {n \in 1..Len(log) : log[n].table = table /\ n \notin marked}

\* ORDER BY occurred_at ASC LIMIT n; rows of one instant come in any order.
IsBatch(b, table) ==
    /\ \A i, j \in DOMAIN b : i < j => b[i] # b[j] /\ log[b[i]].at <= log[b[j]].at
    /\ \A n \in Pending(table) :
          (\A i \in DOMAIN b : b[i] # n) => \A i \in DOMAIN b : log[b[i]].at <= log[n].at

\* pending_outbox
Fetch(r, table) ==
    LET size == IF Cardinality(Pending(table)) < Limit THEN Cardinality(Pending(table)) ELSE Limit
    IN  /\ \E b \in [1..size -> Pending(table)] :
              /\ IsBatch(b, table)
              /\ relay' = [relay EXCEPT ![r] = [table |-> table, batch |-> b, sent |-> 0]]
        /\ UNCHANGED <<log, marked, copies, failures>>

\* The loop ticks and a pass begins with the invoice rows ...
StartPass(r) == relay[r].table = "none" /\ Fetch(r, "invoice")

\* ... goes on with the credit-note rows ...
NextTable(r) ==
    relay[r].table = "invoice" /\ relay[r].batch = <<>> /\ Fetch(r, "credit_note")

\* ... and ends.
EndPass(r) ==
    /\ relay[r].table = "credit_note" /\ relay[r].batch = <<>>
    /\ relay' = [relay EXCEPT ![r] = NoPass]
    /\ UNCHANGED <<log, marked, copies, failures>>

\* One publish of the row at the head of the batch.
PublishEvent(r) ==
    LET n == Head(relay[r].batch)
        j == relay[r].sent + 1
    IN  /\ relay[r].batch # <<>>
        /\ j <= Len(EventsOf(log[n]))
        /\ copies' = [copies EXCEPT ![n][j] = @ + 1]
        /\ relay' = [relay EXCEPT ![r].sent = j]
        /\ UNCHANGED <<log, marked, failures>>

\* Mutants of Mark: the row is marked when the relay takes it up; the count of
\* published events is not reset.
MarkFirst(r) ==
    LET n == Head(relay[r].batch)
    IN  /\ relay[r].batch # <<>>
        /\ marked' = marked \union {n}
        /\ relay' = IF relay[r].sent = Len(EventsOf(log[n]))
                    THEN [relay EXCEPT ![r].batch = Tail(@), ![r].sent = 0] ELSE relay
        /\ UNCHANGED <<log, copies, failures>>
MarkUnreset(r) ==
    LET n == Head(relay[r].batch)
    IN  /\ relay[r].batch # <<>> /\ relay[r].sent >= Len(EventsOf(log[n]))
        /\ marked' = marked \union {n}
        /\ relay' = [relay EXCEPT ![r].batch = Tail(@)]
        /\ UNCHANGED <<log, copies, failures>>

\* mark_published, once all events of the row are out.
Mark(r) ==
    LET n == Head(relay[r].batch)
    IN  /\ relay[r].batch # <<>>
        /\ relay[r].sent = Len(EventsOf(log[n]))
        /\ marked' = marked \union {n}
        /\ relay' = [relay EXCEPT ![r].batch = Tail(@), ![r].sent = 0]
        /\ UNCHANGED <<log, copies, failures>>

\* Mutant of Abort: the loop goes on with the next row.
AbortSkips(r) ==
    /\ relay[r].table # "none" /\ relay[r].batch # <<>>
    /\ failures < MaxFailures
    /\ failures' = failures + 1
    /\ relay' = [relay EXCEPT ![r].batch = Tail(@), ![r].sent = 0]
    /\ UNCHANGED <<log, marked, copies>>

\* A publish, a query or a mark fails and the ? ends the pass, or the process
\* stops; what was published stays published.
Abort(r) ==
    /\ relay[r].table # "none"
    /\ failures < MaxFailures
    /\ failures' = failures + 1
    /\ relay' = [relay EXCEPT ![r] = NoPass]
    /\ UNCHANGED <<log, marked, copies>>

RelayStep(r) == StartPass(r) \/ NextTable(r) \/ EndPass(r) \/ PublishEvent(r) \/ Mark(r)

OutboxNext ==
    \/ \E e \in Edges, t \in Times : Record(e, t)
    \/ \E r \in Relays : RelayStep(r) \/ Abort(r)

\* The server's loop ticks for ever and awaits each pass; nothing obliges a
\* pass to fail.
OutboxFairness == \A r \in Relays : WF_outboxVars(RelayStep(r))

OutboxSpec == OutboxInit /\ [][OutboxNext]_outboxVars /\ OutboxFairness
-----------------------------------------------------------------------------
\* A pass never counts more events than its row has.
PassOK(r) ==
    /\ relay[r].table \in Tables \union {"none"}
    /\ relay[r].batch \in Seq(1..Len(log))
    /\ relay[r].sent \in Nat
    /\ relay[r].batch = <<>> => relay[r].sent = 0
    /\ relay[r].batch # <<>> => relay[r].sent <= Len(EventsOf(log[Head(relay[r].batch)]))

\* Every variable stays within its type.
OutboxTypeOK ==
    /\ log \in Seq(LogRow)
    /\ marked \subseteq 1..Len(log)
    /\ DOMAIN copies = 1..Len(log)
    /\ \A n \in 1..Len(log) : copies[n] \in [1..Len(EventsOf(log[n])) -> Nat]
    /\ failures \in 0..MaxFailures
    /\ \A r \in Relays : PassOK(r)

\* At least once: a row is marked only when each of its events has been
\* published, its domain event among them, whatever passes were cut short and
\* whoever marked it.
MarkedDelivered ==
    \A n \in marked :
        /\ DomainTopic(log[n]) # "none"
        /\ \A j \in 1..Len(EventsOf(log[n])) : copies[n][j] > 0

-----------------------------------------------------------------------------
(* What a pass relies on: the strengthening for the proofs *)

PassVal == [table : Tables \union {"none"}, batch : Seq(Nat), sent : Nat]

\* The containers that OutboxTypeOK describes entry by entry.
Shapes ==
    /\ copies \in Seq(UNION {[1..k -> Nat] : k \in Nat})
    /\ relay \in [Relays -> PassVal]
    /\ \A n \in 1..Len(log) : RecordedEdge(log[n])

\* The events that a pass has counted for its row are out.
CountedOut(r) ==
    relay[r].batch # <<>> =>
        \A j \in 1..relay[r].sent : copies[Head(relay[r].batch)][j] > 0

\* An earlier row of the table, committed before a row in the batch, is marked
\* already or comes before it in the batch.
Earlier(m, n) == m < n /\ log[m].table = log[n].table /\ log[m].at < log[n].at

InTurn(r) ==
    \A i \in 1..Len(relay[r].batch) : \A m \in 1..Len(log) :
        Earlier(m, relay[r].batch[i]) =>
            m \in marked \/ \E k \in 1..(i - 1) : relay[r].batch[k] = m

PassSound == \A r \in Relays : CountedOut(r) /\ InTurn(r)
-----------------------------------------------------------------------------
(* Refinement *)

\* A history row as its readers see it.
Seen(h) == [stream |-> h.table, at |-> h.at, size |-> Len(EventsOf(h))]

SeenRows == [n \in DOMAIN log |-> Seen(log[n])]

\* Published at least once.
SeenEvents ==
    UNION {{<<n, j>> : j \in {i \in DOMAIN copies[n] : copies[n][i] > 0}} : n \in DOMAIN log}

Delivery == INSTANCE OutboxDelivery WITH
    Rows <- {Seen([table |-> e.table, event |-> e.event, from |-> e.from, to |-> e.to, at |-> t]) :
                 e \in Edges, t \in Times},
    committed <- SeenRows,
    delivered <- SeenEvents,
    settled <- marked

\* The relays, with their batches, limits and passes cut short, deliver what
\* the outbox promises: every event at least once, in the order of the rows and
\* of a row's events, nothing marked half done, and everything in the end.
DeliveryRefined == Delivery!Spec
=============================================================================
