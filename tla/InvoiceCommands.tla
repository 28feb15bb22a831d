--------------------------- MODULE InvoiceCommands ---------------------------
(***************************************************************************)
(* The command layer over the invoice store (crates/commands, the invoice  *)
(* part of crates/store, and the two handlers of crates/api that write or  *)
(* dispatch on their own: view and the webhook send).                      *)
(*                                                                         *)
(* A worker is one request in flight: an HTTP handler, a CLI process, a    *)
(* ticker.  Each command reads the invoice outside any transaction, decides*)
(* in memory what to write, then writes the WHOLE row back in one          *)
(* transaction together with a history row; the pauses between those steps *)
(* are the steps of the worker here.  A worker may stop at any of them     *)
(* (crash, dropped connection, failed write).                              *)
(***************************************************************************)
EXTENDS InvoiceFsm, Sequences, FiniteSets

CONSTANTS
    Workers,      \* requests that can be in flight together
    Invoices,     \* invoice ids
    NoInvoice,    \* no invoice: the request of an idle worker
    Keys,         \* idempotency keys
    NoKey,        \* idempotency_key: None
    Subtotals,    \* line totals a draft may have
    Taxes,        \* what resolve_tax may add at issue
    Amounts,      \* payment amounts asked for, zero included
    Dests,        \* destinations of a send: "local" (file, stdout), "webhook"
    BlobStore,    \* is a blob store configured?
    MaxInstant,   \* bound on the clock
    YearOf,       \* calendar year of an instant
    FirstSecond,  \* instants within the first second of their year
    MaxCommands   \* bound on the commands ever started

Instants == 1..MaxInstant

ASSUME ConstantsAssumption ==
    /\ NoKey \notin Keys
    /\ NoInvoice \notin Invoices
    /\ IsFiniteSet(Invoices)
    /\ Subtotals \subseteq Nat
    /\ Taxes \subseteq Nat
    /\ Amounts \subseteq Nat
    /\ Dests \subseteq {"local", "webhook"}
    /\ BlobStore \in BOOLEAN
    /\ MaxInstant \in Nat \ {0}
    /\ YearOf \in [Instants -> Nat \ {0}]
    /\ \A s, t \in Instants : s <= t => YearOf[s] <= YearOf[t]
    /\ FirstSecond \subseteq Instants
    /\ MaxCommands \in Nat

VARIABLES
    row,        \* the invoices table, by id
    history,    \* the invoice_state_history table, in commit order
    sendKeys,   \* the send_idempotency table
    blobs,      \* the documents in the blob store
    announced,  \* events published synchronously after a commit
    delivered,  \* how often a document left through a sink or a webhook
    receipts,   \* ghost: what the pay rows of history add up to, by invoice
    clock,      \* the injected clock
    started,    \* commands started so far
    pc,         \* where a worker is
    req,        \* the command a worker runs
    from,       \* the state its snapshot was in
    next        \* the row it will write

dbVars == <<row, history, sendKeys, receipts>>
outVars == <<blobs, announced, delivered>>
wrkVars == <<pc, req, from, next>>
vars == <<dbVars, outVars, clock, started, wrkVars>>
-----------------------------------------------------------------------------
KeyOpt == Keys \union {NoKey}

NoNumber == [year |-> 0, n |-> 0]
NumberVal == [year : Nat, n : Nat]

\* A rendered document: what it shows of its invoice.
Pdf == [number : NumberVal, total : Nat]
NoPdf == [number |-> NoNumber, total |-> 0]

\* One row of invoices.  stamps holds the nullable timestamps that are set
\* (sent_at, viewed_at, paid_at, voided_at); issuedAt is 0 when null; pdf is
\* the document that pdf_blob_ref leads to, NoPdf when null.
Row == [state : States \union {"Absent"}, number : NumberVal, issuedAt : Nat,
        total : Nat, paid : Nat, key : KeyOpt,
        stamps : SUBSET {"sent", "viewed", "paid", "voided"}, pdf : Pdf]

\* No row under this id.
NoRow == [state |-> "Absent", number |-> NoNumber, issuedAt |-> 0, total |-> 0,
          paid |-> 0, key |-> NoKey, stamps |-> {}, pdf |-> NoPdf]

\* A command.  amount is the subtotal of a draft and the amount of a payment.
Request == [cmd : {"none", "draft", "issue", "send", "view", "pay", "void"},
            inv : Invoices \union {NoInvoice}, key : KeyOpt, amount : Nat,
            dest : {"none", "local", "webhook"}]
NoRequest == [cmd |-> "none", inv |-> NoInvoice, key |-> NoKey, amount |-> 0,
              dest |-> "none"]

\* One row of invoice_state_history.  from is "Absent" for from_state: None;
\* amount is metadata.amount; key and dest are the ones of the request (the
\* table keeps them for a send only: send_idempotency and metadata).
HistoryRow == [inv : Invoices, from : States \union {"Absent"}, to : States,
               event : {"draft", "issue", "send", "view", "pay", "void"},
               key : KeyOpt, amount : Nat, dest : {"none", "local", "webhook"}]

\* An event on the in-process bus.
BusEvent == [inv : Invoices, from : States \union {"Absent"}, to : States,
             event : {"draft", "issue", "send", "view", "pay", "void"}]

PcVal == {"idle", "lookup", "load", "count", "sink", "commit", "publish", "dispatch"}

Init ==
    /\ row = [i \in Invoices |-> NoRow]
    /\ history = <<>>
    /\ sendKeys = {}
    /\ blobs = [i \in Invoices |-> {}]
    /\ announced = {}
    /\ delivered = [i \in Invoices |-> [k \in KeyOpt |-> 0]]
    /\ receipts = [i \in Invoices |-> 0]
    /\ clock = 1
    /\ started = 0
    /\ pc = [w \in Workers |-> "idle"]
    /\ req = [w \in Workers |-> NoRequest]
    /\ from = [w \in Workers |-> "Absent"]
    /\ next = [w \in Workers |-> NoRow]
-----------------------------------------------------------------------------
(* Starting and ending a command *)

\* The command returns, with a result or with an error.
Finish(w) ==
    /\ pc' = [pc EXCEPT ![w] = "idle"]
    /\ req' = [req EXCEPT ![w] = NoRequest]
    /\ from' = [from EXCEPT ![w] = "Absent"]
    /\ next' = [next EXCEPT ![w] = NoRow]

\* A command passes Input::validate and begins at a step of its own.
Begin(w, r, step) ==
    /\ pc[w] = "idle"
    /\ started < MaxCommands
    /\ started' = started + 1
    /\ pc' = [pc EXCEPT ![w] = step]
    /\ req' = [req EXCEPT ![w] = r]
    /\ UNCHANGED <<dbVars, outVars, clock, from, next>>

Cmd(c, i, k, a, d) == [cmd |-> c, inv |-> i, key |-> k, amount |-> a, dest |-> d]

\* InvoiceId::new: an id in no row and in no other draft under way.
Fresh(i) ==
    /\ row[i].state = "Absent"
    /\ \A v \in Workers : req[v].cmd = "draft" => req[v].inv # i

StartDraft(w) == \E i \in Invoices, k \in KeyOpt, s \in Subtotals :
    Fresh(i) /\ Begin(w, Cmd("draft", i, k, s, "none"), "lookup")

StartIssue(w) == \E i \in Invoices :
    Begin(w, Cmd("issue", i, NoKey, 0, "none"), "load")

StartSend(w) == \E i \in Invoices, k \in KeyOpt, d \in Dests :
    Begin(w, Cmd("send", i, k, 0, d), IF k = NoKey THEN "load" ELSE "lookup")

StartView(w) == \E i \in Invoices :
    Begin(w, Cmd("view", i, NoKey, 0, "none"), "load")

\* MarkPaidInput::validate rejects an amount that is not positive.
StartPay(w) == \E i \in Invoices, k \in KeyOpt, a \in Amounts :
    a > 0 /\ Begin(w, Cmd("pay", i, k, a, "none"), "load")

StartVoid(w) == \E i \in Invoices :
    Begin(w, Cmd("void", i, NoKey, 0, "none"), "load")

\* The worker's process dies, its client goes away, or a statement, a render,
\* a sink or a dispatch fails: whatever is not committed is forgotten.
Fail(w) ==
    /\ pc[w] # "idle"
    /\ Finish(w)
    /\ UNCHANGED <<dbVars, outVars, clock, started>>
-----------------------------------------------------------------------------
(* Reading: the idempotency look-ups and the snapshot a command works on *)

\* draft_invoice: a known key replays; otherwise the new row is built.
DraftLookup(w) ==
    LET r == req[w]
        replay == r.key # NoKey /\ \E i \in Invoices : row[i].key = r.key
    IN  /\ pc[w] = "lookup" /\ r.cmd = "draft"
        /\ \/ replay /\ Finish(w)
           \/ /\ ~replay
              /\ pc' = [pc EXCEPT ![w] = "commit"]
              /\ next' = [next EXCEPT ![w] =
                    [NoRow EXCEPT !.state = "Draft", !.total = r.amount, !.key = r.key]]
              /\ UNCHANGED <<req, from>>
        /\ UNCHANGED <<dbVars, outVars, clock, started>>

\* try_replay: a hit re-renders and returns; the webhook handler dispatches
\* what it gets back without looking at idempotency_replay.
SendLookup(w) ==
    LET r == req[w]
        replay == <<r.inv, r.key>> \in sendKeys
    IN  /\ pc[w] = "lookup" /\ r.cmd = "send"
        /\ \/ replay /\ r.dest = "local" /\ Finish(w)
           \/ /\ replay /\ r.dest = "webhook"
              /\ pc' = [pc EXCEPT ![w] = "dispatch"]
              /\ UNCHANGED <<req, from, next>>
           \/ /\ ~replay
              /\ pc' = [pc EXCEPT ![w] = "load"]
              /\ UNCHANGED <<req, from, next>>
        /\ UNCHANGED <<dbVars, outVars, clock, started>>

\* Mutant of Load: the verdict of the gate is ignored.
LoadUngated(w, cmd, target, updated, step) ==
    LET s == row[req[w].inv]
    IN  /\ pc[w] = "load" /\ req[w].cmd = cmd
        /\ \/ s.state = "Absent" /\ Finish(w)
           \/ /\ s.state # "Absent"
              /\ pc' = [pc EXCEPT ![w] = step]
              /\ from' = [from EXCEPT ![w] = s.state]
              /\ next' = [next EXCEPT ![w] = updated]
              /\ UNCHANGED req
        /\ UNCHANGED <<dbVars, outVars, clock, started>>

\* InvoiceRepo::get and the gate on the state it returns: a missing invoice
\* or a rejected event ends the command, otherwise the row to write is built
\* from the snapshot.
Load(w, cmd, target, updated, step) ==
    LET r == req[w]
        s == row[r.inv]
    IN  /\ pc[w] = "load" /\ r.cmd = cmd
        /\ \/ /\ s.state = "Absent" \/ target \notin States
              /\ Finish(w)
           \/ /\ s.state # "Absent" /\ target \in States
              /\ pc' = [pc EXCEPT ![w] = step]
              /\ from' = [from EXCEPT ![w] = s.state]
              /\ next' = [next EXCEPT ![w] = updated]
              /\ UNCHANGED req
        /\ UNCHANGED <<dbVars, outVars, clock, started>>

IssueTarget(s) == NextState(s.state, "Issue", s.paid, s.total)

\* The number, the totals and the document are filled in by IssueCount.
IssueLoad(w) ==
    LET s == row[req[w].inv]
    IN  Load(w, "issue", IssueTarget(s), [s EXCEPT !.state = IssueTarget(s)], "count")

\* Mutants of SendTarget: a viewed invoice may be sent again; anything but a
\* voided invoice may be sent.
SendTargetViewed(s) == IF s.state \in {"Issued", "Sent", "Viewed"} THEN "Sent" ELSE "Illegal"
SendTargetAny(s) == IF s.state = "Voided" THEN "Illegal" ELSE "Sent"

\* prepare_send: Sent to Sent is let through although the table rejects it.
SendTarget(s) ==
    IF s.state \in {"Issued", "Viewed"} THEN NextState(s.state, "Send", s.paid, s.total)
    ELSE IF s.state = "Sent" THEN "Sent"
    ELSE "Illegal"

SendUpdated(s) ==
    [s EXCEPT !.state = SendTarget(s), !.stamps = @ \union {"sent"}]

SendLoad(w) ==
    LET s == row[req[w].inv]
    IN  Load(w, "send", SendTarget(s), SendUpdated(s),
             IF req[w].dest = "local" THEN "sink" ELSE "commit")

\* view_invoice: only a Sent invoice is written; any other is just rendered.
ViewTarget(s) == IF s.state = "Sent" THEN "Viewed" ELSE "Illegal"

ViewUpdated(s) ==
    [s EXCEPT !.state = ViewTarget(s), !.stamps = @ \union {"viewed"}]

ViewLoad(w) ==
    LET s == row[req[w].inv]
    IN  Load(w, "view", ViewTarget(s), ViewUpdated(s), "commit")

\* Mutant of PayTarget: the gate sees this payment alone.
PayTargetAlone(s, amount) == NextState(s.state, "Pay", amount, s.total)

\* mark_paid: the gate sees the cumulative amount.
PayTarget(s, amount) == NextState(s.state, "Pay", s.paid + amount, s.total)

\* Mutant of PayUpdated: the payment replaces the amount paid.
PayUpdatedReplaced(s, amount) ==
    [s EXCEPT !.state = PayTarget(s, amount), !.paid = amount]

PayUpdated(s, amount) ==
    [s EXCEPT !.state = PayTarget(s, amount), !.paid = @ + amount,
              !.stamps = IF PayTarget(s, amount) = "Paid" THEN @ \union {"paid"} ELSE @]

PayLoad(w) ==
    LET s == row[req[w].inv]
    IN  Load(w, "pay", PayTarget(s, req[w].amount), PayUpdated(s, req[w].amount), "commit")

VoidTarget(s) == NextState(s.state, "Void", s.paid, s.total)

VoidUpdated(s) ==
    [s EXCEPT !.state = VoidTarget(s), !.stamps = @ \union {"voided"}]

VoidLoad(w) ==
    LET s == row[req[w].inv]
    IN  Load(w, "void", VoidTarget(s), VoidUpdated(s), "commit")
-----------------------------------------------------------------------------
(* Between the snapshot and the transaction *)

\* Which year an issued_at counts for.  The column holds to_rfc3339(), which
\* writes "+00:00" after the seconds, and is compared as a string with bounds
\* that write "Z": the first second of a year sorts below its lower bound.
CountedYear(t) == IF t \in FirstSecond THEN YearOf[t] - 1 ELSE YearOf[t]

IssuedIn(y) == {i \in Invoices : row[i].issuedAt # 0 /\ CountedYear(row[i].issuedAt) = y}

\* count_invoices_issued_in_year
CountIssued(y) == Cardinality(IssuedIn(y))

\* Mutant of NextNumber: the count itself is the number.
NextNumberUncounted == [year |-> YearOf[clock], n |-> CountIssued(YearOf[clock])]

\* INV-YYYY-NNNN
NextNumber == [year |-> YearOf[clock], n |-> CountIssued(YearOf[clock]) + 1]

\* The second half of issue_invoice before its transaction: the clock is
\* read, tax is resolved, the number is allocated by counting rows, and the
\* document is rendered and put in the blob store, if there is one.
IssueCount(w) ==
    /\ pc[w] = "count"
    /\ \E tax \in Taxes :
         LET i == req[w].inv
             total == next[w].total + tax
             pdf == [number |-> NextNumber, total |-> total]
         IN  /\ next' = [next EXCEPT ![w].number = NextNumber, ![w].total = total,
                           ![w].issuedAt = clock, ![w].pdf = IF BlobStore THEN pdf ELSE @]
             /\ blobs' = [blobs EXCEPT ![i] = IF BlobStore THEN @ \union {pdf} ELSE @]
    /\ pc' = [pc EXCEPT ![w] = "commit"]
    /\ UNCHANGED <<dbVars, announced, delivered, clock, started, req, from>>

\* send_invoice writes the document to the file or to stdout before it
\* records anything.
WriteSink(w) ==
    /\ pc[w] = "sink"
    /\ pc' = [pc EXCEPT ![w] = "commit"]
    /\ delivered' = [delivered EXCEPT ![req[w].inv][req[w].key] = @ + 1]
    /\ UNCHANGED <<dbVars, blobs, announced, clock, started, req, from, next>>
-----------------------------------------------------------------------------
(* The transaction and what follows it *)

\* Mutant of UniqueColumns: number has no constraint.
UniqueKeyOnly(i, r) ==
    \A j \in Invoices \ {i} : r.key # NoKey => row[j].key # r.key

\* UNIQUE (number) and UNIQUE (idempotency_key); a null never clashes.
UniqueColumns(i, r) ==
    \A j \in Invoices \ {i} :
        /\ r.number # NoNumber => row[j].number # r.number
        /\ r.key # NoKey => row[j].key # r.key

\* Mutant of SendKeyFree: INSERT OR IGNORE.
SendKeyIgnored(r) == TRUE

\* PRIMARY KEY (invoice_id, idempotency_key) of send_idempotency.
SendKeyFree(r) == r.cmd = "send" /\ r.key # NoKey => <<r.inv, r.key>> \notin sendKeys

\* Mutant of NewHistoryRow: from_state is read after the row was changed.
NewHistoryRowLate(w) ==
    LET r == req[w]
    IN  [inv |-> r.inv, from |-> next[w].state, to |-> next[w].state, event |-> r.cmd,
         key |-> r.key, amount |-> r.amount, dest |-> r.dest]

\* The history row of a transition.
NewHistoryRow(w) ==
    LET r == req[w]
    IN  [inv |-> r.inv, from |-> from[w], to |-> next[w].state, event |-> r.cmd,
         key |-> r.key, amount |-> r.amount, dest |-> r.dest]

\* Mutant of SaveInTx: amount_paid = amount_paid + excluded.amount_paid.
SaveInTxAdding(w) ==
    row' = [row EXCEPT ![req[w].inv] = [next[w] EXCEPT !.paid = @ + row[req[w].inv].paid]]

\* save_in_tx upserts every column of the row, whatever the table now holds.
SaveInTx(w) == row' = [row EXCEPT ![req[w].inv] = next[w]]

\* Mutant of AppendHistory: the view handler writes no history row.
AppendHistoryNoView(w) ==
    history' = IF req[w].cmd = "view" THEN history ELSE Append(history, NewHistoryRow(w))

AppendHistory(w) == history' = Append(history, NewHistoryRow(w))

InsertSendKey(w) ==
    sendKeys' = IF req[w].cmd = "send" /\ req[w].key # NoKey
                THEN sendKeys \union {<<req[w].inv, req[w].key>>} ELSE sendKeys

\* Mutant of Commit: a failed transaction is not reported to the command.
CommitUnchecked(w, cmd) ==
    LET r == req[w]
        ok == UniqueColumns(r.inv, next[w]) /\ SendKeyFree(r)
    IN  /\ pc[w] = "commit" /\ r.cmd = cmd
        /\ \/ /\ ok
              /\ SaveInTx(w) /\ AppendHistory(w) /\ InsertSendKey(w)
              /\ receipts' = [receipts EXCEPT ![r.inv] =
                                  IF cmd = "pay" THEN @ + r.amount ELSE @]
           \/ ~ok /\ UNCHANGED dbVars
        /\ pc' = [pc EXCEPT ![w] = "publish"]
        /\ UNCHANGED <<outVars, clock, started, req, from, next>>

\* One transaction: invoice row, history row and, for a keyed send, the key.
\* A constraint that does not hold aborts all of it and fails the command.
Commit(w, cmd) ==
    LET r == req[w]
        ok == UniqueColumns(r.inv, next[w]) /\ SendKeyFree(r)
    IN  /\ pc[w] = "commit" /\ r.cmd = cmd
        /\ \/ /\ ok
              /\ SaveInTx(w) /\ AppendHistory(w) /\ InsertSendKey(w)
              /\ receipts' = [receipts EXCEPT ![r.inv] =
                                  IF cmd = "pay" THEN @ + r.amount ELSE @]
              /\ pc' = [pc EXCEPT ![w] = "publish"]
              /\ UNCHANGED <<req, from, next>>
           \/ /\ ~ok
              /\ Finish(w)
              /\ UNCHANGED dbVars
        /\ UNCHANGED <<outVars, clock, started>>

DraftCommit(w) == Commit(w, "draft")
IssueCommit(w) == Commit(w, "issue")
SendCommit(w) == Commit(w, "send")
ViewCommit(w) == Commit(w, "view")
PayCommit(w) == Commit(w, "pay")
VoidCommit(w) == Commit(w, "void")

\* try_publish is best effort: an error is logged and the command goes on.
Publish(w) ==
    LET r == req[w]
        e == [inv |-> r.inv, from |-> from[w], to |-> next[w].state, event |-> r.cmd]
    IN  /\ pc[w] = "publish"
        /\ announced' \in {announced, announced \union {e}}
        /\ \/ /\ r.dest = "webhook"
              /\ pc' = [pc EXCEPT ![w] = "dispatch"]
              /\ UNCHANGED <<req, from, next>>
           \/ r.dest # "webhook" /\ Finish(w)
        /\ UNCHANGED <<dbVars, blobs, delivered, clock, started>>

\* send_webhook posts the document after the command has committed.
Dispatch(w) ==
    /\ pc[w] = "dispatch"
    /\ delivered' = [delivered EXCEPT ![req[w].inv][req[w].key] = @ + 1]
    /\ Finish(w)
    /\ UNCHANGED <<dbVars, blobs, announced, clock, started>>

\* Time passes.
Tick ==
    /\ clock < MaxInstant
    /\ clock' = clock + 1
    /\ UNCHANGED <<dbVars, outVars, started, wrkVars>>

Start(w) ==
    \/ StartDraft(w) \/ StartIssue(w) \/ StartSend(w)
    \/ StartView(w)  \/ StartPay(w)   \/ StartVoid(w)

Read(w) ==
    \/ DraftLookup(w) \/ SendLookup(w)
    \/ IssueLoad(w)   \/ SendLoad(w) \/ ViewLoad(w) \/ PayLoad(w) \/ VoidLoad(w)

Write(w) ==
    \/ DraftCommit(w) \/ IssueCommit(w) \/ SendCommit(w)
    \/ ViewCommit(w)  \/ PayCommit(w)   \/ VoidCommit(w)

Next ==
    \/ Tick
    \/ \E w \in Workers :
         \/ Start(w) \/ Read(w) \/ Write(w) \/ Fail(w)
         \/ IssueCount(w) \/ WriteSink(w) \/ Publish(w) \/ Dispatch(w)

Spec == Init /\ [][Next]_vars
-----------------------------------------------------------------------------
(* What holds however many commands run at once *)

\* Every variable stays within its type.
TypeOK ==
    /\ row \in [Invoices -> Row]
    /\ history \in Seq(HistoryRow)
    /\ sendKeys \subseteq Invoices \X Keys
    /\ blobs \in [Invoices -> SUBSET Pdf]
    /\ announced \subseteq BusEvent
    /\ delivered \in [Invoices -> [KeyOpt -> Nat]]
    /\ receipts \in [Invoices -> Nat]
    /\ clock \in Instants
    /\ started \in 0..MaxCommands
    /\ pc \in [Workers -> PcVal]
    /\ req \in [Workers -> Request]
    /\ from \in [Workers -> States \union {"Absent"}]
    /\ next \in [Workers -> Row]

\* A row whose columns agree with each other.
Coherent(r) ==
    /\ r.state = "Absent" => r = NoRow
    /\ r.number = NoNumber <=> r.state \in {"Absent", "Draft"}
    /\ r.issuedAt = 0 <=> r.number = NoNumber
    /\ r.state \in {"Draft", "Issued", "Sent", "Viewed"} => r.paid = 0
    /\ r.state = "PartiallyPaid" => 0 < r.paid /\ r.paid < r.total
    /\ r.state = "Paid" => 0 < r.paid /\ r.total <= r.paid
    /\ r.state = "Voided" => r.paid = 0 \/ r.paid < r.total
    /\ "paid" \in r.stamps <=> r.state = "Paid"
    /\ "voided" \in r.stamps <=> r.state = "Voided"
    /\ r.state = "Sent" => "sent" \in r.stamps
    /\ r.state = "Viewed" => {"sent", "viewed"} \subseteq r.stamps
    /\ r.pdf = IF BlobStore /\ r.number # NoNumber
               THEN [number |-> r.number, total |-> r.total] ELSE NoPdf

\* Whatever snapshot a command worked on, the row it writes is consistent:
\* state, amount paid against total, number, timestamps and the document all
\* belong together (the full-row save_in_tx never mixes two commands' columns).
RowCoherent == \A i \in Invoices : Coherent(row[i])

\* The audit trail agrees with the table: the state of an invoice is the
\* to_state of the last history row committed for it (mutation and history
\* row are one transaction in every command).
AuditAgrees ==
    \A i \in Invoices : row[i].state # "Absent" =>
        \E n \in 1..Len(history) :
            /\ history[n].inv = i /\ history[n].to = row[i].state
            /\ \A m \in (n+1)..Len(history) : history[m].inv # i

\* The invoice reached state s by one of the first n history rows.
Reached(i, s, n) == \E m \in 1..n : history[m].inv = i /\ history[m].to = s

\* Every history row is a transition its command may make, from a state that
\* the invoice really had earlier in the trail (it may be stale by the time of
\* the commit): the gates of the commands see committed states only.
AuditTrailSound ==
    \A n \in 1..Len(history) :
        LET h == history[n]
        IN  /\ CommandEdge(h.event, h.from, h.to)
            /\ h.event # "draft" => Reached(h.inv, h.from, n - 1)

\* An invoice never shows more money than its payments brought in: a stale
\* write may lose a payment, it cannot count one twice.
NoMoneyInvented == \A i \in Invoices : row[i].paid <= receipts[i]

\* One key, one effect: two invoices never share a draft's idempotency_key,
\* and an (invoice, key) pair is behind at most one recorded send, although
\* the look-up and the insert are separate steps.
AtMostOncePerKey ==
    /\ \A i, j \in Invoices :
          i # j /\ row[i].key # NoKey => row[i].key # row[j].key
    /\ \A m, n \in 1..Len(history) :
          /\ history[m].event = "send" /\ history[n].event = "send"
          /\ history[m].inv = history[n].inv
          /\ history[m].key = history[n].key /\ history[m].key # NoKey
          => m = n

\* Two invoices never carry the same number.
UniqueNumbers ==
    \A i, j \in Invoices :
        i # j /\ row[i].number # NoNumber => row[i].number # row[j].number

\* Nothing is announced on the bus that is not in the audit trail.
AnnouncedCommitted ==
    \A e \in announced : \E n \in 1..Len(history) :
        /\ history[n].inv = e.inv /\ history[n].event = e.event
        /\ history[n].from = e.from /\ history[n].to = e.to

\* A send to a file or to stdout is recorded only after the document was
\* written there.
DeliveredBeforeRecorded ==
    \A n \in 1..Len(history) :
        history[n].event = "send" /\ history[n].dest = "local"
            => delivered[history[n].inv][history[n].key] > 0

\* The document a row refers to is in the blob store: the put precedes the
\* transaction, so a crash leaves an unused blob, never a dangling reference.
PdfBacked == \A i \in Invoices : row[i].pdf # NoPdf => row[i].pdf \in blobs[i]

\* The tables and what left the system agree, wherever a command stops between
\* its sink, its blob, its transaction and its publish: nothing is announced
\* before it is committed, recorded as sent before it is written, or referred
\* to before it is stored.
RecordedEffects == AnnouncedCommitted /\ DeliveredBeforeRecorded /\ PdfBacked

\* An issued invoice never becomes a draft again, nor loses its number or its
\* issue date, even to a command that read it long before.
IssuedForGood ==
    [][\A i \in Invoices : row[i].number # NoNumber =>
          row'[i].number # NoNumber /\ row'[i].issuedAt # 0]_vars
-----------------------------------------------------------------------------
(* What holds when commands run one at a time *)

\* amount_paid is the sum of the payments received.
LedgerExact == \A i \in Invoices : row[i].paid = receipts[i]

\* Paid and Voided are terminal: nothing changes such a row any more.
TerminalForGood ==
    [][\A i \in Invoices : row[i].state \in Terminal => row'[i] = row[i]]_vars

\* The history of an invoice is a chain: each row starts from the state that
\* the row before it reached.
HistoryChain ==
    \A n \in 1..Len(history) :
        LET before == {m \in 1..(n-1) : history[m].inv = history[n].inv}
        IN  IF before = {} THEN history[n].from = "Absent"
            ELSE \E m \in before : /\ \A l \in before : l <= m
                                   /\ history[m].to = history[n].from

\* The invoices that carry a number of a year.
NumberedIn(y) == {i \in Invoices : row[i].number.year = y}

\* The numbers of a year have no gap, whatever is refused, cut short or counted
\* for the wrong year (issue_invoice).  That the next one is free is more than
\* the code gives: see NextNumberFree.
NumbersDense ==
    \A y \in {YearOf[t] : t \in Instants} :
        {row[i].number.n : i \in NumberedIn(y)} = 1..Cardinality(NumberedIn(y))

\* An invoice as its bookkeeper sees it: draft, open, settled or void, with the
\* total of its row and the payments that the history records.
StatusOf(state) ==
    CASE state = "Absent" -> "none"
      [] state = "Draft" -> "draft"
      [] state \in Payable -> "open"
      [] state = "Paid" -> "settled"
      [] state = "Voided" -> "void"

Books ==
    [i \in Invoices |-> [status |-> StatusOf(row[i].state), due |-> row[i].total,
                         received |-> receipts[i]]]

Accounts == INSTANCE Receivables WITH account <- Books

\* A command, for all its look-ups, snapshots, failures and replays, is one
\* posting on its invoice's account or none: the amount due is fixed at issue,
\* payments add up until they reach it and settle the invoice just then, and a
\* settled or voided account is closed.  An account with a partial payment may be
\* voided, as void_invoice does and the documentation denies: see VoidedUnpaid.
AccountsKept == Accounts!Spec
-----------------------------------------------------------------------------
(* What the documentation says and the code does not do *)

\* lib.rs: every command checks idempotency_key before mutating.
PayOncePerKey ==
    \A m, n \in 1..Len(history) :
        /\ history[m].event = "pay" /\ history[n].event = "pay"
        /\ history[m].inv = history[n].inv
        /\ history[m].key = history[n].key /\ history[m].key # NoKey
        => m = n

\* issue.rs: the bounds of a year sort correctly as text, so that the number
\* counted next is one that no invoice carries.
NextNumberFree == \A i \in Invoices : row[i].number # NextNumber

\* void.rs: a void comes before any payment; after one it is rejected.
VoidedUnpaid == \A i \in Invoices : row[i].state = "Voided" => row[i].paid = 0

\* send.rs: on a replay the caller skips the dispatch, so that a document goes
\* to a webhook at most once per key.
PostedOncePerKey == \A i \in Invoices, k \in Keys : delivered[i][k] <= 1
-----------------------------------------------------------------------------
(* What a worker in flight relies on: the strengthening for the proofs *)

\* A worker that has decided what to write.
Prepared(w) == pc[w] \in {"count", "sink", "commit", "publish"}

\* Prepared and not yet committed.
Pending(w) == pc[w] \in {"count", "sink", "commit"}

\* Each step of a worker belongs to the commands that go through it, and what
\* it is about to write is a legal transition from its snapshot.
WorkerOK(w) ==
    /\ pc[w] = "idle" => req[w] = NoRequest
    /\ pc[w] \in {"idle", "lookup", "load"} => from[w] = "Absent"
    /\ pc[w] # "idle" => req[w].inv \in Invoices /\ req[w].cmd # "none"
    /\ req[w].dest # "none" => req[w].cmd = "send"
    /\ req[w].cmd = "pay" => req[w].amount > 0
    /\ pc[w] = "lookup" => req[w].cmd \in {"draft", "send"}
    /\ pc[w] = "load" => req[w].cmd \notin {"none", "draft"}
    /\ pc[w] = "count" => req[w].cmd = "issue"
    /\ pc[w] = "sink" => req[w].cmd = "send"
    /\ pc[w] = "dispatch" => req[w].cmd = "send"
    /\ Prepared(w) => CommandEdge(req[w].cmd, from[w], next[w].state)

WorkersOK == \A w \in Workers : WorkerOK(w)

\* Ids: a draft under way has an id of its own that is in no row, and every
\* other command past its snapshot works on a row that exists.
IdsOK ==
    /\ \A w \in Workers : req[w].cmd = "draft" /\ pc[w] # "publish" =>
          /\ row[req[w].inv].state = "Absent"
          /\ \A v \in Workers : req[v].cmd = "draft" /\ req[v].inv = req[w].inv => v = w
    /\ \A w \in Workers : Pending(w) /\ req[w].cmd # "draft" =>
          row[req[w].inv].state # "Absent"

\* The row a worker will write is coherent; between the snapshot and the
\* allocation of the number it is a coherent draft but for its state.
PendingCoherent ==
    \A w \in Workers :
        /\ pc[w] = "count" => Coherent([next[w] EXCEPT !.state = "Draft"])
        /\ pc[w] \in {"sink", "commit"} => Coherent(next[w])

\* What a worker will write as amount paid is covered by receipts.
PendingMoney ==
    \A w \in Workers : Pending(w) =>
        next[w].paid <= receipts[req[w].inv]
                        + (IF req[w].cmd = "pay" THEN req[w].amount ELSE 0)

\* The state of a snapshot is in the trail.
PendingReached ==
    \A w \in Workers : Pending(w) /\ req[w].cmd # "draft" =>
        Reached(req[w].inv, from[w], Len(history))

\* Every recorded send with a key has its key in send_idempotency, so that the
\* primary key stops the next one.
SendsKeyed ==
    \A n \in 1..Len(history) :
        history[n].event = "send" /\ history[n].key # NoKey
            => <<history[n].inv, history[n].key>> \in sendKeys

\* A worker that has committed finds its own row in the trail; one that is about
\* to commit a send has written it to its sink, and the document its row will
\* refer to is in the blob store.
PendingEffects ==
    \A w \in Workers :
        /\ pc[w] = "publish" => \E n \in 1..Len(history) :
              /\ history[n].inv = req[w].inv /\ history[n].event = req[w].cmd
              /\ history[n].from = from[w] /\ history[n].to = next[w].state
        /\ pc[w] = "commit" /\ req[w].cmd = "send" /\ req[w].dest = "local"
              => delivered[req[w].inv][req[w].key] > 0
        /\ Pending(w) /\ next[w].pdf # NoPdf => next[w].pdf \in blobs[req[w].inv]

\* An invoice has history rows only once it has a row.
UnrecordedAbsent ==
    \A i \in Invoices : row[i].state = "Absent" => \A n \in 1..Len(history) : history[n].inv # i

\* A number and its issue date belong together, and neither is ahead of time.
Dated(r) ==
    r.number # NoNumber =>
        r.issuedAt \in Instants /\ r.issuedAt <= clock /\ r.number.year = YearOf[r.issuedAt]

AllDated ==
    /\ \A i \in Invoices : Dated(row[i])
    /\ \A w \in Workers : Pending(w) => Dated(next[w])

\* With one worker the snapshot of a command is still the row when it commits.
Undisturbed ==
    \A w \in Workers : Pending(w) =>
        LET s == row[req[w].inv]
        IN  /\ from[w] = s.state
            /\ next[w].paid = s.paid + (IF req[w].cmd = "pay" THEN req[w].amount ELSE 0)
            /\ req[w].cmd # "issue" => next[w].number = s.number

\* ... what it will write as total is its own operation on that row, ...
Posting(w) ==
    LET s == row[req[w].inv]
    IN  IF req[w].cmd = "draft" THEN next[w].total = req[w].amount
        ELSE IF req[w].cmd = "issue" /\ pc[w] = "commit"
        THEN \E tax \in Taxes : next[w].total = s.total + tax
        ELSE next[w].total = s.total

PendingPosting == \A w \in Workers : Pending(w) => Posting(w)

\* ... for an amount that was asked for, ...
RequestsGiven ==
    \A w \in Workers :
        /\ req[w].cmd = "draft" => req[w].amount \in Subtotals
        /\ req[w].cmd = "pay" => req[w].amount \in Amounts

\* ... and the number it has allocated is not past the first free one.
NumberInReach ==
    \A w \in Workers : req[w].cmd = "issue" /\ pc[w] = "commit" =>
        next[w].number.n \in 1..(Cardinality(NumberedIn(next[w].number.year)) + 1)
=============================================================================
