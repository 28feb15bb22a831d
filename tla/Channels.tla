------------------------------ MODULE Channels ------------------------------
(***************************************************************************)
(* The four adapters in front of the commands: HTTP (crates/api),          *)
(* WebSocket (crates/ws), MCP (crates/mcp) and the command line            *)
(* (crates/cli).  One client wants one operation done.  It asks, and when  *)
(* no good answer comes (the answer may be lost, the process may die, the  *)
(* first attempt may still be under way) it asks again.  Each attempt goes *)
(* through its adapter, which decodes the request, passes the client's     *)
(* idempotency key on or drops it, runs the command and translates its     *)
(* result.  A command is two steps here: what it reads and decides, and    *)
(* the transaction that writes it; the other steps of the invoice commands *)
(* are in InvoiceCommands.                                                 *)
(***************************************************************************)
EXTENDS InvoiceFsm, CreditNoteFsm, FiniteSets

CONSTANTS
    MaxAttempts,    \* bound on how often the client asks
    Others,         \* commands and ticks of others, each run once
    ClientKey,      \* the idempotency key the client sends with every attempt
    NoKey           \* no key

ASSUME AttemptsAssumption == MaxAttempts \in Nat

VARIABLES
    client,         \* the request: constant after Init
    store,          \* the rows the operation reads and writes
    att,            \* the client's attempts, in the order they are made
    overlapped,     \* two attempts have been between read and write together
    held,           \* the row each of the others has read and what it will write
    overwritten     \* one of the others has written over a row it had not read

vars == <<client, store, att, overlapped, held, overwritten>>

----------------------------------------------------------------------------
(* What each adapter offers, handler by handler: its operations, each with *)
(* whether the client's key reaches the command.                           *)

Passing(ops) == ops \X {TRUE}
Dropping(ops) == ops \X {FALSE}

ApiDraft == Passing({"draft"})
ApiGet == Dropping({"invoice.show"})
ApiIssue == Passing({"issue"})
ApiSendOp == Passing({"send"})
ApiPay == Passing({"pay"})
ApiVoid == Passing({"void"})
ApiCreditNotes == Passing({"note.draft"}) \union Dropping({"note.issue", "note.show"})
ApiSchedules == Dropping({"schedule.create", "schedule.pause", "schedule.cancel", "schedule.show"})
ApiReminders == Dropping({"reminder.schedule", "reminder.cancel"})
ApiCustomers == Dropping({"customer.add", "customer.show"})

\* The authenticated routes.
ApiRouter == ApiDraft \union ApiGet \union ApiIssue \union ApiSendOp \union ApiPay \union ApiVoid
             \union ApiCreditNotes \union ApiSchedules \union ApiReminders \union ApiCustomers

\* The wire structs with an idempotency_key field, and those without.
WsInvoices == Passing({"draft", "issue", "send", "pay", "void"})
WsOthers == Passing({"note.draft", "note.issue"})
            \union Dropping({"schedule.create", "schedule.pause", "schedule.cancel",
                         "reminder.schedule", "reminder.cancel"})
WsDispatch == WsInvoices \union WsOthers

\* Mutant of McpDraft: the tool's input has no key.
McpDraftUnkeyed == Dropping({"draft"})
McpDraft == Passing({"draft"})
McpIssueSend == Passing({"issue", "send"})
McpPayVoid == Passing({"pay", "void"})
McpShow == Dropping({"invoice.show", "note.show", "schedule.show", "customer.show"})
McpCustomerAdd == Dropping({"customer.add"})
McpCreditNotes == Passing({"note.draft", "note.issue"})
McpSchedules == Dropping({"schedule.create", "schedule.pause", "schedule.cancel"})
McpReminders == Dropping({"reminder.schedule", "reminder.cancel"})

\* The tools and, for the entities without a show tool, the resources.
McpTools == McpDraft \union McpIssueSend \union McpPayVoid \union McpShow \union McpCustomerAdd
            \union McpCreditNotes \union McpSchedules \union McpReminders

CliDraft == Passing({"draft"})
CliIssueSend == Dropping({"issue", "send"})
CliPay == Passing({"pay"})
CliVoidShow == Dropping({"void", "invoice.show"})
CliCreditNotes == Passing({"note.draft"}) \union Dropping({"note.issue", "note.show"})
CliSchedules == Dropping({"schedule.create", "schedule.pause", "schedule.cancel", "schedule.show"})
CliReminders == Dropping({"reminder.schedule", "reminder.cancel"})
CliCustomers == Dropping({"customer.add", "customer.show"})
CliDispatch == CliDraft \union CliIssueSend \union CliPay \union CliVoidShow \union CliCreditNotes
               \union CliSchedules \union CliReminders \union CliCustomers

Adapters == [api |-> ApiRouter, ws |-> WsDispatch, mcp |-> McpTools, cli |-> CliDispatch]

Offered(c) == {entry[1] : entry \in Adapters[c]}

PassesKey(c, op) == <<op, TRUE>> \in Adapters[c]

Ops == UNION {Offered(c) : c \in DOMAIN Adapters}

----------------------------------------------------------------------------
(* How each adapter words the result of an attempt.                        *)

\* CoreError, without the variants that no command returns to an adapter
\* apart from another one (Pdf goes with Render).
CoreErrors == {"Validation", "Idempotency", "Fsm", "NotFound", "NotImplemented",
               "Repo", "Tax", "Render"}

\* Mutant of ApiStatus: a failed webhook is an internal error like any other.
ApiStatusPlain(e) ==
    CASE e = "ok"                          -> "200"
      [] e \in {"Validation", "Decode"}    -> "400"
      [] e = "Unauthorized"                -> "401"
      [] e = "NotFound"                    -> "404"
      [] e \in {"Idempotency", "Fsm"}      -> "409"
      [] e = "NotImplemented"              -> "501"
      [] OTHER                             -> "500"

\* core_status and ApiError::status.
ApiStatus(e) ==
    CASE e = "ok"                          -> "200"
      [] e \in {"Validation", "Decode"}    -> "400"
      [] e = "Unauthorized"                -> "401"
      [] e = "NotFound"                    -> "404"
      [] e \in {"Idempotency", "Fsm"}      -> "409"
      [] e = "NotImplemented"              -> "501"
      [] e = "WebhookDispatch"             -> "502"
      [] OTHER                             -> "500"

\* OpError::from_core and the decoders' validation errors.
WsCode(e) ==
    CASE e = "ok"                          -> "ok"
      [] e \in {"Validation", "Decode"}    -> "validation"
      [] e = "Unknown"                     -> "unknown_op"
      [] e = "Fsm"                         -> "fsm_transition"
      [] e = "NotFound"                    -> "not_found"
      [] e = "NotImplemented"              -> "not_implemented"
      [] e = "Idempotency"                 -> "idempotency"
      [] e = "Tax"                         -> "tax"
      [] e = "Render"                      -> "render"
      [] OTHER                             -> "repo"

\* McpError::to_rmcp.
McpCode(e) ==
    IF e = "ok" THEN "ok"
    ELSE IF e \in {"Decode", "Validation", "Idempotency", "NotFound", "Fsm"}
         THEN "invalid_params"
    ELSE "internal_error"

\* run: every error ends the process the same way.
CliExit(e) == IF e = "ok" THEN "success" ELSE "failure"

\* What the client sees, whatever the channel.
Wire(e) ==
    CASE client.channel = "api" -> ApiStatus(e)
      [] client.channel = "ws"  -> WsCode(e)
      [] client.channel = "mcp" -> McpCode(e)
      [] client.channel = "cli" -> CliExit(e)

----------------------------------------------------------------------------
(* The commands.  Each reads the store and refuses, answers without a      *)
(* write, or prepares a write: the state to write, and whether it changes  *)
(* what the command read.                                                  *)

Refuse(e) == [pc |-> "reply", result |-> e, to |-> "none", moves |-> FALSE]
Reply == Refuse("ok")
Prepare(t, m) == [pc |-> "ready", result |-> "ok", to |-> t, moves |-> m]

\* A transition that the table refuses ends the command.
Gate(t, err) == IF t \in {"Illegal", "NonPositive"} THEN Refuse(err) ELSE Prepare(t, TRUE)

Replayed(r) == r.key # NoKey /\ r.key \in store.keys

\* draft_invoice: the key is looked up before anything is made.
Draft(r) == IF Replayed(r) THEN Reply ELSE Prepare("Draft", TRUE)

\* prepare_send: a resend is allowed, and Viewed asks the table.
PrepareSend ==
    IF store.invoice = "Absent" THEN Refuse("NotFound")
    ELSE IF store.invoice = "Sent" THEN Prepare("Sent", TRUE)
    ELSE Gate(NextState(store.invoice, "Send", 0, 0), "Fsm")

\* send_invoice_render: replay, then prepare; the adapter dispatches later.
SendRender(r) == IF Replayed(r) THEN Reply ELSE PrepareSend

\* send_invoice: the scheme, replay, prepare, then the local sink.
Send(r) ==
    IF r.dest \in {"bus", "webhook", "link"} THEN Refuse("NotImplemented")
    ELSE IF Replayed(r) THEN Reply
    ELSE IF PrepareSend.pc = "ready" /\ r.dest = "stdout" /\ client.channel = "ws"
         THEN Refuse("Validation")
    ELSE PrepareSend

\* The send handler of the HTTP adapter: links and webhooks are its own.
ApiSend(r) ==
    IF r.dest = "link"
    THEN IF store.invoice = "Absent" THEN Refuse("NotFound") ELSE Reply
    ELSE IF r.dest = "webhook" THEN SendRender(r)
    ELSE IF r.dest = "stdout" THEN Refuse("Decode")
    ELSE Send(r)

\* issue_invoice, mark_paid, void_invoice: the key is not looked at.
InvoiceStep(event) ==
    IF store.invoice = "Absent" THEN Refuse("NotFound")
    ELSE Gate(NextState(store.invoice, event, store.paid + 1, 2), "Fsm")

\* create_credit_note: the invoice has to exist.
NoteDraft == IF store.invoice = "Absent" THEN Refuse("NotFound") ELSE Prepare("Draft", TRUE)

\* issue_credit_note: the table's refusal is a validation error.
NoteIssue ==
    IF store.note = "Absent" THEN Refuse("NotFound")
    ELSE Gate(NoteNextState(store.note), "Validation")

\* transition_schedule: saves even when nothing changes; cancelled is terminal.
TransitionSchedule(target) ==
    IF store.schedule = "Absent" THEN Refuse("NotFound")
    ELSE IF store.schedule = "Cancelled" /\ target # "Cancelled" THEN Refuse("Validation")
    ELSE Prepare(target, store.schedule # target)

\* reminder_cancel: only a scheduled reminder is saved.
ReminderCancel ==
    IF store.reminder = "Absent" THEN Refuse("NotFound")
    ELSE IF store.reminder = "Scheduled" THEN Prepare("Cancelled", TRUE)
    ELSE Reply

\* The adapters save a customer themselves; a given id is an upsert (MCP only).
CustomerAdd(r) == Prepare("Saved", ~(r.id /\ store.customer))

\* InvoiceRepo::get and its fellows.
Show(row) == IF row = "Absent" THEN Refuse("NotFound") ELSE Reply

Command(r) ==
    CASE r.op = "draft"             -> Draft(r)
      [] r.op = "issue"             -> InvoiceStep("Issue")
      [] r.op = "send"              -> IF client.channel = "api" THEN ApiSend(r) ELSE Send(r)
      [] r.op = "pay"               -> InvoiceStep("Pay")
      [] r.op = "void"              -> InvoiceStep("Void")
      [] r.op = "note.draft"        -> NoteDraft
      [] r.op = "note.issue"        -> NoteIssue
      [] r.op = "schedule.create"   -> Prepare("Active", TRUE)
      [] r.op = "schedule.pause"    -> TransitionSchedule("Paused")
      [] r.op = "schedule.cancel"   -> TransitionSchedule("Cancelled")
      [] r.op = "reminder.schedule" -> Prepare("Scheduled", TRUE)
      [] r.op = "reminder.cancel"   -> ReminderCancel
      [] r.op = "customer.add"      -> CustomerAdd(r)
      [] r.op = "invoice.show"      -> Show(store.invoice)
      [] r.op = "note.show"         -> Show(store.note)
      [] r.op = "schedule.show"     -> Show(store.schedule)
      [] r.op = "customer.show"     -> Show(IF store.customer THEN "Saved" ELSE "Absent")

\* The input the adapter builds: the client's key, or none.
Input == [client EXCEPT !.key = IF PassesKey(client.channel, client.op) THEN @ ELSE NoKey]

\* require_bearer: an empty allowlist lets everyone in (client.token is TRUE).
Authorized == client.channel = "api" => client.token

\* What an adapter does with a request, up to the command's decision.
Handle ==
    IF ~Authorized THEN Refuse("Unauthorized")
    ELSE IF client.op \notin Offered(client.channel) THEN Refuse("Unknown")
    ELSE IF client.form = "unparsable" THEN Refuse("Decode")
    ELSE IF client.form = "invalid" THEN Refuse("Validation")
    ELSE Command(Input)

----------------------------------------------------------------------------
\* The operations whose input has something to validate.
Validated == {"draft", "send", "pay", "note.draft", "schedule.create", "reminder.schedule"}

NoAttempt == [pc |-> "new", result |-> "none", to |-> "none", moves |-> FALSE, effect |-> FALSE]

Waiting == [pc |-> "new"]
Over == [pc |-> "done"]

Init ==
    /\ client \in [channel : DOMAIN Adapters, op : Ops, key : {ClientKey, NoKey},
                   form : {"good", "unparsable", "invalid"}, token : BOOLEAN,
                   dest : {"none", "file", "stdout", "webhook", "bus", "link"}, id : BOOLEAN]
    /\ (client.dest # "none") <=> (client.op = "send")
    /\ client.form = "invalid" => client.op \in Validated
    /\ client.form # "good" => client.dest \in {"none", "file"}
    /\ client.id => client.op = "customer.add" /\ client.channel = "mcp"
    /\ client.channel # "api" => client.token
    /\ store \in [invoice : States \union {"Absent"}, note : NoteStates \union {"Absent"},
                  schedule : {"Absent", "Active", "Paused", "Cancelled"},
                  reminder : {"Absent", "Scheduled", "Sent", "Cancelled"},
                  customer : {FALSE}, paid : {0, 1, 2}, keys : {{}}, made : {0}]
    \* Only the rows the operation reads are told apart.
    /\ store.note = "Absent" \/ client.op \in {"note.issue", "note.show"}
    /\ store.schedule = "Absent" \/ client.op \in {"schedule.pause", "schedule.cancel", "schedule.show"}
    /\ store.reminder = "Absent" \/ client.op = "reminder.cancel"
    /\ store.invoice = "Absent"
        \/ client.op \in {"issue", "send", "pay", "void", "note.draft", "reminder.schedule", "invoice.show"}
    /\ store.paid = CASE store.invoice = "Paid" -> 2
                      [] store.invoice = "PartiallyPaid" -> 1
                      [] OTHER -> 0
    /\ att = [n \in 1..MaxAttempts |-> NoAttempt]
    /\ overlapped = FALSE
    /\ held = [o \in Others |-> Waiting]
    /\ overwritten = FALSE

Asked == {n \in 1..MaxAttempts : att[n].pc # "new"}

\* The client asks for the first time, or again while it has no good answer.
Ask ==
    /\ Cardinality(Asked) < MaxAttempts
    /\ ~\E n \in Asked : att[n].pc = "told" /\ att[n].result = "ok"
    /\ att' = [att EXCEPT ![Cardinality(Asked) + 1].pc = "sent"]
    /\ UNCHANGED <<client, store, overlapped, held, overwritten>>

\* The adapter takes an attempt up and the command reads.
Begin(n) ==
    /\ att[n].pc = "sent"
    /\ att' = [att EXCEPT ![n] = [pc |-> Handle.pc, result |-> Handle.result, to |-> Handle.to,
                                  moves |-> Handle.moves, effect |-> FALSE]]
    /\ overlapped' = (overlapped \/ (Handle.pc = "ready" /\ \E m \in Asked : att[m].pc = "ready"))
    /\ UNCHANGED <<client, store, held, overwritten>>

\* UNIQUE on invoices.idempotency_key and the primary key of send_idempotency.
KeyTaken(r) == r.op \in {"draft", "send"} /\ Replayed(r)

\* The row a reminder refers to has to exist.
Orphan(r) == r.op = "reminder.schedule" /\ store.invoice = "Absent"

\* The rows an operation writes: the whole row, from what was read before.
Written(r, to) ==
    CASE r.op \in {"issue", "void"} -> [store EXCEPT !.invoice = to]
      [] r.op = "send" -> [store EXCEPT !.invoice = to, !.keys = @ \union ({r.key} \ {NoKey})]
      [] r.op = "pay" -> [store EXCEPT !.invoice = to, !.paid = IF to = "Paid" THEN 2 ELSE 1]
      [] r.op = "note.issue" -> [store EXCEPT !.note = to]
      [] r.op \in {"schedule.pause", "schedule.cancel"} -> [store EXCEPT !.schedule = to]
      [] r.op = "reminder.cancel" -> [store EXCEPT !.reminder = to]
      [] r.op = "customer.add" -> [store EXCEPT !.customer = TRUE]
      [] r.op = "draft" -> [store EXCEPT !.made = @ + 1, !.keys = @ \union ({r.key} \ {NoKey})]
      [] OTHER -> [store EXCEPT !.made = @ + 1]

\* The transaction: all of it, or a repository error and none of it.
Write(n) ==
    /\ att[n].pc = "ready"
    /\ ~KeyTaken(Input) /\ ~Orphan(Input)
    /\ store' = Written(Input, att[n].to)
    /\ att' = [att EXCEPT ![n].pc = "reply", ![n].effect = att[n].moves]
    /\ UNCHANGED <<client, overlapped, held, overwritten>>

\* The errors that a command can meet before its transaction is committed:
\* the database's, or those of the tax engine and the renderer.
Failures == IF client.op = "issue" THEN {"Repo", "Tax", "Render"}
            ELSE IF client.op = "send" THEN {"Repo", "Render"} ELSE {"Repo"}

WriteFails(n) ==
    /\ att[n].pc = "ready"
    /\ \E e \in Failures : att' = [att EXCEPT ![n].pc = "reply", ![n].result = e]
    /\ UNCHANGED <<client, store, overlapped, held, overwritten>>

\* What the adapter does after the command: the HTTP adapter posts a webhook
\* (replayed or not), the command line prints.  Both can fail.
After == IF client.channel = "cli" THEN {"Output"}
         ELSE IF client.channel = "api" /\ client.dest = "webhook" THEN {"WebhookDispatch"}
         ELSE {}

\* The answer leaves the adapter.
Finish(n) ==
    /\ att[n].pc = "reply"
    /\ \E e \in {"ok"} \union After :
        att' = [att EXCEPT ![n].pc = "answered",
                           ![n].result = IF @ = "ok" THEN e ELSE @]
    /\ UNCHANGED <<client, store, overlapped, held, overwritten>>

\* The client gets the answer.
Receive(n) ==
    /\ att[n].pc = "answered"
    /\ att' = [att EXCEPT ![n].pc = "told"]
    /\ UNCHANGED <<client, store, overlapped, held, overwritten>>

\* The request, the process or the answer is lost; what is written stays.
Lose(n) ==
    /\ att[n].pc \in {"sent", "ready", "reply", "answered"}
    /\ att' = [att EXCEPT ![n].pc = "lost"]
    /\ UNCHANGED <<client, store, overlapped, held, overwritten>>

\* What others do to the rows.  The invoice commands.
InvoiceLeads(from, to) ==
    \E ev \in {"issue", "send", "view", "pay", "void"} : CommandEdge(ev, from, to)

\* Pause, cancel, and the tick, which saves an active schedule after its run,
\* as cancelled when that was the last one.
ScheduleLeads(from, to) ==
    \/ from = "Active" /\ to \in {"Active", "Paused", "Cancelled"}
    \/ from = "Paused" /\ to \in {"Paused", "Cancelled"}
    \/ from = "Cancelled" /\ to = "Cancelled"

\* Cancel, and the tick.
ReminderLeads(from, to) == from = "Scheduled" /\ to \in {"Sent", "Cancelled"}

Leads(row, from, to) ==
    \/ row = "invoice" /\ InvoiceLeads(from, to)
    \/ row = "note" /\ from = "Draft" /\ to = NoteNextState(from)
    \/ row = "schedule" /\ ScheduleLeads(from, to)
    \/ row = "reminder" /\ ReminderLeads(from, to)

\* Someone else reads a row.
OtherLoad(o, row, to) ==
    /\ held[o] = Waiting
    /\ Leads(row, store[row], to)
    /\ held' = [held EXCEPT ![o] =
            [pc |-> "save", row |-> row, from |-> store[row], to |-> to,
             paid |-> CASE to = "Paid" -> 2 [] to = "PartiallyPaid" -> 1 [] OTHER -> store.paid]]
    /\ UNCHANGED <<client, store, att, overlapped, overwritten>>

\* It saves the whole row it has made of what it read, over what is there now.
OtherSave(o) ==
    LET w == held[o]
    IN  /\ w.pc = "save"
        /\ store' = CASE w.row = "invoice"  -> [store EXCEPT !.invoice = w.to, !.paid = w.paid]
                      [] w.row = "note"     -> [store EXCEPT !.note = w.to]
                      [] w.row = "schedule" -> [store EXCEPT !.schedule = w.to]
                      [] w.row = "reminder" -> [store EXCEPT !.reminder = w.to]
        /\ overwritten' = (overwritten \/ store[w.row] # w.from)
        /\ held' = [held EXCEPT ![o] = Over]
        /\ UNCHANGED <<client, att, overlapped>>

OtherStep(o) ==
    \/ OtherSave(o)
    \/ \E row \in {"invoice", "note", "schedule", "reminder"},
          to \in States \union {"Active", "Paused", "Cancelled"} : OtherLoad(o, row, to)

AttemptStep(n) ==
    \/ Begin(n) \/ Write(n) \/ WriteFails(n) \/ Finish(n) \/ Receive(n) \/ Lose(n)

Next == Ask \/ (\E o \in Others : OtherStep(o)) \/ \E n \in 1..MaxAttempts : AttemptStep(n)

Spec == Init /\ [][Next]_vars

----------------------------------------------------------------------------
Effects == {n \in 1..MaxAttempts : att[n].effect}

\* The operations a key makes safe to repeat, where the adapter passes it on:
\* drafting on every channel; sending on every channel but the command line.
SafeWithKey ==
    /\ client.key # NoKey
    /\ \/ client.op = "draft"
       \/ client.op = "send" /\ client.channel # "cli"

\* The operations that their own preconditions make safe to repeat.
SafeInTurn ==
    \/ client.op \in {"issue", "void", "note.issue", "schedule.pause", "schedule.cancel",
                      "reminder.cancel"}
    \/ client.op = "customer.add" /\ client.id

\* An operation that the client repeats takes effect at most once: with a key
\* whatever overlaps with what (the unique columns decide); without one as
\* long as no attempt reads before another has written, and nobody else writes
\* back a row as it was before.  (The adapters' handling of idempotency_key and
\* the commands' gates.)  An effect is a write to the store: a webhook may be
\* posted again, as InvoiceCommands shows.
EffectOnce ==
    /\ SafeWithKey => Cardinality(Effects) <= 1
    /\ SafeInTurn /\ ~overlapped /\ ~overwritten => Cardinality(Effects) <= 1

\* The answers that say nothing was done.  A 502 says that the command
\* succeeded, and the exit status of the command line says nothing.
Refusals ==
    IF client.channel = "cli" THEN {}
    ELSE {Wire(e) : e \in CoreErrors \union {"Decode", "Unauthorized", "Unknown"}}

\* The operation is done without this attempt: by another attempt, or there
\* is nothing (left) to do.
DoneAlready(n) ==
    \/ \E m \in Effects : m # n
    \/ client.op = "schedule.pause" /\ store.schedule \in {"Paused", "Cancelled"}
    \/ client.op = "schedule.cancel" /\ store.schedule = "Cancelled"
    \/ client.op = "reminder.cancel" /\ store.reminder \in {"Sent", "Cancelled"}
    \/ client.dest = "link"
    \/ client.op \in {"invoice.show", "note.show", "schedule.show", "customer.show"}

\* The operations whose success may rest on the state of the row alone.
RowTells == client.op \in {"schedule.pause", "schedule.cancel", "reminder.cancel"}

\* A client can believe what it is told: a refusal means that this attempt
\* changed nothing in the store, and a success that the operation is done.
\* Where an attempt found nothing to do the row stays as it was found, until
\* someone else writes it back from an earlier reading.
\* (ApiError::status, OpError::from_core, McpError::to_rmcp and where the
\* commands return their errors.)
AnswersTruthful ==
    \A n \in 1..MaxAttempts : att[n].pc \in {"answered", "told"} =>
        /\ Wire(att[n].result) \in Refusals => ~att[n].effect
        /\ att[n].result = "ok" => att[n].effect \/ DoneAlready(n) \/ (RowTells /\ overwritten)
=============================================================================
