--------------------------- MODULE ChannelsProofs ---------------------------
(***************************************************************************)
(* The theorems of Channels: what a client that repeats its request can    *)
(* rely on, for any number of attempts, whichever of them are lost, fail   *)
(* or overlap, and any number of others that write the rows meanwhile.     *)
(***************************************************************************)
EXTENDS Channels, FiniteSetTheorems, TLAPS

USE DEF vars

(* The inductive invariant *)

Results == CoreErrors \union {"none", "ok", "Decode", "Unauthorized", "Unknown", "Output", "WebhookDispatch"}

Targets == States \union {"none", "Active", "Paused", "Cancelled", "Scheduled", "Saved"}

Attempt == [pc : {"new", "sent", "ready", "reply", "answered", "told", "lost"},
            result : Results, to : Targets, moves : BOOLEAN, effect : BOOLEAN]

Client == [channel : {"api", "ws", "mcp", "cli"}, op : Ops, key : {ClientKey, NoKey},
           form : {"good", "unparsable", "invalid"}, token : BOOLEAN,
           dest : {"none", "file", "stdout", "webhook", "bus", "link"}, id : BOOLEAN]

Store == [invoice : States \union {"Absent"}, note : NoteStates \union {"Absent"},
          schedule : {"Absent", "Active", "Paused", "Cancelled"},
          reminder : {"Absent", "Scheduled", "Sent", "Cancelled"},
          customer : BOOLEAN, paid : {0, 1, 2}, keys : SUBSET {ClientKey, NoKey}, made : Nat]

Rows == {"invoice", "note", "schedule", "reminder"}

RowStates == States \union {"Absent", "Active", "Paused", "Cancelled", "Scheduled"}

Held == {Waiting, Over} \union
        {w \in [pc : {"save"}, row : Rows, from : RowStates, to : RowStates, paid : {0, 1, 2}] :
            Leads(w.row, w.from, w.to)}

Typed ==
    /\ client \in Client /\ store \in Store /\ overlapped \in BOOLEAN
    /\ held \in [Others -> Held] /\ overwritten \in BOOLEAN
    /\ att \in [1..MaxAttempts -> Attempt]

\* The client asks in order.
InTurn == \E k \in 0..MaxAttempts : Asked = 1..k

\* Some attempt took effect.
Done == \E n \in 1..MaxAttempts : att[n].effect

\* What an operation writes to its row.
Aim(op, to) ==
    /\ op = "issue" => to = "Issued"
    /\ op = "send" => to = "Sent"
    /\ op = "pay" => to \in {"PartiallyPaid", "Paid"}
    /\ op = "void" => to = "Voided"
    /\ op = "note.issue" => to = "Issued"
    /\ op = "schedule.pause" => to = "Paused"
    /\ op = "schedule.cancel" => to = "Cancelled"
    /\ op = "reminder.cancel" => to = "Cancelled"

\* A write that changes nothing is one of a schedule in its target state, or
\* of a customer that was saved before.
Vacuous ==
    \/ client.op \in {"schedule.pause", "schedule.cancel"}
    \/ client.op = "customer.add" /\ Done

ReadyOK(a) == a.result = "ok" /\ Aim(client.op, a.to) /\ (~a.moves => Vacuous)

\* What a success without an effect rests on.
Told(n) == DoneAlready(n) \/ (RowTells /\ overwritten)

\* Effects come with the write; what is answered afterwards says so.
AnswerOK(n, a) ==
    /\ a.pc \in {"new", "sent", "ready"} => ~a.effect
    /\ a.effect => a.result \in {"ok"} \union After
    /\ a.pc = "ready" => ReadyOK(a)
    /\ a.pc \in {"reply", "answered", "told"} /\ a.result = "ok" => a.effect \/ Told(n)

AttemptOK(n) == AnswerOK(n, att[n])

\* The row has left every state in which the operation would move it again.
Settled ==
    /\ client.op = "issue" => store.invoice # "Draft"
    /\ client.op = "void" => store.invoice = "Voided"
    /\ client.op = "note.issue" => store.note = "Issued"
    /\ client.op = "schedule.pause" => store.schedule \in {"Paused", "Cancelled"}
    /\ client.op = "schedule.cancel" => store.schedule = "Cancelled"
    /\ client.op = "reminder.cancel" => store.reminder \in {"Sent", "Cancelled"}
    /\ client.op = "customer.add" => store.customer

\* The store shows an effect, and an effect shows in the store.
StoreOK ==
    /\ store.keys # {} \/ store.customer => Done
    /\ SafeWithKey /\ Done => client.key \in store.keys
    /\ SafeInTurn /\ ~overwritten /\ Done => Settled

AtMostOne == \A m, n \in 1..MaxAttempts : att[m].effect /\ att[n].effect => m = n

\* Without overlap one attempt at a time is between read and write, and none
\* that will move the row once an effect has been had, unless someone else has
\* written the row back.
TurnsOK ==
    /\ SafeWithKey => AtMostOne
    /\ ~overlapped => \A m, n \in 1..MaxAttempts : att[m].pc = "ready" /\ att[n].pc = "ready" => m = n
    /\ SafeInTurn /\ ~overlapped /\ ~overwritten =>
          AtMostOne /\ (Done => \A n \in 1..MaxAttempts : att[n].pc = "ready" => ~att[n].moves)

ChInv ==
    /\ Typed /\ InTurn /\ StoreOK /\ TurnsOK
    /\ \A n \in 1..MaxAttempts : AttemptOK(n)
-----------------------------------------------------------------------------
(* The adapters' tables *)

AllOps == {"draft", "issue", "send", "pay", "void", "note.draft", "note.issue",
           "schedule.create", "schedule.pause", "schedule.cancel", "reminder.schedule",
           "reminder.cancel", "customer.add", "invoice.show", "note.show", "schedule.show",
           "customer.show"}

LEMMA ApiTable == ApiRouter \subseteq AllOps \X BOOLEAN
  BY DEF AllOps, Passing, Dropping, ApiRouter, ApiDraft, ApiGet, ApiIssue, ApiSendOp, ApiPay, ApiVoid,
         ApiCreditNotes, ApiSchedules, ApiReminders, ApiCustomers

LEMMA WsTable == WsDispatch \subseteq AllOps \X BOOLEAN
  BY DEF AllOps, Passing, Dropping, WsDispatch, WsInvoices, WsOthers

LEMMA McpTable == McpTools \subseteq AllOps \X BOOLEAN
  BY DEF AllOps, Passing, Dropping, McpTools, McpDraft, McpIssueSend, McpPayVoid, McpShow,
         McpCustomerAdd, McpCreditNotes, McpSchedules, McpReminders

LEMMA CliTable == CliDispatch \subseteq AllOps \X BOOLEAN
  BY DEF AllOps, Passing, Dropping, CliDispatch, CliDraft, CliIssueSend, CliPay, CliVoidShow,
         CliCreditNotes, CliSchedules, CliReminders, CliCustomers

LEMMA OpsListed == Ops \subseteq AllOps
  <1>1. DOMAIN Adapters = {"api", "ws", "mcp", "cli"}
    BY DEF Adapters
  <1>2. ASSUME NEW c \in DOMAIN Adapters PROVE Adapters[c] \subseteq AllOps \X BOOLEAN
    <2>1. Adapters[c] \in {ApiRouter, WsDispatch, McpTools, CliDispatch}
      BY <1>1 DEF Adapters
    <2> QED BY <2>1, ApiTable, WsTable, McpTable, CliTable
  <1>3. ASSUME NEW c \in DOMAIN Adapters PROVE Offered(c) \subseteq AllOps
    <2>1. ASSUME NEW e \in AllOps \X BOOLEAN PROVE e[1] \in AllOps
      OBVIOUS
    <2> QED BY <1>2, <2>1 DEF Offered
  <1> QED BY <1>3 DEF Ops

\* Drafting passes the key on every channel, sending on all but one.
LEMMA KeysPassed ==
    /\ \A c \in {"api", "ws", "mcp", "cli"} : PassesKey(c, "draft")
    /\ \A c \in {"api", "ws", "mcp"} : PassesKey(c, "send")
  <1>1. <<"draft", TRUE>> \in ApiRouter /\ <<"send", TRUE>> \in ApiRouter
    BY DEF Passing, ApiRouter, ApiDraft, ApiSendOp
  <1>2. <<"draft", TRUE>> \in WsDispatch /\ <<"send", TRUE>> \in WsDispatch
    BY DEF Passing, WsDispatch, WsInvoices
  <1>3. <<"draft", TRUE>> \in McpTools /\ <<"send", TRUE>> \in McpTools
    BY DEF Passing, McpTools, McpDraft, McpIssueSend
  <1>4. <<"draft", TRUE>> \in CliDispatch
    BY DEF Passing, CliDispatch, CliDraft
  <1>5. /\ Adapters["api"] = ApiRouter /\ Adapters["ws"] = WsDispatch
        /\ Adapters["mcp"] = McpTools /\ Adapters["cli"] = CliDispatch
    BY DEF Adapters
  <1> QED BY <1>1, <1>2, <1>3, <1>4, <1>5 DEF PassesKey

LEMMA InputFields ==
    ASSUME Typed
    PROVE  /\ Input.op = client.op /\ Input.dest = client.dest /\ Input.id = client.id
           /\ Input.key \in {client.key, NoKey} /\ (SafeWithKey => Input.key = client.key)
  <1>1. client \in Client
    BY DEF Typed
  <1>2. /\ Input.op = client.op /\ Input.dest = client.dest /\ Input.id = client.id
        /\ Input.key = IF PassesKey(client.channel, client.op) THEN client.key ELSE NoKey
    BY <1>1 DEF Input, Client
  <1>3. client.channel \in {"api", "ws", "mcp", "cli"}
    BY <1>1 DEF Client
  <1>4. SafeWithKey => PassesKey(client.channel, client.op)
    BY <1>3, KeysPassed DEF SafeWithKey
  <1> QED BY <1>2, <1>4
-----------------------------------------------------------------------------
(* What a command decides *)

\* There is nothing to do, or nothing left.
NothingToDo ==
    \/ client.dest = "link"
    \/ client.op \in {"invoice.show", "note.show", "schedule.show", "customer.show"}
    \/ client.op = "reminder.cancel" /\ store.reminder \in {"Sent", "Cancelled"}

Decided(h) ==
    /\ h.pc \in {"reply", "ready"} /\ h.result \in Results /\ h.to \in Targets /\ h.moves \in BOOLEAN
    /\ h.pc = "reply" /\ h.result = "ok" => Replayed(Input) \/ NothingToDo
    /\ h.pc = "ready" =>
          /\ h.result = "ok" /\ Aim(client.op, h.to)
          /\ ~h.moves => \/ client.op \in {"schedule.pause", "schedule.cancel"}
                         \/ client.op = "customer.add" /\ store.customer
          /\ SafeInTurn /\ Settled => ~h.moves

LEMMA RefusedDecided == ASSUME NEW e \in Results \ {"ok"} PROVE Decided(Refuse(e))
  BY DEF Refuse, Decided, Results, Targets, States

LEMMA RepliedDecided == ASSUME Replayed(Input) \/ NothingToDo PROVE Decided(Reply)
  BY DEF Reply, Refuse, Decided, Results, Targets, States

LEMMA PreparedDecided ==
    ASSUME NEW t \in Targets, NEW m \in BOOLEAN, Aim(client.op, t),
           ~m => \/ client.op \in {"schedule.pause", "schedule.cancel"}
                 \/ client.op = "customer.add" /\ store.customer,
           SafeInTurn /\ Settled => ~m
    PROVE  Decided(Prepare(t, m))
  <1> DEFINE h == Prepare(t, m)
  <1>1. h.pc = "ready" /\ h.result = "ok" /\ h.to = t /\ (h.moves = m)
    BY DEF Prepare
  <1>2. h.result \in Results
    BY <1>1 DEF Results
  <1> HIDE DEF h
  <1>3. Decided(h)
    BY <1>1, <1>2 DEF Decided
  <1> QED BY <1>3 DEF h

LEMMA GateDecided ==
    ASSUME NEW t \in Targets \union Rejections, NEW err \in Results \ {"ok"},
           t \notin Rejections => Aim(client.op, t) /\ ~(SafeInTurn /\ Settled)
    PROVE  Decided(Gate(t, err))
  <1>1. CASE t \in Rejections
    BY <1>1, RefusedDecided DEF Gate, Rejections
  <1>2. CASE t \notin Rejections
    <2>1. Decided(Prepare(t, TRUE))
      BY <1>2, PreparedDecided
    <2> QED BY <1>2, <2>1 DEF Gate, Rejections
  <1> QED BY <1>1, <1>2

\* The errors are results.
LEMMA ErrorsListed ==
    {"Validation", "NotFound", "NotImplemented", "Fsm", "Decode", "Unauthorized", "Unknown"} \subseteq Results \ {"ok"}
  BY DEF Results, CoreErrors

LEMMA InvoiceStepDecided ==
    ASSUME Typed, NEW event, \/ client.op = "issue" /\ event = "Issue"
                             \/ client.op = "pay" /\ event = "Pay"
                             \/ client.op = "void" /\ event = "Void"
    PROVE  Decided(InvoiceStep(event))
  <1> DEFINE t == NextState(store.invoice, event, store.paid + 1, 2)
  <1>0. store.invoice \in States \union {"Absent"} /\ store.paid \in {0, 1, 2}
    BY DEF Typed, Store
  <1>1. /\ t \in Targets \union Rejections
        /\ t \notin Rejections => Aim(client.op, t) /\ ~(SafeInTurn /\ Settled)
    <2>1. CASE client.op = "issue" /\ event = "Issue"
      BY <2>1 DEF NextState, Targets, States, Rejections, Aim, Settled
    <2>2. CASE client.op = "pay" /\ event = "Pay"
      BY <1>0, <2>2 DEF NextState, PayFromOpen, ClassifyPayment, Payable, Targets, States, Rejections, Aim, SafeInTurn
    <2>3. CASE client.op = "void" /\ event = "Void"
      BY <2>3 DEF NextState, Payable, Targets, States, Rejections, Aim, Settled
    <2> QED BY <2>1, <2>2, <2>3
  <1> HIDE DEF t
  <1>2. Decided(Gate(t, "Fsm"))
    BY <1>1, ErrorsListed, GateDecided
  <1>3. Decided(Refuse("NotFound"))
    BY ErrorsListed, RefusedDecided
  <1> QED BY <1>2, <1>3 DEF InvoiceStep, t

LEMMA PrepareSendDecided ==
    ASSUME Typed, client.op = "send" PROVE Decided(PrepareSend)
  <1> DEFINE t == NextState(store.invoice, "Send", 0, 0)
  <1>0. ~SafeInTurn
    BY DEF SafeInTurn
  <1>1. t \in Targets \union Rejections /\ (t \notin Rejections => Aim(client.op, t))
    BY DEF NextState, Targets, States, Rejections, Aim
  <1>2. "Sent" \in Targets /\ Aim(client.op, "Sent")
    BY DEF Targets, States, Aim
  <1> HIDE DEF t
  <1>3. Decided(Gate(t, "Fsm"))
    BY <1>0, <1>1, ErrorsListed, GateDecided
  <1>4. Decided(Prepare("Sent", TRUE))
    BY <1>0, <1>2, PreparedDecided
  <1>5. Decided(Refuse("NotFound"))
    BY ErrorsListed, RefusedDecided
  <1> QED BY <1>3, <1>4, <1>5 DEF PrepareSend, t

LEMMA SendDecided ==
    ASSUME Typed, client.op = "send" PROVE Decided(Send(Input)) /\ Decided(ApiSend(Input))
  <1>1. Decided(PrepareSend)
    BY PrepareSendDecided
  <1>2. \A e \in {"Validation", "NotFound", "NotImplemented", "Decode"} : Decided(Refuse(e))
    BY ErrorsListed, RefusedDecided
  <1>3. Replayed(Input) => Decided(Reply)
    BY RepliedDecided
  <1>4. client.dest = "link" => Decided(Reply)
    BY RepliedDecided DEF NothingToDo
  <1>5. Input.dest = client.dest
    BY InputFields
  <1>6. Decided(Send(Input))
    BY <1>1, <1>2, <1>3 DEF Send
  <1>7. Decided(SendRender(Input))
    BY <1>1, <1>3 DEF SendRender
  <1> QED BY <1>2, <1>4, <1>5, <1>6, <1>7 DEF ApiSend

LEMMA TransitionDecided ==
    ASSUME Typed, NEW target, \/ client.op = "schedule.pause" /\ target = "Paused"
                              \/ client.op = "schedule.cancel" /\ target = "Cancelled"
    PROVE  Decided(TransitionSchedule(target))
  <1>1. Decided(Refuse("NotFound")) /\ Decided(Refuse("Validation"))
    BY ErrorsListed, RefusedDecided
  <1>2. ASSUME ~(store.schedule = "Cancelled" /\ target # "Cancelled")
        PROVE  Decided(Prepare(target, store.schedule # target))
    <2>1. target \in Targets /\ Aim(client.op, target) /\ client.op \in {"schedule.pause", "schedule.cancel"}
      BY DEF Targets, Aim
    <2>2. SafeInTurn /\ Settled => ~(store.schedule # target)
      BY <1>2 DEF Settled
    <2> DEFINE m == store.schedule # target
    <2>3. m \in BOOLEAN /\ (SafeInTurn /\ Settled => ~m)
      BY <2>2
    <2> HIDE DEF m
    <2>4. Decided(Prepare(target, m))
      BY <2>1, <2>3, PreparedDecided
    <2> QED BY <2>4 DEF m
  <1> QED BY <1>1, <1>2 DEF TransitionSchedule

LEMMA ReminderCancelDecided ==
    ASSUME Typed, client.op = "reminder.cancel" PROVE Decided(ReminderCancel)
  <1>0. store.reminder \in {"Absent", "Scheduled", "Sent", "Cancelled"}
    BY DEF Typed, Store
  <1>1. Decided(Refuse("NotFound"))
    BY ErrorsListed, RefusedDecided
  <1>2. store.reminder = "Scheduled" => Decided(Prepare("Cancelled", TRUE))
    <2>1. "Cancelled" \in Targets /\ Aim(client.op, "Cancelled")
      BY DEF Targets, Aim
    <2>2. store.reminder = "Scheduled" => ~Settled
      BY DEF Settled
    <2> QED BY <2>1, <2>2, PreparedDecided
  <1>3. store.reminder \in {"Sent", "Cancelled"} => Decided(Reply)
    BY RepliedDecided DEF NothingToDo
  <1> QED BY <1>0, <1>1, <1>2, <1>3 DEF ReminderCancel

\* A write that nothing makes safe to repeat.
LEMMA PlainDecided ==
    ASSUME NEW t \in Targets, client.op \in {"draft", "note.draft", "schedule.create", "reminder.schedule"}
    PROVE  Decided(Prepare(t, TRUE))
  <1>1. Aim(client.op, t) /\ ~SafeInTurn
    BY DEF Aim, SafeInTurn
  <1> QED BY <1>1, PreparedDecided

LEMMA CustomerAddDecided ==
    ASSUME Typed, client.op = "customer.add" PROVE Decided(CustomerAdd(Input))
  <1> DEFINE m == ~(client.id /\ store.customer)
  <1>1. m \in BOOLEAN /\ (~m => store.customer) /\ (SafeInTurn /\ Settled => ~m)
    BY DEF SafeInTurn, Settled
  <1>2. "Saved" \in Targets /\ Aim(client.op, "Saved")
    BY DEF Targets, Aim
  <1>3. CustomerAdd(Input) = Prepare("Saved", m)
    BY InputFields DEF CustomerAdd
  <1> HIDE DEF m
  <1>4. Decided(Prepare("Saved", m))
    BY <1>1, <1>2, PreparedDecided
  <1> QED BY <1>3, <1>4

LEMMA ShowDecided ==
    ASSUME NEW row, client.op \in {"invoice.show", "note.show", "schedule.show", "customer.show"}
    PROVE  Decided(Show(row))
  <1>1. Decided(Refuse("NotFound"))
    BY ErrorsListed, RefusedDecided
  <1>2. Decided(Reply)
    BY RepliedDecided DEF NothingToDo
  <1> QED BY <1>1, <1>2 DEF Show

LEMMA CommandDecided == ASSUME Typed PROVE Decided(Command(Input))
  <1>0. client.op \in AllOps /\ Input.op = client.op
    BY InputFields, OpsListed DEF Typed, Client
  <1>1. CASE client.op = "draft"
    <2>1. Replayed(Input) => Decided(Reply)
      BY RepliedDecided
    <2>2. Decided(Prepare("Draft", TRUE))
      BY <1>1, PlainDecided DEF Targets, States
    <2>3. Decided(Draft(Input))
      BY <2>1, <2>2 DEF Draft
    <2> QED BY <1>0, <1>1, <2>3 DEF Command
  <1>2. CASE client.op = "issue"
    <2>1. Decided(InvoiceStep("Issue"))
      BY <1>2, InvoiceStepDecided
    <2> QED BY <1>0, <1>2, <2>1 DEF Command
  <1>3. CASE client.op = "send"
    <2>1. Decided(IF client.channel = "api" THEN ApiSend(Input) ELSE Send(Input))
      BY <1>3, SendDecided
    <2> QED BY <1>0, <1>3, <2>1 DEF Command
  <1>4. CASE client.op = "pay"
    <2>1. Decided(InvoiceStep("Pay"))
      BY <1>4, InvoiceStepDecided
    <2> QED BY <1>0, <1>4, <2>1 DEF Command
  <1>5. CASE client.op = "void"
    <2>1. Decided(InvoiceStep("Void"))
      BY <1>5, InvoiceStepDecided
    <2> QED BY <1>0, <1>5, <2>1 DEF Command
  <1>6. CASE client.op = "note.draft"
    <2>1. Decided(Prepare("Draft", TRUE))
      BY <1>6, PlainDecided DEF Targets, States
    <2>2. Decided(Refuse("NotFound"))
      BY ErrorsListed, RefusedDecided
    <2>3. Decided(NoteDraft)
      BY <2>1, <2>2 DEF NoteDraft
    <2> QED BY <1>0, <1>6, <2>3 DEF Command
  <1>7. CASE client.op = "note.issue"
    <2>1. /\ NoteNextState(store.note) \in Targets \union Rejections
          /\ NoteNextState(store.note) \notin Rejections
                => Aim(client.op, NoteNextState(store.note)) /\ ~(SafeInTurn /\ Settled)
      BY <1>7 DEF NoteNextState, Targets, States, Rejections, Aim, Settled
    <2>2. Decided(Gate(NoteNextState(store.note), "Validation"))
      BY <2>1, ErrorsListed, GateDecided
    <2>3. Decided(Refuse("NotFound"))
      BY ErrorsListed, RefusedDecided
    <2>4. Decided(NoteIssue)
      BY <2>2, <2>3 DEF NoteIssue
    <2> QED BY <1>0, <1>7, <2>4 DEF Command
  <1>8. CASE client.op = "schedule.create"
    <2>1. Decided(Prepare("Active", TRUE))
      BY <1>8, PlainDecided DEF Targets
    <2> QED BY <1>0, <1>8, <2>1 DEF Command
  <1>9. CASE client.op = "schedule.pause"
    <2>1. Decided(TransitionSchedule("Paused"))
      BY <1>9, TransitionDecided
    <2> QED BY <1>0, <1>9, <2>1 DEF Command
  <1>10. CASE client.op = "schedule.cancel"
    <2>1. Decided(TransitionSchedule("Cancelled"))
      BY <1>10, TransitionDecided
    <2> QED BY <1>0, <1>10, <2>1 DEF Command
  <1>11. CASE client.op = "reminder.schedule"
    <2>1. Decided(Prepare("Scheduled", TRUE))
      BY <1>11, PlainDecided DEF Targets
    <2> QED BY <1>0, <1>11, <2>1 DEF Command
  <1>12. CASE client.op = "reminder.cancel"
    <2>1. Decided(ReminderCancel)
      BY <1>12, ReminderCancelDecided
    <2> QED BY <1>0, <1>12, <2>1 DEF Command
  <1>13. CASE client.op = "customer.add"
    <2>1. Decided(CustomerAdd(Input))
      BY <1>13, CustomerAddDecided
    <2> QED BY <1>0, <1>13, <2>1 DEF Command
  <1>14. CASE client.op \in {"invoice.show", "note.show", "schedule.show", "customer.show"}
    <2>1. /\ Decided(Show(store.invoice)) /\ Decided(Show(store.note)) /\ Decided(Show(store.schedule))
          /\ Decided(Show(IF store.customer THEN "Saved" ELSE "Absent"))
      BY <1>14, ShowDecided
    <2> QED BY <1>0, <1>14, <2>1 DEF Command
  <1> QED BY <1>0, <1>1, <1>2, <1>3, <1>4, <1>5, <1>6, <1>7, <1>8, <1>9, <1>10, <1>11, <1>12, <1>13, <1>14
         DEF AllOps

LEMMA HandleDecided == ASSUME Typed PROVE Decided(Handle)
  <1>1. \A e \in {"Unauthorized", "Unknown", "Decode", "Validation"} : Decided(Refuse(e))
    BY ErrorsListed, RefusedDecided
  <1>2. Decided(Command(Input))
    BY CommandDecided
  <1> QED BY <1>1, <1>2 DEF Handle
-----------------------------------------------------------------------------
(* What a write does *)

\* The rows after the write of an operation.
WriteOK(s2) ==
    /\ s2 \in Store
    /\ client.op \in {"draft", "send"} => s2.keys = store.keys \union ({Input.key} \ {NoKey})
    /\ client.op \notin {"draft", "send"} => s2.keys = store.keys
    /\ s2.customer <=> store.customer \/ client.op = "customer.add"
    /\ client.op = "issue" => s2.invoice = "Issued"
    /\ client.op = "void" => s2.invoice = "Voided"
    /\ client.op = "note.issue" => s2.note = "Issued"
    /\ client.op = "schedule.pause" => s2.schedule = "Paused"
    /\ client.op = "schedule.cancel" => s2.schedule = "Cancelled"
    /\ client.op = "reminder.cancel" => s2.reminder = "Cancelled"

LEMMA WrittenStore ==
    ASSUME Typed, NEW to \in Targets, Aim(client.op, to), NEW s2, s2 = Written(Input, to)
    PROVE  WriteOK(s2)
  <1> DEFINE kept == s2.keys = store.keys
             cust == s2.customer <=> store.customer
  <1>0. client.op \in AllOps /\ Input.op = client.op /\ Input.key \in {ClientKey, NoKey} /\ store \in Store
    BY InputFields, OpsListed DEF Typed, Client
  <1>1. CASE client.op \in {"issue", "void"}
    <2>1. s2 = [store EXCEPT !.invoice = to] /\ to \in States
      BY <1>0, <1>1 DEF Written, Aim, States
    <2>2. s2 \in Store /\ s2.invoice = to /\ kept /\ cust
      BY <1>0, <2>1 DEF Store
    <2> QED BY <1>1, <2>2 DEF WriteOK, Aim
  <1>2. CASE client.op = "send"
    <2>1. s2 = [store EXCEPT !.invoice = to, !.keys = store.keys \union ({Input.key} \ {NoKey})] /\ to \in States
      BY <1>0, <1>2 DEF Written, Aim, States
    <2>2. s2 \in Store /\ s2.keys = store.keys \union ({Input.key} \ {NoKey}) /\ cust
      BY <1>0, <2>1 DEF Store
    <2> QED BY <1>2, <2>2 DEF WriteOK
  <1>3. CASE client.op = "pay"
    <2>1. s2 = [store EXCEPT !.invoice = to, !.paid = IF to = "Paid" THEN 2 ELSE 1] /\ to \in States
      BY <1>0, <1>3 DEF Written, Aim, States
    <2>2. s2 \in Store /\ kept /\ cust
      BY <1>0, <2>1 DEF Store
    <2> QED BY <1>3, <2>2 DEF WriteOK
  <1>4. CASE client.op = "note.issue"
    <2>1. s2 = [store EXCEPT !.note = to] /\ to = "Issued"
      BY <1>0, <1>4 DEF Written, Aim
    <2>2. s2 \in Store /\ s2.note = "Issued" /\ kept /\ cust
      BY <1>0, <2>1 DEF Store, NoteStates
    <2> QED BY <1>4, <2>2 DEF WriteOK
  <1>5. CASE client.op \in {"schedule.pause", "schedule.cancel"}
    <2>1. s2 = [store EXCEPT !.schedule = to] /\ to \in {"Paused", "Cancelled"}
      BY <1>0, <1>5 DEF Written, Aim
    <2>2. s2 \in Store /\ s2.schedule = to /\ kept /\ cust
      BY <1>0, <2>1 DEF Store
    <2> QED BY <1>5, <2>2 DEF WriteOK, Aim
  <1>6. CASE client.op = "reminder.cancel"
    <2>1. s2 = [store EXCEPT !.reminder = to] /\ to = "Cancelled"
      BY <1>0, <1>6 DEF Written, Aim
    <2>2. s2 \in Store /\ s2.reminder = "Cancelled" /\ kept /\ cust
      BY <1>0, <2>1 DEF Store
    <2> QED BY <1>6, <2>2 DEF WriteOK
  <1>7. CASE client.op = "customer.add"
    <2>1. s2 = [store EXCEPT !.customer = TRUE]
      BY <1>0, <1>7 DEF Written
    <2>2. s2 \in Store /\ s2.customer /\ kept
      BY <1>0, <2>1 DEF Store
    <2> QED BY <1>7, <2>2 DEF WriteOK
  <1>8. CASE client.op = "draft"
    <2>1. s2 = [store EXCEPT !.made = store.made + 1, !.keys = store.keys \union ({Input.key} \ {NoKey})]
      BY <1>0, <1>8 DEF Written
    <2> DEFINE s1 == [store EXCEPT !.made = store.made + 1]
               ks == store.keys \union ({Input.key} \ {NoKey})
    <2>3. s1 \in Store /\ s1.keys = store.keys /\ (s1.customer <=> store.customer)
      BY <1>0 DEF Store
    <2>4. s2 = [s1 EXCEPT !.keys = ks] /\ ks \in SUBSET {ClientKey, NoKey}
      BY <1>0, <2>1 DEF Store
    <2> HIDE DEF s1, ks
    <2>5. s2 \in Store /\ s2.keys = ks /\ (s2.customer <=> s1.customer)
      BY <2>3, <2>4 DEF Store
    <2>2. s2 \in Store /\ s2.keys = store.keys \union ({Input.key} \ {NoKey}) /\ cust
      BY <2>3, <2>5 DEF ks
    <2> QED BY <1>8, <2>2 DEF WriteOK
  <1>9. CASE client.op \in {"note.draft", "schedule.create", "reminder.schedule", "invoice.show", "note.show",
                            "schedule.show", "customer.show"}
    <2>1. s2 = [store EXCEPT !.made = store.made + 1]
      BY <1>0, <1>9 DEF Written
    <2>2. s2 \in Store /\ kept /\ cust
      BY <1>0, <2>1 DEF Store
    <2> QED BY <1>9, <2>2 DEF WriteOK
  <1> QED BY <1>0, <1>1, <1>2, <1>3, <1>4, <1>5, <1>6, <1>7, <1>8, <1>9 DEF AllOps
-----------------------------------------------------------------------------
(* What a step keeps *)

\* Effects are never undone, and a row that needs nothing more stays so unless
\* someone else writes over a state that he has not read.
Keeps ==
    /\ client' = client /\ (overwritten => overwritten')
    /\ \A m \in 1..MaxAttempts : att[m].effect => att'[m].effect
    /\ ~overwritten' =>
          /\ client.op = "schedule.pause" /\ store.schedule \in {"Paused", "Cancelled"}
                => store'.schedule \in {"Paused", "Cancelled"}
          /\ client.op = "schedule.cancel" /\ store.schedule = "Cancelled" => store'.schedule = "Cancelled"
          /\ client.op = "reminder.cancel" /\ store.reminder \in {"Sent", "Cancelled"}
                => store'.reminder \in {"Sent", "Cancelled"}

LEMMA KeptDone ==
    ASSUME Keeps, NEW n
    PROVE  /\ Done => Done'
           /\ Vacuous => Vacuous'
           /\ Told(n) => Told(n)'
  <1>1. Done => Done'
    BY DEF Keeps, Done
  <1>2. Vacuous => Vacuous'
    BY <1>1 DEF Keeps, Vacuous
  <1>3. Effects \subseteq Effects'
    BY DEF Keeps, Effects
  <1>4. RowTells' <=> RowTells
    BY DEF Keeps, RowTells
  <1>5. CASE overwritten'
    <2>1. DoneAlready(n) => DoneAlready(n)' \/ RowTells
      BY <1>3 DEF Keeps, DoneAlready, RowTells
    <2> QED BY <1>1, <1>2, <1>4, <1>5, <2>1 DEF Told
  <1>6. CASE ~overwritten'
    <2>1. DoneAlready(n) => DoneAlready(n)'
      BY <1>3, <1>6 DEF Keeps, DoneAlready
    <2>2. ~overwritten
      BY <1>6 DEF Keeps
    <2> QED BY <1>1, <1>2, <2>1, <2>2 DEF Told
  <1> QED BY <1>5, <1>6

\* An attempt that a step leaves alone is still as it has to be.
LEMMA KeptAttempt ==
    ASSUME Keeps, NEW m, AttemptOK(m), att'[m] = att[m]
    PROVE  AttemptOK(m)'
  <1>1. (Vacuous => Vacuous') /\ (Told(m) => Told(m)')
    BY KeptDone
  <1>2. After' = After /\ client' = client
    BY DEF Keeps, After
  <1>3. ReadyOK(att[m]) => ReadyOK(att[m])'
    BY <1>1, <1>2 DEF ReadyOK
  <1> QED BY <1>1, <1>2, <1>3 DEF AttemptOK, AnswerOK

\* A step of one attempt that writes nothing.
LEMMA StepKeeps ==
    ASSUME ChInv, NEW n \in 1..MaxAttempts, NEW a \in Attempt,
           att' = [att EXCEPT ![n] = a], UNCHANGED <<client, store, held, overwritten>>,
           overlapped' \in BOOLEAN, overlapped => overlapped',
           a.effect <=> att[n].effect, AnswerOK(n, a), InTurn',
           a.pc = "ready" /\ ~overlapped' => \A m \in 1..MaxAttempts : att[m].pc = "ready" => m = n,
           a.pc = "ready" /\ SafeInTurn /\ ~overwritten /\ Done => ~a.moves
    PROVE  ChInv'
  <1>0. Typed /\ StoreOK /\ TurnsOK /\ \A m \in 1..MaxAttempts : AttemptOK(m)
    BY DEF ChInv
  <1>1. att \in [1..MaxAttempts -> Attempt]
    BY <1>0 DEF Typed
  <1>2. att'[n] = a /\ \A m \in 1..MaxAttempts \ {n} : att'[m] = att[m]
    BY <1>1
  <1>3. \A m \in 1..MaxAttempts : att'[m].effect <=> att[m].effect
    BY <1>2
  <1>4. Keeps
    BY <1>3 DEF Keeps
  <1>5. Done' <=> Done
    BY <1>3 DEF Done
  <1>6. Effects' = Effects
    BY <1>3 DEF Effects
  <1>7. (SafeWithKey' <=> SafeWithKey) /\ (SafeInTurn' <=> SafeInTurn) /\ (AtMostOne' <=> AtMostOne)
    BY <1>3 DEF SafeWithKey, SafeInTurn, AtMostOne
  <1>8. Typed'
    BY <1>0, <1>1 DEF Typed
  <1>9. StoreOK'
    <2>1. Settled' <=> Settled
      BY DEF Settled
    <2> QED BY <1>0, <1>5, <1>7, <2>1 DEF StoreOK
  <1>10. TurnsOK'
    <2>1. ASSUME ~overlapped', NEW m1 \in 1..MaxAttempts, NEW m2 \in 1..MaxAttempts,
                 att'[m1].pc = "ready", att'[m2].pc = "ready"
          PROVE  m1 = m2
      BY <1>0, <1>2, <2>1 DEF TurnsOK
    <2>2. ASSUME SafeInTurn, ~overlapped', ~overwritten, Done, NEW m \in 1..MaxAttempts, att'[m].pc = "ready"
          PROVE  ~att'[m].moves
      BY <1>0, <1>2, <2>2 DEF TurnsOK
    <2> QED BY <1>0, <1>5, <1>7, <2>1, <2>2 DEF TurnsOK
  <1>11. ASSUME NEW m \in 1..MaxAttempts PROVE AttemptOK(m)'
    <2>1. CASE m # n
      BY <1>0, <1>2, <1>4, <2>1, KeptAttempt
    <2>2. CASE m = n
      <3>1. Told(n)' <=> Told(n)
        BY <1>6 DEF Told, DoneAlready, RowTells
      <3>2. (Vacuous' <=> Vacuous) /\ After' = After
        BY <1>5 DEF Vacuous, After
      <3>3. ReadyOK(a) => ReadyOK(att[n])'
        BY <1>2, <3>2 DEF ReadyOK
      <3> QED BY <1>2, <2>2, <3>1, <3>2, <3>3 DEF AttemptOK, AnswerOK
    <2> QED BY <2>1, <2>2
  <1> QED BY <1>8, <1>9, <1>10, <1>11 DEF ChInv

\* An attempt that was made stays made.
LEMMA TurnKept ==
    ASSUME ChInv, NEW n \in 1..MaxAttempts, NEW a \in Attempt,
           att' = [att EXCEPT ![n] = a], att[n].pc # "new", a.pc # "new"
    PROVE  InTurn'
  <1>1. att \in [1..MaxAttempts -> Attempt]
    BY DEF ChInv, Typed
  <1>2. att'[n] = a /\ \A m \in 1..MaxAttempts \ {n} : att'[m] = att[m]
    BY <1>1
  <1>3. Asked' = Asked
    BY <1>2 DEF Asked
  <1>4. InTurn
    BY DEF ChInv
  <1> QED BY <1>3, <1>4 DEF InTurn
-----------------------------------------------------------------------------
(* The steps *)

LEMMA InitHolds == ASSUME Init PROVE ChInv
  <1>1. DOMAIN Adapters = {"api", "ws", "mcp", "cli"}
    BY DEF Adapters
  <1>2. client \in Client
    BY <1>1 DEF Init, Client
  <1>3. store \in Store /\ store.keys = {} /\ ~store.customer
    <2>1. ASSUME NEW s \in [invoice : States \union {"Absent"}, note : NoteStates \union {"Absent"},
                            schedule : {"Absent", "Active", "Paused", "Cancelled"},
                            reminder : {"Absent", "Scheduled", "Sent", "Cancelled"},
                            customer : {FALSE}, paid : {0, 1, 2}, keys : {{}}, made : {0}]
          PROVE  s \in Store /\ s.keys = {} /\ ~s.customer
      <3>1. s.keys = {} /\ s.customer = FALSE /\ s.made = 0
        OBVIOUS
      <3>2. {FALSE} \subseteq BOOLEAN /\ {{}} \subseteq SUBSET {ClientKey, NoKey} /\ {0} \subseteq Nat
        OBVIOUS
      <3>3. s \in Store
        BY <3>2, Zenon DEF Store
      <3> QED BY <3>1, <3>3
    <2> QED BY <2>1 DEF Init
  <1>4. NoAttempt \in Attempt /\ NoAttempt.pc = "new" /\ ~NoAttempt.effect
    BY DEF NoAttempt, Attempt, Results, Targets
  <1>5. att \in [1..MaxAttempts -> Attempt] /\ \A n \in 1..MaxAttempts : att[n] = NoAttempt
    BY <1>4 DEF Init
  <1>5a. held \in [Others -> Held] /\ overwritten = FALSE
    BY DEF Init, Held
  <1>6. Typed
    BY <1>2, <1>3, <1>5, <1>5a DEF Init, Typed
  <1>7. InTurn
    <2>1. Asked = {}
      BY <1>4, <1>5 DEF Asked
    <2>2. 0 \in 0..MaxAttempts /\ 1..0 = {}
      BY AttemptsAssumption
    <2> QED BY <2>1, <2>2 DEF InTurn
  <1>8. ~Done
    BY <1>4, <1>5 DEF Done
  <1>9. StoreOK
    BY <1>3, <1>8 DEF StoreOK
  <1>10. TurnsOK
    BY <1>4, <1>5, <1>8 DEF TurnsOK, AtMostOne
  <1>11. \A n \in 1..MaxAttempts : AttemptOK(n)
    BY <1>4, <1>5 DEF AttemptOK, AnswerOK
  <1> QED BY <1>6, <1>7, <1>9, <1>10, <1>11 DEF ChInv

LEMMA AskKeeps == ASSUME ChInv, Ask PROVE ChInv'
  <1>1. PICK k \in 0..MaxAttempts : Asked = 1..k
    BY DEF ChInv, InTurn
  <1>2. Cardinality(Asked) = k
    <2>1. k \in Nat
      BY <1>1, AttemptsAssumption
    <2>2. Cardinality(1..k) = IF 1 > k THEN 0 ELSE k - 1 + 1
      BY <2>1, FS_Interval
    <2> QED BY <1>1, <2>1, <2>2
  <1> DEFINE n == k + 1
             a == [att[n] EXCEPT !.pc = "sent"]
  <1>3. n \in 1..MaxAttempts /\ n \notin Asked /\ 1..n = Asked \union {n} /\ n \in 0..MaxAttempts
    BY <1>1, <1>2, AttemptsAssumption DEF Ask
  <1>4. att \in [1..MaxAttempts -> Attempt] /\ overlapped \in BOOLEAN
    BY DEF ChInv, Typed
  <1>5. att[n].pc = "new" /\ att[n] \in Attempt
    BY <1>3, <1>4 DEF Asked
  <1>6. att' = [att EXCEPT ![n] = a] /\ UNCHANGED <<client, store, overlapped, held, overwritten>>
    BY <1>2 DEF Ask
  <1> HIDE DEF n
  <1>7. a \in Attempt /\ a.pc = "sent" /\ (a.effect <=> att[n].effect)
    BY <1>5 DEF Attempt
  <1> HIDE DEF a
  <1>8. ~att[n].effect
    BY <1>3, <1>5 DEF ChInv, AttemptOK, AnswerOK
  <1>9. AnswerOK(n, a)
    BY <1>7, <1>8 DEF AnswerOK
  <1>10. att'[n] = a /\ \A m \in 1..MaxAttempts \ {n} : att'[m] = att[m]
    BY <1>3, <1>4, <1>6
  <1>11. Asked' = 1..n
    BY <1>3, <1>7, <1>10 DEF Asked
  <1>12. InTurn'
    BY <1>3, <1>11 DEF InTurn
  <1> QED BY <1>3, <1>4, <1>6, <1>7, <1>9, <1>12, StepKeeps

LEMMA BeginKeeps == ASSUME ChInv, NEW n \in 1..MaxAttempts, Begin(n) PROVE ChInv'
  <1> DEFINE h == Handle
             a == [pc |-> h.pc, result |-> h.result, to |-> h.to, moves |-> h.moves, effect |-> FALSE]
  <1>0. /\ Typed /\ StoreOK /\ att[n].pc = "sent" /\ att' = [att EXCEPT ![n] = a]
        /\ UNCHANGED <<client, store, held, overwritten>>
        /\ overlapped' = (overlapped \/ (h.pc = "ready" /\ \E m \in Asked : att[m].pc = "ready"))
    BY DEF ChInv, Begin
  <1>1. Decided(h)
    BY <1>0, HandleDecided
  <1> HIDE DEF h
  <1>2. a.pc = h.pc /\ a.result = h.result /\ a.to = h.to /\ a.moves = h.moves /\ ~a.effect
    OBVIOUS
  <1>3. a \in Attempt
    BY <1>1 DEF Decided, Attempt
  <1> HIDE DEF a
  <1>4. ~att[n].effect
    BY <1>0 DEF ChInv, AttemptOK, AnswerOK
  <1>5. store.keys # {} \/ store.customer => Done
    BY <1>0 DEF StoreOK
  <1>6. Done => DoneAlready(n)
    BY <1>4 DEF Done, DoneAlready, Effects
  <1>7. Replayed(Input) \/ NothingToDo => DoneAlready(n)
    <2>1. Replayed(Input) => DoneAlready(n)
      BY <1>5, <1>6 DEF Replayed
    <2>2. NothingToDo => DoneAlready(n)
      BY DEF NothingToDo, DoneAlready
    <2> QED BY <2>1, <2>2
  <1>8. a.pc = "ready" => ReadyOK(a)
    BY <1>1, <1>2, <1>5 DEF Decided, ReadyOK, Vacuous
  <1>9. AnswerOK(n, a)
    BY <1>1, <1>2, <1>7, <1>8 DEF AnswerOK, Decided, Told
  <1>10. overlapped' \in BOOLEAN /\ (overlapped => overlapped')
    BY <1>0
  <1>11. ASSUME a.pc = "ready", ~overlapped', NEW m \in 1..MaxAttempts, att[m].pc = "ready" PROVE m = n
    <2>1. m \in Asked
      BY <1>11 DEF Asked
    <2> QED BY <1>0, <1>2, <1>11, <2>1
  <1>12. a.pc = "ready" /\ SafeInTurn /\ ~overwritten /\ Done => ~a.moves
    <2>1. SafeInTurn /\ ~overwritten /\ Done => Settled
      BY <1>0 DEF StoreOK
    <2> QED BY <1>1, <1>2, <2>1 DEF Decided
  <1>13. att[n].pc # "new" /\ a.pc # "new"
    BY <1>0, <1>1, <1>2 DEF Decided
  <1>14. InTurn'
    BY <1>0, <1>3, <1>13, TurnKept
  <1>15. a.effect <=> att[n].effect
    BY <1>2, <1>4
  <1> QED BY <1>0, <1>3, <1>9, <1>10, <1>11, <1>12, <1>14, <1>15, StepKeeps

\* The steps that only move an attempt on: to reply with an error, to an
\* answer, to the client, or to nowhere.
LEMMA MoveKeeps ==
    ASSUME ChInv, NEW n \in 1..MaxAttempts, NEW p \in {"reply", "answered", "told", "lost"}, NEW r \in Results,
           att' = [att EXCEPT ![n].pc = p, ![n].result = r], UNCHANGED <<client, store, overlapped, held, overwritten>>,
           att[n].pc # "new",
           att[n].effect => r \in {"ok"} \union After,
           p # "lost" /\ r = "ok" => att[n].pc \in {"reply", "answered"} /\ att[n].result = "ok"
    PROVE  ChInv'
  <1> DEFINE b == [att[n] EXCEPT !.pc = p]
             a == [b EXCEPT !.result = r]
  <1>0. att \in [1..MaxAttempts -> Attempt] /\ overlapped \in BOOLEAN /\ AttemptOK(n)
    BY DEF ChInv, Typed
  <1>1. att[n] \in Attempt
    BY <1>0
  <1>2. att' = [att EXCEPT ![n] = a]
    BY <1>0
  <1>3. b \in Attempt /\ b.pc = p /\ (b.effect <=> att[n].effect)
    BY <1>1 DEF Attempt
  <1> HIDE DEF b
  <1>4. a \in Attempt /\ a.pc = p /\ a.result = r /\ (a.effect <=> att[n].effect)
    BY <1>3 DEF Attempt
  <1> HIDE DEF a
  <1>5. AnswerOK(n, a)
    BY <1>0, <1>4 DEF AttemptOK, AnswerOK
  <1>6. InTurn'
    BY <1>2, <1>4, TurnKept
  <1> QED BY <1>0, <1>2, <1>4, <1>5, <1>6, StepKeeps

LEMMA WriteFailsKeeps == ASSUME ChInv, NEW n \in 1..MaxAttempts, WriteFails(n) PROVE ChInv'
  <1>1. PICK e \in Failures : att' = [att EXCEPT ![n].pc = "reply", ![n].result = e]
    BY DEF WriteFails
  <1>2. e \in Results /\ e # "ok"
    BY <1>1 DEF Failures, Results, CoreErrors
  <1>3. att[n].pc = "ready" /\ ~att[n].effect /\ UNCHANGED <<client, store, overlapped, held, overwritten>>
    BY DEF WriteFails, ChInv, AttemptOK, AnswerOK
  <1> QED BY <1>1, <1>2, <1>3, MoveKeeps

LEMMA FinishKeeps == ASSUME ChInv, NEW n \in 1..MaxAttempts, Finish(n) PROVE ChInv'
  <1>1. PICK e \in {"ok"} \union After :
            att' = [att EXCEPT ![n].pc = "answered", ![n].result = IF @ = "ok" THEN e ELSE @]
    BY DEF Finish
  <1> DEFINE r == IF att[n].result = "ok" THEN e ELSE att[n].result
  <1>0. att \in [1..MaxAttempts -> Attempt] /\ AttemptOK(n)
    BY DEF ChInv, Typed
  <1>2. att' = [att EXCEPT ![n].pc = "answered", ![n].result = r]
    BY <1>0, <1>1
  <1>3. e \in Results
    BY <1>1 DEF After, Results
  <1>4. r \in Results
    BY <1>0, <1>3 DEF Attempt
  <1>5. att[n].pc = "reply" /\ UNCHANGED <<client, store, overlapped, held, overwritten>>
    BY DEF Finish
  <1>6. att[n].effect => r \in {"ok"} \union After
    BY <1>0, <1>1 DEF AttemptOK, AnswerOK
  <1>7. r = "ok" => att[n].result = "ok"
    OBVIOUS
  <1> HIDE DEF r
  <1> QED BY <1>2, <1>4, <1>5, <1>6, <1>7, MoveKeeps

\* The same, with the result as it was.
LEMMA PassOnKeeps ==
    ASSUME ChInv, NEW n \in 1..MaxAttempts, NEW p \in {"told", "lost"},
           att' = [att EXCEPT ![n].pc = p], UNCHANGED <<client, store, overlapped, held, overwritten>>,
           att[n].pc # "new", p = "told" => att[n].pc = "answered"
    PROVE  ChInv'
  <1> DEFINE r == att[n].result
  <1>0. att \in [1..MaxAttempts -> Attempt] /\ AttemptOK(n)
    BY DEF ChInv, Typed
  <1>1. att' = [att EXCEPT ![n].pc = p, ![n].result = r]
    <2>1. att[n] \in Attempt
      BY <1>0
    <2>2. [att[n] EXCEPT !.pc = p] = [att[n] EXCEPT !.pc = p, !.result = r]
      BY <2>1 DEF Attempt
    <2> QED BY <1>0, <2>2
  <1>2. r \in Results
    BY <1>0 DEF Attempt
  <1>3. att[n].effect => r \in {"ok"} \union After
    BY <1>0 DEF AttemptOK, AnswerOK
  <1> HIDE DEF r
  <1>4. p # "lost" /\ r = "ok" => att[n].pc \in {"reply", "answered"} /\ att[n].result = "ok"
    BY DEF r
  <1> QED BY <1>1, <1>2, <1>3, <1>4, MoveKeeps
-----------------------------------------------------------------------------
LEMMA WriteKeeps == ASSUME ChInv, NEW n \in 1..MaxAttempts, Write(n) PROVE ChInv'
  <1> DEFINE b == [att[n] EXCEPT !.pc = "reply"]
             a == [b EXCEPT !.effect = att[n].moves]
  <1>0. /\ Typed /\ StoreOK /\ TurnsOK /\ \A m \in 1..MaxAttempts : AttemptOK(m)
        /\ att[n].pc = "ready" /\ ~KeyTaken(Input) /\ UNCHANGED <<client, overlapped, held, overwritten>>
    BY DEF ChInv, Write
  <1>1. att \in [1..MaxAttempts -> Attempt] /\ att[n] \in Attempt
    BY <1>0 DEF Typed
  <1>2. att' = [att EXCEPT ![n] = a]
    BY <1>1 DEF Write
  <1>3. b \in Attempt /\ b.pc = "reply" /\ b.result = att[n].result
    BY <1>1 DEF Attempt
  <1> HIDE DEF b
  <1>4. a \in Attempt /\ a.pc = "reply" /\ a.result = att[n].result /\ (a.effect <=> att[n].moves)
    BY <1>1, <1>3 DEF Attempt
  <1> HIDE DEF a
  <1>5. ~att[n].effect /\ ReadyOK(att[n])
    BY <1>0 DEF AttemptOK, AnswerOK
  <1>6. WriteOK(store')
    <2>1. att[n].to \in Targets /\ Aim(client.op, att[n].to)
      BY <1>1, <1>5 DEF Attempt, ReadyOK
    <2> QED BY <1>0, <2>1, WrittenStore DEF Write
  <1>7. att'[n] = a /\ \A m \in 1..MaxAttempts \ {n} : att'[m] = att[m]
    BY <1>1, <1>2
  <1>8. Keeps
    BY <1>0, <1>5, <1>6, <1>7 DEF Keeps, WriteOK
  <1>9. (Done => Done') /\ (Vacuous => Vacuous')
    BY <1>8, KeptDone
  <1>10. att[n].moves => Done'
    BY <1>4, <1>7 DEF Done
  <1>11. ~att[n].moves => Vacuous
    BY <1>5 DEF ReadyOK
  <1>12. (SafeWithKey' <=> SafeWithKey) /\ (SafeInTurn' <=> SafeInTurn) /\ After' = After
    BY <1>0 DEF SafeWithKey, SafeInTurn, After
  <1>13. Typed'
    BY <1>0, <1>1, <1>2, <1>4, <1>6 DEF Typed, WriteOK
  <1>14. InTurn'
    BY <1>0, <1>2, <1>4, TurnKept
  <1>15. StoreOK'
    <2>1. ASSUME store'.keys # {} PROVE Done'
      <3>1. CASE client.op \in {"draft", "send"}
        BY <1>10, <1>11, <3>1 DEF Vacuous
      <3>2. CASE client.op \notin {"draft", "send"}
        BY <1>0, <1>6, <1>9, <2>1, <3>2 DEF WriteOK, StoreOK
      <3> QED BY <3>1, <3>2
    <2>2. ASSUME store'.customer PROVE Done'
      <3>1. CASE client.op = "customer.add"
        BY <1>9, <1>10, <1>11, <3>1 DEF Vacuous
      <3>2. CASE client.op # "customer.add"
        BY <1>0, <1>6, <1>9, <2>2, <3>2 DEF WriteOK, StoreOK
      <3> QED BY <3>1, <3>2
    <2>3. SafeWithKey => client.key \in store'.keys
      <3>1. SafeWithKey => Input.key = client.key
        BY <1>0, InputFields
      <3> QED BY <1>6, <3>1 DEF WriteOK, SafeWithKey
    <2>4. Settled'
      BY <1>0, <1>6 DEF Settled, WriteOK
    <2> QED BY <1>0, <1>12, <2>1, <2>2, <2>3, <2>4 DEF StoreOK
  <1>16. ~Done => AtMostOne'
    BY <1>7 DEF Done, AtMostOne
  <1>17. TurnsOK'
    <2>1. SafeWithKey => ~Done
      <3>1. SafeWithKey => Input.key = client.key /\ Input.op = client.op
        BY <1>0, InputFields
      <3> QED BY <1>0, <3>1 DEF KeyTaken, Replayed, SafeWithKey, StoreOK
    <2>2. ASSUME ~overlapped, NEW m1 \in 1..MaxAttempts, NEW m2 \in 1..MaxAttempts,
                 att'[m1].pc = "ready", att'[m2].pc = "ready"
          PROVE  m1 = m2
      BY <1>0, <1>4, <1>7, <2>2 DEF TurnsOK
    <2>3. ASSUME ~overlapped, NEW m \in 1..MaxAttempts PROVE att'[m].pc # "ready"
      BY <1>0, <1>4, <1>7, <2>3 DEF TurnsOK
    <2>4. ASSUME SafeInTurn, ~overlapped, ~overwritten PROVE AtMostOne'
      <3>1. CASE ~Done
        BY <1>16, <3>1
      <3>2. CASE Done
        <4>1. ~a.effect
          BY <1>0, <1>4, <2>4, <3>2 DEF TurnsOK
        <4>2. AtMostOne
          BY <1>0, <2>4 DEF TurnsOK
        <4> QED BY <1>7, <4>1, <4>2 DEF AtMostOne
      <3> QED BY <3>1, <3>2
    <2> QED BY <1>0, <1>12, <1>16, <2>1, <2>2, <2>3, <2>4 DEF TurnsOK
  <1>18. ASSUME NEW m \in 1..MaxAttempts PROVE AttemptOK(m)'
    <2>1. CASE m # n
      BY <1>0, <1>7, <1>8, <2>1, KeptAttempt
    <2>2. CASE m = n
      <3>1. a.result = "ok"
        BY <1>4, <1>5 DEF ReadyOK
      <3>2. ASSUME ~a.effect PROVE DoneAlready(n)'
        <4>1. Vacuous
          BY <1>4, <1>11, <3>2
        <4>2. CASE client.op \in {"schedule.pause", "schedule.cancel"}
          BY <1>0, <1>6, <4>2 DEF WriteOK, DoneAlready
        <4>3. CASE Done
          <5>1. PICK k \in 1..MaxAttempts : att[k].effect
            BY <4>3 DEF Done
          <5>2. k # n /\ k \in Effects'
            BY <1>5, <1>7, <5>1 DEF Effects
          <5> QED BY <5>2 DEF DoneAlready
        <4> QED BY <4>1, <4>2, <4>3 DEF Vacuous
      <3> QED BY <1>4, <1>7, <1>12, <2>2, <3>1, <3>2 DEF AttemptOK, AnswerOK, Told
    <2> QED BY <2>1, <2>2
  <1> QED BY <1>13, <1>14, <1>15, <1>17, <1>18 DEF ChInv

\* A row keeps what it has come to under a command that wrote what it had read.
RowKept(s2) ==
    /\ store.schedule \in {"Paused", "Cancelled"} => s2.schedule \in {"Paused", "Cancelled"}
    /\ store.schedule = "Cancelled" => s2.schedule = "Cancelled"
    /\ store.reminder \in {"Sent", "Cancelled"} => s2.reminder = store.reminder
    /\ store.note = "Issued" => s2.note = "Issued"
    /\ store.invoice # "Draft" => s2.invoice # "Draft"
    /\ store.invoice = "Voided" => s2.invoice = "Voided"

LEMMA OtherWrites ==
    ASSUME store \in Store, NEW w \in Held, w.pc = "save", NEW s2,
           s2 = CASE w.row = "invoice"  -> [store EXCEPT !.invoice = w.to, !.paid = w.paid]
                  [] w.row = "note"     -> [store EXCEPT !.note = w.to]
                  [] w.row = "schedule" -> [store EXCEPT !.schedule = w.to]
                  [] w.row = "reminder" -> [store EXCEPT !.reminder = w.to]
    PROVE  /\ s2 \in Store /\ s2.keys = store.keys /\ (s2.customer <=> store.customer)
           /\ store[w.row] = w.from => RowKept(s2)
  <1>0. /\ w.row \in Rows /\ w.paid \in {0, 1, 2} /\ Leads(w.row, w.from, w.to)
    BY DEF Held, Waiting, Over
  <1> DEFINE f == w.from
             t == w.to
             p == w.paid
  <1>1. CASE w.row = "invoice"
    <2>1. PICK ev \in {"issue", "send", "view", "pay", "void"} : CommandEdge(ev, f, t)
      BY <1>0, <1>1 DEF Leads, InvoiceLeads
    <2>2. t \in States /\ t # "Draft" /\ f # "Voided"
      BY <2>1 DEF CommandEdge, States, Payable
    <2>3. s2 = [store EXCEPT !.invoice = t, !.paid = p] /\ (store[w.row] = f <=> store.invoice = f)
      BY <1>1
    <2> HIDE DEF f, t, p
    <2>4. p \in {0, 1, 2}
      BY <1>0 DEF p
    <2>5. /\ s2 \in Store /\ s2.keys = store.keys /\ (s2.customer <=> store.customer) /\ s2.invoice = t
          /\ s2.schedule = store.schedule /\ s2.reminder = store.reminder /\ s2.note = store.note
      BY <2>2, <2>3, <2>4 DEF Store
    <2>6. store.invoice = f => RowKept(s2)
      BY <2>2, <2>5 DEF RowKept
    <2> QED BY <2>3, <2>5, <2>6 DEF f
  <1>2. CASE w.row = "note"
    <2>1. f = "Draft" /\ t = "Issued"
      BY <1>0, <1>2 DEF Leads, NoteNextState
    <2>2. s2 = [store EXCEPT !.note = t] /\ (store[w.row] = f <=> store.note = f)
      BY <1>2
    <2> HIDE DEF f, t, p
    <2>3. /\ s2 \in Store /\ s2.keys = store.keys /\ (s2.customer <=> store.customer) /\ s2.note = t
          /\ s2.schedule = store.schedule /\ s2.reminder = store.reminder /\ s2.invoice = store.invoice
      BY <2>1, <2>2 DEF Store, NoteStates
    <2>4. RowKept(s2)
      BY <2>1, <2>3 DEF RowKept
    <2> QED BY <2>3, <2>4
  <1>3. CASE w.row = "schedule"
    <2>1. /\ t \in {"Active", "Paused", "Cancelled"}
          /\ f \in {"Paused", "Cancelled"} => t \in {"Paused", "Cancelled"}
          /\ f = "Cancelled" => t = "Cancelled"
      BY <1>0, <1>3 DEF Leads, ScheduleLeads
    <2>2. s2 = [store EXCEPT !.schedule = t] /\ (store[w.row] = f <=> store.schedule = f)
      BY <1>3
    <2> HIDE DEF f, t, p
    <2>3. /\ s2 \in Store /\ s2.keys = store.keys /\ (s2.customer <=> store.customer) /\ s2.schedule = t
          /\ s2.note = store.note /\ s2.reminder = store.reminder /\ s2.invoice = store.invoice
      BY <2>1, <2>2 DEF Store
    <2>4. store.schedule = f => RowKept(s2)
      BY <2>1, <2>3 DEF RowKept
    <2> QED BY <2>2, <2>3, <2>4 DEF f
  <1>4. CASE w.row = "reminder"
    <2>1. f = "Scheduled" /\ t \in {"Sent", "Cancelled"}
      BY <1>0, <1>4 DEF Leads, ReminderLeads
    <2>2. s2 = [store EXCEPT !.reminder = t] /\ (store[w.row] = f <=> store.reminder = f)
      BY <1>4
    <2> HIDE DEF f, t, p
    <2>3. /\ s2 \in Store /\ s2.keys = store.keys /\ (s2.customer <=> store.customer) /\ s2.reminder = t
          /\ s2.note = store.note /\ s2.schedule = store.schedule /\ s2.invoice = store.invoice
      BY <2>1, <2>2 DEF Store
    <2>4. store.reminder = f => RowKept(s2)
      BY <2>1, <2>3 DEF RowKept
    <2> QED BY <2>2, <2>3, <2>4 DEF f
  <1> QED BY <1>0, <1>1, <1>2, <1>3, <1>4 DEF Rows

LEMMA OtherSaveKeeps == ASSUME ChInv, NEW o \in Others, OtherSave(o) PROVE ChInv'
  <1>0. /\ Typed /\ InTurn /\ StoreOK /\ TurnsOK /\ \A m \in 1..MaxAttempts : AttemptOK(m)
        /\ UNCHANGED <<client, att, overlapped>> /\ store \in Store /\ held \in [Others -> Held]
        /\ held' = [held EXCEPT ![o] = Over]
        /\ overwritten' = (overwritten \/ store[held[o].row] # held[o].from)
    BY DEF ChInv, OtherSave, Typed
  <1>1. /\ store' \in Store /\ store'.keys = store.keys /\ (store'.customer <=> store.customer)
        /\ store[held[o].row] = held[o].from => RowKept(store')
    BY <1>0, OtherWrites DEF OtherSave
  <1>2. ~overwritten' => RowKept(store') /\ ~overwritten
    BY <1>0, <1>1
  <1>3. overwritten' \in BOOLEAN /\ (overwritten => overwritten')
    BY <1>0
  <1>4. held' \in [Others -> Held]
    BY <1>0 DEF Held
  <1>5. Keeps
    BY <1>0, <1>2, <1>3 DEF Keeps, RowKept
  <1>6. Done' <=> Done
    BY <1>0 DEF Done
  <1>7. (SafeWithKey' <=> SafeWithKey) /\ (SafeInTurn' <=> SafeInTurn) /\ (AtMostOne' <=> AtMostOne)
    BY <1>0 DEF SafeWithKey, SafeInTurn, AtMostOne
  <1>8. Typed' /\ InTurn'
    BY <1>0, <1>1, <1>3, <1>4 DEF Typed, InTurn, Asked
  <1>9. StoreOK'
    <2>1. ~overwritten' /\ Settled => Settled'
      BY <1>0, <1>1, <1>2 DEF Settled, RowKept
    <2> QED BY <1>0, <1>1, <1>2, <1>6, <1>7, <2>1 DEF StoreOK
  <1>10. TurnsOK'
    BY <1>0, <1>2, <1>6, <1>7 DEF TurnsOK
  <1>11. \A m \in 1..MaxAttempts : AttemptOK(m)'
    BY <1>0, <1>5, KeptAttempt
  <1> QED BY <1>8, <1>9, <1>10, <1>11 DEF ChInv

LEMMA OtherLoadKeeps ==
    ASSUME ChInv, NEW o \in Others, NEW row \in Rows, NEW to \in RowStates, OtherLoad(o, row, to)
    PROVE  ChInv'
  <1> DEFINE p == CASE to = "Paid" -> 2 [] to = "PartiallyPaid" -> 1 [] OTHER -> store.paid
             w == [pc |-> "save", row |-> row, from |-> store[row], to |-> to, paid |-> p]
  <1>0. /\ Typed /\ InTurn /\ StoreOK /\ TurnsOK /\ \A m \in 1..MaxAttempts : AttemptOK(m)
        /\ UNCHANGED <<client, store, att, overlapped, overwritten>> /\ store \in Store
        /\ held \in [Others -> Held] /\ held' = [held EXCEPT ![o] = w] /\ Leads(row, store[row], to)
    BY DEF ChInv, OtherLoad, Typed
  <1>1. store[row] \in RowStates /\ p \in {0, 1, 2}
    <2>1. /\ store.invoice \in RowStates /\ store.note \in RowStates /\ store.schedule \in RowStates
          /\ store.reminder \in RowStates /\ store.paid \in {0, 1, 2}
      BY <1>0 DEF Store, RowStates, States, NoteStates
    <2> QED BY <2>1 DEF Rows
  <1> HIDE DEF p
  <1>2. /\ w \in [pc : {"save"}, row : Rows, from : RowStates, to : RowStates, paid : {0, 1, 2}]
        /\ w.row = row /\ w.from = store[row] /\ w.to = to
    BY <1>1
  <1> HIDE DEF w
  <1>3. w \in Held
    BY <1>0, <1>2 DEF Held
  <1>4. held' \in [Others -> Held]
    BY <1>0, <1>3
  <1>5. Typed' /\ InTurn'
    BY <1>0, <1>4 DEF Typed, InTurn, Asked
  <1>6. StoreOK' /\ TurnsOK'
    BY <1>0 DEF StoreOK, TurnsOK, SafeWithKey, SafeInTurn, AtMostOne, Done, Settled
  <1>7. Keeps
    BY <1>0 DEF Keeps
  <1>8. \A m \in 1..MaxAttempts : AttemptOK(m)'
    BY <1>0, <1>7, KeptAttempt
  <1> QED BY <1>5, <1>6, <1>8 DEF ChInv

LEMMA StutterKeeps == ASSUME ChInv, UNCHANGED vars PROVE ChInv'
  BY DEF ChInv, Typed, InTurn, Asked, StoreOK, TurnsOK, AttemptOK, AnswerOK, ReadyOK, Vacuous, Done, Settled,
         SafeWithKey, SafeInTurn, AtMostOne, After, DoneAlready, Effects, Told, RowTells

\* ChInv is inductive.
LEMMA Invariance == Spec => []ChInv
  <1>1. ASSUME ChInv, Next PROVE ChInv'
    <2>1. CASE Ask
      BY <1>1, <2>1, AskKeeps
    <2>2. ASSUME NEW o \in Others, OtherStep(o) PROVE ChInv'
      <3>1. States \union {"Active", "Paused", "Cancelled"} \subseteq RowStates
        BY DEF RowStates
      <3> QED BY <1>1, <2>2, <3>1, OtherSaveKeeps, OtherLoadKeeps DEF OtherStep, Rows
    <2>3. ASSUME NEW n \in 1..MaxAttempts, AttemptStep(n) PROVE ChInv'
      <3>1. CASE Begin(n)
        BY <1>1, <3>1, BeginKeeps
      <3>2. CASE Write(n)
        BY <1>1, <3>2, WriteKeeps
      <3>3. CASE WriteFails(n)
        BY <1>1, <3>3, WriteFailsKeeps
      <3>4. CASE Finish(n)
        BY <1>1, <3>4, FinishKeeps
      <3>5. CASE Receive(n)
        <4>1. att[n].pc = "answered" /\ att' = [att EXCEPT ![n].pc = "told"] /\ UNCHANGED <<client, store, overlapped, held, overwritten>>
          BY <3>5 DEF Receive
        <4> QED BY <1>1, <4>1, PassOnKeeps
      <3>6. CASE Lose(n)
        <4>1. /\ att[n].pc # "new" /\ att' = [att EXCEPT ![n].pc = "lost"]
              /\ UNCHANGED <<client, store, overlapped, held, overwritten>>
          BY <3>6 DEF Lose
        <4> QED BY <1>1, <4>1, PassOnKeeps
      <3> QED BY <2>3, <3>1, <3>2, <3>3, <3>4, <3>5, <3>6 DEF AttemptStep
    <2> QED BY <1>1, <2>1, <2>2, <2>3 DEF Next
  <1>2. ASSUME ChInv, [Next]_vars PROVE ChInv'
    BY <1>1, <1>2, StutterKeeps
  <1> QED BY <1>2, InitHolds, PTL DEF Spec
-----------------------------------------------------------------------------
(* The theorems *)

LEMMA OneEffect == ASSUME AtMostOne PROVE Cardinality(Effects) <= 1
  <1>1. CASE Effects = {}
    BY <1>1, FS_EmptySet
  <1>2. CASE Effects # {}
    <2>1. PICK n : n \in Effects
      BY <1>2
    <2>2. Effects = {n}
      BY <2>1 DEF AtMostOne, Effects
    <2> QED BY <2>2, FS_Singleton
  <1> QED BY <1>1, <1>2

\* A client that repeats an operation has it take effect at most once: with a
\* key that reaches the command, whatever overlaps with what; without one, where
\* the command's own gate refuses the second time, as long as no attempt reads
\* while another is about to write and nobody else writes a row back from an
\* earlier reading.  Any number of attempts, any of them lost, failing or
\* answered late, and any number of others.
THEOREM RepeatedOnce == Spec => []EffectOnce
  <1>1. ASSUME ChInv PROVE EffectOnce
    BY <1>1, OneEffect DEF ChInv, TurnsOK, EffectOnce
  <1> QED BY <1>1, Invariance, PTL

\* The words for a success, and for a webhook that failed after the command,
\* are no adapter's words for a refusal.
LEMMA SuccessIsNoRefusal ==
    ASSUME Typed, NEW r \in {"ok"} \union After
    PROVE  Wire(r) \notin Refusals
  <1>0. client.channel \in {"api", "ws", "mcp", "cli"}
    BY DEF Typed, Client
  <1> DEFINE E == CoreErrors \union {"Decode", "Unauthorized", "Unknown"}
  <1>1. CASE client.channel = "cli"
    BY <1>1 DEF Refusals
  <1>2. CASE client.channel = "api"
    <2>1. \A e \in E : Wire(e) \notin {"200", "502"}
      BY <1>2 DEF Wire, ApiStatus, CoreErrors
    <2>2. r \in {"ok", "WebhookDispatch"}
      BY <1>2 DEF After
    <2>3. Wire(r) \in {"200", "502"}
      BY <1>2, <2>2 DEF Wire, ApiStatus
    <2> QED BY <1>2, <2>1, <2>3 DEF Refusals
  <1>3. CASE client.channel = "ws"
    <2>1. \A e \in E : Wire(e) # "ok"
      BY <1>3 DEF Wire, WsCode, CoreErrors
    <2>2. r = "ok"
      BY <1>3 DEF After
    <2>3. Wire(r) = "ok"
      BY <1>3, <2>2 DEF Wire, WsCode
    <2> QED BY <1>3, <2>1, <2>3 DEF Refusals
  <1>4. CASE client.channel = "mcp"
    <2>1. \A e \in E : Wire(e) # "ok"
      BY <1>4 DEF Wire, McpCode, CoreErrors
    <2>2. r = "ok"
      BY <1>4 DEF After
    <2>3. Wire(r) = "ok"
      BY <1>4, <2>2 DEF Wire, McpCode
    <2> QED BY <1>4, <2>1, <2>3 DEF Refusals
  <1> QED BY <1>0, <1>1, <1>2, <1>3, <1>4

\* What a client is told is so: an attempt answered with a refusal changed
\* nothing in the store, and one answered with a success took effect or found
\* the operation done, by another attempt or with nothing left to do.  What a
\* schedule or a reminder shows lasts until someone else writes the row back
\* from an earlier reading.
THEOREM AnswersBelievable == Spec => []AnswersTruthful
  <1>1. ASSUME ChInv, NEW n \in 1..MaxAttempts, att[n].pc \in {"answered", "told"}
        PROVE  /\ Wire(att[n].result) \in Refusals => ~att[n].effect
               /\ att[n].result = "ok" => att[n].effect \/ DoneAlready(n) \/ (RowTells /\ overwritten)
    <2>1. AttemptOK(n) /\ Typed
      BY <1>1 DEF ChInv
    <2>2. att[n].effect => Wire(att[n].result) \notin Refusals
      BY <2>1, SuccessIsNoRefusal DEF AttemptOK, AnswerOK
    <2> QED BY <1>1, <2>1, <2>2 DEF AttemptOK, AnswerOK, Told
  <1>2. ASSUME ChInv PROVE AnswersTruthful
    BY <1>1, <1>2 DEF AnswersTruthful
  <1> QED BY <1>2, Invariance, PTL
=============================================================================
