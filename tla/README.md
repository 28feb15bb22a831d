# Verification of inv

`inv` is an invoicing service. Five channels (CLI, HTTP, WebSocket, MCP, bus)
run one set of commands over one SQL database (SQLite by default); a server
process adds four endless loops (outbox relay, schedules, reminders, overdue).
This directory holds TLA+ models of the commands, of the loops, of the adapters
in front and of the pure calculations behind them, the TLC runs that check
them, and theorems checked by TLAPS. All paths below are relative to `src/`.

## 1. Inventory

| Part | State | Operations | Modelled in |
|---|---|---|---|
| invoice state machine, `crates/core/src/state/transitions.rs` | none (pure table) | `next_state`, `classify_payment` | `InvoiceFsm` |
| state machine facade, `machine.rs`, `adapter_statig.rs`, `creditnote.rs` | a shadow and a statig machine | `apply`, `apply_event` | `StateMachines` (the statig adapters) |
| invoice commands, `crates/commands/src/{draft,issue,send,pay,void}.rs` | none between calls | `draft_invoice`, `issue_invoice`, `send_invoice`, `send_invoice_render`, `mark_paid`, `void_invoice` | `InvoiceCommands` |
| invoice store, `crates/store/src/repo` | `invoices`, `invoice_state_history`, `send_idempotency` | `get`, `save_in_tx`, `insert_in_tx`, `pending_outbox`, `mark_published` | `InvoiceCommands`, `OutboxRelay` |
| handlers with effects of their own, `crates/api/src/handlers/{view,invoices}.rs` | none | `view_invoice` (writes the row), `send_webhook` (dispatches) | `InvoiceCommands` |
| blob store, `crates/store/src/blob` | documents | `put` | `InvoiceCommands` (put only) |
| outbox relay, `crates/bus/src/outbox.rs` | `published_at` of history rows | `run_outbox_relay` | `OutboxRelay`, `OutboxDelivery` |
| recurring schedules, `crates/commands/src/schedule.rs` | `schedules` | create, pause, cancel, `schedules_tick` | `ScheduleTicker` |
| cadence, `crates/core/src/domain/schedule.rs` | none | `Cadence::advance` | `Cadence` |
| credit notes, `crates/commands/src/credit.rs` | `credit_notes` and their history | create, issue | `CreditNoteFsm`, `CreditNotes` |
| bus inbox and consumer, `crates/bus/src/{inbox,consumer}.rs` | `bus_inbox` | insert, dispatch, mark | `BusConsumer` |
| reminders, `crates/commands/src/reminder.rs` | `reminders` | schedule, cancel, `reminders_tick` | `Reminders` |
| overdue ticker, `crates/commands/src/overdue.rs` | none | `mark_overdue_ticker` | `OverdueTicker` |
| broadcast and WebSocket, `crates/bus/src/broadcast.rs`, `crates/ws/src/handler.rs` | bounded channel, subscriptions, outbound queue | publish, subscribe, unsubscribe, request, close | `Fanout` |
| tax engine and totals, `crates/core/src/tax` | none | `resolve_tax`, `lookup`, `has_nexus`, rounding | `TaxEngine` |
| adapters, `crates/{api,ws,mcp,cli}` | none | decode, call one command, word the answer | `Channels` |
| customers | `customers` | add, show | `Channels` |
| rendering, signatures and tokens, list queries | | | not modelled (section 8) |

How they interact. A command reads the invoice from the pool, decides in memory,
and opens a transaction only to write: the whole invoice row, one history row
and, for a keyed send, one key. The history table doubles as the outbox. After
the commit the command publishes to an in-process bus, best effort; the
broadcast publisher hands it to the WebSocket forwarders. `schedules_tick` calls
`draft_invoice` and `issue_invoice`, each with its own commit, then saves the
schedule. Inbound bus events go through the inbox to `draft_invoice`,
`mark_paid` and `create_credit_note`. At shutdown the server aborts its tasks
wherever they are (`crates/cli/src/commands/server.rs:152-172`).

What is hard here: read and write are not one transaction, so every pair of
commands on one invoice may overlap; rows are written whole from a snapshot;
idempotency is a look-up followed by an insert; several commits make one
logical operation (schedule tick, outbox pass, webhook send); and everything
may stop between two of them. `PROJECT.json` lists each hazard at its line.

## 2. Modules

| Module | Role |
|---|---|
| `InvoiceFsm`, `CreditNoteFsm` | the bare transition tables and the transitions commands record |
| `InvoiceCommands` | commands, store and handlers, step by step, any number of workers |
| `Receivables` | what the commands promise a bookkeeper: one account per invoice, one posting per command |
| `InvoiceCommandsProofs` | the theorems: types and the shapes of steps, what tables, keys, numbers and outside effects keep under any overlap, and what holds when commands run one at a time, the implementation of `Receivables` included |
| `OutboxDelivery` | what the outbox promises, without relays or batches |
| `OutboxRelay` | the relay over both history tables; implements `OutboxDelivery` |
| `OutboxRelayProofs` | its invariants, and the safety part of the implementation |
| `ScheduleTicker`, `ScheduleTickerProofs` | recurring schedules and the theorems about them |
| `CreditNotes` | credit notes: create, number, issue |
| `BusConsumer`, `BusConsumerProofs` | inbound events, composed with `CreditNotes`; the theorems about both |
| `Reminders`, `OverdueTicker`, `TickersProofs` | the two announcing loops and the theorems about them |
| `Fanout`, `FanoutProofs` | broadcast channel and WebSocket connections, and the theorems about them |
| `Channels`, `ChannelsProofs` | the four adapters before one abstract command layer, and the theorems about them |
| `TaxEngine`, `Cadence` | the calculations as operators, with reference definitions to compare them with |
| `StateMachines` | the statig adapters of invoices and credit notes |
| `CalculationsProofs` | the theorems about the last three |
| `MC...` | instances for TLC; `MCOutbound`, `MCBackground` and `MCCalculations` put parts that share no state side by side, and a behaviour works on one of them (`part`) |

Definitions called "Mutant of X" stand before X and are used by no
specification: each is X with a plausible mistake, kept to show that the
property named in `PROJECT.json` notices it.

### InvoiceCommands

State: `row`, `history`, `sendKeys` are the tables; `blobs` the blob store;
`announced` and `delivered` what left the system; `clock` the injected clock;
`receipts` a ghost that adds up the amounts of the pay rows in `history`. A
worker is a request in flight, with a step `pc`, a request `req`, the state
`from` of its snapshot and the row `next` that it will write.

| Step | Code |
|---|---|
| `StartX` | `Input::validate` and the call |
| `DraftLookup`, `SendLookup` | the idempotency look-ups (`draft.rs:147`, `try_replay`) |
| `IssueLoad`, `SendLoad`, `ViewLoad`, `PayLoad`, `VoidLoad` | `get`, the gate, the changed row in memory |
| `IssueCount` | clock, tax, number by counting, render, `blob_store.put` |
| `WriteSink` | `file://` and stdout, before the transaction |
| `XCommit` | the transaction, with the UNIQUE columns and the key's primary key |
| `Publish` | `try_publish`, which may fail silently |
| `Dispatch` | the POST of `send_webhook` |
| `Fail` | error, dropped request, crash: from any step |

Abstractions. An amount is a natural number (the code's decimals are compared
and added only). Lines, currency, customer, names and layout are gone; a
document is the number and total it shows; tax is any member of `Taxes`.
`issued_at` is compared as text in the code: `FirstSecond` is the set of
instants whose text sorts before the bound of their own year
(`issue.rs:240-242`: the column holds `+00:00`, the bound `Z`). The reads of
`IssueCount` form one step: the number is stale by the time of the commit all
the same, because the commit is a step of its own. A transaction is one step: it
holds writes only, so any isolation level of the supported databases makes it
atomic against the others.

### Receivables

The abstract specification of the commands keeps one account per invoice: its
status (none, draft, open, settled, void), the amount due and the amount
received. `Draft`, `Issue`, `Receive` and `Void` change it in one step each;
`Receive` settles the account exactly when the sum reaches the amount due, and
`Void` closes an open account whatever was received, as the code does and the
documentation denies (run `voided_paid`). `Books` maps the tables onto it: the
status from `row.state` (Issued, Sent, Viewed and PartiallyPaid are all open),
the amount due from `row.total`, the amount received from the pay rows of the
history, not from `amount_paid`. A send, a view, a replay, a refusal and a
failure are stuttering steps. `AccountsKept` holds while commands run one at a
time; two overlapping payments break it as they break `LedgerExact` (run
`payment_race`).

### OutboxRelay

`log` holds the history rows of both tables in commit order with their
`occurred_at`, `marked` those with `published_at`, `copies` how often each
event of a row was published. `EventsOf` is `invoice_row_to_events`: the
proposed/transitioned/entered triplet unless the row is a self-edge or the
creation, then the domain topic. `occurred_at` is any instant, because a
payment carries its `received_at`, which may be in the past. A relay fetches
a batch (any order within one instant), publishes event by event, marks, goes
on with the credit notes; `Abort` ends the pass at any point.

### ScheduleTicker

`sched` is the table, `invoices` what the schedules produced, keyed by schedule
and date as the idempotency key `schedule:{id}:run:{next_run}` is. A tick holds
the rows it read (`due`) and, for the current one, goes through look-up,
insert, load, issue, save; every error ends the whole tick, as `?` does. Dates
are day numbers and `Advance` is any strictly increasing step.

### OutboxDelivery and the refinement

The abstract specification knows committed rows, events delivered at least
once and settled rows. An event is first delivered in order, and not before the
rows of the same table that precede it (committed before, earlier instant) are
settled. `OutboxRelay!Delivery` maps `log`, the events seen at least once and
`marked` onto it; a repeated publish is a stuttering step. The abstract
specification ends with `AllSettled`, so the property `DeliveryRefined` carries
order, at-least-once and liveness at once.

### CreditNotes and BusConsumer

`notes` and `trail` are the tables; `issuer` an issue in flight (read and gate,
clock and count, commit). `inbox` is the table, `receiver` a transport task at
one event: look-up and insert of `try_insert`, the command of the topic,
`mark_processed`. A crash or an error leaves the row received and unprocessed,
and every redelivery is then a duplicate: this is what the code does (its doc
leaves such rows to admin tooling), so the properties ask for at most one
application, never for one. `drafts` and `applied` stand for the charge and
payment commands, whose steps are in `InvoiceCommands`.

### Reminders and OverdueTicker

A reminder tick is read, then save and announce per row; cancel is read and
save, both of whole rows. `quiet` remembers the reminders cancelled while in no
tick's hands, `cut` those whose announcement was lost.

The overdue tick reads one state per step. Beside it run `Commands`: each reads
a row (`CommandLoad`), decides by the table, and saves the whole row over
whatever is there by then (`CommandSave`) or fails. Overlapping commands
therefore take an invoice back to an earlier state, as they do in
`InvoiceCommands`. `flagged` is the output of the tick; `announced` what reached
a publisher, which `try_publish` does not promise. `steady` remembers what was
overdue all along and `setBack` what a stale save took back. The two modules
share no state.

### Fanout

A connection is a read loop, a writer behind a queue of `OutCapacity` frames and
a forwarder per subscription with a cursor into the channel of `Capacity`
slots. A frame is handled and then waits for a slot; a forwarder that waits for
a slot does not see its cancellation. `since` and `lagged` are ghosts. Topics
are sequences of segments.

### Channels

One client with one request, up to `MaxAttempts` attempts, which may overlap and
get lost. The tables (`ApiDraft`, `WsOthers`, `McpTools`, ...) say for each
operation of an adapter whether the client's key reaches the command. A command
reads and decides (`Begin`), then writes in one step or fails; `Finish` adds
what the adapter does afterwards (webhook post, output). `ApiStatus`, `WsCode`,
`McpCode`, `CliExit` translate results. `Others` are commands and ticks of
somebody else on the same rows: each reads a row, and saves later what it made
of it (`OtherLoad`, `OtherSave`), so that a tick may bring back a schedule that
the client has cancelled; `overwritten` remembers a save over a row that was not
the one read. An effect is a write to the store: the webhook that a keyed replay
posts again is in `InvoiceCommands` (`WebhookReplay.cfg`).

### TaxEngine, Cadence, StateMachines

A rate is an integer of parts, `RateUnit` of them being 100 %; money is an
integer of the products, `Cent` for a hundredth of a currency unit. So every
product is exact as in the code's decimals, and the rounding is modelled as it
is (halves to even, per currency). The instance has `RateUnit` 100000, which
expresses the shipped rates (7.25 %, 9.975 %); the proofs hold for any
precision. `Upper` stands for the upper-casing of codes. The engine keeps no
state: `TaxSpec` gives it one `sale` after another, any at all, and the
properties compare `ResolveTax` and `IssueTotals` with what the tables say
(`DueRows`, `Crossed`, `Taxable`, `ExactTax`). Dates are calendar dates;
chrono's calendar is external. `CadenceSpec` collects the dates that `next_run`
goes through (`runs`), saved by the ticker one by one. `StateMachines` applies
events to the statig adapters, whose inner machine starts in Draft whatever the
document's state. `BareMachine` and `CreditNoteAdapter` are left out: they are
the tables of `InvoiceFsm` and `CreditNoteFsm` with a state (of the latter's
trait methods `dry_run` and `apply` panic, and `propose` refuses).

## 3. Runs

| Run | Instance | Checks |
|---|---|---|
| `invoice_concurrent` | 2 workers, 2 invoices, 1 key, 5 commands, total 2, payments 0, 1, 2, local sends | `TypeOK`, `RowCoherent`, `AuditAgrees`, `AuditTrailSound`, `NoMoneyInvented`, `AtMostOncePerKey`, `UniqueNumbers`, `RecordedEffects`, `IssuedForGood` |
| `invoice_sequential` | 1 worker, 2 invoices, 3 instants over a turn of the year whose first instant is in the year's first second, local and webhook sends | `LedgerExact`, `HistoryChain`, `NumbersDense`, `TerminalForGood`, `AccountsKept` |
| `schedules` | 2 tickers, 1 request, 2 schedules (one auto-issue without end, one that ends on its first day), 2 days, one failure | `OneInvoicePerRun`, `NoRunSkipped`, `BilledWhenDue`, `OnlyStuckBlocks` |
| `outbound` | outbox: 2 relays, 2 rows, 2 instants, 3 kinds of edges, one aborted pass | `OutboxTypeOK`, `MarkedDelivered`, `DeliveryRefined` |
| | fan-out: 1 connection, 2 frames, 2 messages, a channel of 1 slot, a queue of 2 | `StreamFaithful`, `AnsweredInOrder`, `TornDown`, `Delivered` |
| `background` | reminders: 2 ticking processes, 2 reminders, 1 canceller, one tick or announcement lost | `AnnouncedBounded`, `CancelledIsQuiet`, `DueIsAnnounced` |
| | overdue: 1 tick, 2 commands, 2 invoices in any state, 3 days | `NoneMissed` |
| | consumer: 2 receivers, 3 events (a renamed refund, a charge without key, a payment without invoice), 2 issuers, 2 notes, a turn of the year, 5 requests, one crash | `TypeOK`, `AppliedAtMostOnce`, `ProcessedMeansApplied`, `NoteNumbersDense` |
| | calculations: all scopes, categories, thresholds and windows; ties of the rounding; 6 runs from 35 start dates; every seed of the statig adapters | `TaxExplained`, `TotalsAddUp`, `RunsOnCadence`, `StatigInStep` |
| `channels` | every operation, adapter, destination and state of the rows; 2 attempts, 2 commands or ticks of others | `EffectOnce`, `AnswersTruthful` |

The parts of `outbound` and `background` share no state: each behaviour starts
in one of them and stays there, so a run is the union of its parts.

The split between the first two runs is itself a result: the second list does
NOT hold for concurrent commands. With overlap, amounts get lost, a settled
invoice can be written over, the history forks and an invoice may be issued
twice under two numbers; the first list is what survives any overlap.

What the other runs show, with the exceptions that the code has and the
properties spell out: a credit note can be issued twice by overlapping requests
and is then renumbered (`NoteNumbersDense` excludes exactly this and the year's
first second); a reminder goes out at most once per ticking process, not once; a
cancellation is final only if no tick holds the row; drafting with a key is safe
on every channel, sending with a key on all but the command line, issue, void,
pause and cancel as long as attempts do not overlap and nobody else writes an
older row back, and payments, credit note drafts, schedules, reminders and
customers without id are not safe to repeat at all; a refusal never hides a
committed write, except for a 502 after a webhook send and for the exit status
of the command line; a success of a pause or cancel that found nothing to do
lasts until somebody else writes an older row back; an overdue tick misses an
invoice only when a stale save takes it back to a state that was queried
already.

Six runs are expected to end in a violation: they state what the repository says
of the program and TLC shows that the code does otherwise.

| Run | The repository says | The trace shows |
|---|---|---|
| `pay_retried` | `lib.rs:22-23`: the key is checked before mutating | the same keyed payment is recorded twice |
| `payment_race` | `invoice.rs:143`: amount_paid is the sum of payments | two payments read the same row, one is lost |
| `schedule_stuck` | `design-spec.md:526`: every due active schedule is billed | a tick stops between issue and save; every later tick fails there |
| `number_taken` | `issue.rs:240-241`: the bounds of a year sort correctly as text | an issue in the year's first second is not counted for it: the next number is taken, and every later issue of the year is refused |
| `voided_paid` | `void.rs:3-5`, `transitions.rs:59`, `invoice-state-fsm.md:94`, `design-spec.md:160`: no void after a payment | an invoice with a partial payment is voided |
| `nexus_ignored` | `how-to-tax-config.md:95-98`, `tax-resolution.md:53-56`: the rate applies in an enabled state whose threshold is crossed | `issue_invoice` asks with zero figures, and the sale is not taxed |

Five further configurations, which are not in the list of runs, end in a
violation in the same way (`tlc -config X.cfg M`).

| Configuration, module | Property | The repository says | The trace shows |
|---|---|---|---|
| `WebhookReplay.cfg`, `MCInvoiceCommands` | `PostedOncePerKey` | `send.rs:287-290`: on a replay the caller skips the dispatch | the same keyed send is posted twice |
| `CancelUndone.cfg`, `MCScheduleTicker` | `CancelledForGood` | `schedule.rs:200`, `how-to-recurring.md:48-49`: cancellation is terminal | a tick that read the row before saves it as active |
| `OverdueMissed.cfg`, `MCBackground` | `OverdueAllFlagged` | `cli.md:217`: unpaid invoices past due are flagged | a send that read before a view saves Sent after that state was queried |
| `QuarterPhase.cfg`, `MCCalculations` | `QuarterStart` | `core/src/domain/schedule.rs:30`: "the first month in each quarter" | a quarterly schedule keeps the phase of its start month |
| `StatigBehind.cfg`, `MCCalculations` | `Reconciled` | `adapter_statig.rs:211-214`: "`apply` reconciles per call" | the statig machine of an adapter seeded past Draft stays in Draft |

Where a passing property covers one of these cases (`NumbersDense`,
`AccountsKept`, `TotalsAddUp`, `RunsOnCadence`, `StatigInStep`, `EffectOnce`,
`NoneMissed`) it says what the code keeps all the same, and its comment names
the violated one.

### Bounds, and why they are enough

Five commands allow draft, issue and three more that may overlap on one invoice,
or two invoices drafted and issued with one more command; every race of two
commands after issue is in reach, and a race needs two workers. Total 2 with
payments 1 and 2 gives partial, exact, cumulative and excess payments; amount 0
is offered and refused. Two invoices are needed for clashes of numbers and keys.
In the outbox two rows of one table give order and overtaking, two relays
duplicates; in `schedules` two days give a cycle, its successor and the end
date. In the consumer two receivers race on one event and a third delivery comes
after the crash; two notes are needed for a clash of numbers. In the fan-out a
channel of one slot lags at the second message and a queue of two fills with a
response and an event. In `channels` two attempts suffice for a lost and for an
overlapping one, because every command has one read and one write, and two
others for a tick that holds a row while somebody cancels it. Under the overdue
tick two commands overlap on one invoice, so that a save takes it back. The
batch limit of the outbox does not cut off two rows; the proofs have any limit.
The proofs remove the bounds for the properties they cover. `CHECK_DEADLOCK
FALSE` in all runs but `schedules`: all requests of the bound may be done, and a
service without requests is idle; that the relay, the ticks and the tasks of a
connection do not wait for each other for ever is what the liveness properties
say. The bounds are `MaxCommands`, `MaxInstant`, `MaxRows`, `MaxFailures`,
`MaxDay`, `MaxNotes`, `MaxRequests`, `MaxCrashes`, `MaxTime`, `MaxCuts`,
`LastDay`, `MaxMessages`, `MaxFrames`, `MaxRuns` and `MaxAttempts`; `Capacity`
and `OutCapacity` are parameters of the code (1024 and 64 there).

### Fairness

`InvoiceCommands` and `Channels` have none: a client may go away at any step.
The relay, the schedule ticks and the reminder ticks have weak fairness on their
own steps: the server runs them from a tokio interval without end and awaits
each pass (`server.rs:180-266`). Failures are bounded and never forced, so the
liveness results read: once passes stop failing, every row is settled
(`DeliveryRefined`); a due cycle is billed or its schedule no longer active,
unless an auto-issue schedule is stuck for good (`OnlyStuckBlocks`; between
issue and save of a tick under way a schedule does not count as stuck, and an
error that every tick meets again, such as the numbering of run `number_taken`,
is not in that model); and a due reminder is announced unless it was cancelled
or its one announcement lost (`DueIsAnnounced`). The server's relay publishes to
`LoggingPublisher`, which does not fail. The receiver of bus events is not in
the repository, so nothing is assumed of it and `BusConsumer` has safety
properties only. The tasks of a connection are scheduled fairly by tokio, a
socket takes or rejects a frame in the end (TCP does), and `select!` picks its
ready branches at random, so that it does not pass over a cancellation for ever.
Nothing is fair about requests, frames, closing a connection and the passing of
days.

## 4. What is proved

Every theorem holds for all values of the constants that satisfy the named
assumption of its module: any number of workers, invoices, relays, receivers,
tickers and requests, and any bound on commands, rows and failures. What the
assumptions ask for beyond types:

| Assumption | Asks for | Because |
|---|---|---|
| `ConstantsAssumption` | null values are no keys or ids; finitely many invoices; years positive and not decreasing with time | a finite table; the calendar |
| `OutboxAssumption` | the edges are ones that the commands record; finitely many relays | history rows are written by the commands only |
| `ScheduleAssumption` | `Advance` goes forward; no start after the end date; finitely many schedules, at least one | `Cadence::advance` adds a day or more; `schedule_create` refuses such dates |
| `CreditNoteAssumption`, `ConsumerAssumption`, `RefsAssumption` | years as above; the references of routable refunds are known; at least one event | a reference is built from its event |
| `ReminderAssumption`, `OverdueAssumption` | finitely many reminders (at least one), tickers and invoices; any set of commands | finite tables |
| `FanoutAssumption` | topics without `#`; capacities of at least one | topics are constants of `events.rs`; 1024 and 64 in the code |
| `AttemptsAssumption` | a number of attempts | |
| `PrecisionAssumption` | `RateUnit` and `Cent` are positive | parts of a rate and of a currency unit |
| `AmountsAssumption` | payment operands are natural numbers | smallest units; 0 stands for whatever is not positive |
| `TaxAssumption` | `Upper` maps codes to codes and is idempotent; the empty code is its own | `to_ascii_uppercase` |

`SchedulesKeepTime` below discharges what `ScheduleAssumption` asks of `Advance`
for the calendar: each run is strictly later than the one before.

All safety theorems follow the same argument: the property is strengthened by
what the processes in flight hold, because a commit writes what was read
earlier; the strengthened invariant was checked with TLC on the instance of its
run before the proof. It is inductive, and the property is a part of it.

### Invoices, any overlap of commands

* `TypeCorrect`: `TypeOK /\ WorkersOK`. `WorkersOK` says which commands go
  through which step and that a worker past its snapshot is about to make an
  edge of `CommandEdge`; without it the type of a history row could not be
  shown. `StepCases` then reduces `Next` to two shapes: one worker commits and
  the others stand still, or the tables stay as they are and every worker makes
  a local step (kept, begun, loaded from the table, numbered, done). The later
  proofs use these instead of the two dozen actions.
* `RowsCoherent`: `PendingCoherent` adds that the row in a worker's hands is
  coherent too (for an issue between snapshot and number: a coherent draft but
  for its state). One lemma per command shows that its update of a coherent row
  is coherent.
* `MoneyNotInvented`: `PendingMoney` adds that what a worker will write as
  amount paid is covered by the receipts and its own payment. Receipts only
  grow, so a stale snapshot stays covered.
* `AuditTrailHolds` (`AuditAgrees`, `AuditTrailSound`): `PendingReached` adds
  that the state a worker read is in the trail already; the trail only grows.
* `OncePerKey`, `NumbersUnique`: the look-ups before the transaction are of no
  use here; the UNIQUE columns and the primary key in the commit are.
  `SendsKeyed` adds that every keyed send in the history has its key in the
  table.
* `EffectsRecorded`: `PendingEffects` adds, per step of a worker, which of its
  effects are done: the document is stored before the row that names it is
  written, the sink is written before the send is recorded, and a worker that
  announces has its row in the history.
* `IssueIsForGood` (`IssuedForGood`, an action property): every command but
  `draft_invoice` writes a state past Draft, and a coherent row in such a state
  has its number and date. `IdsOK` says that the row of a draft under way does
  not exist yet, so its insert cannot hit an issued invoice.

### Invoices, one command at a time

These assume `OneAtATime` (at most one worker), as the run does; section 3 says
what goes wrong otherwise.

* `LedgerIsExact`, `HistoryIsChain`: `Undisturbed` adds that state, amount
  paid and number in a worker's hands are those of the table but for its own
  change, and `UnrecordedAbsent` that an invoice without a row has no history.
* `TerminalIsFinal` (`TerminalForGood`, an action property): with `Undisturbed`
  the state that was gated is the state that is written over, and no edge of
  `CommandEdge` leaves Paid or Voided.
* `NumbersAreDense`: `NumberInReach` adds that the number a worker has allocated
  is at most one past the numbered invoices of its year. The count may fall
  short of these (an issue in the year's first second is counted for the year
  before), never exceed them: `AllDated` says that no issue date is ahead of the
  clock, so what is counted for the current year is numbered in it
  (`CountedIsNumbered`). Too small a number is refused by the UNIQUE column.
* `CommandsPost` (`AccountsKept`): `Spec => Accounts!Spec`, the whole of
  `Receivables`, which has no fairness. A transaction is the only step that
  changes `Books` (`CommitPosts`); `CommitRefines` takes the commands one by one.
  `PendingPosting` adds that the total in a worker's hands is that of the table,
  plus a tax for a numbered issue, and `RequestsGiven` that amounts are those the
  requests were started with. `Undisturbed` gives the state written over and the
  amount paid, `LedgerExact` equates that with the receipts, and the coherence of
  the row to write says whether the payment settles.

### Outbox

* `RelayTyped` (`OutboxTypeOK`), `DeliveredBeforeMark`: `PassSound` says that what
  a pass has counted was published (`CountedOut`) and that an earlier row of the
  table is marked or comes before in the batch (`InTurn`); `Shapes` gives the
  types of the containers.
* `DeliverySafe`: `OutboxSpec => Delivery!SafeSpec`. The initial state maps to the
  initial state and each action to an action of `OutboxDelivery` or to a
  stutter; `SeenRows` and `SeenEvents` say how a publish changes the set of
  events seen. This is `DeliveryRefined` but for its liveness.

### Schedules

* `SchedulesTyped` (`TypeOK`, proved and therefore in no run),
  `CyclesBilledOnce`, `CyclesBilledWhenDue`, `CyclesNotSkipped`: `RowsSound`
  says of every row of the table, and of every stale row that a tick or a
  request may still write back, that its `next_run` is on the cycle and that all
  earlier dates are billed. Bills are never withdrawn, so a stale row stays
  sound and writing it back skips no cycle. `CycleDates` is the least set that
  has the start date and is closed under `Advance`; `CycleInduction` and
  `CycleHasNoGap` reason about it as a set, so no induction over data is needed.

### Credit notes and the bus

* `NoteNumbersAreDense`: `NotesInv` adds the shape of the notes and of the
  issues in flight (`NotesShape`), and that an allocated number is at most one
  past the numbered notes of its year (`NotesCounted`).
* `BusTypeSafe`, `ProcessedRowsApplied`, `EventsAppliedOnce`: `RowOwned` says
  that an event in dispatch belongs to one receiver, the one whose insert
  succeeded, and is not applied before its command has run. The second part of
  `AppliedAtMostOnce` (as many notes per refund as applied events) is an
  equation of cardinalities, kept by `RefundsInv`.

### Reminders and overdue invoices

* `AnnouncementsBounded`, `CancelIsFinal`: `RemSound` bounds the announcements of
  a reminder together with the ticks that still hold it (`Holders`) by the number
  of ticking processes, and says that no tick holds a `quiet` reminder.
* `OverdueNoneMissed`, for any number of commands in flight: `ScanSound` says that
  a steady invoice was read already, is in a state that is still to be read, or
  was taken back. A save over the state that was read moves forward in the order
  of the four queries (`MovesForward`), and one over another state either moves
  forward too or is noted in `setBack` (`NotBack`).

### Adapters

* `RepeatedOnce` (`EffectOnce`), `AnswersBelievable` (`AnswersTruthful`), for
  any number of attempts. `ChInv` adds what an attempt between read and write
  will do (`ReadyOK`: it aims at the state of its operation, and writes without
  effect only over a row that is there already), that effects and answers agree
  at every step of an attempt (`AnswerOK`), that an effect shows in the store
  and the store in an effect (`StoreOK`: the key is taken, the row has left
  every state in which the operation would move it again, unless somebody wrote
  over a row he had not read), and that without overlap no attempt that would
  move the row is ready once one has (`TurnsOK`). What others hold is an edge
  from the row they read (`Held`), and saving it over that very row keeps what
  `StoreOK` says (`OtherWrites`). The client's attempts are numbered in the
  order they are made (`InTurn`), which gives the finite set whose cardinality
  `EffectOnce` bounds.

### Fan-out

* `FanoutTyped`, `StreamsAreFaithful` (`StreamFaithful`), `ResponsesInOrder`
  (`AnsweredInOrder`), for any number of connections, subscriptions, messages
  and frames and any capacities. `FanInv` speaks of what was written and what is
  queued as one sequence: writing a frame then changes nothing, and the other
  steps append to it. `SubOK` adds that the events of a subscription in it rise,
  that the message in a forwarder's hands is beyond them, and that nothing due is
  missing unless the forwarder lagged; `AnswersOK` that the responses are those
  to the frames read so far. `topic_matches` is a loop over two lists of
  segments: `TopicsMatched` shows that it computes what a pattern denotes, for
  all topics and patterns.

### Calculations

* `StatigKeepsStep` (`StatigInStep`): the property itself, and that an adapter
  seeded past Draft never comes back to Draft, where its statig machine is.
* `SchedulesKeepTime` (`RunsOnCadence`), from any start date: `CadenceInv` adds
  that every run is a date of the calendar, and `AdvanceFollows` that from any
  date `Advance` gives the first date on the cadence after it (quarterly: in the
  phase of the start).
* `TaxIsExplained` (`TaxExplained`), for any table, thresholds, codes and
  amounts and any precision of rates and prices. `LookupIsDue`, `PickedAreDue`
  and `NexusIsCrossed` equate the look-ups with the reference definitions,
  `TaxAtNearest` takes the base out of the sum of the shares (`SumScaled`) and
  applies `RoundNearest`: banker's rounding gives a nearest multiple of the
  minor unit, the even one of two.
* `TotalsAreExact` (`TotalsAddUp`), for any number of lines. Every line is
  rounded to the minor unit (`LinePriced`), so that every later rounding of a
  sum changes nothing (`SumOfMultiples`, `RoundedStays`), and two half units a
  line add up to the slack (`SumsClose`).

Sums and the topic matcher are recursive functions. What they compute is shown
by induction over a set of numbers (`UpwardInduction`: a set that has 0 and is
closed under successor below n has all of 0..n; it follows from the least
element principle of the library), with no operator as a parameter.

## 5. What is only model-checked

* Liveness under fairness, which is beyond the prover, as is ENABLED:
  `OnlyStuckBlocks`, `DueIsAnnounced`, `TornDown`, `Delivered`, and the liveness
  part of `DeliveryRefined`. Every invariant and every action property that a
  passing run checks is stated by a theorem.
* The violations of section 3, runs and further configurations: a counterexample
  is their proof.

## 6. Further disagreements, without a run of their own

* `crates/core/src/domain/invoice.rs:127`: "partial counts" for `paid_at`; it is
  set on full payment only (`pay.rs:107-109`).
* `send.rs:18` lists Viewed to Sent; `next_state` rejects it.
* `docs/contracts/invoice-state-fsm.md:109-110`: Paid and Voided are terminal; a
  stale full-row write ends that (`TerminalForGood` is a sequential property).
* `outbox.rs:21-25`: no history row for self-edges; a re-send and a second
  partial payment write one. They carry a domain event and no triplet.
* `docs/architecture/design-spec.md:73`: adapters cannot bypass the commands;
  `view_invoice` writes the row itself.
* `schedule.rs:347-362` publishes the cancellation of an ended schedule before
  saving it.
* A start that is not on the cadence's day gives a first, shorter period.
* `publisher.rs:53-55`: the outbox relay retries a failed publish. Events of
  schedules, reminders and overdue invoices have no outbox row, so that theirs
  is lost.

Credit notes, reminders, bus:

* Two overlapping issues of one credit note both commit; the second renumbers
  it. A note issued in the first second of a year is counted for the year before
  and blocks the numbering of its own year.
* `create_credit_note` ignores its idempotency key, and checks that the amount is
  positive before rounding it.
* A credit note that is issued already is refused with a validation error
  (HTTP 400), an invoice with a conflict (409).
* `reminder_cancel` answers and announces a cancellation also for a reminder
  that was sent.
* A reminder is announced after it is saved as sent and is in no outbox.

Adapters and fan-out:

* The command line drops the key for issue, send, void and the issue of a note,
  the HTTP adapter for the issue of a note; `CoreError::Idempotency` is never
  raised.
* A failing exit status of the command line may follow a committed command, when
  the output fails.
* A `stdout` send over WebSocket is refused only after the invoice was prepared.
* An event frame does not name its subscription, and events may follow the
  response to an unsubscribe.
* `crates/ws/src/lib.rs:24-26`: the outbox relay feeds the broadcast channel; the
  server's relay publishes to `LoggingPublisher`, and the channel gets what
  commands publish after their commit.
* The read loop goes on executing commands after the writer is gone.

Tax:

* A sale to another region at home without a matching row is taxed at 0 % with
  no warning for the sellers in Quebec and Algiers.
* `docs/contracts/tax-resolution.md:53-56` taxes an enabled state only if a
  threshold is set and reached; `has_nexus` takes an enabled state without
  thresholds for nexus.
* `NexusConfig::get` looks up the upper-case code first and then the code as
  given, so that a lower-case key is found for a lower-case buyer only.

## 7. Plan

1. `BusConsumer` over the full `InvoiceCommands` instead of its summary of the
   charge and payment commands.
2. A weaker form of `Receivables` that overlapping commands implement as well:
   an account from which a stale write may take postings away.

## 8. Not modelled, and why

Rendering (templates, PDF) is I/O and layout; a document is the number and
total it shows. Signed links, tokens and webhook signatures are cryptography; a
valid link is the guard of a view, a valid token that of the HTTP adapter. List
queries with their filters and paging, the dump of the tax table, flags,
configuration and listeners change no state. The manual ticks of the adapters
run the ticks that are modelled, as one more ticking process. Customers are one
upsert without rules. Payload structs, row decoding, SQL text and the
differences of the backends are replaced by what the statements do.
