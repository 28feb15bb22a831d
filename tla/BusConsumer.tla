---------------------------- MODULE BusConsumer ----------------------------
(***************************************************************************)
(* Inbound bus events (crates/bus/src/inbox.rs, consumer.rs).  A receiver  *)
(* registers the id of an event in bus_inbox, dispatches the event to the  *)
(* command of its topic, and marks the row as processed.  The bus delivers *)
(* at least once, in any order and to any receiver; a receiver may stop    *)
(* anywhere.  A refund creates a note of CreditNotes; what a charge and a  *)
(* payment do is one committed command of InvoiceCommands.                 *)
(***************************************************************************)
EXTENDS CreditNotes

CONSTANTS
    EventIds,        \* event ids
    TopicOf,         \* the topic an event arrives with
    Remap,           \* the [bus.remap] block: topics to canonical topics
    Payload,         \* the decoded payload of an event: key, refundId, invoiceRef
    BadPayload,      \* JSON of another shape, or an id that does not parse
    NoKey,           \* an idempotency_key or a refund_id that is left out
    Receivers,       \* transport-side receiver tasks
    MaxCrashes       \* bound on the receivers that stop

Canonical == {"charge.created", "payment.received", "payment.refunded"}

ASSUME ConsumerAssumption ==
    /\ EventIds # {} /\ DOMAIN TopicOf = EventIds /\ DOMAIN Payload = EventIds
    /\ \A e \in EventIds :
          Payload[e] # BadPayload => DOMAIN Payload[e] = {"key", "refundId", "invoiceRef"}
    /\ MaxCrashes \in Nat

VARIABLES
    inbox,       \* the bus_inbox table
    receiver,    \* the delivery a receiver is at
    drafts,      \* the idempotency keys of drafted invoices
    applied,     \* how often a command succeeded on behalf of an event
    crashes

busVars == <<inbox, receiver, drafts, applied, crashes>>
vars == <<noteVars, busVars>>
-----------------------------------------------------------------------------
\* remap_topic: an exact match, or the topic itself.
RemapTopic(t) == IF t \in DOMAIN Remap THEN Remap[t] ELSE t

\* The idempotency_key of a charge, or the event id.
KeyOf(e) == IF Payload[e].key = NoKey THEN e ELSE Payload[e].key

\* The refund_id of a refund, or the event id: it becomes refund_ref.
RefOf(e) == IF Payload[e].refundId = NoKey THEN e ELSE Payload[e].refundId

\* What dispatch rejects before any command runs: a topic that no command
\* handles, a payload that does not decode, a payment without invoice_ref.
Routable(e) ==
    /\ RemapTopic(TopicOf[e]) \in Canonical
    /\ Payload[e] # BadPayload
    /\ RemapTopic(TopicOf[e]) = "payment.received" => Payload[e].invoiceRef

\* Refs holds the refund_ref of every refund that may arrive.
ASSUME RefsAssumption ==
    \A e \in EventIds :
        Routable(e) /\ RemapTopic(TopicOf[e]) = "payment.refunded" => RefOf(e) \in Refs

Idle == [pc |-> "idle", event |-> CHOOSE e \in EventIds : TRUE]

Init ==
    /\ NotesInit
    /\ inbox = [e \in EventIds |-> "absent"]
    /\ receiver = [r \in Receivers |-> Idle]
    /\ drafts = {}
    /\ applied = [e \in EventIds |-> 0]
    /\ crashes = 0
-----------------------------------------------------------------------------
\* The bus hands an event to a receiver, for the first time or again.
Deliver(r, e) ==
    /\ receiver[r].pc = "idle" /\ requests < MaxRequests
    /\ requests' = requests + 1
    /\ receiver' = [receiver EXCEPT ![r] = [pc |-> "select", event |-> e]]
    /\ UNCHANGED <<clock, notes, trail, issuer, inbox, drafts, applied, crashes>>

\* try_insert looks the id up: a hit is a replay and the event is skipped ...
Select(r) ==
    /\ receiver[r].pc = "select"
    /\ receiver' = [receiver EXCEPT ![r] =
          IF inbox[receiver[r].event] # "absent" THEN Idle ELSE [@ EXCEPT !.pc = "insert"]]
    /\ UNCHANGED <<noteVars, inbox, drafts, applied, crashes>>

\* Mutant of Insert: INSERT OR IGNORE without a look at the rows affected.
InsertOrIgnore(r) ==
    /\ receiver[r].pc = "insert"
    /\ inbox' = [inbox EXCEPT ![receiver[r].event] = IF @ = "absent" THEN "received" ELSE @]
    /\ receiver' = [receiver EXCEPT ![r].pc = "dispatch"]
    /\ UNCHANGED <<noteVars, drafts, applied, crashes>>

\* ... and inserts it; the primary key rejects the id when another receiver was
\* first, and the caller of dispatch_inbound_event has to retry.
Insert(r) ==
    LET e == receiver[r].event
    IN  /\ receiver[r].pc = "insert"
        /\ \/ /\ inbox[e] = "absent"
              /\ inbox' = [inbox EXCEPT ![e] = "received"]
              /\ receiver' = [receiver EXCEPT ![r].pc = "dispatch"]
           \/ /\ inbox[e] # "absent"
              /\ receiver' = [receiver EXCEPT ![r].pc = "select"]
              /\ UNCHANGED inbox
        /\ UNCHANGED <<noteVars, drafts, applied, crashes>>

\* The command of the topic succeeds.  draft_invoice replays a known key;
\* mark_paid and create_credit_note do not look at the key they are given.
Apply(r) ==
    LET e == receiver[r].event
        topic == RemapTopic(TopicOf[e])
    IN  /\ receiver[r].pc = "dispatch" /\ Routable(e)
        /\ drafts' = IF topic = "charge.created" THEN drafts \union {KeyOf(e)} ELSE drafts
        /\ IF topic = "payment.refunded"
           THEN CreateNote(RefOf(e)) /\ UNCHANGED requests ELSE UNCHANGED noteVars
        /\ applied' = [applied EXCEPT ![e] = @ + 1]
        /\ receiver' = [receiver EXCEPT ![r].pc = "mark"]
        /\ UNCHANGED <<inbox, crashes>>

\* Mutant of Reject: the failure is logged and the event marked all the same.
RejectMarks(r) ==
    /\ receiver[r].pc = "dispatch"
    /\ receiver' = [receiver EXCEPT ![r].pc = "mark"]
    /\ UNCHANGED <<noteVars, inbox, drafts, applied, crashes>>

\* dispatch returns an error: the event is not routable, or its command rejects
\* it (no such invoice, a settled invoice, a statement that fails).  The row
\* stays as it is, received and not processed.
Reject(r) ==
    /\ receiver[r].pc = "dispatch"
    /\ receiver' = [receiver EXCEPT ![r] = Idle]
    /\ UNCHANGED <<noteVars, inbox, drafts, applied, crashes>>

\* mark_processed
MarkProcessed(r) ==
    /\ receiver[r].pc = "mark"
    /\ inbox' = [inbox EXCEPT ![receiver[r].event] = "processed"]
    /\ receiver' = [receiver EXCEPT ![r] = Idle]
    /\ UNCHANGED <<noteVars, drafts, applied, crashes>>

\* The receiver stops, or a statement outside the command fails.
Crash(r) ==
    /\ receiver[r].pc # "idle" /\ crashes < MaxCrashes
    /\ crashes' = crashes + 1
    /\ receiver' = [receiver EXCEPT ![r] = Idle]
    /\ UNCHANGED <<noteVars, inbox, drafts, applied>>

ReceiverStep(r) == Select(r) \/ Insert(r) \/ Apply(r) \/ Reject(r) \/ MarkProcessed(r)

Next ==
    \/ \E r \in Receivers : (\E e \in EventIds : Deliver(r, e)) \/ ReceiverStep(r) \/ Crash(r)
    \/ NotesNext /\ UNCHANGED busVars

Spec == Init /\ [][Next]_vars
-----------------------------------------------------------------------------
\* Every variable stays within its type.
TypeOK ==
    /\ NotesTypeOK
    /\ inbox \in [EventIds -> {"absent", "received", "processed"}]
    /\ receiver \in [Receivers -> [pc : {"idle", "select", "insert", "dispatch", "mark"},
                                   event : EventIds]]
    /\ drafts \subseteq {KeyOf(e) : e \in {x \in EventIds : Payload[x] # BadPayload}}
    /\ applied \in [EventIds -> Nat]

\* inbox.rs: every command is executed at most once per event id, however
\* often the event is delivered, to however many receivers at once, and
\* whatever receivers stop half way; so a payment counts once, and there is
\* one credit note per refund event.
AppliedAtMostOnce ==
    /\ \A e \in EventIds : applied[e] <= 1
    /\ \A f \in Refs :
          Cardinality({n \in DOMAIN notes : notes[n].ref = f})
            = Cardinality({e \in EventIds : /\ applied[e] > 0 /\ RefOf(e) = f
                                          /\ RemapTopic(TopicOf[e]) = "payment.refunded"})

\* consumer.rs: a processed row is one whose command succeeded; a failed or
\* interrupted dispatch never looks like a clean one.
ProcessedMeansApplied == \A e \in EventIds : inbox[e] = "processed" => applied[e] = 1

\* What the receivers rely on, the strengthening for the proofs: the one that
\* inserted the row has it to itself until it is done.
RowOwned ==
    /\ \A e \in EventIds : inbox[e] = "absent" => applied[e] = 0
    /\ \A r \in Receivers :
          /\ receiver[r].pc \in {"dispatch", "mark"} => inbox[receiver[r].event] = "received"
          /\ receiver[r].pc = "dispatch" => applied[receiver[r].event] = 0
          /\ receiver[r].pc = "mark" => applied[receiver[r].event] = 1
    /\ \A r, q \in Receivers :
          /\ receiver[r].pc \in {"dispatch", "mark"} /\ receiver[q].pc \in {"dispatch", "mark"}
          /\ receiver[r].event = receiver[q].event
          => r = q
=============================================================================
