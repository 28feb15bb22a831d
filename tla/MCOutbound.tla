----------------------------- MODULE MCOutbound -----------------------------
(* Events on their way out, for TLC: the outbox relay and the fan-out to     *)
(* WebSockets, side by side.  They share no state, and a behaviour works on  *)
(* one of them.                                                              *)
EXTENDS OutboxRelay, Fanout

VARIABLES part

vars == <<part, outboxVars, fanVars>>
-----------------------------------------------------------------------------
Edge(t, ev, f, to) == [table |-> t, event |-> ev, from |-> f, to |-> to]

\* An issue (four events), a second partial payment and the creation of a
\* credit note (one event each: the former moved nothing, the latter from nothing).
SomeEdges == {Edge("invoice", "issue", "Draft", "Issued"),
              Edge("invoice", "pay", "PartiallyPaid", "PartiallyPaid"),
              Edge("credit_note", "draft", "Absent", "Draft")}

SomeTopics == {<<"inv", "issued">>, <<"inv">>}
SomePatterns == {<<"inv", "#">>, <<"*">>}
-----------------------------------------------------------------------------
Init == part \in {"outbox", "fanout"} /\ OutboxInit /\ FanInit

Relay == part = "outbox" /\ OutboxNext /\ UNCHANGED <<part, fanVars>>
FanOut == part = "fanout" /\ FanNext /\ UNCHANGED <<part, outboxVars>>

Next == Relay \/ FanOut

\* The fairness of the relays and of a connection's tasks; the latter have
\* nothing to do while the relay is at work.
Spec ==
    /\ Init /\ [][Next]_vars
    /\ \A r \in Relays : WF_outboxVars(part = "outbox" /\ RelayStep(r))
    /\ FanFairness
=============================================================================
