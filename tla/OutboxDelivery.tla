--------------------------- MODULE OutboxDelivery ---------------------------
(***************************************************************************)
(* What the outbox promises its readers, without relays, batches or passes:*)
(* every event of a committed row is delivered at least once and the row   *)
(* settled after that; the events of a row are first delivered in order,   *)
(* and not before the rows of the same stream that precede it are settled. *)
(* A repeated delivery is invisible here.                                  *)
(***************************************************************************)
EXTENDS Naturals, Sequences

CONSTANTS
    Rows,      \* a row: the stream it belongs to, its instant, its number of events
    MaxRows    \* bound on the rows

VARIABLES
    committed,   \* the rows, in the order of their commits
    delivered,   \* the events delivered, as pairs of a row and a position
    settled      \* the rows that are done with

vars == <<committed, delivered, settled>>

Init == committed = <<>> /\ delivered = {} /\ settled = {}

Commit(row) ==
    /\ Len(committed) < MaxRows
    /\ committed' = Append(committed, row)
    /\ UNCHANGED <<delivered, settled>>

\* Row m precedes row n: committed before it and of an earlier instant.
Precedes(m, n) ==
    /\ m < n /\ committed[m].stream = committed[n].stream
    /\ committed[m].at < committed[n].at

Deliver(n, j) ==
    /\ j \in 1..committed[n].size
    /\ \A i \in 1..(j - 1) : <<n, i>> \in delivered
    /\ \A m \in 1..(n - 1) : Precedes(m, n) => m \in settled
    /\ delivered' = delivered \union {<<n, j>>}
    /\ UNCHANGED <<committed, settled>>

Settle(n) ==
    /\ \A j \in 1..committed[n].size : <<n, j>> \in delivered
    /\ settled' = settled \union {n}
    /\ UNCHANGED <<committed, delivered>>

Next ==
    \/ \E row \in Rows : Commit(row)
    \/ \E n \in DOMAIN committed :
          Settle(n) \/ \E j \in 1..committed[n].size : Deliver(n, j)

\* Every committed row is settled eventually.
AllSettled == \A n \in 1..MaxRows : n \in DOMAIN committed ~> n \in settled

\* What may happen, without what must.
SafeSpec == Init /\ [][Next]_vars

Spec == SafeSpec /\ AllSettled
=============================================================================
