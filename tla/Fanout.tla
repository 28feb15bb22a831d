------------------------------- MODULE Fanout -------------------------------
(***************************************************************************)
(* The broadcast publisher (crates/bus/src/broadcast.rs) and the WebSocket *)
(* connections it feeds (crates/ws/src/handler.rs).  A connection is a     *)
(* read loop that handles one client frame at a time, a writer task behind *)
(* a bounded queue, and one forwarder task per subscription that pulls from*)
(* the bounded broadcast channel.  All of them run concurrently; a slow    *)
(* client fills its queue, holds its forwarders up and makes them lag.     *)
(***************************************************************************)
EXTENDS Naturals, Sequences, FiniteSets

CONSTANTS
    Conns,          \* WebSocket connections
    Topics,         \* topics published, as sequences of segments
    Patterns,       \* patterns subscribed to, as sequences of segments
    Capacity,       \* slots of the broadcast channel
    OutCapacity,    \* slots of a connection's queue of outbound frames
    MaxMessages,    \* bound on the messages published
    MaxFrames       \* bound on the frames a client sends

ASSUME FanoutAssumption ==
    /\ Topics \subseteq Seq(STRING) /\ Patterns \subseteq Seq(STRING)
    \* A topic has no wildcards: all are constants of events.rs.
    /\ \A t \in Topics : \A i \in DOMAIN t : t[i] # "#"
    /\ Capacity \in Nat \ {0} /\ OutCapacity \in Nat \ {0}
    /\ MaxMessages \in Nat /\ MaxFrames \in Nat

VARIABLES
    published,   \* every message sent so far: its topic
    reader,      \* the read loop: its step, the frames read, the reply to queue
    subs,        \* the subscriptions a connection opened, in the order of sub_id
    out,         \* the queue of outbound frames
    writer,      \* the writer task: up or down
    wire         \* the frames that reached the client

fanVars == <<published, reader, subs, out, writer, wire>>
-----------------------------------------------------------------------------
\* Mutant of TopicMatches: # needs a segment to match.
TopicMatchesSome(p, t) ==
    LET from[i \in 1..(Len(p) + 1)] ==
            IF i > Len(p) THEN Len(t) = Len(p)
            ELSE IF p[i] = "#" THEN i = Len(p) /\ i <= Len(t)
            ELSE i <= Len(t) /\ p[i] \in {"*", t[i]} /\ from[i + 1]
    IN  from[1]

\* topic_matches: * stands for one segment, a final # for the rest.
TopicMatches(p, t) ==
    LET from[i \in 1..(Len(p) + 1)] ==
            IF i > Len(p) THEN Len(t) = Len(p)
            ELSE IF p[i] = "#" THEN i = Len(p)
            ELSE i <= Len(t) /\ p[i] \in {"*", t[i]} /\ from[i + 1]
    IN  from[1]

\* A subscription: its forwarder's step, the next message of the channel it
\* will see, the message in its hands, and whether its handle was dropped.
\* since and lagged remember where it began and whether it ever fell behind.
Sub == [pat : Patterns, pc : {"recv", "send", "dead"}, cursor : Nat, msg : Nat,
        cancelled : BOOLEAN, since : Nat, lagged : BOOLEAN]

\* A frame: the response to the n-th client frame, or message n for a subscription.
Frame == [kind : {"response", "event"}, n : Nat, sub : Nat]
Response(n) == [kind |-> "response", n |-> n, sub |-> 0]
Event(n, s) == [kind |-> "event", n |-> n, sub |-> s]

FanInit ==
    /\ published = <<>>
    /\ reader = [c \in Conns |-> [pc |-> "open", frames |-> 0]]
    /\ subs = [c \in Conns |-> <<>>]
    /\ out = [c \in Conns |-> <<>>]
    /\ writer = [c \in Conns |-> "up"]
    /\ wire = [c \in Conns |-> <<>>]
-----------------------------------------------------------------------------
\* BroadcastPublisher::publish never waits and never fails.
Publish(t) ==
    /\ Len(published) < MaxMessages
    /\ published' = Append(published, t)
    /\ UNCHANGED <<reader, subs, out, writer, wire>>

(* The read loop *)

\* A frame was read and handled; its response waits for a slot of the queue.
Handled(c) ==
    /\ reader[c].pc = "open" /\ reader[c].frames < MaxFrames
    /\ reader' = [reader EXCEPT ![c] = [pc |-> "reply", frames |-> @.frames + 1]]
    /\ UNCHANGED <<published, out, writer, wire>>

\* A request (its command has run), a binary frame, a frame that does not
\* decode, a management frame of the wrong shape or for an unknown sub_id.
OtherFrame(c) == Handled(c) /\ UNCHANGED subs

\* The subscriber is open before the response is queued.
Subscribe(c, p) ==
    /\ Handled(c)
    /\ subs' = [subs EXCEPT ![c] = Append(@,
          [pat |-> p, pc |-> "recv", cursor |-> Len(published) + 1, msg |-> 0,
           cancelled |-> FALSE, since |-> Len(published), lagged |-> FALSE])]

\* The handle is dropped; the forwarder notices when it next waits.
Unsubscribe(c, s) ==
    /\ Handled(c)
    /\ ~subs[c][s].cancelled
    /\ subs' = [subs EXCEPT ![c][s].cancelled = TRUE]

\* Mutant of Reply: try_send, which drops the response when the queue is full.
ReplyOrDrop(c) ==
    /\ reader[c].pc = "reply"
    /\ out' = IF writer[c] = "up" /\ Len(out[c]) < OutCapacity
              THEN [out EXCEPT ![c] = Append(@, Response(reader[c].frames))] ELSE out
    /\ reader' = [reader EXCEPT ![c].pc = "open"]
    /\ UNCHANGED <<published, subs, writer, wire>>

\* out_tx.send waits for a slot; without a writer the response is dropped.
Reply(c) ==
    /\ reader[c].pc = "reply"
    /\ \/ /\ writer[c] = "up" /\ Len(out[c]) < OutCapacity
          /\ out' = [out EXCEPT ![c] = Append(@, Response(reader[c].frames))]
       \/ writer[c] = "down" /\ UNCHANGED out
    /\ reader' = [reader EXCEPT ![c].pc = "open"]
    /\ UNCHANGED <<published, subs, writer, wire>>

\* Mutant of Close: the handles are kept.
CloseKeepsSubs(c) ==
    /\ reader[c].pc = "open"
    /\ reader' = [reader EXCEPT ![c].pc = "closing"]
    /\ UNCHANGED <<published, subs, out, writer, wire>>

\* The client closes or the socket fails: every handle and the loop's own
\* sender are dropped, and the writer is awaited.
Close(c) ==
    /\ reader[c].pc = "open"
    /\ reader' = [reader EXCEPT ![c].pc = "closing"]
    /\ subs' = [subs EXCEPT ![c] = [s \in DOMAIN @ |-> [@[s] EXCEPT !.cancelled = TRUE]]]
    /\ UNCHANGED <<published, out, writer, wire>>

Closed(c) ==
    /\ reader[c].pc = "closing" /\ writer[c] = "down"
    /\ reader' = [reader EXCEPT ![c].pc = "closed"]
    /\ UNCHANGED <<published, subs, out, writer, wire>>

(* A forwarder *)

\* The oldest message still in the channel at or after the cursor.
Oldest(cursor) ==
    IF cursor + Capacity <= Len(published) THEN Len(published) + 1 - Capacity ELSE cursor

\* recv skips what was overwritten; a message of another topic is passed over.
Receive(c, s) ==
    LET f == subs[c][s]
        n == Oldest(f.cursor)
    IN  /\ f.pc = "recv" /\ f.cursor <= Len(published)
        /\ subs' = [subs EXCEPT ![c][s] =
              [f EXCEPT !.cursor = n + 1, !.lagged = @ \/ f.cursor + Capacity <= Len(published),
                        !.pc = IF TopicMatches(f.pat, published[n]) THEN "send" ELSE "recv",
                        !.msg = IF TopicMatches(f.pat, published[n]) THEN n ELSE 0]]
        /\ UNCHANGED <<published, reader, out, writer, wire>>

\* The send to the queue waits for a slot and ignores a dropped handle
\* meanwhile; it fails, and the task ends, once the writer is gone.
Forward(c, s) ==
    /\ subs[c][s].pc = "send"
    /\ \/ /\ writer[c] = "up" /\ Len(out[c]) < OutCapacity
          /\ out' = [out EXCEPT ![c] = Append(@, Event(subs[c][s].msg, s))]
          /\ subs' = [subs EXCEPT ![c][s].pc = "recv", ![c][s].msg = 0]
       \/ /\ writer[c] = "down"
          /\ subs' = [subs EXCEPT ![c][s].pc = "dead", ![c][s].msg = 0]
          /\ UNCHANGED out
    /\ UNCHANGED <<published, reader, writer, wire>>

\* select! takes the dropped handle, or a message that is there as well.
Stop(c, s) ==
    /\ subs[c][s].pc = "recv" /\ subs[c][s].cancelled
    /\ subs' = [subs EXCEPT ![c][s].pc = "dead"]
    /\ UNCHANGED <<published, reader, out, writer, wire>>

(* The writer *)

\* Mutant of Write: the newest frame first.
WriteLast(c) ==
    /\ writer[c] = "up" /\ out[c] # <<>>
    /\ wire' = [wire EXCEPT ![c] = Append(@, out[c][Len(out[c])])]
    /\ out' = [out EXCEPT ![c] = SubSeq(@, 1, Len(@) - 1)]
    /\ UNCHANGED <<published, reader, subs, writer>>

Write(c) ==
    /\ writer[c] = "up" /\ out[c] # <<>>
    /\ wire' = [wire EXCEPT ![c] = Append(@, Head(out[c]))]
    /\ out' = [out EXCEPT ![c] = Tail(@)]
    /\ UNCHANGED <<published, reader, subs, writer>>

\* The socket rejects a frame: the queue and what is in it are dropped.
WriteFails(c) ==
    /\ writer[c] = "up" /\ out[c] # <<>>
    /\ writer' = [writer EXCEPT ![c] = "down"]
    /\ out' = [out EXCEPT ![c] = <<>>]
    /\ UNCHANGED <<published, reader, subs, wire>>

\* The queue is empty and every sender is gone.
WriterEnds(c) ==
    /\ writer[c] = "up" /\ out[c] = <<>>
    /\ reader[c].pc = "closing"
    /\ \A s \in DOMAIN subs[c] : subs[c][s].pc = "dead"
    /\ writer' = [writer EXCEPT ![c] = "down"]
    /\ UNCHANGED <<published, reader, subs, out, wire>>

ReaderStep(c) ==
    \/ OtherFrame(c) \/ (\E p \in Patterns : Subscribe(c, p))
    \/ (\E s \in DOMAIN subs[c] : Unsubscribe(c, s))
    \/ Reply(c) \/ Close(c) \/ Closed(c)

FanNext ==
    \/ \E t \in Topics : Publish(t)
    \/ \E c \in Conns :
          \/ ReaderStep(c)
          \/ \E s \in DOMAIN subs[c] : Receive(c, s) \/ Forward(c, s) \/ Stop(c, s)
          \/ Write(c) \/ WriteFails(c) \/ WriterEnds(c)

\* Tasks are scheduled fairly, a socket accepts or rejects a frame in the end,
\* and select! does not pass over a dropped handle for ever.  Nothing obliges
\* a client to send or close, or a socket to fail.
FanFairness ==
    \A c \in Conns :
        /\ WF_fanVars(Reply(c)) /\ WF_fanVars(Closed(c))
        /\ WF_fanVars(Write(c) \/ WriteFails(c)) /\ WF_fanVars(WriterEnds(c))
        /\ \A s \in 1..MaxFrames :
              WF_fanVars(s \in DOMAIN subs[c] /\ (Receive(c, s) \/ Forward(c, s) \/ Stop(c, s)))

FanSpec == FanInit /\ [][FanNext]_fanVars /\ FanFairness
-----------------------------------------------------------------------------
\* Every variable stays within its type, and a queue within its capacity.
FanTypeOK ==
    /\ published \in Seq(Topics)
    /\ reader \in [Conns -> [pc : {"open", "reply", "closing", "closed"}, frames : 0..MaxFrames]]
    /\ writer \in [Conns -> {"up", "down"}]
    /\ \A c \in Conns :
          /\ subs[c] \in Seq(Sub)
          /\ \A s \in DOMAIN subs[c] : subs[c][s].pc = "send" => subs[c][s].msg \in DOMAIN published
          /\ out[c] \in Seq(Frame) /\ Len(out[c]) <= OutCapacity
          /\ wire[c] \in Seq(Frame)

\* The frames a connection has put out: on the wire and then in the queue.
Queue(c) == wire[c] \o out[c]

\* The responses in a queue, the events of subscription s, and their numbers.
Responses(q) == {i \in DOMAIN q : q[i].kind = "response"}

EventFrames(q, s) == {i \in DOMAIN q : q[i].kind = "event" /\ q[i].sub = s}

Numbers(q, frames) == {q[i].n : i \in frames}

\* Along the queue the numbers of the frames go up.
Rising(q, frames) == \A i, j \in frames : i < j => q[i].n < q[j].n

\* What segments a pattern stands for, without the loop.
Denotes(p, t) ==
    \E n \in 0..Len(t) :
        LET tail == p # <<>> /\ p[Len(p)] = "#"
            q == IF tail THEN SubSeq(p, 1, Len(p) - 1) \o [i \in 1..n |-> "*"] ELSE p
        IN  Len(q) = Len(t) /\ \A i \in DOMAIN q : q[i] \in {"*", t[i]}

\* The messages that a subscription f asked for and that its cursor is past.
Due(f) ==
    {n \in DOMAIN published : f.since < n /\ n < f.cursor /\ Denotes(f.pat, published[n])}

\* The messages of subscription s, f in a queue, with the one that its
\* forwarder has in its hands.
Passed(q, s, f) == Numbers(q, EventFrames(q, s)) \union ({f.msg} \ {0})

\* They go up, each is one of due, and none of due is missing from a whole queue.
Faithful(q, s, f, due, whole) ==
    /\ Rising(q, EventFrames(q, s))
    /\ f.msg # 0 => \A i \in EventFrames(q, s) : q[i].n < f.msg
    /\ Passed(q, s, f) \subseteq due
    /\ ~f.lagged /\ whole => Passed(q, s, f) = due

\* A subscription passes on, in the order of publication and each once, the
\* messages of its topics published since it was opened, and leaves one out
\* only if it fell behind the channel's capacity; whatever other subscriptions,
\* connections and responses share the queue.  A socket failure cuts it short.
StreamFaithful ==
    \A c \in Conns : \A s \in DOMAIN subs[c] :
        Faithful(Queue(c), s, subs[c][s], Due(subs[c][s]), writer[c] = "up")

\* The frames that are handled, without the one whose response has to wait.
Answered(c) == reader[c].frames - (IF reader[c].pc = "reply" THEN 1 ELSE 0)

\* The responses to the frames 1 to n are in the queue, each once and in order;
\* only the last of them may be missing, and none from a whole queue.
InOrder(q, n, whole) ==
    /\ Rising(q, Responses(q))
    /\ \E k \in 0..n : Numbers(q, Responses(q)) = 1..k /\ (whole => k = n)

\* Every client frame has one response, and the responses go out in the order
\* of the frames.
AnsweredInOrder == \A c \in Conns : InOrder(Queue(c), Answered(c), writer[c] = "up")

\* A connection that closes is torn down completely: its forwarders and its
\* writer end, even if they were waiting for a slot of a full queue.
TornDown ==
    \A c \in Conns :
        reader[c].pc = "closing"
            ~> /\ reader[c].pc = "closed" /\ writer[c] = "down"
               /\ \A s \in DOMAIN subs[c] : subs[c][s].pc = "dead"

\* A message reaches every subscription that asked for it, unless the
\* subscription was cancelled, fell behind, or lost its socket.
Delivered ==
    \A c \in Conns, s \in 1..MaxFrames, n \in 1..MaxMessages :
        (/\ s \in DOMAIN subs[c] /\ n \in DOMAIN published
         /\ n = subs[c][s].cursor /\ Denotes(subs[c][s].pat, published[n]))
        ~> (\/ \E i \in DOMAIN wire[c] : wire[c][i] = Event(n, s)
            \/ writer[c] = "down"
            \/ s \in DOMAIN subs[c] /\ (subs[c][s].cancelled \/ subs[c][s].lagged))
=============================================================================
