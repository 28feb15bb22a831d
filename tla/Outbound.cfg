\* Two relays on one database, two instants, one pass cut short.
\* One connection, two subscriptions, a channel of one slot (two messages make
\* a subscriber lag) and a queue of two frames (reordering and waiting happen).
SPECIFICATION Spec
CONSTANTS
    Relays = {r1, r2}
    Edges <- SomeEdges
    Times = {1, 2}
    Limit = 2
    MaxRows = 2
    MaxFailures = 1
    Conns = {c1}
    Topics <- SomeTopics
    Patterns <- SomePatterns
    Capacity = 1
    OutCapacity = 2
    MaxMessages = 2
    MaxFrames = 2
CHECK_DEADLOCK FALSE
INVARIANTS OutboxTypeOK MarkedDelivered StreamFaithful AnsweredInOrder
PROPERTIES DeliveryRefined TornDown Delivered
