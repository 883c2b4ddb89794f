\* Delivery and liveness: one connection that joins and leaves a room for ever, messages
\* that wait in the Broadcast channel, handlers that block on it.
CONSTANTS
    c1 = c1
    c2 = c2
    u1 = u1
    u2 = u2
    Clients = {c1}
    Users = {u1}
    Tasks = {t1}
    UserOf <- SoleUser
    Frames = {"join_room", "leave_room"}
    BroadcastCap = 2
    SendCap = 1
    MaxMessages = 3
    None = None
SPECIFICATION FairSpec
CHECK_DEADLOCK FALSE
INVARIANTS
    DeliveredInOrder
PROPERTIES
    DeliversFeed
    HandlersProceed
    ConnectionsEnd
