--------------------------------- MODULE Hub ---------------------------------
(***************************************************************************)
(* The WebSocket hub (internal/websocket/hub.go) with the two goroutines   *)
(* of each connection, readPump and writePump, and the HTTP handlers that  *)
(* publish on it (features/tasks/websocket_handler.go).                    *)
(*                                                                         *)
(* The hub goroutine serves one channel at a time: Register and Unregister *)
(* are unbuffered, Broadcast holds BroadcastCap messages and blocks the    *)
(* handler when full.  Each connection has a Send channel of SendCap       *)
(* frames, written by the hub without blocking: a full channel is closed.  *)
(* Sending on a closed channel and closing it again are panics of the hub  *)
(* goroutine, which nothing recovers: the process dies.                    *)
(*                                                                         *)
(* JoinRoom takes h.mu, LeaveRoom does not: it tests the room, takes the   *)
(* connection out, counts who is left and deletes an empty room in steps   *)
(* that anything may come between.  A section that touches the room maps   *)
(* lasts from one step to a later one, so that two goroutines can be seen  *)
(* in such sections together.                                              *)
(***************************************************************************)
EXTENDS Naturals, Sequences, FiniteSets

CONSTANTS
    Clients,        \* connections
    Users,
    Tasks,          \* ids of the rooms
    UserOf,         \* the authenticated user of each connection
    Frames,         \* frame types the clients send: join_room, leave_room
    BroadcastCap,   \* capacity of the Broadcast channel (256)
    SendCap,        \* capacity of a Send channel (256)
    MaxMessages,    \* bound: messages published in a run
    None

ASSUME UserOfAssumption == UserOf \in [Clients -> Users]
ASSUME FramesAssumption == Frames \subseteq {"join_room", "leave_room"}
ASSUME CapacityAssumption ==
    BroadcastCap \in Nat \ {0} /\ SendCap \in Nat \ {0} /\ MaxMessages \in Nat
ASSUME NoneAssumption == None \notin Clients \cup Tasks
\* The two other values of mu name no connection.
ASSUME HolderAssumption == {"free", "hub"} \cap Clients = {}

VARIABLES
    clients,    \* h.clients: user -> registered connections
    present,    \* the rooms that exist: the keys of h.rooms
    rooms,      \* h.rooms: task -> connections in the room
    joined,     \* client.Rooms
    send,       \* contents of the Send channel of each connection
    closed,     \* the Send channel was closed
    broadcast,  \* contents of the Broadcast channel
    mu,         \* holder of h.mu: "free", "hub" or a connection's readPump
    hub,        \* the hub goroutine: where it is, what it works on
    reader,     \* readPump of each connection, HandleWebSocket included
    room,       \* the room named by the frame readPump is handling
    writer,     \* writePump
    conn,       \* the WebSocket itself
    doomed,     \* readPumps that panicked: the process dies when they end
    pending,    \* handlers at or blocked on "h.hub.Broadcast <-"
    panicked,   \* the process died
    (* history *)
    published,  \* messages that entered the Broadcast channel
    handled,    \* messages the hub is done with
    got,        \* what was written to each connection
    cause,      \* things that happened and may kill the process
    crossed     \* rooms that were left while a connection was joining them

roomVars == <<clients, present, rooms, joined>>
connVars == <<reader, room, writer, conn, doomed>>
histVars == <<published, handled, got, cause, crossed>>
vars == <<clients, present, rooms, joined, send, closed, broadcast, mu, hub, reader,
          room, writer, conn, doomed, pending, panicked, published, handled, got,
          cause, crossed>>

-----------------------------------------------------------------------------
\* due is history: the connections that are owed the message.
Message == [no : 1..MaxMessages, task : Tasks, user : Users, due : SUBSET Clients]

\* Where readPump is inside LeaveRoom: at the test of the room and the delete of
\* the client, at the count, at the delete of the room.
Leaving == {"leaving", "counting", "dropping"}

Idle == [at |-> "select", client |-> None, msg |-> {}, todo |-> {}]

TypeOK ==
    /\ clients \in [Users -> SUBSET Clients]
    /\ present \subseteq Tasks
    /\ rooms \in [Tasks -> SUBSET Clients]
    /\ joined \in [Clients -> SUBSET Tasks]
    /\ \A c \in Clients : send[c] \in Seq(1..MaxMessages) /\ Len(send[c]) <= SendCap
    /\ closed \in [Clients -> BOOLEAN]
    /\ broadcast \in Seq(Message) /\ Len(broadcast) <= BroadcastCap
    /\ mu \in {"free", "hub"} \cup Clients
    /\ hub \in [at : {"select", "register", "unregister", "forget", "room", "user"},
                client : Clients \cup {None}, msg : SUBSET Message, todo : SUBSET Clients]
    /\ reader \in [Clients -> {"off", "registering", "reading", "join", "joining",
                               "unregistering", "done"} \cup Leaving]
    /\ room \in [Clients -> Tasks \cup {None}]
    /\ writer \in [Clients -> {"off", "on", "done"}]
    /\ conn \in [Clients -> {"none", "open", "closed"}]
    /\ doomed \subseteq Clients
    /\ pending \in 0..MaxMessages
    /\ panicked \in BOOLEAN
    /\ published \in 0..MaxMessages
    /\ handled \subseteq Message
    /\ \A c \in Clients : got[c] \in Seq(1..MaxMessages)
    /\ cause \subseteq {"overflow", "race"}
    /\ crossed \subseteq Tasks

Init ==
    /\ clients = [u \in Users |-> {}]
    /\ present = {}
    /\ rooms = [t \in Tasks |-> {}]
    /\ joined = [c \in Clients |-> {}]
    /\ send = [c \in Clients |-> <<>>]
    /\ closed = [c \in Clients |-> FALSE]
    /\ broadcast = <<>>
    /\ mu = "free"
    /\ hub = Idle
    /\ reader = [c \in Clients |-> "off"]
    /\ room = [c \in Clients |-> None]
    /\ writer = [c \in Clients |-> "off"]
    /\ conn = [c \in Clients |-> "none"]
    /\ doomed = {}
    /\ pending = 0
    /\ panicked = FALSE
    /\ published = 0
    /\ handled = {}
    /\ got = [c \in Clients |-> <<>>]
    /\ cause = {}
    /\ crossed = {}

-----------------------------------------------------------------------------
(* HTTP handlers *)

\* A handler (or the goroutine that relays Redis messages) reaches the send.
Publish ==
    /\ pending + published < MaxMessages
    /\ pending' = pending + 1
    /\ UNCHANGED <<roomVars, send, closed, broadcast, mu, hub, connVars, panicked, histVars>>

\* Connections whose Register the hub has received and which still read.
Connected(u) ==
    {c \in Clients : /\ UserOf[c] = u
                     /\ reader[c] \in {"reading", "join", "joining"} \cup Leaving}

\* The Broadcast channel accepts the message.
Enqueue ==
    /\ pending > 0
    /\ Len(broadcast) < BroadcastCap
    /\ \E t \in Tasks, u \in Users :
          broadcast' = Append(broadcast, [no |-> published + 1, task |-> t, user |-> u,
                                          due |-> Connected(u)])
    /\ published' = published + 1
    /\ pending' = pending - 1
    /\ UNCHANGED <<roomVars, send, closed, mu, hub, connVars, panicked, handled, got,
                   cause, crossed>>

-----------------------------------------------------------------------------
(* The sections that read or write the room maps *)

\* Where the hub goroutine is in one, and the goroutines that are.
HubInRooms == \/ hub.at = "room"
              \/ hub.at = "forget" /\ joined[hub.client] # {}

InRooms == {c \in Clients : reader[c] \in {"joining"} \cup Leaving}
             \cup (IF HubInRooms THEN {"hub"} ELSE {})

\* A goroutine enters one while another is inside: only LeaveRoom can be.
Enters == cause' = IF InRooms = {} THEN cause ELSE cause \cup {"race"}

-----------------------------------------------------------------------------
(* The connection goroutines *)

\* HandleWebSocket: the upgrade succeeded, "h.hub.Register <- client".
Connect(c) ==
    /\ reader[c] = "off"
    /\ reader' = [reader EXCEPT ![c] = "registering"]
    /\ conn' = [conn EXCEPT ![c] = "open"]
    /\ UNCHANGED <<roomVars, send, closed, broadcast, mu, hub, room, writer,
                   doomed, pending, panicked, histVars>>

\* readPump got a frame; JoinRoom waits for h.mu.
ReadJoin(c) ==
    /\ reader[c] = "reading" /\ conn[c] = "open" /\ "join_room" \in Frames
    /\ reader' = [reader EXCEPT ![c] = "join"]
    /\ \E t \in Tasks : room' = [room EXCEPT ![c] = t]
    /\ UNCHANGED <<roomVars, send, closed, broadcast, mu, hub, writer, conn,
                   doomed, pending, panicked, histVars>>

\* JoinRoom takes h.mu and makes the room if there is none.
JoinRoomLock(c) ==
    /\ reader[c] = "join" /\ mu = "free"
    /\ mu' = c
    /\ present' = present \cup {room[c]}
    /\ reader' = [reader EXCEPT ![c] = "joining"]
    /\ Enters
    /\ crossed' = IF \E d \in Clients : reader[d] \in Leaving /\ room[d] = room[c]
                  THEN crossed \cup {room[c]} ELSE crossed
    /\ UNCHANGED <<clients, rooms, joined, send, closed, broadcast, hub, room, writer,
                   conn, doomed, pending, panicked, published, handled, got>>

\* "h.rooms[taskID][client] = true" finds the room that was tested or made, and
\* client.Rooms records it.
JoinRoom(c) ==
    /\ reader[c] = "joining" /\ room[c] \in present
    /\ rooms' = [rooms EXCEPT ![room[c]] = @ \cup {c}]
    /\ joined' = [joined EXCEPT ![c] = @ \cup {room[c]}]
    /\ mu' = "free"
    /\ reader' = [reader EXCEPT ![c] = "reading"]
    /\ room' = [room EXCEPT ![c] = None]
    /\ UNCHANGED <<clients, present, send, closed, broadcast, hub, writer, conn, doomed,
                   pending, panicked, histVars>>

\* A LeaveRoom deleted the room in between: the assignment to an entry of a nil
\* map panics.  The deferred calls run first: the unlock, and readPump's own
\* "h.hub.Unregister <- client", which waits for the hub.
JoinPanics(c) ==
    /\ reader[c] = "joining" /\ room[c] \notin present
    /\ doomed' = doomed \cup {c}
    /\ mu' = "free"
    /\ reader' = [reader EXCEPT ![c] = "unregistering"]
    /\ room' = [room EXCEPT ![c] = None]
    /\ UNCHANGED <<roomVars, send, closed, broadcast, hub, writer, conn, pending,
                   panicked, histVars>>

\* The panic reaches the end of readPump: nothing recovers it.
Die(c) ==
    /\ c \in doomed /\ reader[c] = "done"
    /\ panicked' = TRUE
    /\ UNCHANGED <<roomVars, send, closed, broadcast, mu, hub, connVars, pending, histVars>>

\* readPump calls LeaveRoom, which touches the maps at once: no lock.
ReadLeave(c) ==
    /\ reader[c] = "reading" /\ conn[c] = "open" /\ "leave_room" \in Frames
    /\ reader' = [reader EXCEPT ![c] = "leaving"]
    /\ Enters
    /\ \E t \in Tasks :
          /\ room' = [room EXCEPT ![c] = t]
          /\ crossed' = IF \E d \in Clients : reader[d] = "joining" /\ room[d] = t
                        THEN crossed \cup {t} ELSE crossed
    /\ UNCHANGED <<roomVars, send, closed, broadcast, mu, hub, writer, conn, doomed,
                   pending, panicked, published, handled, got>>

\* LeaveRoom returns to the read loop.
Returns(c) ==
    /\ reader' = [reader EXCEPT ![c] = "reading"]
    /\ room' = [room EXCEPT ![c] = None]

\* There is no such room: only client.Rooms changes.
LeaveNoRoom(c) ==
    /\ reader[c] = "leaving" /\ room[c] \notin present
    /\ joined' = [joined EXCEPT ![c] = @ \ {room[c]}]
    /\ Returns(c)
    /\ UNCHANGED <<clients, present, rooms, send, closed, broadcast, mu, hub, writer,
                   conn, doomed, pending, panicked, histVars>>

\* The room is there and the client is taken out; client.Rooms, which no other
\* goroutine reads before this one ends, is changed with it.
LeaveRoom(c) ==
    /\ reader[c] = "leaving" /\ room[c] \in present
    /\ rooms' = [rooms EXCEPT ![room[c]] = @ \ {c}]
    /\ joined' = [joined EXCEPT ![c] = @ \ {room[c]}]
    /\ reader' = [reader EXCEPT ![c] = "counting"]
    /\ UNCHANGED <<clients, present, send, closed, broadcast, mu, hub, room, writer,
                   conn, doomed, pending, panicked, histVars>>

\* Faulty variant of CountRoom: the room is deleted whoever is left in it.
CountRoomIgnored(c) ==
    /\ reader[c] = "counting"
    /\ reader' = [reader EXCEPT ![c] = "dropping"]
    /\ UNCHANGED <<roomVars, send, closed, broadcast, mu, hub, room, writer, conn, doomed,
                   pending, panicked, histVars>>

\* "len(h.rooms[taskID]) == 0".
CountRoom(c) ==
    /\ reader[c] = "counting"
    /\ IF rooms[room[c]] = {}
       THEN reader' = [reader EXCEPT ![c] = "dropping"] /\ room' = room
       ELSE Returns(c)
    /\ UNCHANGED <<roomVars, send, closed, broadcast, mu, hub, writer, conn, doomed,
                   pending, panicked, histVars>>

\* "delete(h.rooms, taskID)", with whoever joined since the count.
DropRoom(c) ==
    /\ reader[c] = "dropping"
    /\ present' = present \ {room[c]}
    /\ rooms' = [rooms EXCEPT ![room[c]] = {}]
    /\ Returns(c)
    /\ UNCHANGED <<clients, joined, send, closed, broadcast, mu, hub, writer, conn,
                   doomed, pending, panicked, histVars>>

\* The peer goes away, or stays silent past the read deadline.
PeerCloses(c) ==
    /\ reader[c] = "reading" /\ conn[c] = "open"
    /\ conn' = [conn EXCEPT ![c] = "closed"]
    /\ UNCHANGED <<roomVars, send, closed, broadcast, mu, hub, reader, room, writer,
                   doomed, pending, panicked, histVars>>

\* ReadMessage fails: the deferred "h.hub.Unregister <- client".
ReadFails(c) ==
    /\ reader[c] = "reading" /\ conn[c] = "closed"
    /\ reader' = [reader EXCEPT ![c] = "unregistering"]
    /\ UNCHANGED <<roomVars, send, closed, broadcast, mu, hub, room, writer, conn,
                   doomed, pending, panicked, histVars>>

\* writePump takes a frame off the Send channel and writes it.
WriteFrame(c) ==
    /\ writer[c] = "on" /\ conn[c] = "open" /\ send[c] # <<>>
    /\ send' = [send EXCEPT ![c] = Tail(@)]
    /\ got' = [got EXCEPT ![c] = Append(@, Head(send[c]))]
    /\ UNCHANGED <<roomVars, closed, broadcast, mu, hub, connVars, pending, panicked,
                   published, handled, cause, crossed>>

\* Faulty variant of WriteStops: the writer closes the Send channel itself.
WriteStopsAndCloses(c) ==
    /\ writer[c] = "on"
    /\ closed' = [closed EXCEPT ![c] = TRUE]
    /\ writer' = [writer EXCEPT ![c] = "done"]
    /\ conn' = [conn EXCEPT ![c] = "closed"]
    /\ UNCHANGED <<roomVars, send, broadcast, mu, hub, reader, room, doomed,
                   pending, panicked, histVars>>

\* writePump ends, on a failed write or ping, or with a close frame once the
\* closed channel is drained, and closes the connection.
WriteStops(c) ==
    /\ writer[c] = "on"
    /\ writer' = [writer EXCEPT ![c] = "done"]
    /\ conn' = [conn EXCEPT ![c] = "closed"]
    /\ UNCHANGED <<roomVars, send, closed, broadcast, mu, hub, reader, room, doomed,
                   pending, panicked, histVars>>

-----------------------------------------------------------------------------
(* The hub goroutine *)

\* "case client := <-h.Register": HandleWebSocket goes on and starts the pumps.
TakeRegister(c) ==
    /\ hub.at = "select" /\ reader[c] = "registering"
    /\ hub' = [Idle EXCEPT !.at = "register", !.client = c]
    /\ reader' = [reader EXCEPT ![c] = "reading"]
    /\ writer' = [writer EXCEPT ![c] = "on"]
    /\ UNCHANGED <<roomVars, send, closed, broadcast, mu, room, conn, doomed,
                   pending, panicked, histVars>>

RegisterClient ==
    /\ hub.at = "register" /\ mu = "free"
    /\ clients' = [clients EXCEPT ![UserOf[hub.client]] = @ \cup {hub.client}]
    /\ hub' = Idle
    /\ UNCHANGED <<present, rooms, joined, send, closed, broadcast, mu, connVars,
                   pending, panicked, histVars>>

\* "case client := <-h.Unregister": readPump closes the connection and ends.
TakeUnregister(c) ==
    /\ hub.at = "select" /\ reader[c] = "unregistering"
    /\ hub' = [Idle EXCEPT !.at = "unregister", !.client = c]
    /\ reader' = [reader EXCEPT ![c] = "done"]
    /\ conn' = [conn EXCEPT ![c] = "closed"]
    /\ UNCHANGED <<roomVars, send, closed, broadcast, mu, room, writer, doomed, pending,
                   panicked, histVars>>

UnregisterLock ==
    /\ hub.at = "unregister" /\ mu = "free"
    /\ mu' = "hub"
    /\ hub' = [hub EXCEPT !.at = "forget"]
    /\ IF joined[hub.client] = {} THEN cause' = cause ELSE Enters
    /\ UNCHANGED <<roomVars, send, closed, broadcast, connVars, pending, panicked,
                   published, handled, got, crossed>>

\* Faulty variants of ForgetClient: the rooms are not left; LeaveRoom, made to
\* take h.mu as its comment suggests, waits for the lock the hub holds.
ForgetClientOnly ==
    /\ hub.at = "forget"
    /\ clients' = [clients EXCEPT ![UserOf[hub.client]] = @ \ {hub.client}]
    /\ closed' = [closed EXCEPT ![hub.client] = TRUE]
    /\ panicked' = closed[hub.client]
    /\ mu' = "free"
    /\ hub' = Idle
    /\ UNCHANGED <<present, rooms, joined, send, broadcast, connVars, pending, histVars>>

ForgetClientRelocking ==
    /\ hub.at = "forget"
    /\ joined[hub.client] # {} => mu = "free"
    /\ clients' = [clients EXCEPT ![UserOf[hub.client]] = @ \ {hub.client}]
    /\ rooms' = [t \in Tasks |->
                    IF t \in joined[hub.client] THEN rooms[t] \ {hub.client} ELSE rooms[t]]
    /\ present' = {t \in present : t \in joined[hub.client] => rooms'[t] # {}}
    /\ joined' = [joined EXCEPT ![hub.client] = {}]
    /\ closed' = [closed EXCEPT ![hub.client] = TRUE]
    /\ panicked' = closed[hub.client]
    /\ mu' = "free"
    /\ hub' = Idle
    /\ UNCHANGED <<send, broadcast, connVars, pending, histVars>>

\* The body of the Unregister case, with LeaveRoom for each of client.Rooms: h.mu
\* keeps joins out, and leaves that come between change nothing in the outcome.
\* The last step closes Send, whether or not an overflow closed it before.
ForgetClient ==
    /\ hub.at = "forget"
    /\ clients' = [clients EXCEPT ![UserOf[hub.client]] = @ \ {hub.client}]
    /\ rooms' = [t \in Tasks |->
                    IF t \in joined[hub.client] THEN rooms[t] \ {hub.client} ELSE rooms[t]]
    /\ present' = {t \in present : t \in joined[hub.client] => rooms'[t] # {}}
    /\ joined' = [joined EXCEPT ![hub.client] = {}]
    /\ closed' = [closed EXCEPT ![hub.client] = TRUE]
    /\ panicked' = closed[hub.client]
    /\ mu' = "free"
    /\ hub' = Idle
    /\ UNCHANGED <<send, broadcast, connVars, pending, histVars>>

\* Faulty variant of TakeMessage: the messages are handled in any order.
TakeAnyMessage ==
    /\ hub.at = "select" /\ mu = "free"
    /\ \E i \in DOMAIN broadcast :
          /\ broadcast' = SubSeq(broadcast, 1, i - 1) \o
                          SubSeq(broadcast, i + 1, Len(broadcast))
          /\ hub' = [at |-> "room", client |-> None, msg |-> {broadcast[i]},
                     todo |-> rooms[broadcast[i].task]]
    /\ mu' = "hub"
    /\ Enters
    /\ UNCHANGED <<roomVars, send, closed, connVars, pending, panicked, published,
                   handled, got, crossed>>

\* "case message := <-h.Broadcast" and h.mu.RLock: no other goroutine takes
\* the read side, so the reader is exclusive like a writer.
TakeMessage ==
    /\ hub.at = "select" /\ mu = "free" /\ broadcast # <<>>
    /\ broadcast' = Tail(broadcast)
    /\ mu' = "hub"
    /\ hub' = [at |-> "room", client |-> None, msg |-> {Head(broadcast)},
               todo |-> rooms[Head(broadcast).task]]
    /\ Enters
    /\ UNCHANGED <<roomVars, send, closed, connVars, pending, panicked, published,
                   handled, got, crossed>>

\* "select { case client.Send <- data: default: }" finds room for the frame.
Sends(c) == ~closed[c] /\ Len(send[c]) < SendCap

\* Faulty variant of Overflows: a full channel stays open, the frame is lost.
OverflowsUnnoticed(c) == FALSE

Overflows(c) == ~closed[c] /\ ~Sends(c)

\* One iteration of a broadcast loop for connection c and message m: a closed
\* channel panics, a full one is closed.
Offer(c, m) ==
    /\ send' = [send EXCEPT ![c] = IF Sends(c) THEN Append(@, m.no) ELSE @]
    /\ closed' = [closed EXCEPT ![c] = @ \/ Overflows(c)]
    /\ cause' = IF Overflows(c) THEN cause \cup {"overflow"} ELSE cause
    /\ panicked' = closed[c]
    /\ hub' = [hub EXCEPT !.todo = @ \ {c}]

\* The loop over h.rooms[message.TaskID], in any order: it goes on over the same
\* map when LeaveRoom deletes the room.
OfferRoom(c) ==
    /\ hub.at = "room" /\ c \in hub.todo
    /\ \E m \in hub.msg :
          /\ Offer(c, m)
          /\ rooms' = [rooms EXCEPT ![m.task] = IF Overflows(c) THEN @ \ {c} ELSE @]
    /\ UNCHANGED <<clients, present, joined, broadcast, mu, connVars, pending,
                   published, handled, got, crossed>>

\* Faulty variant of RoomDone: a message for a room is not sent to the user.
RoomDoneReturns ==
    /\ hub.at = "room" /\ hub.todo = {}
    /\ \E m \in hub.msg : handled' = handled \cup {m}
    /\ mu' = "free"
    /\ hub' = Idle
    /\ UNCHANGED <<roomVars, send, closed, broadcast, connVars, pending, panicked,
                   published, got, cause, crossed>>

\* The loop ends.  A connection that left the room during it may be skipped.
RoomDone ==
    /\ hub.at = "room"
    /\ \E m \in hub.msg :
          /\ \A c \in hub.todo : m.task \notin joined[c]
          /\ hub' = [hub EXCEPT !.at = "user", !.todo = clients[m.user]]
    /\ UNCHANGED <<roomVars, send, closed, broadcast, mu, connVars, pending,
                   panicked, histVars>>

\* The loop over h.clients[message.UserID], in any order.
OfferUser(c) ==
    /\ hub.at = "user" /\ c \in hub.todo
    /\ \E m \in hub.msg :
          /\ Offer(c, m)
          /\ clients' = [clients EXCEPT ![m.user] = IF Overflows(c) THEN @ \ {c} ELSE @]
    /\ UNCHANGED <<present, rooms, joined, broadcast, mu, connVars, pending,
                   published, handled, got, crossed>>

UserDone ==
    /\ hub.at = "user" /\ hub.todo = {}
    /\ \E m \in hub.msg : handled' = handled \cup {m}
    /\ mu' = "free"
    /\ hub' = Idle
    /\ UNCHANGED <<roomVars, send, closed, broadcast, connVars, pending, panicked,
                   published, got, cause, crossed>>

-----------------------------------------------------------------------------
\* The Go runtime may notice concurrent map access and abort the process; it
\* may also not, and then the sections take effect one after the other.
MapRace ==
    /\ Cardinality(InRooms) > 1
    /\ panicked' = TRUE
    /\ UNCHANGED <<roomVars, send, closed, broadcast, mu, hub, connVars, pending, histVars>>

HubStep ==
    \/ \E c \in Clients : \/ TakeRegister(c) \/ TakeUnregister(c)
                          \/ OfferRoom(c) \/ OfferUser(c)
    \/ RegisterClient \/ UnregisterLock \/ ForgetClient
    \/ TakeMessage \/ RoomDone \/ UserDone

\* What readPump and writePump do without the peer's help: writePump of a
\* closed connection fails at the latest with its next ping.
ReaderStep(c) ==
    \/ JoinRoomLock(c) \/ JoinRoom(c) \/ JoinPanics(c) \/ Die(c) \/ ReadFails(c)
    \/ LeaveNoRoom(c) \/ LeaveRoom(c) \/ CountRoom(c) \/ DropRoom(c)
WriterStep(c) == WriteFrame(c) \/ (conn[c] = "closed" /\ WriteStops(c))
                               \/ (closed[c] /\ send[c] = <<>> /\ WriteStops(c))

PeerStep(c) == Connect(c) \/ ReadJoin(c) \/ ReadLeave(c) \/ PeerCloses(c)

Next ==
    /\ ~panicked
    /\ \/ Publish \/ Enqueue \/ HubStep \/ MapRace
       \/ \E c \in Clients : ReaderStep(c) \/ WriteFrame(c) \/ WriteStops(c) \/ PeerStep(c)

Spec == Init /\ [][Next]_vars

\* The Go scheduler runs every goroutine that can run, and its mutex starves
\* no goroutine: a lock that is free again and again is obtained.
Fairness ==
    /\ SF_vars(~panicked /\ HubStep)
    /\ WF_vars(~panicked /\ Enqueue)
    /\ \A c \in Clients : /\ SF_vars(~panicked /\ ReaderStep(c))
                          /\ WF_vars(~panicked /\ WriterStep(c))

FairSpec == Spec /\ Fairness

-----------------------------------------------------------------------------
(* Properties *)

\* Frames reach a connection in the order the messages entered the Broadcast
\* channel, each one at most twice: once through the room, once through the
\* user (the duplicate hub.go:125-128 accepts).
DeliveredInOrder ==
    \A c \in Clients : LET s == got[c] \o send[c] IN
        /\ \A i, j \in DOMAIN s : i < j => s[i] <= s[j]
        /\ \A i \in DOMAIN s : i + 2 \in DOMAIN s => s[i] # s[i + 2]

\* A message for a user reaches every connection of the user that was accepted
\* before it was published, joined to the room or not, unless the connection
\* was closed or dropped (websocket_handler.go:94-96).
RecipientsNotified ==
    \A m \in handled : \A c \in m.due :
        \/ \E i \in DOMAIN (got[c] \o send[c]) : (got[c] \o send[c])[i] = m.no
        \/ closed[c]
        \/ reader[c] \in {"unregistering", "done"}

\* h.rooms and client.Rooms agree.  Every room a connection is in is in its
\* client.Rooms, which is all that unregistering goes through: otherwise a dead
\* connection stays in the room.  And it is in every room client.Rooms names,
\* unless its channel overflowed or a LeaveRoom of that room overlapped a
\* JoinRoom (hub.go:164-170 may delete the room under the one who joins).
MembershipAgrees ==
    \A t \in Tasks, c \in Clients :
        /\ c \in rooms[t] => t \in joined[c]
        /\ t \in joined[c] => c \in rooms[t] \/ closed[c] \/ t \in crossed

\* Once a connection is unregistered it is in no map, and never comes back.
GoneIsForgotten ==
    \A c \in Clients : reader[c] = "done" /\ hub.client # c =>
        /\ closed[c]
        /\ \A u \in Users : c \notin clients[u]
        /\ \A t \in Tasks : c \notin rooms[t]

\* The process dies only after a Send channel overflowed or after a LeaveRoom,
\* which takes no lock, overlapped another goroutine's use of the room maps: no
\* other interleaving of connecting, joining, leaving, closing and broadcasting
\* sends on a closed channel, closes one twice, writes into a room that is gone
\* or has two goroutines in the maps, which h.mu guards everywhere else.
PanicHasCause ==
    panicked => cause \cap {"overflow", "race"} # {}

\* Seen from the connections, the hub delivers one message after the other and
\* is done with none before everyone it is due to was sent it, was dropped or
\* is leaving (the doc of Feed says the whole promise).
Underway == {broadcast[i] : i \in DOMAIN broadcast}
               \cup (IF hub.at \in {"room", "user"} THEN hub.msg ELSE {})

Delivery == INSTANCE Feed WITH
               Clients <- Clients,
               published <- published,
               current <- published - Len(broadcast),
               open <- {[no |-> m.no, due |-> m.due] : m \in Underway},
               stream <- [c \in Clients |-> got[c] \o send[c]],
               seen <- got,
               leaving <- {c \in Clients : reader[c] \in {"unregistering", "done"}},
               dropped <- {c \in Clients : closed[c]}
DeliversFeed == Delivery!Spec

\* Handlers do not stay blocked on the Broadcast channel.
HandlersProceed == pending > 0 ~> pending = 0 \/ panicked

\* The goroutines of a dead connection end and the hub forgets it.
ConnectionsEnd ==
    \A c \in Clients :
        conn[c] = "closed" ~> \/ reader[c] = "done" /\ writer[c] = "done" /\ closed[c]
                              \/ panicked

\* Notification is best effort ("Notificação é best-effort",
\* websocket_handler.go:356): it never takes the server down.
NotificationNeverKills == ~panicked

\* LeaveRoom runs with the global lock taken by its caller (hub.go:162), so no
\* two goroutines touch the room maps at a time.
RoomsGuarded == Cardinality(InRooms) <= 1
=============================================================================
