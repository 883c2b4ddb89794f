------------------------------ MODULE HubProofs ------------------------------
(***************************************************************************)
(* Proofs about Hub for any number of connections, users, rooms and        *)
(* messages and any capacity of the channels: types, what the maps hold,   *)
(* what can kill the process, and in which order and to whom frames go.    *)
(***************************************************************************)
EXTENDS Hub, FiniteSetTheorems, SequenceTheorems, TLAPS

\* readPump of a connection that is registered and not yet at its end.
Reading == {"reading", "join", "joining"} \cup Leaving

\* The ends of JoinRoom, the steps of LeaveRoom, the ways the process dies.
JoinEnds(c) == JoinRoom(c) \/ JoinPanics(c)
LeaveStep(c) == LeaveNoRoom(c) \/ LeaveRoom(c) \/ CountRoom(c) \/ DropRoom(c)
Dies == MapRace \/ \E c \in Clients : Die(c)

\* All the frames a connection was sent.
Stream(c) == got[c] \o send[c]

\* The number of the last message the hub has taken.
Last == published - Len(broadcast)

\* The frames s are in order, each at most twice, the last message n at most
\* k times.
Upto(s, n, k) ==
    /\ \A i, j \in 1..Len(s) : i < j => s[i] <= s[j]
    /\ \A i \in 1..Len(s) : i + 2 <= Len(s) => s[i] # s[i + 2]
    /\ \A i \in 1..Len(s) : /\ s[i] <= n
                            /\ k = 0 => s[i] < n
                            /\ k = 1 /\ i < Len(s) => s[i] < n

-----------------------------------------------------------------------------
(* Sequences of frames *)

\* One frame more of message n.
LEMMA AppendFrame ==
    ASSUME NEW s \in Seq(Nat), NEW n \in Nat, NEW k \in {0, 1}, Upto(s, n, k),
           NEW r, r = Append(s, n)
    PROVE  Upto(r, n, k + 1)
  <1>1. PICK l \in Nat : l = Len(s)
    BY LenProperties
  <1>2. /\ Len(r) = l + 1 /\ r[l + 1] = n
        /\ \A i \in 1..l : r[i] = s[i]
    BY <1>1, AppendProperties
  <1>3. \A i \in 1..l : s[i] \in Nat
    BY <1>1, ElementOfSeq
  <1>4. /\ \A i, j \in 1..l : i < j => s[i] <= s[j]
        /\ \A i \in 1..l : i + 2 <= l => s[i] # s[i + 2]
        /\ \A i \in 1..l : s[i] <= n /\ (k = 0 => s[i] < n) /\ (k = 1 /\ i < l => s[i] < n)
    BY <1>1, Zenon DEF Upto
  <1>5. \A i \in 1..(l + 1) : i \in 1..l \/ i = l + 1
    OBVIOUS
  <1>6. ASSUME NEW i \in 1..(l + 1), NEW j \in 1..(l + 1), i < j PROVE r[i] <= r[j]
    <2>1. i \in 1..l
      BY <1>6
    <2>2. CASE j \in 1..l
      BY <2>1, <2>2, <1>2, <1>4, <1>6
    <2>3. CASE j = l + 1
      <3>1. r[i] = s[i] /\ r[j] = n
        BY <2>1, <2>3, <1>2
      <3> QED BY <2>1, <3>1, <1>4
    <2> QED BY <2>2, <2>3, <1>5
  <1>7. ASSUME NEW i \in 1..(l + 1), i + 2 <= l + 1 PROVE r[i] # r[i + 2]
    <2>1. i \in 1..l /\ i < l
      BY <1>7
    <2>2. CASE i + 2 <= l
      <3>1. i + 2 \in 1..l
        BY <2>2
      <3> QED BY <2>1, <2>2, <3>1, <1>2, <1>4
    <2>3. CASE ~(i + 2 <= l)
      <3>1. i + 2 = l + 1
        BY <2>3, <1>7
      <3>2. s[i] < n
        BY <2>1, <1>4
      <3>3. r[i + 2] = n /\ r[i] = s[i]
        BY <2>1, <3>1, <1>2
      <3> QED BY <2>1, <3>2, <3>3, <1>3
    <2> QED BY <2>2, <2>3
  <1>8. ASSUME NEW i \in 1..(l + 1)
        PROVE  /\ r[i] <= n
               /\ k + 1 = 0 => r[i] < n
               /\ k + 1 = 1 /\ i < l + 1 => r[i] < n
    <2>1. CASE i \in 1..l
      <3>1. r[i] = s[i] /\ s[i] <= n /\ (k = 0 => s[i] < n)
        BY <2>1, <1>2, <1>4
      <3> QED BY <3>1
    <2>2. CASE i = l + 1
      BY <2>2, <1>2
    <2> QED BY <2>1, <2>2, <1>5
  <1> QED BY <1>2, <1>6, <1>7, <1>8, Zenon DEF Upto

\* The bound on the frames of n may grow, and the next message has none yet.
LEMMA MoreFrames ==
    ASSUME NEW s \in Seq(Nat), NEW n \in Nat, NEW k \in 0..2, NEW j \in 0..2, Upto(s, n, k)
    PROVE  /\ k <= j => Upto(s, n, j)
           /\ Upto(s, n + 1, j)
  <1>1. PICK l \in Nat : l = Len(s)
    BY LenProperties
  <1>2. \A i \in 1..l : s[i] \in Nat
    BY <1>1, ElementOfSeq
  <1>3. /\ \A i, m \in 1..l : i < m => s[i] <= s[m]
        /\ \A i \in 1..l : i + 2 <= l => s[i] # s[i + 2]
        /\ \A i \in 1..l : s[i] <= n /\ (k = 0 => s[i] < n) /\ (k = 1 /\ i < l => s[i] < n)
    BY <1>1, Zenon DEF Upto
  <1>4. k <= j => \A i \in 1..l : s[i] <= n /\ (j = 0 => s[i] < n) /\ (j = 1 /\ i < l => s[i] < n)
    BY <1>3
  <1>5. \A i \in 1..l : /\ s[i] <= n + 1
                        /\ j = 0 => s[i] < n + 1
                        /\ j = 1 /\ i < l => s[i] < n + 1
    BY <1>2, <1>3
  <1> QED BY <1>1, <1>3, <1>4, <1>5, Zenon DEF Upto

\* What writePump takes off the channel it writes: the stream stays.
LEMMA WrittenStream ==
    ASSUME NEW S, NEW g \in Seq(S), NEW s \in Seq(S), s # <<>>
    PROVE  Append(g, Head(s)) \o Tail(s) = g \o s
  <1>1. PICK m \in Nat, l \in Nat : m = Len(g) /\ l = Len(s)
    BY LenProperties
  <1>2. /\ Head(s) \in S /\ Tail(s) \in Seq(S) /\ l > 0 /\ Len(Tail(s)) = l - 1
        /\ \A i \in 1..(l - 1) : Tail(s)[i] = s[i + 1]
        /\ Head(s) = s[1]
    BY <1>1, HeadTailProperties, EmptySeq
  <1>3. /\ Append(g, Head(s)) \in Seq(S) /\ Len(Append(g, Head(s))) = m + 1
        /\ \A i \in 1..m : Append(g, Head(s))[i] = g[i]
        /\ Append(g, Head(s))[m + 1] = s[1]
    BY <1>1, <1>2, AppendProperties
  <1> DEFINE a == Append(g, Head(s)) \o Tail(s)
             b == g \o s
  <1>4. /\ a \in Seq(S) /\ Len(a) = (m + 1) + (l - 1)
        /\ \A i \in 1..(m + 1) : a[i] = Append(g, Head(s))[i]
        /\ \A i \in (m + 1) + 1..(m + 1) + (l - 1) : a[i] = Tail(s)[i - (m + 1)]
    <2>1. PICK x \in Seq(S), y \in Seq(S) : x = Append(g, Head(s)) /\ y = Tail(s)
      BY <1>2, <1>3
    <2>2. Len(x) = m + 1 /\ Len(y) = l - 1
      BY <1>2, <1>3, <2>1
    <2>3. /\ x \o y \in Seq(S) /\ Len(x \o y) = Len(x) + Len(y)
          /\ \A i \in 1..Len(x) : (x \o y)[i] = x[i]
          /\ \A i \in Len(x) + 1..Len(x) + Len(y) : (x \o y)[i] = y[i - Len(x)]
      BY <2>1, ConcatProperties
    <2> QED BY <2>1, <2>2, <2>3, Zenon
  <1>5. /\ b \in Seq(S) /\ Len(b) = m + l
        /\ \A i \in 1..m : b[i] = g[i]
        /\ \A i \in m + 1..m + l : b[i] = s[i - m]
    BY <1>1, ConcatProperties
  <1> HIDE DEF a, b
  <1>6. ASSUME NEW i \in 1..(m + l) PROVE a[i] = b[i]
    <2>1. CASE i <= m
      BY <2>1, <1>3, <1>4, <1>5
    <2>2. CASE i = m + 1
      <3>1. i \in 1..(m + 1) /\ i \in m + 1..m + l /\ i - m = 1
        BY <2>2, <1>2
      <3> QED BY <2>2, <3>1, <1>3, <1>4, <1>5
    <2>3. CASE i > m + 1
      <3>1. /\ i \in (m + 1) + 1..(m + 1) + (l - 1) /\ i \in m + 1..m + l
            /\ i - (m + 1) \in 1..(l - 1) /\ (i - (m + 1)) + 1 = i - m
        BY <2>3
      <3>2. Tail(s)[i - (m + 1)] = s[(i - (m + 1)) + 1]
        BY <3>1, <1>2
      <3> QED BY <3>1, <3>2, <1>4, <1>5
    <2> QED BY <2>1, <2>2, <2>3
  <1>7. Len(a) = m + l
    BY <1>2, <1>4
  <1> QED BY <1>4, <1>5, <1>6, <1>7, SeqEqual DEF a, b

\* A frame put into the channel is the last of the stream.
LEMMA SentStream ==
    ASSUME NEW S, NEW g \in Seq(S), NEW s \in Seq(S), NEW e \in S
    PROVE  g \o Append(s, e) = Append(g \o s, e)
  <1>1. PICK m \in Nat, l \in Nat : m = Len(g) /\ l = Len(s)
    BY LenProperties
  <1>2. /\ Append(s, e) \in Seq(S) /\ Len(Append(s, e)) = l + 1
        /\ \A i \in 1..l : Append(s, e)[i] = s[i]
        /\ Append(s, e)[l + 1] = e
    BY <1>1, AppendProperties
  <1>3. /\ g \o s \in Seq(S) /\ Len(g \o s) = m + l
        /\ \A i \in 1..m : (g \o s)[i] = g[i]
        /\ \A i \in m + 1..m + l : (g \o s)[i] = s[i - m]
    BY <1>1, ConcatProperties
  <1> DEFINE a == g \o Append(s, e)
             b == Append(g \o s, e)
  <1>4. /\ a \in Seq(S) /\ Len(a) = m + (l + 1)
        /\ \A i \in 1..m : a[i] = g[i]
        /\ \A i \in m + 1..m + (l + 1) : a[i] = Append(s, e)[i - m]
    BY <1>1, <1>2, ConcatProperties
  <1>5. /\ b \in Seq(S) /\ Len(b) = (m + l) + 1
        /\ \A i \in 1..(m + l) : b[i] = (g \o s)[i]
        /\ b[(m + l) + 1] = e
    BY <1>3, AppendProperties
  <1> HIDE DEF a, b
  <1>6. ASSUME NEW i \in 1..(m + (l + 1)) PROVE a[i] = b[i]
    <2>1. CASE i <= m
      <3>1. i \in 1..m /\ i \in 1..(m + l)
        BY <2>1
      <3> QED BY <3>1, <1>3, <1>4, <1>5, Zenon
    <2>2. CASE i > m /\ i <= m + l
      <3>1. i \in m + 1..m + l /\ i - m \in 1..l /\ i \in 1..(m + l) /\ i \in m + 1..m + (l + 1)
        BY <2>2
      <3> QED BY <3>1, <1>2, <1>3, <1>4, <1>5
    <2>3. CASE i = (m + l) + 1
      <3>1. i \in m + 1..m + (l + 1) /\ i - m = l + 1
        BY <2>3
      <3> QED BY <2>3, <3>1, <1>2, <1>4, <1>5
    <2> QED BY <2>1, <2>2, <2>3
  <1>7. Len(a) = m + (l + 1) /\ Len(b) = m + (l + 1)
    BY <1>4, <1>5
  <1> QED BY <1>4, <1>5, <1>6, <1>7, SeqEqual DEF a, b

-----------------------------------------------------------------------------
(* Types *)

\* TypeOK, with what it does not say of domains and of the readers.
Shape ==
    /\ TypeOK
    /\ DOMAIN send = Clients /\ DOMAIN got = Clients
    /\ pending + published <= MaxMessages
    /\ \A c \in Clients : reader[c] \in {"join", "joining"} \cup Leaving => room[c] \in Tasks

\* The states of the hub goroutine.
HubState == [at : {"select", "register", "unregister", "forget", "room", "user"},
             client : Clients \cup {None}, msg : SUBSET Message, todo : SUBSET Clients]

\* Where the hub goroutine is and on what it works.
At(at, client, msg, todo) ==
    hub'.at = at /\ hub'.client = client /\ hub'.msg = msg /\ hub'.todo = todo

\* What each action leaves in the fields of the hub.
LEMMA HubFields ==
    ASSUME Shape
    PROVE  /\ Idle \in HubState /\ Idle.at = "select" /\ Idle.client = None /\ Idle.todo = {}
           /\ hub \in HubState
           /\ \A c \in Clients : TakeRegister(c) => hub' \in HubState /\ At("register", c, {}, {})
           /\ \A c \in Clients :
                 TakeUnregister(c) => hub' \in HubState /\ At("unregister", c, {}, {})
           /\ UnregisterLock => hub' \in HubState /\ At("forget", hub.client, hub.msg, hub.todo)
           /\ TakeMessage => /\ hub' \in HubState /\ Head(broadcast) \in Message
                             /\ At("room", None, {Head(broadcast)}, rooms[Head(broadcast).task])
           /\ RoomDone => /\ hub' \in HubState
                          /\ \E m \in hub.msg : /\ \A c \in hub.todo : m.task \notin joined[c]
                                                /\ At("user", hub.client, hub.msg, clients[m.user])
           /\ \A c \in Clients : OfferRoom(c) \/ OfferUser(c) =>
                 hub' \in HubState /\ At(hub.at, hub.client, hub.msg, hub.todo \ {c})
           /\ RegisterClient \/ ForgetClient \/ UserDone => hub' = Idle
  <1>1. Idle \in HubState /\ Idle.at = "select" /\ Idle.client = None /\ Idle.todo = {}
    BY DEF Idle, HubState
  <1>2. /\ hub \in HubState /\ broadcast \in Seq(Message)
        /\ clients \in [Users -> SUBSET Clients] /\ rooms \in [Tasks -> SUBSET Clients]
    BY DEF Shape, TypeOK, HubState
  <1>3. ASSUME NEW c \in Clients, TakeRegister(c)
        PROVE  hub' \in HubState /\ At("register", c, {}, {})
    <2>1. hub' = [at |-> "register", client |-> c, msg |-> {}, todo |-> {}]
      BY <1>3 DEF TakeRegister, Idle
    <2> QED BY <2>1 DEF At, HubState
  <1>4. ASSUME NEW c \in Clients, TakeUnregister(c)
        PROVE hub' \in HubState /\ At("unregister", c, {}, {})
    <2>1. hub' = [at |-> "unregister", client |-> c, msg |-> {}, todo |-> {}]
      BY <1>4 DEF TakeUnregister, Idle
    <2> QED BY <2>1 DEF At, HubState
  <1>5. ASSUME UnregisterLock
        PROVE  hub' \in HubState /\ At("forget", hub.client, hub.msg, hub.todo)
    <2>1. hub' = [hub EXCEPT !.at = "forget"]
      BY <1>5 DEF UnregisterLock
    <2> QED BY <2>1, <1>2 DEF At, HubState
  <1>6. ASSUME TakeMessage
        PROVE  /\ hub' \in HubState /\ Head(broadcast) \in Message
               /\ At("room", None, {Head(broadcast)}, rooms[Head(broadcast).task])
    <2>1. PICK h \in Message : h = Head(broadcast)
      BY <1>2, <1>6, HeadTailProperties DEF TakeMessage
    <2>2. hub' = [at |-> "room", client |-> None, msg |-> {h}, todo |-> rooms[h.task]]
      BY <2>1, <1>6 DEF TakeMessage
    <2>3. h.task \in Tasks
      BY <2>1 DEF Message
    <2>4. rooms[h.task] \in SUBSET Clients
      BY <2>3, <1>2
    <2>5. hub' \in HubState
      BY <2>1, <2>2, <2>4 DEF HubState
    <2> QED BY <2>1, <2>2, <2>5 DEF At
  <1>7. ASSUME RoomDone
        PROVE  /\ hub' \in HubState
               /\ \E m \in hub.msg : /\ \A c \in hub.todo : m.task \notin joined[c]
                                     /\ At("user", hub.client, hub.msg, clients[m.user])
    <2>1. PICK m \in hub.msg : /\ \A c \in hub.todo : m.task \notin joined[c]
                               /\ hub' = [hub EXCEPT !.at = "user", !.todo = clients[m.user]]
      BY <1>7 DEF RoomDone
    <2>2. m \in Message
      BY <1>2, <2>1 DEF HubState
    <2>3. clients[m.user] \in SUBSET Clients
      BY <1>2, <2>2 DEF Message
    <2>4. hub' \in HubState
      BY <1>2, <2>1, <2>3 DEF HubState
    <2>5. At("user", hub.client, hub.msg, clients[m.user])
      BY <1>2, <2>1 DEF At, HubState
    <2> QED BY <2>1, <2>4, <2>5
  <1>8. ASSUME NEW c \in Clients, OfferRoom(c) \/ OfferUser(c)
        PROVE  hub' \in HubState /\ At(hub.at, hub.client, hub.msg, hub.todo \ {c})
    <2>1. hub' = [hub EXCEPT !.todo = @ \ {c}]
      BY <1>8 DEF OfferRoom, OfferUser, Offer
    <2> QED BY <1>2, <2>1 DEF At, HubState
  <1>9. RegisterClient \/ ForgetClient \/ UserDone => hub' = Idle
    BY DEF RegisterClient, ForgetClient, UserDone
  <1> QED BY <1>1, <1>2, <1>3, <1>4, <1>5, <1>6, <1>7, <1>8, <1>9

\* A frame offered enters the channel if it fits.
LEMMA OfferTypes ==
    ASSUME Shape, NEW c \in Clients, NEW m \in Message, Offer(c, m)
    PROVE  /\ \A d \in Clients : send'[d] \in Seq(1..MaxMessages) /\ Len(send'[d]) <= SendCap
           /\ DOMAIN send' = Clients
           /\ closed' \in [Clients -> BOOLEAN] /\ panicked' \in BOOLEAN
           /\ cause' \subseteq {"overflow", "race"}
  <1>1. m.no \in 1..MaxMessages
    BY DEF Message
  <1>2. /\ send[c] \in Seq(1..MaxMessages) /\ Len(send[c]) <= SendCap /\ DOMAIN send = Clients
        /\ closed \in [Clients -> BOOLEAN] /\ cause \subseteq {"overflow", "race"}
    BY DEF Shape, TypeOK
  <1>3. \A d \in Clients : send'[d] = IF d = c /\ Sends(c) THEN Append(send[c], m.no) ELSE send[d]
    BY <1>2 DEF Offer
  <1>4. Sends(c) => Len(send[c]) < SendCap
    BY DEF Sends
  <1>5. /\ Append(send[c], m.no) \in Seq(1..MaxMessages)
        /\ Len(Append(send[c], m.no)) = Len(send[c]) + 1
    BY <1>1, <1>2, AppendProperties
  <1>6. Sends(c) => Len(Append(send[c], m.no)) <= SendCap
    <2>1. Len(send[c]) \in Nat /\ SendCap \in Nat
      BY <1>2, LenProperties, CapacityAssumption
    <2> QED BY <2>1, <1>4, <1>5
  <1>7. \A d \in Clients : send'[d] \in Seq(1..MaxMessages) /\ Len(send'[d]) <= SendCap
    <2> SUFFICES ASSUME NEW d \in Clients
                 PROVE  send'[d] \in Seq(1..MaxMessages) /\ Len(send'[d]) <= SendCap
      OBVIOUS
    <2>1. CASE d = c /\ Sends(c)
      BY <2>1, <1>3, <1>5, <1>6
    <2>2. CASE ~(d = c /\ Sends(c))
      <3>1. send'[d] = send[d]
        BY <2>2, <1>3
      <3> QED BY <3>1 DEF Shape, TypeOK
    <2> QED BY <2>1, <2>2
  <1>8. closed' \in [Clients -> BOOLEAN] /\ panicked' \in BOOLEAN
    BY <1>2 DEF Offer, Overflows, Sends
  <1>9. cause' \subseteq {"overflow", "race"} /\ DOMAIN send' = Clients
    BY <1>2 DEF Offer
  <1> QED BY <1>7, <1>8, <1>9

\* Every action of Next, by name.
LEMMA Actions ==
    ASSUME Next
    PROVE  \/ Publish \/ Enqueue \/ RegisterClient \/ UnregisterLock \/ ForgetClient
           \/ TakeMessage \/ RoomDone \/ UserDone \/ Dies
           \/ \E c \in Clients :
                 \/ TakeRegister(c) \/ TakeUnregister(c) \/ OfferRoom(c) \/ OfferUser(c)
                 \/ JoinRoomLock(c) \/ JoinEnds(c) \/ LeaveStep(c) \/ ReadFails(c)
                 \/ WriteFrame(c) \/ WriteStops(c)
                 \/ Connect(c) \/ ReadJoin(c) \/ ReadLeave(c) \/ PeerCloses(c)
  BY DEF Next, HubStep, ReaderStep, PeerStep, JoinEnds, LeaveStep, Dies

\* What JoinRoom, LeaveRoom and the end of the process leave alone.
LEMMA LeftAlone ==
    /\ \A c \in Clients :
          /\ JoinEnds(c) =>
                /\ UNCHANGED <<clients, present, send, closed, broadcast, hub, writer, conn,
                               pending, panicked, published, handled, got, cause, crossed>>
                /\ mu' = "free"
          /\ LeaveStep(c) =>
                UNCHANGED <<clients, send, closed, broadcast, mu, hub, writer, conn, doomed,
                            pending, panicked, published, handled, got, cause, crossed>>
    /\ Dies => /\ UNCHANGED <<clients, present, rooms, joined, send, closed, broadcast, mu, hub,
                              reader, room, writer, conn, doomed, pending, published, handled,
                              got, cause, crossed>>
               /\ panicked' = TRUE
  <1> USE DEF roomVars, connVars, histVars
  <1>1. ASSUME NEW c \in Clients, JoinEnds(c)
        PROVE  /\ UNCHANGED <<clients, present, send, closed, broadcast, hub, writer, conn,
                              pending, panicked, published, handled, got, cause, crossed>>
               /\ mu' = "free"
    BY <1>1 DEF JoinEnds, JoinRoom, JoinPanics
  <1>2. ASSUME NEW c \in Clients, LeaveStep(c)
        PROVE  UNCHANGED <<clients, send, closed, broadcast, mu, hub, writer, conn, doomed,
                           pending, panicked, published, handled, got, cause, crossed>>
    BY <1>2 DEF LeaveStep, LeaveNoRoom, LeaveRoom, CountRoom, DropRoom
  <1>3. ASSUME Dies
        PROVE  /\ UNCHANGED <<clients, present, rooms, joined, send, closed, broadcast, mu, hub,
                              reader, room, writer, conn, doomed, pending, published, handled,
                              got, cause, crossed>>
               /\ panicked' = TRUE
    BY <1>3 DEF Dies, MapRace, Die
  <1> QED BY <1>1, <1>2, <1>3

\* What happened stays on record.
LEMMA CauseGrows ==
    ASSUME Shape, Next
    PROVE  /\ cause \subseteq cause' /\ cause' \subseteq {"overflow", "race"}
           /\ crossed \subseteq crossed'
  <1>1. cause \subseteq {"overflow", "race"}
    BY DEF Shape, TypeOK
  <1>2. ASSUME UNCHANGED cause \/ Enters \/ (cause' = cause \cup {"overflow"})
        PROVE  cause \subseteq cause' /\ cause' \subseteq {"overflow", "race"}
    BY <1>1, <1>2 DEF Enters
  <1>3. ASSUME \/ Publish \/ Enqueue \/ RegisterClient \/ UnregisterLock \/ ForgetClient
               \/ TakeMessage \/ RoomDone \/ UserDone \/ Dies
        PROVE  UNCHANGED cause \/ Enters
    BY <1>3, LeftAlone DEF Publish, Enqueue, RegisterClient, UnregisterLock, ForgetClient,
                        TakeMessage, RoomDone, UserDone, histVars
  <1>4. ASSUME NEW c \in Clients,
               \/ TakeRegister(c) \/ TakeUnregister(c)
               \/ JoinRoomLock(c) \/ JoinEnds(c) \/ LeaveStep(c) \/ ReadFails(c)
               \/ WriteFrame(c) \/ WriteStops(c)
               \/ Connect(c) \/ ReadJoin(c) \/ ReadLeave(c) \/ PeerCloses(c)
        PROVE  UNCHANGED cause \/ Enters
    BY <1>4, LeftAlone DEF TakeRegister, TakeUnregister, JoinRoomLock, ReadFails, WriteFrame,
                        WriteStops, Connect, ReadJoin, ReadLeave, PeerCloses, histVars
  <1>5. ASSUME NEW c \in Clients, OfferRoom(c) \/ OfferUser(c)
        PROVE  UNCHANGED cause \/ (cause' = cause \cup {"overflow"})
    BY <1>5 DEF OfferRoom, OfferUser, Offer
  <1>6. ASSUME \/ Publish \/ Enqueue \/ RegisterClient \/ UnregisterLock \/ ForgetClient
               \/ TakeMessage \/ RoomDone \/ UserDone \/ Dies
        PROVE  crossed \subseteq crossed'
    BY <1>6, LeftAlone DEF Publish, Enqueue, RegisterClient, UnregisterLock, ForgetClient,
                        TakeMessage, RoomDone, UserDone, histVars
  <1>7. ASSUME NEW c \in Clients,
               \/ TakeRegister(c) \/ TakeUnregister(c) \/ OfferRoom(c) \/ OfferUser(c)
               \/ JoinRoomLock(c) \/ JoinEnds(c) \/ LeaveStep(c) \/ ReadFails(c)
               \/ WriteFrame(c) \/ WriteStops(c)
               \/ Connect(c) \/ ReadJoin(c) \/ ReadLeave(c) \/ PeerCloses(c)
        PROVE  crossed \subseteq crossed'
    BY <1>7, LeftAlone DEF TakeRegister, TakeUnregister, OfferRoom, OfferUser, JoinRoomLock,
                        ReadFails, WriteFrame, WriteStops, Connect, ReadJoin, ReadLeave,
                        PeerCloses, histVars
  <1> QED BY <1>2, <1>3, <1>4, <1>5, <1>6, <1>7, Actions

-----------------------------------------------------------------------------
(* The hub and the readers *)

\* readPump after Register was received and before Unregister is.
Registered == Reading \cup {"unregistering"}

\* Which connection the hub works on, in each of its places.
Places ==
    /\ hub.at \in {"select", "room", "user"} => hub.client = None
    /\ hub.at \in {"register", "unregister", "forget"} => hub.client \in Clients
    /\ hub.at = "register" => reader[hub.client] \in Registered
    /\ hub.at \in {"unregister", "forget"} => reader[hub.client] = "done"
    /\ hub.at \in {"room", "user"} => \E m \in Message : hub.msg = {m}
    /\ \A u \in Users : \A c \in clients[u] : UserOf[c] = u

\* How readPump of connection c moves.
Moves(c) ==
    /\ reader[c] = "done" => reader'[c] = "done"
    /\ reader[c] = "unregistering" => reader'[c] = "unregistering" \/ TakeUnregister(c)
    /\ reader[c] \in Reading => reader'[c] \in Registered
    /\ reader'[c] = "done" => reader[c] = "done" \/ TakeUnregister(c)
    /\ reader'[c] = "unregistering" => reader[c] \in Registered
    /\ reader'[c] \in Reading => reader[c] \in Reading \/ TakeRegister(c)

\* A step of readPump itself.
LEMMA OneMoves ==
    ASSUME Shape, NEW c \in Clients, NEW v, reader' = [reader EXCEPT ![c] = v],
           \/ reader[c] \in Reading /\ v \in Registered
           \/ reader[c] = "off" /\ v = "registering"
           \/ v \in Reading /\ TakeRegister(c)
           \/ reader[c] = "unregistering" /\ v = "done" /\ TakeUnregister(c),
           TakeRegister(c) => reader[c] = "registering"
    PROVE  \A d \in Clients : Moves(d)
  <1>1. /\ reader'[c] = v
        /\ \A d \in Clients \ {c} : reader'[d] = reader[d]
    BY DEF Shape, TypeOK
  <1>2. ASSUME NEW d \in Clients, d # c PROVE Moves(d)
    BY <1>1, <1>2 DEF Moves, Reading, Registered
  <1>3. Moves(c)
    BY <1>1 DEF Moves, Reading, Registered, TakeRegister, Leaving
  <1> QED BY <1>2, <1>3

\* The life of readPump, over every action.
LEMMA ReadersMove == ASSUME Shape, Next PROVE \A c \in Clients : Moves(c)
  <1>1. ASSUME UNCHANGED reader PROVE \A c \in Clients : Moves(c)
    BY <1>1 DEF Moves, Registered
  <1>2. ASSUME \/ Publish \/ Enqueue \/ RegisterClient \/ UnregisterLock \/ ForgetClient
               \/ TakeMessage \/ RoomDone \/ UserDone \/ Dies
        PROVE  UNCHANGED reader
    BY <1>2, LeftAlone DEF Publish, Enqueue, RegisterClient, UnregisterLock, ForgetClient,
                        TakeMessage, RoomDone, UserDone, connVars
  <1>3. ASSUME NEW c \in Clients,
               \/ OfferRoom(c) \/ OfferUser(c) \/ WriteFrame(c) \/ WriteStops(c) \/ PeerCloses(c)
        PROVE  UNCHANGED reader
    BY <1>3 DEF OfferRoom, OfferUser, WriteFrame, WriteStops, PeerCloses, connVars
  <1>4. ASSUME NEW c \in Clients,
               \/ JoinRoomLock(c) \/ JoinEnds(c) \/ LeaveStep(c) \/ ReadFails(c)
               \/ ReadJoin(c) \/ ReadLeave(c)
        PROVE  \A d \in Clients : Moves(d)
    <2>1. /\ reader[c] \in Reading
          /\ \E v \in Registered : reader' = [reader EXCEPT ![c] = v]
      <3> USE DEF Reading, Registered, Leaving
      <3>1. CASE JoinRoomLock(c) \/ JoinEnds(c) \/ ReadFails(c) \/ ReadJoin(c) \/ ReadLeave(c)
        BY <3>1 DEF JoinRoomLock, JoinEnds, JoinRoom, JoinPanics, ReadFails, ReadJoin, ReadLeave
      <3>2. CASE LeaveStep(c)
        BY <3>2 DEF LeaveStep, LeaveNoRoom, LeaveRoom, CountRoom, DropRoom, Returns
      <3> QED BY <1>4, <3>1, <3>2
    <2>2. ~TakeRegister(c)
      BY <2>1 DEF TakeRegister, Reading, Leaving
    <2> QED BY <2>1, <2>2, OneMoves
  <1>5. ASSUME NEW c \in Clients, Connect(c) PROVE \A d \in Clients : Moves(d)
    <2>1. reader[c] = "off" /\ reader' = [reader EXCEPT ![c] = "registering"] /\ ~TakeRegister(c)
      BY <1>5 DEF Connect, TakeRegister
    <2> QED BY <2>1, OneMoves
  <1>6. ASSUME NEW c \in Clients, TakeRegister(c) PROVE \A d \in Clients : Moves(d)
    <2>1. /\ reader[c] = "registering" /\ reader' = [reader EXCEPT ![c] = "reading"]
          /\ "reading" \in Reading
      BY <1>6 DEF TakeRegister, Reading
    <2> QED BY <1>6, <2>1, OneMoves
  <1>7. ASSUME NEW c \in Clients, TakeUnregister(c) PROVE \A d \in Clients : Moves(d)
    <2>1. /\ reader[c] = "unregistering" /\ reader' = [reader EXCEPT ![c] = "done"]
          /\ ~TakeRegister(c)
      BY <1>7 DEF TakeUnregister, TakeRegister
    <2> QED BY <1>7, <2>1, OneMoves
  <1> QED BY Actions, <1>1, <1>2, <1>3, <1>4, <1>5, <1>6, <1>7

\* The hub stays where it is unless a hub action says otherwise.
LEMMA HubStays ==
    ASSUME Publish \/ Enqueue \/ Dies
           \/ \E c \in Clients :
                 \/ JoinRoomLock(c) \/ JoinEnds(c) \/ LeaveStep(c) \/ ReadFails(c)
                 \/ WriteFrame(c) \/ WriteStops(c)
                 \/ Connect(c) \/ ReadJoin(c) \/ ReadLeave(c) \/ PeerCloses(c)
    PROVE  UNCHANGED <<hub, clients>>
  <1>1. CASE Publish \/ Enqueue \/ Dies
    BY <1>1, LeftAlone DEF Publish, Enqueue, roomVars
  <1>2. ASSUME NEW c \in Clients,
               \/ JoinRoomLock(c) \/ JoinEnds(c) \/ LeaveStep(c) \/ ReadFails(c)
               \/ WriteFrame(c) \/ WriteStops(c)
               \/ Connect(c) \/ ReadJoin(c) \/ ReadLeave(c) \/ PeerCloses(c)
        PROVE  UNCHANGED <<hub, clients>>
    BY <1>2, LeftAlone DEF JoinRoomLock, ReadFails, WriteFrame, WriteStops, Connect, ReadJoin,
                        ReadLeave, PeerCloses, roomVars
  <1> QED BY <1>1, <1>2

\* The hub works on a connection of the state its place tells.
LEMMA PlacesStep == ASSUME Shape, Places, Next PROVE Places'
  <1>1. \A c \in Clients : Moves(c)
    BY ReadersMove
  <1>2. /\ hub \in HubState /\ None \notin Clients
        /\ clients \in [Users -> SUBSET Clients] /\ UserOf \in [Clients -> Users]
    BY HubFields, NoneAssumption, UserOfAssumption DEF Shape, TypeOK
  <1>3. ASSUME UNCHANGED <<hub, clients>>, \A c \in Clients : ~TakeUnregister(c) PROVE Places'
    BY <1>1, <1>3 DEF Places, Moves, Registered
  <1>4. ASSUME hub.at # "select" PROVE \A c \in Clients : ~TakeUnregister(c)
    BY <1>4 DEF TakeUnregister
  <1>5. ASSUME UNCHANGED <<hub, clients>> PROVE Places'
    <2>1. ASSUME NEW c \in Clients, TakeUnregister(c) PROVE FALSE
      <3>1. hub'.at = "unregister" /\ hub.at = "select"
        BY <2>1, HubFields DEF At, TakeUnregister
      <3> QED BY <3>1, <1>5
    <2> QED BY <1>3, <1>5, <2>1
  <1>6. ASSUME hub' = Idle, \A u \in Users : \A c \in clients'[u] : UserOf[c] = u PROVE Places'
    BY <1>6, HubFields DEF Places
  <1>7. CASE RegisterClient
    <2>1. hub.client \in Clients
      BY <1>7 DEF RegisterClient, Places
    <2>2. clients' = [clients EXCEPT ![UserOf[hub.client]] = @ \cup {hub.client}]
      BY <1>7 DEF RegisterClient
    <2>3. \A u \in Users : \A c \in clients'[u] : UserOf[c] = u
      BY <1>2, <2>1, <2>2 DEF Places
    <2> QED BY <1>6, <1>7, <2>3, HubFields
  <1>8. CASE ForgetClient
    <2>1. clients' = [clients EXCEPT ![UserOf[hub.client]] = @ \ {hub.client}]
      BY <1>8 DEF ForgetClient
    <2>2. \A u \in Users : \A c \in clients'[u] : UserOf[c] = u
      BY <1>2, <2>1 DEF Places
    <2> QED BY <1>6, <1>8, <2>2, HubFields
  <1>9. CASE UserDone
    <2>1. UNCHANGED clients
      BY <1>9 DEF UserDone, roomVars
    <2> QED BY <1>6, <1>9, <2>1, HubFields DEF Places
  <1>10. CASE UnregisterLock
    <2>1. /\ hub'.at = "forget" /\ hub'.client = hub.client /\ hub.at = "unregister"
          /\ UNCHANGED <<clients, reader>>
      BY <1>10, HubFields DEF At, UnregisterLock, roomVars, connVars
    <2> QED BY <2>1 DEF Places
  <1>11. CASE TakeMessage
    <2>1. /\ hub'.at = "room" /\ hub'.client = None /\ hub'.msg = {Head(broadcast)}
          /\ Head(broadcast) \in Message /\ UNCHANGED clients
      BY <1>11, HubFields DEF At, TakeMessage, roomVars
    <2> QED BY <2>1 DEF Places
  <1>12. CASE RoomDone
    <2>1. /\ hub'.at = "user" /\ hub'.client = hub.client /\ hub'.msg = hub.msg
          /\ hub.at = "room" /\ UNCHANGED clients
      BY <1>12, HubFields DEF At, RoomDone, roomVars
    <2> QED BY <2>1 DEF Places
  <1>13. ASSUME NEW c \in Clients, OfferRoom(c) \/ OfferUser(c) PROVE Places'
    <2>1. /\ hub'.at = hub.at /\ hub'.client = hub.client /\ hub'.msg = hub.msg
          /\ hub.at \in {"room", "user"}
      BY <1>13, HubFields DEF At, OfferRoom, OfferUser
    <2>2. \A u \in Users : clients'[u] \subseteq clients[u]
      <3>1. CASE UNCHANGED clients
        BY <3>1
      <3>2. CASE ~UNCHANGED clients
        <4>1. \E m \in hub.msg :
                 clients' = [clients EXCEPT ![m.user] = IF Overflows(c) THEN @ \ {c} ELSE @]
          BY <1>13, <3>2 DEF OfferRoom, OfferUser
        <4> QED BY <4>1, <1>2
      <3> QED BY <3>1, <3>2
    <2> QED BY <2>1, <2>2 DEF Places
  <1>14. ASSUME NEW c \in Clients, TakeRegister(c) PROVE Places'
    <2>1. /\ hub'.at = "register" /\ hub'.client = c /\ UNCHANGED clients
          /\ reader' = [reader EXCEPT ![c] = "reading"]
      BY <1>14, HubFields DEF At, TakeRegister, roomVars
    <2>2. reader'[c] \in Registered
      BY <2>1 DEF Shape, TypeOK, Registered, Reading
    <2> QED BY <2>1, <2>2 DEF Places
  <1>15. ASSUME NEW c \in Clients, TakeUnregister(c) PROVE Places'
    <2>1. /\ hub'.at = "unregister" /\ hub'.client = c /\ UNCHANGED clients
          /\ reader' = [reader EXCEPT ![c] = "done"]
      BY <1>15, HubFields DEF At, TakeUnregister, roomVars
    <2>2. reader'[c] = "done"
      BY <2>1 DEF Shape, TypeOK
    <2> QED BY <2>1, <2>2 DEF Places
  <1> QED BY Actions, HubStays, <1>5, <1>7, <1>8, <1>9, <1>10, <1>11, <1>12, <1>13, <1>14, <1>15

-----------------------------------------------------------------------------
(* Types, step by step *)

\* Every action keeps the types and the capacities.
LEMMA ShapeStep == ASSUME Shape, Places, Next PROVE Shape'
  <1> USE DEF roomVars, connVars, histVars
  <1>0. Shape /\ TypeOK /\ hub \in HubState
    BY HubFields DEF Shape
  <1>c. cause' \subseteq {"overflow", "race"}
    BY CauseGrows
  <1>1. CASE Publish
    <2>1. pending' \in 0..MaxMessages /\ pending' + published' <= MaxMessages
      BY <1>0, <1>1, CapacityAssumption DEF Publish, Shape, TypeOK
    <2> QED BY <1>0, <1>1, <2>1 DEF Publish, Shape, TypeOK
  <1>2. CASE Enqueue
    <2>1. PICK t \in Tasks, u \in Users :
             broadcast' = Append(broadcast, [no |-> published + 1, task |-> t, user |-> u,
                                             due |-> Connected(u)])
      BY <1>2 DEF Enqueue
    <2>2. /\ published + 1 \in 1..MaxMessages /\ pending' \in 0..MaxMessages
          /\ pending' + published' <= MaxMessages /\ published' = published + 1
      <3>1. /\ pending \in 0..MaxMessages /\ published \in 0..MaxMessages /\ MaxMessages \in Nat
            /\ pending + published <= MaxMessages /\ pending > 0
            /\ published' = published + 1 /\ pending' = pending - 1
        BY <1>0, <1>2, CapacityAssumption DEF Enqueue, Shape, TypeOK
      <3> QED BY <3>1
    <2>3. [no |-> published + 1, task |-> t, user |-> u, due |-> Connected(u)] \in Message
      BY <2>2 DEF Message, Connected
    <2>4. broadcast' \in Seq(Message) /\ Len(broadcast') = Len(broadcast) + 1
      BY <1>0, <2>1, <2>3, AppendProperties DEF TypeOK
    <2>5. Len(broadcast') <= BroadcastCap
      <3>1. Len(broadcast) \in Nat /\ Len(broadcast) < BroadcastCap /\ BroadcastCap \in Nat
        BY <1>0, <1>2, LenProperties, CapacityAssumption DEF Enqueue, TypeOK
      <3> QED BY <3>1, <2>4
    <2>6. published' \in 0..MaxMessages
      BY <2>2, CapacityAssumption
    <2> QED BY <1>0, <1>2, <2>2, <2>4, <2>5, <2>6 DEF Enqueue, Shape, TypeOK
  <1>3. CASE RegisterClient
    <2>1. hub' \in HubState
      BY <1>3, HubFields
    <2>2. clients' \in [Users -> SUBSET Clients]
      <3>1. hub.client \in Clients /\ clients \in [Users -> SUBSET Clients]
        BY <1>0, <1>3 DEF RegisterClient, Places, TypeOK
      <3>2. clients' = [clients EXCEPT ![UserOf[hub.client]] = @ \cup {hub.client}]
        BY <1>3 DEF RegisterClient
      <3> QED BY <3>1, <3>2
    <2> QED BY <1>0, <1>3, <2>1, <2>2 DEF RegisterClient, Shape, TypeOK, HubState
  <1>4. CASE UnregisterLock
    <2>1. hub' \in HubState
      BY <1>4, HubFields
    <2> QED BY <1>0, <1>c, <1>4, <2>1 DEF UnregisterLock, Shape, TypeOK, HubState
  <1>5. CASE ForgetClient
    <2>1. hub' \in HubState
      BY <1>5, HubFields
    <2>2. hub.client \in Clients
      BY <1>5 DEF ForgetClient, Places
    <2>3. closed' \in [Clients -> BOOLEAN] /\ panicked' \in BOOLEAN
      BY <1>0, <1>5, <2>2 DEF ForgetClient, TypeOK
    <2>4. /\ clients' \in [Users -> SUBSET Clients] /\ rooms' \in [Tasks -> SUBSET Clients]
          /\ joined' \in [Clients -> SUBSET Tasks] /\ present' \subseteq Tasks
      BY <1>0, <1>5 DEF ForgetClient, TypeOK
    <2> QED BY <1>0, <1>5, <2>1, <2>3, <2>4 DEF ForgetClient, Shape, TypeOK, HubState
  <1>6. CASE TakeMessage
    <2>1. hub' \in HubState
      BY <1>6, HubFields
    <2>2. broadcast' \in Seq(Message) /\ Len(broadcast') = Len(broadcast) - 1
      BY <1>0, <1>6, HeadTailProperties DEF TakeMessage, TypeOK
    <2>3. Len(broadcast') <= BroadcastCap
      <3>1. Len(broadcast) \in Nat /\ Len(broadcast) <= BroadcastCap /\ BroadcastCap \in Nat
        BY <1>0, LenProperties, CapacityAssumption DEF TypeOK
      <3> QED BY <3>1, <2>2
    <2> QED BY <1>0, <1>c, <1>6, <2>1, <2>2, <2>3 DEF TakeMessage, Shape, TypeOK, HubState
  <1>7. CASE RoomDone
    <2>1. hub' \in HubState
      BY <1>7, HubFields
    <2> QED BY <1>0, <1>7, <2>1 DEF RoomDone, Shape, TypeOK, HubState
  <1>8. CASE UserDone
    <2>1. hub' \in HubState
      BY <1>8, HubFields
    <2>2. handled' \subseteq Message
      BY <1>0, <1>8 DEF UserDone, TypeOK, HubState
    <2> QED BY <1>0, <1>8, <2>1, <2>2 DEF UserDone, Shape, TypeOK, HubState
  <1>9. CASE Dies
    BY <1>0, <1>9, LeftAlone DEF Shape, TypeOK
  <1>10. ASSUME NEW c \in Clients, TakeRegister(c) PROVE Shape'
    <2>1. hub' \in HubState
      BY <1>10, HubFields
    <2>2. /\ reader' = [reader EXCEPT ![c] = "reading"] /\ writer' = [writer EXCEPT ![c] = "on"]
          /\ UNCHANGED <<clients, present, rooms, joined, send, closed, broadcast, mu, room,
                         conn, doomed, pending, panicked, published, handled, got, cause,
                         crossed>>
      BY <1>10 DEF TakeRegister
    <2> QED BY <1>0, <2>1, <2>2 DEF Shape, TypeOK, HubState, Leaving
  <1>11. ASSUME NEW c \in Clients, TakeUnregister(c) PROVE Shape'
    <2>1. hub' \in HubState
      BY <1>11, HubFields
    <2>2. /\ reader' = [reader EXCEPT ![c] = "done"] /\ conn' = [conn EXCEPT ![c] = "closed"]
          /\ UNCHANGED <<clients, present, rooms, joined, send, closed, broadcast, mu, room,
                         writer, doomed, pending, panicked, published, handled, got, cause,
                         crossed>>
      BY <1>11 DEF TakeUnregister
    <2> QED BY <1>0, <2>1, <2>2 DEF Shape, TypeOK, HubState, Leaving
  <1>12. ASSUME NEW c \in Clients, OfferRoom(c) \/ OfferUser(c) PROVE Shape'
    <2>1. hub' \in HubState
      BY <1>12, HubFields
    <2>2. PICK m \in hub.msg : /\ Offer(c, m)
                               /\ \/ /\ rooms' = [rooms EXCEPT ![m.task] =
                                                     IF Overflows(c) THEN @ \ {c} ELSE @]
                                     /\ UNCHANGED clients
                                  \/ /\ clients' = [clients EXCEPT ![m.user] =
                                                       IF Overflows(c) THEN @ \ {c} ELSE @]
                                     /\ UNCHANGED rooms
      BY <1>12 DEF OfferRoom, OfferUser
    <2>3. m \in Message
      BY <1>0, <2>2 DEF HubState
    <2>4. /\ \A d \in Clients : send'[d] \in Seq(1..MaxMessages) /\ Len(send'[d]) <= SendCap
          /\ DOMAIN send' = Clients
          /\ closed' \in [Clients -> BOOLEAN] /\ panicked' \in BOOLEAN
          /\ cause' \subseteq {"overflow", "race"}
      BY <2>2, <2>3, OfferTypes
    <2>5. rooms' \in [Tasks -> SUBSET Clients] /\ clients' \in [Users -> SUBSET Clients]
      <3>1. clients \in [Users -> SUBSET Clients] /\ rooms \in [Tasks -> SUBSET Clients]
        BY <1>0 DEF TypeOK
      <3>2. CASE /\ rooms' = [rooms EXCEPT ![m.task] = IF Overflows(c) THEN @ \ {c} ELSE @]
                 /\ UNCHANGED clients
        BY <3>1, <3>2
      <3>3. CASE /\ clients' = [clients EXCEPT ![m.user] = IF Overflows(c) THEN @ \ {c} ELSE @]
                 /\ UNCHANGED rooms
        BY <3>1, <3>3
      <3> QED BY <2>2, <3>2, <3>3
    <2>6. UNCHANGED <<present, joined, broadcast, mu, reader, room, writer, conn, doomed,
                      pending, published, handled, got, crossed>>
      BY <1>12 DEF OfferRoom, OfferUser
    <2> QED BY <1>0, <2>1, <2>4, <2>5, <2>6 DEF Shape, TypeOK, HubState
  <1>13. ASSUME NEW c \in Clients,
                Connect(c) \/ ReadJoin(c) \/ JoinRoomLock(c) \/ ReadLeave(c) \/ PeerCloses(c)
                \/ ReadFails(c) \/ WriteStops(c)
         PROVE  Shape'
    <2>1. CASE Connect(c)
      BY <1>0, <2>1 DEF Connect, Shape, TypeOK, Leaving
    <2>2. CASE ReadJoin(c)
      BY <1>0, <2>2 DEF ReadJoin, Shape, TypeOK
    <2>3. CASE JoinRoomLock(c)
      <3>1. room[c] \in Tasks
        BY <1>0, <2>3 DEF JoinRoomLock, Shape
      <3>2. present' \subseteq Tasks /\ crossed' \subseteq Tasks
        BY <1>0, <2>3, <3>1 DEF JoinRoomLock, TypeOK
      <3> QED BY <1>0, <1>c, <2>3, <3>1, <3>2 DEF JoinRoomLock, Shape, TypeOK
    <2>4. CASE ReadLeave(c)
      <3>1. PICK t \in Tasks : /\ room' = [room EXCEPT ![c] = t]
                               /\ crossed' = crossed \/ crossed' = crossed \cup {t}
        BY <2>4 DEF ReadLeave
      <3>2. crossed' \subseteq Tasks
        BY <1>0, <3>1 DEF TypeOK
      <3>3. /\ reader' = [reader EXCEPT ![c] = "leaving"]
            /\ UNCHANGED <<clients, present, rooms, joined, send, closed, broadcast, mu, hub,
                           writer, conn, doomed, pending, panicked, published, handled, got>>
        BY <2>4 DEF ReadLeave
      <3> QED BY <1>0, <1>c, <3>1, <3>2, <3>3 DEF Shape, TypeOK, Leaving
    <2>5. CASE PeerCloses(c)
      BY <1>0, <2>5 DEF PeerCloses, Shape, TypeOK
    <2>6. CASE ReadFails(c)
      BY <1>0, <2>6 DEF ReadFails, Shape, TypeOK, Leaving
    <2>7. CASE WriteStops(c)
      BY <1>0, <2>7 DEF WriteStops, Shape, TypeOK
    <2> QED BY <1>13, <2>1, <2>2, <2>3, <2>4, <2>5, <2>6, <2>7
  <1>14. ASSUME NEW c \in Clients, JoinEnds(c) PROVE Shape'
    <2>1. room[c] \in Tasks
      BY <1>0, <1>14 DEF JoinEnds, JoinRoom, JoinPanics, Shape
    <2>2. PICK v \in {"reading", "unregistering"} :
             reader' = [reader EXCEPT ![c] = v] /\ room' = [room EXCEPT ![c] = None]
      BY <1>14 DEF JoinEnds, JoinRoom, JoinPanics
    <2>3. /\ rooms' \in [Tasks -> SUBSET Clients] /\ joined' \in [Clients -> SUBSET Tasks]
          /\ doomed' \subseteq Clients
      <3>1. CASE JoinRoom(c)
        BY <1>0, <2>1, <3>1 DEF JoinRoom, TypeOK
      <3>2. CASE JoinPanics(c)
        BY <1>0, <3>2 DEF JoinPanics, TypeOK, roomVars
      <3> QED BY <1>14, <3>1, <3>2 DEF JoinEnds
    <2> QED BY <1>0, <1>14, <2>2, <2>3, LeftAlone DEF Shape, TypeOK, Leaving
  <1>15. ASSUME NEW c \in Clients, LeaveStep(c) PROVE Shape'
    <2>1. room[c] \in Tasks
      BY <1>0, <1>15 DEF LeaveStep, LeaveNoRoom, LeaveRoom, CountRoom, DropRoom, Leaving, Shape
    <2>2. \/ Returns(c)
          \/ /\ UNCHANGED room
             /\ \E v \in Leaving : reader' = [reader EXCEPT ![c] = v]
      BY <1>15 DEF LeaveStep, LeaveNoRoom, LeaveRoom, CountRoom, DropRoom, Leaving
    <2>3. /\ rooms' \in [Tasks -> SUBSET Clients] /\ joined' \in [Clients -> SUBSET Tasks]
          /\ present' \subseteq Tasks
      <3>0. /\ rooms \in [Tasks -> SUBSET Clients] /\ joined \in [Clients -> SUBSET Tasks]
            /\ present \subseteq Tasks
        BY <1>0 DEF TypeOK
      <3>1. CASE LeaveNoRoom(c) \/ LeaveRoom(c)
        <4>1. /\ UNCHANGED present /\ joined' = [joined EXCEPT ![c] = @ \ {room[c]}]
              /\ rooms' = rooms \/ rooms' = [rooms EXCEPT ![room[c]] = @ \ {c}]
          BY <3>1 DEF LeaveNoRoom, LeaveRoom
        <4> QED BY <3>0, <4>1
      <3>2. CASE CountRoom(c) \/ DropRoom(c)
        BY <1>0, <2>1, <3>2 DEF CountRoom, DropRoom, TypeOK, roomVars
      <3> QED BY <1>15, <3>1, <3>2 DEF LeaveStep
    <2>4. /\ reader' \in [Clients -> {"off", "registering", "reading", "join", "joining",
                                      "unregistering", "done"} \cup Leaving]
          /\ room' \in [Clients -> Tasks \cup {None}]
          /\ \A d \in Clients : reader'[d] \in {"join", "joining"} \cup Leaving => room'[d] \in Tasks
      <3>1. CASE Returns(c)
        BY <1>0, <3>1 DEF Returns, Leaving, Shape, TypeOK
      <3>2. CASE UNCHANGED room /\ \E v \in Leaving : reader' = [reader EXCEPT ![c] = v]
        <4>1. PICK v \in Leaving : reader' = [reader EXCEPT ![c] = v]
          BY <3>2
        <4> QED BY <1>0, <2>1, <3>2, <4>1 DEF Shape, TypeOK
      <3> QED BY <2>2, <3>1, <3>2
    <2> QED BY <1>0, <1>15, <2>3, <2>4, LeftAlone DEF Shape, TypeOK
  <1>16. ASSUME NEW c \in Clients, WriteFrame(c) PROVE Shape'
    <2>1. /\ send' = [send EXCEPT ![c] = Tail(@)]
          /\ got' = [got EXCEPT ![c] = Append(@, Head(send[c]))]
          /\ send[c] # <<>> /\ send[c] \in Seq(1..MaxMessages) /\ got[c] \in Seq(1..MaxMessages)
          /\ Len(send[c]) <= SendCap
          /\ DOMAIN send = Clients /\ DOMAIN got = Clients
      BY <1>0, <1>16 DEF WriteFrame, Shape, TypeOK
    <2>2. /\ Tail(send[c]) \in Seq(1..MaxMessages) /\ Len(Tail(send[c])) = Len(send[c]) - 1
          /\ Append(got[c], Head(send[c])) \in Seq(1..MaxMessages)
      BY <2>1, HeadTailProperties, AppendProperties
    <2>3. Len(Tail(send[c])) <= SendCap
      <3>1. Len(send[c]) \in Nat /\ SendCap \in Nat
        BY <2>1, LenProperties, CapacityAssumption
      <3> QED BY <3>1, <2>1, <2>2
    <2>4. /\ \A d \in Clients : /\ send'[d] \in Seq(1..MaxMessages) /\ Len(send'[d]) <= SendCap
                                /\ got'[d] \in Seq(1..MaxMessages)
          /\ DOMAIN send' = Clients /\ DOMAIN got' = Clients
      BY <1>0, <2>1, <2>2, <2>3 DEF TypeOK
    <2> QED BY <1>0, <1>16, <2>4 DEF WriteFrame, Shape, TypeOK
  <1> QED BY Actions, <1>1, <1>2, <1>3, <1>4, <1>5, <1>6, <1>7, <1>8, <1>9, <1>10, <1>11,
             <1>12, <1>13, <1>14, <1>15, <1>16

-----------------------------------------------------------------------------
(* The maps *)

\* What an offer of m to c does to the maps and the channels.
LEMMA OfferFacts ==
    ASSUME Shape, NEW c \in Clients, OfferRoom(c) \/ OfferUser(c)
    PROVE  /\ hub.at \in {"room", "user"} /\ c \in hub.todo
           /\ panicked' = closed[c]
           /\ cause' = IF Overflows(c) THEN cause \cup {"overflow"} ELSE cause
           /\ closed' = [closed EXCEPT ![c] = @ \/ Overflows(c)]
           /\ \A t \in Tasks : rooms'[t] \subseteq rooms[t]
           /\ \A t \in Tasks : \A d \in rooms[t] : d \in rooms'[t] \/ (d = c /\ Overflows(c))
           /\ \A u \in Users : clients'[u] \subseteq clients[u]
           /\ \A u \in Users : \A d \in clients[u] : d \in clients'[u] \/ (d = c /\ Overflows(c))
           /\ UNCHANGED <<present, joined, reader, room, doomed, crossed>>
  <1>1. /\ clients \in [Users -> SUBSET Clients] /\ rooms \in [Tasks -> SUBSET Clients]
    BY DEF Shape, TypeOK
  <1>2. CASE OfferRoom(c)
    <2>1. PICK m : rooms' = [rooms EXCEPT ![m.task] = IF Overflows(c) THEN @ \ {c} ELSE @]
      BY <1>2 DEF OfferRoom
    <2>2. \A t \in Tasks : /\ rooms'[t] \subseteq rooms[t]
                           /\ \A d \in rooms[t] : d \in rooms'[t] \/ (d = c /\ Overflows(c))
      BY <1>1, <2>1
    <2>3. UNCHANGED <<clients, present, joined, reader, room, doomed, crossed>>
      BY <1>2 DEF OfferRoom, connVars
    <2> QED BY <1>2, <2>2, <2>3 DEF OfferRoom, Offer
  <1>3. CASE OfferUser(c)
    <2>1. PICK m : clients' = [clients EXCEPT ![m.user] = IF Overflows(c) THEN @ \ {c} ELSE @]
      BY <1>3 DEF OfferUser
    <2>2. \A u \in Users : /\ clients'[u] \subseteq clients[u]
                           /\ \A d \in clients[u] : d \in clients'[u] \/ (d = c /\ Overflows(c))
      BY <1>1, <2>1
    <2>3. UNCHANGED <<present, rooms, joined, reader, room, doomed, crossed>>
      BY <1>3 DEF OfferUser, connVars
    <2> QED BY <1>3, <2>2, <2>3 DEF OfferUser, Offer
  <1> QED BY <1>2, <1>3

\* What most actions leave alone: the maps, the closed channels and the process.
Still == UNCHANGED <<clients, rooms, joined, closed, panicked>>

\* The actions that do.
LEMMA OthersStill ==
    ASSUME \/ Publish \/ Enqueue \/ UnregisterLock \/ TakeMessage \/ RoomDone \/ UserDone
           \/ \E c \in Clients :
                 \/ TakeRegister(c) \/ TakeUnregister(c) \/ JoinRoomLock(c) \/ ReadFails(c)
                 \/ WriteFrame(c) \/ WriteStops(c)
                 \/ Connect(c) \/ ReadJoin(c) \/ ReadLeave(c) \/ PeerCloses(c)
    PROVE  Still
  <1> USE DEF Still, roomVars, histVars
  <1>1. CASE Publish \/ Enqueue \/ UnregisterLock \/ TakeMessage \/ RoomDone \/ UserDone
    BY <1>1 DEF Publish, Enqueue, UnregisterLock, TakeMessage, RoomDone, UserDone
  <1>2. ASSUME NEW c \in Clients,
               \/ TakeRegister(c) \/ TakeUnregister(c) \/ JoinRoomLock(c) \/ ReadFails(c)
               \/ WriteFrame(c) \/ WriteStops(c)
               \/ Connect(c) \/ ReadJoin(c) \/ ReadLeave(c) \/ PeerCloses(c)
        PROVE  Still
    BY <1>2 DEF TakeRegister, TakeUnregister, JoinRoomLock, ReadFails, WriteFrame, WriteStops,
                Connect, ReadJoin, ReadLeave, PeerCloses
  <1> QED BY <1>1, <1>2

\* What LeaveRoom, without the lock, can do to a JoinRoom of the same room: only
\* when the two overlapped is the room gone when it is written to, or deleted
\* with somebody in it; and an overlap is a race.
Crossings ==
    /\ \A c, d \in Clients :
          reader[c] = "joining" /\ reader[d] \in Leaving /\ room[c] = room[d] => room[c] \in crossed
    /\ \A c \in Clients : reader[c] = "joining" => room[c] \in present \cup crossed
    /\ \A c \in Clients : reader[c] = "dropping" => rooms[room[c]] = {} \/ room[c] \in crossed
    /\ \A t \in Tasks : rooms[t] # {} => t \in present
    /\ crossed # {} => "race" \in cause
    /\ doomed # {} => "race" \in cause

\* What the steps of LeaveRoom do to the maps.
LEMMA LeaveSteps ==
    ASSUME Shape, NEW c \in Clients, LeaveStep(c)
    PROVE  /\ reader[c] \in Leaving /\ room[c] \in Tasks
           /\ \A d \in Clients \ {c} :
                 reader'[d] = reader[d] /\ room'[d] = room[d] /\ joined'[d] = joined[d]
           /\ \A t \in Tasks : rooms'[t] \subseteq rooms[t] /\ (t # room[c] => rooms'[t] = rooms[t])
           /\ \/ /\ room[c] \notin present /\ UNCHANGED <<present, rooms>>
                 /\ joined'[c] = joined[c] \ {room[c]} /\ reader'[c] = "reading"
              \/ /\ rooms'[room[c]] = rooms[room[c]] \ {c} /\ UNCHANGED present
                 /\ joined'[c] = joined[c] \ {room[c]}
                 /\ reader'[c] = "counting" /\ room'[c] = room[c]
              \/ /\ UNCHANGED <<present, rooms, joined>>
                 /\ \/ reader'[c] = "reading"
                    \/ reader'[c] = "dropping" /\ room'[c] = room[c] /\ rooms[room[c]] = {}
              \/ /\ reader[c] = "dropping" /\ reader'[c] = "reading"
                 /\ rooms'[room[c]] = {} /\ present' = present \ {room[c]} /\ UNCHANGED joined
           /\ UNCHANGED <<crossed, doomed, cause>>
  <1>1. /\ rooms \in [Tasks -> SUBSET Clients] /\ joined \in [Clients -> SUBSET Tasks]
        /\ DOMAIN reader = Clients /\ DOMAIN room = Clients
    BY DEF Shape, TypeOK
  <1>2. reader[c] \in Leaving /\ room[c] \in Tasks
    BY DEF LeaveStep, LeaveNoRoom, LeaveRoom, CountRoom, DropRoom, Leaving, Shape
  <1> USE <1>1, <1>2, LeftAlone DEF Returns, roomVars
  <1>3. CASE LeaveNoRoom(c)
    BY <1>3 DEF LeaveNoRoom
  <1>4. CASE LeaveRoom(c)
    BY <1>4 DEF LeaveRoom
  <1>5. CASE CountRoom(c)
    BY <1>5 DEF CountRoom
  <1>6. CASE DropRoom(c)
    BY <1>6 DEF DropRoom
  <1> QED BY <1>3, <1>4, <1>5, <1>6 DEF LeaveStep

\* What the end of JoinRoom does to them.
LEMMA JoinSteps ==
    ASSUME Shape, NEW c \in Clients, JoinEnds(c)
    PROVE  /\ reader[c] = "joining" /\ room[c] \in Tasks
           /\ \A d \in Clients \ {c} :
                 reader'[d] = reader[d] /\ room'[d] = room[d] /\ joined'[d] = joined[d]
           /\ \/ /\ room[c] \in present /\ reader'[c] = "reading"
                 /\ \A t \in Tasks : rooms'[t] = IF t = room[c] THEN rooms[t] \cup {c} ELSE rooms[t]
                 /\ joined'[c] = joined[c] \cup {room[c]} /\ UNCHANGED doomed
              \/ /\ room[c] \notin present /\ reader'[c] = "unregistering"
                 /\ UNCHANGED <<rooms, joined>> /\ doomed' = doomed \cup {c}
           /\ UNCHANGED <<present, crossed, cause>>
  <1>1. /\ rooms \in [Tasks -> SUBSET Clients] /\ joined \in [Clients -> SUBSET Tasks]
        /\ DOMAIN reader = Clients /\ DOMAIN room = Clients
    BY DEF Shape, TypeOK
  <1>2. reader[c] = "joining" /\ room[c] \in Tasks
    BY DEF JoinEnds, JoinRoom, JoinPanics, Shape
  <1>3. CASE JoinRoom(c)
    BY <1>1, <1>2, <1>3, LeftAlone DEF JoinRoom
  <1>4. CASE JoinPanics(c)
    BY <1>1, <1>2, <1>4, LeftAlone DEF JoinPanics, roomVars
  <1> QED BY <1>3, <1>4 DEF JoinEnds

\* A room and client.Rooms change together, but for an overflow, which takes
\* the connection out of the room, and for a room deleted under it.
LEMMA MembershipStep ==
    ASSUME Shape, Places, Crossings, MembershipAgrees, Next PROVE MembershipAgrees'
  <1>1. /\ rooms \in [Tasks -> SUBSET Clients] /\ joined \in [Clients -> SUBSET Tasks]
        /\ closed \in [Clients -> BOOLEAN]
        /\ crossed \subseteq crossed'
    BY CauseGrows DEF Shape, TypeOK
  <1> SUFFICES ASSUME NEW t \in Tasks, NEW c \in Clients
               PROVE  /\ c \in rooms'[t] => t \in joined'[c]
                      /\ t \in joined'[c] => c \in rooms'[t] \/ closed'[c] \/ t \in crossed'
    BY DEF MembershipAgrees
  <1>2. /\ c \in rooms[t] => t \in joined[c]
        /\ t \in joined[c] => c \in rooms[t] \/ closed[c] \/ t \in crossed
    BY DEF MembershipAgrees
  <1>3. CASE Still
    BY <1>1, <1>2, <1>3 DEF Still
  <1>4. CASE RegisterClient \/ Dies
    <2>1. UNCHANGED <<rooms, joined, closed>>
      BY <1>4, LeftAlone DEF RegisterClient
    <2> QED BY <1>1, <1>2, <2>1
  <1>5. CASE ForgetClient
    <2>1. /\ hub.client \in Clients
          /\ rooms' = [u \in Tasks |-> IF u \in joined[hub.client] THEN rooms[u] \ {hub.client}
                                                                  ELSE rooms[u]]
          /\ joined' = [joined EXCEPT ![hub.client] = {}]
          /\ closed' = [closed EXCEPT ![hub.client] = TRUE]
      BY <1>5 DEF ForgetClient, Places
    <2>2. CASE c = hub.client
      <3>1. c \notin rooms'[t] /\ closed'[c]
        BY <1>1, <1>2, <2>1, <2>2
      <3>2. t \notin joined'[c]
        BY <1>1, <2>1, <2>2
      <3> QED BY <3>1, <3>2
    <2>3. CASE c # hub.client
      <3>1. /\ c \in rooms'[t] <=> c \in rooms[t]
            /\ joined'[c] = joined[c] /\ closed'[c] = closed[c]
        BY <1>1, <2>1, <2>3
      <3> QED BY <1>1, <1>2, <3>1
    <2> QED BY <2>2, <2>3
  <1>6. ASSUME NEW d \in Clients, OfferRoom(d) \/ OfferUser(d)
        PROVE  /\ c \in rooms'[t] => t \in joined'[c]
               /\ t \in joined'[c] => c \in rooms'[t] \/ closed'[c] \/ t \in crossed'
    <2>1. /\ rooms'[t] \subseteq rooms[t] /\ UNCHANGED joined
          /\ c \in rooms[t] => c \in rooms'[t] \/ (c = d /\ Overflows(d))
          /\ closed' = [closed EXCEPT ![d] = @ \/ Overflows(d)]
      BY <1>6, OfferFacts
    <2>2. closed'[c] = IF c = d THEN closed[c] \/ Overflows(d) ELSE closed[c]
      BY <1>1, <2>1
    <2> QED BY <1>1, <1>2, <2>1, <2>2
  <1>7. ASSUME NEW d \in Clients, JoinEnds(d)
        PROVE  /\ c \in rooms'[t] => t \in joined'[c]
               /\ t \in joined'[c] => c \in rooms'[t] \/ closed'[c] \/ t \in crossed'
    <2>1. UNCHANGED closed
      BY <1>7, LeftAlone
    <2>2. CASE rooms' = rooms /\ joined' = joined
      BY <1>1, <1>2, <2>1, <2>2
    <2>3. CASE /\ \A u \in Tasks : rooms'[u] = IF u = room[d] THEN rooms[u] \cup {d} ELSE rooms[u]
               /\ joined'[d] = joined[d] \cup {room[d]}
      <3>1. c # d => joined'[c] = joined[c]
        BY <1>7, JoinSteps
      <3> QED BY <1>1, <1>2, <2>1, <2>3, <3>1
    <2> QED BY <1>7, <2>2, <2>3, JoinSteps
  <1>8. ASSUME NEW d \in Clients, LeaveStep(d)
        PROVE  /\ c \in rooms'[t] => t \in joined'[c]
               /\ t \in joined'[c] => c \in rooms'[t] \/ closed'[c] \/ t \in crossed'
    <2>1. UNCHANGED closed
      BY <1>8, LeftAlone
    <2>2. CASE t # room[d]
      <3>1. rooms'[t] = rooms[t] /\ (t \in joined'[c] <=> t \in joined[c])
        BY <1>8, <2>2, LeaveSteps
      <3> QED BY <1>1, <1>2, <2>1, <3>1
    <2>3. CASE t = room[d]
      <3>1. c # d => joined'[c] = joined[c]
        BY <1>8, LeaveSteps
      <3>2. CASE room[d] \notin present /\ rooms' = rooms /\ joined'[d] = joined[d] \ {room[d]}
        <4>1. rooms[t] = {}
          BY <2>3, <3>2 DEF Crossings
        <4> QED BY <1>1, <1>2, <2>1, <2>3, <3>1, <3>2, <4>1
      <3>3. CASE rooms'[room[d]] = rooms[room[d]] \ {d} /\ joined'[d] = joined[d] \ {room[d]}
        BY <1>1, <1>2, <2>1, <2>3, <3>1, <3>3
      <3>4. CASE rooms' = rooms /\ joined' = joined
        BY <1>1, <1>2, <2>1, <3>4
      <3>5. CASE reader[d] = "dropping" /\ rooms'[room[d]] = {} /\ joined' = joined
        <4>1. rooms[t] = {} \/ t \in crossed
          BY <2>3, <3>5 DEF Crossings
        <4> QED BY <1>1, <1>2, <2>1, <2>3, <3>5, <4>1
      <3> QED BY <1>8, <3>2, <3>3, <3>4, <3>5, LeaveSteps
    <2> QED BY <2>2, <2>3
  <1> QED BY Actions, OthersStill, <1>3, <1>4, <1>5, <1>6, <1>7, <1>8

\* What a step adds to the maps, and that channels stay closed.
LEMMA MapsGrow ==
    ASSUME Shape, Places, Next, NEW d \in Clients
    PROVE  /\ closed[d] => closed'[d]
           /\ \A u \in Users : d \in clients'[u] => d \in clients[u] \/ d = hub.client
           /\ \A t \in Tasks : d \in rooms'[t] => d \in rooms[t] \/ reader[d] = "joining"
  <1>1. /\ rooms \in [Tasks -> SUBSET Clients] /\ clients \in [Users -> SUBSET Clients]
        /\ closed \in [Clients -> BOOLEAN]
    BY DEF Shape, TypeOK
  <1>2. CASE Still
    BY <1>2 DEF Still
  <1>3. CASE RegisterClient
    <2>1. /\ clients' = [clients EXCEPT ![UserOf[hub.client]] = @ \cup {hub.client}]
          /\ UNCHANGED <<rooms, closed>>
      BY <1>3 DEF RegisterClient
    <2> QED BY <1>1, <2>1
  <1>4. CASE Dies
    BY <1>4, LeftAlone DEF roomVars
  <1>5. CASE ForgetClient
    <2>1. /\ clients' = [clients EXCEPT ![UserOf[hub.client]] = @ \ {hub.client}]
          /\ rooms' = [t \in Tasks |-> IF t \in joined[hub.client] THEN rooms[t] \ {hub.client}
                                                                  ELSE rooms[t]]
          /\ closed' = [closed EXCEPT ![hub.client] = TRUE]
      BY <1>5 DEF ForgetClient
    <2>2. \A u \in Users : d \in clients'[u] => d \in clients[u]
      BY <1>1, <2>1
    <2>3. \A t \in Tasks : d \in rooms'[t] => d \in rooms[t]
      BY <1>1, <2>1
    <2> QED BY <1>1, <2>1, <2>2, <2>3
  <1>6. ASSUME NEW c \in Clients, OfferRoom(c) \/ OfferUser(c)
        PROVE  /\ closed[d] => closed'[d]
               /\ \A u \in Users : d \in clients'[u] => d \in clients[u]
               /\ \A t \in Tasks : d \in rooms'[t] => d \in rooms[t]
    <2>1. /\ closed' = [closed EXCEPT ![c] = @ \/ Overflows(c)]
          /\ \A t \in Tasks : rooms'[t] \subseteq rooms[t]
          /\ \A u \in Users : clients'[u] \subseteq clients[u]
      BY <1>6, OfferFacts
    <2>2. closed'[d] = IF d = c THEN closed[d] \/ Overflows(c) ELSE closed[d]
      BY <1>1, <2>1
    <2> QED BY <2>1, <2>2
  <1>7. ASSUME NEW c \in Clients, JoinEnds(c)
        PROVE  /\ UNCHANGED <<clients, closed>>
               /\ \A t \in Tasks : d \in rooms'[t] => d \in rooms[t] \/ reader[d] = "joining"
    <2>1. UNCHANGED <<clients, closed>>
      BY <1>7, LeftAlone
    <2>2. reader[c] = "joining"
      BY <1>7, JoinSteps
    <2>3. CASE rooms' = rooms
      BY <2>1, <2>3
    <2>4. CASE \A t \in Tasks : rooms'[t] = IF t = room[c] THEN rooms[t] \cup {c} ELSE rooms[t]
      BY <2>1, <2>2, <2>4
    <2> QED BY <1>7, <2>3, <2>4, JoinSteps
  <1>8. ASSUME NEW c \in Clients, LeaveStep(c)
        PROVE  /\ UNCHANGED <<clients, closed>>
               /\ \A t \in Tasks : d \in rooms'[t] => d \in rooms[t]
    BY <1>8, LeaveSteps, LeftAlone
  <1> QED BY Actions, OthersStill, <1>2, <1>3, <1>4, <1>5, <1>6, <1>7, <1>8

\* The hub turns to another connection only between two of them.
LEMMA HubTurns ==
    ASSUME Shape, Places, Next, NEW d \in Clients, hub.client = d, hub'.client # d,
           reader[d] = "done"
    PROVE  ForgetClient
  <1>1. hub.at \in {"unregister", "forget"}
    <2>1. hub.at \in {"select", "register", "unregister", "forget", "room", "user"}
      BY HubFields DEF HubState
    <2> QED BY <2>1, NoneAssumption DEF Places, Registered, Reading, Leaving
  <1>2. ~RegisterClient /\ ~TakeMessage /\ ~RoomDone /\ ~UserDone
    BY <1>1 DEF RegisterClient, TakeMessage, RoomDone, UserDone
  <1>3. \A c \in Clients : ~TakeRegister(c) /\ ~TakeUnregister(c) /\ ~OfferRoom(c) /\ ~OfferUser(c)
    BY <1>1 DEF TakeRegister, TakeUnregister, OfferRoom, OfferUser
  <1>4. ~UnregisterLock
    BY HubFields DEF At
  <1> QED BY <1>2, <1>3, <1>4, Actions, HubStays

\* Once the hub has forgotten a connection it is nowhere.
LEMMA GoneStep ==
    ASSUME Shape, Places, MembershipAgrees, GoneIsForgotten, Next PROVE GoneIsForgotten'
  <1> SUFFICES ASSUME NEW c \in Clients, reader'[c] = "done", hub'.client # c
               PROVE  /\ closed'[c]
                      /\ \A u \in Users : c \notin clients'[u]
                      /\ \A t \in Tasks : c \notin rooms'[t]
    BY DEF GoneIsForgotten
  <1>1. reader[c] = "done"
    <2>1. ~TakeUnregister(c)
      BY HubFields DEF At
    <2> QED BY <2>1, ReadersMove DEF Moves
  <1>2. CASE hub.client # c
    <2>1. /\ closed[c]
          /\ \A u \in Users : c \notin clients[u]
          /\ \A t \in Tasks : c \notin rooms[t]
      BY <1>1, <1>2 DEF GoneIsForgotten
    <2> QED BY <1>1, <1>2, <2>1, MapsGrow
  <1>3. CASE hub.client = c
    <2>1. ForgetClient
      BY <1>1, <1>3, HubTurns
    <2>2. /\ rooms \in [Tasks -> SUBSET Clients] /\ clients \in [Users -> SUBSET Clients]
          /\ closed \in [Clients -> BOOLEAN]
      BY DEF Shape, TypeOK
    <2>3. /\ clients' = [clients EXCEPT ![UserOf[c]] = @ \ {c}]
          /\ rooms' = [t \in Tasks |-> IF t \in joined[c] THEN rooms[t] \ {c} ELSE rooms[t]]
          /\ closed' = [closed EXCEPT ![c] = TRUE]
      BY <1>3, <2>1 DEF ForgetClient
    <2>4. \A u \in Users : c \notin clients'[u]
      BY <2>2, <2>3 DEF Places
    <2>5. \A t \in Tasks : c \notin rooms'[t]
      BY <2>2, <2>3 DEF MembershipAgrees
    <2> QED BY <2>2, <2>3, <2>4, <2>5
  <1> QED BY <1>2, <1>3

-----------------------------------------------------------------------------
(* What can kill the process *)

\* Before an overflow and a race, only connections the hub has forgotten are
\* closed, and none of them is left to offer a message to.
Killers ==
    /\ panicked => cause # {}
    /\ cause = {} => \A c \in Clients : closed[c] => reader[c] = "done" /\ hub.client # c
    /\ cause = {} /\ hub.at \in {"room", "user"} => \A c \in hub.todo : ~closed[c]

\* Two goroutines are seen together in sections on the room maps only after one
\* of them entered while the other was inside.
Overlaps == \A x, y \in InRooms : x # y => "race" \in cause

\* What the runtime may notice was an overlap.
LEMMA RacePair == ASSUME Overlaps, Cardinality(InRooms) > 1 PROVE "race" \in cause
  <1>1. SUFFICES ASSUME "race" \notin cause PROVE FALSE
    OBVIOUS
  <1>2. PICK x : InRooms \subseteq {x}
    BY <1>1 DEF Overlaps
  <1>3. IsFiniteSet({x}) /\ Cardinality({x}) = 1
    BY FS_Singleton
  <1>4. Cardinality(InRooms) <= 1 /\ Cardinality(InRooms) \in Nat
    BY <1>2, <1>3, FS_Subset, FS_CardinalityType
  <1> QED BY <1>4

\* A channel is closed, and a frame offered, by the hub goroutine alone.
LEMMA KillersStep ==
    ASSUME Shape, Places, GoneIsForgotten, Crossings, Overlaps, Killers, Next
    PROVE  Killers'
  <1>1. /\ ~panicked /\ hub \in HubState
        /\ rooms \in [Tasks -> SUBSET Clients] /\ clients \in [Users -> SUBSET Clients]
        /\ closed \in [Clients -> BOOLEAN]
        /\ \A c \in Clients : Moves(c)
        /\ cause \subseteq cause'
    BY HubFields, ReadersMove, CauseGrows DEF Next, Shape, TypeOK
  <1>2. ASSUME cause = {}, NEW c \in Clients, closed[c]
        PROVE  /\ reader[c] = "done" /\ reader'[c] = "done" /\ hub.client # c
               /\ \A u \in Users : c \notin clients[u]
               /\ \A t \in Tasks : c \notin rooms[t]
    BY <1>1, <1>2 DEF Killers, GoneIsForgotten, Moves
  \* Where the hub goroutine may go while nothing happens to the channels.
  <1>3. ASSUME UNCHANGED <<closed, panicked>>,
               \A c \in Clients : reader[c] = "done" => hub.client = c \/ hub'.client # c,
               hub'.at \in {"room", "user"} =>
                  hub'.todo \subseteq Clients /\ \A c \in hub'.todo : cause = {} => ~closed[c]
        PROVE  Killers'
    BY <1>1, <1>2, <1>3 DEF Killers
  <1>4. CASE UNCHANGED <<hub, closed, panicked>>
    BY <1>1, <1>3, <1>4 DEF Killers, HubState
  <1>5. CASE RegisterClient \/ UserDone
    <2>1. UNCHANGED <<closed, panicked>> /\ hub' = Idle
      BY <1>5 DEF RegisterClient, UserDone, histVars
    <2> QED BY <1>3, <2>1, HubFields, NoneAssumption
  <1>6. CASE UnregisterLock
    <2>1. UNCHANGED <<closed, panicked>>
      BY <1>6 DEF UnregisterLock, histVars
    <2>2. hub'.at = "forget" /\ hub'.client = hub.client
      BY <1>6, HubFields DEF At
    <2> QED BY <1>3, <2>1, <2>2
  <1>7. CASE TakeMessage
    <2>1. UNCHANGED <<closed, panicked>>
      BY <1>7 DEF TakeMessage, histVars
    <2>2. /\ hub'.client = None /\ hub'.todo = rooms[Head(broadcast).task]
          /\ Head(broadcast).task \in Tasks
      BY <1>7, HubFields DEF At, Message
    <2>3. hub'.todo \subseteq Clients /\ \A c \in hub'.todo : cause = {} => ~closed[c]
      BY <1>1, <1>2, <2>2
    <2> QED BY <1>3, <2>1, <2>2, <2>3, NoneAssumption
  <1>8. CASE RoomDone
    <2>1. UNCHANGED <<closed, panicked>>
      BY <1>8 DEF RoomDone, histVars
    <2>2. PICK m \in hub.msg : hub'.client = hub.client /\ hub'.todo = clients[m.user]
      BY <1>8, HubFields DEF At
    <2>3. m.user \in Users
      BY <1>1, <2>2 DEF HubState, Message
    <2>4. hub'.todo \subseteq Clients /\ \A c \in hub'.todo : cause = {} => ~closed[c]
      BY <1>1, <1>2, <2>2, <2>3
    <2> QED BY <1>3, <2>1, <2>2, <2>4
  <1>9. ASSUME NEW c \in Clients, TakeRegister(c) \/ TakeUnregister(c) PROVE Killers'
    <2>1. UNCHANGED <<closed, panicked>> /\ reader[c] # "done"
      BY <1>9 DEF TakeRegister, TakeUnregister, histVars
    <2>2. hub'.client = c /\ hub'.at \in {"register", "unregister"}
      BY <1>9, HubFields DEF At
    <2> QED BY <1>3, <2>1, <2>2
  <1>10. CASE ForgetClient
    <2>1. /\ hub.client \in Clients /\ reader[hub.client] = "done"
          /\ closed' = [closed EXCEPT ![hub.client] = TRUE]
          /\ panicked' = closed[hub.client] /\ UNCHANGED cause
      BY <1>10 DEF ForgetClient, Places, histVars
    <2>2. hub'.client = None /\ hub'.at = "select"
      BY <1>10, HubFields
    <2>3. panicked' => cause' # {}
      BY <1>2, <2>1
    <2>4. ASSUME cause' = {}, NEW c \in Clients, closed'[c]
          PROVE  reader'[c] = "done" /\ hub'.client # c
      <3>1. CASE c = hub.client
        BY <1>1, <2>1, <2>2, <3>1, NoneAssumption DEF Moves
      <3>2. CASE c # hub.client
        <4>1. closed[c]
          BY <1>1, <2>1, <2>4, <3>2
        <4> QED BY <1>2, <2>1, <2>2, <2>4, <4>1, NoneAssumption
      <3> QED BY <3>1, <3>2
    <2> QED BY <2>2, <2>3, <2>4 DEF Killers
  <1>11. CASE Dies
    <2>1. cause # {}
      <3>1. MapRace => cause # {}
        BY RacePair DEF MapRace
      <3>2. \A c \in Clients : Die(c) => cause # {}
        BY DEF Die, Crossings
      <3> QED BY <1>11, <3>1, <3>2 DEF Dies
    <2>2. cause' # {}
      BY <1>1, <2>1
    <2> QED BY <2>2 DEF Killers
  <1>12. ASSUME NEW c \in Clients, OfferRoom(c) \/ OfferUser(c) PROVE Killers'
    <2>1. /\ hub.at \in {"room", "user"} /\ c \in hub.todo
          /\ panicked' = closed[c]
          /\ cause' = IF Overflows(c) THEN cause \cup {"overflow"} ELSE cause
          /\ closed' = [closed EXCEPT ![c] = @ \/ Overflows(c)]
      BY <1>12, OfferFacts
    <2>2. CASE Overflows(c)
      <3>1. cause' # {}
        BY <2>1, <2>2
      <3> QED BY <3>1 DEF Killers
    <2>3. CASE ~Overflows(c)
      <3>1. UNCHANGED <<closed, cause>>
        BY <1>1, <2>1, <2>3
      <3>2. hub'.client = hub.client /\ hub'.todo = hub.todo \ {c}
        BY <1>12, HubFields DEF At
      <3>3. panicked' => cause' # {}
        BY <2>1, <3>1 DEF Killers
      <3>4. cause' = {} => \A d \in Clients : closed'[d] => reader'[d] = "done" /\ hub'.client # d
        BY <1>2, <3>1, <3>2
      <3>5. cause' = {} => \A d \in hub'.todo : ~closed'[d]
        BY <2>1, <3>1, <3>2 DEF Killers
      <3> QED BY <3>3, <3>4, <3>5 DEF Killers
    <2> QED BY <2>2, <2>3
  <1>13. ASSUME \/ Publish \/ Enqueue
                \/ \E c \in Clients :
                      \/ JoinRoomLock(c) \/ ReadFails(c) \/ WriteFrame(c) \/ WriteStops(c)
                      \/ Connect(c) \/ ReadJoin(c) \/ ReadLeave(c) \/ PeerCloses(c)
         PROVE  Killers'
    <2>1. UNCHANGED hub /\ Still
      BY <1>13, HubStays, OthersStill
    <2> QED BY <1>4, <2>1 DEF Still
  <1>14. ASSUME NEW c \in Clients, JoinEnds(c) \/ LeaveStep(c) PROVE Killers'
    <2>1. UNCHANGED <<hub, closed, panicked>>
      BY <1>14, LeftAlone DEF histVars
    <2> QED BY <1>4, <2>1
  <1> QED BY Actions, <1>5, <1>6, <1>7, <1>8, <1>9, <1>10, <1>11, <1>12, <1>13, <1>14

-----------------------------------------------------------------------------
(* Who holds h.mu *)

\* h.mu is held by exactly the goroutine that is inside a section it guards:
\* JoinRoom, the body of the Unregister case, the two loops of the Broadcast
\* case.  None of these sections waits for anything, so the lock comes back.
HolderInSection ==
    /\ \A c \in Clients : mu = c <=> reader[c] = "joining"
    /\ mu = "hub" <=> hub.at \in {"forget", "room", "user"}

\* readPump enters and leaves its section with the lock.
LEMMA ReaderHolds ==
    ASSUME Shape, HolderInSection, NEW c \in Clients, JoinRoomLock(c) \/ JoinEnds(c)
    PROVE  HolderInSection'
  <1>1. /\ \A d \in Clients \ {c} : reader'[d] = reader[d]
        /\ UNCHANGED hub
    BY DEF JoinRoomLock, JoinEnds, JoinRoom, JoinPanics, Shape, TypeOK
  <1>2. CASE JoinRoomLock(c)
    <2>1. mu = "free" /\ mu' = c /\ reader'[c] = "joining"
      BY <1>2 DEF JoinRoomLock, Shape, TypeOK
    <2> QED BY <1>1, <2>1, HolderAssumption DEF HolderInSection
  <1>3. CASE JoinEnds(c)
    <2>1. mu = c /\ mu' = "free" /\ reader'[c] \in {"reading", "unregistering"}
      BY <1>3 DEF JoinEnds, JoinRoom, JoinPanics, Shape, TypeOK, HolderInSection
    <2> QED BY <1>1, <2>1, HolderAssumption DEF HolderInSection
  <1> QED BY <1>2, <1>3

LEMMA HolderStep == ASSUME Shape, HolderInSection, Next PROVE HolderInSection'
  <1>0. hub \in HubState
    BY HubFields
  <1>1. ASSUME UNCHANGED <<mu, hub>>, \A c \in Clients : reader[c] = "joining" <=> reader'[c] = "joining"
        PROVE  HolderInSection'
    BY <1>1 DEF HolderInSection
  <1>2. ASSUME NEW c \in Clients, JoinRoomLock(c) \/ JoinEnds(c) PROVE HolderInSection'
    BY <1>2, ReaderHolds
  <1>3. ASSUME NEW c \in Clients, NEW v, reader' = [reader EXCEPT ![c] = v],
               v # "joining", reader[c] # "joining"
        PROVE  \A d \in Clients : reader[d] = "joining" <=> reader'[d] = "joining"
    BY <1>3 DEF Shape, TypeOK
  <1>4. ASSUME NEW c \in Clients,
               LeaveStep(c) \/ ReadFails(c) \/ Connect(c) \/ ReadJoin(c) \/ ReadLeave(c)
        PROVE  HolderInSection'
    <2>1. UNCHANGED <<mu, hub>>
      BY <1>4, LeftAlone DEF ReadFails, Connect, ReadJoin, ReadLeave
    <2>2. \A d \in Clients : reader[d] = "joining" <=> reader'[d] = "joining"
      <3>1. CASE LeaveStep(c)
        BY <3>1, LeaveSteps DEF Leaving
      <3>2. CASE ReadFails(c) \/ Connect(c) \/ ReadJoin(c) \/ ReadLeave(c)
        BY <1>3, <3>2 DEF ReadFails, Connect, ReadJoin, ReadLeave
      <3> QED BY <1>4, <3>1, <3>2
    <2> QED BY <1>1, <2>1, <2>2
  <1>5. ASSUME NEW c \in Clients, WriteFrame(c) \/ WriteStops(c) \/ PeerCloses(c)
        PROVE  HolderInSection'
    BY <1>1, <1>5 DEF WriteFrame, WriteStops, PeerCloses, connVars
  <1>6. CASE Publish \/ Enqueue \/ Dies
    BY <1>1, <1>6, LeftAlone DEF Publish, Enqueue, connVars
  \* The hub goroutine, which goes through its sections alone.
  <1>7. ASSUME \A d \in Clients : reader[d] = "joining" <=> reader'[d] = "joining",
               \A d \in Clients : mu = d <=> mu' = d,
               mu' = "hub" <=> hub'.at \in {"forget", "room", "user"}
        PROVE  HolderInSection'
    BY <1>7 DEF HolderInSection
  <1>8. ASSUME NEW c \in Clients, TakeRegister(c) \/ TakeUnregister(c) PROVE HolderInSection'
    <2>1. UNCHANGED mu /\ hub.at = "select"
      BY <1>8 DEF TakeRegister, TakeUnregister
    <2>2. \A d \in Clients : reader[d] = "joining" <=> reader'[d] = "joining"
      BY <1>3, <1>8 DEF TakeRegister, TakeUnregister
    <2>3. hub'.at \in {"register", "unregister"}
      BY <1>8, HubFields DEF At
    <2> QED BY <1>7, <2>1, <2>2, <2>3 DEF HolderInSection
  <1>9. ASSUME NEW c \in Clients, OfferRoom(c) \/ OfferUser(c) PROVE HolderInSection'
    <2>1. UNCHANGED <<mu, reader>>
      BY <1>9 DEF OfferRoom, OfferUser, connVars
    <2>2. hub'.at = hub.at
      BY <1>9, HubFields DEF At
    <2> QED BY <1>7, <2>1, <2>2 DEF HolderInSection
  <1>10. CASE RegisterClient
    <2>1. UNCHANGED <<mu, reader>> /\ hub.at = "register" /\ hub'.at = "select"
      BY <1>10, HubFields DEF RegisterClient, connVars
    <2> QED BY <1>7, <2>1 DEF HolderInSection
  <1>11. CASE UnregisterLock \/ TakeMessage
    <2>1. mu = "free" /\ mu' = "hub" /\ UNCHANGED reader
      BY <1>11 DEF UnregisterLock, TakeMessage, connVars
    <2>2. hub'.at \in {"forget", "room"}
      BY <1>11, HubFields DEF At
    <2> QED BY <1>7, <2>1, <2>2, HolderAssumption
  <1>12. CASE RoomDone
    <2>1. UNCHANGED <<mu, reader>> /\ hub.at = "room"
      BY <1>12 DEF RoomDone, connVars
    <2>2. hub'.at = "user"
      BY <1>12, HubFields DEF At
    <2> QED BY <1>7, <2>1, <2>2 DEF HolderInSection
  <1>13. CASE ForgetClient \/ UserDone
    <2>1. hub.at \in {"forget", "user"} /\ mu' = "free" /\ UNCHANGED reader
      BY <1>13 DEF ForgetClient, UserDone, connVars
    <2>2. mu = "hub"
      BY <2>1 DEF HolderInSection
    <2>3. hub'.at = "select"
      BY <1>13, HubFields
    <2> QED BY <1>7, <2>1, <2>2, <2>3, HolderAssumption
  <1> QED BY Actions, <1>2, <1>4, <1>5, <1>6, <1>8, <1>9, <1>10, <1>11, <1>12, <1>13

\* Who is inside comes from outside one at a time, and is seen to.
LEMMA InRoomsMoves ==
    ASSUME Shape, Places, Next
    PROVE  InRooms' \subseteq InRooms \/ (Enters /\ \E x : InRooms' \subseteq InRooms \cup {x})
  <1>1. DOMAIN reader = Clients /\ DOMAIN joined = Clients /\ hub \in HubState
    BY HubFields DEF Shape, TypeOK
  <1> DEFINE Inside(c) == reader[c] \in {"joining"} \cup Leaving
  \* Both kinds of members, apart.
  <1>2. ASSUME \A c \in Clients : Inside(c)' => Inside(c), HubInRooms' => HubInRooms
        PROVE  InRooms' \subseteq InRooms
    BY <1>2 DEF InRooms
  <1>3. ASSUME NEW c \in Clients, \A d \in Clients \ {c} : Inside(d)' => Inside(d),
               HubInRooms' => HubInRooms
        PROVE  InRooms' \subseteq InRooms \cup {c}
    BY <1>3 DEF InRooms
  <1>4. ASSUME UNCHANGED reader PROVE InRooms' \subseteq InRooms \cup {"hub"}
    BY <1>4 DEF InRooms
  <1>5. ASSUME UNCHANGED <<hub, joined>> PROVE HubInRooms' => HubInRooms
    BY <1>5 DEF HubInRooms
  <1>6. ASSUME \/ Publish \/ Enqueue \/ Dies PROVE InRooms' \subseteq InRooms
    <2>1. UNCHANGED <<reader, hub, joined>>
      BY <1>6, LeftAlone DEF Publish, Enqueue, roomVars, connVars
    <2> QED BY <1>2, <1>5, <2>1
  <1>7. ASSUME \/ RegisterClient \/ ForgetClient \/ UserDone \/ RoomDone
        PROVE  InRooms' \subseteq InRooms
    <2>1. UNCHANGED reader
      BY <1>7 DEF RegisterClient, ForgetClient, UserDone, RoomDone, connVars
    <2>2. hub'.at \in {"select", "user"}
      BY <1>7, HubFields DEF At
    <2> QED BY <1>2, <2>1, <2>2 DEF HubInRooms
  <1>8. CASE TakeMessage
    <2>1. Enters /\ UNCHANGED reader
      BY <1>8 DEF TakeMessage, connVars
    <2> QED BY <1>4, <2>1
  <1>9. CASE UnregisterLock
    <2>1. UNCHANGED <<reader, joined>> /\ (joined[hub.client] # {} => Enters)
      BY <1>9 DEF UnregisterLock, connVars, roomVars
    <2>2. hub'.at = "forget" /\ hub'.client = hub.client
      BY <1>9, HubFields DEF At
    <2>3. joined[hub.client] = {} => InRooms' \subseteq InRooms
      BY <1>2, <2>1, <2>2 DEF HubInRooms
    <2> QED BY <1>4, <2>1, <2>3
  <1>10. ASSUME NEW c \in Clients, TakeRegister(c) \/ TakeUnregister(c)
         PROVE  InRooms' \subseteq InRooms
    <2>1. \A d \in Clients : Inside(d)' => Inside(d)
      BY <1>1, <1>10 DEF TakeRegister, TakeUnregister, Leaving
    <2>2. hub'.at \in {"register", "unregister"}
      BY <1>10, HubFields DEF At
    <2> QED BY <1>2, <2>1, <2>2 DEF HubInRooms
  <1>11. ASSUME NEW c \in Clients, OfferRoom(c) \/ OfferUser(c) PROVE InRooms' \subseteq InRooms
    <2>1. UNCHANGED <<reader, joined>>
      BY <1>11, OfferFacts
    <2>2. hub'.at = hub.at /\ hub'.client = hub.client
      BY <1>11, HubFields DEF At
    <2> QED BY <1>2, <2>1, <2>2 DEF HubInRooms
  <1>12. ASSUME NEW c \in Clients,
                \/ ReadFails(c) \/ WriteFrame(c) \/ WriteStops(c)
                \/ Connect(c) \/ ReadJoin(c) \/ PeerCloses(c)
         PROVE  InRooms' \subseteq InRooms
    <2>1. UNCHANGED <<hub, joined>>
      BY <1>12 DEF ReadFails, WriteFrame, WriteStops, Connect, ReadJoin, PeerCloses, roomVars
    <2>2. \A d \in Clients : Inside(d)' => Inside(d)
      BY <1>1, <1>12 DEF ReadFails, WriteFrame, WriteStops, Connect, ReadJoin, PeerCloses,
                         connVars, Leaving
    <2> QED BY <1>2, <1>5, <2>1, <2>2
  <1>13. ASSUME NEW c \in Clients, JoinRoomLock(c) \/ ReadLeave(c)
         PROVE  Enters /\ InRooms' \subseteq InRooms \cup {c}
    <2>1. Enters /\ UNCHANGED <<hub, joined>>
      BY <1>13 DEF JoinRoomLock, ReadLeave, roomVars
    <2>2. \A d \in Clients \ {c} : Inside(d)' => Inside(d)
      BY <1>1, <1>13 DEF JoinRoomLock, ReadLeave
    <2> QED BY <1>3, <1>5, <2>1, <2>2
  <1>14. ASSUME NEW c \in Clients, JoinEnds(c) \/ LeaveStep(c) PROVE InRooms' \subseteq InRooms
    <2>1. UNCHANGED hub
      BY <1>14, LeftAlone
    <2>2. \A d \in Clients : Inside(d)' => Inside(d)
      BY <1>14, JoinSteps, LeaveSteps DEF Leaving
    <2>3. \A d \in Clients : reader[d] = "done" => joined'[d] = joined[d]
      BY <1>14, JoinSteps, LeaveSteps DEF Leaving
    <2>4. HubInRooms' => HubInRooms
      BY <2>1, <2>3 DEF HubInRooms, Places
    <2> QED BY <1>2, <2>2, <2>4
  <1> QED BY Actions, <1>6, <1>7, <1>8, <1>9, <1>10, <1>11, <1>12, <1>13, <1>14

LEMMA OverlapsStep == ASSUME Shape, Places, Overlaps, Next PROVE Overlaps'
  <1>1. cause \subseteq cause'
    BY CauseGrows
  <1>2. CASE InRooms' \subseteq InRooms
    BY <1>1, <1>2 DEF Overlaps
  <1>3. CASE Enters /\ \E x : InRooms' \subseteq InRooms \cup {x}
    BY <1>3 DEF Enters, Overlaps
  <1> QED BY <1>2, <1>3, InRoomsMoves

\* While the hub is inside nobody joins, so a room it deletes is missed by no one.
LEMMA CrossingsStep == ASSUME Shape, Places, HolderInSection, Crossings, Next PROVE Crossings'
  <1>1. /\ cause \subseteq cause' /\ crossed \subseteq crossed'
        /\ rooms \in [Tasks -> SUBSET Clients] /\ present \subseteq Tasks
        /\ DOMAIN reader = Clients /\ DOMAIN room = Clients
        /\ \A c \in Clients : reader[c] \in {"joining"} \cup Leaving => room[c] \in Tasks
    BY CauseGrows DEF Shape, TypeOK
  <1> DEFINE Inside(c) == reader[c] \in {"joining"} \cup Leaving
  \* Nobody enters, and the rooms are left alone or only emptied.
  <1>2. ASSUME \A c \in Clients : Inside(c)' => reader'[c] = reader[c] /\ room'[c] = room[c],
               UNCHANGED <<present, doomed, crossed>>,
               \A t \in Tasks : rooms'[t] \subseteq rooms[t]
        PROVE  Crossings'
    BY <1>1, <1>2 DEF Crossings, Leaving
  <1>3. ASSUME \/ Publish \/ Enqueue \/ Dies \/ RegisterClient \/ UserDone \/ RoomDone
               \/ TakeMessage \/ UnregisterLock
        PROVE  Crossings'
    <2>1. UNCHANGED <<present, rooms, reader, room, doomed, crossed>>
      BY <1>3, LeftAlone DEF Publish, Enqueue, RegisterClient, UserDone, RoomDone, TakeMessage,
                          UnregisterLock, roomVars, connVars, histVars
    <2> QED BY <1>2, <2>1
  <1>4. ASSUME NEW c \in Clients, OfferRoom(c) \/ OfferUser(c) PROVE Crossings'
    BY <1>2, <1>4, OfferFacts
  <1>5. ASSUME NEW c \in Clients,
               \/ TakeRegister(c) \/ TakeUnregister(c) \/ ReadFails(c) \/ WriteFrame(c)
               \/ WriteStops(c) \/ Connect(c) \/ ReadJoin(c) \/ PeerCloses(c)
        PROVE  Crossings'
    <2>1. UNCHANGED <<present, rooms, doomed, crossed>>
      BY <1>5 DEF TakeRegister, TakeUnregister, ReadFails, WriteFrame, WriteStops, Connect,
                  ReadJoin, PeerCloses, roomVars, connVars, histVars
    <2>2. \A d \in Clients : Inside(d)' => reader'[d] = reader[d] /\ room'[d] = room[d]
      BY <1>1, <1>5 DEF TakeRegister, TakeUnregister, ReadFails, WriteFrame, WriteStops,
                        Connect, ReadJoin, PeerCloses, connVars, Leaving
    <2> QED BY <1>2, <2>1, <2>2
  <1>6. CASE ForgetClient
    <2>1. /\ hub.at = "forget" /\ UNCHANGED <<reader, room, doomed, crossed>>
          /\ rooms' = [t \in Tasks |-> IF t \in joined[hub.client] THEN rooms[t] \ {hub.client}
                                                                  ELSE rooms[t]]
          /\ present' = {t \in present : t \in joined[hub.client] => rooms'[t] # {}}
      BY <1>6 DEF ForgetClient, connVars, histVars
    <2>2. \A c \in Clients : reader[c] # "joining"
      BY <2>1, HolderAssumption DEF HolderInSection
    <2>3. \A t \in Tasks : rooms'[t] \subseteq rooms[t] /\ (rooms'[t] # {} => t \in present')
      BY <1>1, <2>1 DEF Crossings
    <2> QED BY <1>1, <2>1, <2>2, <2>3 DEF Crossings, Leaving
  <1>7. ASSUME NEW c \in Clients, JoinRoomLock(c) PROVE Crossings'
    <2>1. /\ reader' = [reader EXCEPT ![c] = "joining"] /\ present' = present \cup {room[c]}
          /\ UNCHANGED <<rooms, room, doomed>>
          /\ crossed' = IF \E d \in Clients : reader[d] \in Leaving /\ room[d] = room[c]
                        THEN crossed \cup {room[c]} ELSE crossed
          /\ Enters
      BY <1>7 DEF JoinRoomLock
    <2>2. \A d \in Clients : reader'[d] = IF d = c THEN "joining" ELSE reader[d]
      BY <1>1, <2>1
    <2>3. crossed' # {} => "race" \in cause'
      <3>1. ASSUME NEW d \in Clients, reader[d] \in Leaving PROVE "race" \in cause'
        <4>1. d \in InRooms
          BY <3>1 DEF InRooms
        <4> QED BY <2>1, <4>1 DEF Enters
      <3>2. crossed' # crossed => \E d \in Clients : reader[d] \in Leaving
        BY <2>1
      <3> QED BY <1>1, <3>1, <3>2 DEF Crossings
    <2>4. \A d, e \in Clients :
             reader'[d] = "joining" /\ reader'[e] \in Leaving /\ room'[d] = room'[e]
             => room'[d] \in crossed'
      <3> SUFFICES ASSUME NEW d \in Clients, NEW e \in Clients, reader'[d] = "joining",
                          reader'[e] \in Leaving, room[d] = room[e]
                   PROVE  room[d] \in crossed'
        BY <2>1
      <3>1. reader[e] \in Leaving
        BY <2>2 DEF Leaving
      <3>2. CASE d = c
        BY <2>1, <3>1, <3>2
      <3>3. CASE d # c
        BY <1>1, <2>2, <3>1, <3>3 DEF Crossings
      <3> QED BY <3>2, <3>3
    <2>5. \A d \in Clients : reader'[d] = "dropping" => reader[d] = "dropping"
      BY <2>2
    <2>6. \A d \in Clients : reader'[d] = "joining" => room'[d] \in present' \cup crossed'
      BY <1>1, <2>1, <2>2 DEF Crossings
    <2> QED BY <1>1, <2>1, <2>3, <2>4, <2>5, <2>6 DEF Crossings
  <1>8. ASSUME NEW c \in Clients, ReadLeave(c) PROVE Crossings'
    <2>1. PICK t \in Tasks :
             /\ room' = [room EXCEPT ![c] = t]
             /\ crossed' = IF \E d \in Clients : reader[d] = "joining" /\ room[d] = t
                           THEN crossed \cup {t} ELSE crossed
      BY <1>8 DEF ReadLeave
    <2>2. /\ reader' = [reader EXCEPT ![c] = "leaving"] /\ Enters
          /\ UNCHANGED <<present, rooms, doomed>>
      BY <1>8 DEF ReadLeave, roomVars
    <2>3. \A d \in Clients : /\ reader'[d] = IF d = c THEN "leaving" ELSE reader[d]
                             /\ room'[d] = IF d = c THEN t ELSE room[d]
      BY <1>1, <2>1, <2>2
    <2>4. crossed' # {} => "race" \in cause'
      <3>1. ASSUME NEW d \in Clients, reader[d] = "joining" PROVE "race" \in cause'
        <4>1. d \in InRooms
          BY <3>1 DEF InRooms
        <4> QED BY <2>2, <4>1 DEF Enters
      <3>2. crossed' # crossed => \E d \in Clients : reader[d] = "joining"
        BY <2>1
      <3> QED BY <1>1, <3>1, <3>2 DEF Crossings
    <2>5. \A d, e \in Clients :
             reader'[d] = "joining" /\ reader'[e] \in Leaving /\ room'[d] = room'[e]
             => room'[d] \in crossed'
      <3> SUFFICES ASSUME NEW d \in Clients, NEW e \in Clients, reader'[d] = "joining",
                          reader'[e] \in Leaving, room'[d] = room'[e]
                   PROVE  room'[d] \in crossed'
        OBVIOUS
      <3>1. d # c /\ reader[d] = "joining" /\ room'[d] = room[d]
        BY <2>3
      <3>2. CASE e = c
        BY <2>1, <2>3, <3>1, <3>2
      <3>3. CASE e # c
        BY <1>1, <2>3, <3>1, <3>3 DEF Crossings
      <3> QED BY <3>2, <3>3
    <2>6. \A d \in Clients : /\ reader'[d] = "joining" => reader[d] = "joining" /\ room'[d] = room[d]
                             /\ reader'[d] = "dropping" => reader[d] = "dropping" /\ room'[d] = room[d]
      BY <2>3
    <2> QED BY <1>1, <2>2, <2>4, <2>5, <2>6 DEF Crossings
  <1>9. ASSUME NEW c \in Clients, JoinEnds(c) PROVE Crossings'
    <2>1. \A d \in Clients : Inside(d)' =>
             d # c /\ reader'[d] = reader[d] /\ room'[d] = room[d]
      BY <1>9, JoinSteps DEF Leaving
    <2>2. reader[c] = "joining" /\ room[c] \in Tasks /\ UNCHANGED <<present, crossed, cause>>
      BY <1>9, JoinSteps
    <2>3. CASE /\ room[c] \in present /\ UNCHANGED doomed
               /\ \A t \in Tasks : rooms'[t] = IF t = room[c] THEN rooms[t] \cup {c} ELSE rooms[t]
      <3>1. ASSUME NEW d \in Clients, reader'[d] = "dropping"
            PROVE  rooms'[room'[d]] = {} \/ room'[d] \in crossed'
        <4>1. reader[d] = "dropping" /\ room'[d] = room[d] /\ room[d] \in Tasks
          BY <1>1, <2>1, <3>1 DEF Leaving
        <4>2. CASE room[d] = room[c]
          BY <2>2, <4>1, <4>2 DEF Crossings, Leaving
        <4>3. CASE room[d] # room[c]
          BY <2>2, <2>3, <4>1, <4>3 DEF Crossings
        <4> QED BY <4>2, <4>3
      <3>2. \A t \in Tasks : rooms'[t] # {} => t \in present'
        BY <2>2, <2>3 DEF Crossings
      <3> QED BY <2>1, <2>2, <2>3, <3>1, <3>2 DEF Crossings, Leaving
    <2>4. CASE room[c] \notin present /\ rooms' = rooms
      <3>1. "race" \in cause'
        BY <2>2, <2>4 DEF Crossings
      <3> QED BY <1>1, <2>1, <2>2, <2>4, <3>1 DEF Crossings, Leaving
    <2> QED BY <1>9, <2>3, <2>4, JoinSteps
  <1>10. ASSUME NEW c \in Clients, LeaveStep(c) PROVE Crossings'
    <2>1. /\ reader[c] \in Leaving /\ room[c] \in Tasks
          /\ UNCHANGED <<crossed, doomed, cause>>
          /\ \A t \in Tasks : rooms'[t] \subseteq rooms[t] /\ (t # room[c] => rooms'[t] = rooms[t])
          /\ \A d \in Clients \ {c} : reader'[d] = reader[d] /\ room'[d] = room[d]
      BY <1>10, LeaveSteps
    <2>2. \/ reader'[c] = "reading"
          \/ reader'[c] = "counting" /\ room'[c] = room[c]
          \/ reader'[c] = "dropping" /\ room'[c] = room[c] /\ rooms' = rooms /\ rooms[room[c]] = {}
      BY <1>10, LeaveSteps
    <2>3. \/ UNCHANGED present
          \/ rooms'[room[c]] = {} /\ present' = present \ {room[c]}
      BY <1>10, LeaveSteps
    <2>4. \A d, e \in Clients :
             reader'[d] = "joining" /\ reader'[e] \in Leaving /\ room'[d] = room'[e]
             => room'[d] \in crossed'
      BY <2>1, <2>2 DEF Crossings, Leaving
    <2>5. \A d \in Clients : reader'[d] = "joining" =>
             d # c /\ reader[d] = "joining" /\ room'[d] = room[d]
      BY <2>1, <2>2
    <2>6. \A d \in Clients : reader'[d] = "joining" => room'[d] \in present' \cup crossed'
      BY <2>1, <2>3, <2>5 DEF Crossings
    <2>7. ASSUME NEW d \in Clients, reader'[d] = "dropping"
          PROVE  rooms'[room'[d]] = {} \/ room'[d] \in crossed'
      <3>1. CASE d = c
        BY <2>2, <2>7, <3>1
      <3>2. CASE d # c
        <4>1. reader[d] = "dropping" /\ room'[d] = room[d] /\ room[d] \in Tasks
          BY <1>1, <2>1, <2>7, <3>2 DEF Leaving
        <4> QED BY <2>1, <4>1 DEF Crossings
      <3> QED BY <3>1, <3>2
    <2>8. \A t \in Tasks : rooms'[t] # {} => t \in present'
      BY <2>1, <2>3 DEF Crossings
    <2> QED BY <2>1, <2>4, <2>6, <2>7, <2>8 DEF Crossings
  <1> QED BY Actions, <1>3, <1>4, <1>5, <1>6, <1>7, <1>8, <1>9, <1>10

-----------------------------------------------------------------------------
(* In which order frames go *)

\* A connection's turn in one of the two loops.
Turn(c) == OfferRoom(c) \/ OfferUser(c)

\* Only the hub adds to a stream, one frame in a turn.
LEMMA StreamSteps ==
    ASSUME Shape, Places, Next, NEW d \in Clients
    PROVE  /\ Stream(d) \in Seq(Nat)
           /\ ~Turn(d) => Stream(d)' = Stream(d)
           /\ Turn(d) => \E m \in hub.msg :
                            /\ Sends(d) => Stream(d)' = Append(Stream(d), m.no)
                            /\ ~Sends(d) => Stream(d)' = Stream(d)
                            /\ closed'[d] = (closed[d] \/ Overflows(d))
  <1>1. /\ send[d] \in Seq(1..MaxMessages) /\ got[d] \in Seq(1..MaxMessages)
        /\ DOMAIN send = Clients /\ DOMAIN got = Clients /\ closed \in [Clients -> BOOLEAN]
        /\ hub \in HubState
    BY HubFields DEF Shape, TypeOK
  <1>2. 1..MaxMessages \subseteq Nat
    BY CapacityAssumption
  <1>3. send[d] \in Seq(Nat) /\ got[d] \in Seq(Nat)
    BY <1>1, <1>2, SeqMonotonic
  <1>4. Stream(d) \in Seq(Nat)
    BY <1>3, ConcatProperties DEF Stream
  <1>5. ASSUME send'[d] = send[d], got'[d] = got[d] PROVE Stream(d)' = Stream(d)
    BY <1>5 DEF Stream
  <1>6. ASSUME UNCHANGED <<send, got>> PROVE Stream(d)' = Stream(d)
    BY <1>6 DEF Stream
  <1>7. ASSUME NEW c \in Clients, WriteFrame(c) PROVE Stream(d)' = Stream(d)
    <2>1. /\ send' = [send EXCEPT ![c] = Tail(@)]
          /\ got' = [got EXCEPT ![c] = Append(@, Head(send[c]))] /\ send[c] # <<>>
      BY <1>7 DEF WriteFrame
    <2>2. CASE c = d
      <3>1. send'[d] = Tail(send[d]) /\ got'[d] = Append(got[d], Head(send[d]))
        BY <1>1, <2>1, <2>2
      <3>2. Append(got[d], Head(send[d])) \o Tail(send[d]) = got[d] \o send[d]
        <4>1. \A g, r \in Seq(Nat) : r # <<>> => Append(g, Head(r)) \o Tail(r) = g \o r
          BY WrittenStream
        <4> QED BY <1>3, <2>1, <2>2, <4>1
      <3> QED BY <3>1, <3>2, Zenon DEF Stream
    <2>3. CASE c # d
      BY <1>1, <1>5, <2>1, <2>3
    <2> QED BY <2>2, <2>3
  <1>8. ASSUME NEW c \in Clients, c # d, Turn(c) PROVE Stream(d)' = Stream(d)
    <2>1. PICK m \in hub.msg : Offer(c, m)
      BY <1>8 DEF Turn, OfferRoom, OfferUser
    <2>2. UNCHANGED got
      BY <1>8 DEF Turn, OfferRoom, OfferUser
    <2> QED BY <1>1, <1>5, <1>8, <2>1, <2>2 DEF Offer
  <1>9. ASSUME Turn(d)
        PROVE  \E m \in hub.msg : /\ Sends(d) => Stream(d)' = Append(Stream(d), m.no)
                                  /\ ~Sends(d) => Stream(d)' = Stream(d)
                                  /\ closed'[d] = (closed[d] \/ Overflows(d))
    <2>1. PICK m \in hub.msg : Offer(d, m)
      BY <1>9 DEF Turn, OfferRoom, OfferUser
    <2>2. UNCHANGED got
      BY <1>9 DEF Turn, OfferRoom, OfferUser
    <2>3. m.no \in Nat
      BY <1>1, <1>2, <2>1 DEF HubState, Message
    <2>4. Sends(d) => Stream(d)' = Append(Stream(d), m.no)
      <3>1. Sends(d) => send'[d] = Append(send[d], m.no)
        BY <1>1, <2>1 DEF Offer
      <3>2. got[d] \o Append(send[d], m.no) = Append(got[d] \o send[d], m.no)
        <4>1. \A g, r \in Seq(Nat) : \A n \in Nat : g \o Append(r, n) = Append(g \o r, n)
          BY SentStream
        <4> QED BY <4>1, <1>3, <2>3
      <3>3. got'[d] = got[d]
        BY <2>2
      <3> QED BY <3>1, <3>2, <3>3, Zenon DEF Stream
    <2>5. ~Sends(d) => Stream(d)' = Stream(d)
      <3>1. ~Sends(d) => send'[d] = send[d]
        BY <1>1, <2>1 DEF Offer
      <3> QED BY <2>2, <3>1 DEF Stream
    <2>6. closed'[d] = (closed[d] \/ Overflows(d))
      <3>1. closed' = [closed EXCEPT ![d] = @ \/ Overflows(d)]
        BY <2>1 DEF Offer
      <3>2. closed'[d] = IF d = d THEN closed[d] \/ Overflows(d) ELSE closed[d]
        BY <1>1, <3>1
      <3> QED BY <3>2
    <2> QED BY <2>1, <2>4, <2>5, <2>6
  <1>10. ASSUME \/ Publish \/ Enqueue \/ RegisterClient \/ UnregisterLock \/ ForgetClient
                \/ TakeMessage \/ RoomDone \/ UserDone \/ Dies
         PROVE  UNCHANGED <<send, got>>
    BY <1>10, LeftAlone DEF Publish, Enqueue, RegisterClient, UnregisterLock, ForgetClient,
                         TakeMessage, RoomDone, UserDone, histVars
  <1>11. ASSUME NEW c \in Clients,
                \/ TakeRegister(c) \/ TakeUnregister(c)
                \/ JoinRoomLock(c) \/ JoinEnds(c) \/ LeaveStep(c) \/ ReadFails(c) \/ WriteStops(c)
                \/ Connect(c) \/ ReadJoin(c) \/ ReadLeave(c) \/ PeerCloses(c)
         PROVE  UNCHANGED <<send, got>>
    BY <1>11, LeftAlone DEF TakeRegister, TakeUnregister, JoinRoomLock, ReadFails, WriteStops,
                         Connect, ReadJoin, ReadLeave, PeerCloses, histVars
  <1>12. ~Turn(d) => Stream(d)' = Stream(d)
    <2>1. CASE \E c \in Clients : Turn(c)
      BY <1>8, <2>1
    <2>2. CASE ~\E c \in Clients : Turn(c)
      BY <2>2, Actions, <1>6, <1>7, <1>10, <1>11 DEF Turn
    <2> QED BY <2>1, <2>2
  <1> QED BY <1>4, <1>9, <1>12

\* The messages wait in the order of their numbers, and the hub is at the one
\* before them.
Numbered ==
    /\ Last \in Nat
    /\ \A i \in 1..Len(broadcast) : broadcast[i].no = Last + i
    /\ hub.at \in {"room", "user"} => \A m \in hub.msg : m.no = Last

\* How often connection c may have been sent the message the hub is at.
Stage(c) == IF hub.at = "room"
            THEN IF c \in hub.todo THEN 0 ELSE 1
            ELSE IF hub.at = "user" /\ c \in hub.todo THEN 1 ELSE 2

\* The order of every stream, counting the turns still to come.
Ordered == \A c \in Clients : Upto(Stream(c), Last, Stage(c))

\* Only Enqueue and TakeMessage change the queue, and the loops keep their
\* message.
LEMMA QueueStays ==
    ASSUME Shape, Places, Next, ~Enqueue, ~TakeMessage
    PROVE  /\ UNCHANGED <<broadcast, published>>
           /\ hub'.at \in {"room", "user"} => hub.at \in {"room", "user"} /\ hub'.msg = hub.msg
  <1>1. CASE RegisterClient \/ ForgetClient \/ UserDone
    <2>1. hub'.at = "select"
      BY <1>1, HubFields
    <2> QED BY <1>1, <2>1 DEF RegisterClient, ForgetClient, UserDone, histVars
  <1>2. CASE UnregisterLock
    <2>1. hub'.at = "forget"
      BY <1>2, HubFields DEF At
    <2> QED BY <1>2, <2>1 DEF UnregisterLock, histVars
  <1>3. CASE RoomDone
    <2>1. hub.at = "room" /\ hub'.msg = hub.msg
      BY <1>3, HubFields DEF At, RoomDone
    <2> QED BY <1>3, <2>1 DEF RoomDone, histVars
  <1>4. CASE Publish \/ Dies
    BY <1>4, LeftAlone DEF Publish, histVars
  <1>5. ASSUME NEW c \in Clients, TakeRegister(c) \/ TakeUnregister(c)
        PROVE  UNCHANGED <<broadcast, published>> /\ hub'.at \in {"register", "unregister"}
    <2>1. hub'.at \in {"register", "unregister"}
      BY <1>5, HubFields DEF At
    <2> QED BY <1>5, <2>1 DEF TakeRegister, TakeUnregister, histVars
  <1>6. ASSUME NEW c \in Clients, Turn(c)
        PROVE  /\ UNCHANGED <<broadcast, published>>
               /\ hub.at \in {"room", "user"} /\ hub'.msg = hub.msg
    <2>1. hub'.msg = hub.msg
      BY <1>6, HubFields DEF At, Turn
    <2> QED BY <1>6, <2>1 DEF Turn, OfferRoom, OfferUser
  <1>7. ASSUME NEW c \in Clients,
               \/ JoinRoomLock(c) \/ JoinEnds(c) \/ LeaveStep(c) \/ ReadFails(c)
               \/ WriteFrame(c) \/ WriteStops(c)
               \/ Connect(c) \/ ReadJoin(c) \/ ReadLeave(c) \/ PeerCloses(c)
        PROVE  UNCHANGED <<broadcast, published, hub>>
    BY <1>7, LeftAlone DEF JoinRoomLock, ReadFails, WriteFrame, WriteStops, Connect, ReadJoin,
                        ReadLeave, PeerCloses, histVars
  <1> QED BY Actions, <1>1, <1>2, <1>3, <1>4, <1>5, <1>6, <1>7 DEF Turn

\* The next message is numbered one more.
LEMMA NumberedStep ==
    ASSUME Shape, Places, Numbered, Next
    PROVE  /\ Numbered'
           /\ TakeMessage => Last' = Last + 1 /\ hub'.at = "room"
           /\ ~TakeMessage => Last' = Last
  <1>1. PICK l \in Nat, p \in Nat, n \in Nat : l = Len(broadcast) /\ p = published /\ n = Last
    <2>1. published \in Nat /\ broadcast \in Seq(Message)
      BY CapacityAssumption DEF Shape, TypeOK
    <2> QED BY <2>1, LenProperties DEF Numbered
  <1>2. /\ broadcast \in Seq(Message)
        /\ \A i \in 1..l : broadcast[i].no = n + i
        /\ n = p - l
    BY <1>1 DEF Shape, TypeOK, Numbered, Last
  <1>3. CASE TakeMessage
    <2>1. /\ broadcast # <<>> /\ broadcast' = Tail(broadcast) /\ published' = p
      BY <1>1, <1>3 DEF TakeMessage, histVars
    <2>2. /\ l > 0 /\ Len(broadcast') = l - 1
          /\ \A i \in 1..(l - 1) : broadcast'[i] = broadcast[i + 1]
          /\ Head(broadcast) = broadcast[1]
      BY <1>1, <1>2, <2>1, HeadTailProperties, EmptySeq
    <2>3. hub'.at = "room" /\ hub'.msg = {Head(broadcast)}
      BY <1>3, HubFields DEF At
    <2>4. Last' = p - (l - 1)
      BY <2>1, <2>2, Zenon DEF Last
    <2>5. Last' = n + 1
      BY <1>2, <2>2, <2>4
    <2>6. \A i \in 1..(l - 1) : i + 1 \in 1..l /\ n + (i + 1) = (n + 1) + i
      OBVIOUS
    <2>7. \A i \in 1..(l - 1) : broadcast'[i].no = (n + 1) + i
      <3> SUFFICES ASSUME NEW i \in 1..(l - 1) PROVE broadcast'[i].no = (n + 1) + i
        OBVIOUS
      <3>1. broadcast[i + 1].no = n + (i + 1)
        BY <1>2, <2>6
      <3>2. broadcast'[i].no = n + (i + 1)
        BY <2>2, <3>1, Zenon
      <3> QED BY <2>6, <3>2
    <2>8. Head(broadcast).no = n + 1
      BY <1>2, <2>2
    <2>9. \A m \in hub'.msg : m.no = Last'
      BY <2>3, <2>5, <2>8, Zenon
    <2>10. \A i \in 1..Len(broadcast') : broadcast'[i].no = Last' + i
      BY <2>2, <2>5, <2>7, Zenon
    <2>11. Last' \in Nat
      BY <2>5
    <2>12. Numbered'
      BY <2>9, <2>10, <2>11, Zenon DEF Numbered
    <2> QED BY <1>1, <1>3, <2>3, <2>5, <2>12, Zenon
  <1>4. CASE Enqueue
    <2>1. PICK t \in Tasks, u \in Users :
             broadcast' = Append(broadcast, [no |-> published + 1, task |-> t, user |-> u,
                                             due |-> Connected(u)])
      BY <1>4 DEF Enqueue
    <2>2. published' = p + 1 /\ UNCHANGED hub
      BY <1>1, <1>4 DEF Enqueue
    <2>3. PICK r \in Message : r = [no |-> published + 1, task |-> t, user |-> u,
                                    due |-> Connected(u)]
      <3>1. published + 1 \in 1..MaxMessages
        BY <1>4, CapacityAssumption DEF Enqueue, Shape, TypeOK
      <3> QED BY <3>1 DEF Message, Connected
    <2>4. r.no = p + 1
      BY <1>1, <2>3
    <2>5. /\ Len(broadcast') = l + 1
          /\ \A i \in 1..l : broadcast'[i] = broadcast[i]
          /\ broadcast'[l + 1] = r
      BY <1>1, <1>2, <2>1, <2>3, AppendProperties
    <2>6. Last' = (p + 1) - (l + 1)
      BY <2>2, <2>5, Zenon DEF Last
    <2>7. Last' = n
      BY <1>2, <2>6
    <2>8. \A i \in 1..(l + 1) : i \in 1..l \/ i = l + 1
      OBVIOUS
    <2>9. p + 1 = n + (l + 1)
      BY <1>2
    <2>10. \A i \in 1..(l + 1) : broadcast'[i].no = n + i
      BY <1>2, <2>4, <2>5, <2>8, <2>9, Zenon
    <2>11. hub'.at \in {"room", "user"} => \A m \in hub'.msg : m.no = n
      BY <1>1, <2>2, Zenon DEF Numbered
    <2>12. Numbered'
      BY <2>5, <2>7, <2>10, <2>11, Zenon DEF Numbered
    <2>13. ~TakeMessage
      <3>1. TakeMessage => published' = published
        BY DEF TakeMessage, histVars
      <3> QED BY <1>1, <2>2, <3>1
    <2> QED BY <1>1, <2>7, <2>12, <2>13, Zenon
  <1>5. CASE ~TakeMessage /\ ~Enqueue
    <2>1. /\ UNCHANGED <<broadcast, published>>
          /\ hub'.at \in {"room", "user"} => hub.at \in {"room", "user"} /\ hub'.msg = hub.msg
      BY <1>5, QueueStays
    <2>2. Last' = Last
      BY <2>1 DEF Last
    <2> QED BY <1>5, <2>1, <2>2 DEF Numbered
  <1> QED BY <1>3, <1>4, <1>5

\* A message is offered to a connection in at most two turns.
LEMMA StageStep ==
    ASSUME Shape, Places, Next, NEW d \in Clients
    PROVE  /\ Stage(d) \in 0..2 /\ Stage(d)' \in 0..2
           /\ Turn(d) => Stage(d) \in {0, 1} /\ Stage(d)' = Stage(d) + 1
           /\ ~Turn(d) /\ ~TakeMessage => Stage(d) <= Stage(d)'
  <1>1. Stage(d) \in 0..2 /\ Stage(d)' \in 0..2
    BY DEF Stage
  <1>2. ASSUME NEW c \in Clients, Turn(c)
        PROVE  hub'.at = hub.at /\ hub'.todo = hub.todo \ {c} /\ c \in hub.todo
               /\ hub.at \in {"room", "user"}
    BY <1>2, HubFields DEF At, Turn, OfferRoom, OfferUser
  <1>3. CASE Turn(d)
    BY <1>1, <1>2, <1>3 DEF Stage
  <1>4. ASSUME NEW c \in Clients, c # d, Turn(c) PROVE Stage(d)' = Stage(d)
    BY <1>2, <1>4 DEF Stage
  <1>5. CASE RoomDone
    <2>1. hub.at = "room" /\ hub'.at = "user"
      BY <1>5, HubFields DEF At, RoomDone
    <2> QED BY <1>3, <2>1 DEF Stage
  <1>6. ASSUME \/ RegisterClient \/ ForgetClient \/ UserDone \/ UnregisterLock
               \/ \E c \in Clients : TakeRegister(c) \/ TakeUnregister(c)
        PROVE  Stage(d)' = 2
    <2>1. hub'.at \in {"select", "forget", "register", "unregister"}
      BY <1>6, HubFields DEF At
    <2> QED BY <2>1 DEF Stage
  <1>7. ASSUME \/ Publish \/ Enqueue \/ Dies
               \/ \E c \in Clients :
                     \/ JoinRoomLock(c) \/ JoinEnds(c) \/ LeaveStep(c) \/ ReadFails(c)
                     \/ WriteFrame(c) \/ WriteStops(c)
                     \/ Connect(c) \/ ReadJoin(c) \/ ReadLeave(c) \/ PeerCloses(c)
        PROVE  Stage(d)' = Stage(d)
    BY <1>7, HubStays DEF Stage
  <1>8. ASSUME ~Turn(d), ~TakeMessage PROVE Stage(d)' = 2 \/ Stage(d)' = Stage(d) \/ RoomDone
    BY <1>4, <1>6, <1>7, <1>8, Actions DEF Turn
  <1> QED BY <1>1, <1>3, <1>5, <1>8

\* So every stream stays in order.
LEMMA OrderedStep ==
    ASSUME Shape, Places, Numbered, Ordered, Next PROVE Ordered'
  <1> SUFFICES ASSUME NEW d \in Clients PROVE Upto(Stream(d)', Last', Stage(d)')
    BY DEF Ordered
  <1>1. PICK s \in Seq(Nat), n \in Nat, k \in 0..2, j \in 0..2 :
           s = Stream(d) /\ n = Last /\ k = Stage(d) /\ j = Stage(d)'
    BY StreamSteps, StageStep DEF Numbered
  <1>2. Upto(s, n, k)
    BY <1>1 DEF Ordered
  <1>3. CASE TakeMessage
    <2>1. ~Turn(d)
      BY <1>3 DEF Turn, TakeMessage, OfferRoom, OfferUser
    <2>2. Stream(d)' = s /\ Last' = n + 1
      BY <1>1, <1>3, <2>1, StreamSteps, NumberedStep
    <2>3. Upto(s, n + 1, j)
      BY <1>2, MoreFrames
    <2> QED BY <1>1, <2>2, <2>3
  <1>4. CASE ~TakeMessage /\ ~Turn(d)
    <2>1. Stream(d)' = s /\ Last' = n /\ k <= j
      BY <1>1, <1>4, StreamSteps, NumberedStep, StageStep
    <2>2. Upto(s, n, j)
      BY <1>2, <2>1, MoreFrames
    <2> QED BY <1>1, <2>1, <2>2
  <1>5. CASE Turn(d)
    <2>1. PICK m \in hub.msg : /\ Sends(d) => Stream(d)' = Append(s, m.no)
                               /\ ~Sends(d) => Stream(d)' = s
      BY <1>1, <1>5, StreamSteps
    <2>2. m.no = n
      BY <1>1, <1>5, <2>1 DEF Numbered, Turn, OfferRoom, OfferUser
    <2>3. Last' = n
      <3>1. ~TakeMessage
        BY <1>5 DEF Turn, TakeMessage, OfferRoom, OfferUser
      <3> QED BY <1>1, <3>1, NumberedStep
    <2>4. k \in {0, 1} /\ j = k + 1
      BY <1>1, <1>5, StageStep
    <2>5. Upto(Append(s, n), n, j)
      BY <1>2, <2>4, AppendFrame
    <2>6. Upto(s, n, j)
      <3>1. k <= j
        BY <2>4
      <3> QED BY <1>2, <3>1, MoreFrames
    <2> QED BY <1>1, <2>1, <2>2, <2>3, <2>5, <2>6
  <1> QED BY <1>3, <1>4, <1>5

-----------------------------------------------------------------------------
(* Who is notified *)

\* A connection that reads is known to the hub, or about to be, or was dropped.
Known ==
    \A c \in Clients : reader[c] \in Reading =>
        c \in clients[UserOf[c]] \/ closed[c] \/ (hub.at = "register" /\ hub.client = c)

\* Who is owed a message was accepted before and is a connection of its user.
Owed(m) == \A c \in m.due : UserOf[c] = m.user /\ reader[c] \in Registered \cup {"done"}

\* Message n was sent to c, or c was dropped or is on its way out.
Reached(c, n) ==
    \/ \E i \in DOMAIN Stream(c) : Stream(c)[i] = n
    \/ closed[c]
    \/ reader[c] \in {"unregistering", "done"}

\* Once the hub is in its second loop, who is owed the message was sent it or
\* is still to come.
Notified ==
    /\ \A i \in 1..Len(broadcast) : Owed(broadcast[i])
    /\ hub.at \in {"room", "user"} => \A m \in hub.msg : Owed(m)
    /\ hub.at = "user" => \A m \in hub.msg : \A c \in m.due : c \in hub.todo \/ Reached(c, m.no)
    /\ \A m \in handled : \A c \in m.due : Reached(c, m.no)

\* From TakeRegister to RegisterClient nothing else moves the hub.
LEMMA KnownStep ==
    ASSUME Shape, Places, Known, Next PROVE Known'
  <1> SUFFICES ASSUME NEW d \in Clients, reader'[d] \in Reading
               PROVE  \/ d \in clients'[UserOf[d]] \/ closed'[d]
                      \/ hub'.at = "register" /\ hub'.client = d
    BY DEF Known
  <1>1. CASE TakeRegister(d)
    BY <1>1, HubFields DEF At
  <1>2. CASE ~TakeRegister(d)
    <2>1. reader[d] \in Reading
      BY <1>2, ReadersMove DEF Moves
    <2>2. /\ clients \in [Users -> SUBSET Clients] /\ UserOf[d] \in Users
          /\ closed \in [Clients -> BOOLEAN]
      BY UserOfAssumption DEF Shape, TypeOK
    <2>3. closed[d] => closed'[d]
      BY MapsGrow
    <2>4. CASE d \in clients[UserOf[d]] \/ closed[d]
      <3>1. CASE RegisterClient
        <4>1. clients' = [clients EXCEPT ![UserOf[hub.client]] = @ \cup {hub.client}]
          BY <3>1 DEF RegisterClient
        <4> QED BY <2>2, <2>3, <2>4, <4>1
      <3>2. CASE ForgetClient
        <4>1. /\ clients' = [clients EXCEPT ![UserOf[hub.client]] = @ \ {hub.client}]
              /\ reader[hub.client] = "done"
          BY <3>2 DEF ForgetClient, Places
        <4>2. d # hub.client
          BY <2>1, <4>1 DEF Reading, Leaving
        <4> QED BY <2>2, <2>3, <2>4, <4>1, <4>2
      <3>3. ASSUME NEW c \in Clients, Turn(c)
            PROVE  d \in clients[UserOf[d]] => d \in clients'[UserOf[d]] \/ closed'[d]
        <4>1. /\ d \in clients[UserOf[d]] => d \in clients'[UserOf[d]] \/ (d = c /\ Overflows(c))
              /\ closed' = [closed EXCEPT ![c] = @ \/ Overflows(c)]
          BY <2>2, <3>3, OfferFacts DEF Turn
        <4>2. d = c /\ Overflows(c) => closed'[d]
          BY <2>2, <4>1
        <4> QED BY <4>1, <4>2
      <3>4. CASE Dies
        BY <2>3, <2>4, <3>4, LeftAlone DEF roomVars
      <3>5. ASSUME NEW c \in Clients, JoinEnds(c) \/ LeaveStep(c) PROVE UNCHANGED clients
        BY <3>5, HubStays
      <3> QED BY <2>3, <2>4, <3>1, <3>2, <3>3, <3>4, <3>5, Actions, OthersStill DEF Turn, Still
    <2>5. CASE hub.at = "register" /\ hub.client = d
      <3>1. CASE RegisterClient
        <4>1. clients' = [clients EXCEPT ![UserOf[hub.client]] = @ \cup {hub.client}]
          BY <3>1 DEF RegisterClient
        <4> QED BY <2>2, <2>5, <4>1
      <3>2. CASE ~RegisterClient
        <4>1. ~UnregisterLock /\ ~ForgetClient /\ ~TakeMessage /\ ~RoomDone /\ ~UserDone
          BY <2>5 DEF UnregisterLock, ForgetClient, TakeMessage, RoomDone, UserDone
        <4>2. \A c \in Clients :
                 ~TakeRegister(c) /\ ~TakeUnregister(c) /\ ~OfferRoom(c) /\ ~OfferUser(c)
          BY <2>5 DEF TakeRegister, TakeUnregister, OfferRoom, OfferUser
        <4>3. UNCHANGED hub
          BY <3>2, <4>1, <4>2, Actions, HubStays
        <4> QED BY <2>5, <4>3
      <3> QED BY <3>1, <3>2
    <2> QED BY <2>1, <2>4, <2>5 DEF Known
  <1> QED BY <1>1, <1>2

\* What has reached a connection stays there.
LEMMA ReachedStays ==
    ASSUME Shape, Places, Next, NEW c \in Clients, NEW n, Reached(c, n)
    PROVE  Reached(c, n)'
  <1>1. CASE closed[c]
    BY <1>1, MapsGrow DEF Reached
  <1>2. CASE reader[c] \in {"unregistering", "done"}
    <2>1. reader'[c] = "done" \/ reader'[c] = "unregistering"
      <3>1. TakeUnregister(c) => reader'[c] = "done"
        BY DEF TakeUnregister, Shape, TypeOK
      <3> QED BY <1>2, <3>1, ReadersMove DEF Moves
    <2> QED BY <2>1 DEF Reached
  <1>3. ASSUME NEW i \in DOMAIN Stream(c), Stream(c)[i] = n
        PROVE  i \in DOMAIN Stream(c)' /\ Stream(c)'[i] = n
    <2>1. Stream(c) \in Seq(Nat)
      BY StreamSteps
    <2>2. PICK l \in Nat : l = Len(Stream(c)) /\ DOMAIN Stream(c) = 1..l
      BY <2>1, LenProperties
    <2>3. CASE Stream(c)' = Stream(c)
      BY <1>3, <2>3
    <2>4. CASE Stream(c)' # Stream(c)
      <3>1. PICK m \in hub.msg : Stream(c)' = Append(Stream(c), m.no)
        BY <2>4, StreamSteps
      <3>2. m.no \in Nat
        <4>1. 1..MaxMessages \subseteq Nat /\ hub \in HubState
          BY CapacityAssumption, HubFields
        <4> QED BY <3>1, <4>1 DEF HubState, Message
      <3>3. /\ Len(Stream(c)') = l + 1 /\ Stream(c)' \in Seq(Nat)
            /\ \A e \in 1..l : Stream(c)'[e] = Stream(c)[e]
        BY <2>1, <2>2, <3>1, <3>2, AppendProperties
      <3>4. DOMAIN Stream(c)' = 1..(l + 1)
        BY <3>3, LenProperties
      <3>5. i \in 1..l /\ i \in 1..(l + 1)
        BY <2>2
      <3> QED BY <1>3, <3>3, <3>4, <3>5
    <2> QED BY <2>3, <2>4
  <1> QED BY <1>1, <1>2, <1>3 DEF Reached

\* A turn reaches its connection, one way or another.
LEMMA TurnReaches ==
    ASSUME Shape, Places, Next, NEW c \in Clients, Turn(c), NEW m \in Message, hub.msg = {m}
    PROVE  Reached(c, m.no)'
  <1>1. /\ Sends(c) => Stream(c)' = Append(Stream(c), m.no)
        /\ closed'[c] = (closed[c] \/ Overflows(c))
    BY StreamSteps
  <1>2. CASE Sends(c)
    <2>1. Stream(c) \in Seq(Nat) /\ m.no \in Nat
      <3>1. 1..MaxMessages \subseteq Nat
        BY CapacityAssumption
      <3> QED BY <3>1, StreamSteps DEF Message
    <2>2. PICK l \in Nat : l = Len(Stream(c))
      BY <2>1, LenProperties
    <2>3. /\ Stream(c)' \in Seq(Nat) /\ Len(Stream(c)') = l + 1
          /\ Stream(c)'[l + 1] = m.no
      BY <1>1, <1>2, <2>1, <2>2, AppendProperties
    <2>4. DOMAIN Stream(c)' = 1..(l + 1)
      BY <2>3, LenProperties
    <2>5. l + 1 \in 1..(l + 1)
      OBVIOUS
    <2> QED BY <2>3, <2>4, <2>5 DEF Reached
  <1>3. CASE ~Sends(c)
    BY <1>1, <1>3 DEF Overflows, Reached
  <1> QED BY <1>2, <1>3

\* Owed in the next state.
OwedNext(m) ==
    \A c \in m.due : UserOf[c] = m.user /\ reader'[c] \in Registered \cup {"done"}

\* An accepted connection never becomes an unknown one.
LEMMA OwedStays ==
    ASSUME Shape, Next, NEW m \in Message, Owed(m) PROVE OwedNext(m)
  <1> SUFFICES ASSUME NEW c \in m.due
               PROVE  UserOf[c] = m.user /\ reader'[c] \in Registered \cup {"done"}
    BY DEF OwedNext
  <1>1. c \in Clients /\ UserOf[c] = m.user /\ reader[c] \in Registered \cup {"done"}
    BY DEF Message, Owed
  <1>2. TakeUnregister(c) => reader'[c] = "done"
    BY <1>1 DEF TakeUnregister, Shape, TypeOK
  <1> QED BY <1>1, <1>2, ReadersMove DEF Moves, Registered

\* The recipients of the messages that wait and of the one the hub is at.
LEMMA OwedStep ==
    ASSUME Shape, Places, Notified, Next
    PROVE  /\ \A i \in 1..Len(broadcast') : OwedNext(broadcast'[i])
           /\ hub'.at \in {"room", "user"} => \A m \in hub'.msg : OwedNext(m)
  <1>1. /\ broadcast \in Seq(Message) /\ hub \in HubState
        /\ \A i \in 1..Len(broadcast) : broadcast[i] \in Message
    BY HubFields, ElementOfSeq DEF Shape, TypeOK
  <1>2. PICK l \in Nat : l = Len(broadcast)
    BY <1>1, LenProperties
  <1>3. \A i \in 1..l : OwedNext(broadcast[i])
    BY <1>1, <1>2, OwedStays DEF Notified
  <1>4. hub.at \in {"room", "user"} => \A m \in hub.msg : OwedNext(m)
    BY <1>1, OwedStays DEF Notified, HubState
  <1>5. CASE TakeMessage
    <2>1. broadcast # <<>> /\ broadcast' = Tail(broadcast)
      BY <1>5 DEF TakeMessage
    <2>2. /\ l > 0 /\ Len(broadcast') = l - 1
          /\ \A i \in 1..(l - 1) : broadcast'[i] = broadcast[i + 1]
          /\ Head(broadcast) = broadcast[1]
      BY <1>1, <1>2, <2>1, HeadTailProperties, EmptySeq
    <2>3. hub'.msg = {Head(broadcast)}
      BY <1>5, HubFields DEF At
    <2>4. 1 \in 1..l /\ \A i \in 1..(l - 1) : i + 1 \in 1..l
      BY <2>2
    <2> QED BY <1>3, <2>2, <2>3, <2>4
  <1>6. CASE Enqueue
    <2>1. PICK t \in Tasks, u \in Users :
             broadcast' = Append(broadcast, [no |-> published + 1, task |-> t, user |-> u,
                                             due |-> Connected(u)])
      BY <1>6 DEF Enqueue
    <2>2. UNCHANGED <<hub, reader>>
      BY <1>6 DEF Enqueue, connVars
    <2>3. PICK r \in Message : r = [no |-> published + 1, task |-> t, user |-> u,
                                    due |-> Connected(u)]
      <3>1. published + 1 \in 1..MaxMessages
        BY <1>6, CapacityAssumption DEF Enqueue, Shape, TypeOK
      <3> QED BY <3>1 DEF Message, Connected
    <2>4. /\ Len(broadcast') = l + 1
          /\ \A i \in 1..l : broadcast'[i] = broadcast[i]
          /\ broadcast'[l + 1] = r
      BY <1>1, <1>2, <2>1, <2>3, AppendProperties
    <2>5. OwedNext(r)
      <3>1. \A c \in r.due : UserOf[c] = r.user /\ reader[c] \in Reading
        BY <2>3 DEF Connected, Reading
      <3> QED BY <2>2, <3>1 DEF OwedNext, Registered
    <2>6. \A i \in 1..(l + 1) : i \in 1..l \/ i = l + 1
      OBVIOUS
    <2> QED BY <1>3, <1>4, <2>2, <2>4, <2>5, <2>6
  <1>7. CASE ~TakeMessage /\ ~Enqueue
    <2>1. /\ broadcast' = broadcast
          /\ hub'.at \in {"room", "user"} => hub.at \in {"room", "user"} /\ hub'.msg = hub.msg
      BY <1>7, QueueStays
    <2> QED BY <1>2, <1>3, <1>4, <2>1
  <1> QED BY <1>5, <1>6, <1>7

\* How the hub comes to be in its second loop, and when it is done.
LEMMA SecondLoop ==
    ASSUME Shape, Places, Next
    PROVE  /\ hub'.at = "user" => RoomDone \/ UNCHANGED hub \/ \E c \in Clients : Turn(c)
           /\ ~UserDone => UNCHANGED handled
  <1>1. ASSUME \/ RegisterClient \/ ForgetClient \/ UserDone \/ UnregisterLock \/ TakeMessage
               \/ \E c \in Clients : TakeRegister(c) \/ TakeUnregister(c)
        PROVE  hub'.at \in {"select", "forget", "register", "unregister", "room"}
    BY <1>1, HubFields DEF At
  <1>2. ASSUME \/ Publish \/ Enqueue \/ RegisterClient \/ UnregisterLock \/ ForgetClient
               \/ TakeMessage \/ RoomDone \/ Dies
        PROVE  UNCHANGED handled
    BY <1>2, LeftAlone DEF Publish, Enqueue, RegisterClient, UnregisterLock, ForgetClient,
                        TakeMessage, RoomDone, histVars
  <1>3. ASSUME NEW c \in Clients,
               \/ TakeRegister(c) \/ TakeUnregister(c) \/ OfferRoom(c) \/ OfferUser(c)
               \/ JoinRoomLock(c) \/ JoinEnds(c) \/ LeaveStep(c) \/ ReadFails(c)
               \/ WriteFrame(c) \/ WriteStops(c)
               \/ Connect(c) \/ ReadJoin(c) \/ ReadLeave(c) \/ PeerCloses(c)
        PROVE  UNCHANGED handled
    BY <1>3, LeftAlone DEF TakeRegister, TakeUnregister, OfferRoom, OfferUser, JoinRoomLock,
                        ReadFails, WriteFrame, WriteStops, Connect, ReadJoin, ReadLeave,
                        PeerCloses, histVars
  <1>4. ~UserDone => UNCHANGED handled
    BY <1>2, <1>3, Actions
  <1>5. hub'.at = "user" => RoomDone \/ UNCHANGED hub \/ \E c \in Clients : Turn(c)
    BY <1>1, Actions, HubStays DEF Turn
  <1> QED BY <1>4, <1>5

\* RoomDone starts the second loop with every known connection of the user.
LEMMA NotifiedStep ==
    ASSUME Shape, Places, Known, Notified, Next PROVE Notified'
  <1>1. /\ hub \in HubState /\ handled \subseteq Message
        /\ \A m \in Message : m.due \subseteq Clients /\ m.user \in Users
    BY HubFields DEF Shape, TypeOK, Message
  <1>2. ASSUME hub'.at = "user", NEW m \in hub'.msg, NEW c \in m.due
        PROVE  c \in hub'.todo \/ Reached(c, m.no)'
    <2>1. CASE RoomDone
      <3>1. PICK x \in hub.msg : hub'.msg = hub.msg /\ hub'.todo = clients[x.user]
        BY <2>1, HubFields DEF At
      <3>2. PICK y \in Message : hub.msg = {y}
        BY <2>1 DEF RoomDone, Places
      <3>3. x = m /\ m \in Message /\ m \in hub.msg
        BY <1>2, <3>1, <3>2
      <3>4. c \in Clients /\ UserOf[c] = m.user /\ reader[c] \in Registered \cup {"done"}
        BY <1>1, <1>2, <2>1, <3>3 DEF Notified, Owed, RoomDone
      <3>5. CASE reader[c] \in Reading
        <4>1. c \in clients[UserOf[c]] \/ closed[c]
          BY <2>1, <3>4, <3>5 DEF Known, RoomDone
        <4>2. closed[c] => Reached(c, m.no)
          BY DEF Reached
        <4> QED BY <3>1, <3>3, <3>4, <4>1, <4>2, ReachedStays
      <3>6. CASE reader[c] \notin Reading
        <4>1. Reached(c, m.no)
          BY <3>4, <3>6 DEF Registered, Reached
        <4> QED BY <3>4, <4>1, ReachedStays
      <3> QED BY <3>5, <3>6
    <2>2. CASE UNCHANGED hub
      <3>1. hub.at = "user" /\ m \in hub.msg /\ m \in Message /\ c \in Clients
        BY <1>1, <1>2, <2>2 DEF HubState
      <3>2. c \in hub.todo \/ Reached(c, m.no)
        BY <1>2, <3>1 DEF Notified
      <3> QED BY <2>2, <3>1, <3>2, ReachedStays
    <2>3. ASSUME NEW d \in Clients, Turn(d) PROVE c \in hub'.todo \/ Reached(c, m.no)'
      <3>1. hub'.at = hub.at /\ hub'.msg = hub.msg /\ hub'.todo = hub.todo \ {d}
        BY <2>3, HubFields DEF At, Turn
      <3>2. hub.at = "user" /\ m \in hub.msg /\ m \in Message /\ c \in Clients
        BY <1>1, <1>2, <3>1 DEF HubState
      <3>3. c \in hub.todo \/ Reached(c, m.no)
        BY <1>2, <3>2 DEF Notified
      <3>4. CASE c = d
        <4>1. hub.msg = {m}
          BY <3>2 DEF Places
        <4> QED BY <2>3, <3>2, <3>4, <4>1, TurnReaches
      <3>5. CASE c # d
        BY <3>1, <3>2, <3>3, <3>5, ReachedStays
      <3> QED BY <3>4, <3>5
    <2> QED BY <1>2, <2>1, <2>2, <2>3, SecondLoop
  <1>3. ASSUME NEW m \in handled', NEW c \in m.due PROVE Reached(c, m.no)'
    <2>1. CASE m \in handled
      <3>1. c \in Clients /\ Reached(c, m.no)
        BY <1>1, <1>3, <2>1 DEF Notified
      <3> QED BY <3>1, ReachedStays
    <2>2. CASE m \notin handled
      <3>1. UserDone
        BY <1>3, <2>2, SecondLoop
      <3>2. hub.at = "user" /\ hub.todo = {} /\ m \in hub.msg
        BY <1>3, <2>2, <3>1 DEF UserDone, Places
      <3>3. m \in Message
        BY <1>1, <3>2 DEF HubState
      <3>4. c \in Clients /\ Reached(c, m.no)
        BY <1>1, <1>3, <3>2, <3>3 DEF Notified
      <3> QED BY <3>4, ReachedStays
    <2> QED BY <2>1, <2>2
  <1>4. /\ (\A i \in 1..Len(broadcast) : Owed(broadcast[i]))'
        /\ (hub.at \in {"room", "user"} => \A m \in hub.msg : Owed(m))'
    BY OwedStep DEF Owed, OwedNext
  <1> QED BY <1>2, <1>3, <1>4 DEF Notified

-----------------------------------------------------------------------------
(* The inductive invariant and what follows from it *)

\* All of it together.
IInv ==
    /\ Shape /\ Places
    /\ MembershipAgrees /\ GoneIsForgotten /\ Killers
    /\ HolderInSection /\ Crossings /\ Overlaps
    /\ Numbered /\ Ordered
    /\ Known /\ Notified

\* It holds when the server starts,
LEMMA Initial == Init => IInv
  <1> SUFFICES ASSUME Init PROVE IInv
    OBVIOUS
  <1>0. ASSUME ~panicked, \A c \in Clients : ~closed[c], hub.at \notin {"room", "user"}
        PROVE  Killers
    BY <1>0 DEF Killers
  <1> USE DEF Init
  <1>1. /\ \A S : <<>> \in Seq(S)
        /\ Len(<<>>) = 0 /\ <<>> \o <<>> = <<>>
    OBVIOUS
  <1>2. hub = Idle /\ Idle \in HubState /\ Idle.at = "select" /\ Idle.client = None
    BY DEF Idle, HubState
  <1>3. Shape
    <2>1. 0 \in 0..MaxMessages /\ 0 <= BroadcastCap /\ 0 <= SendCap /\ 0 + 0 <= MaxMessages
      BY CapacityAssumption
    <2> QED BY <1>1, <1>2, <2>1 DEF Shape, TypeOK, HubState, Leaving
  <1>4. Places
    BY <1>2 DEF Places
  <1>5. MembershipAgrees /\ GoneIsForgotten /\ Killers
    <2>1. MembershipAgrees
      BY DEF MembershipAgrees
    <2>2. \A c \in Clients : reader[c] # "done" /\ ~closed[c]
      OBVIOUS
    <2>3. GoneIsForgotten
      BY <2>2, Zenon DEF GoneIsForgotten
    <2>4. ~panicked
      OBVIOUS
    <2>5. hub.at \notin {"room", "user"}
      BY <1>2
    <2>6. \A c \in Clients : ~closed[c]
      BY <2>2
    <2>7. Killers
      BY <1>0, <2>4, <2>5, <2>6, Zenon
    <2> QED BY <2>1, <2>3, <2>7
  <1>6. Numbered
    <2>1. Last = 0
      <3>1. published = 0 /\ Len(broadcast) = 0
        BY <1>1
      <3>2. 0 - 0 = 0
        OBVIOUS
      <3> QED BY <3>1, <3>2, Zenon DEF Last
    <2> QED BY <1>1, <1>2, <2>1 DEF Numbered
  <1>7. Ordered
    <2> SUFFICES ASSUME NEW c \in Clients PROVE Upto(Stream(c), Last, Stage(c))
      BY DEF Ordered
    <2>1. Stream(c) = <<>>
      BY <1>1 DEF Stream
    <2>2. Len(Stream(c)) = 0
      BY <1>1, <2>1
    <2>3. 1..0 = {}
      OBVIOUS
    <2> QED BY <2>2, <2>3, Zenon DEF Upto
  <1>8. Known
    BY DEF Known, Reading, Leaving
  <1>9. Notified
    <2>1. 1..Len(broadcast) = {}
      BY <1>1
    <2> QED BY <1>2, <2>1 DEF Notified
  <1>10. HolderInSection /\ Crossings /\ Overlaps
    <2>1. hub.at = "select" /\ mu = "free" /\ \A c \in Clients : reader[c] = "off"
      BY <1>2
    <2>2. InRooms = {}
      BY <2>1 DEF InRooms, HubInRooms, Leaving
    <2> QED BY <2>1, <2>2, HolderAssumption DEF HolderInSection, Crossings, Overlaps
  <1> QED BY <1>3, <1>4, <1>5, <1>6, <1>7, <1>8, <1>9, <1>10 DEF IInv

\* every step keeps each conjunct, and a stutter changes nothing,
LEMMA Inductive == IInv /\ [Next]_vars => IInv'
  <1>1. ASSUME IInv, Next PROVE IInv'
    BY <1>1, ShapeStep, PlacesStep, MembershipStep, GoneStep, KillersStep, HolderStep,
       CrossingsStep, OverlapsStep, NumberedStep, OrderedStep, KnownStep, NotifiedStep DEF IInv
  <1>2. ASSUME IInv, UNCHANGED vars PROVE IInv'
    <2>5. TypeOK'
      <3>1. TypeOK
        BY <1>2 DEF IInv, Shape
      <3> QED BY <1>2, <3>1 DEF vars, TypeOK
    <2> USE <1>2 DEF vars
    <2>1. Shape' /\ Places'
      BY <2>5 DEF IInv, Shape, Places
    <2>4. MembershipAgrees' /\ GoneIsForgotten' /\ Killers'
      BY DEF IInv, MembershipAgrees, GoneIsForgotten, Killers
    <2>6. HolderInSection' /\ Crossings' /\ Overlaps'
      BY DEF IInv, HolderInSection, Crossings, Overlaps, InRooms, HubInRooms
    <2>2. Numbered' /\ Ordered'
      BY DEF IInv, Numbered, Ordered, Last, Stream, Stage
    <2>3. Known' /\ Notified'
      <3>1. Known'
        BY DEF IInv, Known
      <3>2. \A m : Owed(m) <=> OwedNext(m)
        BY DEF Owed, OwedNext
      <3>3. \A c, n : Reached(c, n) <=> Reached(c, n)'
        BY Zenon DEF Reached, Stream
      <3>4. Notified
        BY DEF IInv
      <3>5. Notified'
        BY <3>2, <3>3, <3>4 DEF Notified, Owed, OwedNext
      <3> QED BY <3>1, <3>5
    <2> QED BY <2>1, <2>2, <2>3, <2>4, <2>6 DEF IInv
  <1> QED BY <1>1, <1>2

\* so it holds in every behaviour.
LEMMA Invariant == Spec => []IInv
  BY Initial, Inductive, PTL DEF Spec

\* The variables of the hub and of the connections keep their types, the
\* channels stay within their capacity (hub.go, websocket_handler.go).
THEOREM TypeCorrect == Spec => []TypeOK
  <1>1. IInv => TypeOK
    BY DEF IInv, Shape
  <1> QED BY <1>1, Invariant, PTL

\* client.Rooms knows every room the connection is in, and names no other but
\* after an overflow or an overlap of a JoinRoom with a LeaveRoom of the same
\* room, whatever the order of joining, leaving and unregistering (hub.go:
\* JoinRoom writes to a room that LeaveRoom, without the lock, may delete).
THEOREM MembershipKept == Spec => []MembershipAgrees
  <1>1. IInv => MembershipAgrees
    BY DEF IInv
  <1> QED BY <1>1, Invariant, PTL

\* A connection that was unregistered is in no map and never enters one again
\* (hub.go, the Unregister case).
THEOREM GoneStaysForgotten == Spec => []GoneIsForgotten
  <1>1. IInv => GoneIsForgotten
    BY DEF IInv
  <1> QED BY <1>1, Invariant, PTL

\* The goroutine that holds h.mu is inside a section of its own, alone, and has
\* nothing to wait for: no one is ever blocked on the lock for good (hub.go:27,
\* JoinRoom and the cases of Run).
THEOREM LockNeverStuck == Spec => []HolderInSection
  <1>1. IInv => HolderInSection
    BY DEF IInv
  <1> QED BY <1>1, Invariant, PTL

\* The server dies only after a channel overflowed, or after a LeaveRoom, the
\* one user of the maps that takes no lock, was in them together with another
\* goroutine: also when it was back in its read loop at the time of the panic
\* (the assignment to a room that is gone, in JoinRoom).
THEOREM DeathHasCause == Spec => []PanicHasCause
  <1>1. IInv => PanicHasCause
    <2>1. IInv => cause \subseteq {"overflow", "race"}
      BY DEF IInv, Shape, TypeOK
    <2> QED BY <2>1 DEF IInv, Killers, PanicHasCause
  <1> QED BY <1>1, Invariant, PTL

\* Every connection is sent the messages in the order of publication and none
\* of them more than twice (the two loops of the Broadcast case).
THEOREM OrderKept == Spec => []DeliveredInOrder
  <1>1. IInv => DeliveredInOrder
    <2> SUFFICES ASSUME IInv, NEW c \in Clients
                 PROVE  /\ \A i, j \in DOMAIN Stream(c) : i < j => Stream(c)[i] <= Stream(c)[j]
                        /\ \A i \in DOMAIN Stream(c) :
                              i + 2 \in DOMAIN Stream(c) => Stream(c)[i] # Stream(c)[i + 2]
      BY DEF DeliveredInOrder, Stream
    <2>1. /\ send[c] \in Seq(1..MaxMessages) /\ got[c] \in Seq(1..MaxMessages)
          /\ Upto(Stream(c), Last, Stage(c))
      BY DEF IInv, Shape, TypeOK, Ordered
    <2>2. Stream(c) \in Seq(1..MaxMessages)
      BY <2>1, ConcatProperties DEF Stream
    <2>3. PICK l \in Nat : l = Len(Stream(c)) /\ DOMAIN Stream(c) = 1..l
      BY <2>2, LenProperties
    <2>4. \A i \in 1..l : i + 2 \in 1..l => i + 2 <= l
      OBVIOUS
    <2> QED BY <2>1, <2>3, <2>4, Zenon DEF Upto
  <1> QED BY <1>1, Invariant, PTL

\* No connection that was accepted before a message for its user was published
\* misses it, unless it was dropped or is on its way out (websocket_handler.go
\* and both loops of the Broadcast case).
THEOREM NobodyMissed == Spec => []RecipientsNotified
  <1>1. IInv => RecipientsNotified
    BY DEF IInv, Notified, Reached, Stream, RecipientsNotified
  <1> QED BY <1>1, Invariant, PTL

-----------------------------------------------------------------------------
(* The hub delivers a feed *)

\* The variables of the feed.
Opens == {[no |-> m.no, due |-> m.due] : m \in Underway}
Streams == [c \in Clients |-> got[c] \o send[c]]
\* readPump comes to its end.
Quits(c) == ReadFails(c) \/ JoinPanics(c)

Ending == {c \in Clients : reader[c] \in {"unregistering", "done"}}
Dropped == {c \in Clients : closed[c]}

\* What the feed has, apart from the messages it is delivering.
Rest == <<published, Last, Streams, got, Ending, Dropped>>

\* The actions of the feed in these terms.
LEMMA FeedActions ==
    /\ UNCHANGED Rest /\ UNCHANGED Opens => UNCHANGED Delivery!vars
    /\ \A due :
          /\ published' = published + 1
          /\ Opens' = Opens \cup {[no |-> published + 1, due |-> due]}
          /\ UNCHANGED <<Last, Streams, got, Ending, Dropped>>
          => Delivery!Publish(due)
    /\ /\ Last < published /\ \A m \in Opens : m.no > Last
       /\ Last' = Last + 1
       /\ UNCHANGED <<published, Opens, Streams, got, Ending, Dropped>>
       => Delivery!Begin
    /\ /\ \E m \in Opens :
             /\ m.no = Last
             /\ \A c \in m.due :
                   \/ \E i \in DOMAIN Streams[c] : Streams[c][i] = m.no
                   \/ c \in Ending \cup Dropped
             /\ Opens' = Opens \ {m}
       /\ UNCHANGED Rest
       => Delivery!Complete
    /\ \A c :
          /\ c \notin Dropped
          /\ \E m \in Opens : m.no = Last
          /\ ~\E i, j \in DOMAIN Streams[c] : i # j /\ Streams[c][i] = Last /\ Streams[c][j] = Last
          /\ Streams' = [Streams EXCEPT ![c] = Append(@, Last)]
          /\ UNCHANGED <<published, Last, Opens, got, Ending, Dropped>>
          => Delivery!Send(c)
    /\ \A c :
          /\ Len(got[c]) < Len(Streams[c])
          /\ got' = [got EXCEPT ![c] = Append(@, Streams[c][Len(@) + 1])]
          /\ UNCHANGED <<published, Last, Opens, Streams, Ending, Dropped>>
          => Delivery!Write(c)
    /\ \A c :
          /\ Ending' = Ending \cup {c}
          /\ UNCHANGED <<published, Last, Opens, Streams, got, Dropped>>
          => Delivery!Leave(c)
    /\ \A c :
          /\ Dropped' = Dropped \cup {c}
          /\ UNCHANGED <<published, Last, Opens, Streams, got, Ending>>
          => Delivery!Drop(c)
  <1> USE DEF Rest, Opens, Streams, Ending, Dropped, Last
  <1>1. UNCHANGED Rest /\ UNCHANGED Opens => UNCHANGED Delivery!vars
    BY DEF Delivery!vars
  <1>2. ASSUME NEW due, published' = published + 1,
               Opens' = Opens \cup {[no |-> published + 1, due |-> due]},
               UNCHANGED <<Last, Streams, got, Ending, Dropped>>
        PROVE  Delivery!Publish(due)
    BY <1>2 DEF Delivery!Publish
  <1>3. ASSUME Last < published, \A m \in Opens : m.no > Last, Last' = Last + 1,
               UNCHANGED <<published, Opens, Streams, got, Ending, Dropped>>
        PROVE  Delivery!Begin
    BY <1>3 DEF Delivery!Begin
  <1>4. ASSUME \E m \in Opens :
                  /\ m.no = Last
                  /\ \A c \in m.due :
                        \/ \E i \in DOMAIN Streams[c] : Streams[c][i] = m.no
                        \/ c \in Ending \cup Dropped
                  /\ Opens' = Opens \ {m},
               UNCHANGED Rest
        PROVE  Delivery!Complete
    BY <1>4 DEF Delivery!Complete, Delivery!Was
  <1>5. ASSUME NEW c, c \notin Dropped, \E m \in Opens : m.no = Last,
               ~\E i, j \in DOMAIN Streams[c] :
                   i # j /\ Streams[c][i] = Last /\ Streams[c][j] = Last,
               Streams' = [Streams EXCEPT ![c] = Append(@, Last)],
               UNCHANGED <<published, Last, Opens, got, Ending, Dropped>>
        PROVE  Delivery!Send(c)
    BY <1>5 DEF Delivery!Send, Delivery!WasTwice
  <1>6. ASSUME NEW c, Len(got[c]) < Len(Streams[c]),
               got' = [got EXCEPT ![c] = Append(@, Streams[c][Len(@) + 1])],
               UNCHANGED <<published, Last, Opens, Streams, Ending, Dropped>>
        PROVE  Delivery!Write(c)
    BY <1>6 DEF Delivery!Write
  <1>7. ASSUME NEW c, Ending' = Ending \cup {c},
               UNCHANGED <<published, Last, Opens, Streams, got, Dropped>>
        PROVE  Delivery!Leave(c)
    BY <1>7 DEF Delivery!Leave
  <1>8. ASSUME NEW c, Dropped' = Dropped \cup {c},
               UNCHANGED <<published, Last, Opens, Streams, got, Ending>>
        PROVE  Delivery!Drop(c)
    BY <1>8 DEF Delivery!Drop
  <1> HIDE DEF Rest, Opens, Streams, Ending, Dropped, Last
  <1> QED BY <1>1, <1>2, <1>3, <1>4, <1>5, <1>6, <1>7, <1>8

\* Only UserDone takes the hub out of the two loops.
LEMMA LoopStays ==
    ASSUME Shape, Places, Next, ~UserDone, hub.at \in {"room", "user"}
    PROVE  hub'.at \in {"room", "user"}
  <1>1. ~RegisterClient /\ ~UnregisterLock /\ ~ForgetClient /\ ~TakeMessage
    BY DEF RegisterClient, UnregisterLock, ForgetClient, TakeMessage
  <1>2. \A c \in Clients : ~TakeRegister(c) /\ ~TakeUnregister(c)
    BY DEF TakeRegister, TakeUnregister
  <1>3. RoomDone => hub'.at = "user"
    BY HubFields DEF At
  <1>4. \A c \in Clients : Turn(c) => hub'.at = hub.at
    BY HubFields DEF At, Turn
  <1>5. ASSUME \/ Publish \/ Enqueue \/ Dies
               \/ \E c \in Clients :
                     \/ JoinRoomLock(c) \/ JoinEnds(c) \/ LeaveStep(c) \/ ReadFails(c)
                     \/ WriteFrame(c) \/ WriteStops(c)
                     \/ Connect(c) \/ ReadJoin(c) \/ ReadLeave(c) \/ PeerCloses(c)
        PROVE  hub'.at = hub.at
    BY <1>5, HubStays
  <1> QED BY <1>1, <1>2, <1>3, <1>4, <1>5, Actions DEF Turn

\* What the hub still has to deliver changes in three actions.
LEMMA UnderwaySteps ==
    ASSUME IInv, Next
    PROVE  /\ ~Enqueue /\ ~UserDone => Opens' = Opens
           /\ Enqueue => \E D \in SUBSET Clients :
                            Opens' = Opens \cup {[no |-> published + 1, due |-> D]}
           /\ UserDone => \E m \in hub.msg : /\ [no |-> m.no, due |-> m.due] \in Opens
                                             /\ Opens' = Opens \ {[no |-> m.no, due |-> m.due]}
           /\ TakeMessage => \A m \in Opens : m.no > Last
           /\ hub.at \in {"room", "user"} => \E m \in Opens : m.no = Last
  <1> DEFINE Short(m) == [no |-> m.no, due |-> m.due]
             Now == IF hub.at \in {"room", "user"} THEN hub.msg ELSE {}
             Queued == {broadcast[i] : i \in 1..Len(broadcast)}
  <1>1. /\ Shape /\ Places /\ Numbered
        /\ broadcast \in Seq(Message) /\ hub \in HubState /\ published \in Nat
    BY HubFields, CapacityAssumption DEF IInv, Shape, TypeOK
  <1>2. PICK l \in Nat, n \in Nat : l = Len(broadcast) /\ n = Last /\ n + l = published
    <2>1. PICK l \in Nat, n \in Nat : l = Len(broadcast) /\ n = Last
      BY <1>1, LenProperties DEF Numbered
    <2>2. n = published - l
      BY <2>1 DEF Last
    <2> QED BY <1>1, <2>1, <2>2
  <1>3. /\ \A i \in 1..l : broadcast[i] \in Message /\ broadcast[i].no = n + i
        /\ hub.at \in {"room", "user"} => \E m \in Message : hub.msg = {m} /\ m.no = n
    BY <1>1, <1>2, ElementOfSeq DEF Numbered, Places
  <1>4. Opens = {Short(m) : m \in Queued \cup Now}
    <2>1. DOMAIN broadcast = 1..Len(broadcast)
      BY <1>1, LenProperties
    <2> QED BY <2>1 DEF Opens, Underway
  <1>5. Opens' = {Short(m) : m \in Queued' \cup Now'}
    <2>1. broadcast' \in Seq(Message)
      BY <1>1, ShapeStep DEF Shape, TypeOK
    <2>2. DOMAIN broadcast' = 1..Len(broadcast')
      BY <2>1, LenProperties
    <2> QED BY <2>2 DEF Opens, Underway
  <1>6. \A m \in Queued : m.no > n
    BY <1>2, <1>3
  <1>a. hub.at \in {"room", "user"} => \E m \in Opens : m.no = Last
    <2> SUFFICES ASSUME hub.at \in {"room", "user"} PROVE \E m \in Opens : m.no = Last
      OBVIOUS
    <2>1. PICK m \in Now : m.no = Last
      BY <1>2, <1>3
    <2>2. Short(m) \in Opens /\ Short(m).no = Last
      BY <1>4, <2>1
    <2> QED BY <2>2
  <1> HIDE DEF Short, Now, Queued
  <1>7. CASE TakeMessage
    <2>1. /\ broadcast # <<>> /\ broadcast' = Tail(broadcast) /\ hub.at = "select"
          /\ hub'.at = "room" /\ hub'.msg = {Head(broadcast)}
      BY <1>1, <1>7, HubFields DEF TakeMessage, At
    <2>2. /\ l > 0 /\ Len(broadcast') = l - 1
          /\ \A i \in 1..(l - 1) : broadcast'[i] = broadcast[i + 1]
          /\ Head(broadcast) = broadcast[1]
      BY <1>1, <1>2, <2>1, HeadTailProperties, EmptySeq
    <2>3. Now = {} /\ Now' = {broadcast[1]}
      BY <2>1, <2>2 DEF Now
    <2>4. Queued = Queued' \cup {broadcast[1]}
      <3>1. \A i \in 1..l : i = 1 \/ (i - 1 \in 1..(l - 1) /\ (i - 1) + 1 = i)
        BY <2>2
      <3>2. 1 \in 1..l /\ \A i \in 1..(l - 1) : i + 1 \in 1..l
        BY <2>2
      <3>3. Queued = {broadcast[i] : i \in 1..l} /\ Queued' = {broadcast'[i] : i \in 1..(l - 1)}
        BY <1>2, <2>2 DEF Queued
      <3>4. ASSUME NEW i \in 1..l
            PROVE  broadcast[i] \in Queued' \cup {broadcast[1]}
        <4>1. CASE i = 1
          BY <4>1
        <4>2. CASE i # 1
          <5>1. PICK j \in 1..(l - 1) : j + 1 = i
            BY <3>1, <4>2
          <5>2. broadcast'[j] = broadcast[i]
            BY <2>2, <5>1
          <5>3. broadcast'[j] \in Queued'
            BY <3>3
          <5> QED BY <5>2, <5>3
        <4> QED BY <4>1, <4>2
      <3>5. ASSUME NEW i \in 1..(l - 1)
            PROVE  broadcast'[i] \in Queued
        <4>1. broadcast'[i] = broadcast[i + 1] /\ i + 1 \in 1..l
          BY <2>2, <3>2
        <4> QED BY <3>3, <4>1
      <3>6. broadcast[1] \in Queued
        BY <3>2, <3>3
      <3>7. Queued' \subseteq Queued
        BY <3>3, <3>5
      <3>8. Queued \subseteq Queued' \cup {broadcast[1]}
        BY <3>3, <3>4
      <3> QED BY <3>6, <3>7, <3>8
    <2>5. Opens' = Opens
      BY <1>4, <1>5, <2>3, <2>4
    <2>6. \A m \in Opens : m.no > n
      <3>1. \A m \in Queued : Short(m).no > n
        BY <1>6 DEF Short
      <3> QED BY <1>4, <2>3, <3>1
    <2>7. ~Enqueue /\ ~UserDone
      BY <2>1, <2>2, <1>2 DEF UserDone, Enqueue, TakeMessage, IInv
    <2> QED BY <1>2, <1>a, <2>1, <2>5, <2>6, <2>7
  <1>8. CASE Enqueue
    <2>1. PICK t \in Tasks, u \in Users :
             broadcast' = Append(broadcast, [no |-> published + 1, task |-> t, user |-> u,
                                             due |-> Connected(u)])
      BY <1>8 DEF Enqueue
    <2>2. published' = published + 1 /\ UNCHANGED hub
      BY <1>8 DEF Enqueue
    <2>3. PICK r \in Message : r = [no |-> published + 1, task |-> t, user |-> u,
                                    due |-> Connected(u)]
      <3>1. published + 1 \in 1..MaxMessages
        BY <1>1, <1>8, CapacityAssumption DEF Enqueue, Shape, TypeOK
      <3> QED BY <3>1 DEF Message, Connected
    <2>4. /\ Len(broadcast') = l + 1
          /\ \A i \in 1..l : broadcast'[i] = broadcast[i]
          /\ broadcast'[l + 1] = r
      BY <1>1, <1>2, <2>1, <2>3, AppendProperties
    <2>5. Queued' = Queued \cup {r}
      <3>1. \A i \in 1..(l + 1) : i \in 1..l \/ i = l + 1
        OBVIOUS
      <3>2. l + 1 \in 1..(l + 1) /\ 1..l \subseteq 1..(l + 1)
        OBVIOUS
      <3>3. Queued = {broadcast[i] : i \in 1..l} /\ Queued' = {broadcast'[i] : i \in 1..(l + 1)}
        BY <1>2, <2>4 DEF Queued
      <3> QED BY <2>4, <3>1, <3>2, <3>3
    <2>6. Now' = Now
      BY <2>2 DEF Now
    <2>7. Opens' = Opens \cup {Short(r)}
      BY <1>4, <1>5, <2>5, <2>6
    <2>8. PICK D \in SUBSET Clients : Short(r) = [no |-> published + 1, due |-> D]
      BY <2>3 DEF Short, Connected
    <2>9. ~TakeMessage /\ ~UserDone
      <3>1. TakeMessage \/ UserDone => published' = published
        BY DEF TakeMessage, UserDone, histVars
      <3> QED BY <1>1, <2>2, <3>1
    <2> QED BY <1>a, <1>8, <2>7, <2>8, <2>9
  <1>9. CASE UserDone
    <2>1. PICK m \in Message : hub.at = "user" /\ hub.msg = {m} /\ m.no = n
      BY <1>3, <1>9 DEF UserDone
    <2>2. UNCHANGED broadcast /\ hub'.at = "select"
      BY <1>1, <1>9, HubFields DEF UserDone
    <2>3. Queued' = Queued /\ Now' = {} /\ Now = {m}
      BY <2>1, <2>2 DEF Queued, Now
    <2>4. \A q \in Queued : Short(q) # Short(m)
      <3>1. \A q \in Queued : Short(q).no > n
        BY <1>6 DEF Short
      <3>2. Short(m).no = n
        BY <2>1 DEF Short
      <3> QED BY <3>1, <3>2
    <2>5. Short(m) \in Opens /\ Opens' = Opens \ {Short(m)}
      BY <1>4, <1>5, <2>3, <2>4
    <2>6. ~Enqueue /\ ~TakeMessage
      BY <2>1, <2>2 DEF Enqueue, TakeMessage
    <2> QED BY <1>a, <1>9, <2>1, <2>5, <2>6 DEF Short
  <1>10. CASE ~TakeMessage /\ ~Enqueue /\ ~UserDone
    <2>1. UNCHANGED broadcast
      BY <1>1, <1>10, QueueStays
    <2>2. Now' = Now
      <3>1. hub'.at \in {"room", "user"} => hub.at \in {"room", "user"} /\ hub'.msg = hub.msg
        BY <1>1, <1>10, QueueStays
      <3>2. hub.at \in {"room", "user"} => hub'.at \in {"room", "user"}
        BY <1>1, <1>10, LoopStays
      <3> QED BY <3>1, <3>2 DEF Now
    <2>3. Opens' = Opens
      BY <1>4, <1>5, <2>1, <2>2 DEF Queued
    <2> QED BY <1>a, <1>10, <2>3
  <1> QED BY <1>7, <1>8, <1>9, <1>10

\* The streams, and which connections are dropped or on their way out.
LEMMA PeersSteps ==
    ASSUME IInv, Next
    PROVE  /\ (\A c \in Clients : ~Turn(c)) => Streams' = Streams
           /\ \A c \in Clients : Turn(c) =>
                 /\ Sends(c) => /\ Streams' = [Streams EXCEPT ![c] = Append(@, Last)]
                                /\ Dropped' = Dropped
                 /\ ~Sends(c) => /\ Streams' = Streams
                                 /\ Dropped' = IF closed[c] THEN Dropped ELSE Dropped \cup {c}
           /\ ForgetClient => Dropped' = Dropped \cup {hub.client} /\ hub.client \in Clients
           /\ ~ForgetClient /\ (\A c \in Clients : ~Turn(c)) => Dropped' = Dropped
           /\ \A c \in Clients : Quits(c) => Ending' = Ending \cup {c}
           /\ (\A c \in Clients : ~Quits(c)) => Ending' = Ending
  <1>1. /\ Shape /\ Places /\ Numbered
        /\ closed \in [Clients -> BOOLEAN] /\ DOMAIN reader = Clients
    BY DEF IInv, Shape, TypeOK
  <1>2. /\ Streams = [c \in Clients |-> Stream(c)]
        /\ Streams' = [c \in Clients |-> Stream(c)']
    BY DEF Streams, Stream
  <1>3. (\A c \in Clients : ~Turn(c)) => Streams' = Streams
    BY <1>1, <1>2, StreamSteps
  <1>4. ASSUME NEW c \in Clients, Turn(c)
        PROVE  /\ Sends(c) => /\ Streams' = [Streams EXCEPT ![c] = Append(@, Last)]
                              /\ Dropped' = Dropped
               /\ ~Sends(c) => /\ Streams' = Streams
                               /\ Dropped' = IF closed[c] THEN Dropped ELSE Dropped \cup {c}
    <2>1. /\ closed' = [closed EXCEPT ![c] = @ \/ Overflows(c)]
          /\ hub.at \in {"room", "user"} /\ c \in hub.todo /\ hub'.todo = hub.todo \ {c}
      BY <1>1, <1>4, OfferFacts, HubFields DEF Turn, At
    <2>2. \A d \in Clients : d # c => ~Turn(d)
      <3> SUFFICES ASSUME NEW d \in Clients, d # c, Turn(d) PROVE FALSE
        OBVIOUS
      <3>1. d \in hub.todo /\ hub'.todo = hub.todo \ {d}
        BY <1>1, OfferFacts, HubFields DEF Turn, At
      <3> QED BY <2>1, <3>1
    <2>3. PICK m \in hub.msg : /\ Sends(c) => Stream(c)' = Append(Stream(c), m.no)
                               /\ ~Sends(c) => Stream(c)' = Stream(c)
      BY <1>1, <1>4, StreamSteps
    <2>4. m.no = Last
      BY <1>1, <2>1, <2>3 DEF Numbered
    <2>5. \A d \in Clients : d # c => Stream(d)' = Stream(d)
      BY <1>1, <2>2, StreamSteps
    <2>6. Sends(c) => Streams' = [Streams EXCEPT ![c] = Append(@, Last)]
      BY <1>2, <2>3, <2>4, <2>5
    <2>7. ~Sends(c) => Streams' = Streams
      BY <1>2, <2>3, <2>5
    <2>8. Overflows(c) <=> ~closed[c] /\ ~Sends(c)
      BY DEF Overflows
    <2>9. Sends(c) => ~closed[c]
      BY DEF Sends
    <2>10. \A d \in Clients : d # c => closed'[d] = closed[d]
      BY <1>1, <2>1
    <2>11. closed'[c] = (closed[c] \/ Overflows(c))
      BY <1>1, <2>1
    <2> QED BY <2>6, <2>7, <2>8, <2>9, <2>10, <2>11 DEF Dropped
  <1>5. ASSUME ForgetClient
        PROVE  Dropped' = Dropped \cup {hub.client} /\ hub.client \in Clients
    <2>1. hub.client \in Clients /\ closed' = [closed EXCEPT ![hub.client] = TRUE]
      BY <1>1, <1>5 DEF ForgetClient, Places
    <2> QED BY <1>1, <2>1 DEF Dropped
  <1>6. ASSUME ~ForgetClient, \A c \in Clients : ~Turn(c) PROVE Dropped' = Dropped
    <2>1. UNCHANGED closed
      <3>1. ASSUME NEW c \in Clients, JoinEnds(c) \/ LeaveStep(c) PROVE UNCHANGED closed
        BY <3>1, LeftAlone
      <3>2. RegisterClient \/ Dies => UNCHANGED closed
        BY LeftAlone DEF RegisterClient
      <3> QED BY <1>6, <3>1, <3>2, Actions, OthersStill DEF Turn, Still
    <2> QED BY <2>1 DEF Dropped
  <1>7. ASSUME NEW c \in Clients, Quits(c) PROVE Ending' = Ending \cup {c}
    BY <1>1, <1>7 DEF Quits, ReadFails, JoinPanics, Ending
  <1>8. ASSUME \A c \in Clients : ~Quits(c) PROVE Ending' = Ending
    <2>1. ASSUME UNCHANGED reader PROVE Ending' = Ending
      BY <2>1 DEF Ending
    <2>2. ASSUME \/ Publish \/ Enqueue \/ RegisterClient \/ UnregisterLock \/ ForgetClient
                 \/ TakeMessage \/ RoomDone \/ UserDone \/ Dies
          PROVE  UNCHANGED reader
      BY <2>2, LeftAlone DEF Publish, Enqueue, RegisterClient, UnregisterLock, ForgetClient,
                          TakeMessage, RoomDone, UserDone, connVars
    <2>3. ASSUME NEW c \in Clients,
                 \/ OfferRoom(c) \/ OfferUser(c) \/ WriteFrame(c) \/ WriteStops(c) \/ PeerCloses(c)
          PROVE  UNCHANGED reader
      BY <2>3 DEF OfferRoom, OfferUser, WriteFrame, WriteStops, PeerCloses, connVars
    <2>4. ASSUME NEW c \in Clients,
                 \/ TakeRegister(c) \/ TakeUnregister(c) \/ JoinRoomLock(c) \/ JoinRoom(c)
                 \/ Connect(c) \/ ReadJoin(c) \/ ReadLeave(c)
          PROVE  Ending' = Ending
      BY <1>1, <2>4 DEF TakeRegister, TakeUnregister, JoinRoomLock, JoinRoom, Connect,
                        ReadJoin, ReadLeave, Ending
    <2>5. ASSUME NEW c \in Clients, LeaveStep(c) PROVE Ending' = Ending
      <3>1. \A d \in Clients : reader'[d] \in {"unregistering", "done"}
                              <=> reader[d] \in {"unregistering", "done"}
        BY <1>1, <2>5, LeaveSteps DEF Leaving
      <3> QED BY <3>1 DEF Ending
    <2> QED BY <1>8, <2>1, <2>2, <2>3, <2>4, <2>5, Actions DEF Quits, JoinEnds
  <1> QED BY <1>3, <1>4, <1>5, <1>6, <1>7, <1>8

\* The actions the feed notices each have a variable of their own.
LEMMA Apart ==
    ASSUME IInv, Next
    PROVE  /\ UNCHANGED hub =>
                 ~TakeMessage /\ ~UserDone /\ ~ForgetClient /\ \A c \in Clients : ~Turn(c)
           /\ UNCHANGED reader => \A c \in Clients : ~Quits(c)
           /\ UNCHANGED got => \A c \in Clients : ~WriteFrame(c)
           /\ UNCHANGED published => ~Enqueue
           /\ (\A c \in Clients : ~WriteFrame(c)) => UNCHANGED got
           /\ ~Enqueue => UNCHANGED published
  <1>1. /\ Shape /\ Places
        /\ \A c \in Clients : got[c] \in Seq(1..MaxMessages) /\ send[c] \in Seq(1..MaxMessages)
        /\ DOMAIN got = Clients /\ DOMAIN reader = Clients /\ published \in Nat
    BY CapacityAssumption DEF IInv, Shape, TypeOK
  <1>2. ASSUME UNCHANGED hub
        PROVE  ~TakeMessage /\ ~UserDone /\ ~ForgetClient /\ \A c \in Clients : ~Turn(c)
    <2>1. ~TakeMessage /\ ~UserDone /\ ~ForgetClient
      BY <1>1, <1>2, HubFields DEF TakeMessage, UserDone, ForgetClient, At
    <2>2. \A c \in Clients : Turn(c) => c \in hub.todo /\ hub'.todo = hub.todo \ {c}
      BY <1>1, HubFields, OfferFacts DEF Turn, At
    <2> QED BY <1>2, <2>1, <2>2
  <1>3. UNCHANGED reader => \A c \in Clients : ~Quits(c)
    BY <1>1 DEF Quits, ReadFails, JoinPanics
  <1>4. ASSUME UNCHANGED got, NEW c \in Clients, WriteFrame(c) PROVE FALSE
    <2>1. got'[c] = Append(got[c], Head(send[c])) /\ send[c] # <<>>
      BY <1>1, <1>4 DEF WriteFrame
    <2>2. PICK l \in Nat : l = Len(got[c])
      BY <1>1, LenProperties
    <2>3. Head(send[c]) \in 1..MaxMessages
      BY <1>1, <2>1, HeadTailProperties
    <2>4. Len(got'[c]) = l + 1
      BY <1>1, <2>1, <2>2, <2>3, AppendProperties
    <2>5. l # l + 1
      BY <2>2
    <2> QED BY <1>4, <2>2, <2>4, <2>5, Zenon
  <1>5. UNCHANGED published => ~Enqueue
    BY <1>1 DEF Enqueue
  <1>6. ASSUME \A c \in Clients : ~WriteFrame(c) PROVE UNCHANGED got
    <2>1. ASSUME \/ Publish \/ Enqueue \/ RegisterClient \/ UnregisterLock \/ ForgetClient
                 \/ TakeMessage \/ RoomDone \/ UserDone \/ Dies
          PROVE  UNCHANGED got
      BY <2>1, LeftAlone DEF Publish, Enqueue, RegisterClient, UnregisterLock, ForgetClient,
                          TakeMessage, RoomDone, UserDone, histVars
    <2>2. ASSUME NEW c \in Clients,
                 \/ TakeRegister(c) \/ TakeUnregister(c) \/ OfferRoom(c) \/ OfferUser(c)
                 \/ JoinRoomLock(c) \/ JoinEnds(c) \/ LeaveStep(c) \/ ReadFails(c) \/ WriteStops(c)
                 \/ Connect(c) \/ ReadJoin(c) \/ ReadLeave(c) \/ PeerCloses(c)
          PROVE  UNCHANGED got
      BY <2>2, LeftAlone DEF TakeRegister, TakeUnregister, OfferRoom, OfferUser, JoinRoomLock,
                          ReadFails, WriteStops, Connect, ReadJoin, ReadLeave, PeerCloses,
                          histVars
    <2> QED BY <1>6, <2>1, <2>2, Actions
  <1>7. ~Enqueue => UNCHANGED published
    <2>1. TakeMessage => UNCHANGED published
      BY DEF TakeMessage, histVars
    <2> QED BY <1>1, <2>1, QueueStays
  <1> QED BY <1>2, <1>3, <1>4, <1>5, <1>6, <1>7

\* A frame that is written was the first one not yet seen.
LEMMA WritesNext ==
    ASSUME IInv, Next, NEW c \in Clients, WriteFrame(c)
    PROVE  /\ Len(got[c]) < Len(Streams[c])
           /\ got' = [got EXCEPT ![c] = Append(@, Streams[c][Len(@) + 1])]
  <1>1. /\ got[c] \in Seq(1..MaxMessages) /\ send[c] \in Seq(1..MaxMessages) /\ send[c] # <<>>
        /\ got' = [got EXCEPT ![c] = Append(@, Head(send[c]))]
    BY DEF IInv, Shape, TypeOK, WriteFrame
  <1>2. PICK g \in Nat, l \in Nat : g = Len(got[c]) /\ l = Len(send[c])
    BY <1>1, LenProperties
  <1>3. l > 0 /\ Head(send[c]) = send[c][1]
    <2>1. PICK s \in Seq(1..MaxMessages) : s = send[c]
      BY <1>1
    <2>2. Len(s) # 0 /\ Head(s) = s[1]
      BY <1>1, <2>1, EmptySeq
    <2>3. l # 0 /\ Head(send[c]) = send[c][1]
      BY <1>2, <2>1, <2>2, Zenon
    <2> QED BY <2>3
  <1>4. /\ Len(got[c] \o send[c]) = g + l
        /\ \A i \in g + 1..g + l : (got[c] \o send[c])[i] = send[c][i - g]
    <2>1. \A a, b \in Seq(1..MaxMessages) :
             /\ Len(a \o b) = Len(a) + Len(b)
             /\ \A i \in Len(a) + 1..Len(a) + Len(b) : (a \o b)[i] = b[i - Len(a)]
      BY ConcatProperties
    <2> QED BY <1>1, <1>2, <2>1
  <1>5. g + 1 \in g + 1..g + l /\ (g + 1) - g = 1 /\ g < g + l
    BY <1>3
  <1>6. (got[c] \o send[c])[g + 1] = Head(send[c])
    <2>1. (got[c] \o send[c])[g + 1] = send[c][(g + 1) - g]
      BY <1>4, <1>5
    <2> QED BY <1>3, <1>5, <2>1
  <1>7. Streams[c] = got[c] \o send[c]
    BY DEF Streams
  <1> QED BY <1>1, <1>2, <1>4, <1>5, <1>6, <1>7

\* A connection whose turn it is has the message at most once so far.
LEMMA NotTwice ==
    ASSUME IInv, Next, NEW c \in Clients, Turn(c)
    PROVE  ~\E i, j \in DOMAIN Streams[c] : i # j /\ Streams[c][i] = Last /\ Streams[c][j] = Last
  <1>1. /\ Shape /\ Places /\ Last \in Nat /\ Upto(Stream(c), Last, Stage(c))
    BY DEF IInv, Numbered, Ordered
  <1>2. PICK s \in Seq(Nat), n \in Nat, k \in {0, 1} :
           s = Stream(c) /\ n = Last /\ k = Stage(c) /\ Upto(s, n, k)
    BY <1>1, StreamSteps, StageStep
  <1>3. PICK l \in Nat : l = Len(s) /\ DOMAIN s = 1..l
    BY LenProperties
  <1>4. \A i \in 1..l : (k = 0 => s[i] < n) /\ (k = 1 /\ i < l => s[i] < n)
    BY <1>2, <1>3, Zenon DEF Upto
  <1>5. \A i \in 1..l : s[i] = n => i = l
    BY <1>4
  <1>6. Streams[c] = s
    BY <1>2 DEF Streams, Stream
  <1> QED BY <1>2, <1>3, <1>5, <1>6

\* Every step of the hub, the handlers and the connections is one of the feed.
LEMMA FeedStep == IInv /\ [Next]_vars => [Delivery!Next]_Delivery!vars
  <1> SUFFICES ASSUME IInv, [Next]_vars PROVE Delivery!Next \/ UNCHANGED Delivery!vars
    OBVIOUS
  <1>1. CASE UNCHANGED vars
    <2>1. UNCHANGED Rest /\ UNCHANGED Opens
      BY <1>1 DEF vars, Rest, Opens, Underway, Streams, Ending, Dropped, Last
    <2> QED BY <2>1, FeedActions
  <1> SUFFICES ASSUME Next PROVE Delivery!Next \/ UNCHANGED Delivery!vars
    BY <1>1
  <1>2. /\ Shape /\ Places /\ Numbered /\ Notified
        /\ ~TakeMessage => Last' = Last
    BY NumberedStep DEF IInv
  <1>3. CASE Enqueue
    <2>1. UNCHANGED <<hub, reader, got>> /\ published' = published + 1
      BY <1>3 DEF Enqueue, connVars
    <2>2. /\ \A c \in Clients : ~Turn(c) /\ ~Quits(c) /\ ~WriteFrame(c)
          /\ ~TakeMessage /\ ~ForgetClient
      BY <2>1, Apart
    <2>3. UNCHANGED <<Last, Streams, got, Ending, Dropped>>
      BY <1>2, <2>1, <2>2, PeersSteps
    <2>4. PICK D \in SUBSET Clients : Opens' = Opens \cup {[no |-> published + 1, due |-> D]}
      BY <1>3, UnderwaySteps
    <2>5. Delivery!Publish(D)
      BY <2>1, <2>3, <2>4, FeedActions
    <2> QED BY <2>4, <2>5 DEF Delivery!Next
  <1>4. CASE TakeMessage
    <2>1. UNCHANGED <<reader, got, published>> /\ hub.at = "select" /\ broadcast # <<>>
      BY <1>4 DEF TakeMessage, connVars, histVars
    <2>2. /\ \A c \in Clients : ~Turn(c) /\ ~Quits(c) /\ ~WriteFrame(c)
          /\ ~Enqueue /\ ~ForgetClient /\ ~UserDone
      BY <2>1, Apart DEF Turn, OfferRoom, OfferUser, ForgetClient, UserDone
    <2>3. UNCHANGED <<published, Opens, Streams, got, Ending, Dropped>>
      BY <2>1, <2>2, PeersSteps, UnderwaySteps
    <2>4. Last < published
      <3>1. broadcast \in Seq(Message) /\ published \in Nat
        BY <1>2, CapacityAssumption DEF Shape, TypeOK
      <3>2. PICK l \in Nat : l = Len(broadcast)
        BY <3>1, LenProperties
      <3>3. l # 0
        BY <2>1, <3>1, <3>2, EmptySeq
      <3>4. Last = published - l
        BY <3>2 DEF Last
      <3> QED BY <3>1, <3>3, <3>4
    <2>5. Last' = Last + 1 /\ \A m \in Opens : m.no > Last
      BY <1>2, <1>4, NumberedStep, UnderwaySteps
    <2>6. Delivery!Begin
      BY <2>3, <2>4, <2>5, FeedActions
    <2> QED BY <2>6 DEF Delivery!Next
  <1>5. CASE UserDone
    <2>1. UNCHANGED <<reader, got, published>> /\ hub.at = "user" /\ hub.todo = {}
      BY <1>5 DEF UserDone, connVars, histVars
    <2>2. /\ \A c \in Clients : ~Turn(c) /\ ~Quits(c) /\ ~WriteFrame(c)
          /\ ~TakeMessage /\ ~ForgetClient
      BY <2>1, Apart DEF Turn, OfferRoom, OfferUser, ForgetClient, TakeMessage
    <2>3. UNCHANGED Rest
      BY <1>2, <2>1, <2>2, PeersSteps DEF Rest
    <2>4. PICK m \in hub.msg : /\ [no |-> m.no, due |-> m.due] \in Opens
                               /\ Opens' = Opens \ {[no |-> m.no, due |-> m.due]}
      BY <1>5, UnderwaySteps
    <2>5. m.no = Last /\ m \in Message
      BY <1>2, <2>1, <2>4, HubFields DEF Numbered, HubState
    <2>6. \A c \in m.due : \/ \E i \in DOMAIN Streams[c] : Streams[c][i] = m.no
                           \/ c \in Ending \cup Dropped
      <3> SUFFICES ASSUME NEW c \in m.due
                   PROVE  \/ \E i \in DOMAIN Streams[c] : Streams[c][i] = m.no
                          \/ c \in Ending \cup Dropped
        OBVIOUS
      <3>1. c \in Clients
        BY <2>5 DEF Message
      <3>2. Reached(c, m.no)
        BY <1>2, <2>1, <2>4 DEF Notified
      <3>3. Streams[c] = Stream(c)
        BY <3>1 DEF Streams, Stream
      <3> QED BY <3>1, <3>2, <3>3 DEF Reached, Ending, Dropped
    <2>7. PICK x : x = [no |-> m.no, due |-> m.due]
      OBVIOUS
    <2>8. x.no = m.no /\ x.due = m.due
      BY <2>7
    <2>9. Delivery!Complete
      <3>1. \E y \in Opens :
               /\ y.no = Last
               /\ \A c \in y.due : \/ \E i \in DOMAIN Streams[c] : Streams[c][i] = y.no
                                   \/ c \in Ending \cup Dropped
               /\ Opens' = Opens \ {y}
        <4>1. x \in Opens /\ x.no = Last /\ Opens' = Opens \ {x}
          BY <2>4, <2>5, <2>7, <2>8
        <4> QED BY <2>6, <2>8, <4>1, Zenon
      <3> QED BY <2>3, <3>1, FeedActions
    <2> QED BY <2>9 DEF Delivery!Next
  <1>6. ASSUME NEW c \in Clients, Turn(c) PROVE Delivery!Next \/ UNCHANGED Delivery!vars
    <2>1. UNCHANGED <<reader, got, published>> /\ hub.at \in {"room", "user"} /\ c \in hub.todo
      BY <1>2, <1>6, OfferFacts DEF Turn, OfferRoom, OfferUser, connVars
    <2>2. /\ \A d \in Clients : ~Quits(d) /\ ~WriteFrame(d)
          /\ ~Enqueue /\ ~TakeMessage /\ ~ForgetClient /\ ~UserDone
      BY <2>1, Apart DEF TakeMessage, ForgetClient, UserDone
    <2>3. UNCHANGED <<published, Last, Opens, got, Ending>>
      BY <1>2, <2>1, <2>2, PeersSteps, UnderwaySteps
    <2>4. CASE Sends(c)
      <3>1. Streams' = [Streams EXCEPT ![c] = Append(@, Last)] /\ Dropped' = Dropped
        BY <1>6, <2>4, PeersSteps
      <3>2. c \notin Dropped
        BY <2>4 DEF Sends, Dropped
      <3>3. \E m \in Opens : m.no = Last
        BY <2>1, UnderwaySteps
      <3>4. ~\E i, j \in DOMAIN Streams[c] : i # j /\ Streams[c][i] = Last /\ Streams[c][j] = Last
        BY <1>6, NotTwice
      <3>5. Delivery!Send(c)
        BY <2>3, <3>1, <3>2, <3>3, <3>4, FeedActions
      <3> QED BY <3>5 DEF Delivery!Next
    <2>5. CASE ~Sends(c) /\ ~closed[c]
      <3>1. Streams' = Streams /\ Dropped' = Dropped \cup {c}
        BY <1>6, <2>5, PeersSteps
      <3>2. Delivery!Drop(c)
        BY <2>3, <3>1, FeedActions
      <3> QED BY <3>2 DEF Delivery!Next
    <2>6. CASE ~Sends(c) /\ closed[c]
      <3>1. Streams' = Streams /\ Dropped' = Dropped
        BY <1>6, <2>6, PeersSteps
      <3> QED BY <2>3, <3>1, FeedActions DEF Rest
    <2> QED BY <2>4, <2>5, <2>6
  <1>7. CASE ForgetClient
    <2>1. UNCHANGED <<reader, got, published>> /\ hub.at = "forget"
      BY <1>7 DEF ForgetClient, connVars, histVars
    <2>2. /\ \A c \in Clients : ~Turn(c) /\ ~Quits(c) /\ ~WriteFrame(c)
          /\ ~Enqueue /\ ~TakeMessage /\ ~UserDone
      BY <2>1, Apart DEF Turn, OfferRoom, OfferUser, TakeMessage, UserDone
    <2>3. UNCHANGED <<published, Last, Opens, Streams, got, Ending>>
      BY <1>2, <2>1, <2>2, PeersSteps, UnderwaySteps
    <2>4. PICK d \in Clients : Dropped' = Dropped \cup {d}
      BY <1>7, PeersSteps
    <2>5. Delivery!Drop(d)
      BY <2>3, <2>4, FeedActions
    <2> QED BY <2>4, <2>5 DEF Delivery!Next
  <1>8. ASSUME NEW c \in Clients, Quits(c) PROVE Delivery!Next
    <2>1. UNCHANGED <<hub, got, published>>
      BY <1>8 DEF Quits, ReadFails, JoinPanics, histVars
    <2>2. /\ \A d \in Clients : ~Turn(d) /\ ~WriteFrame(d)
          /\ ~Enqueue /\ ~TakeMessage /\ ~UserDone /\ ~ForgetClient
      BY <2>1, Apart
    <2>3. UNCHANGED <<published, Last, Opens, Streams, got, Dropped>>
      BY <1>2, <2>1, <2>2, PeersSteps, UnderwaySteps
    <2>4. Delivery!Leave(c)
      BY <1>8, <2>3, PeersSteps, FeedActions
    <2> QED BY <2>4 DEF Delivery!Next
  <1>9. ASSUME NEW c \in Clients, WriteFrame(c) PROVE Delivery!Next
    <2>1. UNCHANGED <<hub, reader, published>>
      BY <1>9 DEF WriteFrame, connVars
    <2>2. /\ \A d \in Clients : ~Turn(d) /\ ~Quits(d)
          /\ ~Enqueue /\ ~TakeMessage /\ ~UserDone /\ ~ForgetClient
      BY <2>1, Apart
    <2>3. UNCHANGED <<published, Last, Opens, Streams, Ending, Dropped>>
      BY <1>2, <2>1, <2>2, PeersSteps, UnderwaySteps
    <2>4. Delivery!Write(c)
      BY <1>9, <2>3, WritesNext, FeedActions
    <2> QED BY <2>4 DEF Delivery!Next
  <1>10. ASSUME ~Enqueue, ~TakeMessage, ~UserDone, ~ForgetClient,
                \A c \in Clients : ~Turn(c) /\ ~Quits(c) /\ ~WriteFrame(c)
         PROVE  UNCHANGED Delivery!vars
    <2>1. UNCHANGED Rest /\ UNCHANGED Opens
      BY <1>2, <1>10, Apart, PeersSteps, UnderwaySteps DEF Rest
    <2> QED BY <2>1, FeedActions
  <1> QED BY <1>3, <1>4, <1>5, <1>6, <1>7, <1>8, <1>9, <1>10

\* The feed begins with nothing published and nobody there.
LEMMA FeedInit == Init => Delivery!Init
  <1> SUFFICES ASSUME Init PROVE Delivery!Init
    OBVIOUS
  <1>1. /\ published = 0 /\ broadcast = <<>> /\ hub = Idle /\ send = [c \in Clients |-> <<>>]
        /\ got = [c \in Clients |-> <<>>] /\ reader = [c \in Clients |-> "off"]
        /\ closed = [c \in Clients |-> FALSE]
    BY DEF Init
  <1>2. Len(broadcast) = 0 /\ DOMAIN broadcast = {} /\ <<>> \o <<>> = <<>>
    <2>1. /\ \A s : s = <<>> => Len(s) = 0 /\ DOMAIN s = {}
          /\ <<>> \o <<>> = <<>>
      OBVIOUS
    <2> QED BY <1>1, <2>1
  <1>3. published - Len(broadcast) = 0
    <2>1. 0 - 0 = 0
      OBVIOUS
    <2> QED BY <1>1, <1>2, <2>1, Zenon
  <1>4. Underway = {}
    BY <1>1, <1>2 DEF Underway, Idle
  <1>5. [c \in Clients |-> got[c] \o send[c]] = [c \in Clients |-> <<>>]
    BY <1>1, <1>2
  <1>6. /\ {c \in Clients : reader[c] \in {"unregistering", "done"}} = {}
        /\ {c \in Clients : closed[c]} = {}
    BY <1>1
  <1>7. {[no |-> m.no, due |-> m.due] : m \in Underway} = {}
    BY <1>4
  <1> QED BY <1>1, <1>3, <1>5, <1>6, <1>7 DEF Delivery!Init

\* The hub keeps the promise of the feed: whatever connects, joins, leaves,
\* overflows or blocks, messages are delivered one after the other, each one
\* until everybody it is due to has it, was dropped or leaves, a dropped
\* connection is sent nothing more, and a peer sees what its connection was
\* sent, in that order.
THEOREM HubDelivers == Spec => DeliversFeed
  BY Invariant, FeedInit, FeedStep, PTL DEF Spec, DeliversFeed, Delivery!Spec
=============================================================================
