-------------------------------- MODULE Feed --------------------------------
(***************************************************************************)
(* What the WebSocket hub promises to the connections, with no channels,   *)
(* maps, locks or goroutines in it.  The messages are numbered as they are *)
(* accepted and delivered one after the other.  While a message is being   *)
(* delivered a connection may be sent it, twice at most, whether or not it *)
(* is meant for it; the delivery is over only when every connection the    *)
(* message is due to has been sent it, was dropped or is leaving.  A       *)
(* dropped connection is sent nothing more, and what a peer sees is always *)
(* the beginning of what its connection was sent.  Hub is the code that    *)
(* has to keep this promise.                                               *)
(***************************************************************************)
EXTENDS Naturals, Sequences

CONSTANT Clients    \* connections

VARIABLES
    published,  \* number of the last message accepted
    current,    \* number of the last message whose delivery began
    open,       \* messages accepted and not yet delivered
    stream,     \* per connection: the numbers of the messages it was sent
    seen,       \* per connection: those that were written to the peer
    leaving,    \* connections on their way out
    dropped     \* connections that take no more messages

vars == <<published, current, open, stream, seen, leaving, dropped>>

Init ==
    /\ published = 0
    /\ current = 0
    /\ open = {}
    /\ stream = [c \in Clients |-> <<>>]
    /\ seen = [c \in Clients |-> <<>>]
    /\ leaving = {}
    /\ dropped = {}

\* A message for the connections in due.
Publish(due) ==
    /\ published' = published + 1
    /\ open' = open \cup {[no |-> published + 1, due |-> due]}
    /\ UNCHANGED <<current, stream, seen, leaving, dropped>>

\* The next message, once the delivery of the last one is over.
Begin ==
    /\ current < published
    /\ \A m \in open : m.no > current
    /\ current' = current + 1
    /\ UNCHANGED <<published, open, stream, seen, leaving, dropped>>

Was(c, no) == \E i \in DOMAIN stream[c] : stream[c][i] = no

WasTwice(c, no) ==
    \E i, j \in DOMAIN stream[c] : i # j /\ stream[c][i] = no /\ stream[c][j] = no

Send(c) ==
    /\ c \notin dropped
    /\ \E m \in open : m.no = current
    /\ ~WasTwice(c, current)
    /\ stream' = [stream EXCEPT ![c] = Append(@, current)]
    /\ UNCHANGED <<published, current, open, seen, leaving, dropped>>

Complete ==
    /\ \E m \in open :
          /\ m.no = current
          /\ \A c \in m.due : Was(c, m.no) \/ c \in leaving \cup dropped
          /\ open' = open \ {m}
    /\ UNCHANGED <<published, current, stream, seen, leaving, dropped>>

Write(c) ==
    /\ Len(seen[c]) < Len(stream[c])
    /\ seen' = [seen EXCEPT ![c] = Append(@, stream[c][Len(@) + 1])]
    /\ UNCHANGED <<published, current, open, stream, leaving, dropped>>

Leave(c) ==
    /\ leaving' = leaving \cup {c}
    /\ UNCHANGED <<published, current, open, stream, seen, dropped>>

Drop(c) ==
    /\ dropped' = dropped \cup {c}
    /\ UNCHANGED <<published, current, open, stream, seen, leaving>>

Next ==
    \/ \E due \in SUBSET Clients : Publish(due)
    \/ Begin \/ Complete
    \/ \E c \in Clients : Send(c) \/ Write(c) \/ Leave(c) \/ Drop(c)

Spec == Init /\ [][Next]_vars
=============================================================================
