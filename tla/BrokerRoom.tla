------------------------------ MODULE BrokerRoom ------------------------------
(***************************************************************************)
(* The broker's rooms (crates/relay-broker/src/state.rs) and the websocket *)
(* task that serves one connection (handle_socket in                       *)
(* crates/relay-broker/src/lib.rs).                                        *)
(*                                                                         *)
(* A room seats peers.  Every successful join gets a fresh connection id   *)
(* and an unbounded mailbox whose sender half lives in the seat: when the  *)
(* seat is taken away the mailbox closes and the socket task ends.  A      *)
(* relay may replace its own seat, a pairing ticket holds at most one seat,*)
(* and everything a socket task does after it joined is checked against    *)
(* the connection id it was given, because its seat may be another         *)
(* connection's by then.                                                   *)
(***************************************************************************)
EXTENDS Integers, Sequences, Functions

CONSTANTS
  Channels,        \* room ids
  Relays,          \* peer ids pinned by relay join tickets
  Surfaces,        \* peer ids the broker generates for surfaces
  Pairings,        \* pairing ids, one per pairing (QR) join ticket
  Devices,         \* device ids, one per device join ticket
  RelayTicket,     \* the ticket kind of a relay join: no pairing, no device
  MaxConnections,  \* bound: connection ids handed out
  MaxPending       \* bound: frames waiting in a mailbox when one is published

Peers == Relays \cup Surfaces

\* A join ticket names at most one of a pairing and a device (join_ticket.rs).
SurfaceTickets == Pairings \cup Devices
Tickets == SurfaceTickets \cup {RelayTicket}

Connections == 1..MaxConnections

\* "encrypted_pairing_result" is the one payload kind the broker refuses to fan out.
Payloads == {"encrypted_pairing_result", "other"}
must_not_be_broadcast(payload) == payload = "encrypted_pairing_result"

ASSUME BrokerRoomAssumption ==
  /\ MaxConnections \in Nat
  /\ MaxPending \in Nat
  /\ Relays \cap Surfaces = {}
  /\ RelayTicket \notin SurfaceTickets
  /\ Pairings \cap Devices = {}

VARIABLES
  rooms,               \* rooms[ch][p]: connection id seated as p, 0 when nobody is
  next_connection_id,  \* the last connection id handed out
  sockets,             \* per connection id: the task's state and its verified join
  mailbox,             \* per connection id: ServerMessages not yet written to the socket
  view                 \* per connection id: the peers its client knows of

vars == <<rooms, next_connection_id, sockets, mailbox, view>>

\* ServerMessage.  "to" is the addressee of a targeted message, "all" for a fan-out.
Joined(p) == [type |-> "joined", peer |-> p]
Left(p) == [type |-> "left", peer |-> p]
Superseded == [type |-> "superseded"]
Message(p, to, payload) == [type |-> "message", peer |-> p, to |-> to, payload |-> payload]

Frames ==
  [type : {"joined", "left"}, peer : Peers]
    \cup {Superseded}
    \cup [type : {"message"}, peer : Peers, to : Peers \cup {"all"}, payload : Payloads]

\* A connection id not handed out yet (or spent on a refused join), and a finished task.
Unused == [state |-> "unused"]
Closed == [state |-> "closed"]
Live == {"joined", "open", "closing"}

Sockets ==
  {Unused, Closed} \cup [state : Live, channel : Channels, peer : Peers, ticket : Tickets]

Seated(ch) == {p \in Peers : rooms[ch][p] # 0}
IgnoresConnectionId(c) == rooms[sockets[c].channel][sockets[c].peer] # 0
HasSeat(c) == rooms[sockets[c].channel][sockets[c].peer] = c

\* Everyone in ch but connection c: whom a broadcast, or c's Left, is sent to.
NoAudience(ch, c) == {}
Audience(ch, c) == {rooms[ch][p] : p \in Seated(ch)} \ {c}

\* What is left of the rooms once p's seat in ch is given back.
KeepsSeat(ch, p) == rooms
Unseat(ch, p) == [rooms EXCEPT ![ch][p] = 0]

Init ==
  /\ rooms = [ch \in Channels |-> [p \in Peers |-> 0]]
  /\ next_connection_id = 0
  /\ sockets = [c \in Connections |-> Unused]
  /\ mailbox = [c \in Connections |-> <<>>]
  /\ view = [c \in Connections |-> {}]

-------------------------------------------------------------------------------
(* join *)

\* The seats another holder of the same pairing ticket loses to a join as p.
NobodySuperseded(ch, p, ticket) == {}
SupersededBy(ch, p, ticket) ==
  {q \in Seated(ch) \ {p} : ticket \in Pairings /\ sockets[rooms[ch][q]].ticket = ticket}

\* The orders in which a walk through a room's map of peers may meet those of S: no room
\* seats more peers than there were connections.
Orders(S) == UNION {Bijection(1..n, S) : n \in 0..MaxConnections}

\* A peer id is free, or it is a relay's and the relay replaces itself.
MaySeat(ch, p) == rooms[ch][p] = 0 \/ p \in Relays

Join(ch, p, ticket) ==
  /\ next_connection_id < MaxConnections
  /\ p \in Relays <=> ticket = RelayTicket
  /\ MaySeat(ch, p)
  /\ LET c == next_connection_id + 1
         evicted == SupersededBy(ch, p, ticket)
         existing_peers == Seated(ch) \ (evicted \cup {p})
     IN
     \E order \in Orders(evicted) :
     LET announced == Append([i \in DOMAIN order |-> Left(order[i])], Joined(p)) IN
     /\ next_connection_id' = c
     /\ rooms' = [rooms EXCEPT ![ch] =
                    [q \in Peers |-> IF q = p THEN c
                                     ELSE IF q \in evicted THEN 0
                                     ELSE rooms[ch][q]]]
     /\ sockets' = [sockets EXCEPT ![c] =
                      [state |-> "joined", channel |-> ch, peer |-> p, ticket |-> ticket]]
     /\ mailbox' = [d \in Connections |->
                      IF d \in {rooms[ch][q] : q \in evicted}
                        THEN Append(mailbox[d], Superseded)
                      ELSE IF d \in {rooms[ch][q] : q \in existing_peers}
                        THEN mailbox[d] \o announced
                      ELSE mailbox[d]]
     /\ view' = [view EXCEPT ![c] = existing_peers]

\* A generated surface id that is taken: the id is spent and another one is generated.
JoinRefused(ch, p) ==
  /\ next_connection_id < MaxConnections
  /\ ~MaySeat(ch, p)
  /\ next_connection_id' = next_connection_id + 1
  /\ UNCHANGED <<rooms, sockets, mailbox, view>>

-------------------------------------------------------------------------------
(* The socket task of connection c *)

\* The Welcome frame is written to the socket before anything in the mailbox.
SendWelcome(c) ==
  /\ sockets[c].state = "joined"
  /\ sockets' = [sockets EXCEPT ![c].state = "open"]
  /\ UNCHANGED <<rooms, next_connection_id, mailbox, view>>

\* What a client makes of one frame.
Applied(known, frame) ==
  CASE frame.type = "joined" -> known \cup {frame.peer}
    [] frame.type = "left" -> known \ {frame.peer}
    [] OTHER -> known

\* outbound.recv() returned a message, and it reached the client.
Deliver(c) ==
  /\ sockets[c].state = "open"
  /\ mailbox[c] # <<>>
  /\ view' = [view EXCEPT ![c] = Applied(@, Head(mailbox[c]))]
  /\ mailbox' = [mailbox EXCEPT ![c] = Tail(@)]
  /\ UNCHANGED <<rooms, next_connection_id, sockets>>

\* outbound.recv() returned None: the seat, and with it the sender, is gone.
IgnoresClosedMailbox(c) == FALSE /\ UNCHANGED vars
OutboundClosed(c) ==
  /\ sockets[c].state = "open"
  /\ mailbox[c] = <<>>
  /\ ~HasSeat(c)
  /\ sockets' = [sockets EXCEPT ![c].state = "closing"]
  /\ UNCHANGED <<rooms, next_connection_id, mailbox, view>>

\* The client closed or vanished, was idle too long, sent a frame the broker
\* will not parse, or a write (the Welcome's included) failed.
SocketEnds(c) ==
  /\ sockets[c].state \in {"joined", "open"}
  /\ sockets' = [sockets EXCEPT ![c].state = "closing"]
  /\ UNCHANGED <<rooms, next_connection_id, mailbox, view>>

\* leave_connection: gives the seat back only if it is still this connection's.
LeaveConnection(c) ==
  /\ sockets[c].state = "closing"
  /\ LET ch == sockets[c].channel
         p == sockets[c].peer
         others == Audience(ch, c)
     IN IF HasSeat(c)
          THEN /\ rooms' = Unseat(ch, p)
               /\ mailbox' = [d \in Connections |->
                                IF d = c THEN <<>>
                                ELSE IF d \in others THEN Append(mailbox[d], Left(p))
                                ELSE mailbox[d]]
          ELSE /\ mailbox' = [mailbox EXCEPT ![c] = <<>>]
               /\ UNCHANGED rooms
  /\ sockets' = [sockets EXCEPT ![c] = Closed]
  /\ view' = [view EXCEPT ![c] = {}]
  /\ UNCHANGED next_connection_id

-------------------------------------------------------------------------------
(* publish_connection by connection c *)

\* Bound: keeps mailboxes short; the channel in the code is unbounded.
MayPublish(c) ==
  /\ sockets[c].state = "open"
  /\ HasSeat(c)
  /\ \A d \in Connections : Len(mailbox[d]) < MaxPending

PublishBroadcast(c, payload) ==
  /\ MayPublish(c)
  /\ ~must_not_be_broadcast(payload)
  /\ LET others == Audience(sockets[c].channel, c)
     IN mailbox' = [d \in Connections |->
                      IF d \in others
                        THEN Append(mailbox[d], Message(sockets[c].peer, "all", payload))
                        ELSE mailbox[d]]
  /\ UNCHANGED <<rooms, next_connection_id, sockets, view>>

\* One message of a targeted_messages wrapper: the sender and absent targets are skipped.
PublishTargeted(c, target, payload) ==
  /\ MayPublish(c)
  /\ target \in Seated(sockets[c].channel) \ {sockets[c].peer}
  /\ mailbox' = [mailbox EXCEPT ![rooms[sockets[c].channel][target]] =
                   Append(@, Message(sockets[c].peer, target, payload))]
  /\ UNCHANGED <<rooms, next_connection_id, sockets, view>>

\* A replaced connection that still publishes is refused and its task ends.
PublishReplaced(c) ==
  /\ sockets[c].state = "open"
  /\ rooms[sockets[c].channel][sockets[c].peer] \notin {0, c}
  /\ sockets' = [sockets EXCEPT ![c].state = "closing"]
  /\ UNCHANGED <<rooms, next_connection_id, mailbox, view>>

Next ==
  \/ \E ch \in Channels, p \in Peers :
       \/ \E ticket \in Tickets : Join(ch, p, ticket)
       \/ JoinRefused(ch, p)
  \/ \E c \in Connections :
       \/ SendWelcome(c) \/ Deliver(c) \/ OutboundClosed(c) \/ SocketEnds(c)
       \/ LeaveConnection(c) \/ PublishReplaced(c)
       \/ \E payload \in Payloads :
            \/ PublishBroadcast(c, payload)
            \/ \E target \in Peers : PublishTargeted(c, target, payload)

\* The broker's runtime keeps polling every socket task.
Fairness ==
  \A c \in Connections :
    WF_vars(SendWelcome(c) \/ Deliver(c) \/ OutboundClosed(c) \/ LeaveConnection(c))

Spec == Init /\ [][Next]_vars /\ Fairness

-------------------------------------------------------------------------------
(* Properties *)

\* Types of the broker's rooms, socket tasks and mailboxes (state.rs): connection ids
\* are never handed out twice and a client's view only ever names peers.
TypeOK ==
  /\ rooms \in [Channels -> [Peers -> 0..MaxConnections]]
  /\ next_connection_id \in 0..MaxConnections
  /\ sockets \in [Connections -> Sockets]
  /\ mailbox \in [Connections -> Seq(Frames)]
  /\ view \in [Connections -> SUBSET Peers]

\* "One pairing ticket, one seat": however joins, evictions and late teardowns
\* interleave, a room never seats two surfaces admitted by the same QR ticket.
OneSeatPerTicket ==
  \A ch \in Channels : \A p, q \in Seated(ch) :
    LET ticket == sockets[rooms[ch][p]].ticket
    IN ticket \in Pairings /\ sockets[rooms[ch][q]].ticket = ticket => p = q

\* No ghost seat: whoever is listed in a room is served by a socket task that has
\* not finished, joined for exactly that room and that peer id.
SeatsAreServed ==
  \A ch \in Channels : \A p \in Seated(ch) :
    LET s == sockets[rooms[ch][p]]
    IN s.state \in Live /\ s.channel = ch /\ s.peer = p

\* A client that knows these peers and reads these frames knows q in the end: the last
\* frame about q says that q joined, or none says that q, whom it knew, left.
Hears(known, frames, q) ==
  \/ \E i \in 1..Len(frames) :
       frames[i] = Joined(q) /\ \A j \in i+1..Len(frames) : frames[j] # Left(q)
  \/ q \in known /\ \A j \in 1..Len(frames) : frames[j] # Left(q)

\* Welcome plus the presence frames add up: once a seated client has read what is
\* in its mailbox it knows exactly the other peers of the room.
PresenceAddsUp ==
  \A ch \in Channels : \A p \in Seated(ch) :
    LET c == rooms[ch][p]
    IN \A q \in Peers : Hears(view[c], mailbox[c], q) <=> q \in Seated(ch) \ {p}

\* A seat is lost only to its own connection's leave, to a newer connection of the
\* same relay, or to a newer connection with the same pairing ticket: the teardown
\* of an old socket never unseats its successor.
SeatLostOnlyToOwnerOrSuccessor ==
  [][\A ch \in Channels : \A p \in Seated(ch) :
       LET c == rooms[ch][p]
       IN rooms'[ch][p] # c =>
            \/ sockets[c].state = "closing" /\ sockets'[c] = Closed
            \/ p \in Relays /\ rooms'[ch][p] > c
            \/ \E q \in Peers :
                 /\ rooms'[ch][q] > c
                 /\ sockets'[rooms'[ch][q]].ticket = sockets[c].ticket
                 /\ sockets[c].ticket \in Pairings]_vars

\* A connection that lost its seat (a replaced relay, a superseded pairing surface)
\* does not linger: its socket task ends.
OrphansEnd ==
  \A c \in Connections :
    (sockets[c].state \in Live /\ ~HasSeat(c)) ~> (sockets[c] = Closed)
===============================================================================
