--------------------------- MODULE BrokerRoomProofs ---------------------------
(***************************************************************************)
(* TLAPS proofs about BrokerRoom, for any sets of rooms, peers and tickets *)
(* and any number of connections.                                          *)
(*                                                                         *)
(* The safety properties are not inductive one by one: that two seats do   *)
(* not share a ticket needs every seat to be served by the socket that     *)
(* joined for it, and that needs ids not handed out yet to be unused.      *)
(* RoomInv conjoins them.  That the presence frames add up is then proved  *)
(* frame by frame: Hears says what a client knows once it has read what    *)
(* waits for it, and a mailbox nobody was given yet is empty (PresenceInv).*)
(***************************************************************************)
EXTENDS BrokerRoom, TLAPS

\* Ids that were not handed out yet belong to nobody.
FreshIds == \A c \in Connections : c > next_connection_id => sockets[c] = Unused

RoomInv == TypeOK /\ FreshIds /\ SeatsAreServed /\ OneSeatPerTicket

\* A seat names a connection that was handed out and is served.
LEMMA SeatIsLiveConnection ==
  ASSUME RoomInv, NEW ch \in Channels, NEW p \in Seated(ch)
  PROVE  /\ rooms[ch][p] \in Connections
         /\ rooms[ch][p] <= next_connection_id
         /\ sockets[rooms[ch][p]] \in
              [state : Live, channel : {ch}, peer : {p}, ticket : Tickets]
<1>1. rooms[ch][p] \in Connections
  BY BrokerRoomAssumption DEF RoomInv, TypeOK, Seated, Connections
<1>2. /\ sockets[rooms[ch][p]].state \in Live
      /\ sockets[rooms[ch][p]].channel = ch
      /\ sockets[rooms[ch][p]].peer = p
  BY DEF RoomInv, SeatsAreServed
<1>3. sockets[rooms[ch][p]] \in Sockets
  BY <1>1 DEF RoomInv, TypeOK
<1>4. sockets[rooms[ch][p]] \in [state : Live, channel : Channels, peer : Peers, ticket : Tickets]
  BY <1>2, <1>3 DEF Sockets, Unused, Closed, Live
<1>5. rooms[ch][p] <= next_connection_id
  <2>1. sockets[rooms[ch][p]] # Unused
    BY <1>2 DEF Unused, Live
  <2> QED  BY <1>1, <2>1 DEF RoomInv, FreshIds, TypeOK, Connections
<1> QED  BY <1>1, <1>2, <1>4, <1>5

\* At most one seat is superseded by a join: the others of the room hear of one
\* departure, or none, and then of the arrival.
LEMMA Announced ==
  ASSUME RoomInv, NEW ch \in Channels, NEW p \in Peers, NEW ticket \in Tickets,
         NEW order \in Orders(SupersededBy(ch, p, ticket))
  PROVE  LET evicted == SupersededBy(ch, p, ticket)
             announced == Append([i \in DOMAIN order |-> Left(order[i])], Joined(p))
         IN \/ evicted = {} /\ announced = <<Joined(p)>>
            \/ \E q \in Peers : evicted = {q} /\ announced = Append(<<Left(q)>>, Joined(p))
<1> DEFINE E == SupersededBy(ch, p, ticket)
           left == [i \in DOMAIN order |-> Left(order[i])]
<1>1. \A q, r \in E : q = r
  BY Zenon DEF SupersededBy, RoomInv, OneSeatPerTicket
<1>2. E \subseteq Peers
  BY DEF SupersededBy, Seated
<1>3. PICK n \in Nat : order \in Bijection(1..n, E)
  BY BrokerRoomAssumption DEF Orders
<1>4. /\ order \in [1..n -> E]
      /\ \A i, j \in 1..n : order[i] = order[j] => i = j
      /\ \A e \in E : \E i \in 1..n : order[i] = e
  BY <1>3 DEF Bijection, Injection, Surjection, IsInjective
<1> HIDE DEF E
<1>5. CASE E = {}
  <2>1. n = 0
    BY <1>4, <1>5
  <2>2. left = <<>>
    BY <1>4, <2>1
  <2>3. \A f : Append(<<>>, f) = <<f>>
    OBVIOUS
  <2>4. Append(left, Joined(p)) = <<Joined(p)>>
    BY <2>2, <2>3, Zenon
  <2> QED  BY <1>5, <2>4 DEF E
<1>6. CASE E # {}
  <2>1. PICK q \in Peers : E = {q}
    BY <1>1, <1>2, <1>6
  <2>2. n = 1
    <3>1. \A i \in 1..n : order[i] = q
      BY <1>4, <2>1
    <3>2. PICK i \in 1..n : order[i] = q
      BY <1>4, <2>1
    <3>3. \A j \in 1..n : j = i
      BY <1>4, <3>1
    <3> QED  BY <3>3
  <2>3. DOMAIN order = 1..1 /\ order[1] = q
    BY <1>4, <2>1, <2>2
  <2>4. left = <<Left(q)>>
    BY <2>3
  <2>5. Append(left, Joined(p)) = Append(<<Left(q)>>, Joined(p))
    BY <2>4, Zenon
  <2> QED  BY <2>1, <2>5 DEF E
<1> QED  BY <1>5, <1>6

\* BrokerState starts with no room and no connection.
LEMMA InitRoom == Init => RoomInv
<1> SUFFICES ASSUME Init PROVE RoomInv
  OBVIOUS
<1> USE BrokerRoomAssumption DEF Init
<1>1. TypeOK
  BY DEF TypeOK, Connections, Sockets
<1>2. FreshIds
  BY DEF FreshIds
<1>3. \A ch \in Channels : Seated(ch) = {}
  BY DEF Seated
<1> QED  BY <1>1, <1>2, <1>3 DEF RoomInv, SeatsAreServed, OneSeatPerTicket

\* A step that leaves every seat alone and changes only how far a served socket's
\* task has come keeps the invariant.
LEMMA SeatsUntouched ==
  ASSUME RoomInv, TypeOK',
         UNCHANGED <<rooms, next_connection_id>>,
         NEW c \in Connections, sockets[c].state \in Live,
         NEW st \in Live,
         sockets' = [sockets EXCEPT ![c].state = st] \/ UNCHANGED sockets
  PROVE  RoomInv'
<1>0. sockets \in [Connections -> Sockets] /\ next_connection_id \in Nat
  BY BrokerRoomAssumption DEF RoomInv, TypeOK
<1>1. \A d \in Connections :
        /\ sockets[d].state \in Live => /\ sockets'[d].state \in Live
                                       /\ sockets'[d].channel = sockets[d].channel
                                       /\ sockets'[d].peer = sockets[d].peer
                                       /\ sockets'[d].ticket = sockets[d].ticket
        /\ sockets[d] = Unused => sockets'[d] = Unused
  <2> SUFFICES ASSUME NEW d \in Connections
               PROVE  /\ sockets[d].state \in Live => /\ sockets'[d].state \in Live
                                       /\ sockets'[d].channel = sockets[d].channel
                                       /\ sockets'[d].peer = sockets[d].peer
                                       /\ sockets'[d].ticket = sockets[d].ticket
                      /\ sockets[d] = Unused => sockets'[d] = Unused
    OBVIOUS
  <2>1. CASE UNCHANGED sockets
    BY <2>1
  <2>2. CASE sockets' = [sockets EXCEPT ![c].state = st] /\ d # c
    BY <2>2, <1>0
  <2>3. CASE sockets' = [sockets EXCEPT ![c].state = st] /\ d = c
    <3>1. sockets[c] # Unused
      BY DEF Unused, Live
    <3>2. sockets[c] \in [state : Live, channel : Channels, peer : Peers, ticket : Tickets]
      BY <1>0 DEF Sockets, Unused, Closed, Live
    <3>3. sockets'[c] = [sockets[c] EXCEPT !.state = st]
      BY <2>3, <1>0
    <3> QED  BY <2>3, <3>1, <3>2, <3>3
  <2> QED  BY <2>1, <2>2, <2>3
<1>2. \A ch \in Channels : \A p \in Seated(ch) :
        /\ rooms[ch][p] \in Connections
        /\ sockets[rooms[ch][p]].state \in Live
        /\ sockets[rooms[ch][p]].channel = ch
        /\ sockets[rooms[ch][p]].peer = p
  BY SeatIsLiveConnection DEF RoomInv, SeatsAreServed
<1>3. FreshIds'
  BY <1>0, <1>1 DEF RoomInv, FreshIds
<1>4. SeatsAreServed'
  BY <1>1, <1>2 DEF SeatsAreServed, Seated
<1>5. OneSeatPerTicket'
  <2>1. \A ch \in Channels : \A p \in Seated(ch) :
          sockets'[rooms'[ch][p]].ticket = sockets[rooms[ch][p]].ticket
    BY <1>1, <1>2
  <2> QED  BY <2>1 DEF RoomInv, OneSeatPerTicket, Seated
<1> QED  BY <1>3, <1>4, <1>5 DEF RoomInv

\* Frames put together by the actions are frames.
LEMMA FrameTypes ==
  /\ \A p \in Peers : Joined(p) \in Frames /\ Left(p) \in Frames
  /\ Superseded \in Frames
  /\ \A p \in Peers, to \in Peers \cup {"all"}, payload \in Payloads :
       Message(p, to, payload) \in Frames
BY DEF Joined, Left, Superseded, Message, Frames

\* A mailbox that gets a frame is still a queue of frames.
LEMMA AppendFrame ==
  ASSUME NEW box \in [Connections -> Seq(Frames)], NEW f \in Frames, NEW d \in Connections
  PROVE  Append(box[d], f) \in Seq(Frames)
OBVIOUS

\* What a join does, with the frames it announces spelled out.
Seats(ch, p, ticket, announced) ==
  LET c == next_connection_id + 1
      evicted == SupersededBy(ch, p, ticket)
      existing == Seated(ch) \ (evicted \cup {p})
  IN /\ \/ evicted = {} /\ announced = <<Joined(p)>>
        \/ \E q \in Peers : evicted = {q} /\ announced = Append(<<Left(q)>>, Joined(p))
     /\ next_connection_id' = c
     /\ rooms' = [rooms EXCEPT ![ch] =
                    [q \in Peers |-> IF q = p THEN c
                                     ELSE IF q \in evicted THEN 0 ELSE rooms[ch][q]]]
     /\ sockets' = [sockets EXCEPT ![c] =
                      [state |-> "joined", channel |-> ch, peer |-> p, ticket |-> ticket]]
     /\ mailbox' = [d \in Connections |->
                      IF d \in {rooms[ch][q] : q \in evicted}
                        THEN Append(mailbox[d], Superseded)
                      ELSE IF d \in {rooms[ch][q] : q \in existing}
                        THEN mailbox[d] \o announced
                      ELSE mailbox[d]]
     /\ view' = [view EXCEPT ![c] = existing]

\* BrokerState::join seats the newcomer after at most one departure.
LEMMA JoinStep ==
  ASSUME RoomInv, NEW ch \in Channels, NEW p \in Peers, NEW ticket \in Tickets,
         Join(ch, p, ticket)
  PROVE  \E announced : Seats(ch, p, ticket, announced)
<1> DEFINE c == next_connection_id + 1
           evicted == SupersededBy(ch, p, ticket)
           existing == Seated(ch) \ (evicted \cup {p})
           Announces(announced) ==
             mailbox' = [d \in Connections |->
                           IF d \in {rooms[ch][q] : q \in evicted}
                             THEN Append(mailbox[d], Superseded)
                           ELSE IF d \in {rooms[ch][q] : q \in existing}
                             THEN mailbox[d] \o announced
                           ELSE mailbox[d]]
<1>1. /\ next_connection_id' = c
      /\ rooms' = [rooms EXCEPT ![ch] =
                     [q \in Peers |-> IF q = p THEN c
                                      ELSE IF q \in evicted THEN 0 ELSE rooms[ch][q]]]
      /\ sockets' = [sockets EXCEPT ![c] =
                       [state |-> "joined", channel |-> ch, peer |-> p, ticket |-> ticket]]
      /\ view' = [view EXCEPT ![c] = existing]
  BY DEF Join
<1>2. PICK order \in Orders(evicted) :
        Announces(Append([i \in DOMAIN order |-> Left(order[i])], Joined(p)))
  BY DEF Join
<1>3. LET announced == Append([i \in DOMAIN order |-> Left(order[i])], Joined(p))
      IN \/ evicted = {} /\ announced = <<Joined(p)>>
         \/ \E q \in Peers : evicted = {q} /\ announced = Append(<<Left(q)>>, Joined(p))
  BY <1>2, Announced
<1> HIDE DEF evicted, existing, c
<1> QED  BY <1>1, <1>2, <1>3, Zenon DEF evicted, existing, c, Seats

\* A join seats exactly one connection, the newest, and frees the seats its ticket held.
LEMMA JoinRoom ==
  ASSUME RoomInv, NEW ch \in Channels, NEW p \in Peers, NEW ticket \in Tickets,
         Join(ch, p, ticket)
  PROVE  RoomInv'
<1> DEFINE c == next_connection_id + 1
           evicted == SupersededBy(ch, p, ticket)
           existing == Seated(ch) \ (evicted \cup {p})
           seat == [state |-> "joined", channel |-> ch, peer |-> p, ticket |-> ticket]
<1>0. /\ next_connection_id \in Nat
      /\ c \in Connections
      /\ rooms \in [Channels -> [Peers -> 0..MaxConnections]]
      /\ sockets \in [Connections -> Sockets]
      /\ mailbox \in [Connections -> Seq(Frames)]
      /\ view \in [Connections -> SUBSET Peers]
  BY BrokerRoomAssumption DEF RoomInv, TypeOK, Join, Connections
<1>a. PICK announced : Seats(ch, p, ticket, announced)
  BY JoinStep
<1>1. /\ \/ evicted = {} /\ announced = <<Joined(p)>>
         \/ \E q \in Peers : evicted = {q} /\ announced = Append(<<Left(q)>>, Joined(p))
      /\ next_connection_id' = c
      /\ rooms' = [rooms EXCEPT ![ch] =
                     [q \in Peers |-> IF q = p THEN c
                                      ELSE IF q \in evicted THEN 0 ELSE rooms[ch][q]]]
      /\ sockets' = [sockets EXCEPT ![c] = seat]
      /\ mailbox' = [d \in Connections |->
                       IF d \in {rooms[ch][q] : q \in evicted}
                         THEN Append(mailbox[d], Superseded)
                       ELSE IF d \in {rooms[ch][q] : q \in existing}
                         THEN mailbox[d] \o announced
                       ELSE mailbox[d]]
      /\ view' = [view EXCEPT ![c] = existing]
  BY <1>a DEF Seats
<1>2. TypeOK'
  <2>1. announced \in Seq(Frames)
    <3>1. \A q \in Peers : Left(q) \in Frames /\ Joined(q) \in Frames
      BY FrameTypes
    <3>2. /\ <<Joined(p)>> \in Seq(Frames)
          /\ \A q \in Peers : Append(<<Left(q)>>, Joined(p)) \in Seq(Frames)
      BY <3>1
    <3> QED  BY <1>1, <3>2, Zenon
  <2>2. mailbox' \in [Connections -> Seq(Frames)]
    <3> HIDE DEF evicted, existing
    <3> QED  BY <1>0, <1>1, <2>1, FrameTypes
  <2>3. view' \in [Connections -> SUBSET Peers]
    BY <1>0, <1>1 DEF Seated
  <2>4. seat \in Sockets
    BY DEF Sockets, Live
  <2>5. sockets' \in [Connections -> Sockets]
    BY <1>0, <1>1, <2>4
  <2>6. rooms' \in [Channels -> [Peers -> 0..MaxConnections]]
    <3> HIDE DEF evicted
    <3>1. c \in 0..MaxConnections /\ 0 \in 0..MaxConnections
      BY <1>0, BrokerRoomAssumption DEF Connections
    <3> HIDE DEF c
    <3> QED  BY <1>0, <1>1, <3>1
  <2>7. next_connection_id' \in 0..MaxConnections
    BY <1>0, <1>1 DEF Connections
  <2> QED  BY <2>2, <2>3, <2>5, <2>6, <2>7 DEF TypeOK
<1>3. FreshIds'
  BY <1>0, <1>1 DEF RoomInv, FreshIds, Connections
<1>4. c # 0 /\ \A x \in Channels : \A q \in Seated(x) :
                 rooms[x][q] \in Connections /\ rooms[x][q] # c
  BY <1>0, SeatIsLiveConnection DEF Connections
<1>5. \A x \in Channels : \A q \in Peers :
        /\ x = ch /\ q = p => rooms'[x][q] = c
        /\ x = ch /\ q # p /\ q \in evicted => rooms'[x][q] = 0
        /\ x # ch \/ (q # p /\ q \notin evicted) => rooms'[x][q] = rooms[x][q]
  <2> HIDE DEF c, evicted
  <2> QED  BY <1>0, <1>1
<1>6. sockets'[c] = seat /\ \A d \in Connections : d # c => sockets'[d] = sockets[d]
  BY <1>0, <1>1
<1>7. \A x \in Channels : \A q \in Seated(x)' :
        \/ x = ch /\ q = p /\ rooms'[x][q] = c /\ sockets'[rooms'[x][q]] = seat
        \/ /\ q \in Seated(x) /\ ~(x = ch /\ q \in evicted) /\ ~(x = ch /\ q = p)
           /\ rooms'[x][q] = rooms[x][q]
           /\ sockets'[rooms'[x][q]] = sockets[rooms[x][q]]
  <2> HIDE DEF c, evicted, seat
  <2> QED  BY <1>4, <1>5, <1>6 DEF Seated
<1>8. SeatsAreServed'
  <2>1. seat.state \in Live /\ seat.channel = ch /\ seat.peer = p
    BY DEF Live
  <2> HIDE DEF c, evicted, seat
  <2> QED  BY <1>7, <2>1 DEF SeatsAreServed, RoomInv
<1>9. OneSeatPerTicket'
  <2> SUFFICES ASSUME NEW x \in Channels, NEW q \in Seated(x)', NEW r \in Seated(x)',
                      sockets'[rooms'[x][q]].ticket \in Pairings,
                      sockets'[rooms'[x][r]].ticket = sockets'[rooms'[x][q]].ticket
               PROVE  q = r
    BY DEF OneSeatPerTicket
  <2>1. seat.ticket = ticket
    OBVIOUS
  <2>2. \A o \in Seated(ch) : o # p /\ ticket \in Pairings /\ sockets[rooms[ch][o]].ticket = ticket
          => o \in evicted
    BY DEF SupersededBy
  <2> HIDE DEF c, evicted, seat
  <2> QED  BY <1>7, <2>1, <2>2 DEF OneSeatPerTicket, RoomInv
<1> QED  BY <1>2, <1>3, <1>8, <1>9 DEF RoomInv

\* A leave gives back at most the seat its own connection holds.
LEMMA LeaveRoom ==
  ASSUME RoomInv, NEW c \in Connections, LeaveConnection(c)
  PROVE  RoomInv'
<1> DEFINE ch == sockets[c].channel
           p == sockets[c].peer
<1>0. /\ next_connection_id \in Nat
      /\ rooms \in [Channels -> [Peers -> 0..MaxConnections]]
      /\ sockets \in [Connections -> Sockets]
      /\ mailbox \in [Connections -> Seq(Frames)]
      /\ view \in [Connections -> SUBSET Peers]
  BY BrokerRoomAssumption DEF RoomInv, TypeOK
<1>1. /\ sockets[c].state = "closing"
      /\ sockets' = [sockets EXCEPT ![c] = Closed]
      /\ view' = [view EXCEPT ![c] = {}]
      /\ next_connection_id' = next_connection_id
  BY DEF LeaveConnection
<1>2. ch \in Channels /\ p \in Peers
  BY <1>0, <1>1 DEF Sockets, Unused, Closed
<1>3. \/ /\ rooms[ch][p] = c
         /\ rooms' = [rooms EXCEPT ![ch][p] = 0]
         /\ mailbox' = [d \in Connections |->
                          IF d = c THEN <<>>
                          ELSE IF d \in Audience(ch, c) THEN Append(mailbox[d], Left(p))
                          ELSE mailbox[d]]
      \/ /\ rooms[ch][p] # c
         /\ rooms' = rooms
         /\ mailbox' = [mailbox EXCEPT ![c] = <<>>]
  BY DEF LeaveConnection, HasSeat, Unseat
<1> HIDE DEF ch, p
<1>4. TypeOK'
  <2>1. rooms' \in [Channels -> [Peers -> 0..MaxConnections]]
    <3>1. [rooms[ch] EXCEPT ![p] = 0] \in [Peers -> 0..MaxConnections]
      BY <1>0, <1>2, BrokerRoomAssumption
    <3> QED  BY Zenon, <1>0, <1>2, <1>3, <3>1
  <2>2. mailbox' \in [Connections -> Seq(Frames)]
    <3>1. \A d \in Connections : Append(mailbox[d], Left(p)) \in Seq(Frames)
      BY <1>0, <1>2, FrameTypes, AppendFrame
    <3>2. <<>> \in Seq(Frames)
      OBVIOUS
    <3> QED  BY ZenonT(30), <1>0, <1>3, <3>1, <3>2
  <2>3. sockets' \in [Connections -> Sockets]
    BY <1>0, <1>1 DEF Sockets
  <2>4. view' \in [Connections -> SUBSET Peers]
    BY <1>0, <1>1
  <2> QED  BY <1>1, <2>1, <2>2, <2>3, <2>4 DEF TypeOK, RoomInv
<1>5. FreshIds'
  <2>1. ~(c > next_connection_id)
    BY <1>1 DEF RoomInv, FreshIds, Unused
  <2> QED  BY <1>0, <1>1, <2>1 DEF RoomInv, FreshIds, Connections
<1>6. \A x \in Channels : \A q \in Seated(x)' :
        /\ q \in Seated(x)
        /\ rooms'[x][q] = rooms[x][q]
        /\ sockets'[rooms'[x][q]] = sockets[rooms[x][q]]
  <2> SUFFICES ASSUME NEW x \in Channels, NEW q \in Seated(x)'
               PROVE  /\ q \in Seated(x)
                      /\ rooms'[x][q] = rooms[x][q]
                      /\ sockets'[rooms'[x][q]] = sockets[rooms[x][q]]
    OBVIOUS
  <2>1. q \in Seated(x) /\ rooms'[x][q] = rooms[x][q] /\ ~(x = ch /\ q = p /\ rooms[ch][p] = c)
    BY <1>0, <1>2, <1>3 DEF Seated
  <2>2. /\ rooms[x][q] \in Connections
        /\ sockets[rooms[x][q]].channel = x
        /\ sockets[rooms[x][q]].peer = q
    BY <2>1, SeatIsLiveConnection
  <2>3. rooms[x][q] # c
    BY <2>1, <2>2 DEF ch, p
  <2> QED  BY <1>0, <1>1, <2>1, <2>2, <2>3
<1>7. SeatsAreServed'
  BY <1>6 DEF SeatsAreServed, RoomInv
<1>8. OneSeatPerTicket'
  BY <1>6 DEF OneSeatPerTicket, RoomInv
<1> QED  BY <1>4, <1>5, <1>7, <1>8 DEF RoomInv

\* Every step of the broker's handlers keeps the seats in order.
LEMMA NextRoom == RoomInv /\ [Next]_vars => RoomInv'
<1> SUFFICES ASSUME RoomInv, [Next]_vars PROVE RoomInv'
  OBVIOUS
<1>0. /\ next_connection_id \in Nat
      /\ rooms \in [Channels -> [Peers -> 0..MaxConnections]]
      /\ sockets \in [Connections -> Sockets]
      /\ mailbox \in [Connections -> Seq(Frames)]
      /\ view \in [Connections -> SUBSET Peers]
  BY BrokerRoomAssumption DEF RoomInv, TypeOK
<1>1. ASSUME NEW ch \in Channels, NEW p \in Peers, NEW ticket \in Tickets, Join(ch, p, ticket)
      PROVE  RoomInv'
  BY <1>1, JoinRoom
<1>2. ASSUME NEW ch \in Channels, NEW p \in Peers, JoinRefused(ch, p)
      PROVE  RoomInv'
  <2>1. TypeOK' /\ FreshIds'
    BY <1>0, <1>2, BrokerRoomAssumption DEF JoinRefused, RoomInv, TypeOK, FreshIds, Connections
  <2> QED  BY <1>2, <2>1 DEF JoinRefused, RoomInv, SeatsAreServed, OneSeatPerTicket, Seated
<1>3. ASSUME NEW c \in Connections, NEW st \in Live, sockets[c].state \in Live,
             sockets' = [sockets EXCEPT ![c].state = st],
             UNCHANGED <<rooms, next_connection_id, mailbox, view>>
      PROVE  RoomInv'
  <2>1. sockets[c] \in [state : Live, channel : Channels, peer : Peers, ticket : Tickets]
    BY <1>0, <1>3 DEF Sockets, Unused, Closed, Live
  <2>2. [sockets[c] EXCEPT !.state = st] \in Sockets
    BY <1>3, <2>1 DEF Sockets
  <2>3. TypeOK'
    BY <1>0, <1>3, <2>2 DEF TypeOK, RoomInv
  <2> QED  BY Zenon, <1>3, <2>3, SeatsUntouched
<1>4. ASSUME NEW c \in Connections,
             SendWelcome(c) \/ OutboundClosed(c) \/ SocketEnds(c) \/ PublishReplaced(c)
      PROVE  RoomInv'
  BY <1>3, <1>4 DEF SendWelcome, OutboundClosed, SocketEnds, PublishReplaced, Live
<1>5. ASSUME NEW c \in Connections, Deliver(c)
      PROVE  RoomInv'
  <2>1. Head(mailbox[c]) \in Frames /\ Tail(mailbox[c]) \in Seq(Frames)
    BY <1>0, <1>5 DEF Deliver
  <2>2. Applied(view[c], Head(mailbox[c])) \in SUBSET Peers
    BY <1>0, <2>1 DEF Applied, Frames, Superseded
  <2>3. TypeOK'
    BY <1>0, <1>5, <2>1, <2>2 DEF Deliver, TypeOK, RoomInv
  <2> QED  BY <1>5, <2>3, SeatsUntouched DEF Deliver, Live
<1>6. ASSUME NEW c \in Connections, LeaveConnection(c)
      PROVE  RoomInv'
  BY <1>6, LeaveRoom
<1>7. ASSUME NEW c \in Connections, NEW payload \in Payloads, PublishBroadcast(c, payload)
      PROVE  RoomInv'
  <2>1. sockets[c].peer \in Peers
    BY <1>0, <1>7 DEF PublishBroadcast, MayPublish, Sockets, Unused, Closed
  <2>2. mailbox' \in [Connections -> Seq(Frames)]
    <3>1. \A d \in Connections :
            Append(mailbox[d], Message(sockets[c].peer, "all", payload)) \in Seq(Frames)
      BY Zenon, <1>0, <2>1, FrameTypes, AppendFrame
    <3> QED  BY <1>0, <1>7, <3>1 DEF PublishBroadcast
  <2>3. TypeOK'
    BY <1>7, <2>2 DEF PublishBroadcast, TypeOK, RoomInv
  <2> QED  BY <1>7, <2>3, SeatsUntouched DEF PublishBroadcast, MayPublish, Live
<1>8. ASSUME NEW c \in Connections, NEW payload \in Payloads, NEW target \in Peers,
             PublishTargeted(c, target, payload)
      PROVE  RoomInv'
  <2>1. sockets[c].peer \in Peers
    <3>1. sockets[c].state = "open" /\ sockets[c] \in Sockets
      BY <1>0, <1>8 DEF PublishTargeted, MayPublish
    <3> QED  BY <3>1 DEF Sockets, Unused, Closed
  <2>2. mailbox' \in [Connections -> Seq(Frames)]
    <3>1. \A d \in Connections :
            Append(mailbox[d], Message(sockets[c].peer, target, payload)) \in Seq(Frames)
      BY <1>0, <2>1, FrameTypes, AppendFrame
    <3> QED  BY Zenon, <1>0, <1>8, <3>1 DEF PublishTargeted
  <2>3. TypeOK'
    BY <1>8, <2>2 DEF PublishTargeted, TypeOK, RoomInv
  <2> QED  BY <1>8, <2>3, SeatsUntouched DEF PublishTargeted, MayPublish, Live
<1>9. CASE UNCHANGED vars
  BY <1>9 DEF vars, RoomInv, TypeOK, FreshIds, SeatsAreServed, OneSeatPerTicket, Seated
<1> QED  BY <1>1, <1>2, <1>4, <1>5, <1>6, <1>7, <1>8, <1>9 DEF Next

\* The type invariant of the broker's rooms holds in every reachable state.
THEOREM RoomTypeCorrect == Spec => []TypeOK
<1>1. RoomInv => TypeOK
  BY DEF RoomInv
<1> QED  BY InitRoom, NextRoom, <1>1, PTL DEF Spec

\* BrokerState::join and leave_inner never let two peers of one room hold seats of
\* the same pairing ticket.
THEOREM OneSeat == Spec => []OneSeatPerTicket
<1>1. RoomInv => OneSeatPerTicket
  BY DEF RoomInv
<1> QED  BY InitRoom, NextRoom, <1>1, PTL DEF Spec

\* Every seat of a room is held by a socket task that is still running and that
\* joined for that room and that peer id.
THEOREM NoGhostSeats == Spec => []SeatsAreServed
<1>1. RoomInv => SeatsAreServed
  BY DEF RoomInv
<1> QED  BY InitRoom, NextRoom, <1>1, PTL DEF Spec

\* No step of a socket task takes the seat of another connection, except a join
\* that supersedes it: a late leave_connection of a replaced socket is harmless.
THEOREM SeatsAreNotStolen == Spec => SeatLostOnlyToOwnerOrSuccessor
<1> DEFINE Kept == \A ch \in Channels : \A p \in Seated(ch) :
       LET c == rooms[ch][p]
       IN rooms'[ch][p] # c =>
            \/ sockets[c].state = "closing" /\ sockets'[c] = Closed
            \/ p \in Relays /\ rooms'[ch][p] > c
            \/ \E q \in Peers :
                 /\ rooms'[ch][q] > c
                 /\ sockets'[rooms'[ch][q]].ticket = sockets[c].ticket
                 /\ sockets[c].ticket \in Pairings
<1>1. ASSUME RoomInv, Next PROVE Kept
  <2> SUFFICES ASSUME NEW ch \in Channels, NEW p \in Seated(ch), rooms'[ch][p] # rooms[ch][p]
               PROVE  \/ /\ sockets[rooms[ch][p]].state = "closing"
                         /\ sockets'[rooms[ch][p]] = Closed
                      \/ p \in Relays /\ rooms'[ch][p] > rooms[ch][p]
                      \/ \E q \in Peers :
                           /\ rooms'[ch][q] > rooms[ch][p]
                           /\ sockets'[rooms'[ch][q]].ticket = sockets[rooms[ch][p]].ticket
                           /\ sockets[rooms[ch][p]].ticket \in Pairings
    OBVIOUS
  <2>0. /\ next_connection_id \in Nat
        /\ rooms \in [Channels -> [Peers -> 0..MaxConnections]]
        /\ sockets \in [Connections -> Sockets]
        /\ rooms[ch][p] \in Connections
        /\ rooms[ch][p] \in Nat
        /\ rooms[ch][p] <= next_connection_id
        /\ rooms[ch][p] # 0
        /\ p \in Peers
    BY <1>1, SeatIsLiveConnection, BrokerRoomAssumption DEF RoomInv, TypeOK, Connections, Seated
  <2>1. ASSUME NEW x \in Channels, NEW q \in Peers, NEW ticket \in Tickets, Join(x, q, ticket)
        PROVE  \/ p \in Relays /\ rooms'[ch][p] > rooms[ch][p]
               \/ \E o \in Peers :
                    /\ rooms'[ch][o] > rooms[ch][p]
                    /\ sockets'[rooms'[ch][o]].ticket = sockets[rooms[ch][p]].ticket
                    /\ sockets[rooms[ch][p]].ticket \in Pairings
    <3> DEFINE c == next_connection_id + 1
               evicted == SupersededBy(x, q, ticket)
    <3>1. /\ rooms' = [rooms EXCEPT ![x] =
                     [o \in Peers |-> IF o = q THEN c
                                      ELSE IF o \in evicted THEN 0 ELSE rooms[x][o]]]
          /\ sockets' = [sockets EXCEPT ![c] =
                     [state |-> "joined", channel |-> x, peer |-> q, ticket |-> ticket]]
          /\ rooms[x][q] = 0 \/ q \in Relays
          /\ c \in Connections
      BY <2>0, <2>1, BrokerRoomAssumption DEF Join, MaySeat, Connections
    <3>2. c > rooms[ch][p]
      BY <2>0
    <3>3. x = ch
      BY <2>0, <3>1
    <3>4. rooms'[ch][q] = c /\ sockets'[c].ticket = ticket
      BY <2>0, <3>1, <3>3
    <3>5. CASE p = q
      BY <2>0, <3>1, <3>2, <3>3, <3>4, <3>5
    <3>6. CASE p # q
      <4>1. p \in evicted
        <5> HIDE DEF evicted, c
        <5> QED  BY <2>0, <3>1, <3>3, <3>6
      <4>2. ticket \in Pairings /\ sockets[rooms[ch][p]].ticket = ticket
        BY <3>3, <4>1 DEF SupersededBy
      <4> HIDE DEF c
      <4> QED  BY <3>2, <3>4, <4>2
    <3> QED  BY <3>5, <3>6
  <2>2. ASSUME NEW c \in Connections, LeaveConnection(c)
        PROVE  sockets[rooms[ch][p]].state = "closing" /\ sockets'[rooms[ch][p]] = Closed
    <3>1. /\ sockets[c].state = "closing"
          /\ sockets' = [sockets EXCEPT ![c] = Closed]
      BY <2>2 DEF LeaveConnection
    <3>2. sockets[c].channel \in Channels /\ sockets[c].peer \in Peers
      BY <2>0, <3>1 DEF Sockets, Unused, Closed
    <3>3. /\ rooms[sockets[c].channel][sockets[c].peer] = c
          /\ rooms' = [rooms EXCEPT ![sockets[c].channel][sockets[c].peer] = 0]
      BY <2>2 DEF LeaveConnection, HasSeat, Unseat
    <3>4. sockets[c].channel = ch /\ sockets[c].peer = p
      BY <2>0, <3>2, <3>3
    <3>5. rooms[ch][p] = c
      BY <3>3, <3>4
    <3> QED  BY <2>0, <3>1, <3>5
  <2>3. ~ UNCHANGED rooms
    OBVIOUS
  <2> QED  BY Zenon, <1>1, <2>1, <2>2, <2>3 DEF Next, JoinRefused, SendWelcome, Deliver,
                                                OutboundClosed, SocketEnds, PublishBroadcast,
                                                PublishTargeted, PublishReplaced
<1>2. RoomInv /\ [Next]_vars => [Kept]_vars
  <2> SUFFICES ASSUME RoomInv, [Next]_vars PROVE [Kept]_vars
    OBVIOUS
  <2>1. CASE Next
    BY <1>1, <2>1
  <2> QED  BY <2>1
<1> QED  BY InitRoom, NextRoom, <1>2, PTL DEF Spec, SeatLostOnlyToOwnerOrSuccessor

-------------------------------------------------------------------------------
(* Presence *)

\* Two frames announced together are two frames sent one after the other.
LEMMA TwoMore ==
  ASSUME NEW s \in Seq(Frames), NEW e \in Frames, NEW f \in Frames
  PROVE  s \o Append(<<e>>, f) = Append(Append(s, e), f)
<1>1. PICK t \in Seq(Frames) : t = Append(<<e>>, f) /\ Len(t) = 2 /\ t[1] = e /\ t[2] = f
  <2>1. LET t == Append(<<e>>, f) IN t \in Seq(Frames) /\ Len(t) = 2 /\ t[1] = e /\ t[2] = f
    OBVIOUS
  <2> QED  BY <2>1, Zenon
<1>2. s \o t = Append(Append(s, e), f)
  BY <1>1
<1> QED  BY <1>1, <1>2, Zenon

\* A frame that is appended has the last word on its peer.
LEMMA HearsAppended ==
  ASSUME NEW known, NEW box \in Seq(Frames), NEW f \in Frames, NEW q \in Peers
  PROVE  /\ f = Joined(q) => Hears(known, Append(box, f), q)
         /\ f = Left(q) => ~Hears(known, Append(box, f), q)
         /\ f \notin {Joined(q), Left(q)} =>
              (Hears(known, Append(box, f), q) <=> Hears(known, box, q))
<1>1. PICK n \in Nat : n = Len(box)
  OBVIOUS
<1>2. PICK more : more = Append(box, f)
  BY ZenonT(30)
<1>3. /\ Len(more) = n + 1 /\ more[n + 1] = f /\ \A i \in 1..n : more[i] = box[i]
  BY SMTT(30), Zenon, <1>1, <1>2
<1>4. Joined(q) # Left(q)
  BY DEF Joined, Left
<1>5. ASSUME f = Joined(q) PROVE Hears(known, more, q)
  <2>1. n + 1 \in 1..Len(more) /\ more[n + 1] = Joined(q) /\ n + 1 + 1..Len(more) = {}
    BY <1>1, <1>3, <1>5
  <2> QED  BY <2>1 DEF Hears
<1>6. ASSUME f = Left(q) PROVE ~Hears(known, more, q)
  <2>1. n + 1 \in 1..Len(more) /\ more[n + 1] = Left(q)
    BY <1>1, <1>3, <1>6
  <2>2. ASSUME NEW i \in 1..Len(more), more[i] = Joined(q) PROVE n + 1 \in i+1..Len(more)
    BY <1>1, <1>3, <1>4, <1>6, <2>2
  <2> QED  BY <2>1, <2>2 DEF Hears
<1>7. ASSUME f # Joined(q), f # Left(q)
      PROVE  Hears(known, more, q) <=> Hears(known, box, q)
  <2>1. (\A j \in 1..Len(more) : more[j] # Left(q)) <=> (\A j \in 1..Len(box) : box[j] # Left(q))
    BY <1>1, <1>3, <1>7
  <2>2. ASSUME NEW i \in 1..Len(box)
        PROVE  (\A j \in i+1..Len(more) : more[j] # Left(q))
                 <=> (\A j \in i+1..Len(box) : box[j] # Left(q))
    BY <1>1, <1>3, <1>7
  <2>3. \A i \in 1..Len(more) : more[i] = Joined(q) => i \in 1..Len(box) /\ box[i] = Joined(q)
    BY <1>1, <1>3, <1>7
  <2>4. \A i \in 1..Len(box) : i \in 1..Len(more) /\ more[i] = box[i]
    BY <1>1, <1>3
  <2> QED  BY <2>1, <2>2, <2>3, <2>4, Zenon DEF Hears
<1> QED  BY <1>2, <1>5, <1>6, <1>7, Zenon

\* Reading the next frame does not change what a client knows in the end.
LEMMA HearsRead ==
  ASSUME NEW known, NEW box \in Seq(Frames), box # <<>>, NEW q \in Peers
  PROVE  Hears(Applied(known, Head(box)), Tail(box), q) <=> Hears(known, box, q)
<1>0. Len(box) \in Nat \ {0}
  OBVIOUS
<1>1. PICK n \in Nat : n + 1 = Len(box)
  BY <1>0, Len(box) - 1 \in Nat
<1>2. PICK rest : rest = Tail(box)
  BY ZenonT(30)
<1>3. PICK f \in Frames : f = Head(box)
  OBVIOUS
<1>4. /\ Len(rest) = n /\ box[1] = f /\ \A i \in 1..n : rest[i] = box[i + 1]
  BY SMTT(30), Zenon, <1>1, <1>2, <1>3
<1>5. /\ Joined(q) # Left(q)
      /\ q \in Applied(known, f) <=> f = Joined(q) \/ (q \in known /\ f # Left(q))
  <2>1. Joined(q) # Left(q) /\ (f.type = "joined" => (f.peer = q <=> f = Joined(q)))
    BY DEF Joined, Left, Frames, Superseded
  <2>2. f.type = "left" => (f.peer = q <=> f = Left(q))
    BY DEF Left, Frames, Superseded
  <2>3. f = Joined(q) => f.type = "joined"
    BY DEF Joined
  <2>4. f = Left(q) => f.type = "left"
    BY DEF Left
  <2> QED  BY <2>1, <2>2, <2>3, <2>4 DEF Applied
<1>6. (\A j \in 1..Len(box) : box[j] # Left(q))
        <=> f # Left(q) /\ \A j \in 1..Len(rest) : rest[j] # Left(q)
  <2>1. ASSUME NEW j \in 1..Len(box), j # 1 PROVE j - 1 \in 1..n /\ box[j] = rest[j - 1]
    BY <1>1, <1>4, <2>1
  <2>2. ASSUME NEW j \in 1..Len(rest) PROVE j + 1 \in 1..Len(box) /\ box[j + 1] = rest[j]
    BY <1>1, <1>4
  <2>3. 1 \in 1..Len(box)
    BY <1>1
  <2> QED  BY <1>4, <2>1, <2>2, <2>3
<1>7. ASSUME NEW i \in 1..Len(rest)
      PROVE  /\ i + 1 \in 1..Len(box) /\ box[i + 1] = rest[i]
             /\ (\A j \in (i+1)+1..Len(box) : box[j] # Left(q))
                  <=> (\A j \in i+1..Len(rest) : rest[j] # Left(q))
  <2>1. ASSUME NEW j \in (i+1)+1..Len(box) PROVE j - 1 \in i+1..Len(rest) /\ box[j] = rest[j - 1]
    BY <1>1, <1>4, <1>7, <2>1
  <2>2. ASSUME NEW j \in i+1..Len(rest) PROVE j + 1 \in (i+1)+1..Len(box) /\ box[j + 1] = rest[j]
    BY <1>1, <1>4, <1>7, <2>2
  <2>3. i + 1 \in 1..Len(box) /\ box[i + 1] = rest[i]
    BY <1>1, <1>4, <1>7
  <2> QED  BY Zenon, <2>1, <2>2, <2>3
<1>8. (\A j \in 1+1..Len(box) : box[j] # Left(q)) <=> (\A j \in 1..Len(rest) : rest[j] # Left(q))
  <2>1. ASSUME NEW j \in 1+1..Len(box) PROVE j - 1 \in 1..Len(rest) /\ box[j] = rest[j - 1]
    BY <1>1, <1>4, <2>1
  <2>2. ASSUME NEW j \in 1..Len(rest) PROVE j + 1 \in 1+1..Len(box) /\ box[j + 1] = rest[j]
    BY <1>1, <1>4, <2>2
  <2> QED  BY Zenon, <2>1, <2>2
<1>9. \A i \in 1..Len(box) : i = 1 \/ (i - 1 \in 1..Len(rest) /\ (i - 1) + 1 = i)
  BY <1>1, <1>4
<1>10. ASSUME Hears(Applied(known, f), rest, q) PROVE Hears(known, box, q)
  <2>1. CASE \E i \in 1..Len(rest) :
               rest[i] = Joined(q) /\ \A j \in i+1..Len(rest) : rest[j] # Left(q)
    BY SMTT(30), <1>7, <2>1 DEF Hears
  <2>2. CASE q \in Applied(known, f) /\ \A j \in 1..Len(rest) : rest[j] # Left(q)
    <3>1. CASE f = Joined(q)
      <4>1. 1 \in 1..Len(box) /\ box[1] = Joined(q)
        BY <1>1, <1>4, <3>1
      <4> QED  BY <1>8, <2>2, <4>1 DEF Hears
    <3>2. CASE f # Joined(q)
      BY <1>5, <1>6, <2>2, <3>2, Zenon DEF Hears
    <3> QED  BY <3>1, <3>2
  <2> QED  BY <1>10, <2>1, <2>2, Zenon DEF Hears
<1>11. ASSUME Hears(known, box, q) PROVE Hears(Applied(known, f), rest, q)
  <2>1. ASSUME NEW i \in 1..Len(box), box[i] = Joined(q),
               \A j \in i+1..Len(box) : box[j] # Left(q)
        PROVE  Hears(Applied(known, f), rest, q)
    <3>1. CASE i = 1
      <4>1. f = Joined(q)
        BY <1>4, <2>1, <3>1
      <4>2. \A j \in 1..Len(rest) : rest[j] # Left(q)
        BY <1>8, <2>1, <3>1
      <4> QED  BY <1>5, <4>1, <4>2, Zenon DEF Hears
    <3>2. CASE i # 1
      <4>1. PICK k \in 1..Len(rest) : k + 1 = i
        BY <1>9, <3>2
      <4>2. rest[k] = Joined(q) /\ \A j \in k+1..Len(rest) : rest[j] # Left(q)
        BY SMTT(30), <1>7, <2>1, <4>1
      <4> QED  BY <4>1, <4>2, Zenon DEF Hears
    <3> QED  BY <3>1, <3>2
  <2>2. CASE q \in known /\ \A j \in 1..Len(box) : box[j] # Left(q)
    BY <1>5, <1>6, <2>2, Zenon DEF Hears
  <2> QED  BY <1>11, <2>1, <2>2, Zenon DEF Hears
<1> QED  BY <1>2, <1>3, <1>10, <1>11, Zenon

\* Mailboxes of connections that were not handed out yet are empty.
FreshBoxes == \A c \in Connections : c > next_connection_id => mailbox[c] = <<>>

PresenceInv == FreshBoxes /\ PresenceAddsUp

\* A connection holds one seat.
LEMMA OneSeatPerConnection ==
  ASSUME RoomInv, NEW x \in Channels, NEW p \in Seated(x), NEW y \in Channels, NEW q \in Seated(y),
         rooms[x][p] = rooms[y][q]
  PROVE  x = y /\ p = q
BY SeatIsLiveConnection

\* What a seated client hears, whichever way its mailbox and its view changed.
LEMMA PresenceKept ==
  ASSUME RoomInv, PresenceInv, UNCHANGED <<rooms, next_connection_id>>,
         \A c \in Connections : mailbox[c] = <<>> /\ c > next_connection_id => mailbox'[c] = <<>>,
         \A x \in Channels : \A p \in Seated(x) : \A q \in Peers :
           Hears(view'[rooms[x][p]], mailbox'[rooms[x][p]], q)
             <=> Hears(view[rooms[x][p]], mailbox[rooms[x][p]], q)
  PROVE  PresenceInv'
<1>1. FreshBoxes'
  BY DEF PresenceInv, FreshBoxes
<1>2. \A x \in Channels : Seated(x)' = Seated(x)
  BY DEF Seated
<1>3. PresenceAddsUp'
  <2> SUFFICES ASSUME NEW x \in Channels, NEW p \in Seated(x), NEW q \in Peers
               PROVE  Hears(view'[rooms[x][p]], mailbox'[rooms[x][p]], q)
                        <=> q \in Seated(x) \ {p}
    BY <1>2 DEF PresenceAddsUp
  <2>1. Hears(view[rooms[x][p]], mailbox[rooms[x][p]], q) <=> q \in Seated(x) \ {p}
    BY DEF PresenceInv, PresenceAddsUp
  <2> QED  BY <2>1
<1> QED  BY <1>1, <1>3 DEF PresenceInv

\* The room hears of who left by a join, then of who joined; the newcomer is welcomed
\* with the others.
LEMMA JoinPresence ==
  ASSUME RoomInv, PresenceInv, NEW ch \in Channels, NEW p \in Peers, NEW ticket \in Tickets,
         Join(ch, p, ticket)
  PROVE  PresenceInv'
<1> DEFINE c == next_connection_id + 1
           evicted == SupersededBy(ch, p, ticket)
           existing == Seated(ch) \ (evicted \cup {p})
<1>0. /\ next_connection_id \in Nat /\ c \in Connections
      /\ rooms \in [Channels -> [Peers -> 0..MaxConnections]]
      /\ mailbox \in [Connections -> Seq(Frames)]
      /\ view \in [Connections -> SUBSET Peers]
  BY BrokerRoomAssumption DEF RoomInv, TypeOK, Join, Connections
<1>a. PICK announced : Seats(ch, p, ticket, announced)
  BY JoinStep
<1>1. /\ \/ evicted = {} /\ announced = <<Joined(p)>>
         \/ \E q \in Peers : evicted = {q} /\ announced = Append(<<Left(q)>>, Joined(p))
      /\ next_connection_id' = c
      /\ rooms' = [rooms EXCEPT ![ch] =
                     [q \in Peers |-> IF q = p THEN c
                                      ELSE IF q \in evicted THEN 0 ELSE rooms[ch][q]]]
      /\ sockets' = [sockets EXCEPT ![c] =
                       [state |-> "joined", channel |-> ch, peer |-> p, ticket |-> ticket]]
      /\ mailbox' = [d \in Connections |->
                       IF d \in {rooms[ch][q] : q \in evicted}
                         THEN Append(mailbox[d], Superseded)
                       ELSE IF d \in {rooms[ch][q] : q \in existing}
                         THEN mailbox[d] \o announced
                       ELSE mailbox[d]]
      /\ view' = [view EXCEPT ![c] = existing]
  BY <1>a DEF Seats
<1>2. \A x \in Channels : \A q \in Seated(x) :
        rooms[x][q] \in Connections /\ rooms[x][q] <= next_connection_id /\ rooms[x][q] # c
  BY <1>0, SeatIsLiveConnection DEF Connections
<1>3. evicted \subseteq Seated(ch) /\ existing \subseteq Seated(ch) /\ p \notin evicted
  BY SMTT(30) DEF SupersededBy
<1>4. FreshBoxes'
  <2> SUFFICES ASSUME NEW d \in Connections, d > next_connection_id' PROVE mailbox'[d] = <<>>
    BY DEF FreshBoxes
  <2>1. d > next_connection_id /\ mailbox[d] = <<>>
    BY <1>0, <1>1 DEF PresenceInv, FreshBoxes, Connections
  <2>2. \A q \in Seated(ch) : rooms[ch][q] # d
    BY SMTT(30), <1>0, <1>2, <2>1 DEF Connections
  <2> HIDE DEF evicted, existing
  <2> QED  BY <1>1, <1>3, <2>1, <2>2
<1>5. /\ \A q \in Peers : q \in Seated(ch)' <=> q = p \/ (q \in Seated(ch) /\ q \notin evicted)
      /\ \A x \in Channels : x # ch => Seated(x)' = Seated(x)
      /\ rooms'[ch][p] = c
      /\ \A x \in Channels : \A q \in Seated(x)' : x # ch \/ q # p => rooms'[x][q] = rooms[x][q]
  <2>1. c # 0
    BY SMTT(30), <1>0
  <2> HIDE DEF c, evicted
  <2> QED  BY SMTT(30), Zenon, <1>0, <1>1, <2>1 DEF Seated
<1>6. mailbox'[c] = <<>> /\ view'[c] = existing
  <2>1. mailbox[c] = <<>>
    BY <1>0 DEF PresenceInv, FreshBoxes
  <2>2. \A q \in Seated(ch) : rooms[ch][q] # c
    BY <1>2
  <2> HIDE DEF c, evicted, existing
  <2> QED  BY <1>0, <1>1, <1>3, <2>1, <2>2
<1>7. \A q \in Peers : Hears(view'[c], mailbox'[c], q) <=> q \in Seated(ch)' \ {p}
  <2>1. \A q \in Peers : Hears(view'[c], mailbox'[c], q) <=> q \in existing
    BY SMTT(30), <1>6 DEF Hears
  <2> HIDE DEF c, evicted
  <2> QED  BY <1>5, <2>1
<1>8. ASSUME NEW o \in Seated(ch), o # p, o \notin evicted, NEW q \in Peers
      PROVE  Hears(view'[rooms[ch][o]], mailbox'[rooms[ch][o]], q) <=> q \in Seated(ch)' \ {o}
  <2>1. PICK d \in Connections : d = rooms[ch][o] /\ d # c
    BY <1>2
  <2>2. o \in Peers
    BY SMTT(30) DEF Seated
  <2>3. \A e \in evicted : rooms[ch][e] # d
    BY SMTT(30), <1>3, <1>8, <2>1, OneSeatPerConnection
  <2>4. mailbox'[d] = mailbox[d] \o announced /\ view'[d] = view[d]
    <3>1. d \notin {rooms[ch][e] : e \in evicted}
      BY <2>3
    <3>2. d \in {rooms[ch][e] : e \in existing}
      BY <1>8, <2>1
    <3> HIDE DEF c, evicted, existing
    <3> QED  BY ZenonT(30), <1>0, <1>1, <2>1, <3>1, <3>2
  <2>5. PICK box \in Seq(Frames) : box = mailbox[d]
    BY <1>0
  <2>6. Hears(view[d], box, q) <=> q \in Seated(ch) \ {o}
    BY <2>1, <2>5 DEF PresenceInv, PresenceAddsUp
  <2>7. /\ \A e \in Peers : Left(e) \in Frames /\ Joined(e) \in Frames
        /\ \A e \in Peers : Left(e) # Joined(q) /\ Joined(e) # Left(q)
        /\ \A e \in Peers : (Left(e) = Left(q) <=> e = q) /\ (Joined(e) = Joined(q) <=> e = q)
    <3>1. \A e \in Peers : Left(e) \in Frames /\ Joined(e) \in Frames
      BY FrameTypes
    <3> QED  BY SMTT(30), <3>1 DEF Left, Joined
  <2>8. CASE evicted = {} /\ announced = <<Joined(p)>>
    <3>1. mailbox'[d] = Append(box, Joined(p))
      BY <2>4, <2>5, <2>7, <2>8
    <3>2. Hears(view'[d], mailbox'[d], q) <=> q = p \/ Hears(view[d], box, q)
      BY SMTT(30), <2>4, <2>7, <3>1, HearsAppended
    <3> HIDE DEF evicted, c
    <3> QED  BY SMTT(30), <1>5, <1>8, <2>1, <2>6, <2>8, <3>2
  <2>9. ASSUME NEW e \in Peers, evicted = {e}, announced = Append(<<Left(e)>>, Joined(p))
        PROVE  Hears(view'[d], mailbox'[d], q) <=> q \in Seated(ch)' \ {o}
    <3>1. mailbox'[d] = Append(Append(box, Left(e)), Joined(p))
      BY SMTT(30), Zenon, <2>4, <2>5, <2>7, <2>9, TwoMore
    <3>2. Append(box, Left(e)) \in Seq(Frames)
      BY <2>7
    <3>3. Hears(view[d], Append(box, Left(e)), q) <=> q # e /\ Hears(view[d], box, q)
      BY <2>7, HearsAppended
    <3>4. Hears(view'[d], mailbox'[d], q) <=> q = p \/ (q # e /\ Hears(view[d], box, q))
      <4>1. PICK less \in Seq(Frames) : less = Append(box, Left(e))
        BY Zenon, <3>2
      <4>2. Joined(p) \in Frames /\ Joined(p) # Left(q) /\ (Joined(p) = Joined(q) <=> q = p)
        BY <2>7
      <4>3. Hears(view[d], Append(less, Joined(p)), q) <=> q = p \/ Hears(view[d], less, q)
        BY SMTT(30), <4>2, HearsAppended
      <4> QED  BY <2>4, <3>1, <3>3, <4>1, <4>3, Zenon
    <3> HIDE DEF evicted, c
    <3> QED  BY SMTT(30), <1>3, <1>5, <1>8, <2>1, <2>6, <2>9, <3>4
  <2> HIDE DEF evicted
  <2> QED  BY Zenon, <1>1, <2>1, <2>8, <2>9
<1>9. ASSUME NEW x \in Channels, x # ch, NEW o \in Seated(x), NEW q \in Peers
      PROVE  Hears(view'[rooms[x][o]], mailbox'[rooms[x][o]], q) <=> q \in Seated(x) \ {o}
  <2>1. PICK d \in Connections : d = rooms[x][o] /\ d # c
    BY <1>2
  <2>2. \A e \in Seated(ch) : rooms[ch][e] # d
    BY <1>9, <2>1, OneSeatPerConnection
  <2>3. mailbox'[d] = mailbox[d] /\ view'[d] = view[d]
    <3> HIDE DEF c, evicted, existing
    <3> QED  BY <1>0, <1>1, <1>3, <2>1, <2>2
  <2> QED  BY <2>1, <2>3 DEF PresenceInv, PresenceAddsUp
<1>10. PresenceAddsUp'
  <2> SUFFICES ASSUME NEW x \in Channels, NEW o \in Seated(x)', NEW q \in Peers
               PROVE  Hears(view'[rooms'[x][o]], mailbox'[rooms'[x][o]], q)
                        <=> q \in Seated(x)' \ {o}
    BY DEF PresenceAddsUp
  <2>1. o \in Peers
    BY SMTT(30) DEF Seated
  <2>2. CASE x = ch /\ o = p
    BY SMTT(30), <1>5, <1>7, <2>2
  <2>3. CASE x = ch /\ o # p
    <3> HIDE DEF c, evicted
    <3> QED  BY SMTT(30), <1>5, <1>8, <2>1, <2>3
  <2>4. CASE x # ch
    <3> HIDE DEF c, evicted
    <3> QED  BY <1>5, <1>9, <2>4
  <2> QED  BY <2>2, <2>3, <2>4
<1> QED  BY <1>4, <1>10 DEF PresenceInv

\* A leave that gives a seat back is announced to everyone else in the room.
LEMMA LeavePresence ==
  ASSUME RoomInv, PresenceInv, NEW c \in Connections, LeaveConnection(c)
  PROVE  PresenceInv'
<1>0. /\ rooms \in [Channels -> [Peers -> 0..MaxConnections]]
      /\ sockets \in [Connections -> Sockets]
      /\ mailbox \in [Connections -> Seq(Frames)]
      /\ view \in [Connections -> SUBSET Peers]
  BY DEF RoomInv, TypeOK
<1>1. PICK ch \in Channels, p \in Peers : ch = sockets[c].channel /\ p = sockets[c].peer
  <2>1. sockets[c].state = "closing" /\ sockets[c] \in Sockets
    BY <1>0 DEF LeaveConnection
  <2>2. sockets[c].channel \in Channels /\ sockets[c].peer \in Peers
    BY <2>1 DEF Sockets, Unused, Closed
  <2> QED  BY <2>2
<1>2. view' = [view EXCEPT ![c] = {}] /\ next_connection_id' = next_connection_id
  BY DEF LeaveConnection
<1>3. \A x \in Channels : \A o \in Seated(x) :
        /\ rooms[x][o] \in Connections /\ rooms[x][o] <= next_connection_id
        /\ rooms[x][o] = c => x = ch /\ o = p
  BY SMTT(30), <1>1, SeatIsLiveConnection
<1>4. CASE rooms[ch][p] # c
  <2>1. rooms' = rooms /\ mailbox' = [mailbox EXCEPT ![c] = <<>>]
    BY <1>1, <1>4 DEF LeaveConnection, HasSeat
  <2>2. \A x \in Channels : \A o \in Seated(x) : rooms[x][o] # c
    BY <1>3, <1>4
  <2>3. \A x \in Channels : \A o \in Seated(x) :
          /\ view'[rooms[x][o]] = view[rooms[x][o]]
          /\ mailbox'[rooms[x][o]] = mailbox[rooms[x][o]]
    BY SMTT(30), <1>0, <1>2, <1>3, <2>1, <2>2
  <2>4. \A d \in Connections : mailbox[d] = <<>> => mailbox'[d] = <<>>
    BY SMTT(30), <1>0, <2>1
  <2> QED  BY <1>2, <2>1, <2>3, <2>4, PresenceKept
<1>5. CASE rooms[ch][p] = c
  <2>1. /\ rooms' = [rooms EXCEPT ![ch][p] = 0]
        /\ mailbox' = [d \in Connections |->
                         IF d = c THEN <<>>
                         ELSE IF d \in Audience(ch, c) THEN Append(mailbox[d], Left(p))
                         ELSE mailbox[d]]
    BY <1>1, <1>5 DEF LeaveConnection, HasSeat, Unseat
  <2>2. FreshBoxes'
    <3> SUFFICES ASSUME NEW d \in Connections, d > next_connection_id PROVE mailbox'[d] = <<>>
      BY <1>2 DEF FreshBoxes
    <3>1. mailbox[d] = <<>>
      BY DEF PresenceInv, FreshBoxes
    <3>2. next_connection_id \in Nat
      BY BrokerRoomAssumption DEF RoomInv, TypeOK
    <3>3. \A q \in Seated(ch) : rooms[ch][q] # d
      BY <1>3, <3>2 DEF Connections
    <3> QED  BY <2>1, <3>1, <3>3 DEF Audience
  <2>3. /\ \A q \in Peers : q \in Seated(ch)' <=> q \in Seated(ch) /\ q # p
        /\ \A x \in Channels : x # ch => Seated(x)' = Seated(x)
        /\ \A x \in Channels : \A q \in Seated(x)' : rooms'[x][q] = rooms[x][q]
    BY <1>0, <2>1 DEF Seated
  <2>4. ASSUME NEW x \in Channels, NEW o \in Seated(x)', NEW q \in Peers
        PROVE  Hears(view'[rooms'[x][o]], mailbox'[rooms'[x][o]], q) <=> q \in Seated(x)' \ {o}
    <3>1. o \in Seated(x) /\ o \in Peers /\ ~(x = ch /\ o = p)
      <4>1. o \in Peers
        BY SMTT(30) DEF Seated
      <4> QED  BY <2>3, <4>1
    <3>2. PICK d \in Connections : d = rooms[x][o] /\ d # c
      BY <1>3, <3>1
    <3>3. rooms'[x][o] = d /\ view'[d] = view[d]
      BY SMTT(30), <1>0, <1>2, <2>3, <3>2
    <3>4. Hears(view[d], mailbox[d], q) <=> q \in Seated(x) \ {o}
      BY <3>1, <3>2 DEF PresenceInv, PresenceAddsUp
    <3>5. CASE x = ch
      <4>1. mailbox'[d] = Append(mailbox[d], Left(p))
        BY <2>1, <3>1, <3>2, <3>5 DEF Audience
      <4>2. /\ mailbox[d] \in Seq(Frames) /\ Left(p) \in Frames
            /\ Left(p) # Joined(q) /\ (Left(p) = Left(q) <=> q = p)
        BY Zenon, <1>0, FrameTypes DEF Left, Joined
      <4>3. Hears(view[d], Append(mailbox[d], Left(p)), q)
              <=> q # p /\ Hears(view[d], mailbox[d], q)
        BY <4>2, HearsAppended
      <4> QED  BY SMTT(30), <2>3, <3>3, <3>4, <3>5, <4>1, <4>3
    <3>6. CASE x # ch
      <4>1. \A e \in Seated(ch) : rooms[ch][e] # d
        BY <3>1, <3>2, <3>6, OneSeatPerConnection
      <4>2. mailbox'[d] = mailbox[d]
        BY SMTT(30), <2>1, <3>2, <4>1 DEF Audience
      <4> QED  BY <2>3, <3>3, <3>4, <3>6, <4>2
    <3> QED  BY <3>5, <3>6
  <2> QED  BY <2>2, <2>4 DEF PresenceInv, PresenceAddsUp
<1> QED  BY <1>4, <1>5

\* A published message says nothing about who is in the room.
LEMMA PublishPresence ==
  ASSUME RoomInv, PresenceInv, UNCHANGED <<rooms, next_connection_id, view>>,
         NEW f \in Frames, f.type = "message", NEW To,
         \A d \in To : \E x \in Channels : \E p \in Seated(x) : d = rooms[x][p],
         mailbox' = [d \in Connections |-> IF d \in To THEN Append(mailbox[d], f) ELSE mailbox[d]]
  PROVE  PresenceInv'
<1>0. mailbox \in [Connections -> Seq(Frames)] /\ next_connection_id \in Nat
  BY BrokerRoomAssumption DEF RoomInv, TypeOK
<1>1. ASSUME NEW d \in Connections, d > next_connection_id PROVE d \notin To
  BY <1>0, <1>1, SeatIsLiveConnection DEF Connections
<1>2. ASSUME NEW d \in Connections, NEW q \in Peers
      PROVE  Hears(view'[d], mailbox'[d], q) <=> Hears(view[d], mailbox[d], q)
  <2>1. f \notin {Joined(q), Left(q)} /\ mailbox[d] \in Seq(Frames)
    BY SMTT(30), <1>0 DEF Joined, Left
  <2>2. Hears(view[d], Append(mailbox[d], f), q) <=> Hears(view[d], mailbox[d], q)
    BY <2>1, HearsAppended
  <2> QED  BY SMTT(30), <2>2
<1>3. \A x \in Channels : \A p \in Seated(x) : rooms[x][p] \in Connections
  BY SeatIsLiveConnection
<1> QED  BY <1>1, <1>2, <1>3, PresenceKept

\* Every step of the broker keeps the clients' picture of their room complete.
LEMMA NextPresence == RoomInv /\ PresenceInv /\ [Next]_vars => PresenceInv'
<1> SUFFICES ASSUME RoomInv, PresenceInv, [Next]_vars PROVE PresenceInv'
  OBVIOUS
<1>0. /\ sockets \in [Connections -> Sockets] /\ next_connection_id \in Nat
      /\ mailbox \in [Connections -> Seq(Frames)]
      /\ view \in [Connections -> SUBSET Peers]
      /\ \A x \in Channels : \A p \in Seated(x) : rooms[x][p] \in Connections
  BY BrokerRoomAssumption, SeatIsLiveConnection DEF RoomInv, TypeOK
<1>1. ASSUME UNCHANGED <<rooms, next_connection_id, mailbox, view>> PROVE PresenceInv'
  BY <1>1, PresenceKept
<1>2. ASSUME NEW ch \in Channels, NEW p \in Peers, JoinRefused(ch, p) PROVE PresenceInv'
  <2>1. FreshBoxes'
    BY <1>0, <1>2 DEF JoinRefused, PresenceInv, FreshBoxes, Connections
  <2>2. PresenceAddsUp'
    BY SMTT(30), <1>2 DEF JoinRefused, PresenceInv, PresenceAddsUp, Seated
  <2> QED  BY SMTT(30), <2>1, <2>2 DEF PresenceInv
<1>3. ASSUME NEW c \in Connections,
             SendWelcome(c) \/ OutboundClosed(c) \/ SocketEnds(c) \/ PublishReplaced(c)
      PROVE  PresenceInv'
  BY SMTT(30), <1>1, <1>3 DEF SendWelcome, OutboundClosed, SocketEnds, PublishReplaced
<1>4. ASSUME NEW c \in Connections, Deliver(c) PROVE PresenceInv'
  <2>1. /\ mailbox[c] # <<>> /\ mailbox[c] \in Seq(Frames)
        /\ view' = [view EXCEPT ![c] = Applied(view[c], Head(mailbox[c]))]
        /\ mailbox' = [mailbox EXCEPT ![c] = Tail(mailbox[c])]
        /\ UNCHANGED <<rooms, next_connection_id>>
    BY <1>0, <1>4 DEF Deliver
  <2>2. ASSUME NEW d \in Connections, NEW q \in Peers
        PROVE  Hears(view'[d], mailbox'[d], q) <=> Hears(view[d], mailbox[d], q)
    <3>1. Hears(Applied(view[c], Head(mailbox[c])), Tail(mailbox[c]), q)
            <=> Hears(view[c], mailbox[c], q)
      BY <2>1, HearsRead
    <3>2. CASE d = c
      <4>1. /\ view'[d] = Applied(view[c], Head(mailbox[c]))
            /\ mailbox'[d] = Tail(mailbox[c])
        BY <1>0, <2>1, <3>2
      <4> QED  BY <3>1, <3>2, <4>1
    <3>3. CASE d # c
      BY <1>0, <2>1, <3>3
    <3> QED  BY <3>2, <3>3
  <2>3. \A d \in Connections : mailbox[d] = <<>> => mailbox'[d] = <<>>
    BY <1>0, <2>1
  <2> QED  BY <1>0, <2>1, <2>2, <2>3, PresenceKept
<1>5. ASSUME NEW c \in Connections, NEW payload \in Payloads,
             \/ PublishBroadcast(c, payload)
             \/ \E target \in Peers : PublishTargeted(c, target, payload)
      PROVE  PresenceInv'
  <2>1. PICK x \in Channels, p \in Peers : x = sockets[c].channel /\ p = sockets[c].peer
    <3>1. sockets[c].state = "open" /\ sockets[c] \in Sockets
      BY Zenon, <1>0, <1>5 DEF PublishBroadcast, PublishTargeted, MayPublish
    <3>2. sockets[c].channel \in Channels /\ sockets[c].peer \in Peers
      BY <3>1 DEF Sockets, Unused, Closed
    <3> QED  BY SMTT(30), <3>2
  <2>2. \A to \in Peers \cup {"all"} :
          Message(p, to, payload) \in Frames /\ Message(p, to, payload).type = "message"
    BY SMTT(30), FrameTypes DEF Message
  <2>3. CASE PublishBroadcast(c, payload)
    <3>1. /\ mailbox' = [d \in Connections |-> IF d \in Audience(x, c)
                            THEN Append(mailbox[d], Message(p, "all", payload)) ELSE mailbox[d]]
          /\ UNCHANGED <<rooms, next_connection_id, view>>
      BY <2>1, <2>3 DEF PublishBroadcast
    <3>2. \A d \in Audience(x, c) : \E y \in Channels : \E o \in Seated(y) : d = rooms[y][o]
      BY DEF Audience
    <3> QED  BY Zenon, <2>2, <3>1, <3>2, PublishPresence
  <2>4. ASSUME NEW target \in Peers, PublishTargeted(c, target, payload) PROVE PresenceInv'
    <3>1. /\ target \in Seated(x)
          /\ mailbox' = [mailbox EXCEPT ![rooms[x][target]] =
                           Append(@, Message(p, target, payload))]
          /\ UNCHANGED <<rooms, next_connection_id, view>>
      BY <2>1, <2>4 DEF PublishTargeted
    <3>2. PICK f \in Frames : f = Message(p, target, payload) /\ f.type = "message"
      BY <2>2
    <3>3. PICK To : To = {rooms[x][target]}
      BY ZenonT(30)
    <3>4. mailbox' = [d \in Connections |-> IF d \in To THEN Append(mailbox[d], f) ELSE mailbox[d]]
      BY Zenon, <1>0, <3>1, <3>2, <3>3
    <3>5. \A d \in To : \E y \in Channels : \E o \in Seated(y) : d = rooms[y][o]
      BY <3>1, <3>3
    <3> QED  BY <3>1, <3>2, <3>4, <3>5, PublishPresence, Zenon
  <2> QED  BY SMTT(30), <1>5, <2>3, <2>4
<1>6. CASE UNCHANGED vars
  BY <1>1, <1>6 DEF vars
<1> QED
  BY <1>2, <1>3, <1>4, <1>5, <1>6, JoinPresence, LeavePresence DEF Next

\* The Welcome of handle_socket and the presence frames of join and leave_inner add up:
\* a seated client that has read its mailbox knows exactly the other peers of its room.
THEOREM PresenceIsExact == Spec => []PresenceAddsUp
<1>1. Init => PresenceInv
  BY DEF Init, PresenceInv, FreshBoxes, PresenceAddsUp, Seated
<1>2. PresenceInv => PresenceAddsUp
  BY DEF PresenceInv
<1> QED  BY InitRoom, NextRoom, NextPresence, <1>1, <1>2, PTL DEF Spec

===============================================================================
