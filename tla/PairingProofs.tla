---------------------------- MODULE PairingProofs ----------------------------
(***************************************************************************)
(* TLAPS proofs about Pairing, for any sets of devices, tickets and        *)
(* overlapping approvals and any number of retries and faults.             *)
(***************************************************************************)
EXTENDS Pairing, TLAPS

LEMMA TypeInit == Init => TypeOK
<1> QED  BY PairingAssumption DEF Init, TypeOK, Away, Idle, Nobody, Attempts, Waiting, Decision, States

\* What prune_expired_pairings leaves is typed like what it was given.
LEMMA PruneType ==
  ASSUME TypeOK
  PROVE  /\ \A now : UnexpiredTickets(now) \subseteq pending
         /\ \A live : PrunedRequests(live) \in [Tickets -> Waiting \cup {None}]
         /\ \A now : PrunedResults(now) \in [Tickets -> Decision \cup {None}]
<1> QED  BY DEF TypeOK, UnexpiredTickets, PrunedRequests, PrunedResults

\* An approval in progress is typed by the claim it holds.
LEMMA HeldType ==
  ASSUME TypeOK, NEW f \in Flows, ~At(f, "idle")
  PROVE  /\ flows[f] \in Claims
         /\ Holder(f) \in Devices
         /\ flows[f].ticket \in Tickets
         /\ flows[f].req \in Waiting
         /\ flows[f].now \subseteq expired /\ flows[f].now \subseteq Tickets
         /\ flows[f].ticket \notin flows[f].now
<1>1. flows[f] # Idle
  BY DEF At, Idle
<1> QED  BY <1>1 DEF TypeOK, Holder, Waiting, Claims

\* The flow variable after a step of one approval.
FlowsTyped(F) == /\ F \in [Flows -> {Idle} \cup Claims]
                 /\ \A f \in Flows : F[f].now \subseteq expired \ {F[f].ticket}

LEMMA FlowEnds ==
  ASSUME TypeOK, NEW f \in Flows
  PROVE  FlowsTyped(Ended(f))
<1> QED  BY DEF TypeOK, FlowsTyped, Ended, Idle

LEMMA FlowMoves ==
  ASSUME TypeOK, NEW f \in Flows, ~At(f, "idle"),
         NEW pc \in {"issue", "grant", "rollback", "restore", "decide", "undo"}
  PROVE  FlowsTyped(Goto(f, pc))
<1>1. FlowsTyped(flows)
  BY DEF TypeOK, FlowsTyped
<1>2. flows[f] \in Claims
  BY HeldType
<1>3. /\ [flows[f] EXCEPT !.pc = pc] \in Claims
      /\ [flows[f] EXCEPT !.pc = pc].now = flows[f].now
      /\ [flows[f] EXCEPT !.pc = pc].ticket = flows[f].ticket
  BY <1>2 DEF Claims
<1>4. Goto(f, pc) = [flows EXCEPT ![f] = [flows[f] EXCEPT !.pc = pc]]
  BY <1>1 DEF Goto, FlowsTyped
<1> QED  BY <1>1, <1>3, <1>4 DEF FlowsTyped

\* The attempts of the devices after a step of one of them.
LEMMA PhaseType ==
  ASSUME TypeOK, NEW d \in Devices, devs[d] # Away,
         NEW x \in {"idle", "connecting", "waiting"}
  PROVE  /\ devs[d].ticket \in Tickets
         /\ [devs EXCEPT ![d].phase = x] \in [Devices -> Attempts]
         /\ \A n \in 0..MaxPeers :
              [devs EXCEPT ![d].peer = n, ![d].phase = x] \in [Devices -> Attempts]
<1>1. devs \in [Devices -> Attempts] /\ devs[d] \in Attempts
  BY DEF TypeOK
<1>2. devs[d].ticket \in Tickets /\ [devs[d] EXCEPT !.phase = x] \in Attempts
  BY <1>1 DEF Attempts
<1>3. ASSUME NEW n \in 0..MaxPeers
      PROVE  [devs EXCEPT ![d].peer = n, ![d].phase = x] \in [Devices -> Attempts]
  <2>1. [devs[d] EXCEPT !.peer = n, !.phase = x] \in Attempts
    BY ZenonT(30), <1>1 DEF Attempts
  <2> QED  BY <1>1, <2>1
<1> QED  BY ZenonT(30), <1>1, <1>2, <1>3

\* What a decision leaves is typed, whatever request it decides.
LEMMA DecidedType ==
  ASSUME TypeOK, NEW t \in Tickets, NEW q \in Waiting, NEW ok \in BOOLEAN,
         NEW now \in SUBSET Tickets, Decided(t, q, ok, UnexpiredTickets(now), now)
  PROVE  /\ pending' \subseteq opened
         /\ completed' \in [Tickets -> Decision \cup {None}]
         /\ results' \subseteq [ticket : Tickets, dev : Devices, peer : 1..MaxPeers, ok : BOOLEAN]
         /\ paired' \subseteq Devices
         /\ record' \in [Devices -> States]
         /\ verdicts' \in [Tickets -> Seq(Decision)]
<1>1. q.dev \in Devices /\ q.peer \in 1..MaxPeers /\ [dev |-> q.dev, ok |-> ok] \in Decision
  BY DEF Waiting, Decision
<1>2. verdicts' \in [Tickets -> Seq(Decision)]
  BY <1>1 DEF Decided, TypeOK
<1>3. pending' \subseteq opened
  BY PruneType DEF Decided, Consumed, TypeOK
<1>4. completed' \in [Tickets -> Decision \cup {None}]
  BY <1>1, PruneType DEF Decided
<1>5. results' \subseteq [ticket : Tickets, dev : Devices, peer : 1..MaxPeers, ok : BOOLEAN]
  BY <1>1 DEF Decided, TypeOK
<1>6. paired' \subseteq Devices /\ record' \in [Devices -> States]
  BY <1>1 DEF Decided, TypeOK, States
<1> QED  BY <1>2, <1>3, <1>4, <1>5, <1>6

LEMMA UnfinishedType == TypeOK => Unfinished \subseteq Devices
<1> SUFFICES ASSUME TypeOK PROVE Unfinished \subseteq Devices
  OBVIOUS
<1>1. \A f \in {g \in Flows : ~At(g, "idle")} : Holder(f) \in Devices
  BY HeldType
<1>2. \A c \in calls : Target(c) \subseteq Devices
  BY DEF TypeOK, Target
<1> QED  BY <1>1, <1>2 DEF Unfinished

LEMMA TypeStep == TypeOK /\ [Next]_vars => TypeOK'
<1> SUFFICES ASSUME TypeOK, [Next]_vars PROVE TypeOK'
  OBVIOUS
<1> USE PairingAssumption DEF device, tickets, history
<1>1. ASSUME NEW d \in Devices, Ready(d) PROVE TypeOK'
  <2>1. /\ devs[d] # Away
        /\ peers + 1 \in 1..MaxPeers /\ peers + 1 \in 0..MaxPeers
        /\ "waiting" \in {"idle", "connecting", "waiting"}
    BY <1>1 DEF Ready, TypeOK, Away
  <2>2. devs' \in [Devices -> Attempts] /\ devs[d].ticket \in Tickets
    BY <1>1, <2>1, PhaseType, Zenon DEF Ready
  <2>3. inbox' \subseteq Frames
    BY <1>1, <2>1, <2>2 DEF Ready, Frames, TypeOK
  <2> QED  BY <1>1, <2>1, <2>2, <2>3 DEF TypeOK, Ready
<1>2. ASSUME NEW d \in Devices, Blip(d) PROVE TypeOK'
  <2>1. devs[d] # Away /\ "connecting" \in {"idle", "connecting", "waiting"}
    BY <1>2 DEF Blip, Away
  <2>2. devs' \in [Devices -> Attempts]
    BY <1>2, <2>1, PhaseType, Zenon DEF Blip
  <2> QED  BY <1>2, <2>2 DEF TypeOK, Blip
<1>3. ASSUME NEW d \in Devices, Seen(d) PROVE TypeOK'
  BY <1>3 DEF TypeOK, Seen, States
<1>4. ASSUME NEW d \in Devices, Revoke(d) PROVE TypeOK'
  BY <1>4 DEF TypeOK, Revoke, RecordRevoked, States
<1>5. ASSUME NEW d \in Devices, RevokeOthers(d) PROVE TypeOK'
  BY <1>5 DEF TypeOK, RevokeOthers, RecordRevoked, States
<1>6. ASSUME NEW t \in Tickets, OpenTicket(t) PROVE TypeOK'
  BY <1>6, PruneType DEF TypeOK, OpenTicket
<1>7. ASSUME NEW t \in Tickets, Expire(t) PROVE TypeOK'
  BY <1>7 DEF TypeOK, Expire
<1>8. ASSUME NEW t \in Tickets, Reject(t) PROVE TypeOK'
  <2> DEFINE live == UnexpiredTickets(expired)
             q == PrunedRequests(live)[t]
  <2>1. q \in Waiting /\ expired \in SUBSET Tickets
    BY <1>8, PruneType DEF TypeOK, Reject
  <2>2. Decided(t, q, FALSE, live, expired)
    BY ZenonT(30), <1>8 DEF Reject
  <2>3. request' \in [Tickets -> Waiting \cup {None}]
    BY <1>8, PruneType DEF Reject
  <2> HIDE DEF q
  <2> QED  BY ZenonT(30), <1>8, <2>1, <2>2, <2>3, DecidedType DEF TypeOK, Reject
<1>9. ASSUME NEW d \in Devices, NEW t \in Tickets, Scan(d, t) PROVE TypeOK'
  <2>1. devs' \in [Devices -> Attempts]
    <3>1. devs \in [Devices -> Attempts] /\ devs[d].peer \in 0..MaxPeers
      BY DEF TypeOK, Attempts, Away
    <3> QED  BY <1>9, <3>1 DEF Scan, Attempts
  <2> QED  BY <1>9, <2>1 DEF TypeOK, Scan
<1>10. ASSUME NEW f \in Flows, NEW t \in Tickets, Claim(f, t) PROVE TypeOK'
  <2> DEFINE live == UnexpiredTickets(expired)
             c == [pc |-> "issue", ticket |-> t, req |-> PrunedRequests(live)[t],
                   now |-> expired]
  <2>1. PrunedRequests(live)[t] \in Waiting /\ t \notin expired
    BY <1>10, PruneType DEF Claim, TypeOK, PrunedRequests, UnexpiredTickets
  <2>2. c \in Claims /\ c.now \subseteq expired \ {c.ticket}
    BY <2>1 DEF Claims, TypeOK
  <2>3. flows' = [flows EXCEPT ![f] = c]
    BY <1>10 DEF Claim
  <2> HIDE DEF c
  <2>4. FlowsTyped(flows')
    BY <2>2, <2>3 DEF TypeOK, FlowsTyped
  <2> QED  BY <1>10, <2>4, PruneType DEF TypeOK, FlowsTyped, Claim
<1>11. ASSUME NEW f \in Flows, Issue(f) PROVE TypeOK'
  <2>1. FlowsTyped(flows') /\ Holder(f) \in Devices
    BY <1>11, FlowMoves, HeldType DEF Issue, At
  <2> QED  BY <1>11, <2>1 DEF TypeOK, FlowsTyped, Issue
<1>12. ASSUME NEW f \in Flows, IssueFails(f) PROVE TypeOK'
  BY <1>12, HeldType DEF TypeOK, IssueFails, At, Ended, RestoredRequest, Fault, Idle
<1>13. ASSUME NEW f \in Flows, ClientGrant(f) PROVE TypeOK'
  <2>1. FlowsTyped(flows')
    BY <1>13, FlowMoves DEF ClientGrant, At
  <2> QED  BY <1>13, <2>1 DEF TypeOK, FlowsTyped, ClientGrant, Fault
<1>14. ASSUME NEW f \in Flows, Rollback(f) PROVE TypeOK'
  <2>1. FlowsTyped(flows') /\ Holder(f) \in Devices
    BY <1>14, FlowMoves, HeldType DEF Rollback, At
  <2> QED  BY SMTT(30), <1>14, <2>1 DEF TypeOK, FlowsTyped, Rollback, Withdraw, Fault
<1>15. ASSUME NEW f \in Flows, Restore(f) PROVE TypeOK'
  BY SMTT(30), <1>15, HeldType DEF TypeOK, Restore, At, Ended, RestoredRequest, Idle
<1>16. ASSUME NEW f \in Flows, Decide(f) PROVE TypeOK'
  <2> DEFINE t == flows[f].ticket
             now == flows[f].now
             live == UnexpiredTickets(now)
  <2>1. FlowsTyped(flows')
    BY ZenonT(30), <1>16, FlowMoves, FlowEnds DEF Decide, At
  <2>2. t \in Tickets /\ flows[f].req \in Waiting /\ now \in SUBSET Tickets
    BY <1>16, HeldType DEF Decide, At
  <2>3. request' \in [Tickets -> Waiting \cup {None}]
    BY ZenonT(30), <1>16, <2>2, PruneType DEF Decide, TypeOK
  <2>4. CASE t \in live
    BY ZenonT(30), <1>16, <2>1, <2>2, <2>3, <2>4, DecidedType DEF TypeOK, FlowsTyped, Decide
  <2>5. CASE t \notin live
    <3>1. pending' = live /\ completed' = PrunedResults(now)
      BY <1>16, <2>5 DEF Decide
    <3>2. UNCHANGED <<devs, peers, inbox, handling, expired, opened, asked, results, paired,
                      record, disk, calls, granted, leaked, faults, verdicts>>
      BY <1>16, <2>5 DEF Decide
    <3>3. pending' \subseteq opened /\ completed' \in [Tickets -> Decision \cup {None}]
      BY <2>2, <3>1, PruneType DEF TypeOK
    <3> HIDE DEF t, now, live
    <3> QED  BY <2>1, <2>3, <3>2, <3>3 DEF TypeOK, FlowsTyped
  <2> QED  BY SMTT(30), <2>4, <2>5
<1>17. ASSUME NEW f \in Flows, Undo(f) PROVE TypeOK'
  BY <1>17, HeldType DEF TypeOK, Undo, Withdraw, At, Ended, Fault, Idle
<1>25. ASSUME NEW f \in Flows, HangUp(f) PROVE TypeOK'
  <2>1. Holder(f) \in Devices /\ FlowsTyped(flows')
    BY <1>25, HeldType, FlowEnds DEF HangUp
  <2>2. granted' \subseteq Devices /\ leaked' \subseteq Devices
    BY <1>25, <2>1 DEF HangUp, TypeOK
  <2> QED  BY <1>25, <2>1, <2>2 DEF TypeOK, HangUp, FlowsTyped, Fault
<1>18. ASSUME NEW m \in inbox, LookUp(m) PROVE TypeOK'
  <2>1. m \in Frames /\ m.dev \in Devices /\ m.ticket \in Tickets /\ m.peer \in 1..MaxPeers
    BY DEF TypeOK, Frames
  <2>2. PrunedResults(expired)[m.ticket] # None => PrunedResults(expired)[m.ticket].ok \in BOOLEAN
    <3>1. PrunedResults(expired)[m.ticket] \in Decision \cup {None}
      BY <2>1, PruneType
    <3> QED  BY <3>1 DEF Decision
  <2>3. results' \subseteq [ticket : Tickets, dev : Devices, peer : 1..MaxPeers, ok : BOOLEAN]
    BY SMTT(30), <1>18, <2>1, <2>2 DEF LookUp, TypeOK
  <2>4. handling' \in Frames \cup {None}
    BY <1>18, <2>1 DEF LookUp
  <2> QED  BY <1>18, <2>3, <2>4, PruneType DEF TypeOK, LookUp
<1>19. CASE Register
  <2>1. /\ handling \in Frames /\ handling.ticket \in Tickets
        /\ [dev |-> handling.dev, peer |-> handling.peer] \in Waiting
    BY <1>19 DEF Register, TypeOK, Frames, Waiting
  <2>2. request' \in [Tickets -> Waiting \cup {None}]
    BY <1>19, <2>1, PruneType DEF Register, TypeOK
  <2>3. asked' \subseteq opened
    BY <1>19, <2>1, PruneType DEF Register, TypeOK, UnexpiredTickets
  <2> QED  BY <1>19, <2>2, <2>3, PruneType DEF TypeOK, Register
<1>20. ASSUME NEW r \in results, Deliver(r) PROVE TypeOK'
  <2>1. r.dev \in Devices
    BY DEF TypeOK
  <2>2. devs' \in [Devices -> Attempts]
    <3>1. "idle" \in {"idle", "connecting", "waiting"} /\ devs \in [Devices -> Attempts]
      BY DEF TypeOK
    <3>2. devs[r.dev].phase = "waiting" => devs[r.dev] # Away
      BY DEF Away
    <3> QED  BY <1>20, <2>1, <3>1, <3>2, PhaseType, Zenon DEF Deliver
  <2> QED  BY <1>20, <2>2 DEF TypeOK, Deliver
<1>21. ASSUME NEW c \in calls, BrokerRevokes(c) PROVE TypeOK'
  BY <1>21 DEF TypeOK, BrokerRevokes, Target, Fault
<1>22. CASE Save
  BY <1>22 DEF TypeOK, Save
<1>23. CASE Restart
  <2>3. leaked' \subseteq Devices
    BY <1>23, UnfinishedType DEF Restart, TypeOK
  <2>4. disk.paired \subseteq Devices /\ disk.record \in [Devices -> States]
    BY DEF TypeOK
  <2>5. FlowsTyped(flows')
    BY <1>23 DEF Restart, FlowsTyped, Idle
  <2> QED  BY <1>23, <2>3, <2>4, <2>5 DEF TypeOK, FlowsTyped, Restart, Fault, Nobody
<1>24. CASE UNCHANGED vars
  BY <1>24 DEF TypeOK, vars
<1> QED
  BY <1>1, <1>2, <1>3, <1>4, <1>5, <1>6, <1>7, <1>8, <1>9, <1>10, <1>11, <1>12, <1>13, <1>14,
     <1>15, <1>16, <1>17, <1>18, <1>19, <1>20, <1>21, <1>22, <1>23, <1>24, <1>25 DEF Next

\* Every state of device.rs and pairing.rs has its type, and an approval in progress
\* claimed its request while the ticket was live.
THEOREM PairingTypeCorrect == Spec => []TypeOK
<1> QED  BY TypeInit, TypeStep, PTL DEF Spec

-------------------------------------------------------------------------------
(***************************************************************************)
(* A ticket is decided once.  What a decision leaves behind, the completed *)
(* result and the results under way, agrees with it, and a ticket that can *)
(* still be decided has not been.                                          *)
(***************************************************************************)
VerdictInv ==
  /\ \A t \in Tickets : t \in pending \/ t \notin opened => verdicts[t] = << >>
  /\ \A t \in Tickets : completed[t] # None => verdicts[t] = <<completed[t]>>
  /\ \A r \in results : verdicts[r.ticket] = <<[dev |-> r.dev, ok |-> r.ok]>>
  /\ \A t \in Tickets : verdicts[t] = << >> \/ \E v \in Decision : verdicts[t] = <<v>>

LEMMA OneIsNotNone == \A x : <<x>> # << >>
<1> SUFFICES ASSUME NEW x PROVE <<x>> # << >>
  OBVIOUS
<1>1. Len(<<x>>) = 1 /\ Len(<< >>) = 0
  OBVIOUS
<1> QED  BY <1>1

\* A step that decides nothing, opens nothing and keeps or drops results.
LEMMA NothingDecided ==
  ASSUME TypeOK, VerdictInv,
         verdicts' = verdicts, opened \subseteq opened',
         \A t \in pending' : t \in pending \/ t \notin opened,
         \A t \in Tickets : completed'[t] = None \/ completed'[t] = completed[t],
         \A r \in results' : r \in results \/ verdicts[r.ticket] = <<[dev |-> r.dev, ok |-> r.ok]>>
  PROVE  VerdictInv'
<1> QED  BY DEF VerdictInv, TypeOK

\* A decision on a ticket that is pending.
LEMMA TicketDecided ==
  ASSUME TypeOK, VerdictInv, UNCHANGED opened,
         NEW t \in Tickets, NEW q \in Waiting, NEW ok \in BOOLEAN, NEW now \in SUBSET Tickets,
         t \in UnexpiredTickets(now), Decided(t, q, ok, UnexpiredTickets(now), now)
  PROVE  VerdictInv'
<1> DEFINE v == [dev |-> q.dev, ok |-> ok]
<1>1. verdicts[t] = << >> /\ v \in Decision
  BY DEF UnexpiredTickets, VerdictInv, Decision, Waiting
<1>2. verdicts' = [verdicts EXCEPT ![t] = <<v>>]
  <2>1. Append(<< >>, v) = <<v>>
    OBVIOUS
  <2> QED  BY <1>1, <2>1 DEF Decided, TypeOK
<1>3. /\ pending' = UnexpiredTickets(now) \ {t}
      /\ completed' = [PrunedResults(now) EXCEPT ![t] = v]
      /\ results' = results \cup {[ticket |-> t, dev |-> q.dev, peer |-> q.peer, ok |-> ok]}
  BY DEF Decided, Consumed
<1>4. ASSUME NEW r \in results' PROVE verdicts'[r.ticket] = <<[dev |-> r.dev, ok |-> r.ok]>>
  <2>1. CASE r \in results
    <3>1. verdicts[r.ticket] = <<[dev |-> r.dev, ok |-> r.ok]>> /\ r.ticket \in Tickets
      BY SMTT(30), <2>1 DEF VerdictInv, TypeOK
    <3>2. r.ticket # t
      BY ZenonT(30), <1>1, <3>1, OneIsNotNone
    <3> QED  BY <1>2, <3>1, <3>2 DEF TypeOK
  <2>2. CASE r = [ticket |-> t, dev |-> q.dev, peer |-> q.peer, ok |-> ok]
    BY <1>2, <2>2 DEF TypeOK
  <2> QED  BY SMTT(30), <1>3, <1>4, <2>1, <2>2
<1> HIDE DEF v
<1>5. ASSUME NEW u \in Tickets
      PROVE  /\ u \in pending' \/ u \notin opened' => verdicts'[u] = << >>
             /\ completed'[u] # None => verdicts'[u] = <<completed'[u]>>
             /\ verdicts'[u] = << >> \/ \E w \in Decision : verdicts'[u] = <<w>>
  <2>1. CASE u = t
    <3>1. u \notin pending' /\ u \in opened'
      BY <1>3, <2>1 DEF UnexpiredTickets, TypeOK
    <3>2. completed'[u] = v /\ verdicts'[u] = <<v>>
      BY ZenonT(30), <1>2, <1>3, <2>1, PruneType DEF TypeOK
    <3> QED  BY <1>1, <3>1, <3>2
  <2>2. CASE u # t
    <3>1. /\ verdicts'[u] = verdicts[u]
          /\ u \in pending' => u \in pending
          /\ completed'[u] = None \/ completed'[u] = completed[u]
      BY ZenonT(30), <1>2, <1>3, <2>2, PruneType DEF TypeOK, UnexpiredTickets, PrunedResults
    <3> QED  BY ZenonT(30), <3>1 DEF VerdictInv
  <2> QED  BY <2>1, <2>2
<1> QED  BY ZenonT(30), <1>4, <1>5 DEF VerdictInv

LEMMA VerdictInit == Init => VerdictInv
<1> QED  BY DEF Init, VerdictInv, Nobody

LEMMA VerdictStep == TypeOK /\ VerdictInv /\ [Next]_vars => VerdictInv'
<1> SUFFICES ASSUME TypeOK, VerdictInv, [Next]_vars PROVE VerdictInv'
  OBVIOUS
<1> USE DEF device, tickets, history
<1>1. ASSUME NEW d \in Devices,
             Ready(d) \/ Blip(d) \/ Seen(d) \/ Revoke(d) \/ RevokeOthers(d)
      PROVE  VerdictInv'
  BY <1>1, NothingDecided DEF Ready, Blip, Seen, Revoke, RevokeOthers
<1>2. ASSUME NEW t \in Tickets, OpenTicket(t) PROVE VerdictInv'
  BY SMTT(30), <1>2, NothingDecided DEF OpenTicket, UnexpiredTickets, PrunedResults
<1>3. ASSUME NEW t \in Tickets, Expire(t) PROVE VerdictInv'
  BY SMTT(30), <1>3, NothingDecided DEF Expire
<1>4. ASSUME NEW t \in Tickets, Reject(t) PROVE VerdictInv'
  <2> DEFINE live == UnexpiredTickets(expired)
             q == PrunedRequests(live)[t]
  <2>1. q \in Waiting /\ t \in live /\ expired \in SUBSET Tickets
    BY ZenonT(30), <1>4, PruneType DEF Reject, TypeOK, PrunedRequests
  <2>2. Decided(t, q, FALSE, live, expired) /\ UNCHANGED opened
    BY ZenonT(30), <1>4 DEF Reject
  <2> HIDE DEF q
  <2> QED  BY ZenonT(30), <2>1, <2>2, TicketDecided
<1>5. ASSUME NEW d \in Devices, NEW t \in Tickets, Scan(d, t) PROVE VerdictInv'
  BY <1>5, NothingDecided DEF Scan
<1>6. ASSUME NEW f \in Flows, NEW t \in Tickets, Claim(f, t) PROVE VerdictInv'
  BY <1>6, NothingDecided DEF Claim, UnexpiredTickets, PrunedResults
<1>7. ASSUME NEW f \in Flows,
             Issue(f) \/ IssueFails(f) \/ ClientGrant(f) \/ Rollback(f) \/ Restore(f) \/ Undo(f)
      PROVE  VerdictInv'
  BY SMTT(30), <1>7, NothingDecided DEF Issue, IssueFails, ClientGrant, Rollback, Restore, Undo
<1>15. ASSUME NEW f \in Flows, HangUp(f) PROVE VerdictInv'
  BY <1>15, NothingDecided DEF HangUp
<1>8. ASSUME NEW f \in Flows, Decide(f) PROVE VerdictInv'
  <2> DEFINE t == flows[f].ticket
             now == flows[f].now
             live == UnexpiredTickets(now)
  <2>1. t \in Tickets /\ flows[f].req \in Waiting /\ now \in SUBSET Tickets
    BY ZenonT(30), <1>8, HeldType DEF Decide, At
  <2>2. CASE t \in live
    <3>1. Decided(t, flows[f].req, TRUE, live, now) /\ UNCHANGED opened
      BY ZenonT(30), <1>8, <2>2 DEF Decide
    <3> QED  BY ZenonT(30), <2>1, <2>2, <3>1, TicketDecided
  <2>3. CASE t \notin live
    BY <1>8, <2>3, NothingDecided DEF Decide, UnexpiredTickets, PrunedResults
  <2> QED  BY <2>2, <2>3
<1>9. ASSUME NEW m \in inbox, LookUp(m) PROVE VerdictInv'
  <2>1. m.ticket \in Tickets
    BY DEF TypeOK, Frames
  <2> DEFINE done == PrunedResults(expired)
             r == [ticket |-> m.ticket, dev |-> m.dev, peer |-> m.peer, ok |-> done[m.ticket].ok]
  <2>2. \A t \in Tickets : done[t] = None \/ done[t] = completed[t]
    BY DEF PrunedResults
  <2>3. CASE done[m.ticket] # None /\ DecidedDevice(m.dev, m.ticket)
    <3>1. completed[m.ticket] \in Decision /\ done[m.ticket] = completed[m.ticket]
      BY <2>1, <2>2, <2>3 DEF TypeOK
    <3>2. completed[m.ticket] = [dev |-> m.dev, ok |-> done[m.ticket].ok]
      BY <2>3, <3>1 DEF Decision, DecidedDevice
    <3>3. completed[m.ticket] # None
      BY <2>3, <3>1
    <3>4. verdicts[m.ticket] = <<[dev |-> m.dev, ok |-> done[m.ticket].ok]>>
      BY SMTT(30), <2>1, <3>2, <3>3 DEF VerdictInv
    <3>5. verdicts[r.ticket] = <<[dev |-> r.dev, ok |-> r.ok]>>
      BY <3>4
    <3>6. results' = results \cup {r}
      BY <1>9, <2>3 DEF LookUp
    <3> QED  BY <1>9, <2>2, <3>5, <3>6, NothingDecided DEF LookUp, UnexpiredTickets
  <2>4. CASE ~(done[m.ticket] # None /\ DecidedDevice(m.dev, m.ticket))
    BY <1>9, <2>2, <2>4, NothingDecided DEF LookUp, UnexpiredTickets
  <2> QED  BY <2>3, <2>4
<1>10. CASE Register
  BY <1>10, NothingDecided DEF Register, UnexpiredTickets, PrunedResults
<1>11. ASSUME NEW r \in results, Deliver(r) PROVE VerdictInv'
  BY <1>11, NothingDecided DEF Deliver
<1>12. ASSUME NEW c \in calls, BrokerRevokes(c) PROVE VerdictInv'
  BY <1>12, NothingDecided DEF BrokerRevokes
<1>13. CASE Save \/ UNCHANGED vars
  BY <1>13, NothingDecided DEF Save, vars
<1>14. CASE Restart
  BY <1>14, NothingDecided DEF Restart, Nobody
<1> QED
  BY <1>1, <1>2, <1>3, <1>4, <1>5, <1>6, <1>7, <1>8, <1>9, <1>10, <1>11, <1>12, <1>13, <1>14,
     <1>15 DEF Next

\* However many approvals, rejections and retries overlap, a ticket is decided at most once
\* (consume_pairing_ticket and the rejecting branch of decide_pairing_request).
THEOREM TicketsAreDecidedOnce == Spec => []DecidedOnce
<1>1. ASSUME VerdictInv, NEW t \in Tickets PROVE Len(verdicts[t]) <= 1
  <2>1. CASE verdicts[t] = << >>
    BY <2>1
  <2>2. ASSUME NEW v \in Decision, verdicts[t] = <<v>> PROVE Len(verdicts[t]) <= 1
    BY <2>2
  <2> QED  BY <1>1, <2>1, <2>2 DEF VerdictInv
<1>2. VerdictInv => DecidedOnce
  BY <1>1 DEF DecidedOnce
<1> QED  BY <1>2, TypeInit, TypeStep, VerdictInit, VerdictStep, PTL DEF Spec

\* Every result on its way to a device, replayed ones included, goes to the device the
\* ticket was decided for and tells that decision (handle_pairing_request).
THEOREM ResultsAreTrue == Spec => []ResultsTellTheVerdict
<1>1. VerdictInv => ResultsTellTheVerdict
  BY DEF VerdictInv, ResultsTellTheVerdict
<1> QED  BY <1>1, TypeInit, TypeStep, VerdictInit, VerdictStep, PTL DEF Spec

-------------------------------------------------------------------------------
(* Requests *)

\* Every approval in progress is about a ticket that was opened, and one that lost its
\* ticket is about a ticket that is gone.
FlowsAreOpened ==
  \A f \in Flows : flows[f].pc # "idle" => flows[f].ticket \in opened
LosersAreGone ==
  \A f \in Flows : flows[f].pc = "undo" => flows[f].ticket \notin pending
RequestInv == RequestsAreNotLost /\ FlowsAreOpened /\ LosersAreGone

LEMMA RequestInit == Init => RequestInv
<1>1. Idle.pc = "idle"
  BY DEF Idle
<1> QED  BY <1>1 DEF Init, RequestInv, RequestsAreNotLost, FlowsAreOpened, LosersAreGone

\* A step after which no ticket is pending that was not, and no request on a pending ticket
\* is gone, that leaves the approvals alone.
LEMMA RequestsStay ==
  ASSUME RequestInv, pending' \subseteq pending, asked' = asked, opened' = opened,
         UNCHANGED flows, \A t \in pending' : request'[t] = request[t]
  PROVE  RequestInv'
<1> QED  BY DEF RequestInv, RequestsAreNotLost, FlowsAreOpened, LosersAreGone

\* What a step of one approval does to its flow.
LEMMA FlowStep ==
  ASSUME TypeOK, NEW f \in Flows, ~At(f, "idle")
  PROVE  /\ \A g \in Flows : Ended(f)[g] = IF g = f THEN Idle ELSE flows[g]
         /\ \A pc : \A g \in Flows : g # f => Goto(f, pc)[g] = flows[g]
         /\ \A pc : /\ Goto(f, pc)[f].ticket = flows[f].ticket
                   /\ Goto(f, pc)[f].req = flows[f].req
                   /\ Goto(f, pc)[f].pc = pc
<1>1. flows \in [Flows -> {Idle} \cup Claims] /\ flows[f] \in Claims
  BY HeldType DEF TypeOK
<1>2. \A g \in Flows : Ended(f)[g] = IF g = f THEN Idle ELSE flows[g]
  BY <1>1 DEF Ended
<1>3. ASSUME NEW pc
      PROVE  /\ \A g \in Flows : g # f => Goto(f, pc)[g] = flows[g]
             /\ Goto(f, pc)[f] = [flows[f] EXCEPT !.pc = pc]
  BY <1>1 DEF Goto
<1>4. ASSUME NEW pc
      PROVE  /\ Goto(f, pc)[f].ticket = flows[f].ticket
             /\ Goto(f, pc)[f].req = flows[f].req
             /\ Goto(f, pc)[f].pc = pc
  <2>1. Goto(f, pc)[f] = [flows[f] EXCEPT !.pc = pc]
    BY <1>3
  <2> QED  BY <1>1, <2>1 DEF Claims
<1> QED  BY <1>2, <1>3, <1>4, Zenon

\* A step of approval f that keeps every request on a ticket still pending.
LEMMA RequestsMove ==
  ASSUME TypeOK, RequestInv, None \notin Tickets, NEW f \in Flows, ~At(f, "idle"),
         asked' = asked, opened' = opened, pending' \subseteq pending,
         \A t \in pending' : request'[t] = request[t] \/ request'[t] # None,
         \/ flows' = Ended(f) /\ (flows[f].ticket \in pending' => request'[flows[f].ticket] # None)
         \/ \E pc : flows' = Goto(f, pc) /\ (pc = "undo" => flows[f].ticket \notin pending')
  PROVE  RequestInv'
<1>1. flows[f].ticket \in Tickets /\ flows[f].ticket \in opened /\ Idle.ticket = None /\ Idle.pc = "idle"
  BY SMTT(30), HeldType DEF RequestInv, FlowsAreOpened, At, Idle
<1>2. CASE flows' = Ended(f) /\ (flows[f].ticket \in pending' => request'[flows[f].ticket] # None)
  <2>1. \A g \in Flows : flows'[g] = IF g = f THEN Idle ELSE flows[g]
    BY <1>2, FlowStep
  <2>2. FlowsAreOpened' /\ LosersAreGone'
    BY <1>1, <2>1 DEF RequestInv, FlowsAreOpened, LosersAreGone
  <2>3. ASSUME NEW t \in pending' \cap asked, request'[t] = None
        PROVE  \E g \in Flows : flows'[g].ticket = t
    <3>1. t # flows[f].ticket /\ request[t] = None /\ t \in pending
      BY <1>2, <2>3
    <3>2. PICK g \in Flows : flows[g].ticket = t
      BY <3>1 DEF RequestInv, RequestsAreNotLost
    <3> QED  BY <2>1, <3>1, <3>2
  <2> QED  BY <2>2, <2>3 DEF RequestInv, RequestsAreNotLost
<1>3. ASSUME NEW pc, flows' = Goto(f, pc), pc = "undo" => flows[f].ticket \notin pending'
      PROVE  RequestInv'
  <2>1. /\ \A g \in Flows : g # f => flows'[g] = flows[g]
        /\ flows'[f].ticket = flows[f].ticket /\ flows'[f].pc = pc
    BY <1>3, FlowStep
  <2> QED  BY <1>1, <1>3, <2>1 DEF RequestInv, RequestsAreNotLost, FlowsAreOpened, LosersAreGone
<1> QED  BY <1>2, <1>3

LEMMA RequestStep == TypeOK /\ RequestInv /\ [Next]_vars => RequestInv'
<1> SUFFICES ASSUME TypeOK, RequestInv, [Next]_vars PROVE RequestInv'
  OBVIOUS
<1> USE DEF device, tickets, history
<1>0. None \notin Waiting /\ None \notin Tickets
  BY PairingAssumption DEF Waiting
<1>1. ASSUME NEW d \in Devices,
             Ready(d) \/ Blip(d) \/ Seen(d) \/ Revoke(d) \/ RevokeOthers(d)
      PROVE  RequestInv'
  BY <1>1, RequestsStay DEF Ready, Blip, Seen, Revoke, RevokeOthers
<1>2. ASSUME NEW t \in Tickets, OpenTicket(t) PROVE RequestInv'
  <2>1. /\ pending' \subseteq pending \cup {t} /\ t \notin opened /\ asked' = asked
        /\ flows' = flows /\ opened' = opened \cup {t}
        /\ \A u \in pending' : request'[u] = request[u]
    BY ZenonT(30), <1>2 DEF OpenTicket, UnexpiredTickets, PrunedRequests, TypeOK
  <2>2. t \notin asked
    <3>1. asked \subseteq opened
      BY DEF TypeOK
    <3> QED  BY <2>1, <3>1
  <2>3. Idle.pc # "undo"
    BY DEF Idle
  <2> QED  BY <2>1, <2>2, <2>3 DEF RequestInv, RequestsAreNotLost, FlowsAreOpened, LosersAreGone
<1>3. ASSUME NEW t \in Tickets, Expire(t) PROVE RequestInv'
  BY <1>3, RequestsStay DEF Expire
<1>4. ASSUME NEW t \in Tickets, Reject(t) PROVE RequestInv'
  BY ZenonT(30), <1>4, RequestsStay DEF Reject, Decided, Consumed, UnexpiredTickets, PrunedRequests, TypeOK
<1>5. ASSUME NEW d \in Devices, NEW t \in Tickets, Scan(d, t) PROVE RequestInv'
  BY <1>5, RequestsStay DEF Scan
<1>6. ASSUME NEW f \in Flows, NEW t \in Tickets, Claim(f, t) PROVE RequestInv'
  <2> DEFINE kept == PrunedRequests(UnexpiredTickets(expired))
  <2>1. flows[f] = Idle /\ flows \in [Flows -> {Idle} \cup Claims] /\ Idle.ticket = None
    BY ZenonT(30), <1>6 DEF Claim, At, TypeOK, Claims, Idle
  <2>2. t \in opened /\ pending' \subseteq pending /\ asked' = asked /\ opened' = opened
        /\ \A u \in pending' : u # t => request'[u] = request[u]
    BY <1>6 DEF Claim, UnexpiredTickets, PrunedRequests, TypeOK
  <2>3. /\ \A g \in Flows : g # f => flows'[g] = flows[g]
        /\ flows'[f].ticket = t /\ flows'[f].pc = "issue"
    BY <1>6, <2>1 DEF Claim
  <2>4. FlowsAreOpened' /\ LosersAreGone'
    BY <2>2, <2>3 DEF RequestInv, FlowsAreOpened, LosersAreGone
  <2>5. ASSUME NEW u \in pending' \cap asked, request'[u] = None, u # t
        PROVE  \E g \in Flows : flows'[g].ticket = u
    <3>1. u \in Tickets /\ u \in pending /\ request[u] = None
      BY SMTT(30), <2>2, <2>5 DEF TypeOK
    <3>2. PICK g \in Flows : flows[g].ticket = u
      BY <3>1, <2>5 DEF RequestInv, RequestsAreNotLost
    <3> QED  BY <1>0, <2>1, <2>3, <3>1, <3>2
  <2> QED  BY <2>2, <2>3, <2>4, <2>5 DEF RequestInv, RequestsAreNotLost
<1>7. ASSUME NEW f \in Flows, IssueFails(f) \/ Restore(f) PROVE RequestInv'
  <2>1. ~At(f, "idle") /\ flows[f].ticket \in Tickets /\ flows[f].req \in Waiting
    BY ZenonT(30), <1>7, HeldType DEF IssueFails, Restore, At
  <2>2. /\ flows' = Ended(f) /\ UNCHANGED <<pending, asked, opened>>
        /\ request' = RestoredRequest(f)
    BY <1>7 DEF IssueFails, Restore
  <2>3. request'[flows[f].ticket] # None
        /\ \A u \in Tickets : request'[u] = request[u] \/ request'[u] # None
    BY <2>1, <2>2, <1>0 DEF RestoredRequest, TypeOK
  <2> QED  BY ZenonT(30), <2>1, <2>2, <2>3, <1>0, RequestsMove DEF TypeOK
<1>8. ASSUME NEW f \in Flows, Issue(f) \/ ClientGrant(f) \/ Rollback(f) PROVE RequestInv'
  <2>1. \E pc \in {"grant", "decide", "rollback", "restore"} : flows' = Goto(f, pc)
    BY <1>8 DEF Issue, ClientGrant, Rollback
  <2>2. UNCHANGED <<pending, request, asked, opened>> /\ ~At(f, "idle")
    BY <1>8 DEF Issue, ClientGrant, Rollback, At
  <2> QED  BY <1>0, <2>1, <2>2, RequestsMove
<1>9. ASSUME NEW f \in Flows, Undo(f) PROVE RequestInv'
  <2>1. flows' = Ended(f) /\ UNCHANGED <<pending, request, asked, opened>>
        /\ ~At(f, "idle") /\ flows[f].pc = "undo"
    BY <1>9 DEF Undo, At
  <2>2. flows[f].ticket \notin pending
    BY <2>1 DEF RequestInv, LosersAreGone
  <2> QED  BY <1>0, <2>1, <2>2, RequestsMove
<1>17. ASSUME NEW f \in Flows, HangUp(f) PROVE RequestInv'
  <2>1. /\ flows' = Ended(f) /\ ~At(f, "idle") /\ UNCHANGED <<pending, request, opened>>
        /\ asked' = asked \ {t \in {flows[f].ticket} : request[t] = None}
    BY <1>17 DEF HangUp
  <2>2. \A g \in Flows : flows'[g] = IF g = f THEN Idle ELSE flows[g]
    BY <2>1, FlowStep
  <2>3. FlowsAreOpened' /\ LosersAreGone'
    <3>1. Idle.pc = "idle"
      BY DEF Idle
    <3> QED  BY <2>1, <2>2, <3>1 DEF RequestInv, FlowsAreOpened, LosersAreGone
  <2>4. ASSUME NEW t \in (pending \cap asked)', request'[t] = None
        PROVE  \E g \in Flows : flows'[g].ticket = t
    <3>1. t # flows[f].ticket /\ t \in pending \cap asked /\ request[t] = None
      BY <2>1, <2>4
    <3>2. PICK g \in Flows : flows[g].ticket = t
      BY <3>1 DEF RequestInv, RequestsAreNotLost
    <3> QED  BY <2>2, <3>1, <3>2
  <2> QED  BY <2>3, <2>4 DEF RequestInv, RequestsAreNotLost
<1>10. ASSUME NEW f \in Flows, Decide(f) PROVE RequestInv'
  <2> DEFINE t == flows[f].ticket
             live == UnexpiredTickets(flows[f].now)
  <2>1. t \in Tickets /\ ~At(f, "idle")
    BY <1>10, HeldType DEF Decide, At
  <2>2. pending' \subseteq live \ {t} /\ live \subseteq pending /\ UNCHANGED <<asked, opened>>
    BY ZenonT(30), <1>10 DEF Decide, Decided, Consumed, UnexpiredTickets
  <2>3. \A u \in pending' : request'[u] = request[u]
    BY ZenonT(30), <1>10, <2>1, <2>2 DEF Decide, PrunedRequests, TypeOK
  <2>4. flows' = Ended(f) \/ flows' = Goto(f, "undo")
    BY ZenonT(30), <1>10 DEF Decide
  <2> QED  BY <2>1, <2>2, <2>3, <2>4, <1>0, RequestsMove
<1>11. ASSUME NEW m \in inbox, LookUp(m) PROVE RequestInv'
  BY ZenonT(30), <1>11, RequestsStay DEF LookUp, UnexpiredTickets, PrunedRequests, TypeOK
<1>12. CASE Register
  <2>1. handling \in Frames /\ handling.ticket \in Tickets
        /\ [dev |-> handling.dev, peer |-> handling.peer] \in Waiting
    BY ZenonT(30), <1>12 DEF Register, TypeOK, Frames, Waiting
  <2> QED  BY ZenonT(30), <1>12, <2>1, <1>0 DEF Register, RequestInv, RequestsAreNotLost,
              FlowsAreOpened, LosersAreGone, UnexpiredTickets, PrunedRequests, TypeOK
<1>13. ASSUME NEW r \in results, Deliver(r) PROVE RequestInv'
  BY <1>13, RequestsStay DEF Deliver
<1>14. ASSUME NEW c \in calls, BrokerRevokes(c) PROVE RequestInv'
  BY <1>14, RequestsStay DEF BrokerRevokes
<1>15. CASE Save \/ UNCHANGED vars
  BY <1>15, RequestsStay DEF Save, vars
<1>16. CASE Restart
  <2>1. Idle.pc = "idle"
    BY DEF Idle
  <2> QED  BY <1>16, <2>1 DEF Restart, RequestInv, RequestsAreNotLost, FlowsAreOpened, LosersAreGone
<1> QED
  BY <1>1, <1>2, <1>3, <1>4, <1>5, <1>6, <1>7, <1>8, <1>9, <1>10, <1>11, <1>12, <1>13, <1>14,
     <1>15, <1>16, <1>17 DEF Next

\* A request stays with the operator or with an approval until its ticket is gone, whatever
\* call fails in between (the restore paths of decide_pairing_request); only an approval
\* whose client hangs up takes it away.
THEOREM RequestsStayUntilDecided == Spec => []RequestsAreNotLost
<1>1. RequestInv => RequestsAreNotLost
  BY DEF RequestInv
<1> QED  BY <1>1, TypeInit, TypeStep, RequestInit, RequestStep, PTL DEF Spec

-------------------------------------------------------------------------------
(* Grants *)

\* Devices for which an approval in progress may have been issued a grant, and those an
\* operator's revocation has not reached the broker for.
Issuing == {Holder(f) : f \in {g \in Flows : flows[g].pc \in {"grant", "rollback", "decide", "undo"}}}
Revoking == UNION {Target(c) : c \in calls}
GrantInv == granted \subseteq paired \cup leaked \cup Issuing \cup Revoking

LEMMA GrantInit == Init => GrantInv
<1> QED  BY DEF Init, GrantInv

\* A step that leaves approvals and revocations alone.
LEMMA GrantsStay ==
  ASSUME GrantInv, UNCHANGED <<flows, calls>>, granted' \subseteq granted,
         paired \subseteq paired', leaked' = leaked
  PROVE  GrantInv'
<1> QED  BY DEF GrantInv, Issuing, Revoking, Holder, Target

\* Nobody leaves Issuing in a step of approval f but the device f holds.
LEMMA IssuingMoves ==
  ASSUME TypeOK, NEW f \in Flows, ~At(f, "idle"),
         flows' = Ended(f) \/ \E pc : flows' = Goto(f, pc)
  PROVE  /\ Issuing \subseteq Issuing' \cup {Holder(f)}
         /\ flows'[f].pc \in {"grant", "rollback", "decide", "undo"} => Holder(f) \in Issuing'
<1>1. \A g \in Flows : g # f => flows'[g] = flows[g]
  BY FlowStep
<1>2. flows'[f].pc \in {"grant", "rollback", "decide", "undo"} => flows'[f].req = flows[f].req
  BY FlowStep DEF Idle
<1> QED  BY <1>1, <1>2 DEF Issuing, Holder

LEMMA GrantStep == TypeOK /\ GrantInv /\ [Next]_vars => GrantInv'
<1> SUFFICES ASSUME TypeOK, GrantInv, [Next]_vars PROVE GrantInv'
  OBVIOUS
<1> USE DEF device, tickets, history
<1>1. ASSUME NEW d \in Devices, Ready(d) \/ Blip(d) \/ Seen(d) PROVE GrantInv'
  BY <1>1, GrantsStay DEF Ready, Blip, Seen
<1>2. ASSUME NEW d \in Devices, Revoke(d) \/ RevokeOthers(d) PROVE GrantInv'
  <2> DEFINE this == [gone |-> "this", dev |-> d]
             others == [gone |-> "others", dev |-> d]
  <2>1. Issuing' = Issuing /\ UNCHANGED <<granted, leaked>>
    BY <1>2 DEF Revoke, RevokeOthers, Issuing, Holder
  <2>2. \A c : Target(c)' = Target(c)
    BY DEF Target
  <2>3. calls \subseteq calls' => Revoking \subseteq Revoking'
    BY <2>2 DEF Revoking
  <2>4. CASE Revoke(d)
    <3>1. this \in calls' /\ calls \subseteq calls' /\ Target(this) = {d} /\ paired' = paired \ {d}
      BY SMTT(30), <2>4 DEF Revoke, Target
    <3>2. d \in Revoking'
      BY <2>2, <3>1 DEF Revoking
    <3> QED  BY SMTT(30), <2>1, <2>3, <3>1, <3>2 DEF GrantInv
  <2>5. CASE RevokeOthers(d)
    <3>1. others \in calls' /\ calls \subseteq calls' /\ Target(others) = Devices \ {d} /\ paired' = {d}
      BY <2>5 DEF RevokeOthers, Target
    <3>2. Devices \ {d} \subseteq Revoking'
      BY <2>2, <3>1 DEF Revoking
    <3> QED  BY ZenonT(30), <2>1, <3>1, <3>2 DEF GrantInv, TypeOK
  <2> QED  BY <1>2, <2>4, <2>5
<1>3. ASSUME NEW t \in Tickets, OpenTicket(t) \/ Expire(t) \/ Reject(t) PROVE GrantInv'
  BY <1>3, GrantsStay DEF OpenTicket, Expire, Reject, Decided
<1>4. ASSUME NEW d \in Devices, NEW t \in Tickets, Scan(d, t) PROVE GrantInv'
  BY <1>4, GrantsStay DEF Scan
<1>5. ASSUME NEW f \in Flows, NEW t \in Tickets, Claim(f, t) PROVE GrantInv'
  <2>1. \A g \in Flows : g # f => flows'[g] = flows[g]
    BY <1>5 DEF Claim, TypeOK
  <2>2. UNCHANGED <<granted, paired, leaked, calls>> /\ flows[f].pc = "idle"
    BY <1>5 DEF Claim, At
  <2> QED  BY <2>1, <2>2 DEF GrantInv, Issuing, Revoking, Holder, Target
<1>6. ASSUME NEW f \in Flows,
             Issue(f) \/ IssueFails(f) \/ ClientGrant(f) \/ Rollback(f) \/ Restore(f)
               \/ Decide(f) \/ Undo(f)
      PROVE  GrantInv'
  <2>1. ~At(f, "idle") /\ UNCHANGED calls
    BY ZenonT(30), <1>6 DEF Issue, IssueFails, ClientGrant, Rollback, Restore, Decide, Undo, At
  <2>2. flows' = Ended(f) \/ \E pc : flows' = Goto(f, pc)
    BY ZenonT(30), <1>6 DEF Issue, IssueFails, ClientGrant, Rollback, Restore, Decide, Undo
  <2>3. Revoking' = Revoking
    BY <2>1 DEF Revoking, Target
  <2>4. /\ Issuing \subseteq Issuing' \cup {Holder(f)}
        /\ flows'[f].pc \in {"grant", "rollback", "decide", "undo"} => Holder(f) \in Issuing'
    BY SMTT(30), <2>1, <2>2, IssuingMoves
  <2>5. ASSUME NEW pc, flows' = Goto(f, pc) PROVE flows'[f].pc = pc
    <3>1. Goto(f, pc)[f].pc = pc
      BY <2>1, FlowStep, ZenonT(30)
    <3> QED  BY <2>5, <3>1, ZenonT(30)
  <2>6. CASE Issue(f)
    BY ZenonT(30), <2>3, <2>4, <2>5, <2>6 DEF Issue, GrantInv
  <2>7. CASE ClientGrant(f)
    BY <2>3, <2>4, <2>5, <2>7 DEF ClientGrant, GrantInv
  <2>8. ASSUME IssueFails(f) \/ Restore(f) PROVE GrantInv'
    <3>1. flows[f].pc \in {"issue", "restore"} /\ flows' = Ended(f)
      BY ZenonT(30), <2>8 DEF IssueFails, Restore, At
    <3>2. Issuing \subseteq Issuing'
      <4>1. \A g \in Flows : g # f => flows'[g] = flows[g]
        BY <2>1, <3>1, FlowStep
      <4> QED  BY <3>1, <4>1 DEF Issuing, Holder
    <3> QED  BY <2>3, <2>8, <3>2 DEF IssueFails, Restore, GrantInv
  <2>9. ASSUME Rollback(f) \/ Undo(f) PROVE GrantInv'
    <3>1. Withdraw(f) /\ UNCHANGED paired
      BY <2>9 DEF Rollback, Undo
    <3> QED  BY <2>3, <2>4, <3>1 DEF Withdraw, GrantInv
  <2>10. CASE Decide(f)
    <3>1. CASE flows' = Goto(f, "undo")
      BY ZenonT(30), <2>3, <2>4, <2>5, <2>10, <3>1 DEF Decide, Decided, GrantInv
    <3>2. CASE flows' # Goto(f, "undo")
      BY ZenonT(30), <2>3, <2>4, <2>10, <3>2 DEF Decide, Decided, GrantInv, Holder
    <3> QED  BY <3>1, <3>2
  <2> QED  BY SMTT(30), <1>6, <2>6, <2>7, <2>8, <2>9, <2>10
<1>13. ASSUME NEW f \in Flows, HangUp(f) PROVE GrantInv'
  <2>1. /\ ~At(f, "idle") /\ flows' = Ended(f) /\ UNCHANGED <<calls, paired>>
        /\ granted' \subseteq granted \cup {Holder(f)}
        /\ leaked' = leaked \cup ({Holder(f)} \cap granted')
    BY <1>13 DEF HangUp
  <2>2. Revoking' = Revoking /\ Issuing \subseteq Issuing' \cup {Holder(f)}
    BY <2>1, IssuingMoves DEF Revoking, Target
  <2> QED  BY <2>1, <2>2 DEF GrantInv
<1>7. ASSUME NEW m \in inbox, LookUp(m) PROVE GrantInv'
  BY ZenonT(30), <1>7, GrantsStay DEF LookUp
<1>8. CASE Register
  BY <1>8, GrantsStay DEF Register
<1>9. ASSUME NEW r \in results, Deliver(r) PROVE GrantInv'
  BY <1>9, GrantsStay DEF Deliver
<1>10. ASSUME NEW c \in calls, BrokerRevokes(c) PROVE GrantInv'
  BY <1>10 DEF BrokerRevokes, GrantInv, Issuing, Revoking, Holder, Target
<1>11. CASE Save \/ UNCHANGED vars
  BY <1>11, GrantsStay DEF Save, vars
<1>12. CASE Restart
  <2>1. Issuing \cup Revoking \subseteq Unfinished
    BY DEF Issuing, Revoking, Unfinished, At
  <2> QED  BY <1>12, <2>1 DEF Restart, GrantInv
<1> QED
  BY <1>1, <1>2, <1>3, <1>4, <1>5, <1>6, <1>7, <1>8, <1>9, <1>10, <1>11, <1>12, <1>13 DEF Next

\* At rest the broker holds no grant for a device the relay does not know, save one that a
\* failed call, a client that hung up or a restart left behind: every approval that gives up
\* withdraws the grant it was issued.
THEOREM GrantsAreAccountedFor == Spec => []NoOrphanGrants
<1>1. GrantInv => NoOrphanGrants
  BY DEF GrantInv, NoOrphanGrants, Quiet, At, Issuing, Revoking
<1> QED  BY <1>1, TypeInit, TypeStep, GrantInit, GrantStep, PTL DEF Spec

-------------------------------------------------------------------------------
(* Records, and expired tickets *)

\* The state file agrees with itself as the memory does.
RecordInv ==
  /\ RecordsAgree
  /\ \A d \in Devices : /\ d \in disk.paired => disk.record[d] \in {"approved", "rejected"}
                        /\ disk.record[d] = "approved" => d \in disk.paired

LEMMA RecordInit == Init => RecordInv
<1> QED  BY PairingAssumption DEF Init, RecordInv, RecordsAgree

LEMMA RecordStep == TypeOK /\ RecordInv /\ [Next]_vars => RecordInv'
<1> SUFFICES ASSUME TypeOK, RecordInv, [Next]_vars PROVE RecordInv'
  OBVIOUS
<1> USE DEF device, tickets, history
<1>1. CASE UNCHANGED <<paired, record, disk>>
  BY SMTT(30), <1>1 DEF RecordInv, RecordsAgree
<1>2. ASSUME NEW d \in Devices, Seen(d) \/ Revoke(d) \/ RevokeOthers(d) PROVE RecordInv'
  <2>1. paired \subseteq Devices /\ record \in [Devices -> States] /\ UNCHANGED disk
    BY ZenonT(30), <1>2 DEF TypeOK, Seen, Revoke, RevokeOthers
  <2>2. CASE Seen(d)
    BY ZenonT(30), <2>1, <2>2 DEF Seen, RecordInv, RecordsAgree
  <2>3. ASSUME NEW gone \in SUBSET Devices, paired' = paired \ gone,
               record' = RecordRevoked(gone)
        PROVE  RecordInv'
    BY <2>1, <2>3 DEF RecordRevoked, RecordInv, RecordsAgree
  <2>4. CASE Revoke(d)
    BY <2>3, <2>4 DEF Revoke
  <2>5. CASE RevokeOthers(d)
    <3>1. paired' = paired \ (paired \ {d}) /\ record' = RecordRevoked(paired \ {d})
      BY <2>5 DEF RevokeOthers
    <3> QED  BY SMTT(30), <2>1, <2>3, <3>1
  <2> QED  BY <1>2, <2>2, <2>4, <2>5
<1>3. ASSUME NEW t \in Tickets, NEW q \in Waiting, NEW ok \in BOOLEAN, NEW live, NEW now,
             Decided(t, q, ok, live, now), UNCHANGED disk
      PROVE  RecordInv'
  <2>1. q.dev \in Devices
    BY DEF Waiting
  <2> QED  BY ZenonT(30), <1>3, <2>1 DEF Decided, RecordInv, RecordsAgree, TypeOK
<1>4. ASSUME NEW t \in Tickets, Reject(t) PROVE RecordInv'
  <2> DEFINE live == UnexpiredTickets(expired)
             q == PrunedRequests(live)[t]
  <2>1. q \in Waiting
    BY <1>4, PruneType DEF Reject
  <2>2. Decided(t, q, FALSE, live, expired) /\ UNCHANGED disk
    BY ZenonT(30), <1>4 DEF Reject
  <2> HIDE DEF q, live
  <2> QED  BY ZenonT(30), <1>3, <2>1, <2>2
<1>5. ASSUME NEW f \in Flows, Decide(f) PROVE RecordInv'
  <2> DEFINE t == flows[f].ticket
             q == flows[f].req
             live == UnexpiredTickets(flows[f].now)
  <2>1. t \in Tickets /\ q \in Waiting
    BY ZenonT(30), <1>5, HeldType DEF Decide, At
  <2>2. \/ UNCHANGED <<paired, record, disk>>
        \/ Decided(t, q, TRUE, live, flows[f].now) /\ UNCHANGED disk
    BY ZenonT(30), <1>5 DEF Decide
  <2> HIDE DEF q, live, t
  <2> QED  BY ZenonT(30), <1>1, <1>3, <2>1, <2>2
<1>6. CASE Save
  BY <1>6 DEF Save, RecordInv, RecordsAgree
<1>7. CASE Restart
  BY <1>7 DEF Restart, RecordInv, RecordsAgree
<1>8. ASSUME NEW d \in Devices, Ready(d) \/ Blip(d) \/ \E t \in Tickets : Scan(d, t)
      PROVE  RecordInv'
  BY <1>1, <1>8 DEF Ready, Blip, Scan
<1>9. ASSUME NEW t \in Tickets, OpenTicket(t) \/ Expire(t) \/ \E f \in Flows : Claim(f, t)
      PROVE  RecordInv'
  BY <1>1, <1>9 DEF OpenTicket, Expire, Claim
<1>10. ASSUME NEW f \in Flows,
              Issue(f) \/ IssueFails(f) \/ ClientGrant(f) \/ Rollback(f) \/ Restore(f) \/ Undo(f)
       PROVE  RecordInv'
  BY ZenonT(30), <1>1, <1>10 DEF Issue, IssueFails, ClientGrant, Rollback, Restore, Undo
<1>12. ASSUME NEW f \in Flows, HangUp(f) PROVE RecordInv'
  BY ZenonT(30), <1>1, <1>12 DEF HangUp
<1>11. CASE \/ \E m \in inbox : LookUp(m)
            \/ Register
            \/ \E r \in results : Deliver(r)
            \/ \E c \in calls : BrokerRevokes(c)
            \/ UNCHANGED vars
  BY ZenonT(30), <1>1, <1>11 DEF LookUp, Register, Deliver, BrokerRevokes, vars
<1> QED
  BY SMTT(30), <1>2, <1>4, <1>5, <1>6, <1>7, <1>8, <1>9, <1>10, <1>11, <1>12 DEF Next

\* The record the operator sees of a device never contradicts whether it is paired, before
\* or after a restart from any saved state (sync_device_record_from_approved_device,
\* record_revoked_device).
THEOREM RecordsAlwaysAgree == Spec => []RecordsAgree
<1>1. RecordInv => RecordsAgree
  BY DEF RecordInv
<1> QED  BY <1>1, TypeInit, TypeStep, RecordInit, RecordStep, PTL DEF Spec

\* No decision is made on an expired ticket but by an approval that claimed it in time
\* (prune_expired_pairings runs before a request is looked up).
THEOREM ExpiryIsFinal == Spec => ExpiredTicketsDecideNothing
<1>1. ASSUME TypeOK, [Next]_vars, NEW t \in expired, \A f \in Flows : flows[f].ticket # t
      PROVE  verdicts'[t] = verdicts[t]
  <2> USE DEF device, tickets, history
  <2>1. ASSUME NEW u \in Tickets, Reject(u) PROVE verdicts'[t] = verdicts[t]
    BY ZenonT(30), <1>1, <2>1 DEF Reject, Decided, UnexpiredTickets, PrunedRequests, TypeOK
  <2>2. ASSUME NEW f \in Flows, Decide(f) PROVE verdicts'[t] = verdicts[t]
    BY ZenonT(30), <1>1, <2>2 DEF Decide, Decided, TypeOK
  <2>3. ASSUME NEW d \in Devices,
               \/ Ready(d) \/ Blip(d) \/ Seen(d) \/ Revoke(d) \/ RevokeOthers(d)
               \/ \E u \in Tickets : Scan(d, u)
        PROVE  verdicts' = verdicts
    BY <2>3 DEF Ready, Blip, Seen, Revoke, RevokeOthers, Scan
  <2>4. ASSUME NEW u \in Tickets, OpenTicket(u) \/ Expire(u) \/ \E f \in Flows : Claim(f, u)
        PROVE  verdicts' = verdicts
    BY <2>4 DEF OpenTicket, Expire, Claim
  <2>5. ASSUME NEW f \in Flows,
               Issue(f) \/ IssueFails(f) \/ ClientGrant(f) \/ Rollback(f) \/ Restore(f) \/ Undo(f)
        PROVE  verdicts' = verdicts
    BY <2>5 DEF Issue, IssueFails, ClientGrant, Rollback, Restore, Undo
  <2>7. ASSUME NEW f \in Flows, HangUp(f) PROVE verdicts' = verdicts
    BY <2>7 DEF HangUp
  <2>6. CASE \/ \E m \in inbox : LookUp(m)
             \/ Register
             \/ \E r \in results : Deliver(r)
             \/ \E c \in calls : BrokerRevokes(c)
             \/ Save \/ Restart
             \/ UNCHANGED vars
    BY ZenonT(30), <2>6 DEF LookUp, Register, Deliver, BrokerRevokes, Save, Restart, vars
  <2> QED  BY ZenonT(30), <1>1, <2>1, <2>2, <2>3, <2>4, <2>5, <2>6, <2>7 DEF Next
<1>2. TypeOK /\ [Next]_vars =>
        [\A t \in expired : (\A f \in Flows : flows[f].ticket # t) => verdicts'[t] = verdicts[t]]_vars
  BY <1>1
<1> QED  BY <1>2, TypeInit, TypeStep, PTL DEF Spec, ExpiredTicketsDecideNothing

===============================================================================
