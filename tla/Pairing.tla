------------------------------ MODULE Pairing ------------------------------
(***************************************************************************)
(* How a device is paired with the relay and how it is removed again: the  *)
(* device's side (frontend/remote/pairing.js), the relay's tickets,        *)
(* requests, results and device records (state/relay/device.rs), the       *)
(* operator's decisions and revocations (state/app/pairing.rs), which call *)
(* the broker between two lock sections, and the broker's device grants    *)
(* (public_control.rs).                                                    *)
(*                                                                         *)
(* A device stands for its verify key and its device id.  Time is the set  *)
(* of tickets whose expiry has passed, so a timestamp is the value of that *)
(* set when it was taken.  A grant stands for the refresh tokens of its    *)
(* rotations, all honoured within the grace window.                        *)
(***************************************************************************)
EXTENDS Naturals, Sequences, FiniteSets

CONSTANTS
  Devices,   \* browsers that may be paired
  Tickets,   \* pairing tickets the operator can open
  Flows,     \* approvals that may be in progress at the same time
  None,
  MaxPeers,  \* bound: broker connections the devices make, together
  MaxFaults  \* bound: failed broker calls, clients that hang up, relay restarts

ASSUME PairingAssumption ==
  /\ None \notin Devices \cup Tickets
  /\ None \notin [dev : Devices, peer : Nat] /\ None # "approved"
  /\ MaxPeers \in Nat \ {0} /\ MaxFaults \in Nat

VARIABLES
  devs,      \* device -> [ticket, peer, phase]: its pairing attempt and broker peer
  peers,     \* peer ids given out, one to a connection
  inbox,     \* pairing requests on their way to the relay
  handling,  \* the request handle_pairing_request is working on, or None
  expired,   \* tickets whose expires_at has passed
  opened,    \* tickets ever opened
  pending,   \* pending_pairings
  request,   \* pending_pairing_requests: ticket -> [dev, peer] or None
  completed, \* completed_pairings: ticket -> [dev, ok] or None
  results,   \* pairing results on their way to a broker peer
  flows,     \* flow -> [pc, ticket, req, now]: decide_pairing_request, approving
  paired,    \* paired_devices
  record,    \* device_records: device -> lifecycle_state, or None
  disk,      \* [paired, record]: what the state file holds of the two
  calls,     \* broker revocations started by the operator
  granted,   \* devices the broker holds a grant for
  faults,
  asked,     \* history: tickets a request has been registered on, and has not been lost
             \* since with an approval whose client hung up
  verdicts,  \* history: ticket -> the decisions made on it
  leaked     \* history: devices whose grant a fault may have left behind

device == <<devs, peers, inbox>>
tickets == <<pending, request, completed>>
history == <<opened, asked, verdicts, leaked>>
vars == <<devs, peers, inbox, handling, expired, opened, pending, request, completed, results,
          flows, paired, record, disk, calls, granted, faults, asked, verdicts, leaked>>

Idle == [pc |-> "idle", ticket |-> None, req |-> None, now |-> {}]
Away == [ticket |-> None, peer |-> 0, phase |-> "idle"]
Decision == [dev : Devices, ok : BOOLEAN]
Frames == [dev : Devices, ticket : Tickets, peer : 1..MaxPeers]
Waiting == [dev : Devices, peer : 1..MaxPeers]
Attempts == {Away} \cup [ticket : Tickets, peer : 0..MaxPeers,
                        phase : {"idle", "connecting", "waiting"}]
Claims == [pc : {"issue", "grant", "rollback", "restore", "decide", "undo"},
           ticket : Tickets, req : Waiting, now : SUBSET Tickets]
States == {"approved", "rejected", "revoked", None}
Nobody == [t \in Tickets |-> None]

Init ==
  /\ devs = [d \in Devices |-> Away]
  /\ peers = 0 /\ inbox = {} /\ handling = None
  /\ expired = {} /\ opened = {} /\ pending = {}
  /\ request = Nobody /\ completed = Nobody
  /\ results = {}
  /\ flows = [f \in Flows |-> Idle]
  /\ paired = {} /\ record = [d \in Devices |-> None]
  /\ disk = [paired |-> paired, record |-> record]
  /\ calls = {} /\ granted = {}
  /\ faults = 0
  /\ verdicts = [t \in Tickets |-> << >>]
  /\ asked = {} /\ leaked = {}

-------------------------------------------------------------------------------
(* The device *)

\* beginPairing: a ticket is scanned, whatever the device was doing before.
Scan(d, t) ==
  /\ t \in opened /\ t \notin expired /\ devs[d].ticket # t
  /\ devs' = [devs EXCEPT ![d] = [ticket |-> t, peer |-> @.peer, phase |-> "connecting"]]
  /\ UNCHANGED <<peers, inbox, handling, expired, disk, tickets, results, flows, paired,
                 record, calls, granted, faults, history>>

\* onBrokerReady and sendPairingRequest: every connection, the first and each one after
\* a network failure, has a peer id of its own and sends the request again.
Ready(d) ==
  /\ devs[d].phase = "connecting" /\ peers < MaxPeers
  /\ devs[d].ticket \notin expired
  /\ devs' = [devs EXCEPT ![d].peer = peers + 1, ![d].phase = "waiting"]
  /\ peers' = peers + 1
  /\ inbox' = inbox \cup {[dev |-> d, ticket |-> devs[d].ticket, peer |-> peers + 1]}
  /\ UNCHANGED <<handling, expired, disk, tickets, results, flows, paired, record, calls,
                 granted, faults, history>>

\* The socket closes while the device waits for approval.
Blip(d) ==
  /\ devs[d].phase = "waiting" /\ peers < MaxPeers
  /\ devs' = [devs EXCEPT ![d].phase = "connecting"]
  /\ UNCHANGED <<peers, inbox, handling, expired, disk, tickets, results, flows, paired,
                 record, calls, granted, faults, history>>

\* handleEncryptedPairingResult: a result for another peer or another ticket, or for an
\* attempt that has expired, is dropped; any other one ends the attempt.
Deliver(r) ==
  LET d == r.dev IN
  /\ r \in results
  /\ results' = results \ {r}
  /\ devs' = IF /\ devs[d].phase = "waiting" /\ devs[d].peer = r.peer
                /\ devs[d].ticket = r.ticket /\ r.ticket \notin expired
               THEN [devs EXCEPT ![d].phase = "idle"] ELSE devs
  /\ UNCHANGED <<peers, inbox, handling, expired, disk, tickets, flows, paired, record,
                 calls, granted, faults, history>>

-------------------------------------------------------------------------------
(* Tickets and requests at the relay *)

\* prune_expired_pairings, with the timestamp its caller took.
UnexpiredTickets(now) == pending \ now
PrunedRequests(kept) == [t \in Tickets |-> IF t \in kept THEN request[t] ELSE None]
PrunedResults(now) == [t \in Tickets |-> IF t \in now THEN None ELSE completed[t]]

\* start_pairing, once the broker has issued the ticket's join credential.
OpenTicket(t) ==
  /\ t \notin opened /\ t \notin expired
  /\ opened' = opened \cup {t}
  /\ pending' = UnexpiredTickets(expired) \cup {t}
  /\ request' = PrunedRequests(pending')
  /\ completed' = PrunedResults(expired)
  /\ UNCHANGED <<device, handling, expired, disk, results, flows, paired, record, calls,
                 granted, faults, asked, verdicts, leaked>>

Expire(t) ==
  /\ t \in opened \ expired
  /\ expired' = expired \cup {t}
  /\ UNCHANGED <<device, handling, disk, tickets, results, flows, paired, record, calls,
                 granted, faults, history>>

DecidedDevice(d, t) == completed[t].dev = d

\* handle_pairing_request down to its replay of a completed result.
LookUp(m) ==
  LET live == UnexpiredTickets(expired)
      done == PrunedResults(expired)
  IN
  /\ m \in inbox /\ handling = None
  /\ inbox' = inbox \ {m}
  /\ pending' = live /\ request' = PrunedRequests(live) /\ completed' = done
  /\ results' = IF done[m.ticket] # None /\ DecidedDevice(m.dev, m.ticket)
                  THEN results \cup {[ticket |-> m.ticket, dev |-> m.dev, peer |-> m.peer,
                                      ok |-> done[m.ticket].ok]}
                  ELSE results
  /\ handling' = IF done[m.ticket] = None /\ m.ticket \in live THEN m ELSE None
  /\ UNCHANGED <<devs, peers, expired, disk, flows, paired, record, calls, granted, faults,
                 history>>

\* complete_pairing and register_pairing_request, under a lock of their own: a request is
\* rebound to the peer of its own device's retry and to nobody else's.
Register ==
  LET m == handling
      live == UnexpiredTickets(expired)
      kept == PrunedRequests(live)
      free == m.ticket \in live
              /\ (kept[m.ticket] = None \/ kept[m.ticket].dev = m.dev)
  IN
  /\ m # None
  /\ handling' = None
  /\ pending' = live /\ completed' = PrunedResults(expired)
  /\ request' = IF free THEN [kept EXCEPT ![m.ticket] = [dev |-> m.dev, peer |-> m.peer]]
                        ELSE kept
  /\ asked' = IF free THEN asked \cup {m.ticket} ELSE asked
  /\ UNCHANGED <<device, expired, disk, results, flows, paired, record, calls, granted,
                 faults, opened, verdicts, leaked>>

-------------------------------------------------------------------------------
(* The operator's decision, decide_pairing_request *)

Fault == faults < MaxFaults /\ faults' = faults + 1
At(f, pc) == flows[f].pc = pc
Goto(f, pc) == [flows EXCEPT ![f].pc = pc]
Ended(f) == [flows EXCEPT ![f] = Idle]
Holder(f) == flows[f].req.dev

\* claim_pairing_request: the approval takes the request with it.
Claim(f, t) ==
  LET live == UnexpiredTickets(expired)
      kept == PrunedRequests(live)
  IN
  /\ At(f, "idle") /\ kept[t] # None
  /\ flows' = [flows EXCEPT ![f] =
                 [pc |-> "issue", ticket |-> t, req |-> kept[t], now |-> expired]]
  /\ pending' = live /\ completed' = PrunedResults(expired)
  /\ request' = [kept EXCEPT ![t] = None]
  /\ UNCHANGED <<device, handling, expired, disk, results, paired, record, calls, granted,
                 faults, history>>

\* device_broker_credential: issue_device_grant replaces the device's grant or adds one.
Issue(f) ==
  /\ At(f, "issue")
  /\ flows' = Goto(f, "grant")
  /\ granted' = granted \cup {Holder(f)}
  /\ UNCHANGED <<device, handling, expired, disk, tickets, results, paired, record, calls,
                 faults, history>>

DroppedRequest(f) == request
RestoredRequest(f) == [request EXCEPT ![flows[f].ticket] = flows[f].req]

\* The credential request fails, or its answer does not arrive although the broker has
\* issued the grant; the claim is released.
IssueFails(f) ==
  /\ At(f, "issue") /\ Fault
  /\ flows' = Ended(f)
  /\ request' = RestoredRequest(f)
  /\ \/ UNCHANGED <<granted, leaked>>
     \/ granted' = granted \cup {Holder(f)} /\ leaked' = leaked \cup {Holder(f)}
  /\ UNCHANGED <<device, handling, expired, disk, pending, completed, results, paired,
                 record, calls, opened, asked, verdicts>>

\* client_broker_grant: the broker keeps a claim reference and nothing durable.
ClientGrant(f) ==
  /\ At(f, "grant")
  /\ \/ flows' = Goto(f, "decide") /\ UNCHANGED faults
     \/ flows' = Goto(f, "rollback") /\ Fault
  /\ UNCHANGED <<device, handling, expired, disk, tickets, results, paired, record, calls,
                 granted, history>>

\* revoke_device_credential, called by an approval that gives up: its outcome is ignored.
KeepsGrant(f) == UNCHANGED <<granted, leaked, faults>>
Withdraw(f) ==
  \/ granted' = granted \ {Holder(f)} /\ leaked' = leaked \ {Holder(f)} /\ UNCHANGED faults
  \/ Fault /\ leaked' = leaked \cup {Holder(f)} /\ UNCHANGED granted

Rollback(f) ==
  /\ At(f, "rollback")
  /\ Withdraw(f)
  /\ flows' = Goto(f, "restore")
  /\ UNCHANGED <<device, handling, expired, disk, tickets, results, paired, record, calls,
                 opened, asked, verdicts>>

Restore(f) ==
  /\ At(f, "restore")
  /\ request' = RestoredRequest(f)
  /\ flows' = Ended(f)
  /\ UNCHANGED <<device, handling, expired, disk, pending, completed, results, paired,
                 record, calls, granted, faults, history>>

\* What decide_pairing_request in device.rs does with a request q on a live ticket.
NotConsumed(t, live) == live
Consumed(t, live) == live \ {t}
Decided(t, q, ok, live, now) ==
  /\ pending' = Consumed(t, live)
  /\ completed' = [PrunedResults(now) EXCEPT ![t] = [dev |-> q.dev, ok |-> ok]]
  /\ results' = results \cup {[ticket |-> t, dev |-> q.dev, peer |-> q.peer, ok |-> ok]}
  /\ paired' = IF ok THEN paired \cup {q.dev} ELSE paired
  /\ record' = [record EXCEPT ![q.dev] = IF ok THEN "approved" ELSE "rejected"]
  /\ verdicts' = [verdicts EXCEPT ![t] = Append(@, [dev |-> q.dev, ok |-> ok])]

\* The claim is handed back and the request decided under one write lock, with the
\* timestamp taken before the broker was called.
Decide(f) ==
  LET t == flows[f].ticket
      now == flows[f].now
      live == UnexpiredTickets(now)
  IN
  /\ At(f, "decide")
  /\ request' = [PrunedRequests(live) EXCEPT ![t] = None]
  /\ IF t \in live
       THEN Decided(t, flows[f].req, TRUE, live, now) /\ flows' = Ended(f)
       ELSE /\ flows' = Goto(f, "undo")
            /\ pending' = live /\ completed' = PrunedResults(now)
            /\ UNCHANGED <<results, paired, record, verdicts>>
  /\ UNCHANGED <<device, handling, expired, disk, calls, granted, faults, opened, asked,
                 leaked>>

\* The operator's client hangs up: axum drops the handler at the await it has come to.
\* The claimed request goes with it, unless the device has asked again meanwhile, and so
\* does the rest of the approval; the broker call it was in has been handled, or is not.
\* No guard puts anything right.
HangUp(f) ==
  /\ ~At(f, "idle") /\ Fault
  /\ flows' = Ended(f)
  /\ asked' = asked \ {t \in {flows[f].ticket} : request[t] = None}
  /\ \/ At(f, "issue") /\ granted' = granted \cup {Holder(f)}
     \/ flows[f].pc \in {"rollback", "undo"} /\ granted' = granted \ {Holder(f)}
     \/ UNCHANGED granted
  /\ leaked' = leaked \cup ({Holder(f)} \cap granted')
  /\ UNCHANGED <<device, handling, expired, disk, tickets, results, paired, record, calls,
                 opened, verdicts>>

Undo(f) ==
  /\ At(f, "undo")
  /\ Withdraw(f)
  /\ flows' = Ended(f)
  /\ UNCHANGED <<device, handling, expired, disk, tickets, results, paired, record, calls,
                 opened, asked, verdicts>>

Reject(t) ==
  LET live == UnexpiredTickets(expired)
      kept == PrunedRequests(live)
  IN
  /\ kept[t] # None
  /\ request' = [kept EXCEPT ![t] = None]
  /\ Decided(t, kept[t], FALSE, live, expired)
  /\ UNCHANGED <<device, handling, expired, disk, flows, calls, granted, faults, opened,
                 asked, leaked>>

-------------------------------------------------------------------------------
(* Devices that are paired *)

\* mark_paired_device_seen, on any action of the device.
Seen(d) ==
  /\ d \in paired
  /\ record' = [record EXCEPT ![d] = "approved"]
  /\ UNCHANGED <<device, handling, expired, disk, tickets, results, flows, paired, calls,
                 granted, faults, history>>

RecordUntouched(gone) == record
RecordRevoked(gone) == [d \in Devices |-> IF d \in gone THEN "revoked" ELSE record[d]]

\* revoke_device: gone from the relay at once, from the broker when the call is through.
Revoke(d) ==
  /\ d \in paired
  /\ paired' = paired \ {d} /\ record' = RecordRevoked({d})
  /\ calls' = calls \cup {[gone |-> "this", dev |-> d]}
  /\ UNCHANGED <<device, handling, expired, disk, tickets, results, flows, granted, faults,
                 history>>

\* revoke_other_devices; the broker removes every grant but d's, paired or not.
RevokeOthers(d) ==
  /\ d \in paired /\ paired # {d}
  /\ paired' = {d} /\ record' = RecordRevoked(paired \ {d})
  /\ calls' = calls \cup {[gone |-> "others", dev |-> d]}
  /\ UNCHANGED <<device, handling, expired, disk, tickets, results, flows, granted, faults,
                 history>>

Target(c) == IF c.gone = "this" THEN {c.dev} ELSE Devices \ {c.dev}

\* The broker's side of the two, revoke_device_grant and revoke_other_device_grants.  The
\* call fails, or is never made, when the operator's client hangs up while it is awaited;
\* the relay has removed the devices before, and does nothing more than log the failure.
BrokerRevokes(c) ==
  /\ c \in calls
  /\ calls' = calls \ {c}
  /\ \/ granted' = granted \ Target(c) /\ leaked' = leaked \ Target(c) /\ UNCHANGED faults
     \/ Fault /\ leaked' = leaked \cup Target(c) /\ UNCHANGED granted
  /\ UNCHANGED <<device, handling, expired, disk, tickets, results, flows, paired, record,
                 opened, asked, verdicts>>

\* The persistence task writes the state file some time after a change.
Save ==
  /\ disk' = [paired |-> paired, record |-> record]
  /\ UNCHANGED <<device, handling, expired, tickets, results, flows, paired, record, calls,
                 granted, faults, history>>

\* Devices whose grant an approval or a revocation in progress is about to change.
Unfinished == {Holder(f) : f \in {g \in Flows : ~At(g, "idle")}}
              \cup UNION {Target(c) : c \in calls}

\* The relay process stops and starts again from the state file, which holds the paired
\* devices and their records and nothing else of this.
Restart ==
  /\ Fault
  /\ inbox' = {} /\ handling' = None /\ results' = {}
  /\ pending' = {} /\ request' = Nobody /\ completed' = Nobody
  /\ flows' = [f \in Flows |-> Idle] /\ calls' = {}
  /\ leaked' = leaked \cup Unfinished \cup (paired \ disk.paired)
  /\ paired' = disk.paired /\ record' = disk.record
  /\ UNCHANGED <<devs, peers, expired, disk, granted, opened, asked, verdicts>>

-------------------------------------------------------------------------------
Next ==
  \/ \E d \in Devices : Ready(d) \/ Blip(d) \/ Seen(d) \/ Revoke(d) \/ RevokeOthers(d)
  \/ \E t \in Tickets : OpenTicket(t) \/ Expire(t) \/ Reject(t)
  \/ \E d \in Devices, t \in Tickets : Scan(d, t)
  \/ \E f \in Flows, t \in Tickets : Claim(f, t)
  \/ \E f \in Flows : \/ Issue(f) \/ IssueFails(f) \/ ClientGrant(f) \/ Rollback(f)
                      \/ Restore(f) \/ Decide(f) \/ Undo(f) \/ HangUp(f)
  \/ \E m \in inbox : LookUp(m)
  \/ Register
  \/ \E r \in results : Deliver(r)
  \/ \E c \in calls : BrokerRevokes(c)
  \/ Save
  \/ Restart

Spec == Init /\ [][Next]_vars

-------------------------------------------------------------------------------
(* Properties *)

\* Types of the pairing state of device.rs and pairing.rs; an approval in progress claimed
\* its request before the ticket expired.
TypeOK ==
  /\ devs \in [Devices -> Attempts]
  /\ peers \in 0..MaxPeers
  /\ inbox \subseteq Frames /\ handling \in Frames \cup {None}
  /\ expired \subseteq opened /\ opened \subseteq Tickets
  /\ pending \subseteq opened /\ asked \subseteq opened
  /\ request \in [Tickets -> Waiting \cup {None}]
  /\ completed \in [Tickets -> Decision \cup {None}]
  /\ results \subseteq [ticket : Tickets, dev : Devices, peer : 1..MaxPeers, ok : BOOLEAN]
  /\ flows \in [Flows -> {Idle} \cup Claims]
  /\ \A f \in Flows : flows[f].now \subseteq expired \ {flows[f].ticket}
  /\ paired \subseteq Devices /\ granted \subseteq Devices /\ leaked \subseteq Devices
  /\ record \in [Devices -> States]
  /\ disk \in [paired : SUBSET Devices, record : [Devices -> States]]
  /\ calls \subseteq [gone : {"this", "others"}, dev : Devices]
  /\ faults \in 0..MaxFaults
  /\ verdicts \in [Tickets -> Seq(Decision)]

\* A ticket is decided at most once, whatever approvals, rejections, retries and failed
\* approvals overlap: consume_pairing_ticket and the rejecting branch of
\* decide_pairing_request remove it.
DecidedOnce == \A t \in Tickets : Len(verdicts[t]) <= 1

\* A pairing result, sent or replayed by handle_pairing_request, goes to the device that
\* was decided on and says what was decided.
ResultsTellTheVerdict ==
  \A r \in results : <<[dev |-> r.dev, ok |-> r.ok]>> = verdicts[r.ticket]

\* While a ticket is pending on which a device has asked, a request waits there for the
\* operator or is held by an approval: no failure of an approval loses it (the restore paths
\* of decide_pairing_request in state/app/pairing.rs).  Only a client that hangs up during
\* its approval does, since the claim is a local of the dropped handler; the ticket then
\* stays empty until a device's next connection asks again.
RequestsAreNotLost ==
  \A t \in pending \cap asked :
    request[t] # None \/ \E f \in Flows : flows[f].ticket = t

Quiet == calls = {} /\ \A f \in Flows : At(f, "idle")

\* When no decision and no revocation is in progress the broker holds a grant only for a
\* paired device: an approval that fails to pair its device withdraws what it issued, and a
\* revocation what it was asked to.  Left behind are only the grants of an approval or a
\* revocation that was cut short, by a failed call, by a client that hung up or by a restart.
NoOrphanGrants == Quiet => granted \subseteq paired \cup leaked

\* device_records never calls a paired device revoked, nor a device that is not paired
\* approved (sync_device_record_from_approved_device and record_revoked_device).
RecordsAgree ==
  \A d \in Devices : /\ d \in paired => record[d] \in {"approved", "rejected"}
                     /\ record[d] = "approved" => d \in paired

\* Once a ticket has expired nothing more is decided on it, save by an approval that had
\* claimed its request before (prune_expired_pairings).
ExpiredTicketsDecideNothing ==
  [][\A t \in expired : (\A f \in Flows : flows[f].ticket # t) => verdicts'[t] = verdicts[t]]_vars

\* The grant of a paired device is withdrawn by a revocation the operator asked for and by
\* nothing else: an approval that fails withdraws the grant of its own attempt.
OnlyRevocationWithdraws ==
  [][\A d \in paired \cap paired' : d \in granted \ granted' => calls' # calls]_vars

===============================================================================
