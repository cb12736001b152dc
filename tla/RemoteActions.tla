---------------------------- MODULE RemoteActions ----------------------------
(***************************************************************************)
(* A remote action end to end: the surface's dispatcher                    *)
(* (frontend/remote/actions.js), the relay's action handler with its       *)
(* replay cache (broker/remote_actions.rs, state/relay.rs), and the        *)
(* broker room in between, reduced to what the two ends observe of it:     *)
(* FIFO delivery, frames lost with a session, presence of the relay.       *)
(*                                                                         *)
(* An intent is one call of dispatchOrRecover.  Its action id is           *)
(* <<intent, try>>: a refused session claim makes it try once more, under  *)
(* a new id; everything else reuses the id of the try.  The handler runs   *)
(* inline in the relay's session loop, so it handles one action at a time  *)
(* and a session never ends in the middle of one; the process may.         *)
(***************************************************************************)
EXTENDS Integers, Sequences, FiniteSets, Functions

CONSTANTS
  Intents,      \* calls of dispatchOrRecover made during a behaviour
  Kind,         \* Kind[i]: "plain", "claimed" (requires_session_claim) or "challenge"
  Large,        \* intents whose result does not fit one broker frame
  Chunks,       \* frames such a result is cut into
  TrainQueue,   \* TRAIN_QUEUE_CAPACITY: chunk trains waiting behind the one being written
  ReplyTimeout, \* REMOTE_ACTION_TIMEOUT_MS, in ticks
  ReplayTTL,    \* REMOTE_ACTION_REPLAY_TTL_SECS, in ticks
  MaxEntries,   \* MAX_REMOTE_ACTION_REPLAY_ENTRIES
  FaultKinds,   \* of "session", "restart", "surface", "expiry": what goes wrong
  MaxFaults     \* bound: how often something goes wrong

ASSUME RemoteActionsAssumption ==
  /\ IsFiniteSet(Intents) /\ Cardinality(Intents) \in Nat
  /\ Kind \in [Intents -> {"plain", "claimed", "challenge"}]
  /\ Large \subseteq Intents
  /\ Chunks \in Nat \ {0, 1} /\ TrainQueue \in Nat \ {0}
  /\ ReplyTimeout \in Nat \ {0} /\ ReplayTTL \in Nat \ {0} /\ MaxEntries \in Nat \ {0}
  /\ FaultKinds \subseteq {"session", "restart", "surface", "expiry"}
  /\ MaxFaults \in Nat

VARIABLES
  intent,   \* intent -> [st, try, result]; st "waiting": in pendingActions
  deadline, \* intent -> ticks left of its timer, or Suspended
  parts,    \* intent -> chunk -> result version held (pendingActionChunks), 0 for none
  resend,   \* ids resendPendingActions has still to send again
  claim,    \* the session claim the surface holds, as the relay would judge it
  surface,  \* [up, relayConnected]: its socket, and the relay's presence as last told
  mailbox,  \* frames the broker holds for the surface
  uplink,   \* requests the broker holds for the relay's session, [id, claimed]
  session,  \* the relay has a broker session
  work,     \* the action being handled, or Idle
  cache,    \* recent_remote_actions: id -> entry or Absent
  writer,   \* [now, trains]: the session's writer
  executed, \* history: id -> number of executions
  since,    \* history: id -> ticks since this process last reserved or stored it
  faults    \* how often something went wrong

surfaceVars == <<intent, deadline, parts, resend, claim, surface>>
relayVars == <<work, cache, writer>>
history == <<executed, since>>
vars == <<surfaceVars, mailbox, uplink, session, relayVars, history, faults>>

Ids == Intents \X {1, 2}
Suspended == -1
Idle == [phase |-> "idle"]
Absent == [done |-> FALSE, version |-> -1, age |-> 0]
NoWriter == [now |-> <<>>, trains |-> <<>>]
NoParts == [c \in 1..Chunks |-> 0]

Waiting == {i \in Intents : intent[i].st = "waiting"}
\* state.pendingActions.has(id)
Pending(id) == id[1] \in Waiting /\ intent[id[1]].try = id[2]
\* How often an intent has taken effect; the number is also the version of its result.
Effects(i) == executed[<<i, 1>>] + executed[<<i, 2>>]

Presence(kind) == [type |-> kind]
Result(id, outcome, version) ==
  [type |-> "result", id |-> id, outcome |-> outcome, version |-> version]
Chunk(id, version, n) == [type |-> "chunk", id |-> id, version |-> version, n |-> n]

Fault(kind) ==
  /\ kind \in FaultKinds /\ faults < MaxFaults
  /\ faults' = faults + 1

ToSurface(frame) == IF surface.up THEN Append(mailbox, frame) ELSE mailbox
\* A publish while the relay is away reaches nobody.
ToRelay(id) ==
  IF session THEN Append(uplink, [id |-> id, claimed |-> (claim = "valid")]) ELSE uplink

Init ==
  /\ intent = [i \in Intents |-> [st |-> "idle", try |-> 1, result |-> 0]]
  /\ deadline = [i \in Intents |-> Suspended]
  /\ parts = [i \in Intents |-> NoParts]
  /\ resend = <<>>
  /\ claim = "valid"
  /\ surface = [up |-> TRUE, relayConnected |-> TRUE]
  /\ mailbox = <<>> /\ uplink = <<>> /\ session = TRUE
  /\ work = Idle
  /\ cache = [id \in Ids |-> Absent]
  /\ writer = NoWriter
  /\ executed = [id \in Ids |-> 0]
  /\ since = [id \in Ids |-> ReplayTTL]
  /\ faults = 0

-------------------------------------------------------------------------------
(* The surface: dispatching, and what ends a pending action *)

\* registerPendingAction and the first sendRemoteActionFrame of try n.
Send(i, n) ==
  /\ intent' = [intent EXCEPT ![i].st = "waiting", ![i].try = n]
  /\ deadline' = [deadline EXCEPT ![i] = ReplyTimeout]
  /\ uplink' = ToRelay(<<i, n>>)

\* dispatchOrRecover; its preflight has renewed a claim that is missing or expired.
Dispatch(i) ==
  /\ intent[i].st = "idle" /\ surface.up
  /\ Kind[i] = "claimed" => claim \in {"valid", "stale"}
  /\ Send(i, 1)
  /\ UNCHANGED <<parts, resend, claim, surface, mailbox, session, relayVars, history, faults>>

\* dispatchOrRecover's second attempt: a fresh claim, and makeActionId again.
RetryWithFreshClaim(i) ==
  /\ intent[i].st = "reclaiming" /\ surface.up /\ claim = "valid"
  /\ Send(i, 2)
  /\ UNCHANGED <<parts, resend, claim, surface, mailbox, session, relayVars, history, faults>>

\* ensureRemoteClaim rejected.
ReclaimFails(i) ==
  /\ intent[i].st = "reclaiming"
  /\ intent' = [intent EXCEPT ![i].st = "failed"]
  /\ UNCHANGED <<deadline, parts, resend, claim, surface, mailbox, uplink, session,
                 relayVars, history, faults>>

\* ensureRemoteClaim resolved: the challenge and claim round trips, as one step.
ClaimGranted ==
  /\ surface.up /\ session /\ claim # "valid"
  /\ claim' = "valid"
  /\ UNCHANGED <<intent, deadline, parts, resend, surface, mailbox, uplink, session,
                 relayVars, history, faults>>

\* SESSION_CLAIM_TTL_SECS is over; both ends can tell.
ClaimExpires ==
  /\ claim \in {"valid", "stale"} /\ Fault("expiry")
  /\ claim' = "expired"
  /\ uplink' = [n \in DOMAIN uplink |-> [uplink[n] EXCEPT !.claimed = FALSE]]
  /\ UNCHANGED <<intent, deadline, parts, resend, surface, mailbox, session, relayVars,
                 history>>

\* The pending entries of S leave the map, and their chunks with them.
Settle(S, st) ==
  /\ intent' = [i \in Intents |-> IF i \in S THEN [intent[i] EXCEPT !.st = st] ELSE intent[i]]
  /\ deadline' = [i \in Intents |-> IF i \in S THEN Suspended ELSE deadline[i]]
  /\ parts' = [i \in Intents |-> IF i \in S THEN NoParts ELSE parts[i]]

\* The timer of registerPendingAction or extendPendingActionDeadline fires.
Timeout(i) ==
  /\ i \in Waiting /\ deadline[i] = 0
  /\ Settle({i}, "failed")
  /\ UNCHANGED <<resend, claim, surface, mailbox, uplink, session, relayVars, history, faults>>

\* onBrokerDisconnect: rejectPendingActions, and whatever was on its way is lost.
SurfaceDisconnects ==
  /\ surface.up /\ Fault("surface")
  /\ Settle({i \in Intents : intent[i].st \in {"waiting", "reclaiming"}}, "failed")
  /\ surface' = [up |-> FALSE, relayConnected |-> FALSE]
  /\ resend' = <<>> /\ mailbox' = <<>>
  /\ UNCHANGED <<claim, uplink, session, relayVars, history>>

\* The next socket's Welcome: the claim belongs to the old peer id; recoverRemoteSession
\* gives it up at once if the relay is there to recover from.
SurfaceConnects ==
  /\ ~surface.up
  /\ surface' = [up |-> TRUE, relayConnected |-> session]
  /\ claim' = IF session THEN "none" ELSE IF claim = "valid" THEN "stale" ELSE claim
  /\ UNCHANGED <<intent, deadline, parts, resend, mailbox, uplink, session, relayVars,
                 history, faults>>

-------------------------------------------------------------------------------
(* The surface: frames from the broker *)

\* handleRemoteActionResult: a refused claim is given up, whoever was refused; if the
\* action is still pending it is settled, and a first try goes on to a second one.
ResultArrives(frame) ==
  LET i == frame.id[1]
      reclaims == frame.outcome = "refused" /\ frame.id[2] = 1
  IN /\ claim' = IF frame.outcome = "refused" THEN "none" ELSE claim
     /\ IF ~Pending(frame.id) THEN UNCHANGED <<intent, deadline, parts>>
        ELSE /\ intent' = [intent EXCEPT
                   ![i].st = IF frame.outcome = "ok" THEN "ok"
                             ELSE IF reclaims THEN "reclaiming" ELSE "failed",
                   ![i].result = frame.version]
             /\ deadline' = [deadline EXCEPT ![i] = Suspended]
             /\ parts' = [parts EXCEPT ![i] = NoParts]

\* A chunk is stored over one already held: handleRemoteActionResultChunk.
KeepsFirst(held, frame) == [held EXCEPT ![frame.n] = IF @ = 0 THEN frame.version ELSE @]
Holding(held, frame) == [held EXCEPT ![frame.n] = frame.version]

ChunkArrives(frame) ==
  LET i == frame.id[1]
      held == Holding(parts[i], frame)
  IN IF ~Pending(frame.id) THEN UNCHANGED <<intent, deadline, parts>>
     ELSE IF \A c \in 1..Chunks : held[c] # 0
     THEN /\ intent' = [intent EXCEPT ![i].st = "ok",
                ![i].result = IF \A c \in 1..Chunks : held[c] = held[1] THEN held[1] ELSE -1]
          /\ deadline' = [deadline EXCEPT ![i] = Suspended]
          /\ parts' = [parts EXCEPT ![i] = NoParts]
     ELSE /\ parts' = [parts EXCEPT ![i] = held]
          /\ deadline' = [deadline EXCEPT ![i] =
                            IF parts[i][frame.n] = 0 THEN ReplyTimeout ELSE @]
          /\ UNCHANGED intent

\* suspendPendingActionDeadlines.
SuspendDeadlines == deadline' = [i \in Intents |-> Suspended]

\* The ids resendPendingActions asks for again; a claim challenge is skipped.
AskedAgain == {<<i, intent[i].try>> : i \in {j \in Waiting : Kind[j] # "challenge"}}

\* The orders in which a walk through pendingActions may meet the ids of S, one for an
\* intent.
Orders(S) == UNION {Bijection(1..n, S) : n \in 0..Cardinality(Intents)}

\* recoverRemoteSession gives up a claim it may no longer use, or that belongs to a
\* socket it has not recovered yet, before resendPendingActions runs.
RelayJoined ==
  /\ surface' = [surface EXCEPT !.relayConnected = TRUE]
  /\ claim' \in IF claim = "expired" THEN {"none"} ELSE {claim, "none"}
  /\ \E order \in Orders(AskedAgain) : resend' = resend \o order

SurfaceReceives ==
  /\ mailbox # <<>>
  /\ mailbox' = Tail(mailbox)
  /\ LET frame == Head(mailbox)
     IN \/ /\ frame.type = "result"
           /\ ResultArrives(frame)
           /\ UNCHANGED <<resend, surface>>
        \/ /\ frame.type = "chunk"
           /\ ChunkArrives(frame)
           /\ UNCHANGED <<resend, claim, surface>>
        \/ /\ frame.type = "left"
           /\ SuspendDeadlines
           /\ surface' = [surface EXCEPT !.relayConnected = FALSE]
           /\ UNCHANGED <<intent, parts, resend, claim>>
        \/ /\ frame.type = "joined"
           /\ RelayJoined
           /\ UNCHANGED <<intent, deadline, parts>>
  /\ UNCHANGED <<uplink, session, relayVars, history, faults>>

\* extendPendingActionDeadline.
StaysSuspended(id) == deadline
Rearmed(id) == [deadline EXCEPT ![id[1]] = IF Pending(id) THEN ReplyTimeout ELSE @]

\* The next round of resendPendingActions' loop: the same id once more, whether or not
\* it is still pending; without the claim it needs, the action is rejected instead.
ResendNext ==
  /\ resend # <<>>
  /\ resend' = Tail(resend)
  /\ LET id == Head(resend)
         i == id[1]
     IN IF Kind[i] = "claimed" /\ claim = "none"
          THEN /\ Settle({i} \cap {j \in Waiting : intent[j].try = id[2]}, "failed")
               /\ UNCHANGED uplink
          ELSE /\ uplink' = ToRelay(id)
               /\ deadline' = Rearmed(id)
               /\ UNCHANGED <<intent, parts>>
  /\ UNCHANGED <<claim, surface, mailbox, session, relayVars, history, faults>>

-------------------------------------------------------------------------------
(* The relay: one action at a time *)

\* prune_remote_action_replays.
EarlyExpiry(entry) == entry # Absent /\ entry.age + 1 < ReplayTTL
Fresh(entry) == entry # Absent /\ entry.age < ReplayTTL
Pruned == [id \in Ids |-> IF Fresh(cache[id]) THEN cache[id] ELSE Absent]

\* trim_remote_action_replays: the oldest entries beyond the limit go, ties in any order.
Entries(c) == {id \in Ids : c[id] # Absent}
Trimmed(c) ==
  LET overflow == IF Cardinality(Entries(c)) > MaxEntries
                    THEN Cardinality(Entries(c)) - MaxEntries ELSE 0
      oldest == {S \in SUBSET Entries(c) :
                   /\ Cardinality(S) = overflow
                   /\ \A gone \in S, kept \in Entries(c) \ S : c[gone].age >= c[kept].age}
  IN {[id \in Ids |-> IF id \in S THEN Absent ELSE c[id]] : S \in oldest}

InFlight == [done |-> FALSE, version |-> 0, age |-> 0]
Completed(version) == [done |-> TRUE, version |-> version, age |-> 0]

\* The relay's session reads the next request; reserve_remote_action decides.
Receive ==
  /\ session /\ work = Idle /\ uplink # <<>>
  /\ uplink' = Tail(uplink)
  /\ LET id == Head(uplink).id
         entry == Pruned[id]
     IN IF Kind[id[1]] = "claimed" /\ ~Head(uplink).claimed
          THEN /\ writer' = [writer EXCEPT !.now = Append(@, Result(id, "refused", 0))]
               /\ UNCHANGED <<work, cache, since>>
        ELSE IF entry = Absent
          THEN /\ cache' = [Pruned EXCEPT ![id] = InFlight]
               /\ since' = [since EXCEPT ![id] = 0]
               /\ work' = [phase |-> "execute", id |-> id]
               /\ UNCHANGED writer
          ELSE /\ cache' = Pruned
               /\ work' = IF entry.done
                            THEN [phase |-> "publish", id |-> id, version |-> entry.version]
                            ELSE Idle
               /\ UNCHANGED <<writer, since>>
  /\ UNCHANGED <<surfaceVars, mailbox, session, executed, faults>>

\* execute_remote_action (or the claim outcomes): its effect on the session.
Execute ==
  /\ work.phase = "execute"
  /\ executed' = [executed EXCEPT ![work.id] = @ + 1]
  /\ work' = [phase |-> "store", id |-> work.id, version |-> Effects(work.id[1]) + 1]
  /\ UNCHANGED <<surfaceVars, mailbox, uplink, session, cache, writer, since, faults>>

\* store_remote_action_result.
ForgetsToStore ==
  /\ work.phase = "store"
  /\ work' = [work EXCEPT !.phase = "publish"]
  /\ UNCHANGED <<surfaceVars, mailbox, uplink, session, cache, writer, history, faults>>
Store ==
  /\ work.phase = "store"
  /\ cache' \in Trimmed([Pruned EXCEPT ![work.id] = Completed(work.version)])
  /\ since' = [since EXCEPT ![work.id] = 0]
  /\ work' = [work EXCEPT !.phase = "publish"]
  /\ UNCHANGED <<surfaceVars, mailbox, uplink, session, writer, executed, faults>>

\* Trains in the writer's channel: all it was given, but for a resident one, and the
\* first may not have become resident yet.
Backlog ==
  {Len(writer.trains) - n : n \in IF writer.trains = <<>> THEN {0}
                                  ELSE IF Head(writer.trains).next > 1 THEN {1} ELSE {0, 1}}

\* publish_..._remote_action_result: one frame, a chunk train, or the busy error.
PublishResult ==
  /\ work.phase = "publish"
  /\ LET now(outcome) == [writer EXCEPT !.now = Append(@, Result(work.id, outcome, work.version))]
         train == [id |-> work.id, version |-> work.version, next |-> 1]
     IN \/ work.id[1] \notin Large /\ writer' = now("ok")
        \/ /\ work.id[1] \in Large
           /\ \E waiting \in Backlog :
                writer' = IF waiting >= TrainQueue THEN now("busy")
                          ELSE [writer EXCEPT !.trains = Append(@, train)]
  /\ work' = Idle
  /\ UNCHANGED <<surfaceVars, mailbox, uplink, session, cache, history, faults>>

\* The writer task: a queued frame, or the next chunk of a train.
WriteNow ==
  /\ writer.now # <<>>
  /\ mailbox' = ToSurface(Head(writer.now))
  /\ writer' = [writer EXCEPT !.now = Tail(@)]
  /\ UNCHANGED <<surfaceVars, uplink, session, work, cache, history, faults>>

LastChunk(train) == train.next = Chunks

\* Trains go out one after the other, in the order they were handed over.
WriteChunk ==
  /\ writer.trains # <<>>
  /\ LET train == Head(writer.trains)
     IN /\ mailbox' = ToSurface(Chunk(train.id, train.version, train.next))
        /\ writer' = [writer EXCEPT !.trains =
                        IF LastChunk(train) THEN Tail(@)
                        ELSE [@ EXCEPT ![1].next = train.next + 1]]
  /\ UNCHANGED <<surfaceVars, uplink, session, work, cache, history, faults>>

-------------------------------------------------------------------------------
(* Sessions, restarts and time *)

\* What a session takes with it when it ends: its writer and its unread requests.  The
\* broker announces the departure, unless the relay's next session replaces this one.
SessionLost ==
  /\ session' = FALSE
  /\ writer' = NoWriter
  /\ uplink' = <<>>
  /\ mailbox' \in {mailbox, ToSurface(Presence("left"))}

SessionEnds ==
  /\ session /\ work = Idle /\ Fault("session")
  /\ SessionLost
  /\ UNCHANGED <<surfaceVars, work, cache, history>>

\* The process stops, with or without a session, and starts again: the cache and the
\* key that signed the surface's claim are gone.
Restart ==
  /\ Fault("restart")
  /\ SessionLost
  /\ work' = Idle
  /\ cache' = [id \in Ids |-> Absent]
  /\ since' = [id \in Ids |-> ReplayTTL]
  /\ claim' = IF claim = "valid" THEN "stale" ELSE claim
  /\ UNCHANGED <<intent, deadline, parts, resend, surface, executed>>

\* run_broker_loop's next session.
SessionStarts ==
  /\ ~session
  /\ session' = TRUE
  /\ mailbox' = ToSurface(Presence("joined"))
  /\ UNCHANGED <<surfaceVars, uplink, relayVars, history, faults>>

AtMost(n, limit) == IF n < limit THEN n ELSE limit

Tick ==
  /\ deadline' = [i \in Intents |-> IF deadline[i] > 0 THEN deadline[i] - 1 ELSE deadline[i]]
  /\ cache' = [id \in Ids |-> IF cache[id] = Absent THEN Absent
                             ELSE [cache[id] EXCEPT !.age = AtMost(@ + 1, ReplayTTL)]]
  /\ since' = [id \in Ids |-> AtMost(since[id] + 1, ReplayTTL)]
  /\ UNCHANGED <<intent, parts, resend, claim, surface, mailbox, uplink, session, work,
                 writer, executed, faults>>

Surface ==
  \/ \E i \in Intents :
       Dispatch(i) \/ RetryWithFreshClaim(i) \/ ReclaimFails(i) \/ Timeout(i)
  \/ ClaimGranted \/ SurfaceReceives \/ ResendNext

Relay == Receive \/ Execute \/ Store \/ PublishResult \/ WriteNow \/ WriteChunk

Next ==
  \/ Surface \/ Relay \/ Tick \/ SessionStarts
  \/ SessionEnds \/ Restart \/ ClaimExpires \/ SurfaceDisconnects \/ SurfaceConnects

\* Both event loops keep running, time passes, and run_broker_loop reconnects.
Fairness ==
  /\ WF_vars(Tick) /\ WF_vars(SessionStarts)
  /\ WF_vars(SurfaceReceives) /\ WF_vars(ResendNext)
  /\ \A i \in Intents : WF_vars(Timeout(i)) /\ WF_vars(ReclaimFails(i))

Spec == Init /\ [][Next]_vars /\ Fairness

-------------------------------------------------------------------------------
(* Properties *)

Frames ==
  {Presence("left"), Presence("joined")}
    \cup [type : {"result"}, id : Ids, outcome : {"ok", "busy", "refused"}, version : Nat]
    \cup [type : {"chunk"}, id : Ids, version : Nat, n : 1..Chunks]

\* Types of the dispatcher (actions.js), the handler and its replay cache
\* (remote_actions.rs) and the frames between them.
TypeOK ==
  /\ intent \in [Intents -> [st : {"idle", "waiting", "reclaiming", "ok", "failed"},
                             try : {1, 2}, result : Int]]
  /\ deadline \in [Intents -> Suspended..ReplyTimeout]
  /\ parts \in [Intents -> [1..Chunks -> Nat]]
  /\ resend \in Seq(Ids)
  /\ claim \in {"valid", "stale", "expired", "none"}
  /\ surface \in [up : BOOLEAN, relayConnected : BOOLEAN]
  /\ mailbox \in Seq(Frames)
  /\ uplink \in Seq([id : Ids, claimed : BOOLEAN])
  /\ session \in BOOLEAN
  /\ work \in {Idle} \cup [phase : {"execute"}, id : Ids]
                \cup [phase : {"store", "publish"}, id : Ids, version : Nat]
  /\ cache \in [Ids -> [done : BOOLEAN, version : Int, age : 0..ReplayTTL]]
  /\ writer \in [now : Seq(Frames), trains : Seq([id : Ids, version : Nat, next : 1..Chunks])]
  /\ executed \in [Ids -> Nat]
  /\ since \in [Ids -> 0..ReplayTTL]

\* An action id is executed again only if the replay cache had to forget it: its last
\* use is ReplayTTL old or from an earlier process, or MaxEntries other ids were used no
\* earlier than it.  Resends, replays and outages in between never cause a second run.
ExecutedAgainOnlyIfForgotten ==
  [][\A id \in Ids :
       (/\ work = Idle
        /\ work' # Idle
        /\ work'.phase = "execute" /\ work'.id = id
        /\ executed[id] > 0)
       => \/ since[id] = ReplayTTL
          \/ Cardinality({other \in Ids \ {id} : since[other] <= since[id]}) >= MaxEntries]_vars

\* A reservation never outlives its handler: reserve_remote_action answers InFlight, and
\* the handler stays silent, only while the original is running, so a resent action is
\* answered.
ReservedMeansRunning ==
  \A id \in Ids :
    (cache[id] # Absent /\ ~cache[id].done) => (work # Idle /\ work.id = id)

\* What a surface resolves an action with is one result of its own: chunks of a reply cut
\* off by an outage never mix with the chunks of the reply to the resend, even if the
\* relay restarted and executed the action again.
ResolvedFromOneResult ==
  \A i \in Intents :
    intent[i].st = "ok" => intent[i].result \in 1..Effects(i)

\* A pending action without a deadline that nothing is going to resend.
Stranded(i) ==
  /\ i \in Waiting
  /\ deadline[i] = Suspended
  /\ surface.relayConnected
  /\ \A n \in DOMAIN resend : resend[n] # <<i, intent[i].try>>

\* Every dispatched action is settled: by its result, by an error, by its deadline, or by
\* the loss of the surface's own socket.
EveryActionSettles ==
  \A i \in Intents : (Kind[i] # "challenge" /\ i \in Waiting) ~> i \notin Waiting

\* What remote-runtime.js says of a relay that joins again: "anything still unanswered is
\* asked again under its ORIGINAL action id".
AnythingUnansweredIsAskedAgain == \A i \in Intents : ~Stranded(i)
===============================================================================
