------------------------- MODULE RemoteActionsProofs -------------------------
(***************************************************************************)
(* TLAPS proofs about RemoteActions, for any intents, chunk counts, time   *)
(* limits, cache sizes and faults.                                         *)
(*                                                                         *)
(* The replay cache is related to the history of uses by Accounts: an      *)
(* entry is as old as the last use of its id, and an id without an entry   *)
(* was last used ReplayTTL ago or no later than MaxEntries other ids.      *)
(*                                                                         *)
(* That no action is resolved with parts of two results needs ResultInv:   *)
(* whatever names an id names one that was sent (Known), whatever answers  *)
(* has the result of an execution (Outcomes), and the chunks for a pending *)
(* action are in a row from the ones the page holds, through the mailbox,  *)
(* to the next one the writer is going to write (InARow).                  *)
(***************************************************************************)
EXTENDS RemoteActions, TLAPS

Statuses == {"idle", "waiting", "reclaiming", "ok", "failed"}
IntentRecords == [st : Statuses, try : {1, 2}, result : Int]
Deadlines == Suspended..ReplyTimeout
Held == [1..Chunks -> Nat]
Requests == [id : Ids, claimed : BOOLEAN]
Caches == [Ids -> [done : BOOLEAN, version : Int, age : 0..ReplayTTL]]
Works ==
  {Idle} \cup [phase : {"execute"}, id : Ids]
    \cup [phase : {"store", "publish"}, id : Ids, version : Nat]
OneTrain == [id : Ids, version : Nat, next : 1..Chunks]
TrainsOf == Seq(OneTrain)

SurfaceTypes ==
  /\ intent \in [Intents -> IntentRecords]
  /\ deadline \in [Intents -> Deadlines]
  /\ parts \in [Intents -> Held]
  /\ resend \in Seq(Ids)
  /\ claim \in {"valid", "stale", "expired", "none"}
  /\ surface \in [up : BOOLEAN, relayConnected : BOOLEAN]

LinkTypes ==
  /\ mailbox \in Seq(Frames)
  /\ uplink \in Seq(Requests)
  /\ session \in BOOLEAN
  /\ writer \in [now : Seq(Frames), trains : TrainsOf]

HandlerTypes ==
  /\ work \in Works
  /\ cache \in Caches
  /\ executed \in [Ids -> Nat]
  /\ since \in [Ids -> 0..ReplayTTL]

\* The ids used no earlier than an id, and what follows for one the cache does not hold.
NoEarlier(s, id) == {other \in Ids \ {id} : s[other] <= s[id]}
Forgettable(s, id) == s[id] = ReplayTTL \/ Cardinality(NoEarlier(s, id)) >= MaxEntries

\* Cache c is what the history s of uses says it has to be.
Accounts(c, s) ==
  \A id \in Ids :
    /\ c[id] # Absent => c[id].version \in Nat /\ c[id].age = s[id]
    /\ c[id] = Absent => Forgettable(s, id)

\* The type invariant in three parts, each of which most steps leave alone.
LEMMA TypeParts == TypeOK <=> SurfaceTypes /\ LinkTypes /\ HandlerTypes
BY Zenon DEF TypeOK, SurfaceTypes, LinkTypes, HandlerTypes, Statuses, IntentRecords, Deadlines,
             Held, Requests, Caches, Works, OneTrain, TrainsOf

\* The ids of a set in some order are a sequence over that set.
LEMMA ListedSet ==
  ASSUME NEW S, NEW order \in Orders(S)
  PROVE  order \in Seq(S)
<1>1. PICK n \in 0..Cardinality(Intents) : order \in Bijection(1..n, S)
  BY Zenon DEF Orders
<1>2. order \in [1..n -> S] /\ n \in Nat
  BY <1>1, RemoteActionsAssumption DEF Bijection, Injection
<1> QED  BY <1>2

\* The frames of the relay and the broker, and what is read from one.
LEMMA FrameTypes ==
  /\ Presence("left") \in Frames /\ Presence("joined") \in Frames
  /\ \A id \in Ids, o \in {"ok", "busy", "refused"}, v \in Nat : Result(id, o, v) \in Frames
  /\ \A id \in Ids, v \in Nat, n \in 1..Chunks : Chunk(id, v, n) \in Frames
BY DEF Frames, Presence, Result, Chunk

\* The id, version and number the surface reads from a result or a chunk have their types.
LEMMA FrameFields ==
  ASSUME NEW frame \in Frames
  PROVE  /\ frame.type = "result" => frame.id \in Ids /\ frame.version \in Nat
         /\ frame.type = "chunk" => frame.id \in Ids /\ frame.version \in Nat /\ frame.n \in 1..Chunks
BY DEF Frames, Presence

\* An action id is an intent and the number of its try.
LEMMA IdParts == \A id \in Ids : id[1] \in Intents /\ id[2] \in {1, 2}
BY DEF Ids

\* A frame the relay publishes leaves the surface's mailbox a sequence of frames.
LEMMA ToSurfaceType ==
  ASSUME LinkTypes, NEW frame \in Frames
  PROVE  ToSurface(frame) \in Seq(Frames)
BY DEF ToSurface, LinkTypes

\* A request the surface publishes leaves the relay's uplink a sequence of requests.
LEMMA ToRelayType ==
  ASSUME LinkTypes, NEW id \in Ids
  PROVE  ToRelay(id) \in Seq(Requests)
<1>1. [id |-> id, claimed |-> (claim = "valid")] \in Requests
  BY DEF Requests
<1> QED  BY <1>1 DEF ToRelay, LinkTypes

\* Timers, chunks and results stay in their sets.
LEMMA SurfaceValues ==
  /\ Suspended \in Deadlines /\ ReplyTimeout \in Deadlines
  /\ NoParts \in Held
  /\ \A d \in Deadlines : d > 0 => d - 1 \in Deadlines
BY SMTT(30), RemoteActionsAssumption DEF Suspended, Deadlines, NoParts, Held

\* What the dispatcher writes to an intent (status, try, result) keeps it an intent record.
LEMMA IntentUpdates ==
  ASSUME NEW old \in IntentRecords, NEW st \in Statuses
  PROVE  /\ [old EXCEPT !.st = st] \in IntentRecords
         /\ \A n \in {1, 2} : [old EXCEPT !.st = st, !.try = n] \in IntentRecords
         /\ \A v \in Int : [old EXCEPT !.st = st, !.result = v] \in IntentRecords
BY Zenon DEF IntentRecords

\* The types of the surface's state are preserved.
LEMMA SurfaceTypesStep ==
  ASSUME TypeOK, [Next]_vars
  PROVE  SurfaceTypes'
<1> USE RemoteActionsAssumption
<1>0. SurfaceTypes /\ LinkTypes
  BY TypeParts
<1>1. CASE UNCHANGED surfaceVars
  BY <1>0, <1>1 DEF surfaceVars, SurfaceTypes
<1>2. ASSUME NEW i \in Intents, NEW n \in {1, 2}, Send(i, n), UNCHANGED <<parts, resend, claim, surface>>
      PROVE  SurfaceTypes'
  <2>1. intent' = [intent EXCEPT ![i] = [intent[i] EXCEPT !.st = "waiting", !.try = n]]
    BY Zenon, <1>2 DEF Send
  <2>2. intent[i] \in IntentRecords /\ "waiting" \in Statuses
    BY SMTT(30), <1>0 DEF SurfaceTypes, Statuses
  <2>3. intent' \in [Intents -> IntentRecords]
    BY Zenon, <1>0, <2>1, <2>2, IntentUpdates DEF SurfaceTypes
  <2>4. deadline' \in [Intents -> Deadlines]
    BY <1>0, <1>2, SurfaceValues DEF Send, SurfaceTypes
  <2> QED  BY SMTT(30), <1>0, <1>2, <2>3, <2>4 DEF SurfaceTypes
<1>3. ASSUME NEW i \in Intents, ReclaimFails(i) PROVE SurfaceTypes'
  <2>1. intent' = [intent EXCEPT ![i] = [intent[i] EXCEPT !.st = "failed"]]
    BY SMTT(30), <1>3 DEF ReclaimFails
  <2>2. intent[i] \in IntentRecords /\ "failed" \in Statuses
    BY SMTT(30), <1>0 DEF SurfaceTypes, Statuses
  <2>3. intent' \in [Intents -> IntentRecords]
    BY ZenonT(30), <1>0, <2>1, <2>2, IntentUpdates DEF SurfaceTypes
  <2> QED  BY SMTT(30), <1>0, <1>3, <2>3 DEF ReclaimFails, SurfaceTypes
<1>4. ASSUME NEW S, Settle(S, "failed")
      PROVE  /\ intent' \in [Intents -> IntentRecords]
             /\ deadline' \in [Intents -> Deadlines]
             /\ parts' \in [Intents -> Held]
  <2>1. \A i \in Intents : [intent[i] EXCEPT !.st = "failed"] \in IntentRecords
    <3>1. "failed" \in Statuses
      BY DEF Statuses
    <3> QED  BY Zenon, <1>0, <3>1, IntentUpdates DEF SurfaceTypes
  <2>2. intent' \in [Intents -> IntentRecords]
    BY <1>0, <1>4, <2>1 DEF Settle, SurfaceTypes
  <2>3. deadline' \in [Intents -> Deadlines] /\ parts' \in [Intents -> Held]
    BY <1>0, <1>4, SurfaceValues DEF Settle, SurfaceTypes
  <2> QED  BY SMTT(30), <2>2, <2>3
<1>5. ASSUME NEW i \in Intents, Timeout(i) PROVE SurfaceTypes'
  BY <1>0, <1>4, <1>5 DEF Timeout, SurfaceTypes
<1>6. CASE ClaimGranted \/ ClaimExpires
  BY <1>0, <1>6 DEF ClaimGranted, ClaimExpires, SurfaceTypes
<1>7. CASE SurfaceDisconnects
  BY SMTT(30), <1>0, <1>4, <1>7 DEF SurfaceDisconnects, SurfaceTypes
<1>8. CASE SurfaceConnects
  BY <1>0, <1>8 DEF SurfaceConnects, SurfaceTypes, LinkTypes
<1>9. CASE SurfaceReceives
  <2> DEFINE frame == Head(mailbox)
  <2>1. frame \in Frames
    BY <1>0, <1>9 DEF SurfaceReceives, LinkTypes
  <2>2. CASE frame.type = "result" /\ ResultArrives(frame) /\ UNCHANGED <<resend, surface>>
    <3>1. frame.id[1] \in Intents /\ frame.version \in Nat
      BY <2>1, <2>2, FrameFields, IdParts
    <3> DEFINE i == frame.id[1]
    <3>2. CASE ~Pending(frame.id)
      BY SMTT(30), <1>0, <2>2, <3>2 DEF ResultArrives, SurfaceTypes
    <3>3. CASE Pending(frame.id)
      <4>1. PICK st \in Statuses :
              intent' = [intent EXCEPT ![i] = [intent[i] EXCEPT !.st = st, !.result = frame.version]]
        <5> DEFINE reclaims == frame.outcome = "refused" /\ frame.id[2] = 1
                   st == IF frame.outcome = "ok" THEN "ok" ELSE IF reclaims THEN "reclaiming" ELSE "failed"
        <5>1. intent' = [intent EXCEPT ![i] = [intent[i] EXCEPT !.st = st, !.result = frame.version]]
          BY ZenonT(30), <2>2, <3>3 DEF ResultArrives
        <5>2. st \in Statuses
          BY SMTT(30) DEF Statuses
        <5> QED  BY ZenonT(30), <5>1, <5>2
      <4>2. intent[i] \in IntentRecords /\ frame.version \in Int
        BY SMTT(30), <1>0, <3>1 DEF SurfaceTypes
      <4>3. intent' \in [Intents -> IntentRecords]
        BY ZenonT(30), <1>0, <4>1, <4>2, IntentUpdates DEF SurfaceTypes
      <4>4. deadline' \in [Intents -> Deadlines] /\ parts' \in [Intents -> Held]
        <5>1. /\ deadline' = [deadline EXCEPT ![i] = Suspended]
              /\ parts' = [parts EXCEPT ![i] = NoParts]
          BY <2>2, <3>3, Zenon DEF ResultArrives
        <5> QED  BY <1>0, <3>1, <5>1, SurfaceValues DEF SurfaceTypes
      <4>5. claim' \in {"valid", "stale", "expired", "none"}
        BY <1>0, <2>2, <3>3 DEF ResultArrives, SurfaceTypes
      <4> QED  BY SMTT(30), <1>0, <2>2, <4>3, <4>4, <4>5 DEF SurfaceTypes
    <3> QED  BY <3>2, <3>3
  <2>3. CASE frame.type = "chunk" /\ ChunkArrives(frame) /\ UNCHANGED <<resend, claim, surface>>
    <3>1. frame.id[1] \in Intents /\ frame.version \in Nat /\ frame.n \in 1..Chunks
      BY SMTT(30), <2>1, <2>3, FrameFields, IdParts
    <3> DEFINE i == frame.id[1]
               held == Holding(parts[i], frame)
    <3>2. held \in Held
      BY <1>0, <3>1 DEF Holding, SurfaceTypes, Held
    <3>3. held[1] \in Nat
      BY <3>2 DEF Held
    <3>4. CASE ~Pending(frame.id)
      BY <1>0, <2>3, <3>4 DEF ChunkArrives, SurfaceTypes
    <3>5. CASE Pending(frame.id) /\ \A c \in 1..Chunks : held[c] # 0
      <4>1. PICK v \in Int :
              intent' = [intent EXCEPT ![i] = [intent[i] EXCEPT !.st = "ok", !.result = v]]
        <5>1. (IF \A c \in 1..Chunks : held[c] = held[1] THEN held[1] ELSE -1) \in Int
          BY SMTT(30), <3>3
        <5>2. intent' = [intent EXCEPT ![i] = [intent[i] EXCEPT !.st = "ok", !.result =
                           IF \A c \in 1..Chunks : held[c] = held[1] THEN held[1] ELSE -1]]
          BY ZenonT(30), <2>3, <3>5 DEF ChunkArrives
        <5> QED  BY ZenonT(30), <5>1, <5>2
      <4>2. intent[i] \in IntentRecords /\ "ok" \in Statuses
        BY SMTT(30), <1>0, <3>1 DEF SurfaceTypes, Statuses
      <4>3. intent' \in [Intents -> IntentRecords]
        BY ZenonT(30), <1>0, <4>1, <4>2, IntentUpdates DEF SurfaceTypes
      <4>4. deadline' \in [Intents -> Deadlines] /\ parts' \in [Intents -> Held]
        <5>1. /\ deadline' = [deadline EXCEPT ![i] = Suspended]
              /\ parts' = [parts EXCEPT ![i] = NoParts]
          BY ZenonT(30), <2>3, <3>5 DEF ChunkArrives
        <5> QED  BY SMTT(30), <1>0, <3>1, <5>1, SurfaceValues DEF SurfaceTypes
      <4> QED  BY SMTT(30), <1>0, <2>3, <4>3, <4>4 DEF SurfaceTypes
    <3>6. CASE Pending(frame.id) /\ ~\A c \in 1..Chunks : held[c] # 0
      <4>1. parts' = [parts EXCEPT ![i] = held] /\ UNCHANGED intent
            /\ \/ deadline' = [deadline EXCEPT ![i] = ReplyTimeout]
               \/ deadline' = [deadline EXCEPT ![i] = deadline[i]]
        BY <2>3, <3>6 DEF ChunkArrives
      <4>2. deadline \in [Intents -> Deadlines] /\ parts \in [Intents -> Held]
        BY <1>0, Zenon DEF SurfaceTypes
      <4>3. deadline' \in [Intents -> Deadlines]
        BY <3>1, <4>1, <4>2, SurfaceValues
      <4>4. parts' \in [Intents -> Held]
        BY <3>1, <3>2, <4>1, <4>2
      <4> QED  BY <1>0, <2>3, <4>1, <4>3, <4>4, Zenon DEF SurfaceTypes
    <3> QED  BY <3>4, <3>5, <3>6
  <2>4. CASE SuspendDeadlines /\ surface' = [surface EXCEPT !.relayConnected = FALSE]
             /\ UNCHANGED <<intent, parts, resend, claim>>
    <3>1. surface' \in [up : BOOLEAN, relayConnected : BOOLEAN]
      BY Zenon, <1>0, <2>4 DEF SurfaceTypes
    <3>2. deadline' \in [Intents -> Deadlines]
      BY <2>4, SurfaceValues DEF SuspendDeadlines
    <3> QED  BY <1>0, <2>4, <3>1, <3>2 DEF SurfaceTypes
  <2>5. CASE RelayJoined /\ UNCHANGED <<intent, deadline, parts>>
    <3>1. AskedAgain \subseteq Ids
      <4>1. \A i \in Intents : intent[i].try \in {1, 2}
        BY <1>0 DEF SurfaceTypes, IntentRecords
      <4> QED  BY <4>1 DEF AskedAgain, Waiting, Ids
    <3>3. PICK order \in Orders(AskedAgain) : resend' = resend \o order
      BY Zenon, <2>5 DEF RelayJoined
    <3>4. resend' \in Seq(Ids)
      <4>1. order \in Seq(AskedAgain)
        BY ListedSet, Zenon
      <4>2. order \in Seq(Ids)
        BY <3>1, <4>1, SMT
      <4> QED  BY <1>0, <3>3, <4>2 DEF SurfaceTypes
    <3>5. surface' \in [up : BOOLEAN, relayConnected : BOOLEAN]
      BY Zenon, <1>0, <2>5 DEF RelayJoined, SurfaceTypes
    <3>6. claim' \in {"valid", "stale", "expired", "none"}
      BY <1>0, <2>5 DEF RelayJoined, SurfaceTypes
    <3> QED  BY <1>0, <2>5, <3>4, <3>5, <3>6 DEF SurfaceTypes
  <2> QED  BY <1>9, <2>2, <2>3, <2>4, <2>5 DEF SurfaceReceives
<1>10. CASE ResendNext
  <2> DEFINE id == Head(resend)
  <2>1. id \in Ids /\ id[1] \in Intents /\ resend' \in Seq(Ids)
    BY <1>0, <1>10, IdParts DEF ResendNext, SurfaceTypes
  <2>2. CASE Settle({id[1]} \cap {j \in Waiting : intent[j].try = id[2]}, "failed")
    BY <1>0, <1>4, <1>10, <2>1, <2>2 DEF ResendNext, SurfaceTypes
  <2>3. CASE deadline' = Rearmed(id) /\ UNCHANGED <<intent, parts>>
    <3>1. \/ deadline' = [deadline EXCEPT ![id[1]] = ReplyTimeout]
          \/ deadline' = [deadline EXCEPT ![id[1]] = deadline[id[1]]]
      BY Zenon, <2>3 DEF Rearmed
    <3>2. deadline' \in [Intents -> Deadlines]
      BY <1>0, <2>1, <3>1, SurfaceValues DEF SurfaceTypes
    <3> QED  BY <1>0, <1>10, <2>1, <2>3, <3>2 DEF ResendNext, SurfaceTypes
  <2> QED  BY <1>10, <2>2, <2>3 DEF ResendNext
<1>11. CASE Restart
  BY <1>0, <1>11 DEF Restart, SurfaceTypes
<1>12. CASE Tick
  <2>1. deadline' \in [Intents -> Deadlines]
    BY SMTT(30), <1>0, <1>12, SurfaceValues DEF Tick, SurfaceTypes
  <2> QED  BY SMTT(30), <1>0, <1>12, <2>1 DEF Tick, SurfaceTypes
<1>13. CASE Relay \/ SessionEnds \/ SessionStarts \/ UNCHANGED vars
  BY SMTT(30), <1>1, <1>13 DEF Relay, Receive, Execute, Store, PublishResult, WriteNow,
                               WriteChunk, SessionEnds, SessionStarts, vars
<1>14. ASSUME NEW i \in Intents, Dispatch(i) \/ RetryWithFreshClaim(i) PROVE SurfaceTypes'
  BY <1>2, <1>14 DEF Dispatch, RetryWithFreshClaim
<1> QED
  BY SMTT(30), <1>3, <1>5, <1>6, <1>7, <1>8, <1>9, <1>10, <1>11, <1>12, <1>13, <1>14
     DEF Next, Surface

\* The types of the frames and requests under way are preserved.
LEMMA LinkTypesStep ==
  ASSUME TypeOK, [Next]_vars
  PROVE  LinkTypes'
<1> USE RemoteActionsAssumption
<1>0. SurfaceTypes /\ LinkTypes /\ HandlerTypes
  BY TypeParts
<1>1. CASE UNCHANGED <<mailbox, uplink, session, writer>>
  BY <1>0, <1>1 DEF LinkTypes
<1>2. ASSUME NEW i \in Intents, Dispatch(i) \/ RetryWithFreshClaim(i) PROVE LinkTypes'
  <2>1. PICK n \in {1, 2} : uplink' = ToRelay(<<i, n>>) /\ UNCHANGED <<mailbox, session, writer>>
    BY <1>2 DEF Dispatch, RetryWithFreshClaim, Send, relayVars
  <2>2. <<i, n>> \in Ids
    BY DEF Ids
  <2> QED  BY SMTT(30), <1>0, <2>1, <2>2, ToRelayType DEF LinkTypes
<1>3. CASE ResendNext
  <2>1. Head(resend) \in Ids
    BY <1>0, <1>3 DEF ResendNext, SurfaceTypes
  <2>2. uplink' \in Seq(Requests)
    BY <1>0, <1>3, <2>1, ToRelayType DEF ResendNext, LinkTypes
  <2> QED  BY SMTT(30), <1>0, <1>3, <2>2 DEF ResendNext, LinkTypes, relayVars
<1>4. CASE SurfaceReceives
  BY SMTT(30), <1>0, <1>4 DEF SurfaceReceives, LinkTypes, relayVars
<1>5. CASE SurfaceDisconnects
  BY <1>0, <1>5 DEF SurfaceDisconnects, LinkTypes, relayVars
<1>6. CASE ClaimExpires
  <2>1. \A n \in DOMAIN uplink : [uplink[n] EXCEPT !.claimed = FALSE] \in Requests
    <3>1. \A n \in DOMAIN uplink : uplink[n] \in Requests
      BY <1>0 DEF LinkTypes
    <3>2. \A request \in Requests : [request EXCEPT !.claimed = FALSE] \in Requests
      BY Zenon DEF Requests
    <3> QED  BY <3>1, <3>2
  <2>2. uplink' \in Seq(Requests)
    <3>1. uplink' = [n \in 1..Len(uplink) |-> [uplink[n] EXCEPT !.claimed = FALSE]]
      BY <1>0, <1>6 DEF ClaimExpires, LinkTypes
    <3>2. \A n \in 1..Len(uplink) : [uplink[n] EXCEPT !.claimed = FALSE] \in Requests
      BY <1>0, <2>1 DEF LinkTypes
    <3>3. Len(uplink) \in Nat
      BY <1>0 DEF LinkTypes
    <3> QED  BY <3>1, <3>2, <3>3
  <2> QED  BY <1>0, <1>6, <2>2 DEF ClaimExpires, LinkTypes, relayVars
<1>7. CASE Receive
  <2>1. Head(uplink) \in Requests /\ uplink' \in Seq(Requests)
    BY <1>0, <1>7 DEF Receive, LinkTypes
  <2>2. Result(Head(uplink).id, "refused", 0) \in Frames
    BY <2>1, FrameTypes DEF Requests
  <2>3. writer' \in [now : Seq(Frames), trains : TrainsOf]
    <3>1. \/ writer' = [writer EXCEPT !.now = Append(writer.now, Result(Head(uplink).id, "refused", 0))]
          \/ writer' = writer
      BY <1>7 DEF Receive
    <3>2. Append(writer.now, Result(Head(uplink).id, "refused", 0)) \in Seq(Frames)
      BY <1>0, <2>2 DEF LinkTypes
    <3> QED  BY Zenon, <1>0, <3>1, <3>2 DEF LinkTypes
  <2> QED  BY <1>0, <1>7, <2>1, <2>3 DEF Receive, LinkTypes
<1>8. CASE PublishResult
  <2>1. work.id \in Ids /\ work.version \in Nat
    BY <1>0, <1>8 DEF PublishResult, HandlerTypes, Works, Idle
  <2>2. PICK w : /\ w \in [now : Seq(Frames), trains : TrainsOf]
                 /\ writer' = w
    <3> DEFINE now(outcome) ==
                 [writer EXCEPT !.now = Append(writer.now, Result(work.id, outcome, work.version))]
               new == [id |-> work.id, version |-> work.version, next |-> 1]
    <3>1. \A outcome \in {"ok", "busy"} : now(outcome) \in [now : Seq(Frames), trains : TrainsOf]
      <4> TAKE outcome \in {"ok", "busy"}
      <4>1. Append(writer.now, Result(work.id, outcome, work.version)) \in Seq(Frames)
        <5>1. Result(work.id, outcome, work.version) \in Frames
          BY <2>1, FrameTypes, Zenon
        <5>2. writer.now \in Seq(Frames)
          BY <1>0 DEF LinkTypes
        <5> QED  BY <5>1, <5>2
      <4> QED  BY Zenon, <1>0, <4>1 DEF LinkTypes
    <3>2. [writer EXCEPT !.trains = Append(writer.trains, new)] \in [now : Seq(Frames), trains : TrainsOf]
      <4>1. new \in OneTrain
        BY <2>1 DEF OneTrain
      <4>2. Append(writer.trains, new) \in TrainsOf
        BY <1>0, <4>1 DEF LinkTypes, TrainsOf
      <4> QED  BY Zenon, <1>0, <4>2 DEF LinkTypes
    <3>3. \/ writer' = now("ok") \/ writer' = now("busy")
          \/ writer' = [writer EXCEPT !.trains = Append(writer.trains, new)]
      BY SMTT(30), <1>8 DEF PublishResult
    <3> QED  BY Zenon, <3>1, <3>2, <3>3
  <2> QED  BY <1>0, <1>8, <2>2 DEF PublishResult, LinkTypes, surfaceVars
<1>9. CASE WriteNow
  <2>1. Head(writer.now) \in Frames /\ Tail(writer.now) \in Seq(Frames)
    BY <1>0, <1>9 DEF WriteNow, LinkTypes
  <2>2. writer' \in [now : Seq(Frames), trains : TrainsOf]
    BY Zenon, <1>0, <1>9, <2>1 DEF WriteNow, LinkTypes
  <2> QED  BY SMTT(30), <1>0, <1>9, <2>1, <2>2, ToSurfaceType DEF WriteNow, LinkTypes
<1>10. CASE WriteChunk
  <2> DEFINE train == Head(writer.trains)
  <2>1. /\ mailbox' = ToSurface(Chunk(train.id, train.version, train.next))
        /\ writer' = [writer EXCEPT !.trains =
                        IF LastChunk(train) THEN Tail(writer.trains)
                        ELSE [writer.trains EXCEPT ![1].next = train.next + 1]]
        /\ UNCHANGED <<uplink, session>>
    BY <1>10 DEF WriteChunk
  <2>2. writer.trains \in Seq(OneTrain) /\ 1 \in 1..Len(writer.trains) /\ train \in OneTrain
    <3>1. writer.trains \in Seq(OneTrain)
      BY <1>0 DEF LinkTypes, TrainsOf
    <3>2. writer.trains # <<>>
      BY <1>10 DEF WriteChunk
    <3> QED  BY <3>1, <3>2
  <2>3. Tail(writer.trains) \in Seq(OneTrain) /\ train = writer.trains[1]
    BY <2>2
  <2>3a. mailbox' \in Seq(Frames)
    <3>1. Chunk(train.id, train.version, train.next) \in Frames
      BY <2>2, FrameTypes DEF OneTrain
    <3> QED  BY <1>0, <2>1, <3>1, ToSurfaceType
  <2>4. CASE LastChunk(train)
    <3>1. writer' \in [now : Seq(Frames), trains : TrainsOf]
      BY Zenon, <1>0, <2>1, <2>3, <2>4 DEF LinkTypes, TrainsOf
    <3> QED  BY <1>0, <2>1, <2>3a, <3>1 DEF LinkTypes
  <2>5. CASE ~LastChunk(train)
    <3>1. [train EXCEPT !.next = train.next + 1] \in OneTrain
      <4>1. train.next \in 1..Chunks /\ train.next # Chunks
        BY <2>2, <2>5 DEF LastChunk, OneTrain
      <4>2. train.next + 1 \in 1..Chunks
        BY <4>1
      <4> QED  BY Zenon, <2>2, <4>2 DEF OneTrain
    <3>2. [writer.trains EXCEPT ![1].next = train.next + 1] \in Seq(OneTrain)
      <4>1. [writer.trains EXCEPT ![1].next = train.next + 1]
              = [writer.trains EXCEPT ![1] = [train EXCEPT !.next = train.next + 1]]
        BY <2>3
      <4> QED  BY <2>2, <3>1, <4>1
    <3>3. writer' \in [now : Seq(Frames), trains : TrainsOf]
      BY Zenon, <1>0, <2>1, <2>5, <3>2 DEF LinkTypes, TrainsOf
    <3> QED  BY <1>0, <2>1, <2>3a, <3>3 DEF LinkTypes
  <2> QED  BY <2>4, <2>5
<1>11. ASSUME SessionLost PROVE LinkTypes'
  <2>1. NoWriter \in [now : Seq(Frames), trains : TrainsOf]
    BY DEF NoWriter, TrainsOf
  <2>2. mailbox' \in Seq(Frames)
    <3>1. mailbox' = mailbox \/ mailbox' = ToSurface(Presence("left"))
      BY <1>11 DEF SessionLost
    <3>2. ToSurface(Presence("left")) \in Seq(Frames)
      BY <1>0, ToSurfaceType, FrameTypes
    <3> QED  BY <1>0, <3>1, <3>2 DEF LinkTypes
  <2>3. uplink' \in Seq(Requests)
    BY <1>11 DEF SessionLost
  <2>5. session' \in BOOLEAN
    BY Zenon, <1>11 DEF SessionLost
  <2>4. writer' \in [now : Seq(Frames), trains : TrainsOf]
    BY <1>11, <2>1 DEF SessionLost
  <2> QED  BY <2>2, <2>3, <2>4, <2>5 DEF LinkTypes
<1>12. CASE SessionStarts
  BY <1>0, <1>12, ToSurfaceType, FrameTypes DEF SessionStarts, LinkTypes, relayVars
<1>13. ASSUME NEW i \in Intents, ReclaimFails(i) \/ Timeout(i) PROVE LinkTypes'
  BY <1>1, <1>13 DEF ReclaimFails, Timeout, relayVars
<1>14. CASE ClaimGranted \/ SurfaceConnects \/ Execute \/ Store \/ Tick \/ UNCHANGED vars
  BY <1>1, <1>14 DEF ClaimGranted, SurfaceConnects, Execute, Store, Tick, vars, relayVars
<1> QED
  BY SMTT(30), <1>2, <1>3, <1>4, <1>5, <1>6, <1>7, <1>8, <1>9, <1>10, <1>11, <1>12, <1>13, <1>14
     DEF Next, Surface, Relay, SessionEnds, Restart

\* prune_remote_action_replays keeps or drops entries; a reservation and a result are
\* entries.
LEMMA CacheUpdates ==
  ASSUME HandlerTypes
  PROVE  /\ Pruned \in Caches
         /\ [id \in Ids |-> Absent] \in Caches
         /\ \A c \in Caches, id \in Ids : [c EXCEPT ![id] = InFlight] \in Caches
         /\ \A c \in Caches, id \in Ids, v \in Nat : [c EXCEPT ![id] = Completed(v)] \in Caches
         /\ \A c \in Caches : Trimmed(c) \subseteq Caches
<1> DEFINE Entry == [done : BOOLEAN, version : Int, age : 0..ReplayTTL]
<1>1. Absent \in Entry /\ InFlight \in Entry /\ \A v \in Nat : Completed(v) \in Entry
  BY RemoteActionsAssumption DEF Absent, InFlight, Completed
<1>2. Caches = [Ids -> Entry]
  BY DEF Caches
<1> HIDE DEF Entry
<1>3. Pruned \in Caches
  BY SMTT(30), <1>1, <1>2 DEF HandlerTypes, Pruned
<1>4. \A c \in Caches : Trimmed(c) \subseteq Caches
  BY SMTT(30), <1>1, <1>2 DEF Trimmed
<1> QED  BY <1>1, <1>2, <1>3, <1>4

\* The types of the handler, the replay cache and the history are preserved.
LEMMA HandlerTypesStep ==
  ASSUME TypeOK, Accounts(cache, since), [Next]_vars
  PROVE  HandlerTypes'
<1> USE RemoteActionsAssumption
<1>0. LinkTypes /\ HandlerTypes
  BY SMTT(30), TypeParts
<1>1. CASE UNCHANGED <<work, cache, executed, since>>
  BY SMTT(30), <1>0, <1>1 DEF HandlerTypes
<1>2. CASE Receive
  <2> DEFINE id == Head(uplink).id
  <2>1. id \in Ids
    <3>1. Head(uplink) \in Requests
      BY SMTT(30), <1>0, <1>2 DEF Receive, LinkTypes
    <3> QED  BY SMTT(30), <3>1 DEF Requests
  <2>2. cache' \in Caches
    <3>1. cache' = cache \/ cache' = Pruned \/ cache' = [Pruned EXCEPT ![id] = InFlight]
      BY Zenon, <1>2 DEF Receive
    <3>2. cache \in Caches /\ Pruned \in Caches /\ [Pruned EXCEPT ![id] = InFlight] \in Caches
      BY Zenon, <1>0, <2>1, CacheUpdates DEF HandlerTypes
    <3> QED  BY <3>1, <3>2, Zenon
  <2>3. since' \in [Ids -> 0..ReplayTTL]
    <3>1. since' = since \/ since' = [since EXCEPT ![id] = 0]
      BY <1>2 DEF Receive
    <3>2. 0 \in 0..ReplayTTL
      OBVIOUS
    <3> QED  BY <1>0, <2>1, <3>1, <3>2 DEF HandlerTypes
  <2>4. work' \in Works
    <3>1. CASE UNCHANGED work \/ work' = Idle
      BY <1>0, <3>1 DEF HandlerTypes, Works
    <3>2. CASE work' = [phase |-> "execute", id |-> id]
      BY SMTT(30), <2>1, <3>2 DEF Works
    <3>3. CASE /\ Pruned[id] # Absent
               /\ work' = [phase |-> "publish", id |-> id, version |-> Pruned[id].version]
      <4>1. Pruned[id].version \in Nat
        BY SMTT(30), <2>1, <3>3 DEF Pruned, Accounts
      <4> QED  BY SMTT(30), <2>1, <3>3, <4>1 DEF Works
    <3> QED  BY SMTT(30), <1>2, <3>1, <3>2, <3>3 DEF Receive
  <2> QED  BY <1>0, <1>2, <2>2, <2>3, <2>4 DEF Receive, HandlerTypes
<1>3. CASE Execute
  <2>1. work.id \in Ids
    BY <1>0, <1>3 DEF Execute, HandlerTypes, Works, Idle
  <2>2. Effects(work.id[1]) \in Nat
    <3>1. <<work.id[1], 1>> \in Ids /\ <<work.id[1], 2>> \in Ids
      BY SMTT(30), <2>1 DEF Ids
    <3> QED  BY SMTT(30), <1>0, <3>1 DEF Effects, HandlerTypes
  <2>3. work' \in Works
    BY <1>3, <2>1, <2>2 DEF Execute, Works
  <2>4. executed' \in [Ids -> Nat]
    BY <1>0, <1>3, <2>1 DEF Execute, HandlerTypes
  <2> QED  BY <1>0, <1>3, <2>3, <2>4 DEF Execute, HandlerTypes
<1>4. CASE Store
  <2>1. work.id \in Ids /\ work.version \in Nat /\ work' \in Works
    BY <1>0, <1>4 DEF Store, HandlerTypes, Works, Idle
  <2>2. cache' \in Caches
    BY Zenon, <1>0, <1>4, <2>1, CacheUpdates DEF Store
  <2>3. since' \in [Ids -> 0..ReplayTTL]
    BY SMTT(30), <1>0, <1>4, <2>1 DEF Store, HandlerTypes
  <2> QED  BY <1>0, <1>4, <2>1, <2>2, <2>3 DEF Store, HandlerTypes
<1>5. CASE PublishResult
  BY <1>0, <1>5 DEF PublishResult, HandlerTypes, Works, history
<1>6. CASE Restart
  <2>1. since' \in [Ids -> 0..ReplayTTL]
    BY <1>6 DEF Restart
  <2> QED  BY <1>0, <1>6, <2>1, CacheUpdates DEF Restart, HandlerTypes, Works
<1>7. CASE Tick
  <2>1. \A n \in 0..ReplayTTL : AtMost(n + 1, ReplayTTL) \in 0..ReplayTTL
    BY DEF AtMost
  <2>2. since' \in [Ids -> 0..ReplayTTL]
    BY <1>0, <1>7, <2>1 DEF Tick, HandlerTypes
  <2>3. cache' \in Caches
    <3>1. \A id \in Ids : [cache[id] EXCEPT !.age = AtMost(cache[id].age + 1, ReplayTTL)]
                           \in [done : BOOLEAN, version : Int, age : 0..ReplayTTL]
      BY <1>0, <2>1 DEF HandlerTypes, Caches
    <3>2. cache' = [id \in Ids |-> IF cache[id] = Absent THEN cache[id]
                      ELSE [cache[id] EXCEPT !.age = AtMost(cache[id].age + 1, ReplayTTL)]]
      BY <1>7 DEF Tick
    <3> QED  BY <1>0, <3>1, <3>2 DEF HandlerTypes, Caches
  <2> QED  BY <1>0, <1>7, <2>2, <2>3 DEF Tick, HandlerTypes
<1>8. ASSUME NEW i \in Intents,
             Dispatch(i) \/ RetryWithFreshClaim(i) \/ ReclaimFails(i) \/ Timeout(i)
      PROVE  HandlerTypes'
  BY SMTT(30), <1>1, <1>8 DEF Dispatch, RetryWithFreshClaim, ReclaimFails, Timeout, relayVars,
                              history
<1>9. CASE \/ ClaimGranted \/ SurfaceReceives \/ ResendNext \/ WriteNow \/ WriteChunk \/ SessionStarts
           \/ SessionEnds \/ ClaimExpires \/ SurfaceDisconnects \/ SurfaceConnects \/ UNCHANGED vars
  BY <1>1, <1>9 DEF ClaimGranted, SurfaceReceives, ResendNext, WriteNow, WriteChunk,
                    SessionStarts, SessionEnds, ClaimExpires, SurfaceDisconnects,
                    SurfaceConnects, vars, relayVars, history
<1> QED
  BY <1>2, <1>3, <1>4, <1>5, <1>6, <1>7, <1>8, <1>9 DEF Next, Surface, Relay

\* Steps that touch the replay cache are the handler's, the restart and the clock's.
LEMMA CacheUntouched ==
  ASSUME [Next]_vars, ~Receive, ~Execute, ~Store, ~PublishResult, ~Restart, ~Tick
  PROVE  UNCHANGED <<work, cache, since>>
<1>1. ASSUME NEW i \in Intents,
             Dispatch(i) \/ RetryWithFreshClaim(i) \/ ReclaimFails(i) \/ Timeout(i)
      PROVE  UNCHANGED <<work, cache, since>>
  BY SMTT(30), <1>1 DEF Dispatch, RetryWithFreshClaim, ReclaimFails, Timeout, relayVars, history
<1>2. CASE \/ ClaimGranted \/ SurfaceReceives \/ ResendNext \/ WriteNow \/ WriteChunk \/ SessionStarts
           \/ SessionEnds \/ ClaimExpires \/ SurfaceDisconnects \/ SurfaceConnects \/ UNCHANGED vars
  BY <1>2 DEF ClaimGranted, SurfaceReceives, ResendNext, WriteNow, WriteChunk, SessionStarts,
              SessionEnds, ClaimExpires, SurfaceDisconnects, SurfaceConnects, vars, relayVars,
              history
<1> QED  BY <1>1, <1>2 DEF Next, Surface, Relay

-------------------------------------------------------------------------------
(* What an action is resolved with *)

\* A frame added to a queue is all that is new in it.
LEMMA RangeAppended ==
  ASSUME NEW S, NEW s \in Seq(S), NEW e \in S
  PROVE  \A x \in Range(Append(s, e)) : x \in Range(s) \/ x = e
<1>1. /\ DOMAIN Append(s, e) = 1..Len(s) + 1 /\ DOMAIN s = 1..Len(s) /\ Len(s) \in Nat
      /\ \A n \in 1..Len(s) : Append(s, e)[n] = s[n]
      /\ Append(s, e)[Len(s) + 1] = e
  OBVIOUS
<1>2. 1..Len(s) + 1 = 1..Len(s) \cup {Len(s) + 1}
  BY <1>1
<1> QED  BY <1>1, <1>2, Zenon DEF Range

\* The frame taken from a queue was in it, and so were the others.
LEMMA RangeTaken ==
  ASSUME NEW S, NEW s \in Seq(S), s # <<>>
  PROVE  /\ Head(s) = s[1] /\ Head(s) \in Range(s) /\ Head(s) \in S
         /\ Range(Tail(s)) \subseteq Range(s) /\ Tail(s) \in Seq(S)
<1>1. /\ DOMAIN Tail(s) = 1..Len(s) - 1 /\ DOMAIN s = 1..Len(s) /\ Len(s) \in Nat \ {0}
      /\ \A n \in 1..Len(s) - 1 : Tail(s)[n] = s[n + 1]
      /\ Head(s) = s[1] /\ Head(s) \in S /\ Tail(s) \in Seq(S)
  OBVIOUS
<1>2. 1 \in 1..Len(s) /\ \A n \in 1..Len(s) - 1 : n + 1 \in 1..Len(s)
  BY <1>1
<1> QED  BY <1>1, <1>2, Zenon DEF Range

\* Two queues joined hold what one of them held.
LEMMA RangeJoined ==
  ASSUME NEW S, NEW s \in Seq(S), NEW t \in Seq(S)
  PROVE  Range(s \o t) \subseteq Range(s) \cup Range(t)
<1>1. /\ DOMAIN (s \o t) = 1..Len(s) + Len(t) /\ DOMAIN s = 1..Len(s) /\ DOMAIN t = 1..Len(t)
      /\ Len(s) \in Nat /\ Len(t) \in Nat
      /\ \A n \in 1..Len(s) + Len(t) :
           (s \o t)[n] = IF n <= Len(s) THEN s[n] ELSE t[n - Len(s)]
  OBVIOUS
<1>2. \A n \in 1..Len(s) + Len(t) : n \in 1..Len(s) \/ (~(n <= Len(s)) /\ n - Len(s) \in 1..Len(t))
  BY <1>1
<1>3. \A n \in 1..Len(s) : n <= Len(s)
  BY <1>1
<1> QED  BY <1>1, <1>2, <1>3, Zenon DEF Range

ChunkOf(frame, id) == frame.type = "chunk" /\ frame.id = id

\* Chunk n of version v of the reply to id, behind the first m frames of a mailbox: it is
\* the first chunk, the one before it is the last chunk of the reply ahead of it, or the
\* page holds all the chunks before it.
Preceded(box, held, id, m, v, n) ==
  \/ n = 1
  \/ \E p \in 1..m : /\ box[p] = Chunk(id, v, n - 1)
                     /\ \A r \in p + 1..m : ~ChunkOf(box[r], id)
  \/ /\ \A r \in 1..m : ~ChunkOf(box[r], id)
     /\ \A c \in 1..n - 1 : held[c] = v
Chained(box, held, id) ==
  \A q \in 1..Len(box) :
    ChunkOf(box[q], id) => Preceded(box, held, id, q - 1, box[q].version, box[q].n)
FollowsOn(box, held, id, v, n) == Preceded(box, held, id, Len(box), v, n)

\* A frame behind the others does not come between the ones that are there.
LEMMA PrecededBehind ==
  ASSUME NEW box \in Seq(Frames), NEW f \in Frames, NEW held, NEW id, NEW v, NEW n,
         NEW m \in 0..Len(box), Preceded(box, held, id, m, v, n)
  PROVE  Preceded(Append(box, f), held, id, m, v, n)
<1>1. PICK more : more = Append(box, f)
  BY Zenon
<1>2. \A r \in 1..m : more[r] = box[r]
  BY <1>1
<1>3. \A r \in 1..m : \A s \in r + 1..m : s \in 1..m
  OBVIOUS
<1>4. Preceded(more, held, id, m, v, n)
  BY <1>2, <1>3, Zenon DEF Preceded
<1> QED  BY <1>1, <1>4, Zenon

\* One that is behind them all and no chunk of the reply is passed over.
LEMMA PrecededPast ==
  ASSUME NEW box, NEW held, NEW id, NEW v, NEW n, NEW m \in Nat,
         Preceded(box, held, id, m, v, n), ~ChunkOf(box[m + 1], id)
  PROVE  Preceded(box, held, id, m + 1, v, n)
<1>1. /\ \A p \in 1..m : p \in 1..m + 1
      /\ \A p \in 1..m : \A r \in p + 1..m + 1 : r \in p + 1..m \/ r = m + 1
      /\ \A r \in 1..m + 1 : r \in 1..m \/ r = m + 1
  OBVIOUS
<1>2. CASE n = 1
  BY <1>2, Zenon DEF Preceded
<1>3. CASE \E p \in 1..m : /\ box[p] = Chunk(id, v, n - 1)
                           /\ \A r \in p + 1..m : ~ChunkOf(box[r], id)
  BY <1>1, <1>3, Zenon DEF Preceded
<1>4. CASE /\ \A r \in 1..m : ~ChunkOf(box[r], id)
           /\ \A c \in 1..n - 1 : held[c] = v
  BY <1>1, <1>4, Zenon DEF Preceded
<1> QED  BY <1>2, <1>3, <1>4, Zenon DEF Preceded

\* The places of the frames in a mailbox the broker has added one to.
LEMMA Appended ==
  ASSUME NEW box \in Seq(Frames), NEW f \in Frames
  PROVE  /\ Len(box) \in Nat /\ Len(Append(box, f)) = Len(box) + 1
         /\ Append(box, f)[Len(box) + 1] = f
         /\ \A q \in 1..Len(box) : q - 1 \in 0..Len(box) /\ Append(box, f)[q] = box[q]
         /\ \A q \in 1..Len(box) + 1 : q \in 1..Len(box) \/ q = Len(box) + 1
         /\ Len(box) \in 0..Len(box) /\ Len(box) + 1 - 1 = Len(box)
<1>1. /\ Len(box) \in Nat /\ Len(Append(box, f)) = Len(box) + 1
      /\ Append(box, f)[Len(box) + 1] = f
      /\ \A q \in 1..Len(box) : Append(box, f)[q] = box[q]
  OBVIOUS
<1> QED  BY <1>1

\* The chunks of a reply stay in a row when the frame added is no chunk of it, or the one
\* that follows on.
LEMMA ChainedBehind ==
  ASSUME NEW box \in Seq(Frames), NEW f \in Frames, NEW held, NEW id, Chained(box, held, id),
         ChunkOf(f, id) => FollowsOn(box, held, id, f.version, f.n)
  PROVE  Chained(Append(box, f), held, id)
<1> SUFFICES ASSUME NEW q \in 1..Len(Append(box, f)), ChunkOf(Append(box, f)[q], id)
             PROVE  Preceded(Append(box, f), held, id, q - 1, Append(box, f)[q].version,
                             Append(box, f)[q].n)
  BY Zenon DEF Chained
<1>1. CASE q \in 1..Len(box)
  <2>1. /\ q - 1 \in 0..Len(box) /\ Append(box, f)[q] = box[q]
    BY <1>1, Appended, Zenon
  <2>2. Preceded(box, held, id, q - 1, box[q].version, box[q].n)
    BY <1>1, <2>1, Zenon DEF Chained
  <2> QED  BY <2>1, <2>2, PrecededBehind, Zenon
<1>2. CASE q = Len(box) + 1
  <2>1. /\ q - 1 = Len(box) /\ Len(box) \in 0..Len(box) /\ Append(box, f)[q] = f
    <3>1. /\ Len(box) + 1 - 1 = Len(box) /\ Len(box) \in 0..Len(box)
          /\ Append(box, f)[Len(box) + 1] = f
      BY Appended, Zenon
    <3> QED  BY <1>2, <3>1
  <2>2. Preceded(box, held, id, Len(box), f.version, f.n)
    BY <2>1, Zenon DEF FollowsOn
  <2> QED  BY <2>1, <2>2, PrecededBehind, Zenon
<1> QED  BY <1>1, <1>2, Appended, Zenon

\* A frame that is no chunk of the reply does not change which chunk follows on.
LEMMA OtherBehind ==
  ASSUME NEW box \in Seq(Frames), NEW f \in Frames, NEW held, NEW id, NEW v, NEW n,
         ~ChunkOf(f, id), FollowsOn(box, held, id, v, n)
  PROVE  FollowsOn(Append(box, f), held, id, v, n)
<1>1. /\ Len(box) \in Nat /\ Len(box) \in 0..Len(box) /\ Len(Append(box, f)) = Len(box) + 1
      /\ Append(box, f)[Len(box) + 1] = f
  BY Appended, Zenon
<1>2. Preceded(Append(box, f), held, id, Len(box), v, n)
  BY <1>1, PrecededBehind, Zenon DEF FollowsOn
<1>3. Preceded(Append(box, f), held, id, Len(box) + 1, v, n)
  BY <1>1, <1>2, PrecededPast, Zenon
<1> QED  BY <1>1, <1>3, Zenon DEF FollowsOn

\* Behind a chunk of the reply, the next chunk follows on.
LEMMA NextBehind ==
  ASSUME NEW box \in Seq(Frames), NEW held, NEW id, NEW v, NEW n \in Nat, Chunk(id, v, n) \in Frames
  PROVE  FollowsOn(Append(box, Chunk(id, v, n)), held, id, v, n + 1)
<1>1. PICK more : more = Append(box, Chunk(id, v, n))
  BY Zenon
<1>2. Len(more) \in Nat \ {0} /\ more[Len(more)] = Chunk(id, v, n) /\ n + 1 - 1 = n
  BY <1>1
<1>3. Len(more) \in 1..Len(more) /\ \A r \in Len(more) + 1..Len(more) : FALSE
  BY <1>2
<1>4. FollowsOn(more, held, id, v, n + 1)
  <2>1. PICK k \in Nat : k = n + 1 /\ more[Len(more)] = Chunk(id, v, k - 1)
    BY <1>2
  <2>2. \A r \in Len(more) + 1..Len(more) : ~ChunkOf(more[r], id)
    BY <1>3, Zenon
  <2>3. FollowsOn(more, held, id, v, k)
    BY <1>3, <2>1, <2>2, Zenon DEF FollowsOn, Preceded
  <2> QED  BY <2>1, <2>3, Zenon
<1> QED  BY <1>1, <1>4, Zenon

\* The places of the frames in a mailbox whose first one is read.
LEMMA Read ==
  ASSUME NEW box \in Seq(Frames), box # <<>>
  PROVE  /\ Len(box) \in Nat \ {0} /\ Tail(box) \in Seq(Frames) /\ Len(Tail(box)) \in Nat
         /\ Len(Tail(box)) + 1 = Len(box) /\ Head(box) = box[1] /\ 1 \in 1..Len(box)
         /\ \A q \in 1..Len(Tail(box)) : q + 1 \in 1..Len(box) /\ Tail(box)[q] = box[q + 1]
<1>1. /\ Len(box) \in Nat \ {0} /\ Tail(box) \in Seq(Frames) /\ Len(Tail(box)) = Len(box) - 1
      /\ Head(box) = box[1]
      /\ \A q \in 1..Len(box) - 1 : Tail(box)[q] = box[q + 1]
  OBVIOUS
<1> QED  BY <1>1

\* What precedes a chunk when the first frame of the mailbox is read: nothing changes if
\* that frame is no chunk of the reply, and the page holds it otherwise.
LEMMA PrecededAfterRead ==
  ASSUME NEW box \in Seq(Frames), box # <<>>, NEW held, NEW kept, NEW id, NEW v, NEW n \in Nat,
         NEW m \in 0..Len(Tail(box)), Preceded(box, held, id, m + 1, v, n),
         ~ChunkOf(box[1], id) => kept = held,
         ChunkOf(box[1], id) =>
           \A c \in 1..box[1].n : kept[c] = box[1].version
  PROVE  Preceded(Tail(box), kept, id, m, v, n)
<1>1. PICK rest : rest = Tail(box)
  BY Zenon
<1>2. \A q \in 1..m : rest[q] = box[q + 1]
  BY <1>1, Read
<1>3. m \in Nat /\ Len(box) \in Nat
  BY Read
<1>4. CASE n = 1
  BY <1>4, Zenon DEF Preceded
<1>5. ASSUME NEW p \in 1..m + 1, box[p] = Chunk(id, v, n - 1),
             \A r \in p + 1..m + 1 : ~ChunkOf(box[r], id)
      PROVE  Preceded(rest, kept, id, m, v, n)
  <2>1. CASE p = 1
    <3>1. \A r \in 1..m : r + 1 \in p + 1..m + 1
      BY <1>3, <2>1
    <3>2. \A r \in 1..m : ~ChunkOf(rest[r], id)
      BY <1>2, <1>5, <3>1, Zenon
    <3>3. ChunkOf(box[1], id) /\ box[1].n = n - 1 /\ box[1].version = v
      <4>1. box[1] = Chunk(id, v, n - 1)
        BY <1>5, <2>1, Zenon
      <4> QED  BY <4>1 DEF ChunkOf, Chunk
    <3>4. \A c \in 1..n - 1 : kept[c] = v
      BY <3>3, Zenon
    <3> QED  BY <3>2, <3>4, Zenon DEF Preceded
  <2>2. CASE p # 1
    <3>1. PICK o \in 1..m : p = o + 1
      BY <1>3, <2>2
    <3>2. \A r \in o + 1..m : r \in 1..m /\ r + 1 \in p + 1..m + 1
      BY <1>3, <3>1
    <3>3. rest[o] = Chunk(id, v, n - 1) /\ \A r \in o + 1..m : ~ChunkOf(rest[r], id)
      BY <1>2, <1>5, <3>1, <3>2, Zenon
    <3> QED  BY <3>3, Zenon DEF Preceded
  <2> QED  BY <2>1, <2>2, Zenon
<1>6. ASSUME \A r \in 1..m + 1 : ~ChunkOf(box[r], id), \A c \in 1..n - 1 : held[c] = v
      PROVE  Preceded(rest, kept, id, m, v, n)
  <2>1. 1 \in 1..m + 1 /\ \A r \in 1..m : r + 1 \in 1..m + 1
    BY <1>3
  <2>2. kept = held
    BY <1>6, <2>1, Zenon
  <2>3. \A r \in 1..m : ~ChunkOf(rest[r], id)
    BY <1>2, <1>6, <2>1, Zenon
  <2> QED  BY <1>6, <2>2, <2>3, Zenon DEF Preceded
<1>7. Preceded(rest, kept, id, m, v, n)
  BY <1>4, <1>5, <1>6, Zenon DEF Preceded
<1> QED  BY <1>1, <1>7, Zenon

\* The first frame of the mailbox, if it is a chunk of the reply: the page holds those before.
LEMMA HeldBefore ==
  ASSUME NEW box \in Seq(Frames), box # <<>>, NEW held, NEW id, Chained(box, held, id),
         ChunkOf(box[1], id)
  PROVE  \A c \in 1..box[1].n - 1 : held[c] = box[1].version
<1>1. Preceded(box, held, id, 1 - 1, box[1].version, box[1].n)
  BY Read, Zenon DEF Chained
<1>2. \A p \in 1..1 - 1 : FALSE
  OBVIOUS
<1>3. CASE box[1].n = 1
  <2>1. \A c \in 1..box[1].n - 1 : FALSE
    BY <1>3
  <2> QED  BY <2>1, Zenon
<1> QED  BY <1>1, <1>2, <1>3, Zenon DEF Preceded

\* The chunks of a reply stay in a row when a frame is read.
LEMMA ChainedAfterRead ==
  ASSUME NEW box \in Seq(Frames), box # <<>>, NEW held, NEW kept, NEW id, Chained(box, held, id),
         ~ChunkOf(box[1], id) => kept = held,
         ChunkOf(box[1], id) => \A c \in 1..box[1].n : kept[c] = box[1].version
  PROVE  /\ Chained(Tail(box), kept, id)
         /\ \A v : \A n \in Nat :
              FollowsOn(box, held, id, v, n) => FollowsOn(Tail(box), kept, id, v, n)
<1>1. ASSUME NEW q \in 1..Len(Tail(box)), ChunkOf(Tail(box)[q], id)
      PROVE  Preceded(Tail(box), kept, id, q - 1, Tail(box)[q].version, Tail(box)[q].n)
  <2>1. PICK p \in 1..Len(box) : p = q + 1 /\ Tail(box)[q] = box[p]
    BY Read, Zenon
  <2>2. p - 1 = (q - 1) + 1 /\ q - 1 \in 0..Len(Tail(box))
    BY <2>1, Read
  <2>3. ChunkOf(box[p], id)
    BY <1>1, <2>1, Zenon
  <2>4. Preceded(box, held, id, (q - 1) + 1, box[p].version, box[p].n)
    <3>1. Preceded(box, held, id, p - 1, box[p].version, box[p].n)
      BY <2>3, Zenon DEF Chained
    <3> QED  BY <2>2, <3>1, Zenon
  <2>5. box[p].n \in Nat
    <3>1. box[p] \in Frames
      OBVIOUS
    <3>2. box[p].n \in 1..Chunks
      BY <2>3, <3>1, FrameFields, Zenon DEF ChunkOf
    <3> QED  BY <3>2, RemoteActionsAssumption
  <2> QED  BY <2>1, <2>2, <2>4, <2>5, PrecededAfterRead, Zenon
<1>2. ASSUME NEW v, NEW n \in Nat, FollowsOn(box, held, id, v, n)
      PROVE  FollowsOn(Tail(box), kept, id, v, n)
  <2>1. Len(Tail(box)) \in 0..Len(Tail(box)) /\ Len(Tail(box)) + 1 = Len(box)
    BY Read
  <2>2. Preceded(box, held, id, Len(Tail(box)) + 1, v, n)
    BY <1>2, <2>1, Zenon DEF FollowsOn
  <2> QED  BY <2>1, <2>2, PrecededAfterRead, Zenon DEF FollowsOn
<1> QED  BY <1>1, <1>2, Zenon DEF Chained

\* What a step does to one intent: nothing; a first or second try begins; a chunk of its
\* reply is kept; it is rejected, or goes on to a second try; that one is given up; or it
\* is resolved with a result, or with the chunks of one.
Untouched(i) == intent'[i] = intent[i] /\ parts'[i] = parts[i]
Begins(i) ==
  /\ \/ intent[i].st = "idle" /\ intent'[i].try = 1
     \/ intent[i].st = "reclaiming" /\ intent'[i].try = 2
  /\ intent'[i].st = "waiting" /\ surface.up
  /\ parts'[i] = parts[i] /\ UNCHANGED <<mailbox, writer, surface>>
Collects(i) ==
  /\ intent'[i] = intent[i] /\ intent[i].st = "waiting"
  /\ ChunkOf(Head(mailbox), <<i, intent[i].try>>)
  /\ parts'[i] = Holding(parts[i], Head(mailbox))
  /\ \E c \in 1..Chunks : Holding(parts[i], Head(mailbox))[c] = 0
Ends(i) ==
  /\ intent[i].st = "waiting" /\ intent'[i].try = intent[i].try /\ parts'[i] = NoParts
  /\ \/ intent'[i].st = "failed"
     \/ intent'[i].st = "reclaiming" /\ intent[i].try = 1
GivesUp(i) ==
  /\ intent[i].st = "reclaiming" /\ intent'[i].st = "failed" /\ intent'[i].try = intent[i].try
  /\ parts'[i] \in {parts[i], NoParts}
Answered(i) ==
  /\ Head(mailbox).type = "result" /\ Head(mailbox).outcome = "ok"
  /\ intent'[i].result = Head(mailbox).version
Assembled(i) ==
  /\ Head(mailbox).type = "chunk"
  /\ \A c \in 1..Chunks : Holding(parts[i], Head(mailbox))[c] # 0
  /\ (\A c \in 1..Chunks :
        Holding(parts[i], Head(mailbox))[c] = Holding(parts[i], Head(mailbox))[1])
     => intent'[i].result = Holding(parts[i], Head(mailbox))[1]
Resolves(i) ==
  /\ intent[i].st = "waiting" /\ intent'[i].st = "ok" /\ intent'[i].try = intent[i].try
  /\ parts'[i] = NoParts
  /\ Head(mailbox).id = <<i, intent[i].try>>
  /\ Answered(i) \/ Assembled(i)
Reads(i) == SurfaceReceives /\ (Collects(i) \/ Ends(i) \/ Resolves(i))
IntentStep(i) == Untouched(i) \/ Begins(i) \/ Ends(i) \/ GivesUp(i) \/ Reads(i)

\* Settling a set of pending actions, seen from one intent.
LEMMA SettledIntent ==
  ASSUME SurfaceTypes, NEW S, Settle(S, "failed"), NEW j \in Intents,
         j \in S => intent[j].st \in {"waiting", "reclaiming"}
  PROVE  Untouched(j) \/ Ends(j) \/ GivesUp(j)
<1>1. intent[j] \in IntentRecords
  BY Zenon DEF SurfaceTypes
<1>2. CASE j \notin S
  BY <1>2, Zenon DEF Settle, Untouched
<1>3. CASE j \in S
  <2>1. intent'[j] = [intent[j] EXCEPT !.st = "failed"] /\ parts'[j] = NoParts
    BY <1>3, Zenon DEF Settle
  <2>2. intent'[j].st = "failed" /\ intent'[j].try = intent[j].try
    BY <1>1, <2>1 DEF IntentRecords
  <2> QED  BY <1>3, <2>1, <2>2 DEF Ends, GivesUp
<1> QED  BY <1>2, <1>3, Zenon

\* A pending id is the id of the try its intent is waiting for.
LEMMA PendingId ==
  ASSUME NEW id \in Ids
  PROVE  /\ Pending(id) <=> (intent[id[1]].st = "waiting" /\ id = <<id[1], intent[id[1]].try>>)
         /\ id = <<id[1], id[2]>>
<1>1. id[1] \in Intents /\ id = <<id[1], id[2]>>
  BY DEF Ids
<1>2. intent[id[1]].try = id[2] <=> id = <<id[1], intent[id[1]].try>>
  BY <1>1
<1> QED  BY <1>1, <1>2, Zenon DEF Pending, Waiting

\* A result that arrives, seen from one intent.
LEMMA ResultForIntent ==
  ASSUME TypeOK, SurfaceReceives, Head(mailbox).type = "result", ResultArrives(Head(mailbox)),
         NEW j \in Intents
  PROVE  IntentStep(j)
<1>0. SurfaceTypes /\ LinkTypes
  BY TypeParts
<1>1. PICK frame \in Frames : frame = Head(mailbox)
  BY <1>0 DEF SurfaceReceives, LinkTypes
<1>2. frame.id \in Ids /\ frame.id[1] \in Intents
  BY <1>1, FrameFields, IdParts, Zenon
<1>3. CASE ~Pending(frame.id) \/ j # frame.id[1]
  <2>1. /\ \/ UNCHANGED <<intent, parts>>
           \/ /\ \E r : intent' = [intent EXCEPT ![frame.id[1]] = r]
              /\ parts' = [parts EXCEPT ![frame.id[1]] = NoParts]
              /\ j # frame.id[1]
    <3>1. CASE ~Pending(frame.id)
      BY <1>1, <3>1 DEF ResultArrives
    <3>2. CASE Pending(frame.id)
      <4>1. j # frame.id[1]
        BY <1>3, <3>2
      <4>2. /\ \E r : intent' = [intent EXCEPT ![frame.id[1]] = r]
            /\ parts' = [parts EXCEPT ![frame.id[1]] = NoParts]
        BY <1>1, <3>2, ZenonT(30) DEF ResultArrives
      <4> QED  BY <4>1, <4>2, Zenon
    <3> QED  BY <3>1, <3>2, Zenon
  <2> QED  BY <1>0, <1>2, <2>1, Zenon DEF Untouched, IntentStep, SurfaceTypes
<1>4. CASE Pending(frame.id) /\ j = frame.id[1]
  <2> DEFINE reclaims == frame.outcome = "refused" /\ frame.id[2] = 1
             st == IF frame.outcome = "ok" THEN "ok" ELSE IF reclaims THEN "reclaiming" ELSE "failed"
  <2>1. /\ intent' = [intent EXCEPT ![j] = [intent[j] EXCEPT !.st = st, !.result = frame.version]]
        /\ parts' = [parts EXCEPT ![j] = NoParts]
    BY <1>1, <1>4, ZenonT(30) DEF ResultArrives
  <2>2. /\ intent'[j] = [intent[j] EXCEPT !.st = st, !.result = frame.version]
        /\ parts'[j] = NoParts /\ intent[j] \in IntentRecords
    BY <1>0, <2>1, Zenon DEF SurfaceTypes
  <2> HIDE DEF st
  <2>3. intent'[j].st = st /\ intent'[j].try = intent[j].try /\ intent'[j].result = frame.version
    BY <2>2 DEF IntentRecords
  <2>4. intent[j].st = "waiting" /\ frame.id = <<j, intent[j].try>>
    BY <1>2, <1>4, PendingId, Zenon
  <2>5. frame.id[2] = 1 => intent[j].try = 1
    BY <2>4
  <2>6. CASE frame.outcome = "ok"
    <3>1. st = "ok"
      BY <2>6 DEF st
    <3> QED  BY <1>1, <2>2, <2>3, <2>4, <2>6, <3>1, Zenon
                DEF IntentStep, Reads, Resolves, Answered
  <2>7. CASE frame.outcome # "ok"
    <3>1. st = "failed" \/ (st = "reclaiming" /\ intent[j].try = 1)
      BY <2>5, <2>7 DEF st
    <3> QED  BY <2>2, <2>3, <2>4, <3>1, Zenon DEF IntentStep, Ends
  <2> QED  BY <2>6, <2>7, Zenon
<1> QED  BY <1>3, <1>4, Zenon

\* A chunk that arrives, seen from one intent.
LEMMA ChunkForIntent ==
  ASSUME TypeOK, SurfaceReceives, Head(mailbox).type = "chunk", ChunkArrives(Head(mailbox)),
         NEW j \in Intents
  PROVE  IntentStep(j)
<1>0. SurfaceTypes /\ LinkTypes
  BY TypeParts
<1>1. PICK frame \in Frames : frame = Head(mailbox)
  BY <1>0 DEF SurfaceReceives, LinkTypes
<1>2. frame.id \in Ids /\ frame.id[1] \in Intents
  BY <1>1, FrameFields, IdParts, Zenon
<1> DEFINE held == Holding(parts[frame.id[1]], frame)
<1>3. CASE ~Pending(frame.id)
  <2>1. UNCHANGED <<intent, parts>>
    BY <1>1, <1>3 DEF ChunkArrives
  <2> QED  BY <2>1, Zenon DEF Untouched, IntentStep
<1>4. CASE Pending(frame.id) /\ \A c \in 1..Chunks : held[c] # 0
  <2> DEFINE v == IF \A c \in 1..Chunks : held[c] = held[1] THEN held[1] ELSE -1
  <2>1. /\ intent' = [intent EXCEPT ![frame.id[1]].st = "ok", ![frame.id[1]].result = v]
        /\ parts' = [parts EXCEPT ![frame.id[1]] = NoParts]
    BY <1>1, <1>4, Zenon DEF ChunkArrives
  <2> HIDE DEF v
  <2>2. CASE j # frame.id[1]
    BY <1>0, <1>2, <2>1, <2>2, Zenon DEF Untouched, IntentStep, SurfaceTypes
  <2>3. CASE j = frame.id[1]
    <3>1. parts'[j] = NoParts
      BY <1>0, <2>1, <2>3, Zenon DEF SurfaceTypes
    <3>2. intent'[j].st = "ok" /\ intent'[j].try = intent[j].try /\ intent'[j].result = v
      BY <1>0, <1>2, <2>1, <2>3 DEF SurfaceTypes, IntentRecords
    <3>3. intent[j].st = "waiting" /\ frame.id = <<j, intent[j].try>>
      BY <1>2, <1>4, <2>3, PendingId, Zenon
    <3>4. (\A c \in 1..Chunks : held[c] = held[1]) => v = held[1]
      BY Zenon DEF v
    <3> HIDE DEF held
    <3>5. held = Holding(parts[j], Head(mailbox))
      BY <1>1, <2>3, Zenon DEF held
    <3>6. Assembled(j)
      BY <1>4, <3>2, <3>4, <3>5, Zenon DEF Assembled
    <3> QED  BY <1>1, <3>1, <3>2, <3>3, <3>6, Zenon DEF IntentStep, Reads, Resolves
  <2> QED  BY <2>2, <2>3, Zenon
<1>5. CASE Pending(frame.id) /\ ~\A c \in 1..Chunks : held[c] # 0
  <2>1. intent' = intent /\ parts' = [parts EXCEPT ![frame.id[1]] = held]
    BY <1>1, <1>5, ZenonT(30) DEF ChunkArrives
  <2> HIDE DEF held
  <2>2. CASE j # frame.id[1]
    BY <1>0, <1>2, <2>1, <2>2, Zenon DEF Untouched, IntentStep, SurfaceTypes
  <2>3. CASE j = frame.id[1]
    <3>1. parts'[j] = held
      BY <1>0, <2>1, <2>3, Zenon DEF SurfaceTypes
    <3>2. intent[j].st = "waiting" /\ frame.id = <<j, intent[j].try>>
      BY <1>2, <1>5, <2>3, PendingId, Zenon
    <3>3. held = Holding(parts[j], Head(mailbox))
      BY <1>1, <2>3, Zenon DEF held
    <3>4. \E c \in 1..Chunks : Holding(parts[j], Head(mailbox))[c] = 0
      BY <1>5, <3>3, Zenon
    <3>5. Collects(j)
      BY <1>1, <2>1, <3>1, <3>2, <3>3, <3>4, Zenon DEF Collects, ChunkOf
    <3> QED  BY <3>5, Zenon DEF IntentStep, Reads
  <2> QED  BY <2>2, <2>3, Zenon
<1> QED  BY <1>3, <1>4, <1>5, Zenon

\* Every step does one of these to each intent.
LEMMA IntentSteps ==
  ASSUME TypeOK, [Next]_vars, NEW j \in Intents
  PROVE  IntentStep(j)
<1>0. SurfaceTypes /\ LinkTypes /\ intent[j] \in IntentRecords
  BY TypeParts, Zenon DEF SurfaceTypes
<1>1. CASE UNCHANGED <<intent, parts>>
  BY <1>1, Zenon DEF IntentStep, Untouched
<1>2. ASSUME NEW i \in Intents, Dispatch(i) \/ RetryWithFreshClaim(i) PROVE IntentStep(j)
  <2>1. PICK n \in {1, 2} :
          /\ intent' = [intent EXCEPT ![i] = [intent[i] EXCEPT !.st = "waiting", !.try = n]]
          /\ \/ intent[i].st = "idle" /\ n = 1
             \/ intent[i].st = "reclaiming" /\ n = 2
    <3>1. CASE Dispatch(i)
      BY <3>1, Zenon DEF Dispatch, Send
    <3>2. CASE RetryWithFreshClaim(i)
      BY <3>2, Zenon DEF RetryWithFreshClaim, Send
    <3> QED  BY <1>2, <3>1, <3>2, Zenon
  <2>2. surface.up /\ UNCHANGED <<parts, surface, mailbox, writer>>
    BY <1>2 DEF Dispatch, RetryWithFreshClaim, relayVars
  <2>3. CASE j # i
    BY <1>0, <2>1, <2>2, <2>3, Zenon DEF Untouched, IntentStep, SurfaceTypes
  <2>4. CASE j = i
    <3>1. intent'[j] = [intent[j] EXCEPT !.st = "waiting", !.try = n]
      BY <1>0, <2>1, <2>4, Zenon DEF SurfaceTypes
    <3>2. intent'[j].st = "waiting" /\ intent'[j].try = n
      BY <1>0, <3>1 DEF IntentRecords
    <3>3. parts'[j] = parts[j] /\ UNCHANGED <<mailbox, writer, surface>>
      BY <2>2
    <3>4. Begins(j)
      BY <2>1, <2>2, <2>4, <3>2, <3>3, Zenon DEF Begins
    <3> QED  BY <3>4, Zenon DEF IntentStep
  <2> QED  BY <2>3, <2>4, Zenon
<1>3. ASSUME NEW i \in Intents, ReclaimFails(i) PROVE IntentStep(j)
  <2>1. /\ intent' = [intent EXCEPT ![i] = [intent[i] EXCEPT !.st = "failed"]]
        /\ intent[i].st = "reclaiming" /\ parts' = parts
    BY <1>3 DEF ReclaimFails
  <2>2. CASE j # i
    BY <1>0, <2>1, <2>2, Zenon DEF Untouched, IntentStep, SurfaceTypes
  <2>3. CASE j = i
    <3>1. intent'[j] = [intent[j] EXCEPT !.st = "failed"]
      BY <1>0, <2>1, <2>3, Zenon DEF SurfaceTypes
    <3>2. intent'[j].st = "failed" /\ intent'[j].try = intent[j].try
      BY <1>0, <3>1 DEF IntentRecords
    <3> QED  BY <2>1, <2>3, <3>2, Zenon DEF GivesUp, IntentStep
  <2> QED  BY <2>2, <2>3, Zenon
<1>4. ASSUME NEW i \in Intents, Timeout(i) PROVE IntentStep(j)
  <2>1. Settle({i}, "failed") /\ intent[i].st = "waiting"
    BY <1>4, Zenon DEF Timeout, Waiting
  <2>2. j \in {i} => intent[j].st \in {"waiting", "reclaiming"}
    BY <2>1, Zenon
  <2> QED  BY <1>0, <2>1, <2>2, SettledIntent, Zenon DEF IntentStep
<1>5. CASE SurfaceDisconnects
  <2> DEFINE S == {i \in Intents : intent[i].st \in {"waiting", "reclaiming"}}
  <2>1. Settle(S, "failed")
    BY <1>5, Zenon DEF SurfaceDisconnects
  <2>2. j \in S => intent[j].st \in {"waiting", "reclaiming"}
    BY Zenon
  <2> QED  BY <1>0, <2>1, <2>2, SettledIntent, Zenon DEF IntentStep
<1>6. CASE ResendNext
  <2> DEFINE S == {Head(resend)[1]} \cap {i \in Waiting : intent[i].try = Head(resend)[2]}
  <2>1. Settle(S, "failed") \/ UNCHANGED <<intent, parts>>
    BY <1>6, Zenon DEF ResendNext
  <2>2. j \in S => intent[j].st \in {"waiting", "reclaiming"}
    BY Zenon DEF Waiting
  <2> QED  BY <1>0, <1>1, <2>1, <2>2, SettledIntent, Zenon DEF IntentStep
<1>7. CASE SurfaceReceives
  <2>1. \/ Head(mailbox).type = "result" /\ ResultArrives(Head(mailbox))
        \/ Head(mailbox).type = "chunk" /\ ChunkArrives(Head(mailbox))
        \/ UNCHANGED <<intent, parts>>
    BY <1>7, Zenon DEF SurfaceReceives
  <2> QED  BY <1>1, <1>7, <2>1, ResultForIntent, ChunkForIntent, Zenon
<1>8. CASE \/ ClaimGranted \/ ClaimExpires \/ SurfaceConnects \/ Tick \/ Relay \/ SessionStarts
           \/ SessionEnds \/ Restart \/ UNCHANGED vars
  BY <1>1, <1>8, Zenon DEF ClaimGranted, ClaimExpires, SurfaceConnects, Tick, Relay, Receive,
                           Execute, Store, PublishResult, WriteNow, WriteChunk, SessionStarts,
                           SessionEnds, Restart, vars, surfaceVars
<1> QED  BY <1>2, <1>3, <1>4, <1>5, <1>6, <1>7, <1>8, Zenon DEF Next, Surface

\* An id the dispatcher has made, and a result some execution of its intent had.
Sent(id) == intent[id[1]].st # "idle" /\ id[2] <= intent[id[1]].try
Genuine(version, id) == Sent(id) /\ version \in 1..Effects(id[1])
GenuineFrame(frame) ==
  (frame.type = "chunk" \/ (frame.type = "result" /\ frame.outcome = "ok"))
    => Genuine(frame.version, frame.id)

\* Whatever is asked for was sent.
Known ==
  /\ \A id \in Range(resend) : Sent(id)
  /\ \A request \in Range(uplink) : Sent(request.id)
  /\ work # Idle => Sent(work.id)

\* Whatever is answered is the result of an execution.
Outcomes ==
  /\ work.phase \in {"store", "publish"} => Genuine(work.version, work.id)
  /\ \A id \in Ids : cache[id].done => Genuine(cache[id].version, id)
  /\ \A train \in Range(writer.trains) : Genuine(train.version, train.id)
  /\ \A frame \in Range(writer.now) : frame.type = "result" /\ GenuineFrame(frame)
  /\ \A frame \in Range(mailbox) : GenuineFrame(frame)

\* Only the first train may be under way.
OneResident == \A k \in 2..Len(writer.trains) : writer.trains[k].next = 1

\* Chunks are held for a pending action only, and never the last one.
Expecting ==
  /\ \A i \in Intents :
       /\ intent[i].st \in {"idle", "reclaiming"} => intent[i].try = 1
       /\ intent[i].st # "waiting" => parts[i] = NoParts
       /\ parts[i][Chunks] = 0
       /\ intent[i].st = "waiting" => surface.up

\* The chunks of the reply to a pending action are in a row, from the page's to the writer's.
InARow ==
  \A id \in Ids : Pending(id) =>
    /\ Chained(mailbox, parts[id[1]], id)
    /\ (writer.trains # <<>> /\ writer.trains[1].id = id) =>
         FollowsOn(mailbox, parts[id[1]], id, writer.trains[1].version, writer.trains[1].next)

ResultInv ==
  Known /\ Outcomes /\ OneResident /\ Expecting /\ InARow /\ ResolvedFromOneResult

\* An execution adds to the effects of its intent; nothing takes from them.
LEMMA EffectsGrow ==
  ASSUME TypeOK, TypeOK', [Next]_vars, NEW i \in Intents
  PROVE  Effects(i) \in Nat /\ Effects(i)' \in Nat /\ Effects(i) <= Effects(i)'
<1>0. HandlerTypes /\ executed' \in [Ids -> Nat]
  BY TypeParts, Zenon DEF TypeOK
<1>1. executed' = executed \/ Execute
  <2>1. ASSUME NEW j \in Intents,
               Dispatch(j) \/ RetryWithFreshClaim(j) \/ ReclaimFails(j) \/ Timeout(j)
        PROVE  executed' = executed
    BY SMTT(30), <2>1 DEF Dispatch, RetryWithFreshClaim, ReclaimFails, Timeout, history
  <2>2. CASE \/ ClaimGranted \/ SurfaceReceives \/ ResendNext \/ SessionStarts \/ SessionEnds
             \/ ClaimExpires \/ SurfaceDisconnects \/ SurfaceConnects
    BY SMTT(30), <2>2 DEF ClaimGranted, SurfaceReceives, ResendNext, SessionStarts, SessionEnds,
                          ClaimExpires, SurfaceDisconnects, SurfaceConnects, history
  <2>3. CASE \/ Receive \/ Store \/ PublishResult \/ WriteNow \/ WriteChunk \/ Restart \/ Tick
             \/ UNCHANGED vars
    BY <2>3 DEF Receive, Store, PublishResult, WriteNow, WriteChunk, Restart, Tick, vars,
                history
  <2> QED  BY <2>1, <2>2, <2>3, Zenon DEF Next, Surface, Relay
<1>2. ASSUME NEW id \in Ids
      PROVE  executed[id] \in Nat /\ executed'[id] \in Nat /\ executed[id] <= executed'[id]
  <2>1. executed[id] \in Nat /\ executed'[id] \in Nat
    BY <1>0 DEF HandlerTypes
  <2>2. CASE executed' = executed
    BY <2>1, <2>2
  <2>3. CASE Execute
    <3>1. executed' = [executed EXCEPT ![work.id] = executed[work.id] + 1]
      BY <2>3 DEF Execute
    <3>2. executed'[id] = executed[id] \/ executed'[id] = executed[id] + 1
      BY <1>0, <3>1 DEF HandlerTypes
    <3> QED  BY <2>1, <3>2
  <2> QED  BY <1>1, <2>2, <2>3, Zenon
<1>3. <<i, 1>> \in Ids /\ <<i, 2>> \in Ids
  BY DEF Ids
<1>4. PICK a \in Nat, b \in Nat, c \in Nat, d \in Nat :
        /\ a = executed[<<i, 1>>] /\ b = executed[<<i, 2>>] /\ c = executed'[<<i, 1>>]
        /\ d = executed'[<<i, 2>>] /\ a <= c /\ b <= d
  BY <1>2, <1>3, Zenon
<1>5. Effects(i) = a + b /\ Effects(i)' = c + d
  BY <1>4, Zenon DEF Effects
<1> QED  BY <1>4, <1>5

\* A sent id stays sent and a result stays one: intents only move forward.
LEMMA Lasting ==
  ASSUME TypeOK, TypeOK', Expecting, [Next]_vars
  PROVE  /\ \A id \in Ids : Sent(id) => Sent(id)'
         /\ \A id \in Ids : \A v : Genuine(v, id) => Genuine(v, id)'
<1>1. ASSUME NEW id \in Ids, Sent(id) PROVE Sent(id)'
  <2>1. id[1] \in Intents /\ id[2] \in {1, 2}
    BY IdParts, Zenon
  <2>2. IntentStep(id[1])
    BY <2>1, IntentSteps, Zenon
  <2>3. intent[id[1]].st # "idle" /\ id[2] <= intent[id[1]].try
    BY <1>1, Zenon DEF Sent
  <2>4. intent'[id[1]].st # "idle" /\ (intent'[id[1]].try = intent[id[1]].try \/ intent'[id[1]].try = 2)
    <3>1. CASE Untouched(id[1]) \/ Collects(id[1])
      BY <2>3, <3>1, Zenon DEF Untouched, Collects
    <3>2. CASE Begins(id[1])
      BY <2>3, <3>2 DEF Begins
    <3>3. CASE Ends(id[1]) \/ GivesUp(id[1]) \/ Resolves(id[1])
      BY <3>3 DEF Ends, GivesUp, Resolves
    <3> QED  BY <2>2, <3>1, <3>2, <3>3, Zenon DEF IntentStep, Reads
  <2>5. id[2] <= 2
    BY <2>1
  <2>6. id[2] <= intent'[id[1]].try
    BY <2>3, <2>4, <2>5, Zenon
  <2> QED  BY <2>4, <2>6, Zenon DEF Sent
<1>2. ASSUME NEW id \in Ids, NEW v, Genuine(v, id) PROVE Genuine(v, id)'
  <2>1. Effects(id[1]) \in Nat /\ Effects(id[1])' \in Nat /\ Effects(id[1]) <= Effects(id[1])'
    BY EffectsGrow, IdParts, Zenon
  <2>2. Sent(id) /\ v \in 1..Effects(id[1])
    BY <1>2, Zenon DEF Genuine
  <2>3. v \in 1..Effects(id[1])'
    BY <2>1, <2>2
  <2> QED  BY <1>1, <2>2, <2>3, Zenon DEF Genuine
<1> QED  BY <1>1, <1>2, Zenon

\* Nobody asks for an id the dispatcher has not made.
LEMMA KnownStep ==
  ASSUME TypeOK, TypeOK', Expecting, Known, [Next]_vars
  PROVE  Known'
<1>0. SurfaceTypes /\ LinkTypes /\ HandlerTypes
  BY TypeParts, Zenon
<1>1. \A id \in Range(resend) : id \in Ids /\ Sent(id)
  BY <1>0 DEF Known, Range, SurfaceTypes
<1>2. \A request \in Range(uplink) : request.id \in Ids /\ Sent(request.id)
  <2>1. Range(uplink) \subseteq Requests
    BY <1>0 DEF Range, LinkTypes
  <2> QED  BY <2>1 DEF Known, Requests
<1>3. \A id \in Ids : Sent(id) => Sent(id)'
  BY Lasting, Zenon
<1>4. Range(<<>>) = {}
  BY DEF Range
<1>5. ASSUME NEW id \in Range(resend') PROVE Sent(id)'
  <2>1. CASE resend' = resend
    BY <1>1, <1>3, <1>5, <2>1, Zenon
  <2>2. CASE SurfaceDisconnects
    BY <1>4, <1>5, <2>2, Zenon DEF SurfaceDisconnects
  <2>3. CASE ResendNext
    <3>1. resend \in Seq(Ids) /\ resend # <<>> /\ resend' = Tail(resend)
      BY <1>0, <2>3, Zenon DEF ResendNext, SurfaceTypes
    <3> QED  BY <1>1, <1>3, <1>5, <3>1, RangeTaken, Zenon
  <2>4. CASE RelayJoined
    <3>1. AskedAgain \subseteq Ids /\ \A asked \in AskedAgain : Sent(asked)
      <4>1. \A i \in Intents : intent[i].try \in {1, 2} /\ intent[i].try <= intent[i].try
        BY <1>0 DEF SurfaceTypes, IntentRecords
      <4> QED  BY <4>1 DEF AskedAgain, Waiting, Ids, Sent
    <3>3. PICK order \in Orders(AskedAgain) : resend' = resend \o order
      BY <2>4, Zenon DEF RelayJoined
    <3>4. order \in Seq(AskedAgain)
      BY ListedSet, Zenon
    <3>5. order \in Seq(Ids) /\ Range(order) \subseteq AskedAgain
      BY <3>1, <3>4 DEF Range
    <3>6. resend \in Seq(Ids)
      BY <1>0, Zenon DEF SurfaceTypes
    <3>7. id \in Range(resend) \/ id \in Range(order)
      BY <1>5, <3>3, <3>5, <3>6, RangeJoined, Zenon
    <3>8. id \in Ids /\ Sent(id)
      BY <1>1, <3>1, <3>5, <3>7, Zenon
    <3> QED  BY <1>3, <3>8, Zenon
  <2>5. resend' = resend \/ SurfaceDisconnects \/ ResendNext \/ RelayJoined
    <3>1. ASSUME NEW i \in Intents,
                 Dispatch(i) \/ RetryWithFreshClaim(i) \/ ReclaimFails(i) \/ Timeout(i)
          PROVE  resend' = resend
      BY <3>1 DEF Dispatch, RetryWithFreshClaim, ReclaimFails, Timeout
    <3>2. CASE SurfaceReceives
      BY <3>2, Zenon DEF SurfaceReceives
    <3>3. CASE \/ ClaimGranted \/ SessionStarts \/ SessionEnds \/ ClaimExpires \/ SurfaceConnects
               \/ Restart \/ Tick \/ Relay \/ UNCHANGED vars
      BY <3>3, Zenon DEF ClaimGranted, SessionStarts, SessionEnds, ClaimExpires,
                         SurfaceConnects, Restart, Tick, Relay, Receive, Execute, Store,
                         PublishResult, WriteNow, WriteChunk, vars, surfaceVars
    <3> QED  BY <3>1, <3>2, <3>3, Zenon DEF Next, Surface
  <2> QED  BY <2>1, <2>2, <2>3, <2>4, <2>5, Zenon
<1>6. ASSUME NEW request \in Range(uplink') PROVE Sent(request.id)'
  <2>1. CASE uplink' = uplink
    BY <1>2, <1>3, <1>6, <2>1, Zenon
  <2>2. ASSUME NEW id \in Ids, Sent(id)', uplink' = ToRelay(id) PROVE Sent(request.id)'
    <3> DEFINE new == [id |-> id, claimed |-> (claim = "valid")]
    <3>1. new \in Requests /\ new.id = id
      BY DEF Requests
    <3> HIDE DEF new
    <3>2. uplink \in Seq(Requests) /\ (uplink' = uplink \/ uplink' = Append(uplink, new))
      <4>1. CASE session
        BY <1>0, <2>2, <4>1, Zenon DEF LinkTypes, ToRelay, new
      <4>2. CASE ~session
        BY <1>0, <2>2, <4>2, Zenon DEF LinkTypes, ToRelay, new
      <4> QED  BY <4>1, <4>2, Zenon
    <3>3. request \in Range(uplink) \/ request = new
      <4>1. \A x \in Range(Append(uplink, new)) : x \in Range(uplink) \/ x = new
        BY <3>1, <3>2, RangeAppended, Zenon
      <4> QED  BY <1>6, <3>2, <4>1, Zenon
    <3> QED  BY <1>2, <1>3, <2>2, <3>1, <3>3, Zenon
  <2>3. ASSUME NEW i \in Intents, Dispatch(i) \/ RetryWithFreshClaim(i) PROVE Sent(request.id)'
    <3>1. PICK n \in {1, 2} : uplink' = ToRelay(<<i, n>>)
             /\ intent' = [intent EXCEPT ![i] = [intent[i] EXCEPT !.st = "waiting", !.try = n]]
      BY <2>3, Zenon DEF Dispatch, RetryWithFreshClaim, Send
    <3>2. intent[i] \in IntentRecords
          /\ intent'[i] = [intent[i] EXCEPT !.st = "waiting", !.try = n]
      BY <1>0, <3>1, Zenon DEF SurfaceTypes
    <3>3. intent'[i].st # "idle" /\ n <= intent'[i].try
      BY <3>2 DEF IntentRecords
    <3>4. <<i, n>> \in Ids /\ <<i, n>>[1] = i /\ <<i, n>>[2] = n
      BY DEF Ids
    <3>5. Sent(<<i, n>>)'
      BY <3>3, <3>4, Zenon DEF Sent
    <3> QED  BY <2>2, <3>1, <3>4, <3>5, Zenon
  <2>4. CASE ResendNext
    <3>1. resend \in Seq(Ids) /\ resend # <<>>
      BY <1>0, <2>4, Zenon DEF ResendNext, SurfaceTypes
    <3>2. PICK id \in Ids : id = Head(resend) /\ Sent(id)
      BY <1>1, <3>1, RangeTaken, Zenon
    <3>3. uplink' = uplink \/ uplink' = ToRelay(id)
      BY <2>4, <3>2, Zenon DEF ResendNext
    <3> QED  BY <1>3, <2>1, <2>2, <3>2, <3>3, Zenon
  <2>5. CASE ClaimExpires
    <3>1. uplink' = [n \in DOMAIN uplink |-> [uplink[n] EXCEPT !.claimed = FALSE]]
      BY <2>5 DEF ClaimExpires
    <3>2. PICK n \in DOMAIN uplink : request = [uplink[n] EXCEPT !.claimed = FALSE]
      BY <1>6, <3>1, Zenon DEF Range
    <3>3. uplink[n] \in Requests /\ uplink[n] \in Range(uplink)
      BY <1>0 DEF LinkTypes, Range
    <3>4. request.id = uplink[n].id
      BY <3>2, <3>3 DEF Requests
    <3> QED  BY <1>2, <1>3, <3>3, <3>4, Zenon
  <2>6. CASE Receive
    <3>1. uplink \in Seq(Requests) /\ uplink # <<>> /\ uplink' = Tail(uplink)
      BY <1>0, <2>6, Zenon DEF Receive, LinkTypes
    <3> QED  BY <1>2, <1>3, <1>6, <3>1, RangeTaken, Zenon
  <2>7. CASE SessionEnds \/ Restart
    BY <1>4, <1>6, <2>7, Zenon DEF SessionEnds, Restart, SessionLost
  <2>8. ASSUME NEW i \in Intents, ReclaimFails(i) \/ Timeout(i) PROVE uplink' = uplink
    BY <2>8 DEF ReclaimFails, Timeout
  <2>9. CASE \/ ClaimGranted \/ SurfaceReceives \/ SessionStarts \/ SurfaceDisconnects
             \/ SurfaceConnects \/ Tick \/ Execute \/ Store \/ PublishResult \/ WriteNow
             \/ WriteChunk \/ UNCHANGED vars
    <3>1. uplink' = uplink
      BY <2>9 DEF ClaimGranted, SurfaceReceives, SessionStarts, SurfaceDisconnects,
                  SurfaceConnects, Tick, Execute, Store, PublishResult, WriteNow, WriteChunk,
                  vars
    <3> QED  BY <2>1, <3>1, Zenon
  <2> QED  BY <2>1, <2>3, <2>4, <2>5, <2>6, <2>7, <2>8, <2>9, Zenon DEF Next, Surface, Relay
<1>7. work' # Idle => Sent(work.id)'
  <2>1. CASE UNCHANGED work
    <3>1. work # Idle => work.id \in Ids /\ Sent(work.id)
      BY <1>0 DEF HandlerTypes, Works, Known
    <3> QED  BY <1>3, <2>1, <3>1 DEF Sent
  <2>2. CASE Receive
    <3>1. uplink \in Seq(Requests) /\ uplink # <<>>
      BY <1>0, <2>2, Zenon DEF Receive, LinkTypes
    <3>2. PICK id \in Ids : id = Head(uplink).id /\ Sent(id)
      BY <1>2, <3>1, RangeTaken, Zenon
    <3>3. work' = work \/ work' = Idle \/ work'.id = id
      BY <2>2, <3>2 DEF Receive
    <3>4. Sent(id)'
      BY <1>3, <3>2, Zenon
    <3> QED  BY <2>1, <3>3, <3>4, Zenon DEF Sent
  <2>3. CASE Execute \/ Store
    <3>1. work \in Works /\ work.phase \in {"execute", "store"}
      BY <1>0, <2>3 DEF Execute, Store, HandlerTypes
    <3>2. work # Idle /\ work.id \in Ids
      BY <3>1 DEF Works, Idle
    <3>3. work'.id = work.id
      BY <2>3, <3>1 DEF Execute, Store, Works, Idle
    <3>4. PICK id \in Ids : id = work.id /\ Sent(id) /\ Sent(id)'
      BY <1>3, <3>2, Zenon DEF Known
    <3> QED  BY <3>3, <3>4, Zenon DEF Sent
  <2>4. CASE PublishResult \/ Restart
    BY <2>4 DEF PublishResult, Restart
  <2>5. CASE Tick
    BY <2>1, <2>5 DEF Tick
  <2> QED  BY <2>1, <2>2, <2>3, <2>4, <2>5, CacheUntouched, Zenon
<1> QED  BY <1>5, <1>6, <1>7, Zenon DEF Known

\* A frame the surface is sent is the last of its mailbox, if it arrives at all.
LEMMA Published ==
  ASSUME NEW frame
  PROVE  ToSurface(frame) = mailbox \/ (surface.up /\ ToSurface(frame) = Append(mailbox, frame))
<1>1. CASE surface.up
  BY <1>1, Zenon DEF ToSurface
<1>2. CASE ~surface.up
  BY <1>2, Zenon DEF ToSurface
<1> QED  BY <1>1, <1>2, Zenon

\* An entry of the replay cache that holds a result keeps it, or is forgotten.
LEMMA CachedResults ==
  ASSUME TypeOK, [Next]_vars, NEW id \in Ids, cache'[id].done
  PROVE  \/ cache[id].done /\ cache'[id].version = cache[id].version
         \/ work.phase = "store" /\ work.id = id /\ cache'[id].version = work.version
<1>0. HandlerTypes /\ LinkTypes
  BY TypeParts, Zenon
<1>1. ASSUME NEW other \in Ids, Pruned[other].done
      PROVE  cache[other].done /\ Pruned[other].version = cache[other].version
  <2>1. Pruned[other] = cache[other] \/ Pruned[other] = Absent
    BY Zenon DEF Pruned
  <2> QED  BY <1>1, <2>1 DEF Absent
<1>2. CASE UNCHANGED cache
  BY <1>2
<1>3. CASE Receive
  <2>1. Pruned \in [Ids -> [done : BOOLEAN, version : Int, age : 0..ReplayTTL]]
    BY <1>0, CacheUpdates, Zenon DEF Caches, HandlerTypes
  <2>2. PICK other : \/ cache' = cache \/ cache' = Pruned
                     \/ cache' = [Pruned EXCEPT ![other] = InFlight]
    BY <1>3, Zenon DEF Receive
  <2>3. CASE cache' = cache
    BY <1>2, <2>3
  <2>4. CASE cache' = Pruned
    BY <1>1, <2>4, Zenon
  <2>5. CASE cache' = [Pruned EXCEPT ![other] = InFlight]
    <3>1. cache'[id] = InFlight \/ cache'[id] = Pruned[id]
      BY <2>1, <2>5
    <3>2. cache'[id] # InFlight
      BY DEF InFlight
    <3> QED  BY <1>1, <3>1, <3>2, Zenon
  <2> QED  BY <2>2, <2>3, <2>4, <2>5, Zenon
<1>4. CASE Store
  <2> DEFINE c == [Pruned EXCEPT ![work.id] = Completed(work.version)]
  <2>1. Pruned \in [Ids -> [done : BOOLEAN, version : Int, age : 0..ReplayTTL]]
    BY <1>0, CacheUpdates, Zenon DEF Caches, HandlerTypes
  <2>2. cache'[id] = Absent \/ cache'[id] = c[id]
    <3>1. cache' \in Trimmed(c)
      BY <1>4, Zenon DEF Store
    <3> HIDE DEF c
    <3>2. PICK S : cache' = [other \in Ids |-> IF other \in S THEN Absent ELSE c[other]]
      BY <3>1, Zenon DEF Trimmed
    <3> QED  BY <3>2, Zenon
  <2>3. cache'[id] = c[id]
    BY <2>2 DEF Absent
  <2>4. CASE id = work.id
    <3>1. c[id] = Completed(work.version)
      BY <2>1, <2>4, Zenon
    <3>2. cache'[id].version = work.version
      BY <2>3, <3>1 DEF Completed
    <3> QED  BY <1>4, <2>4, <3>2, Zenon DEF Store
  <2>5. CASE id # work.id
    <3>1. c[id] = Pruned[id]
      BY <2>1, <2>5, Zenon
    <3> QED  BY <1>1, <2>3, <3>1, Zenon
  <2> QED  BY <2>4, <2>5, Zenon
<1>5. CASE Restart
  BY <1>5 DEF Restart, Absent
<1>6. CASE Tick
  <2>1. \/ cache'[id] = Absent
        \/ cache'[id] = [cache[id] EXCEPT !.age = AtMost(cache[id].age + 1, ReplayTTL)]
    BY <1>6, Zenon DEF Tick
  <2>2. cache[id] \in [done : BOOLEAN, version : Int, age : 0..ReplayTTL]
    BY <1>0 DEF HandlerTypes, Caches
  <2> QED  BY <2>1, <2>2 DEF Absent
<1>7. CASE Execute \/ PublishResult
  BY <1>2, <1>7 DEF Execute, PublishResult
<1> QED  BY <1>2, <1>3, <1>4, <1>5, <1>6, <1>7, CacheUntouched, Zenon

\* What a step does to the trains of the writer: nothing, or they go with the session; a
\* result is published; or a chunk of the first is written.
LEMMA TrainMoves ==
  ASSUME TypeOK, [Next]_vars
  PROVE  \/ writer'.trains = writer.trains
         \/ writer'.trains = <<>>
         \/ /\ PublishResult
            /\ writer'.trains =
                 Append(writer.trains, [id |-> work.id, version |-> work.version, next |-> 1])
         \/ WriteChunk
<1>0. LinkTypes
  BY TypeParts, Zenon
<1>1. writer \in [now : Seq(Frames), trains : TrainsOf]
  BY <1>0, Zenon DEF LinkTypes
<1>2. CASE UNCHANGED writer
  BY <1>2
<1>3. CASE Receive \/ WriteNow
  <2>1. \/ writer' = writer
        \/ \E now : writer' = [writer EXCEPT !.now = now]
    BY <1>3, Zenon DEF Receive, WriteNow
  <2> QED  BY <1>1, <2>1
<1>4. CASE PublishResult
  <2> DEFINE train == [id |-> work.id, version |-> work.version, next |-> 1]
  <2>1. \/ \E now : writer' = [writer EXCEPT !.now = now]
        \/ writer' = [writer EXCEPT !.trains = Append(writer.trains, train)]
    BY <1>4, Zenon DEF PublishResult
  <2> HIDE DEF train
  <2>2. writer'.trains = writer.trains \/ writer'.trains = Append(writer.trains, train)
    BY <1>1, <2>1
  <2> QED  BY <1>4, <2>2, Zenon DEF train
<1>5. CASE SessionEnds \/ Restart
  BY <1>5 DEF SessionEnds, Restart, SessionLost, NoWriter
<1>6. ASSUME NEW i \in Intents,
             Dispatch(i) \/ RetryWithFreshClaim(i) \/ ReclaimFails(i) \/ Timeout(i)
      PROVE  UNCHANGED writer
  BY SMTT(30), <1>6 DEF Dispatch, RetryWithFreshClaim, ReclaimFails, Timeout, relayVars
<1>7. CASE \/ ClaimGranted \/ SurfaceReceives \/ ResendNext \/ SessionStarts \/ ClaimExpires
           \/ SurfaceDisconnects \/ SurfaceConnects \/ Tick \/ Execute \/ Store \/ UNCHANGED vars
  <2>1. UNCHANGED writer
    BY <1>7 DEF ClaimGranted, SurfaceReceives, ResendNext, SessionStarts, ClaimExpires,
                SurfaceDisconnects, SurfaceConnects, Tick, Execute, Store, vars, relayVars
  <2> QED  BY <1>2, <2>1, Zenon
<1> QED  BY <1>2, <1>3, <1>4, <1>5, <1>6, <1>7, Zenon DEF Next, Surface, Relay

\* What it does to the frames queued for the surface: nothing; one is added that is no
\* chunk, or the next chunk; one is read; or they are lost with its socket.
LEMMA MailboxMoves ==
  ASSUME TypeOK, [Next]_vars
  PROVE  \/ mailbox' = mailbox
         \/ mailbox' \in {Append(mailbox, Presence("left")), Append(mailbox, Presence("joined"))}
         \/ WriteNow /\ mailbox' = Append(mailbox, Head(writer.now))
         \/ WriteChunk
         \/ SurfaceReceives
         \/ SurfaceDisconnects
<1>1. CASE SessionStarts
  <2>1. mailbox' = ToSurface(Presence("joined"))
    BY <1>1, Zenon DEF SessionStarts
  <2> QED  BY <2>1, Published, Zenon
<1>2. CASE SessionEnds \/ Restart
  <2>1. mailbox' = mailbox \/ mailbox' = ToSurface(Presence("left"))
    BY <1>2, Zenon DEF SessionEnds, Restart, SessionLost
  <2> QED  BY <2>1, Published, Zenon
<1>3. CASE WriteNow
  <2>1. mailbox' = ToSurface(Head(writer.now))
    BY <1>3, Zenon DEF WriteNow
  <2> QED  BY <1>3, <2>1, Published, Zenon
<1>4. ASSUME NEW i \in Intents,
             Dispatch(i) \/ RetryWithFreshClaim(i) \/ ReclaimFails(i) \/ Timeout(i)
      PROVE  mailbox' = mailbox
  BY SMTT(30), <1>4 DEF Dispatch, RetryWithFreshClaim, ReclaimFails, Timeout
<1>5. CASE \/ ClaimGranted \/ ResendNext \/ ClaimExpires \/ SurfaceConnects \/ Tick \/ Receive
           \/ Execute \/ Store \/ PublishResult \/ UNCHANGED vars
  BY <1>5 DEF ClaimGranted, ResendNext, ClaimExpires, SurfaceConnects, Tick, Receive, Execute,
              Store, PublishResult, vars
<1> QED  BY <1>1, <1>2, <1>3, <1>4, <1>5, Zenon DEF Next, Surface, Relay

\* The train whose chunk is written: the frame it sends, and what is left of the trains.
LEMMA ChunkWritten ==
  ASSUME TypeOK, WriteChunk
  PROVE  \E train \in OneTrain :
           /\ writer.trains # <<>> /\ train = writer.trains[1] /\ train \in Range(writer.trains)
           /\ mailbox' = ToSurface(Chunk(train.id, train.version, train.next))
           /\ \/ /\ train.next = Chunks
                 /\ writer'.trains = Tail(writer.trains)
              \/ \E more \in OneTrain :
                   /\ train.next # Chunks
                   /\ more.id = train.id /\ more.version = train.version
                   /\ more.next = train.next + 1
                   /\ writer'.trains = [writer.trains EXCEPT ![1] = more]
<1>0. LinkTypes
  BY TypeParts, Zenon
<1>1. /\ writer \in [now : Seq(Frames), trains : TrainsOf]
      /\ writer.trains \in Seq(OneTrain) /\ writer.trains # <<>>
  BY <1>0 DEF LinkTypes, TrainsOf, WriteChunk
<1>2. PICK train \in OneTrain : train = Head(writer.trains)
  BY <1>1
<1>3. train = writer.trains[1] /\ train \in Range(writer.trains)
  BY <1>1, <1>2, RangeTaken, Zenon
<1>4. mailbox' = ToSurface(Chunk(train.id, train.version, train.next))
  BY <1>2, Zenon DEF WriteChunk
<1>5. CASE LastChunk(train)
  <2>1. writer' = [writer EXCEPT !.trains = Tail(writer.trains)]
    BY <1>2, <1>5, Zenon DEF WriteChunk
  <2>2. writer'.trains = Tail(writer.trains)
    BY <1>1, <2>1
  <2> QED  BY <1>1, <1>3, <1>4, <1>5, <2>2, Zenon DEF LastChunk
<1>6. CASE ~LastChunk(train)
  <2> DEFINE more == [train EXCEPT !.next = train.next + 1]
  <2>1. writer' = [writer EXCEPT !.trains = [writer.trains EXCEPT ![1] = more]]
    BY <1>2, <1>3, <1>6, Zenon DEF WriteChunk
  <2>2. train.next \in 1..Chunks /\ train.next # Chunks
    BY <1>6 DEF OneTrain, LastChunk
  <2>3. train.next + 1 \in 1..Chunks
    BY <2>2, RemoteActionsAssumption
  <2>4. more \in OneTrain /\ more.id = train.id /\ more.version = train.version
        /\ more.next = train.next + 1
    BY <2>3 DEF OneTrain
  <2> HIDE DEF more
  <2>5. writer'.trains = [writer.trains EXCEPT ![1] = more]
    BY <1>1, <2>1
  <2> QED  BY <1>1, <1>3, <1>4, <2>2, <2>4, <2>5, Zenon
<1> QED  BY <1>5, <1>6, Zenon

\* Nobody answers with anything but the result of an execution: what is stored, replayed,
\* queued, written and read.
LEMMA OutcomesStep ==
  ASSUME TypeOK, TypeOK', Expecting, Known, Outcomes, [Next]_vars
  PROVE  Outcomes'
<1>0. SurfaceTypes /\ LinkTypes /\ HandlerTypes
  BY TypeParts, Zenon
<1>1. \A id \in Ids : \A v : Genuine(v, id) => Genuine(v, id)'
  BY Lasting, Zenon
<1>2. ASSUME NEW frame \in Frames, GenuineFrame(frame) PROVE GenuineFrame(frame)'
  <2>1. frame.type \in {"chunk", "result"} => frame.id \in Ids
    BY FrameFields, Zenon
  <2> QED  BY <1>1, <1>2, <2>1, Zenon DEF GenuineFrame
<1>3. /\ mailbox \in Seq(Frames) /\ writer.now \in Seq(Frames) /\ writer.trains \in Seq(OneTrain)
  BY <1>0 DEF LinkTypes, TrainsOf
<1>4. Range(mailbox) \subseteq Frames /\ Range(writer.now) \subseteq Frames
      /\ Range(writer.trains) \subseteq OneTrain /\ Range(<<>>) = {}
  BY <1>3 DEF Range
<1>5. ASSUME NEW id, NEW v, work'.phase \in {"store", "publish"}, id = work'.id, v = work'.version
      PROVE  Genuine(v, id)'
  <2>1. CASE UNCHANGED work
    <3>1. work \in Works /\ work.phase \in {"store", "publish"} /\ id = work.id /\ v = work.version
      BY <1>0, <1>5, <2>1, Zenon DEF HandlerTypes
    <3>2. id \in Ids
      BY <3>1 DEF Works, Idle
    <3> QED  BY <1>1, <3>1, <3>2, Zenon DEF Outcomes
  <2>2. CASE Receive
    <3>1. uplink \in Seq(Requests) /\ uplink # <<>>
      BY <1>0, <2>2, Zenon DEF Receive, LinkTypes
    <3>2. PICK req \in Requests : req = Head(uplink)
      BY <3>1
    <3>3. req.id \in Ids
      BY <3>2 DEF Requests
    <3>4. \/ work' = work \/ work' = [phase |-> "execute", id |-> req.id] \/ work' = Idle
          \/ Pruned[req.id].done
             /\ work' = [phase |-> "publish", id |-> req.id, version |-> Pruned[req.id].version]
      BY <2>2, <3>2 DEF Receive
    <3>5. CASE work' = work
      BY <2>1, <3>5
    <3>6. CASE Pruned[req.id].done
               /\ work' = [phase |-> "publish", id |-> req.id, version |-> Pruned[req.id].version]
      <4>1. id = req.id /\ v = Pruned[req.id].version
        BY <1>5, <3>6
      <4>2. Pruned[req.id] = cache[req.id] \/ Pruned[req.id] = Absent
        BY <3>3, Zenon DEF Pruned
      <4>3. Pruned[req.id] = cache[req.id]
        BY SMTT(30), <3>6, <4>2 DEF Absent
      <4>4. Genuine(v, id)
        BY <3>3, <3>6, <4>1, <4>3, Zenon DEF Outcomes
      <4> QED  BY <1>1, <3>3, <4>1, <4>4, Zenon
    <3> QED  BY <1>5, <3>4, <3>5, <3>6 DEF Idle
  <2>3. CASE Execute
    <3>1. work \in Works /\ work.phase = "execute"
      BY SMTT(30), <1>0, <2>3 DEF Execute, HandlerTypes
    <3>2. work # Idle /\ work.id \in Ids
      BY <3>1 DEF Works, Idle
    <3>3. /\ work' = [phase |-> "store", id |-> work.id, version |-> Effects(work.id[1]) + 1]
          /\ executed' = [executed EXCEPT ![work.id] = executed[work.id] + 1]
      BY <2>3 DEF Execute
    <3>4. id = work.id /\ v = Effects(id[1]) + 1
      BY SMTT(30), <1>5, <3>3
    <3>5. Sent(id)'
      BY <3>2, <3>4, Lasting, Zenon DEF Known
    <3>6. Effects(id[1]) \in Nat /\ Effects(id[1])' = Effects(id[1]) + 1
      <4>1. id \in Ids /\ id[1] \in Intents /\ <<id[1], 1>> \in Ids /\ <<id[1], 2>> \in Ids
            /\ (id = <<id[1], 1>> \/ id = <<id[1], 2>>)
        BY <3>2, <3>4 DEF Ids
      <4>2. <<id[1], 1>> # <<id[1], 2>>
        OBVIOUS
      <4>3. executed \in [Ids -> Nat] /\ executed' = [executed EXCEPT ![id] = executed[id] + 1]
        BY <1>0, <3>3, <3>4, Zenon DEF HandlerTypes
      <4>4. PICK one, two : one = <<id[1], 1>> /\ two = <<id[1], 2>>
        BY Zenon
      <4>5. /\ executed[one] \in Nat /\ executed[two] \in Nat
            /\ executed'[one] + executed'[two] = executed[one] + executed[two] + 1
        BY <4>1, <4>2, <4>3, <4>4
      <4>6. Effects(id[1]) = executed[one] + executed[two]
            /\ Effects(id[1])' = executed'[one] + executed'[two]
        BY <4>4, Zenon DEF Effects
      <4> QED  BY <4>5, <4>6
    <3>7. v \in 1..Effects(id[1])'
      BY <3>4, <3>6
    <3> QED  BY <3>5, <3>7, Zenon DEF Genuine
  <2>4. CASE Store
    <3>1. work \in Works /\ work.phase = "store" /\ work' = [work EXCEPT !.phase = "publish"]
      BY <1>0, <2>4 DEF Store, HandlerTypes
    <3>2. work.id \in Ids /\ work'.id = work.id /\ work'.version = work.version
      BY <3>1 DEF Works, Idle
    <3>3. Genuine(v, id) /\ id \in Ids
      BY <1>5, <3>1, <3>2, Zenon DEF Outcomes
    <3> QED  BY <1>1, <3>3, Zenon
  <2>5. CASE PublishResult \/ Restart
    BY <1>5, <2>5 DEF PublishResult, Restart, Idle
  <2>6. CASE Tick
    BY <2>1, <2>6 DEF Tick
  <2> QED  BY <2>1, <2>2, <2>3, <2>4, <2>5, <2>6, CacheUntouched, Zenon
<1>6. ASSUME NEW id \in Ids, NEW v, cache'[id].done, v = cache'[id].version
      PROVE  Genuine(v, id)'
  <2>1. Genuine(v, id)
    BY <1>6, CachedResults, Zenon DEF Outcomes
  <2> QED  BY <1>1, <2>1, Zenon
<1>7. ASSUME NEW train \in Range(writer'.trains) PROVE Genuine(train.version, train.id)'
  <2>1. ASSUME NEW old \in Range(writer.trains), train.id = old.id, train.version = old.version
        PROVE  Genuine(train.version, train.id)'
    <3>1. Genuine(old.version, old.id) /\ old.id \in Ids
      BY <1>4 DEF Outcomes, OneTrain
    <3> QED  BY <1>1, <2>1, <3>1, Zenon
  <2>2. CASE writer'.trains = writer.trains
    BY <1>7, <2>1, <2>2, Zenon
  <2>3. CASE writer'.trains = <<>>
    BY <1>4, <1>7, <2>3, Zenon
  <2>4. CASE PublishResult
             /\ writer'.trains =
                  Append(writer.trains, [id |-> work.id, version |-> work.version, next |-> 1])
    <3>1. work \in Works /\ work.phase = "publish"
      BY SMTT(30), <1>0, <2>4 DEF PublishResult, HandlerTypes
    <3>2. work.id \in Ids /\ work.version \in Nat
      BY <3>1 DEF Works, Idle
    <3>3. PICK new \in OneTrain : new.id = work.id /\ new.version = work.version
                                  /\ writer'.trains = Append(writer.trains, new)
      <4> DEFINE new == [id |-> work.id, version |-> work.version, next |-> 1]
      <4>1. new \in OneTrain /\ new.id = work.id /\ new.version = work.version
        BY <3>2, RemoteActionsAssumption DEF OneTrain
      <4> QED  BY <2>4, <4>1, Zenon
    <3>4. \A x \in Range(Append(writer.trains, new)) : x \in Range(writer.trains) \/ x = new
      BY <1>3, RangeAppended, Zenon
    <3>5. Genuine(work.version, work.id)
      BY <3>1, Zenon DEF Outcomes
    <3>6. CASE train = new
      BY <1>1, <3>2, <3>3, <3>5, <3>6, Zenon
    <3> QED  BY <1>7, <2>1, <3>3, <3>4, <3>6, Zenon
  <2>5. CASE WriteChunk
    <3>1. PICK first \in OneTrain :
            /\ writer.trains # <<>> /\ first \in Range(writer.trains)
            /\ \/ writer'.trains = Tail(writer.trains)
               \/ \E more \in OneTrain :
                    /\ more.id = first.id /\ more.version = first.version
                    /\ writer'.trains = [writer.trains EXCEPT ![1] = more]
      BY <2>5, ChunkWritten, Zenon
    <3>2. CASE writer'.trains = Tail(writer.trains)
      <4>1. train \in Range(writer.trains)
        BY <1>3, <1>7, <3>1, <3>2, RangeTaken, Zenon
      <4> QED  BY <2>1, <4>1, Zenon
    <3>3. ASSUME NEW more \in OneTrain, more.id = first.id, more.version = first.version,
                 writer'.trains = [writer.trains EXCEPT ![1] = more]
          PROVE  Genuine(train.version, train.id)'
      <4>1. train = more \/ train \in Range(writer.trains)
        BY <1>7, <3>3, Zenon DEF Range
      <4> QED  BY <2>1, <3>1, <3>3, <4>1, Zenon
    <3> QED  BY <3>1, <3>2, <3>3, Zenon
  <2> QED  BY <2>2, <2>3, <2>4, <2>5, TrainMoves, Zenon
<1>8. ASSUME NEW frame \in Range(writer'.now) PROVE frame.type = "result" /\ GenuineFrame(frame)'
  <2>1. CASE frame \in Range(writer.now)
    BY <1>2, <1>4, <2>1, Zenon DEF Outcomes
  <2>2. ASSUME NEW id \in Ids, NEW o \in {"ok", "busy", "refused"}, NEW v \in Nat,
               frame = Result(id, o, v), o = "ok" => Genuine(v, id)
        PROVE  frame.type = "result" /\ GenuineFrame(frame)'
    <3>1. frame \in Frames
      BY <2>2, FrameTypes, Zenon
    <3>2. frame.type = "result" /\ frame.id = id /\ frame.outcome = o /\ frame.version = v
      BY <2>2 DEF Result
    <3>3. GenuineFrame(frame)
      BY <2>2, <3>2 DEF GenuineFrame
    <3> QED  BY <1>2, <3>1, <3>2, <3>3, Zenon
  <2>3. CASE writer'.now = writer.now
    BY <1>8, <2>1, <2>3, Zenon
  <2>4. CASE WriteNow
    <3>1. writer.now # <<>> /\ writer'.now = Tail(writer.now)
      BY <1>0, <2>4 DEF WriteNow, LinkTypes
    <3>2. frame \in Range(writer.now)
      BY <1>3, <1>8, <3>1, RangeTaken, Zenon
    <3> QED  BY <2>1, <3>2, Zenon
  <2>5. CASE Receive
    <3>1. uplink \in Seq(Requests) /\ uplink # <<>>
      BY <1>0, <2>5, Zenon DEF Receive, LinkTypes
    <3>2. PICK req \in Requests : req = Head(uplink)
      BY <3>1
    <3>3. req.id \in Ids
      BY <3>2 DEF Requests
    <3>4. writer' = writer
          \/ writer' = [writer EXCEPT !.now = Append(writer.now, Result(req.id, "refused", 0))]
      BY <2>5, <3>2, Zenon DEF Receive
    <3>5. PICK new \in Frames : new = Result(req.id, "refused", 0)
      BY <3>3, FrameTypes
    <3>6. writer'.now = writer.now \/ writer'.now = Append(writer.now, new)
      BY <1>0, <3>4, <3>5 DEF LinkTypes
    <3>7. CASE writer'.now = Append(writer.now, new)
      <4>1. frame \in Range(writer.now) \/ frame = new
        <5>1. \A x \in Range(Append(writer.now, new)) : x \in Range(writer.now) \/ x = new
          BY <1>3, RangeAppended, Zenon
        <5> QED  BY <1>8, <3>7, <5>1, Zenon
      <4>2. CASE frame = new
        <5>1. "refused" \in {"ok", "busy", "refused"} /\ "refused" # "ok" /\ 0 \in Nat
          OBVIOUS
        <5> QED  BY <2>2, <3>3, <3>5, <4>2, <5>1, Zenon
      <4> QED  BY <2>1, <4>1, <4>2, Zenon
    <3> QED  BY <2>3, <3>6, <3>7, Zenon
  <2>6. CASE PublishResult
    <3>1. work \in Works /\ work.phase = "publish"
      BY <1>0, <2>6 DEF PublishResult, HandlerTypes
    <3>2. work.id \in Ids /\ work.version \in Nat
      BY <3>1 DEF Works, Idle
    <3>3. \/ \E trains : writer' = [writer EXCEPT !.trains = trains]
          \/ \E o \in {"ok", "busy"} :
               writer' = [writer EXCEPT !.now = Append(writer.now, Result(work.id, o, work.version))]
      BY <2>6, Zenon DEF PublishResult
    <3>4. CASE \E trains : writer' = [writer EXCEPT !.trains = trains]
      <4>1. writer'.now = writer.now
        BY <1>0, <3>4 DEF LinkTypes
      <4> QED  BY <2>3, <4>1, Zenon
    <3>5. ASSUME NEW o \in {"ok", "busy"},
                 writer' = [writer EXCEPT !.now = Append(writer.now, Result(work.id, o, work.version))]
          PROVE  frame.type = "result" /\ GenuineFrame(frame)'
      <4>1. o \in {"ok", "busy", "refused"}
        BY Zenon
      <4>2. PICK new \in Frames : new = Result(work.id, o, work.version)
        BY <3>2, <4>1, FrameTypes, Zenon
      <4>3. writer'.now = Append(writer.now, new)
        BY <1>0, <3>5, <4>2 DEF LinkTypes
      <4>4. frame \in Range(writer.now) \/ frame = new
        <5>1. \A x \in Range(Append(writer.now, new)) : x \in Range(writer.now) \/ x = new
          BY <1>3, RangeAppended, Zenon
        <5> QED  BY <1>8, <4>3, <5>1, Zenon
      <4>5. Genuine(work.version, work.id)
        BY <3>1, Zenon DEF Outcomes
      <4>6. CASE frame = new
        BY <2>2, <3>2, <4>1, <4>2, <4>5, <4>6, Zenon
      <4> QED  BY <2>1, <4>4, <4>6, Zenon
    <3> QED  BY <3>3, <3>4, <3>5, Zenon
  <2>7. CASE SessionEnds \/ Restart
    BY <1>4, <1>8, <2>7 DEF SessionEnds, Restart, SessionLost, NoWriter
  <2>8. CASE WriteChunk
    <3>1. \E trains : writer' = [writer EXCEPT !.trains = trains]
      BY <2>8, Zenon DEF WriteChunk
    <3>2. writer'.now = writer.now
      BY <1>0, <3>1 DEF LinkTypes
    <3> QED  BY <2>3, <3>2, Zenon
  <2>9. ASSUME NEW i \in Intents,
               Dispatch(i) \/ RetryWithFreshClaim(i) \/ ReclaimFails(i) \/ Timeout(i)
        PROVE  writer' = writer
    BY <2>9 DEF Dispatch, RetryWithFreshClaim, ReclaimFails, Timeout, relayVars
  <2>10. CASE \/ ClaimGranted \/ SurfaceReceives \/ ResendNext \/ SessionStarts \/ ClaimExpires
              \/ SurfaceDisconnects \/ SurfaceConnects \/ Tick \/ Execute \/ Store \/ UNCHANGED vars
    <3>1. writer' = writer
      BY <2>10 DEF ClaimGranted, SurfaceReceives, ResendNext, SessionStarts, ClaimExpires,
                   SurfaceDisconnects, SurfaceConnects, Tick, Execute, Store, vars, relayVars
    <3> QED  BY <2>3, <3>1, Zenon
  <2> QED
    BY <2>3, <2>4, <2>5, <2>6, <2>7, <2>8, <2>9, <2>10, Zenon DEF Next, Surface, Relay
<1>9. ASSUME NEW frame \in Range(mailbox') PROVE GenuineFrame(frame)'
  <2>1. CASE frame \in Range(mailbox)
    BY <1>2, <1>4, <2>1, Zenon DEF Outcomes
  <2>2. ASSUME NEW new \in Frames, GenuineFrame(new), mailbox' \in {mailbox, Append(mailbox, new)}
        PROVE  GenuineFrame(frame)'
    <3>1. \A x \in Range(Append(mailbox, new)) : x \in Range(mailbox) \/ x = new
      BY <1>3, RangeAppended, Zenon
    <3>2. frame \in Range(mailbox) \/ frame = new
      BY <1>9, <2>2, <3>1, Zenon
    <3> QED  BY <1>2, <2>1, <2>2, <3>2, Zenon
  <2>3. \A kind \in {"left", "joined"} : GenuineFrame(Presence(kind)) /\ Presence(kind) \in Frames
    BY FrameTypes DEF GenuineFrame, Presence
  <2>4. CASE mailbox' = mailbox
    BY <1>9, <2>1, <2>4, Zenon
  <2>5. CASE mailbox' \in {Append(mailbox, Presence("left")), Append(mailbox, Presence("joined"))}
    BY <2>2, <2>3, <2>5, Zenon
  <2>6. CASE WriteNow /\ mailbox' = Append(mailbox, Head(writer.now))
    <3>1. writer.now # <<>>
      BY <2>6, Zenon DEF WriteNow
    <3>2. Head(writer.now) \in Frames /\ Head(writer.now) \in Range(writer.now)
      BY <1>3, <3>1, RangeTaken, Zenon
    <3> QED  BY <2>2, <2>6, <3>2, Zenon DEF Outcomes
  <2>7. CASE WriteChunk
    <3>1. PICK train \in OneTrain :
            /\ train \in Range(writer.trains)
            /\ mailbox' = ToSurface(Chunk(train.id, train.version, train.next))
      BY <2>7, ChunkWritten, Zenon
    <3>2. PICK new \in Frames : new = Chunk(train.id, train.version, train.next)
      <4>1. train.id \in Ids /\ train.version \in Nat /\ train.next \in 1..Chunks
        BY DEF OneTrain
      <4> QED  BY <4>1, FrameTypes, Zenon
    <3>3. new.version = train.version /\ new.id = train.id
      BY <3>2 DEF Chunk
    <3>4. GenuineFrame(new)
      BY <3>1, <3>3, Zenon DEF Outcomes, GenuineFrame
    <3> QED  BY <2>2, <3>1, <3>2, <3>4, Published, Zenon
  <2>8. CASE SurfaceReceives
    <3>1. frame \in Range(mailbox)
      BY <1>3, <1>9, <2>8, RangeTaken, Zenon DEF SurfaceReceives
    <3> QED  BY <2>1, <3>1, Zenon
  <2>9. CASE SurfaceDisconnects
    BY <1>4, <1>9, <2>9, Zenon DEF SurfaceDisconnects
  <2> QED  BY <2>4, <2>5, <2>6, <2>7, <2>8, <2>9, MailboxMoves, Zenon
<1>10. (work.phase \in {"store", "publish"} => Genuine(work.version, work.id))'
  <2>1. PICK id, v : id = work'.id /\ v = work'.version
    BY Zenon
  <2>2. ASSUME work'.phase \in {"store", "publish"} PROVE Genuine(v, id)'
    BY <1>5, <2>1, <2>2
  <2> QED  BY <2>1, <2>2, Zenon DEF Genuine, Sent, Effects
<1>11. (\A id \in Ids : cache[id].done => Genuine(cache[id].version, id))'
  BY <1>6, Zenon DEF Genuine, Sent, Effects
<1> QED  BY <1>7, <1>8, <1>9, <1>10, <1>11, Zenon DEF Outcomes

\* A train is handed over whole, and only the first one is being written.
LEMMA OneResidentStep ==
  ASSUME TypeOK, OneResident, [Next]_vars
  PROVE  OneResident'
<1>0. LinkTypes
  BY TypeParts, Zenon
<1>1. writer.trains \in Seq(OneTrain)
  BY <1>0 DEF LinkTypes, TrainsOf
<1>2. PICK old \in Seq(OneTrain) : old = writer.trains /\ \A k \in 2..Len(old) : old[k].next = 1
  BY <1>1, Zenon DEF OneResident
<1>3. CASE writer'.trains = writer.trains
  BY <1>3, Zenon DEF OneResident
<1>4. CASE writer'.trains = <<>>
  BY <1>4 DEF OneResident
<1>5. ASSUME writer'.trains =
               Append(writer.trains, [id |-> work.id, version |-> work.version, next |-> 1])
      PROVE  OneResident'
  <2>1. PICK new : new.next = 1 /\ writer'.trains = Append(old, new)
    <3> DEFINE new == [id |-> work.id, version |-> work.version, next |-> 1]
    <3>1. new.next = 1
      OBVIOUS
    <3> QED  BY <1>2, <1>5, <3>1, Zenon
  <2>2. \A k \in 2..Len(writer'.trains) : writer'.trains[k].next = 1
    <3>1. /\ Len(old) \in Nat /\ Len(writer'.trains) = Len(old) + 1
          /\ writer'.trains[Len(old) + 1] = new
          /\ \A k \in 1..Len(old) : writer'.trains[k] = old[k]
      BY <2>1
    <3>2. \A k \in 2..Len(old) + 1 : k = Len(old) + 1 \/ (k \in 2..Len(old) /\ k \in 1..Len(old))
      BY <3>1
    <3> QED  BY <1>2, <2>1, <3>1, <3>2, Zenon
  <2> QED  BY <2>2, Zenon DEF OneResident
<1>6. CASE WriteChunk
  <2>1. \/ writer.trains # <<>> /\ writer'.trains = Tail(writer.trains)
        \/ \E more \in OneTrain : writer'.trains = [writer.trains EXCEPT ![1] = more]
    BY <1>6, ChunkWritten, Zenon
  <2>2. CASE old # <<>> /\ writer'.trains = Tail(old)
    <3>1. /\ Len(old) \in Nat /\ Len(writer'.trains) = Len(old) - 1
          /\ \A k \in 1..Len(old) - 1 : writer'.trains[k] = old[k + 1]
      BY <2>2
    <3>2. \A k \in 2..Len(old) - 1 : k \in 1..Len(old) - 1 /\ k + 1 \in 2..Len(old)
      BY <3>1
    <3>3. ASSUME NEW k \in 2..Len(writer'.trains) PROVE writer'.trains[k].next = 1
      <4>1. k \in 1..Len(old) - 1 /\ k + 1 \in 2..Len(old)
        BY <3>1, <3>2
      <4>2. writer'.trains[k] = old[k + 1] /\ old[k + 1].next = 1
        BY <1>2, <3>1, <4>1
      <4> QED  BY <4>2, Zenon
    <3> QED  BY <3>3, Zenon DEF OneResident
  <2>3. ASSUME NEW more \in OneTrain, writer'.trains = [old EXCEPT ![1] = more]
        PROVE  OneResident'
    <3>1. /\ Len(old) \in Nat /\ Len(writer'.trains) = Len(old)
          /\ \A k \in 2..Len(old) : writer'.trains[k] = old[k]
      BY <2>3
    <3>2. \A k \in 2..Len(writer'.trains) : writer'.trains[k].next = 1
      BY <1>2, <3>1, Zenon
    <3> QED  BY <3>2, Zenon DEF OneResident
  <2> QED  BY <1>2, <2>1, <2>2, <2>3, Zenon
<1> QED  BY <1>3, <1>4, <1>5, <1>6, TrainMoves, Zenon

\* The chunk a page reads is of an execution's result, and it holds the ones before it.
LEMMA ChunkRead ==
  ASSUME TypeOK, Expecting, Outcomes, InARow, mailbox # <<>>, NEW i \in Intents,
         intent[i].st = "waiting", ChunkOf(Head(mailbox), <<i, intent[i].try>>)
  PROVE  LET frame == Head(mailbox)
             held == Holding(parts[i], frame)
         IN /\ frame.n \in 1..Chunks /\ frame.version \in 1..Effects(i)
            /\ \A c \in 1..frame.n : held[c] = frame.version
            /\ held[Chunks] # 0 => frame.n = Chunks
<1>0. SurfaceTypes /\ LinkTypes
  BY TypeParts, Zenon
<1>1. mailbox \in Seq(Frames)
  BY <1>0, Zenon DEF LinkTypes
<1>2. PICK frame \in Frames : frame = Head(mailbox) /\ frame = mailbox[1] /\ frame \in Range(mailbox)
  BY <1>1, RangeTaken, Zenon
<1>3. PICK id : id = <<i, intent[i].try>>
  BY Zenon
<1>4. frame.type = "chunk" /\ frame.id = id /\ ChunkOf(mailbox[1], id)
  BY <1>2, <1>3, Zenon DEF ChunkOf
<1>5. id \in Ids /\ frame.n \in 1..Chunks /\ frame.version \in Nat
  BY <1>4, FrameFields, Zenon
<1>6. id[1] = i
  BY <1>3
<1>7. Pending(id)
  BY <1>3, <1>5, <1>6, PendingId, Zenon
<1>8. frame.version \in 1..Effects(i)
  BY <1>2, <1>4, <1>6, Zenon DEF Outcomes, GenuineFrame, Genuine
<1>9. \A c \in 1..frame.n - 1 : parts[i][c] = frame.version
  <2>1. Chained(mailbox, parts[i], id)
    BY <1>5, <1>6, <1>7, Zenon DEF InARow
  <2> QED  BY <1>1, <1>2, <1>4, <2>1, HeldBefore, Zenon
<1>10. parts[i] \in [1..Chunks -> Nat] /\ parts[i][Chunks] = 0 /\ Chunks \in 1..Chunks
  BY <1>0, RemoteActionsAssumption DEF SurfaceTypes, Held, Expecting
<1>11. PICK held : held = [parts[i] EXCEPT ![frame.n] = frame.version]
  BY Zenon
<1>12. /\ held[frame.n] = frame.version
       /\ \A c \in 1..Chunks : c # frame.n => held[c] = parts[i][c]
  BY <1>5, <1>10, <1>11, Zenon
<1>13. \A c \in 1..frame.n : c = frame.n \/ (c \in 1..frame.n - 1 /\ c \in 1..Chunks /\ c # frame.n)
  BY <1>5, RemoteActionsAssumption
<1>14. \A c \in 1..frame.n : held[c] = frame.version
  BY <1>9, <1>12, <1>13, Zenon
<1>15. held[Chunks] # 0 => frame.n = Chunks
  BY <1>10, <1>12, Zenon
<1>16. held = Holding(parts[i], frame)
  BY <1>11, Zenon DEF Holding
<1> QED  BY <1>2, <1>5, <1>8, <1>14, <1>15, <1>16, Zenon

\* The page keeps chunks for what it waits for.  The last chunk of a reply follows on the
\* others, so that it completes the reply and is never kept.
LEMMA ExpectingStep ==
  ASSUME TypeOK, TypeOK', Expecting, Outcomes, InARow, [Next]_vars, NEW i \in Intents
  PROVE  /\ intent'[i].st \in {"idle", "reclaiming"} => intent'[i].try = 1
         /\ intent'[i].st # "waiting" => parts'[i] = NoParts
         /\ parts'[i][Chunks] = 0
         /\ intent'[i].st = "waiting" => surface'.up
<1>0. SurfaceTypes /\ LinkTypes
  BY TypeParts, Zenon
<1>1. /\ intent[i].st \in {"idle", "reclaiming"} => intent[i].try = 1
      /\ intent[i].st # "waiting" => parts[i] = NoParts
      /\ parts[i][Chunks] = 0
      /\ intent[i].st = "waiting" => surface.up
  BY Zenon DEF Expecting
<1>2. NoParts[Chunks] = 0
  BY RemoteActionsAssumption DEF NoParts
<1>3. IntentStep(i)
  BY IntentSteps, Zenon
<1>4. intent'[i].st = "waiting" => surface'.up
  <2>1. CASE SurfaceDisconnects
    <3>1. Settle({j \in Intents : intent[j].st \in {"waiting", "reclaiming"}}, "failed")
      BY <2>1, Zenon DEF SurfaceDisconnects
    <3>2. CASE intent[i].st \in {"waiting", "reclaiming"}
      <4>1. intent'[i] = [intent[i] EXCEPT !.st = "failed"] /\ intent[i] \in IntentRecords
        BY <1>0, <3>1, <3>2, Zenon DEF Settle, SurfaceTypes
      <4>2. intent'[i].st = "failed"
        BY <4>1 DEF IntentRecords
      <4> QED  BY <4>2
    <3>3. CASE intent[i].st \notin {"waiting", "reclaiming"}
      <4>1. intent'[i] = intent[i]
        BY <3>1, <3>3, Zenon DEF Settle
      <4> QED  BY <3>3, <4>1, Zenon
    <3> QED  BY <3>2, <3>3, Zenon
  <2>2. CASE ~SurfaceDisconnects
    <3>1. surface.up => surface'.up
      <4>1. ASSUME NEW j \in Intents,
                   Dispatch(j) \/ RetryWithFreshClaim(j) \/ ReclaimFails(j) \/ Timeout(j)
            PROVE  surface' = surface
        BY <4>1 DEF Dispatch, RetryWithFreshClaim, ReclaimFails, Timeout
      <4>2. CASE SurfaceReceives
        <5>1. surface' = surface \/ \E c \in BOOLEAN : surface' = [surface EXCEPT !.relayConnected = c]
          BY <4>2, Zenon DEF SurfaceReceives, RelayJoined
        <5> QED  BY <1>0, <5>1 DEF SurfaceTypes
      <4>3. CASE SurfaceConnects
        BY <4>3 DEF SurfaceConnects
      <4>4. CASE \/ ClaimGranted \/ ResendNext \/ SessionStarts \/ SessionEnds \/ ClaimExpires
                 \/ Restart \/ Tick \/ Relay \/ UNCHANGED vars
        <5>1. surface' = surface
          BY <4>4, Zenon DEF ClaimGranted, ResendNext, SessionStarts, SessionEnds, ClaimExpires,
                             Restart, Tick, Relay, Receive, Execute, Store, PublishResult,
                             WriteNow, WriteChunk, vars, surfaceVars
        <5> QED  BY <5>1
      <4> QED  BY <2>2, <4>1, <4>2, <4>3, <4>4, Zenon DEF Next, Surface
    <3>2. intent'[i].st = "waiting" => surface.up
      <4>1. CASE Untouched(i) \/ Collects(i)
        BY <1>1, <4>1, Zenon DEF Untouched, Collects
      <4>2. CASE Begins(i) \/ Ends(i) \/ GivesUp(i) \/ Resolves(i)
        BY <4>2 DEF Begins, Ends, GivesUp, Resolves
      <4> QED  BY <1>3, <4>1, <4>2, Zenon DEF IntentStep, Reads
    <3> QED  BY <3>1, <3>2, Zenon
  <2> QED  BY <2>1, <2>2, Zenon
<1>5. CASE Untouched(i) \/ Begins(i) \/ Ends(i) \/ GivesUp(i) \/ Resolves(i)
  <2>1. CASE Untouched(i)
    BY <1>1, <1>4, <2>1, Zenon DEF Untouched
  <2>2. CASE Begins(i)
    <3>1. intent'[i].st \notin {"idle", "reclaiming"}
      BY SMTT(30), <2>2 DEF Begins
    <3> QED  BY <1>1, <1>4, <2>2, <3>1, Zenon DEF Begins
  <2>3. CASE Ends(i) \/ Resolves(i)
    <3>1. intent'[i].st \in {"idle", "reclaiming"} => intent'[i].try = 1
      BY SMTT(30), <2>3 DEF Ends, Resolves
    <3> QED  BY <1>2, <1>4, <2>3, <3>1, Zenon DEF Ends, Resolves
  <2>4. CASE GivesUp(i)
    <3>1. intent'[i].st = "failed" /\ intent[i].st # "waiting"
      BY <2>4 DEF GivesUp
    <3>2. parts'[i] = NoParts
      BY <1>1, <2>4, <3>1, Zenon DEF GivesUp
    <3> QED  BY <1>2, <3>1, <3>2
  <2> QED  BY <1>5, <2>1, <2>2, <2>3, <2>4, Zenon
<1>6. CASE SurfaceReceives /\ Collects(i)
  <2>1. PICK frame, held : frame = Head(mailbox) /\ held = Holding(parts[i], frame)
    BY Zenon
  <2>2. /\ frame.n \in 1..Chunks /\ frame.version \in 1..Effects(i)
        /\ \A c \in 1..frame.n : held[c] = frame.version
        /\ held[Chunks] # 0 => frame.n = Chunks
    BY <1>6, <2>1, ChunkRead, Zenon DEF Collects, SurfaceReceives
  <2>3. intent'[i] = intent[i] /\ intent[i].st = "waiting" /\ parts'[i] = held
        /\ \E c \in 1..Chunks : held[c] = 0
    BY <1>6, <2>1, Zenon DEF Collects
  <2>4. frame.version # 0
    <3>1. Effects(i) \in Nat
      BY EffectsGrow, Zenon
    <3> QED  BY <2>2, <3>1
  <2>5. held[Chunks] = 0
    BY <2>2, <2>3, <2>4, Zenon
  <2> QED  BY <1>1, <1>4, <2>3, <2>5, Zenon
<1> QED  BY <1>3, <1>5, <1>6, Zenon DEF IntentStep, Reads

\* An action is resolved with one result of its own.
LEMMA ResolvedStep ==
  ASSUME TypeOK, TypeOK', Expecting, Outcomes, InARow, ResolvedFromOneResult, [Next]_vars
  PROVE  ResolvedFromOneResult'
<1>0. SurfaceTypes /\ LinkTypes
  BY TypeParts, Zenon
<1> SUFFICES ASSUME NEW i \in Intents, intent'[i].st = "ok"
             PROVE  intent'[i].result \in 1..Effects(i)'
  BY Zenon DEF ResolvedFromOneResult
<1>1. Effects(i) \in Nat /\ Effects(i)' \in Nat /\ Effects(i) <= Effects(i)'
  BY EffectsGrow, Zenon
<1>2. IntentStep(i)
  BY IntentSteps, Zenon
<1>3. ASSUME intent'[i].result \in 1..Effects(i)
      PROVE  intent'[i].result \in 1..Effects(i)'
  BY <1>1, <1>3
<1>4. CASE Untouched(i) \/ Collects(i)
  <2>1. intent'[i] = intent[i]
    BY <1>4, Zenon DEF Untouched, Collects
  <2>2. intent'[i].result \in 1..Effects(i)
    BY <2>1, Zenon DEF ResolvedFromOneResult
  <2> QED  BY <1>3, <2>2, Zenon
<1>5. CASE Begins(i) \/ Ends(i) \/ GivesUp(i)
  BY <1>5 DEF Begins, Ends, GivesUp
<1>6. CASE SurfaceReceives /\ Resolves(i)
  <2>1. mailbox # <<>> /\ mailbox \in Seq(Frames)
    BY <1>0, <1>6, Zenon DEF SurfaceReceives, LinkTypes
  <2>2. PICK frame \in Frames : frame = Head(mailbox) /\ frame \in Range(mailbox)
    BY <2>1, RangeTaken, Zenon
  <2>3. frame.id = <<i, intent[i].try>> /\ frame.id[1] = i /\ intent[i].st = "waiting"
    <3>1. frame.id = <<i, intent[i].try>> /\ intent[i].st = "waiting"
      BY <1>6, <2>2, Zenon DEF Resolves
    <3> QED  BY <3>1
  <2>4. CASE Answered(i)
    <3>1. Genuine(frame.version, frame.id) /\ intent'[i].result = frame.version
      BY <2>2, <2>4, Zenon DEF Answered, Outcomes, GenuineFrame
    <3> QED  BY <1>3, <2>3, <3>1, Zenon DEF Genuine
  <2>5. CASE Assembled(i)
    <3>1. PICK held : held = Holding(parts[i], frame)
      BY Zenon
    <3>2. ChunkOf(Head(mailbox), <<i, intent[i].try>>)
      BY <2>2, <2>3, <2>5, Zenon DEF Assembled, ChunkOf
    <3>3. /\ frame.n \in 1..Chunks /\ frame.version \in 1..Effects(i)
          /\ \A c \in 1..frame.n : held[c] = frame.version
          /\ held[Chunks] # 0 => frame.n = Chunks
      BY <2>1, <2>2, <2>3, <3>1, <3>2, ChunkRead, Zenon
    <3>4. /\ \A c \in 1..Chunks : held[c] # 0
          /\ (\A c \in 1..Chunks : held[c] = held[1]) => intent'[i].result = held[1]
      BY <2>2, <2>5, <3>1, Zenon DEF Assembled
    <3>5. Chunks \in 1..Chunks /\ 1 \in 1..Chunks
      BY RemoteActionsAssumption
    <3>6. \A c \in 1..Chunks : held[c] = frame.version
      BY <3>3, <3>4, <3>5, Zenon
    <3>7. intent'[i].result = frame.version
      BY <3>4, <3>5, <3>6, Zenon
    <3> QED  BY <1>3, <3>3, <3>7, Zenon
  <2> QED  BY <1>6, <2>4, <2>5, Zenon DEF Resolves
<1> QED  BY <1>2, <1>4, <1>5, <1>6, Zenon DEF IntentStep, Reads

\* No chunk and no train is of an id that was not sent.
LEMMA NothingForUnsent ==
  ASSUME TypeOK, Outcomes, NEW id \in Ids, ~Sent(id), NEW held
  PROVE  /\ Chained(mailbox, held, id)
         /\ writer.trains # <<>> => writer.trains[1].id # id
<1>0. LinkTypes
  BY TypeParts, Zenon
<1>1. mailbox \in Seq(Frames) /\ writer.trains \in Seq(OneTrain)
  BY <1>0 DEF LinkTypes, TrainsOf
<1>2. ASSUME NEW q \in 1..Len(mailbox) PROVE ~ChunkOf(mailbox[q], id)
  <2>1. mailbox[q] \in Range(mailbox)
    BY <1>1 DEF Range
  <2>2. GenuineFrame(mailbox[q])
    BY <2>1, Zenon DEF Outcomes
  <2> QED  BY <2>2, Zenon DEF GenuineFrame, Genuine, ChunkOf
<1>3. ASSUME writer.trains # <<>> PROVE writer.trains[1].id # id
  <2>1. PICK train \in Range(writer.trains) : train = writer.trains[1]
    BY <1>1, <1>3, RangeTaken, Zenon
  <2>2. Sent(train.id)
    BY Zenon DEF Outcomes, Genuine
  <2> QED  BY <2>1, <2>2, Zenon
<1> QED  BY <1>2, <1>3, Zenon DEF Chained

\* The pending action whose chunk is read keeps it.
LEMMA ChunkKept ==
  ASSUME TypeOK, SurfaceReceives, NEW id \in Ids, Pending(id), Pending(id)',
         ChunkOf(Head(mailbox), id)
  PROVE  parts'[id[1]] = Holding(parts[id[1]], Head(mailbox))
<1>0. SurfaceTypes
  BY TypeParts, Zenon
<1>1. PICK frame, i : frame = Head(mailbox) /\ i = id[1]
  BY Zenon
<1>2. i \in Intents /\ intent'[i].st = "waiting" /\ frame.id = id /\ frame.type = "chunk"
  BY <1>1, IdParts, Zenon DEF Pending, Waiting, ChunkOf
<1>3. ChunkArrives(frame)
  <2>1. frame.type # "result" /\ frame.type # "left" /\ frame.type # "joined"
    BY <1>2
  <2> QED  BY <1>1, <2>1, Zenon DEF SurfaceReceives
<1>4. i = frame.id[1]
  BY <1>1, <1>2, Zenon
<1>7. Pending(frame.id)
  BY <1>2, Zenon
<1> DEFINE held == Holding(parts[frame.id[1]], frame)
<1>5. CASE ~\A c \in 1..Chunks : held[c] # 0
  <2>1. parts' = [parts EXCEPT ![frame.id[1]] = held]
    BY <1>3, <1>5, <1>7, ZenonT(30) DEF ChunkArrives
  <2> HIDE DEF held
  <2>2. parts'[i] = held
    BY <1>0, <1>2, <1>4, <2>1, Zenon DEF SurfaceTypes
  <2> QED  BY <1>1, <1>4, <2>2, Zenon DEF held
<1>6. CASE \A c \in 1..Chunks : held[c] # 0
  <2>1. PICK v : intent' = [intent EXCEPT ![frame.id[1]].st = "ok", ![frame.id[1]].result = v]
    BY <1>3, <1>6, <1>7, Zenon DEF ChunkArrives
  <2>2. intent'[i].st = "ok"
    BY <1>0, <1>2, <1>4, <2>1 DEF SurfaceTypes, IntentRecords
  <2> QED  BY <1>2, <2>2
<1> QED  BY <1>5, <1>6, Zenon

\* The chunks of the reply to a pending action stay in a row.
LEMMA InARowStep ==
  ASSUME TypeOK, TypeOK', Expecting, Outcomes, OneResident, InARow, [Next]_vars,
         NEW id \in Ids, Pending(id)'
  PROVE  /\ Chained(mailbox', parts'[id[1]], id)
         /\ (writer'.trains # <<>> /\ writer'.trains[1].id = id) =>
              FollowsOn(mailbox', parts'[id[1]], id, writer'.trains[1].version, writer'.trains[1].next)
<1>0. SurfaceTypes /\ LinkTypes
  BY TypeParts, Zenon
<1>1. PICK i \in Intents : i = id[1]
  BY IdParts, Zenon
<1>2. intent'[i].st = "waiting" /\ intent'[i].try = id[2] /\ id = <<i, id[2]>>
  BY <1>1, PendingId, Zenon DEF Pending, Waiting
<1>3. mailbox \in Seq(Frames) /\ writer.trains \in Seq(OneTrain)
  BY <1>0 DEF LinkTypes, TrainsOf
<1>4. IntentStep(i)
  BY IntentSteps, Zenon
<1>5. CASE Begins(i)
  <2>1. ~Sent(id)
    <3>1. \/ intent[i].st = "idle"
          \/ intent[i].try = 1 /\ id[2] = 2
      BY <1>2, <1>5, Zenon DEF Begins, Expecting
    <3> QED  BY <1>1, <3>1 DEF Sent
  <2>2. mailbox' = mailbox /\ writer' = writer
    BY SMTT(30), <1>5 DEF Begins
  <2> QED  BY <2>1, <2>2, NothingForUnsent, Zenon
<1>6. CASE Ends(i) \/ GivesUp(i) \/ Resolves(i)
  BY <1>2, <1>6 DEF Ends, GivesUp, Resolves
<1>7. CASE Untouched(i) \/ (SurfaceReceives /\ Collects(i))
  <2>1. intent'[i] = intent[i]
    BY <1>7, Zenon DEF Untouched, Collects
  <2>2. Pending(id) /\ id = <<i, intent[i].try>> /\ intent[i].st = "waiting"
    BY <1>1, <1>2, <2>1, Zenon DEF Pending, Waiting
  <2>3. surface.up
    BY <2>2, Zenon DEF Expecting
  <2>4. /\ Chained(mailbox, parts[i], id)
        /\ (writer.trains # <<>> /\ writer.trains[1].id = id) =>
             FollowsOn(mailbox, parts[i], id, writer.trains[1].version, writer.trains[1].next)
    BY <1>1, <2>2, Zenon DEF InARow
  <2>5. CASE SurfaceReceives
    <3>1. mailbox # <<>> /\ mailbox' = Tail(mailbox) /\ writer' = writer
      BY <2>5 DEF SurfaceReceives, relayVars
    <3>2. Head(mailbox) = mailbox[1]
      BY <1>3, <3>1, RangeTaken, Zenon
    <3>3. ~ChunkOf(mailbox[1], id) => parts'[i] = parts[i]
      BY <1>7, <2>2, <3>2, Zenon DEF Untouched, Collects
    <3>4. ASSUME ChunkOf(mailbox[1], id)
          PROVE  \A c \in 1..mailbox[1].n : parts'[i][c] = mailbox[1].version
      <4>1. parts'[i] = Holding(parts[i], Head(mailbox))
        BY <1>1, <2>2, <2>5, <3>2, <3>4, ChunkKept, Zenon
      <4> QED  BY <2>2, <3>1, <3>2, <3>4, <4>1, ChunkRead, Zenon
    <3>5. /\ Chained(Tail(mailbox), parts'[i], id)
          /\ \A v : \A n \in Nat : FollowsOn(mailbox, parts[i], id, v, n)
                                   => FollowsOn(Tail(mailbox), parts'[i], id, v, n)
      BY <1>3, <2>4, <3>1, <3>3, <3>4, ChainedAfterRead, Zenon
    <3>6. writer.trains # <<>> => writer.trains[1].next \in Nat
      <4>1. writer.trains # <<>> => writer.trains[1] \in OneTrain
        BY <1>3
      <4> QED  BY SMTT(30), <4>1, RemoteActionsAssumption DEF OneTrain
    <3> QED  BY <1>1, <2>4, <3>1, <3>5, <3>6, Zenon
  <2>6. CASE SurfaceDisconnects
    <3>1. surface'.up
      BY <1>2, ExpectingStep, Zenon
    <3> QED  BY <2>6, <3>1 DEF SurfaceDisconnects
  <2>7. CASE WriteChunk
    <3>0. parts'[i] = parts[i] /\ parts'[id[1]] = parts[i]
      BY <1>1, <2>7 DEF WriteChunk, surfaceVars
    <3>1. PICK train \in OneTrain :
            /\ writer.trains # <<>> /\ train = writer.trains[1]
            /\ mailbox' = ToSurface(Chunk(train.id, train.version, train.next))
            /\ \/ /\ train.next = Chunks
                  /\ writer'.trains = Tail(writer.trains)
               \/ \E more \in OneTrain :
                    /\ more.id = train.id /\ more.version = train.version
                    /\ more.next = train.next + 1
                    /\ writer'.trains = [writer.trains EXCEPT ![1] = more]
      BY <2>7, ChunkWritten, Zenon
    <3>2. train.id \in Ids /\ train.version \in Nat /\ train.next \in 1..Chunks /\ train.next \in Nat
      BY RemoteActionsAssumption DEF OneTrain
    <3>3. PICK f \in Frames : f = Chunk(train.id, train.version, train.next)
      BY <3>2, FrameTypes, Zenon
    <3>4. mailbox' = Append(mailbox, f)
      BY <2>3, <3>1, <3>3, Zenon DEF ToSurface
    <3>5. f.type = "chunk" /\ f.id = train.id /\ f.version = train.version /\ f.n = train.next
      BY <3>3 DEF Chunk
    <3>6. ChunkOf(f, id) => FollowsOn(mailbox, parts[i], id, f.version, f.n)
      BY <2>4, <3>1, <3>5, Zenon DEF ChunkOf
    <3>7. Chained(Append(mailbox, f), parts[i], id)
      BY <1>3, <2>4, <3>6, ChainedBehind, Zenon
    <3>8. CASE writer'.trains = Tail(writer.trains)
      <4>1. ASSUME writer'.trains # <<>> PROVE writer'.trains[1].next = 1
        <5>1. Len(writer.trains) \in Nat /\ 2 \in 2..Len(writer.trains)
              /\ writer'.trains[1] = writer.trains[2]
          BY SMTT(30), <1>3, <3>1, <3>8, <4>1
        <5> QED  BY <5>1, Zenon DEF OneResident
      <4> QED  BY <3>0, <3>4, <3>7, <4>1, Zenon DEF FollowsOn, Preceded
    <3>9. ASSUME NEW more \in OneTrain, more.id = train.id, more.version = train.version,
                 more.next = train.next + 1, writer'.trains = [writer.trains EXCEPT ![1] = more],
                 writer'.trains[1].id = id
          PROVE  FollowsOn(mailbox', parts[i], id, writer'.trains[1].version, writer'.trains[1].next)
      <4>1. writer'.trains[1] = more
        BY <1>3, <3>1, <3>9
      <4>2. train.id = id
        BY <3>9, <4>1, Zenon
      <4>3. FollowsOn(Append(mailbox, f), parts[i], id, train.version, train.next + 1)
        BY <1>3, <3>2, <3>3, <4>2, NextBehind, Zenon
      <4> QED  BY <3>4, <3>9, <4>1, <4>3, Zenon
    <3> QED  BY <3>0, <3>1, <3>4, <3>7, <3>8, <3>9, Zenon
  <2>8. CASE ~SurfaceReceives /\ ~SurfaceDisconnects /\ ~WriteChunk
    <3>1. parts'[i] = parts[i]
      BY <1>7, <2>8, Zenon DEF Untouched
    <3>2. mailbox' = mailbox
          \/ \E f \in Frames : ~ChunkOf(f, id) /\ mailbox' = Append(mailbox, f)
      <4>1. /\ Presence("left") \in Frames /\ Presence("joined") \in Frames
            /\ ~ChunkOf(Presence("left"), id) /\ ~ChunkOf(Presence("joined"), id)
        BY FrameTypes DEF ChunkOf, Presence
      <4>2. ASSUME WriteNow PROVE Head(writer.now) \in Frames /\ ~ChunkOf(Head(writer.now), id)
        <5>1. writer.now \in Seq(Frames) /\ writer.now # <<>>
          BY <1>0, <4>2 DEF LinkTypes, WriteNow
        <5>2. PICK f \in Frames : f = Head(writer.now) /\ f \in Range(writer.now)
          BY <5>1, RangeTaken, Zenon
        <5>3. f.type = "result"
          BY <5>2, Zenon DEF Outcomes
        <5>4. ~ChunkOf(f, id)
          BY <5>3 DEF ChunkOf
        <5> QED  BY <5>2, <5>4, Zenon
      <4> QED  BY <2>8, <4>1, <4>2, MailboxMoves, Zenon
    <3>3. Chained(mailbox', parts[i], id)
      BY <1>3, <2>4, <3>2, ChainedBehind, Zenon
    <3>4. ASSUME NEW v, NEW n, FollowsOn(mailbox, parts[i], id, v, n)
          PROVE  FollowsOn(mailbox', parts[i], id, v, n)
      BY <1>3, <3>2, <3>4, OtherBehind, Zenon
    <3>5. ASSUME writer'.trains # <<>>
          PROVE  writer'.trains[1].next = 1
                 \/ (writer.trains # <<>> /\ writer'.trains[1] = writer.trains[1])
      <4> DEFINE new == [id |-> work.id, version |-> work.version, next |-> 1]
      <4>1. new.next = 1
        OBVIOUS
      <4> HIDE DEF new
      <4>2. writer'.trains = writer.trains \/ writer'.trains = Append(writer.trains, new)
        BY <2>8, <3>5, TrainMoves, Zenon DEF new
      <4>3. CASE writer'.trains = Append(writer.trains, new) /\ writer.trains = <<>>
        <5>1. writer'.trains[1] = new
          BY <1>3, <4>3
        <5> QED  BY <4>1, <5>1, Zenon
      <4>4. CASE writer'.trains = Append(writer.trains, new) /\ writer.trains # <<>>
        <5>1. writer'.trains[1] = writer.trains[1]
          BY <1>3, <4>4
        <5> QED  BY <4>4, <5>1, Zenon
      <4> QED  BY <3>5, <4>2, <4>3, <4>4, Zenon
    <3>6. ASSUME writer'.trains # <<>>, writer'.trains[1].id = id
          PROVE  FollowsOn(mailbox', parts[i], id, writer'.trains[1].version, writer'.trains[1].next)
      <4>1. CASE writer'.trains[1].next = 1
        BY <4>1, Zenon DEF FollowsOn, Preceded
      <4>2. CASE writer.trains # <<>> /\ writer'.trains[1] = writer.trains[1]
        BY <2>4, <3>4, <3>6, <4>2, Zenon
      <4> QED  BY <3>5, <3>6, <4>1, <4>2, Zenon
    <3> QED  BY <1>1, <3>1, <3>3, <3>6, Zenon
  <2> QED  BY <2>5, <2>6, <2>7, <2>8, Zenon
<1> QED  BY <1>4, <1>5, <1>6, <1>7, Zenon DEF IntentStep, Reads

\* No result and no request is around at first.
LEMMA ResultInit == Init => ResultInv
<1> SUFFICES ASSUME Init PROVE ResultInv
  OBVIOUS
<1>1. Range(<<>>) = {} /\ Len(<<>>) = 0
  BY DEF Range
<1>2. /\ resend = <<>> /\ uplink = <<>> /\ mailbox = <<>> /\ work = Idle
      /\ writer.now = <<>> /\ writer.trains = <<>>
  BY SMTT(30) DEF Init, NoWriter
<1>3. \A i \in Intents : intent[i].st = "idle" /\ intent[i].try = 1 /\ parts[i] = NoParts
  BY DEF Init
<1>4. \A id \in Ids : ~cache[id].done
  BY DEF Init, Absent
<1>5. Known
  BY <1>1, <1>2, Zenon DEF Known
<1>6. Outcomes
  <2>1. work.phase \notin {"store", "publish"}
    BY SMTT(30), <1>2 DEF Idle
  <2> QED  BY <1>1, <1>2, <1>4, <2>1, Zenon DEF Outcomes
<1>7. OneResident
  BY <1>2 DEF OneResident
<1>8. Expecting
  <2>1. NoParts[Chunks] = 0
    BY RemoteActionsAssumption DEF NoParts
  <2> QED  BY <1>3, <2>1 DEF Expecting
<1>9. InARow
  BY SMTT(30), <1>3, IdParts DEF InARow, Pending, Waiting
<1>10. ResolvedFromOneResult
  BY <1>3 DEF ResolvedFromOneResult
<1> QED  BY <1>5, <1>6, <1>7, <1>8, <1>9, <1>10, Zenon DEF ResultInv

-------------------------------------------------------------------------------
(* What the replay cache recognises *)

INSTANCE FiniteSetTheorems

\* There are finitely many action ids.
LEMMA IdsFinite == IsFiniteSet(Ids)
<1>1. IsFiniteSet({1, 2})
  <2>1. IsFiniteSet({1} \cup {2})
    BY Zenon, FS_Singleton, FS_AddElement
  <2>2. {1, 2} = {1} \cup {2}
    OBVIOUS
  <2> QED  BY SMTT(30), <2>1, <2>2
<1> QED  BY <1>1, FS_Product, RemoteActionsAssumption DEF Ids

\* Cardinality grows with the set, for sets of ids.
LEMMA MoreIds ==
  ASSUME NEW A \in SUBSET Ids, NEW B \in SUBSET A
  PROVE  Cardinality(A) \in Nat /\ Cardinality(B) \in Nat /\ Cardinality(B) <= Cardinality(A)
BY SMTT(30), IdsFinite, FS_Subset, FS_CardinalityType

\* An id stays forgettable as long as no other use moves behind its own last use.
LEMMA StaysForgettable ==
  ASSUME NEW s \in [Ids -> 0..ReplayTTL], NEW t \in [Ids -> 0..ReplayTTL], NEW id \in Ids,
         Forgettable(s, id),
         s[id] = ReplayTTL => t[id] = ReplayTTL,
         \A other \in Ids : s[other] <= s[id] => t[other] <= t[id]
  PROVE  Forgettable(t, id)
<1>1. NoEarlier(s, id) \in SUBSET NoEarlier(t, id) /\ NoEarlier(t, id) \in SUBSET Ids
  BY SMTT(30) DEF NoEarlier
<1>2. /\ Cardinality(NoEarlier(s, id)) \in Nat /\ Cardinality(NoEarlier(t, id)) \in Nat
      /\ Cardinality(NoEarlier(s, id)) <= Cardinality(NoEarlier(t, id))
  BY SMTT(30), <1>1, MoreIds
<1> QED  BY <1>2, RemoteActionsAssumption DEF Forgettable

\* An expired entry was last used ReplayTTL ago.
LEMMA PrunedAccounts ==
  ASSUME HandlerTypes, Accounts(cache, since)
  PROVE  Accounts(Pruned, since)
<1> SUFFICES ASSUME NEW id \in Ids
             PROVE  /\ Pruned[id] # Absent => Pruned[id].version \in Nat /\ Pruned[id].age = since[id]
                    /\ Pruned[id] = Absent => Forgettable(since, id)
  BY SMTT(30) DEF Accounts
<1>1. CASE Fresh(cache[id])
  BY SMTT(30), <1>1 DEF Pruned, Accounts, Fresh
<1>2. CASE ~Fresh(cache[id]) /\ cache[id] = Absent
  BY SMTT(30), <1>2 DEF Pruned, Accounts
<1>3. CASE ~Fresh(cache[id]) /\ cache[id] # Absent
  <2>1. cache[id].age \in 0..ReplayTTL /\ cache[id].age = since[id] /\ ~(cache[id].age < ReplayTTL)
    BY SMTT(30), <1>3 DEF Accounts, Fresh, HandlerTypes, Caches
  <2>2. since[id] = ReplayTTL
    BY SMTT(30), <2>1, RemoteActionsAssumption
  <2> QED  BY <1>3, <2>2 DEF Pruned, Forgettable
<1> QED  BY SMTT(30), <1>1, <1>2, <1>3

\* reserve_remote_action and store_remote_action_result renew an entry.
LEMMA RenewedAccounts ==
  ASSUME NEW c \in Caches, NEW s \in [Ids -> 0..ReplayTTL], Accounts(c, s), NEW used \in Ids,
         NEW entry, entry # Absent, entry.version \in Nat, entry.age = 0
  PROVE  Accounts([c EXCEPT ![used] = entry], [s EXCEPT ![used] = 0])
<1> DEFINE d == [c EXCEPT ![used] = entry]
           t == [s EXCEPT ![used] = 0]
<1>1. t \in [Ids -> 0..ReplayTTL]
  BY SMTT(30), RemoteActionsAssumption
<1> SUFFICES ASSUME NEW id \in Ids
             PROVE  /\ d[id] # Absent => d[id].version \in Nat /\ d[id].age = t[id]
                    /\ d[id] = Absent => Forgettable(t, id)
  BY Zenon DEF Accounts
<1>2. CASE id = used
  BY <1>2 DEF Caches
<1>3. CASE id # used
  <2>1. d[id] = c[id] /\ t[id] = s[id]
    BY <1>3 DEF Caches
  <2>2. \A other \in Ids : s[other] <= s[id] => t[other] <= t[id]
    BY SMTT(30), <2>1
  <2>3. Forgettable(s, id) => Forgettable(t, id)
    BY ZenonT(30), <1>1, <2>1, <2>2, StaysForgettable
  <2> QED  BY SMTT(30), <2>1, <2>3 DEF Accounts
<1> QED  BY <1>2, <1>3

\* trim_remote_action_replays drops an id only for MaxEntries others used no earlier.
LEMMA TrimmedAccounts ==
  ASSUME NEW c \in Caches, NEW s \in [Ids -> 0..ReplayTTL], Accounts(c, s), NEW d \in Trimmed(c)
  PROVE  Accounts(d, s)
<1> DEFINE overflow == IF Cardinality(Entries(c)) > MaxEntries
                         THEN Cardinality(Entries(c)) - MaxEntries ELSE 0
<1>1. PICK S \in SUBSET Entries(c) :
        /\ Cardinality(S) = overflow
        /\ \A gone \in S, kept \in Entries(c) \ S : c[gone].age >= c[kept].age
        /\ d = [id \in Ids |-> IF id \in S THEN Absent ELSE c[id]]
  BY SMTT(30) DEF Trimmed
<1> SUFFICES ASSUME NEW id \in Ids
             PROVE  /\ d[id] # Absent => d[id].version \in Nat /\ d[id].age = s[id]
                    /\ d[id] = Absent => Forgettable(s, id)
  BY SMTT(30) DEF Accounts
<1>2. CASE id \notin S
  BY <1>1, <1>2 DEF Accounts
<1>3. CASE id \in S
  <2>1. Entries(c) \in SUBSET Ids /\ S \in SUBSET Ids
    BY DEF Entries
  <2>2. IsFiniteSet(Entries(c)) /\ IsFiniteSet(S) /\ Cardinality(Entries(c)) \in Nat /\ Cardinality(S) \in Nat
    BY SMTT(30), <2>1, IdsFinite, FS_Subset, FS_CardinalityType
  <2>3. Cardinality(S) # 0
    BY <1>3, <2>2, FS_EmptySet
  <2>4. Cardinality(S) = Cardinality(Entries(c)) - MaxEntries
    BY SMTT(30), <1>1, <2>3
  <2>5. Cardinality(Entries(c) \ S) = MaxEntries
    <3>1. Entries(c) \cap S = S
      BY SMTT(30)
    <3>2. Cardinality(Entries(c) \ S) = Cardinality(Entries(c)) - Cardinality(S)
      <4>1. Cardinality(Entries(c) \ S)
              = Cardinality(Entries(c)) - Cardinality(Entries(c) \cap S)
        BY <2>2, FS_Difference, ZenonT(30)
      <4> QED  BY <3>1, <4>1, Zenon
    <3> QED  BY <2>2, <2>4, <3>2, RemoteActionsAssumption
  <2>6. Entries(c) \ S \in SUBSET NoEarlier(s, id)
    <3> SUFFICES ASSUME NEW kept \in Entries(c) \ S PROVE kept \in NoEarlier(s, id)
      OBVIOUS
    <3>1. kept \in Ids /\ kept # id /\ c[kept] # Absent /\ c[id] # Absent
      BY SMTT(30), <1>3 DEF Entries
    <3>2. c[id].age >= c[kept].age
      BY SMTT(30), <1>1, <1>3
    <3>3. c[id].age = s[id] /\ c[kept].age = s[kept]
      BY SMTT(30), <3>1 DEF Accounts
    <3> QED  BY SMTT(30), <3>1, <3>2, <3>3 DEF NoEarlier
  <2>7. Cardinality(NoEarlier(s, id)) \in Nat
        /\ Cardinality(Entries(c) \ S) <= Cardinality(NoEarlier(s, id))
    <3>1. NoEarlier(s, id) \in SUBSET Ids
      BY DEF NoEarlier
    <3> QED  BY SMTT(30), <2>6, <3>1, MoreIds
  <2>8. Forgettable(s, id)
    BY SMTT(30), <2>5, <2>7, RemoteActionsAssumption DEF Forgettable
  <2> QED  BY SMTT(30), <1>1, <1>3, <2>8
<1> QED  BY SMTT(30), <1>2, <1>3

\* The cache stays accounted for.
LEMMA ReplayStep ==
  ASSUME TypeOK, Accounts(cache, since), [Next]_vars
  PROVE  Accounts(cache', since')
<1> USE RemoteActionsAssumption
<1>0. LinkTypes /\ HandlerTypes
  BY TypeParts
<1>1. Accounts(Pruned, since) /\ Pruned \in Caches /\ since \in [Ids -> 0..ReplayTTL]
  BY SMTT(30), <1>0, PrunedAccounts, CacheUpdates DEF HandlerTypes
<1>2. CASE Receive
  <2> DEFINE id == Head(uplink).id
  <2>1. id \in Ids
    <3>1. Head(uplink) \in Requests
      BY <1>0, <1>2 DEF Receive, LinkTypes
    <3> QED  BY <3>1 DEF Requests
  <2>2. InFlight # Absent /\ InFlight.version \in Nat /\ InFlight.age = 0
    BY SMTT(30) DEF InFlight, Absent
  <2>3. Accounts([Pruned EXCEPT ![id] = InFlight], [since EXCEPT ![id] = 0])
    BY Zenon, <1>1, <2>1, <2>2, RenewedAccounts
  <2>4. \/ cache' = cache /\ since' = since
        \/ cache' = [Pruned EXCEPT ![id] = InFlight] /\ since' = [since EXCEPT ![id] = 0]
        \/ cache' = Pruned /\ since' = since
    BY <1>2 DEF Receive
  <2> QED  BY Zenon, <1>1, <2>3, <2>4
<1>3. CASE Store
  <2> DEFINE c == [Pruned EXCEPT ![work.id] = Completed(work.version)]
             s == [since EXCEPT ![work.id] = 0]
  <2>1. work.id \in Ids /\ work.version \in Nat
    BY <1>0, <1>3 DEF Store, HandlerTypes, Works, Idle
  <2>2. Completed(work.version) # Absent /\ Completed(work.version).version \in Nat
        /\ Completed(work.version).age = 0
    BY SMTT(30), <2>1 DEF Completed, Absent
  <2>3. Accounts(c, s)
    BY Zenon, <1>1, <2>1, <2>2, RenewedAccounts
  <2>4. c \in Caches /\ s \in [Ids -> 0..ReplayTTL]
    BY SMTT(30), <1>0, <1>1, <2>1, CacheUpdates
  <2>5. cache' \in Trimmed(c) /\ since' = s
    BY SMTT(30), <1>3 DEF Store
  <2> QED  BY Zenon, <2>3, <2>4, <2>5, TrimmedAccounts
<1>4. CASE Restart
  BY SMTT(30), <1>4 DEF Restart, Accounts, Forgettable
<1>5. CASE Tick
  <2>1. since' = [id \in Ids |-> AtMost(since[id] + 1, ReplayTTL)]
    BY <1>5 DEF Tick
  <2>2. \A n \in 0..ReplayTTL : AtMost(n + 1, ReplayTTL) \in 0..ReplayTTL
    BY DEF AtMost
  <2>3. since' \in [Ids -> 0..ReplayTTL]
    BY SMTT(30), <1>1, <2>1, <2>2
  <2> SUFFICES ASSUME NEW id \in Ids
               PROVE  /\ cache'[id] # Absent => cache'[id].version \in Nat /\ cache'[id].age = since'[id]
                      /\ cache'[id] = Absent => Forgettable(since', id)
    BY SMTT(30) DEF Accounts
  <2>4. CASE cache[id] = Absent
    <3>1. cache'[id] = Absent
      BY SMTT(30), <1>5, <2>4 DEF Tick
    <3>2. since[id] = ReplayTTL => since'[id] = ReplayTTL
      BY SMTT(30), <2>1 DEF AtMost
    <3>3. \A other \in Ids : since[other] <= since[id] => since'[other] <= since'[id]
      BY SMTT(30), <1>1, <2>1 DEF AtMost
    <3>4. Forgettable(since', id)
      BY SMTT(30), <1>1, <2>3, <2>4, <3>2, <3>3, StaysForgettable DEF Accounts
    <3> QED  BY <3>1, <3>4
  <2>5. CASE cache[id] # Absent
    <3>1. cache'[id] = [cache[id] EXCEPT !.age = AtMost(cache[id].age + 1, ReplayTTL)]
      BY <1>5, <2>5 DEF Tick
    <3>2. cache[id] \in [done : BOOLEAN, version : Int, age : 0..ReplayTTL]
      BY SMTT(30), <1>0 DEF HandlerTypes, Caches
    <3>3. cache'[id].version = cache[id].version
          /\ cache'[id].age = AtMost(cache[id].age + 1, ReplayTTL)
      BY SMTT(30), <3>1, <3>2
    <3>4. cache'[id].version \in Nat /\ cache'[id].age = since'[id]
      BY SMTT(30), <2>1, <2>5, <3>3 DEF Accounts
    <3>5. cache'[id] # Absent
      BY SMTT(30), <3>4 DEF Absent
    <3> QED  BY SMTT(30), <3>4, <3>5
  <2> QED  BY <2>4, <2>5
<1>6. CASE Execute \/ PublishResult
  BY SMTT(30), <1>6 DEF Execute, PublishResult, history
<1> QED  BY SMTT(30), <1>2, <1>3, <1>4, <1>5, <1>6, CacheUntouched

\* A reservation is held by the handler between reserving and storing.
Reserved ==
  \A id \in Ids : (cache[id] # Absent /\ ~cache[id].done)
                     => work.phase \in {"execute", "store"} /\ work.id = id

\* Reservations are made and completed by the one handler.
LEMMA ReservedStep ==
  ASSUME TypeOK, Reserved, [Next]_vars
  PROVE  Reserved'
<1>0. LinkTypes /\ HandlerTypes
  BY SMTT(30), TypeParts
<1> USE DEF Reserved
<1>1. \A id \in Ids : Pruned[id] = cache[id] \/ Pruned[id] = Absent
  BY SMTT(30) DEF Pruned
<1>2. work.phase \notin {"execute", "store"} => \A id \in Ids : Pruned[id] # Absent => Pruned[id].done
  BY <1>1
<1>3. CASE Receive
  <2> DEFINE id == Head(uplink).id
  <2>1. id \in Ids
    <3>1. Head(uplink) \in Requests
      BY <1>0, <1>3 DEF Receive, LinkTypes
    <3> QED  BY SMTT(30), <3>1 DEF Requests
  <2>2. work = Idle /\ work.phase \notin {"execute", "store"}
    BY SMTT(30), <1>3 DEF Receive, Idle
  <2>3. CASE cache' = [Pruned EXCEPT ![id] = InFlight] /\ work' = [phase |-> "execute", id |-> id]
    <3>1. \A other \in Ids : other # id => cache'[other] = Pruned[other]
      BY SMTT(30), <1>0, <2>3, CacheUpdates DEF Caches
    <3> QED  BY SMTT(30), <1>2, <2>2, <2>3, <3>1
  <2>4. CASE cache' = Pruned
    BY SMTT(30), <1>2, <2>2, <2>4
  <2>5. CASE UNCHANGED <<work, cache>>
    BY SMTT(30), <2>5
  <2> QED  BY SMTT(30), <1>3, <2>3, <2>4, <2>5 DEF Receive
<1>4. CASE Execute
  BY SMTT(30), <1>0, <1>4 DEF Execute, HandlerTypes, Works, Idle
<1>5. CASE Store
  <2> DEFINE c == [Pruned EXCEPT ![work.id] = Completed(work.version)]
  <2>1. work.id \in Ids /\ work.phase = "store"
    BY SMTT(30), <1>0, <1>5 DEF Store, HandlerTypes, Works, Idle
  <2>2. \A id \in Ids : cache'[id] = Absent \/ cache'[id] = c[id]
    <3>1. cache' \in Trimmed(c)
      BY SMTT(30), <1>5 DEF Store
    <3> QED  BY SMTT(30), <3>1 DEF Trimmed
  <2>3. \A id \in Ids : c[id] = Absent \/ c[id].done
    <3> TAKE id \in Ids
    <3>1. CASE id = work.id
      BY SMTT(30), <1>0, <2>1, <3>1, CacheUpdates DEF Caches, Completed
    <3>2. CASE id # work.id
      BY SMTT(30), <1>0, <1>1, <2>1, <3>2, CacheUpdates DEF Caches
    <3> QED  BY SMTT(30), <3>1, <3>2
  <2> QED  BY SMTT(30), <2>2, <2>3
<1>6. CASE PublishResult
  <2>1. work.phase \notin {"execute", "store"} /\ cache' = cache
    BY <1>6 DEF PublishResult
  <2> QED  BY SMTT(30), <2>1
<1>7. CASE Restart
  BY SMTT(30), <1>7 DEF Restart
<1>8. CASE Tick
  <2>1. UNCHANGED work
    BY <1>8 DEF Tick
  <2>2. \A id \in Ids : cache'[id] = Absent \/ (cache[id] # Absent /\ (cache'[id].done <=> cache[id].done))
    <3> TAKE id \in Ids
    <3>1. CASE cache[id] # Absent
      <4>1. cache'[id] = [cache[id] EXCEPT !.age = AtMost(cache[id].age + 1, ReplayTTL)]
        BY SMTT(30), <1>8, <3>1 DEF Tick
      <4>2. cache[id] \in [done : BOOLEAN, version : Int, age : 0..ReplayTTL]
        BY <1>0 DEF HandlerTypes, Caches
      <4> QED  BY <3>1, <4>1, <4>2
    <3>2. CASE cache[id] = Absent
      BY SMTT(30), <1>8, <3>2 DEF Tick
    <3> QED  BY SMTT(30), <3>1, <3>2
  <2> QED  BY SMTT(30), <2>1, <2>2
<1>9. CASE UNCHANGED <<work, cache>>
  BY <1>9
<1> QED  BY SMTT(30), <1>3, <1>4, <1>5, <1>6, <1>7, <1>8, <1>9, CacheUntouched

ReplayInv == TypeOK /\ Accounts(cache, since) /\ Reserved

\* Nothing is pending, under way or cached at the start.
LEMMA ReplayInit == Init => ReplayInv
<1> SUFFICES ASSUME Init PROVE ReplayInv
  OBVIOUS
<1> USE RemoteActionsAssumption DEF Init
<1>1. SurfaceTypes
  <2>1. intent \in [Intents -> IntentRecords]
    BY SMTT(30) DEF IntentRecords, Statuses
  <2>2. deadline \in [Intents -> Deadlines] /\ parts \in [Intents -> Held]
    BY SMTT(30), SurfaceValues
  <2>3. resend \in Seq(Ids)
    BY SMTT(30)
  <2> QED  BY SMTT(30), <2>1, <2>2, <2>3 DEF SurfaceTypes
<1>2. LinkTypes
  <2>1. mailbox \in Seq(Frames)
    BY SMTT(30)
  <2>2. uplink \in Seq(Requests)
    BY SMTT(30)
  <2>3. writer \in [now : Seq(Frames), trains : TrainsOf]
    BY SMTT(30) DEF NoWriter, TrainsOf
  <2> QED  BY SMTT(30), <2>1, <2>2, <2>3 DEF LinkTypes
<1>3. HandlerTypes
  <2>1. cache \in Caches
    BY SMTT(30) DEF Caches, Absent
  <2>2. since \in [Ids -> 0..ReplayTTL] /\ executed \in [Ids -> Nat]
    BY SMTT(30)
  <2> QED  BY SMTT(30), <2>1, <2>2 DEF HandlerTypes, Works
<1>4. Accounts(cache, since) /\ Reserved
  BY SMTT(30) DEF Accounts, Forgettable, Reserved
<1> QED  BY SMTT(30), <1>1, <1>2, <1>3, <1>4, TypeParts DEF ReplayInv

\* The inductive invariant of the dispatcher, the handler and the replay cache.
LEMMA ReplayAlways == Spec => []ReplayInv
<1>1. ReplayInv /\ [Next]_vars => ReplayInv'
  <2> SUFFICES ASSUME ReplayInv, [Next]_vars PROVE ReplayInv'
    OBVIOUS
  <2>1. SurfaceTypes' /\ LinkTypes' /\ HandlerTypes'
    BY SMTT(30), SurfaceTypesStep, LinkTypesStep, HandlerTypesStep DEF ReplayInv
  <2>2. TypeOK'
    BY <2>1, TypeParts, PTL
  <2>3. (Accounts(cache, since))'
    BY SMTT(30), ReplayStep DEF ReplayInv, Accounts, Forgettable, NoEarlier
  <2>4. Reserved'
    BY ReservedStep DEF ReplayInv
  <2> QED  BY <2>2, <2>3, <2>4 DEF ReplayInv
<1> QED  BY <1>1, ReplayInit, PTL DEF Spec

\* Types of the dispatcher (actions.js), the handler and its replay cache
\* (remote_actions.rs) and the frames between them.
THEOREM ActionsTypeCorrect == Spec => []TypeOK
<1>1. ReplayInv => TypeOK
  BY SMTT(30) DEF ReplayInv
<1> QED  BY <1>1, ReplayAlways, PTL

\* reserve_remote_action answers InFlight, and the handler stays silent, only while the
\* original of the action is running.
THEOREM ReservationsAreHeld == Spec => []ReservedMeansRunning
<1>1. ReplayInv => ReservedMeansRunning
  <2>1. Idle.phase \notin {"execute", "store"}
    BY SMTT(30) DEF Idle
  <2> QED  BY <2>1, Zenon DEF ReplayInv, Reserved, ReservedMeansRunning
<1> QED  BY <1>1, ReplayAlways, PTL

\* The handler executes an action id again only if its last use is ReplayTTL old or from
\* an earlier process, or MaxEntries other ids were used no earlier.
THEOREM ReplaysAreRecognised == Spec => ExecutedAgainOnlyIfForgotten
<1> DEFINE Allowed ==
      \A id \in Ids :
        (/\ work = Idle
         /\ work' # Idle
         /\ work'.phase = "execute" /\ work'.id = id
         /\ executed[id] > 0)
        => \/ since[id] = ReplayTTL
           \/ Cardinality({other \in Ids \ {id} : since[other] <= since[id]}) >= MaxEntries
<1>1. ReplayInv /\ [Next]_vars => [Allowed]_vars
  <2> SUFFICES ASSUME ReplayInv, [Next]_vars, NEW id \in Ids, work = Idle, work' # Idle,
                      work'.phase = "execute", work'.id = id
               PROVE  Forgettable(since, id)
    BY SMTT(30) DEF Forgettable, NoEarlier
  <2>0. HandlerTypes
    BY TypeParts DEF ReplayInv
  <2>1. Receive
    <3>1. ~Execute /\ ~Store /\ ~PublishResult
      BY DEF Execute, Store, PublishResult, Idle
    <3>2. ~Restart /\ ~Tick
      BY DEF Restart, Tick
    <3> QED  BY <3>1, <3>2, CacheUntouched
  <2>2. Pruned[id] = Absent
    BY <2>1 DEF Receive, Idle
  <2> QED  BY Zenon, <2>0, <2>2, PrunedAccounts DEF ReplayInv, Accounts
<1> QED  BY <1>1, ReplayAlways, PTL DEF Spec, ExecutedAgainOnlyIfForgotten

\* What remote-runtime.js resolves an action with is one result of its own: chunks of two
\* replies never make up one, whatever was lost, repeated, restarted or executed again.
THEOREM RepliesNeverMix == Spec => []ResolvedFromOneResult
<1>1. TypeOK /\ TypeOK' /\ ResultInv /\ [Next]_vars => ResultInv'
  <2> SUFFICES ASSUME TypeOK, TypeOK', ResultInv, [Next]_vars PROVE ResultInv'
    OBVIOUS
  <2>0. Known /\ Outcomes /\ OneResident /\ Expecting /\ InARow /\ ResolvedFromOneResult
    BY Zenon DEF ResultInv
  <2>1. Known'
    BY <2>0, KnownStep, Zenon
  <2>2. Outcomes'
    BY <2>0, OutcomesStep, Zenon
  <2>3. OneResident'
    BY <2>0, OneResidentStep, Zenon
  <2>4. Expecting'
    BY <2>0, ExpectingStep, Zenon DEF Expecting
  <2>5. InARow'
    BY <2>0, InARowStep, Zenon DEF InARow
  <2>6. ResolvedFromOneResult'
    BY <2>0, ResolvedStep, Zenon
  <2> QED  BY <2>1, <2>2, <2>3, <2>4, <2>5, <2>6, Zenon DEF ResultInv
<1>2. ResultInv => ResolvedFromOneResult
  BY Zenon DEF ResultInv
<1> QED  BY <1>1, <1>2, ResultInit, ActionsTypeCorrect, PTL DEF Spec
===============================================================================
