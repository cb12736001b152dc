------------------------------ MODULE StreamProofs ------------------------------
(***************************************************************************)
(* TLAPS proofs about what the relay streams to the surfaces: the watch    *)
(* sets of its local tabs (SurfaceWatch), for any threads and any number   *)
(* of connects, where an aborted request is never handled late; and the    *)
(* writer to the broker (BrokerWriter), for any queue capacities, any      *)
(* number of replies and chunks and any pacing.                            *)
(*                                                                         *)
(* The watch sets rest on one fact about generations (GenerationInv): the  *)
(* stream of the tab's latest connect, once the relay serves it, owns the  *)
(* generation in force, and no older stream claims a later one.  What a    *)
(* declaration does then depends on the one request under way (DeclareInv).*)
(*                                                                         *)
(* In the writer, that a due chunk is late enough needs the deadline to    *)
(* make up for what is missing of the interval at every tick before; that  *)
(* the task returns with nothing left needs a disconnected queue to stay   *)
(* empty.  WriterInv conjoins both with the deadline's agreement with the  *)
(* resident train.  ReplyInv relates what is written to what is left: the  *)
(* queue is in hand-off order, behind the resident train, and the chunk    *)
(* last written is the one before the next or the end of its reply.        *)
(***************************************************************************)
EXTENDS SurfaceWatch, BrokerWriter, TLAPS

-------------------------------------------------------------------------------
(* The tab's watch set *)

\* Guards carry the number of their connect; the latest stream's is in force.
GenerationInv ==
  /\ tab.stream # "none" => tab.gen \in Gens
  /\ gets \subseteq {tab.gen}
  /\ \A g \in gets : guards[g] = NoGuard
  /\ tab.stream = "open" => gets = {}
  /\ generation <= tab.gen
  /\ \A g \in Gens : guards[g] # NoGuard =>
       /\ guards[g].gen = g /\ g <= tab.gen
       /\ generation = 0 \/ g <= generation
       /\ g = tab.gen => generation = g

\* The declarer has at most one request on its way; what it has heard of a request made
\* on the stream that is still open is in force.
DeclareInv ==
  tab.open =>
    /\ net \subseteq {sync.post} /\ Nothing \notin net
    /\ (sync.post # Nothing /\ answered) => net = {}
    /\ sync.post # Nothing =>
         /\ sync.post.gen <= tab.gen
         /\ (sync.post.onOpen /\ sync.post.gen = tab.gen) => tab.stream # "connecting"
         /\ (/\ answered /\ sync.post.onOpen /\ sync.post.gen = tab.gen
             /\ tab.stream = "open" /\ Served(tab.gen))
            => watched = sync.post.thread
    /\ DeclaredOnOpenStreamSticks

WatchInv == TypeOK /\ GenerationInv /\ DeclareInv

\* A tab starts without a stream, a request or a declaration.
LEMMA WatchInit == Init => WatchInv
<1> SUFFICES ASSUME Init PROVE WatchInv
  OBVIOUS
<1> USE SurfaceWatchAssumption DEF Init
<1>1. TypeOK
  <2>1. guards \in [Gens -> [state : {"none", "live", "dropped"}, gen : 0..MaxConnects]]
    BY DEF NoGuard
  <2>2. tab \in [open : BOOLEAN, view : Threads, gen : 0..MaxConnects,
                stream : {"none", "connecting", "open"}]
    <3>1. 0 \in 0..MaxConnects
      OBVIOUS
    <3> QED  BY ZenonT(30), <3>1
  <2>3. sync \in [lastKey : Threads \cup {Nothing}, post : Posts \cup {Nothing},
                 pending : Threads \cup {Nothing}, rendered : Threads \cup {Nothing}]
    OBVIOUS
  <2> QED  BY Zenon, <2>1, <2>2, <2>3 DEF TypeOK
<1>2. GenerationInv
  BY DEF GenerationInv, Gens, NoGuard
<1>3. DeclareInv
  BY DEF DeclareInv, DeclaredOnOpenStreamSticks
<1> QED  BY <1>1, <1>2, <1>3 DEF WatchInv

\* A request is made of the thread, the tab's generation and the state of its stream.
LEMMA PostedRequest ==
  ASSUME TypeOK, NEW t \in Threads
  PROVE  /\ Posted(t) \in Posts /\ Posted(t) # Nothing
         /\ Posted(t).gen = tab.gen /\ Posted(t).thread = t
         /\ Posted(t).onOpen <=> (tab.stream = "open")
<1>1. tab.gen \in 0..MaxConnects /\ (tab.stream = "open") \in BOOLEAN
  BY DEF TypeOK
<1>2. Posted(t) \in Posts
  BY <1>1 DEF Posted, Posts
<1> QED  BY Zenon, <1>2, NothingAssumption DEF Posted

\* Types are preserved by every step of the tab and the relay.
LEMMA WatchTypes == TypeOK /\ [Next]_vars => TypeOK'
<1> SUFFICES ASSUME TypeOK, [Next]_vars PROVE TypeOK'
  OBVIOUS
<1> USE SurfaceWatchAssumption DEF TypeOK, Gens
<1>1. CASE UNCHANGED vars
  BY <1>1 DEF vars
<1>2. ASSUME NEW t \in Threads, Navigate(t) PROVE TypeOK'
  BY <1>2 DEF Navigate
<1>3. CASE Render
  <2>1. tab.view \in Threads /\ Posted(tab.view) \in Posts
    BY PostedRequest
  <2> QED  BY ZenonT(30), <1>3, <2>1 DEF Render
<1>4. CASE PostReturns
  <2>1. sync.post \in Posts
    BY <1>4 DEF PostReturns
  <2>2. sync.post.thread \in Threads /\ sync.post.onOpen \in BOOLEAN
    BY <2>1 DEF Posts
  <2>3. keyOnOpen' \in BOOLEAN
    BY <1>4 DEF PostReturns
  <2>4. sync' \in [lastKey : Threads \cup {Nothing}, post : Posts \cup {Nothing},
                  pending : Threads \cup {Nothing}, rendered : Threads \cup {Nothing}]
        /\ net' \subseteq Posts /\ answered' \in BOOLEAN
    <3>1. CASE MoreToPost
      <4>1. sync.pending \in Threads /\ Posted(sync.pending) \in Posts
        BY <3>1, PostedRequest DEF MoreToPost
      <4> QED  BY ZenonT(30), <1>4, <2>2, <3>1, <4>1 DEF PostReturns
    <3>2. CASE ~MoreToPost
      BY ZenonT(30), <1>4, <2>2, <3>2 DEF PostReturns
    <3> QED  BY <3>1, <3>2
  <2> QED  BY <1>4, <2>3, <2>4 DEF PostReturns
<1>5. CASE PostFails
  BY Zenon, <1>5 DEF PostFails
<1>6. CASE Connect
  <2>1. tab.gen + 1 \in 1..MaxConnects
    BY <1>6 DEF Connect
  <2>2. gets' \subseteq Gens
    BY <1>6, <2>1 DEF Connect, Remaining
  <2>3. tab' \in [open : BOOLEAN, view : Threads, gen : 0..MaxConnects,
                 stream : {"none", "connecting", "open"}]
    <3>1. tab' = [tab EXCEPT !.gen = tab.gen + 1, !.stream = "connecting"]
      BY <1>6 DEF Connect
    <3>2. tab.gen + 1 \in 0..MaxConnects
      BY <2>1
    <3> QED  BY Zenon, <3>1, <3>2
  <2> QED  BY <1>6, <2>2, <2>3 DEF Connect
<1>7. CASE StreamOpens
  BY SMTT(30), <1>7 DEF StreamOpens, Forgotten
<1>8. CASE StreamErrors
  BY <1>8 DEF StreamErrors, Remaining
<1>9. CASE TabCloses
  BY Zenon, <1>9 DEF TabCloses, Remaining
<1>10. ASSUME NEW g \in Gens, GetArrives(g) PROVE TypeOK'
  BY <1>10 DEF GetArrives, InForce
<1>11. ASSUME NEW g \in Gens, StreamDropped(g) PROVE TypeOK'
  BY <1>11 DEF StreamDropped
<1>12. ASSUME NEW g \in Gens, Teardown(g) PROVE TypeOK'
  BY <1>12 DEF Teardown, NoGuard
<1>13. ASSUME NEW post \in net, PostArrives(post) PROVE TypeOK'
  BY SMTT(30), <1>13 DEF PostArrives, Posts
<1> QED
  BY Zenon, <1>1, <1>2, <1>3, <1>4, <1>5, <1>6, <1>7, <1>8, <1>9, <1>10, <1>11, <1>12, <1>13
     DEF Next

\* Generations stay in the order of the connects, as long as no request is handled late.
LEMMA Generations ==
  ASSUME ~LateRequests, TypeOK, GenerationInv, [Next]_vars
  PROVE  GenerationInv'
<1> USE SurfaceWatchAssumption DEF TypeOK, GenerationInv, Gens
<1>1. CASE UNCHANGED <<gets, guards, generation, tab>>
  BY <1>1
<1>2. ASSUME NEW t \in Threads, Navigate(t) PROVE GenerationInv'
  BY <1>2 DEF Navigate
<1>3. CASE Connect
  BY <1>3 DEF Connect, Remaining
<1>4. CASE StreamOpens
  <2>1. gets = {}
    BY <1>4 DEF StreamOpens
  <2> QED  BY <1>4, <2>1 DEF StreamOpens
<1>5. CASE StreamErrors
  BY <1>5 DEF StreamErrors, Remaining
<1>6. CASE TabCloses
  BY <1>6 DEF TabCloses, Remaining
<1>7. ASSUME NEW g \in Gens, GetArrives(g) PROVE GenerationInv'
  BY <1>7 DEF GetArrives, InForce, NoGuard
<1>8. ASSUME NEW g \in Gens, StreamDropped(g) PROVE GenerationInv'
  BY <1>8 DEF StreamDropped, Served, NoGuard
<1>9. ASSUME NEW g \in Gens, Teardown(g) PROVE GenerationInv'
  BY SMTT(30), <1>9 DEF Teardown, StillCurrent, NoGuard
<1>10. CASE Render \/ PostReturns \/ PostFails \/ UNCHANGED vars
  BY <1>10, <1>1 DEF Render, PostReturns, PostFails, vars
<1>11. ASSUME NEW post \in net, PostArrives(post) PROVE GenerationInv'
  BY SMTT(30), <1>11, <1>1 DEF PostArrives
<1> QED
  BY <1>2, <1>3, <1>4, <1>5, <1>6, <1>7, <1>8, <1>9, <1>10, <1>11 DEF Next

\* What the tab has heard of its declarations stays true.
LEMMA Declarations ==
  ASSUME ~LateRequests, TypeOK, GenerationInv, DeclareInv, [Next]_vars
  PROVE  DeclareInv'
<1> SUFFICES ASSUME tab'.open PROVE DeclareInv'
  BY DEF DeclareInv
<1>0. tab.open
  BY DEF Next, vars, Navigate, Render, PostReturns, PostFails, Connect, StreamOpens,
         StreamErrors, TabCloses, GetArrives, StreamDropped, Teardown, PostArrives, TypeOK
<1> USE <1>0, SurfaceWatchAssumption DEF TypeOK, DeclareInv, DeclaredOnOpenStreamSticks
<1>1. CASE UNCHANGED vars
  BY <1>1 DEF vars, Served
<1>2. ASSUME NEW t \in Threads, Navigate(t) PROVE DeclareInv'
  BY <1>2 DEF Navigate, Served
<1>3. CASE Render
  <2>1. CASE tab.view = sync.lastKey \/ sync.post # Nothing
    BY ZenonT(30), <1>3, <2>1 DEF Render, Served
  <2>2. CASE ~(tab.view = sync.lastKey \/ sync.post # Nothing)
    <3>1. /\ sync'.post = Posted(tab.view) /\ net' = net \cup {Posted(tab.view)} /\ answered' = FALSE
          /\ UNCHANGED <<tab, guards, watched, keyOnOpen>>
      BY Zenon, <1>3, <2>2 DEF Render
    <3>2. net = {}
      BY <2>2
    <3> QED  BY <3>1, <3>2, PostedRequest DEF Served
  <2> QED  BY <2>1, <2>2
<1>4. CASE PostReturns
  <2>1. net = {} /\ sync.post \in Posts /\ UNCHANGED <<tab, guards, watched>>
    BY <1>4 DEF PostReturns
  <2>2. CASE MoreToPost
    <3>1. sync.pending \in Threads
      BY <2>2 DEF MoreToPost
    <3>2. /\ sync'.post = Posted(sync.pending) /\ net' = {Posted(sync.pending)} /\ answered' = FALSE
      BY Zenon, <1>4, <2>1, <2>2 DEF PostReturns
    <3> QED  BY <2>1, <3>1, <3>2, PostedRequest DEF Served
  <2>3. CASE ~MoreToPost
    <3>1. /\ sync'.post = Nothing /\ sync'.lastKey = sync.post.thread /\ net' = {}
          /\ keyOnOpen' = (sync.post.onOpen /\ tab.stream = "open" /\ sync.post.gen = tab.gen)
      BY Zenon, <1>4, <2>1, <2>3 DEF PostReturns
    <3>2. answered /\ sync.post # Nothing
      BY <1>4 DEF PostReturns
    <3>3. keyOnOpen' => sync.post.onOpen /\ tab.stream = "open" /\ sync.post.gen = tab.gen
      BY <3>1, <2>1 DEF Posts
    <3> QED  BY <2>1, <3>1, <3>2, <3>3 DEF Served
  <2> QED  BY <2>2, <2>3
<1>5. CASE PostFails
  BY <1>5 DEF PostFails, Served
<1>6. CASE Connect
  BY <1>6 DEF Connect, Served, Posts
<1>7. CASE StreamOpens
  BY <1>7 DEF StreamOpens, Forgotten, Served
<1>8. CASE StreamErrors
  BY <1>8 DEF StreamErrors, Served
<1>9. CASE TabCloses
  BY <1>9 DEF TabCloses
<1>10. ASSUME NEW g \in Gens, GetArrives(g) PROVE DeclareInv'
  BY <1>10 DEF GetArrives, GenerationInv, Served
<1>11. ASSUME NEW g \in Gens, StreamDropped(g) PROVE DeclareInv'
  BY SMTT(30), <1>11 DEF StreamDropped, Served
<1>12. ASSUME NEW g \in Gens, Teardown(g) PROVE DeclareInv'
  BY <1>12 DEF Teardown, StillCurrent, GenerationInv, Served, NoGuard, Gens
<1>13. ASSUME NEW post \in net, PostArrives(post) PROVE DeclareInv'
  BY <1>13 DEF PostArrives, NotSuperseded, GenerationInv, Served, Gens, NoGuard
<1> QED
  BY ZenonT(30), <1>1, <1>2, <1>3, <1>4, <1>5, <1>6, <1>7, <1>8, <1>9, <1>10, <1>11, <1>12,
     <1>13 DEF Next

\* The inductive invariant of the tab and the relay.
LEMMA WatchAlways == ASSUME ~LateRequests PROVE Spec => []WatchInv
<1>1. WatchInv /\ [Next]_vars => WatchInv'
  BY WatchTypes, Generations, Declarations DEF WatchInv
<1> QED  BY <1>1, WatchInit, PTL DEF Spec

\* Types of the declarer (watched-threads.js) and of the relay's guards, generations and
\* watch set, with or without late requests.
THEOREM WatchTypeCorrect == Spec => []TypeOK
<1>1. Init => TypeOK
  BY WatchInit DEF WatchInv
<1> QED  BY <1>1, WatchTypes, PTL DEF Spec

\* The teardown of a closed stream never unsubscribes a newer stream the relay is serving,
\* as long as the relay handles no stream request the tab has given up.
THEOREM TeardownIsSafe == ASSUME ~LateRequests PROVE Spec => TeardownSparesNewerStreams
<1>1. WatchInv /\ [Next]_vars =>
        [(watched # Nothing /\ watched' = Nothing)
           => \A g, old \in Gens :
                (guards'[g].state = "live" /\ guards'[old] # guards[old]) => g < old]_vars
  <2> SUFFICES ASSUME WatchInv, Next, watched # Nothing, watched' = Nothing,
                      NEW g \in Gens, NEW old \in Gens,
                      guards'[g].state = "live", guards'[old] # guards[old]
               PROVE  g < old
    OBVIOUS
  <2>1. PICK h \in Gens : Teardown(h)
    <3>1. ASSUME NEW post \in net, PostArrives(post) PROVE FALSE
      BY <3>1, SurfaceWatchAssumption DEF PostArrives, WatchInv, TypeOK, Posts
    <3> QED
      BY <3>1 DEF Next, Navigate, Render, PostReturns, PostFails, Connect, StreamOpens,
                  StreamErrors, TabCloses, GetArrives, StreamDropped
  <2>2. old = h /\ g # h /\ guards[g].state = "live" /\ guards[h].state = "dropped" /\ generation = guards[h].gen
    BY <2>1 DEF Teardown, StillCurrent, WatchInv, TypeOK, NoGuard
  <2> QED
    BY SMTT(30), <2>2, SurfaceWatchAssumption DEF WatchInv, TypeOK, GenerationInv, NoGuard, Gens
<1> QED  BY <1>1, WatchAlways, PTL DEF Spec, TeardownSparesNewerStreams

\* A declaration made and answered on the stream that is still open and served is in force,
\* so the declarer's dedupe on lastKey suppresses nothing it should not.
THEOREM DeclarationsStick == ASSUME ~LateRequests PROVE Spec => []DeclaredOnOpenStreamSticks
<1>1. WatchInv => DeclaredOnOpenStreamSticks
  BY DEF WatchInv, DeclareInv, DeclaredOnOpenStreamSticks
<1> QED  BY <1>1, WatchAlways, PTL

-------------------------------------------------------------------------------
(* The writer's deadline *)

WriterTypes ==
  /\ handle_open \in BOOLEAN /\ now_closed \in BOOLEAN /\ train_closed \in BOOLEAN
  /\ handed \in Seq(Trains)
  /\ now_q \in Nat
  /\ train_q \in Seq(1..Len(handed))
  /\ train \in Seq(Nat)
  /\ next_chunk_at \in -1..MaxInterval
  /\ since_chunk \in 0..MaxInterval

\* What is missing of the interval since the last chunk, the deadline still waits for.
Paced ==
  train # <<>> =>
    /\ resident \in 1..Len(handed)
    /\ since_chunk + next_chunk_at >= handed[resident].interval

\* A queue the loop has seen disconnected is empty for good.
ClosedIsEmpty ==
  /\ now_closed => ~handle_open /\ now_q = 0
  /\ train_closed => ~handle_open /\ train_q = <<>>

WriterInv == WriterTypes /\ DeadlineArmedIffChunksLeft /\ Paced /\ ClosedIsEmpty

\* The bounds of the pacing and of a reply are numbers.
LEMMA Bounds == MaxInterval \in Nat /\ MaxChunks \in Nat
BY BrokerWriterAssumption

\* What a reply handed to the writer looks like.
LEMMA TrainFields ==
  ASSUME NEW frame \in Trains
  PROVE  frame.chunks \in Nat \ {0} /\ frame.interval \in 0..MaxInterval
BY Bounds DEF Trains

\* spawn_broker_writer starts the loop idle, with nothing queued.
LEMMA WriterBegins == WriterInit => WriterInv
<1> SUFFICES ASSUME WriterInit PROVE WriterInv
  OBVIOUS
<1>1. handed \in Seq(Trains) /\ train_q \in Seq(1..Len(handed)) /\ train \in Seq(Nat)
  BY DEF WriterInit
<1>2. next_chunk_at \in -1..MaxInterval /\ since_chunk \in 0..MaxInterval
  BY Bounds DEF WriterInit, NoDeadline
<1>3. WriterTypes
  BY Zenon, <1>1, <1>2 DEF WriterInit, WriterTypes
<1> QED  BY <1>3 DEF WriterInit, WriterInv, DeadlineArmedIffChunksLeft, Paced, ClosedIsEmpty

\* accept_train makes a waiting reply resident, due when its interval has passed.
LEMMA AcceptTrain ==
  ASSUME WriterInv, train = <<>>, accept_train
  PROVE  WriterInv'
<1> DEFINE id == Head(train_q)
           frame == handed[id]
<1>1. id \in 1..Len(handed) /\ frame \in Trains /\ Tail(train_q) \in Seq(1..Len(handed))
  BY DEF accept_train, WriterInv, WriterTypes
<1>2. /\ frame.chunks \in Nat \ {0} /\ frame.interval \in 0..MaxInterval
      /\ train' = [i \in 1..frame.chunks |-> i]
      /\ next_chunk_at' = FirstDue(frame)
      /\ resident' = id /\ train_q' = Tail(train_q)
      /\ UNCHANGED <<handle_open, handed, now_q, since_chunk, now_closed, train_closed>>
  BY <1>1, Bounds DEF accept_train, Trains, inputs
<1>3. train' \in Seq(Nat) /\ Len(train') = frame.chunks
  BY <1>2
<1>4. train' # <<>>
  BY <1>2, <1>3
<1>5. /\ FirstDue(frame) \in 0..MaxInterval
      /\ since_chunk + FirstDue(frame) >= frame.interval
  <2>1. since_chunk \in 0..MaxInterval
    BY DEF WriterInv, WriterTypes
  <2>2. CASE frame.interval > since_chunk
    <3>1. FirstDue(frame) = frame.interval - since_chunk
      BY <2>2 DEF FirstDue
    <3> QED  BY <3>1, <2>2, <1>2, <2>1, Bounds
  <2>3. CASE ~(frame.interval > since_chunk)
    <3>1. FirstDue(frame) = 0
      BY SMTT(30), <2>3 DEF FirstDue
    <3> QED  BY <3>1, <2>3, <1>2, <2>1, Bounds
  <2> QED  BY <2>2, <2>3
<1>6. WriterTypes'
  BY <1>1, <1>2, <1>3, <1>5 DEF WriterInv, WriterTypes
<1>7. DeadlineArmedIffChunksLeft' /\ Paced'
  BY SMTT(30), <1>1, <1>2, <1>4, <1>5 DEF DeadlineArmedIffChunksLeft, Paced, NoDeadline
<1>8. ClosedIsEmpty'
  BY <1>2 DEF WriterInv, ClosedIsEmpty, accept_train
<1> QED  BY <1>6, <1>7, <1>8 DEF WriterInv

\* A written chunk starts the next interval, or the reply is complete.
LEMMA ChunkWritten ==
  ASSUME WriterInv, WriteChunk
  PROVE  /\ WriterInv'
         /\ since_chunk >= handed[resident].interval
<1>1. next_chunk_at = 0 /\ train # <<>>
  BY DEF WriteChunk, Due, WriterInv, DeadlineArmedIffChunksLeft, NoDeadline
<1>2. resident \in 1..Len(handed) /\ since_chunk >= handed[resident].interval
  BY <1>1 DEF WriterInv, Paced, WriterTypes
<1>3. handed[resident].interval \in 0..MaxInterval
  <2>1. handed[resident] \in Trains
    BY <1>2 DEF WriterInv, WriterTypes
  <2> QED  BY <2>1, TrainFields
<1>4. train' \in Seq(Nat)
  BY <1>1 DEF WriteChunk, WriterInv, WriterTypes
<1>5. next_chunk_at' = IF train' = <<>> THEN NoDeadline ELSE handed[resident].interval
  BY DEF WriteChunk, advance_train
<1>6. UNCHANGED <<handle_open, handed, now_q, train_q, resident, now_closed, train_closed>>
  BY DEF WriteChunk, inputs, queues
<1>7. next_chunk_at' \in -1..MaxInterval /\ since_chunk' = 0
  BY <1>3, <1>5, Bounds DEF WriteChunk, NoDeadline
<1>8. WriterTypes'
  BY <1>4, <1>6, <1>7, Bounds DEF WriterInv, WriterTypes
<1>9. DeadlineArmedIffChunksLeft'
  BY <1>3, <1>5 DEF DeadlineArmedIffChunksLeft, NoDeadline
<1>10. Paced'
  BY <1>2, <1>3, <1>5, <1>6, <1>7 DEF Paced
<1>11. ClosedIsEmpty'
  BY <1>6 DEF WriterInv, ClosedIsEmpty
<1> QED  BY <1>2, <1>8, <1>9, <1>10, <1>11 DEF WriterInv

\* Steps that leave the resident train, the clock and what is closed alone.
LEMMA TrainUntouched ==
  ASSUME WriterInv,
         UNCHANGED <<handle_open, handed, train_q, loopvars>>,
         now_q' \in Nat, now_closed => now_q' = now_q
  PROVE  WriterInv'
BY DEF WriterInv, WriterTypes, DeadlineArmedIffChunksLeft, Paced, ClosedIsEmpty, loopvars

\* WriterInv is preserved by every step of the session, the clock and drive_writer.
LEMMA WriterStep == WriterInv /\ [WriterNext]_writerVars => WriterInv'
<1> SUFFICES ASSUME WriterInv, [WriterNext]_writerVars PROVE WriterInv'
  OBVIOUS
<1> USE DEF inputs, queues, history
<1>1. CASE UNCHANGED writerVars
  BY <1>1, TrainUntouched DEF writerVars, WriterInv, WriterTypes
<1>2. CASE SendPing
  BY <1>2, TrainUntouched DEF SendPing, WriterInv, WriterTypes
<1>3. CASE SendNow
  BY <1>3, TrainUntouched DEF SendNow, WriterInv, WriterTypes, ClosedIsEmpty
<1>4. ASSUME NEW frame \in Trains, SendTrain(frame) PROVE WriterInv'
  <2>1. /\ handed' = Append(handed, frame) /\ handle_open
        /\ train_q' = Append(train_q, Len(handed) + 1) \/ train_q' = train_q
        /\ UNCHANGED <<handle_open, now_q, loopvars>>
    BY <1>4 DEF SendTrain
  <2>2. /\ handed' \in Seq(Trains) /\ Len(handed') = Len(handed) + 1
        /\ \A i \in 1..Len(handed) : handed'[i] = handed[i]
    BY <2>1 DEF WriterInv, WriterTypes
  <2>3. train_q' \in Seq(1..Len(handed'))
    <3>1. train_q \in Seq(1..Len(handed')) /\ Len(handed) + 1 \in 1..Len(handed')
      BY <2>2 DEF WriterInv, WriterTypes
    <3>2. Append(train_q, Len(handed) + 1) \in Seq(1..Len(handed'))
      BY <3>1
    <3> QED  BY Zenon, <3>1, <3>2, <2>1
  <2>4. Paced'
    BY <2>1, <2>2 DEF WriterInv, WriterTypes, Paced, loopvars
  <2>5. WriterTypes' /\ DeadlineArmedIffChunksLeft' /\ ClosedIsEmpty'
    BY <2>1, <2>2, <2>3 DEF WriterInv, WriterTypes, DeadlineArmedIffChunksLeft, ClosedIsEmpty,
                            loopvars
  <2> QED  BY <2>4, <2>5 DEF WriterInv
<1>5. ASSUME NEW s \in Targets, SurfaceLeaves(s) PROVE WriterInv'
  BY <1>5, TrainUntouched DEF SurfaceLeaves, WriterInv, WriterTypes
<1>6. CASE DropHandle
  BY Zenon, <1>6 DEF DropHandle, WriterInv, WriterTypes, DeadlineArmedIffChunksLeft, Paced,
                     ClosedIsEmpty, loopvars
<1>7. CASE Abort
  BY <1>7, TrainUntouched DEF Abort, WriterInv, WriterTypes
<1>8. CASE Tick
  <2>1. /\ since_chunk' = IF since_chunk < MaxInterval THEN since_chunk + 1 ELSE since_chunk
        /\ next_chunk_at' = IF next_chunk_at > 0 THEN next_chunk_at - 1 ELSE next_chunk_at
        /\ UNCHANGED <<handle_open, handed, now_q, train_q, train, resident, now_closed, train_closed>>
    BY <1>8 DEF Tick
  <2>2. WriterTypes' /\ DeadlineArmedIffChunksLeft'
    BY <2>1, Bounds DEF WriterInv, WriterTypes, DeadlineArmedIffChunksLeft, NoDeadline
  <2>3. Paced'
    <3> SUFFICES ASSUME train # <<>>
                 PROVE  /\ resident \in 1..Len(handed)
                        /\ since_chunk' + next_chunk_at' >= handed[resident].interval
      BY <2>1 DEF Paced
    <3>1. resident \in 1..Len(handed) /\ since_chunk + next_chunk_at >= handed[resident].interval
      BY DEF WriterInv, Paced
    <3>2. handed[resident].interval \in 0..MaxInterval
      <4>1. handed[resident] \in Trains
        BY <3>1 DEF WriterInv, WriterTypes
      <4> QED  BY <4>1, TrainFields
    <3>3. next_chunk_at \in 0..MaxInterval
      BY SMTT(30) DEF WriterInv, WriterTypes, DeadlineArmedIffChunksLeft, NoDeadline
    <3> QED  BY <2>1, <3>1, <3>2, <3>3, Bounds DEF WriterInv, WriterTypes
  <2>4. ClosedIsEmpty'
    BY <2>1 DEF WriterInv, ClosedIsEmpty
  <2> QED  BY <2>2, <2>3, <2>4 DEF WriterInv
<1>9. CASE WriteFails
  BY SMTT(30), <1>9, TrainUntouched DEF WriteFails, WriterInv, WriterTypes
<1>10. ASSUME WritePing PROVE WriterInv'
  BY <1>10, TrainUntouched DEF WritePing, WriterInv, WriterTypes
<1>11. ASSUME WriteNow PROVE WriterInv'
  BY <1>11, TrainUntouched DEF WriteNow, WriterInv, WriterTypes, ClosedIsEmpty
<1>12. ASSUME UNCHANGED <<inputs, queues, loopvars, history>> PROVE WriterInv'
  BY <1>12, TrainUntouched DEF WriterInv, WriterTypes
<1>13. CASE PingStep
  BY <1>13, <1>10, <1>12 DEF PingStep
<1>14. CASE AbandonTrain
  BY <1>14, Bounds DEF AbandonTrain, WriterInv, WriterTypes, DeadlineArmedIffChunksLeft, Paced,
                       ClosedIsEmpty, NoDeadline
<1>15. CASE WriteChunk
  BY <1>15, ChunkWritten
<1>16. CASE NotDue
  BY <1>16, <1>12 DEF NotDue
<1>17. CASE AcceptStep
  <2>1. CASE MayAccept /\ accept_train
    BY <2>1, AcceptTrain DEF MayAccept
  <2>2. CASE /\ train_closed' = (train_closed \/ (train = <<>> /\ train_q = <<>> /\ ~handle_open))
             /\ UNCHANGED <<inputs, queues, train, resident, next_chunk_at, since_chunk, now_closed, history>>
    BY SMTT(30), <2>2 DEF WriterInv, WriterTypes, DeadlineArmedIffChunksLeft, Paced,
                          ClosedIsEmpty
  <2> QED  BY <1>17, <2>1, <2>2 DEF AcceptStep
<1>18. CASE NowStep
  <2>1. CASE /\ now_q = 0 /\ now_closed' = (now_closed \/ ~handle_open)
             /\ UNCHANGED <<inputs, queues, train, resident, next_chunk_at, since_chunk, train_closed, history>>
    BY <2>1 DEF WriterInv, WriterTypes, DeadlineArmedIffChunksLeft, Paced, ClosedIsEmpty
  <2> QED  BY <1>18, <1>11, <2>1 DEF NowStep
<1>19. CASE WaitStep
  <2>1. ASSUME next_chunk_at = NoDeadline, accept_train PROVE WriterInv'
    BY <2>1, AcceptTrain DEF WriterInv, DeadlineArmedIffChunksLeft
  <2> QED  BY <1>19, <1>10, <1>11, <1>12, <2>1 DEF WaitStep
<1>20. CASE Finish
  BY <1>20, <1>12 DEF Finish
<1> QED
  BY SMTT(30), <1>1, <1>2, <1>3, <1>4, <1>5, <1>6, <1>7, <1>8, <1>9, <1>13, <1>14, <1>15, <1>16,
     <1>17,
     <1>18, <1>19, <1>20 DEF WriterNext, Drive

\* No reply is held without a wake-up and no wake-up finds an empty train: next_chunk_at
\* is set exactly while chunks of the resident train are left.
THEOREM DeadlineFollowsTrain == WriterSpec => []DeadlineArmedIffChunksLeft
<1>1. WriterInv => DeadlineArmedIffChunksLeft
  BY DEF WriterInv
<1> QED  BY <1>1, WriterBegins, WriterStep, PTL DEF WriterSpec

\* Every chunk is written at least its train's interval after the chunk before it, the
\* last one of the reply before included.
THEOREM ChunksKeepTheirDistance == WriterSpec => ChunksArePaced
<1>1. WriterInv /\ [WriterNext]_writerVars =>
        [Len(wire') > Len(wire) => since_chunk >= handed[resident].interval]_writerVars
  <2> SUFFICES ASSUME WriterInv, WriterNext, wire' # wire
               PROVE  since_chunk >= handed[resident].interval
    BY SMTT(30) DEF writerVars, history
  <2>1. WriteChunk
    BY Zenon DEF WriterNext, Drive, SendPing, SendNow, SendTrain, SurfaceLeaves, DropHandle,
                 Abort, Tick, PingStep, AbandonTrain, NotDue, AcceptStep, NowStep, WaitStep,
                 Finish, WriteFails, WritePing, WriteNow, accept_train, history
  <2> QED  BY SMTT(30), <2>1, ChunkWritten
<1> QED  BY <1>1, WriterBegins, WriterStep, PTL DEF WriterSpec, ChunksArePaced

DoneInv == WriterInv /\ DoneMeansDrained

\* drive_writer returns only when no frame and no reply it accepted is left.
THEOREM ReturnsDrained == WriterSpec => []DoneMeansDrained
<1>1. WriterInit => DoneInv
  BY WriterBegins DEF DoneInv, WriterInit, DoneMeansDrained
<1>2. DoneInv /\ [WriterNext]_writerVars => DoneInv'
  <2> SUFFICES ASSUME DoneInv, [WriterNext]_writerVars, pc' = "done"
               PROVE  now_q' = 0 /\ train_q' = <<>> /\ train' = <<>>
    BY SMTT(30), WriterStep DEF DoneInv, DoneMeansDrained
  <2>1. CASE pc = "done"
    <3>1. UNCHANGED <<now_q, train_q, train>>
      BY ZenonT(30), <2>1 DEF WriterNext, Drive, SendPing, SendNow, SendTrain, SurfaceLeaves,
                              DropHandle, Abort, Tick, PingStep, AbandonTrain, WriteChunk,
                              NotDue, AcceptStep, NowStep, WaitStep, Finish, WriteFails,
                              Running, Steps, queues, loopvars, writerVars
    <3> QED  BY SMTT(30), <2>1, <3>1 DEF DoneInv, DoneMeansDrained
  <2>2. CASE pc # "done"
    <3>1. Finish
      BY ZenonT(30), <2>2 DEF WriterNext, Drive, SendPing, SendNow, SendTrain, SurfaceLeaves, DropHandle,
                  Abort, Tick, PingStep, AbandonTrain, WriteChunk, NotDue, AcceptStep, NowStep,
                  WaitStep, Goto, WriteFails, writerVars
    <3> QED  BY SMTT(30), <3>1 DEF Finish, DoneInv, WriterInv, ClosedIsEmpty,
                                   DeadlineArmedIffChunksLeft, queues, loopvars
  <2> QED  BY <2>1, <2>2
<1> QED  BY <1>1, <1>2, PTL DEF WriterSpec, DoneInv


-------------------------------------------------------------------------------
(* Heartbeats *)

\* A frame that overtook a ping has sent the loop back to the step that writes pings.
PingInv == overtaken <= 1 /\ (overtaken = 1 /\ Running => pc = "ping" /\ ping_q > 0)

\* A heartbeat that drive_writer has queued waits for at most one other frame.
THEOREM PingsOvertakeTheRest == WriterSpec => []PingWaitsForOneFrame
<1> DEFINE PInv == overtaken \in Nat /\ ping_q \in Nat /\ PingInv
<1>1. WriterInit => PInv
  BY SMTT(30) DEF WriterInit, PingInv
<1>2. PInv /\ [WriterNext]_writerVars => PInv'
  <2> SUFFICES ASSUME PInv, [WriterNext]_writerVars PROVE PInv'
    OBVIOUS
  <2> USE DEF inputs, queues, history, PingInv, Running, Steps
  <2>1. ASSUME UNCHANGED <<overtaken, ping_q, pc>> PROVE PInv'
    BY <2>1
  <2>2. CASE UNCHANGED writerVars
    BY SMTT(30), <2>1, <2>2 DEF writerVars
  <2>3. CASE SendPing
    BY SMTT(30), <2>3 DEF SendPing
  <2>4. CASE SendNow \/ (\E frame \in Trains : SendTrain(frame))
             \/ (\E s \in Targets : SurfaceLeaves(s)) \/ DropHandle \/ Tick
    BY <2>1, <2>4 DEF SendNow, SendTrain, SurfaceLeaves, DropHandle, Tick
  <2>5. CASE Abort \/ WriteFails
    BY <2>5 DEF Abort, WriteFails, Goto
  <2>6. CASE PingStep
    BY SMTT(30), <2>6 DEF PingStep, WritePing, Goto
  <2>7. CASE AbandonTrain \/ WriteChunk \/ NotDue
    BY <2>7 DEF AbandonTrain, WriteChunk, NotDue, CountsOvertaking, Goto
  <2>8. CASE AcceptStep
    BY SMTT(30), <2>8 DEF AcceptStep, accept_train, Goto
  <2>9. CASE NowStep
    BY SMTT(30), <2>9 DEF NowStep, WriteNow, CountsOvertaking, Goto
  <2>10. CASE WaitStep
    BY <2>10 DEF WaitStep, WritePing, WriteNow, CountsOvertaking, accept_train, Goto
  <2>11. CASE Finish
    BY <2>11 DEF Finish, Goto
  <2> QED
    BY <2>2, <2>3, <2>4, <2>5, <2>6, <2>7, <2>8, <2>9, <2>10, <2>11 DEF WriterNext, Drive
<1>3. PInv => PingWaitsForOneFrame
  BY DEF PingInv, PingWaitsForOneFrame
<1> QED  BY <1>1, <1>2, <1>3, PTL DEF WriterSpec

-------------------------------------------------------------------------------
(* What a surface reassembles *)

\* Appending leaves what a sequence holds in its place.
LEMMA AppendKeeps ==
  ASSUME NEW S, NEW s \in Seq(S), NEW e \in S
  PROVE  /\ Append(s, e) \in Seq(S) /\ Len(Append(s, e)) = Len(s) + 1 /\ Len(s) \in Nat
         /\ \A i \in 1..Len(s) : Append(s, e)[i] = s[i]
         /\ Append(s, e)[Len(s) + 1] = e
OBVIOUS

\* A sequence has a length, and its elements are where it takes them from.
LEMMA Elements ==
  ASSUME NEW S, NEW s \in Seq(S)
  PROVE  Len(s) \in Nat /\ \A i \in 1..Len(s) : s[i] \in S
OBVIOUS

\* Taking the first element moves the others one place forward.
LEMMA TailShifts ==
  ASSUME NEW S, NEW s \in Seq(S), s # <<>>
  PROVE  /\ Tail(s) \in Seq(S) /\ Len(Tail(s)) = Len(s) - 1 /\ Len(s) \in Nat \ {0}
         /\ \A i \in 1..Len(s) - 1 : Tail(s)[i] = s[i + 1]
         /\ Head(s) = s[1] /\ s[1] \in S
OBVIOUS

Chunks == Nat \X Nat

\* Replies become resident in the order they were handed off, and only they are written.
InOrder ==
  /\ wire \in Seq(Chunks) /\ \A i \in 1..Len(wire) : wire[i][1] \in 1..resident
  /\ resident \in 0..Len(handed)
  /\ \A i \in 1..Len(train_q) : resident < train_q[i]
  /\ \A i, j \in 1..Len(train_q) : i < j => train_q[i] < train_q[j]

\* The chunks left of the resident train run up to its last one.
Unwritten ==
  train # <<>> =>
    /\ \A i \in 1..Len(train) : train[i] = train[1] + i - 1
    /\ train[1] \in Nat \ {0} /\ train[1] + Len(train) = handed[resident].chunks + 1

\* The chunk last written is the one before the next, or it ended its reply.
LastChunk == wire[Len(wire)]
LastWritten ==
  /\ train # <<>> /\ train[1] > 1 => wire # <<>> /\ LastChunk = <<resident, train[1] - 1>>
  /\ train # <<>> /\ train[1] = 1 /\ wire # <<>> => LastChunk[1] < resident
  /\ wire # <<>> /\ (train = <<>> \/ train[1] = 1) =>
       LastChunk[2] = handed[LastChunk[1]].chunks \/ LastChunk[1] \in abandoned

ReplyInv == InOrder /\ Unwritten /\ LastWritten /\ RepliesAreContiguous

\* Four steps of the loop and its handle touch a reply that is queued, resident or written.
LEMMA ReplyMoves ==
  ASSUME WriterInv, [WriterNext]_writerVars
  PROVE  \/ UNCHANGED <<handed, train_q, train, resident, abandoned, wire>>
         \/ \E frame \in Trains : SendTrain(frame)
         \/ AbandonTrain \/ WriteChunk \/ (train = <<>> /\ accept_train)
<1> USE DEF inputs, queues, loopvars, history
<1>1. CASE UNCHANGED writerVars
  BY SMTT(30), <1>1 DEF writerVars
<1>2. CASE SendPing \/ SendNow \/ (\E s \in Targets : SurfaceLeaves(s)) \/ DropHandle \/ Abort \/ Tick
  BY SMTT(30), Zenon, <1>2 DEF SendPing, SendNow, SurfaceLeaves, DropHandle, Abort, Tick
<1>3. CASE PingStep \/ NotDue \/ NowStep \/ Finish \/ WriteFails
  BY SMTT(30), Zenon, <1>3 DEF PingStep, NotDue, NowStep, Finish, WriteFails, WritePing, WriteNow
<1>4. CASE AcceptStep
  BY SMTT(30), <1>4 DEF AcceptStep, MayAccept
<1>5. CASE WaitStep
  <2>1. next_chunk_at = NoDeadline => train = <<>>
    BY DEF WriterInv, DeadlineArmedIffChunksLeft
  <2> QED  BY <1>5, <2>1 DEF WaitStep, WritePing, WriteNow
<1> QED  BY SMTT(30), <1>1, <1>2, <1>3, <1>4, <1>5 DEF WriterNext, Drive

\* send_train hands a reply off behind the others.
LEMMA HandOffKeepsReplies ==
  ASSUME WriterInv, ReplyInv, NEW frame \in Trains, SendTrain(frame)
  PROVE  ReplyInv'
<1>1. /\ handed' = Append(handed, frame) /\ UNCHANGED <<train, resident, abandoned, wire>>
      /\ train_q' = Append(train_q, Len(handed) + 1) \/ train_q' = train_q
  BY SMTT(30), Zenon DEF SendTrain, loopvars, history
<1>2. handed \in Seq(Trains) /\ train_q \in Seq(1..Len(handed)) /\ resident \in 0..Len(handed)
  BY SMTT(30), Zenon DEF WriterInv, WriterTypes, ReplyInv, InOrder
<1>3. /\ Len(handed') = Len(handed) + 1 /\ Len(handed) \in Nat
      /\ \A t \in 1..Len(handed) : handed'[t] = handed[t]
  <2>1. /\ Len(Append(handed, frame)) = Len(handed) + 1 /\ Len(handed) \in Nat
        /\ \A t \in 1..Len(handed) : Append(handed, frame)[t] = handed[t]
    BY SMTT(30), <1>2, AppendKeeps
  <2> QED  BY <1>1, <2>1, Zenon
<1>4. \A i \in 1..Len(wire) : wire[i][1] \in 1..Len(handed)
  <2>1. \A i \in 1..Len(wire) : wire[i][1] \in 1..resident
    BY Zenon DEF ReplyInv, InOrder
  <2>2. resident \in Nat /\ resident <= Len(handed)
    BY <1>2, <1>3
  <2>3. \A k \in 1..resident : k \in 1..Len(handed)
    BY <1>3, <2>2
  <2> QED  BY <2>1, <2>3, Zenon
<1>5. \A i \in 1..Len(train_q) : train_q[i] \in 1..Len(handed)
  BY <1>2, Elements, Zenon
<1>6. InOrder'
  <2>1. /\ wire' \in Seq(Chunks) /\ \A i \in 1..Len(wire') : wire'[i][1] \in 1..resident'
        /\ resident' \in 0..Len(handed')
    <3>1. /\ wire \in Seq(Chunks) /\ \A i \in 1..Len(wire) : wire[i][1] \in 1..resident
      BY Zenon DEF ReplyInv, InOrder
    <3>2. resident \in 0..Len(handed) + 1
      BY <1>2, <1>3
    <3> QED  BY <1>1, <1>3, <3>1, <3>2, Zenon
  <2>2. CASE train_q' = train_q
    BY <1>1, <2>1, <2>2 DEF ReplyInv, InOrder
  <2>3. CASE train_q' = Append(train_q, Len(handed) + 1)
    <3>1. train_q \in Seq(Nat) /\ Len(handed) + 1 \in Nat
      BY <1>2, <1>3
    <3>2. /\ Len(train_q') = Len(train_q) + 1 /\ Len(train_q) \in Nat
          /\ \A i \in 1..Len(train_q) : train_q'[i] = train_q[i]
          /\ train_q'[Len(train_q) + 1] = Len(handed) + 1
      BY <2>3, <3>1, AppendKeeps
    <3>3. ASSUME NEW i \in 1..Len(train_q') PROVE resident' < train_q'[i]
      <4>1. CASE i = Len(train_q) + 1
        BY SMTT(30), <1>1, <1>2, <1>3, <3>2, <4>1
      <4>2. CASE i # Len(train_q) + 1
        <5>1. i \in 1..Len(train_q)
          BY <3>2, <4>2
        <5> QED  BY <1>1, <3>2, <5>1 DEF ReplyInv, InOrder
      <4> QED  BY <4>1, <4>2
    <3>4. ASSUME NEW i \in 1..Len(train_q'), NEW j \in 1..Len(train_q'), i < j
          PROVE  train_q'[i] < train_q'[j]
      <4>1. i \in 1..Len(train_q)
        BY <3>2, <3>4
      <4>2. CASE j = Len(train_q) + 1
        BY SMTT(30), <1>3, <1>5, <3>2, <4>1, <4>2
      <4>3. CASE j # Len(train_q) + 1
        <5>1. j \in 1..Len(train_q)
          BY SMTT(30), <3>2, <4>3
        <5> QED  BY <3>2, <3>4, <4>1, <5>1 DEF ReplyInv, InOrder
      <4> QED  BY <4>2, <4>3
    <3> QED  BY <2>1, <3>3, <3>4 DEF InOrder
  <2> QED  BY <1>1, <2>2, <2>3
<1>7. Unwritten'
  <2>1. train # <<>> => resident \in 1..Len(handed)
    BY SMTT(30) DEF WriterInv, Paced
  <2> QED  BY <1>1, <1>3, <2>1 DEF ReplyInv, Unwritten
<1>8. LastWritten'
  <2>1. wire # <<>> => handed'[LastChunk[1]] = handed[LastChunk[1]]
    <3>1. wire \in Seq(Chunks)
      BY DEF ReplyInv, InOrder
    <3>2. wire # <<>> => Len(wire) \in 1..Len(wire)
      BY SMTT(30), <3>1
    <3> QED  BY <1>3, <1>4, <3>2 DEF LastChunk
  <2> QED  BY Zenon, <1>1, <2>1 DEF ReplyInv, LastWritten, LastChunk
<1>9. ASSUME NEW i \in 1..Len(wire) PROVE Follows(i)'
  <2>1. Follows(i)
    BY SMTT(30) DEF ReplyInv, RepliesAreContiguous
  <2>2. i > 1 => handed'[wire[i-1][1]] = handed[wire[i-1][1]]
    <3>1. wire \in Seq(Chunks)
      BY DEF ReplyInv, InOrder
    <3>2. i > 1 => i - 1 \in 1..Len(wire)
      BY <3>1
    <3> QED  BY <1>3, <1>4, <3>2
  <2> QED  BY Zenon, <1>1, <2>1, <2>2 DEF Follows
<1> QED  BY SMTT(30), <1>1, <1>6, <1>7, <1>8, <1>9 DEF ReplyInv, RepliesAreContiguous

\* Abandoning the resident train is the one way a reply ends before its last chunk.
LEMMA AbandoningKeepsReplies ==
  ASSUME WriterInv, ReplyInv, AbandonTrain
  PROVE  ReplyInv'
<1>1. /\ train # <<>> /\ train' = <<>> /\ abandoned' = abandoned \cup {resident}
      /\ UNCHANGED <<handed, train_q, resident, wire>>
  BY DEF AbandonTrain, Due, inputs, queues, WriterInv, DeadlineArmedIffChunksLeft, NoDeadline
<1>2. InOrder' /\ Unwritten'
  BY SMTT(30), <1>1 DEF ReplyInv, InOrder, Unwritten
<1>3. LastWritten'
  <2>1. wire # <<>> => LastChunk[2] = handed[LastChunk[1]].chunks \/ LastChunk[1] \in abandoned'
    <3>1. CASE train[1] = 1
      BY <1>1, <3>1 DEF ReplyInv, LastWritten
    <3>2. CASE train[1] # 1
      <4>1. train[1] \in Nat \ {0}
        BY <1>1 DEF ReplyInv, Unwritten
      <4>2. LastChunk = <<resident, train[1] - 1>>
        BY SMTT(30), <1>1, <3>2, <4>1 DEF ReplyInv, LastWritten
      <4> QED  BY <1>1, <4>2
    <3> QED  BY <3>1, <3>2
  <2> QED  BY <1>1, <2>1 DEF LastWritten, LastChunk
<1>4. RepliesAreContiguous'
  BY <1>1 DEF ReplyInv, RepliesAreContiguous, Follows
<1> QED  BY <1>2, <1>3, <1>4 DEF ReplyInv

\* The chunk that is written follows the one before it.
LEMMA WritingKeepsReplies ==
  ASSUME WriterInv, ReplyInv, WriteChunk
  PROVE  ReplyInv'
<1>1. PICK n : n = train[1]
  OBVIOUS
<1>2. train # <<>> /\ train \in Seq(Nat) /\ resident \in 1..Len(handed) /\ wire \in Seq(Chunks)
  BY SMTT(30) DEF WriteChunk, Due, NoDeadline, WriterInv, WriterTypes,
                  DeadlineArmedIffChunksLeft, Paced, ReplyInv, InOrder
<1>3. /\ train' = Tail(train) /\ wire' = Append(wire, <<resident, n>>)
      /\ UNCHANGED <<handed, train_q, resident, abandoned>>
  <2>1. Head(train) = n
    BY SMTT(30), <1>1, <1>2, TailShifts
  <2> QED  BY <2>1 DEF WriteChunk, inputs, queues
<1>4. /\ n \in Nat \ {0} /\ n + Len(train) = handed[resident].chunks + 1
      /\ \A i \in 1..Len(train) : train[i] = n + i - 1
  BY <1>1, <1>2 DEF ReplyInv, Unwritten
<1>5. /\ wire' \in Seq(Chunks) /\ Len(wire') = Len(wire) + 1 /\ Len(wire) \in Nat
      /\ \A i \in 1..Len(wire) : wire'[i] = wire[i]
      /\ wire'[Len(wire) + 1] = <<resident, n>>
  <2>1. Len(handed) \in Nat
    BY DEF WriterInv, WriterTypes
  <2>2. <<resident, n>> \in Chunks
    BY SMTT(30), <1>2, <1>4, <2>1 DEF Chunks
  <2> QED  BY <1>2, <1>3, <2>2, AppendKeeps
<1>6. wire' # <<>> /\ LastChunk' = <<resident, n>>
  BY <1>5 DEF LastChunk
<1>7. InOrder'
  <2>1. resident \in 1..resident
    <3>1. Len(handed) \in Nat
      BY DEF WriterInv, WriterTypes
    <3> QED  BY <1>2, <3>1
  <2>2. ASSUME NEW i \in 1..Len(wire') PROVE wire'[i][1] \in 1..resident
    <3>1. CASE i = Len(wire) + 1
      BY <1>5, <2>1, <3>1
    <3>2. CASE i # Len(wire) + 1
      <4>1. i \in 1..Len(wire)
        BY <1>5, <3>2
      <4> QED  BY <1>5, <4>1 DEF ReplyInv, InOrder
    <3> QED  BY SMTT(30), <3>1, <3>2
  <2> QED  BY <1>3, <1>5, <2>2 DEF ReplyInv, InOrder
<1>8. /\ Len(train') = Len(train) - 1 /\ Len(train) \in Nat \ {0} /\ train' \in Seq(Nat)
      /\ \A i \in 1..Len(train) - 1 : train'[i] = train[i + 1]
  BY <1>2, <1>3, TailShifts
<1>9. \A i \in 1..Len(train') : train'[i] = n + i
  <2> SUFFICES ASSUME NEW i \in 1..Len(train') PROVE train'[i] = n + i
    OBVIOUS
  <2>1. i \in Nat /\ i + 1 \in 1..Len(train) /\ train'[i] = train[i + 1]
    BY <1>8
  <2>2. train[i + 1] = n + (i + 1) - 1
    BY <1>4, <2>1
  <2> QED  BY <1>4, <2>1, <2>2
<1>10. train' # <<>> => Len(train') > 0 /\ train'[1] = n + 1
  <2>1. train' # <<>> => Len(train') > 0 /\ 1 \in 1..Len(train')
    BY SMTT(30), <1>8
  <2> QED  BY <1>9, <2>1
<1>11. Unwritten'
  <2> SUFFICES ASSUME train' # <<>>
               PROVE  /\ \A i \in 1..Len(train') : train'[i] = train'[1] + i - 1
                      /\ train'[1] \in Nat \ {0}
                      /\ train'[1] + Len(train') = handed[resident].chunks + 1
    BY <1>3 DEF Unwritten
  <2>1. train'[1] = n + 1
    BY <1>10
  <2>2. \A i \in 1..Len(train') : n + i = (n + 1) + i - 1
    BY SMTT(30), <1>4, <1>8
  <2>3. n + 1 \in Nat \ {0} /\ (n + 1) + Len(train') = handed[resident].chunks + 1
    BY <1>4, <1>8
  <2> QED  BY <1>9, <2>1, <2>2, <2>3
<1>12. LastWritten'
  <2>1. train' = <<>> => n = handed[resident].chunks
    <3> SUFFICES ASSUME train' = <<>> PROVE n = handed[resident].chunks
      OBVIOUS
    <3>1. Len(train') = 0
      OBVIOUS
    <3>2. Len(train) = 1
      BY <1>8, <3>1
    <3>3. PICK c \in Nat : c = handed[resident].chunks
      <4>1. handed[resident].chunks \in Nat
        BY <1>2, TrainFields DEF WriterInv, WriterTypes
      <4> QED  BY <4>1
    <3>4. n \in Nat /\ n + 1 = c + 1
      BY <1>4, <3>2, <3>3
    <3>5. n = c
      BY SMTT(30), <3>4
    <3> QED  BY <3>3, <3>5
  <2>2. train' # <<>> => train'[1] > 1 /\ train'[1] # 1 /\ train'[1] - 1 = n
    BY SMTT(30), <1>4, <1>10
  <2> QED  BY <1>3, <1>6, <2>1, <2>2 DEF LastWritten
<1>13. ASSUME NEW i \in 1..Len(wire) PROVE Follows(i)'
  <2>1. Follows(i) /\ wire'[i] = wire[i]
    BY <1>5 DEF ReplyInv, RepliesAreContiguous
  <2>2. i > 1 => wire'[i-1] = wire[i-1]
    <3>1. i > 1 => i - 1 \in 1..Len(wire)
      BY <1>5
    <3> QED  BY <1>5, <3>1
  <2> QED  BY <1>3, <2>1, <2>2 DEF Follows
<1>14. ASSUME NEW i, i = Len(wire) + 1 PROVE Follows(i)'
  <2>1. wire'[i] = <<resident, n>> /\ (i > 1 <=> wire # <<>>)
    BY <1>2, <1>5, <1>14
  <2>2. i > 1 => wire'[i-1] = LastChunk
    <3>1. i > 1 => Len(wire) \in 1..Len(wire) /\ i - 1 = Len(wire)
      BY <1>5, <1>14
    <3> QED  BY <1>5, <3>1 DEF LastChunk
  <2>3. CASE n = 1
    <3>1. i > 1 => /\ LastChunk[1] < resident
                   /\ LastChunk[2] = handed[LastChunk[1]].chunks \/ LastChunk[1] \in abandoned
      BY <1>1, <1>2, <2>1, <2>3 DEF ReplyInv, LastWritten
    <3>2. i > 1 => LastChunk[1] # resident
      <4>1. i > 1 => Len(wire) \in 1..Len(wire)
        BY <1>5, <1>14
      <4>2. i > 1 => LastChunk[1] \in 1..resident
        BY <4>1 DEF ReplyInv, InOrder, LastChunk
      <4>3. Len(handed) \in Nat
        BY DEF WriterInv, WriterTypes
      <4> QED  BY SMTT(30), <1>2, <3>1, <4>2, <4>3
    <3>3. CASE i > 1
      <4>1. wire'[i-1][1] = LastChunk[1] /\ wire'[i-1][2] = LastChunk[2]
        BY SMTT(30), <2>2, <3>3
      <4>2. wire'[i][1] = resident /\ wire'[i][2] = 1
        BY <2>1, <2>3
      <4> QED  BY <1>3, <3>1, <3>2, <3>3, <4>1, <4>2, Zenon DEF Follows
    <3>4. CASE ~(i > 1)
      BY SMTT(30), <2>1, <2>3, <3>4 DEF Follows
    <3> QED  BY SMTT(30), <3>3, <3>4
  <2>4. CASE n # 1
    <3>1. n > 1
      BY SMTT(30), <1>4, <2>4
    <3>2. wire # <<>> /\ LastChunk = <<resident, n - 1>>
      BY <1>1, <1>2, <3>1 DEF ReplyInv, LastWritten
    <3>3. (n - 1) + 1 = n
      BY <1>4
    <3> QED  BY <2>1, <2>2, <3>2, <3>3 DEF Follows
  <2> QED  BY SMTT(30), <2>3, <2>4
<1>15. RepliesAreContiguous'
  <2>1. \A i \in 1..Len(wire') : i \in 1..Len(wire) \/ i = Len(wire) + 1
    BY <1>5
  <2> QED  BY <1>13, <1>14, <2>1 DEF RepliesAreContiguous
<1> QED  BY SMTT(30), <1>7, <1>11, <1>12, <1>15 DEF ReplyInv

\* The reply taken on was handed off after every one written so far.
LEMMA AcceptingKeepsReplies ==
  ASSUME WriterInv, ReplyInv, train = <<>>, accept_train
  PROVE  ReplyInv'
<1>1. PICK id : id = Head(train_q)
  OBVIOUS
<1>2. /\ train_q # <<>> /\ train_q' = Tail(train_q) /\ resident' = id
      /\ train' = [i \in 1..handed[id].chunks |-> i]
      /\ UNCHANGED <<handed, abandoned, wire>>
  BY SMTT(30), <1>1 DEF accept_train, inputs, history
<1>3. /\ handed \in Seq(Trains) /\ Len(handed) \in Nat /\ train_q \in Seq(1..Len(handed))
      /\ resident \in 0..Len(handed)
  BY SMTT(30) DEF WriterInv, WriterTypes, ReplyInv, InOrder
<1>4. /\ Len(train_q') = Len(train_q) - 1 /\ Len(train_q) \in Nat \ {0}
      /\ \A i \in 1..Len(train_q) - 1 : train_q'[i] = train_q[i + 1]
      /\ id = train_q[1] /\ id \in 1..Len(handed)
  BY <1>1, <1>2, <1>3, TailShifts
<1>5. resident < id
  <2>1. 1 \in 1..Len(train_q)
    BY SMTT(30), <1>4
  <2> QED  BY SMTT(30), <1>4, <2>1 DEF ReplyInv, InOrder
<1>6. InOrder'
  <2>1. ASSUME NEW i \in 1..Len(train_q')
        PROVE  /\ train_q'[i] = train_q[i + 1] /\ 1 < i + 1
               /\ 1 \in 1..Len(train_q) /\ i + 1 \in 1..Len(train_q)
    BY <1>4
  <2>2. ASSUME NEW i \in 1..Len(train_q') PROVE id < train_q'[i]
    BY SMTT(30), <1>4, <2>1 DEF ReplyInv, InOrder
  <2>3. ASSUME NEW i \in 1..Len(train_q'), NEW j \in 1..Len(train_q'), i < j
        PROVE  train_q'[i] < train_q'[j]
    <3>1. i + 1 < j + 1
      BY <1>4, <2>3
    <3> QED  BY <2>1, <3>1 DEF ReplyInv, InOrder
  <2>4. \A k \in 1..resident : k \in 1..id
    BY <1>3, <1>4, <1>5
  <2>5. \A i \in 1..Len(wire) : wire[i][1] \in 1..id
    BY <2>4 DEF ReplyInv, InOrder
  <2>6. id \in 0..Len(handed)
    BY SMTT(30), <1>3, <1>4
  <2> QED  BY SMTT(30), <1>2, <2>2, <2>3, <2>5, <2>6 DEF ReplyInv, InOrder
<1>7. handed[id].chunks \in Nat \ {0}
  BY <1>3, <1>4, TrainFields
<1>8. /\ train' \in Seq(Nat) /\ Len(train') = handed[id].chunks
      /\ \A i \in 1..Len(train') : train'[i] = i
  BY SMTT(30), <1>2, <1>7
<1>9. train' # <<>> /\ train'[1] = 1
  BY SMTT(30), <1>7, <1>8
<1>10. Unwritten'
  BY SMTT(30), <1>2, <1>7, <1>8, <1>9 DEF Unwritten
<1>11. LastWritten'
  <2>1. wire # <<>> => Len(wire) \in 1..Len(wire)
    BY DEF ReplyInv, InOrder
  <2>2. wire # <<>> => LastChunk[1] \in 1..resident
    BY SMTT(30), <2>1 DEF ReplyInv, InOrder, LastChunk
  <2>3. wire # <<>> => LastChunk[1] < id
    BY SMTT(30), <1>3, <1>4, <1>5, <2>2
  <2> QED  BY <1>2, <1>9, <2>3 DEF ReplyInv, LastWritten, LastChunk
<1>12. RepliesAreContiguous'
  BY SMTT(30), <1>2 DEF ReplyInv, RepliesAreContiguous, Follows
<1> QED  BY <1>6, <1>10, <1>11, <1>12 DEF ReplyInv

\* A surface receives the chunks of a reply in order and without those of another between
\* them, and misses the end of one only if drive_writer has abandoned it.
THEOREM RepliesAreWhole == WriterSpec => []RepliesAreContiguous
<1>1. WriterInit => ReplyInv
  BY DEF WriterInit, ReplyInv, InOrder, Unwritten, LastWritten, RepliesAreContiguous
<1>2. WriterInv /\ ReplyInv /\ [WriterNext]_writerVars => ReplyInv'
  <2> SUFFICES ASSUME WriterInv, ReplyInv, [WriterNext]_writerVars PROVE ReplyInv'
    OBVIOUS
  <2>1. CASE UNCHANGED <<handed, train_q, train, resident, abandoned, wire>>
    BY Zenon, <2>1 DEF ReplyInv, InOrder, Unwritten, LastWritten, LastChunk,
                       RepliesAreContiguous, Follows
  <2> QED
    BY <2>1, ReplyMoves, HandOffKeepsReplies, AbandoningKeepsReplies, WritingKeepsReplies,
       AcceptingKeepsReplies
<1>3. ReplyInv => RepliesAreContiguous
  BY DEF ReplyInv
<1> QED  BY <1>1, <1>2, <1>3, WriterBegins, WriterStep, PTL DEF WriterSpec

===============================================================================
