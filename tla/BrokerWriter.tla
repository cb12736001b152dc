----------------------------- MODULE BrokerWriter -----------------------------
(***************************************************************************)
(* The relay's broker writer task (drive_writer and the BrokerWriter       *)
(* handle, crates/relay-server/src/broker/writer.rs).                      *)
(*                                                                         *)
(* Publishing is a hand-off into one of three bounded queues.  One task    *)
(* owns the socket: heartbeat pings go first, then a chunk of the resident *)
(* reply ("train") that is due, then a waiting train is taken on, then one *)
(* ordinary frame.  Chunks are paced, across trains as well as within one. *)
(* A loop iteration is not atomic: the queues fill between its steps.      *)
(***************************************************************************)
EXTENDS Integers, Sequences

CONSTANTS
  PING_QUEUE_CAPACITY,
  NOW_QUEUE_CAPACITY,
  TRAIN_QUEUE_CAPACITY,
  Targets,         \* surfaces a reply may be addressed to
  NoTarget,        \* a train whose surface was not online when it was queued
  MaxPings,        \* bound: pings sent (the heartbeat is far slower than the writer)
  MaxTrains,       \* bound: trains handed off
  MaxChunks,       \* bound: chunks of a train
  MaxInterval      \* bound: ticks between two chunks

ASSUME BrokerWriterAssumption ==
  /\ {PING_QUEUE_CAPACITY, NOW_QUEUE_CAPACITY, TRAIN_QUEUE_CAPACITY} \subseteq Nat \ {0}
  /\ {MaxPings, MaxTrains, MaxChunks, MaxInterval} \subseteq Nat
  /\ NoTarget \notin Targets

\* TrainFrame: how many chunks, how far apart, and whose departure ends it.
Trains == [chunks : 1..MaxChunks, interval : 0..MaxInterval, watch_target : Targets \cup {NoTarget}]

TrainIds == 1..MaxTrains
NoDeadline == -1

VARIABLES
  online,         \* surfaces the relay has seen join and not leave
  handle_open,    \* the session still holds its BrokerWriter handle
  handed,         \* every train passed to send_train, in order: its id is its index
  refused,        \* ids answered Busy
  pings,          \* pings sent so far
  ping_q,         \* number of queued pings
  now_q,          \* number of queued ordinary frames
  train_q,        \* ids of queued trains
  pc,             \* the loop's next step, or how the task ended
  train,          \* resident train: its chunk numbers still to be written
  resident,       \* id of the resident train (of the last one when train is empty)
  next_chunk_at,  \* ticks until the next chunk is due, NoDeadline for None
  since_chunk,    \* ticks since the last chunk of any train, saturating
  now_closed,     \* the loop has seen the ordinary queue disconnected
  train_closed,   \* the loop has seen the train queue disconnected
  abandoned,      \* ids whose resident chunks were dropped
  wire,           \* chunks written so far: <<train id, chunk number>>
  overtaken       \* frames written ahead of the oldest waiting ping

inputs == <<online, handle_open, handed, refused, pings>>
queues == <<ping_q, now_q, train_q>>
loopvars == <<train, resident, next_chunk_at, since_chunk, now_closed, train_closed>>
history == <<abandoned, wire, overtaken>>
writerVars == <<inputs, queues, pc, loopvars, history>>

Steps == {"ping", "due", "accept", "now", "wait"}
Running == pc \in Steps

WriterInit ==
  /\ online = Targets
  /\ handle_open = TRUE
  /\ handed = <<>> /\ refused = {} /\ pings = 0
  /\ ping_q = 0 /\ now_q = 0 /\ train_q = <<>>
  /\ pc = "ping"
  /\ train = <<>> /\ resident = 0 /\ next_chunk_at = NoDeadline
  /\ since_chunk = MaxInterval
  /\ now_closed = FALSE /\ train_closed = FALSE
  /\ abandoned = {} /\ wire = <<>> /\ overtaken = 0

-------------------------------------------------------------------------------
(* The handle: what the session does *)

\* A full ping queue drops the ping and reports success.
SendPing ==
  /\ handle_open /\ Running
  /\ pings < MaxPings
  /\ pings' = pings + 1
  /\ ping_q' = IF ping_q < PING_QUEUE_CAPACITY THEN ping_q + 1 ELSE ping_q
  /\ UNCHANGED <<online, handle_open, handed, refused, now_q, train_q, pc, loopvars, history>>

\* send_now waits for room.
SendNow ==
  /\ handle_open /\ Running
  /\ now_q < NOW_QUEUE_CAPACITY
  /\ now_q' = now_q + 1
  /\ UNCHANGED <<inputs, ping_q, train_q, pc, loopvars, history>>

\* send_train: Queued, or Busy when another train already waits.
HasRoom(q) == Len(q) < TRAIN_QUEUE_CAPACITY
SendTrain(frame) ==
  /\ handle_open /\ Running
  /\ Len(handed) < MaxTrains
  /\ frame.watch_target \in online \cup {NoTarget}
  /\ handed' = Append(handed, frame)
  /\ IF HasRoom(train_q)
       THEN /\ train_q' = Append(train_q, Len(handed) + 1)
            /\ UNCHANGED refused
       ELSE /\ refused' = refused \cup {Len(handed) + 1}
            /\ UNCHANGED train_q
  /\ UNCHANGED <<online, handle_open, pings, ping_q, now_q, pc, loopvars, history>>

\* The broker's presence frame: a surface left.  Its peer id does not come back.
SurfaceLeaves(s) ==
  /\ s \in online
  /\ online' = online \ {s}
  /\ UNCHANGED <<handle_open, handed, refused, pings, queues, pc, loopvars, history>>

DropHandle ==
  /\ handle_open
  /\ handle_open' = FALSE
  /\ UNCHANGED <<online, handed, refused, pings, queues, pc, loopvars, history>>

\* BrokerWriterGuard: the session ended, the task is aborted wherever it is parked.
Abort ==
  /\ Running
  /\ pc' = "aborted"
  /\ UNCHANGED <<inputs, queues, loopvars, history>>

Tick ==
  /\ Running
  /\ since_chunk < MaxInterval \/ next_chunk_at > 0
  /\ since_chunk' = IF since_chunk < MaxInterval THEN since_chunk + 1 ELSE since_chunk
  /\ next_chunk_at' = IF next_chunk_at > 0 THEN next_chunk_at - 1 ELSE next_chunk_at
  /\ UNCHANGED <<inputs, queues, pc, train, resident, now_closed, train_closed, history>>

-------------------------------------------------------------------------------
(* drive_writer: one loop iteration runs ping, due, accept, now, wait *)

Goto(step) == pc' = step

\* A frame that is not a ping went out while pings waited.
CountsOvertaking == overtaken' = IF ping_q > 0 THEN overtaken + 1 ELSE 0

WritePing ==
  /\ ping_q > 0
  /\ ping_q' = ping_q - 1
  /\ overtaken' = 0
  /\ UNCHANGED <<inputs, now_q, train_q, loopvars, abandoned, wire>>

WriteNow ==
  /\ now_q > 0
  /\ now_q' = now_q - 1
  /\ CountsOvertaking
  /\ UNCHANGED <<inputs, ping_q, train_q, loopvars, abandoned, wire>>

\* Step 0: pings first, one per iteration.
PingsOnlyWhenWaiting == pc = "ping" /\ Goto("due") /\ UNCHANGED <<inputs, queues, loopvars, history>>
PingStep ==
  /\ pc = "ping"
  /\ \/ WritePing /\ Goto("ping")
     \/ ping_q = 0 /\ Goto("due") /\ UNCHANGED <<inputs, queues, loopvars, history>>

Due == next_chunk_at = 0
Target == handed[resident].watch_target
HasLeft(target) == target # NoTarget /\ target \notin online

\* Step 1: the resident train is dropped if its surface was seen to leave ...
AbandonTrain ==
  /\ pc = "due" /\ Due /\ HasLeft(Target)
  /\ abandoned' = abandoned \cup {resident}
  /\ train' = <<>>
  /\ next_chunk_at' = NoDeadline
  /\ Goto("ping")
  /\ UNCHANGED <<inputs, queues, resident, since_chunk, now_closed, train_closed, wire, overtaken>>

\* ... and its next chunk is written otherwise; the gap runs from this write.
advance_train(rest) == IF rest = <<>> THEN NoDeadline ELSE handed[resident].interval
WriteChunk ==
  /\ pc = "due" /\ Due /\ ~HasLeft(Target)
  /\ train' = Tail(train)
  /\ wire' = Append(wire, <<resident, Head(train)>>)
  /\ since_chunk' = 0
  /\ next_chunk_at' = advance_train(Tail(train))
  /\ CountsOvertaking
  /\ Goto("ping")
  /\ UNCHANGED <<inputs, queues, resident, now_closed, train_closed, abandoned>>

NotDue ==
  /\ pc = "due" /\ ~Due
  /\ Goto("accept")
  /\ UNCHANGED <<inputs, queues, loopvars, history>>

\* accept_train: due when pacing allows, counted from the last chunk of any train.
DueAtOnce(frame) == 0
FirstDue(frame) == IF frame.interval > since_chunk THEN frame.interval - since_chunk ELSE 0
accept_train ==
  /\ train_q # <<>>
  /\ LET frame == handed[Head(train_q)]
     IN /\ train' = [i \in 1..frame.chunks |-> i]
        /\ next_chunk_at' = FirstDue(frame)
  /\ resident' = Head(train_q)
  /\ train_q' = Tail(train_q)
  /\ UNCHANGED <<inputs, ping_q, now_q, since_chunk, now_closed, train_closed, history>>

\* Step 2: with no train resident, take the waiting one before ordinary traffic.
AcceptsWhileResident == TRUE
AcceptsWhenQuiet == train = <<>> /\ now_q = 0
MayAccept == train = <<>>
AcceptStep ==
  /\ pc = "accept"
  /\ \/ MayAccept /\ accept_train /\ Goto("ping")
     \/ /\ ~MayAccept \/ train_q = <<>>
        /\ train_closed' = (train_closed \/ (train = <<>> /\ train_q = <<>> /\ ~handle_open))
        /\ Goto("now")
        /\ UNCHANGED <<inputs, queues, train, resident, next_chunk_at, since_chunk, now_closed,
                       history>>

\* Step 3: one ordinary frame.
NowStep ==
  /\ pc = "now"
  /\ \/ WriteNow /\ Goto("ping")
     \/ /\ now_q = 0
        /\ now_closed' = (now_closed \/ ~handle_open)
        /\ Goto("wait")
        /\ UNCHANGED <<inputs, queues, train, resident, next_chunk_at, since_chunk, train_closed,
                       history>>

\* Step 4: wait for a ping, an ordinary frame, the deadline or, when idle, a train.
\* recv() on a disconnected queue returns at once.
WaitStep ==
  /\ pc = "wait"
  /\ \/ /\ next_chunk_at # NoDeadline /\ now_closed /\ Due
        /\ Goto("ping") /\ UNCHANGED <<inputs, queues, loopvars, history>>
     \/ /\ next_chunk_at # NoDeadline /\ ~now_closed
        /\ \/ WritePing
           \/ ping_q = 0 /\ handle_open /\ WriteNow
           \/ /\ ping_q = 0 /\ (~handle_open \/ (now_q = 0 /\ Due))
              /\ UNCHANGED <<inputs, queues, loopvars, history>>
        /\ Goto("ping")
     \/ /\ next_chunk_at = NoDeadline /\ ~(now_closed /\ train_closed)
        /\ \/ WritePing
           \/ ping_q = 0 /\ handle_open /\ WriteNow
           \/ ping_q = 0 /\ now_q = 0 /\ handle_open /\ accept_train
           \/ ping_q = 0 /\ ~handle_open /\ UNCHANGED <<inputs, queues, loopvars, history>>
        /\ Goto("ping")

\* No train resident and both queues disconnected: the task returns.
FinishesEarly ==
  /\ pc = "wait" /\ now_closed
  /\ Goto("done")
  /\ UNCHANGED <<inputs, queues, loopvars, history>>
Finish ==
  /\ pc = "wait" /\ next_chunk_at = NoDeadline /\ now_closed /\ train_closed
  /\ Goto("done")
  /\ UNCHANGED <<inputs, queues, loopvars, history>>

\* send_frame failed: the error ends the task and is reported to the session.
WriteFails ==
  /\ \/ pc \in {"ping", "wait"} /\ ping_q > 0
     \/ pc = "due" /\ Due /\ ~HasLeft(Target)
     \/ pc \in {"now", "wait"} /\ now_q > 0
  /\ Goto("failed")
  /\ UNCHANGED <<inputs, queues, loopvars, history>>

Drive ==
  \/ PingStep \/ AbandonTrain \/ WriteChunk \/ NotDue \/ AcceptStep \/ NowStep \/ WaitStep
  \/ Finish

WriterNext ==
  \/ SendPing \/ SendNow \/ (\E frame \in Trains : SendTrain(frame))
  \/ (\E s \in Targets : SurfaceLeaves(s))
  \/ DropHandle \/ Abort \/ Tick \/ Drive \/ WriteFails

\* The runtime polls the writer task, and time passes.
WriterFairness == WF_writerVars(Drive) /\ WF_writerVars(Tick)

WriterSpec == WriterInit /\ [][WriterNext]_writerVars /\ WriterFairness

-------------------------------------------------------------------------------
(* Properties *)

\* Types of the writer's queues and loop (writer.rs): no queue ever exceeds its
\* capacity.
WriterTypeOK ==
  /\ online \subseteq Targets
  /\ handle_open \in BOOLEAN
  /\ handed \in Seq(Trains) /\ Len(handed) <= MaxTrains
  /\ refused \subseteq TrainIds
  /\ pings \in 0..MaxPings
  /\ ping_q \in 0..PING_QUEUE_CAPACITY
  /\ now_q \in 0..NOW_QUEUE_CAPACITY
  /\ train_q \in Seq(TrainIds) /\ Len(train_q) <= TRAIN_QUEUE_CAPACITY
  /\ pc \in Steps \cup {"done", "failed", "aborted"}
  /\ train \in Seq(1..MaxChunks)
  /\ resident \in 0..Len(handed)
  /\ next_chunk_at \in -1..MaxInterval
  /\ since_chunk \in 0..MaxInterval
  /\ now_closed \in BOOLEAN /\ train_closed \in BOOLEAN
  /\ abandoned \subseteq TrainIds
  /\ wire \in Seq(TrainIds \X (1..MaxChunks))
  /\ overtaken \in Nat

\* Everything the resident train has left is scheduled: a deadline is armed exactly
\* while chunks remain, so no reply is held without a wake-up and no wake-up finds
\* an empty train.
DeadlineArmedIffChunksLeft == (next_chunk_at # NoDeadline) <=> (train # <<>>)

Written(t) == Len(SelectSeq(wire, LAMBDA chunk : chunk[1] = t))

\* A written chunk continues the reply of the chunk before it, or begins a later one.
Follows(i) ==
  LET t == wire[i][1]
      n == wire[i][2]
  IN IF i > 1 /\ wire[i-1][1] = t
       THEN n = wire[i-1][2] + 1
       ELSE /\ n = 1
            /\ i > 1 => /\ wire[i-1][1] < t
                       /\ \/ wire[i-1][2] = handed[wire[i-1][1]].chunks
                          \/ wire[i-1][1] \in abandoned

\* What the surface reassembles: chunks of a reply go out in order from the first,
\* replies never interleave, and a reply is cut short only if it was abandoned or is
\* the resident one.
RepliesAreContiguous == \A i \in 1..Len(wire) : Follows(i)

\* A heartbeat waits for at most one other frame, however deep the other queues are.
PingWaitsForOneFrame == overtaken <= 1

\* The task returns only when no frame and no reply it accepted is left (a ping may be).
DoneMeansDrained ==
  pc = "done" => now_q = 0 /\ train_q = <<>> /\ train = <<>>

\* Pacing is a publish rate: the gap before a chunk is at least its train's interval,
\* also between the last chunk of one train and the first of the next.
ChunksArePaced ==
  [][Len(wire') > Len(wire) => since_chunk >= handed[resident].interval]_writerVars

\* A backlog of ordinary frames cannot starve a reply: every train that was queued is
\* written to its last chunk, or abandoned, unless the task ends first.
QueuedRepliesComplete ==
  \A t \in TrainIds :
    (t <= Len(handed) /\ t \notin refused)
      ~> (t \in abandoned \/ ~Running \/ (t <= Len(handed) /\ Written(t) = handed[t].chunks))
===============================================================================
