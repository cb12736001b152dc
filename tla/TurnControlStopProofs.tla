------------------------ MODULE TurnControlStopProofs ------------------------
(* What a stop may end and what it may hide, for any number of prompts and     *)
(* incidents.                                                                  *)
EXTENDS TurnControlProofs

-----------------------------------------------------------------------------
(* Who awaits an answer.                                                       *)

Callers == {"person", "watchdog"}
TaskOf(who) == IF who = "person" THEN person ELSE watchdog

To(q, who) == {i \in DOMAIN q : q[i].to = who}
Lone(S) == \A i, j \in S : i = j

(* A caller awaits one answer at most: its request is on the way to the        *)
(* worker, held there, or its answer is on the way back.                       *)
Pledge(who, task, c, w, e) ==
  /\ Lone(To(c, who)) /\ Lone(To(e, who))
  /\ To(c, who) # {} => who \notin w /\ To(e, who) = {}
  /\ who \in w => To(e, who) = {} /\ task.op = "stopping"
  /\ To(c, who) # {} \/ To(e, who) # {} \/ who \in w => Waiting(task)
  /\ \A i \in To(c, who) : \/ task.op = "stopping" /\ c[i].type = "cancel"
                           \/ task.op = "answering" /\ c[i].type = "answer" /\ c[i].ask = task.ask
  /\ task.op \notin {"stopping", "answering"} => task.reply = "none"

Tokens == /\ "nobody" \notin waiters
          /\ \A who \in Callers : Pledge(who, TaskOf(who), cmds, waiters, events)

(* An accepted stop names a turn that is over: the cancel was written after    *)
(* its prompt, so the worker had read the prompt when it stopped the session.  *)
Doomed(who, t) ==
  /\ \A i \in To(cmds, who), j \in DOMAIN cmds :
       cmds[j].type = "send" /\ i < j => cmds[j].turn # t
  /\ who \in waiters => Begun(t)
  /\ \A i \in To(events, who) : events[i].type = "ok" => Over(t)
  /\ TaskOf(who).reply = "ok" => Over(t)

Stopping ==
  /\ \A who \in Callers : LET task == TaskOf(who) IN
       /\ task.op \in {"candidate", "stop", "stopping"} => Born(task.turn)
       /\ task.op = "stopping" => Doomed(who, task.turn)
  /\ \A t \in fallbacks : Over(t)

PendingIds == {a.id : a \in relay.pending}

(* The worker holds no request that a terminal on its way would hide, nor the  *)
(* one a person has answered.                                                  *)
Held ==
  /\ \A i \in DOMAIN events : events[i].type = "terminal" =>
       /\ asked \cap PendingIds = {}
       /\ \A j \in DOMAIN events : events[j].type = "ask" /\ j < i => events[j].ask \notin asked
  /\ person.op = "answering" =>
       /\ person.reply = "ok" => person.ask \notin asked
       /\ \A i \in To(events, "person") : events[i].type = "ok" => person.ask \notin asked

(* A caller with nothing under way may begin and end what it likes.            *)
LEMMA PledgeQuiet ==
  ASSUME NEW who, NEW task, NEW c, NEW w, NEW e, To(c, who) = {}, To(e, who) = {}, who \notin w,
         task.op \notin {"stopping", "answering"} => task.reply = "none"
  PROVE  Pledge(who, task, c, w, e)
  BY DEF Pledge, Lone

(* Nobody awaits an answer, stops a turn or holds a request yet.               *)
LEMMA StoppingInit == Init => Tokens /\ Stopping /\ Held
<1> SUFFICES ASSUME Init PROVE Tokens /\ Stopping /\ Held
  OBVIOUS
<1>1. /\ cmds = << >> /\ events = << >> /\ waiters = {} /\ fallbacks = {} /\ person = Idle
      /\ \A who : TaskOf(who) = Idle
  BY Zenon DEF Init, TaskOf
<1>2. Idle.op = "free" /\ Idle.reply = "none"
  BY DEF Idle
<1>3. \A who : To(cmds, who) = {} /\ To(events, who) = {}
  BY <1>1 DEF To
<1>4. Tokens
  BY <1>1, <1>2, <1>3, PledgeQuiet DEF Tokens
<1>5. Stopping
  BY <1>1, <1>2 DEF Stopping
<1>6. Held
  BY <1>1, <1>2 DEF Held
<1> QED  BY <1>4, <1>5, <1>6

(* Between two steps nothing changes.                                          *)
LEMMA StoppingRests ==
  ASSUME UNCHANGED vars
  PROVE  (Tokens => Tokens') /\ (Stopping => Stopping') /\ (Held => Held')
<1>1. UNCHANGED <<relay, person, watchdog, fallbacks, cmds, events, entry, waiters, asked, used>>
  BY Zenon DEF vars, relayVars, taskVars, workerVars
<1>2. \A who : TaskOf(who)' = TaskOf(who)
  BY <1>1 DEF TaskOf
<1>3. Tokens => Tokens'
  BY <1>1, <1>2 DEF Tokens
<1>4. Stopping => Stopping'
  BY <1>1, <1>2 DEF Stopping, Doomed, Over, Begun, Born
<1>5. Held => Held'
  BY <1>1 DEF Held, PendingIds
<1> QED  BY <1>3, <1>4, <1>5

-----------------------------------------------------------------------------
(* What is under way.                                                          *)

(* What queue z holds for a caller, queue q held already.                      *)
Carried(q, z, who) ==
  \E k \in {0, 1} : \A i \in To(z, who) :
    i + k \in To(q, who) /\ z[i].type = q[i + k].type /\ z[i].ask = q[i + k].ask

(* A request that is under way stays the only one of its caller.               *)
LEMMA PledgeCarried ==
  ASSUME NEW who, NEW task, NEW c, NEW w, NEW e, NEW d, NEW v, NEW f,
         Pledge(who, task, c, w, e), Carried(c, d, who), Carried(e, f, who),
         who \in v => who \in w,
         DOMAIN d \subseteq Nat, DOMAIN f \subseteq Nat
  PROVE  Pledge(who, task, d, v, f)
<1>1. PICK k \in {0, 1} : \A i \in To(d, who) :
        i + k \in To(c, who) /\ d[i].type = c[i + k].type /\ d[i].ask = c[i + k].ask
  BY DEF Carried
<1>2. PICK m \in {0, 1} : \A i \in To(f, who) :
        i + m \in To(e, who) /\ f[i].type = e[i + m].type /\ f[i].ask = e[i + m].ask
  BY DEF Carried
<1>3. To(d, who) \subseteq Nat /\ To(f, who) \subseteq Nat
  BY DEF To
<1>4. Lone(To(d, who))
  <2> SUFFICES ASSUME NEW i \in To(d, who), NEW j \in To(d, who) PROVE i = j
    BY SMTT(30) DEF Lone
  <2>1. i + k = j + k
    BY <1>1 DEF Pledge, Lone
  <2> QED  BY <1>3, <2>1
<1>5. Lone(To(f, who))
  <2> SUFFICES ASSUME NEW i \in To(f, who), NEW j \in To(f, who) PROVE i = j
    BY SMTT(30) DEF Lone
  <2>1. i + m = j + m
    BY SMTT(30), <1>2 DEF Pledge, Lone
  <2> QED  BY <1>3, <2>1
<1>6. (To(d, who) # {} => To(c, who) # {}) /\ (To(f, who) # {} => To(e, who) # {})
  BY <1>1, <1>2
<1>7. \A i \in To(d, who) : \/ task.op = "stopping" /\ d[i].type = "cancel"
                            \/ task.op = "answering" /\ d[i].type = "answer" /\ d[i].ask = task.ask
  <2> SUFFICES ASSUME NEW i \in To(d, who)
               PROVE  \/ task.op = "stopping" /\ d[i].type = "cancel"
                      \/ task.op = "answering" /\ d[i].type = "answer" /\ d[i].ask = task.ask
    BY Zenon
  <2>1. PICK p : p = i + k
    OBVIOUS
  <2>2. p \in To(c, who) /\ d[i].type = c[p].type /\ d[i].ask = c[p].ask
    BY SMTT(30), <1>1, <2>1
  <2> QED  BY Zenon, <2>2 DEF Pledge
<1> QED  BY Zenon, <1>4, <1>5, <1>6, <1>7 DEF Pledge

(* What the commands on their way are to a caller that writes none.            *)
LEMMA CommandsCarried ==
  ASSUME Typed, Next, NEW who \in Callers,
         who = "person" => ~StopWrite /\ ~AnswerWrite, who = "watchdog" => ~WatchdogWrite
  PROVE  Carried(cmds, cmds', who)
<1>1. PICK k \in {0, 1} : \A i \in DOMAIN cmds' :
        \/ i + k \in DOMAIN cmds /\ Same(cmds'[i], cmds[i + k])
        \/ k = 0 /\ i = Len(cmds) + 1 /\ Written(cmds'[i])
  BY SMTT(30), CommandsMove
<1>2. ASSUME NEW i \in To(cmds', who)
      PROVE  /\ i + k \in To(cmds, who) /\ cmds'[i].type = cmds[i + k].type
             /\ cmds'[i].ask = cmds[i + k].ask
  <2>1. i \in DOMAIN cmds' /\ cmds'[i].to = who /\ who # "nobody"
    BY SMTT(30) DEF To, Callers
  <2>2. ~Written(cmds'[i])
    BY <2>1 DEF Written, Callers
  <2>3. i + k \in DOMAIN cmds /\ Same(cmds'[i], cmds[i + k])
    BY <1>1, <2>1, <2>2
  <2> QED  BY <2>1, <2>3 DEF Same, To
<1> QED  BY Zenon, <1>2 DEF Carried

(* What the events on their way are to a caller the step does not answer.      *)
LEMMA EventsCarried ==
  ASSUME Typed, Next, NEW who \in Callers,
         \A i \in To(events', who) : i > Len(events) => ~Answers(events'[i])
  PROVE  Carried(events, events', who)
<1>n. events \in Seq(Reports) /\ DOMAIN events = 1..Len(events) /\ Len(events) \in Nat
  BY DEF Typed, Shape, PipeShape
<1>1. CASE ReadEvent
  <2>1. events # << >> /\ events' = Tail(events)
    BY SMTT(30), <1>1 DEF ReadEvent
  <2>2. \A i \in DOMAIN events' : i + 1 \in DOMAIN events /\ events'[i] = events[i + 1]
    BY <1>n, <2>1, EventTaken
  <2>3. \A i \in To(events', who) :
          /\ i + 1 \in To(events, who) /\ events'[i].type = events[i + 1].type
          /\ events'[i].ask = events[i + 1].ask
    BY SMTT(30), <2>2 DEF To
  <2> QED  BY <2>3 DEF Carried
<1>2. CASE ~ReadEvent
  <2>1. ASSUME NEW i \in To(events', who)
        PROVE  /\ i + 0 \in To(events, who) /\ events'[i].type = events[i + 0].type
               /\ events'[i].ask = events[i + 0].ask
    <3>1. i \in DOMAIN events' /\ events'[i].to = who /\ who # "nobody"
      BY DEF To, Callers
    <3>2. ~(i > Len(events) /\ Fresh(i))
      BY SMTT(30), <3>1 DEF Fresh
    <3>3. /\ i \in DOMAIN events /\ events'[i].type = events[i].type
          /\ events'[i].ask = events[i].ask /\ events[i].to = who
      BY Zenon, <1>2, <3>1, <3>2, EventsMove
    <3>4. i + 0 = i
      BY SMTT(30), <1>n, <3>3
    <3> QED  BY SMTT(30), <3>3, <3>4 DEF To
  <2> QED  BY <2>1 DEF Carried
<1> QED  BY <1>1, <1>2

(* The caller writes a request; the worker answers it or begins to work on it; *)
(* the caller gives up; it reads the answer.                                   *)
Writes(who) == (who = "person" /\ (StopWrite \/ AnswerWrite)) \/ (who = "watchdog" /\ WatchdogWrite)
Serves(who) == \/ (TakeCancel \/ TakeAnswer) /\ Head(cmds).to = who
               \/ (StopDrains /\ who \in waiters) \/ StopIsSlow(who)
GivesUp(who) == (who = "person" /\ PersonTimesOut) \/ (who = "watchdog" /\ WatchdogTimesOut)
Hears(who) == /\ ReadEvent /\ Head(events).to = who /\ Waiting(TaskOf(who))
              /\ TaskOf(who)' = [TaskOf(who) EXCEPT !.reply = Head(events).type]

(* Any other step of a caller, which awaits nothing then.                      *)
Idles(who) ==
  /\ ~Waiting(TaskOf(who)) /\ TaskOf(who)'.op \notin {"stopping", "answering"}
  /\ \/ TaskOf(who)'.reply = "none"
     \/ /\ TaskOf(who)'.reply = TaskOf(who).reply
        /\ TaskOf(who).op \notin {"stopping", "answering"}
  /\ TaskOf(who)'.op \in {"candidate", "stop"} =>
       \/ relay.turn # None /\ TaskOf(who)'.turn = relay.turn
       \/ TaskOf(who).op = "candidate" /\ TaskOf(who)'.turn = TaskOf(who).turn

(* What becomes of the operation of a caller.                                  *)
LEMMA TaskMoves ==
  ASSUME Typed, Next, NEW who \in Callers
  PROVE  \/ UNCHANGED TaskOf(who)
         \/ Idles(who) \/ Writes(who) \/ GivesUp(who) \/ Hears(who)
<1>n. person \in Task /\ watchdog \in Task /\ Idle.op = "free" /\ Idle.reply = "none"
  BY DEF Typed, Shape, TaskShape, Idle
<1>w. who \in {"person", "watchdog"} /\ "person" # "watchdog"
  BY DEF Callers
<1>p. who = "person" => TaskOf(who) = person /\ TaskOf(who)' = person'
  BY DEF TaskOf
<1>q. who = "watchdog" => TaskOf(who) = watchdog /\ TaskOf(who)' = watchdog'
  BY DEF TaskOf
<1>1. CASE SendBegin \/ StopBegin \/ (\E a \in Asks : AnswerBegin(a))
  <2>1. CASE who = "person"
    <3>1. /\ person.op = "free" /\ person'.reply = "none" /\ person'.op \in {"send", "stop", "answer"}
          /\ person'.op = "stop" => relay.turn # None /\ person'.turn = relay.turn
      BY Zenon, <1>1, <1>n DEF SendBegin, StopBegin, AnswerBegin, Idle
    <3> QED  BY SMTT(30), <1>p, <2>1, <3>1 DEF Idles, Waiting
  <2>2. CASE who = "watchdog"
    <3>1. UNCHANGED watchdog
      BY Zenon, <1>1, PersonFrames
    <3> QED  BY <1>q, <2>2, <3>1
  <2> QED  BY SMTT(30), <1>w, <2>1, <2>2
<1>2. CASE SendRefused \/ SendFinish \/ StopAnswered \/ AnswerAnswered \/ WriteFails
  <2>1. CASE who = "person"
    <3>1. person' = Idle /\ ~Waiting(person)
      BY <1>2 DEF SendRefused, SendFinish, StopAnswered, AnswerAnswered, WriteFails, Waiting
    <3> QED  BY SMTT(30), <1>n, <1>p, <2>1, <3>1 DEF Idles
  <2>2. CASE who = "watchdog"
    <3>1. UNCHANGED watchdog
      BY Zenon, <1>2, PersonFrames
    <3> QED  BY <1>q, <2>2, <3>1
  <2> QED  BY Zenon, <1>w, <2>1, <2>2
<1>3. CASE SendWrite
  <2>1. CASE who = "person"
    <3>1. person.op = "send" /\ person' = [person EXCEPT !.op = "sent"]
      BY <1>3 DEF SendWrite
    <3>2. person'.op = "sent" /\ person'.reply = person.reply
      BY <1>n, <3>1 DEF Task
    <3> QED  BY Zenon, <1>p, <2>1, <3>1, <3>2 DEF Idles, Waiting
  <2>2. CASE who = "watchdog"
    <3>1. UNCHANGED watchdog
      BY Zenon, <1>3, PersonFrames
    <3> QED  BY <1>q, <2>2, <3>1
  <2> QED  BY Zenon, <1>w, <2>1, <2>2
<1>4. CASE StopWrite \/ AnswerWrite \/ PersonTimesOut
  <2>1. CASE who = "person"
    BY <1>4, <2>1 DEF Writes, GivesUp
  <2>2. CASE who = "watchdog"
    <3>1. UNCHANGED watchdog
      BY Zenon, <1>4, PersonFrames
    <3> QED  BY <1>q, <2>2, <3>1
  <2> QED  BY Zenon, <1>w, <2>1, <2>2
<1>5. CASE WatchdogTick \/ WatchdogCheck \/ WatchdogAnswered
  <2>1. CASE who = "watchdog"
    <3>1. CASE WatchdogTick
      <4>1. /\ watchdog.op = "free" /\ watchdog'.reply = "none" /\ watchdog'.op = "candidate"
            /\ relay.turn # None /\ watchdog'.turn = relay.turn
        BY <3>1, <1>n DEF WatchdogTick, Idle
      <4> QED  BY <1>q, <2>1, <4>1 DEF Idles, Waiting
    <3>2. CASE WatchdogCheck
      <4>1. watchdog.op = "candidate" /\ watchdog' \in {Idle, [watchdog EXCEPT !.op = "stop"]}
        BY <3>2 DEF WatchdogCheck
      <4>2. \/ watchdog'.op = "free" /\ watchdog'.reply = "none"
            \/ /\ watchdog'.op = "stop" /\ watchdog'.reply = watchdog.reply
               /\ watchdog'.turn = watchdog.turn
        BY SMTT(30), <1>n, <4>1 DEF Task
      <4> QED  BY <1>q, <2>1, <4>1, <4>2 DEF Idles, Waiting
    <3>3. CASE WatchdogAnswered
      <4>1. watchdog' = Idle /\ ~Waiting(watchdog)
        BY <3>3 DEF WatchdogAnswered, Waiting
      <4> QED  BY <1>n, <1>q, <2>1, <4>1 DEF Idles
    <3> QED  BY SMTT(30), <1>5, <3>1, <3>2, <3>3
  <2>2. CASE who = "person"
    <3>1. UNCHANGED person
      BY Zenon, <1>5, TaskFrames
    <3> QED  BY <1>p, <2>2, <3>1
  <2> QED  BY SMTT(30), <1>w, <2>1, <2>2
<1>6. CASE WatchdogWrite \/ WatchdogTimesOut
  <2>1. CASE who = "watchdog"
    BY <1>6, <2>1 DEF Writes, GivesUp
  <2>2. CASE who = "person"
    <3>1. UNCHANGED person
      BY Zenon, <1>6, TaskFrames
    <3> QED  BY <1>p, <2>2, <3>1
  <2> QED  BY Zenon, <1>w, <2>1, <2>2
<1>7. CASE ReadEvent
  <2>1. /\ person' = Delivered(person, "person", Head(events))
        /\ watchdog' = Delivered(watchdog, "watchdog", Head(events))
    BY <1>7 DEF ReadEvent
  <2>2. TaskOf(who)' = Delivered(TaskOf(who), who, Head(events))
    BY <1>p, <1>q, <1>w, <2>1
  <2> QED  BY <1>7, <2>2 DEF Delivered, Hears
<1>8. CASE \/ StopClears \/ Silence \/ (\E t \in Turns : FallbackFires(t)) \/ ReadEof
            \/ TakeSend \/ LoseSend \/ TakeCancel \/ StopDrains \/ TakeAnswer
            \/ (\E w \in Requesters : StopIsSlow(w)) \/ SdkActs \/ SdkEnds
            \/ SdkContinues \/ SdkAsks \/ StreamDies \/ WorkerDies
  <2>1. UNCHANGED <<person, watchdog>>
    BY Zenon, <1>8, PersonFrames, TaskFrames, ReaderFrames, WorkerFrames, SdkFrames
  <2> QED  BY SMTT(30), <1>p, <1>q, <1>w, <2>1
<1> QED  BY SMTT(30), <1>1, <1>2, <1>3, <1>4, <1>5, <1>6, <1>7, <1>8
            DEF Next, Person, Tasks, Reader, Worker

(* A cancel is held for its caller only when the worker takes it.              *)
LEMMA WaitersMove ==
  ASSUME Typed, Next
  PROVE  /\ "nobody" \notin waiters => "nobody" \notin waiters'
         /\ \A who \in waiters' \ waiters : TakeCancel /\ Head(cmds).to = who
<1>1. CASE TakeCancel
  <2>1. waiters' \in {waiters, waiters \cup ({Head(cmds).to} \ {"nobody"})}
    BY <1>1 DEF TakeCancel
  <2> QED  BY <1>1, <2>1
<1>2. CASE ~TakeCancel
  <2>1. waiters' \subseteq waiters
    <3>1. CASE \/ PersonTimesOut \/ WatchdogTimesOut \/ StopDrains \/ WorkerDies
               \/ (\E w \in Requesters : StopIsSlow(w))
      BY ZenonT(30), <3>1 DEF PersonTimesOut, WatchdogTimesOut, StopDrains, WorkerDies,
                              StopIsSlow
    <3>2. CASE ~(\/ PersonTimesOut \/ WatchdogTimesOut \/ StopDrains \/ WorkerDies
                 \/ (\E w \in Requesters : StopIsSlow(w)))
      <4>1. UNCHANGED waiters
        BY Zenon, <1>2, <3>2, PersonFrames, TaskFrames, ReaderFrames, WorkerFrames, SdkFrames
           DEF Next, Person, Tasks, Reader, Worker
      <4> QED  BY <4>1
    <3> QED  BY <3>1, <3>2
  <2> QED  BY <2>1
<1> QED  BY <1>1, <1>2

(* A caller that awaits an answer has written its request.                     *)
LEMMA PledgeWritten ==
  ASSUME NEW who, NEW task, NEW c \in Seq(Commands), NEW w, NEW e, NEW x \in Commands,
         To(c, who) = {}, To(e, who) = {}, who \notin w, Waiting(task),
         \/ task.op = "stopping" /\ x.type = "cancel"
         \/ task.op = "answering" /\ x.type = "answer" /\ x.ask = task.ask
  PROVE  Pledge(who, task, Append(c, x), w, e)
<1> DEFINE d == Append(c, x)
<1>1. \A i \in DOMAIN d : (i \in DOMAIN c /\ d[i] = c[i]) \/ (i = Len(c) + 1 /\ d[i] = x)
  OBVIOUS
<1> HIDE DEF d
<1>2. \A i \in To(d, who) : i = Len(c) + 1 /\ d[i] = x
  BY SMTT(30), <1>1 DEF To
<1>3. Lone(To(d, who)) /\ Lone(To(e, who))
  BY <1>2 DEF Lone
<1>4. Pledge(who, task, d, w, e)
  BY Zenon, <1>2, <1>3 DEF Pledge, Waiting
<1> QED  BY <1>4 DEF d

(* A caller that awaits an answer has been sent it.                            *)
LEMMA PledgeAnswered ==
  ASSUME NEW who, NEW task, NEW c, NEW w, NEW e,
         To(c, who) = {}, Lone(To(e, who)), who \notin w, Waiting(task)
  PROVE  Pledge(who, task, c, w, e)
  BY DEF Pledge, Lone, Waiting

(* The answer the worker gives a caller is the only one on its way.            *)
LEMMA AnsweredOnce ==
  ASSUME Typed, Next, ~ReadEvent, NEW who \in Callers, To(events, who) = {}
  PROVE  Lone(To(events', who))
<1>n. events \in Seq(Reports) /\ DOMAIN events = 1..Len(events) /\ Len(events) \in Nat
  BY DEF Typed, Shape, PipeShape
<1>w. who \in Requesters /\ who # "nobody"
  BY DEF Callers, Requesters
<1>1. ASSUME NEW i \in To(events', who)
      PROVE  i \in DOMAIN events' /\ Fresh(i) /\ events'[i].to = who
  <2>1. i \in DOMAIN events' /\ events'[i].to = who
    BY DEF To
  <2>2. ~(i \in DOMAIN events /\ events[i].to = who)
    BY DEF To
  <2> QED  BY Zenon, <1>w, <2>1, <2>2, EventsMove
<1>2. CASE ~StopDrains
  <2>1. \A i \in To(events', who) : i = Len(events) + 1
    BY SMTT(30), <1>1, <1>2, <1>w DEF Fresh
  <2> QED  BY SMTT(30), <2>1 DEF Lone
<1>3. CASE StopDrains
  <2>1. \A w \in waiters : Reply(w, "ok").to = w
    BY ReplyMade DEF Typed, Shape, WorkerShape
  <2>2. Event("terminal", entry.stopped).to = "nobody"
    BY EventMade DEF Typed, Shape, WorkerShape, Entries
  <2>3. ASSUME NEW i \in To(events', who)
        PROVE  i > Len(events) + 1 /\ events'[i] = Reply(who, "ok")
    <3>1. i \in DOMAIN events' /\ events'[i].to = who
      BY DEF To
    <3>2. ~(i \in DOMAIN events /\ events'[i] = events[i])
      BY SMTT(30), <3>1 DEF To
    <3>3. events'[i] # Event("terminal", entry.stopped)
      BY SMTT(30), <1>w, <2>2, <3>1
    <3> QED  BY Zenon, <1>3, <2>1, <3>1, <3>2, <3>3, Drained
  <2>4. \A i, j \in DOMAIN events' :
          i > Len(events) + 1 /\ j > Len(events) + 1 /\ events'[i] = events'[j] => i = j
    BY Zenon, <1>3, Drained
  <2>5. To(events', who) \subseteq DOMAIN events'
    BY SMTT(30) DEF To
  <2> QED  BY Zenon, <2>3, <2>4, <2>5 DEF Lone
<1> QED  BY <1>2, <1>3

(* A request reaches the worker once, is held once and is answered once; one   *)
(* that has timed out is answered to nobody.                                   *)
LEMMA TokensStep ==
  ASSUME Typed, Tokens, Next
  PROVE  Tokens'
<1>n. /\ cmds \in Seq(Commands) /\ events \in Seq(Reports)
      /\ DOMAIN cmds' \subseteq Nat /\ DOMAIN events' \subseteq Nat
  <2>1. cmds' \in Seq(Commands) /\ events' \in Seq(Reports)
    BY PipeStep DEF PipeShape
  <2> QED  BY <2>1 DEF Typed, Shape, PipeShape
<1> SUFFICES ASSUME NEW who \in Callers
             PROVE  Pledge(who, TaskOf(who)', cmds', waiters', events')
  <2>1. "nobody" \notin waiters'
    BY WaitersMove DEF Tokens
  <2> QED  BY <2>1 DEF Tokens
<1> DEFINE task == TaskOf(who)
<1>p. /\ Pledge(who, task, cmds, waiters, events) /\ task \in Task /\ who # "nobody"
      /\ who \in Requesters
  BY SMTT(30) DEF Tokens, Typed, Shape, TaskShape, TaskOf, Callers, Requesters
<1>q. ~Waiting(task) => To(cmds, who) = {} /\ To(events, who) = {} /\ who \notin waiters
  BY <1>p DEF Pledge
<1>t. task' = TaskOf(who)'
  OBVIOUS
<1> HIDE DEF task
<1>1. CASE Writes(who)
  <2>1. CASE StopWrite /\ who = "person"
    <3>1. /\ task.op = "stop" /\ task' = [task EXCEPT !.op = "stopping"]
          /\ cmds' = Append(cmds, Request("cancel", "person", 0)) /\ UNCHANGED <<events, waiters>>
      BY <2>1 DEF StopWrite, TaskOf, task, workerVars
    <3>2. task'.op = "stopping" /\ task'.reply = task.reply
      BY <1>p, <3>1 DEF Task
    <3>3. task.reply = "none"
      BY <1>p, <3>1 DEF Pledge
    <3>4. Waiting(task') /\ ~Waiting(task)
      BY <3>1, <3>2, <3>3 DEF Waiting
    <3>5. /\ Request("cancel", "person", 0) \in Commands
          /\ Request("cancel", "person", 0).type = "cancel"
      BY RequestMade, TurnControlAssumption DEF Requesters
    <3> QED  BY Zenon, <1>n, <1>q, <1>t, <3>1, <3>2, <3>4, <3>5, PledgeWritten
  <2>2. CASE AnswerWrite /\ who = "person"
    <3>1. /\ task.op = "answer" /\ task' = [task EXCEPT !.op = "answering"]
          /\ cmds' = Append(cmds, Request("answer", "person", task.ask))
          /\ UNCHANGED <<events, waiters>>
      BY <2>2 DEF AnswerWrite, TaskOf, task, workerVars
    <3>2. task'.op = "answering" /\ task'.reply = task.reply /\ task'.ask = task.ask
      BY <1>p, <3>1 DEF Task
    <3>3. task.reply = "none"
      BY <1>p, <3>1 DEF Pledge
    <3>4. Waiting(task') /\ ~Waiting(task)
      BY <3>1, <3>2, <3>3 DEF Waiting
    <3>5. /\ Request("answer", "person", task.ask) \in Commands
          /\ Request("answer", "person", task.ask).type = "answer"
          /\ Request("answer", "person", task.ask).ask = task.ask
      BY <1>p, RequestMade DEF Requesters, Task
    <3> QED  BY Zenon, <1>n, <1>q, <1>t, <3>1, <3>2, <3>4, <3>5, PledgeWritten
  <2>3. CASE WatchdogWrite /\ who = "watchdog" /\ alive
    <3>1. /\ task.op = "stop" /\ task' = [task EXCEPT !.op = "stopping"]
          /\ cmds' = Append(cmds, Request("cancel", "watchdog", 0)) /\ UNCHANGED <<events, waiters>>
      BY <2>3 DEF WatchdogWrite, TaskOf, task, workerVars
    <3>2. task'.op = "stopping" /\ task'.reply = task.reply
      BY <1>p, <3>1 DEF Task
    <3>3. task.reply = "none"
      BY <1>p, <3>1 DEF Pledge
    <3>4. Waiting(task') /\ ~Waiting(task)
      BY <3>1, <3>2, <3>3 DEF Waiting
    <3>5. /\ Request("cancel", "watchdog", 0) \in Commands
          /\ Request("cancel", "watchdog", 0).type = "cancel"
      BY RequestMade, TurnControlAssumption DEF Requesters
    <3> QED  BY Zenon, <1>n, <1>q, <1>t, <3>1, <3>2, <3>4, <3>5, PledgeWritten
  <2>4. CASE WatchdogWrite /\ who = "watchdog" /\ ~alive
    <3>1. task.op = "stop" /\ task' = Idle /\ UNCHANGED <<cmds, events, waiters>>
      BY <2>4 DEF WatchdogWrite, TaskOf, task, workerVars
    <3>2. ~Waiting(task) /\ task'.op = "free" /\ task'.reply = "none"
      BY <3>1 DEF Waiting, Idle
    <3> QED  BY <1>q, <1>t, <3>1, <3>2, PledgeQuiet
  <2> QED  BY <1>1, <2>1, <2>2, <2>3, <2>4 DEF Writes
<1>2. CASE GivesUp(who)
  <2>1. /\ cmds' = ForgetIn(cmds, who) /\ events' = ForgetIn(events, who) /\ who \notin waiters'
        /\ Waiting(task) /\ task' = [task EXCEPT !.reply = "error"]
    BY SMTT(30), <1>2 DEF GivesUp, PersonTimesOut, WatchdogTimesOut, TaskOf, task
  <2>2. To(cmds', who) = {} /\ To(events', who) = {}
    <3>1. /\ DOMAIN cmds' = DOMAIN cmds
          /\ \A i \in DOMAIN cmds : cmds'[i].to = IF cmds[i].to = who THEN "nobody" ELSE cmds[i].to
      BY <1>n, <1>p, <2>1, ForgottenCommands
    <3>2. /\ DOMAIN events' = DOMAIN events
          /\ \A i \in DOMAIN events :
               events'[i].to = IF events[i].to = who THEN "nobody" ELSE events[i].to
      BY <1>n, <1>p, <2>1, ForgottenEvents
    <3> QED  BY <1>p, <3>1, <3>2 DEF To
  <2>3. task'.op \in {"stopping", "answering"}
    BY <1>p, <2>1 DEF Waiting, Task
  <2> QED  BY Zenon, <1>t, <2>1, <2>2, <2>3, PledgeQuiet
<1>3. CASE Hears(who)
  <2>1. /\ events # << >> /\ events' = Tail(events) /\ UNCHANGED <<cmds, waiters>>
        /\ Head(events).to = who /\ Waiting(task)
        /\ task' = [task EXCEPT !.reply = Head(events).type]
    BY <1>3 DEF Hears, ReadEvent, workerVars, task
  <2>2. /\ 1 \in To(events, who)
        /\ \A i \in DOMAIN events' : i + 1 \in DOMAIN events /\ events'[i] = events[i + 1]
    BY <1>n, <2>1, EventTaken DEF To
  <2>3. To(events', who) = {}
    <3> SUFFICES ASSUME NEW i \in To(events', who) PROVE FALSE
      OBVIOUS
    <3>1. i + 1 \in To(events, who) /\ i \in Nat
      BY SMTT(30), <1>n, <2>2 DEF To
    <3>2. i + 1 = 1
      BY <1>p, <2>2, <3>1 DEF Pledge, Lone
    <3>3. 0 \notin DOMAIN events'
      BY SMTT(30), <1>n, <2>1
    <3> QED  BY <3>1, <3>2, <3>3 DEF To
  <2>4. To(cmds, who) = {} /\ who \notin waiters
    BY ZenonT(30), <1>p, <2>2 DEF Pledge
  <2>5. task'.op \in {"stopping", "answering"}
    BY SMTT(30), <1>p, <2>1 DEF Waiting, Task
  <2> QED  BY Zenon, <1>t, <2>1, <2>3, <2>4, <2>5, PledgeQuiet
<1>4. CASE Serves(who)
  <2>1. UNCHANGED <<person, watchdog>>
    BY <1>4 DEF Serves, TakeCancel, TakeAnswer, StopDrains, StopIsSlow, relayIdle, taskVars
  <2>2. task' = task
    BY <2>1 DEF TaskOf, task
  <2>3. CASE (TakeCancel \/ TakeAnswer) /\ Head(cmds).to = who
    <3>1. cmds # << >> /\ cmds' = Tail(cmds)
      BY SMTT(30), <2>3 DEF TakeCancel, TakeAnswer, Command
    <3>2. /\ 1 \in DOMAIN cmds /\ Head(cmds) = cmds[1] /\ Len(cmds') = Len(cmds) - 1
          /\ \A i \in DOMAIN cmds' : i + 1 \in DOMAIN cmds /\ cmds'[i] = cmds[i + 1]
      BY SMTT(30), <1>n, <3>1, CommandTaken
    <3>h. 1 \in To(cmds, who)
      BY SMTT(30), <2>3, <3>2 DEF To
    <3>3. ~ReadEvent
      <4>1. cmds' # cmds
        BY SMTT(30), <1>n, <3>2
      <4> QED  BY <4>1 DEF ReadEvent
    <3>4. To(cmds', who) = {}
      <4> SUFFICES ASSUME NEW i \in To(cmds', who) PROVE FALSE
        OBVIOUS
      <4>1. i + 1 \in To(cmds, who) /\ i \in Nat
        BY SMTT(30), <1>n, <3>2 DEF To
      <4>2. i + 1 = 1
        BY SMTT(30), <1>p, <3>h, <4>1 DEF Pledge, Lone
      <4>3. 0 \notin DOMAIN cmds'
        BY SMTT(30), <1>n, <3>1
      <4> QED  BY <4>1, <4>2, <4>3 DEF To
    <3>5. To(events, who) = {} /\ who \notin waiters /\ Waiting(task)
      BY SMTT(30), <1>p, <3>h DEF Pledge
    <3>6. Lone(To(events', who))
      BY <3>3, <3>5, AnsweredOnce
    <3>7. CASE who \notin waiters'
      BY SMTT(30), <1>t, <2>2, <3>4, <3>5, <3>6, <3>7, PledgeAnswered
    <3>8. CASE who \in waiters'
      <4>1. TakeCancel /\ UNCHANGED events
        BY SMTT(30), <2>3, <3>5, <3>8 DEF TakeCancel, TakeAnswer
      <4>2. task.op = "stopping"
        <5>1. cmds[1].type = "cancel"
          BY <3>2, <4>1 DEF TakeCancel, Command
        <5> QED  BY SMTT(30), <1>p, <3>h, <5>1 DEF Pledge
      <4> QED  BY ZenonT(30), <1>t, <2>2, <3>4, <3>5, <3>6, <4>1, <4>2 DEF Pledge, Lone
    <3> QED  BY <3>7, <3>8
  <2>4. CASE (StopDrains \/ StopIsSlow(who)) /\ who \in waiters
    <3>1. UNCHANGED cmds /\ who \notin waiters'
      BY <2>4 DEF StopDrains, StopIsSlow
    <3>2. ~ReadEvent
      BY SMTT(30), <2>4, <3>1 DEF ReadEvent, workerVars
    <3>3. To(cmds, who) = {} /\ To(events, who) = {} /\ Waiting(task)
      BY <1>p, <2>4 DEF Pledge
    <3>4. Lone(To(events', who))
      BY SMTT(30), <3>2, <3>3, AnsweredOnce
    <3> QED  BY SMTT(30), <1>t, <2>2, <3>1, <3>3, <3>4, PledgeAnswered
  <2>5. StopIsSlow(who) => who \in waiters
    BY DEF StopIsSlow
  <2> QED  BY SMTT(30), <1>4, <2>3, <2>4, <2>5 DEF Serves
<1>5. CASE ~Writes(who) /\ ~GivesUp(who) /\ ~Hears(who) /\ ~Serves(who)
  <2>1. Carried(cmds, cmds', who)
    BY <1>5, CommandsCarried DEF Writes
  <2>2. Carried(events, events', who)
    <3>1. \A i \in To(events', who) : ~Answers(events'[i])
      BY SMTT(30), <1>5 DEF To, Answers, Serves
    <3> QED  BY Zenon, <3>1, EventsCarried
  <2>3. who \in waiters' => who \in waiters
    BY <1>5, WaitersMove DEF Serves
  <2>4. CASE task' = task
    BY SMTT(30), <1>n, <1>p, <1>t, <2>1, <2>2, <2>3, <2>4, PledgeCarried
  <2>5. CASE Idles(who)
    <3>1. /\ ~Waiting(task)
          /\ task'.op \notin {"stopping", "answering"}
          /\ task'.reply = "none" \/ (task'.reply = task.reply /\ task.op \notin {"stopping", "answering"})
      BY Zenon, <1>t, <2>5 DEF Idles, task
    <3>2. task'.reply = "none"
      BY <1>p, <3>1 DEF Pledge
    <3>3. To(cmds', who) = {} /\ To(events', who) = {}
      BY SMTT(30), <1>q, <2>1, <2>2, <3>1 DEF Carried
    <3> QED  BY <1>q, <1>t, <2>3, <3>1, <3>2, <3>3, PledgeQuiet
  <2> QED  BY <1>5, <1>t, <2>4, <2>5, TaskMoves DEF task
<1> QED  BY <1>1, <1>2, <1>3, <1>4, <1>5

-----------------------------------------------------------------------------
(* What a stop ends.                                                           *)

(* A stop keeps its turn from the check of its caller to the answer.           *)
LEMMA StopMoves ==
  ASSUME Typed, Next, NEW who \in Callers,
         TaskOf(who)'.op \in {"candidate", "stop", "stopping"}
  PROVE  /\ \/ /\ TaskOf(who).op \in {"candidate", "stop", "stopping"}
               /\ TaskOf(who)'.turn = TaskOf(who).turn
            \/ relay.turn # None /\ TaskOf(who)'.turn = relay.turn
         /\ TaskOf(who)'.op = "stopping" =>
              /\ TaskOf(who)'.turn = TaskOf(who).turn
              /\ \/ TaskOf(who).op = "stop" /\ TaskOf(who)'.reply = TaskOf(who).reply
                 \/ /\ TaskOf(who).op = "stopping"
                    /\ \/ TaskOf(who)'.reply \in {TaskOf(who).reply, "error"}
                       \/ ReadEvent /\ Head(events).to = who /\ TaskOf(who)'.reply = Head(events).type
<1> DEFINE task == TaskOf(who)
<1>n. task \in Task /\ Idle.op = "free"
  BY DEF Typed, Shape, TaskShape, TaskOf, Idle
<1>w. who \in {"person", "watchdog"} /\ "person" # "watchdog"
  BY SMTT(30) DEF Callers
<1>t. task' = TaskOf(who)'
  OBVIOUS
<1> HIDE DEF task
<1>1. CASE task' = task
  BY ZenonT(30), <1>t, <1>1 DEF task
<1>2. CASE Idles(who)
  BY Zenon, <1>2 DEF Idles
<1>3. CASE Writes(who)
  <2>1. CASE StopWrite \/ WatchdogWrite
    <3>1. task.op = "stop" /\ (task' = [task EXCEPT !.op = "stopping"] \/ task' = Idle)
      BY <1>3, <1>w, <2>1 DEF Writes, StopWrite, AnswerWrite, WatchdogWrite, TaskOf, task
    <3>2. task' = [task EXCEPT !.op = "stopping"]
      BY <1>n, <1>t, <3>1
    <3>3. task'.turn = task.turn /\ task'.reply = task.reply
      BY SMTT(30), <1>n, <3>2 DEF Task
    <3> QED  BY <1>t, <3>1, <3>3 DEF task
  <2>2. CASE AnswerWrite /\ who = "person"
    <3>1. task'.op = "answering"
      BY SMTT(30), <1>n, <2>2 DEF AnswerWrite, TaskOf, task, Task
    <3> QED  BY SMTT(30), <1>t, <3>1
  <2> QED  BY <1>3, <2>1, <2>2 DEF Writes
<1>4. CASE GivesUp(who)
  <2>1. task' = [task EXCEPT !.reply = "error"]
    BY <1>4 DEF GivesUp, PersonTimesOut, WatchdogTimesOut, TaskOf, task
  <2>2. task'.turn = task.turn /\ task'.op = task.op /\ task'.reply = "error"
    BY <1>n, <2>1 DEF Task
  <2> QED  BY Zenon, <1>t, <2>2 DEF task
<1>5. CASE Hears(who)
  <2>1. ReadEvent /\ Head(events).to = who /\ task' = [task EXCEPT !.reply = Head(events).type]
    BY SMTT(30), <1>5 DEF Hears, task
  <2>2. task'.turn = task.turn /\ task'.op = task.op /\ task'.reply = Head(events).type
    BY SMTT(30), <1>n, <2>1 DEF Task
  <2> QED  BY <1>t, <2>1, <2>2 DEF task
<1> QED  BY ZenonT(30), <1>1, <1>2, <1>3, <1>4, <1>5, TaskMoves DEF task

(* No prompt under the turn a caller stops is written behind its cancel.       *)
LEMMA SendsAreOthers ==
  ASSUME Typed, Next, NEW who \in Callers, NEW t, Born(t),
         \A i \in To(cmds, who),
         j \in DOMAIN cmds : cmds[j].type = "send" /\ i < j => cmds[j].turn # t
  PROVE  \A i \in To(cmds', who), j \in DOMAIN cmds' :
           cmds'[j].type = "send" /\ i < j => cmds'[j].turn # t
<1>n. /\ cmds \in Seq(Commands) /\ DOMAIN cmds = 1..Len(cmds) /\ Len(cmds) \in Nat
      /\ DOMAIN cmds' \subseteq Nat
  <2>1. cmds' \in Seq(Commands)
    BY SMTT(30), PipeStep DEF PipeShape
  <2> QED  BY <2>1 DEF Typed, Shape, PipeShape
<1>1. PICK k \in {0, 1} : \A i \in DOMAIN cmds' :
        \/ i + k \in DOMAIN cmds /\ Same(cmds'[i], cmds[i + k])
        \/ k = 0 /\ i = Len(cmds) + 1 /\ Written(cmds'[i])
  BY SMTT(30), CommandsMove
<1> SUFFICES ASSUME NEW i \in To(cmds', who), NEW j \in DOMAIN cmds', cmds'[j].type = "send", i < j
             PROVE  cmds'[j].turn # t
  BY Zenon
<1>i. i \in DOMAIN cmds' /\ cmds'[i].to = who /\ who # "nobody"
  BY SMTT(30) DEF To, Callers
<1>2. CASE Written(cmds'[j])
  <2>1. SendWrite /\ cmds'[j].turn = person.turn
    BY SMTT(30), <1>2 DEF Written
  <2>2. person.op = "send" /\ person.turn \in Prompts
    BY SMTT(30), <2>1, TurnControlAssumption DEF SendWrite, Typed, Shape, CountShape, Counts,
                                                 TaskShape, Prompts
  <2>3. Prompts \cap Minted = {}
    BY SMTT(30), TurnControlAssumption DEF Prompts, Minted
  <2> QED  BY SMTT(30), <2>1, <2>2, <2>3 DEF Born
<1>3. CASE j + k \in DOMAIN cmds /\ Same(cmds'[j], cmds[j + k])
  <2>1. i + k < j + k /\ i + k # Len(cmds) + 1
    BY SMTT(30), <1>n, <1>i, <1>3
  <2>2. i + k \in DOMAIN cmds /\ Same(cmds'[i], cmds[i + k])
    <3>1. k = 0 => i + k = i
      BY <1>n, <1>i
    <3> QED  BY SMTT(30), <1>1, <1>i, <2>1, <3>1
  <2>3. i + k \in To(cmds, who)
    BY SMTT(30), <1>i, <2>2 DEF To, Same
  <2>4. cmds[j + k].type = "send" /\ cmds'[j].turn = cmds[j + k].turn
    BY <1>3 DEF Same
  <2> QED  BY SMTT(30), <1>3, <2>1, <2>3, <2>4
<1> QED  BY SMTT(30), <1>1, <1>2, <1>3

(* A cancel that is taken finds the prompt of its turn read.                   *)
LEMMA TakenLate ==
  ASSUME Typed, TakeCancel, NEW who, Head(cmds).to = who, NEW t, Born(t),
         \A i \in To(cmds, who),
         j \in DOMAIN cmds : cmds[j].type = "send" /\ i < j => cmds[j].turn # t
  PROVE  Begun(t)'
<1>1. cmds \in Seq(Commands) /\ cmds # << >> /\ cmds' = Tail(cmds)
  BY SMTT(30) DEF Typed, Shape, PipeShape, TakeCancel, Command
<1>2. /\ 1 \in DOMAIN cmds /\ Head(cmds) = cmds[1]
      /\ \A i \in DOMAIN cmds' : i + 1 \in DOMAIN cmds /\ cmds'[i] = cmds[i + 1]
      /\ DOMAIN cmds' = 1..Len(cmds') /\ Len(cmds') \in Nat
  BY SMTT(30), <1>1, CommandTaken
<1>3. 1 \in To(cmds, who)
  BY SMTT(30), <1>2 DEF To
<1>4. ASSUME NEW i \in DOMAIN cmds', cmds'[i].type = "send" PROVE cmds'[i].turn # t
  <2> DEFINE p == i + 1
  <2>1. p \in DOMAIN cmds /\ cmds'[i] = cmds[p] /\ 1 < p
    BY SMTT(30), <1>2
  <2> HIDE DEF p
  <2> QED  BY SMTT(30), <1>3, <1>4, <2>1
<1>5. UNCHANGED <<person, used>>
  BY DEF TakeCancel, relayIdle, taskVars
<1>6. Born(t)'
  BY SMTT(30), <1>5 DEF Born
<1> QED  BY Zenon, <1>4, <1>6 DEF Begun

(* The answer to a stop comes when its turn is over.                           *)
LEMMA DoomedStep ==
  ASSUME Typed, Ids, Tokens, Stopping, Next, NEW who \in Callers, NEW t, t = TaskOf(who)'.turn,
         TaskOf(who)'.op = "stopping"
  PROVE  Doomed(who, t)'
<1> DEFINE task == TaskOf(who)
<1>n. events \in Seq(Reports) /\ entry \in Entries /\ who \in Requesters /\ who # "nobody"
  BY DEF Typed, Shape, PipeShape, WorkerShape, Callers, Requesters
<1>p. Pledge(who, task, cmds, waiters, events)
  BY DEF Tokens
<1>m. /\ t = task.turn
      /\ \/ task.op = "stop" /\ TaskOf(who)'.reply = task.reply
         \/ /\ task.op = "stopping"
            /\ \/ TaskOf(who)'.reply \in {task.reply, "error"}
               \/ ReadEvent /\ Head(events).to = who /\ TaskOf(who)'.reply = Head(events).type
  BY Zenon, StopMoves
<1>o. /\ task.op \in {"candidate", "stop", "stopping"} => Born(task.turn)
      /\ task.op = "stopping" => Doomed(who, task.turn)
  BY SMTT(30) DEF Stopping
<1> HIDE DEF task
<1>b. Born(t)
  BY SMTT(30), <1>m, <1>o
<1>d. task.op = "stopping" => Doomed(who, t)
  BY SMTT(30), <1>m, <1>o
<1>s. task.op = "stop" => /\ To(cmds, who) = {} /\ To(events, who) = {} /\ who \notin waiters
                          /\ task.reply = "none"
  BY SMTT(30), <1>p DEF Pledge, Waiting
<1>1. \A i \in To(cmds, who), j \in DOMAIN cmds : cmds[j].type = "send" /\ i < j => cmds[j].turn # t
  BY ZenonT(30), <1>m, <1>d, <1>s DEF Doomed
<1>2. \A i \in To(cmds', who), j \in DOMAIN cmds' :
        cmds'[j].type = "send" /\ i < j => cmds'[j].turn # t
  BY ZenonT(30), <1>b, <1>1, SendsAreOthers
<1>3. ASSUME who \in waiters' PROVE Begun(t)'
  <2>1. CASE who \in waiters
    <3>1. Begun(t)
      BY ZenonT(30), <1>m, <1>d, <1>s, <2>1 DEF Doomed
    <3> QED  BY SMTT(30), <3>1, BegunStays
  <2>2. CASE who \notin waiters
    <3>1. TakeCancel /\ Head(cmds).to = who
      BY SMTT(30), <1>3, <2>2, WaitersMove
    <3> QED  BY SMTT(30), <1>1, <1>b, <3>1, TakenLate
  <2> QED  BY <2>1, <2>2
<1>4. \A i \in To(events, who) : events[i].type = "ok" => Over(t)
  BY SMTT(30), <1>m, <1>d, <1>s DEF Doomed
<1>5. ASSUME NEW i \in To(events', who), events'[i].type = "ok" PROVE Over(t)'
  <2>i. i \in DOMAIN events' /\ events'[i].to = who
    BY SMTT(30) DEF To
  <2>1. CASE ReadEvent
    <3>1. events # << >> /\ events' = Tail(events)
      BY SMTT(30), <2>1 DEF ReadEvent
    <3>2. i + 1 \in DOMAIN events /\ events'[i] = events[i + 1]
      BY SMTT(30), <1>n, <2>i, <3>1, EventTaken
    <3>3. Over(t)
      BY SMTT(30), <1>4, <1>5, <2>i, <3>2 DEF To
    <3> QED  BY SMTT(30), <3>3, OverStays
  <2>2. CASE i \in DOMAIN events /\ events'[i].type = events[i].type /\ events[i].to = who
    <3>1. Over(t)
      BY <1>4, <1>5, <2>2 DEF To
    <3> QED  BY Zenon, <3>1, OverStays
  <2>3. CASE Answers(events'[i])
    <3>1. CASE TakeCancel /\ Head(cmds).to = who /\ entry.stop = "stopped"
      <4>1. Begun(t)'
        BY ZenonT(30), <1>1, <1>b, <3>1, TakenLate
      <4>2. UNCHANGED entry
        BY SMTT(30), <3>1 DEF TakeCancel
      <4>3. ~entry.running
        BY SMTT(30), <3>1 DEF Typed, Session
      <4> QED  BY SMTT(30), <4>1, <4>2, <4>3 DEF Over
    <3>2. CASE TakeAnswer /\ Head(cmds).to = who
      <4>1. cmds # << >> /\ Head(cmds).type = "answer" /\ cmds \in Seq(Commands)
        BY ZenonT(30), <3>2 DEF TakeAnswer, Command, Typed, Shape, PipeShape
      <4>2. 1 \in DOMAIN cmds /\ Head(cmds) = cmds[1]
        BY SMTT(30), <4>1, CommandTaken
      <4>3. 1 \in To(cmds, who) /\ cmds[1].type = "answer"
        BY SMTT(30), <3>2, <4>1, <4>2 DEF To
      <4>4. task.op = "answering"
        BY SMTT(30), <1>p, <4>3 DEF Pledge
      <4> QED  BY SMTT(30), <1>m, <4>4
    <3>3. CASE StopDrains /\ who \in waiters
      <4>1. Begun(t)
        BY Zenon, <1>m, <1>d, <1>s, <3>3 DEF Doomed
      <4>2. entry' = [entry EXCEPT !.stop = "stopped", !.live = FALSE, !.running = FALSE]
        BY <3>3 DEF StopDrains
      <4>3. entry'.running = FALSE
        BY SMTT(30), <1>n, <4>2 DEF Entries
      <4> QED  BY SMTT(30), <4>1, <4>3, BegunStays DEF Over
    <3> QED  BY SMTT(30), <1>5, <2>i, <2>3, <3>1, <3>2, <3>3 DEF Answers
  <2>4. ~ReadEvent /\ Fresh(i) => Answers(events'[i])
    BY SMTT(30), <1>n, <2>i DEF Fresh
  <2> QED  BY Zenon, <1>n, <2>i, <2>1, <2>2, <2>3, <2>4, EventsMove
<1>6. ASSUME TaskOf(who)'.reply = "ok" PROVE Over(t)'
  <2>1. Over(t)
    <3>1. CASE task.op = "stopping" /\ task.reply = "ok"
      BY SMTT(30), <1>d, <3>1 DEF Doomed, task
    <3>2. CASE ReadEvent /\ Head(events).to = who /\ Head(events).type = "ok"
      <4>1. events # << >>
        BY SMTT(30), <3>2 DEF ReadEvent
      <4>2. 1 \in DOMAIN events /\ Head(events) = events[1]
        BY SMTT(30), <1>n, <4>1, EventTaken
      <4>3. 1 \in To(events, who) /\ events[1].type = "ok"
        BY SMTT(30), <3>2, <4>2 DEF To
      <4> QED  BY SMTT(30), <1>4, <4>3
    <3> QED  BY ZenonT(30), <1>m, <1>s, <1>6, <3>1, <3>2
  <2> QED  BY Zenon, <2>1, OverStays
<1> QED  BY Zenon, <1>2, <1>3, <1>5, <1>6 DEF Doomed

(* No fallback waits for a turn the worker runs or may still run.              *)
LEMMA StoppingStep ==
  ASSUME Typed, Ids, Tokens, Stopping, Next
  PROVE  Stopping'
<1>1. ASSUME NEW who \in Callers, NEW t, t = TaskOf(who)'.turn,
             TaskOf(who)'.op \in {"candidate", "stop", "stopping"}
      PROVE  Born(t)'
  <2>1. Born(t)
    <3>1. CASE TaskOf(who).op \in {"candidate", "stop", "stopping"} /\ t = TaskOf(who).turn
      BY SMTT(30), <3>1 DEF Stopping
    <3>2. CASE relay.turn # None /\ t = relay.turn
      BY <3>2 DEF Ids
    <3> QED  BY Zenon, <1>1, <3>1, <3>2, StopMoves
  <2> QED  BY SMTT(30), <2>1, BornStays
<1>2. ASSUME NEW t \in fallbacks' PROVE Over(t)'
  <2>1. Over(t)
    <3>1. CASE t \in fallbacks
      BY SMTT(30), <3>1 DEF Stopping
    <3>2. CASE \E who \in Callers : /\ t = TaskOf(who).turn /\ TaskOf(who).op = "stopping"
                                    /\ TaskOf(who).reply = "ok"
      BY ZenonT(30), <3>2 DEF Stopping, Doomed
    <3>3. \/ t \in fallbacks
          \/ person.op = "stopping" /\ person.reply = "ok" /\ t = person.turn
          \/ watchdog.op = "stopping" /\ watchdog.reply = "ok" /\ t = watchdog.turn
      <4>1. CASE StopAnswered
        BY <1>2, <4>1 DEF StopAnswered
      <4>2. CASE WatchdogAnswered
        BY SMTT(30), <1>2, <4>2 DEF WatchdogAnswered
      <4>3. CASE \E u \in Turns : FallbackFires(u)
        BY SMTT(30), <1>2, <4>3 DEF FallbackFires
      <4>4. CASE ~StopAnswered /\ ~WatchdogAnswered /\ ~\E u \in Turns : FallbackFires(u)
        <5>1. UNCHANGED fallbacks
          BY Zenon, <4>4, PersonFrames, TaskFrames, ReaderFrames, WorkerFrames, SdkFrames
             DEF Next, Person, Tasks, Reader, Worker
        <5> QED  BY <1>2, <5>1
      <4> QED  BY SMTT(30), <4>1, <4>2, <4>3, <4>4
    <3>4. "person" \in Callers /\ TaskOf("person") = person
      BY DEF Callers, TaskOf
    <3>5. "watchdog" \in Callers /\ TaskOf("watchdog") = watchdog
      BY DEF Callers, TaskOf
    <3> QED  BY Zenon, <3>1, <3>2, <3>3, <3>4, <3>5
  <2> QED  BY SMTT(30), <2>1, OverStays
<1>3. ASSUME NEW who \in Callers, NEW t, t = TaskOf(who)'.turn, TaskOf(who)'.op = "stopping"
      PROVE  Doomed(who, t)'
  BY SMTT(30), <1>3, DoomedStep
<1> QED  BY Zenon, <1>1, <1>2, <1>3 DEF Stopping

(* What a step may not do to the turn the relay follows.                       *)
LEMMA KeptByStep ==
  ASSUME Typed, Ids, Stopping, Next, relay.turn # None, relay'.turn = None, alive
  PROVE  ~(entry.running /\ entry.turn = relay.turn)
<1>1. CASE ReadEvent /\ Head(events).type = "terminal" /\ Head(events).turn = relay.turn
  <2>1. events \in Seq(Reports) /\ events # << >>
    BY SMTT(30), <1>1 DEF ReadEvent, Typed, Shape, PipeShape
  <2>2. 1 \in DOMAIN events /\ Head(events) = events[1]
    BY SMTT(30), <2>1, EventTaken
  <2>3. Over(relay.turn)
    BY SMTT(30), <1>1, <2>2 DEF Ids
  <2> QED  BY SMTT(30), <2>3 DEF Over
<1>2. CASE \E t \in Turns : FallbackFires(t) /\ t = relay.turn
  <2>1. relay.turn \in fallbacks
    BY SMTT(30), <1>2 DEF FallbackFires
  <2>2. Over(relay.turn)
    BY <2>1 DEF Stopping
  <2> QED  BY Zenon, <2>2 DEF Over
<1>3. ~ReadEof
  BY SMTT(30) DEF ReadEof
<1>4. ~(SendFinish /\ relay'.turn = person.turn)
  <2>1. SendFinish => person.op = "sent"
    BY SMTT(30) DEF SendFinish
  <2>2. person.op = "sent" => person.turn \in 1..used.sends
    BY DEF Typed, Shape, TaskShape
  <2>3. used.sends \in Nat
    BY SMTT(30), TurnControlAssumption DEF Typed, Shape, CountShape, Counts
  <2> QED  BY SMTT(30), <2>1, <2>2, <2>3 DEF None
<1>5. ~(ReadEvent /\ Head(events).type = "turn_started" /\ relay'.turn = Head(events).turn)
  <2>1. ReadEvent => events # << >>
    BY SMTT(30) DEF ReadEvent
  <2>2. ReadEvent => 1 \in DOMAIN events /\ Head(events) = events[1]
    BY SMTT(30), <2>1, EventTaken DEF Typed, Shape, PipeShape
  <2>3. ReadEvent /\ Head(events).type = "turn_started" => Head(events).turn \in Minted
    BY <2>2 DEF Typed, Shape, PipeShape, Sound
  <2> QED  BY SMTT(30), <2>3, TurnControlAssumption DEF Minted, None
<1> QED  BY Zenon, <1>1, <1>2, <1>3, <1>4, <1>5, TurnMoves

(* The relay never gives up a turn that the worker runs under that very id, in *)
(* any run: its terminal is written when it is over, and the fallback of an    *)
(* accepted stop waits for a turn whose prompt the worker had read before it   *)
(* answered, so that it never fires for a later turn of the same session       *)
(* (completion_matches_turn, await_stop_or_mark_idle; sessions.rs,             *)
(* worker.mjs).                                                                *)
THEOREM RunningTurnsAreNotGivenUp == Spec => RunningTurnsAreKept
<1>1. Init => Ids /\ Tokens /\ Stopping
  BY IdsInit, StoppingInit
<1>2. Typed /\ Ids /\ Tokens /\ Stopping /\ [Next]_vars => (Ids /\ Tokens /\ Stopping)'
  <2> SUFFICES ASSUME Typed, Ids, Tokens, Stopping, [Next]_vars PROVE (Ids /\ Tokens /\ Stopping)'
    OBVIOUS
  <2>1. CASE Next
    BY SMTT(30), <2>1, IdsStep, TokensStep, StoppingStep
  <2>2. CASE UNCHANGED vars
    BY Zenon, <2>2, Resting, StoppingRests
  <2> QED  BY SMTT(30), <2>1, <2>2
<1>3. Typed /\ Ids /\ Stopping /\ [Next]_vars
        => [relay.turn # None /\ relay'.turn = None /\ alive
              => ~(entry.running /\ entry.turn = relay.turn)]_vars
  BY KeptByStep
<1> QED  BY <1>1, <1>2, <1>3, TypedInit, TypedStep, PTL DEF Spec, RunningTurnsAreKept

-----------------------------------------------------------------------------
(* What the agent waits on.                                                    *)

(* What becomes of the requests the relay shows.                               *)
LEMMA PendingMoves ==
  ASSUME Typed, Next
  PROVE  \/ relay'.pending = relay.pending
         \/ relay'.pending = {} /\ (StopClears \/ \E t \in Turns : FallbackFires(t))
         \/ relay'.pending = {} /\ ReadEof
         \/ relay'.pending = {} /\ ReadEvent /\ Head(events).type = "terminal"
         \/ /\ AnswerAnswered /\ person.op = "answering" /\ person.reply = "ok"
            /\ relay'.pending = {a \in relay.pending : a.id # person.ask}
         \/ /\ ReadEvent /\ Head(events).type = "ask"
            /\ relay'.pending = relay.pending \cup
                                  {[id |-> Head(events).ask, kind |-> Head(events).kind]}
<1>n. relay \in Relays /\ person \in Task /\ watchdog \in Task
  BY DEF Typed, Shape, RelayShape, TaskShape
<1>1. CASE SendFinish
  <2>1. relay' = IF ~moved THEN Active(WithTurn(relay, person.turn)) ELSE Touched(relay)
    BY <1>1 DEF SendFinish, MaySeed
  <2>2. person.turn \in Turns \cup {None}
    BY <1>n DEF Task
  <2>3. relay'.pending = relay.pending
    BY SMTT(30), <1>n, <2>1, <2>2, RelayMoves
  <2> QED  BY ZenonT(30), <2>3
<1>2. CASE StopClears
  <2>1. relay' = Settled(relay)
    BY <1>2 DEF StopClears
  <2>2. relay'.pending = {}
    BY SMTT(30), <1>n, <2>1, RelayMoves
  <2> QED  BY <1>2, <2>2
<1>3. CASE AnswerAnswered
  <2>1. /\ person.op = "answering"
        /\ relay' = IF person.reply = "ok" THEN Answered(relay, person.ask) ELSE relay
    BY <1>3 DEF AnswerAnswered
  <2>2. person.reply = "ok" => relay'.pending = {a \in relay.pending : a.id # person.ask}
    BY SMTT(30), <1>n, <2>1 DEF Answered, Relays
  <2> QED  BY SMTT(30), <1>3, <2>1, <2>2
<1>4. CASE WatchdogTick
  <2>1. relay' = Expired(relay)
    BY <1>4 DEF WatchdogTick
  <2>2. relay'.pending = relay.pending
    BY SMTT(30), <1>n, <2>1 DEF Expired, Relays
  <2> QED  BY SMTT(30), <2>2
<1>5. CASE WatchdogAnswered
  <2>1. \/ UNCHANGED relay
        \/ relay' = [relay EXCEPT !.stopAsked = @ \/ (relay.timedOut /\ relay.turn = watchdog.turn)]
    BY <1>5 DEF WatchdogAnswered
  <2>2. relay'.pending = relay.pending
    BY SMTT(30), <1>n, <2>1 DEF Relays
  <2> QED  BY SMTT(30), <2>2
<1>6. CASE (\E t \in Turns : FallbackFires(t)) \/ ReadEof
  <2>1. relay' \in {relay, Ended(relay)}
    BY SMTT(30), <1>6 DEF FallbackFires, ReadEof, relayVars
  <2>2. relay'.pending \in {relay.pending, {}}
    BY SMTT(30), <1>n, <2>1, RelayMoves
  <2> QED  BY SMTT(30), <1>6, <2>2
<1>7. CASE ReadEvent
  <2> DEFINE e == Head(events)
  <2>1. events # << >> /\ relay' = Effect(e)
    BY SMTT(30), <1>7 DEF ReadEvent
  <2>2. e \in Reports /\ Sound(e, used.asks) /\ used.asks \in 0..MaxIncidents
    BY <2>1, EventTaken DEF Typed, Shape, PipeShape, CountShape, Counts
  <2>3. e.type \in {"turn_started", "activity", "ask", "terminal", "ok", "error"}
    BY SMTT(30), <2>2 DEF Reports
  <2>4. /\ e.type \in {"turn_started", "activity", "ok", "error"} => relay'.pending = relay.pending
        /\ e.type = "ask" => relay'.pending = relay.pending \cup {[id |-> e.ask, kind |-> e.kind]}
        /\ e.type = "terminal" => relay'.pending = {} \/ relay' = relay
    <3> HIDE DEF e
    <3>1. /\ e.type = "turn_started" => relay'.pending = relay.pending
          /\ e.type \in {"activity", "ok", "error"} => relay'.pending = relay.pending
      BY ZenonT(30), <1>n, <2>1, <2>2, EventMoves
    <3>2. e.type = "ask" => relay'.pending = relay.pending \cup {[id |-> e.ask, kind |-> e.kind]}
      BY ZenonT(30), <1>n, <2>1, <2>2, EventMoves
    <3>3. e.type = "terminal" => relay'.pending = {} \/ relay' = relay
      BY ZenonT(30), <1>n, <2>1, <2>2, EventMoves
    <3> QED  BY SMTT(30), <3>1, <3>2, <3>3
  <2> HIDE DEF e
  <2> QED  BY Zenon, <1>7, <2>3, <2>4 DEF e
<1>8. CASE \/ SendBegin \/ SendRefused \/ SendWrite \/ StopBegin \/ StopWrite
            \/ StopAnswered \/ (\E a \in Asks : AnswerBegin(a)) \/ AnswerWrite
            \/ WriteFails \/ PersonTimesOut \/ Silence \/ WatchdogCheck
            \/ WatchdogWrite \/ WatchdogTimesOut \/ TakeSend \/ LoseSend \/ TakeCancel
            \/ StopDrains \/ TakeAnswer \/ (\E w \in Requesters : StopIsSlow(w))
            \/ SdkActs \/ SdkEnds \/ SdkContinues \/ SdkAsks \/ StreamDies \/ WorkerDies
  <2>1. UNCHANGED <<relay>>
    BY Zenon, <1>8, PersonFrames, TaskFrames, ReaderFrames, WorkerFrames, SdkFrames
  <2> QED  BY ZenonT(30), <2>1
<1> QED  BY Zenon, <1>1, <1>2, <1>3, <1>4, <1>5, <1>6, <1>7, <1>8
            DEF Next, Person, Tasks, Reader, Worker

(* The worker holds a new request only when the agent makes one.               *)
LEMMA AskedMoves ==
  ASSUME Typed, Next
  PROVE  asked' \subseteq asked \/ (SdkAsks /\ asked' = asked \cup {used.asks + 1})
<1>1. CASE TakeCancel \/ TakeAnswer \/ SdkAsks \/ StreamDies \/ WorkerDies
  BY <1>1 DEF TakeCancel, TakeAnswer, SdkAsks, StreamDies, WorkerDies
<1>2. CASE ~(TakeCancel \/ TakeAnswer \/ SdkAsks \/ StreamDies \/ WorkerDies)
  <2>1. UNCHANGED asked
    BY Zenon, <1>2, PersonFrames, TaskFrames, ReaderFrames, WorkerFrames, SdkFrames
       DEF Next, Person, Tasks, Reader, Worker
  <2> QED  BY SMTT(30), <2>1
<1> QED  BY <1>1, <1>2

(* A turn ends, or its session is stopped, with no request left at the worker. *)
LEMMA NothingIsHidden ==
  ASSUME Typed, Held, Next, NEW i \in DOMAIN events', events'[i].type = "terminal"
  PROVE  /\ asked' \cap PendingIds' = {}
         /\ \A j \in DOMAIN events' :
              events'[j].type = "ask" /\ j < i => events'[j].ask \notin asked'
<1>n. /\ events \in Seq(Reports) /\ DOMAIN events = 1..Len(events) /\ Len(events) \in Nat
      /\ used.asks \in Nat /\ DOMAIN events' \subseteq Nat /\ 0 \notin DOMAIN events'
      /\ \A j \in DOMAIN events : Sound(events[j], used.asks)
  <2>1. events' \in Seq(Reports)
    BY ZenonT(30), PipeStep DEF PipeShape
  <2> QED  BY SMTT(30), <2>1, TurnControlAssumption DEF Typed, Shape, PipeShape, CountShape,
                                                        Counts
<1>1. CASE ReadEvent
  <2>1. /\ events # << >> /\ events' = Tail(events) /\ UNCHANGED asked
    BY SMTT(30), <1>1 DEF ReadEvent, workerVars
  <2>2. /\ 1 \in DOMAIN events /\ Head(events) = events[1]
        /\ \A j \in DOMAIN events' : j + 1 \in DOMAIN events /\ events'[j] = events[j + 1]
    BY SMTT(30), <1>n, <2>1, EventTaken
  <2>3. PICK p : p = i + 1
    OBVIOUS
  <2>4. p \in DOMAIN events /\ events[p].type = "terminal" /\ 1 < p
    BY SMTT(30), <1>n, <2>2, <2>3
  <2>5. /\ asked \cap PendingIds = {}
        /\ \A j \in DOMAIN events : events[j].type = "ask" /\ j < p => events[j].ask \notin asked
    BY SMTT(30), <2>4 DEF Held
  <2>6. asked \cap PendingIds' = {}
    <3>1. ASSUME NEW a \in relay'.pending PROVE a.id \notin asked
      <4>1. CASE a \in relay.pending
        BY SMTT(30), <2>5, <4>1 DEF PendingIds
      <4>2. CASE a \notin relay.pending
        <5>1. events[1].type = "ask" /\ a = [id |-> events[1].ask, kind |-> events[1].kind]
          BY SMTT(30), <2>2, <3>1, <4>2, PendingMoves
        <5>2. events[1].ask \notin asked /\ a.id = events[1].ask
          BY SMTT(30), <2>2, <2>4, <2>5, <5>1
        <5> QED  BY <5>2
      <4> QED  BY SMTT(30), <4>1, <4>2
    <3> QED  BY ZenonT(30), <3>1 DEF PendingIds
  <2>7. ASSUME NEW j \in DOMAIN events', events'[j].type = "ask", j < i
        PROVE  events'[j].ask \notin asked
    <3>1. PICK q : q = j + 1
      OBVIOUS
    <3>2. q \in DOMAIN events /\ events'[j] = events[q] /\ q < p
      BY SMTT(30), <1>n, <2>2, <2>3, <2>7, <3>1
    <3> QED  BY <2>5, <2>7, <3>2
  <2> QED  BY SMTT(30), <2>1, <2>6, <2>7
<1>2. CASE ~ReadEvent /\ i \in DOMAIN events /\ events[i].type = "terminal"
  <2>1. /\ asked \cap PendingIds = {}
        /\ \A j \in DOMAIN events : events[j].type = "ask" /\ j < i => events[j].ask \notin asked
    BY SMTT(30), <1>2 DEF Held
  <2>2. asked' \subseteq asked \cup {used.asks + 1}
    BY AskedMoves
  <2>3. ASSUME NEW a \in relay'.pending PROVE a.id \notin asked'
    <3>1. a \in relay.pending
      BY SMTT(30), <1>2, <2>3, PendingMoves
    <3>2. a.id \notin asked
      BY SMTT(30), <2>1, <3>1 DEF PendingIds
    <3>3. a.id <= used.asks /\ a.id \in Nat
      BY <3>1, TurnControlAssumption DEF Typed, Shape, RelayShape, Relays, Asks
    <3> QED  BY SMTT(30), <1>n, <2>2, <3>2, <3>3
  <2>4. ASSUME NEW j \in DOMAIN events', events'[j].type = "ask", j < i
        PROVE  events'[j].ask \notin asked'
    <3>1. j \in DOMAIN events /\ ~(j > Len(events))
      BY SMTT(30), <1>n, <1>2, <2>4
    <3>2. events[j].type = "ask" /\ events'[j].ask = events[j].ask
      BY Zenon, <1>2, <2>4, <3>1, EventsMove
    <3>3. events[j].ask \notin asked
      BY SMTT(30), <2>1, <2>4, <3>1, <3>2
    <3>4. events[j].ask \in 1..used.asks
      BY SMTT(30), <1>n, <3>1, <3>2 DEF Sound
    <3> QED  BY SMTT(30), <1>n, <2>2, <3>2, <3>3, <3>4
  <2>5. asked' \cap PendingIds' = {}
    BY <2>3 DEF PendingIds
  <2> QED  BY SMTT(30), <2>4, <2>5
<1>3. CASE ~ReadEvent /\ Fresh(i)
  <2>1. StopDrains \/ SdkEnds \/ StreamDies
    BY SMTT(30), <1>3 DEF Fresh
  <2>2. asked' = {}
    BY SMTT(30), <2>1 DEF StopDrains, SdkEnds, StreamDies, Typed, Session
  <2> QED  BY SMTT(30), <2>2
<1> QED  BY Zenon, <1>1, <1>2, <1>3, EventsMove

(* The worker has dropped a request when it accepts the answer to it.          *)
LEMMA AnsweredIsDropped ==
  ASSUME Typed, Tokens, Held, Next, person'.op = "answering"
  PROVE  /\ person'.reply = "ok" => person'.ask \notin asked'
         /\ \A i \in To(events', "person") : events'[i].type = "ok" => person'.ask \notin asked'
<1>n. /\ events \in Seq(Reports) /\ cmds \in Seq(Commands) /\ person \in Task
      /\ used.asks \in Nat /\ person.ask \in Nat /\ person.ask <= used.asks
  BY TurnControlAssumption DEF Typed, Shape, PipeShape, CountShape, Counts, TaskShape, Task
<1>p. Pledge("person", person, cmds, waiters, events)
  BY DEF Tokens, Callers, TaskOf
<1>1. CASE AnswerWrite
  <2>1. /\ person.op = "answer" /\ person' = [person EXCEPT !.op = "answering"]
        /\ UNCHANGED events
    BY <1>1 DEF AnswerWrite
  <2>2. person'.reply = person.reply /\ person.reply = "none" /\ To(events, "person") = {}
    BY SMTT(30), <1>n, <1>p, <2>1 DEF Pledge, Waiting, Task
  <2> QED  BY <2>1, <2>2
<1>2. CASE ~AnswerWrite
  <2>1. /\ person.op = "answering" /\ person'.ask = person.ask
        /\ \/ person'.reply \in {person.reply, "error"}
           \/ ReadEvent /\ Head(events).to = "person" /\ person'.reply = Head(events).type
    <3>1. \/ person' = person \/ person'.op # "answering"
          \/ person' = [person EXCEPT !.reply = "error"]
          \/ /\ ReadEvent /\ Head(events).to = "person"
             /\ person' = [person EXCEPT !.reply = Head(events).type]
      <4>1. "person" \in Callers /\ TaskOf("person") = person /\ TaskOf("person")' = person'
        BY SMTT(30) DEF Callers, TaskOf
      <4>2. Idles("person") => person'.op # "answering"
        BY <4>1 DEF Idles
      <4>3. GivesUp("person") => person' = [person EXCEPT !.reply = "error"]
        BY DEF GivesUp, PersonTimesOut
      <4>4. Writes("person") => person'.op # "answering"
        BY <1>n, <1>2 DEF Writes, StopWrite, Task
      <4>5. Hears("person") => /\ ReadEvent /\ Head(events).to = "person"
                               /\ person' = [person EXCEPT !.reply = Head(events).type]
        BY SMTT(30), <4>1 DEF Hears
      <4> QED  BY SMTT(30), <4>1, <4>2, <4>3, <4>4, <4>5, TaskMoves
    <3>2. \A x : LET z == [person EXCEPT !.reply = x] IN
            z.op = person.op /\ z.ask = person.ask /\ z.reply = x
      BY SMTT(30), <1>n DEF Task
    <3> QED  BY Zenon, <3>1, <3>2
  <2>2. /\ person.reply = "ok" => person.ask \notin asked
        /\ \A i \in To(events, "person") : events[i].type = "ok" => person.ask \notin asked
    BY SMTT(30), <2>1 DEF Held
  <2>3. person.ask \notin asked => person.ask \notin asked'
    BY SMTT(30), <1>n, AskedMoves
  <2>4. ASSUME person'.reply = "ok" PROVE person.ask \notin asked
    <3>1. CASE person.reply = "ok"
      BY <2>2, <3>1
    <3>2. CASE ReadEvent /\ Head(events).to = "person" /\ Head(events).type = "ok"
      <4>1. events # << >>
        BY <3>2 DEF ReadEvent
      <4>2. 1 \in DOMAIN events /\ Head(events) = events[1]
        BY SMTT(30), <1>n, <4>1, EventTaken
      <4>3. 1 \in To(events, "person") /\ events[1].type = "ok"
        BY SMTT(30), <3>2, <4>2 DEF To
      <4> QED  BY SMTT(30), <2>2, <4>3
    <3> QED  BY SMTT(30), <2>1, <2>4, <3>1, <3>2
  <2>5. ASSUME NEW i \in To(events', "person"), events'[i].type = "ok"
        PROVE  person.ask \notin asked'
    <3>i. i \in DOMAIN events' /\ events'[i].to = "person"
      BY SMTT(30) DEF To
    <3>1. CASE ReadEvent
      <4>1. events # << >> /\ events' = Tail(events)
        BY SMTT(30), <3>1 DEF ReadEvent
      <4>2. i + 1 \in DOMAIN events /\ events'[i] = events[i + 1]
        BY SMTT(30), <1>n, <3>i, <4>1, EventTaken
      <4> QED  BY <2>2, <2>3, <2>5, <3>i, <4>2 DEF To
    <3>2. CASE i \in DOMAIN events /\ events'[i].type = events[i].type /\ events[i].to = "person"
      BY SMTT(30), <2>2, <2>3, <2>5, <3>2 DEF To
    <3>3. CASE Answers(events'[i])
      <4>1. ASSUME TakeCancel \/ TakeAnswer, Head(cmds).to = "person"
            PROVE  1 \in To(cmds, "person") /\ Head(cmds) = cmds[1]
        <5>1. cmds # << >>
          BY SMTT(30), <4>1 DEF TakeCancel, TakeAnswer, Command
        <5>2. 1 \in DOMAIN cmds /\ Head(cmds) = cmds[1]
          BY SMTT(30), <1>n, <5>1, CommandTaken
        <5> QED  BY SMTT(30), <4>1, <5>2 DEF To
      <4>2. CASE TakeCancel /\ Head(cmds).to = "person"
        <5>1. cmds[1].type = "cancel"
          BY <4>1, <4>2 DEF TakeCancel, Command
        <5> QED  BY ZenonT(30), <1>p, <2>1, <4>1, <4>2, <5>1 DEF Pledge
      <4>3. CASE TakeAnswer /\ Head(cmds).to = "person"
        <5>1. cmds[1].ask = person.ask
          BY ZenonT(30), <1>p, <2>1, <4>1, <4>3 DEF Pledge
        <5>2. asked' = asked \ {cmds[1].ask}
          BY ZenonT(30), <4>1, <4>3 DEF TakeAnswer
        <5> QED  BY SMTT(30), <5>1, <5>2
      <4>4. "person" \notin waiters
        BY ZenonT(30), <1>p, <2>1 DEF Pledge
      <4> QED  BY SMTT(30), <2>5, <3>i, <3>3, <4>2, <4>3, <4>4 DEF Answers
    <3>4. ~ReadEvent /\ Fresh(i) => Answers(events'[i])
      BY SMTT(30), <3>i DEF Fresh
    <3> QED  BY Zenon, <3>i, <3>1, <3>2, <3>3, <3>4, EventsMove
  <2> QED  BY SMTT(30), <2>1, <2>3, <2>4, <2>5
<1> QED  BY SMTT(30), <1>1, <1>2

(* Only the reader takes an event from the worker's stdout.                    *)
LEMMA EventsStay ==
  ASSUME Typed, Next, ~ReadEvent, NEW i \in DOMAIN events
  PROVE  i \in DOMAIN events' /\ events'[i].type = events[i].type /\ events'[i].ask = events[i].ask
<1>n. /\ events \in Seq(Reports) /\ cmds \in Seq(Commands) /\ DOMAIN events = 1..Len(events)
      /\ Len(events) \in Nat
  BY SMTT(30) DEF Typed, Shape, PipeShape
<1>d. DOMAIN events' = 1..Len(events') /\ Len(events') \in Nat
  <2>1. events' \in Seq(Reports)
    BY SMTT(30), PipeStep DEF PipeShape
  <2> QED  BY <2>1
<1>l. Len(events') >= Len(events)
  <2>e. ASSUME NEW x \in Reports, Emit(<<x>>) PROVE Len(events') >= Len(events)
    <3>1. Len(events') = Len(events) + 1
      BY ZenonT(30), <1>n, <2>e, Emitted
    <3> QED  BY SMTT(30), <1>n, <3>1
  <2>1. CASE PersonTimesOut \/ WatchdogTimesOut
    <3>1. \E who \in Requesters : events' = ForgetIn(events, who)
      BY <2>1 DEF PersonTimesOut, WatchdogTimesOut, Requesters
    <3>2. Len(events') = Len(events)
      BY SMTT(30), <1>n, <3>1, ForgottenEvents
    <3> QED  BY <1>n, <3>2
  <2>2. CASE TakeSend \/ StreamDies
    <3>1. entry.turn \in Turns \cup {None}
      BY SMTT(30) DEF Typed, Shape, WorkerShape, Entries
    <3>2. Event("activity", None) \in Reports /\ Event("terminal", entry.turn) \in Reports
      BY SMTT(30), <3>1, EventMade
    <3>3. Emit(<<Event("activity", None)>>) \/ Emit(<<Event("terminal", entry.turn)>>)
      BY <2>2 DEF TakeSend, StreamDies
    <3> QED  BY SMTT(30), <2>e, <3>2, <3>3
  <2>3. CASE TakeCancel \/ TakeAnswer \/ (\E w \in Requesters : StopIsSlow(w))
    <3>1. TakeCancel \/ TakeAnswer => cmds # << >>
      BY DEF TakeCancel, TakeAnswer, Command
    <3>2. TakeCancel \/ TakeAnswer => Head(cmds).to \in Requesters
      BY SMTT(30), <1>n, <3>1, CommandTaken DEF Commands
    <3>3. \/ UNCHANGED events
          \/ \E who \in Requesters, verdict \in {"ok", "error"} : Emit(<<Reply(who, verdict)>>)
      BY SMTT(30), <2>3, <3>2 DEF TakeCancel, TakeAnswer, StopIsSlow
    <3>4. \A who \in Requesters, verdict \in {"ok", "error"} : Reply(who, verdict) \in Reports
      BY SMTT(30), ReplyMade
    <3>5. CASE UNCHANGED events
      BY <1>n, <3>5
    <3>6. CASE \E who \in Requesters, verdict \in {"ok", "error"} : Emit(<<Reply(who, verdict)>>)
      BY Zenon, <2>e, <3>4, <3>6
    <3> QED  BY SMTT(30), <3>3, <3>5, <3>6
  <2>4. CASE StopDrains
    BY SMTT(30), <1>d, <1>n, <2>4, Drained
  <2>5. CASE SdkActs \/ SdkEnds
    <3>1. Streaming /\ \E x \in {Event("activity", None), Event("terminal", Armed.turn)} :
                         Emit(Announcement \o <<x>>)
      BY SMTT(30), <2>5 DEF SdkActs, SdkEnds
    <3>2. Event("activity", None) \in Reports /\ Event("terminal", Armed.turn) \in Reports
      BY SMTT(30), <3>1, ArmedEntry, EventMade DEF Entries
    <3>3. Len(events') > Len(events)
      BY Zenon, <3>1, <3>2, Announced
    <3> QED  BY <1>d, <1>n, <3>3
  <2>6. CASE SdkAsks
    <3>1. PICK k \in {"approval", "question"} : Emit(<<Asking(used.asks + 1, k)>>)
      BY ZenonT(30), <2>6 DEF SdkAsks, Asking
    <3>2. used.asks + 1 \in 0..MaxIncidents
      BY <2>6, TurnControlAssumption DEF SdkAsks, Typed, Shape, CountShape, Counts
    <3> QED  BY SMTT(30), <2>e, <3>1, <3>2, AskMade
<2>7. CASE \/ SendBegin \/ SendRefused \/ SendWrite \/ SendFinish \/ StopBegin
            \/ StopClears \/ StopWrite \/ StopAnswered
            \/ (\E a \in Asks : AnswerBegin(a)) \/ AnswerWrite \/ AnswerAnswered
            \/ WriteFails \/ Silence \/ WatchdogTick \/ WatchdogCheck \/ WatchdogWrite
            \/ WatchdogAnswered \/ (\E t \in Turns : FallbackFires(t)) \/ ReadEof
            \/ LoseSend \/ SdkContinues \/ WorkerDies
    <3>1. UNCHANGED <<events>>
      BY Zenon, <2>7, PersonFrames, TaskFrames, ReaderFrames, WorkerFrames, SdkFrames
    <3> QED  BY <1>n, <3>1
  <2> QED  BY <2>1, <2>2, <2>3, <2>4, <2>5, <2>6, <2>7 DEF Next, Person, Tasks, Reader, Worker
<1>1. i \in DOMAIN events' /\ ~(i > Len(events))
  BY SMTT(30), <1>d, <1>l, <1>n
<1> QED  BY Zenon, <1>1, EventsMove

(* A step hides no request the worker still holds, unless it gives a turn up.  *)
LEMMA RequestsStay ==
  ASSUME Typed, Held, Next, NEW a \in asked', a \notin Visible'
  PROVE  a \in asked \ Visible \/ StopClears \/ \E t \in Turns : FallbackFires(t)
<1> SUFFICES ASSUME ~StopClears, ~\E t \in Turns : FallbackFires(t), ~(a \in asked \ Visible)
             PROVE  FALSE
  OBVIOUS
<1>n. /\ events \in Seq(Reports) /\ DOMAIN events = 1..Len(events) /\ Len(events) \in Nat
      /\ used.asks \in 0..MaxIncidents
  BY SMTT(30) DEF Typed, Shape, PipeShape, CountShape, Counts
<1>h. /\ \A b \in relay'.pending : b.id # a
      /\ \A i \in DOMAIN events' : events'[i].type = "ask" => events'[i].ask # a
  BY ZenonT(30) DEF Visible
<1>1. CASE a \notin asked
  <2>1. SdkAsks /\ a = used.asks + 1
    BY <1>1, AskedMoves
  <2>2. PICK k \in {"approval", "question"} : Emit(<<Asking(used.asks + 1, k)>>)
    BY Zenon, <2>1 DEF SdkAsks, Asking
  <2>3. used.asks + 1 \in 0..MaxIncidents
    BY SMTT(30), <1>n, <2>1, TurnControlAssumption DEF SdkAsks, Typed, Shape, CountShape, Counts
  <2>4. PICK x \in Reports : x = Asking(used.asks + 1, k) /\ x.type = "ask" /\ x.ask = used.asks + 1
    BY <2>3, AskMade
  <2>5. events' = events \o <<x>>
    BY SMTT(30), <2>2, <2>4 DEF Emit
  <2>6. Len(events) + 1 \in DOMAIN events' /\ events'[Len(events) + 1] = x
    BY SMTT(30), <1>n, <2>5
  <2> QED  BY SMTT(30), <1>h, <2>1, <2>4, <2>6
<1>2. CASE a \in asked /\ \E b \in relay.pending : b.id = a
  <2>1. PICK b \in relay.pending : b.id = a
    BY SMTT(30), <1>2
  <2>2. b \notin relay'.pending
    BY SMTT(30), <1>h, <2>1
  <2>3. CASE ReadEof
    BY SMTT(30), <1>2, <2>3 DEF ReadEof, Typed, Session
  <2>4. CASE ReadEvent /\ Head(events).type = "terminal"
    <3>1. events # << >>
      BY SMTT(30), <2>4 DEF ReadEvent
    <3>2. 1 \in DOMAIN events /\ events[1].type = "terminal"
      BY <1>n, <2>4, <3>1, EventTaken
    <3>3. a \notin PendingIds
      BY SMTT(30), <1>2, <3>2 DEF Held
    <3> QED  BY SMTT(30), <2>1, <3>3 DEF PendingIds
  <2>5. CASE /\ AnswerAnswered /\ person.op = "answering" /\ person.reply = "ok"
             /\ relay'.pending = {c \in relay.pending : c.id # person.ask}
    <3>1. person.ask \notin asked
      BY SMTT(30), <2>5 DEF Held
    <3> QED  BY <1>2, <2>1, <2>2, <2>5, <3>1
  <2> QED  BY SMTT(30), <2>1, <2>2, <2>3, <2>4, <2>5, PendingMoves
<1>3. CASE \E i \in DOMAIN events : events[i].type = "ask" /\ events[i].ask = a
  <2>1. PICK i \in DOMAIN events : events[i].type = "ask" /\ events[i].ask = a
    BY SMTT(30), <1>3
  <2>2. CASE ReadEvent
    <3>1. events # << >> /\ events' = Tail(events)
      BY SMTT(30), <2>2 DEF ReadEvent
    <3>2. CASE i = 1
      <4>1. Head(events) = events[1]
        BY <1>n, <3>1, EventTaken
      <4>2. /\ relay' = Effect(events[1]) /\ relay \in Relays /\ events[1] \in Reports
            /\ Sound(events[1], used.asks)
        BY SMTT(30), <1>n, <2>1, <2>2, <3>2, <4>1 DEF ReadEvent, Typed, Shape, RelayShape,
                                                      PipeShape
      <4>3. relay'.pending = relay.pending \cup {[id |-> events[1].ask, kind |-> events[1].kind]}
        BY ZenonT(30), <1>n, <2>1, <3>2, <4>2, EventMoves
      <4>4. [id |-> events[1].ask, kind |-> events[1].kind] \in relay'.pending
        BY SMTT(30), <4>3
      <4> QED  BY SMTT(30), <1>h, <2>1, <3>2, <4>4
    <3>3. CASE i # 1
      <4>1. i - 1 \in DOMAIN events' /\ events'[i - 1] = events[i]
        BY SMTT(30), <1>n, <2>1, <3>1, <3>3
      <4> QED  BY SMTT(30), <1>h, <2>1, <4>1
    <3> QED  BY SMTT(30), <3>2, <3>3
  <2>3. CASE ~ReadEvent
    <3>1. i \in DOMAIN events' /\ events'[i].type = events[i].type /\ events'[i].ask = events[i].ask
      BY SMTT(30), <2>1, <2>3, EventsStay
    <3> QED  BY SMTT(30), <1>h, <2>1, <3>1
  <2> QED  BY SMTT(30), <2>2, <2>3
<1>4. a \in asked => \/ \E b \in relay.pending : b.id = a
                     \/ \E i \in DOMAIN events : events[i].type = "ask" /\ events[i].ask = a
  BY SMTT(30) DEF Visible
<1> QED  BY SMTT(30), <1>1, <1>2, <1>3, <1>4

(* A request of the agent can be answered from the moment it is made, and no   *)
(* step takes it from view while the worker holds it, except where a stop      *)
(* gives the turn up, in any run: a turn ends with no request left, an answer  *)
(* that is accepted has dropped its own and no other, and the relay shows what *)
(* it reads (approvals.rs, sessions.rs, worker.mjs).                           *)
THEOREM RequestsAreNotLost == Spec => RequestsAreKept
<1>1. Init => Tokens /\ Held
  BY StoppingInit
<1>2. Typed /\ Tokens /\ Held /\ [Next]_vars => (Tokens /\ Held)'
  <2> SUFFICES ASSUME Typed, Tokens, Held, [Next]_vars PROVE (Tokens /\ Held)'
    OBVIOUS
  <2>1. CASE Next
    <3>1. Tokens'
      BY SMTT(30), <2>1, TokensStep
    <3>2. Held'
      BY Zenon, <2>1, NothingIsHidden, AnsweredIsDropped DEF Held
    <3> QED  BY <3>1, <3>2
  <2>2. CASE UNCHANGED vars
    BY Zenon, <2>2, StoppingRests
  <2> QED  BY <2>1, <2>2
<1>3. Typed /\ Held /\ [Next]_vars
        => [\A a \in asked' \ Visible' :
              a \in asked \ Visible \/ StopClears \/ \E t \in Turns : FallbackFires(t)]_vars
  BY RequestsStay
<1> QED  BY <1>1, <1>2, <1>3, TypedInit, TypedStep, PTL DEF Spec, RequestsAreKept

=============================================================================
