-------------------------- MODULE TurnControlProofs --------------------------
(* A turn is followed, ended and asked about as its worker runs it, for any    *)
(* number of prompts and incidents.                                            *)
EXTENDS TurnControl, TLAPS

Relays == [turn : Turns \cup {None}, working : BOOLEAN, timedOut : BOOLEAN,
           stopAsked : BOOLEAN, pending : SUBSET Asks]
Entries == [known : BOOLEAN, live : BOOLEAN, running : BOOLEAN, turn : Turns \cup {None},
            cancel : BOOLEAN, stop : {"none", "cancelling", "stopped"},
            stopped : Turns \cup {None}]
Counts == [sends : 0..MaxSends, incidents : 0..MaxIncidents, asks : 0..MaxIncidents, mints : Nat]
Commands == [type : {"send", "cancel", "answer"}, turn : Prompts \cup {None},
             to : Requesters, ask : 0..MaxIncidents]
Reports == [type : {"turn_started", "activity", "ask", "terminal", "ok", "error"},
            turn : Turns \cup {None}, to : Requesters, ask : 0..MaxIncidents,
            kind : {"none", "approval", "question"}]

(* An event names a turn or a request that exists.                             *)
Sound(e, n) == /\ e.type = "turn_started" => e.turn \in Minted
               /\ e.type = "ask" => e.ask \in 1..n /\ e.kind # "none"
               /\ e.to # "nobody" => e.type \in {"ok", "error"}

CountShape == used \in Counts /\ used.asks <= used.incidents
RelayShape ==
  /\ relay \in Relays /\ moved \in BOOLEAN /\ quiet \in BOOLEAN
  /\ \A a \in relay.pending : a.id <= used.asks
TaskShape ==
  /\ person \in Task /\ watchdog \in Task /\ fallbacks \subseteq Turns
  /\ person.op \in {"stop", "stopping"} => person.turn # None
  /\ person.op \in {"send", "sent"} => person.turn \in 1..used.sends
  /\ person.op # "candidate" /\ person.ask <= used.asks
  /\ watchdog.op \in {"free", "candidate", "stop", "stopping"}
  /\ watchdog.op # "free" => watchdog.turn # None
WorkerShape ==
  /\ entry \in Entries /\ waiters \subseteq Requesters /\ asked \subseteq 1..used.asks
  /\ sdk \in Seq(Prompts \cup {None}) /\ alive \in BOOLEAN /\ eof \in BOOLEAN
PipeShape ==
  /\ cmds \in Seq(Commands) /\ events \in Seq(Reports)
  /\ \A i \in DOMAIN events : Sound(events[i], used.asks)
  /\ terminated \subseteq Turns \cup {None}
Shape == CountShape /\ RelayShape /\ TaskShape /\ WorkerShape /\ PipeShape

(* The worker runs what its session was given; a stopping session is given     *)
(* nothing and asks for nothing.                                               *)
Session ==
  /\ entry.running => entry.live /\ sdk # << >>
  /\ ~entry.live => sdk = << >>
  /\ entry.stop = "cancelling" => entry.cancel /\ asked = {}
  /\ entry.stop = "stopped" => ~entry.live
  /\ waiters # {} => entry.stop = "cancelling"
  /\ ~alive => ~entry.live /\ cmds = << >> /\ waiters = {} /\ asked = {}

(* Prompts are written in the order of their ids.                              *)
Ordered ==
  /\ \A i \in DOMAIN cmds : cmds[i].type = "send" => cmds[i].turn \in 1..used.sends
  /\ \A i, j \in DOMAIN cmds :
       cmds[i].type = "send" /\ cmds[j].type = "send" /\ i < j => cmds[i].turn < cmds[j].turn
  /\ person.op = "send" =>
       /\ person.turn = used.sends
       /\ \A i \in DOMAIN cmds : cmds[i].type = "send" => cmds[i].turn < person.turn

(* Every minted id is paid for by a turn of the SDK: by one of the first n     *)
(* prompts, which the worker has taken, or by an incident.                     *)
Pays(n) ==
  /\ used.mints + Len(sdk) <= n + used.incidents + (IF entry.running THEN 1 ELSE 0)
  /\ \A i \in DOMAIN cmds : cmds[i].type = "send" => n < cmds[i].turn
  /\ person.op = "send" => n < person.turn
Budget == \E n \in 0..used.sends : Pays(n)

Typed == Shape /\ Session /\ Ordered /\ Budget

(* An id has been given to a turn: to a prompt that is handed over or given    *)
(* up, or by the worker.                                                       *)
Born(t) == \/ t \in Prompts /\ t <= used.sends /\ ~(person.op = "send" /\ t = person.turn)
           \/ t \in Minted /\ t <= MaxSends + used.mints

(* Its prompt, if it has one, is not on its way to the worker any more.        *)
Begun(t) == t = None \/ (Born(t) /\ \A i \in DOMAIN cmds : cmds[i].type = "send" => cmds[i].turn # t)

(* The worker does not run it, and never will.                                 *)
Over(t) == Begun(t) /\ ~(entry.running /\ entry.turn = t)

Ids ==
  /\ Begun(entry.turn) /\ Begun(entry.stopped)
  /\ \A i \in DOMAIN events : /\ events[i].type = "terminal" => Over(events[i].turn)
                              /\ events[i].type = "turn_started" => Begun(events[i].turn)
  /\ \A t \in terminated : Over(t)
  /\ relay.turn = None \/ Born(relay.turn)

(* A turn is announced before it ends, and once it has ended nothing makes it  *)
(* the active turn: neither an announcement nor the send that started it.      *)
Settling ==
  /\ NoResurrection
  /\ \A i \in DOMAIN events : events[i].type = "turn_started" => events[i].turn \notin terminated
  /\ \A i, j \in DOMAIN events :
       events[i].type = "turn_started" /\ events[j].type = "terminal"
         /\ events[i].turn = events[j].turn => i < j
  /\ person.op \in {"send", "sent"} /\ ~moved =>
       relay.turn = None /\ person.turn \notin terminated

-----------------------------------------------------------------------------
(* The inductive invariant behind the types holds at the start.                *)
LEMMA TypedInit == Init => Typed
<1> SUFFICES ASSUME Init PROVE Typed
  OBVIOUS
<1>1. /\ MaxSends \in Nat /\ MaxIncidents \in Nat /\ 0 \in 0..MaxSends /\ 0 \in 0..MaxIncidents
      /\ None \in Turns \cup {None}
  BY SMTT(30), TurnControlAssumption
<1>2. Idle \in Task /\ Idle.op = "free" /\ Idle.ask = 0
  BY SMTT(30), <1>1 DEF Idle, Task
<1>3. CountShape
  BY SMTT(30), <1>1 DEF Init, CountShape, Counts
<1>4. RelayShape
  BY Zenon, <1>1 DEF Init, RelayShape, Relays
<1>5. TaskShape
  BY SMTT(30), <1>1, <1>2 DEF Init, TaskShape
<1>6. WorkerShape
  <2>1. entry \in Entries
    BY <1>1 DEF Init, Entries
  <2>2. sdk \in Seq(Prompts \cup {None})
    BY DEF Init
  <2> QED  BY ZenonT(30), <2>1, <2>2 DEF Init, WorkerShape
<1>7. PipeShape
  BY SMTT(30) DEF Init, PipeShape
<1>8. Session
  BY SMTT(30) DEF Init, Session
<1>9. Ordered
  BY SMTT(30), <1>2 DEF Init, Ordered
<1>10. Budget
  <2>1. Pays(0)
    BY <1>2 DEF Init, Pays
  <2> QED  BY SMTT(30), <1>3, <2>1 DEF Init, Budget
<1> QED  BY <1>3, <1>4, <1>5, <1>6, <1>7, <1>8, <1>9, <1>10 DEF Typed, Shape

(* No turn has begun or ended yet.                                             *)
LEMMA IdsInit == Init => Ids /\ Settling
  BY DEF Init, Ids, Settling, NoResurrection, Begun, Idle

(* Between two steps nothing changes.                                          *)
LEMMA Resting ==
  ASSUME UNCHANGED vars
  PROVE  (Typed => Typed') /\ (Ids => Ids') /\ (Settling => Settling')
<1>1. UNCHANGED <<relay, moved, quiet, person, watchdog, fallbacks, cmds, events, entry, waiters,
                  asked, sdk, alive, eof, used, terminated>>
  BY Zenon DEF vars, relayVars, taskVars, workerVars, lifeVars
<1>2. Shape => Shape'
  BY <1>1 DEF Shape, CountShape, RelayShape, TaskShape, WorkerShape, PipeShape
<1>3. (Session => Session') /\ (Ordered => Ordered') /\ (Budget => Budget')
  BY <1>1 DEF Session, Ordered, Budget, Pays
<1>4. Ids => Ids'
  BY <1>1 DEF Ids, Over, Begun, Born
<1>5. Settling => Settling'
  BY <1>1 DEF Settling, NoResurrection
<1> QED  BY <1>2, <1>3, <1>4, <1>5 DEF Typed

-----------------------------------------------------------------------------
(* Queues.                                                                     *)

(* Queue z is queue s without its first k entries, and with new ones from N at *)
(* its end.                                                                    *)
Flow(s, z, k, N) ==
  \A i \in DOMAIN z : \/ i + k \in DOMAIN s /\ z[i] = s[i + k]
                      \/ i + k > Len(s) /\ z[i] \in N

(* What reading from a pipe does to it.                                        *)
LEMMA TakenFrom ==
  ASSUME NEW S, NEW s \in Seq(S), s # << >>
  PROVE  /\ Tail(s) \in Seq(S) /\ Flow(s, Tail(s), 1, {})
         /\ 1 \in DOMAIN s /\ Head(s) = s[1] /\ Len(Tail(s)) = Len(s) - 1
  BY DEF Flow

(* What writing to a pipe does to it.                                          *)
LEMMA WrittenTo ==
  ASSUME NEW S, NEW s \in Seq(S), NEW z \in Seq(S)
  PROVE  /\ s \o z \in Seq(S) /\ Len(s \o z) = Len(s) + Len(z)
         /\ \A i \in DOMAIN s : (s \o z)[i] = s[i]
         /\ \A i \in DOMAIN z : (s \o z)[Len(s) + i] = z[i]
  OBVIOUS

(* What one more command does to the worker's stdin.                           *)
LEMMA AddedTo ==
  ASSUME NEW S, NEW s \in Seq(S), NEW x \in S
  PROVE  /\ Append(s, x) \in Seq(S) /\ Flow(s, Append(s, x), 0, {x})
         /\ \A i \in DOMAIN s : i \in DOMAIN Append(s, x) /\ Append(s, x)[i] = s[i]
         /\ Len(Append(s, x)) = Len(s) + 1
  BY DEF Flow

(* A request that has timed out is still carried out, and answers nobody.      *)
LEMMA ForgottenCommands ==
  ASSUME NEW s \in Seq(Commands), NEW who \in Requesters
  PROVE  /\ ForgetIn(s, who) \in Seq(Commands) /\ DOMAIN ForgetIn(s, who) = DOMAIN s
         /\ Len(ForgetIn(s, who)) = Len(s)
         /\ \A i \in DOMAIN s :
              /\ ForgetIn(s, who)[i].type = s[i].type /\ ForgetIn(s, who)[i].turn = s[i].turn
              /\ ForgetIn(s, who)[i].ask = s[i].ask
              /\ ForgetIn(s, who)[i].to = IF s[i].to = who THEN "nobody" ELSE s[i].to
<1>1. DOMAIN s = 1..Len(s) /\ Len(s) \in Nat /\ \A i \in DOMAIN s : s[i] \in Commands
  OBVIOUS
<1>2. ASSUME NEW m \in Commands
      PROVE  /\ Forgotten(m, who) \in Commands /\ Forgotten(m, who).type = m.type
             /\ Forgotten(m, who).turn = m.turn /\ Forgotten(m, who).ask = m.ask
             /\ Forgotten(m, who).to = IF m.to = who THEN "nobody" ELSE m.to
  BY SMTT(30) DEF Forgotten, Commands, Requesters
<1>3. /\ DOMAIN ForgetIn(s, who) = DOMAIN s
      /\ \A i \in DOMAIN s : ForgetIn(s, who)[i] = Forgotten(s[i], who)
  BY DEF ForgetIn
<1>4. ForgetIn(s, who) \in Seq(Commands)
  BY <1>1, <1>2 DEF ForgetIn
<1>5. Len(ForgetIn(s, who)) = Len(s)
  BY <1>1, <1>3, <1>4
<1> QED  BY <1>1, <1>2, <1>3, <1>4, <1>5

(* The answer to a request that has timed out reaches nobody.                  *)
LEMMA ForgottenEvents ==
  ASSUME NEW s \in Seq(Reports), NEW who \in Requesters
  PROVE  /\ ForgetIn(s, who) \in Seq(Reports) /\ DOMAIN ForgetIn(s, who) = DOMAIN s
         /\ Len(ForgetIn(s, who)) = Len(s)
         /\ \A i \in DOMAIN s :
              /\ ForgetIn(s, who)[i].type = s[i].type /\ ForgetIn(s, who)[i].turn = s[i].turn
              /\ ForgetIn(s, who)[i].ask = s[i].ask /\ ForgetIn(s, who)[i].kind = s[i].kind
              /\ ForgetIn(s, who)[i].to = IF s[i].to = who THEN "nobody" ELSE s[i].to
<1>1. DOMAIN s = 1..Len(s) /\ Len(s) \in Nat /\ \A i \in DOMAIN s : s[i] \in Reports
  OBVIOUS
<1>2. ASSUME NEW m \in Reports
      PROVE  /\ Forgotten(m, who) \in Reports /\ Forgotten(m, who).type = m.type
             /\ Forgotten(m, who).turn = m.turn /\ Forgotten(m, who).ask = m.ask
             /\ Forgotten(m, who).kind = m.kind
             /\ Forgotten(m, who).to = IF m.to = who THEN "nobody" ELSE m.to
  BY SMTT(30) DEF Forgotten, Reports, Requesters
<1>3. /\ DOMAIN ForgetIn(s, who) = DOMAIN s
      /\ \A i \in DOMAIN s : ForgetIn(s, who)[i] = Forgotten(s[i], who)
  BY DEF ForgetIn
<1>4. ForgetIn(s, who) \in Seq(Reports)
  BY <1>1, <1>2 DEF ForgetIn
<1>5. Len(ForgetIn(s, who)) = Len(s)
  BY <1>1, <1>3, <1>4
<1> QED  BY <1>1, <1>2, <1>3, <1>4, <1>5


-----------------------------------------------------------------------------
(* What the steps of an operation in the session slot do not touch.            *)
LEMMA PersonFrames ==
  /\ SendBegin =>
       UNCHANGED <<relay, quiet, watchdog, fallbacks, cmds, events, entry, waiters, asked,
                   sdk, alive, eof, terminated>>
  /\ SendRefused =>
       UNCHANGED <<relay, moved, quiet, watchdog, fallbacks, cmds, events, entry, waiters,
                   asked, sdk, alive, eof, used, terminated>>
  /\ SendWrite =>
       UNCHANGED <<relay, moved, quiet, watchdog, fallbacks, events, entry, waiters,
                   asked, sdk, alive, eof, used, terminated>>
  /\ SendFinish =>
       UNCHANGED <<moved, watchdog, fallbacks, cmds, events, entry, waiters, asked, sdk,
                   alive, eof, used, terminated>>
  /\ StopBegin =>
       UNCHANGED <<relay, moved, quiet, watchdog, fallbacks, cmds, events, entry, waiters,
                   asked, sdk, alive, eof, terminated>>
  /\ StopClears =>
       UNCHANGED <<moved, quiet, person, watchdog, fallbacks, cmds, events, entry,
                   waiters, asked, sdk, alive, eof, terminated>>
  /\ StopWrite =>
       UNCHANGED <<relay, moved, quiet, watchdog, fallbacks, events, entry, waiters,
                   asked, sdk, alive, eof, used, terminated>>
  /\ StopAnswered =>
       UNCHANGED <<relay, moved, quiet, watchdog, cmds, events, entry, waiters, asked,
                   sdk, alive, eof, used, terminated>>
  /\ (\E a \in Asks : AnswerBegin(a)) =>
       UNCHANGED <<relay, moved, quiet, watchdog, fallbacks, cmds, events, entry, waiters,
                   asked, sdk, alive, eof, used, terminated>>
  /\ AnswerWrite =>
       UNCHANGED <<relay, moved, quiet, watchdog, fallbacks, events, entry, waiters,
                   asked, sdk, alive, eof, used, terminated>>
  /\ AnswerAnswered =>
       UNCHANGED <<moved, quiet, watchdog, fallbacks, cmds, events, entry, waiters, asked,
                   sdk, alive, eof, used, terminated>>
  /\ WriteFails =>
       UNCHANGED <<relay, moved, quiet, watchdog, fallbacks, cmds, events, entry, waiters,
                   asked, sdk, alive, eof, used, terminated>>
  /\ PersonTimesOut =>
       UNCHANGED <<relay, moved, quiet, watchdog, fallbacks, entry, asked, sdk, alive,
                   eof, terminated>>
  BY Zenon DEF SendBegin, relayVars, taskVars, workerVars, lifeVars, relayIdle, SendRefused,
               SendWrite, SendFinish, StopBegin, StopClears, StopWrite, StopAnswered,
               AnswerBegin, AnswerWrite, AnswerAnswered, WriteFails, PersonTimesOut

(* What the steps of a task of the relay do not touch.                         *)
LEMMA TaskFrames ==
  /\ Silence =>
       UNCHANGED <<relay, moved, person, watchdog, fallbacks, cmds, events, entry,
                   waiters, asked, sdk, alive, eof, used, terminated>>
  /\ WatchdogTick =>
       UNCHANGED <<moved, quiet, person, fallbacks, cmds, events, entry, waiters, asked,
                   sdk, alive, eof, used, terminated>>
  /\ WatchdogCheck =>
       UNCHANGED <<relay, moved, quiet, person, fallbacks, cmds, events, entry, waiters,
                   asked, sdk, alive, eof, used, terminated>>
  /\ WatchdogWrite =>
       UNCHANGED <<relay, moved, quiet, person, fallbacks, events, entry, waiters, asked,
                   sdk, alive, eof, used, terminated>>
  /\ WatchdogAnswered =>
       UNCHANGED <<moved, quiet, person, cmds, events, entry, waiters, asked, sdk, alive,
                   eof, used, terminated>>
  /\ WatchdogTimesOut =>
       UNCHANGED <<relay, moved, quiet, person, fallbacks, entry, asked, sdk, alive, eof,
                   terminated>>
  /\ (\E t \in Turns : FallbackFires(t)) =>
       UNCHANGED <<person, watchdog, cmds, events, entry, waiters, asked, sdk, alive, eof,
                   used, terminated>>
  BY Zenon DEF Silence, relayVars, taskVars, workerVars, lifeVars, relayIdle, WatchdogTick,
               WatchdogCheck, WatchdogWrite, WatchdogAnswered, WatchdogTimesOut, FallbackFires

(* What the steps of the reader do not touch.                                  *)
LEMMA ReaderFrames ==
  /\ ReadEvent =>
       UNCHANGED <<fallbacks, cmds, entry, waiters, asked, sdk, alive, eof, used>>
  /\ ReadEof =>
       UNCHANGED <<person, watchdog, fallbacks, cmds, events, entry, waiters, asked, sdk,
                   alive, used, terminated>>
  BY Zenon DEF ReadEvent, relayVars, taskVars, workerVars, lifeVars, relayIdle, ReadEof

(* What the steps of the command loop of the worker do not touch.              *)
LEMMA WorkerFrames ==
  /\ TakeSend =>
       UNCHANGED <<relay, moved, quiet, person, watchdog, fallbacks, waiters, asked,
                   alive, eof, used, terminated>>
  /\ LoseSend =>
       UNCHANGED <<relay, moved, quiet, person, watchdog, fallbacks, events, waiters,
                   asked, sdk, alive, eof, terminated>>
  /\ TakeCancel =>
       UNCHANGED <<relay, moved, quiet, person, watchdog, fallbacks, sdk, alive, eof,
                   used, terminated>>
  /\ StopDrains =>
       UNCHANGED <<relay, moved, quiet, person, watchdog, fallbacks, cmds, asked, alive,
                   eof, used, terminated>>
  /\ TakeAnswer =>
       UNCHANGED <<relay, moved, quiet, person, watchdog, fallbacks, entry, waiters, sdk,
                   alive, eof, used, terminated>>
  /\ (\E w \in Requesters : StopIsSlow(w)) =>
       UNCHANGED <<relay, moved, quiet, person, watchdog, fallbacks, cmds, entry, asked,
                   sdk, alive, eof, terminated>>
  BY Zenon DEF TakeSend, relayVars, taskVars, workerVars, lifeVars, relayIdle, LoseSend,
               TakeCancel, StopDrains, TakeAnswer, StopIsSlow

(* What the steps of the SDK do not touch.                                     *)
LEMMA SdkFrames ==
  /\ SdkActs =>
       UNCHANGED <<relay, moved, quiet, person, watchdog, fallbacks, cmds, waiters, asked,
                   sdk, alive, eof, terminated>>
  /\ SdkEnds =>
       UNCHANGED <<relay, moved, quiet, person, watchdog, fallbacks, cmds, waiters, asked,
                   alive, eof, terminated>>
  /\ SdkContinues =>
       UNCHANGED <<relay, moved, quiet, person, watchdog, fallbacks, cmds, events, entry,
                   waiters, asked, alive, eof, terminated>>
  /\ SdkAsks =>
       UNCHANGED <<relay, moved, quiet, person, watchdog, fallbacks, cmds, entry, waiters,
                   sdk, alive, eof, terminated>>
  /\ StreamDies =>
       UNCHANGED <<relay, moved, quiet, person, watchdog, fallbacks, cmds, waiters, alive,
                   eof, terminated>>
  /\ WorkerDies =>
       UNCHANGED <<relay, moved, quiet, person, watchdog, fallbacks, events, eof,
                   terminated>>
  BY Zenon DEF SdkActs, relayVars, taskVars, workerVars, lifeVars, relayIdle, SdkEnds,
               SdkContinues, SdkAsks, StreamDies, WorkerDies

(* How often things happened only grows, and within the bounds.                *)
LEMMA CountStep ==
  ASSUME Typed, Next
  PROVE  /\ CountShape'
         /\ used.sends <= used'.sends /\ used.asks <= used'.asks
         /\ used.incidents <= used'.incidents /\ used.mints <= used'.mints
<1> /\ used \in Counts /\ used.asks <= used.incidents
    /\ MaxSends \in Nat /\ MaxIncidents \in Nat
  BY TurnControlAssumption DEF Typed, Shape, CountShape
<1>i. ASSUME Incident \/ UNCHANGED used
      PROVE  /\ CountShape'
             /\ used.sends <= used'.sends /\ used.asks <= used'.asks
             /\ used.incidents <= used'.incidents /\ used.mints <= used'.mints
  BY <1>i DEF Incident, CountShape, Counts
<1>1. CASE SendBegin
  BY <1>1 DEF SendBegin, CountShape, Counts
<1>2. CASE SdkAsks
  <2>1. /\ used' = [used EXCEPT !.incidents = @ + 1, !.asks = @ + 1]
        /\ used.incidents < MaxIncidents
    BY <1>2 DEF SdkAsks
  <2>2. used.asks + 1 <= MaxIncidents
    BY <2>1 DEF Counts
  <2>3. /\ used'.sends = used.sends /\ used'.mints = used.mints
        /\ used'.incidents = used.incidents + 1 /\ used'.asks = used.asks + 1
    BY <2>1 DEF Counts
  <2>4. used.asks + 1 \in 0..MaxIncidents /\ used.incidents + 1 \in 0..MaxIncidents
    BY <2>1, <2>2 DEF Counts
  <2>5. \A n, m \in 0..MaxIncidents : [used EXCEPT !.incidents = n, !.asks = m] \in Counts
    BY Zenon DEF Counts
  <2>6. used' \in Counts
    BY Zenon, <2>1, <2>4, <2>5
  <2> QED  BY <2>3, <2>6 DEF CountShape, Counts
<1>3. CASE SdkActs \/ SdkEnds
  <2>1. PICK n \in {used.mints, used.mints + 1} : used' = [used EXCEPT !.mints = n]
    BY <1>3 DEF SdkActs, SdkEnds, CountMint
  <2> QED  BY <2>1 DEF CountShape, Counts
<1>4. CASE \/ StopBegin \/ StopClears \/ PersonTimesOut \/ WatchdogTimesOut \/ LoseSend
           \/ (\E w \in Requesters : StopIsSlow(w)) \/ SdkContinues \/ StreamDies \/ WorkerDies
  <2>1. Incident \/ UNCHANGED used
    BY Zenon, <1>4 DEF StopBegin, StopClears, PersonTimesOut, WatchdogTimesOut, TimeIsUp,
                       LoseSend, StopIsSlow, SdkContinues, StreamDies, WorkerDies
  <2> QED  BY <1>i, <2>1
<1>5. CASE \/ SendRefused \/ SendWrite \/ SendFinish \/ StopWrite \/ StopAnswered
           \/ (\E a \in Asks : AnswerBegin(a)) \/ AnswerWrite \/ AnswerAnswered \/ WriteFails
           \/ Silence \/ WatchdogTick \/ WatchdogCheck \/ WatchdogWrite \/ WatchdogAnswered
           \/ (\E t \in Turns : FallbackFires(t)) \/ ReadEvent \/ ReadEof \/ TakeSend
           \/ TakeCancel \/ StopDrains \/ TakeAnswer
  <2>1. UNCHANGED used
    BY Zenon, <1>5, PersonFrames, TaskFrames, ReaderFrames, WorkerFrames
  <2> QED  BY SMTT(30), <1>i, <2>1
<1> QED  BY <1>1, <1>2, <1>3, <1>4, <1>5 DEF Next, Person, Tasks, Reader, Worker

(* What the operations on the runtime do to the turn and to the requests.      *)
LEMMA RelayMoves ==
  ASSUME NEW r \in Relays, NEW t \in Turns \cup {None}
  PROVE  /\ WithTurn(r, t) \in Relays /\ WithTurn(r, t).turn = t
         /\ WithTurn(r, t).pending = r.pending
         /\ Touched(r) \in Relays /\ Touched(r).turn = r.turn /\ Touched(r).pending = r.pending
         /\ Active(r) \in Relays /\ Active(r).turn = r.turn /\ Active(r).pending = r.pending
         /\ Settled(r) \in Relays /\ Settled(r).turn = r.turn /\ Settled(r).pending = {}
         /\ Ended(r) \in Relays /\ Ended(r).turn = None /\ Ended(r).pending = {}
<1>1. /\ WithTurn(r, t) \in Relays /\ WithTurn(r, t).turn = t
      /\ WithTurn(r, t).pending = r.pending
  BY Zenon DEF WithTurn, Relays
<1>2. Touched(r) \in Relays /\ Touched(r).turn = r.turn /\ Touched(r).pending = r.pending
  BY Zenon DEF Touched, Relays
<1>3. Active(r) \in Relays /\ Active(r).turn = r.turn /\ Active(r).pending = r.pending
  BY Zenon DEF Active, Relays
<1>4. \A q \in Relays : Settled(q) \in Relays /\ Settled(q).turn = q.turn /\ Settled(q).pending = {}
  BY Zenon DEF Settled, Relays
<1>5. WithTurn(r, None) \in Relays /\ WithTurn(r, None).turn = None
  BY Zenon DEF WithTurn, Relays
<1> QED  BY <1>1, <1>2, <1>3, <1>4, <1>5 DEF Ended

(* What a read event does to them.                                             *)
LEMMA EventMoves ==
  ASSUME relay \in Relays, NEW e \in Reports, NEW n \in 0..MaxIncidents, Sound(e, n)
  PROVE  /\ Effect(e) \in Relays
         /\ e.type = "turn_started" => Effect(e).turn = e.turn /\ Effect(e).pending = relay.pending
         /\ e.type = "ask" => /\ Effect(e).turn = relay.turn
                              /\ Effect(e).pending = relay.pending \cup {[id |-> e.ask, kind |-> e.kind]}
         /\ e.type = "terminal" => IF CompletionMatches(e.turn)
                                   THEN Effect(e).turn = None /\ Effect(e).pending = {}
                                   ELSE Effect(e) = relay
         /\ e.type \in {"activity", "ok", "error"} =>
              Effect(e).turn = relay.turn /\ Effect(e).pending = relay.pending
<1>1. CASE e.type = "turn_started"
  <2>1. e.turn \in Turns \cup {None}
    BY DEF Reports
  <2> QED  BY <1>1, <2>1, RelayMoves DEF Effect
<1>2. CASE e.type = "ask"
  <2> DEFINE a == [id |-> e.ask, kind |-> e.kind]
             r == [relay EXCEPT !.pending = @ \cup {a}]
  <2>1. a \in Asks
    BY <1>2, TurnControlAssumption DEF Sound, Reports, Asks
  <2>2. r \in Relays /\ r.turn = relay.turn /\ r.pending = relay.pending \cup {a}
    BY <2>1 DEF Relays
  <2>3. Effect(e) = Active(Touched(r))
    BY <1>2 DEF Effect
  <2> HIDE DEF r
  <2> QED  BY <1>2, <2>2, <2>3, RelayMoves
<1>3. CASE e.type = "terminal"
  BY <1>3, RelayMoves DEF Effect
<1>4. CASE e.type = "activity"
  BY <1>4, RelayMoves DEF Effect
<1>5. CASE e.type \in {"ok", "error"}
  BY <1>5 DEF Effect
<1> QED  BY <1>1, <1>2, <1>3, <1>4, <1>5 DEF Reports

(* The runtime keeps its shape.                                                *)
LEMMA RelayStep ==
  ASSUME Typed, Next
  PROVE  RelayShape'
<1>n. /\ relay \in Relays /\ moved \in BOOLEAN /\ quiet \in BOOLEAN
      /\ \A a \in relay.pending : a.id <= used.asks
      /\ person \in Task /\ watchdog \in Task
      /\ used.asks \in 0..MaxIncidents /\ used'.asks \in 0..MaxIncidents
      /\ used.asks <= used'.asks
  BY CountStep DEF Typed, Shape, CountShape, RelayShape, TaskShape, Counts
<1>k. ASSUME relay' \in Relays, relay'.pending \subseteq relay.pending,
             moved' \in BOOLEAN, quiet' \in BOOLEAN
      PROVE  RelayShape'
  <2>1. \A a \in relay'.pending : a.id <= used'.asks
    BY <1>n, <1>k DEF Relays, Asks
  <2> QED  BY <1>k, <2>1 DEF RelayShape
<1>1. CASE SendBegin
  BY Zenon, <1>1, <1>n, <1>k DEF SendBegin
<1>2. CASE SendFinish
  <2>1. person.turn \in Turns \cup {None}
    BY <1>n DEF Task
  <2>2. /\ relay' \in {Active(WithTurn(relay, person.turn)), Touched(relay)}
        /\ moved' = moved /\ quiet' = FALSE
    BY <1>2 DEF SendFinish
  <2>3. LET r == WithTurn(relay, person.turn) IN r \in Relays /\ r.pending = relay.pending
    BY <1>n, <2>1, RelayMoves
  <2>4. relay' \in Relays /\ relay'.pending = relay.pending
    BY <1>n, <2>2, <2>3, RelayMoves
  <2> QED  BY Zenon, <1>n, <1>k, <2>2, <2>4
<1>3. CASE StopClears
  BY <1>3, <1>n, <1>k, RelayMoves DEF StopClears
<1>4. CASE AnswerAnswered
  <2>1. /\ Answered(relay, person.ask) \in Relays
        /\ Answered(relay, person.ask).pending \subseteq relay.pending
    BY Zenon, <1>n DEF Answered, Relays
  <2> QED  BY SMTT(30), <1>4, <1>n, <1>k, <2>1 DEF AnswerAnswered
<1>5. CASE Silence
  BY <1>5, <1>n, <1>k DEF Silence
<1>6. CASE WatchdogTick
  <2>1. Expired(relay) \in Relays /\ Expired(relay).pending = relay.pending
    BY Zenon, <1>n DEF Expired, Relays
  <2> QED  BY <1>6, <1>n, <1>k, <2>1 DEF WatchdogTick
<1>7. CASE WatchdogAnswered
  <2>1. \A b \in BOOLEAN : LET r == [relay EXCEPT !.stopAsked = b]
                           IN  r \in Relays /\ r.pending = relay.pending
    BY <1>n DEF Relays
  <2>2. relay.stopAsked \/ (relay.timedOut /\ relay.turn = watchdog.turn) \in BOOLEAN
    BY <1>n DEF Relays
  <2> QED  BY Zenon, <1>7, <1>n, <1>k, <2>1, <2>2 DEF WatchdogAnswered
<1>8. CASE (\E t \in Turns : FallbackFires(t)) \/ ReadEof
  BY Zenon, <1>8, <1>n, <1>k, RelayMoves DEF FallbackFires, ReadEof, relayVars
<1>9. CASE ReadEvent
  <2> DEFINE e == events[1]
  <2>1. e \in Reports /\ Sound(e, used.asks) /\ e = Head(events)
    BY <1>9 DEF ReadEvent, Typed, Shape, PipeShape
  <2>2. /\ relay' = Effect(e) /\ moved' \in BOOLEAN /\ quiet' \in BOOLEAN
        /\ used' = used
    BY <1>9, <1>n, <2>1 DEF ReadEvent
  <2> HIDE DEF e
  <2>3. CASE e.type = "ask"
    <3>1. relay' \in Relays /\ relay'.pending = relay.pending \cup {[id |-> e.ask, kind |-> e.kind]}
      BY Zenon, <1>n, <2>1, <2>2, <2>3, EventMoves
    <3>2. e.ask <= used.asks
      BY <2>1, <2>3 DEF Sound
    <3>3. \A a \in relay'.pending : a.id <= used'.asks
      BY <1>n, <2>2, <3>1, <3>2
    <3> QED  BY <2>2, <3>1, <3>3 DEF RelayShape
  <2>4. CASE e.type # "ask"
    <3>1. relay' \in Relays /\ relay'.pending \subseteq relay.pending
      BY Zenon, <1>n, <2>1, <2>2, <2>4, EventMoves DEF Reports
    <3> QED  BY <1>k, <2>2, <3>1
  <2> QED  BY <2>3, <2>4
<1>10. CASE \/ SendRefused \/ SendWrite \/ StopBegin \/ StopWrite \/ StopAnswered
            \/ (\E a \in Asks : AnswerBegin(a)) \/ AnswerWrite \/ WriteFails
            \/ PersonTimesOut \/ WatchdogCheck \/ WatchdogWrite \/ WatchdogTimesOut
            \/ TakeSend \/ LoseSend \/ TakeCancel \/ StopDrains \/ TakeAnswer
            \/ (\E w \in Requesters : StopIsSlow(w)) \/ SdkActs \/ SdkEnds
            \/ SdkContinues \/ SdkAsks \/ StreamDies \/ WorkerDies
  <2>1. UNCHANGED <<relay, moved, quiet>>
    BY Zenon, <1>10, PersonFrames, TaskFrames, ReaderFrames, WorkerFrames, SdkFrames
  <2> QED  BY <1>n, <1>k, <2>1
<1> QED  BY <1>1, <1>2, <1>3, <1>4, <1>5, <1>6, <1>7, <1>8, <1>9, <1>10
            DEF Next, Person, Tasks, Reader, Worker

(* The tasks of the relay keep their shape.                                    *)
LEMMA TaskStep ==
  ASSUME Typed, Next
  PROVE  TaskShape'
<1>n. /\ TaskShape /\ relay \in Relays
      /\ used.asks \in 0..MaxIncidents /\ used'.asks \in 0..MaxIncidents
      /\ used.asks <= used'.asks
      /\ used.sends \in 0..MaxSends /\ used'.sends \in 0..MaxSends
      /\ used.sends <= used'.sends
      /\ MaxSends \in Nat /\ MaxIncidents \in Nat
  BY CountStep, TurnControlAssumption DEF Typed, Shape, CountShape, RelayShape, Counts
<1>i. /\ Idle \in Task /\ Idle.op = "free" /\ Idle.ask = 0 /\ Idle.turn = None
      /\ \A t \in Turns : [Idle EXCEPT !.op = "stop", !.turn = t] \in Task
      /\ \A t \in Turns : [Idle EXCEPT !.op = "candidate", !.turn = t] \in Task
      /\ \A t \in Turns : [Idle EXCEPT !.op = "send", !.turn = t] \in Task
      /\ \A a \in Asks : [Idle EXCEPT !.op = "answer", !.ask = a.id, !.kind = a.kind] \in Task
  <2>1. None \in Turns \cup {None} /\ 0 \in 0..MaxIncidents
    BY <1>n
  <2>2. Idle \in Task
    BY <2>1 DEF Idle, Task
  <2>3. Idle.op = "free" /\ Idle.ask = 0 /\ Idle.turn = None
    BY DEF Idle
  <2>4. \A t \in Turns, l \in {"send", "stop", "candidate"} : [Idle EXCEPT !.op = l, !.turn = t] \in Task
    BY Zenon, <2>2 DEF Task
  <2>5. \A n \in 0..MaxIncidents, k \in {"approval", "question"} :
          [Idle EXCEPT !.op = "answer", !.ask = n, !.kind = k] \in Task
    BY Zenon, <2>2 DEF Task
  <2>6. \A a \in Asks : a.id \in 0..MaxIncidents /\ a.kind \in {"approval", "question"}
    BY <1>n DEF Asks
  <2> QED  BY Zenon, <2>2, <2>3, <2>4, <2>5, <2>6
<1>j. Idle \in Task /\ Idle.op = "free" /\ Idle.ask = 0 /\ 0 <= used'.asks
  <2>1. None \in Turns \cup {None} /\ 0 \in 0..MaxIncidents /\ 0 <= used'.asks
    BY <1>n
  <2> QED  BY <2>1 DEF Idle, Task
<1>p. ASSUME UNCHANGED <<watchdog, fallbacks>>, person' \in Task,
             person'.op \in {"stop", "stopping"} => person'.turn # None,
             person'.op \in {"send", "sent"} => person'.turn \in 1..used'.sends,
             person'.op # "candidate", person'.ask <= used'.asks
      PROVE  TaskShape'
  BY <1>n, <1>p DEF TaskShape
<1>w. ASSUME UNCHANGED person, watchdog' \in Task, fallbacks' \subseteq Turns,
             watchdog'.op \in {"free", "candidate", "stop", "stopping"},
             watchdog'.op # "free" => watchdog'.turn # None
      PROVE  TaskShape'
  <2>1. /\ person.ask <= used'.asks
        /\ person.op \in {"send", "sent"} => person.turn \in 1..used'.sends
    BY <1>n DEF TaskShape, Task
  <2> QED  BY <1>n, <1>w, <2>1 DEF TaskShape
<1>1. CASE SendBegin
  <2>1. /\ person' = [Idle EXCEPT !.op = "send", !.turn = used.sends + 1]
        /\ UNCHANGED <<watchdog, fallbacks>> /\ used'.sends = used.sends + 1
    BY <1>1 DEF SendBegin, Typed, Shape, CountShape, Counts
  <2>2. used.sends + 1 \in Turns
    BY SMTT(30), <1>n, <2>1 DEF Turns, Prompts
  <2>3. person'.op = "send" /\ person'.turn = used.sends + 1 /\ person'.ask = 0
    BY SMTT(30), <2>1 DEF Idle
  <2>4. person' \in Task
    BY Zenon, <1>i, <2>1, <2>2
  <2> QED  BY <1>n, <1>p, <2>1, <2>3, <2>4
<1>2. CASE SendRefused \/ SendFinish \/ AnswerAnswered \/ WriteFails
  <2>1. person' = Idle /\ UNCHANGED <<watchdog, fallbacks>>
    BY <1>2 DEF SendRefused, SendFinish, AnswerAnswered, WriteFails
  <2> QED  BY <1>j, <1>p, <2>1
<1>3. CASE SendWrite \/ StopWrite \/ AnswerWrite
  <2>1. /\ UNCHANGED <<watchdog, fallbacks>>
        /\ \/ person.op = "send" /\ person' = [person EXCEPT !.op = "sent"]
           \/ person.op = "stop" /\ person' = [person EXCEPT !.op = "stopping"]
           \/ person.op = "answer" /\ person' = [person EXCEPT !.op = "answering"]
    BY <1>3 DEF SendWrite, StopWrite, AnswerWrite
  <2>2. /\ person' \in Task /\ person'.turn = person.turn /\ person'.ask = person.ask
        /\ \/ person.op = "send" /\ person'.op = "sent"
           \/ person.op = "stop" /\ person'.op = "stopping"
           \/ person.op = "answer" /\ person'.op = "answering"
    BY <1>n, <2>1 DEF TaskShape, Task
  <2>3. person.ask <= used'.asks
    BY <1>n DEF TaskShape, Task
  <2>4. person'.op = "sent" => person'.turn \in 1..used'.sends
    BY <1>n, <2>2 DEF TaskShape
  <2>5. /\ person'.op # "candidate" /\ (person'.op \in {"stop", "stopping"} => person'.turn # None)
        /\ person'.op \in {"send", "sent"} => person'.turn \in 1..used'.sends
    BY <1>n, <2>2, <2>4 DEF TaskShape
  <2> QED  BY <1>p, <2>1, <2>2, <2>3, <2>5
<1>4. CASE StopBegin
  <2>1. /\ person' = [Idle EXCEPT !.op = "stop", !.turn = relay.turn]
        /\ relay.turn # None /\ UNCHANGED <<watchdog, fallbacks>>
    BY <1>4 DEF StopBegin
  <2>2. relay.turn \in Turns
    BY <1>n, <2>1 DEF Relays
  <2>3. person'.op = "stop" /\ person'.turn = relay.turn /\ person'.ask = 0
    BY SMTT(30), <2>1 DEF Idle
  <2>4. person' \in Task
    BY Zenon, <1>i, <2>1, <2>2
  <2> QED  BY <1>n, <1>p, <2>1, <2>3, <2>4
<1>5. CASE StopAnswered
  <2>1. /\ person' = Idle /\ UNCHANGED watchdog
        /\ fallbacks' \subseteq fallbacks \cup {person.turn} /\ person.op = "stopping"
    BY <1>5 DEF StopAnswered
  <2>2. person.turn \in Turns
    BY <1>n, <2>1 DEF TaskShape, Task
  <2> QED  BY <1>n, <1>j, <2>1, <2>2 DEF TaskShape
<1>6. CASE \E a \in Asks : AnswerBegin(a)
  <2>1. PICK a \in Asks : AnswerBegin(a)
    BY <1>6
  <2>2. /\ person' = [Idle EXCEPT !.op = "answer", !.ask = a.id, !.kind = a.kind]
        /\ a \in relay.pending /\ UNCHANGED <<watchdog, fallbacks, used>>
    BY SMTT(30), <2>1 DEF AnswerBegin
  <2>3. person'.op = "answer" /\ person'.ask = a.id
    BY SMTT(30), <2>2 DEF Idle
  <2>4. person' \in Task
    BY Zenon, <1>i, <2>2
  <2>5. a.id <= used'.asks
    BY <2>2 DEF Typed, Shape, RelayShape
  <2> QED  BY <1>p, <2>2, <2>3, <2>4, <2>5
<1>7. CASE PersonTimesOut
  <2>1. /\ person' = [person EXCEPT !.reply = "error"] /\ UNCHANGED <<watchdog, fallbacks>>
        /\ person.op \in {"stopping", "answering"}
    BY <1>7 DEF PersonTimesOut, Waiting
  <2>2. /\ person' \in Task /\ person'.op = person.op /\ person'.turn = person.turn
        /\ person'.ask = person.ask
    BY <1>n, <2>1 DEF TaskShape, Task
  <2>3. person.ask <= used'.asks
    BY <1>n DEF TaskShape, Task
  <2>4. person'.op \in {"stop", "stopping"} => person'.turn # None
    BY <1>n, <2>2 DEF TaskShape
  <2> QED  BY <1>p, <2>1, <2>2, <2>3, <2>4
<1>8. CASE WatchdogTick
  <2>1. /\ watchdog' = [Idle EXCEPT !.op = "candidate", !.turn = relay.turn]
        /\ relay.turn # None /\ UNCHANGED <<person, fallbacks>>
    BY <1>8 DEF WatchdogTick
  <2>2. relay.turn \in Turns
    BY SMTT(30), <1>n, <2>1 DEF Relays
  <2>3. watchdog'.op = "candidate" /\ watchdog'.turn = relay.turn
    BY SMTT(30), <2>1 DEF Idle
  <2>4. watchdog' \in Task
    BY Zenon, <1>i, <2>1, <2>2
  <2> QED  BY <1>n, <1>w, <2>1, <2>3, <2>4 DEF TaskShape
<1>9. CASE WatchdogCheck \/ WatchdogWrite \/ WatchdogTimesOut
  <2>1. /\ UNCHANGED <<person, fallbacks>> /\ watchdog.op # "free"
        /\ \/ watchdog' = Idle
           \/ \E l \in {"stop", "stopping"} : watchdog' = [watchdog EXCEPT !.op = l]
           \/ watchdog' = [watchdog EXCEPT !.reply = "error"]
    BY <1>9 DEF WatchdogCheck, WatchdogWrite, WatchdogTimesOut, Waiting
  <2>2. CASE watchdog' = Idle
    BY <1>n, <1>j, <1>w, <2>1, <2>2 DEF TaskShape
  <2>3. CASE \/ \E l \in {"stop", "stopping"} : watchdog' = [watchdog EXCEPT !.op = l]
             \/ watchdog' = [watchdog EXCEPT !.reply = "error"]
    <3>1. /\ watchdog' \in Task /\ watchdog'.turn = watchdog.turn
          /\ watchdog'.op \in {"stop", "stopping", watchdog.op}
      BY <1>n, <2>3 DEF TaskShape, Task
    <3> QED  BY <1>n, <1>w, <2>1, <3>1 DEF TaskShape
  <2> QED  BY <2>1, <2>2, <2>3
<1>10. CASE WatchdogAnswered
  <2>1. /\ watchdog' = Idle /\ UNCHANGED person
        /\ fallbacks' \subseteq fallbacks \cup {watchdog.turn} /\ watchdog.op = "stopping"
    BY <1>10 DEF WatchdogAnswered
  <2>2. watchdog.turn \in Turns
    BY <1>n, <2>1 DEF TaskShape, Task
  <2> QED  BY <1>n, <1>j, <1>w, <2>1, <2>2 DEF TaskShape
<1>11. CASE \E t \in Turns : FallbackFires(t)
  <2>1. fallbacks' \subseteq fallbacks /\ UNCHANGED <<person, watchdog>>
    BY <1>11 DEF FallbackFires
  <2> QED  BY <1>n, <1>w, <2>1 DEF TaskShape
<1>12. CASE ReadEvent
  <2> DEFINE e == events[1]
  <2>1. e \in Reports /\ e = Head(events) /\ (e.to # "nobody" => e.type \in {"ok", "error"})
    BY <1>12 DEF ReadEvent, Typed, Shape, PipeShape, Sound
  <2>2. /\ person' = Delivered(person, "person", e)
        /\ watchdog' = Delivered(watchdog, "watchdog", e) /\ UNCHANGED <<fallbacks, used>>
    BY <1>12, <2>1 DEF ReadEvent
  <2> HIDE DEF e
  <2>3. ASSUME NEW task \in Task, NEW who \in {"person", "watchdog"}
        PROVE  LET z == Delivered(task, who, e)
               IN  z \in Task /\ z.op = task.op /\ z.turn = task.turn /\ z.ask = task.ask
    BY <2>1 DEF Delivered, Task
  <2>4. /\ person' \in Task /\ person'.op = person.op /\ person'.turn = person.turn
        /\ person'.ask = person.ask
        /\ watchdog' \in Task /\ watchdog'.op = watchdog.op /\ watchdog'.turn = watchdog.turn
    BY <1>n, <2>2, <2>3 DEF TaskShape
  <2> QED  BY <1>n, <2>2, <2>4 DEF TaskShape
<1>13. CASE \/ StopClears \/ Silence \/ ReadEof \/ TakeSend \/ LoseSend \/ TakeCancel
            \/ StopDrains \/ TakeAnswer \/ (\E w \in Requesters : StopIsSlow(w))
            \/ SdkActs \/ SdkEnds \/ SdkContinues \/ SdkAsks \/ StreamDies \/ WorkerDies
  <2>1. UNCHANGED <<person, watchdog, fallbacks>>
    BY Zenon, <1>13, PersonFrames, TaskFrames, ReaderFrames, WorkerFrames, SdkFrames
  <2> QED  BY <1>n, <1>w, <2>1 DEF TaskShape
<1> QED  BY <1>1, <1>2, <1>3, <1>4, <1>5, <1>6, <1>7, <1>8, <1>9, <1>10, <1>11, <1>12, <1>13
            DEF Next, Person, Tasks, Reader, Worker

(* The worker never runs out of ids: what it announces is a turn of the SDK.   *)
LEMMA MintInRange ==
  ASSUME Typed, Streaming, Arms
  PROVE  MaxSends + used.mints + 1 \in Minted
<1>1. PICK n \in 0..used.sends : Pays(n)
  BY DEF Typed, Budget
<1>3. used.mints + Len(sdk) <= n + used.incidents + 0
  BY <1>1 DEF Pays, Arms
<1>2. Len(sdk) >= 1
  BY DEF Streaming, Typed, Shape, WorkerShape
<1> QED  BY SMTT(30), <1>1, <1>2, <1>3, TurnControlAssumption
            DEF Typed, Shape, CountShape, Counts, Minted, WorkerShape

(* The worker keeps its shape.                                                 *)
LEMMA WorkerStep ==
  ASSUME Typed, Next
  PROVE  WorkerShape'
<1>n. /\ WorkerShape /\ cmds \in Seq(Commands)
      /\ used.asks \in 0..MaxIncidents /\ used'.asks \in 0..MaxIncidents
      /\ used.asks <= used'.asks
  BY CountStep DEF Typed, Shape, CountShape, Counts, PipeShape
<1>k. ASSUME entry' \in Entries, waiters' \subseteq Requesters,
             asked' \subseteq asked \/ asked' \subseteq 1..used'.asks,
             sdk' \in Seq(Prompts \cup {None}), UNCHANGED <<alive, eof>>
      PROVE  WorkerShape'
  <2>1. 1..used.asks \subseteq 1..used'.asks
    BY <1>n
  <2>2. asked \subseteq 1..used'.asks
    BY <1>n, <2>1 DEF WorkerShape
  <2>3. asked' \subseteq 1..used'.asks
    BY Zenon, <1>k, <2>2
  <2> QED  BY <1>n, <1>k, <2>3 DEF WorkerShape
<1>1. CASE PersonTimesOut \/ WatchdogTimesOut \/ (\E w \in Requesters : StopIsSlow(w))
  <2>1. /\ waiters' \subseteq waiters /\ UNCHANGED <<entry, asked, sdk, alive, eof>>
    BY Zenon, <1>1 DEF PersonTimesOut, WatchdogTimesOut, StopIsSlow, lifeVars, relayIdle
  <2> QED  BY <1>n, <1>k, <2>1 DEF WorkerShape
<1>2. CASE ReadEof
  BY <1>2, <1>n DEF ReadEof, WorkerShape, workerVars
<1>3. CASE TakeSend
  <2> DEFINE t == cmds[1].turn
  <2>1. cmds[1] \in Commands /\ cmds[1].type = "send" /\ Head(cmds) = cmds[1] /\ 1 \in DOMAIN cmds
    BY <1>3, <1>n, TakenFrom DEF TakeSend, Command
  <2>2. t \in Prompts
    BY <1>n, <2>1, TurnControlAssumption DEF Typed, Ordered, Shape, CountShape, Counts, Prompts,
                                             Commands
  <2>3. /\ entry' = [entry EXCEPT !.known = TRUE, !.live = TRUE, !.running = TRUE, !.turn = t,
                                  !.cancel = FALSE, !.stop = "none"]
        /\ sdk' \in {Append(sdk, t), <<t>>} /\ UNCHANGED <<waiters, asked, alive, eof>>
    BY <1>3, <2>1 DEF TakeSend, Accepts, lifeVars, relayIdle
  <2> HIDE DEF t
  <2>4. sdk' \in Seq(Prompts \cup {None})
    <3>1. sdk \in Seq(Prompts \cup {None}) /\ t \in Prompts \cup {None}
      BY <1>n, <2>2 DEF WorkerShape
    <3>2. Append(sdk, t) \in Seq(Prompts \cup {None}) /\ <<t>> \in Seq(Prompts \cup {None})
      BY <3>1
    <3> QED  BY Zenon, <2>3, <3>2
  <2>5. entry' \in Entries
    <3>1. \A u \in Turns \cup {None} :
            [entry EXCEPT !.known = TRUE, !.live = TRUE, !.running = TRUE, !.turn = u,
                          !.cancel = FALSE, !.stop = "none"] \in Entries
      BY Zenon, <1>n DEF WorkerShape, Entries
    <3> QED  BY Zenon, <2>2, <2>3, <3>1 DEF Turns
  <2> QED  BY <1>n, <1>k, <2>3, <2>4, <2>5 DEF WorkerShape
<1>4. CASE LoseSend
  <2>1. /\ \/ UNCHANGED entry
           \/ entry' = [entry EXCEPT !.known = TRUE, !.cancel = FALSE, !.stop = "none"]
        /\ UNCHANGED <<waiters, asked, sdk, alive, eof>>
    BY <1>4 DEF LoseSend, lifeVars, relayIdle
  <2>2. entry' \in Entries
    BY Zenon, <1>n, <2>1 DEF WorkerShape, Entries
  <2> QED  BY <1>n, <1>k, <2>1, <2>2 DEF WorkerShape
<1>5. CASE TakeCancel
  <2>1. cmds[1] \in Commands /\ Head(cmds) = cmds[1]
    BY <1>5, <1>n, TakenFrom DEF TakeCancel, Command
  <2>2. /\ \/ UNCHANGED entry
           \/ entry' = [entry EXCEPT !.stop = "cancelling", !.cancel = TRUE,
                                        !.stopped = entry.turn]
        /\ waiters' \subseteq waiters \cup {cmds[1].to}
        /\ asked' \subseteq asked /\ UNCHANGED <<sdk, alive, eof>>
    BY <1>5, <2>1 DEF TakeCancel, lifeVars, relayIdle
  <2>3. entry' \in Entries
    BY Zenon, <1>n, <2>2 DEF WorkerShape, Entries
  <2>4. waiters' \subseteq Requesters
    BY <1>n, <2>1, <2>2 DEF WorkerShape, Commands
  <2> QED  BY <1>n, <1>k, <2>2, <2>3, <2>4 DEF WorkerShape
<1>6. CASE StopDrains
  <2>1. /\ entry' = [entry EXCEPT !.stop = "stopped", !.live = FALSE, !.running = FALSE]
        /\ sdk' = << >> /\ waiters' = {} /\ UNCHANGED <<asked, alive, eof>>
    BY <1>6 DEF StopDrains, lifeVars, relayIdle
  <2>2. entry' \in Entries
    BY Zenon, <1>n, <2>1 DEF WorkerShape, Entries
  <2> QED  BY <1>n, <1>k, <2>1, <2>2
<1>7. CASE TakeAnswer
  <2>1. asked' \subseteq asked /\ UNCHANGED <<entry, waiters, sdk, alive, eof>>
    BY <1>7 DEF TakeAnswer, lifeVars, relayIdle
  <2> QED  BY <1>n, <1>k, <2>1 DEF WorkerShape
<1>8. CASE SdkActs \/ SdkEnds
  <2>1. /\ Streaming /\ UNCHANGED <<waiters, asked, alive, eof>>
        /\ entry' = Armed \/ entry' = [Armed EXCEPT !.running = FALSE, !.turn = None]
        /\ sdk' = sdk \/ sdk' = Tail(sdk)
    BY <1>8 DEF SdkActs, SdkEnds, lifeVars, relayIdle
  <2>2. Armed \in Entries
    <3>1. CASE Arms
      <4>1. MaxSends + used.mints + 1 \in Turns \cup {None}
        BY <2>1, <3>1, MintInRange DEF Turns
      <4> QED  BY Zenon, <1>n, <3>1, <4>1 DEF Armed, WorkerShape, Entries
    <3>2. CASE ~Arms
      BY <1>n, <3>2 DEF Armed, WorkerShape
    <3> QED  BY <3>1, <3>2
  <2>3. entry' \in Entries
    <3>1. \A e \in Entries : [e EXCEPT !.running = FALSE, !.turn = None] \in Entries
      BY Zenon DEF Entries
    <3> QED  BY Zenon, <2>1, <2>2, <3>1
  <2>4. sdk' \in Seq(Prompts \cup {None})
    <3>1. sdk \in Seq(Prompts \cup {None}) /\ sdk # << >>
      BY <1>n, <2>1 DEF WorkerShape, Streaming
    <3>2. Tail(sdk) \in Seq(Prompts \cup {None})
      BY <3>1
    <3> QED  BY <2>1, <3>1, <3>2
  <2> QED  BY <1>n, <1>k, <2>1, <2>3, <2>4 DEF WorkerShape
<1>9. CASE SdkContinues
  <2>1. sdk' = Append(sdk, None) /\ UNCHANGED <<entry, waiters, asked, alive, eof>>
    BY <1>9 DEF SdkContinues, lifeVars, relayIdle
  <2>2. sdk' \in Seq(Prompts \cup {None})
    BY <1>n, <2>1 DEF WorkerShape
  <2> QED  BY <1>n, <1>k, <2>1, <2>2 DEF WorkerShape
<1>10. CASE SdkAsks
  <2>1. /\ asked' = asked \cup {used.asks + 1} /\ UNCHANGED <<entry, waiters, sdk, alive, eof>>
        /\ used' = [used EXCEPT !.incidents = @ + 1, !.asks = @ + 1]
    BY <1>10 DEF SdkAsks, lifeVars, relayIdle
  <2>2. used'.asks = used.asks + 1
    BY <2>1 DEF Typed, Shape, CountShape, Counts
  <2>3. asked' \subseteq 1..used'.asks
    BY <1>n, <2>1, <2>2 DEF WorkerShape
  <2> QED  BY <1>n, <1>k, <2>1, <2>3 DEF WorkerShape
<1>11. CASE StreamDies
  <2>1. /\ entry' = [entry EXCEPT !.live = FALSE, !.running = FALSE, !.turn = None]
        /\ sdk' = << >> /\ asked' = {} /\ UNCHANGED <<waiters, alive, eof>>
    BY <1>11 DEF StreamDies, lifeVars, relayIdle
  <2>2. entry' \in Entries
    BY Zenon, <1>n, <2>1 DEF WorkerShape, Entries
  <2> QED  BY <1>n, <1>k, <2>1, <2>2 DEF WorkerShape
<1>12. CASE WorkerDies
  <2>1. /\ entry' = [entry EXCEPT !.live = FALSE, !.running = FALSE]
        /\ sdk' = << >> /\ asked' = {} /\ waiters' = {} /\ alive' = FALSE /\ UNCHANGED eof
    BY <1>12 DEF WorkerDies
  <2>2. entry' \in Entries
    BY Zenon, <1>n, <2>1 DEF WorkerShape, Entries
  <2>3. sdk' \in Seq(Prompts \cup {None})
    BY <2>1
  <2> QED  BY Zenon, <1>n, <2>1, <2>2, <2>3 DEF WorkerShape
<1>13. CASE \/ SendBegin \/ SendRefused \/ SendWrite \/ SendFinish \/ StopBegin
            \/ StopClears \/ StopWrite \/ StopAnswered
            \/ (\E a \in Asks : AnswerBegin(a)) \/ AnswerWrite \/ AnswerAnswered
            \/ WriteFails \/ Silence \/ WatchdogTick \/ WatchdogCheck \/ WatchdogWrite
            \/ WatchdogAnswered \/ (\E t \in Turns : FallbackFires(t)) \/ ReadEvent
  <2>1. UNCHANGED <<entry, waiters, asked, sdk, alive, eof>>
    BY Zenon, <1>13, PersonFrames, TaskFrames, ReaderFrames, WorkerFrames, SdkFrames
  <2> QED  BY <1>n, <1>k, <2>1 DEF WorkerShape
<1> QED  BY <1>1, <1>2, <1>3, <1>4, <1>5, <1>6, <1>7, <1>8, <1>9, <1>10, <1>11, <1>12, <1>13
            DEF Next, Person, Tasks, Reader, Worker

(* The request number n of the agent, and the command that hands over a prompt. *)
Asking(n, k) == [Event("ask", None) EXCEPT !.ask = n, !.kind = k]
Prompt(t) == [type |-> "send", turn |-> t, to |-> "nobody", ask |-> 0]

(* An event names its turn and answers nobody.                                 *)
LEMMA EventMade ==
  ASSUME NEW type \in {"turn_started", "activity", "ask", "terminal", "ok", "error"},
         NEW t \in Turns \cup {None}
  PROVE  /\ Event(type, t) \in Reports /\ Event(type, t).type = type
         /\ Event(type, t).turn = t /\ Event(type, t).to = "nobody"
<1>1. 0 \in 0..MaxIncidents /\ "nobody" \in Requesters
  BY TurnControlAssumption DEF Requesters
<1> QED  BY <1>1 DEF Event, Reports

(* An answer goes to the one who asked.                                        *)
LEMMA ReplyMade ==
  ASSUME NEW who \in Requesters, NEW verdict \in {"ok", "error"}
  PROVE  /\ Reply(who, verdict) \in Reports /\ Reply(who, verdict).type = verdict
         /\ Reply(who, verdict).to = who
<1> DEFINE e == Event(verdict, None)
<1>1. e \in Reports /\ e.type = verdict
  BY EventMade
<1> HIDE DEF e
<1>2. [e EXCEPT !.to = who] \in Reports
  BY <1>1 DEF Reports
<1> QED  BY <1>1, <1>2 DEF Reply, e, Event

(* A request of the agent names what it asks.                                  *)
LEMMA AskMade ==
  ASSUME NEW n \in 0..MaxIncidents, NEW k \in {"approval", "question"}
  PROVE  /\ Asking(n, k) \in Reports /\ Asking(n, k).type = "ask" /\ Asking(n, k).ask = n
         /\ Asking(n, k).kind = k /\ Asking(n, k).to = "nobody"
<1>1. Event("ask", None) \in Reports
  BY EventMade
<1>2. \A e \in Reports : [e EXCEPT !.ask = n, !.kind = k] \in Reports
  BY Zenon DEF Reports
<1>3. Asking(n, k) \in Reports
  BY Zenon, <1>1, <1>2 DEF Asking
<1> QED  BY <1>3 DEF Asking, Event

(* A prompt is handed over under its id.                                       *)
LEMMA PromptMade ==
  ASSUME NEW t \in Prompts
  PROVE  /\ Prompt(t) \in Commands /\ Prompt(t).type = "send" /\ Prompt(t).turn = t
         /\ Prompt(t).to = "nobody"
<1>1. 0 \in 0..MaxIncidents /\ "nobody" \in Requesters
  BY TurnControlAssumption DEF Requesters
<1> QED  BY <1>1 DEF Commands, Prompt

(* A cancel and an answer name who awaits the outcome.                         *)
LEMMA RequestMade ==
  ASSUME NEW type \in {"cancel", "answer"}, NEW who \in Requesters, NEW n \in 0..MaxIncidents
  PROVE  /\ Request(type, who, n) \in Commands /\ Request(type, who, n).type = type
         /\ Request(type, who, n).to = who /\ Request(type, who, n).ask = n
  BY DEF Commands, Request

(* What one more event does to the worker's stdout.                            *)
LEMMA Emitted ==
  ASSUME events \in Seq(Reports), NEW x \in Reports, Emit(<<x>>)
  PROVE  /\ events' \in Seq(Reports) /\ Flow(events, events', 0, {x})
         /\ Len(events') = Len(events) + 1
  BY DEF Emit, Flow

(* The first event of a turn nobody armed comes behind its announcement.       *)
LEMMA Announced ==
  ASSUME Typed, Streaming, NEW x \in Reports, Emit(Announcement \o <<x>>)
  PROVE  /\ events' \in Seq(Reports) /\ Len(events') > Len(events)
         /\ \A i \in DOMAIN events' :
              \/ i \in DOMAIN events /\ events'[i] = events[i]
              \/ /\ i > Len(events) /\ i < Len(events') /\ Arms
                 /\ events'[i] = Event("turn_started", MaxSends + used.mints + 1)
              \/ i > Len(events) /\ i = Len(events') /\ events'[i] = x
<1>0. events \in Seq(Reports) /\ events' = events \o (Announcement \o <<x>>)
  BY DEF Typed, Shape, PipeShape, Emit
<1>1. CASE Arms
  <2> DEFINE y == Event("turn_started", MaxSends + used.mints + 1)
  <2>1. y \in Reports
    <3>1. MaxSends + used.mints + 1 \in Turns \cup {None}
      BY <1>1, MintInRange DEF Turns
    <3> QED  BY <3>1, EventMade
  <2>2. Announcement = <<y>>
    BY <1>1 DEF Announcement, Armed, Typed, Shape, WorkerShape, Entries
  <2> HIDE DEF y
  <2>3. events' = events \o <<y, x>>
    BY <1>0, <2>2
  <2>4. /\ events' \in Seq(Reports) /\ Len(events') = Len(events) + 2
        /\ \A i \in DOMAIN events : events'[i] = events[i]
        /\ events'[Len(events) + 1] = y /\ events'[Len(events) + 2] = x
    <3> DEFINE z == <<y, x>>
    <3>1. z \in Seq(Reports) /\ Len(z) = 2 /\ z[1] = y /\ z[2] = x /\ 1 \in DOMAIN z /\ 2 \in DOMAIN z
      BY <2>1
    <3>2. events' = events \o z
      BY <2>3
    <3> HIDE DEF z
    <3>3. /\ events' \in Seq(Reports) /\ Len(events') = Len(events) + Len(z)
          /\ \A i \in DOMAIN events : events'[i] = events[i]
          /\ \A i \in DOMAIN z : events'[Len(events) + i] = z[i]
      <4>1. events \in Seq(Reports)
        BY <1>0
      <4>2. z \in Seq(Reports)
        BY <3>1
      <4>3. /\ events \o z \in Seq(Reports) /\ Len(events \o z) = Len(events) + Len(z)
            /\ \A i \in DOMAIN events : (events \o z)[i] = events[i]
            /\ \A i \in DOMAIN z : (events \o z)[Len(events) + i] = z[i]
        BY <4>1, <4>2, WrittenTo
      <4> QED  BY <3>2, <4>3
    <3> QED  BY <3>1, <3>3
  <2>5. ASSUME NEW i \in DOMAIN events', i \notin DOMAIN events
        PROVE  i = Len(events) + 1 \/ i = Len(events) + 2
    BY <1>0, <2>4, <2>5
  <2>6. Len(events) \in Nat
    BY <1>0
  <2> QED  BY <1>1, <2>4, <2>5, <2>6 DEF y
<1>2. CASE ~Arms
  <2>1. events' = events \o <<x>>
    BY <1>0, <1>2 DEF Announcement
  <2>2. /\ events' \in Seq(Reports) /\ Len(events') = Len(events) + 1
        /\ \A i \in DOMAIN events : events'[i] = events[i]
        /\ events'[Len(events) + 1] = x
    <3> DEFINE z == <<x>>
    <3>1. z \in Seq(Reports) /\ Len(z) = 1 /\ z[1] = x /\ 1 \in DOMAIN z
      OBVIOUS
    <3>2. events' = events \o z
      BY <2>1
    <3> HIDE DEF z
    <3>3. /\ events' \in Seq(Reports) /\ Len(events') = Len(events) + Len(z)
          /\ \A i \in DOMAIN events : events'[i] = events[i]
          /\ \A i \in DOMAIN z : events'[Len(events) + i] = z[i]
      <4>1. events \in Seq(Reports)
        BY <1>0
      <4>2. z \in Seq(Reports)
        BY <3>1
      <4>3. /\ events \o z \in Seq(Reports) /\ Len(events \o z) = Len(events) + Len(z)
            /\ \A i \in DOMAIN events : (events \o z)[i] = events[i]
            /\ \A i \in DOMAIN z : (events \o z)[Len(events) + i] = z[i]
        BY <4>1, <4>2, WrittenTo
      <4> QED  BY <3>2, <4>3
    <3> QED  BY <3>1, <3>3
  <2>3. ASSUME NEW i \in DOMAIN events', i \notin DOMAIN events
        PROVE  i = Len(events) + 1
    BY <1>0, <2>2, <2>3
  <2>4. Len(events) \in Nat
    BY <1>0
  <2> QED  BY <2>2, <2>3, <2>4
<1> QED  BY <1>1, <1>2

(* The stream of a stopped session has drained: its terminal, then one answer  *)
(* to each cancel.                                                             *)
LEMMA Drained ==
  ASSUME Typed, StopDrains
  PROVE  /\ events' \in Seq(Reports) /\ Len(events') > Len(events)
         /\ \A i \in DOMAIN events' :
              \/ i \in DOMAIN events /\ events'[i] = events[i]
              \/ i = Len(events) + 1 /\ events'[i] = Event("terminal", entry.stopped)
              \/ i > Len(events) + 1 /\ \E w \in waiters : events'[i] = Reply(w, "ok")
         /\ \A i, j \in DOMAIN events' :
              i > Len(events) + 1 /\ j > Len(events) + 1 /\ events'[i] = events'[j] => i = j
<1>1. events \in Seq(Reports) /\ waiters \subseteq Requesters /\ entry.stopped \in Turns \cup {None}
  BY DEF Typed, Shape, PipeShape, WorkerShape, Entries
<1>0. PICK n \in 0..2 : \E order \in Bijection(1..n, waiters) :
        Emit(<<Event("terminal", entry.stopped)>> \o [i \in 1..n |-> Reply(order[i], "ok")])
  BY Zenon DEF StopDrains
<1>2. PICK order \in Bijection(1..n, waiters) :
        Emit(<<Event("terminal", entry.stopped)>> \o [i \in 1..n |-> Reply(order[i], "ok")])
  BY Zenon, <1>0
<1> DEFINE z == [i \in 1..n |-> Reply(order[i], "ok")]
           x == Event("terminal", entry.stopped)
<1>3. /\ order \in [1..n -> waiters] /\ \A i, j \in 1..n : order[i] = order[j] => i = j
  BY <1>2 DEF Bijection, Injection, IsInjective
<1>4. /\ \A w \in waiters : Reply(w, "ok") \in Reports
      /\ \A w, v \in waiters : Reply(w, "ok") = Reply(v, "ok") => w = v
  <2>1. \A w \in waiters : Reply(w, "ok") \in Reports /\ Reply(w, "ok").to = w
    BY <1>1, ReplyMade
  <2> QED  BY Zenon, <2>1
<1>5. /\ z \in Seq(Reports) /\ \A i \in DOMAIN z : \E w \in waiters : z[i] = Reply(w, "ok")
      /\ \A i, j \in DOMAIN z : z[i] = z[j] => i = j
  <2>1. DOMAIN z = 1..n /\ \A i \in 1..n : z[i] = Reply(order[i], "ok") /\ order[i] \in waiters
    BY <1>3
  <2>2. z \in Seq(Reports)
    BY <1>3, <1>4
  <2> HIDE DEF z
  <2>3. \A i, j \in DOMAIN z : z[i] = z[j] => i = j
    BY Zenon, <1>3, <1>4, <2>1
  <2> QED  BY <2>1, <2>2, <2>3
<1>6. x \in Reports
  BY <1>1, EventMade
<1>7. events' = events \o (<<x>> \o z)
  BY <1>2 DEF Emit
<1> HIDE DEF x, z
<1>8. events' \in Seq(Reports) /\ Len(events') > Len(events)
  BY <1>1, <1>5, <1>6, <1>7
<1>9. ASSUME NEW i \in DOMAIN events'
      PROVE  \/ i \in DOMAIN events /\ events'[i] = events[i]
             \/ i = Len(events) + 1 /\ events'[i] = x
             \/ /\ i > Len(events) + 1 /\ i - Len(events) - 1 \in DOMAIN z
                /\ events'[i] = z[i - Len(events) - 1]
  <2>1. z \in Seq(Reports) /\ events \in Seq(Reports)
    BY <1>1, <1>5
  <2> QED  BY <1>6, <1>7, <2>1
<1>10. ASSUME NEW i \in DOMAIN events', NEW j \in DOMAIN events', i > Len(events) + 1,
              j > Len(events) + 1, events'[i] = events'[j]
       PROVE  i = j
  <2>1. i \in Nat /\ j \in Nat /\ Len(events) \in Nat /\ DOMAIN events = 1..Len(events)
    BY <1>1, <1>8
  <2>2. /\ i - Len(events) - 1 \in DOMAIN z /\ events'[i] = z[i - Len(events) - 1]
        /\ j - Len(events) - 1 \in DOMAIN z /\ events'[j] = z[j - Len(events) - 1]
    BY <1>9, <1>10, <2>1
  <2>3. i - Len(events) - 1 = j - Len(events) - 1
    BY Zenon, <1>5, <1>10, <2>2
  <2> QED  BY <2>1, <2>3
<1>11. \A i \in DOMAIN events' :
         \/ i \in DOMAIN events /\ events'[i] = events[i]
         \/ i = Len(events) + 1 /\ events'[i] = x
         \/ i > Len(events) + 1 /\ \E w \in waiters : events'[i] = Reply(w, "ok")
  BY <1>5, <1>9
<1> QED  BY <1>8, <1>10, <1>11 DEF x

(* The worker takes the first command.                                         *)
LEMMA CommandTaken ==
  ASSUME cmds \in Seq(Commands), cmds # << >>
  PROVE  /\ Tail(cmds) \in Seq(Commands) /\ Len(Tail(cmds)) = Len(cmds) - 1
         /\ 1 \in DOMAIN cmds /\ Head(cmds) = cmds[1] /\ cmds[1] \in Commands
         /\ \A i \in DOMAIN Tail(cmds) : i + 1 \in DOMAIN cmds /\ Tail(cmds)[i] = cmds[i + 1]
  OBVIOUS

(* The reader takes the first event.                                           *)
LEMMA EventTaken ==
  ASSUME events \in Seq(Reports), events # << >>
  PROVE  /\ Tail(events) \in Seq(Reports) /\ Len(Tail(events)) = Len(events) - 1
         /\ 1 \in DOMAIN events /\ Head(events) = events[1] /\ events[1] \in Reports
         /\ \A i \in DOMAIN Tail(events) : i + 1 \in DOMAIN events /\ Tail(events)[i] = events[i + 1]
  OBVIOUS

(* What is on its way keeps its shape.                                         *)
LEMMA PipeStep ==
  ASSUME Typed, Next
  PROVE  PipeShape'
<1>n. /\ cmds \in Seq(Commands) /\ events \in Seq(Reports)
      /\ \A i \in DOMAIN events : Sound(events[i], used.asks)
      /\ terminated \subseteq Turns \cup {None}
      /\ entry \in Entries /\ waiters \subseteq Requesters
      /\ used.asks \in 0..MaxIncidents /\ used'.asks \in 0..MaxIncidents
      /\ used.asks <= used'.asks /\ MaxIncidents \in Nat
  BY SMTT(30), CountStep, TurnControlAssumption DEF Typed, Shape, CountShape, Counts, PipeShape,
                                                    WorkerShape
<1>s. \A e : Sound(e, used.asks) => Sound(e, used'.asks)
  BY <1>n DEF Sound
<1>o. \A i \in DOMAIN events : Sound(events[i], used'.asks)
  BY <1>n, <1>s
<1>c. ASSUME cmds' \in Seq(Commands), UNCHANGED <<events, terminated>>
      PROVE  PipeShape'
  BY <1>n, <1>o, <1>c DEF PipeShape
<1>e. ASSUME cmds' \in Seq(Commands), UNCHANGED terminated, NEW x \in Reports, Emit(<<x>>),
             Sound(x, used'.asks)
      PROVE  PipeShape'
  <2>1. events' \in Seq(Reports) /\ Flow(events, events', 0, {x})
    BY Zenon, <1>n, <1>e, Emitted
  <2>2. \A i \in DOMAIN events' : (i \in DOMAIN events /\ events'[i] = events[i]) \/ events'[i] = x
    BY <1>n, <2>1 DEF Flow
  <2>3. \A i \in DOMAIN events' : Sound(events'[i], used'.asks)
    BY Zenon, <1>o, <1>e, <2>2
  <2> QED  BY SMTT(30), <1>n, <1>e, <2>1, <2>3 DEF PipeShape
<1>f. ASSUME NEW who \in Requesters, cmds' = ForgetIn(cmds, who), events' = ForgetIn(events, who),
             UNCHANGED terminated
      PROVE  PipeShape'
  <2>1. cmds' \in Seq(Commands)
    BY <1>n, <1>f, ForgottenCommands
  <2>2. /\ events' \in Seq(Reports) /\ DOMAIN events' = DOMAIN events
        /\ \A i \in DOMAIN events :
             /\ events'[i].type = events[i].type /\ events'[i].turn = events[i].turn
             /\ events'[i].ask = events[i].ask /\ events'[i].kind = events[i].kind
             /\ events'[i].to = IF events[i].to = who THEN "nobody" ELSE events[i].to
    BY SMTT(30), <1>n, <1>f, ForgottenEvents
  <2>3. \A i \in DOMAIN events' : Sound(events'[i], used'.asks)
    BY SMTT(30), <1>o, <2>2 DEF Sound
  <2> QED  BY SMTT(30), <1>n, <1>f, <2>1, <2>2, <2>3 DEF PipeShape
<1>t. ASSUME cmds # << >>
      PROVE  Tail(cmds) \in Seq(Commands) /\ Head(cmds) = cmds[1] /\ cmds[1] \in Commands
  BY SMTT(30), <1>n, <1>t
<1>1. CASE SendWrite
  <2> DEFINE c == Prompt(person.turn)
  <2>1. cmds' = Append(cmds, c) /\ UNCHANGED <<events, terminated>> /\ person.op = "send"
    BY <1>1 DEF SendWrite, Prompt
  <2>2. person.turn \in Prompts
    BY SMTT(30), <2>1, TurnControlAssumption DEF Typed, Shape, CountShape, Counts, TaskShape,
                                                 Prompts
  <2>3. c \in Commands
    BY <2>2, PromptMade
  <2> HIDE DEF c
  <2> QED  BY <1>n, <1>c, <2>1, <2>3, AddedTo
<1>2. CASE StopWrite \/ AnswerWrite \/ WatchdogWrite
  <2>1. /\ UNCHANGED <<events, terminated>>
        /\ \/ UNCHANGED cmds
           \/ cmds' = Append(cmds, Request("cancel", "person", 0))
           \/ cmds' = Append(cmds, Request("cancel", "watchdog", 0))
           \/ cmds' = Append(cmds, Request("answer", "person", person.ask))
    BY <1>2 DEF StopWrite, AnswerWrite, WatchdogWrite
  <2>2. person.ask \in 0..MaxIncidents /\ 0 \in 0..MaxIncidents
    BY <1>n DEF Typed, Shape, TaskShape, Task
  <2>3. /\ Request("cancel", "person", 0) \in Commands
        /\ Request("cancel", "watchdog", 0) \in Commands
        /\ Request("answer", "person", person.ask) \in Commands
    BY <2>2, RequestMade DEF Requesters
  <2> QED  BY Zenon, <1>n, <1>c, <2>1, <2>3, AddedTo
<1>3. CASE PersonTimesOut
  BY <1>3, <1>f DEF PersonTimesOut, Requesters
<1>4. CASE WatchdogTimesOut
  BY <1>4, <1>f DEF WatchdogTimesOut, Requesters
<1>5. CASE ReadEvent
  <2>1. /\ events # << >> /\ events' = Tail(events) /\ UNCHANGED cmds
        /\ terminated' \subseteq terminated \cup {Head(events).turn}
    BY <1>5 DEF ReadEvent
  <2>2. /\ events' \in Seq(Reports) /\ Head(events) \in Reports
        /\ \A i \in DOMAIN events' : i + 1 \in DOMAIN events /\ events'[i] = events[i + 1]
    BY <1>n, <2>1
  <2>3. \A i \in DOMAIN events' : Sound(events'[i], used'.asks)
    BY Zenon, <1>o, <2>2
  <2> QED  BY <1>n, <2>1, <2>2, <2>3 DEF PipeShape, Reports
<1>6. CASE TakeSend
  <2>1. cmds # << >> /\ cmds' = Tail(cmds) /\ Emit(<<Event("activity", None)>>) /\ UNCHANGED terminated
    BY <1>6 DEF TakeSend, Command, relayIdle
  <2>2. Event("activity", None) \in Reports /\ Sound(Event("activity", None), used'.asks)
    BY EventMade DEF Sound
  <2> QED  BY <1>t, <1>e, <2>1, <2>2
<1>7. CASE LoseSend
  <2>1. cmds # << >> /\ cmds' = Tail(cmds) /\ UNCHANGED <<events, terminated>>
    BY <1>7 DEF LoseSend, Command, relayIdle
  <2> QED  BY <1>t, <1>c, <2>1
<1>r. \A who \in Requesters, verdict \in {"ok", "error"} :
        Reply(who, verdict) \in Reports /\ Sound(Reply(who, verdict), used'.asks)
  BY ReplyMade DEF Sound
<1>8. CASE TakeCancel
  <2>1. /\ cmds # << >> /\ cmds' = Tail(cmds) /\ UNCHANGED terminated
        /\ \/ UNCHANGED events
           \/ Emit(<<Reply(Head(cmds).to, "error")>>)
           \/ Emit(<<Reply(Head(cmds).to, "ok")>>)
    BY <1>8 DEF TakeCancel, Command, relayIdle
  <2>2. Head(cmds).to \in Requesters
    BY SMTT(30), <1>t, <2>1 DEF Commands
  <2> QED  BY <1>t, <1>c, <1>e, <1>r, <2>1, <2>2
<1>9. CASE StopDrains
  <2>1. UNCHANGED <<cmds, terminated>>
    BY <1>9 DEF StopDrains, relayIdle
  <2>2. entry.stopped \in Turns \cup {None}
    BY <1>n DEF Entries
  <2>3. Sound(Event("terminal", entry.stopped), used'.asks)
    BY <2>2, EventMade DEF Sound
  <2>4. /\ events' \in Seq(Reports)
        /\ \A i \in DOMAIN events' :
             \/ i \in DOMAIN events /\ events'[i] = events[i]
             \/ events'[i] = Event("terminal", entry.stopped)
             \/ \E w \in waiters : events'[i] = Reply(w, "ok")
    BY Zenon, <1>9, Drained
  <2>5. \A i \in DOMAIN events' : Sound(events'[i], used'.asks)
    BY Zenon, <1>n, <1>o, <1>r, <2>3, <2>4
  <2> QED  BY <1>n, <2>1, <2>4, <2>5 DEF PipeShape
<1>10. CASE TakeAnswer
  <2>1. /\ cmds # << >> /\ cmds' = Tail(cmds) /\ UNCHANGED terminated
        /\ \E verdict \in {"ok", "error"} : Emit(<<Reply(Head(cmds).to, verdict)>>)
    BY <1>10 DEF TakeAnswer, Command, relayIdle
  <2>2. Head(cmds).to \in Requesters
    BY <1>t, <2>1 DEF Commands
  <2> QED  BY <1>t, <1>e, <1>r, <2>1, <2>2
<1>11. CASE \E w \in Requesters : StopIsSlow(w)
  <2>1. PICK w \in Requesters : StopIsSlow(w)
    BY <1>11
  <2>2. UNCHANGED <<cmds, terminated>> /\ Emit(<<Reply(w, "error")>>)
    BY <2>1 DEF StopIsSlow, relayIdle
  <2> QED  BY SMTT(30), <1>n, <1>e, <1>r, <2>2
<1>12. CASE SdkActs \/ SdkEnds
  <2>1. PICK x \in {Event("activity", None), Event("terminal", Armed.turn)} :
          Emit(Announcement \o <<x>>)
    BY <1>12 DEF SdkActs, SdkEnds
  <2>2. Streaming /\ UNCHANGED <<cmds, terminated>>
    BY <1>12 DEF SdkActs, SdkEnds, relayIdle
  <2>3. Armed.turn \in Turns \cup {None} /\ (Arms => MaxSends + used.mints + 1 \in Minted)
    <3>1. Arms => MaxSends + used.mints + 1 \in Minted
      BY <2>2, MintInRange
    <3> QED  BY <1>n, <3>1 DEF Armed, Entries, Turns
  <2>4. x \in Reports /\ Sound(x, used'.asks)
    BY <2>3, EventMade DEF Sound
  <2>5. /\ events' \in Seq(Reports)
        /\ \A i \in DOMAIN events' :
             \/ i \in DOMAIN events /\ events'[i] = events[i]
             \/ Arms /\ events'[i] = Event("turn_started", MaxSends + used.mints + 1)
             \/ events'[i] = x
    BY Zenon, <2>1, <2>2, <2>4, Announced
  <2>6. Arms => Sound(Event("turn_started", MaxSends + used.mints + 1), used'.asks)
    BY <2>3, EventMade DEF Sound, Turns
  <2>7. \A i \in DOMAIN events' : Sound(events'[i], used'.asks)
    BY Zenon, <1>o, <2>4, <2>5, <2>6
  <2> QED  BY <1>n, <2>2, <2>5, <2>7 DEF PipeShape
<1>13. CASE SdkAsks
  <2>1. PICK k \in {"approval", "question"} :
          Emit(<<Asking(used.asks + 1, k)>>)
    BY Zenon, <1>13 DEF SdkAsks, Asking
  <2>2. UNCHANGED <<cmds, terminated>> /\ used'.asks = used.asks + 1
    BY <1>13 DEF SdkAsks, relayIdle, Typed, Shape, CountShape, Counts
  <2> DEFINE x == Asking(used.asks + 1, k)
  <2>3. x \in Reports /\ x.type = "ask" /\ x.ask = used.asks + 1 /\ x.kind = k /\ x.to = "nobody"
    BY <1>n, <2>2, AskMade
  <2> HIDE DEF x
  <2>4. Sound(x, used'.asks)
    BY <1>n, <2>2, <2>3 DEF Sound
  <2> QED  BY <1>n, <1>e, <2>1, <2>2, <2>3, <2>4 DEF x
<1>14. CASE StreamDies
  <2>1. UNCHANGED <<cmds, terminated>> /\ Emit(<<Event("terminal", entry.turn)>>)
    BY <1>14 DEF StreamDies, relayIdle
  <2>2. entry.turn \in Turns \cup {None}
    BY <1>n DEF Entries
  <2>3. Event("terminal", entry.turn) \in Reports /\ Sound(Event("terminal", entry.turn), used'.asks)
    BY <2>2, EventMade DEF Sound
  <2> QED  BY <1>n, <1>e, <2>1, <2>3
<1>15. CASE WorkerDies
  <2>1. cmds' = << >> /\ UNCHANGED <<events, terminated>>
    BY <1>15 DEF WorkerDies
  <2> QED  BY <1>c, <2>1
<1>16. CASE \/ SendBegin \/ SendRefused \/ SendFinish \/ StopBegin \/ StopClears
            \/ StopAnswered \/ (\E a \in Asks : AnswerBegin(a)) \/ AnswerAnswered
            \/ WriteFails \/ Silence \/ WatchdogTick \/ WatchdogCheck
            \/ WatchdogAnswered \/ (\E t \in Turns : FallbackFires(t)) \/ ReadEof
            \/ SdkContinues
  <2>1. UNCHANGED <<cmds, events, terminated>>
    BY Zenon, <1>16, PersonFrames, TaskFrames, ReaderFrames, WorkerFrames, SdkFrames
  <2> QED  BY <1>n, <1>c, <2>1
<1> QED  BY <1>1, <1>2, <1>3, <1>4, <1>5, <1>6, <1>7, <1>8, <1>9, <1>10, <1>11, <1>12, <1>13,
            <1>14, <1>15, <1>16 DEF Next, Person, Tasks, Reader, Worker

(* The entry of a session that streams is armed, and nothing else of it        *)
(* changes.                                                                    *)
LEMMA ArmedEntry ==
  ASSUME Typed, Streaming
  PROVE  /\ Armed.running = TRUE /\ Armed.live = TRUE /\ Armed.cancel = FALSE
         /\ Armed.stop = entry.stop /\ Armed.stopped = entry.stopped /\ entry.stop # "cancelling"
         /\ Armed.turn = IF Arms THEN MaxSends + used.mints + 1 ELSE entry.turn
         /\ Armed \in Entries
<1>1. entry \in Entries /\ entry.live /\ ~entry.cancel /\ (entry.stop = "cancelling" => entry.cancel)
  BY DEF Typed, Shape, WorkerShape, Streaming, Session
<1>2. entry.live = TRUE /\ entry.cancel = FALSE /\ entry.stop # "cancelling"
  BY <1>1 DEF Entries
<1>3. CASE Arms
  <2>1. MaxSends + used.mints + 1 \in Turns \cup {None}
    BY <1>3, MintInRange DEF Turns
  <2> QED  BY Zenon, <1>1, <1>2, <1>3, <2>1 DEF Armed, Entries
<1>4. CASE ~Arms
  BY <1>1, <1>2, <1>4 DEF Armed, Arms, Entries
<1> QED  BY Zenon, <1>3, <1>4

(* What the worker does with its session.                                      *)
LEMMA SessionStep ==
  ASSUME Typed, Next
  PROVE  Session'
<1>n. /\ Session /\ entry \in Entries /\ waiters \subseteq Requesters
      /\ sdk \in Seq(Prompts \cup {None}) /\ cmds \in Seq(Commands) /\ alive \in BOOLEAN
  BY DEF Typed, Shape, WorkerShape, PipeShape
<1>w. ASSUME alive, UNCHANGED <<entry, sdk, asked, alive, waiters>>
      PROVE  Session'
  BY <1>n, <1>w DEF Session
<1>1. CASE SendWrite \/ StopWrite \/ AnswerWrite
  <2>1. alive /\ UNCHANGED <<entry, sdk, asked, alive, waiters>>
    BY SMTT(30), <1>1 DEF SendWrite, StopWrite, AnswerWrite, workerVars, lifeVars
  <2> QED  BY <1>w, <2>1
<1>2. CASE WatchdogWrite
  <2>1. UNCHANGED <<entry, sdk, asked, alive, waiters>> /\ (alive \/ UNCHANGED cmds)
    BY SMTT(30), <1>2 DEF WatchdogWrite, workerVars, lifeVars
  <2> QED  BY <1>n, <1>w, <2>1 DEF Session
<1>3. CASE PersonTimesOut \/ WatchdogTimesOut
  <2>1. /\ waiters' \subseteq waiters /\ UNCHANGED <<entry, sdk, asked, alive>>
        /\ \E who \in Requesters : cmds' = ForgetIn(cmds, who)
    BY SMTT(30), <1>3 DEF PersonTimesOut, WatchdogTimesOut, lifeVars, Requesters
  <2>2. cmds' \in Seq(Commands) /\ Len(cmds') = Len(cmds)
    BY <1>n, <2>1, ForgottenCommands
  <2>3. cmds = << >> => cmds' = << >>
    BY SMTT(30), <1>n, <2>2
  <2> QED  BY <1>n, <2>1, <2>3 DEF Session
<1>4. CASE ReadEof
  BY <1>n, <1>4 DEF ReadEof, Session, workerVars
<1>5. CASE TakeSend
  <2>1. /\ entry' = [entry EXCEPT !.known = TRUE, !.live = TRUE, !.running = TRUE,
                                  !.turn = Head(cmds).turn, !.cancel = FALSE, !.stop = "none"]
        /\ sdk' \in {Append(sdk, Head(cmds).turn), <<Head(cmds).turn>>}
        /\ alive /\ entry.stop # "cancelling" /\ UNCHANGED <<asked, alive, waiters>>
    BY <1>5 DEF TakeSend, Accepts, Command, relayIdle, lifeVars
  <2>2. entry'.live /\ ~entry'.cancel /\ entry'.stop = "none"
    BY <1>n, <2>1 DEF Entries
  <2>3. sdk' # << >>
    <3> DEFINE t == Head(cmds).turn
    <3>1. t \in Prompts \cup {None}
      BY <1>n, <1>5, CommandTaken DEF TakeSend, Command, Commands
    <3> HIDE DEF t
    <3>2. Append(sdk, t) # << >> /\ <<t>> # << >>
      BY <1>n, <3>1
    <3> QED  BY <2>1, <3>2 DEF t
  <2> QED  BY <1>n, <2>1, <2>2, <2>3 DEF Session
<1>6. CASE LoseSend
  <2>1. /\ alive /\ UNCHANGED <<sdk, asked, alive, waiters>>
        /\ \/ UNCHANGED entry
           \/ /\ entry' = [entry EXCEPT !.known = TRUE, !.cancel = FALSE, !.stop = "none"]
              /\ entry.stop # "cancelling"
    BY <1>6 DEF LoseSend, Command, relayIdle, lifeVars
  <2>2. CASE UNCHANGED entry
    BY <1>w, <2>1, <2>2
  <2>3. CASE /\ entry' = [entry EXCEPT !.known = TRUE, !.cancel = FALSE, !.stop = "none"]
             /\ entry.stop # "cancelling"
    <3>1. entry'.live = entry.live /\ entry'.running = entry.running /\ entry'.stop = "none"
      BY <1>n, <2>3 DEF Entries
    <3> QED  BY <1>n, <2>1, <2>3, <3>1 DEF Session
  <2> QED  BY <2>1, <2>2, <2>3
<1>7. CASE TakeCancel
  <2>1. /\ alive /\ UNCHANGED <<sdk, alive>>
        /\ \/ UNCHANGED <<entry, waiters>> /\ (asked' = {} \/ UNCHANGED asked)
           \/ /\ asked' = {} /\ entry.stop # "stopped"
              /\ \/ entry' = entry /\ entry.stop = "cancelling"
                 \/ entry' = [entry EXCEPT !.stop = "cancelling", !.cancel = TRUE,
                                           !.stopped = entry.turn]
    BY <1>7 DEF TakeCancel, Command, relayIdle, lifeVars
  <2>2. CASE UNCHANGED <<entry, waiters>> /\ (asked' = {} \/ UNCHANGED asked)
    BY <1>n, <2>1, <2>2 DEF Session
  <2>3. CASE asked' = {} /\ entry' = entry /\ entry.stop = "cancelling"
    BY <1>n, <2>1, <2>3 DEF Session
  <2>4. CASE asked' = {} /\ entry' = [entry EXCEPT !.stop = "cancelling", !.cancel = TRUE,
                                                   !.stopped = entry.turn]
    <3>1. /\ entry'.live = entry.live /\ entry'.running = entry.running
          /\ entry'.stop = "cancelling" /\ entry'.cancel
      BY <1>n, <2>4 DEF Entries
    <3> QED  BY <1>n, <2>1, <2>4, <3>1 DEF Session
  <2> QED  BY <2>1, <2>2, <2>3, <2>4
<1>8. CASE StopDrains
  <2>1. /\ entry' = [entry EXCEPT !.stop = "stopped", !.live = FALSE, !.running = FALSE]
        /\ sdk' = << >> /\ waiters' = {} /\ alive /\ UNCHANGED <<asked, alive>>
    BY <1>8 DEF StopDrains, lifeVars, relayIdle
  <2>2. ~entry'.live /\ ~entry'.running /\ entry'.stop = "stopped"
    BY <1>n, <2>1 DEF Entries
  <2> QED  BY <1>n, <2>1, <2>2 DEF Session
<1>9. CASE TakeAnswer
  <2>1. alive /\ UNCHANGED <<entry, sdk, alive, waiters>> /\ asked' \subseteq asked
    BY <1>9 DEF TakeAnswer, Command, relayIdle, lifeVars
  <2> QED  BY <1>n, <2>1 DEF Session
<1>10. CASE \E w \in Requesters : StopIsSlow(w)
  <2>1. alive /\ UNCHANGED <<entry, sdk, alive, asked>> /\ waiters' \subseteq waiters
    BY <1>10 DEF StopIsSlow, relayIdle, lifeVars
  <2> QED  BY <1>n, <2>1 DEF Session
<1>11. CASE SdkActs
  <2>1. Streaming /\ alive /\ entry' = Armed /\ UNCHANGED <<sdk, asked, alive, waiters>>
    BY <1>11 DEF SdkActs, Streaming, relayIdle, lifeVars
  <2>2. /\ entry'.live = TRUE /\ entry'.running = TRUE /\ entry'.stop = entry.stop
        /\ entry.stop # "cancelling" /\ sdk # << >> /\ entry.live
    BY Zenon, <2>1, ArmedEntry DEF Streaming
  <2> QED  BY <1>n, <2>1, <2>2 DEF Session
<1>12. CASE SdkEnds
  <2>1. /\ Streaming /\ alive /\ entry' = [Armed EXCEPT !.running = FALSE, !.turn = None]
        /\ UNCHANGED <<asked, alive, waiters>>
    BY <1>12 DEF SdkEnds, Streaming, relayIdle, lifeVars
  <2>2. Armed \in Entries /\ Armed.live = TRUE /\ Armed.stop = entry.stop /\ entry.stop # "cancelling"
    BY Zenon, <2>1, ArmedEntry
  <2>3. entry'.live = TRUE /\ entry'.running = FALSE /\ entry'.stop = entry.stop
    BY <2>1, <2>2 DEF Entries
  <2>4. entry.live
    BY <2>1 DEF Streaming
  <2> QED  BY <1>n, <2>1, <2>2, <2>3, <2>4 DEF Session
<1>13. CASE SdkContinues
  <2>1. alive /\ entry.live /\ sdk' = Append(sdk, None) /\ UNCHANGED <<entry, asked, alive, waiters>>
    BY <1>13 DEF SdkContinues, relayIdle, lifeVars
  <2>2. sdk' # << >>
    BY <1>n, <2>1
  <2> QED  BY <1>n, <2>1, <2>2 DEF Session
<1>14. CASE SdkAsks
  <2>1. /\ alive /\ entry.live /\ ~entry.cancel /\ UNCHANGED <<entry, sdk, alive, waiters>>
    BY <1>14 DEF SdkAsks, Streaming, relayIdle, lifeVars
  <2> QED  BY <1>n, <2>1 DEF Session
<1>15. CASE StreamDies
  <2>1. /\ entry' = [entry EXCEPT !.live = FALSE, !.running = FALSE, !.turn = None]
        /\ sdk' = << >> /\ asked' = {} /\ alive /\ ~entry.cancel /\ UNCHANGED <<waiters, alive>>
    BY <1>15 DEF StreamDies, Streaming, relayIdle, lifeVars
  <2>2. entry'.live = FALSE /\ entry'.running = FALSE /\ entry'.stop = entry.stop
    BY <1>n, <2>1 DEF Entries
  <2> QED  BY <1>n, <2>1, <2>2 DEF Session
<1>16. CASE WorkerDies
  <2>1. /\ entry' = [entry EXCEPT !.live = FALSE, !.running = FALSE]
        /\ sdk' = << >> /\ asked' = {} /\ waiters' = {} /\ cmds' = << >>
    BY <1>16 DEF WorkerDies
  <2>2. /\ entry'.live = FALSE /\ entry'.running = FALSE /\ entry'.stop = entry.stop
        /\ entry'.cancel = entry.cancel
    BY <1>n, <2>1 DEF Entries
  <2> QED  BY <1>n, <2>1, <2>2 DEF Session
<1>17. CASE \/ SendBegin \/ SendRefused \/ SendFinish \/ StopBegin \/ StopClears
            \/ StopAnswered \/ (\E a \in Asks : AnswerBegin(a)) \/ AnswerAnswered
            \/ WriteFails \/ Silence \/ WatchdogTick \/ WatchdogCheck
            \/ WatchdogAnswered \/ (\E t \in Turns : FallbackFires(t)) \/ ReadEvent
            \/ ReadEof
  <2>1. UNCHANGED <<cmds, entry, waiters, asked, sdk, alive>>
    BY Zenon, <1>17, PersonFrames, TaskFrames, ReaderFrames, WorkerFrames, SdkFrames
  <2> QED  BY <1>n, <2>1 DEF Session
<1> QED  BY <1>1, <1>2, <1>3, <1>4, <1>5, <1>6, <1>7, <1>8, <1>9, <1>10, <1>11, <1>12, <1>13,
            <1>14, <1>15, <1>16, <1>17 DEF Next, Person, Tasks, Reader, Worker

(* Which step writes command c, and to whom it is answered.                    *)
Written(c) ==
  /\ c.type = "send" => SendWrite /\ c.turn = person.turn /\ c.to = "nobody"
  /\ c.to = "person" => \/ StopWrite /\ c.type = "cancel"
                        \/ AnswerWrite /\ c.type = "answer" /\ c.ask = person.ask
  /\ c.to = "watchdog" => WatchdogWrite /\ c.type = "cancel"

(* Command c is command d; who asked for it may have given up meanwhile.       *)
Same(c, d) == /\ c.type = d.type /\ c.turn = d.turn /\ c.ask = d.ask
              /\ c.to = d.to \/ c.to = "nobody"

(* A command waits behind the same commands, or one fewer; only the relay      *)
(* writes one.                                                                 *)
LEMMA CommandsMove ==
  ASSUME Typed, Next
  PROVE  \E k \in {0, 1} : \A i \in DOMAIN cmds' :
           \/ i + k \in DOMAIN cmds /\ Same(cmds'[i], cmds[i + k])
           \/ k = 0 /\ i = Len(cmds) + 1 /\ Written(cmds'[i])
<1>n. cmds \in Seq(Commands) /\ DOMAIN cmds = 1..Len(cmds) /\ Len(cmds) \in Nat
  BY DEF Typed, Shape, PipeShape
<1>s. \A c : Same(c, c)
  BY DEF Same
<1>a. ASSUME NEW c \in Commands, cmds' = Append(cmds, c), Written(c)
      PROVE  \A i \in DOMAIN cmds' : \/ i \in DOMAIN cmds /\ Same(cmds'[i], cmds[i])
                                     \/ i = Len(cmds) + 1 /\ Written(cmds'[i])
  <2>1. \A i \in DOMAIN cmds' : \/ i \in DOMAIN cmds /\ cmds'[i] = cmds[i]
                                \/ i = Len(cmds) + 1 /\ cmds'[i] = c
    BY <1>n, <1>a
  <2> QED  BY Zenon, <1>a, <1>s, <2>1
<1>z. \A i \in DOMAIN cmds : i + 0 = i
  BY <1>n
<1>1. CASE SendWrite
  <2>1. cmds' = Append(cmds, Prompt(person.turn)) /\ person.op = "send"
    BY <1>1 DEF SendWrite, Prompt
  <2>2. person.turn \in Prompts
    BY <2>1, TurnControlAssumption DEF Typed, Shape, CountShape, Counts, TaskShape, Prompts
  <2>3. Prompt(person.turn) \in Commands /\ Written(Prompt(person.turn))
    BY <1>1, <2>2, PromptMade DEF Written
  <2> QED  BY <1>a, <1>z, <2>1, <2>3
<1>2. CASE StopWrite \/ AnswerWrite \/ WatchdogWrite
  <2>1. \/ UNCHANGED cmds
        \/ StopWrite /\ cmds' = Append(cmds, Request("cancel", "person", 0))
        \/ WatchdogWrite /\ cmds' = Append(cmds, Request("cancel", "watchdog", 0))
        \/ AnswerWrite /\ cmds' = Append(cmds, Request("answer", "person", person.ask))
    BY <1>2 DEF StopWrite, AnswerWrite, WatchdogWrite
  <2>2. person.ask \in 0..MaxIncidents /\ 0 \in 0..MaxIncidents
    BY TurnControlAssumption DEF Typed, Shape, TaskShape, Task
  <2>3. UNCHANGED cmds \/ \E c \in Commands : cmds' = Append(cmds, c) /\ Written(c)
    <3>1. /\ Request("cancel", "person", 0) \in Commands
          /\ StopWrite => Written(Request("cancel", "person", 0))
      BY <2>2, RequestMade DEF Requesters, Written
    <3>2. /\ Request("cancel", "watchdog", 0) \in Commands
          /\ WatchdogWrite => Written(Request("cancel", "watchdog", 0))
      BY <2>2, RequestMade DEF Requesters, Written
    <3>3. /\ Request("answer", "person", person.ask) \in Commands
          /\ AnswerWrite => Written(Request("answer", "person", person.ask))
      BY <2>2, RequestMade DEF Requesters, Written
    <3> QED  BY Zenon, <2>1, <3>1, <3>2, <3>3
  <2> QED  BY <1>a, <1>s, <1>z, <2>3
<1>3. CASE PersonTimesOut \/ WatchdogTimesOut
  <2>1. \E who \in Requesters : cmds' = ForgetIn(cmds, who)
    BY <1>3 DEF PersonTimesOut, WatchdogTimesOut, Requesters
  <2>2. /\ DOMAIN cmds' = DOMAIN cmds
        /\ \A i \in DOMAIN cmds : Same(cmds'[i], cmds[i])
    BY <1>n, <2>1, ForgottenCommands DEF Same
  <2> QED  BY <1>z, <2>2
<1>4. CASE TakeSend \/ LoseSend \/ TakeCancel \/ TakeAnswer
  <2>1. cmds # << >> /\ cmds' = Tail(cmds)
    BY <1>4 DEF TakeSend, LoseSend, TakeCancel, TakeAnswer, Command
  <2> QED  BY <1>n, <1>s, <2>1, CommandTaken
<1>5. CASE WorkerDies
  <2>1. DOMAIN cmds' = {}
    BY <1>5 DEF WorkerDies
  <2> QED  BY <2>1
<1>6. CASE \/ SendBegin \/ SendRefused \/ SendFinish \/ StopBegin \/ StopClears
            \/ StopAnswered \/ (\E a \in Asks : AnswerBegin(a)) \/ AnswerAnswered
            \/ WriteFails \/ Silence \/ WatchdogTick \/ WatchdogCheck
            \/ WatchdogAnswered \/ (\E t \in Turns : FallbackFires(t)) \/ ReadEvent
            \/ ReadEof \/ StopDrains \/ (\E w \in Requesters : StopIsSlow(w))
            \/ SdkActs \/ SdkEnds \/ SdkContinues \/ SdkAsks \/ StreamDies
  <2>1. UNCHANGED <<cmds>>
    BY Zenon, <1>6, PersonFrames, TaskFrames, ReaderFrames, WorkerFrames, SdkFrames
  <2> QED  BY <1>s, <1>z, <2>1
<1> QED  BY <1>1, <1>2, <1>3, <1>4, <1>5, <1>6 DEF Next, Person, Tasks, Reader, Worker

(* The prompt that is being sent.                                              *)
LEMMA PromptMoves ==
  ASSUME Typed, Next
  PROVE  /\ used'.sends = used.sends \/ SendBegin
         /\ SendBegin => /\ used'.sends = used.sends + 1 /\ person'.turn = used.sends + 1
                         /\ person.op = "free" /\ UNCHANGED cmds
         /\ SendWrite => person.op = "send" /\ person'.op = "sent"
         /\ person'.op \in {"send", "sent"} =>
              \/ SendBegin
              \/ person.op \in {"send", "sent"} /\ person'.turn = person.turn
         /\ person'.op = "send" => SendBegin \/ person.op = "send"
         /\ person.op = "send" /\ person'.op = "sent" => SendWrite
<1>n. person \in Task /\ used \in Counts /\ Idle.op = "free"
  BY DEF Typed, Shape, TaskShape, CountShape, Idle
<1>1. used'.sends = used.sends \/ SendBegin
  <2>1. CASE Incident \/ UNCHANGED used
    BY <1>n, <2>1 DEF Incident, Counts
  <2>2. CASE SdkActs \/ SdkEnds \/ SdkAsks
    BY Zenon, <1>n, <2>2 DEF SdkActs, SdkEnds, SdkAsks, CountMint, Counts
  <2>3. CASE \/ StopBegin \/ StopClears \/ PersonTimesOut \/ WatchdogTimesOut \/ LoseSend
             \/ (\E w \in Requesters : StopIsSlow(w)) \/ SdkContinues \/ StreamDies \/ WorkerDies
    <3>1. Incident \/ UNCHANGED used
      BY Zenon, <2>3 DEF StopBegin, StopClears, PersonTimesOut, WatchdogTimesOut, TimeIsUp,
                         LoseSend, StopIsSlow, SdkContinues, StreamDies, WorkerDies
    <3> QED  BY <2>1, <3>1
  <2>4. CASE \/ SendRefused \/ SendWrite \/ SendFinish \/ StopWrite \/ StopAnswered
             \/ (\E a \in Asks : AnswerBegin(a)) \/ AnswerWrite \/ AnswerAnswered \/ WriteFails
             \/ Silence \/ WatchdogTick \/ WatchdogCheck \/ WatchdogWrite \/ WatchdogAnswered
             \/ (\E t \in Turns : FallbackFires(t)) \/ ReadEvent \/ ReadEof \/ TakeSend
             \/ TakeCancel \/ StopDrains \/ TakeAnswer
    <3>1. UNCHANGED used
      BY Zenon, <2>4, PersonFrames, TaskFrames, ReaderFrames, WorkerFrames
    <3> QED  BY <2>1, <3>1
  <2> QED  BY Zenon, <2>2, <2>3, <2>4 DEF Next, Person, Tasks, Reader, Worker
<1>2. SendBegin => /\ used'.sends = used.sends + 1 /\ person'.turn = used.sends + 1
                   /\ person.op = "free" /\ UNCHANGED cmds
  BY <1>n DEF SendBegin, Counts, Idle
<1>3. SendWrite => person.op = "send" /\ person'.op = "sent"
  BY SMTT(30), <1>n DEF SendWrite, Task
<1>4. /\ person'.op \in {"send", "sent"} =>
           \/ SendBegin
           \/ person.op \in {"send", "sent"} /\ person'.turn = person.turn
      /\ person'.op = "send" => SendBegin \/ person.op = "send"
      /\ person.op = "send" /\ person'.op = "sent" => SendWrite
  <2>1. CASE SendRefused \/ SendFinish \/ StopAnswered \/ AnswerAnswered \/ WriteFails
    BY <1>n, <2>1 DEF SendRefused, SendFinish, StopAnswered, AnswerAnswered, WriteFails
  <2>2. CASE SendWrite \/ StopWrite \/ AnswerWrite
    BY <1>n, <2>2 DEF SendWrite, StopWrite, AnswerWrite, Task
  <2>3. CASE StopBegin
    BY <2>3 DEF StopBegin, Idle
  <2>4. CASE \E a \in Asks : AnswerBegin(a)
    BY <2>4 DEF AnswerBegin, Idle
  <2>5. CASE PersonTimesOut
    BY <1>n, <2>5 DEF PersonTimesOut, Task
  <2>6. CASE ReadEvent
    <3>1. person' = Delivered(person, "person", Head(events))
      BY <2>6 DEF ReadEvent
    <3>2. person'.op = person.op /\ person'.turn = person.turn
      BY <1>n, <3>1 DEF Delivered, Task
    <3> QED  BY <3>2
  <2>7. CASE \/ StopClears \/ Silence \/ WatchdogTick \/ WatchdogCheck \/ WatchdogWrite
             \/ WatchdogAnswered \/ WatchdogTimesOut
             \/ (\E t \in Turns : FallbackFires(t)) \/ ReadEof \/ TakeSend \/ LoseSend
             \/ TakeCancel \/ StopDrains \/ TakeAnswer
             \/ (\E w \in Requesters : StopIsSlow(w)) \/ SdkActs \/ SdkEnds
             \/ SdkContinues \/ SdkAsks \/ StreamDies \/ WorkerDies
    <3>1. UNCHANGED person
      BY Zenon, <2>7, PersonFrames, TaskFrames, ReaderFrames, WorkerFrames, SdkFrames
    <3> QED  BY <3>1
  <2>8. CASE SendBegin
    BY <2>8, <1>2
  <2> QED  BY Zenon, <2>1, <2>2, <2>3, <2>4, <2>5, <2>6, <2>7, <2>8
              DEF Next, Person, Tasks, Reader, Worker
<1> QED  BY Zenon, <1>1, <1>2, <1>3, <1>4

(* Prompts stay in the order of their ids.                                     *)
LEMMA OrderedStep ==
  ASSUME Typed, Next
  PROVE  Ordered'
<1>n. /\ Ordered /\ used.sends \in Nat /\ used'.sends \in Nat /\ used.sends <= used'.sends
      /\ cmds \in Seq(Commands) /\ DOMAIN cmds = 1..Len(cmds) /\ Len(cmds) \in Nat
      /\ DOMAIN cmds' \subseteq Nat
      /\ person.op \in {"send", "sent"} => person.turn \in 1..used.sends
  <2>1. used.sends \in Nat /\ used'.sends \in Nat /\ used.sends <= used'.sends
    BY SMTT(30), CountStep DEF Typed, Shape, CountShape, Counts
  <2>2. cmds' \in Seq(Commands)
    BY PipeStep DEF PipeShape
  <2> QED  BY <2>1, <2>2 DEF Typed, Shape, PipeShape, TaskShape
<1>1. PICK k \in {0, 1} : \A i \in DOMAIN cmds' :
        \/ /\ i + k \in DOMAIN cmds
           /\ cmds'[i].type = cmds[i + k].type /\ cmds'[i].turn = cmds[i + k].turn
        \/ /\ k = 0 /\ i = Len(cmds) + 1
           /\ cmds'[i].type = "send" => SendWrite /\ cmds'[i].turn = person.turn
  BY CommandsMove DEF Same, Written
<1>2. SendWrite => person.op = "send" /\ person'.op = "sent"
  BY PromptMoves
<1>3. ASSUME NEW i \in DOMAIN cmds', cmds'[i].type = "send"
      PROVE  cmds'[i].turn \in 1..used'.sends
  <2>1. cmds'[i].turn \in 1..used.sends
    BY <1>n, <1>1, <1>2, <1>3 DEF Ordered
  <2> QED  BY SMTT(30), <1>n, <2>1
<1>4. ASSUME NEW i \in DOMAIN cmds', NEW j \in DOMAIN cmds', cmds'[i].type = "send",
             cmds'[j].type = "send", i < j
      PROVE  cmds'[i].turn < cmds'[j].turn
  <2>1. CASE j + k \in DOMAIN cmds
    <3> DEFINE p == i + k
               q == j + k
    <3>1. /\ p \in DOMAIN cmds /\ q \in DOMAIN cmds /\ p < q
          /\ cmds'[i].type = cmds[p].type /\ cmds'[i].turn = cmds[p].turn
          /\ cmds'[j].type = cmds[q].type /\ cmds'[j].turn = cmds[q].turn
      BY SMTT(30), <1>n, <1>1, <1>4, <2>1
    <3> HIDE DEF p, q
    <3> QED  BY <1>n, <1>4, <3>1 DEF Ordered
  <2>2. CASE j + k \notin DOMAIN cmds
    <3>1. SendWrite /\ cmds'[j].turn = person.turn /\ person.op = "send"
      BY SMTT(30), <1>n, <1>1, <1>2, <1>4, <2>2
    <3>2. k = 0 /\ j = Len(cmds) + 1
      BY <1>1, <2>2
    <3>3. i + k \in DOMAIN cmds /\ cmds'[i].type = cmds[i + k].type /\ cmds'[i].turn = cmds[i + k].turn
      BY SMTT(30), <1>n, <1>1, <1>4, <3>2
    <3> QED  BY <1>n, <1>4, <3>1, <3>3 DEF Ordered
  <2> QED  BY SMTT(30), <2>1, <2>2
<1>5. ASSUME person'.op = "send"
      PROVE  /\ person'.turn = used'.sends
             /\ \A i \in DOMAIN cmds' : cmds'[i].type = "send" => cmds'[i].turn < person'.turn
  <2>1. CASE SendBegin
    <3>1. person'.turn = used.sends + 1 /\ used'.sends = used.sends + 1 /\ UNCHANGED cmds
      BY <2>1, PromptMoves
    <3> QED  BY SMTT(30), <1>n, <3>1 DEF Ordered
  <2>2. CASE ~SendBegin
    <3>1. /\ person.op = "send" /\ person'.turn = person.turn /\ used'.sends = used.sends
          /\ ~SendWrite
      BY <1>5, <2>2, PromptMoves
    <3> QED  BY <1>n, <1>1, <3>1 DEF Ordered
  <2> QED  BY <2>1, <2>2
<1> QED  BY SMTT(30), <1>3, <1>4, <1>5 DEF Ordered

(* What the worker has minted stays paid for.                                  *)
LEMMA BudgetStep ==
  ASSUME Typed, Next
  PROVE  Budget'
<1>n. /\ used \in Counts /\ entry \in Entries /\ sdk \in Seq(Prompts \cup {None}) /\ Len(sdk) \in Nat
      /\ cmds \in Seq(Commands) /\ used.sends \in Nat /\ used'.sends \in Nat
      /\ used.sends <= used'.sends /\ used.incidents \in Nat /\ used.mints \in Nat
      /\ used'.incidents \in Nat /\ used.incidents <= used'.incidents
  BY SMTT(30), CountStep, TurnControlAssumption DEF Typed, Shape, CountShape, Counts,
                                                    WorkerShape, PipeShape
<1>0. PICK n \in 0..used.sends : Pays(n)
  BY DEF Typed, Budget
<1> DEFINE running == IF entry.running THEN 1 ELSE 0
<1>p. /\ used.mints + Len(sdk) <= n + used.incidents + running /\ running \in {0, 1}
      /\ \A i \in DOMAIN cmds : cmds[i].type = "send" => n < cmds[i].turn
      /\ person.op = "send" => n < person.turn
      /\ running = 1 => Len(sdk) >= 1
  <2>1. entry.running => Len(sdk) >= 1
    BY <1>n DEF Typed, Session
  <2> QED  BY SMTT(30), <1>0, <2>1 DEF Pays
<1>q. /\ used.mints + Len(sdk) <= n + used.incidents + running /\ running \in 0..1
      /\ running = 1 => Len(sdk) >= 1
      /\ n \in Nat /\ Len(sdk) \in Nat /\ used.incidents \in Nat /\ used.mints \in Nat
      /\ used'.incidents \in Nat /\ used.incidents <= used'.incidents
  BY <1>n, <1>0, <1>p
<1>k. ASSUME NEW r \in {0, 1}, entry'.running <=> r = 1,
             used'.mints + Len(sdk') <= n + used'.incidents + r
      PROVE  Budget'
  <2>1. n \in 0..used'.sends
    BY SMTT(30), <1>n, <1>0
  <2>2. \A i \in DOMAIN cmds' : cmds'[i].type = "send" => n < cmds'[i].turn
    <3>1. SendWrite => person.op = "send"
      BY SMTT(30), PromptMoves
    <3> QED  BY <1>p, <3>1, CommandsMove DEF Same, Written
  <2>3. person'.op = "send" => n < person'.turn
    BY <1>n, <1>0, <1>p, PromptMoves
  <2>4. used'.mints + Len(sdk') <= n + used'.incidents + (IF entry'.running THEN 1 ELSE 0)
    BY <1>k
  <2>5. Pays(n)'
    BY <2>2, <2>3, <2>4 DEF Pays
  <2> QED  BY <2>1, <2>5 DEF Budget
<1> HIDE DEF running
<1>1. CASE TakeSend
  <2>0. PICK t : t = cmds[1].turn
    OBVIOUS
  <2>1. /\ 1 \in DOMAIN cmds /\ Head(cmds) = cmds[1] /\ cmds[1].type = "send" /\ cmds' = Tail(cmds)
        /\ cmds # << >> /\ cmds[1] \in Commands
    BY <1>n, <1>1, CommandTaken DEF TakeSend, Command
  <2>2. /\ entry' = [entry EXCEPT !.known = TRUE, !.live = TRUE, !.running = TRUE, !.turn = t,
                                  !.cancel = FALSE, !.stop = "none"]
        /\ sdk' = IF entry.live THEN Append(sdk, t) ELSE <<t>>
        /\ UNCHANGED <<used, person>>
    BY <1>1, <2>0, <2>1 DEF TakeSend, Accepts, relayIdle, taskVars
  <2>3. t \in 1..used.sends /\ t \in Prompts \cup {None} /\ n < t
    BY <1>p, <2>0, <2>1 DEF Typed, Ordered, Commands
  <2>4. Len(sdk') = Len(sdk) + 1
    <3>1. ~entry.live => sdk = << >>
      BY DEF Typed, Session
    <3> QED  BY <1>n, <2>2, <2>3, <3>1
  <2>5. entry'.running
    BY <1>n, <2>2 DEF Entries
  <2>6. used'.mints + Len(sdk') <= t + used'.incidents + 1
    BY SMTT(30), <1>n, <1>p, <1>0, <2>2, <2>3, <2>4
  <2>7. \A i \in DOMAIN cmds' : cmds'[i].type = "send" => t < cmds'[i].turn
    <3> SUFFICES ASSUME NEW i \in DOMAIN cmds', cmds'[i].type = "send" PROVE t < cmds'[i].turn
      OBVIOUS
    <3> DEFINE j == i + 1
    <3>1. j \in DOMAIN cmds /\ cmds'[i] = cmds[j] /\ 1 < j
      BY <1>n, <2>1, CommandTaken
    <3> HIDE DEF j
    <3> QED  BY <2>0, <2>1, <3>1 DEF Typed, Ordered
  <2>8. person'.op = "send" => t < person'.turn
    BY <2>0, <2>1, <2>2 DEF Typed, Ordered
  <2>9. Pays(t)' /\ t \in 0..used'.sends
    BY <2>2, <2>3, <2>5, <2>6, <2>7, <2>8 DEF Pays
  <2> QED  BY <2>9 DEF Budget
<1>2. CASE SdkActs
  <2>1. /\ Streaming /\ entry' = Armed /\ UNCHANGED sdk
        /\ used' = [used EXCEPT !.mints = IF Arms THEN @ + 1 ELSE @]
    BY <1>2 DEF SdkActs, CountMint
  <2>2. entry'.running = TRUE
    BY Zenon, <2>1, ArmedEntry
  <2>3. /\ used'.mints = used.mints + (IF Arms THEN 1 ELSE 0) /\ used'.incidents = used.incidents
        /\ Arms <=> running = 0
    BY <1>n, <2>1 DEF Counts, Arms, running
  <2>4. used'.mints + Len(sdk') <= n + used'.incidents + 1
    BY <1>q, <2>1, <2>3
  <2> QED  BY <1>k, <2>2, <2>4
<1>3. CASE SdkEnds
  <2>1. /\ Streaming /\ entry' = [Armed EXCEPT !.running = FALSE, !.turn = None] /\ sdk' = Tail(sdk)
        /\ used' = [used EXCEPT !.mints = IF Arms THEN @ + 1 ELSE @] /\ sdk # << >>
    BY <1>3 DEF SdkEnds, CountMint, Streaming
  <2>2. entry'.running = FALSE
    BY <2>1, ArmedEntry DEF Entries
  <2>3. /\ used'.mints = used.mints + (IF Arms THEN 1 ELSE 0) /\ used'.incidents = used.incidents
        /\ Arms <=> running = 0
    BY <1>n, <2>1 DEF Counts, Arms, running
  <2>4. Len(sdk') = Len(sdk) - 1
    BY <1>n, <2>1
  <2>5. used'.mints + Len(sdk') <= n + used'.incidents + 0
    BY SMTT(30), <1>q, <2>3, <2>4
  <2> QED  BY <1>k, <2>2, <2>5
<1>4. CASE SdkContinues
  <2>1. sdk' = Append(sdk, None) /\ Incident /\ UNCHANGED entry
    BY <1>4 DEF SdkContinues
  <2>2. Len(sdk') = Len(sdk) + 1
    BY <1>n, <2>1
  <2>3. used'.mints = used.mints /\ used'.incidents = used.incidents + 1
    BY <1>n, <2>1 DEF Incident, Counts
  <2>4. used'.mints + Len(sdk') <= n + used'.incidents + running
    BY SMTT(30), <1>q, <2>2, <2>3
  <2>5. entry'.running <=> running = 1
    BY <1>n, <2>1 DEF running, Entries
  <2> QED  BY <1>k, <1>p, <2>4, <2>5
<1>5. CASE StopDrains \/ StreamDies \/ WorkerDies
  <2>1. /\ sdk' = << >> /\ (Incident \/ UNCHANGED used)
        /\ \/ entry' = [entry EXCEPT !.stop = "stopped", !.live = FALSE, !.running = FALSE]
           \/ entry' = [entry EXCEPT !.live = FALSE, !.running = FALSE, !.turn = None]
           \/ entry' = [entry EXCEPT !.live = FALSE, !.running = FALSE]
    BY <1>5 DEF StopDrains, StreamDies, WorkerDies
  <2>2. entry'.running = FALSE
    BY Zenon, <1>n, <2>1 DEF Entries
  <2>3. used'.mints = used.mints /\ Len(sdk') = 0
    BY <1>n, <2>1 DEF Incident, Counts
  <2>4. used'.mints + Len(sdk') <= n + used'.incidents + 0
    BY SMTT(30), <1>q, <2>3
  <2> QED  BY <1>k, <2>2, <2>4
<1>6. CASE LoseSend
  <2>1. /\ UNCHANGED sdk /\ (Incident \/ UNCHANGED used)
        /\ \/ UNCHANGED entry
           \/ entry' = [entry EXCEPT !.known = TRUE, !.cancel = FALSE, !.stop = "none"]
    BY <1>6 DEF LoseSend
  <2>2. entry'.running <=> running = 1
    <3>1. entry'.running = entry.running
      BY Zenon, <1>n, <2>1 DEF Entries
    <3> QED  BY <3>1 DEF running
  <2>3. used'.mints = used.mints
    BY <1>n, <2>1 DEF Incident, Counts
  <2>4. used'.mints + Len(sdk') <= n + used'.incidents + running
    BY SMTT(30), <1>q, <2>1, <2>3
  <2> QED  BY <1>k, <1>p, <2>2, <2>4
<1>7. CASE TakeCancel
  <2>1. /\ UNCHANGED <<sdk, used>>
        /\ \/ UNCHANGED entry
           \/ entry' = [entry EXCEPT !.stop = "cancelling", !.cancel = TRUE,
                                        !.stopped = entry.turn]
    BY <1>7 DEF TakeCancel
  <2>2. entry'.running <=> running = 1
    <3>1. entry'.running = entry.running
      BY Zenon, <1>n, <2>1 DEF Entries
    <3> QED  BY <3>1 DEF running
  <2> QED  BY <1>k, <1>p, <2>1, <2>2
<1>8. CASE \/ SendBegin \/ StopBegin \/ StopClears \/ PersonTimesOut \/ WatchdogTimesOut \/ SdkAsks
           \/ (\E w \in Requesters : StopIsSlow(w))
  <2>1. UNCHANGED <<sdk, entry>>
    BY Zenon, <1>8, PersonFrames, TaskFrames, ReaderFrames, WorkerFrames, SdkFrames
  <2>2. used'.mints = used.mints
    <3>1. CASE SendBegin \/ SdkAsks
      BY Zenon, <1>n, <3>1 DEF SendBegin, SdkAsks, Counts
    <3>2. CASE \/ StopBegin \/ StopClears \/ PersonTimesOut \/ WatchdogTimesOut
               \/ (\E w \in Requesters : StopIsSlow(w))
      <4>1. Incident \/ UNCHANGED used
        BY Zenon, <3>2 DEF StopBegin, StopClears, PersonTimesOut, WatchdogTimesOut, TimeIsUp,
                           StopIsSlow
      <4> QED  BY <1>n, <4>1 DEF Incident, Counts
    <3> QED  BY <1>8, <3>1, <3>2
  <2>3. entry'.running <=> running = 1
    BY <1>n, <2>1 DEF Entries, running
  <2>4. used'.mints + Len(sdk') <= n + used'.incidents + running
    BY SMTT(30), <1>q, <2>1, <2>2
  <2> QED  BY <1>k, <1>p, <2>3, <2>4
<1>9. CASE \/ SendRefused \/ SendWrite \/ SendFinish \/ StopWrite \/ StopAnswered
            \/ (\E a \in Asks : AnswerBegin(a)) \/ AnswerWrite \/ AnswerAnswered
            \/ WriteFails \/ Silence \/ WatchdogTick \/ WatchdogCheck \/ WatchdogWrite
            \/ WatchdogAnswered \/ (\E t \in Turns : FallbackFires(t)) \/ ReadEvent
            \/ ReadEof \/ TakeAnswer
  <2>1. UNCHANGED <<used, sdk, entry>>
    BY Zenon, <1>9, PersonFrames, TaskFrames, ReaderFrames, WorkerFrames, SdkFrames
  <2>2. entry'.running <=> running = 1
    BY <1>n, <2>1 DEF Entries, running
  <2> QED  BY <1>k, <1>p, <2>1, <2>2
<1> QED  BY SMTT(30), <1>1, <1>2, <1>3, <1>4, <1>5, <1>6, <1>7, <1>8, <1>9
            DEF Next, Person, Tasks, Reader, Worker

(* And is kept by every step.                                                  *)
LEMMA TypedStep == Typed /\ [Next]_vars => Typed'
<1> SUFFICES ASSUME Typed, [Next]_vars PROVE Typed'
  OBVIOUS
<1>1. CASE Next
  BY SMTT(30), <1>1, CountStep, RelayStep, TaskStep, WorkerStep, PipeStep, SessionStep,
     OrderedStep, BudgetStep DEF Typed, Shape
<1>2. CASE UNCHANGED vars
  BY Zenon, <1>2, Resting
<1> QED  BY <1>1, <1>2

(* The inductive invariant gives every variable its shape.                     *)
LEMMA TypedShapes == Typed => TypeOK
<1> SUFFICES ASSUME Typed PROVE TypeOK
  OBVIOUS
<1>1. used.asks \in 0..MaxIncidents /\ MaxIncidents \in Nat
  BY TurnControlAssumption DEF Typed, Shape, CountShape, Counts
<1>2. asked \subseteq 1..MaxIncidents
  BY <1>1 DEF Typed, Shape, WorkerShape
<1> QED  BY <1>2 DEF TypeOK, Typed, Shape, RelayShape, TaskShape, WorkerShape, Relays, Entries

(* In every run every variable keeps its shape, however many prompts are sent  *)
(* and whatever comes between: the worker mints an id only for a turn of the   *)
(* SDK that nobody armed, so that its ids stay within what prompts and         *)
(* incidents pay for (armSpontaneousTurn, worker.mjs).                         *)
THEOREM TypeCorrect == Spec => []TypeOK
<1>1. Init => Typed
  BY TypedInit
<1>2. Typed /\ [Next]_vars => Typed'
  BY TypedStep
<1>3. Typed => TypeOK
  BY SMTT(30), TypedShapes
<1> QED  BY <1>1, <1>2, <1>3, PTL DEF Spec

-----------------------------------------------------------------------------
(* Ids.                                                                        *)

(* What becomes of the turn the worker runs.                                   *)
LEMMA EntryMoves ==
  ASSUME Typed, Next
  PROVE  /\ \/ entry'.turn \in {entry.turn, None}
            \/ TakeSend /\ entry'.turn = Head(cmds).turn
            \/ SdkActs /\ Streaming /\ Arms /\ entry'.turn = MaxSends + used.mints + 1
         /\ entry'.stopped \in {entry.stopped, entry.turn}
         /\ entry'.running =>
              \/ entry.running /\ entry'.turn = entry.turn
              \/ TakeSend /\ entry'.turn = Head(cmds).turn
              \/ SdkActs /\ Streaming /\ Arms /\ entry'.turn = MaxSends + used.mints + 1
<1>n. entry \in Entries
  BY DEF Typed, Shape, WorkerShape
<1>1. CASE TakeSend
  <2>1. entry' = [entry EXCEPT !.known = TRUE, !.live = TRUE, !.running = TRUE,
                               !.turn = Head(cmds).turn, !.cancel = FALSE, !.stop = "none"]
    BY <1>1 DEF TakeSend, Accepts
  <2>2. entry'.turn = Head(cmds).turn /\ entry'.stopped = entry.stopped
    BY <1>n, <2>1 DEF Entries
  <2> QED  BY <1>1, <2>2
<1>2. CASE LoseSend
  <2>1. \/ UNCHANGED entry
        \/ entry' = [entry EXCEPT !.known = TRUE, !.cancel = FALSE, !.stop = "none"]
    BY <1>2 DEF LoseSend
  <2>2. entry'.turn = entry.turn /\ entry'.stopped = entry.stopped /\ entry'.running = entry.running
    BY Zenon, <1>n, <2>1 DEF Entries
  <2> QED  BY <2>2
<1>3. CASE TakeCancel
  <2>1. \/ UNCHANGED entry
        \/ entry' = [entry EXCEPT !.stop = "cancelling", !.cancel = TRUE, !.stopped = entry.turn]
    BY <1>3 DEF TakeCancel
  <2>2. /\ entry'.turn = entry.turn /\ entry'.stopped \in {entry.stopped, entry.turn}
        /\ entry'.running = entry.running
    BY Zenon, <1>n, <2>1 DEF Entries
  <2> QED  BY <2>2
<1>4. CASE StopDrains \/ StreamDies \/ WorkerDies
  <2>1. \/ entry' = [entry EXCEPT !.stop = "stopped", !.live = FALSE, !.running = FALSE]
        \/ entry' = [entry EXCEPT !.live = FALSE, !.running = FALSE, !.turn = None]
        \/ entry' = [entry EXCEPT !.live = FALSE, !.running = FALSE]
    BY <1>4 DEF StopDrains, StreamDies, WorkerDies
  <2>2. /\ entry'.turn \in {entry.turn, None} /\ entry'.stopped = entry.stopped
        /\ entry'.running = FALSE
    BY Zenon, <1>n, <2>1 DEF Entries
  <2> QED  BY <2>2
<1>5. CASE SdkActs
  <2>1. Streaming /\ entry' = Armed
    BY <1>5 DEF SdkActs
  <2>2. /\ entry'.stopped = entry.stopped
        /\ entry'.turn = IF Arms THEN MaxSends + used.mints + 1 ELSE entry.turn
        /\ ~Arms => entry.running
    BY <2>1, ArmedEntry DEF Arms
  <2> QED  BY <1>5, <2>1, <2>2
<1>6. CASE SdkEnds
  <2>1. Streaming /\ entry' = [Armed EXCEPT !.running = FALSE, !.turn = None]
    BY <1>6 DEF SdkEnds
  <2>2. Armed \in Entries /\ Armed.stopped = entry.stopped
    BY <2>1, ArmedEntry
  <2>3. entry'.turn = None /\ entry'.stopped = entry.stopped /\ entry'.running = FALSE
    BY <2>1, <2>2 DEF Entries
  <2> QED  BY <2>3
<1>7. CASE \/ SendBegin \/ SendRefused \/ SendWrite \/ SendFinish \/ StopBegin
            \/ StopClears \/ StopWrite \/ StopAnswered
            \/ (\E a \in Asks : AnswerBegin(a)) \/ AnswerWrite \/ AnswerAnswered
            \/ WriteFails \/ PersonTimesOut \/ Silence \/ WatchdogTick \/ WatchdogCheck
            \/ WatchdogWrite \/ WatchdogAnswered \/ WatchdogTimesOut
            \/ (\E t \in Turns : FallbackFires(t)) \/ ReadEvent \/ ReadEof
            \/ TakeAnswer \/ (\E w \in Requesters : StopIsSlow(w)) \/ SdkContinues
            \/ SdkAsks
  <2>1. UNCHANGED <<entry>>
    BY Zenon, <1>7, PersonFrames, TaskFrames, ReaderFrames, WorkerFrames, SdkFrames
  <2> QED  BY <2>1
<1> QED  BY ZenonT(30), <1>1, <1>2, <1>3, <1>4, <1>5, <1>6, <1>7
            DEF Next, Person, Tasks, Reader, Worker

(* What becomes of the turn the relay follows.                                 *)
LEMMA TurnMoves ==
  ASSUME Typed, Next
  PROVE  \/ relay'.turn = relay.turn
         \/ relay'.turn = None /\ ReadEof
         \/ relay'.turn = None /\ ReadEvent /\ Head(events).type = "terminal"
            /\ Head(events).turn = relay.turn
         \/ relay'.turn = None /\ \E t \in Turns : FallbackFires(t) /\ t = relay.turn
         \/ SendFinish /\ ~moved /\ relay'.turn = person.turn
         \/ ReadEvent /\ Head(events).type = "turn_started" /\ relay'.turn = Head(events).turn
<1>n. relay \in Relays /\ person \in Task /\ watchdog \in Task
  BY SMTT(30) DEF Typed, Shape, RelayShape, TaskShape
<1>1. CASE SendFinish
  <2>1. relay' = IF ~moved THEN Active(WithTurn(relay, person.turn)) ELSE Touched(relay)
    BY <1>1 DEF SendFinish, MaySeed
  <2>2. person.turn \in Turns \cup {None}
    BY SMTT(30), <1>n DEF Task
  <2>3. IF ~moved THEN relay'.turn = person.turn ELSE relay'.turn = relay.turn
    BY SMTT(30), <1>n, <2>1, <2>2, RelayMoves
  <2> QED  BY Zenon, <1>1, <2>3
<1>2. CASE StopClears
  <2>1. relay' = Settled(relay)
    BY SMTT(30), <1>2 DEF StopClears
  <2>2. relay'.turn = relay.turn
    BY <1>n, <2>1, RelayMoves
  <2> QED  BY ZenonT(30), <2>2
<1>3. CASE AnswerAnswered
  <2>1. relay' \in {relay, Answered(relay, person.ask)}
    BY <1>3 DEF AnswerAnswered
  <2>2. relay'.turn = relay.turn
    BY ZenonT(30), <1>n, <2>1 DEF Answered, Relays
  <2> QED  BY <2>2
<1>4. CASE WatchdogTick
  <2>1. relay' = Expired(relay)
    BY <1>4 DEF WatchdogTick
  <2>2. relay'.turn = relay.turn
    BY <1>n, <2>1 DEF Expired, Relays
  <2> QED  BY <2>2
<1>5. CASE WatchdogAnswered
  <2>1. \/ UNCHANGED relay
        \/ relay' = [relay EXCEPT !.stopAsked = @ \/ (relay.timedOut /\ relay.turn = watchdog.turn)]
    BY <1>5 DEF WatchdogAnswered
  <2>2. relay'.turn = relay.turn
    BY SMTT(30), <1>n, <2>1 DEF Relays
  <2> QED  BY <2>2
<1>6. CASE \E t \in Turns : FallbackFires(t)
  <2>1. PICK t \in Turns : FallbackFires(t)
    BY <1>6
  <2>2. CASE OwnsTurn(t)
    <3>1. relay' = Ended(relay) /\ t = relay.turn
      BY SMTT(30), <2>1, <2>2 DEF FallbackFires, OwnsTurn
    <3>2. relay'.turn = None
      BY SMTT(30), <1>n, <3>1, RelayMoves
    <3> QED  BY <2>1, <3>1, <3>2
  <2>3. CASE ~OwnsTurn(t)
    BY SMTT(30), <2>1, <2>3 DEF FallbackFires, relayVars
  <2> QED  BY <2>2, <2>3
<1>7. CASE ReadEof
  <2>1. relay' \in {relay, Ended(relay)}
    BY SMTT(30), <1>7 DEF ReadEof, relayVars
  <2>2. relay'.turn \in {relay.turn, None}
    BY SMTT(30), <1>n, <2>1, RelayMoves
  <2> QED  BY <1>7, <2>2
<1>8. CASE ReadEvent
  <2>1. events # << >> /\ relay' = Effect(Head(events))
    BY <1>8 DEF ReadEvent
  <2>2. /\ Head(events) \in Reports /\ Sound(Head(events), used.asks)
        /\ used.asks \in 0..MaxIncidents
    BY SMTT(30), <2>1, EventTaken DEF Typed, Shape, PipeShape, CountShape, Counts
  <2> DEFINE e == Head(events)
  <2>3. /\ e.type = "turn_started" => relay'.turn = e.turn
        /\ e.type = "terminal" => IF CompletionMatches(e.turn) THEN relay'.turn = None
                                  ELSE relay' = relay
        /\ e.type \in {"ask", "activity", "ok", "error"} => relay'.turn = relay.turn
    BY SMTT(30), <1>n, <2>1, <2>2, EventMoves
  <2>4. e.type \in {"turn_started", "activity", "ask", "terminal", "ok", "error"}
    BY <2>2 DEF Reports
  <2> HIDE DEF e
  <2> QED  BY ZenonT(30), <1>8, <2>3, <2>4 DEF CompletionMatches, e
<1>9. CASE \/ SendBegin \/ SendRefused \/ SendWrite \/ StopBegin \/ StopWrite
            \/ StopAnswered \/ (\E a \in Asks : AnswerBegin(a)) \/ AnswerWrite
            \/ WriteFails \/ PersonTimesOut \/ Silence \/ WatchdogCheck
            \/ WatchdogWrite \/ WatchdogTimesOut \/ TakeSend \/ LoseSend \/ TakeCancel
            \/ StopDrains \/ TakeAnswer \/ (\E w \in Requesters : StopIsSlow(w))
            \/ SdkActs \/ SdkEnds \/ SdkContinues \/ SdkAsks \/ StreamDies \/ WorkerDies
  <2>1. UNCHANGED <<relay>>
    BY Zenon, <1>9, PersonFrames, TaskFrames, ReaderFrames, WorkerFrames, SdkFrames
  <2> QED  BY <2>1
<1> QED  BY ZenonT(30), <1>1, <1>2, <1>3, <1>4, <1>5, <1>6, <1>7, <1>8, <1>9
            DEF Next, Person, Tasks, Reader, Worker

(* Which step answers a request with event x.                                  *)
Answers(x) ==
  \/ TakeCancel /\ Head(cmds).to = x.to /\ (x.type = "ok" => entry.stop = "stopped")
  \/ TakeAnswer /\ Head(cmds).to = x.to /\ (x.type = "ok" => Head(cmds).ask \in asked)
  \/ StopDrains /\ x.to \in waiters
  \/ StopIsSlow(x.to) /\ x.type = "error"

(* Where the event at place i of the worker's stdout, written by this step,    *)
(* can come from.                                                              *)
Fresh(i) ==
  /\ events'[i].type = "terminal" =>
       \/ StopDrains /\ events'[i].turn = entry.stopped
       \/ SdkEnds /\ events'[i].turn = Armed.turn /\ i = Len(events')
       \/ StreamDies /\ events'[i].turn = entry.turn
  /\ events'[i].type = "turn_started" =>
       /\ SdkActs \/ SdkEnds
       /\ Streaming /\ Arms /\ events'[i].turn = MaxSends + used.mints + 1 /\ i < Len(events')
  /\ events'[i].type = "ask" => SdkAsks /\ events'[i].ask = used.asks + 1
  /\ events'[i].to # "nobody" =>
       Answers(events'[i]) /\ (StopDrains \/ i = Len(events) + 1)

(* The events on their way stay in place, new ones come behind them.           *)
LEMMA EventsMove ==
  ASSUME Typed, Next, ~ReadEvent
  PROVE  \A i \in DOMAIN events' :
           \/ /\ i \in DOMAIN events /\ events'[i].type = events[i].type
              /\ events'[i].turn = events[i].turn /\ events'[i].ask = events[i].ask
              /\ events'[i].to = events[i].to \/ events'[i].to = "nobody"
           \/ i > Len(events) /\ Fresh(i)
<1> DEFINE Goal == \A i \in DOMAIN events' :
             \/ /\ i \in DOMAIN events /\ events'[i].type = events[i].type
                /\ events'[i].turn = events[i].turn /\ events'[i].ask = events[i].ask
                /\ events'[i].to = events[i].to \/ events'[i].to = "nobody"
             \/ i > Len(events) /\ Fresh(i)
<1>n. /\ events \in Seq(Reports) /\ cmds \in Seq(Commands) /\ entry \in Entries
      /\ used.asks \in 0..MaxIncidents
  BY SMTT(30) DEF Typed, Shape, PipeShape, WorkerShape, CountShape, Counts
<1>e. ASSUME NEW x \in Reports, Emit(<<x>>),
             x.type = "terminal" => StreamDies /\ x.turn = entry.turn, x.type # "turn_started",
             x.type = "ask" => SdkAsks /\ x.ask = used.asks + 1,
             x.to # "nobody" => Answers(x)
      PROVE  Goal
  <2>1. /\ events' \in Seq(Reports) /\ Flow(events, events', 0, {x})
        /\ Len(events') = Len(events) + 1
    BY SMTT(30), <1>n, <1>e, Emitted
  <2>2. \A i \in DOMAIN events' :
          \/ i \in DOMAIN events /\ events'[i] = events[i]
          \/ i > Len(events) /\ i = Len(events) + 1 /\ events'[i] = x
    BY <1>n, <2>1 DEF Flow
  <2> QED  BY Zenon, <1>e, <2>2 DEF Fresh
<1>r. ASSUME NEW who \in Requesters, NEW verdict \in {"ok", "error"},
             Emit(<<Reply(who, verdict)>>), Answers(Reply(who, verdict))
      PROVE  Goal
  <2>1. Reply(who, verdict) \in Reports /\ Reply(who, verdict).type = verdict
    BY ReplyMade
  <2> HIDE DEF Goal
  <2> QED  BY <1>e, <1>r, <2>1
<1>1. CASE PersonTimesOut \/ WatchdogTimesOut
  <2>1. \E who \in Requesters : events' = ForgetIn(events, who)
    BY SMTT(30), <1>1 DEF PersonTimesOut, WatchdogTimesOut, Requesters
  <2>2. /\ DOMAIN events' = DOMAIN events
        /\ \A i \in DOMAIN events : /\ events'[i].type = events[i].type
                                    /\ events'[i].turn = events[i].turn
                                    /\ events'[i].ask = events[i].ask
                                    /\ events'[i].to = events[i].to \/ events'[i].to = "nobody"
    BY SMTT(30), <1>n, <2>1, ForgottenEvents
  <2> QED  BY Zenon, <2>2
<1>2. CASE TakeSend
  <2>1. Emit(<<Event("activity", None)>>)
    BY <1>2 DEF TakeSend
  <2>2. /\ Event("activity", None) \in Reports /\ Event("activity", None).type = "activity"
        /\ Event("activity", None).to = "nobody"
    BY SMTT(30), EventMade
  <2> HIDE DEF Goal
  <2>3. Goal
    BY SMTT(30), <1>e, <2>1, <2>2
  <2> QED  BY <2>3 DEF Goal
<1>3. CASE TakeCancel \/ TakeAnswer
  <2> DEFINE who == Head(cmds).to
  <2>0. cmds # << >>
    BY <1>3 DEF TakeCancel, TakeAnswer, Command
  <2>2. who \in Requesters
    BY <1>n, <2>0, CommandTaken DEF Commands
  <2>1. \/ UNCHANGED events
        \/ Emit(<<Reply(who, "error")>>)
        \/ /\ Emit(<<Reply(who, "ok")>>)
           /\ TakeCancel => entry.stop = "stopped"
           /\ TakeAnswer => Head(cmds).ask \in asked
    BY SMTT(30), <1>3 DEF TakeCancel, TakeAnswer, Command
  <2>3. CASE UNCHANGED events
    BY ZenonT(30), <2>3
  <2>4. CASE Emit(<<Reply(who, "error")>>)
    <3>1. Answers(Reply(who, "error"))
      BY ZenonT(30), <1>3, <2>2, ReplyMade DEF Answers
    <3> QED  BY ZenonT(30), <1>r, <2>2, <2>4, <3>1
  <2>5. CASE /\ Emit(<<Reply(who, "ok")>>)
             /\ TakeCancel => entry.stop = "stopped"
             /\ TakeAnswer => Head(cmds).ask \in asked
    <3>1. Answers(Reply(who, "ok"))
      BY ZenonT(30), <1>3, <2>2, <2>5, ReplyMade DEF Answers
    <3> QED  BY ZenonT(30), <1>r, <2>2, <2>5, <3>1
  <2> QED  BY <2>1, <2>3, <2>4, <2>5
<1>4. CASE StopDrains
  <2>1. \A i \in DOMAIN events' :
          \/ i \in DOMAIN events /\ events'[i] = events[i]
          \/ i = Len(events) + 1 /\ events'[i] = Event("terminal", entry.stopped)
          \/ i > Len(events) + 1 /\ \E w \in waiters : events'[i] = Reply(w, "ok")
    BY Zenon, <1>4, Drained
  <2>2. /\ Event("terminal", entry.stopped).type = "terminal"
        /\ Event("terminal", entry.stopped).turn = entry.stopped
        /\ Event("terminal", entry.stopped).to = "nobody"
    BY <1>n, EventMade DEF Entries
  <2>3. \A w \in waiters : Reply(w, "ok").type = "ok" /\ Reply(w, "ok").to = w
    BY ReplyMade DEF Typed, Shape, WorkerShape
  <2>4. Len(events) \in Nat
    BY <1>n
  <2> SUFFICES ASSUME NEW i \in DOMAIN events', ~(i \in DOMAIN events /\ events'[i] = events[i])
               PROVE  i > Len(events) /\ Fresh(i)
    BY Zenon
  <2>5. CASE i = Len(events) + 1 /\ events'[i] = Event("terminal", entry.stopped)
    BY <1>4, <2>2, <2>4, <2>5 DEF Fresh
  <2>6. CASE i > Len(events) + 1 /\ \E w \in waiters : events'[i] = Reply(w, "ok")
    <3>1. events'[i].type = "ok" /\ events'[i].to \in waiters
      BY Zenon, <2>3, <2>6
    <3>2. DOMAIN events' \subseteq Nat
      BY SMTT(30), PipeStep DEF PipeShape
    <3>3. Answers(events'[i])
      BY SMTT(30), <1>4, <3>1 DEF Answers
    <3> QED  BY SMTT(30), <1>4, <2>4, <2>6, <3>1, <3>2, <3>3 DEF Fresh
  <2> QED  BY Zenon, <2>1, <2>5, <2>6
<1>5. CASE \E w \in Requesters : StopIsSlow(w)
  <2>1. PICK w \in Requesters : StopIsSlow(w)
    BY <1>5
  <2>2. Emit(<<Reply(w, "error")>>)
    BY SMTT(30), <2>1 DEF StopIsSlow
  <2>3. Answers(Reply(w, "error"))
    BY SMTT(30), <2>1, ReplyMade DEF Answers
  <2> QED  BY ZenonT(30), <1>r, <2>2, <2>3
<1>6. CASE SdkActs
  <2>1. Streaming /\ Emit(Announcement \o <<Event("activity", None)>>)
    BY <1>6 DEF SdkActs
  <2>2. /\ Event("activity", None) \in Reports /\ Event("activity", None).type = "activity"
        /\ Event("activity", None).to = "nobody"
    BY SMTT(30), EventMade
  <2>3. \A i \in DOMAIN events' :
          \/ i \in DOMAIN events /\ events'[i] = events[i]
          \/ /\ i > Len(events) /\ i < Len(events') /\ Arms
             /\ events'[i] = Event("turn_started", MaxSends + used.mints + 1)
          \/ i > Len(events) /\ i = Len(events') /\ events'[i] = Event("activity", None)
    BY Zenon, <2>1, <2>2, Announced
  <2>4. Arms => /\ Event("turn_started", MaxSends + used.mints + 1).type = "turn_started"
                /\ Event("turn_started", MaxSends + used.mints + 1).turn = MaxSends + used.mints + 1
                /\ Event("turn_started", MaxSends + used.mints + 1).to = "nobody"
    BY SMTT(30), <2>1, MintInRange, EventMade DEF Turns
  <2> SUFFICES ASSUME NEW i \in DOMAIN events', ~(i \in DOMAIN events /\ events'[i] = events[i])
               PROVE  i > Len(events) /\ Fresh(i)
    BY Zenon
  <2> QED  BY Zenon, <1>6, <2>1, <2>2, <2>3, <2>4 DEF Fresh
<1>7. CASE SdkEnds
  <2>1. Streaming /\ Emit(Announcement \o <<Event("terminal", Armed.turn)>>)
    BY <1>7 DEF SdkEnds
  <2>2. /\ Event("terminal", Armed.turn) \in Reports /\ Event("terminal", Armed.turn).type = "terminal"
        /\ Event("terminal", Armed.turn).turn = Armed.turn
        /\ Event("terminal", Armed.turn).to = "nobody"
    BY SMTT(30), <2>1, ArmedEntry, EventMade DEF Entries
  <2>3. \A i \in DOMAIN events' :
          \/ i \in DOMAIN events /\ events'[i] = events[i]
          \/ /\ i > Len(events) /\ i < Len(events') /\ Arms
             /\ events'[i] = Event("turn_started", MaxSends + used.mints + 1)
          \/ i > Len(events) /\ i = Len(events') /\ events'[i] = Event("terminal", Armed.turn)
    BY Zenon, <2>1, <2>2, Announced
  <2>4. Arms => /\ Event("turn_started", MaxSends + used.mints + 1).type = "turn_started"
                /\ Event("turn_started", MaxSends + used.mints + 1).turn = MaxSends + used.mints + 1
                /\ Event("turn_started", MaxSends + used.mints + 1).to = "nobody"
    BY SMTT(30), <2>1, MintInRange, EventMade DEF Turns
  <2> SUFFICES ASSUME NEW i \in DOMAIN events', ~(i \in DOMAIN events /\ events'[i] = events[i])
               PROVE  i > Len(events) /\ Fresh(i)
    BY Zenon
  <2> QED  BY ZenonT(30), <1>7, <2>1, <2>2, <2>3, <2>4 DEF Fresh
<1>8. CASE SdkAsks
  <2>1. PICK k \in {"approval", "question"} : Emit(<<Asking(used.asks + 1, k)>>)
    BY Zenon, <1>8 DEF SdkAsks, Asking
  <2>2. used.asks + 1 \in 0..MaxIncidents
    BY <1>n, <1>8, TurnControlAssumption DEF SdkAsks, Typed, Shape, CountShape, Counts
  <2>3. /\ Asking(used.asks + 1, k) \in Reports /\ Asking(used.asks + 1, k).type = "ask"
        /\ Asking(used.asks + 1, k).ask = used.asks + 1 /\ Asking(used.asks + 1, k).to = "nobody"
    BY <2>2, AskMade
  <2> HIDE DEF Goal
  <2>4. Goal
    BY <1>e, <1>8, <2>1, <2>3
  <2> QED  BY <2>4 DEF Goal
<1>9. CASE StreamDies
  <2>1. Emit(<<Event("terminal", entry.turn)>>)
    BY SMTT(30), <1>9 DEF StreamDies
  <2>2. /\ Event("terminal", entry.turn) \in Reports /\ Event("terminal", entry.turn).type = "terminal"
        /\ Event("terminal", entry.turn).turn = entry.turn
        /\ Event("terminal", entry.turn).to = "nobody"
    BY SMTT(30), <1>n, EventMade DEF Entries
  <2> HIDE DEF Goal
  <2>3. Goal
    BY <1>e, <1>9, <2>1, <2>2
  <2> QED  BY <2>3 DEF Goal
<1>10. CASE \/ SendBegin \/ SendRefused \/ SendWrite \/ SendFinish \/ StopBegin
            \/ StopClears \/ StopWrite \/ StopAnswered
            \/ (\E a \in Asks : AnswerBegin(a)) \/ AnswerWrite \/ AnswerAnswered
            \/ WriteFails \/ Silence \/ WatchdogTick \/ WatchdogCheck \/ WatchdogWrite
            \/ WatchdogAnswered \/ (\E t \in Turns : FallbackFires(t)) \/ ReadEof
            \/ LoseSend \/ SdkContinues \/ WorkerDies
  <2>1. UNCHANGED <<events>>
    BY Zenon, <1>10, PersonFrames, TaskFrames, ReaderFrames, WorkerFrames, SdkFrames
  <2> QED  BY Zenon, <2>1
<1> QED  BY Zenon, <1>1, <1>2, <1>3, <1>4, <1>5, <1>6, <1>7, <1>8, <1>9, <1>10
            DEF Next, Person, Tasks, Reader, Worker

(* Ids are given once, and only grow in number.                                *)
LEMMA BornStays ==
  ASSUME Typed, Next, NEW t, Born(t)
  PROVE  Born(t)'
<1>1. /\ used.sends \in Nat /\ used.sends <= used'.sends /\ used'.sends \in Nat
      /\ used.mints \in Nat /\ used.mints <= used'.mints /\ used'.mints \in Nat
  BY SMTT(30), CountStep DEF Typed, Shape, CountShape, Counts
<1>2. CASE t \in Minted /\ t <= MaxSends + used.mints
  <2>1. t <= MaxSends + used'.mints
    BY SMTT(30), <1>1, <1>2, TurnControlAssumption DEF Minted
  <2> QED  BY <1>2, <2>1 DEF Born
<1>3. CASE t \in Prompts /\ t <= used.sends /\ ~(person.op = "send" /\ t = person.turn)
  <2>1. t <= used'.sends
    BY SMTT(30), <1>1, <1>3, TurnControlAssumption DEF Prompts
  <2>2. ~(person'.op = "send" /\ t = person'.turn)
    <3>1. CASE SendBegin
      <4>1. person'.turn = used.sends + 1
        BY <3>1, PromptMoves
      <4> QED  BY SMTT(30), <1>1, <1>3, <4>1, TurnControlAssumption DEF Prompts
    <3>2. CASE ~SendBegin
      BY Zenon, <1>3, <3>2, PromptMoves
    <3> QED  BY <3>1, <3>2
  <2> QED  BY <1>3, <2>1, <2>2 DEF Born
<1> QED  BY <1>2, <1>3 DEF Born

(* A prompt the worker has read is not written again.                          *)
LEMMA BegunStays ==
  ASSUME Typed, Next, NEW t, Begun(t)
  PROVE  Begun(t)'
<1>1. CASE t = None
  BY <1>1 DEF Begun
<1>2. CASE t # None
  <2>1. Born(t) /\ \A i \in DOMAIN cmds : cmds[i].type = "send" => cmds[i].turn # t
    BY SMTT(30), <1>2 DEF Begun
  <2>2. Born(t)'
    BY <2>1, BornStays
  <2>3. SendWrite => person.turn # t
    <3>1. SendWrite => person.op = "send"
      BY PromptMoves
    <3>2. person.op = "send" => person.turn \in Prompts
      BY SMTT(30), TurnControlAssumption DEF Typed, Shape, CountShape, Counts, TaskShape,
                                             Prompts
    <3>3. Prompts \cap Minted = {}
      BY SMTT(30), TurnControlAssumption DEF Prompts, Minted
    <3> QED  BY SMTT(30), <2>1, <3>1, <3>2, <3>3 DEF Born
  <2>4. ASSUME NEW i \in DOMAIN cmds', cmds'[i].type = "send" PROVE cmds'[i].turn # t
    BY SMTT(30), <2>1, <2>3, <2>4, CommandsMove DEF Same, Written
  <2> QED  BY Zenon, <2>2, <2>4 DEF Begun
<1> QED  BY <1>1, <1>2

(* A prompt the worker takes up is one it has read and no other; it runs none  *)
(* it has read before.                                                         *)
LEMMA TakenUp ==
  ASSUME Typed, TakeSend
  PROVE  \E t : t = Head(cmds).turn /\ t # None /\ ~Begun(t) /\ Begun(t)'
<1>1. cmds \in Seq(Commands) /\ used.sends \in 0..MaxSends /\ MaxSends \in Nat
  BY SMTT(30), TurnControlAssumption DEF Typed, Shape, PipeShape, CountShape, Counts
<1>2. /\ 1 \in DOMAIN cmds /\ Head(cmds) = cmds[1] /\ cmds[1].type = "send" /\ cmds' = Tail(cmds)
      /\ \A i \in DOMAIN cmds' : i + 1 \in DOMAIN cmds /\ cmds'[i] = cmds[i + 1]
      /\ DOMAIN cmds' \subseteq Nat /\ cmds # << >>
  <2>1. cmds # << >> /\ Head(cmds).type = "send" /\ cmds' = Tail(cmds)
    BY SMTT(30), <1>1, TakenFrom DEF TakeSend, Command
  <2> QED  BY <1>1, <2>1, CommandTaken
<1>3. PICK t : t = Head(cmds).turn
  OBVIOUS
<1>4. t \in 1..used.sends /\ t \in Nat /\ t # None
  BY SMTT(30), <1>1, <1>2, <1>3 DEF Typed, Ordered, None
<1>5. ~Begun(t)
  BY <1>2, <1>3, <1>4 DEF Begun
<1>6. UNCHANGED <<person, used>>
  BY SMTT(30) DEF TakeSend, relayIdle, taskVars
<1>7. Born(t)'
  <2>1. person.op = "send" => t < person.turn
    BY SMTT(30), <1>2, <1>3 DEF Typed, Ordered
  <2>2. person.op = "send" => person.turn \in Nat
    BY <1>1 DEF Typed, Ordered
  <2> QED  BY SMTT(30), <1>1, <1>4, <1>6, <2>1, <2>2 DEF Born, Prompts
<1>8. ASSUME NEW i \in DOMAIN cmds', cmds'[i].type = "send" PROVE cmds'[i].turn # t
  <2> DEFINE j == i + 1
  <2>1. j \in DOMAIN cmds /\ cmds'[i] = cmds[j] /\ 1 < j
    BY SMTT(30), <1>2
  <2> HIDE DEF j
  <2>2. cmds[1].turn < cmds[j].turn /\ cmds[j].turn \in 1..used.sends
    BY SMTT(30), <1>2, <1>8, <2>1 DEF Typed, Ordered
  <2> QED  BY SMTT(30), <1>1, <1>2, <1>3, <1>4, <2>1, <2>2
<1>9. Begun(t)'
  BY Zenon, <1>7, <1>8 DEF Begun
<1> QED  BY <1>3, <1>4, <1>5, <1>9

(* The id the worker mints is a new one.                                       *)
LEMMA MintIsNew ==
  ASSUME Typed, Streaming, Arms, NEW m, m = MaxSends + used.mints + 1
  PROVE  /\ m \in Minted /\ m # None /\ ~Begun(m)
         /\ used'.mints = used.mints + 1 /\ Typed' => Begun(m)'
<1>1. m \in Minted /\ used.mints \in Nat /\ MaxSends \in Nat
  BY MintInRange, TurnControlAssumption DEF Typed, Shape, CountShape, Counts
<1>2. m # None /\ m \notin Prompts
  BY SMTT(30), <1>1 DEF Minted, None, Prompts
<1>3. ~Born(m)
  BY SMTT(30), <1>1, <1>2 DEF Born
<1>4. ASSUME used'.mints = used.mints + 1, Typed' PROVE Begun(m)'
  <2>1. Born(m)'
    BY SMTT(30), <1>1, <1>4 DEF Born
  <2>2. \A i \in DOMAIN cmds' : cmds'[i].type = "send" => cmds'[i].turn \in 1..MaxSends
    BY <1>1, <1>4 DEF Typed, Shape, CountShape, Counts, Ordered
  <2> QED  BY SMTT(30), <1>2, <2>1, <2>2 DEF Begun, Prompts
<1> QED  BY SMTT(30), <1>1, <1>2, <1>3, <1>4 DEF Begun

(* A turn that is over stays over: the worker runs prompts it has not read     *)
(* before, and new turns.                                                      *)
LEMMA OverStays ==
  ASSUME Typed, Next, NEW t, Over(t)
  PROVE  Over(t)'
<1>1. Begun(t) /\ ~(entry.running /\ entry.turn = t)
  BY DEF Over
<1>2. Begun(t)'
  BY <1>1, BegunStays
<1>3. ASSUME entry'.running, entry'.turn = t PROVE FALSE
  <2>1. CASE TakeSend /\ entry'.turn = Head(cmds).turn
    BY Zenon, <1>1, <1>3, <2>1, TakenUp
  <2>2. CASE SdkActs /\ Streaming /\ Arms /\ entry'.turn = MaxSends + used.mints + 1
    BY Zenon, <1>1, <1>3, <2>2, MintIsNew
  <2> QED  BY Zenon, <1>1, <1>3, <2>1, <2>2, EntryMoves
<1> QED  BY Zenon, <1>2, <1>3 DEF Over

(* What the worker announces and ends is a turn that has begun, and an ended   *)
(* one is over.                                                                *)
LEMMA IdsStep ==
  ASSUME Typed, Ids, Next
  PROVE  Ids'
<1>t. Typed'
  BY TypedStep
<1>m. ASSUME Streaming, Arms, SdkActs \/ SdkEnds, NEW m, m = MaxSends + used.mints + 1
      PROVE  Begun(m)'
  <2>1. used'.mints = used.mints + 1
    BY <1>m DEF SdkActs, SdkEnds, CountMint, Typed, Shape, CountShape, Counts
  <2> QED  BY <1>t, <1>m, <2>1, MintIsNew
<1>1. ASSUME NEW t, t = entry'.turn PROVE Begun(t)'
  <2>1. CASE t \in {entry.turn, None}
    <3>1. Begun(t)
      BY <2>1 DEF Ids, Begun
    <3> QED  BY SMTT(30), <3>1, BegunStays
  <2>2. CASE TakeSend /\ t = Head(cmds).turn
    BY Zenon, <2>2, TakenUp
  <2>3. CASE SdkActs /\ Streaming /\ Arms /\ t = MaxSends + used.mints + 1
    BY SMTT(30), <2>3, <1>m
  <2> QED  BY Zenon, <1>1, <2>1, <2>2, <2>3, EntryMoves
<1>2. ASSUME NEW t, t = entry'.stopped PROVE Begun(t)'
  <2>1. Begun(t)
    <3>1. t \in {entry.stopped, entry.turn}
      BY Zenon, <1>2, EntryMoves
    <3> QED  BY <3>1 DEF Ids
  <2> QED  BY Zenon, <2>1, BegunStays
<1>3. ASSUME ~entry'.running, NEW t, Begun(t)' PROVE Over(t)'
  BY <1>3 DEF Over
<1>o. /\ entry \in Entries /\ events \in Seq(Reports)
  BY SMTT(30) DEF Typed, Shape, WorkerShape, PipeShape
<1>4. ASSUME NEW i \in DOMAIN events', NEW t, t = events'[i].turn
      PROVE  /\ events'[i].type = "terminal" => Over(t)'
             /\ events'[i].type = "turn_started" => Begun(t)'
  <2>1. ASSUME NEW j \in DOMAIN events, events'[i].type = events[j].type, t = events[j].turn
        PROVE  /\ events'[i].type = "terminal" => Over(t)'
               /\ events'[i].type = "turn_started" => Begun(t)'
    <3>1. /\ events[j].type = "terminal" => Over(t)
          /\ events[j].type = "turn_started" => Begun(t)
      BY SMTT(30), <2>1 DEF Ids
    <3> QED  BY SMTT(30), <2>1, <3>1, OverStays, BegunStays
  <2>2. CASE ReadEvent
    <3>1. events # << >> /\ events' = Tail(events)
      BY SMTT(30), <2>2 DEF ReadEvent
    <3>2. i + 1 \in DOMAIN events /\ events'[i] = events[i + 1]
      BY SMTT(30), <1>o, <3>1, EventTaken
    <3> QED  BY <1>4, <2>1, <3>2
  <2>3. CASE ~ReadEvent /\ Fresh(i)
    <3>1. ASSUME events'[i].type = "terminal" PROVE Over(t)'
      <4>1. CASE StopDrains /\ t = entry.stopped
        <5>1. entry' = [entry EXCEPT !.stop = "stopped", !.live = FALSE, !.running = FALSE]
          BY <4>1 DEF StopDrains
        <5>2. entry'.running = FALSE
          BY SMTT(30), <1>o, <5>1 DEF Entries
        <5>3. Begun(t)
          BY <4>1 DEF Ids
        <5> QED  BY <1>3, <5>2, <5>3, BegunStays
      <4>2. CASE StreamDies /\ t = entry.turn
        <5>1. entry' = [entry EXCEPT !.live = FALSE, !.running = FALSE, !.turn = None]
          BY <4>2 DEF StreamDies
        <5>2. entry'.running = FALSE
          BY <1>o, <5>1 DEF Entries
        <5>3. Begun(t)
          BY <4>2 DEF Ids
        <5> QED  BY <1>3, <5>2, <5>3, BegunStays
      <4>3. CASE SdkEnds /\ t = Armed.turn
        <5>1. Streaming /\ entry' = [Armed EXCEPT !.running = FALSE, !.turn = None]
          BY <4>3 DEF SdkEnds
        <5>2. Armed \in Entries /\ Armed.turn = IF Arms THEN MaxSends + used.mints + 1 ELSE entry.turn
          BY <5>1, ArmedEntry
        <5>3. entry'.running = FALSE
          BY <5>1, <5>2 DEF Entries
        <5>4. Begun(t)'
          <6>1. CASE Arms
            BY SMTT(30), <1>m, <4>3, <5>1, <5>2, <6>1
          <6>2. CASE ~Arms
            <7>1. Begun(t)
              BY <4>3, <5>2, <6>2 DEF Ids
            <7> QED  BY <7>1, BegunStays
          <6> QED  BY <6>1, <6>2
        <5> QED  BY <1>3, <5>3, <5>4
      <4> QED  BY Zenon, <1>4, <2>3, <3>1, <4>1, <4>2, <4>3 DEF Fresh
    <3>2. ASSUME events'[i].type = "turn_started" PROVE Begun(t)'
      BY Zenon, <1>m, <1>4, <2>3, <3>2 DEF Fresh
    <3> QED  BY SMTT(30), <3>1, <3>2
  <2> QED  BY Zenon, <1>4, <2>1, <2>2, <2>3, EventsMove
<1>5. ASSUME NEW t \in terminated' PROVE Over(t)'
  <2>1. Over(t)
    <3>1. CASE t \in terminated
      BY <3>1 DEF Ids
    <3>2. CASE t \notin terminated
      <4>1. ReadEvent
        <5>1. ~ReadEvent => UNCHANGED terminated
          BY Zenon, PersonFrames, TaskFrames, ReaderFrames, WorkerFrames, SdkFrames
             DEF Next, Person, Tasks, Reader, Worker
        <5> QED  BY SMTT(30), <3>2, <5>1
      <4>2. events # << >> /\ Head(events).type = "terminal" /\ t = Head(events).turn
        BY <3>2, <4>1 DEF ReadEvent
      <4>3. 1 \in DOMAIN events /\ Head(events) = events[1]
        BY <1>o, <4>2, EventTaken
      <4> QED  BY <4>2, <4>3 DEF Ids
    <3> QED  BY <3>1, <3>2
  <2> QED  BY SMTT(30), <2>1, OverStays
<1>6. ASSUME NEW t, t = relay'.turn, t # None PROVE Born(t)'
  <2>1. CASE t = relay.turn
    <3>1. Born(t)
      BY <1>6, <2>1 DEF Ids
    <3> QED  BY Zenon, <3>1, BornStays
  <2>2. CASE SendFinish /\ t = person.turn
    <3>1. person.op = "sent" /\ person' = Idle /\ UNCHANGED used
      BY <2>2 DEF SendFinish
    <3>2. t \in Prompts /\ t <= used.sends
      BY SMTT(30), <2>2, <3>1, TurnControlAssumption DEF Typed, Shape, TaskShape, CountShape,
                                                         Counts, Prompts
    <3>3. person'.op # "send"
      BY <3>1 DEF Idle
    <3> QED  BY <3>1, <3>2, <3>3 DEF Born
  <2>3. CASE ReadEvent /\ Head(events).type = "turn_started" /\ t = Head(events).turn
    <3>1. events # << >>
      BY SMTT(30), <2>3 DEF ReadEvent
    <3>2. 1 \in DOMAIN events /\ Head(events) = events[1]
      BY SMTT(30), <1>o, <3>1, EventTaken
    <3>3. Begun(t)
      BY SMTT(30), <2>3, <3>2 DEF Ids
    <3>4. Born(t)
      BY <1>6, <3>3 DEF Begun
    <3> QED  BY Zenon, <3>4, BornStays
  <2> QED  BY Zenon, <1>6, <2>1, <2>2, <2>3, TurnMoves
<1> QED  BY Zenon, <1>1, <1>2, <1>4, <1>5, <1>6 DEF Ids

(* A turn that has ended is not announced again, and the send that started it  *)
(* does not make it the active one.                                            *)
LEMMA SettlingStep ==
  ASSUME Typed, Ids, Settling, Next
  PROVE  Settling'
<1>n. events \in Seq(Reports) /\ Len(events) \in Nat /\ DOMAIN events = 1..Len(events)
  BY DEF Typed, Shape, PipeShape
<1>d. DOMAIN events' \subseteq Nat /\ Len(events') \in Nat /\ DOMAIN events' = 1..Len(events')
  <2>1. events' \in Seq(Reports)
    BY SMTT(30), PipeStep DEF PipeShape
  <2> QED  BY SMTT(30), <2>1
<1>b. /\ \A t \in terminated : Begun(t)
      /\ \A i \in DOMAIN events : events[i].type = "terminal" => Begun(events[i].turn)
      /\ Begun(entry.stopped) /\ Begun(entry.turn)
  BY SMTT(30) DEF Ids, Over
<1>r. ReadEvent => /\ events # << >> /\ events' = Tail(events) /\ 1 \in DOMAIN events
                   /\ Head(events) = events[1]
                   /\ \A i \in DOMAIN events' : i + 1 \in DOMAIN events /\ events'[i] = events[i + 1]
  BY <1>n, EventTaken DEF ReadEvent
<1>t. terminated' = IF ReadEvent /\ events[1].type = "terminal"
                    THEN terminated \cup {events[1].turn} ELSE terminated
  <2>1. ~ReadEvent => UNCHANGED terminated
    BY Zenon, PersonFrames, TaskFrames, ReaderFrames, WorkerFrames, SdkFrames
       DEF Next, Person, Tasks, Reader, Worker
  <2>2. ReadEvent => terminated' = IF Head(events).type = "terminal"
                                   THEN terminated \cup {Head(events).turn} ELSE terminated
    BY DEF ReadEvent
  <2> QED  BY SMTT(30), <1>r, <2>1, <2>2
<1>m. \A m : Streaming /\ Arms /\ m = MaxSends + used.mints + 1 => m # None /\ ~Begun(m)
  BY MintIsNew
<1>1. NoResurrection'
  <2> SUFFICES ASSUME relay'.turn # None PROVE relay'.turn \notin terminated'
    BY DEF NoResurrection
  <2>1. CASE relay'.turn = relay.turn
    <3>1. relay.turn \notin terminated
      BY <2>1 DEF Settling, NoResurrection
    <3>2. ASSUME ReadEvent, events[1].type = "terminal" PROVE relay.turn # events[1].turn
      <4>1. relay' = Effect(events[1])
        BY SMTT(30), <1>r, <3>2 DEF ReadEvent
      <4>2. /\ events[1] \in Reports /\ Sound(events[1], used.asks) /\ relay \in Relays
            /\ used.asks \in 0..MaxIncidents
        BY SMTT(30), <1>n, <1>r, <3>2 DEF Typed, Shape, PipeShape, RelayShape, CountShape,
                                          Counts
      <4>3. CompletionMatches(events[1].turn) => relay'.turn = None
        BY SMTT(30), <3>2, <4>1, <4>2, EventMoves
      <4> QED  BY SMTT(30), <4>3 DEF CompletionMatches
    <3> QED  BY SMTT(30), <1>t, <2>1, <3>1, <3>2
  <2>2. CASE SendFinish /\ ~moved /\ relay'.turn = person.turn
    <3>1. person.op = "sent" /\ UNCHANGED terminated
      BY SMTT(30), <2>2 DEF SendFinish
    <3> QED  BY SMTT(30), <2>2, <3>1 DEF Settling
  <2>3. CASE ReadEvent /\ Head(events).type = "turn_started" /\ relay'.turn = Head(events).turn
    BY <1>r, <1>t, <2>3 DEF Settling
  <2> QED  BY Zenon, <2>1, <2>2, <2>3, TurnMoves
<1>2. ASSUME NEW i \in DOMAIN events', events'[i].type = "turn_started"
      PROVE  events'[i].turn \notin terminated'
  <2>1. CASE ReadEvent
    <3> DEFINE p == i + 1
    <3>1. p \in DOMAIN events /\ events'[i] = events[p] /\ ~(p < 1) /\ 1 \in DOMAIN events
      BY SMTT(30), <1>d, <1>r, <2>1
    <3> HIDE DEF p
    <3>2. events[p].turn \notin terminated
      BY <1>2, <3>1 DEF Settling
    <3>3. events[1].type = "terminal" => events[p].turn # events[1].turn
      BY SMTT(30), <1>2, <3>1 DEF Settling
    <3> QED  BY <1>t, <3>1, <3>2, <3>3
  <2>2. CASE ~ReadEvent /\ i \in DOMAIN events /\ events'[i].type = events[i].type
             /\ events'[i].turn = events[i].turn
    BY <1>2, <1>t, <2>2 DEF Settling
  <2>3. CASE ~ReadEvent /\ Fresh(i)
    <3>1. Streaming /\ Arms /\ events'[i].turn = MaxSends + used.mints + 1
      BY <1>2, <2>3 DEF Fresh
    <3> QED  BY Zenon, <1>b, <1>m, <1>t, <2>3, <3>1
  <2> QED  BY Zenon, <2>1, <2>2, <2>3, EventsMove
<1>3. ASSUME NEW i \in DOMAIN events', NEW j \in DOMAIN events', events'[i].type = "turn_started",
             events'[j].type = "terminal", events'[i].turn = events'[j].turn
      PROVE  i < j
  <2>1. CASE ReadEvent
    <3> DEFINE p == i + 1
               q == j + 1
    <3>1. /\ p \in DOMAIN events /\ events'[i] = events[p]
          /\ q \in DOMAIN events /\ events'[j] = events[q] /\ (p < q => i < j)
      BY SMTT(30), <1>d, <1>r, <2>1
    <3> HIDE DEF p, q
    <3> QED  BY <1>3, <3>1 DEF Settling
  <2>2. CASE ~ReadEvent
    <3>1. CASE j > Len(events) /\ Fresh(j) /\ i \in DOMAIN events
      BY <1>d, <1>n, <3>1
    <3>2. CASE i > Len(events) /\ Fresh(i)
      <4>1. /\ Streaming /\ Arms /\ i < Len(events')
            /\ ~Begun(events'[i].turn)
        BY Zenon, <1>3, <1>m, <3>2 DEF Fresh
      <4>2. CASE j \in DOMAIN events /\ events'[j].type = events[j].type
                 /\ events'[j].turn = events[j].turn
        BY <1>3, <1>b, <4>1, <4>2
      <4>3. CASE Fresh(j)
        <5>1. j = Len(events')
          BY SMTT(30), <1>3, <1>b, <4>1, <4>3 DEF Fresh
        <5> QED  BY SMTT(30), <4>1, <5>1
      <4> QED  BY Zenon, <2>2, <4>2, <4>3, EventsMove
    <3>3. CASE /\ i \in DOMAIN events /\ events'[i].type = events[i].type
               /\ events'[i].turn = events[i].turn
               /\ j \in DOMAIN events /\ events'[j].type = events[j].type
               /\ events'[j].turn = events[j].turn
      BY Zenon, <1>3, <3>3 DEF Settling
    <3> QED  BY Zenon, <2>2, <3>1, <3>2, <3>3, EventsMove
  <2> QED  BY SMTT(30), <2>1, <2>2
<1>4. ASSUME person'.op \in {"send", "sent"}, ~moved'
      PROVE  relay'.turn = None /\ person'.turn \notin terminated'
  <2>1. CASE SendBegin
    <3>1. relay.turn = None /\ used.sends < MaxSends /\ UNCHANGED <<relay, terminated>>
      BY <2>1 DEF SendBegin
    <3>2. person'.turn = used.sends + 1
      BY <2>1, PromptMoves
    <3>3. used.sends \in Nat /\ MaxSends \in Nat
      BY TurnControlAssumption DEF Typed, Shape, CountShape, Counts
    <3>4. ~Begun(used.sends + 1)
      BY SMTT(30), <3>1, <3>3 DEF Begun, Born, Prompts, Minted, None
    <3> QED  BY <1>b, <3>1, <3>2, <3>4
  <2>2. CASE ~SendBegin
    <3>1. person.op \in {"send", "sent"} /\ person'.turn = person.turn
      BY Zenon, <1>4, <2>2, PromptMoves
    <3>2. CASE ReadEvent
      <4>1. ~moved /\ ~MovesTurn(events[1]) /\ relay' = Effect(events[1])
        BY Zenon, <1>4, <1>r, <3>2 DEF ReadEvent
      <4>2. relay.turn = None /\ person.turn \notin terminated
        BY SMTT(30), <3>1, <4>1 DEF Settling
      <4>3. events[1].type # "terminal" /\ events[1].type # "turn_started"
        BY <4>1, <4>2 DEF MovesTurn, CompletionMatches
      <4>4. relay'.turn = relay.turn
        <5>1. ~SendFinish
          BY SMTT(30), <1>4 DEF SendFinish, Idle
        <5> QED  BY Zenon, <1>r, <3>2, <4>2, <4>3, <5>1, TurnMoves
      <4> QED  BY SMTT(30), <1>t, <3>1, <4>2, <4>3, <4>4
    <3>3. CASE ~ReadEvent
      <4>1. ~moved
        <5>1. CASE (\E t \in Turns : FallbackFires(t)) \/ ReadEof
          BY <1>4, <5>1 DEF FallbackFires, ReadEof, relayVars
        <5>2. CASE ~((\E t \in Turns : FallbackFires(t)) \/ ReadEof)
          <6>1. UNCHANGED moved
            BY Zenon, <2>2, <3>3, <5>2, PersonFrames, TaskFrames, ReaderFrames, WorkerFrames,
               SdkFrames DEF Next, Person, Tasks, Reader, Worker
          <6> QED  BY SMTT(30), <1>4, <6>1
        <5> QED  BY SMTT(30), <5>1, <5>2
      <4>2. relay.turn = None /\ person.turn \notin terminated
        BY <3>1, <4>1 DEF Settling
      <4>3. ~SendFinish
        BY SMTT(30), <1>4 DEF SendFinish, Idle
      <4>4. relay'.turn = None
        BY Zenon, <3>3, <4>2, <4>3, TurnMoves
      <4> QED  BY <1>t, <3>1, <3>3, <4>2, <4>4
    <3> QED  BY <3>2, <3>3
  <2> QED  BY <2>1, <2>2
<1> QED  BY Zenon, <1>1, <1>2, <1>3, <1>4 DEF Settling

(* A turn whose terminal event the relay has read is never again its active    *)
(* turn, in any run: an id is given once, its announcement comes before its    *)
(* terminal, and the finishing step of send_message leaves the runtime alone   *)
(* once a turn event has landed (sessions.rs, worker.mjs).                     *)
THEOREM NothingIsResurrected == Spec => []NoResurrection
<1>1. Init => Ids /\ Settling
  BY IdsInit
<1>2. Typed /\ Ids /\ Settling /\ [Next]_vars => (Ids /\ Settling)'
  <2> SUFFICES ASSUME Typed, Ids, Settling, [Next]_vars PROVE (Ids /\ Settling)'
    OBVIOUS
  <2>1. CASE Next
    BY SMTT(30), <2>1, IdsStep, SettlingStep
  <2>2. CASE UNCHANGED vars
    BY Zenon, <2>2, Resting
  <2> QED  BY <2>1, <2>2
<1>3. Settling => NoResurrection
  BY DEF Settling
<1> QED  BY <1>1, <1>2, <1>3, TypedInit, TypedStep, PTL DEF Spec
=============================================================================
