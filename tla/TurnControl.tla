----------------------------- MODULE TurnControl -----------------------------
(* The life of a turn on one Claude thread.                                    *)
(*                                                                             *)
(* The relay (crates/relay-server: state/app/sessions.rs, approvals.rs, the    *)
(* stale-turn watchdog of mod.rs, the event handlers of claude.rs) starts,     *)
(* stops and watches turns; the worker (claude-worker/worker.mjs) runs them on *)
(* an SDK session.  They talk over two pipes, commands down and events up,     *)
(* each in order.  Operations a person asks for exclude one another (the       *)
(* session slot); the reader of events, the watchdog and the stop fallbacks do *)
(* not, and run between any two steps of such an operation.                    *)
EXTENDS Integers, Sequences, Functions

CONSTANTS
  MaxSends,     \* bound: prompts sent
  MaxIncidents  \* bound: all that may come between: continuations the SDK starts
                \* by itself, requests of the agent, stops asked for by a person,
                \* timeouts, and dying streams and workers

ASSUME TurnControlAssumption ==
  MaxSends \in Nat /\ MaxIncidents \in Nat

(* Turn ids: those the relay gives to prompts, then those the worker mints for *)
(* turns nobody asked for.  0 stands for None, and for the continuation in the *)
(* queue of the SDK.                                                           *)
None == 0
Prompts == 1..MaxSends
Minted == MaxSends + 1 .. 2 * MaxSends + MaxIncidents
Turns == Prompts \cup Minted
Asks == [id : 1..MaxIncidents, kind : {"approval", "question"}]
Requesters == {"person", "watchdog", "nobody"}

VARIABLES
  relay,      \* ThreadRuntime of the thread
  moved,      \* turn_revision differs from the one the send in progress read
  quiet,      \* no progress for STALE_TURN_PROGRESS_TIMEOUT_SECS
  person,     \* the operation that holds the session slot
  watchdog,   \* the stale-turn watchdog task
  fallbacks,  \* turns that an await_stop_or_mark_idle task waits for
  cmds,       \* the worker's stdin
  events,     \* the worker's stdout
  entry,      \* the worker's session entry
  waiters,    \* cancel requests the worker has not answered
  asked,      \* the worker's pending approvals and questions
  sdk,        \* turns in the SDK's input queue, the running one first
  alive,      \* the worker process runs
  eof,        \* the relay has seen the end of the worker's stdout
  used,       \* how often each bounded thing happened
  terminated  \* history: turns whose terminal event the relay has read

relayVars == <<relay, moved, quiet>>
taskVars == <<person, watchdog, fallbacks>>
workerVars == <<entry, waiters, asked, sdk>>
lifeVars == <<alive, eof>>
vars == <<relayVars, taskVars, cmds, events, workerVars, lifeVars, used, terminated>>

Idle == [op |-> "free", turn |-> None, ask |-> 0, kind |-> "none", reply |-> "none"]

Init ==
  /\ relay = [turn |-> None, working |-> FALSE, timedOut |-> FALSE,
              stopAsked |-> FALSE, pending |-> {}]
  /\ moved = FALSE /\ quiet = FALSE
  /\ person = Idle /\ watchdog = Idle /\ fallbacks = {}
  /\ cmds = << >> /\ events = << >>
  /\ entry = [known |-> FALSE, live |-> FALSE, running |-> FALSE, turn |-> None,
              cancel |-> FALSE, stop |-> "none", stopped |-> None]
  /\ waiters = {} /\ asked = {} /\ sdk = << >>
  /\ alive = TRUE /\ eof = FALSE
  /\ used = [sends |-> 0, incidents |-> 0, asks |-> 0, mints |-> 0]
  /\ terminated = {}

Incident ==
  /\ used.incidents < MaxIncidents
  /\ used' = [used EXCEPT !.incidents = @ + 1]

-----------------------------------------------------------------------------
(* What the relay does to the runtime of the thread. *)

\* set_active_turn and bg_set_active_turn
WithTurn(r, t) == [r EXCEPT !.turn = t, !.timedOut = FALSE, !.stopAsked = FALSE]

\* touch_progress and touch_bg_progress_at
Touched(r) == [r EXCEPT !.timedOut = FALSE, !.stopAsked = FALSE]

\* set_thread_status("active")
DropsRequests(r) == [r EXCEPT !.working = TRUE, !.pending = {}]
Active(r) == [r EXCEPT !.working = TRUE]

\* set_thread_status("idle"): whatever the agent paused on is dropped
Settled(r) == [r EXCEPT !.working = FALSE, !.pending = {}]

\* the turn is over
Ended(r) == Settled(WithTurn(r, None))

-----------------------------------------------------------------------------
(* send_message, in the session slot. *)

\* The authoritative busy check and the reading of turn_revision.
SendBegin ==
  /\ person = Idle /\ relay.turn = None /\ used.sends < MaxSends
  /\ person' = [Idle EXCEPT !.op = "send", !.turn = used.sends + 1]
  /\ moved' = FALSE
  /\ used' = [used EXCEPT !.sends = @ + 1]
  /\ UNCHANGED <<relay, quiet, watchdog, fallbacks, cmds, events, workerVars, lifeVars, terminated>>

\* The workspace is gone, the budget is spent, or the pipe is closed.
SendRefused ==
  /\ person.op = "send"
  /\ person' = Idle
  /\ UNCHANGED <<relayVars, watchdog, fallbacks, cmds, events, workerVars, lifeVars, used, terminated>>

SendWrite ==
  /\ person.op = "send" /\ alive
  /\ cmds' = Append(cmds, [type |-> "send", turn |-> person.turn, to |-> "nobody", ask |-> 0])
  /\ person' = [person EXCEPT !.op = "sent"]
  /\ UNCHANGED <<relayVars, watchdog, fallbacks, events, workerVars, lifeVars, used, terminated>>

\* The prompt becomes the active turn unless a turn event landed meanwhile.
AlwaysSeeds == TRUE
MaySeed == ~moved

SendFinish ==
  /\ person.op = "sent"
  /\ relay' = IF MaySeed THEN Active(WithTurn(relay, person.turn)) ELSE Touched(relay)
  /\ quiet' = FALSE
  /\ person' = Idle
  /\ UNCHANGED <<moved, watchdog, fallbacks, cmds, events, workerVars, lifeVars, used, terminated>>

-----------------------------------------------------------------------------
(* Requests to the worker that are answered: cancel, and a decision or answer. *)
(* `to' is the requester that awaits the answer; the relay matches answers by  *)
(* request id, so one that comes after its requester gave up reaches nobody.   *)

Request(type, who, ask) == [type |-> type, turn |-> None, to |-> who, ask |-> ask]
Forgotten(m, who) == IF m.to = who THEN [m EXCEPT !.to = "nobody"] ELSE m
ForgetIn(seq, who) == [i \in DOMAIN seq |-> Forgotten(seq[i], who)]

Waiting(task) == task.op \in {"stopping", "answering"} /\ task.reply = "none"

\* send_request gives up after its timeout.  A dead worker answers nothing, and
\* the end of its stdout does not wake the requests in flight.
NeverUp == FALSE /\ UNCHANGED used
TimeIsUp == IF alive THEN Incident ELSE UNCHANGED used

PersonTimesOut ==
  /\ Waiting(person) /\ TimeIsUp
  /\ person' = [person EXCEPT !.reply = "error"]
  /\ cmds' = ForgetIn(cmds, "person") /\ events' = ForgetIn(events, "person")
  /\ waiters' = waiters \ {"person"}
  /\ UNCHANGED <<relayVars, watchdog, fallbacks, entry, asked, sdk, lifeVars, terminated>>

WatchdogTimesOut ==
  /\ Waiting(watchdog) /\ TimeIsUp
  /\ watchdog' = [watchdog EXCEPT !.reply = "error"]
  /\ cmds' = ForgetIn(cmds, "watchdog") /\ events' = ForgetIn(events, "watchdog")
  /\ waiters' = waiters \ {"watchdog"}
  /\ UNCHANGED <<relayVars, person, fallbacks, entry, asked, sdk, lifeVars, terminated>>

-----------------------------------------------------------------------------
(* stop_active_turn, in the session slot. *)

StopBegin ==
  /\ person = Idle /\ relay.turn # None
  /\ person' = [Idle EXCEPT !.op = "stop", !.turn = relay.turn]
  /\ Incident
  /\ UNCHANGED <<relayVars, watchdog, fallbacks, cmds, events, workerVars, lifeVars, terminated>>

\* No turn, yet the status says working: the stale status is cleared.
StopClears ==
  /\ person = Idle /\ relay.turn = None
  /\ relay.working /\ ~relay.timedOut
  /\ relay' = Settled(relay)
  /\ Incident
  /\ UNCHANGED <<moved, quiet, taskVars, cmds, events, workerVars, lifeVars, terminated>>

\* The cancel command names the session, never the turn.
StopWrite ==
  /\ person.op = "stop" /\ alive
  /\ cmds' = Append(cmds, Request("cancel", "person", 0))
  /\ person' = [person EXCEPT !.op = "stopping"]
  /\ UNCHANGED <<relayVars, watchdog, fallbacks, events, workerVars, lifeVars, used, terminated>>

\* An accepted stop leaves a task behind that ends the turn if nothing else does.
StopAnswered ==
  /\ person.op = "stopping" /\ person.reply # "none"
  /\ fallbacks' = IF person.reply = "ok" THEN fallbacks \cup {person.turn} ELSE fallbacks
  /\ person' = Idle
  /\ UNCHANGED <<relayVars, watchdog, cmds, events, workerVars, lifeVars, used, terminated>>

\* await_stop_or_mark_idle, after STOP_COMPLETION_FALLBACK.
AnyTurn(t) == relay.turn # None
OwnsTurn(t) == relay.turn = t

FallbackFires(t) ==
  /\ t \in fallbacks
  /\ fallbacks' = fallbacks \ {t}
  /\ IF OwnsTurn(t)
       THEN relay' = Ended(relay) /\ moved' = TRUE /\ quiet' = FALSE
       ELSE UNCHANGED relayVars
  /\ UNCHANGED <<person, watchdog, cmds, events, workerVars, lifeVars, used, terminated>>

-----------------------------------------------------------------------------
(* decide_approval and submit_ask_user_answer, in the session slot. *)

AnswerBegin(a) ==
  /\ person = Idle /\ a \in relay.pending
  /\ person' = [Idle EXCEPT !.op = "answer", !.ask = a.id, !.kind = a.kind]
  /\ UNCHANGED <<relayVars, watchdog, fallbacks, cmds, events, workerVars, lifeVars, used, terminated>>

AnswerWrite ==
  /\ person.op = "answer" /\ alive
  /\ cmds' = Append(cmds, Request("answer", "person", person.ask))
  /\ person' = [person EXCEPT !.op = "answering"]
  /\ UNCHANGED <<relayVars, watchdog, fallbacks, events, workerVars, lifeVars, used, terminated>>

\* Nothing can be written to a dead worker.
WriteFails ==
  /\ person.op \in {"stop", "answer"} /\ ~alive
  /\ person' = Idle
  /\ UNCHANGED <<relayVars, watchdog, fallbacks, cmds, events, workerVars, lifeVars, used, terminated>>

\* The request is removed; after the last question the thread works again.
Answered(r, id) ==
  LET left == {a \in r.pending : a.id # id}
      question == person.kind = "question" /\ \A a \in left : a.kind # "question"
  IN  [r EXCEPT !.pending = left, !.working = @ \/ question]

AnswerAnswered ==
  /\ person.op = "answering" /\ person.reply # "none"
  /\ relay' = IF person.reply = "ok" THEN Answered(relay, person.ask) ELSE relay
  /\ person' = Idle
  /\ UNCHANGED <<moved, quiet, watchdog, fallbacks, cmds, events, workerVars, lifeVars, used, terminated>>

-----------------------------------------------------------------------------
(* The stale-turn watchdog: a task of its own, outside the session slot. *)

\* Time passes without progress.
Silence ==
  /\ relay.turn # None /\ ~quiet
  /\ quiet' = TRUE
  /\ UNCHANGED <<relay, moved, taskVars, cmds, events, workerVars, lifeVars, used, terminated>>

\* expire_stale_turn_liveness
NeverExpired(r) == r
Expired(r) == IF quiet /\ ~r.timedOut THEN [r EXCEPT !.timedOut = TRUE, !.stopAsked = FALSE] ELSE r

\* stale_turn_stop_candidates
Stale(r) == r.turn # None /\ r.timedOut /\ ~r.stopAsked

WatchdogTick ==
  /\ watchdog = Idle /\ relay.turn # None
  /\ Stale(Expired(relay))
  /\ relay' = Expired(relay)
  /\ watchdog' = [Idle EXCEPT !.op = "candidate", !.turn = relay.turn]
  /\ UNCHANGED <<moved, quiet, person, fallbacks, cmds, events, workerVars, lifeVars, used, terminated>>

WatchdogCheck ==
  /\ watchdog.op = "candidate"
  /\ watchdog' = IF Stale(relay) /\ relay.turn = watchdog.turn
                   THEN [watchdog EXCEPT !.op = "stop"] ELSE Idle
  /\ UNCHANGED <<relayVars, person, fallbacks, cmds, events, workerVars, lifeVars, used, terminated>>

WatchdogWrite ==
  /\ watchdog.op = "stop"
  /\ IF alive
       THEN /\ cmds' = Append(cmds, Request("cancel", "watchdog", 0))
            /\ watchdog' = [watchdog EXCEPT !.op = "stopping"]
       ELSE watchdog' = Idle /\ UNCHANGED cmds
  /\ UNCHANGED <<relayVars, person, fallbacks, events, workerVars, lifeVars, used, terminated>>

\* mark_stale_turn_stop_requested and the same fallback as for a person's stop;
\* a failed stop is tried again at the next tick.
WatchdogAnswered ==
  /\ watchdog.op = "stopping" /\ watchdog.reply # "none"
  /\ IF watchdog.reply = "ok"
       THEN /\ relay' = [relay EXCEPT !.stopAsked =
                           @ \/ (relay.timedOut /\ relay.turn = watchdog.turn)]
            /\ fallbacks' = fallbacks \cup {watchdog.turn}
       ELSE UNCHANGED <<relay, fallbacks>>
  /\ watchdog' = Idle
  /\ UNCHANGED <<moved, quiet, person, cmds, events, workerVars, lifeVars, used, terminated>>

-----------------------------------------------------------------------------
(* The reader of the worker's stdout. *)

Event(type, t) == [type |-> type, turn |-> t, to |-> "nobody", ask |-> 0, kind |-> "none"]
Reply(who, verdict) == [Event(verdict, None) EXCEPT !.to = who]

\* completion_matches_turn
CompletionMatches(t) == relay.turn = None \/ relay.turn = t

\* handle_worker_line
Effect(e) ==
  CASE e.type = "turn_started" -> Active(WithTurn(relay, e.turn))
    [] e.type = "activity"     -> Touched(relay)
    [] e.type = "ask"          -> Active(Touched([relay EXCEPT !.pending =
                                    @ \cup {[id |-> e.ask, kind |-> e.kind]}]))
    [] e.type = "terminal" /\ CompletionMatches(e.turn) -> Ended(relay)
    [] OTHER                   -> relay

\* note_turn_event
MovesTurn(e) ==
  e.type = "turn_started" \/ (e.type = "terminal" /\ CompletionMatches(e.turn))

Delivered(task, who, e) ==
  IF e.to = who /\ Waiting(task) THEN [task EXCEPT !.reply = e.type] ELSE task

ReadEvent ==
  /\ events # << >>
  /\ LET e == Head(events) IN
       /\ relay' = Effect(e)
       /\ moved' = (moved \/ MovesTurn(e))
       /\ quiet' = (quiet /\ ~MovesTurn(e) /\ e.type \notin {"activity", "ask"})
       /\ person' = Delivered(person, "person", e)
       /\ watchdog' = Delivered(watchdog, "watchdog", e)
       /\ terminated' = IF e.type = "terminal" THEN terminated \cup {e.turn} ELSE terminated
  /\ events' = Tail(events)
  /\ UNCHANGED <<fallbacks, cmds, workerVars, lifeVars, used>>

\* fail_in_flight_turns_for_provider: only threads with a turn are settled.
ReadEof ==
  /\ ~alive /\ ~eof /\ events = << >>
  /\ eof' = TRUE
  /\ IF relay.turn # None
       THEN relay' = Ended(relay) /\ moved' = TRUE /\ quiet' = FALSE
       ELSE UNCHANGED relayVars
  /\ UNCHANGED <<taskVars, cmds, events, workerVars, alive, used, terminated>>

-----------------------------------------------------------------------------
(* The worker's command loop. *)

Command(type) == alive /\ cmds # << >> /\ Head(cmds).type = type
Emit(es) == events' = events \o es
relayIdle == <<relayVars, taskVars, lifeVars, terminated>>

\* `send', when ensureLiveSession has a session or makes one.
Accepts(t) ==
  /\ entry' = [entry EXCEPT !.known = TRUE, !.live = TRUE, !.running = TRUE, !.turn = t,
                            !.cancel = FALSE, !.stop = "none"]
  /\ sdk' = IF entry.live THEN Append(sdk, t) ELSE <<t>>

TakeSend ==
  /\ Command("send") /\ entry.stop # "cancelling"
  /\ Accepts(Head(cmds).turn)
  /\ cmds' = Tail(cmds)
  /\ Emit(<<Event("activity", None)>>)
  /\ UNCHANGED <<relayIdle, waiters, asked, used>>

\* `send' while the session is stopping, or when no session can be made: the
\* prompt is dropped with at most a log line.
LoseSend ==
  /\ Command("send")
  /\ \/ /\ entry.stop = "cancelling"
        /\ UNCHANGED <<entry, used>>
     \/ /\ ~entry.live /\ entry.stop # "cancelling" /\ Incident
        /\ entry' = [entry EXCEPT !.known = TRUE, !.cancel = FALSE, !.stop = "none"]
  /\ cmds' = Tail(cmds)
  /\ UNCHANGED <<relayIdle, events, waiters, asked, sdk>>

\* `cancel': one stop operation per session, shared by every cancel.
TakeCancel ==
  /\ Command("cancel")
  /\ LET who == Head(cmds).to IN
       \/ /\ ~entry.known
          /\ Emit(<<Reply(who, "error")>>)
          /\ UNCHANGED <<entry, waiters, asked>>
       \/ /\ entry.known /\ entry.stop = "stopped"
          /\ asked' = {}
          /\ Emit(<<Reply(who, "ok")>>)
          /\ UNCHANGED <<entry, waiters>>
       \/ /\ entry.known /\ entry.stop # "stopped"
          /\ asked' = {}
          /\ waiters' = waiters \cup ({who} \ {"nobody"})
          /\ entry' = IF entry.stop = "cancelling" THEN entry
                      ELSE [entry EXCEPT !.stop = "cancelling", !.cancel = TRUE,
                                         !.stopped = entry.turn]
          /\ UNCHANGED events
  /\ cmds' = Tail(cmds)
  /\ UNCHANGED <<relayIdle, sdk, used>>

\* The SDK's stream has drained: session_stopped, then the answers to the person
\* and the watchdog, whichever of them wait, in any order.
StopDrains ==
  /\ alive /\ entry.stop = "cancelling"
  /\ entry' = [entry EXCEPT !.stop = "stopped", !.live = FALSE, !.running = FALSE]
  /\ sdk' = << >>
  /\ waiters' = {}
  /\ \E n \in 0..2 : \E order \in Bijection(1..n, waiters) :
       Emit(<<Event("terminal", entry.stopped)>> \o [i \in 1..n |-> Reply(order[i], "ok")])
  /\ UNCHANGED <<relayIdle, cmds, asked, used>>

\* waitForSessionStop gives up; the stop operation goes on.
StopIsSlow(who) ==
  /\ alive /\ who \in waiters /\ Incident
  /\ waiters' = waiters \ {who}
  /\ Emit(<<Reply(who, "error")>>)
  /\ UNCHANGED <<relayIdle, cmds, entry, asked, sdk>>

\* `approval_decision' and `ask_user_question_answer'
TakeAnswer ==
  /\ Command("answer")
  /\ LET c == Head(cmds) IN
       /\ asked' = asked \ {c.ask}
       /\ Emit(<<Reply(c.to, IF c.ask \in asked THEN "ok" ELSE "error")>>)
  /\ cmds' = Tail(cmds)
  /\ UNCHANGED <<relayIdle, entry, waiters, sdk, used>>

-----------------------------------------------------------------------------
(* The SDK session and the worker's handling of its stream. *)

Streaming == alive /\ entry.live /\ ~entry.cancel /\ sdk # << >>

\* armSpontaneousTurn: the first event of a turn nobody armed announces one.
AlwaysArms == TRUE
Arms == ~entry.running

Armed == IF Arms THEN [entry EXCEPT !.running = TRUE, !.turn = MaxSends + used.mints + 1]
                 ELSE entry
Announcement == IF Arms THEN <<Event("turn_started", Armed.turn)>> ELSE << >>
CountMint == used' = [used EXCEPT !.mints = IF Arms THEN @ + 1 ELSE @]

\* Output of the running turn, or a tick of its progress tracker.
SdkActs ==
  /\ Streaming /\ events = << >>
  /\ entry' = Armed
  /\ Emit(Announcement \o <<Event("activity", None)>>)
  /\ CountMint
  /\ UNCHANGED <<relayIdle, cmds, waiters, asked, sdk>>

\* Its result, stamped with the current turn.
SdkEnds ==
  /\ Streaming /\ asked = {}
  /\ entry' = [Armed EXCEPT !.running = FALSE, !.turn = None]
  /\ sdk' = Tail(sdk)
  /\ Emit(Announcement \o <<Event("terminal", Armed.turn)>>)
  /\ CountMint
  /\ UNCHANGED <<relayIdle, cmds, waiters, asked>>

\* A background task has finished and the SDK queues a continuation.
SdkContinues ==
  /\ alive /\ entry.live /\ ~entry.cancel
  /\ sdk' = Append(sdk, None)
  /\ Incident
  /\ UNCHANGED <<relayIdle, cmds, events, entry, waiters, asked>>

\* The agent pauses on an approval or a question.
SdkAsks ==
  /\ Streaming /\ entry.running /\ used.incidents < MaxIncidents
  /\ asked' = asked \cup {used.asks + 1}
  /\ \E k \in {"approval", "question"} :
       Emit(<<[Event("ask", None) EXCEPT !.ask = used.asks + 1, !.kind = k]>>)
  /\ used' = [used EXCEPT !.incidents = @ + 1, !.asks = @ + 1]
  /\ UNCHANGED <<relayIdle, cmds, entry, waiters, sdk>>

\* settleUnexpectedStreamEnd
StreamDies ==
  /\ Streaming /\ entry.running /\ Incident
  /\ entry' = [entry EXCEPT !.live = FALSE, !.running = FALSE, !.turn = None]
  /\ sdk' = << >> /\ asked' = {}
  /\ Emit(<<Event("terminal", entry.turn)>>)
  /\ UNCHANGED <<relayIdle, cmds, waiters>>

\* The process is gone, and with it what it had not read.
WorkerDies ==
  /\ alive /\ Incident
  /\ alive' = FALSE
  /\ cmds' = << >> /\ sdk' = << >> /\ asked' = {} /\ waiters' = {}
  /\ entry' = [entry EXCEPT !.live = FALSE, !.running = FALSE]
  /\ UNCHANGED <<relayVars, taskVars, events, eof, terminated>>

-----------------------------------------------------------------------------
Person ==
  \/ SendBegin \/ SendRefused \/ SendWrite \/ SendFinish
  \/ StopBegin \/ StopClears \/ StopWrite \/ StopAnswered
  \/ (\E a \in Asks : AnswerBegin(a)) \/ AnswerWrite \/ AnswerAnswered
  \/ WriteFails \/ PersonTimesOut
Tasks ==
  \/ Silence \/ WatchdogTick \/ WatchdogCheck \/ WatchdogWrite \/ WatchdogAnswered
  \/ WatchdogTimesOut
  \/ (\E t \in Turns : FallbackFires(t))
Reader == ReadEvent \/ ReadEof
Worker ==
  \/ TakeSend \/ LoseSend \/ TakeCancel \/ StopDrains \/ TakeAnswer
  \/ (\E w \in Requesters : StopIsSlow(w))
  \/ SdkActs \/ SdkEnds \/ SdkContinues \/ SdkAsks \/ StreamDies \/ WorkerDies

Next == Person \/ Tasks \/ Reader \/ Worker

(* Fairness: the relay's tasks run, an operation in the slot is carried on, the *)
(* clock advances, the worker reads its commands and a closed SDK session       *)
(* drains.  Nothing makes the agent speak, finish, or a person act.             *)
Fairness ==
  /\ WF_vars(Reader)
  /\ WF_vars(SendWrite \/ SendRefused \/ SendFinish \/ StopWrite \/ StopAnswered
             \/ AnswerWrite \/ AnswerAnswered \/ WriteFails)
  /\ WF_vars(~alive /\ PersonTimesOut)
  /\ WF_vars(~alive /\ WatchdogTimesOut)
  /\ WF_vars(Silence)
  /\ WF_vars(WatchdogTick \/ WatchdogCheck \/ WatchdogWrite \/ WatchdogAnswered)
  /\ \A t \in Turns : WF_vars(FallbackFires(t))
  /\ WF_vars(TakeSend \/ LoseSend \/ TakeCancel \/ TakeAnswer)
  /\ WF_vars(StopDrains)

Spec == Init /\ [][Next]_vars /\ Fairness

-----------------------------------------------------------------------------
Task == [op : {"free", "send", "sent", "stop", "stopping", "answer", "answering", "candidate"},
         turn : Turns \cup {None}, ask : 0..MaxIncidents,
         kind : {"none", "approval", "question"}, reply : {"none", "ok", "error"}]

\* Every variable has its shape: the worker mints a turn id only for a turn of
\* the SDK that nobody has armed, so ids never run out of their range.
TypeOK ==
  /\ relay \in [turn : Turns \cup {None}, working : BOOLEAN, timedOut : BOOLEAN,
                stopAsked : BOOLEAN, pending : SUBSET Asks]
  /\ moved \in BOOLEAN /\ quiet \in BOOLEAN
  /\ person \in Task /\ watchdog \in Task /\ fallbacks \subseteq Turns
  /\ entry \in [known : BOOLEAN, live : BOOLEAN, running : BOOLEAN, turn : Turns \cup {None},
                cancel : BOOLEAN, stop : {"none", "cancelling", "stopped"},
                stopped : Turns \cup {None}]
  /\ waiters \subseteq Requesters /\ asked \subseteq 1..MaxIncidents
  /\ sdk \in Seq(Prompts \cup {None})
  /\ alive \in BOOLEAN /\ eof \in BOOLEAN

-----------------------------------------------------------------------------
(* Nothing is on its way and no operation or stop is in progress. *)
AtRest ==
  alive /\ person = Idle /\ cmds = << >> /\ events = << >> /\ entry.stop # "cancelling"

\* A turn whose terminal event the relay has read is never (again) its active
\* turn: the finishing step of send_message does not resurrect a turn that
\* started and ended before start_turn returned (sessions.rs).
NoResurrection == relay.turn \notin terminated \ {None}

\* The requests of the agent that can be answered, now or once the reader has
\* caught up.
Visible == {a.id : a \in relay.pending}
           \cup {events[i].ask : i \in {j \in DOMAIN events : events[j].type = "ask"}}

\* A request the worker holds can be answered from the moment it is made, and
\* the relay loses sight of it only where a stop gives the turn up: neither a
\* terminal, nor another turn that starts, nor the answer to another request, nor
\* a send hides one the agent still waits on (relay.rs, approvals.rs).
RequestsAreKept ==
  [][\A a \in asked' \ Visible' :
       a \in asked \ Visible \/ StopClears \/ \E t \in Turns : FallbackFires(t)]_vars

\* The relay never declares a turn over that the worker runs under that very id:
\* not on a late or foreign terminal, nor by the fallback of an earlier stop
\* (completion_matches_turn, await_stop_or_mark_idle).
RunningTurnsAreKept ==
  [][relay.turn # None /\ relay'.turn = None /\ alive
       => ~(entry.running /\ entry.turn = relay.turn)]_vars

Reporting == \E i \in DOMAIN events : events[i].type = "activity"

\* No turn stays active for good unless its worker is dead or keeps reporting
\* progress: prompts the worker lost, terminals the relay refused and sessions
\* that fell silent are all settled by the watchdog and its fallback (mod.rs).
StaleTurnsSettle ==
  \A t \in Turns : <>[](relay.turn = t) => <>[]~alive \/ []<>Reporting

\* An operation that took the session slot gives it back, whatever the worker
\* does; else every later send, stop and answer would be refused (sessions.rs).
SlotIsReleased == person # Idle ~> person = Idle

\* A turn the worker runs is one the relay follows, once nothing is on its way:
\* the comment on armSpontaneousTurn (worker.mjs) says that a prompt racing the
\* announcement of a continuation "re-arms liveness ... under a fresh id".
RunningIsTracked == AtRest /\ entry.running => relay.turn # None

\* At rest, while the relay follows a turn, it shows every request the agent
\* waits on: a person's stop clears a status it takes for stale, and with it the
\* request of a turn the relay had lost track of (sessions.rs); the next prompt
\* becomes the active turn and the agent waits on.
AsksAreVisible == AtRest /\ relay.turn # None => asked \subseteq {a.id : a \in relay.pending}
=============================================================================
