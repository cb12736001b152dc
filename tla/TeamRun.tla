------------------------------- MODULE TeamRun -------------------------------
(* One task run and everybody who moves it (crates/relay-server/src/state/app/ *)
(* team.rs): the driver that works through the task one turn at a time, the    *)
(* handlers of Pause, Stop, Cancel, Mark, Resume, Reopen, Resolve and of a     *)
(* message to the team lead, and the tasks their guards spawn when a driver is *)
(* lost or a client hangs up.                                                  *)
(*                                                                             *)
(* A step is what happens between two awaits.  The drive gate is a lock held   *)
(* across awaits; the relay lock is held within a step only, so a write that   *)
(* takes no gate falls between any two steps of a gate's holder.  The driver   *)
(* itself (a TeamDriver, registered by a full build) is external: it checks    *)
(* the boundary before each action and then does whatever the TeamPort allows. *)
EXTENDS Naturals, TeamRecord

CONSTANTS
  Users,     \* handlers of user requests that may run at the same time
  Drivers,   \* driver tasks, a lost one still cleaning up included
  Nobody,
  MaxEvents  \* bound: user requests, questions, lost drivers and starts, hang-ups and
             \* restarts

ASSUME TeamRunAssumption ==
  /\ Users \cap Drivers = {} /\ Drivers # {} /\ Nobody \notin Users \cup Drivers
  /\ MaxEvents \in Nat

Threads == {"tl", "dev", "reviewer"}
Procs == Users \cup Drivers

VARIABLES
  run,       \* the record
  view,      \* the relay's runtime of each thread: none, idle or working
  real,      \* whose turn the provider is running on each thread; one that was not
             \* announced when its start was given up is lost, begun or yet to begin
  question,  \* threads with an AskUserQuestion open
  gate,      \* holder of team_drive_gate
  ticket,    \* holder of the run's entry in driving_team_runs
  pc,        \* where each handler and driver is
  arg,       \* what it is about: a thread, a status, a record to restore
  spawned,   \* cleanups of hang-ups that have not run yet
  events     \* bounded things that happened

threadVars == <<view, real, question>>
vars == <<run, view, real, question, gate, ticket, pc, arg, spawned, events>>

(* start_team_run has recorded the run and spawned its driver.                 *)
Init ==
  /\ run = [status |-> "Queued", pauseRequested |-> FALSE, stopping |-> FALSE,
            awaiting |-> FALSE, inFlight |-> NoThread]
  /\ view = [t \in Threads |-> "idle"]
  /\ real = [t \in Threads |-> "nobody"]
  /\ question = {}
  /\ gate = Nobody
  /\ ticket = CHOOSE d \in Drivers : TRUE
  /\ pc = [p \in Procs |-> IF p = ticket THEN "boundary" ELSE "off"]
  /\ arg = [p \in Procs |-> NoThread]
  /\ spawned = {}
  /\ events = 0

Event == events < MaxEvents /\ events' = events + 1

(* On to l, for the thread, status or record x; between turns it is for none.  *)
About(p, l, x) == pc' = [pc EXCEPT ![p] = l] /\ arg' = [arg EXCEPT ![p] = x]
Goto(p, l) == About(p, l, IF l \in {"boundary", "settle", "failed", "stuck", "cleanup"}
                          THEN NoThread ELSE arg[p])
TakeGate(p) == gate = Nobody /\ gate' = p
KeepGate(p) == UNCHANGED gate
DropGate(p) == gate' = IF gate = p THEN Nobody ELSE gate
FreeTicket(p) == ticket' = Nobody
DropTicket(p) == ticket' = IF ticket = p THEN Nobody ELSE ticket

(* The handler or driver is done: what it held is dropped with it.             *)
Finish(p) ==
  /\ About(p, "off", NoThread)
  /\ DropGate(p) /\ DropTicket(p)

Working == {t \in Threads : view[t] = "working"}

(* drain_team_run.  A stop is asked of every owned thread and waited for; an   *)
(* in-flight marker on a thread without a runtime counts as not stopped.       *)
Drained == Working = {} /\ (run.inFlight # NoThread => view[run.inFlight] # "none")

-----------------------------------------------------------------------------
(* The driver, between turns.                                                  *)

(* boundary_status: settled or over, paused, or free to go on.                 *)
Leaves(d) ==
  /\ pc[d] = "boundary" /\ Off(run)
  /\ Goto(d, "cleanup")
  /\ UNCHANGED <<run, threadVars, gate, ticket, spawned, events>>

PausesHere(d) ==
  /\ pc[d] = "boundary" /\ ~Off(run) /\ run.pauseRequested
  /\ Goto(d, "settle")
  /\ UNCHANGED <<run, threadVars, gate, ticket, spawned, events>>

GoesOn(d) ==
  /\ pc[d] = "boundary" /\ ~Off(run) /\ ~run.pauseRequested
  /\ \/ \E t \in Threads : About(d, "turn", t)
     \/ \E l \in {"update", "commit", "cleanup"} : Goto(d, l)
  /\ UNCHANGED <<run, threadVars, gate, ticket, spawned, events>>

(* settle_team_run(Paused), outside the gate: look, then write.                *)
SettleCheck(d) ==
  /\ pc[d] = "settle"
  /\ \/ run.status = "Paused" /\ Goto(d, "failed") /\ UNCHANGED run
     \/ run.status # "Paused" /\ Working # {} /\ run' = Block(run) /\ Goto(d, "failed")
     \/ run.status # "Paused" /\ Working = {} /\ Goto(d, "settling") /\ UNCHANGED run
  /\ UNCHANGED <<threadVars, gate, ticket, spawned, events>>

SettleWrite(d) ==
  /\ pc[d] = "settling"
  /\ run' = SettlePaused(run)
  /\ Goto(d, "failed")
  /\ UNCHANGED <<threadVars, gate, ticket, spawned, events>>

(* update_status and block_run, whenever the driver sees fit.                  *)
Updates(d) ==
  /\ pc[d] = "update"
  /\ run' \in {SetStatus(run, s) : s \in {"Running", "Done", "Escalated"}} \cup {Block(run)}
  /\ Goto(d, "boundary")
  /\ UNCHANGED <<threadVars, gate, ticket, spawned, events>>

(* After a failed action: fail_run, or try something else, or give up.         *)
Reports(d) ==
  /\ pc[d] = "failed"
  /\ run' \in {run, Fail(run)}
  /\ \E l \in {"boundary", "cleanup"} : Goto(d, l)
  /\ UNCHANGED <<threadVars, gate, ticket, spawned, events>>

(* After a turn that could not be stopped: block_run.                          *)
ReportsStuck(d) ==
  /\ pc[d] = "stuck"
  /\ run' = Block(run)
  /\ Goto(d, "cleanup")
  /\ UNCHANGED <<threadVars, gate, ticket, spawned, events>>

CommitUnchecked(d) ==
  /\ pc[d] = "commit" /\ TakeGate(d) /\ Goto(d, "committing")
  /\ UNCHANGED <<run, threadVars, ticket, spawned, events>>

(* commit_worktree_gated: the right to act is read again under the gate.       *)
CommitBegin(d) ==
  /\ pc[d] = "commit" /\ gate = Nobody
  /\ \/ Off(run) /\ Goto(d, "failed") /\ UNCHANGED gate
     \/ ~Off(run) /\ TakeGate(d) /\ Goto(d, "committing")
  /\ UNCHANGED <<run, threadVars, ticket, spawned, events>>

CommitEnd(d) ==
  /\ pc[d] = "committing"
  /\ \E l \in {"boundary", "failed"} : Goto(d, l)
  /\ DropGate(d)
  /\ UNCHANGED <<run, threadVars, ticket, spawned, events>>

-----------------------------------------------------------------------------
(* A turn of the driver.                                                       *)

(* A run that is off takes no turn.  A reviewer's turn is also refused while   *)
(* the run is being stopped, while a pause is requested and before any work    *)
(* has landed on its sub-task, as may be the case with any; the last two       *)
(* settle the run there and then.                                              *)
Refused(t) ==
  \/ Off(run)
  \/ t = "reviewer" /\ (run.stopping \/ run.pauseRequested)

MayLackWork(t) == t = "reviewer"

Refusal ==
  run' = IF Off(run) \/ run.stopping THEN run
         ELSE IF Working = {} THEN SettlePaused(run) ELSE Block(run)

TurnCheck(d) ==
  /\ pc[d] = "turn"
  /\ \/ (Refused(arg[d]) \/ MayLackWork(arg[d])) /\ Refusal /\ Goto(d, "failed")
     \/ ~Refused(arg[d]) /\ Goto(d, "queue") /\ UNCHANGED run
  /\ UNCHANGED <<threadVars, gate, ticket, spawned, events>>

(* Under the gate everything is asked again, then the marker is set.           *)
TurnGate(d) ==
  /\ pc[d] = "queue" /\ gate = Nobody
  /\ \/ (Refused(arg[d]) \/ MayLackWork(arg[d])) /\ Refusal /\ Goto(d, "failed") /\ UNCHANGED gate
     \/ /\ ~Refused(arg[d]) /\ view[arg[d]] = "working"
        /\ Goto(d, "failed") /\ UNCHANGED <<run, gate>>
     \/ /\ ~Refused(arg[d]) /\ view[arg[d]] # "working"
        /\ run' = [run EXCEPT !.inFlight = arg[d]]
        /\ TakeGate(d) /\ Goto(d, "sending")
  /\ UNCHANGED <<threadVars, ticket, spawned, events>>

(* The provider takes the turn up before start_turn returns.                   *)
ProviderBegins(d) ==
  /\ pc[d] = "sending" /\ real[arg[d]] = "nobody"
  /\ real' = [real EXCEPT ![arg[d]] = "team"]
  /\ UNCHANGED <<run, view, question, gate, ticket, pc, arg, spawned, events>>

(* A turn id means a turn to wait for; anything else, that nobody knows.       *)
SendReturns(d) ==
  /\ pc[d] = "sending"
  /\ \/ /\ real[arg[d]] = "team"
        /\ view' = [view EXCEPT ![arg[d]] = "working"]
        /\ DropGate(d) /\ Goto(d, "waiting")
     \/ Goto(d, "uncertain") /\ UNCHANGED <<view, gate>>
  /\ UNCHANGED <<run, real, question, ticket, spawned, events>>

Unmarked(r) == [r EXCEPT !.inFlight = NoThread]

(* The start of a turn on t is given up: one that has begun unannounced is     *)
(* lost.  (One that begins only later is no different to the relay.)           *)
GivenUp(t) ==
  real' = [real EXCEPT ![t] = IF @ = "team" /\ view[t] # "working" THEN "lost" ELSE @]

(* observe_turn_liveness: a turn that has announced itself by the end of the   *)
(* window is drained, and without one the start is given up.                   *)
WindowCloses(d) ==
  /\ pc[d] = "uncertain"
  /\ \/ view[arg[d]] = "working" /\ Goto(d, "drain") /\ UNCHANGED <<run, real, gate, events>>
     \/ /\ view[arg[d]] # "working"
        /\ GivenUp(arg[d]) /\ IF real' = real THEN UNCHANGED events ELSE Event
        /\ run' = Unmarked(run) /\ DropGate(d) /\ Goto(d, "failed")
  /\ UNCHANGED <<view, question, ticket, spawned>>

(* stop_and_drain of the turn's own thread; an unconfirmed stop keeps the      *)
(* marker.                                                                     *)
TurnDrained(d) ==
  /\ pc[d] = "drain"
  /\ \/ view[arg[d]] # "working" /\ run' = Unmarked(run) /\ Goto(d, "failed")
     \/ view[arg[d]] = "working" /\ Goto(d, "stuck") /\ UNCHANGED run
  /\ DropGate(d)
  /\ UNCHANGED <<threadVars, ticket, spawned, events>>

Unparked(r) ==
  [r EXCEPT !.awaiting = FALSE,
            !.status = IF @ = "AwaitingUser" THEN "Running" ELSE @]

(* wait_for_team_step. *)
Parks(d) ==
  /\ pc[d] = "waiting" /\ view[arg[d]] = "working" /\ arg[d] \in question
  /\ run' = [SetStatus(run, "AwaitingUser") EXCEPT !.awaiting = TRUE]
  /\ Goto(d, "parked")
  /\ UNCHANGED <<threadVars, gate, ticket, spawned, events>>

Unparks(d) ==
  /\ pc[d] = "parked" /\ view[arg[d]] = "working" /\ arg[d] \notin question
  /\ run' = Unparked(run)
  /\ Goto(d, "waiting")
  /\ UNCHANGED <<threadVars, gate, ticket, spawned, events>>

(* No progress, no answer, or an approval that cannot be denied.               *)
WaitFails(d) ==
  /\ pc[d] \in {"waiting", "parked"} /\ view[arg[d]] = "working"
  /\ run' = IF pc[d] = "parked" THEN Unparked(run) ELSE run
  /\ Goto(d, "drain")
  /\ UNCHANGED <<threadVars, gate, ticket, spawned, events>>

WaitEnds(d) ==
  /\ pc[d] \in {"waiting", "parked"} /\ view[arg[d]] # "working"
  /\ run' = IF pc[d] = "parked" THEN Unparked(run) ELSE run
  /\ Goto(d, "ended")
  /\ UNCHANGED <<threadVars, gate, ticket, spawned, events>>

(* The turn replied, or it failed, perhaps for a reason that pauses the whole  *)
(* run.                                                                        *)
TurnOver(d) ==
  /\ pc[d] = "ended"
  /\ run' = Unmarked(run)
  /\ \E l \in {"boundary", "settle", "failed"} : Goto(d, l)
  /\ UNCHANGED <<threadVars, gate, ticket, spawned, events>>

-----------------------------------------------------------------------------
(* The end of a driver. *)

(* The driver is lost: a panic, or its task is dropped.  Its cleanup is        *)
(* spawned, then its ticket is freed; a turn on its way up is given up.        *)
DriverLost(d) ==
  /\ pc[d] \notin {"off", "cleanup", "reclaim", "reclaiming"} /\ Event
  /\ IF pc[d] \in {"sending", "uncertain"} THEN GivenUp(arg[d]) ELSE UNCHANGED real
  /\ Goto(d, "cleanup") /\ DropGate(d) /\ DropTicket(d)
  /\ UNCHANGED <<run, view, question, spawned>>

CleanupSparesPauses(d) ==
  /\ pc[d] = "cleanup"
  /\ IF Off(run) \/ run.pauseRequested
     THEN Finish(d) ELSE Goto(d, "reclaim") /\ UNCHANGED <<gate, ticket>>
  /\ UNCHANGED <<run, threadVars, spawned, events>>

(* interrupt_team_run_if_stranded: look, queue for the gate, drain, mark.      *)
CleanupCheck(d) ==
  /\ pc[d] = "cleanup"
  /\ \/ Off(run) /\ Finish(d)
     \/ ~Off(run) /\ Goto(d, "reclaim") /\ UNCHANGED <<gate, ticket>>
  /\ UNCHANGED <<run, threadVars, spawned, events>>

CleanupGate(d) ==
  /\ pc[d] = "reclaim" /\ TakeGate(d)
  /\ Goto(d, "reclaiming")
  /\ UNCHANGED <<run, threadVars, ticket, spawned, events>>

CleanupEnds(d) ==
  /\ pc[d] = "reclaiming"
  /\ run' = IF Drained THEN MarkInterrupted(run) ELSE Block(run)
  /\ Finish(d)
  /\ UNCHANGED <<threadVars, spawned, events>>

-----------------------------------------------------------------------------
(* The handlers of user requests.  A request that its first look at the run    *)
(* refuses changes nothing, and is left out.                                   *)

Asked(u, l, x) ==
  /\ pc[u] = "off" /\ u = CHOOSE v \in Users : pc[v] = "off"
  /\ Event /\ About(u, l, x)

Request(u) ==
  /\ \/ run.status \notin Terminal /\ Asked(u, "pause", NoThread)
     \/ run.status \notin Terminal /\ \E s \in {"Paused", "Cancelled"} : Asked(u, "stop", s)
     \/ run.status = "Paused" /\ Asked(u, "resume", NoThread)
     \/ run.status \in Reopenable /\ Asked(u, "reopen", NoThread)
  /\ UNCHANGED <<run, threadVars, gate, ticket, spawned>>

(* mark_team_run picks the way by the status it reads before the gate.         *)
RequestMark(u) ==
  /\ \E s \in {"Done", "Cancelled"} :
       /\ run.status \notin {s, "Resolving"}
       /\ Asked(u, CASE run.status = "Blocked" -> "mark_blocked"
                     [] run.status \in Terminal \cup {"Paused"} -> "mark_quiet"
                     [] OTHER -> "stop", s)
  /\ UNCHANGED <<run, threadVars, gate, ticket, spawned>>

PauseNow(u) ==
  /\ pc[u] = "pause" /\ gate = Nobody
  /\ run' = RequestPause(run)
  /\ Finish(u)
  /\ UNCHANGED <<threadVars, spawned, events>>

StopBegins(u) ==
  /\ pc[u] = "stop" /\ gate = Nobody
  /\ IF run.status \in Terminal \cup {"Blocked", "Resolving"}
     THEN Finish(u) /\ UNCHANGED run
     ELSE /\ TakeGate(u) /\ UNCHANGED <<ticket>>
          /\ run' = RequestStop(run)
          /\ Goto(u, IF arg[u] = run.status THEN "redrain" ELSE "stopping")
  /\ UNCHANGED <<threadVars, spawned, events>>

(* settle_team_run, under the gate and after the drain.                        *)
SettleAs(s) ==
  CASE s = "Paused" -> SettlePaused(run)
    [] s = "Cancelled" -> Cancel(run)
    [] OTHER -> ForceMark(run, s)

StopEnds(u) ==
  /\ pc[u] = "stopping"
  /\ run' = IF Drained THEN SettleAs(arg[u]) ELSE Block(run)
  /\ Finish(u)
  /\ UNCHANGED <<threadVars, spawned, events>>

(* Stop on a paused run: the team lead may be busy with the user's own turn.   *)
RedrainEnds(u) ==
  /\ pc[u] = "redrain"
  /\ run' = IF Drained THEN run ELSE Block(run)
  /\ Finish(u)
  /\ UNCHANGED <<threadVars, spawned, events>>

MarkQuiet(u) ==
  /\ pc[u] = "mark_quiet" /\ gate = Nobody
  /\ run' = IF Working = {} /\ run.status \in Terminal \cup {"Paused"}
            THEN ForceMark(run, arg[u]) ELSE run
  /\ Finish(u)
  /\ UNCHANGED <<threadVars, spawned, events>>

MarkBlockedBegins(u) ==
  /\ pc[u] = "mark_blocked" /\ gate = Nobody
  /\ \/ run.status # "Blocked" /\ Finish(u)
     \/ run.status = "Blocked" /\ TakeGate(u) /\ Goto(u, "marking") /\ UNCHANGED <<ticket>>
  /\ UNCHANGED <<run, threadVars, spawned, events>>

MarkBlockedEnds(u) ==
  /\ pc[u] = "marking"
  /\ run' = IF Drained /\ run.status = "Blocked" THEN ForceMark(run, arg[u]) ELSE run
  /\ Finish(u)
  /\ UNCHANGED <<threadVars, spawned, events>>

(* The ticket is claimed before the gate; a worktree that is gone blocks the   *)
(* run on the strength of the status read before.                              *)
ResumeClaims(u) ==
  /\ pc[u] = "resume"
  /\ \/ run' = Block(run) /\ Finish(u)
     \/ ticket # Nobody /\ Finish(u) /\ UNCHANGED run
     \/ ticket = Nobody /\ ticket' = u /\ Goto(u, "resuming") /\ UNCHANGED <<run, gate>>
  /\ UNCHANGED <<threadVars, spawned, events>>

(* spawn_team_driver, with the ticket.                                         *)
Spawn(u) ==
  LET d == CHOOSE e \in Drivers : pc[e] = "off" IN
    /\ \E e \in Drivers : pc[e] = "off"
    /\ pc' = [pc EXCEPT ![u] = "off", ![d] = "boundary"]
    /\ arg' = [arg EXCEPT ![u] = NoThread]
    /\ ticket' = d
    /\ DropGate(u)

ResumeFlips(u) ==
  /\ pc[u] = "resuming" /\ gate = Nobody
  /\ run' = IF Working = {} THEN Resume(run) ELSE run
  /\ IF run' = run THEN Finish(u) ELSE Spawn(u)
  /\ UNCHANGED <<threadVars, spawned, events>>

ReopenFlips(u) ==
  /\ pc[u] = "reopen" /\ gate = Nobody
  /\ IF run.status \notin Reopenable
     THEN Finish(u) /\ UNCHANGED run
     ELSE /\ TakeGate(u) /\ UNCHANGED ticket
          /\ run' = [run EXCEPT !.status = "Paused"]
          /\ About(u, "reopening", run)
  /\ UNCHANGED <<threadVars, spawned, events>>

(* No ticket or a turn in flight: the record is put back, unless it has moved. *)
ReopenEnds(u) ==
  /\ pc[u] = "reopening"
  /\ IF ticket = Nobody /\ Working = {} /\ run.status = "Paused"
     THEN run' = Resume(run) /\ Spawn(u)
     ELSE run' = (IF run.status = "Paused" THEN arg[u] ELSE run) /\ Finish(u)
  /\ UNCHANGED <<threadVars, spawned, events>>

RequestResolve(u) ==
  /\ run.status = "Blocked" /\ Asked(u, "resolve", NoThread)
  /\ run' = [run EXCEPT !.status = "Resolving"]
  /\ UNCHANGED <<threadVars, gate, ticket, spawned>>

ResolveGate(u) ==
  /\ pc[u] = "resolve" /\ TakeGate(u)
  /\ Goto(u, "resolving")
  /\ UNCHANGED <<run, threadVars, ticket, spawned, events>>

ResolveEnds(u) ==
  /\ pc[u] = "resolving"
  /\ run' = IF Drained THEN ResolveAsPaused(run) ELSE Block(run)
  /\ Finish(u)
  /\ UNCHANGED <<threadVars, spawned, events>>

(* A message to the team lead of a paused run tries the gate and never waits.  *)
RequestSend(u) ==
  /\ run.status = "Paused" /\ view["tl"] # "working"
  /\ TakeGate(u) /\ Asked(u, "send", NoThread)
  /\ UNCHANGED <<run, threadVars, ticket, spawned>>

(* What comes of start_turn: a turn that the relay knows of, or, if it fails   *)
(* late or is dropped, perhaps one that it does not know of.                   *)
UserTurn ==
  /\ real["tl"] = "nobody"
  /\ real' = [real EXCEPT !["tl"] = "user"] /\ view' = [view EXCEPT !["tl"] = "working"]

LostTurn ==
  /\ real["tl"] = "nobody"
  /\ real' = [real EXCEPT !["tl"] = "lost"] /\ UNCHANGED view

SendEnds(u) ==
  /\ pc[u] = "send"
  /\ \/ (UserTurn \/ UNCHANGED <<view, real>>) /\ UNCHANGED events
     \/ LostTurn /\ Event
  /\ Finish(u)
  /\ UNCHANGED <<run, question, spawned>>

HangUpUnguarded(u) ==
  /\ pc[u] # "off" /\ Event /\ Finish(u)
  /\ UNCHANGED <<run, threadVars, spawned>>

(* The client disconnects: the handler's future is dropped where it awaits,    *)
(* and the guards it had armed spawn their cleanups.                           *)
HangUp(u) ==
  /\ pc[u] # "off" /\ Event /\ Finish(u)
  /\ spawned' = spawned \cup (CASE pc[u] = "stopping" -> {"abandon"}
                                [] pc[u] \in {"resolve", "resolving"} -> {"restore"}
                                [] OTHER -> {})
  /\ \/ pc[u] = "send" /\ (UserTurn \/ LostTurn)
     \/ UNCHANGED <<view, real>>
  /\ UNCHANGED <<run, question>>

AbandonStop ==
  /\ "abandon" \in spawned /\ spawned' = spawned \ {"abandon"}
  /\ run' = IF run.status \in Terminal THEN run ELSE [run EXCEPT !.stopping = FALSE]
  /\ UNCHANGED <<threadVars, gate, ticket, pc, arg, events>>

AbandonResolve ==
  /\ "restore" \in spawned /\ spawned' = spawned \ {"restore"}
  /\ run' = RestoreResolving(run)
  /\ UNCHANGED <<threadVars, gate, ticket, pc, arg, events>>

-----------------------------------------------------------------------------
(* Providers, people and the process. *)

Announces(t) ==
  /\ real[t] # "nobody" /\ view[t] # "working"
  /\ view' = [view EXCEPT ![t] = "working"]
  /\ UNCHANGED <<run, real, question, gate, ticket, pc, arg, spawned, events>>

Asks(t) ==
  /\ real[t] # "nobody" /\ view[t] = "working" /\ t \notin question /\ Event
  /\ question' = question \cup {t}
  /\ UNCHANGED <<run, view, real, gate, ticket, pc, arg, spawned>>

Answers(t) ==
  /\ t \in question
  /\ question' = question \ {t}
  /\ UNCHANGED <<run, view, real, gate, ticket, pc, arg, spawned, events>>

(* A turn ends, by itself or because it was told to; a lost one perhaps before *)
(* it began.                                                                   *)
TurnEnds(t) ==
  /\ real[t] # "nobody" /\ ~\E d \in Drivers : pc[d] = "sending" /\ arg[d] = t
  /\ real' = [real EXCEPT ![t] = "nobody"]
  /\ view' = [view EXCEPT ![t] = IF @ = "working" THEN "idle" ELSE @]
  /\ question' = question \ {t}
  /\ UNCHANGED <<run, gate, ticket, pc, arg, spawned, events>>

(* The relay restarts.  The agents are its children and die with it.           *)
Restarts ==
  /\ Event
  /\ run' = AfterRestore(run)
  /\ view' = [t \in Threads |-> "none"]
  /\ real' = [t \in Threads |-> "nobody"]
  /\ question' = {} /\ spawned' = {}
  /\ gate' = Nobody /\ ticket' = Nobody
  /\ pc' = [p \in Procs |-> "off"]
  /\ arg' = [p \in Procs |-> NoThread]

-----------------------------------------------------------------------------
DriverStep(d) ==
  \/ Leaves(d) \/ PausesHere(d) \/ GoesOn(d) \/ SettleCheck(d) \/ SettleWrite(d)
  \/ Updates(d) \/ Reports(d) \/ ReportsStuck(d) \/ CommitBegin(d) \/ CommitEnd(d)
  \/ TurnCheck(d) \/ TurnGate(d) \/ SendReturns(d) \/ WindowCloses(d) \/ TurnDrained(d)
  \/ Parks(d) \/ Unparks(d) \/ WaitFails(d) \/ WaitEnds(d) \/ TurnOver(d)
  \/ CleanupCheck(d) \/ CleanupGate(d) \/ CleanupEnds(d)

UserStep(u) ==
  \/ PauseNow(u) \/ StopBegins(u) \/ StopEnds(u) \/ RedrainEnds(u)
  \/ MarkQuiet(u) \/ MarkBlockedBegins(u) \/ MarkBlockedEnds(u)
  \/ ResumeClaims(u) \/ ResumeFlips(u) \/ ReopenFlips(u) \/ ReopenEnds(u)
  \/ ResolveGate(u) \/ ResolveEnds(u) \/ SendEnds(u)

Next ==
  \/ \E d \in Drivers : DriverStep(d) \/ ProviderBegins(d) \/ DriverLost(d)
  \/ \E u \in Users : \/ UserStep(u) \/ Request(u) \/ RequestMark(u)
                      \/ RequestResolve(u) \/ RequestSend(u) \/ HangUp(u)
  \/ AbandonStop \/ AbandonResolve
  \/ \E t \in Threads : Announces(t) \/ Asks(t) \/ Answers(t) \/ TurnEnds(t)
  \/ Restarts

(* Tasks run when they can; the gate is handed out in the order it was asked   *)
(* for, so nobody queues for it forever; a started turn announces itself.      *)
Fairness ==
  /\ \A d \in Drivers : SF_vars(DriverStep(d))
  /\ \A u \in Users : SF_vars(UserStep(u))
  /\ WF_vars(AbandonStop) /\ WF_vars(AbandonResolve)
  /\ \A t \in Threads : WF_vars(Announces(t))

Spec == Init /\ [][Next]_vars /\ Fairness

-----------------------------------------------------------------------------
(* Types, and the gate is with whoever is where it is held.                    *)
GateHeld == {"committing", "sending", "uncertain", "reclaiming", "stopping", "redrain",
             "marking", "reopening", "resolving", "send"}
TypeOK ==
  /\ run \in [status : Statuses, pauseRequested : BOOLEAN, stopping : BOOLEAN,
              awaiting : BOOLEAN, inFlight : Threads \cup {NoThread}]
  /\ view \in [Threads -> {"none", "idle", "working"}]
  /\ real \in [Threads -> {"nobody", "team", "user", "lost"}]
  /\ question \in SUBSET Threads
  /\ gate \in Procs \cup {Nobody} /\ ticket \in Procs \cup {Nobody}
  /\ \A p \in Procs : /\ pc[p] \in GateHeld => gate = p
                      /\ gate = p => pc[p] \in GateHeld \cup {"drain"}
  /\ spawned \in SUBSET {"abandon", "restore"}
  /\ events \in 0..MaxEvents

(* The refinement mapping to TeamPromise: a turn of the team or the user and a *)
(* git commit of the driver change the worktree.  A lost turn is nobody's.     *)
Mode ==
  CASE run.status \in Driven -> "driven"
    [] run.status = "Paused" -> "resting"
    [] run.status \in {"Blocked", "Resolving"} -> "stuck"
    [] OTHER -> "over"

Committing == \E d \in Drivers : pc[d] = "committing"
Busy == {t \in Threads : real[t] \in {"team", "user"}}
Writer ==
  CASE Busy = {} -> IF Committing THEN "team" ELSE "nobody"
    [] Busy # {} /\ ~Committing /\ \A s, t \in Busy : s = t -> real[CHOOSE t \in Busy : TRUE]
    [] OTHER -> "several"

Contract == INSTANCE TeamPromise WITH mode <- Mode, writer <- Writer

(* Every stop, settlement, recovery, loss and restart keeps the contract of    *)
(* TeamPromise: one writer at a time, and no turn or commit in a worktree that *)
(* the run has handed back (the order of stop_team_run, the gate, the drains). *)
(* It holds of every turn that had been announced, or whose start was still    *)
(* awaited; of a turn unannounced when its start was given up (a dropped send, *)
(* a lost driver, the end of the window) nothing in the relay knows.           *)
KeepsThePromise == Contract!Promise

(* The right to drive is the ticket, claimed before the gate and freed only by *)
(* the driver it was handed to (claim_team_drive, TeamDriveTicket): two        *)
(* drivers never work through one run, whoever resumes, reopens or loses it.   *)
Driving == {d \in Drivers : pc[d] \notin {"off", "cleanup", "reclaim", "reclaiming"}}
OneDriver == \A d \in Driving : ticket = d

(* "The user would get `failed` for pressing Cancel" (TeamRun::fail): while a  *)
(* stop drains the run, the failures it causes are not the run's verdict.      *)
StopOutranksFailure ==
  [][(\E u \in Users : pc[u] = "stopping" /\ pc'[u] = "stopping")
       => ~(run.status # "Failed" /\ run'.status = "Failed")]_vars

(* The gate is held across a message's start_turn, without which "a message to *)
(* a paused team lead can start its turn after a cancel has already drained    *)
(* the thread, marked the run terminal, and released the workspace"            *)
(* (send_message_inner_with_images): a run that is over has no turn at all.    *)
OverMeansQuiet == Mode = "over" => \A t \in Threads : real[t] = "nobody"

(* TeamDriverGuard and TeamRecoveryGuard: a run without a driver does not stay *)
(* as if it were driven, and a recovery does not stay half done, whatever was  *)
(* lost or dropped on the way.                                                 *)
Adrift == (~Off(run) /\ ticket = Nobody) \/ run.status = "Resolving"
NobodyIsStranded == Adrift ~> ~Adrift

(* pause_team_run only sets a flag: the run still comes to rest, or ends, even *)
(* if its driver fails or is lost, or a stop on top of the pause is dropped.   *)
PauseTakesEffect == run.pauseRequested ~> (~run.pauseRequested \/ Off(run))
=============================================================================
