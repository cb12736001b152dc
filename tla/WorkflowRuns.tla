---------------------------- MODULE WorkflowRuns ----------------------------
(* Workflow runs (crates/relay-server/src/state/app/workflow.rs and            *)
(* state/workflow.rs): execute, review, revise.  The author writes the tree,   *)
(* so a run is over only once its turns have stopped; until then it is Blocked *)
(* and keeps the workspace.                                                    *)
(*                                                                             *)
(* Queued and Running are "Active"; Done and Escalated are "Complete".         *)
EXTENDS JobThreads

VARIABLE recovery   \* where the handler of Resolve on each run is

WorkflowInit == recovery = [w \in Workflows |-> "off"]

Off(w) == Over(w) \/ status[w] \in {"Blocked", "Resolving"}

(* set_status and fail respect a block; block respects the end only.           *)
SetRun(w, s) == status' = [status EXCEPT ![w] = IF Off(w) THEN @ ELSE s]
BlockRun(w) == status' = [status EXCEPT ![w] = IF Over(w) THEN @ ELSE "Blocked"]

(* authorize_and_resolve_workflow_parent and record_and_spawn_workflow, under  *)
(* one slot.                                                                   *)
StartWorkflow(w, p) ==
  /\ slot = None /\ Over(w) /\ Fresh(w) /\ recovery[w] = "off"
  /\ ~ActiveWorkflow /\ ~ActiveReview /\ p \notin seen /\ ~AuthorWorking
  /\ Event
  /\ status' = [status EXCEPT ![w] = "Active"]
  /\ parent' = [parent EXCEPT ![w] = p]
  /\ rev' = [rev EXCEPT ![w] = None]
  /\ pc' = [pc EXCEPT ![w] = "start"]
  /\ stage' = [stage EXCEPT ![w] = "execute"]
  /\ round' = [round EXCEPT ![w] = 0]
  /\ UNCHANGED <<threadVars, slot, recovery>>

-----------------------------------------------------------------------------
(* run_workflow_job.  A task that returns has disarmed its lifeguard.          *)
LeaveRun(w, s) == SetRun(w, s) /\ Goto(w, "off")

(* The execute step, or the review at once in a workflow that has none.        *)
Starts(w) ==
  /\ pc[w] = "start"
  /\ \/ ToTurn(w, "execute", "preflight")
     \/ Goto(w, "reviewer")
  /\ UNCHANGED <<threadVars, slot, status, parent, rev, events, recovery>>

(* The end of a workflow without review, or a reviewer thread of its own.      *)
GetsReviewer(w) ==
  /\ pc[w] = "reviewer"
  /\ \/ \E s \in {"Complete", "Failed"} : LeaveRun(w, s) /\ UNCHANGED rev
     \/ rev' = [rev EXCEPT ![w] = w] /\ Goto(w, "round") /\ UNCHANGED status
  /\ UNCHANGED <<threadVars, slot, parent, events, recovery>>

RunRound(w) ==
  /\ pc[w] = "round"
  /\ \/ LeaveRun(w, "Failed")
     \/ /\ round' = [round EXCEPT ![w] = @ + 1]
        /\ stage' = [stage EXCEPT ![w] = "review"]
        /\ pc' = [pc EXCEPT ![w] = "preflight"]
        /\ UNCHANGED status
  /\ UNCHANGED <<threadVars, slot, parent, rev, events, recovery>>

(* workflow_turn_preflight: a run that is off, a busy thread or another writer *)
(* in the workspace blocks the run instead.                                    *)
Preflight(w) ==
  /\ pc[w] = "preflight"
  /\ \/ /\ Off(w) \/ Target(w) \in seen \/ AuthorWorking
        /\ BlockRun(w) /\ Goto(w, "off")
     \/ ~Off(w) /\ Target(w) \notin seen /\ ~AuthorWorking /\ Goto(w, "send") /\ UNCHANGED status
  /\ UNCHANGED <<threadVars, slot, parent, rev, events, recovery>>

RunSent(w) ==
  /\ pc[w] = "begun"
  /\ Seeded(w) /\ Goto(w, "wait")
  /\ UNCHANGED <<live, lost, slot, status, parent, rev, events, recovery>>

(* A turn without a fresh reply fails the run; a revision without one ends it. *)
WithoutReply(w) == LeaveRun(w, IF stage[w] = "revise" THEN "Complete" ELSE "Failed")

(* A reply: on to the review, to the next round, or, as the verdict has it, to *)
(* the end or a revision.                                                      *)
Replied(w) ==
  \/ stage[w] = "execute" /\ Goto(w, "reviewer") /\ UNCHANGED status
  \/ stage[w] = "revise" /\ Goto(w, "round") /\ UNCHANGED status
  \/ stage[w] = "review" /\ LeaveRun(w, "Complete")
  \/ /\ stage[w] = "review" /\ RoundsLeft(w)
     /\ ToTurn(w, "revise", "preflight") /\ UNCHANGED status

(* wait_for_step_idle.                                                         *)
RunWait(w) ==
  /\ pc[w] = "wait"
  /\ \/ Target(w) \in seen /\ Goto(w, "stop") /\ UNCHANGED status
     \/ Target(w) \notin seen /\ (WithoutReply(w) \/ Replied(w))
  /\ UNCHANGED <<threadVars, slot, parent, rev, events, recovery>>

RunStopsUnsure(w) ==
  /\ pc[w] \in {"stop", "uncertain"} /\ WithoutReply(w)
  /\ UNCHANGED <<threadVars, slot, parent, rev, events, recovery>>

(* stop_and_drain after a stall, a question or an uncertain start.             *)
RunStops(w) ==
  /\ pc[w] \in {"stop", "uncertain"}
  /\ \/ Target(w) \notin seen /\ WithoutReply(w)
     \/ Target(w) \in seen /\ BlockRun(w) /\ Goto(w, "off")
  /\ UNCHANGED <<threadVars, slot, parent, rev, events, recovery>>

(* interrupt_workflow_if_stranded: look, drain every owned thread, look again. *)
RunGuard(w) ==
  /\ pc[w] = "guard"
  /\ Goto(w, IF Off(w) THEN "off" ELSE "draining")
  /\ UNCHANGED <<threadVars, slot, status, parent, rev, events, recovery>>

RunDrains(w) ==
  /\ pc[w] = "draining"
  /\ \/ Owned(w) \cap seen = {} /\ Goto(w, "drained") /\ UNCHANGED status
     \/ Owned(w) \cap seen # {} /\ BlockRun(w) /\ Goto(w, "off")
  /\ UNCHANGED <<threadVars, slot, parent, rev, events, recovery>>

RunInterrupted(w) ==
  /\ pc[w] = "drained"
  /\ LeaveRun(w, "Interrupted")
  /\ UNCHANGED <<threadVars, slot, parent, rev, events, recovery>>

-----------------------------------------------------------------------------
(* resolve_blocked_workflow.  The client may hang up while the turns drain:    *)
(* the recovery guard spawns the task that puts the block back.                *)
ResolveBegins(w) ==
  /\ status[w] = "Blocked" /\ recovery[w] = "off"
  /\ Event
  /\ status' = [status EXCEPT ![w] = "Resolving"]
  /\ recovery' = [recovery EXCEPT ![w] = "draining"]
  /\ UNCHANGED <<threadVars, slot, parent, rev, pc, stage, round>>

ResolveEnds(w) ==
  /\ recovery[w] = "draining"
  /\ \/ /\ Owned(w) \cap seen = {}
        /\ status' = [status EXCEPT ![w] = IF @ = "Resolving" THEN "Failed" ELSE @]
     \/ Owned(w) \cap seen # {} /\ BlockRun(w)
  /\ recovery' = [recovery EXCEPT ![w] = "off"]
  /\ UNCHANGED <<threadVars, slot, parent, rev, pc, stage, round, events>>

HangUpUnguarded(w) ==
  /\ recovery[w] = "draining"
  /\ Event
  /\ recovery' = [recovery EXCEPT ![w] = "off"]
  /\ UNCHANGED <<threadVars, slot, jobVars>>

ResolveHangsUp(w) ==
  /\ recovery[w] = "draining"
  /\ Event
  /\ recovery' = [recovery EXCEPT ![w] = "restoring"]
  /\ UNCHANGED <<threadVars, slot, jobVars>>

ResolveRestored(w) ==
  /\ recovery[w] = "restoring"
  /\ status' = [status EXCEPT ![w] = IF @ = "Resolving" THEN "Blocked" ELSE @]
  /\ recovery' = [recovery EXCEPT ![w] = "off"]
  /\ UNCHANGED <<threadVars, slot, parent, rev, pc, stage, round, events>>

RunTask(w) ==
  \/ Starts(w) \/ GetsReviewer(w) \/ RunRound(w) \/ Preflight(w) \/ RunSent(w)
  \/ RunWait(w) \/ RunStops(w) \/ RunGuard(w) \/ RunDrains(w) \/ RunInterrupted(w)

RunRequest(w) ==
  \/ \E p \in Authors : StartWorkflow(w, p)
  \/ ResolveBegins(w) \/ ResolveEnds(w) \/ ResolveHangsUp(w) \/ ResolveRestored(w)
=============================================================================
