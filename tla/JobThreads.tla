----------------------------- MODULE JobThreads -----------------------------
(* The threads that background jobs drive (crates/relay-server/src/state/app/  *)
(* review.rs and workflow.rs): which turns a provider runs on them, what the   *)
(* relay has heard of those turns, and the locks that keep people and jobs     *)
(* apart.  All threads work in one workspace.                                  *)
(*                                                                             *)
(* The call that asks for a turn may fail, time out or be dropped with the     *)
(* turn on its way: the provider announces it later.  A turn it has yet to     *)
(* begin then counts as begun, as the relay cannot tell the two apart.         *)
(* Approvals and questions are not kept: to a job a parked turn is a turn it   *)
(* has to stop, as one that stalls is.                                         *)
EXTENDS Naturals, FiniteSets

CONSTANTS
  Authors,     \* threads people write on
  Reviews,     \* ids of review jobs
  Workflows,   \* ids of workflow runs
  None,
  MaxRounds,   \* bound: max_rounds of a job
  MaxEvents    \* bound: requests of people, lost tasks, hang-ups and restarts

Person == "person"

ASSUME JobsAssumption ==
  /\ Authors \cap Reviews = {} /\ Authors \cap Workflows = {}
  /\ Reviews \cap Workflows = {}
  /\ None \notin Authors \cup Reviews \cup Workflows
  /\ Person \notin Authors \cup Reviews \cup Workflows \cup {None}
  /\ MaxRounds \in Nat \ {0} /\ MaxEvents \in Nat

Jobs == Reviews \cup Workflows

(* The reviewer thread a job has created goes by the id of that job.           *)
Threads == Authors \cup Jobs

VARIABLES
  live,    \* whose turn the provider is running on each thread
  seen,    \* threads whose runtime is_working
  lost,    \* threads whose turn was not heard of in time (no action reads it)
  slot,    \* session_guard: the thread a person is sending to, or None
  status,  \* of each job
  parent,  \* the author thread of each job
  rev,     \* its reviewer thread, once there is one
  pc,      \* where its task is
  stage,   \* which turn that task is at
  round,
  events

threadVars == <<live, seen, lost>>
jobVars == <<status, parent, rev, pc, stage, round>>
sharedVars == <<live, seen, lost, slot, status, parent, rev, pc, stage, round, events>>

Init ==
  /\ live = [t \in Threads |-> None]
  /\ seen = {}
  /\ lost = {}
  /\ slot = None
  /\ status = [j \in Jobs |-> "none"]
  /\ parent = [j \in Jobs |-> None]
  /\ rev = [j \in Jobs |-> None]
  /\ pc = [j \in Jobs |-> "off"]
  /\ stage = [j \in Jobs |-> "none"]
  /\ round = [j \in Jobs |-> 0]
  /\ events = 0

Event == events < MaxEvents /\ events' = events + 1

(* is_terminal, of either kind of job; a deleted one has no status at all.     *)
Over(j) == status[j] \in {"none", "Complete", "Failed", "Cancelled", "Interrupted"}
Owned(j) == {parent[j], rev[j]} \ {None}

ReviewLocked(t) == \E r \in Reviews : ~Over(r) /\ t \in Owned(r)
ActiveReview == \E r \in Reviews : ~Over(r)
RunningWorkflow == \E w \in Workflows : status[w] = "Active"
ActiveWorkflow == \E w \in Workflows : ~Over(w)

(* is_thread_or_cwd_workflow_locked: the run owns the whole workspace.         *)
WorkflowLocked == ActiveWorkflow

(* has_working_thread_in_cwd: reviewer threads are read-only and do not count. *)
AuthorWorking == seen \cap Authors # {}

-----------------------------------------------------------------------------
(* A person sends: the slot is held from the checks to the provider's answer.  *)
PersonSends(t) ==
  /\ t \in Authors \/ (\E j \in Jobs : rev[j] = t /\ status[j] # "none")
  /\ slot = None
  /\ ~ReviewLocked(t) /\ ~WorkflowLocked /\ t \notin seen
  /\ Event
  /\ slot' = t
  /\ UNCHANGED <<threadVars, jobVars>>

(* Its turn is seeded or announced, or there is none, or the call times out,   *)
(* fails or is dropped by a client that hangs up, and nothing is heard yet.    *)
PersonSent ==
  /\ slot # None
  /\ \/ /\ live[slot] = None /\ live' = [live EXCEPT ![slot] = Person]
        /\ \/ seen' = seen \cup {slot} /\ UNCHANGED lost
           \/ lost' = lost \cup {slot} /\ UNCHANGED seen
     \/ UNCHANGED threadVars
  /\ slot' = None
  /\ UNCHANGED <<jobVars, events>>

(* A turn given up unheard is lost for good once a job has taken the thread    *)
(* over from its sender, or its own job has drained the threads or ended.      *)
InTime(t) ==
  IF live[t] = Person THEN ~ReviewLocked(t) /\ ~WorkflowLocked
  ELSE ~Over(live[t]) /\ pc[live[t]] # "drained"

(* The provider: one turn of a thread at a time, a second one being refused or *)
(* kept waiting; it is heard of, and ends whenever it likes.                   *)
Announced(t) ==
  /\ live[t] # None /\ t \notin seen
  /\ seen' = seen \cup {t}
  /\ lost' = IF InTime(t) THEN lost \ {t} ELSE lost
  /\ UNCHANGED <<live, slot, jobVars, events>>

TurnEnds(t) ==
  /\ live[t] # None
  /\ live' = [live EXCEPT ![t] = None]
  /\ seen' = seen \ {t} /\ lost' = lost \ {t}
  /\ UNCHANGED <<slot, jobVars, events>>

-----------------------------------------------------------------------------
(* The turn of a job: send_message_to_thread and what came of it.              *)

Target(j) == IF stage[j] = "review" THEN rev[j] ELSE parent[j]
Goto(j, l) ==
  /\ pc' = [pc EXCEPT ![j] = l]
  /\ IF l \in {"guard", "off"} THEN /\ stage' = [stage EXCEPT ![j] = "none"]
                                   /\ round' = [round EXCEPT ![j] = 0]
     ELSE UNCHANGED <<stage, round>>
ToTurn(j, s, l) ==
  /\ stage' = [stage EXCEPT ![j] = s] /\ pc' = [pc EXCEPT ![j] = l]
  /\ UNCHANGED round

OneRoundMore(j) == round[j] <= MaxRounds
RoundsLeft(j) == round[j] < MaxRounds

(* The provider takes the turn up while start_turn is open.                    *)
TurnBegins(j) ==
  /\ pc[j] = "send" /\ live[Target(j)] = None
  /\ live' = [live EXCEPT ![Target(j)] = j]
  /\ Goto(j, "begun")
  /\ UNCHANGED <<seen, lost, slot, status, parent, rev, events>>

(* Seeded only when no turn event landed meanwhile: an ended turn is not       *)
(* written back over its own completion.                                       *)
Seeded(j) == seen' = IF live[Target(j)] = j THEN seen \cup {Target(j)} ELSE seen

(* Nobody waits for the answer any more, whether or not the turn was heard of. *)
GivenUp(j) ==
  lost' = IF live[Target(j)] = j /\ Target(j) \notin seen THEN lost \cup {Target(j)} ELSE lost

(* No turn id, or an error after which the turn may be running all the same.   *)
StartIsUncertain(j) ==
  /\ pc[j] \in {"send", "begun"}
  /\ GivenUp(j) /\ Goto(j, "uncertain")
  /\ UNCHANGED <<live, seen, slot, status, parent, rev, events>>

(* The task panics.                                                            *)
TaskLost(j) ==
  /\ pc[j] \notin {"off", "guard", "failing", "draining", "drained"}
  /\ Event
  /\ GivenUp(j) /\ Goto(j, "guard")
  /\ UNCHANGED <<live, seen, slot, status, parent, rev>>

(* A request may take an id that nothing refers to any more: ids are unique.   *)
Fresh(j) ==
  /\ pc[j] = "off" /\ \A t \in Threads : live[t] # j
  /\ live[j] = None /\ j # slot
  /\ \A k \in Jobs \ {j} : rev[k] = j => (status[k] = "none" /\ pc[k] = "off")
=============================================================================
