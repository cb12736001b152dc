------------------------------ MODULE CodeJobs ------------------------------
(* Reviews and workflow runs on the same threads, with the people who use      *)
(* those threads and a relay that may restart.                                 *)
EXTENDS ReviewJobs, WorkflowRuns

vars == <<sharedVars, reviewVars, recovery>>

JobsInit == Init /\ ReviewInit /\ WorkflowInit

(* Only finished reviews are persisted; a run that was not over comes back     *)
(* Interrupted.  The providers' turns end with the relay's process.            *)
Restart ==
  /\ Event
  /\ live' = [t \in Threads |-> None] /\ seen' = {} /\ lost' = {} /\ slot' = None
  /\ status' = [j \in Jobs |-> IF Over(j) THEN status[j]
                               ELSE IF j \in Workflows THEN "Interrupted" ELSE "none"]
  /\ parent' = [j \in Jobs |-> IF j \in Reviews /\ ~Over(j) THEN None ELSE parent[j]]
  /\ rev' = [j \in Jobs |-> IF j \in Reviews /\ ~Over(j) THEN None ELSE rev[j]]
  /\ pc' = [j \in Jobs |-> "off"]
  /\ stage' = [j \in Jobs |-> "none"] /\ round' = [j \in Jobs |-> 0]
  /\ cancel' = {} /\ retried' = {}
  /\ stuck' = [r \in Reviews |-> None] /\ asking' = [r \in Reviews |-> "off"]
  /\ recovery' = [w \in Workflows |-> "off"]

Shared(A) == A /\ UNCHANGED <<reviewVars, recovery>>

Next ==
  \/ \E t \in Threads : Shared(PersonSends(t)) \/ Shared(Announced(t)) \/ Shared(TurnEnds(t))
  \/ Shared(PersonSent)
  \/ \E j \in Jobs : Shared(TurnBegins(j)) \/ Shared(StartIsUncertain(j)) \/ Shared(TaskLost(j))
  \/ \E r \in Reviews : (ReviewTask(r) \/ ReviewRequest(r)) /\ UNCHANGED recovery
  \/ \E w \in Workflows : (RunTask(w) \/ RunRequest(w)) /\ UNCHANGED reviewVars
  \/ Restart

(* Tasks and handlers run on; calls return or time out.  A turn never has to   *)
(* be announced or to end: it ends, parks or stalls, and Wait sees to the rest.*)
Fairness ==
  /\ \A j \in Jobs : WF_vars(Shared(TurnBegins(j)) \/ Shared(StartIsUncertain(j)))
  /\ \A r \in Reviews : /\ WF_vars(ReviewTask(r) /\ UNCHANGED recovery)
                        /\ WF_vars(CancelEnds(r) /\ UNCHANGED recovery)
  /\ \A w \in Workflows :
       /\ WF_vars(RunTask(w) /\ UNCHANGED reviewVars)
       /\ WF_vars((ResolveEnds(w) \/ ResolveRestored(w)) /\ UNCHANGED reviewVars)
  /\ WF_vars(Shared(PersonSent))

Spec == JobsInit /\ [][Next]_vars
FairSpec == Spec /\ Fairness

-----------------------------------------------------------------------------
Places == {"off", "brief", "round", "check", "send", "begun", "uncertain", "wait",
           "stop", "blocking", "guard", "failing", "start", "reviewer", "preflight",
           "draining", "drained"}

(* The shape of the state.                                                     *)
TypeOK ==
  /\ live \in [Threads -> Jobs \cup {Person, None}]
  /\ seen \subseteq Threads /\ lost \subseteq Threads
  /\ slot \in Threads \cup {None}
  /\ status \in [Jobs -> {"none", "Active", "Blocked", "Resolving", "Complete", "Failed",
                          "Cancelled", "Interrupted"}]
  /\ parent \in [Jobs -> Authors \cup {None}]
  /\ rev \in [Jobs -> Jobs \cup {None}]
  /\ pc \in [Jobs -> Places]
  /\ stage \in [Jobs -> {"none", "recap", "review", "fix", "post", "execute", "revise"}]
  /\ round \in [Jobs -> 0 .. MaxRounds]
  /\ events \in 0 .. MaxEvents
  /\ cancel \subseteq Reviews /\ retried \subseteq Reviews
  /\ stuck \in [Reviews -> Threads \cup {None}]
  /\ asking \in [Reviews -> {"off", "cancel", "resolve", "dropped"}]
  /\ recovery \in [Workflows -> {"off", "draining", "restoring"}]

(* Until a job is over nobody else works where it writes: no person and no     *)
(* other running job has a turn on a review's author thread, nor on any author *)
(* thread of a workflow's workspace.  A review that was stopped may have left  *)
(* a turn there; so may a send that was given up before its turn was heard of, *)
(* if none of it was heard before the job took the thread over.                *)
WritesAlone ==
  \A j \in Jobs : ~Over(j) =>
    \A t \in (IF j \in Workflows THEN Authors ELSE {parent[j]}) \ lost :
      live[t] \notin {Person} \cup {k \in Jobs \ {j} : ~Over(k)}

(* A workflow is over, and its workspace unlocked, only when none of its turns *)
(* is still running, however it ended: finished, failed, lost or resolved.     *)
(* The one exception is a turn whose start was given up and that was not heard *)
(* of before the run had drained its threads.                                  *)
WorkflowEndsQuiet ==
  \A w \in Workflows : Over(w) => \A t \in Threads \ lost : live[t] # w

(* A review's own task ends it only when no turn of the review is running but  *)
(* the one that delivers the result; a turn it cannot stop blocks it instead.  *)
(* Again a turn whose start was given up, if it was not heard of by then, is   *)
(* not stopped: nobody knows of it.                                            *)
ReviewSettlesQuietly ==
  [][\A r \in Reviews : (pc[r] # "guard" /\ pc'[r] = "guard" /\ ~Over(r) /\ Over(r)') =>
       \A t \in Threads \ lost : live[t] = r => (stage[r] = "post" /\ t = parent[r])]_vars

(* Every job is settled in the end, or blocked for a person to resolve: its    *)
(* task, the lifeguard of a lost task, a stop and an interrupted recovery      *)
(* leave none of them running with nobody at it.  Only a stop request that is  *)
(* dropped halfway may, until the next one.                                    *)
JobsSettle ==
  \A j \in Jobs : ~Over(j) ~> \/ Over(j) \/ status[j] = "Blocked"
                              \/ (j \in Reviews /\ asking[j] = "dropped")

(* "Drain either way so a started turn can't keep mutating after the run goes  *)
(* terminal" (run_turn): a workflow that is over has no turn at all.           *)
EndedRunsAreQuiet ==
  \A w \in Workflows : Over(w) => \A t \in Threads : live[t] # w

(* "a still-running turn can't race a future review": no review starts while a *)
(* turn of a cancelled one is still running.                                   *)
StoppedTurnsDoNotRace ==
  [][\A r \in Reviews : (status[r] = "none" /\ status'[r] = "Active") =>
       \A k \in Reviews, t \in Threads : status[k] = "Cancelled" => live[t] # k]_vars
=============================================================================
