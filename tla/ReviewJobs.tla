----------------------------- MODULE ReviewJobs -----------------------------
(* Reviews (crates/relay-server/src/state/app/review.rs, state/review.rs): a   *)
(* task per job that briefs a reviewer thread, reads its verdict, has the      *)
(* author address it round by round and posts the result back; a person may    *)
(* stop it at any time, and unlock it when a turn could not be stopped.        *)
(*                                                                             *)
(* The statuses between PendingParentRecap and PostingBack, Interrupting       *)
(* included, only say how far the task is: they are "Active" here and the      *)
(* stage says the rest.  Complete and Escalated both deliver: "Complete".      *)
EXTENDS JobThreads

VARIABLES
  cancel,   \* cancel_requested_jobs
  stuck,    \* blocked_reviews: the thread that would not stop, or None
  retried,  \* reviews that have re-resolved a vanished workspace once
  asking    \* where the handler of a Stop on each review is; dropped: it left
            \* its flag behind when the client hung up

reviewVars == <<cancel, stuck, retried, asking>>

ReviewInit ==
  /\ cancel = {}
  /\ stuck = [r \in Reviews |-> None]
  /\ retried = {}
  /\ asking = [r \in Reviews |-> "off"]

(* set_status and fail: terminal is final.                                     *)
SetReview(r, s) == status' = [status EXCEPT ![r] = IF Over(r) THEN @ ELSE s]

(* Nothing is recorded of a new id.                                            *)
Unknown(r) ==
  /\ cancel' = cancel \ {r} /\ retried' = retried \ {r}
  /\ stuck' = [stuck EXCEPT ![r] = None]
  /\ asking' = [asking EXCEPT ![r] = "off"]

(* request_review, under the slot.  A reviewer of an earlier review of the     *)
(* same author thread may be asked for; whether it is busy is not asked.       *)
RequestReview(r, p) ==
  /\ slot = None /\ status[r] = "none" /\ Fresh(r) /\ asking[r] \in {"off", "dropped"}
  /\ ~ActiveWorkflow /\ ~ReviewLocked(p) /\ p \notin seen
  /\ Event
  /\ status' = [status EXCEPT ![r] = "Active"]
  /\ parent' = [parent EXCEPT ![r] = p]
  /\ rev' \in {[rev EXCEPT ![r] = v] :
       v \in {None} \cup {rev[k] : k \in {k \in Jobs \ {r} : parent[k] = p /\ status[k] # "none"}}}
  /\ pc' = [pc EXCEPT ![r] = "brief"]
  /\ stage' = [stage EXCEPT ![r] = "recap"]
  /\ round' = [round EXCEPT ![r] = 0]
  /\ Unknown(r)
  /\ UNCHANGED <<threadVars, slot>>

(* delete_review: every finished review of that reviewer thread goes.          *)
DeleteReview(r) ==
  /\ status[r] # "none" /\ Over(r)
  /\ Event
  /\ LET dropped == {k \in Reviews : Over(k) /\ rev[k] = rev[r] /\ (rev[r] = None => k = r)}
     IN status' = [k \in Jobs |-> IF k \in dropped THEN "none" ELSE status[k]]
  /\ UNCHANGED <<threadVars, slot, parent, rev, pc, stage, round, reviewVars>>

-----------------------------------------------------------------------------
(* run_review_job.                                                             *)

Aborted(r) == r \in cancel \/ Over(r)

(* The task returns; its lifeguard is dropped and looks after the job.         *)
Leave(r) == Goto(r, "guard")
LeaveFailed(r) == Leave(r) /\ SetReview(r, "Failed")

(* Step 1: the author's last message, or a recap turn nobody checks before.    *)
Brief(r) ==
  /\ pc[r] = "brief"
  /\ \/ Goto(r, "round")
     \/ ToTurn(r, "recap", "send")
  /\ UNCHANGED <<threadVars, slot, status, parent, rev, events, reviewVars>>

(* The top of a round: the tree, its diff, and a reviewer that works in it.    *)
(* Any of them may fail; a clean reviewer is a thread of the job's own.        *)
Round(r) ==
  /\ pc[r] = "round"
  /\ \/ Aborted(r) /\ Leave(r) /\ UNCHANGED <<status, rev>>
     \/ ~Aborted(r) /\ LeaveFailed(r) /\ UNCHANGED rev
     \/ /\ ~Aborted(r)
        /\ \/ rev[r] # None /\ UNCHANGED rev
           \/ /\ rev[r] \in {None, r} \/ round[r] > 0
              /\ rev' = [rev EXCEPT ![r] = r]
        /\ round' = [round EXCEPT ![r] = @ + 1]
        /\ stage' = [stage EXCEPT ![r] = "review"]
        /\ pc' = [pc EXCEPT ![r] = "check"]
        /\ UNCHANGED status
  /\ UNCHANGED <<threadVars, slot, parent, events, reviewVars>>

(* The tree vanished before the reviewer could be started in it.               *)
RoundAgain(r) ==
  /\ pc[r] = "round" /\ ~Aborted(r) /\ r \notin retried
  /\ retried' = retried \cup {r}
  /\ UNCHANGED <<threadVars, slot, jobVars, events, cancel, stuck, asking>>

(* review_aborted, asked before a reviewer turn and before a fix turn.         *)
Check(r) ==
  /\ pc[r] = "check"
  /\ Goto(r, IF Aborted(r) THEN "guard" ELSE "send")
  /\ UNCHANGED <<threadVars, slot, status, parent, rev, events, reviewVars>>

(* The workspace is gone, so no turn began: a recap is done without, a round   *)
(* is run again once, a fix is given up and the review delivered as it stands, *)
(* and a delivery is settled undelivered.                                      *)
WorkspaceGone(r) ==
  /\ pc[r] = "send"
  /\ \/ stage[r] = "recap" /\ Goto(r, "round") /\ UNCHANGED <<status, retried>>
     \/ /\ stage[r] = "review" /\ r \notin retried
        /\ retried' = retried \cup {r}
        /\ round' = [round EXCEPT ![r] = @ - 1]
        /\ pc' = [pc EXCEPT ![r] = "round"]
        /\ UNCHANGED <<stage, status>>
     \/ stage[r] = "fix" /\ ToTurn(r, "post", "send") /\ UNCHANGED <<status, retried>>
     \/ /\ stage[r] = "post" /\ SetReview(r, "Complete") /\ Leave(r)
        /\ UNCHANGED retried
  /\ UNCHANGED <<threadVars, slot, parent, rev, events, cancel, stuck, asking>>

(* A turn id: wait for the turn.  The turn that delivers is not waited for,    *)
(* and need not have an id, without which it is not seeded.                    *)
Sent(r) ==
  /\ \/ /\ pc[r] = "begun" /\ stage[r] # "post"
        /\ Seeded(r) /\ Goto(r, "wait") /\ UNCHANGED <<status, lost>>
     \/ /\ pc[r] \in {"begun", "send"} /\ stage[r] = "post"
        /\ \/ Seeded(r) /\ UNCHANGED lost
           \/ GivenUp(r) /\ UNCHANGED seen
        /\ SetReview(r, "Complete") /\ Leave(r)
  /\ UNCHANGED <<live, slot, parent, rev, events, reviewVars>>

(* A recap must be fresh (drive_parent_recap).                                 *)
RecapDone(r) ==
  /\ stage[r] = "recap"
  /\ \/ LeaveFailed(r)
     \/ Goto(r, "round") /\ UNCHANGED status

(* So must a review; its verdict ends the rounds or asks the author for a fix. *)
ReviewDone(r) ==
  /\ stage[r] = "review"
  /\ \/ LeaveFailed(r)
     \/ ToTurn(r, "post", "send") /\ UNCHANGED status
     \/ RoundsLeft(r) /\ ToTurn(r, "fix", "check") /\ UNCHANGED status

FixDone(r) == stage[r] = "fix" /\ Goto(r, "round") /\ UNCHANGED status

(* wait_for_thread_idle_outcome: cancelled, over, or to be stopped because it  *)
(* parked or stalled.                                                          *)
Wait(r) ==
  /\ pc[r] = "wait"
  /\ \/ r \in cancel /\ Leave(r) /\ UNCHANGED status
     \/ r \notin cancel /\ Target(r) \in seen /\ Goto(r, "stop") /\ UNCHANGED status
     \/ /\ r \notin cancel /\ Target(r) \notin seen
        /\ RecapDone(r) \/ ReviewDone(r) \/ FixDone(r)
  /\ UNCHANGED <<threadVars, slot, parent, rev, events, reviewVars>>

(* stop_thread_or_block: once the turn is seen to have stopped the review      *)
(* fails, or delivers what it has; otherwise it is recorded as blocked.        *)
Stopped(r) ==
  /\ pc[r] \in {"stop", "uncertain"} /\ Target(r) \notin seen
  /\ \/ pc[r] = "stop" /\ stage[r] = "fix" /\ ToTurn(r, "post", "send") /\ UNCHANGED status
     \/ (pc[r] = "uncertain" \/ stage[r] # "fix") /\ LeaveFailed(r)
  /\ UNCHANGED <<threadVars, slot, parent, rev, events, reviewVars>>

FailsAnyway(r) ==
  /\ pc[r] \in {"stop", "uncertain"} /\ Target(r) \in seen
  /\ LeaveFailed(r)
  /\ UNCHANGED <<threadVars, slot, parent, rev, events, reviewVars>>

NotStopped(r) ==
  /\ pc[r] \in {"stop", "uncertain"} /\ Target(r) \in seen
  /\ stuck' = [stuck EXCEPT ![r] = Target(r)]
  /\ Goto(r, "blocking")
  /\ UNCHANGED <<threadVars, slot, status, parent, rev, events, cancel, retried, asking>>

EnterBlocked(r) ==
  /\ pc[r] = "blocking"
  /\ SetReview(r, "Blocked") /\ Leave(r)
  /\ UNCHANGED <<threadVars, slot, parent, rev, events, reviewVars>>

(* fail_job_if_stranded, in the task the lifeguard spawns: it looks first,     *)
(* then fails the job, and drops the cancel flag in any case.                  *)
Guard(r) ==
  /\ pc[r] = "guard"
  /\ \/ /\ r \notin cancel /\ ~Over(r) /\ status[r] # "Blocked"
        /\ Goto(r, "failing") /\ UNCHANGED cancel
     \/ /\ r \in cancel \/ Over(r) \/ status[r] = "Blocked"
        /\ cancel' = cancel \ {r} /\ Goto(r, "off")
  /\ UNCHANGED <<threadVars, slot, status, parent, rev, events, stuck, retried, asking>>

GuardFails(r) ==
  /\ pc[r] = "failing"
  /\ SetReview(r, "Failed") /\ cancel' = cancel \ {r} /\ Goto(r, "off")
  /\ UNCHANGED <<threadVars, slot, parent, rev, events, stuck, retried, asking>>

-----------------------------------------------------------------------------
(* cancel_review: a blocked review is resolved; any other is flagged, its      *)
(* turns are asked to stop, and it is over without waiting for them.           *)
CancelBegins(r) ==
  /\ ~Over(r) /\ asking[r] \in {"off", "dropped"}
  /\ Event
  /\ \/ /\ stuck[r] # None
        /\ asking' = [asking EXCEPT ![r] = "resolve"] /\ UNCHANGED cancel
     \/ /\ stuck[r] = None
        /\ asking' = [asking EXCEPT ![r] = "cancel"] /\ cancel' = cancel \cup {r}
  /\ UNCHANGED <<threadVars, slot, jobVars, stuck, retried>>

CancelEnds(r) ==
  /\ asking[r] \in {"cancel", "resolve"}
  /\ SetReview(r, IF asking[r] = "cancel" THEN "Cancelled" ELSE "Failed")
  /\ stuck' = [stuck EXCEPT ![r] = None]
  /\ asking' = [asking EXCEPT ![r] = "off"]
  /\ UNCHANGED <<threadVars, slot, parent, rev, pc, stage, round, events, cancel, retried>>

(* The client hangs up: the handler is dropped where it stands.  A resolve     *)
(* leaves the entry to try again; a cancel leaves its flag.                    *)
HangsUp(r) ==
  /\ asking[r] \in {"cancel", "resolve"}
  /\ Event
  /\ asking' = [asking EXCEPT ![r] = IF @ = "cancel" THEN "dropped" ELSE "off"]
  /\ UNCHANGED <<threadVars, slot, jobVars, cancel, stuck, retried>>

ReviewTask(r) ==
  \/ Brief(r) \/ Round(r) \/ RoundAgain(r) \/ Check(r) \/ Sent(r) \/ WorkspaceGone(r)
  \/ Wait(r) \/ Stopped(r) \/ NotStopped(r) \/ EnterBlocked(r)
  \/ Guard(r) \/ GuardFails(r)

ReviewRequest(r) ==
  \/ \E p \in Authors : RequestReview(r, p)
  \/ DeleteReview(r) \/ CancelBegins(r) \/ CancelEnds(r) \/ HangsUp(r)
=============================================================================
