--------------------------- MODULE CodeJobsProofs ---------------------------
(* Reviews and workflow runs keep apart, for any number of threads, reviews,   *)
(* runs and rounds.                                                            *)
EXTENDS CodeJobs, TLAPS

(* Places of a task at which no turn of its job is running, and at which one   *)
(* may be running on the thread the job is at and on no other.                 *)
Idle == {"brief", "round", "check", "send", "start", "reviewer", "preflight"}
Turning == {"begun", "wait", "stop", "uncertain"}

(* What each job keeps to.  Its turns run on its own threads, none at all at   *)
(* an idle place; a turn it starts or waits for is not lost; a run that has    *)
(* drained its threads or is over has lost the turns it still has; a task has  *)
(* an author thread, and a reviewer thread when it is at one; a run is Active  *)
(* exactly while its task is there and Resolving exactly while a handler is;   *)
(* rounds are left where another may begin.                                    *)
Turns(j) ==
  \A t \in Threads : live[t] = j =>
    /\ t = parent[j] \/ t = rev[j]
    /\ pc[j] \notin Idle
    /\ pc[j] \in Turning => t = Target(j)
    /\ pc[j] \in {"begun", "wait", "stop"} => t \notin lost
    /\ pc[j] = "drained" \/ (j \in Workflows /\ Over(j)) => t \in lost

Equipped(j) ==
  /\ pc[j] # "off" \/ ~Over(j) => parent[j] \in Authors
  /\ stage[j] = "review" => rev[j] # None
  /\ j \in Workflows /\ (stage[j] = "revise" \/ pc[j] = "round") => rev[j] # None

Tended(j) ==
  j \in Workflows => /\ pc[j] # "off" <=> status[j] = "Active"
                     /\ recovery[j] # "off" <=> status[j] = "Resolving"

Counted(j) ==
  /\ \/ pc[j] \in {"brief", "round", "start", "reviewer"}
     \/ stage[j] \in {"recap", "execute", "fix", "revise"}
     => round[j] < MaxRounds
  /\ stage[j] = "review" /\ pc[j] # "round" => round[j] > 0

JobOK(j) == Turns(j) /\ Equipped(j) /\ Tended(j) /\ Counted(j)

(* A turn the relay has not heard of is lost, or its start call is still open; *)
(* what is lost is a turn.                                                     *)
Heard ==
  /\ \A t \in Threads \ lost : live[t] # None /\ t \notin seen =>
       live[t] \in Jobs /\ pc[live[t]] = "begun" /\ Target(live[t]) = t
  /\ \A t \in lost : live[t] # None

(* The locks: a run leaves no other job active, two reviews have two author    *)
(* threads, and a person whose turn is not lost is, or is about to be, on none *)
(* of those.                                                                   *)
Locks ==
  /\ \A w \in Workflows : ~Over(w) => \A k \in Jobs \ {w} : Over(k)
  /\ \A r, s \in Reviews : ~Over(r) /\ ~Over(s) /\ parent[r] = parent[s] => r = s
  /\ \A t \in Authors : slot = t \/ (live[t] = Person /\ t \notin lost) =>
       \A j \in Jobs : ~Over(j) => j \in Reviews /\ parent[j] # t
  /\ slot # None => \A w \in Workflows : Over(w)

JobsInv == TypeOK /\ (\A j \in Jobs : JobOK(j)) /\ Heard /\ Locks

-----------------------------------------------------------------------------
(* Job j takes a step that leaves the turns, the slot and the author threads   *)
(* alone and does not make it active; it may lose a turn of its own.  Job k is *)
(* left alone by a step; a lost turn of it may be heard of in time.            *)
OnlyMoves(j) ==
  /\ live' = live /\ slot' = slot /\ parent' = parent /\ seen \subseteq seen'
  /\ lost \subseteq lost' /\ \A t \in lost' \ lost : live[t] = j
  /\ \A k \in Jobs \ {j} : /\ pc'[k] = pc[k] /\ stage'[k] = stage[k] /\ rev'[k] = rev[k]
                           /\ round'[k] = round[k] /\ status'[k] = status[k]
  /\ \A w \in Workflows \ {j} : recovery'[w] = recovery[w]
  /\ status[j] \in {"none", "Complete", "Failed", "Cancelled", "Interrupted"}
       => status'[j] = status[j] \/ status'[j] = "none"

Still(k) ==
  /\ pc'[k] = pc[k] /\ stage'[k] = stage[k] /\ round'[k] = round[k]
  /\ status'[k] = status[k] /\ parent'[k] = parent[k] /\ rev'[k] = rev[k]
  /\ k \in Workflows => recovery'[k] = recovery[k]
  /\ \A t \in Threads : live'[t] = k =>
       /\ live[t] = k
       /\ t \in lost' => t \in lost
       /\ t \in lost => t \in lost' \/ (~Over(k) /\ pc[k] # "drained")

(* A job whose own record and turns a step leaves alone keeps to its part of   *)
(* the invariant: jobs share nothing but threads, locks and what was heard.    *)
LEMMA StillOK ==
  ASSUME NEW k \in Jobs, JobOK(k), Still(k)
  PROVE  JobOK(k)' /\ (Over(k) <=> Over(k)') /\ Target(k)' = Target(k)
<1>1. (Over(k) <=> Over(k)') /\ Target(k)' = Target(k)
  BY DEF Still, Over, Target
<1>2. Turns(k)'
  BY <1>1 DEF Still, JobOK, Turns
<1>3. Equipped(k)' /\ Tended(k)' /\ Counted(k)'
  BY <1>1 DEF Still, JobOK, Equipped, Tended, Counted
<1> QED  BY <1>1, <1>2, <1>3 DEF JobOK

(* A step of one task alone keeps the whole invariant if it keeps that job's   *)
(* part and leaves none of its turns unheard of.                               *)
LEMMA OneJobSteps ==
  ASSUME JobsInv, TypeOK', NEW j \in Jobs, OnlyMoves(j), JobOK(j)',
         \A t \in Threads : live[t] = j => t \in seen' \cup lost'
  PROVE  JobsInv'
<1>1. ASSUME NEW k \in Jobs PROVE JobOK(k)'
  <2>1. CASE k = j
    BY <2>1
  <2>2. CASE k # j
    BY <2>2, StillOK DEF JobsInv, OnlyMoves, Still
  <2> QED  BY <2>1, <2>2
<1>2. Heard'
  BY JobsAssumption DEF JobsInv, Heard, Target, OnlyMoves, Jobs
<1>3. \A k \in Jobs : Over(k) => Over(k)'
  BY DEF Over, OnlyMoves
<1>4. Locks'
  BY <1>3 DEF JobsInv, Locks, Jobs, OnlyMoves
<1> QED  BY <1>1, <1>2, <1>4 DEF JobsInv

(* A turn of a job that is past its start call has been heard of or is lost.   *)
LEMMA TurnsAreSeen ==
  ASSUME JobsInv, NEW j \in Jobs, pc[j] # "begun", NEW t \in Threads, live[t] = j
  PROVE  t \in seen \cup lost /\ (t = parent[j] \/ t = rev[j]) /\ (pc[j] \in Turning => t = Target(j))
BY JobsAssumption DEF JobsInv, Heard, JobOK, Turns, Jobs

(* The thread a task sends to is one.                                          *)
LEMMA TargetIsAThread ==
  ASSUME JobsInv, NEW j \in Jobs, pc[j] # "off"
  PROVE  Target(j) \in Threads /\ (Target(j) = parent[j] \/ Target(j) = rev[j])
BY JobsAssumption DEF JobsInv, TypeOK, JobOK, Equipped, Target, Threads

(* A relay without jobs starts in the invariant.                               *)
LEMMA JobsStart ==
  JobsInit => JobsInv
<1> SUFFICES ASSUME JobsInit PROVE JobsInv
  OBVIOUS
<1> USE JobsAssumption DEF JobsInit, Init, ReviewInit, WorkflowInit
<1>1. TypeOK
  BY DEF TypeOK, Places
<1>2. \A j \in Jobs : JobOK(j)
  BY DEF JobOK, Turns, Equipped, Tended, Counted, Over, Jobs, Threads, Idle
<1>3. Heard /\ Locks
  BY DEF Heard, Locks, Over, Jobs, Threads, Person
<1> QED  BY <1>1, <1>2, <1>3 DEF JobsInv

-----------------------------------------------------------------------------
(* The steps of a review's task.                                               *)
LEMMA ReviewTaskSteps ==
  ASSUME JobsInv, NEW r \in Reviews, ReviewTask(r), UNCHANGED recovery
  PROVE  JobsInv'
<1> r \in Jobs /\ r \notin Workflows
  BY JobsAssumption DEF Jobs
<1> JobOK(r) /\ TypeOK
  BY DEF JobsInv
<1> /\ DOMAIN pc = Jobs /\ DOMAIN stage = Jobs /\ DOMAIN round = Jobs
    /\ DOMAIN status = Jobs /\ DOMAIN rev = Jobs
  BY DEF TypeOK
<1> USE DEF Goto, ToTurn, Leave, LeaveFailed, SetReview, Aborted,
        threadVars, reviewVars, jobVars, RoundsLeft
<1>t. ASSUME pc[r] # "off" PROVE Target(r) \in Threads
  BY <1>t, TargetIsAThread
<1>s. ASSUME pc[r] # "begun" PROVE \A t \in Threads : live[t] = r => t \in seen \cup lost
  BY <1>s, TurnsAreSeen
<1>u. ASSUME pc[r] \in Turning \ {"begun"}, Target(r) \notin seen
      PROVE  \A t \in Threads : live[t] = r => t \in lost
  BY <1>u, TurnsAreSeen DEF Turning
<1>q. ASSUME pc[r] \in {"wait", "stop"}, Target(r) \notin seen
      PROVE  \A t \in Threads : live[t] # r
  BY <1>q, <1>u DEF JobOK, Turns, Turning
<1>m. ASSUME TypeOK', OnlyMoves(r), JobOK(r)',
             \A t \in Threads : live[t] = r => t \in seen' \cup lost'
      PROVE  JobsInv'
  BY <1>m, OneJobSteps
<1>1. CASE Brief(r)
  <2>1. TypeOK'
    BY <1>1, JobsAssumption DEF TypeOK, Brief, Places, Counted, JobOK
  <2>2. OnlyMoves(r)
    BY <1>1 DEF Brief, OnlyMoves, Over
  <2>3. Turns(r)'
    BY <1>1, JobsAssumption DEF Brief, JobOK, Turns, Tended, Over, Target, Idle, Turning
  <2>4. Equipped(r)' /\ Tended(r)'
    BY <1>1 DEF Brief, JobOK, Equipped, Tended, Over
  <2>5. Counted(r)'
    BY <1>1, JobsAssumption DEF TypeOK, Brief, JobOK, Counted
  <2> QED  BY <1>1, <1>s, <1>m, <2>1, <2>2, <2>3, <2>4, <2>5 DEF JobOK, Brief
<1>2. CASE Round(r)
  <2>1. TypeOK'
    BY <1>2, JobsAssumption DEF TypeOK, Round, Places, Counted, JobOK
  <2>2. OnlyMoves(r)
    BY <1>2 DEF Round, OnlyMoves, Over
  <2>3. Turns(r)'
    BY <1>2, JobsAssumption DEF Round, JobOK, Turns, Tended, Over, Target, Idle, Turning
  <2>4. Equipped(r)' /\ Tended(r)'
    BY <1>2, JobsAssumption DEF Round, JobOK, Equipped, Tended, Over, Jobs
  <2>5. Counted(r)'
    BY <1>2, JobsAssumption DEF TypeOK, Round, JobOK, Counted
  <2> QED  BY <1>2, <1>s, <1>m, <2>1, <2>2, <2>3, <2>4, <2>5 DEF JobOK, Round
<1>3. CASE RoundAgain(r)
  <2>1. TypeOK'
    BY <1>3, JobsAssumption DEF TypeOK, RoundAgain, Places, Counted, JobOK
  <2>2. OnlyMoves(r)
    BY <1>3 DEF RoundAgain, OnlyMoves, Over
  <2>3. Turns(r)'
    BY <1>3, JobsAssumption DEF RoundAgain, JobOK, Turns, Tended, Over, Target, Idle, Turning
  <2>4. Equipped(r)' /\ Tended(r)'
    BY <1>3 DEF RoundAgain, JobOK, Equipped, Tended, Over
  <2>5. Counted(r)'
    BY <1>3, JobsAssumption DEF TypeOK, RoundAgain, JobOK, Counted
  <2> QED  BY <1>3, <1>s, <1>m, <2>1, <2>2, <2>3, <2>4, <2>5 DEF JobOK, RoundAgain
<1>4. CASE Check(r)
  <2>1. TypeOK'
    BY <1>4, JobsAssumption DEF TypeOK, Check, Places, Counted, JobOK
  <2>2. OnlyMoves(r)
    BY <1>4 DEF Check, OnlyMoves, Over
  <2>3. Turns(r)'
    BY <1>4, JobsAssumption DEF Check, JobOK, Turns, Tended, Over, Target, Idle, Turning
  <2>4. Equipped(r)' /\ Tended(r)'
    BY <1>4 DEF Check, JobOK, Equipped, Tended, Over
  <2>5. Counted(r)'
    BY <1>4, JobsAssumption DEF TypeOK, Check, JobOK, Counted
  <2> QED  BY <1>4, <1>s, <1>m, <2>1, <2>2, <2>3, <2>4, <2>5 DEF JobOK, Check
<1>5. CASE Sent(r)
  <2>1. TypeOK'
    BY <1>5, <1>t, JobsAssumption DEF TypeOK, Sent, Seeded, GivenUp, Places, Counted, JobOK
  <2>2. OnlyMoves(r)
    BY <1>5 DEF Sent, Seeded, GivenUp, OnlyMoves, Over
  <2>3. Turns(r)'
    BY <1>5, JobsAssumption DEF Sent, Seeded, GivenUp, JobOK, Turns, Tended, Over, Target, Idle, Turning
  <2>4. Equipped(r)' /\ Tended(r)'
    BY <1>5 DEF Sent, Seeded, JobOK, Equipped, Tended, Over
  <2>5. Counted(r)'
    BY <1>5, JobsAssumption DEF TypeOK, Sent, Seeded, JobOK, Counted
  <2>6. \A t \in Threads : live[t] = r => t \in seen' \cup lost'
    BY <1>5, <1>s DEF Sent, Seeded, GivenUp, JobOK, Turns, Turning
  <2> QED  BY <1>m, <2>1, <2>2, <2>3, <2>4, <2>5, <2>6 DEF JobOK
<1>6. CASE WorkspaceGone(r)
  <2>1. TypeOK'
    BY <1>6, JobsAssumption DEF TypeOK, WorkspaceGone, Places, Counted, JobOK
  <2>2. OnlyMoves(r)
    BY <1>6 DEF WorkspaceGone, OnlyMoves, Over
  <2>3. Turns(r)'
    BY <1>6, JobsAssumption DEF WorkspaceGone, JobOK, Turns, Tended, Over, Target, Idle, Turning
  <2>4. Equipped(r)' /\ Tended(r)'
    BY <1>6 DEF WorkspaceGone, JobOK, Equipped, Tended, Over
  <2>5. Counted(r)'
    BY <1>6, JobsAssumption DEF TypeOK, WorkspaceGone, JobOK, Counted
  <2> QED  BY <1>6, <1>s, <1>m, <2>1, <2>2, <2>3, <2>4, <2>5 DEF JobOK, WorkspaceGone
<1>7. CASE Wait(r)
  <2>1. TypeOK'
    BY <1>7, JobsAssumption DEF TypeOK, Wait, RecapDone, ReviewDone, FixDone, Places, Counted, JobOK
  <2>2. OnlyMoves(r)
    BY <1>7 DEF Wait, RecapDone, ReviewDone, FixDone, OnlyMoves, Over
  <2>3. Turns(r)'
    BY <1>7, <1>q, JobsAssumption
    DEF Wait, RecapDone, ReviewDone, FixDone, JobOK, Turns, Tended, Over, Target, Idle, Turning
  <2>4. Equipped(r)' /\ Tended(r)'
    BY <1>7 DEF Wait, RecapDone, ReviewDone, FixDone, JobOK, Equipped, Tended, Over
  <2>5. Counted(r)'
    BY <1>7, JobsAssumption DEF TypeOK, Wait, RecapDone, ReviewDone, FixDone, JobOK, Counted
  <2> QED
    BY <1>7, <1>s, <1>m, <2>1, <2>2, <2>3, <2>4, <2>5
    DEF JobOK, Wait, RecapDone, ReviewDone, FixDone
<1>8. CASE Stopped(r)
  <2>1. TypeOK'
    BY <1>8, JobsAssumption DEF TypeOK, Stopped, Places, Counted, JobOK
  <2>2. OnlyMoves(r)
    BY <1>8 DEF Stopped, OnlyMoves, Over
  <2>3. Turns(r)'
    BY <1>8, <1>q, <1>u, JobsAssumption DEF Stopped, JobOK, Turns, Tended, Over, Target, Idle, Turning
  <2>4. Equipped(r)' /\ Tended(r)'
    BY <1>8 DEF Stopped, JobOK, Equipped, Tended, Over
  <2>5. Counted(r)'
    BY <1>8, JobsAssumption DEF TypeOK, Stopped, JobOK, Counted
  <2> QED  BY <1>8, <1>s, <1>m, <2>1, <2>2, <2>3, <2>4, <2>5 DEF JobOK, Stopped
<1>9. CASE NotStopped(r)
  <2>1. TypeOK'
    BY <1>9, <1>t, JobsAssumption DEF TypeOK, NotStopped, Places, Counted, JobOK
  <2>2. OnlyMoves(r)
    BY <1>9 DEF NotStopped, OnlyMoves, Over
  <2>3. Turns(r)'
    BY <1>9, JobsAssumption DEF NotStopped, JobOK, Turns, Tended, Over, Target, Idle, Turning
  <2>4. Equipped(r)' /\ Tended(r)'
    BY <1>9 DEF NotStopped, JobOK, Equipped, Tended, Over
  <2>5. Counted(r)'
    BY <1>9, JobsAssumption DEF TypeOK, NotStopped, JobOK, Counted
  <2> QED  BY <1>9, <1>s, <1>m, <2>1, <2>2, <2>3, <2>4, <2>5 DEF JobOK, NotStopped
<1>10. CASE EnterBlocked(r)
  <2>1. TypeOK'
    BY <1>10, JobsAssumption DEF TypeOK, EnterBlocked, Places, Counted, JobOK
  <2>2. OnlyMoves(r)
    BY <1>10 DEF EnterBlocked, OnlyMoves, Over
  <2>3. Turns(r)'
    BY <1>10, JobsAssumption DEF EnterBlocked, JobOK, Turns, Tended, Over, Target, Idle, Turning
  <2>4. Equipped(r)' /\ Tended(r)'
    BY <1>10 DEF EnterBlocked, JobOK, Equipped, Tended, Over
  <2>5. Counted(r)'
    BY <1>10, JobsAssumption DEF TypeOK, EnterBlocked, JobOK, Counted
  <2> QED  BY <1>10, <1>s, <1>m, <2>1, <2>2, <2>3, <2>4, <2>5 DEF JobOK, EnterBlocked
<1>11. CASE Guard(r)
  <2>1. TypeOK'
    BY <1>11, JobsAssumption DEF TypeOK, Guard, Places, Counted, JobOK
  <2>2. OnlyMoves(r)
    BY <1>11 DEF Guard, OnlyMoves, Over
  <2>3. Turns(r)'
    BY <1>11, JobsAssumption DEF Guard, JobOK, Turns, Tended, Over, Target, Idle, Turning
  <2>4. Equipped(r)' /\ Tended(r)'
    BY <1>11 DEF Guard, JobOK, Equipped, Tended, Over
  <2>5. Counted(r)'
    BY <1>11, JobsAssumption DEF TypeOK, Guard, JobOK, Counted
  <2> QED  BY <1>11, <1>s, <1>m, <2>1, <2>2, <2>3, <2>4, <2>5 DEF JobOK, Guard
<1>12. CASE GuardFails(r)
  <2>1. TypeOK'
    BY <1>12, JobsAssumption DEF TypeOK, GuardFails, Places, Counted, JobOK
  <2>2. OnlyMoves(r)
    BY <1>12 DEF GuardFails, OnlyMoves, Over
  <2>3. Turns(r)'
    BY <1>12, JobsAssumption DEF GuardFails, JobOK, Turns, Tended, Over, Target, Idle, Turning
  <2>4. Equipped(r)' /\ Tended(r)'
    BY <1>12 DEF GuardFails, JobOK, Equipped, Tended, Over
  <2>5. Counted(r)'
    BY <1>12, JobsAssumption DEF TypeOK, GuardFails, JobOK, Counted
  <2> QED  BY <1>12, <1>s, <1>m, <2>1, <2>2, <2>3, <2>4, <2>5 DEF JobOK, GuardFails
<1> QED  BY <1>1, <1>2, <1>3, <1>4, <1>5, <1>6, <1>7, <1>8, <1>9, <1>10, <1>11, <1>12 DEF ReviewTask

(* What people ask of a review.                                                *)
LEMMA ReviewRequestSteps ==
  ASSUME JobsInv, NEW r \in Reviews, ReviewRequest(r), UNCHANGED recovery
  PROVE  JobsInv'
<1> r \in Jobs /\ r \notin Workflows
  BY JobsAssumption DEF Jobs
<1> JobOK(r) /\ TypeOK /\ Heard /\ Locks
  BY DEF JobsInv
<1> USE JobsAssumption DEF threadVars, reviewVars, jobVars
<1>1. ASSUME NEW p \in Authors, RequestReview(r, p) PROVE JobsInv'
  <2> USE <1>1
  <2>1. TypeOK'
    BY DEF TypeOK, RequestReview, Unknown, Event, Places
  <2>2. JobOK(r)'
    BY DEF TypeOK, RequestReview, Fresh, JobOK, Turns, Equipped, Tended, Counted, Over, Target, Idle
  <2>3. ASSUME NEW k \in Jobs, k # r PROVE JobOK(k)' /\ (Over(k) <=> Over(k)')
    BY <2>3, StillOK DEF JobsInv, TypeOK, RequestReview, Still
  <2>4. Heard'
    BY DEF TypeOK, RequestReview, Fresh, Heard, Target
  <2>5. live[p] # Person \/ p \in lost
    BY DEF RequestReview, Heard, Jobs, Threads
  <2>6. ASSUME NEW s \in Reviews, ~Over(s) PROVE parent[s] # p
    BY <2>6 DEF RequestReview, ReviewLocked, Owned
  <2>7. \A w \in Workflows : Over(w) /\ Over(w)'
    BY <2>3 DEF RequestReview, ActiveWorkflow, Jobs
  <2>8. \A k \in Jobs : parent'[k] = IF k = r THEN p ELSE parent[k]
    BY DEF TypeOK, RequestReview
  <2>9. live' = live /\ lost' = lost /\ slot' = slot /\ slot = None
    BY DEF RequestReview
  <2>10. Locks'
    BY <2>3, <2>5, <2>6, <2>7, <2>8, <2>9 DEF Locks, Jobs
  <2> QED  BY <2>1, <2>2, <2>3, <2>4, <2>10 DEF JobsInv
<1>2. CASE DeleteReview(r)
  <2> USE <1>2
  <2>1. TypeOK'
    BY DEF TypeOK, DeleteReview, Event
  <2>2. \A k \in Jobs : /\ Over(k) <=> Over(k)'
                        /\ k \in Workflows => status'[k] = status[k]
    BY DEF DeleteReview, Over, Jobs
  <2>3. ASSUME NEW k \in Jobs PROVE JobOK(k)'
    BY <2>2 DEF JobsInv, DeleteReview, JobOK, Turns, Equipped, Tended, Counted, Target
  <2>4. Heard' /\ Locks'
    BY ZenonT(30), <2>2 DEF DeleteReview, Heard, Locks, Target, Jobs
  <2> QED  BY <2>1, <2>3, <2>4 DEF JobsInv
<1>3. CASE CancelBegins(r) \/ HangsUp(r)
  <2>1. UNCHANGED <<live, seen, lost, slot, status, parent, rev, pc, stage, round>>
    BY <1>3 DEF CancelBegins, HangsUp
  <2>2. TypeOK'
    BY <1>3 DEF TypeOK, CancelBegins, HangsUp, Event
  <2>3. \A k \in Jobs : JobOK(k)' /\ (Over(k) <=> Over(k)') /\ Target(k)' = Target(k)
    BY <2>1, StillOK DEF JobsInv, Still
  <2>4. Heard' /\ Locks'
    BY <2>1, <2>3 DEF Heard, Locks, Jobs
  <2> QED  BY <2>2, <2>3, <2>4 DEF JobsInv
<1>4. CASE CancelEnds(r)
  <2>1. TypeOK'
    BY <1>4 DEF TypeOK, CancelEnds, SetReview
  <2>2. OnlyMoves(r)
    BY <1>4 DEF TypeOK, CancelEnds, SetReview, OnlyMoves, Over
  <2>3. JobOK(r)'
    <3>1. Turns(r)'
      BY <1>4 DEF TypeOK, CancelEnds, SetReview, JobOK, Turns, Over, Target
    <3>2. Equipped(r)' /\ Tended(r)' /\ Counted(r)'
      BY <1>4 DEF TypeOK, CancelEnds, SetReview, JobOK, Equipped, Tended, Counted, Over
    <3> QED  BY <3>1, <3>2 DEF JobOK
  <2>4. Heard' /\ \A k \in Jobs : Over(k) => Over(k)'
    BY <1>4 DEF TypeOK, CancelEnds, SetReview, Heard, Over, Target
  <2>5. ASSUME NEW k \in Jobs, k # r PROVE JobOK(k)'
    BY <2>2, <2>5, StillOK DEF JobsInv, OnlyMoves, Still
  <2>6. Locks'
    BY <1>4, <2>4 DEF CancelEnds, Locks, Jobs
  <2> QED  BY <2>1, <2>3, <2>4, <2>5, <2>6 DEF JobsInv
<1> QED  BY <1>1, <1>2, <1>3, <1>4 DEF ReviewRequest

-----------------------------------------------------------------------------
(* The steps of a workflow's task.                                             *)
LEMMA RunTaskSteps ==
  ASSUME JobsInv, NEW w \in Workflows, RunTask(w), UNCHANGED reviewVars
  PROVE  JobsInv'
<1> w \in Jobs /\ w \notin Reviews
  BY JobsAssumption DEF Jobs
<1> JobOK(w) /\ TypeOK
  BY DEF JobsInv
<1> /\ DOMAIN pc = Jobs /\ DOMAIN stage = Jobs /\ DOMAIN round = Jobs
    /\ DOMAIN status = Jobs /\ DOMAIN rev = Jobs
  BY DEF TypeOK
<1> USE DEF Goto, ToTurn, LeaveRun, SetRun, BlockRun, Off, WithoutReply, Replied,
        threadVars, reviewVars, jobVars, RoundsLeft
<1>t. ASSUME pc[w] # "off" PROVE Target(w) \in Threads
  BY <1>t, TargetIsAThread
<1>s. ASSUME pc[w] # "begun" PROVE \A t \in Threads : live[t] = w => t \in seen \cup lost
  BY <1>s, TurnsAreSeen
<1>u. ASSUME pc[w] \in Turning \ {"begun"}, Target(w) \notin seen
      PROVE  \A t \in Threads : live[t] = w => t \in lost
  BY <1>u, TurnsAreSeen DEF Turning
<1>q. ASSUME pc[w] \in {"wait", "stop"}, Target(w) \notin seen
      PROVE  \A t \in Threads : live[t] # w
  BY <1>q, <1>u DEF JobOK, Turns, Turning
<1>d. ASSUME pc[w] = "draining", Owned(w) \cap seen = {}
      PROVE  \A t \in Threads : live[t] = w => t \in lost
  BY <1>d, TurnsAreSeen, JobsAssumption DEF Owned, Threads, Jobs
<1>m. ASSUME TypeOK', OnlyMoves(w), JobOK(w)',
             \A t \in Threads : live[t] = w => t \in seen' \cup lost'
      PROVE  JobsInv'
  BY <1>m, OneJobSteps
<1>1. CASE Starts(w)
  <2>1. TypeOK'
    BY <1>1, JobsAssumption DEF TypeOK, Starts, Places, Counted, JobOK
  <2>2. OnlyMoves(w)
    BY ZenonT(30), <1>1 DEF Starts, OnlyMoves, Over
  <2>3. Turns(w)'
    BY <1>1, JobsAssumption DEF Starts, JobOK, Turns, Tended, Over, Target, Idle, Turning
  <2>4. Equipped(w)' /\ Tended(w)'
    BY <1>1 DEF Starts, JobOK, Equipped, Tended, Over
  <2>5. Counted(w)'
    BY <1>1, JobsAssumption DEF TypeOK, Starts, JobOK, Counted
  <2> QED  BY SMTT(30), <1>1, <1>s, <1>m, <2>1, <2>2, <2>3, <2>4, <2>5 DEF JobOK, Starts
<1>2. CASE GetsReviewer(w)
  <2>1. TypeOK'
    BY <1>2, JobsAssumption DEF TypeOK, GetsReviewer, Places, Counted, JobOK
  <2>2. OnlyMoves(w)
    BY <1>2 DEF GetsReviewer, OnlyMoves, Over
  <2>3. Turns(w)'
    BY <1>2, JobsAssumption DEF GetsReviewer, JobOK, Turns, Tended, Over, Target, Idle, Turning
  <2>4. Equipped(w)' /\ Tended(w)'
    BY <1>2, JobsAssumption DEF GetsReviewer, JobOK, Equipped, Tended, Over, Jobs
  <2>5. Counted(w)'
    BY <1>2, JobsAssumption DEF TypeOK, GetsReviewer, JobOK, Counted
  <2> QED  BY <1>2, <1>s, <1>m, <2>1, <2>2, <2>3, <2>4, <2>5 DEF JobOK, GetsReviewer
<1>3. CASE RunRound(w)
  <2>1. TypeOK'
    BY <1>3, JobsAssumption DEF TypeOK, RunRound, Places, Counted, JobOK
  <2>2. OnlyMoves(w)
    BY <1>3 DEF RunRound, OnlyMoves, Over
  <2>3. Turns(w)'
    BY <1>3, JobsAssumption DEF RunRound, JobOK, Turns, Tended, Over, Target, Idle, Turning
  <2>4. Equipped(w)' /\ Tended(w)'
    BY <1>3 DEF RunRound, JobOK, Equipped, Tended, Over
  <2>5. Counted(w)'
    BY <1>3, JobsAssumption DEF TypeOK, RunRound, JobOK, Counted
  <2> QED  BY <1>3, <1>s, <1>m, <2>1, <2>2, <2>3, <2>4, <2>5 DEF JobOK, RunRound
<1>4. CASE Preflight(w)
  <2>1. TypeOK'
    BY <1>4, JobsAssumption DEF TypeOK, Preflight, Places, Counted, JobOK
  <2>2. OnlyMoves(w)
    BY <1>4 DEF Preflight, OnlyMoves, Over
  <2>3. Turns(w)'
    BY <1>4, JobsAssumption DEF Preflight, JobOK, Turns, Tended, Over, Target, Idle, Turning
  <2>4. Equipped(w)' /\ Tended(w)'
    BY <1>4 DEF Preflight, JobOK, Equipped, Tended, Over
  <2>5. Counted(w)'
    BY <1>4, JobsAssumption DEF TypeOK, Preflight, JobOK, Counted
  <2> QED  BY <1>4, <1>s, <1>m, <2>1, <2>2, <2>3, <2>4, <2>5 DEF JobOK, Preflight
<1>5. CASE RunSent(w)
  <2>1. TypeOK'
    BY <1>5, <1>t, JobsAssumption DEF TypeOK, RunSent, Seeded, Places, Counted, JobOK
  <2>2. OnlyMoves(w)
    BY ZenonT(30), <1>5 DEF RunSent, Seeded, OnlyMoves, Over
  <2>3. Turns(w)'
    BY <1>5, JobsAssumption DEF RunSent, Seeded, JobOK, Turns, Tended, Over, Target, Idle, Turning
  <2>4. Equipped(w)' /\ Tended(w)'
    BY <1>5 DEF RunSent, Seeded, JobOK, Equipped, Tended, Over
  <2>5. Counted(w)'
    BY <1>5, JobsAssumption DEF TypeOK, RunSent, Seeded, JobOK, Counted
  <2>6. \A t \in Threads : live[t] = w => t \in seen' \cup lost'
    BY ZenonT(30), <1>5, <1>s DEF RunSent, Seeded, JobOK, Turns, Turning
  <2> QED  BY <1>m, <2>1, <2>2, <2>3, <2>4, <2>5, <2>6 DEF JobOK
<1>6. CASE RunWait(w)
  <2>1. TypeOK'
    BY <1>6, JobsAssumption DEF TypeOK, RunWait, Places, Counted, JobOK
  <2>2. OnlyMoves(w)
    BY <1>6 DEF RunWait, OnlyMoves, Over
  <2>3. Turns(w)'
    BY <1>6, <1>q, JobsAssumption DEF RunWait, JobOK, Turns, Tended, Over, Target, Idle, Turning
  <2>4. Equipped(w)' /\ Tended(w)'
    BY <1>6 DEF RunWait, JobOK, Equipped, Tended, Over
  <2>5. Counted(w)'
    BY <1>6, JobsAssumption DEF TypeOK, RunWait, JobOK, Counted
  <2> QED  BY <1>6, <1>s, <1>m, <2>1, <2>2, <2>3, <2>4, <2>5 DEF JobOK, RunWait
<1>7. CASE RunStops(w)
  <2>1. TypeOK'
    BY <1>7, JobsAssumption DEF TypeOK, RunStops, Places, Counted, JobOK
  <2>2. OnlyMoves(w)
    BY <1>7 DEF RunStops, OnlyMoves, Over
  <2>3. Turns(w)'
    BY <1>7, <1>q, <1>u, JobsAssumption DEF RunStops, JobOK, Turns, Tended, Over, Target, Idle, Turning
  <2>4. Equipped(w)' /\ Tended(w)'
    BY <1>7 DEF RunStops, JobOK, Equipped, Tended, Over
  <2>5. Counted(w)'
    BY <1>7, JobsAssumption DEF TypeOK, RunStops, JobOK, Counted
  <2> QED  BY <1>7, <1>s, <1>m, <2>1, <2>2, <2>3, <2>4, <2>5 DEF JobOK, RunStops
<1>8. CASE RunGuard(w)
  <2>1. TypeOK'
    BY <1>8, JobsAssumption DEF TypeOK, RunGuard, Places, Counted, JobOK
  <2>2. OnlyMoves(w)
    BY ZenonT(30), <1>8 DEF RunGuard, OnlyMoves, Over
  <2>3. Turns(w)'
    BY ZenonT(30), <1>8, JobsAssumption DEF RunGuard, JobOK, Turns, Tended, Over, Target, Idle, Turning
  <2>4. Equipped(w)' /\ Tended(w)'
    BY <1>8 DEF RunGuard, JobOK, Equipped, Tended, Over
  <2>5. Counted(w)'
    BY <1>8, JobsAssumption DEF TypeOK, RunGuard, JobOK, Counted
  <2> QED  BY ZenonT(30), <1>8, <1>s, <1>m, <2>1, <2>2, <2>3, <2>4, <2>5 DEF JobOK, RunGuard
<1>9. CASE RunDrains(w)
  <2>1. TypeOK'
    BY <1>9, JobsAssumption DEF TypeOK, RunDrains, Places, Counted, JobOK
  <2>2. OnlyMoves(w)
    BY <1>9 DEF RunDrains, OnlyMoves, Over
  <2>3. Turns(w)'
    BY <1>9, <1>d, JobsAssumption DEF RunDrains, JobOK, Turns, Tended, Over, Target, Idle, Turning
  <2>4. Equipped(w)' /\ Tended(w)'
    BY <1>9 DEF RunDrains, JobOK, Equipped, Tended, Over
  <2>5. Counted(w)'
    BY <1>9, JobsAssumption DEF TypeOK, RunDrains, JobOK, Counted
  <2> QED  BY <1>9, <1>s, <1>m, <2>1, <2>2, <2>3, <2>4, <2>5 DEF JobOK, RunDrains
<1>10. CASE RunInterrupted(w)
  <2>1. TypeOK'
    BY <1>10, JobsAssumption DEF TypeOK, RunInterrupted, Places, Counted, JobOK
  <2>2. OnlyMoves(w)
    BY <1>10 DEF RunInterrupted, OnlyMoves, Over
  <2>3. Turns(w)'
    BY <1>10, JobsAssumption DEF RunInterrupted, JobOK, Turns, Tended, Over, Target, Idle, Turning
  <2>4. Equipped(w)' /\ Tended(w)'
    BY <1>10 DEF RunInterrupted, JobOK, Equipped, Tended, Over
  <2>5. Counted(w)'
    BY <1>10, JobsAssumption DEF TypeOK, RunInterrupted, JobOK, Counted
  <2> QED  BY <1>10, <1>s, <1>m, <2>1, <2>2, <2>3, <2>4, <2>5 DEF JobOK, RunInterrupted
<1> QED  BY <1>1, <1>2, <1>3, <1>4, <1>5, <1>6, <1>7, <1>8, <1>9, <1>10 DEF RunTask

(* What people ask of a workflow.                                              *)
LEMMA RunRequestSteps ==
  ASSUME JobsInv, NEW w \in Workflows, RunRequest(w), UNCHANGED reviewVars
  PROVE  JobsInv'
<1> w \in Jobs /\ w \notin Reviews
  BY JobsAssumption DEF Jobs
<1> JobOK(w) /\ TypeOK /\ Heard /\ Locks
  BY DEF JobsInv
<1> USE JobsAssumption DEF threadVars, reviewVars, jobVars
<1>1. ASSUME NEW p \in Authors, StartWorkflow(w, p) PROVE JobsInv'
  <2> USE <1>1
  <2>1. TypeOK'
    BY DEF TypeOK, StartWorkflow, Event, Places
  <2>2. JobOK(w)'
    BY DEF TypeOK, StartWorkflow, Fresh, JobOK, Turns, Equipped, Tended, Counted, Over, Target, Idle
  <2>3. ASSUME NEW k \in Jobs, k # w PROVE JobOK(k)' /\ (Over(k) <=> Over(k)')
    BY ZenonT(30), <2>3, StillOK DEF JobsInv, TypeOK, StartWorkflow, Still
  <2>4. Heard'
    BY DEF TypeOK, StartWorkflow, Fresh, Heard, Target
  <2>5. \A a \in Authors : live[a] # Person \/ a \in lost
    BY DEF StartWorkflow, AuthorWorking, Heard, Jobs, Threads
  <2>6. \A k \in Jobs \ {w} : Over(k) /\ Over(k)'
    BY <2>3 DEF StartWorkflow, ActiveWorkflow, ActiveReview, Jobs
  <2>7. live' = live /\ lost' = lost /\ slot' = slot /\ slot = None
    BY DEF StartWorkflow
  <2>8. Locks'
    BY ZenonT(30), <2>5, <2>6, <2>7 DEF Locks, Jobs
  <2> QED  BY SMTT(30), <2>1, <2>2, <2>3, <2>4, <2>8 DEF JobsInv
<1>2. ASSUME ResolveBegins(w) \/ ResolveEnds(w) \/ ResolveHangsUp(w) \/ ResolveRestored(w)
      PROVE  JobsInv'
  <2>1. status[w] \in {"Blocked", "Resolving"} /\ pc[w] = "off"
    BY <1>2 DEF TypeOK, JobOK, Tended, ResolveBegins, ResolveEnds, ResolveHangsUp, ResolveRestored
  <2>2. \A t \in Threads : live[t] = w => t \in seen \cup lost /\ t \in Owned(w)
    BY ZenonT(30), <2>1, TurnsAreSeen DEF Owned, Threads, Jobs
  <2>3. TypeOK'
    BY <1>2 DEF TypeOK, ResolveBegins, ResolveEnds, ResolveHangsUp, ResolveRestored, BlockRun, Event
  <2>4. OnlyMoves(w)
    BY <1>2, <2>1 DEF TypeOK, OnlyMoves, Over, ResolveBegins, ResolveEnds, ResolveHangsUp,
                      ResolveRestored, BlockRun
  <2>5. Turns(w)'
    <3>1. /\ UNCHANGED <<live, seen, lost, parent, rev, pc, stage>>
          /\ status'[w] \in {"Blocked", "Resolving"} \/ Owned(w) \cap seen = {}
      BY <1>2, <2>1 DEF TypeOK, ResolveBegins, ResolveEnds, ResolveHangsUp, ResolveRestored,
        BlockRun, Over
    <3> QED  BY <2>1, <2>2, <3>1 DEF JobOK, Turns, Over, Target
  <2>6. Equipped(w)' /\ Counted(w)'
    BY <1>2, <2>1 DEF TypeOK, JobOK, Equipped, Counted, Over, ResolveBegins, ResolveEnds,
                      ResolveHangsUp, ResolveRestored, BlockRun
  <2>7. Tended(w)'
    BY <1>2, <2>1 DEF TypeOK, JobOK, Tended, Over, ResolveBegins, ResolveEnds, ResolveHangsUp,
                      ResolveRestored, BlockRun
  <2> QED
    BY ZenonT(30), <1>2, <2>2, <2>3, <2>4, <2>5, <2>6, <2>7, OneJobSteps
    DEF JobOK, ResolveBegins, ResolveEnds, ResolveHangsUp, ResolveRestored
<1> QED  BY <1>1, <1>2 DEF RunRequest

-----------------------------------------------------------------------------
(* People send; turns are heard of and end.                                    *)
LEMMA ThreadSteps ==
  ASSUME JobsInv, UNCHANGED <<reviewVars, recovery>>,
         \/ PersonSent
         \/ \E t \in Threads : PersonSends(t) \/ Announced(t) \/ TurnEnds(t)
  PROVE  JobsInv'
<1> TypeOK /\ Heard /\ Locks
  BY DEF JobsInv
<1> USE DEF threadVars, reviewVars, jobVars
<1>o. ASSUME UNCHANGED <<status, parent, rev, pc, stage, round>>,
             \A t \in Threads : live'[t] \in {live[t], None, Person},
             \A t \in Threads : live'[t] \in Jobs =>
               /\ t \in lost' => t \in lost
               /\ t \in lost => t \in lost' \/ InTime(t)
      PROVE  \A j \in Jobs : JobOK(j)' /\ (Over(j) <=> Over(j)') /\ Target(j)' = Target(j)
  <2> SUFFICES ASSUME NEW j \in Jobs PROVE Still(j)
    BY StillOK DEF JobsInv
  <2>1. j # Person /\ j # None
    BY JobsAssumption DEF Jobs
  <2>2. ASSUME NEW t \in Threads, live'[t] = j
        PROVE  live[t] = j /\ (InTime(t) => ~Over(j) /\ pc[j] # "drained")
    BY <1>o, <2>1, <2>2 DEF InTime
  <2>3. ASSUME NEW t \in Threads, live'[t] = j
        PROVE  /\ t \in lost' => t \in lost
               /\ t \in lost => t \in lost' \/ InTime(t)
    BY <1>o, <2>3
  <2> QED  BY ZenonT(30), <1>o, <2>2, <2>3 DEF Still
<1>1. CASE PersonSent
  <2>1. TypeOK' /\ (\A t \in Threads : live'[t] \in {live[t], None, Person})
    BY <1>1 DEF TypeOK, PersonSent
  <2>l. \A t \in Threads : live'[t] \in Jobs => (t \in lost' <=> t \in lost)
    BY <1>1, JobsAssumption DEF TypeOK, PersonSent, Jobs
  <2>2. \A j \in Jobs : JobOK(j)' /\ (Over(j) <=> Over(j)') /\ Target(j)' = Target(j)
    BY SMTT(30), <1>1, <1>o, <2>1, <2>l DEF PersonSent
  <2>3. Heard'
    BY <1>1, <2>2, JobsAssumption DEF TypeOK, PersonSent, Heard
  <2>4. Locks'
    BY <1>1, <2>2, JobsAssumption DEF TypeOK, PersonSent, Locks, Jobs, Threads
  <2> QED  BY ZenonT(30), <2>1, <2>2, <2>3, <2>4 DEF JobsInv
<1>2. ASSUME NEW t \in Threads, PersonSends(t) PROVE JobsInv'
  <2>1. TypeOK'
    BY <1>2, JobsAssumption DEF TypeOK, PersonSends, Event
  <2>2. \A j \in Jobs : JobOK(j)' /\ (Over(j) <=> Over(j)') /\ Target(j)' = Target(j)
    BY ZenonT(30), <1>2, <1>o DEF PersonSends
  <2>3. Heard'
    BY ZenonT(30), <1>2, <2>2 DEF PersonSends, Heard
  <2>4. Locks'
    BY ZenonT(30), <1>2, <2>2, JobsAssumption DEF PersonSends, ReviewLocked, WorkflowLocked, ActiveWorkflow,
      Owned, Locks, Jobs, Threads
  <2> QED  BY <2>1, <2>2, <2>3, <2>4 DEF JobsInv
<1>3. ASSUME NEW t \in Threads, Announced(t) \/ TurnEnds(t) PROVE JobsInv'
  <2>1. TypeOK' /\ (\A u \in Threads : live'[u] \in {live[u], None})
    BY <1>3 DEF TypeOK, Announced, TurnEnds
  <2>l. \A u \in Threads : live'[u] \in Jobs =>
          (u \in lost' => u \in lost) /\ (u \in lost => u \in lost' \/ InTime(u))
    BY <1>3, JobsAssumption DEF TypeOK, Announced, TurnEnds, Jobs
  <2>2. \A j \in Jobs : JobOK(j)' /\ (Over(j) <=> Over(j)') /\ Target(j)' = Target(j)
    BY <1>3, <1>o, <2>1, <2>l DEF Announced, TurnEnds
  <2>3. Heard'
    BY <1>3, <2>2 DEF TypeOK, Announced, TurnEnds, Heard
  <2>4. ASSUME NEW u \in Authors, live'[u] = Person, u \notin lost', u \in lost
        PROVE  \A j \in Jobs : ~Over(j) => j \in Reviews /\ parent[j] # u
    <3>1. u = t /\ live[t] = Person /\ InTime(t)
      BY <1>3, <2>4, JobsAssumption DEF TypeOK, Announced, TurnEnds, Threads
    <3>2. ~ReviewLocked(u) /\ ~WorkflowLocked
      BY <3>1 DEF InTime
    <3> QED
      BY <2>4, <3>2, JobsAssumption DEF ReviewLocked, WorkflowLocked, ActiveWorkflow, Owned, Jobs
  <2>5. Locks'
    <3>1. \A u \in Authors : live'[u] = Person => live[u] = Person
      BY <2>1, JobsAssumption DEF Threads
    <3>2. UNCHANGED <<slot, parent>>
      BY <1>3 DEF Announced, TurnEnds
    <3>3. \A u \in Authors : slot = u \/ (live'[u] = Person /\ u \notin lost') =>
            \A j \in Jobs : ~Over(j) => j \in Reviews /\ parent[j] # u
      BY <2>4, <3>1 DEF Locks
    <3> QED  BY <2>2, <3>2, <3>3 DEF Locks, Jobs
  <2> QED  BY <2>1, <2>2, <2>3, <2>5 DEF JobsInv
<1> QED  BY SMTT(30), <1>1, <1>2, <1>3

(* The provider takes up the turn a task has asked for.                        *)
LEMMA TurnBeginsStep ==
  ASSUME JobsInv, NEW j \in Jobs, TurnBegins(j), UNCHANGED <<reviewVars, recovery>>
  PROVE  JobsInv'
<1> JobOK(j) /\ TypeOK /\ Heard /\ Locks
  BY DEF JobsInv
<1> USE DEF Goto, reviewVars
<1>0. pc[j] # "off"
  BY DEF TurnBegins
<1>1. Target(j) \in Threads /\ (Target(j) = parent[j] \/ Target(j) = rev[j])
  BY <1>0, TargetIsAThread
<1>2. TypeOK'
  BY <1>1 DEF TypeOK, TurnBegins, Places
<1>3. \A k \in Jobs : (Over(k) <=> Over(k)') /\ Target(k)' = Target(k)
  BY ZenonT(30) DEF TurnBegins, Over, Target
<1>4. \A t \in Threads : live'[t] = IF t = Target(j) THEN j ELSE live[t]
  BY DEF TypeOK, TurnBegins
<1>5. /\ pc[j] = "send" /\ pc'[j] = "begun"
      /\ UNCHANGED <<seen, lost, slot, status, parent, rev, stage, round, recovery>>
  BY SMTT(30) DEF TypeOK, TurnBegins
<1>l. Target(j) \notin lost
  BY DEF TurnBegins, Heard
<1>6. JobOK(j)'
  <2>1. Turns(j)'
    BY ZenonT(30), <1>1, <1>3, <1>4, <1>5, <1>l DEF JobOK, Turns, Tended, Over, Idle
  <2>2. Equipped(j)' /\ Tended(j)' /\ Counted(j)'
    BY <1>3, <1>5 DEF JobOK, Equipped, Tended, Counted
  <2> QED  BY <2>1, <2>2 DEF JobOK
<1>7. ASSUME NEW k \in Jobs, k # j PROVE JobOK(k)' /\ pc'[k] = pc[k]
  <2>1. pc'[k] = pc[k]
    BY <1>7 DEF TypeOK, TurnBegins
  <2>2. \A t \in Threads : live'[t] = k => live[t] = k
    BY <1>4, <1>7
  <2>3. Still(k)
    BY <1>5, <2>1, <2>2 DEF Still
  <2> QED  BY <2>1, <2>3, StillOK DEF JobsInv
<1>8. Heard'
  <2>1. ASSUME NEW t \in Threads \ lost, live'[t] # None, t \notin seen
        PROVE  (live[t] \in Jobs /\ pc[live[t]] = "begun" /\ Target(live[t]) = t)'
    <3>0. \A k \in Jobs : Target(k) = t /\ live'[t] = k => (Target(live[t]) = t)'
      BY <1>5 DEF Target
    <3>1. CASE t = Target(j)
      <4>1. live'[t] = j
        BY <1>4, <3>1
      <4> QED  BY <1>5, <3>0, <3>1, <4>1
    <3>2. CASE t # Target(j)
      <4>1. live'[t] = live[t]
        BY <1>4, <3>2
      <4>2. live[t] \in Jobs /\ pc[live[t]] = "begun" /\ Target(live[t]) = t
        BY <2>1, <4>1 DEF Heard
      <4>3. live[t] # j
        BY <1>5, <4>2
      <4>4. pc'[live[t]] = "begun"
        BY <1>7, <4>2, <4>3
      <4> QED  BY <3>0, <4>1, <4>2, <4>4
    <3> QED  BY <3>1, <3>2
  <2>2. ASSUME NEW t \in lost PROVE live'[t] # None
    <3>1. t \in Threads /\ t # Target(j)
      BY <1>l DEF TypeOK
    <3>2. live'[t] = live[t]
      BY <1>4, <3>1
    <3> QED  BY <3>2 DEF Heard
  <2>3. lost' = lost /\ seen' = seen
    BY <1>5
  <2> QED  BY <2>1, <2>2, <2>3 DEF Heard
<1>9. Locks'
  BY ZenonT(30), <1>3, <1>4, <1>5, JobsAssumption DEF Locks, Jobs, Threads
<1> QED  BY <1>2, <1>6, <1>7, <1>8, <1>9 DEF JobsInv

(* A start ends uncertain; a task is lost.                                     *)
LEMMA TaskMoves ==
  ASSUME JobsInv, NEW j \in Jobs, StartIsUncertain(j) \/ TaskLost(j),
         UNCHANGED <<reviewVars, recovery>>
  PROVE  JobsInv'
<1> JobOK(j) /\ TypeOK
  BY DEF JobsInv
<1> USE DEF Goto, reviewVars
<1>1. Target(j) \in Threads
  BY TargetIsAThread DEF StartIsUncertain, TaskLost
<1>2. TypeOK'
  BY <1>1, JobsAssumption DEF TypeOK, StartIsUncertain, TaskLost, GivenUp, Event, Places
<1>3. OnlyMoves(j)
  BY DEF TypeOK, StartIsUncertain, TaskLost, GivenUp, OnlyMoves
<1>4. \A t \in Threads : live[t] = j => t \in seen' \cup lost'
  <2>1. CASE pc[j] # "begun"
    BY <1>3, <2>1, TurnsAreSeen DEF OnlyMoves
  <2>2. CASE pc[j] = "begun"
    <3>1. \A t \in Threads : live[t] = j => t = Target(j)
      BY <2>2 DEF JobOK, Turns, Turning
    <3>2. GivenUp(j) /\ seen' = seen
      BY DEF StartIsUncertain, TaskLost
    <3> QED  BY <3>1, <3>2 DEF GivenUp
  <2> QED  BY <2>1, <2>2
<1>5. UNCHANGED <<live, status, parent, rev, recovery>>
  BY DEF StartIsUncertain, TaskLost
<1>6. CASE StartIsUncertain(j)
  <2>1. /\ pc[j] \in {"send", "begun"} /\ pc'[j] = "uncertain"
        /\ UNCHANGED <<stage, round>>
    BY <1>6 DEF TypeOK, StartIsUncertain
  <2>2. j \in Workflows => ~Over(j)
    BY <2>1 DEF JobOK, Tended, Over
  <2>3. Turns(j)'
    BY ZenonT(30), <1>5, <2>1, <2>2 DEF JobOK, Turns, Over, Target, Idle, Turning
  <2>4. Equipped(j)' /\ Tended(j)' /\ Counted(j)'
    BY <1>5, <2>1 DEF JobOK, Equipped, Tended, Counted, Over
  <2> QED  BY <1>2, <1>3, <1>4, <2>3, <2>4, OneJobSteps DEF JobOK
<1>7. CASE TaskLost(j)
  <2>1. pc[j] # "off" /\ pc'[j] = "guard" /\ stage'[j] = "none" /\ round'[j] = 0
    BY <1>7 DEF TypeOK, TaskLost
  <2>2. j \in Workflows => ~Over(j)
    BY <2>1 DEF JobOK, Tended, Over
  <2>3. Turns(j)'
    BY <1>5, <2>1, <2>2 DEF JobOK, Turns, Over, Idle, Turning
  <2>4. Equipped(j)' /\ Tended(j)' /\ Counted(j)'
    BY <1>5, <2>1 DEF JobOK, Equipped, Tended, Counted, Over
  <2> QED  BY <1>2, <1>3, <1>4, <2>3, <2>4, OneJobSteps DEF JobOK
<1> QED  BY <1>6, <1>7

(* A restart leaves no turn and no task.                                       *)
LEMMA RestartStep ==
  ASSUME JobsInv, Restart
  PROVE  JobsInv'
<1> USE JobsAssumption
<1>1. TypeOK'
  BY SMTT(30) DEF JobsInv, TypeOK, Restart, Event, Places
<1>2. \A j \in Jobs : Over(j)'
  BY DEF JobsInv, TypeOK, Restart, Over
<1>3. \A j \in Jobs : JobOK(j)'
  BY <1>2 DEF Restart, JobOK, Turns, Equipped, Tended, Counted, Over, Jobs, Threads
<1>4. Heard' /\ Locks'
  BY <1>2 DEF Restart, Heard, Locks, Jobs
<1> QED  BY <1>1, <1>3, <1>4 DEF JobsInv

(* Every step keeps the invariant.                                             *)
LEMMA JobsStep ==
  JobsInv /\ [Next]_vars => JobsInv'
<1> SUFFICES ASSUME JobsInv, [Next]_vars PROVE JobsInv'
  OBVIOUS
<1>1. CASE UNCHANGED vars
  <2> USE <1>1 DEF vars, sharedVars, reviewVars
  <2>1. TypeOK'
    BY DEF JobsInv, TypeOK
  <2>2. \A k \in Jobs : JobOK(k)' /\ (Over(k) <=> Over(k)') /\ Target(k)' = Target(k)
    BY StillOK DEF JobsInv, Still
  <2>3. Heard' /\ Locks'
    BY ZenonT(30), <2>2 DEF JobsInv, Heard, Locks, Jobs
  <2> QED  BY SMTT(30), <2>1, <2>2, <2>3 DEF JobsInv
<1>2. CASE Next
  BY <1>2, ThreadSteps, TurnBeginsStep, TaskMoves, ReviewTaskSteps, ReviewRequestSteps,
     RunTaskSteps, RunRequestSteps, RestartStep DEF Next, Shared
<1> QED  BY <1>1, <1>2

(* So it always holds.                                                         *)
LEMMA JobsInvariance ==
  Spec => []JobsInv
BY JobsStart, JobsStep, PTL DEF Spec

-----------------------------------------------------------------------------
(* Every job counts at most max_rounds rounds, and every variable keeps its    *)
(* shape.                                                                      *)
THEOREM JobsTypeCorrect ==
  Spec => []TypeOK
<1>1. JobsInv => TypeOK
  BY DEF JobsInv
<1> QED  BY <1>1, JobsInvariance, PTL

(* Where a job writes nobody else does: the checks of request_review, of a     *)
(* workflow's start and of a person's send keep out every person and every     *)
(* other job until it is over, all but a turn that a failed or dropped send    *)
(* left behind and that nothing was heard of before the job began.             *)
THEOREM WritersStayApart ==
  Spec => []WritesAlone
<1>1. ASSUME JobsInv PROVE WritesAlone
  <2> SUFFICES ASSUME NEW j \in Jobs, ~Over(j),
                      NEW t \in (IF j \in Workflows THEN Authors ELSE {parent[j]}) \ lost
               PROVE  live[t] # Person /\ \A k \in Jobs \ {j} : ~Over(k) => live[t] # k
    BY DEF WritesAlone
  <2>1. t \in Authors
    BY <1>1 DEF JobsInv, JobOK, Equipped
  <2>2. live[t] # Person
    BY <1>1, <2>1, JobsAssumption DEF JobsInv, Locks, Jobs
  <2>3. ASSUME NEW k \in Jobs, k # j, ~Over(k), live[t] = k PROVE FALSE
    <3>1. j \in Reviews /\ k \in Reviews
      BY <1>1, <2>3 DEF JobsInv, Locks, Jobs
    <3>2. t = parent[k]
      BY <1>1, <2>1, <2>3, JobsAssumption DEF JobsInv, TypeOK, JobOK, Turns, Threads, Jobs
    <3> QED  BY <1>1, <2>3, <3>1, <3>2, JobsAssumption DEF JobsInv, Locks
  <2> QED  BY <2>2, <2>3
<1> QED  BY <1>1, JobsInvariance, PTL

(* A workflow gives its workspace back only after its turns: whichever way the *)
(* task, the lifeguard or a resolve ends it, none of its turns is running, but *)
(* for one that no call waited for and nothing was heard of until after the    *)
(* drain.                                                                      *)
THEOREM WorkflowsEndQuiet ==
  Spec => []WorkflowEndsQuiet
<1>1. JobsInv => WorkflowEndsQuiet
  BY DEF JobsInv, JobOK, Turns, WorkflowEndsQuiet, Jobs
<1> QED  BY <1>1, JobsInvariance, PTL

(* A review's own task settles it over no running turn but the delivery: each  *)
(* way out of run_review_job comes after the wait, the stop or the check that  *)
(* showed the thread idle.  What none of them can show is a turn that begins   *)
(* unannounced after its start call failed.                                    *)
THEOREM ReviewsSettleQuietly ==
  Spec => ReviewSettlesQuietly
<1> DEFINE Quietly(r) == (pc[r] # "guard" /\ pc'[r] = "guard" /\ ~Over(r) /\ Over(r)') =>
                           \A t \in Threads \ lost :
                             live[t] = r => (stage[r] = "post" /\ t = parent[r])
<1>1. ASSUME JobsInv, [Next]_vars, NEW r \in Reviews PROVE Quietly(r)
  <2> SUFFICES ASSUME pc[r] # "guard", pc'[r] = "guard", ~Over(r), Over(r)',
                      NEW t \in Threads \ lost, live[t] = r
               PROVE  stage[r] = "post" /\ t = parent[r]
    BY SMTT(30)
  <2> r \in Jobs /\ r \notin Workflows
    BY JobsAssumption DEF Jobs
  <2> JobOK(r) /\ TypeOK
    BY <1>1 DEF JobsInv
  <2>t. pc[r] = "begun" \/ t \in seen
    BY <1>1, TurnsAreSeen
  <2> USE JobsAssumption DEF Goto
  <2>1. ReviewTask(r)
    <3>1. status'[r] # status[r] /\ pc'[r] # pc[r]
      BY ZenonT(30) DEF Over
    <3>2. ASSUME Restart PROVE FALSE
      BY <3>2 DEF Restart
    <3>3. ASSUME Shared(PersonSent) \/ \E u \in Threads : Shared(PersonSends(u))
                   \/ Shared(Announced(u)) \/ Shared(TurnEnds(u)) PROVE FALSE
      BY ZenonT(30), <3>1, <3>3 DEF Shared, PersonSent, PersonSends, Announced, TurnEnds, jobVars
    <3>4. ASSUME NEW j \in Jobs, Shared(TurnBegins(j)) \/ Shared(StartIsUncertain(j))
                   \/ Shared(TaskLost(j)) PROVE FALSE
      BY ZenonT(30), <3>1, <3>4 DEF Shared, TurnBegins, StartIsUncertain, TaskLost
    <3>5. ASSUME NEW w \in Workflows, RunTask(w) PROVE FALSE
      BY ZenonT(30), <3>1, <3>5 DEF RunTask, Starts, GetsReviewer, RunRound, Preflight, RunSent, RunWait,
        RunStops, RunGuard, RunDrains, RunInterrupted, ToTurn, LeaveRun, SetRun, BlockRun,
        WithoutReply, Replied, TypeOK
    <3>6. ASSUME NEW w \in Workflows, RunRequest(w) PROVE FALSE
      BY ZenonT(30), <3>1, <3>6 DEF RunRequest, StartWorkflow, ResolveBegins, ResolveEnds, ResolveHangsUp,
        ResolveRestored, BlockRun, jobVars, TypeOK
    <3>7. ASSUME NEW s \in Reviews, ReviewRequest(s) PROVE FALSE
      <4>1. ASSUME NEW p \in Authors, RequestReview(s, p) PROVE pc'[r] = IF s = r THEN "brief" ELSE pc[r]
        BY <4>1 DEF RequestReview, TypeOK
      <4>2. CASE DeleteReview(s) \/ CancelBegins(s) \/ CancelEnds(s) \/ HangsUp(s)
        BY <3>1, <4>2 DEF DeleteReview, CancelBegins, CancelEnds, HangsUp, jobVars
      <4> QED  BY <3>1, <3>7, <4>1, <4>2 DEF ReviewRequest
    <3>8. ASSUME NEW s \in Reviews, ReviewTask(s), s # r PROVE FALSE
      BY ZenonT(30), <3>1, <3>8 DEF ReviewTask, Brief, Round, RoundAgain, Check, Sent, WorkspaceGone, Wait,
        Stopped, NotStopped, EnterBlocked, Guard, GuardFails, Leave, LeaveFailed, SetReview,
        ToTurn, RecapDone, ReviewDone, FixDone, jobVars, TypeOK
    <3> QED  BY ZenonT(30), <1>1, <3>1, <3>2, <3>3, <3>4, <3>5, <3>6, <3>7, <3>8
             DEF Next, vars, sharedVars
  <2>2. CASE Sent(r)
    BY ZenonT(30), <2>2 DEF Sent, JobOK, Turns, Turning, Idle, Target, TypeOK
  <2>3. CASE Stopped(r) \/ Wait(r)
    BY ZenonT(30), <2>3, <2>t DEF Stopped, Wait, JobOK, Turns, Turning, Over
  <2>4. CASE Round(r) \/ WorkspaceGone(r)
    BY ZenonT(30), <2>4 DEF Round, WorkspaceGone, JobOK, Turns, Idle
  <2>5. CASE \/ Brief(r) \/ RoundAgain(r) \/ Check(r) \/ NotStopped(r) \/ EnterBlocked(r)
             \/ Guard(r) \/ GuardFails(r)
    BY ZenonT(30), <2>5 DEF Brief, RoundAgain, Check, NotStopped, EnterBlocked, Guard, GuardFails, Leave,
      SetReview, ToTurn, Over, jobVars, TypeOK
  <2> QED  BY ZenonT(30), <2>1, <2>2, <2>3, <2>4, <2>5 DEF ReviewTask
<1>2. JobsInv /\ [Next]_vars => [\A r \in Reviews : Quietly(r)]_vars
  BY <1>1
<1> QED  BY <1>2, JobsInvariance, PTL DEF Spec, ReviewSettlesQuietly
=============================================================================
