---------------------------- MODULE TeamRunProofs ----------------------------
(* A task run has one driver and keeps the promise of TeamPromise, for any     *)
(* number of requests, drivers and faults.                                     *)
EXTENDS TeamRun, TLAPS

Records == [status : Statuses, pauseRequested : BOOLEAN, stopping : BOOLEAN,
            awaiting : BOOLEAN, inFlight : Threads \cup {NoThread}]

(* What the moves of the record do to its status.                              *)
LEMMA GuardedMoves ==
  ASSUME NEW r \in Records
  PROVE  /\ \A s \in Statuses : /\ SetStatus(r, s) \in Records
                                /\ SetStatus(r, s).status = IF Off(r) THEN r.status ELSE s
         /\ Block(r) \in Records
         /\ Block(r).status = IF r.status \in Terminal THEN r.status ELSE "Blocked"
         /\ RequestPause(r) \in Records
         /\ RequestPause(r).status = IF Off(r) THEN r.status ELSE "PausePending"
         /\ SettlePaused(r) \in Records
         /\ SettlePaused(r).status = IF Off(r) THEN r.status ELSE "Paused"
         /\ \A s \in Statuses : ForceMark(r, s) \in Records /\ ForceMark(r, s).status = s
<1> USE DEF Records
<1>1. \A s \in Statuses : /\ SetStatus(r, s) \in Records
                          /\ SetStatus(r, s).status = IF Off(r) THEN r.status ELSE s
  BY DEF SetStatus
<1>2. /\ Block(r) \in Records
      /\ Block(r).status = IF r.status \in Terminal THEN r.status ELSE "Blocked"
  BY Zenon DEF Block, Statuses, SettledWithoutDriver
<1>3. /\ RequestPause(r) \in Records
      /\ RequestPause(r).status = IF Off(r) THEN r.status ELSE "PausePending"
  BY Zenon DEF RequestPause, Statuses, Driven
<1>4. /\ SettlePaused(r) \in Records
      /\ SettlePaused(r).status = IF Off(r) THEN r.status ELSE "Paused"
  BY Zenon DEF SettlePaused, Quiet, Statuses, SettledWithoutDriver
<1>5. \A s \in Statuses : ForceMark(r, s) \in Records /\ ForceMark(r, s).status = s
  BY Zenon DEF ForceMark, Quiet
<1> QED  BY <1>1, <1>2, <1>3, <1>4, <1>5

(* The same for the moves a stop, a failure, a resume, a cancellation, a       *)
(* resolution and a lost driver make.                                          *)
LEMMA OtherMoves ==
  ASSUME NEW r \in Records
  PROVE  /\ RequestStop(r) \in Records
         /\ RequestStop(r).status = IF Off(r) THEN r.status ELSE "PausePending"
         /\ Fail(r) \in Records
         /\ Fail(r).status \in {r.status, "Failed"} /\ (Off(r) => Fail(r) = r)
         /\ Resume(r) \in Records
         /\ IF r.status = "Paused" THEN Resume(r).status = "Running" ELSE Resume(r) = r
         /\ Cancel(r) \in Records
         /\ Cancel(r).status = IF r.status \in Terminal THEN r.status ELSE "Cancelled"
         /\ ResolveAsPaused(r) \in Records
         /\ ResolveAsPaused(r).status = IF r.status = "Resolving" THEN "Paused" ELSE r.status
         /\ RestoreResolving(r) \in Records
         /\ RestoreResolving(r).status = IF r.status = "Resolving" THEN "Blocked" ELSE r.status
         /\ MarkInterrupted(r) \in Records
         /\ MarkInterrupted(r).status = IF r.status \in Terminal \cup {"Paused"} THEN r.status
                                        ELSE "Interrupted"
         /\ Unmarked(r) \in Records /\ Unmarked(r).status = r.status
         /\ Unparked(r) \in Records
         /\ Unparked(r).status = IF r.status = "AwaitingUser" THEN "Running" ELSE r.status
<1> USE DEF Records
<1>1. /\ RequestStop(r) \in Records
      /\ RequestStop(r).status = IF Off(r) THEN r.status ELSE "PausePending"
  <2>1. \A q \in Records : LET x == [q EXCEPT !.stopping = TRUE]
                           IN  x \in Records /\ x.status = q.status
    BY Zenon
  <2> QED  BY Zenon, <2>1, GuardedMoves DEF RequestStop
<1>2. /\ Fail(r) \in Records
      /\ Fail(r).status \in {r.status, "Failed"} /\ (Off(r) => Fail(r) = r)
  BY DEF Fail, SetStatus, Statuses, Terminal
<1>3. /\ Resume(r) \in Records
      /\ IF r.status = "Paused" THEN Resume(r).status = "Running" ELSE Resume(r) = r
  BY Zenon DEF Resume, Statuses, Driven
<1>4. /\ Cancel(r) \in Records
      /\ Cancel(r).status = IF r.status \in Terminal THEN r.status ELSE "Cancelled"
  BY Zenon DEF Cancel, Quiet, Statuses, Terminal
<1>5. /\ ResolveAsPaused(r) \in Records
      /\ ResolveAsPaused(r).status = IF r.status = "Resolving" THEN "Paused" ELSE r.status
  <2>1. Quiet(r) \in Records /\ r.awaiting \in BOOLEAN /\ "Paused" \in Statuses
    BY Zenon DEF Quiet, Statuses, SettledWithoutDriver
  <2>2. \A q \in Records, b \in BOOLEAN :
          LET x == [q EXCEPT !.status = "Paused", !.awaiting = b]
          IN  x \in Records /\ x.status = "Paused"
    BY Zenon, <2>1
  <2> QED  BY Zenon, <2>1, <2>2 DEF ResolveAsPaused
<1>6. /\ RestoreResolving(r) \in Records
      /\ RestoreResolving(r).status = IF r.status = "Resolving" THEN "Blocked" ELSE r.status
  BY GuardedMoves DEF RestoreResolving, Terminal
<1>7. /\ MarkInterrupted(r) \in Records
      /\ MarkInterrupted(r).status = IF r.status \in Terminal \cup {"Paused"} THEN r.status
                                     ELSE "Interrupted"
  BY DEF MarkInterrupted, Statuses, Terminal
<1>8. /\ Unmarked(r) \in Records /\ Unmarked(r).status = r.status
      /\ Unparked(r) \in Records
      /\ Unparked(r).status = IF r.status = "AwaitingUser" THEN "Running" ELSE r.status
  <2>1. Unmarked(r) \in Records /\ Unmarked(r).status = r.status
    BY DEF Unmarked
  <2>2. CASE r.status = "AwaitingUser"
    BY Zenon, <2>1, <2>2 DEF Unparked, Statuses, Driven
  <2>3. CASE r.status # "AwaitingUser"
    BY Zenon, <2>1, <2>3 DEF Unparked
  <2> QED  BY <2>1, <2>2, <2>3
<1> QED  BY <1>1, <1>2, <1>3, <1>4, <1>5, <1>6, <1>7, <1>8

(* And for what a restarted server makes of the record it finds.               *)
LEMMA RestoredMoves ==
  ASSUME NEW r \in Records
  PROVE  /\ AfterRestore(r) \in Records
         /\ AfterRestore(r).status =
              IF r.status \in Terminal \cup {"Paused"} THEN r.status
              ELSE IF r.status \in {"PausePending", "AwaitingUser"} THEN "Paused"
              ELSE "Interrupted"
<1>1. CASE r.status = "Paused"
  BY Zenon, <1>1 DEF AfterRestore, Records, Quiet
<1>2. CASE r.status \in {"PausePending", "AwaitingUser"}
  BY <1>2, GuardedMoves DEF AfterRestore, Off, Terminal, SettledWithoutDriver
<1>3. CASE r.status \notin {"Paused", "PausePending", "AwaitingUser"}
  BY <1>3, OtherMoves DEF AfterRestore
<1> QED  BY <1>1, <1>2, <1>3 DEF Terminal

(* Single fields of the record, as some steps set them.                        *)
LEMMA FieldMoves ==
  ASSUME NEW r \in Records
  PROVE  /\ \A t \in Threads : LET x == [r EXCEPT !.inFlight = t]
                               IN  x \in Records /\ x.status = r.status
         /\ \A b \in BOOLEAN : LET x == [r EXCEPT !.awaiting = b]
                               IN  x \in Records /\ x.status = r.status
         /\ \A b \in BOOLEAN : LET x == [r EXCEPT !.stopping = b]
                               IN  x \in Records /\ x.status = r.status
         /\ \A s \in Statuses : LET x == [r EXCEPT !.status = s]
                                IN  x \in Records /\ x.status = s
  BY DEF Records

-----------------------------------------------------------------------------
(* The shape of the state: where drivers and handlers may be, and what they    *)
(* are about there.                                                            *)
AtTurn == {"turn", "queue", "sending", "uncertain", "drain", "waiting", "parked", "ended"}
DriverPlaces == AtTurn \cup {"off", "boundary", "settle", "settling", "update", "failed", "stuck",
                             "commit", "committing", "cleanup", "reclaim", "reclaiming"}
Stops == {"stop", "stopping", "redrain"}
Marks == {"mark_quiet", "mark_blocked", "marking"}
UserPlaces == Stops \cup Marks \cup
  {"off", "pause", "resume", "resuming", "reopen", "reopening", "resolve", "resolving", "send"}

Fits(p, l, x) ==
  /\ p \in Drivers => l \in DriverPlaces /\ (l \in AtTurn => x \in Threads)
  /\ p \in Users => /\ l \in UserPlaces
                    /\ l \in Stops => x \in {"Paused", "Cancelled", "Done"}
                    /\ l \in Marks => x \in {"Cancelled", "Done"}
                    /\ l = "reopening" => x \in Records /\ x.status \in Terminal

Data ==
  /\ run \in Records
  /\ view \in [Threads -> {"none", "idle", "working"}]
  /\ real \in [Threads -> {"nobody", "team", "user", "lost"}]
  /\ question \in SUBSET Threads
  /\ spawned \in SUBSET {"abandon", "restore"}
  /\ events \in 0..MaxEvents

Placed ==
  /\ DOMAIN pc = Procs /\ DOMAIN arg = Procs
  /\ \A p \in Procs : Fits(p, pc[p], arg[p])

Held ==
  /\ gate \in Procs \cup {Nobody} /\ ticket \in Procs \cup {Nobody}
  /\ \A p \in Procs : /\ pc[p] \in GateHeld => gate = p
                      /\ gate = p => pc[p] \in GateHeld \cup {"drain"}

Typed == Data /\ Placed /\ Held

(* A process may move to l with the gate left alone, taken or dropped.         *)
GateMove(p, l) ==
  \/ gate' = gate /\ (l \in GateHeld => gate = p) /\ (gate = p => l \in GateHeld \cup {"drain"})
  \/ gate = Nobody /\ gate' = p /\ l \in GateHeld
  \/ gate' = (IF gate = p THEN Nobody ELSE gate) /\ l \notin GateHeld

(* Moving one process so keeps everybody in place and the gate with its holder. *)
LEMMA OneMoves ==
  ASSUME Placed, Held, NEW p \in Procs, NEW l, NEW x, About(p, l, x), Fits(p, l, x),
         GateMove(p, l), ticket' \in {ticket, p, Nobody}
  PROVE  Placed' /\ Held'
<1>1. /\ DOMAIN pc' = Procs /\ DOMAIN arg' = Procs
      /\ \A q \in Procs : /\ pc'[q] = IF q = p THEN l ELSE pc[q]
                          /\ arg'[q] = IF q = p THEN x ELSE arg[q]
  BY DEF About, Placed
<1>2. Placed'
  BY <1>1 DEF Placed, Fits
<1>3. Held'
  BY <1>1, TeamRunAssumption DEF Held, GateMove, Procs
<1> QED  BY <1>2, <1>3

(* The steps of a driver between turns keep the shape.                         *)
LEMMA DriverTypes ==
  ASSUME Typed, NEW d \in Drivers, DriverStep(d) \/ DriverLost(d)
  PROVE  Typed'
<1> d \in Procs /\ d \notin Users
  BY TeamRunAssumption DEF Procs
<1> Data /\ Placed /\ Held /\ run \in Records
  BY DEF Typed, Data
<1>f. /\ Fits(d, pc[d], arg[d])
      /\ (pc[d] \in GateHeld => gate = d) /\ (gate = d => pc[d] \in GateHeld \cup {"drain"})
  BY DEF Placed, Held
<1>g. ASSUME NEW t, GivenUp(t) PROVE real' \in [Threads -> {"nobody", "team", "user", "lost"}]
  BY <1>g DEF GivenUp, Data
<1>1. CASE Leaves(d)
  <2>1. Data'
    BY <1>1 DEF Leaves, Data, threadVars
  <2>2. Placed' /\ Held'
    BY <1>1, <1>f, OneMoves DEF Leaves, Goto, Fits, GateMove, AtTurn, DriverPlaces, GateHeld
  <2> QED  BY <2>1, <2>2 DEF Typed
<1>2. CASE PausesHere(d)
  <2>1. Data'
    BY <1>2 DEF PausesHere, Data, threadVars
  <2>2. Placed' /\ Held'
    BY <1>2, <1>f, OneMoves DEF PausesHere, Goto, Fits, GateMove, AtTurn, DriverPlaces, GateHeld
  <2> QED  BY <2>1, <2>2 DEF Typed
<1>3. CASE GoesOn(d)
  <2>1. Data'
    BY <1>3 DEF GoesOn, Data, threadVars
  <2>2. Placed' /\ Held'
    BY <1>3, <1>f, OneMoves DEF GoesOn, Goto, Fits, GateMove, AtTurn, DriverPlaces, GateHeld
  <2> QED  BY <2>1, <2>2 DEF Typed
<1>4. CASE SettleCheck(d)
  <2>1. Data'
    BY <1>4, GuardedMoves DEF SettleCheck, Data, threadVars
  <2>2. Placed' /\ Held'
    BY <1>4, <1>f, OneMoves DEF SettleCheck, Goto, Fits, GateMove, AtTurn, DriverPlaces, GateHeld
  <2> QED  BY <2>1, <2>2 DEF Typed
<1>5. CASE SettleWrite(d)
  <2>1. Data'
    BY <1>5, GuardedMoves DEF SettleWrite, Data, threadVars
  <2>2. Placed' /\ Held'
    BY <1>5, <1>f, OneMoves DEF SettleWrite, Goto, Fits, GateMove, AtTurn, DriverPlaces, GateHeld
  <2> QED  BY <2>1, <2>2 DEF Typed
<1>6. CASE Updates(d)
  <2>1. Data'
    BY <1>6, GuardedMoves DEF Updates, Data, Statuses, Terminal, Driven, threadVars
  <2>2. Placed' /\ Held'
    BY <1>6, <1>f, OneMoves DEF Updates, Goto, Fits, GateMove, AtTurn, DriverPlaces, GateHeld
  <2> QED  BY <2>1, <2>2 DEF Typed
<1>7. CASE Reports(d)
  <2>1. Data'
    BY <1>7, OtherMoves DEF Reports, Data, threadVars
  <2>2. Placed' /\ Held'
    BY <1>7, <1>f, OneMoves DEF Reports, Goto, Fits, GateMove, AtTurn, DriverPlaces, GateHeld
  <2> QED  BY <2>1, <2>2 DEF Typed
<1>8. CASE ReportsStuck(d)
  <2>1. Data'
    BY <1>8, GuardedMoves DEF ReportsStuck, Data, threadVars
  <2>2. Placed' /\ Held'
    BY <1>8, <1>f, OneMoves DEF ReportsStuck, Goto, Fits, GateMove, AtTurn, DriverPlaces, GateHeld
  <2> QED  BY <2>1, <2>2 DEF Typed
<1>9. CASE CommitBegin(d)
  <2>1. Data'
    BY <1>9 DEF CommitBegin, Data, threadVars
  <2>2. Placed' /\ Held'
    BY <1>9, OneMoves
    DEF CommitBegin, Goto, Fits, GateMove, TakeGate, AtTurn, DriverPlaces, GateHeld
  <2> QED  BY <2>1, <2>2 DEF Typed
<1>10. CASE CommitEnd(d)
  <2>1. Data'
    BY <1>10 DEF CommitEnd, Data, threadVars
  <2>2. Placed' /\ Held'
    BY <1>10, OneMoves
    DEF CommitEnd, Goto, Fits, GateMove, DropGate, AtTurn, DriverPlaces, GateHeld
  <2> QED  BY <2>1, <2>2 DEF Typed
<1>11. CASE TurnCheck(d)
  <2>1. Data'
    BY <1>11, GuardedMoves DEF TurnCheck, Refusal, Data, threadVars
  <2>2. Placed' /\ Held'
    BY <1>11, <1>f, OneMoves
    DEF TurnCheck, Refusal, Goto, Fits, GateMove, AtTurn, DriverPlaces, GateHeld
  <2> QED  BY <2>1, <2>2 DEF Typed
<1>12. CASE TurnGate(d)
  <2>1. Data'
    BY <1>12, <1>f, GuardedMoves, FieldMoves DEF TurnGate, Refusal, Data, Fits, AtTurn, threadVars
  <2>2. Placed' /\ Held'
    BY <1>12, <1>f, OneMoves
    DEF TurnGate, Refusal, Goto, Fits, GateMove, TakeGate, AtTurn, DriverPlaces, GateHeld
  <2> QED  BY <2>1, <2>2 DEF Typed
<1>13. CASE SendReturns(d)
  <2>1. Data'
    BY <1>13 DEF SendReturns, Data
  <2>2. Placed' /\ Held'
    BY <1>13, <1>f, OneMoves
    DEF SendReturns, Goto, Fits, GateMove, DropGate, AtTurn, DriverPlaces, GateHeld
  <2> QED  BY <2>1, <2>2 DEF Typed
<1>14. CASE WindowCloses(d)
  <2>1. Data'
    BY <1>14, <1>g, OtherMoves, TeamRunAssumption DEF WindowCloses, Event, Data
  <2>2. Placed' /\ Held'
    BY <1>14, <1>f, OneMoves
    DEF WindowCloses, Goto, Fits, GateMove, DropGate, AtTurn, DriverPlaces, GateHeld
  <2> QED  BY <2>1, <2>2 DEF Typed
<1>15. CASE TurnDrained(d)
  <2>1. Data'
    BY <1>15, OtherMoves DEF TurnDrained, Data, threadVars
  <2>2. Placed' /\ Held'
    BY <1>15, OneMoves
    DEF TurnDrained, Goto, Fits, GateMove, DropGate, AtTurn, DriverPlaces, GateHeld
  <2> QED  BY <2>1, <2>2 DEF Typed
<1>16. CASE Parks(d)
  <2>1. Data'
    BY Zenon, <1>16, GuardedMoves, FieldMoves DEF Parks, Data, Statuses, Driven, threadVars
  <2>2. Placed' /\ Held'
    BY <1>16, <1>f, OneMoves DEF Parks, Goto, Fits, GateMove, AtTurn, DriverPlaces, GateHeld
  <2> QED  BY <2>1, <2>2 DEF Typed
<1>17. CASE Unparks(d)
  <2>1. Data'
    BY <1>17, OtherMoves DEF Unparks, Data, threadVars
  <2>2. Placed' /\ Held'
    BY <1>17, <1>f, OneMoves DEF Unparks, Goto, Fits, GateMove, AtTurn, DriverPlaces, GateHeld
  <2> QED  BY <2>1, <2>2 DEF Typed
<1>18. CASE WaitFails(d)
  <2>1. Data'
    BY <1>18, OtherMoves DEF WaitFails, Data, threadVars
  <2>2. Placed' /\ Held'
    BY <1>18, <1>f, OneMoves DEF WaitFails, Goto, Fits, GateMove, AtTurn, DriverPlaces, GateHeld
  <2> QED  BY <2>1, <2>2 DEF Typed
<1>19. CASE WaitEnds(d)
  <2>1. Data'
    BY <1>19, OtherMoves DEF WaitEnds, Data, threadVars
  <2>2. Placed' /\ Held'
    BY <1>19, <1>f, OneMoves DEF WaitEnds, Goto, Fits, GateMove, AtTurn, DriverPlaces, GateHeld
  <2> QED  BY <2>1, <2>2 DEF Typed
<1>20. CASE TurnOver(d)
  <2>1. Data'
    BY Zenon, <1>20, OtherMoves DEF TurnOver, Data, threadVars
  <2>2. Placed' /\ Held'
    BY <1>20, <1>f, OneMoves DEF TurnOver, Goto, Fits, GateMove, AtTurn, DriverPlaces, GateHeld
  <2> QED  BY <2>1, <2>2 DEF Typed
<1>21. CASE CleanupCheck(d)
  <2>1. Data'
    BY <1>21 DEF CleanupCheck, Finish, Data, threadVars
  <2>2. Placed' /\ Held'
    BY <1>21, <1>f, OneMoves
    DEF CleanupCheck, Finish, Goto, Fits, GateMove, DropGate, DropTicket, AtTurn, DriverPlaces,
        GateHeld
  <2> QED  BY <2>1, <2>2 DEF Typed
<1>22. CASE CleanupGate(d)
  <2>1. Data'
    BY <1>22 DEF CleanupGate, Data, threadVars
  <2>2. Placed' /\ Held'
    BY <1>22, OneMoves
    DEF CleanupGate, Goto, Fits, GateMove, TakeGate, AtTurn, DriverPlaces, GateHeld
  <2> QED  BY <2>1, <2>2 DEF Typed
<1>23. CASE CleanupEnds(d)
  <2>1. Data'
    BY <1>23, GuardedMoves, OtherMoves DEF CleanupEnds, Finish, Data, threadVars
  <2>2. Placed' /\ Held'
    BY <1>23, OneMoves
    DEF CleanupEnds, Finish, Fits, GateMove, DropGate, DropTicket, AtTurn, DriverPlaces, GateHeld
  <2> QED  BY <2>1, <2>2 DEF Typed
<1>24. CASE DriverLost(d)
  <2>1. Data'
    BY <1>24, <1>g, TeamRunAssumption DEF DriverLost, Event, Data
  <2>2. Placed' /\ Held'
    BY <1>24, OneMoves
    DEF DriverLost, Event, Goto, Fits, GateMove, DropGate, DropTicket, AtTurn, DriverPlaces,
        GateHeld
  <2> QED  BY <2>1, <2>2 DEF Typed
<1> QED  BY <1>1, <1>2, <1>3, <1>4, <1>5, <1>6, <1>7, <1>8, <1>9, <1>10, <1>11, <1>12, <1>13,
            <1>14, <1>15, <1>16, <1>17, <1>18, <1>19, <1>20, <1>21, <1>22, <1>23, <1>24
         DEF DriverStep

(* Handing the ticket to a fresh driver keeps the shape.                       *)
LEMMA SpawnTypes ==
  ASSUME Placed, Held, NEW u \in Users, Spawn(u)
  PROVE  Placed' /\ Held'
<1> DEFINE d == CHOOSE e \in Drivers : pc[e] = "off"
<1>1. d \in Drivers /\ pc[d] = "off" /\ d # u /\ u \in Procs /\ d \in Procs
  BY TeamRunAssumption DEF Spawn, Procs
<1>2. /\ pc' = [pc EXCEPT ![u] = "off", ![d] = "boundary"]
      /\ arg' = [arg EXCEPT ![u] = NoThread]
      /\ ticket' = d /\ gate' = IF gate = u THEN Nobody ELSE gate
  BY DEF Spawn, DropGate
<1> HIDE DEF d
<1>3. /\ DOMAIN pc' = Procs /\ DOMAIN arg' = Procs
      /\ \A q \in Procs : /\ pc'[q] = IF q = d THEN "boundary" ELSE IF q = u THEN "off" ELSE pc[q]
                          /\ arg'[q] = IF q = u THEN NoThread ELSE arg[q]
  BY <1>1, <1>2 DEF Placed
<1>4. Placed'
  BY <1>1, <1>3, TeamRunAssumption
  DEF Placed, Fits, DriverPlaces, UserPlaces, AtTurn, Stops, Marks
<1>5. Held'
  BY <1>1, <1>2, <1>3, TeamRunAssumption DEF Held, Procs, GateHeld
<1> QED  BY <1>4, <1>5

(* The steps of a handler keep the shape.                                      *)
LEMMA UserTypes ==
  ASSUME Typed, NEW u \in Users,
         \/ UserStep(u) \/ Request(u) \/ RequestMark(u)
         \/ RequestResolve(u) \/ RequestSend(u) \/ HangUp(u)
  PROVE  Typed'
<1> u \in Procs /\ u \notin Drivers
  BY TeamRunAssumption DEF Procs
<1> Data /\ Placed /\ Held /\ run \in Records
  BY DEF Typed, Data
<1>f. /\ Fits(u, pc[u], arg[u])
      /\ (pc[u] \in GateHeld => gate = u) /\ (gate = u => pc[u] \in GateHeld \cup {"drain"})
  BY DEF Placed, Held
<1>1. CASE PauseNow(u)
  <2>1. Data'
    BY <1>1, GuardedMoves DEF PauseNow, Data, threadVars
  <2>2. Placed' /\ Held'
    BY <1>1, OneMoves
    DEF PauseNow, Fits, Finish, GateMove, DropGate, DropTicket, UserPlaces, Stops, Marks,
        GateHeld
  <2> QED  BY <2>1, <2>2 DEF Typed
<1>2. CASE StopBegins(u)
  <2>1. Data'
    BY <1>2, OtherMoves DEF StopBegins, Data, threadVars
  <2>2. Placed' /\ Held'
    BY <1>2, <1>f, OneMoves
    DEF StopBegins, Goto, Fits, Finish, GateMove, TakeGate, DropGate, DropTicket, UserPlaces,
        Stops, Marks, GateHeld
  <2> QED  BY <2>1, <2>2 DEF Typed
<1>3. CASE StopEnds(u)
  <2>1. Data'
    BY <1>3, <1>f, GuardedMoves, OtherMoves
    DEF StopEnds, SettleAs, Data, Fits, UserPlaces, Statuses, Terminal, threadVars
  <2>2. Placed' /\ Held'
    BY <1>3, OneMoves
    DEF StopEnds, SettleAs, Fits, Finish, GateMove, DropGate, DropTicket, UserPlaces, Stops,
        Marks, GateHeld
  <2> QED  BY <2>1, <2>2 DEF Typed
<1>4. CASE RedrainEnds(u)
  <2>1. Data'
    BY <1>4, GuardedMoves DEF RedrainEnds, Data, threadVars
  <2>2. Placed' /\ Held'
    BY <1>4, OneMoves
    DEF RedrainEnds, Fits, Finish, GateMove, DropGate, DropTicket, UserPlaces, Stops, Marks,
        GateHeld
  <2> QED  BY <2>1, <2>2 DEF Typed
<1>5. CASE MarkQuiet(u)
  <2>1. Data'
    BY SMTT(30), <1>5, <1>f, GuardedMoves
    DEF MarkQuiet, Data, Fits, UserPlaces, Stops, Statuses, Terminal, threadVars
  <2>2. Placed' /\ Held'
    BY <1>5, OneMoves
    DEF MarkQuiet, Fits, Finish, GateMove, DropGate, DropTicket, UserPlaces, Stops, Marks,
        GateHeld
  <2> QED  BY <2>1, <2>2 DEF Typed
<1>6. CASE MarkBlockedBegins(u)
  <2>1. Data'
    BY <1>6 DEF MarkBlockedBegins, Data, threadVars
  <2>2. Placed' /\ Held'
    BY <1>6, <1>f, OneMoves
    DEF MarkBlockedBegins, Goto, Fits, Finish, GateMove, TakeGate, DropGate, DropTicket,
        UserPlaces, Stops, Marks, GateHeld
  <2> QED  BY <2>1, <2>2 DEF Typed
<1>7. CASE MarkBlockedEnds(u)
  <2>1. Data'
    BY <1>7, <1>f, GuardedMoves
    DEF MarkBlockedEnds, Data, Fits, UserPlaces, Stops, Statuses, Terminal, threadVars
  <2>2. Placed' /\ Held'
    BY <1>7, OneMoves
    DEF MarkBlockedEnds, Fits, Finish, GateMove, DropGate, DropTicket, UserPlaces, Stops, Marks,
        GateHeld
  <2> QED  BY <2>1, <2>2 DEF Typed
<1>8. CASE ResumeClaims(u)
  <2>1. Data'
    BY SMTT(30), <1>8, GuardedMoves DEF ResumeClaims, Data, threadVars
  <2>2. Placed' /\ Held'
    BY <1>8, <1>f, OneMoves
    DEF ResumeClaims, Goto, Fits, Finish, GateMove, DropGate, DropTicket, UserPlaces, Stops,
        Marks, GateHeld
  <2> QED  BY <2>1, <2>2 DEF Typed
<1>9. CASE ResumeFlips(u)
  <2>1. Data'
    BY <1>9, OtherMoves DEF ResumeFlips, Data, threadVars
  <2>2. Placed' /\ Held'
    BY <1>9, OneMoves, SpawnTypes
    DEF ResumeFlips, Fits, Finish, GateMove, DropGate, DropTicket, UserPlaces, Stops, Marks,
        GateHeld
  <2> QED  BY <2>1, <2>2 DEF Typed
<1>10. CASE ReopenFlips(u)
  <2>0. [run EXCEPT !.status = "Paused"] \in Records
    BY FieldMoves DEF Statuses, SettledWithoutDriver
  <2>1. Data'
    BY <1>10, <2>0 DEF ReopenFlips, Data, threadVars
  <2>2. Placed' /\ Held'
    BY SMTT(30), <1>10, OneMoves
    DEF ReopenFlips, Fits, Finish, GateMove, TakeGate, DropGate, DropTicket, UserPlaces, Stops,
        Marks, GateHeld, Reopenable
  <2> QED  BY <2>1, <2>2 DEF Typed
<1>11. CASE ReopenEnds(u)
  <2>1. Data'
    <3>1. run' \in {run, Resume(run), arg[u]}
      BY <1>11 DEF ReopenEnds
    <3>2. Resume(run) \in Records /\ arg[u] \in Records
      BY <1>11, <1>f, OtherMoves DEF ReopenEnds, Fits
    <3> QED  BY <1>11, <3>1, <3>2 DEF ReopenEnds, Data, threadVars
  <2>2. Placed' /\ Held'
    BY <1>11, OneMoves, SpawnTypes
    DEF ReopenEnds, Fits, Finish, GateMove, DropGate, DropTicket, UserPlaces, Stops, Marks,
        GateHeld
  <2> QED  BY <2>1, <2>2 DEF Typed
<1>12. CASE ResolveGate(u)
  <2>1. Data'
    BY <1>12 DEF ResolveGate, Data, threadVars
  <2>2. Placed' /\ Held'
    BY Zenon, <1>12, OneMoves
    DEF ResolveGate, Goto, Fits, GateMove, TakeGate, UserPlaces, Stops, Marks, GateHeld
  <2> QED  BY <2>1, <2>2 DEF Typed
<1>13. CASE ResolveEnds(u)
  <2>1. Data'
    BY <1>13, GuardedMoves, OtherMoves DEF ResolveEnds, Data, threadVars
  <2>2. Placed' /\ Held'
    BY <1>13, OneMoves
    DEF ResolveEnds, Fits, Finish, GateMove, DropGate, DropTicket, UserPlaces, Stops, Marks,
        GateHeld
  <2> QED  BY <2>1, <2>2 DEF Typed
<1>14. CASE SendEnds(u)
  <2>1. Data'
    BY <1>14, TeamRunAssumption DEF SendEnds, UserTurn, LostTurn, Event, Data
  <2>2. Placed' /\ Held'
    BY <1>14, OneMoves
    DEF SendEnds, Fits, Finish, GateMove, DropGate, DropTicket, UserPlaces, Stops, Marks,
        GateHeld
  <2> QED  BY <2>1, <2>2 DEF Typed
<1>15. CASE Request(u)
  <2>1. Data'
    BY SMTT(30), <1>15, TeamRunAssumption DEF Request, Asked, Event, Data, threadVars
  <2>2. Placed' /\ Held'
    BY <1>15, <1>f, OneMoves
    DEF Request, Asked, Event, Fits, GateMove, UserPlaces, Stops, Marks, GateHeld
  <2> QED  BY <2>1, <2>2 DEF Typed
<1>16. CASE RequestMark(u)
  <2>1. Data'
    BY <1>16, TeamRunAssumption DEF RequestMark, Asked, Event, Data, threadVars
  <2>2. Placed' /\ Held'
    BY <1>16, <1>f, OneMoves
    DEF RequestMark, Asked, Event, Fits, GateMove, UserPlaces, Stops, Marks, GateHeld
  <2> QED  BY <2>1, <2>2 DEF Typed
<1>17. CASE RequestResolve(u)
  <2>0. [run EXCEPT !.status = "Resolving"] \in Records
    BY FieldMoves DEF Statuses, SettledWithoutDriver
  <2>1. Data'
    BY <1>17, <2>0, TeamRunAssumption DEF RequestResolve, Asked, Event, Data, threadVars
  <2>2. Placed' /\ Held'
    BY <1>17, <1>f, OneMoves
    DEF RequestResolve, Asked, Event, Fits, GateMove, UserPlaces, Stops, Marks, GateHeld
  <2> QED  BY <2>1, <2>2 DEF Typed
<1>18. CASE RequestSend(u)
  <2>1. Data'
    BY <1>18, TeamRunAssumption DEF RequestSend, Asked, Event, Data, threadVars
  <2>2. Placed' /\ Held'
    BY <1>18, OneMoves
    DEF RequestSend, Asked, Event, Fits, GateMove, TakeGate, UserPlaces, Stops, Marks, GateHeld
  <2> QED  BY <2>1, <2>2 DEF Typed
<1>19. CASE HangUp(u)
  <2>1. Data'
    BY <1>19, TeamRunAssumption DEF HangUp, UserTurn, LostTurn, Event, Data
  <2>2. Placed' /\ Held'
    BY <1>19, OneMoves
    DEF HangUp, Event, Fits, Finish, GateMove, DropGate, DropTicket, UserPlaces, Stops, Marks,
        GateHeld
  <2> QED  BY <2>1, <2>2 DEF Typed
<1> QED  BY <1>1, <1>2, <1>3, <1>4, <1>5, <1>6, <1>7, <1>8, <1>9, <1>10, <1>11, <1>12, <1>13,
            <1>14, <1>15, <1>16, <1>17, <1>18, <1>19
         DEF UserStep

(* Cleanups, providers and restarts keep the shape.                            *)
LEMMA WorldTypes ==
  ASSUME Typed,
         \/ AbandonStop \/ AbandonResolve \/ Restarts
         \/ \E d \in Drivers : ProviderBegins(d)
         \/ \E t \in Threads : Announces(t) \/ Asks(t) \/ Answers(t) \/ TurnEnds(t)
  PROVE  Typed'
<1> Data /\ Placed /\ Held /\ run \in Records
  BY DEF Typed, Data
<1>1. CASE AbandonStop
  BY Zenon, <1>1, FieldMoves DEF AbandonStop, Typed, Data, Placed, Held, threadVars
<1>2. CASE AbandonResolve
  BY <1>2, OtherMoves DEF AbandonResolve, Typed, Data, Placed, Held, threadVars
<1>3. CASE Restarts
  <2>1. Data'
    BY <1>3, RestoredMoves, TeamRunAssumption DEF Restarts, Event, Data
  <2>2. \A p \in Procs : pc'[p] = "off" /\ arg'[p] = NoThread
    BY SMTT(30), <1>3 DEF Restarts
  <2>3. Placed' /\ Held'
    BY <1>3, <2>2, TeamRunAssumption
    DEF Restarts, Placed, Held, Fits, Procs, GateHeld, DriverPlaces, UserPlaces, AtTurn, Stops,
        Marks
  <2> QED  BY <2>1, <2>3 DEF Typed
<1>4. CASE \E d \in Drivers : ProviderBegins(d)
  <2> PICK d \in Drivers : ProviderBegins(d)
    BY <1>4
  <2>1. Data'
    BY Zenon DEF ProviderBegins, Data
  <2>2. Placed' /\ Held'
    BY DEF ProviderBegins, Placed, Held
  <2> QED  BY <2>1, <2>2 DEF Typed
<1>5. ASSUME NEW t \in Threads, Announces(t) \/ Asks(t) \/ Answers(t) \/ TurnEnds(t)
      PROVE  Typed'
  <2>1. Data'
    <3>1. CASE Announces(t)
      BY <3>1 DEF Announces, Data
    <3>2. CASE Asks(t)
      BY <3>2, TeamRunAssumption DEF Asks, Event, Data
    <3>3. CASE Answers(t)
      BY <3>3 DEF Answers, Data
    <3>4. CASE TurnEnds(t)
      BY SMTT(30), <3>4 DEF TurnEnds, Data
    <3> QED  BY <1>5, <3>1, <3>2, <3>3, <3>4
  <2>2. Placed' /\ Held'
    BY <1>5 DEF Announces, Asks, Answers, TurnEnds, Placed, Held
  <2> QED  BY <2>1, <2>2 DEF Typed
<1> QED  BY <1>1, <1>2, <1>3, <1>4, <1>5

(* The driver of the first moment, and nobody else, is at work.                *)
LEMMA FirstDriver ==
  ASSUME Init
  PROVE  /\ ticket \in Drivers /\ ticket \in Procs
         /\ \A p \in Procs : /\ pc[p] = IF p = ticket THEN "boundary" ELSE "off"
                             /\ arg[p] = NoThread
  BY TeamRunAssumption DEF Init, Procs

(* A task run starts in its shape.                                             *)
LEMMA ShapeStart == Init => Typed
<1> SUFFICES ASSUME Init PROVE Typed
  OBVIOUS
<1>1. Data
  <2>1. run \in Records
    BY DEF Init, Records, Statuses, Driven
  <2>2. /\ view = [t \in Threads |-> "idle"] /\ real = [t \in Threads |-> "nobody"]
        /\ question = {} /\ spawned = {} /\ events = 0
    BY DEF Init
  <2>3. /\ view \in [Threads -> {"none", "idle", "working"}]
        /\ real \in [Threads -> {"nobody", "team", "user", "lost"}]
    BY <2>2
  <2>4. /\ question \in SUBSET Threads
        /\ spawned \in SUBSET {"abandon", "restore"}
    BY Zenon, <2>2
  <2>5. events \in 0..MaxEvents
    BY <2>2, TeamRunAssumption
  <2> QED  BY <2>1, <2>3, <2>4, <2>5 DEF Data
<1>2. Placed
  BY FirstDriver, TeamRunAssumption
  DEF Init, Placed, Fits, Procs, DriverPlaces, UserPlaces, AtTurn, Stops, Marks
<1>3. Held
  BY FirstDriver, TeamRunAssumption DEF Init, Held, Procs, GateHeld
<1> QED  BY <1>1, <1>2, <1>3 DEF Typed

(* Every step of the drivers, the handlers, the provider and the server keeps  *)
(* the shape.                                                                  *)
LEMMA ShapeStep == Typed /\ [Next]_vars => Typed'
<1> SUFFICES ASSUME Typed, [Next]_vars PROVE Typed'
  OBVIOUS
<1>1. CASE UNCHANGED vars
  BY SMTT(30), <1>1 DEF vars, Typed, Data, Placed, Held
<1>2. CASE Next
  BY <1>2, DriverTypes, UserTypes, WorldTypes DEF Next
<1> QED  BY <1>1, <1>2

(* So the shape is an invariant.                                               *)
LEMMA ShapeInvariance == Spec => []Typed
  BY ShapeStart, ShapeStep, PTL DEF Spec

(* Everything has its type, and the gate of a run is with whoever is where it  *)
(* is held across awaits (team_drive_gate), however many handlers and drivers  *)
(* there are.                                                                  *)
THEOREM TeamTypeCorrect == Spec => []TypeOK
<1>1. Typed => TypeOK
  BY DEF Typed, Data, Held, TypeOK, Records
<1> QED  BY <1>1, ShapeInvariance, PTL

-----------------------------------------------------------------------------
(* The right to drive.  Besides the drivers, the handler that is resuming the  *)
(* run holds the ticket.                                                       *)
Ticketed == OneDriver /\ \A u \in Users : pc[u] = "resuming" => ticket = u

(* A step in which a process keeps, drops or takes the ticket.                 *)
Resting == {"off", "cleanup", "reclaim", "reclaiming"}

(* A step of one process keeps the account of who drives, if a process that    *)
(* starts to drive has the ticket and one that gives it up has stopped driving. *)
LEMMA TicketMoves ==
  ASSUME Typed, Ticketed, NEW p \in Procs, NEW l, NEW x, About(p, l, x),
         \/ ticket' = ticket /\ (p \in Driving \/ l \in Resting \/ (p \in Users /\ l # "resuming"))
         \/ ticket' = (IF ticket = p THEN Nobody ELSE ticket) /\ l \in Resting
         \/ ticket = Nobody /\ ticket' = p
  PROVE  Ticketed'
<1>1. \A q \in Procs : pc'[q] = IF q = p THEN l ELSE pc[q]
  BY DEF About, Typed, Placed
<1>2. ticket \in Procs \cup {Nobody} /\ Nobody \notin Procs /\ Users \cap Drivers = {}
  BY TeamRunAssumption DEF Typed, Held, Procs
<1>3. \A d \in Drivers : pc'[d] \notin Resting => ticket' = d
  BY <1>1, <1>2 DEF Ticketed, OneDriver, Driving, Procs, Resting
<1>4. \A u \in Users : pc'[u] = "resuming" => ticket' = u
  BY <1>1, <1>2 DEF Ticketed, OneDriver, Driving, Procs, Resting
<1> QED  BY <1>3, <1>4 DEF Ticketed, OneDriver, Driving, Resting

(* A driver keeps its ticket until it is lost or done.                         *)
LEMMA DriverTickets ==
  ASSUME Typed, Ticketed, NEW d \in Drivers, DriverStep(d) \/ DriverLost(d)
  PROVE  Ticketed'
<1> d \in Procs /\ d \notin Users
  BY TeamRunAssumption DEF Procs
<1>1. CASE \/ Leaves(d) \/ PausesHere(d) \/ GoesOn(d) \/ SettleCheck(d) \/ SettleWrite(d)
           \/ Updates(d) \/ Reports(d) \/ ReportsStuck(d) \/ CommitBegin(d) \/ CommitEnd(d)
  BY Zenon, <1>1, TicketMoves
  DEF Leaves, PausesHere, GoesOn, SettleCheck, SettleWrite, Updates, Reports, ReportsStuck,
      CommitBegin, CommitEnd, Goto, Driving, Resting
<1>2. CASE \/ TurnCheck(d) \/ TurnGate(d) \/ SendReturns(d) \/ WindowCloses(d) \/ TurnDrained(d)
           \/ Parks(d) \/ Unparks(d) \/ WaitFails(d) \/ WaitEnds(d) \/ TurnOver(d)
  BY <1>2, TicketMoves
  DEF TurnCheck, TurnGate, SendReturns, WindowCloses, TurnDrained, Parks, Unparks, WaitFails,
      WaitEnds, TurnOver, Goto, Driving, Resting
<1>3. CASE CleanupCheck(d) \/ CleanupGate(d) \/ CleanupEnds(d) \/ DriverLost(d)
  BY Zenon, <1>3, TicketMoves
  DEF CleanupCheck, CleanupGate, CleanupEnds, DriverLost, Finish, DropTicket, Goto, Resting
<1> QED  BY <1>1, <1>2, <1>3 DEF DriverStep

(* A handler hands on the ticket it has claimed, or one it finds free.         *)
LEMMA UserTickets ==
  ASSUME Typed, Ticketed, NEW u \in Users,
         \/ UserStep(u) \/ Request(u) \/ RequestMark(u)
         \/ RequestResolve(u) \/ RequestSend(u) \/ HangUp(u)
  PROVE  Ticketed'
<1> u \in Procs /\ u \notin Drivers
  BY TeamRunAssumption DEF Procs
<1>1. CASE \/ PauseNow(u) \/ StopBegins(u) \/ StopEnds(u) \/ RedrainEnds(u) \/ MarkQuiet(u)
           \/ MarkBlockedBegins(u) \/ MarkBlockedEnds(u)
  BY Zenon, <1>1, TicketMoves
  DEF PauseNow, StopBegins, StopEnds, RedrainEnds, MarkQuiet, MarkBlockedBegins, MarkBlockedEnds,
      Finish, DropTicket, Goto, Resting
<1>2. CASE \/ ResumeClaims(u) \/ ReopenFlips(u) \/ ResolveGate(u) \/ ResolveEnds(u) \/ SendEnds(u)
           \/ HangUp(u)
  BY <1>2, TicketMoves
  DEF ResumeClaims, ReopenFlips, ResolveGate, ResolveEnds, SendEnds, HangUp, Finish, DropTicket,
      Goto, Resting
<1>3. CASE \/ Request(u) \/ RequestResolve(u) \/ RequestSend(u)
  BY <1>3, TicketMoves DEF Request, RequestResolve, RequestSend, Asked
<1>4. CASE RequestMark(u)
  BY <1>4, TicketMoves DEF RequestMark, Asked
<1>5. CASE Spawn(u) /\ ticket \in {u, Nobody}
  <2> DEFINE d == CHOOSE e \in Drivers : pc[e] = "off"
  <2>1. /\ d \in Drivers /\ ticket' = d
        /\ pc' = [pc EXCEPT ![u] = "off", ![d] = "boundary"]
    BY <1>5 DEF Spawn
  <2> HIDE DEF d
  <2>2. \A q \in Procs : pc'[q] = IF q = d THEN "boundary" ELSE IF q = u THEN "off" ELSE pc[q]
    BY <2>1 DEF Typed, Placed, Procs
  <2>3. Nobody \notin Procs /\ Users \cap Drivers = {}
    BY TeamRunAssumption DEF Procs
  <2>4. /\ \A e \in Drivers : pc[e] \in Resting
        /\ \A v \in Users : pc[v] = "resuming" => v = u
    BY <1>5, <2>3 DEF Ticketed, OneDriver, Driving, Procs, Resting
  <2>5. \A e \in Drivers : e # d => pc'[e] \in Resting
    BY <2>2, <2>4 DEF Procs, Resting
  <2>6. \A v \in Users : pc'[v] # "resuming"
    BY SMTT(30), <2>2, <2>4 DEF Procs
  <2> QED  BY ZenonT(30), <2>1, <2>5, <2>6 DEF Ticketed, OneDriver, Driving, Resting
<1>6. CASE ResumeFlips(u)
  BY SMTT(30), <1>5, <1>6, TicketMoves DEF ResumeFlips, Finish, DropTicket, Resting, Ticketed
<1>7. CASE ReopenEnds(u)
  BY <1>5, <1>7, TicketMoves DEF ReopenEnds, Finish, DropTicket, Resting
<1> QED  BY <1>1, <1>2, <1>3, <1>4, <1>6, <1>7 DEF UserStep

(* Every step keeps the account of who drives.                                 *)
LEMMA TicketStep == Typed /\ Ticketed /\ [Next]_vars => Ticketed'
<1> SUFFICES ASSUME Typed, Ticketed, [Next]_vars PROVE Ticketed'
  OBVIOUS
<1>1. CASE Restarts
  BY <1>1, TeamRunAssumption DEF Restarts, Ticketed, OneDriver, Driving, Procs
<1>2. CASE pc' = pc /\ ticket' = ticket
  BY <1>2 DEF Ticketed, OneDriver, Driving
<1>3. CASE \/ AbandonStop \/ AbandonResolve \/ UNCHANGED vars
           \/ \E d \in Drivers : ProviderBegins(d)
           \/ \E t \in Threads : Announces(t) \/ Asks(t) \/ Answers(t) \/ TurnEnds(t)
  BY <1>2, <1>3
  DEF AbandonStop, AbandonResolve, vars, ProviderBegins, Announces, Asks, Answers, TurnEnds
<1> QED  BY <1>1, <1>3, DriverTickets, UserTickets DEF Next

(* So at most the holder of the ticket drives.                                 *)
LEMMA TicketInvariance == Spec => []Ticketed
<1>1. Init => Ticketed
  BY FirstDriver, TeamRunAssumption DEF Ticketed, OneDriver, Driving, Procs
<1> QED  BY <1>1, TicketStep, ShapeInvariance, PTL DEF Spec

(* Two drivers never work through one run, whoever resumes, reopens or loses   *)
(* it: claim_team_drive hands out one TeamDriveTicket, which Resume holds from *)
(* before the gate until the driver has it.                                    *)
THEOREM OneDriverAtATime == Spec => []OneDriver
<1>1. Ticketed => OneDriver
  BY DEF Ticketed
<1> QED  BY <1>1, TicketInvariance, PTL

-----------------------------------------------------------------------------
(* Who is at work in the tree, by where everybody is.  The right to begin is   *)
(* read under the gate or by the only driver, so it still stands when the work *)
(* begins.                                                                     *)
Between == {"boundary", "settle", "settling", "update", "failed", "commit", "turn", "queue",
            "ended"}
Upping == {"sending", "uncertain"}

Rule(l, x, m, b) ==
  /\ l \in {"send", "reopening", "committing"} => b = {}
  /\ l = "send" => m \in {"resting", "stuck"}
  /\ l \in Upping \cup {"committing"} => m \in {"driven", "stuck"}
  /\ l \in Upping => b \subseteq {x}
  /\ m = "driven" => /\ l \in {"drain", "waiting", "parked"} => b \subseteq {x}
                     /\ l \in Between => b = {}

TurnsOK ==
  /\ \A t1, t2 \in Busy : t1 = t2
  /\ \A t \in Threads : real[t] = "team" =>
       /\ Mode \in {"driven", "stuck"}
       /\ view[t] = "working" \/ \E d \in Drivers : pc[d] \in Upping /\ arg[d] = t
  /\ \A t \in Threads : real[t] = "user" =>
       t = "tl" /\ Mode \in {"resting", "stuck"} /\ view[t] = "working"

Work == TurnsOK /\ \A p \in Procs : Rule(pc[p], arg[p], Mode, Busy)

RunInv == Typed /\ Ticketed /\ Work

(* The modes of the contract are classes of statuses.                          *)
LEMMA ModeIs ==
  ASSUME run \in Records
  PROVE  /\ Mode = "driven" <=> ~Off(run)
         /\ Mode = "driven" <=> run.status \in Driven
         /\ Mode = "resting" <=> run.status = "Paused"
         /\ Mode = "stuck" <=> run.status \in {"Blocked", "Resolving"}
         /\ Mode = "over" <=> run.status \in Terminal
  BY DEF Records, Mode, Off, Statuses, Driven, Terminal, SettledWithoutDriver

(* And so are they after a step.                                               *)
LEMMA ModeWillBe ==
  ASSUME Typed'
  PROVE  /\ Mode' = "driven" <=> run'.status \in Driven
         /\ Mode' = "resting" <=> run'.status = "Paused"
         /\ Mode' = "stuck" <=> run'.status \in {"Blocked", "Resolving"}
         /\ Mode' = "over" <=> run'.status \in Terminal
  BY DEF Typed, Data, Records, Mode, Off, Statuses, Driven, Terminal, SettledWithoutDriver

(* Nobody but p, if anybody, is in the tree or about to be.                    *)
AtWork == Upping \cup {"send", "committing"}
Calm(p) == Busy = {} /\ pc[p] # "committing" /\ \A q \in Procs : q # p => pc[q] \notin AtWork

ModeMove(p) ==
  \/ Mode' = Mode
  \/ Mode \in {"driven", "resting"} /\ Mode' = "stuck"
  \/ /\ Calm(p)
     /\ <<Mode, Mode'>> \in {"driven", "resting", "stuck"} \X {"resting", "over"}
                            \cup {<<"resting", "driven">>, <<"over", "resting">>}

Step == \/ Contract!Write \/ Contract!Finish \/ Contract!Stick
        \/ Contract!HandOver \/ Contract!Restart
PromiseStep == Step \/ (Mode' = Mode /\ Writer' = Writer)

(* The writer, as the invariant knows them.                                    *)
LEMMA WriterIs ==
  ASSUME Work
  PROVE  /\ Busy = {} /\ ~Committing => Writer = "nobody"
         /\ Committing => Writer = "team" /\ Busy = {}
         /\ \A t \in Busy : Writer = real[t] /\ ~Committing
<1>1. Committing => Busy = {}
  BY DEF Work, Rule, Committing, Procs
<1>2. \A t \in Busy : Busy = {t} /\ (CHOOSE u \in Busy : TRUE) = t
  BY DEF Work, TurnsOK
<1>3. \A t \in Busy : Writer = real[t]
  BY <1>1, <1>2 DEF Writer
<1> QED  BY <1>1, <1>3 DEF Writer

(* A start that is given up while no turn of it has begun: whoever begins or   *)
(* ends now is lost.                                                           *)
SameTurns ==
  \A t \in Threads : real'[t] # real[t] => {real[t], real'[t]} \cap {"team", "user"} = {}

(* A step of one process that begins and ends no work: it keeps the account of *)
(* who is at work, and is a step of the contract.                              *)
LEMMA FrameOfLost ==
  ASSUME Typed, Work, NEW p \in Procs, NEW l, NEW x, About(p, l, x), ModeMove(p), SameTurns,
         \A t \in Threads : view[t] = "working" => view'[t] = "working",
         pc[p] # "committing", l # "committing", Rule(l, x, Mode', Busy),
         pc[p] \in Upping /\ real[arg[p]] = "team"
           => view'[arg[p]] = "working" \/ (l \in Upping /\ x = arg[p])
  PROVE  Work' /\ PromiseStep
<1>1. \A q \in Procs : /\ pc'[q] = IF q = p THEN l ELSE pc[q]
                       /\ arg'[q] = IF q = p THEN x ELSE arg[q]
  BY SMTT(30) DEF About, Typed, Placed
<1>0. /\ \A t \in Threads : \A w \in {"team", "user"} : real'[t] = w <=> real[t] = w
      /\ \A t \in Busy : real'[t] = real[t]
  BY DEF SameTurns, Busy
<1>2. Busy' = Busy
  BY <1>0 DEF Busy
<1>3. Committing' = Committing
  BY Zenon, <1>1 DEF Committing, Procs
<1>4. Writer' = Writer
  <2>1. CASE Busy = {}
    BY <1>2, <1>3, <2>1 DEF Writer
  <2>2. CASE Busy # {}
    <3>1. (CHOOSE t \in Busy : TRUE) \in Busy
      BY <2>2
    <3> QED  BY <1>0, <1>2, <1>3, <2>2, <3>1 DEF Writer
  <2> QED  BY <2>1, <2>2
<1>5. \A q \in Procs : Rule(pc'[q], arg'[q], Mode', Busy')
  <2>1. \A q \in Procs : q # p => Rule(pc[q], arg[q], Mode', Busy)
    BY DEF ModeMove, Calm, AtWork, Rule, Work
  <2> QED  BY <1>1, <1>2, <2>1
<1>6. \A t \in Threads : real[t] = "team" =>
        view'[t] = "working" \/ \E d \in Drivers : pc'[d] \in Upping /\ arg'[d] = t
  <2> SUFFICES ASSUME NEW t \in Threads, real[t] = "team", view[t] # "working"
               PROVE  view'[t] = "working" \/ \E d \in Drivers : pc'[d] \in Upping /\ arg'[d] = t
    OBVIOUS
  <2>1. PICK d \in Drivers : pc[d] \in Upping /\ arg[d] = t
    BY SMTT(30) DEF Work, TurnsOK
  <2>2. CASE d = p
    BY <1>1, <2>1, <2>2 DEF Procs
  <2>3. CASE d # p
    BY <1>1, <2>1, <2>3 DEF Procs
  <2> QED  BY <2>2, <2>3
<1>7. TurnsOK'
  <2>1. CASE Busy = {}
    BY SMTT(30), <1>2, <2>1 DEF TurnsOK, Busy
  <2>2. CASE Busy # {}
    <3>1. Mode' = Mode \/ (Mode \in {"driven", "resting"} /\ Mode' = "stuck")
      BY <2>2 DEF ModeMove, Calm
    <3> QED  BY <1>0, <1>2, <1>6, <3>1 DEF TurnsOK, Work
  <2> QED  BY <2>1, <2>2
<1>8. PromiseStep
  <2>1. CASE Calm(p)
    <3>1. ~Committing
      BY <2>1 DEF Calm, Committing, AtWork, Procs
    <3>2. Writer = "nobody"
      BY ZenonT(30), <2>1, <3>1, WriterIs DEF Calm
    <3> QED  BY <1>4, <3>2 DEF ModeMove, PromiseStep, Step, Contract!HandOver, Contract!Stick
  <2>2. CASE ~Calm(p)
    BY <1>4, <2>2 DEF ModeMove, PromiseStep, Step, Contract!Stick
  <2> QED  BY Zenon, <2>1, <2>2
<1> QED  BY SMTT(30), <1>5, <1>7, <1>8 DEF Work

(* The same for a step that loses no turn either.                              *)
LEMMA Frame ==
  ASSUME Typed, Work, NEW p \in Procs, NEW l, NEW x, About(p, l, x), ModeMove(p), real' = real,
         \A t \in Threads : view[t] = "working" => view'[t] = "working",
         pc[p] # "committing", l # "committing", Rule(l, x, Mode', Busy),
         pc[p] \in Upping /\ real[arg[p]] = "team"
           => view'[arg[p]] = "working" \/ (l \in Upping /\ x = arg[p])
  PROVE  Work' /\ PromiseStep
<1>1. SameTurns
  BY DEF SameTurns
<1> QED  BY Zenon, <1>1, FrameOfLost

(* A turn that has begun unannounced is lost with its start: to the contract   *)
(* it is over.                                                                 *)
LEMMA TurnIsLost ==
  ASSUME Typed, Work, NEW d \in Drivers, pc[d] \in Upping, real[arg[d]] = "team",
         real' = [real EXCEPT ![arg[d]] = "lost"], view' = view, Mode' = Mode,
         NEW l \in {"failed", "cleanup"}, NEW x, About(d, l, x)
  PROVE  Work' /\ PromiseStep
<1> d \in Procs
  BY DEF Procs
<1>1. \A q \in Procs : /\ pc'[q] = IF q = d THEN l ELSE pc[q]
                       /\ arg'[q] = IF q = d THEN x ELSE arg[q]
  BY SMTT(30) DEF About, Typed, Placed
<1>2. arg[d] \in Threads /\ Busy = {arg[d]}
  <2>1. arg[d] \in Threads
    BY DEF Typed, Placed, Fits, Upping, AtTurn
  <2>2. Busy \subseteq {arg[d]}
    BY DEF Work, Rule
  <2> QED  BY <2>1, <2>2 DEF Busy
<1>3. \A t \in Threads : real'[t] \notin {"team", "user"}
  BY <1>2 DEF Busy, Typed, Data
<1>4. Busy' = {}
  BY <1>3 DEF Busy
<1>5. \A q \in Procs : Rule(pc'[q], arg'[q], Mode', Busy')
  <2>1. \A q \in Procs : Rule(pc[q], arg[q], Mode, {})
    BY DEF Work, Rule
  <2>2. Rule(l, x, Mode, {})
    BY DEF Rule, Upping, Between
  <2> QED  BY <1>1, <1>4, <2>1, <2>2
<1>6. TurnsOK'
  BY <1>3, <1>4 DEF TurnsOK
<1>7. Writer = "team" /\ ~Committing
  BY <1>2, WriterIs
<1>8. ~Committing'
  BY <1>1, <1>7 DEF Committing, Procs
<1>9. Writer' = "nobody"
  BY <1>4, <1>8 DEF Writer
<1> QED  BY Zenon, <1>5, <1>6, <1>7, <1>9 DEF Work, PromiseStep, Step, Contract!Finish

(* A drain that found nobody working, under the gate, found nobody at work.    *)
LEMMA CalmAtGate ==
  ASSUME Typed, Work, NEW p \in Procs, gate \in {p, Nobody}, pc[p] \notin AtWork,
         Working = {} \/ Mode = "over"
  PROVE  Calm(p)
<1>1. \A q \in Procs : pc[q] \notin AtWork
  BY TeamRunAssumption DEF Typed, Held, AtWork, Upping, GateHeld, Procs
<1>2. Busy = {}
  <2>1. \A t \in Threads : real[t] \notin {"team", "user"}
    BY <1>1 DEF Work, TurnsOK, Working, AtWork, Procs
  <2> QED  BY <2>1 DEF Busy, Typed, Data
<1> QED  BY <1>1, <1>2 DEF Calm, AtWork

(* So did the driver of a driven run between two turns.                        *)
LEMMA CalmBetween ==
  ASSUME RunInv, NEW d \in Drivers, pc[d] \in Between, Mode = "driven"
  PROVE  Calm(d)
<1>1. Busy = {}
  BY DEF RunInv, Work, Rule, Procs
<1>2. ticket = d
  BY DEF RunInv, Ticketed, OneDriver, Driving, Between
<1>3. \A q \in Drivers : q # d => pc[q] \notin AtWork
  BY <1>2 DEF RunInv, Ticketed, OneDriver, Driving, AtWork, Upping
<1>4. \A u \in Users : pc[u] \notin AtWork
  BY TeamRunAssumption
  DEF RunInv, Typed, Placed, Fits, UserPlaces, Stops, Marks, AtWork, Upping, Work, Rule, Procs
<1> QED  BY <1>1, <1>3, <1>4 DEF Calm, Between, Procs

(* And so did the driver of a driven run that saw its turn end.                *)
LEMMA CalmAfterTurn ==
  ASSUME RunInv, NEW d \in Drivers, pc[d] \in {"drain", "waiting", "parked"}, Mode = "driven",
         view[arg[d]] # "working"
  PROVE  Busy = {}
<1>1. Busy \subseteq {arg[d]}
  BY DEF RunInv, Work, Rule, Procs
<1>2. \A q \in Drivers : pc[q] \in Upping => FALSE
  BY DEF RunInv, Ticketed, OneDriver, Driving, Upping
<1>3. \A t \in Threads : real[t] # "team" \/ view[t] = "working"
  BY <1>2 DEF RunInv, Work, TurnsOK
<1>4. \A t \in Threads : real[t] # "user"
  BY SMTT(30) DEF RunInv, Work, TurnsOK
<1> QED  BY <1>1, <1>3, <1>4 DEF Busy, RunInv, Typed, Data

(* A driver's own steps, other than those that begin or end a turn or commit.  *)
LEMMA DriverWork ==
  ASSUME RunInv, Typed', NEW d \in Drivers,
         DriverStep(d) \/ DriverLost(d),
         pc[d] # "committing", pc[d] = "commit" => Off(run)
  PROVE  Work' /\ PromiseStep
<1> d \in Procs /\ Typed /\ Work /\ run \in Records
  BY DEF RunInv, Typed, Data, Procs
<1>r. Rule(pc[d], arg[d], Mode, Busy)
  BY DEF Work
<1>m. (Mode = "driven" <=> ~Off(run)) /\ Mode \in {"driven", "resting", "stuck", "over"}
  BY SMTT(30), ModeIs DEF Mode
<1>b. ASSUME pc[d] \in Between, ModeMove(d), Mode' = "driven" PROVE Busy = {}
  BY <1>r, <1>b DEF ModeMove, Calm, Rule
<1>t. d \notin Users /\ Fits(d, pc[d], arg[d])
  BY ZenonT(30), TeamRunAssumption DEF Typed, Placed
<1>u. ASSUME pc[d] \in Upping, GivenUp(arg[d])
      PROVE  \/ real' = real /\ (real[arg[d]] = "team" => view[arg[d]] = "working")
             \/ real[arg[d]] = "team" /\ real' = [real EXCEPT ![arg[d]] = "lost"]
  <2>1. real = [t \in Threads |-> real[t]]
    BY DEF Typed, Data
  <2>2. CASE real[arg[d]] = "team" /\ view[arg[d]] # "working"
    BY <1>u, <2>2 DEF GivenUp
  <2>3. CASE ~(real[arg[d]] = "team" /\ view[arg[d]] # "working")
    BY <1>u, <2>1, <2>3 DEF GivenUp
  <2> QED  BY <2>2, <2>3
<1>1. CASE Leaves(d)
  <2>1. Mode' = Mode
    BY SMTT(30), <1>1 DEF Leaves, Mode
  <2> QED  BY <1>1, <2>1, Frame DEF Leaves, Goto, ModeMove, Rule, Between, Upping, threadVars
<1>2. CASE PausesHere(d)
  <2>1. Mode' = Mode
    BY SMTT(30), <1>2 DEF PausesHere, Mode
  <2> QED  BY <1>2, <1>r, <2>1, Frame
           DEF PausesHere, Goto, ModeMove, Rule, Between, Upping, threadVars
<1>3. CASE GoesOn(d)
  <2>1. Mode' = Mode
    BY <1>3 DEF GoesOn, Mode
  <2> QED  BY <1>3, <1>r, <2>1, Frame
           DEF GoesOn, Goto, ModeMove, Rule, Between, Upping, threadVars
<1>4. CASE SettleCheck(d)
  <2>1. ModeMove(d)
    BY <1>4, <1>m, ModeIs, ModeWillBe, GuardedMoves DEF SettleCheck, ModeMove
  <2> QED  BY ZenonT(30), <1>4, <1>r, <2>1, ModeIs, ModeWillBe, GuardedMoves, Frame
           DEF SettleCheck, Goto, Rule, Between, Upping, threadVars
<1>5. CASE SettleWrite(d)
  <2>1. ModeMove(d)
    BY <1>5, <1>m, ModeIs, ModeWillBe, GuardedMoves, CalmBetween
    DEF SettleWrite, ModeMove, Between
  <2> QED  BY Zenon, <1>5, <2>1, ModeIs, ModeWillBe, GuardedMoves, Frame
           DEF SettleWrite, Goto, Rule, Upping, threadVars
<1>6. CASE Updates(d)
  <2>1. ModeMove(d)
    BY <1>6, <1>m, ModeIs, ModeWillBe, GuardedMoves, CalmBetween
    DEF Updates, ModeMove, Between, Statuses, Terminal, Driven
  <2> QED  BY Zenon, <1>6, <1>b, <2>1, Frame DEF Updates, Goto, Rule, Between, Upping, threadVars
<1>7. CASE Reports(d)
  <2>1. ModeMove(d)
    BY <1>7, <1>m, ModeIs, ModeWillBe, OtherMoves, CalmBetween
    DEF Reports, ModeMove, Between, Terminal
  <2>2. Mode' = "driven" => Busy = {}
    BY <1>7, <1>b, <2>1 DEF Reports, Between
  <2>3. PICK l \in {"boundary", "cleanup"} : \E x : About(d, l, x)
    BY <1>7 DEF Reports, Goto
  <2>4. /\ \A x : Rule(l, x, Mode', Busy)
        /\ UNCHANGED <<view, real>> /\ pc[d] = "failed"
    BY SMTT(30), <1>7, <2>2 DEF Reports, Rule, Between, Upping, threadVars
  <2> QED  BY ZenonT(30), <2>1, <2>3, <2>4, Frame DEF Upping
<1>8. CASE ReportsStuck(d)
  <2>1. ModeMove(d)
    BY <1>8, <1>m, ModeIs, ModeWillBe, GuardedMoves DEF ReportsStuck, ModeMove
  <2> QED  BY <1>8, <2>1, Frame DEF ReportsStuck, Goto, Rule, Between, Upping, threadVars
<1>9. CASE TurnCheck(d)
  <2>1. ModeMove(d)
    BY <1>9, <1>m, ModeIs, ModeWillBe, GuardedMoves, CalmBetween
    DEF TurnCheck, Refusal, ModeMove, Between
  <2> QED  BY ZenonT(30), <1>9, <1>r, <2>1, ModeIs, ModeWillBe, Frame
           DEF TurnCheck, Refusal, Goto, Rule, Between, Upping, threadVars
<1>10. CASE TurnGate(d)
  <2>1. CASE Refusal /\ Goto(d, "failed")
    <3>1. ModeMove(d)
      BY <1>10, <2>1, <1>m, ModeIs, ModeWillBe, GuardedMoves, CalmBetween
      DEF TurnGate, Refusal, ModeMove, Between
    <3> QED  BY <1>10, <1>b, <2>1, <3>1, Frame
             DEF TurnGate, Goto, Rule, Between, Upping, threadVars
  <2>2. CASE Goto(d, "failed") /\ UNCHANGED run
    <3>1. Mode' = Mode
      BY <2>2 DEF Mode
    <3> QED  BY <1>10, <1>r, <2>2, <3>1, Frame
             DEF TurnGate, Goto, ModeMove, Rule, Between, Upping, threadVars
  <2>3. CASE /\ ~Refused(arg[d]) /\ run' = [run EXCEPT !.inFlight = arg[d]]
             /\ Goto(d, "sending")
    <3>1. arg[d] \in Threads
      BY <1>10, <1>t DEF TurnGate, Fits, AtTurn
    <3>2. Mode' = Mode /\ Mode = "driven"
      BY <2>3, <3>1, <1>m DEF Mode, Refused
    <3> QED  BY <1>10, <1>r, <2>3, <3>2, Frame
             DEF TurnGate, Goto, ModeMove, Rule, Between, Upping, threadVars
  <2> QED  BY <1>10, <2>1, <2>2, <2>3 DEF TurnGate
<1>11. CASE Parks(d)
  <2>1. SetStatus(run, "AwaitingUser") \in Records /\ "AwaitingUser" \in Driven
    BY Zenon, GuardedMoves DEF Statuses, Driven
  <2>2. run'.status = SetStatus(run, "AwaitingUser").status
    BY <1>11, <2>1 DEF Parks
  <2>3. Mode' = Mode
    BY <1>m, <2>1, <2>2, ModeIs, ModeWillBe, GuardedMoves DEF Statuses
  <2> QED  BY <1>11, <1>r, <2>3, Frame
           DEF Parks, Goto, ModeMove, Rule, Between, Upping, threadVars
<1>12. CASE Unparks(d)
  <2>1. ModeMove(d)
    BY <1>12, <1>m, ModeIs, ModeWillBe, OtherMoves DEF Unparks, ModeMove, Driven
  <2> QED  BY ZenonT(30), <1>12, <1>r, <1>m, <2>1, ModeIs, ModeWillBe, OtherMoves, Frame
           DEF Unparks, Goto, Rule, Between, Upping, threadVars, Terminal
<1>13. CASE WaitFails(d)
  <2>1. ModeMove(d)
    BY <1>13, <1>m, ModeIs, ModeWillBe, OtherMoves DEF WaitFails, ModeMove, Driven
  <2> QED  BY ZenonT(30), <1>13, <1>r, <1>m, <2>1, ModeIs, ModeWillBe, OtherMoves, Frame
           DEF WaitFails, Goto, Rule, Between, Upping, threadVars, Terminal
<1>14. CASE TurnOver(d)
  <2>1. ModeMove(d)
    BY Zenon, <1>14, <1>m, ModeIs, ModeWillBe, OtherMoves DEF TurnOver, ModeMove
  <2> QED  BY ZenonT(30), <1>14, <1>r, <2>1, ModeIs, ModeWillBe, OtherMoves, Frame
           DEF TurnOver, Goto, Rule, Between, Upping, threadVars
<1>15. CASE CommitBegin(d)
  <2>1. Mode' = Mode
    BY <1>15 DEF CommitBegin, Mode
  <2> QED  BY Zenon, <1>15, <1>r, <2>1, Frame
           DEF CommitBegin, Goto, ModeMove, Rule, Between, Upping, threadVars
<1>16. CASE SendReturns(d)
  <2>1. Mode' = Mode
    BY SMTT(30), <1>16 DEF SendReturns, Mode
  <2>2. arg[d] \in Threads
    BY Zenon, <1>16, <1>t DEF SendReturns, Fits, AtTurn
  <2>3. \A t \in Threads : view[t] = "working" => view'[t] = "working"
    BY Zenon, <1>16, <2>2 DEF SendReturns, Typed, Data
  <2>4. CASE /\ real[arg[d]] = "team" /\ view' = [view EXCEPT ![arg[d]] = "working"]
             /\ Goto(d, "waiting")
    <3>1. view'[arg[d]] = "working"
      BY ZenonT(30), <2>2, <2>4 DEF Typed, Data
    <3> QED  BY ZenonT(30), <1>16, <1>r, <2>1, <2>3, <2>4, <3>1, Frame
             DEF SendReturns, Goto, ModeMove, Rule, Between, Upping
  <2>5. CASE Goto(d, "uncertain")
    BY ZenonT(30), <1>16, <1>r, <2>1, <2>3, <2>5, Frame
    DEF SendReturns, Goto, ModeMove, Rule, Between, Upping
  <2> QED  BY Zenon, <1>16, <2>4, <2>5 DEF SendReturns
<1>17. CASE WindowCloses(d)
  <2>1. Mode' = Mode
    BY <1>17, OtherMoves DEF WindowCloses, Mode
  <2>2. CASE view[arg[d]] = "working" /\ Goto(d, "drain")
    <3>1. UNCHANGED <<view, real>>
      BY <1>17, <2>2 DEF WindowCloses
    <3> QED  BY ZenonT(30), <1>17, <1>r, <2>1, <2>2, <3>1, Frame
             DEF WindowCloses, Goto, ModeMove, Rule, Between, Upping
  <2>3. CASE view[arg[d]] # "working" /\ GivenUp(arg[d]) /\ Goto(d, "failed")
    <3>0. pc[d] \in Upping /\ view' = view
      BY <1>17 DEF WindowCloses, Upping
    <3>1. CASE real' = real /\ real[arg[d]] # "team"
      <4>1. Busy = {}
        BY <1>r, <2>3, <3>0, <3>1 DEF Rule, Busy, Work, TurnsOK
      <4> QED  BY ZenonT(30), <1>17, <2>1, <2>3, <3>0, <3>1, <4>1, Frame
               DEF WindowCloses, Goto, ModeMove, Rule, Upping
    <3>2. CASE real[arg[d]] = "team" /\ real' = [real EXCEPT ![arg[d]] = "lost"]
      BY Zenon, <2>1, <2>3, <3>0, <3>2, TurnIsLost DEF Goto
    <3> QED  BY <1>u, <2>3, <3>0, <3>1, <3>2
  <2> QED  BY Zenon, <1>17, <2>2, <2>3 DEF WindowCloses
<1>18. CASE TurnDrained(d)
  <2>1. Mode' = Mode
    BY SMTT(30), <1>18, OtherMoves DEF TurnDrained, Mode
  <2>2. CASE view[arg[d]] # "working" /\ Goto(d, "failed")
    <3>1. Mode = "driven" => Busy = {}
      BY ZenonT(30), <1>18, <2>2, CalmAfterTurn DEF TurnDrained
    <3> QED  BY Zenon, <1>18, <2>1, <2>2, <3>1, Frame
             DEF TurnDrained, Goto, ModeMove, Rule, Upping, threadVars
  <2>3. CASE Goto(d, "stuck")
    BY ZenonT(30), <1>18, <2>1, <2>3, Frame
    DEF TurnDrained, Goto, ModeMove, Rule, Between, Upping, threadVars
  <2> QED  BY Zenon, <1>18, <2>2, <2>3 DEF TurnDrained
<1>19. CASE WaitEnds(d)
  <2>1. ModeMove(d)
    BY ZenonT(30), <1>19, <1>m, ModeIs, ModeWillBe, OtherMoves DEF WaitEnds, ModeMove, Driven
  <2> QED  BY ZenonT(30), <1>19, <2>1, ModeIs, ModeWillBe, OtherMoves, CalmAfterTurn, Frame
           DEF WaitEnds, Goto, Rule, Upping, threadVars, Driven, Busy
<1>20. CASE CleanupCheck(d)
  <2>1. Mode' = Mode
    BY <1>20 DEF CleanupCheck, Finish, Mode
  <2> QED  BY Zenon, <1>20, <2>1, Frame
           DEF CleanupCheck, Finish, Goto, ModeMove, Rule, Between, Upping, threadVars
<1>21. CASE CleanupGate(d)
  <2>1. Mode' = Mode
    BY <1>21 DEF CleanupGate, Mode
  <2> QED  BY Zenon, <1>21, <2>1, Frame
           DEF CleanupGate, Goto, ModeMove, Rule, Between, Upping, threadVars
<1>22. CASE CleanupEnds(d)
  <2>1. ModeMove(d)
    BY ZenonT(30), <1>22, <1>m, ModeIs, ModeWillBe, GuardedMoves, OtherMoves, CalmAtGate
    DEF CleanupEnds, Drained, ModeMove, Terminal, Typed, Held, GateHeld, AtWork, Upping
  <2> QED  BY ZenonT(30), <1>22, <2>1, Frame
           DEF CleanupEnds, Finish, Rule, Between, Upping, threadVars
<1>23. CASE DriverLost(d)
  <2>1. Mode' = Mode
    BY <1>23 DEF DriverLost, Mode
  <2>2. Goto(d, "cleanup") /\ view' = view
    BY <1>23 DEF DriverLost
  <2>3. CASE real' = real /\ (pc[d] \in Upping /\ real[arg[d]] = "team" => view[arg[d]] = "working")
    BY Zenon, <2>1, <2>2, <2>3, Frame DEF Goto, ModeMove, Rule, Between, Upping
  <2>4. CASE /\ pc[d] \in Upping /\ real[arg[d]] = "team"
             /\ real' = [real EXCEPT ![arg[d]] = "lost"]
    BY Zenon, <2>1, <2>2, <2>4, TurnIsLost DEF Goto
  <2> QED  BY <1>23, <1>u, <2>3, <2>4 DEF DriverLost, Upping
<1> QED  BY <1>1, <1>2, <1>3, <1>4, <1>5, <1>6, <1>7, <1>8, <1>9, <1>10, <1>11, <1>12, <1>13,
            <1>14, <1>15, <1>16, <1>17, <1>18, <1>19, <1>20, <1>21, <1>22, <1>23
         DEF DriverStep, CommitEnd

(* Handing a resting run to a fresh driver, with nobody at work.               *)
LEMMA SpawnWork ==
  ASSUME RunInv, NEW u \in Users, Spawn(u), Calm(u), UNCHANGED <<view, real>>,
         Mode = "resting", Mode' = "driven"
  PROVE  Work' /\ PromiseStep
<1> DEFINE d == CHOOSE e \in Drivers : pc[e] = "off"
<1>1. /\ d \in Drivers /\ pc' = [pc EXCEPT ![u] = "off", ![d] = "boundary"]
      /\ arg' = [arg EXCEPT ![u] = NoThread]
  BY DEF Spawn
<1> HIDE DEF d
<1>2. \A q \in Procs : /\ pc'[q] = IF q = d THEN "boundary" ELSE IF q = u THEN "off" ELSE pc[q]
                       /\ arg'[q] = IF q = u THEN NoThread ELSE arg[q]
  BY <1>1 DEF RunInv, Typed, Placed, Procs
<1>3. Busy' = {} /\ Busy = {}
  BY DEF Busy, Calm
<1>4. \A q \in Procs : pc'[q] \notin AtWork
  BY <1>2 DEF Calm, AtWork, Upping
<1>5. ~Committing /\ ~Committing'
  BY <1>4 DEF Calm, Committing, AtWork, Procs
<1>6. Writer = "nobody" /\ Writer' = "nobody"
  BY <1>3, <1>5 DEF Writer
<1>7. \A q \in Procs : Rule(pc'[q], arg'[q], Mode', Busy')
  BY <1>3, <1>4 DEF Rule, AtWork
<1>8. TurnsOK'
  BY <1>3 DEF TurnsOK, Busy
<1> QED  BY Zenon, <1>6, <1>7, <1>8 DEF Work, PromiseStep, Step, Contract!HandOver

(* A message to the team lead of a run that rests, or has got stuck meanwhile, *)
(* comes to its end: a turn of the user begins, or one is lost, or none.       *)
LEMMA UserTurnBegins ==
  ASSUME RunInv, Typed', NEW u \in Users, pc[u] = "send", Finish(u), Mode' = Mode,
         UserTurn \/ LostTurn \/ UNCHANGED <<view, real>>
  PROVE  Work' /\ PromiseStep
<1> u \in Procs /\ Typed /\ Work /\ "tl" \in Threads
  BY DEF RunInv, Procs, Threads
<1>1. gate = u
  BY DEF Typed, Held, GateHeld
<1>2. Busy = {} /\ Mode \in {"resting", "stuck"}
  BY SMTT(30) DEF Work, Rule
<1>3. CASE LostTurn \/ UNCHANGED <<view, real>>
  <2>1. SameTurns /\ view' = view
    BY <1>3 DEF LostTurn, SameTurns, Typed, Data
  <2> QED  BY Zenon, <2>1, FrameOfLost DEF Finish, ModeMove, Rule, Between, Upping
<1>4. CASE UserTurn
  <2>1. \A t \in Threads : /\ real'[t] \in {"team", "user"} <=> t = "tl"
                           /\ real'["tl"] = "user"
    BY <1>2, <1>4 DEF UserTurn, Busy, Typed, Data
  <2>2. Busy' = {"tl"} /\ view'["tl"] = "working"
    BY <1>4, <2>1 DEF UserTurn, Busy, Typed, Data
  <2>3. \A q \in Procs : /\ pc'[q] = IF q = u THEN "off" ELSE pc[q]
                         /\ q # u => arg'[q] = arg[q]
    BY SMTT(30) DEF Finish, About, Typed, Placed
  <2>4. \A q \in Procs : pc'[q] \notin {"send", "reopening", "committing"} \cup Upping
    BY SMTT(30), <1>1, <2>3 DEF Typed, Held, GateHeld, Upping
  <2>5. \A q \in Procs : Rule(pc'[q], arg'[q], Mode', Busy')
    BY <1>2, <2>4 DEF Rule
  <2>6. TurnsOK'
    BY <1>2, <2>1, <2>2 DEF TurnsOK
  <2>7. ~Committing /\ ~Committing'
    BY Zenon, <2>3, <2>4 DEF Committing, Procs
  <2>8. Writer = "nobody" /\ Writer' = "user"
    BY SMTT(30), <1>2, <2>1, <2>2, <2>7 DEF Writer
  <2> QED  BY Zenon, <1>2, <2>5, <2>6, <2>8 DEF Work, PromiseStep, Step, Contract!Write
<1> QED  BY <1>3, <1>4

(* A handler's steps.                                                          *)
LEMMA UserWork ==
  ASSUME RunInv, Typed', NEW u \in Users,
         \/ UserStep(u) \/ Request(u) \/ RequestMark(u)
         \/ RequestResolve(u) \/ RequestSend(u) \/ HangUp(u)
  PROVE  Work' /\ PromiseStep
<1> u \in Procs /\ Typed /\ Work /\ run \in Records
  BY SMTT(30) DEF RunInv, Typed, Data, Procs
<1>r. Rule(pc[u], arg[u], Mode, Busy)
  BY DEF Work
<1>m. (Mode = "driven" <=> ~Off(run)) /\ Mode \in {"driven", "resting", "stuck", "over"}
  BY ModeIs DEF Mode
<1>t. Fits(u, pc[u], arg[u]) /\ pc[u] \notin Upping \cup {"committing"}
  BY ZenonT(30), TeamRunAssumption DEF Typed, Placed, Fits, UserPlaces, Stops, Marks, Upping
<1>g. pc[u] \in GateHeld => gate = u
  BY ZenonT(30) DEF Typed, Held
<1>e. ASSUME ModeMove(u), Finish(u), UNCHANGED <<view, real>> PROVE Work' /\ PromiseStep
  BY Zenon, <1>t, <1>e, Frame DEF Finish, Rule, Between, Upping
<1>k. ASSUME Mode' = Mode PROVE ModeMove(u)
  BY <1>k DEF ModeMove
<1>1. CASE PauseNow(u)
  <2>1. Mode' = Mode
    BY SMTT(30), <1>1, <1>m, ModeIs, ModeWillBe, GuardedMoves DEF PauseNow, Driven
  <2> QED  BY SMTT(30), <1>1, <1>e, <1>k, <2>1 DEF PauseNow, threadVars
<1>2. CASE StopBegins(u)
  <2>1. Mode' = Mode
    <3>1. run'.status = run.status \/ (run'.status = "PausePending" /\ ~Off(run))
      <4>1. run' \in {run, RequestStop(run)}
        BY <1>2 DEF StopBegins
      <4>2. RequestStop(run).status = IF Off(run) THEN run.status ELSE "PausePending"
        BY OtherMoves
      <4> QED  BY <4>1, <4>2
    <3>2. CASE run'.status = run.status
      BY <3>2 DEF Mode, Off
    <3>3. CASE run'.status = "PausePending" /\ ~Off(run)
      BY <3>3, ModeIs, ModeWillBe DEF Driven
    <3> QED  BY SMTT(30), <3>1, <3>2, <3>3
  <2>2. CASE Finish(u)
    BY Zenon, <1>2, <1>e, <1>k, <2>1, <2>2 DEF StopBegins, threadVars
  <2>3. CASE \E l \in {"redrain", "stopping"} : Goto(u, l)
    BY Zenon, <1>2, <1>t, <1>k, <2>1, <2>3, Frame
    DEF StopBegins, Goto, Rule, Between, Upping, threadVars
  <2> QED  BY <1>2, <2>2, <2>3 DEF StopBegins
<1>3. CASE StopEnds(u)
  <2>1. CASE Drained
    <3>1. Calm(u)
      BY <1>3, <1>g, <2>1, CalmAtGate DEF StopEnds, Drained, GateHeld, AtWork, Upping
    <3>2. /\ arg[u] \in {"Paused", "Cancelled", "Done"} /\ {"Cancelled", "Done"} \subseteq Terminal
          /\ Terminal \subseteq Statuses
      BY <1>3, <1>t DEF StopEnds, Fits, Stops, Terminal, Statuses
    <3>3. /\ run' \in {SettlePaused(run), Cancel(run)} \/ (run' = ForceMark(run, "Done"))
      BY <1>3, <2>1, <3>2 DEF StopEnds, SettleAs
    <3>4. Mode' = Mode \/ Mode' = "over" \/ (Mode = "driven" /\ Mode' = "resting")
      BY <1>m, <3>2, <3>3, ModeIs, ModeWillBe, GuardedMoves, OtherMoves
    <3>5. ModeMove(u)
      BY <1>m, <3>1, <3>4 DEF ModeMove
    <3> QED  BY Zenon, <1>3, <1>e, <3>5 DEF StopEnds, threadVars
  <2>2. CASE ~Drained
    <3>1. ModeMove(u)
      BY Zenon, <1>3, <1>m, <2>2, ModeIs, ModeWillBe, GuardedMoves DEF StopEnds, ModeMove
    <3> QED  BY Zenon, <1>3, <1>e, <3>1 DEF StopEnds, threadVars
  <2> QED  BY <2>1, <2>2
<1>4. CASE RedrainEnds(u)
  <2>1. ModeMove(u)
    BY <1>4, <1>m, ModeIs, ModeWillBe, GuardedMoves DEF RedrainEnds, ModeMove
  <2> QED  BY SMTT(30), <1>4, <1>e, <2>1 DEF RedrainEnds, threadVars
<1>5. CASE MarkQuiet(u)
  <2>1. arg[u] \in Terminal /\ Terminal \subseteq Statuses
    BY ZenonT(30), <1>5, <1>t DEF MarkQuiet, Fits, Marks, Terminal, Statuses
  <2>2. Working = {} => Calm(u)
    BY ZenonT(30), <1>5, CalmAtGate DEF MarkQuiet, AtWork, Upping
  <2>3. ModeMove(u)
    BY Zenon, <1>5, <1>m, <2>1, <2>2, ModeIs, ModeWillBe, GuardedMoves DEF MarkQuiet, ModeMove
  <2> QED  BY ZenonT(30), <1>5, <1>e, <2>3 DEF MarkQuiet, threadVars
<1>6. CASE MarkBlockedBegins(u)
  <2>1. Mode' = Mode
    BY <1>6 DEF MarkBlockedBegins, Mode
  <2>2. CASE Finish(u)
    BY <1>6, <1>e, <1>k, <2>1, <2>2 DEF MarkBlockedBegins, threadVars
  <2>3. CASE Goto(u, "marking")
    BY ZenonT(30), <1>6, <1>t, <1>k, <2>1, <2>3, Frame
    DEF MarkBlockedBegins, Goto, Rule, Between, Upping, threadVars
  <2> QED  BY <1>6, <2>2, <2>3 DEF MarkBlockedBegins
<1>7. CASE MarkBlockedEnds(u)
  <2>1. arg[u] \in Terminal /\ Terminal \subseteq Statuses
    BY ZenonT(30), <1>7, <1>t DEF MarkBlockedEnds, Fits, Marks, Terminal, Statuses
  <2>2. Drained => Calm(u)
    BY ZenonT(30), <1>7, <1>g, CalmAtGate DEF MarkBlockedEnds, Drained, GateHeld, AtWork, Upping
  <2>3. ModeMove(u)
    BY Zenon, <1>7, <1>m, <2>1, <2>2, ModeIs, ModeWillBe, GuardedMoves
    DEF MarkBlockedEnds, ModeMove
  <2> QED  BY ZenonT(30), <1>7, <1>e, <2>3 DEF MarkBlockedEnds, threadVars
<1>8. CASE ResumeClaims(u)
  <2>1. ModeMove(u)
    BY <1>8, <1>m, ModeIs, ModeWillBe, GuardedMoves DEF ResumeClaims, ModeMove
  <2>2. CASE Finish(u)
    BY <1>8, <1>e, <2>1, <2>2 DEF ResumeClaims, threadVars
  <2>3. CASE Goto(u, "resuming")
    BY Zenon, <1>8, <1>t, <2>1, <2>3, Frame
    DEF ResumeClaims, Goto, Rule, Between, Upping, threadVars
  <2> QED  BY SMTT(30), <1>8, <2>2, <2>3 DEF ResumeClaims
<1>9. CASE ResumeFlips(u)
  <2>1. CASE run' = run /\ Finish(u)
    <3>1. Mode' = Mode
      BY <2>1 DEF Mode
    <3> QED  BY <1>9, <1>e, <1>k, <2>1, <3>1 DEF ResumeFlips, threadVars
  <2>2. CASE run' # run /\ Spawn(u)
    <3>1. Calm(u)
      BY SMTT(30), <1>9, <2>2, CalmAtGate DEF ResumeFlips, AtWork, Upping
    <3>2. Mode = "resting" /\ Mode' = "driven"
      BY <1>9, <2>2, ModeIs, ModeWillBe, OtherMoves DEF ResumeFlips, Driven
    <3> QED  BY <1>9, <2>2, <3>1, <3>2, SpawnWork DEF ResumeFlips, threadVars
  <2> QED  BY <1>9, <2>1, <2>2 DEF ResumeFlips
<1>10. CASE ReopenFlips(u)
  <2>1. CASE Finish(u) /\ UNCHANGED run
    <3>1. Mode' = Mode
      BY <2>1 DEF Mode
    <3> QED  BY <1>10, <1>e, <1>k, <2>1, <3>1 DEF ReopenFlips, threadVars
  <2>2. CASE run.status \in Reopenable /\ ~(Finish(u) /\ UNCHANGED run)
    <3>1. run' = [run EXCEPT !.status = "Paused"] /\ About(u, "reopening", run)
      BY <1>10, <2>2 DEF ReopenFlips
    <3>2. Mode = "over" /\ Mode' = "resting"
      BY <2>2, <3>1, ModeIs, ModeWillBe, FieldMoves DEF Reopenable, Statuses, SettledWithoutDriver
    <3>3. Calm(u)
      BY <1>10, <3>2, CalmAtGate DEF ReopenFlips, AtWork, Upping
    <3>4. ModeMove(u)
      BY SMTT(30), <3>2, <3>3 DEF ModeMove
    <3> QED  BY <1>10, <1>t, <3>1, <3>2, <3>3, <3>4, Frame
             DEF ReopenFlips, Calm, Rule, Between, Upping, threadVars
  <2> QED  BY <1>10, <2>1, <2>2 DEF ReopenFlips
<1>11. CASE ReopenEnds(u)
  <2>1. Calm(u)
    <3>1. gate = u
      BY Zenon, <1>11, <1>g DEF ReopenEnds, GateHeld
    <3>2. \A q \in Procs : q # u => pc[q] \notin AtWork
      BY ZenonT(30), <3>1 DEF Typed, Held, GateHeld, AtWork, Upping
    <3> QED  BY ZenonT(30), <1>11, <1>r, <3>2 DEF ReopenEnds, Calm, Rule
  <2>2. CASE run' = Resume(run) /\ Spawn(u) /\ run.status = "Paused"
    <3>1. Mode = "resting" /\ Mode' = "driven"
      BY <2>2, ModeIs, ModeWillBe, OtherMoves DEF Driven
    <3> QED  BY ZenonT(30), <1>11, <2>1, <2>2, <3>1, SpawnWork DEF ReopenEnds, threadVars
  <2>3. CASE run' = (IF run.status = "Paused" THEN arg[u] ELSE run) /\ Finish(u)
    <3>1. arg[u].status \in Terminal
      BY Zenon, <1>11, <1>t DEF ReopenEnds, Fits
    <3>2. ModeMove(u)
      BY ZenonT(30), <1>m, <2>1, <2>3, <3>1, ModeIs, ModeWillBe DEF ModeMove
    <3> QED  BY ZenonT(30), <1>11, <1>e, <2>3, <3>2 DEF ReopenEnds, threadVars
  <2> QED  BY ZenonT(30), <1>11, <2>2, <2>3 DEF ReopenEnds
<1>12. CASE ResolveGate(u)
  <2>1. Mode' = Mode
    BY <1>12 DEF ResolveGate, Mode
  <2> QED  BY Zenon, <1>12, <1>t, <1>k, <2>1, Frame
           DEF ResolveGate, Goto, Rule, Between, Upping, threadVars
<1>13. CASE ResolveEnds(u)
  <2>1. Drained => Calm(u)
    BY ZenonT(30), <1>13, <1>g, CalmAtGate DEF ResolveEnds, Drained, GateHeld, AtWork, Upping
  <2>2. ModeMove(u)
    BY <1>13, <1>m, <2>1, ModeIs, ModeWillBe, GuardedMoves, OtherMoves DEF ResolveEnds, ModeMove
  <2> QED  BY <1>13, <1>e, <2>2 DEF ResolveEnds, threadVars
<1>14. CASE Request(u) \/ RequestMark(u)
  <2>1. Mode' = Mode
    BY <1>14 DEF Request, RequestMark, Mode
  <2>2. \E l \in {"pause", "stop", "resume", "reopen", "mark_blocked", "mark_quiet"} :
          \E x : About(u, l, x)
    <3>1. CASE Request(u)
      BY <3>1 DEF Request, Asked
    <3>2. CASE RequestMark(u)
      BY Zenon, <3>2 DEF RequestMark, Asked
    <3> QED  BY SMTT(30), <1>14, <3>1, <3>2
  <2>3. UNCHANGED <<view, real>>
    BY <1>14 DEF Request, RequestMark, threadVars
  <2> QED  BY Zenon, <1>t, <1>k, <2>1, <2>2, <2>3, Frame DEF Rule, Between, Upping
<1>15. CASE RequestResolve(u)
  <2>1. Mode' = Mode
    BY <1>15, ModeIs, ModeWillBe, FieldMoves DEF RequestResolve, Statuses, SettledWithoutDriver
  <2> QED  BY <1>15, <1>t, <1>k, <2>1, Frame
           DEF RequestResolve, Asked, Rule, Between, Upping, threadVars
<1>16. CASE RequestSend(u)
  <2>1. Mode' = Mode /\ Mode = "resting"
    BY <1>16, ModeIs DEF RequestSend, Mode
  <2>2. Busy = {}
    <3>1. \A t \in Threads : real[t] \notin {"team", "user"}
      BY Zenon, <1>16, <2>1 DEF RequestSend, Work, TurnsOK
    <3> QED  BY SMTT(30), <3>1 DEF Busy, Typed, Data
  <2> QED  BY Zenon, <1>16, <1>t, <1>k, <2>1, <2>2, Frame
           DEF RequestSend, Asked, Rule, Between, Upping, threadVars
<1>17. CASE HangUp(u)
  <2>1. Mode' = Mode
    BY <1>17 DEF HangUp, Mode
  <2> QED  BY <1>17, <1>e, <1>k, <2>1, UserTurnBegins DEF HangUp
<1>18. CASE SendEnds(u)
  <2>1. Mode' = Mode
    BY <1>18 DEF SendEnds, Mode
  <2> QED  BY <1>18, <2>1, UserTurnBegins DEF SendEnds
<1> QED
  BY SMTT(30), <1>1, <1>2, <1>3, <1>4, <1>5, <1>6, <1>7, <1>8, <1>9, <1>10, <1>11, <1>12,
     <1>13, <1>14, <1>15, <1>16, <1>17, <1>18
  DEF UserStep

(* A commit begins under the gate and ends with it, or with its driver.        *)
LEMMA CommitWork ==
  ASSUME RunInv, Typed', NEW d \in Drivers,
         \/ CommitBegin(d) /\ ~Off(run)
         \/ CommitEnd(d)
         \/ DriverLost(d) /\ pc[d] = "committing"
  PROVE  Work' /\ PromiseStep
<1> d \in Procs /\ Typed /\ Work /\ run \in Records
  BY DEF RunInv, Typed, Data, Procs
<1>1. Mode' = Mode /\ Busy' = Busy /\ view' = view /\ real' = real
  BY SMTT(30) DEF CommitBegin, CommitEnd, DriverLost, Mode, Busy, threadVars
<1>2. Busy = {} /\ Mode \in {"driven", "stuck"}
  BY ZenonT(30), ModeIs DEF Work, Rule, Between, CommitBegin, CommitEnd
<1>3. \A q \in Procs : q # d => pc[q] # "committing"
  <2>1. gate = d \/ gate = Nobody
    BY ZenonT(30) DEF CommitBegin, CommitEnd, Typed, Held, GateHeld
  <2> QED  BY Zenon, <2>1, TeamRunAssumption DEF Typed, Held, GateHeld, Procs
<1>4. TurnsOK'
  BY Zenon, <1>1, <1>2 DEF TurnsOK, Busy
<1>5. CASE CommitBegin(d) /\ ~Off(run)
  <2>1. \A q \in Procs : /\ pc'[q] = IF q = d THEN "committing" ELSE pc[q]
                         /\ q # d => arg'[q] = arg[q]
    BY <1>5 DEF CommitBegin, Goto, About, Typed, Placed
  <2>2. Work'
    BY ZenonT(30), <1>1, <1>2, <1>4, <2>1 DEF Work, Rule, Upping, Between
  <2>3. ~Committing /\ Committing'
    BY Zenon, <1>3, <1>5, <2>1 DEF Committing, CommitBegin, Procs
  <2>4. Writer = "nobody" /\ Writer' = "team"
    BY <1>1, <1>2, <2>3 DEF Writer
  <2> QED  BY SMTT(30), <1>1, <1>2, <2>2, <2>4 DEF PromiseStep, Step, Contract!Write
<1>6. CASE pc[d] = "committing" /\ \E l \in {"boundary", "failed", "cleanup"} : Goto(d, l)
  <2>0. PICK l \in {"boundary", "failed", "cleanup"} : Goto(d, l)
    BY SMTT(30), <1>6
  <2>1. \A q \in Procs : /\ pc'[q] = IF q = d THEN l ELSE pc[q]
                         /\ q # d => arg'[q] = arg[q]
    BY SMTT(30), <2>0 DEF Goto, About, Typed, Placed
  <2>2. Work'
    BY ZenonT(30), <1>1, <1>2, <1>4, <2>1 DEF Work, Rule, Upping, Between
  <2>3. Committing /\ ~Committing'
    BY Zenon, <1>3, <1>6, <2>1 DEF Committing, Procs
  <2>4. Writer = "team" /\ Writer' = "nobody"
    BY <1>1, <1>2, <2>3 DEF Writer
  <2> QED  BY <1>1, <2>2, <2>4 DEF PromiseStep, Step, Contract!Finish
<1> QED  BY Zenon, <1>5, <1>6 DEF CommitEnd, DriverLost

(* A turn begins: the driver's, which holds the gate while it is on its way up. *)
LEMMA TeamTurnBegins ==
  ASSUME RunInv, NEW d \in Drivers, ProviderBegins(d)
  PROVE  Work' /\ PromiseStep
<1> d \in Procs /\ Typed /\ Work
  BY DEF RunInv, Procs
<1>1. /\ pc[d] = "sending" /\ arg[d] \in Threads /\ gate = d
      /\ real' = [real EXCEPT ![arg[d]] = "team"] /\ real[arg[d]] = "nobody"
      /\ UNCHANGED <<view, pc, arg>> /\ Mode' = Mode
  BY SMTT(30), TeamRunAssumption
  DEF ProviderBegins, Typed, Held, Placed, Fits, GateHeld, AtTurn, Mode
<1>2. Busy = {} /\ Mode \in {"driven", "stuck"}
  BY <1>1 DEF Work, Rule, Upping, Busy
<1>3. \A t \in Threads : /\ real'[t] \in {"team", "user"} <=> t = arg[d]
                         /\ real'[arg[d]] = "team"
  BY <1>1, <1>2 DEF Busy, Typed, Data
<1>4. Busy' = {arg[d]}
  BY <1>1, <1>3 DEF Busy
<1>5. \A q \in Procs : q # d => pc[q] \notin {"send", "reopening", "committing"} \cup Upping
  BY <1>1 DEF Typed, Held, GateHeld, Upping
<1>6. Mode = "driven" => \A q \in Procs : q # d =>
        pc[q] \notin Between \cup {"drain", "waiting", "parked"}
  <2>1. ticket = d
    BY <1>1 DEF RunInv, Ticketed, OneDriver, Driving
  <2>2. \A q \in Drivers : q # d => pc[q] \in Resting
    BY SMTT(30), <2>1 DEF RunInv, Ticketed, OneDriver, Driving, Resting
  <2>3. \A q \in Users : pc[q] \in UserPlaces
    BY SMTT(30), TeamRunAssumption DEF Typed, Placed, Fits, Procs
  <2> QED  BY <2>2, <2>3 DEF Procs, Resting, UserPlaces, Stops, Marks, Between
<1>7. \A q \in Procs : Rule(pc'[q], arg'[q], Mode', Busy')
  <2>1. Rule(pc[d], arg[d], Mode, {arg[d]})
    BY SMTT(30), <1>1, <1>2 DEF Rule, Upping, Between
  <2>2. \A q \in Procs : q # d => Rule(pc[q], arg[q], Mode, {arg[d]})
    BY SMTT(30), <1>5, <1>6 DEF Rule
  <2> QED  BY SMTT(30), <1>1, <1>4, <2>1, <2>2
<1>8. TurnsOK'
  BY SMTT(30), <1>1, <1>2, <1>3, <1>4 DEF TurnsOK, Upping
<1>9. ~Committing /\ ~Committing'
  BY <1>1, <1>5 DEF Committing, Procs
<1>10. Writer = "nobody" /\ Writer' = "team"
  <2>1. Work'
    BY <1>7, <1>8 DEF Work
  <2>2. Writer' = real'[arg[d]]
    BY <1>4, <1>9 DEF Writer
  <2> QED  BY SMTT(30), <1>1, <1>2, <1>3, <1>9, <2>2 DEF Writer
<1> QED  BY Zenon, <1>1, <1>2, <1>7, <1>8, <1>10 DEF Work, PromiseStep, Step, Contract!Write

(* A turn ends: the only one, or one that was lost.                            *)
LEMMA TurnIsOver ==
  ASSUME RunInv, NEW t \in Threads, TurnEnds(t)
  PROVE  Work' /\ PromiseStep
<1> Typed /\ Work
  BY DEF RunInv
<1>0. /\ Mode' = Mode /\ UNCHANGED <<pc, arg>>
      /\ \A r \in Threads : real'[r] = IF r = t THEN "nobody" ELSE real[r]
      /\ \A r \in Threads : r # t => view'[r] = view[r]
  BY SMTT(30) DEF TurnEnds, Mode, Typed, Data
<1>1. CASE t \in Busy
  <2>1. Busy = {t}
    BY <1>1 DEF Work, TurnsOK
  <2>2. \A r \in Threads : real'[r] \notin {"team", "user"}
    BY <1>0, <2>1 DEF Busy
  <2>3. Busy' = {}
    BY <2>2 DEF Busy
  <2>4. \A q \in Procs : Rule(pc'[q], arg'[q], Mode', Busy')
    BY <1>0, <2>3 DEF Work, Rule
  <2>5. TurnsOK'
    BY <2>2, <2>3 DEF TurnsOK
  <2>6. ~Committing /\ ~Committing' /\ Writer = real[t]
    BY <1>0, <1>1, WriterIs DEF Committing
  <2>7. Writer # "nobody" /\ Writer' = "nobody"
    BY <2>3, <2>6 DEF Writer, TurnEnds
  <2> QED  BY <1>0, <2>4, <2>5, <2>7 DEF Work, PromiseStep, Step, Contract!Finish
<1>2. CASE t \notin Busy
  <2>1. Busy' = Busy /\ \A r \in Busy : real'[r] = real[r] /\ r # t
    BY <1>0, <1>2 DEF Busy
  <2>2. Committing' = Committing
    BY <1>0 DEF Committing
  <2>3. Writer' = Writer
    <3>1. CASE Busy = {}
      BY <2>1, <2>2, <3>1 DEF Writer
    <3>2. CASE Busy # {}
      <4>1. (CHOOSE r \in Busy : TRUE) \in Busy
        BY <3>2
      <4> QED  BY <2>1, <2>2, <3>2, <4>1 DEF Writer
    <3> QED  BY <3>1, <3>2
  <2>4. \A r \in Threads : \A w \in {"team", "user"} :
          real'[r] = w => real[r] = w /\ view'[r] = view[r]
    BY <1>0
  <2>5. TurnsOK'
    BY <1>0, <2>1, <2>4 DEF Work, TurnsOK
  <2> QED  BY <1>0, <2>1, <2>3, <2>5 DEF Work, PromiseStep
<1> QED  BY <1>1, <1>2

(* Nothing survives a restart, and what was driven or stuck is not any more.   *)
LEMMA RestartWork ==
  ASSUME RunInv, Typed', Restarts
  PROVE  Work' /\ PromiseStep
<1> run \in Records
  BY DEF RunInv, Typed, Data
<1>1. \A p \in Procs : pc'[p] = "off"
  BY DEF Restarts
<1>2. Busy' = {} /\ ~Committing'
  BY SMTT(30), <1>1 DEF Restarts, Busy, Committing, Procs
<1>3. Work'
  BY <1>1, <1>2 DEF Work, TurnsOK, Rule, Between, Upping, Busy
<1>4. Writer' = "nobody"
  BY <1>2 DEF Writer
<1>5. Mode \in {"driven", "resting", "stuck", "over"}
  BY DEF Mode
<1>6. \/ Mode \in {"driven", "stuck"} /\ Mode' \in {"resting", "over"}
      \/ Mode = "resting" /\ Mode' = "resting"
      \/ Mode = "over" /\ Mode' = "over"
  BY SMTT(30), <1>5, ModeIs, ModeWillBe, RestoredMoves DEF Restarts, Driven, Terminal
<1> QED  BY <1>3, <1>4, <1>6 DEF PromiseStep, Step, Contract!Restart

(* Every step of a run keeps the account and is a step of the contract.        *)
LEMMA WorkStep ==
  ASSUME RunInv, Typed', [Next]_vars
  PROVE  Work' /\ PromiseStep
<1> Typed /\ Work /\ run \in Records
  BY DEF RunInv, Typed, Data
<1>1. ASSUME NEW d \in Drivers, DriverStep(d) \/ DriverLost(d) PROVE Work' /\ PromiseStep
  <2>1. CASE pc[d] # "committing" /\ (pc[d] = "commit" => Off(run))
    BY SMTT(30), <1>1, <2>1, DriverWork
  <2>2. CASE pc[d] = "committing"
    BY <1>1, <2>2, CommitWork
    DEF DriverStep, Leaves, PausesHere, GoesOn, SettleCheck, SettleWrite, Updates, Reports,
        ReportsStuck, CommitBegin, TurnCheck, TurnGate, SendReturns, WindowCloses, TurnDrained,
        Parks, Unparks, WaitFails, WaitEnds, TurnOver, CleanupCheck, CleanupGate, CleanupEnds
  <2>3. CASE pc[d] = "commit" /\ ~Off(run) /\ CommitBegin(d)
    BY <2>3, CommitWork
  <2>4. CASE pc[d] = "commit" /\ DriverLost(d)
    <3>1. Mode' = Mode
      BY SMTT(30), <2>4 DEF DriverLost, Mode
    <3> QED  BY Zenon, <2>4, <3>1, Frame
             DEF DriverLost, Goto, ModeMove, Rule, Between, Upping, threadVars, Procs
  <2>5. DriverStep(d) /\ pc[d] = "commit" => CommitBegin(d)
    BY DEF DriverStep, Leaves, PausesHere, GoesOn, SettleCheck, SettleWrite, Updates, Reports,
           ReportsStuck, CommitEnd, TurnCheck, TurnGate, SendReturns, WindowCloses, TurnDrained,
           Parks, Unparks, WaitFails, WaitEnds, TurnOver, CleanupCheck, CleanupGate, CleanupEnds
  <2> QED  BY <1>1, <2>1, <2>2, <2>3, <2>4, <2>5
<1>2. ASSUME NEW u \in Users,
             \/ UserStep(u) \/ Request(u) \/ RequestMark(u)
             \/ RequestResolve(u) \/ RequestSend(u) \/ HangUp(u)
      PROVE  Work' /\ PromiseStep
  BY SMTT(30), <1>2, UserWork
<1>3. CASE UNCHANGED <<view, real, pc, arg>> /\ Mode' = Mode
  <2>1. Busy' = Busy /\ Writer' = Writer
    BY <1>3 DEF Busy, Writer, Committing
  <2> QED  BY <1>3, <2>1 DEF Work, TurnsOK, PromiseStep
<1>4. CASE AbandonStop \/ AbandonResolve
  <2>1. Mode' = Mode
    <3>1. CASE AbandonStop
      BY <3>1, FieldMoves DEF AbandonStop, Mode
    <3>2. CASE AbandonResolve
      <4>1. run'.status = IF run.status = "Resolving" THEN "Blocked" ELSE run.status
        BY <3>2, OtherMoves DEF AbandonResolve
      <4> QED  BY SMTT(30), <4>1, ModeIs, ModeWillBe DEF Mode
    <3> QED  BY <1>4, <3>1, <3>2
  <2> QED  BY <1>3, <1>4, <2>1 DEF AbandonStop, AbandonResolve, threadVars
<1>5. ASSUME NEW t \in Threads, Asks(t) \/ Answers(t) PROVE Work' /\ PromiseStep
  BY SMTT(30), <1>3, <1>5 DEF Asks, Answers, Mode
<1>6. ASSUME NEW t \in Threads, Announces(t) PROVE Work' /\ PromiseStep
  <2>1. Busy' = Busy /\ Writer' = Writer /\ Mode' = Mode /\ UNCHANGED <<real, pc, arg>>
    BY <1>6 DEF Announces, Busy, Writer, Committing, Mode
  <2>2. \A r \in Threads : view[r] = "working" => view'[r] = "working"
    BY SMTT(30), <1>6 DEF Announces, Typed, Data
  <2>3. TurnsOK'
    BY <2>1, <2>2 DEF Work, TurnsOK
  <2> QED  BY <2>1, <2>3 DEF Work, PromiseStep
<1>7. CASE UNCHANGED vars
  BY <1>3, <1>7 DEF vars, Mode
<1> QED
  BY <1>1, <1>2, <1>4, <1>5, <1>6, <1>7, TeamTurnBegins, TurnIsOver, RestartWork DEF Next

(* A task run keeps the promise of TeamPromise, whoever stops, loses, resumes  *)
(* or restarts it: one writer at a time, and none in a tree that was handed    *)
(* back, but for a turn that was not announced when its start was given up.    *)
THEOREM TeamKeepsThePromise == Spec => KeepsThePromise
<1>1. Init => Work /\ Contract!Begin
  <2> SUFFICES ASSUME Init PROVE Work /\ Contract!Begin
    OBVIOUS
  <2>1. Mode = "driven"
    BY DEF Init, Mode, Driven
  <2>2. /\ \A t \in Threads : real[t] = "nobody"
        /\ Busy = {}
    BY DEF Init, Busy
  <2>3. \A p \in Procs : pc[p] \in {"boundary", "off"}
    BY SMTT(30), FirstDriver
  <2>4. Work
    BY <2>1, <2>2, <2>3 DEF Work, TurnsOK, Rule, Upping
  <2>5. Writer = "nobody"
    BY <2>2, <2>3 DEF Writer, Committing, Procs
  <2> QED  BY <2>1, <2>4, <2>5 DEF Contract!Begin
<1>2. Typed /\ Ticketed /\ Work /\ Typed' /\ [Next]_vars
        => Work' /\ [Step]_(Contract!promise)
  BY WorkStep DEF RunInv, PromiseStep, Contract!promise
<1> QED
  BY <1>1, <1>2, ShapeInvariance, TicketInvariance, PTL
  DEF Spec, KeepsThePromise, Contract!Promise, Step
=============================================================================
