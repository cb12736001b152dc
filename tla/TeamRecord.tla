----------------------------- MODULE TeamRecord -----------------------------
(* The durable record of a task run (TeamRun, crates/relay-api/src/team.rs):   *)
(* its status, the flags that say how it is being stopped, and the guarded     *)
(* moves between statuses.  Every operator maps a record to the record the     *)
(* method of the same name leaves behind; a refused move returns it unchanged. *)

Terminal == {"Done", "Escalated", "Failed", "Interrupted", "Cancelled"}
SettledWithoutDriver == {"Paused", "Blocked", "Resolving"}
Reopenable == Terminal \ {"Cancelled"}
Driven == {"Queued", "Running", "PausePending", "AwaitingUser"}
Statuses == Driven \cup SettledWithoutDriver \cup Terminal

NoThread == "none"

(* Nobody drives this run: it is over, or a user settled it under its driver.  *)
Off(r) == r.status \in Terminal \cup SettledWithoutDriver

SetStatus(r, s) == IF Off(r) THEN r ELSE [r EXCEPT !.status = s]

(* A stop that is draining outranks the failure it caused.                     *)
Fail(r) == IF r.stopping THEN r ELSE SetStatus(r, "Failed")

Block(r) ==
  IF r.status \in Terminal THEN r
  ELSE [r EXCEPT !.status = "Blocked", !.stopping = FALSE]

RequestPause(r) ==
  IF Off(r) THEN r
  ELSE [r EXCEPT !.status = "PausePending", !.pauseRequested = TRUE]

RequestStop(r) ==
  IF Off(r) THEN r ELSE [RequestPause(r) EXCEPT !.stopping = TRUE]

(* The record with nothing requested, asked or in flight.                      *)
Quiet(r) ==
  [r EXCEPT !.pauseRequested = FALSE, !.stopping = FALSE, !.awaiting = FALSE,
            !.inFlight = NoThread]

SettlePaused(r) ==
  IF Off(r) THEN r ELSE [Quiet(r) EXCEPT !.status = "Paused"]

Resume(r) ==
  IF r.status # "Paused" THEN r
  ELSE [r EXCEPT !.pauseRequested = FALSE, !.stopping = FALSE,
                 !.status = "Running"]

Cancel(r) ==
  IF r.status \in Terminal THEN r
  ELSE [Quiet(r) EXCEPT !.status = "Cancelled"]

ForceMark(r, s) ==
  IF r.status = s THEN r ELSE [Quiet(r) EXCEPT !.status = s]

ResolveAsPaused(r) ==
  IF r.status # "Resolving" THEN r
  ELSE [Quiet(r) EXCEPT !.status = "Paused", !.awaiting = r.awaiting]

RestoreResolving(r) == IF r.status = "Resolving" THEN Block(r) ELSE r

MarkInterrupted(r) ==
  IF r.status \in Terminal \cup {"Paused"} THEN r
  ELSE [r EXCEPT !.status = "Interrupted"]

(* What the next process makes of the record it finds on disk.                 *)
AfterRestore(r) ==
  CASE r.status = "Paused" -> [Quiet(r) EXCEPT !.inFlight = r.inFlight]
    [] r.status \in {"PausePending", "AwaitingUser"} -> SettlePaused(r)
    [] OTHER -> MarkInterrupted(r)
=============================================================================
