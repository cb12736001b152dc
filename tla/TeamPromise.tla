----------------------------- MODULE TeamPromise -----------------------------
(* What a task run promises about its worktree, whoever stops, loses or        *)
(* restarts what: one writer at a time, and nobody in the tree once the run    *)
(* has handed it back.                                                         *)
(*                                                                             *)
(* This is the contract the comments of state/app/team.rs argue from: a run    *)
(* that cannot prove its turns have stopped keeps its locks (it is stuck), and *)
(* only a quiet run rests, ends, or is taken up again.                         *)
VARIABLES
  mode,   \* driven, resting (paused), stuck (locks kept), or over
  writer  \* who is changing the worktree: the team, the user, or nobody

promise == <<mode, writer>>

Modes == {"driven", "resting", "stuck", "over"}
Writers == {"nobody", "team", "user"}

Begin == mode = "driven" /\ writer = "nobody"

(* The team writes while it is driven and the user may instruct the team lead  *)
(* of a resting run; a run that got stuck since still has its locks.           *)
Write ==
  /\ writer = "nobody"
  /\ \/ mode \in {"driven", "stuck"} /\ writer' = "team"
     \/ mode \in {"resting", "stuck"} /\ writer' = "user"
  /\ UNCHANGED mode

Finish ==
  /\ writer # "nobody" /\ writer' = "nobody"
  /\ UNCHANGED mode

(* A run may always admit that it does not know.                               *)
Stick ==
  /\ mode \in {"driven", "resting"} /\ mode' = "stuck"
  /\ UNCHANGED writer

(* Every other change of mode needs an empty tree.                             *)
HandOver ==
  /\ writer = "nobody"
  /\ <<mode, mode'>> \in {"driven", "resting", "stuck"} \X {"resting", "over"}
                         \cup {<<"resting", "driven">>, <<"over", "resting">>}
  /\ UNCHANGED writer

(* A new process starts with no turn running and drives nothing by itself.     *)
Restart ==
  /\ writer' = "nobody"
  /\ <<mode, mode'>> \in {"driven", "stuck"} \X {"resting", "over"}
                         \cup {<<"resting", "resting">>, <<"over", "over">>}

Promise == Begin /\ [][Write \/ Finish \/ Stick \/ HandOver \/ Restart]_promise

(* Nobody changes the tree of a run that is over, and only the user that of a  *)
(* run that rests.                                                             *)
HandedBack ==
  /\ mode = "over" => writer = "nobody"
  /\ mode = "resting" => writer # "team"
=============================================================================
