------------------------------ MODULE MCTeamRun ------------------------------
(* TeamRun on small instances. *)
EXTENDS TeamRun
=============================================================================
