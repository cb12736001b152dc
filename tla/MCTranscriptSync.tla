-------------------------- MODULE MCTranscriptSync --------------------------
(* Instances of TranscriptSync for TLC. *)
EXTENDS TranscriptSync
===============================================================================
