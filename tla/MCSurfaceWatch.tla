--------------------------- MODULE MCSurfaceWatch ---------------------------
(* Instances of SurfaceWatch for TLC. *)
EXTENDS SurfaceWatch

CONSTANTS t1, t2
===============================================================================
