----------------------------- MODULE MCJobSystem -----------------------------
(* Instances of JobSystem for TLC.                                         *)
EXTENDS JobSystemProofs
=============================================================================
