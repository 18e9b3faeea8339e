------------------------------ MODULE MCJobRuns ------------------------------
(* Instances of JobRuns for TLC.                                           *)
EXTENDS JobRuns
=============================================================================
