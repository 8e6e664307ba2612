------------------------------ MODULE MCVideoRuns ------------------------------
(* Instances of VideoRuns for TLC. *)
EXTENDS VideoRuns, TLC

CONSTANTS u1
===============================================================================
