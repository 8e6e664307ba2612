------------------------------ MODULE MCLocalJobs ------------------------------
(* Instances of LocalJobs for TLC. *)
EXTENDS LocalJobs, TLC

CONSTANTS x1, x2, u1, u2
===============================================================================
