----------------------------- MODULE MCLabSessions -----------------------------
(* Instances of LabSessions: no symmetry, since liveness is checked.       *)
EXTENDS LabSessions
================================================================================
