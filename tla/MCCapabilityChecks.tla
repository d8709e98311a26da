-------------------------- MODULE MCCapabilityChecks --------------------------
(* Instances of CapabilityChecks.                                          *)
EXTENDS CapabilityChecks
================================================================================
