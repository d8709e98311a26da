---------------------------- MODULE MCWorkflowMerge ----------------------------
(* Instances of WorkflowMerge: the contents of the workflow and the stamps *)
(* are interchangeable; some contents belong to another workflow.          *)
EXTENDS WorkflowMerge, TLC

CONSTANT Foreign           \* the contents of the other workflow

MCWorkflowOf == [c \in Contents |-> IF c \in Foreign THEN "other" ELSE "this"]

Symmetry ==
    Permutations(Contents \ Foreign) \cup Permutations(Foreign) \cup Permutations(Stamps)
================================================================================
