----------------------------- MODULE MCWorkerRuns -----------------------------
(***************************************************************************)
(* Small instances of WorkerRuns.                                          *)
(***************************************************************************)
EXTENDS WorkerRuns, TLC

Symmetry == Permutations(Workers) \cup Permutations(Runs) \cup Permutations(Turns)
                \cup Permutations(Calls)
================================================================================
