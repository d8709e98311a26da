------------------------------- MODULE RunLedger -------------------------------
(***************************************************************************)
(* What a client of the hosted-workflow service is promised about durable  *)
(* runs, without the queue, the files or the process: a run is created     *)
(* once, pinned to one revision; its path grows one transition at a time   *)
(* while it is open; and once it is finished or cancelled nothing about it *)
(* ever changes again.                                                     *)
(***************************************************************************)
EXTENDS Sequences

CONSTANTS RunIds,        \* the run ids
          Revisions,     \* the graph revisions a run can be pinned to
          Transitions,   \* the transition ids of those revisions
          NoRun          \* an id that names no run yet

VARIABLE ledger          \* run id -> NoRun or a [revision, phase, path]

Init == ledger = [r \in RunIds |-> NoRun]

Create(r, revision, phase) ==
    /\ ledger[r] = NoRun
    /\ ledger' = [ledger EXCEPT ![r] =
                    [revision |-> revision, phase |-> phase, path |-> << >>]]

Open(r) == ledger[r] # NoRun /\ ledger[r].phase = "open"

Step(r, transition, phase) ==
    /\ Open(r)
    /\ ledger' = [ledger EXCEPT ![r] =
                    [revision |-> ledger[r].revision, phase |-> phase,
                     path     |-> Append(ledger[r].path, transition)]]

Cancel(r) ==
    /\ Open(r)
    /\ ledger' = [ledger EXCEPT ![r] =
                    [revision |-> ledger[r].revision, phase |-> "cancelled",
                     path     |-> ledger[r].path]]

Next ==
    \E r \in RunIds :
        \/ \E revision \in Revisions, phase \in {"open", "finished"} :
              Create(r, revision, phase)
        \/ \E transition \in Transitions, phase \in {"open", "finished"} :
              Step(r, transition, phase)
        \/ Cancel(r)

Spec == Init /\ [][Next]_ledger
================================================================================
