--------------------------- MODULE LabSessionsProofs ---------------------------
(***************************************************************************)
(* Theorems about LabSessions for any set of sessions and any bounds: the  *)
(* types, that every process is owned and every session settles, and what  *)
(* a shutdown and a restart leave behind.                                  *)
(***************************************************************************)
EXTENDS LabSessions, TLAPS

\* The mutation under way is one of the session s, at one of these points.
On(s, points) == op # Idle /\ op.s = s /\ op.at \in points

WarmUpPoints == {"warming up", "cooling down"}
StartPoints  == {"creating", "reusing", "spawning", "spawned", "waiting", "ready",
                 "failing", "failed"}

\* The types of stray and unsaved.
Strays == SUBSET ((Sessions \cup {NoSession}) \X Kinds)
Marks  == SUBSET (Sessions \X (Kinds \cup {"row"}))

\* What a mutation has in its hands at each of its points.
OpOK ==
    op # Idle =>
        /\ op.at \notin WarmUpPoints => op.s \in Sessions
        /\ op.at \notin WarmUpPoints \cup {"deleting"} => op.copy \in Rows
        /\ op.at \in StartPoints => op.kind \in {"start", "reuse"}
        /\ op.at = "spawning" => op.kind = "start"
        /\ op.at = "stopping" => op.kind \in {"stop", "timer"}
        /\ op.at = "scheduling" => op.kind = "schedule"
        /\ op.at = "spawning" /\ Running => runtime[op.s] # NoRuntime

\* Only a shutdown finalizes, and a service that is down holds nothing.
ServiceOK ==
    /\ service # "finalizing" => \A s \in Sessions : closing[s] = Done
    /\ service = "down" => /\ op = Idle /\ active = NoSession /\ unsaved = {}
                           /\ \A s \in Sessions : runtime[s] = NoRuntime
                           /\ \A p \in Processes : exits[p] = NoExit

TypeInv == TypeOK /\ OpOK /\ ServiceOK

----------------------------------------------------------------------------
(* The data                                                                *)

\* A row by its fields.
LEMMA RowFields ==
    ASSUME NEW row \in Rows
    PROVE  /\ row.status \in Statuses /\ row.stopAsked \in BOOLEAN
           /\ row.recording \in Pids /\ row.query \in Pids
           /\ row.ingested \in BOOLEAN /\ row.warned \in BOOLEAN
           /\ \A kind \in Kinds : row[kind] \in Pids
           /\ row # NoRow /\ row # Deleted /\ row # NoExit /\ row # Reading
  BY PlaceholdersAreNotValues DEF Rows, Kinds

\* A mutation by its fields.
LEMMA OpFields ==
    ASSUME NEW o \in OpStates
    PROVE  /\ o # Idle /\ o.kind \in OpKinds /\ o.s \in Sessions \cup {NoSession}
           /\ o.at \in Points /\ o.copy \in Rows \cup {NoRow}
  BY PlaceholdersAreNotValues DEF OpStates

\* A runtime by its fields.
LEMMA RuntimeFields ==
    ASSUME NEW r \in Runtimes
    PROVE  /\ r # NoRuntime /\ r.handles \in SUBSET Kinds /\ r.allowed \in SUBSET Kinds
           /\ r.reused \in BOOLEAN /\ r.timer \in BOOLEAN
  BY PlaceholdersAreNotValues DEF Runtimes

\* The mutation goes on.
LEMMA GoesTypes ==
    ASSUME TypeOK, op # Idle, NEW point \in Points, NEW copy \in Rows \cup {NoRow},
           Goes(point, copy)
    PROVE  /\ op' \in OpStates /\ op' # Idle /\ op'.kind = op.kind /\ op'.s = op.s
           /\ op'.at = point /\ op'.copy = copy
  <1> DEFINE new == [op EXCEPT !.at = point, !.copy = copy]
  <1>1. op \in OpStates
    BY DEF TypeOK
  <1>2. /\ new \in OpStates /\ new.kind = op.kind /\ new.s = op.s
        /\ new.at = point /\ new.copy = copy
    BY <1>1 DEF OpStates
  <1>3. op' = new
    BY DEF Goes
  <1> QED BY <1>2, <1>3, OpFields

\* A mutation begins.
LEMMA BeginsTypes ==
    ASSUME NEW kind \in OpKinds, NEW s \in Sessions \cup {NoSession}, NEW point \in Points,
           NEW copy \in Rows \cup {NoRow}, Begins(kind, s, point, copy)
    PROVE  /\ op' \in OpStates /\ op' # Idle /\ op'.kind = kind /\ op'.s = s
           /\ op'.at = point /\ op'.copy = copy
  <1> DEFINE new == [kind |-> kind, s |-> s, at |-> point, copy |-> copy]
  <1>1. /\ new \in OpStates /\ new.kind = kind /\ new.s = s
        /\ new.at = point /\ new.copy = copy
    BY DEF OpStates
  <1>2. op' = new
    BY DEF Begins
  <1> QED BY <1>1, <1>2, OpFields

\* A mutation writes, or is refused by a shutdown.
LEMMA PersistsTypes ==
    ASSUME TypeOK, op # Idle, NEW point \in Points, NEW copy \in Rows,
           Persists(point, copy)
    PROVE  \/ ~Running /\ op' = Idle
           \/ /\ Running
              /\ op' \in OpStates /\ op' # Idle /\ op'.kind = op.kind /\ op'.s = op.s
              /\ op'.at = point /\ op'.copy = copy
  <1>1. CASE Running
    <2>1. Goes(point, copy)
      BY <1>1 DEF Persists
    <2> QED BY <1>1, <2>1, GoesTypes
  <1>2. CASE ~Running
    BY <1>2 DEF Persists
  <1> QED BY <1>1, <1>2

\* The file is replaced.
LEMMA OverwritesTypes ==
    ASSUME TypeOK, op # Idle, op.s \in Sessions, op.copy \in Rows,
           NEW unseated \in SUBSET Sessions, Overwrites(unseated)
    PROVE  /\ disk' \in [Sessions -> Rows \cup {NoRow, Deleted}]
           /\ disk'[op.s] = op.copy
           /\ \A t \in Sessions : t # op.s => disk'[t] = disk[t]
           /\ disturbed' \in SUBSET Sessions /\ disturbed \subseteq disturbed'
           /\ unseated \subseteq disturbed'
           /\ service \in {"finalizing", "closed"} /\ closing[op.s] = Done
                 => op.s \in disturbed'
  <1>1. disk' = [disk EXCEPT ![op.s] = op.copy]
    BY DEF Overwrites
  <1>2. disk' \in [Sessions -> Rows \cup {NoRow, Deleted}]
    BY <1>1 DEF TypeOK
  <1>3. disk'[op.s] = op.copy /\ \A t \in Sessions : t # op.s => disk'[t] = disk[t]
    BY <1>1 DEF TypeOK
  <1> QED BY <1>2, <1>3 DEF Overwrites, TypeOK

\* The write of a mutation lands.
LEMMA LandsTypes ==
    ASSUME TypeOK, op # Idle, op.s \in Sessions, op.copy \in Rows,
           NEW unseated \in SUBSET Sessions, LandsOver(unseated)
    PROVE  /\ disk' \in [Sessions -> Rows \cup {NoRow, Deleted}]
           /\ disk'[op.s] = op.copy
           /\ \A t \in Sessions : t # op.s => disk'[t] = disk[t]
           /\ disturbed' \in SUBSET Sessions /\ disturbed \subseteq disturbed'
           /\ unseated \subseteq disturbed'
           /\ service \in {"finalizing", "closed"} /\ closing[op.s] = Done
                 => op.s \in disturbed'
           /\ unsaved' \in Marks
           /\ \A t \in Sessions, mark \in Kinds \cup {"row"} :
                 <<t, mark>> \in unsaved' <=>
                     <<t, mark>> \in unsaved /\ <<t, mark>> # <<op.s, "row">>
  <1>1. Overwrites(unseated) /\ unsaved' = unsaved \ {<<op.s, "row">>}
    BY DEF LandsOver
  <1>2. unsaved' \in Marks
    BY <1>1 DEF TypeOK, Marks
  <1> QED BY <1>1, <1>2, OverwritesTypes

\* The write of a mutation fails.
LEMMA WriteFailsTypes ==
    ASSUME TypeOK, op # Idle, op.s \in Sessions, NEW kinds \in SUBSET Kinds, WriteFails(kinds)
    PROVE  /\ unsaved' \in Marks /\ faults' \in 0 .. MaxFaults
           /\ \A t \in Sessions, mark \in Kinds \cup {"row"} :
                 <<t, mark>> \in unsaved' <=>
                     \/ <<t, mark>> \in unsaved
                     \/ t = op.s /\ mark \in kinds \cup {"row"}
  <1>1. unsaved' = unsaved \cup {<<op.s, kind>> : kind \in kinds \cup {"row"}}
    BY DEF WriteFails
  <1>2. unsaved \subseteq Sessions \X (Kinds \cup {"row"})
    BY DEF TypeOK
  <1>3. {<<op.s, kind>> : kind \in kinds \cup {"row"}} \subseteq Sessions \X (Kinds \cup {"row"})
    OBVIOUS
  <1>4. unsaved' \in Marks
    BY <1>1, <1>2, <1>3 DEF Marks
  <1>5. faults' \in 0 .. MaxFaults
    BY BoundsOK DEF TypeOK, WriteFails, Fault
  <1>6. \A t \in Sessions, mark \in Kinds \cup {"row"} :
            <<t, mark>> \in unsaved' <=>
                \/ <<t, mark>> \in unsaved
                \/ t = op.s /\ mark \in kinds \cup {"row"}
    BY <1>1
  <1> QED BY <1>4, <1>5, <1>6

----------------------------------------------------------------------------
(* runtimeBySession                                                        *)

Known(s)  == runtime[s] # NoRuntime
Reused(s) == Known(s) /\ runtime[s].reused

\* No session gains or loses a handle or its runtime.
SameRuntimes ==
    /\ runtime' \in [Sessions -> Runtimes \cup {NoRuntime}]
    /\ \A t \in Sessions : /\ Known(t)' <=> Known(t)
                           /\ Reused(t)' <=> Reused(t)
                           /\ \A kind \in Kinds : Handle(t, kind)' <=> Handle(t, kind)

\* The same for code that changes the runtime of one session only in what it allows.
LEMMA UpdatedRuntimes ==
    ASSUME TypeOK, NEW s \in Sessions, NEW entry,
           runtime[s] # NoRuntime => /\ entry \in Runtimes
                                     /\ entry.handles = runtime[s].handles
                                     /\ entry.reused = runtime[s].reused,
           runtime' = Update(s, entry)
    PROVE  SameRuntimes
  <1>1. runtime \in [Sessions -> Runtimes \cup {NoRuntime}]
    BY DEF TypeOK
  <1>2. CASE runtime[s] = NoRuntime
    <2>1. runtime' = runtime
      BY <1>2 DEF Update
    <2> QED BY <1>1, <2>1 DEF SameRuntimes, Known, Reused, Handle
  <1>3. CASE runtime[s] # NoRuntime
    <2>1. runtime' = [runtime EXCEPT ![s] = entry]
      BY <1>3 DEF Update
    <2>2. /\ runtime' \in [Sessions -> Runtimes \cup {NoRuntime}]
          /\ runtime'[s] = entry /\ \A t \in Sessions : t # s => runtime'[t] = runtime[t]
      BY <1>1, <1>3, <2>1
    <2>3. entry # NoRuntime
      BY <1>3, RuntimeFields
    <2> QED BY <1>3, <2>2, <2>3 DEF SameRuntimes, Known, Reused, Handle
  <1> QED BY <1>2, <1>3

\* A handle is marked as one whose process may exit.
LEMMA AllowTypes ==
    ASSUME TypeOK, NEW s \in Sessions, NEW kind \in Kinds, runtime' = Allow(s, kind)
    PROVE  SameRuntimes
  <1> DEFINE entry == [runtime[s] EXCEPT !.allowed = @ \cup {kind}]
  <1>1. runtime[s] # NoRuntime => /\ entry \in Runtimes
                                  /\ entry.handles = runtime[s].handles
                                  /\ entry.reused = runtime[s].reused
    BY DEF TypeOK, Runtimes
  <1>2. runtime' = Update(s, entry)
    BY DEF Allow
  <1> HIDE DEF entry
  <1> QED BY <1>1, <1>2, UpdatedRuntimes

\* A timer is cleared.
LEMMA ClearTypes ==
    ASSUME TypeOK, NEW s \in Sessions, runtime' = clearAutoStopTimer(s)
    PROVE  SameRuntimes
  <1> DEFINE entry == [runtime[s] EXCEPT !.timer = FALSE]
  <1>1. runtime[s] # NoRuntime => /\ entry \in Runtimes
                                  /\ entry.handles = runtime[s].handles
                                  /\ entry.reused = runtime[s].reused
    BY DEF TypeOK, Runtimes
  <1>2. runtime' = Update(s, entry)
    BY DEF clearAutoStopTimer
  <1> HIDE DEF entry
  <1> QED BY <1>1, <1>2, UpdatedRuntimes

\* A handle is let go.
LEMMA DropTypes ==
    ASSUME TypeOK, NEW s \in Sessions, NEW kind \in Kinds, runtime' = Drop(s, kind)
    PROVE  /\ runtime' \in [Sessions -> Runtimes \cup {NoRuntime}]
           /\ \A t \in Sessions :
                 /\ Known(t)' <=> Known(t)
                 /\ Reused(t)' <=> Reused(t)
                 /\ \A k \in Kinds : Handle(t, k)' <=> Handle(t, k) /\ <<t, k>> # <<s, kind>>
  <1>1. runtime \in [Sessions -> Runtimes \cup {NoRuntime}]
    BY DEF TypeOK
  <1> DEFINE entry == [runtime[s] EXCEPT !.handles = @ \ {kind}]
  <1>2. CASE runtime[s] = NoRuntime
    <2>1. runtime' = runtime
      BY <1>2 DEF Drop, Update
    <2> QED BY <1>1, <1>2, <2>1 DEF Known, Reused, Handle
  <1>3. CASE runtime[s] # NoRuntime
    <2>1. runtime' = [runtime EXCEPT ![s] = entry]
      BY <1>3 DEF Drop, Update
    <2>2. /\ entry \in Runtimes /\ entry.handles = runtime[s].handles \ {kind}
          /\ entry.reused = runtime[s].reused
      BY <1>1, <1>3 DEF Runtimes
    <2> HIDE DEF entry
    <2>3. /\ runtime' \in [Sessions -> Runtimes \cup {NoRuntime}]
          /\ runtime'[s] = entry /\ \A t \in Sessions : t # s => runtime'[t] = runtime[t]
      BY <1>1, <2>1, <2>2
    <2>4. entry # NoRuntime
      BY <2>2, RuntimeFields
    <2> QED BY <1>3, <2>2, <2>3, <2>4 DEF Known, Reused, Handle
  <1> QED BY <1>2, <1>3

\* A timer is set, in a new runtime if the session has none.
LEMMA SetTypes ==
    ASSUME TypeOK, NEW s \in Sessions, runtime' = setAutoStopTimer(s)
    PROVE  /\ runtime' \in [Sessions -> Runtimes \cup {NoRuntime}]
           /\ \A t \in Sessions : /\ Known(t) => Known(t)'
                                  /\ Reused(t)' <=> Reused(t)
                                  /\ \A kind \in Kinds : Handle(t, kind)' <=> Handle(t, kind)
  <1>1. runtime \in [Sessions -> Runtimes \cup {NoRuntime}]
    BY DEF TypeOK
  <1> DEFINE entry == IF runtime[s] = NoRuntime
                      THEN [NewRuntime(FALSE) EXCEPT !.timer = TRUE]
                      ELSE [runtime[s] EXCEPT !.timer = TRUE]
  <1>2. runtime' = [runtime EXCEPT ![s] = entry]
    BY <1>1 DEF setAutoStopTimer
  <1>3. /\ entry \in Runtimes
        /\ entry.handles = IF runtime[s] = NoRuntime THEN {} ELSE runtime[s].handles
        /\ entry.reused = IF runtime[s] = NoRuntime THEN FALSE ELSE runtime[s].reused
    BY <1>1 DEF Runtimes, NewRuntime
  <1> HIDE DEF entry
  <1>4. /\ runtime' \in [Sessions -> Runtimes \cup {NoRuntime}]
        /\ runtime'[s] = entry /\ \A t \in Sessions : t # s => runtime'[t] = runtime[t]
    BY <1>1, <1>2, <1>3
  <1>5. entry # NoRuntime
    BY <1>3, RuntimeFields
  <1> QED BY <1>3, <1>4, <1>5 DEF Known, Reused, Handle

\* A process is stopped through its handle.
LEMMA StopTypes ==
    ASSUME TypeOK, NEW s \in Sessions, NEW kind \in Kinds, stopProcess(s, kind)
    PROVE  /\ alive' \in SUBSET Processes
           /\ \A p \in Processes : p \in alive' <=>
                  p \in alive /\ ~(p = <<s, kind>> /\ Handle(s, kind))
  BY DEF TypeOK, stopProcess

----------------------------------------------------------------------------
(* Types                                                                   *)

\* A fault is one of the few that are allowed.
LEMMA FaultTypes ==
    ASSUME TypeOK
    PROVE  Fault => faults' \in 0 .. MaxFaults
  BY BoundsOK DEF TypeOK, Fault

\* A spawn fails, or is given up.
LEMMA SpawnFailedTypes ==
    ASSUME TypeOK, op.s \in Sessions, NEW kind \in Kinds, SpawnFailed(kind)
    PROVE  stray' \in Strays /\ faults' \in 0 .. MaxFaults
  <1>1. stray' = stray \/ stray' = stray \cup {<<op.s, kind>>}
    BY DEF SpawnFailed
  <1>2. stray' \in Strays
    BY <1>1 DEF TypeOK, Strays
  <1> QED BY <1>2, FaultTypes DEF SpawnFailed, TypeOK

\* A mutation ends, with or without an exception.
LEMMA ThrowsTypes ==
    ASSUME TypeOK, op.s \in Sessions
    PROVE  Throws \/ Ends => given' \in SUBSET Sessions /\ op' = Idle
  BY DEF TypeOK, Throws, Ends

\* A step of the mutation under way, type by type.
LEMMA OpStepTypes ==
    ASSUME TypeInv, op # Idle, UNCHANGED <<due, rest, begun>>,
           disk' \in [Sessions -> Rows \cup {NoRow, Deleted}],
           runtime' \in [Sessions -> Runtimes \cup {NoRuntime}],
           active' \in Sessions \cup {NoSession}, given' \in SUBSET Sessions,
           alive' \in SUBSET Processes, warmup' \in BOOLEAN, stray' \in Strays,
           unsaved' \in Marks, disturbed' \in SUBSET Sessions, faults' \in 0 .. MaxFaults,
           op' # Idle => op' \in OpStates, OpOK'
    PROVE  TypeInv'
  <1>1. TypeOK'
    BY DEF TypeInv, TypeOK, rest, Strays, Marks
  <1>2. ServiceOK'
    BY DEF TypeInv, ServiceOK, rest
  <1> QED BY <1>1, <1>2 DEF TypeInv

\* What the mutation under way has at hand.
LEMMA OpHas ==
    ASSUME TypeInv, op # Idle
    PROVE  /\ TypeOK /\ op \in OpStates /\ service # "down"
           /\ op.at \notin WarmUpPoints => op.s \in Sessions
           /\ op.at \notin WarmUpPoints \cup {"deleting"} => op.copy \in Rows
           /\ op.at \in StartPoints => op.kind \in {"start", "reuse"}
           /\ op.at = "spawning" => op.kind = "start"
           /\ op.at = "stopping" => op.kind \in {"stop", "timer"}
           /\ op.at = "scheduling" => op.kind = "schedule"
           /\ op.at = "spawning" /\ Running => Known(op.s)
  BY DEF TypeInv, TypeOK, OpOK, ServiceOK, Known

\* A row with another status, or another pid, is a row.
LEMMA ChangedRows ==
    ASSUME NEW row \in Rows
    PROVE  /\ \A st \in Statuses :
                 LET new == [row EXCEPT !.status = st]
                 IN  /\ new \in Rows /\ new.status = st
                     /\ new.recording = row.recording /\ new.query = row.query
           /\ \A pid \in Pids :
                 LET new == [row EXCEPT !.recording = pid]
                 IN  /\ new \in Rows /\ new.status = row.status
                     /\ new.recording = pid /\ new.query = row.query
           /\ \A pid \in Pids :
                 LET new == [row EXCEPT !.query = pid]
                 IN  /\ new \in Rows /\ new.status = row.status
                     /\ new.recording = row.recording /\ new.query = pid
           /\ LET new == [row EXCEPT !.status = "failed", !.recording = "none"]
              IN  /\ new \in Rows /\ new.status = "failed"
                  /\ new.recording = "none" /\ new.query = row.query
           /\ LET new == [row EXCEPT !.status = "failed", !.query = "none"]
              IN  /\ new \in Rows /\ new.status = "failed"
                  /\ new.recording = row.recording /\ new.query = "none"
           /\ LET new == [row EXCEPT !.status = "ready", !.ingested = TRUE]
              IN  /\ new \in Rows /\ new.status = "ready"
                  /\ new.recording = row.recording /\ new.query = row.query
           /\ LET new == [row EXCEPT !.status = "stopping", !.stopAsked = TRUE]
              IN  /\ new \in Rows /\ new.status = "stopping"
                  /\ new.recording = row.recording /\ new.query = row.query
  <1>1. "failed" \in Statuses /\ "ready" \in Statuses /\ "stopping" \in Statuses /\ "none" \in Pids
    BY DEF Statuses, Terminal, Pids
  <1> QED BY <1>1 DEF Rows

\* The names that occur in rows.
LEMMA StatusNames ==
    /\ {"ready", "failed", "interrupted", "starting", "recording", "stopping",
        "booting-query-mode", "ingesting", "processing"} \subseteq Statuses
    /\ {"none", "running", "stopped"} = Pids
    /\ {"recording", "query"} = Kinds
    /\ NewRow \in Rows /\ NewRow.status = "starting"
  BY DEF Statuses, Terminal, Pids, Kinds, NewRow, Rows

\* A mutation that goes on with a row in its hands.
LEMMA OpOKKept ==
    ASSUME op # Idle, op.s \in Sessions,
           op' # Idle => /\ op'.s = op.s /\ op'.kind = op.kind /\ op'.copy \in Rows
                         /\ op'.at \in StartPoints => op.kind \in {"start", "reuse"}
                         /\ op'.at = "spawning" => /\ op.kind = "start"
                                                   /\ Running' => runtime'[op.s] # NoRuntime
                         /\ op'.at \notin {"stopping", "scheduling"}
    PROVE  OpOK'
  BY DEF OpOK

\* The steps of startRecording.
LEMMA StartTypes ==
    ASSUME TypeInv, StartSteps
    PROVE  TypeInv'
  <1>1. op # Idle /\ op.at \in StartPoints
    BY DEF StartSteps, Create, Spawn, SpawnFails, RecordPid, RecorderReady, RecorderNotReady,
           Activate, CatchShutdown, StopFailedStart, RecordFailure, CreateFails,
           StartWriteFails, At, StartPoints
  <1>2. /\ TypeOK /\ op \in OpStates /\ op.s \in Sessions /\ op.copy \in Rows
        /\ op.kind \in {"start", "reuse"} /\ service # "down"
        /\ op.at = "spawning" => op.kind = "start"
        /\ op.at = "spawning" /\ Running => Known(op.s)
    BY <1>1, OpHas DEF StartPoints, WarmUpPoints
  <1>3. /\ disk \in [Sessions -> Rows \cup {NoRow, Deleted}]
        /\ runtime \in [Sessions -> Runtimes \cup {NoRuntime}]
        /\ active \in Sessions \cup {NoSession} /\ given \in SUBSET Sessions
        /\ alive \in SUBSET Processes /\ warmup \in BOOLEAN /\ stray \in Strays /\ unsaved \in Marks
        /\ disturbed \in SUBSET Sessions /\ faults \in 0 .. MaxFaults
    BY <1>2 DEF TypeOK, Strays, Marks
  <1>4. {"creating", "reusing", "spawning", "spawned", "waiting", "ready", "failing",
         "failed"} \subseteq Points
    BY DEF Points
  <1>5. /\ [op.copy EXCEPT !.status = "recording"] \in Rows
        /\ [op.copy EXCEPT !.recording = "running"] \in Rows
        /\ [op.copy EXCEPT !.status = "failed", !.recording = "none"] \in Rows
    BY <1>2, StatusNames, ChangedRows
  <1> USE DEF memory, world, bounds, marks, ghosts
  <1>6. CASE Create
    <2>1. /\ disk' \in [Sessions -> Rows \cup {NoRow, Deleted}]
          /\ disturbed' \in SUBSET Sessions /\ unsaved' \in Marks
      BY <1>1, <1>2, <1>6, LandsTypes DEF Create, Lands
    <2>2. /\ NewRuntime(op.kind = "reuse") \in Runtimes
      BY DEF NewRuntime, Runtimes
    <2>3. /\ runtime' \in [Sessions -> Runtimes \cup {NoRuntime}]
          /\ Running => runtime'[op.s] # NoRuntime
      BY <1>2, <1>3, <1>6, <2>2, RuntimeFields DEF Create
    <2>4. /\ op' # Idle => op' \in OpStates /\ op'.s = op.s /\ op'.copy \in Rows /\ Running
                           /\ op'.kind = op.kind
                           /\ op'.at = IF op.kind = "reuse" THEN "reusing" ELSE "spawning"
      BY <1>1, <1>2, <1>4, <1>6, <1>5, PersistsTypes DEF Create
    <2>5. OpOK'
      BY <1>1, <1>2, <1>6, <2>3, <2>4, OpOKKept DEF Create, rest
    <2> QED BY <1>1, <1>3, <1>6, <2>1, <2>3, <2>4, <2>5, OpStepTypes DEF Create
  <1>7. CASE Spawn
    <2>1. /\ op' \in OpStates /\ op'.s = op.s /\ op'.kind = op.kind /\ op'.at = "spawned"
          /\ op'.copy \in Rows
      BY <1>1, <1>2, <1>4, <1>7, <1>5, GoesTypes DEF Spawn
    <2>2. OpOK'
      BY <1>1, <1>2, <2>1, OpOKKept
    <2>3. runtime' \in [Sessions -> Runtimes \cup {NoRuntime}]
      <3>1. runtime[op.s] \in Runtimes
        BY <1>2, <1>3, <1>7 DEF Spawn, At, Known
      <3>2. [runtime[op.s] EXCEPT !.handles = @ \cup {"recording"}] \in Runtimes
        BY <3>1 DEF Runtimes, Kinds
      <3>3. runtime' = [runtime EXCEPT ![op.s] =
                            [runtime[op.s] EXCEPT !.handles = @ \cup {"recording"}]]
        BY <1>7 DEF Spawn
      <3> QED BY <1>2, <1>3, <3>2, <3>3
    <2>4. alive' \in SUBSET Processes
      BY <1>2, <1>3, <1>7 DEF Spawn, Processes, Kinds
    <2> QED BY <1>1, <1>3, <1>7, <2>1, <2>2, <2>3, <2>4, OpStepTypes DEF Spawn
  <1>8. CASE Catch /\ UNCHANGED <<disk, active, due, given, alive, warmup, rest, disturbed,
                                   begun>>
                   /\ stray' \in Strays /\ unsaved' \in Marks /\ faults' \in 0 .. MaxFaults
    <2>1. /\ op' \in OpStates /\ op'.s = op.s /\ op'.kind = op.kind /\ op'.at = "failing"
          /\ op'.copy \in Rows
      BY <1>1, <1>2, <1>4, <1>8, GoesTypes DEF Catch
    <2>2. OpOK'
      BY <1>1, <1>2, <2>1, OpOKKept
    <2>3. runtime' \in [Sessions -> Runtimes \cup {NoRuntime}]
      BY <1>2, <1>8, AllowTypes DEF Catch, SameRuntimes, Kinds
    <2> QED BY <1>1, <1>3, <1>8, <2>1, <2>2, <2>3, OpStepTypes
  <1>9. CASE SpawnFails
    <2>1. stray' \in Strays /\ faults' \in 0 .. MaxFaults
      BY <1>2, <1>3, <1>9, SpawnFailedTypes DEF SpawnFails, Kinds
    <2> QED BY <1>3, <1>8, <1>9, <2>1 DEF SpawnFails
  <1>10. CASE RecordPid
    <2>1. /\ disk' \in [Sessions -> Rows \cup {NoRow, Deleted}]
          /\ disturbed' \in SUBSET Sessions /\ unsaved' \in Marks
      BY <1>1, <1>2, <1>10, LandsTypes DEF RecordPid, Lands
    <2>2. /\ op' \in OpStates /\ op'.s = op.s /\ op'.kind = op.kind /\ op'.at = "waiting"
          /\ op'.copy \in Rows
      BY <1>1, <1>2, <1>4, <1>10, GoesTypes DEF RecordPid
    <2>3. OpOK'
      BY <1>1, <1>2, <2>2, OpOKKept
    <2> QED BY <1>1, <1>3, <1>10, <2>1, <2>2, <2>3, OpStepTypes DEF RecordPid
  <1>11. CASE RecorderReady
    <2>1. /\ op' \in OpStates /\ op'.s = op.s /\ op'.kind = op.kind /\ op'.at = "ready"
          /\ op'.copy \in Rows
      BY <1>1, <1>2, <1>4, <1>11, <1>5, GoesTypes DEF RecorderReady
    <2>2. OpOK'
      BY <1>1, <1>2, <2>1, OpOKKept
    <2> QED BY <1>1, <1>3, <1>11, <2>1, <2>2, OpStepTypes DEF RecorderReady
  <1>12. CASE RecorderNotReady
    <2>1. faults' \in 0 .. MaxFaults
      BY <1>2, <1>3, <1>12, FaultTypes DEF RecorderNotReady
    <2> QED BY <1>3, <1>8, <1>12, <2>1 DEF RecorderNotReady
  <1>13. CASE Activate
    <2>1. /\ disk' \in [Sessions -> Rows \cup {NoRow, Deleted}]
          /\ disturbed' \in SUBSET Sessions /\ unsaved' \in Marks
      BY <1>1, <1>2, <1>13, LandsTypes DEF Activate, Lands
    <2>2. runtime' \in [Sessions -> Runtimes \cup {NoRuntime}]
      BY <1>2, <1>3, <1>13, SetTypes DEF Activate
    <2>3. op' = Idle /\ OpOK'
      BY <1>13 DEF Activate, Ends, OpOK
    <2> QED BY <1>1, <1>2, <1>3, <1>13, <2>1, <2>2, <2>3, OpStepTypes DEF Activate, Ends
  <1>14. CASE CatchShutdown
    BY <1>3, <1>8, <1>14 DEF CatchShutdown
  <1>15. CASE CreateFails
    <2>1. /\ disk' \in [Sessions -> Rows \cup {NoRow, Deleted}]
          /\ disturbed' \in SUBSET Sessions /\ unsaved' \in Marks
          /\ faults' \in 0 .. MaxFaults
      <3>1. CASE Fault /\ UNCHANGED <<disk, marks>>
        BY <1>2, <1>3, <3>1, FaultTypes
      <3>2. CASE Overwrites({}) /\ WriteFails({})
        BY <1>1, <1>2, <3>2, OverwritesTypes, WriteFailsTypes
      <3> QED BY <1>15, <3>1, <3>2 DEF CreateFails
    <2>2. op' = Idle /\ OpOK'
      BY <1>15 DEF CreateFails, OpOK
    <2> QED BY <1>1, <1>3, <1>15, <2>1, <2>2, OpStepTypes DEF CreateFails
  <1>16. CASE StartWriteFails
    <2>1. unsaved' \in Marks /\ faults' \in 0 .. MaxFaults
      BY <1>1, <1>2, <1>16, WriteFailsTypes, StatusNames DEF StartWriteFails
    <2> QED BY <1>3, <1>8, <1>16, <2>1 DEF StartWriteFails
  <1>17. CASE StopFailedStart
    <2>1. alive' \in SUBSET Processes
      BY <1>2, <1>17, StopTypes DEF StopFailedStart, Kinds
    <2>2. runtime' \in [Sessions -> Runtimes \cup {NoRuntime}]
      BY <1>2, <1>17, DropTypes DEF StopFailedStart, Kinds
    <2>3. op' # Idle => /\ op' \in OpStates /\ op'.s = op.s /\ op'.kind = op.kind
                        /\ op'.at = "failed" /\ op'.copy \in Rows
      BY <1>1, <1>2, <1>4, <1>17, <1>5, PersistsTypes DEF StopFailedStart
    <2>4. OpOK'
      BY <1>1, <1>2, <2>3, OpOKKept
    <2>5. unsaved' \in Marks
      BY <1>3, <1>17 DEF StopFailedStart, Marks
    <2> QED BY <1>1, <1>3, <1>17, <2>1, <2>2, <2>3, <2>4, <2>5, OpStepTypes DEF StopFailedStart
  <1>18. CASE RecordFailure
    <2>1. /\ disk' \in [Sessions -> Rows \cup {NoRow, Deleted}]
          /\ disturbed' \in SUBSET Sessions /\ unsaved' \in Marks
      BY <1>1, <1>2, <1>18, LandsTypes DEF RecordFailure, Lands
    <2>2. given' \in SUBSET Sessions /\ op' = Idle /\ OpOK'
      BY <1>2, <1>18, ThrowsTypes DEF RecordFailure, OpOK
    <2> QED BY <1>1, <1>3, <1>18, <2>1, <2>2, OpStepTypes DEF RecordFailure
  <1> QED BY <1>6, <1>7, <1>9, <1>10, <1>11, <1>12, <1>13, <1>14, <1>17, <1>18, <1>15, <1>16
          DEF StartSteps

\* The step under way and what it has, for the steps of a session's mutation.
LEMMA OpContext ==
    ASSUME TypeInv, op # Idle, op.at \notin WarmUpPoints \cup {"deleting"}
    PROVE  /\ TypeOK /\ op \in OpStates /\ op.s \in Sessions /\ op.copy \in Rows
           /\ op.kind \in OpKinds /\ service # "down"
           /\ disk \in [Sessions -> Rows \cup {NoRow, Deleted}]
           /\ runtime \in [Sessions -> Runtimes \cup {NoRuntime}]
           /\ active \in Sessions \cup {NoSession} /\ given \in SUBSET Sessions
           /\ alive \in SUBSET Processes /\ warmup \in BOOLEAN /\ stray \in Strays /\ unsaved \in Marks
           /\ disturbed \in SUBSET Sessions /\ faults \in 0 .. MaxFaults
  BY OpHas, OpFields DEF TypeOK, Strays, Marks

\* The steps of stopRecording.
LEMMA StopStepTypes ==
    ASSUME TypeInv, StopSteps
    PROVE  TypeInv'
  <1>1. op # Idle /\ op.at \in {"stopping", "halting", "halted"}
    BY DEF StopSteps, RecordStop, Halt, Release, At
  <1>2. /\ TypeOK /\ op \in OpStates /\ op.s \in Sessions /\ op.copy \in Rows
        /\ runtime \in [Sessions -> Runtimes \cup {NoRuntime}]
        /\ disk \in [Sessions -> Rows \cup {NoRow, Deleted}]
        /\ active \in Sessions \cup {NoSession} /\ given \in SUBSET Sessions
        /\ alive \in SUBSET Processes /\ warmup \in BOOLEAN /\ stray \in Strays /\ unsaved \in Marks
        /\ disturbed \in SUBSET Sessions /\ faults \in 0 .. MaxFaults
    BY <1>1, OpContext DEF WarmUpPoints
  <1>3. {"halting", "halted", "tapping", "booting"} \subseteq Points
    BY DEF Points
  <1>4. /\ [op.copy EXCEPT !.recording = "none"] \in Rows
        /\ [op.copy EXCEPT !.status = "ingesting"] \in Rows
        /\ [op.copy EXCEPT !.status = "booting-query-mode"] \in Rows
    BY <1>2, StatusNames, ChangedRows
  <1> USE DEF memory, world, bounds, marks, ghosts
  <1>5. CASE RecordStop
    <2>1. /\ disk' \in [Sessions -> Rows \cup {NoRow, Deleted}]
          /\ disturbed' \in SUBSET Sessions /\ unsaved' \in Marks
      BY <1>1, <1>2, <1>5, LandsTypes DEF RecordStop, Lands
    <2>2. /\ runtime' \in [Sessions -> Runtimes \cup {NoRuntime}]
          /\ given' \in SUBSET Sessions
          /\ op' # Idle => /\ op' \in OpStates /\ op'.s = op.s /\ op'.kind = op.kind
                           /\ op'.at \in {"halted", "halting"} /\ op'.copy \in Rows
      <3>1. CASE Persists("halted", op.copy) /\ UNCHANGED <<runtime, given>>
        BY <1>1, <1>2, <1>3, <3>1, PersistsTypes
      <3>2. CASE runtime' = Allow(op.s, "recording") /\ Goes("halting", op.copy)
                   /\ UNCHANGED given
        BY <1>1, <1>2, <1>3, <3>2, GoesTypes, AllowTypes DEF SameRuntimes, Kinds
      <3>3. CASE Throws /\ UNCHANGED runtime
        BY <1>1, <1>2, <3>3, ThrowsTypes
      <3> QED BY <1>5, <3>1, <3>2, <3>3 DEF RecordStop
    <2>3. OpOK'
      BY <1>1, <1>2, <2>2, OpOKKept DEF StartPoints
    <2> QED BY <1>1, <1>2, <1>5, <2>1, <2>2, <2>3, OpStepTypes DEF RecordStop
  <1>6. CASE Halt
    <2>1. /\ alive' \in SUBSET Processes
          /\ runtime' \in [Sessions -> Runtimes \cup {NoRuntime}]
      BY <1>2, <1>6, StopTypes, DropTypes DEF Halt, Kinds
    <2>2. op' # Idle => /\ op' \in OpStates /\ op'.s = op.s /\ op'.kind = op.kind
                        /\ op'.at = "halted" /\ op'.copy \in Rows
      BY <1>1, <1>2, <1>3, <1>4, <1>6, PersistsTypes DEF Halt
    <2>3. OpOK'
      BY <1>1, <1>2, <2>2, OpOKKept DEF StartPoints
    <2> QED BY <1>1, <1>2, <1>6, <2>1, <2>2, <2>3, OpStepTypes DEF Halt
  <1>7. CASE Release
    <2>1. Unseated(op.s) \in SUBSET Sessions
      BY <1>2 DEF Unseated
    <2>2. /\ disk' \in [Sessions -> Rows \cup {NoRow, Deleted}]
          /\ disturbed' \in SUBSET Sessions /\ unsaved' \in Marks
      BY <1>1, <1>2, <1>7, <2>1, LandsTypes DEF Release
    <2>3. op' # Idle => /\ op' \in OpStates /\ op'.s = op.s /\ op'.kind = op.kind
                        /\ op'.at \in {"tapping", "booting"} /\ op'.copy \in Rows
      BY <1>1, <1>2, <1>3, <1>4, <1>7, PersistsTypes DEF Release
    <2>4. OpOK'
      BY <1>1, <1>2, <2>3, OpOKKept DEF StartPoints
    <2> QED BY <1>1, <1>2, <1>7, <2>2, <2>3, <2>4, OpStepTypes DEF Release
  <1> QED BY <1>5, <1>6, <1>7 DEF StopSteps

\* The end of an ingest: its query process is stopped, or there is none.
LEMMA StopQueryTypes ==
    ASSUME TypeOK, op # Idle, op.s \in Sessions, NEW copy \in Rows, StopQuery(copy)
    PROVE  /\ SameRuntimes /\ given' \in SUBSET Sessions /\ given \subseteq given'
           /\ \/ /\ Handle(op.s, "query")
                 /\ op' \in OpStates /\ op' # Idle /\ op'.kind = op.kind /\ op'.s = op.s
                 /\ op'.at = "closing" /\ op'.copy = copy
              \/ ~Handle(op.s, "query") /\ op' = Idle
  <1>1. CASE Handle(op.s, "query")
    <2>1. runtime' = Allow(op.s, "query") /\ Goes("closing", copy) /\ given' = given
      BY <1>1 DEF StopQuery
    <2>2. "closing" \in Points /\ "query" \in Kinds
      BY DEF Points, Kinds
    <2> QED BY <1>1, <2>1, <2>2, AllowTypes, GoesTypes DEF TypeOK
  <1>2. CASE ~Handle(op.s, "query")
    <2>1. runtime' = runtime /\ (Throws \/ Ends)
      BY <1>2 DEF StopQuery
    <2>2. SameRuntimes
      BY <2>1 DEF TypeOK, SameRuntimes, Known, Reused, Handle
    <2>3. given \subseteq given'
      BY <2>1 DEF Throws, Ends
    <2> QED BY <1>2, <2>1, <2>2, <2>3, ThrowsTypes
  <1> QED BY <1>1, <1>2

\* An ingest that fails goes on to its end, or is cut off by a shutdown.
LEMMA IngestFailedTypes ==
    ASSUME TypeOK, op # Idle, op.s \in Sessions, op.copy \in Rows, IngestFailed
    PROVE  /\ SameRuntimes /\ given' \in SUBSET Sessions /\ given \subseteq given'
           /\ \/ op' = Idle /\ ~Running /\ ~Handle(op.s, "query")
              \/ /\ op' \in OpStates /\ op' # Idle /\ op'.kind = op.kind /\ op'.s = op.s
                 /\ op'.at \in {"finishing", "closing"} /\ op'.copy \in Rows
                 /\ op'.copy.status = "failed" /\ op'.copy.recording = op.copy.recording
                 /\ op'.copy.query = op.copy.query
  <1> DEFINE copy == [op.copy EXCEPT !.status = "failed"]
  <1>1. /\ copy \in Rows /\ copy.status = "failed" /\ copy.recording = op.copy.recording
        /\ copy.query = op.copy.query
    BY StatusNames DEF Rows
  <1>2. IF Running THEN Goes("finishing", copy) /\ UNCHANGED <<runtime, given>>
        ELSE StopQuery(copy)
    BY DEF IngestFailed
  <1> HIDE DEF copy
  <1>3. CASE Running
    <2>1. SameRuntimes /\ given' = given /\ given \in SUBSET Sessions
      BY <1>2, <1>3 DEF TypeOK, SameRuntimes, Known, Reused, Handle
    <2>2. "finishing" \in Points
      BY DEF Points
    <2> QED BY <1>1, <1>2, <1>3, <2>1, <2>2, GoesTypes
  <1>4. CASE ~Running
    BY <1>1, <1>2, <1>4, StopQueryTypes
  <1> QED BY <1>3, <1>4

\* The runtime of a query process, with its handle once it is up.
LEMMA ReadiedTypes ==
    ASSUME TypeOK, op.s \in Sessions, NEW handles \in SUBSET Kinds,
           runtime' = Readied(op.s, handles)
    PROVE  /\ runtime' \in [Sessions -> Runtimes \cup {NoRuntime}]
           /\ \A t \in Sessions :
                 /\ Known(t) => Known(t)'
                 /\ Reused(t)' <=> Reused(t)
                 /\ \A kind \in Kinds :
                       Handle(t, kind)' <=> Handle(t, kind) \/ (t = op.s /\ kind \in handles)
  <1>1. runtime \in [Sessions -> Runtimes \cup {NoRuntime}]
    BY DEF TypeOK
  <1> DEFINE old   == IF runtime[op.s] = NoRuntime THEN NewRuntime(FALSE) ELSE runtime[op.s]
             entry == [old EXCEPT !.handles = @ \cup handles, !.allowed = @ \ {"query"}]
  <1>2. runtime' = [runtime EXCEPT ![op.s] = entry]
    BY <1>1 DEF Readied
  <1>3. old \in Runtimes
    BY <1>1 DEF NewRuntime, Runtimes
  <1>4. /\ old.handles = IF runtime[op.s] = NoRuntime THEN {} ELSE runtime[op.s].handles
        /\ old.reused = IF runtime[op.s] = NoRuntime THEN FALSE ELSE runtime[op.s].reused
    BY DEF NewRuntime
  <1> HIDE DEF old
  <1>5. /\ entry \in Runtimes /\ entry.handles = old.handles \cup handles
        /\ entry.reused = old.reused
    BY <1>3 DEF Runtimes, Kinds
  <1> HIDE DEF entry
  <1>6. /\ runtime' \in [Sessions -> Runtimes \cup {NoRuntime}]
        /\ runtime'[op.s] = entry /\ \A t \in Sessions : t # op.s => runtime'[t] = runtime[t]
    BY <1>1, <1>2, <1>5
  <1>7. entry # NoRuntime
    BY <1>5, RuntimeFields
  <1>8. ASSUME NEW t \in Sessions
        PROVE  /\ Known(t) => Known(t)'
               /\ Reused(t)' <=> Reused(t)
               /\ \A kind \in Kinds :
                     Handle(t, kind)' <=> Handle(t, kind) \/ (t = op.s /\ kind \in handles)
    <2>1. CASE t = op.s
      <3>1. runtime'[t] = entry
        BY <1>6, <2>1
      <3>2. Known(t)'
        BY <1>7, <3>1 DEF Known
      <3>3. Reused(t)' <=> Reused(t)
        <4>1. Reused(t)' <=> entry.reused
          BY <3>1, <3>2 DEF Reused
        <4>2. CASE runtime[op.s] = NoRuntime
          BY <1>4, <1>5, <2>1, <4>1, <4>2 DEF Reused, Known
        <4>3. CASE runtime[op.s] # NoRuntime
          BY <1>4, <1>5, <2>1, <4>1, <4>3 DEF Reused, Known
        <4> QED BY <4>2, <4>3
      <3>4. \A kind \in Kinds :
               Handle(t, kind)' <=> Handle(t, kind) \/ (t = op.s /\ kind \in handles)
        <4>1. \A kind \in Kinds : Handle(t, kind)' <=> kind \in entry.handles
          BY <1>7, <3>1 DEF Handle
        <4>2. \A kind \in Kinds : Handle(t, kind) <=> kind \in old.handles
          BY <1>4, <2>1 DEF Handle
        <4> QED BY <1>5, <2>1, <4>1, <4>2
      <3> QED BY <3>2, <3>3, <3>4
    <2>2. CASE t # op.s
      BY <1>6, <2>2 DEF Known, Reused, Handle
    <2> QED BY <2>1, <2>2
  <1> QED BY <1>6, <1>8

\* The steps of runIngestForSession.
LEMMA IngestTypes ==
    ASSUME TypeInv, IngestSteps
    PROVE  TypeInv'
  <1>1. op # Idle /\ op.at \in {"booting", "query spawning", "query spawned", "query waiting",
                                "analysing", "tapping", "ingesting", "finishing", "closing"}
    BY DEF IngestSteps, Boot, SpawnQuery, SpawnQueryFails, RecordQueryPid, QueryReady,
           QueryNotReady, Analyse, Ingest, IngestFails, Finish, Close,
           IngestWriteFails, At
  <1>2. /\ TypeOK /\ op \in OpStates /\ op.s \in Sessions /\ op.copy \in Rows
        /\ runtime \in [Sessions -> Runtimes \cup {NoRuntime}]
        /\ disk \in [Sessions -> Rows \cup {NoRow, Deleted}]
        /\ active \in Sessions \cup {NoSession} /\ given \in SUBSET Sessions
        /\ alive \in SUBSET Processes /\ warmup \in BOOLEAN /\ stray \in Strays /\ unsaved \in Marks
        /\ disturbed \in SUBSET Sessions /\ faults \in 0 .. MaxFaults
    BY <1>1, OpContext DEF WarmUpPoints
  <1>3. {"query spawning", "query spawned", "query waiting", "analysing", "ingesting",
         "finishing", "closing", "closed"} \subseteq Points
    BY DEF Points
  <1>4. /\ [op.copy EXCEPT !.query = "running"] \in Rows
        /\ [op.copy EXCEPT !.query = "none"] \in Rows
        /\ [op.copy EXCEPT !.status = "ingesting"] \in Rows
        /\ [op.copy EXCEPT !.status = "ready", !.ingested = TRUE] \in Rows
    BY <1>2, StatusNames, ChangedRows
  <1> DEFINE Onward == op' # Idle => /\ op' \in OpStates /\ op'.s = op.s /\ op'.kind = op.kind
                                     /\ op'.copy \in Rows
                                     /\ op'.at \notin StartPoints \cup {"stopping", "scheduling"}
             Written == /\ disk' \in [Sessions -> Rows \cup {NoRow, Deleted}]
                        /\ disturbed' \in SUBSET Sessions /\ unsaved' \in Marks
  <1>5. ASSUME Lands
        PROVE  Written
    BY <1>1, <1>2, <1>5, LandsTypes DEF Lands
  <1>6. ASSUME Onward
        PROVE  OpOK'
    BY <1>1, <1>2, <1>6, OpOKKept DEF StartPoints
  <1>7. ASSUME NEW point \in {"query spawning", "query spawned", "query waiting", "analysing",
                              "ingesting", "finishing"},
               NEW copy \in Rows, Goes(point, copy)
        PROVE  Onward
    BY <1>1, <1>2, <1>3, <1>7, GoesTypes DEF StartPoints
  <1>8. CASE /\ op.at \in {"query waiting", "ingesting", "analysing", "finishing"}
             /\ IngestFailed /\ faults' \in 0 .. MaxFaults /\ unsaved' \in Marks
             /\ UNCHANGED <<disk, active, due, world, rest, disturbed, begun>>
    <2>1. runtime' \in [Sessions -> Runtimes \cup {NoRuntime}] /\ given' \in SUBSET Sessions
      BY <1>1, <1>2, <1>8, IngestFailedTypes DEF SameRuntimes
    <2>2. Onward
      BY <1>1, <1>2, <1>8, IngestFailedTypes DEF StartPoints
    <2>3. OpOK'
      BY <1>6, <2>2
    <2> QED BY <1>1, <1>2, <1>8, <2>1, <2>2, <2>3, OpStepTypes DEF world
  <1> USE DEF memory, world, bounds, marks, ghosts
  <1>9. CASE Boot
    <2>1. Written /\ Onward /\ OpOK'
      BY <1>2, <1>5, <1>6, <1>7, <1>9 DEF Boot
    <2> QED BY <1>1, <1>2, <1>9, <2>1, OpStepTypes DEF Boot
  <1>10. CASE SpawnQuery
    <2>1. Onward /\ OpOK'
      BY <1>4, <1>6, <1>7, <1>10 DEF SpawnQuery
    <2>2. runtime' \in [Sessions -> Runtimes \cup {NoRuntime}]
      BY <1>2, <1>10, ReadiedTypes, StatusNames DEF SpawnQuery
    <2>3. stray' \in Strays
      BY <1>2, <1>10 DEF SpawnQuery, Strays, Processes
    <2>4. unsaved' \in Marks
      BY <1>2, <1>10 DEF SpawnQuery, Marks
    <2>5. alive' \in SUBSET Processes
      <3>1. alive' = alive \cup {<<op.s, "query">>} /\ <<op.s, "query">> \in Processes
        BY <1>2, <1>10 DEF SpawnQuery, Processes, Kinds
      <3> QED BY <1>2, <3>1
    <2> QED BY <1>1, <1>2, <1>10, <2>1, <2>2, <2>5, <2>3, <2>4, OpStepTypes DEF SpawnQuery
  <1>11. CASE SpawnQueryFails
    <2>1. given' \in SUBSET Sessions /\ op' = Idle
      BY <1>2, <1>11, ThrowsTypes DEF SpawnQueryFails
    <2>2. OpOK'
      BY <1>6, <2>1
    <2>3. stray' \in Strays /\ faults' \in 0 .. MaxFaults
      BY <1>2, <1>11, SpawnFailedTypes, StatusNames DEF SpawnQueryFails
    <2>4. runtime' \in [Sessions -> Runtimes \cup {NoRuntime}]
      <3>1. CASE UNCHANGED runtime
        BY <1>2, <3>1
      <3>2. CASE runtime' = Readied(op.s, {})
        BY <1>2, <3>2, ReadiedTypes
      <3> QED BY <1>11, <3>1, <3>2 DEF SpawnQueryFails
    <2> QED BY <1>1, <1>2, <1>11, <2>1, <2>2, <2>3, <2>4, OpStepTypes DEF SpawnQueryFails
  <1>12. CASE RecordQueryPid
    <2>1. Written /\ Onward /\ OpOK'
      BY <1>2, <1>5, <1>6, <1>7, <1>12 DEF RecordQueryPid
    <2> QED BY <1>1, <1>2, <1>12, <2>1, OpStepTypes DEF RecordQueryPid
  <1>13. CASE QueryReady
    <2>1. Onward /\ OpOK'
      BY <1>4, <1>6, <1>7, <1>13 DEF QueryReady
    <2> QED BY <1>1, <1>2, <1>13, <2>1, OpStepTypes DEF QueryReady
  <1>14. CASE QueryNotReady
    <2>1. faults' \in 0 .. MaxFaults
      BY <1>2, <1>14, FaultTypes DEF QueryNotReady
    <2> QED BY <1>2, <1>8, <1>14, <2>1 DEF QueryNotReady, At
  <1>15. CASE Analyse
    <2>1. Written /\ Onward /\ OpOK'
      BY <1>2, <1>5, <1>6, <1>7, <1>15 DEF Analyse
    <2> QED BY <1>1, <1>2, <1>15, <2>1, OpStepTypes DEF Analyse
  <1>16. CASE Ingest
    <2>1. Onward /\ OpOK'
      BY <1>4, <1>6, <1>7, <1>16 DEF Ingest
    <2> QED BY <1>1, <1>2, <1>16, <2>1, OpStepTypes DEF Ingest
  <1>17. CASE IngestFails
    <2>1. faults' \in 0 .. MaxFaults
      BY <1>2, <1>17, FaultTypes DEF IngestFails
    <2> QED BY <1>2, <1>8, <1>17, <2>1 DEF IngestFails, At
  <1>18. CASE Finish
    <2>1. runtime' \in [Sessions -> Runtimes \cup {NoRuntime}] /\ given' \in SUBSET Sessions
      BY <1>1, <1>2, <1>18, StopQueryTypes DEF Finish, SameRuntimes
    <2>2. Onward
      BY <1>1, <1>2, <1>18, StopQueryTypes DEF Finish, StartPoints
    <2>3. Written /\ OpOK'
      BY <1>5, <1>6, <1>18, <2>2 DEF Finish
    <2> QED BY <1>1, <1>2, <1>18, <2>1, <2>2, <2>3, OpStepTypes DEF Finish
  <1>19. CASE IngestWriteFails
    <2>1. unsaved' \in Marks /\ faults' \in 0 .. MaxFaults
      BY <1>1, <1>2, <1>19, WriteFailsTypes DEF IngestWriteFails
    <2>2. CASE IngestFailed
      BY <1>8, <1>19, <2>1, <2>2 DEF IngestWriteFails
    <2>3. CASE StopQuery(op.copy)
      <3>1. runtime' \in [Sessions -> Runtimes \cup {NoRuntime}] /\ given' \in SUBSET Sessions
        BY <1>1, <1>2, <2>3, StopQueryTypes DEF SameRuntimes
      <3>2. Onward
        BY <1>1, <1>2, <2>3, StopQueryTypes DEF StartPoints
      <3>3. OpOK'
        BY <1>6, <3>2
      <3> QED BY <1>1, <1>2, <1>19, <2>1, <3>1, <3>2, <3>3, OpStepTypes DEF IngestWriteFails
    <2> QED BY <1>19, <2>2, <2>3 DEF IngestWriteFails
  <1>20. CASE Close
    <2>1. /\ alive' \in SUBSET Processes
          /\ runtime' \in [Sessions -> Runtimes \cup {NoRuntime}]
      BY <1>2, <1>20, StopTypes, DropTypes DEF Close, Kinds
    <2>2. Onward
      BY <1>1, <1>2, <1>3, <1>4, <1>20, PersistsTypes DEF Close, StartPoints
    <2>3. OpOK'
      BY <1>6, <2>2
    <2> QED BY <1>1, <1>2, <1>20, <2>1, <2>2, <2>3, OpStepTypes DEF Close
  <1> QED BY <1>9, <1>10, <1>11, <1>12, <1>13, <1>14, <1>15, <1>16, <1>17, <1>18, <1>20,
             <1>19 DEF IngestSteps

\* The other steps of a mutation under way, and those of a bootstrap.
LEMMA OtherTypes ==
    ASSUME TypeInv, OtherSteps \/ BootstrapSteps
    PROVE  TypeInv'
  <1>1. op # Idle
    BY DEF OtherSteps, BootstrapSteps, Conclude, RefusedByShutdown, RecordStage, StageEnds,
           Delete, WriteThrows, RequestThrows, StageWriteFails, WarmUp, CoolDown, At
  <1>2. /\ TypeOK /\ op \in OpStates
        /\ runtime \in [Sessions -> Runtimes \cup {NoRuntime}]
        /\ disk \in [Sessions -> Rows \cup {NoRow, Deleted}]
        /\ active \in Sessions \cup {NoSession} /\ given \in SUBSET Sessions
        /\ alive \in SUBSET Processes /\ warmup \in BOOLEAN /\ stray \in Strays /\ unsaved \in Marks
        /\ disturbed \in SUBSET Sessions /\ faults \in 0 .. MaxFaults
    BY <1>1, OpHas DEF TypeOK, Strays, Marks
  <1>3. /\ op.at \notin WarmUpPoints => op.s \in Sessions
        /\ op.at \notin WarmUpPoints \cup {"deleting"} => op.copy \in Rows
    BY <1>1, OpHas
  <1>4. {"stage running", "staged", "stage failed", "cooling down"} \subseteq Points
    BY DEF Points
  <1> USE DEF memory, world, bounds, marks, ghosts
  <1>5. CASE Conclude
    <2>1. op.s \in Sessions /\ op.copy \in Rows
      BY <1>3, <1>5 DEF Conclude, WarmUpPoints
    <2>2. /\ disk' \in [Sessions -> Rows \cup {NoRow, Deleted}]
          /\ disturbed' \in SUBSET Sessions /\ unsaved' \in Marks
      BY <1>1, <1>2, <1>5, <2>1, LandsTypes DEF Conclude, Lands
    <2>3. op' = Idle /\ given' \in SUBSET Sessions
      BY <1>2, <1>5, <2>1, ThrowsTypes DEF Conclude
    <2>4. OpOK'
      BY <2>3 DEF OpOK
    <2> QED BY <1>1, <1>2, <1>5, <2>2, <2>3, <2>4, OpStepTypes DEF Conclude
  <1>6. CASE RefusedByShutdown
    <2>1. op' = Idle /\ OpOK'
      BY <1>6 DEF RefusedByShutdown, OpOK
    <2> QED BY <1>1, <1>2, <1>6, <2>1, OpStepTypes DEF RefusedByShutdown
  <1>7. CASE RecordStage
    <2>1. op.s \in Sessions /\ op.copy \in Rows
      BY <1>3, <1>7 DEF RecordStage, At, WarmUpPoints
    <2>2. /\ disk' \in [Sessions -> Rows \cup {NoRow, Deleted}]
          /\ disturbed' \in SUBSET Sessions /\ unsaved' \in Marks
      BY <1>1, <1>2, <1>7, <2>1, LandsTypes DEF RecordStage, Lands
    <2>3. /\ op' \in OpStates /\ op'.s = op.s /\ op'.kind = op.kind
          /\ op'.at = "stage running" /\ op'.copy \in Rows
      BY <1>1, <1>2, <1>4, <1>7, <2>1, GoesTypes DEF RecordStage
    <2>4. OpOK'
      BY <1>1, <2>1, <2>3, OpOKKept DEF StartPoints
    <2> QED BY <1>1, <1>2, <1>7, <2>2, <2>3, <2>4, OpStepTypes DEF RecordStage
  <1>8. CASE StageEnds
    <2>1. op.s \in Sessions /\ op.copy \in Rows
      BY <1>3, <1>8 DEF StageEnds, At, WarmUpPoints
    <2>2. [op.copy EXCEPT !.status = "ready"] \in Rows
      BY <2>1, StatusNames, ChangedRows
    <2>3. /\ op' \in OpStates /\ op'.s = op.s /\ op'.kind = op.kind
          /\ op'.at \in {"staged", "stage failed"} /\ op'.copy \in Rows
      BY <1>1, <1>2, <1>4, <1>8, <2>2, GoesTypes DEF StageEnds
    <2>4. OpOK'
      BY <1>1, <2>1, <2>3, OpOKKept DEF StartPoints
    <2> QED BY <1>1, <1>2, <1>8, <2>3, <2>4, OpStepTypes DEF StageEnds
  <1>9. CASE WriteThrows
    <2>1. op.s \in Sessions /\ op.copy \in Rows
      BY <1>3, <1>9 DEF WriteThrows, WarmUpPoints
    <2>2. unsaved' \in Marks /\ faults' \in 0 .. MaxFaults
      BY <1>1, <1>2, <1>9, <2>1, WriteFailsTypes, StatusNames DEF WriteThrows
    <2>3. op' = Idle /\ given' \in SUBSET Sessions /\ OpOK'
      BY <1>2, <1>9, <2>1, ThrowsTypes DEF WriteThrows, OpOK
    <2> QED BY <1>1, <1>2, <1>9, <2>2, <2>3, OpStepTypes DEF WriteThrows
  <1>10. CASE RequestThrows
    <2>1. op' = Idle /\ OpOK'
      BY <1>10 DEF RequestThrows, OpOK
    <2>2. faults' \in 0 .. MaxFaults
      BY <1>2, <1>10, FaultTypes DEF RequestThrows
    <2> QED BY <1>1, <1>2, <1>10, <2>1, <2>2, OpStepTypes DEF RequestThrows
  <1>11. CASE StageWriteFails
    <2>1. op.s \in Sessions /\ op.copy \in Rows
      BY <1>3, <1>11 DEF StageWriteFails, At, WarmUpPoints
    <2>2. unsaved' \in Marks /\ faults' \in 0 .. MaxFaults
      BY <1>1, <1>2, <1>11, <2>1, WriteFailsTypes DEF StageWriteFails
    <2>3. op' # Idle => /\ op' \in OpStates /\ op'.s = op.s /\ op'.kind = op.kind
                        /\ op'.at = "stage failed" /\ op'.copy \in Rows
      BY <1>1, <1>2, <1>4, <1>11, <2>1, PersistsTypes DEF StageWriteFails
    <2>4. OpOK'
      BY <1>1, <2>1, <2>3, OpOKKept DEF StartPoints
    <2> QED BY <1>1, <1>2, <1>11, <2>2, <2>3, <2>4, OpStepTypes DEF StageWriteFails
  <1>12. CASE Delete
    <2>1. disk' \in [Sessions -> Rows \cup {NoRow, Deleted}]
      BY <1>2, <1>12 DEF Delete
    <2>2. op' = Idle /\ OpOK'
      BY <1>12 DEF Delete, OpOK
    <2> QED BY <1>1, <1>2, <1>12, <2>1, <2>2, OpStepTypes DEF Delete
  <1>13. CASE WarmUp
    <2>1. /\ op' \in OpStates /\ op'.kind = op.kind /\ op'.at = "cooling down"
      BY <1>1, <1>2, <1>4, <1>13, GoesTypes DEF WarmUp
    <2>2. OpOK'
      BY <2>1 DEF OpOK, WarmUpPoints, StartPoints
    <2> QED BY <1>1, <1>2, <1>13, <2>1, <2>2, OpStepTypes DEF WarmUp
  <1>14. CASE CoolDown
    <2>1. op' = Idle /\ OpOK'
      BY <1>14 DEF CoolDown, OpOK
    <2> QED BY <1>1, <1>2, <1>14, <2>1, OpStepTypes DEF CoolDown
  <1> QED BY <1>5, <1>6, <1>7, <1>8, <1>12, <1>13, <1>14, <1>9, <1>10, <1>11
          DEF OtherSteps, BootstrapSteps

\* A mutation begins, or nothing changes in it.
LEMMA RequestTypes ==
    ASSUME TypeInv, Requests
    PROVE  TypeInv'
  <1>1. Asked
    BY DEF Requests, BeginStart, BeginRetry, BeginStage, BeginDelete, BeginStop, BeginSchedule,
           BeginBootstrap
  <1>2. /\ TypeOK /\ op = Idle /\ service = "running"
        /\ runtime \in [Sessions -> Runtimes \cup {NoRuntime}]
        /\ disk \in [Sessions -> Rows \cup {NoRow, Deleted}]
        /\ begun' \in 0 .. MaxOps /\ alive \in SUBSET Processes /\ stray \in Strays
    BY <1>1, BoundsOK DEF TypeInv, TypeOK, Asked, Running, Strays
  <1>3. {"creating", "booting", "staging", "deleting", "stopping", "scheduling",
         "warming up"} \subseteq Points
    BY DEF Points
  <1>4. {"start", "reuse", "stop", "retry", "stage", "delete", "schedule",
         "bootstrap"} \subseteq OpKinds
    BY DEF OpKinds
  <1>5. NewRow \in Rows
    BY StatusNames
  <1>6. ASSUME NEW s \in Sessions, HasRow(s)
        PROVE  /\ disk[s] \in Rows
               /\ [disk[s] EXCEPT !.status = "booting-query-mode"] \in Rows
               /\ [disk[s] EXCEPT !.status = "processing"] \in Rows
               /\ [disk[s] EXCEPT !.status = "stopping", !.stopAsked = TRUE] \in Rows
    <2>1. disk[s] \in Rows
      BY <1>2, <1>6 DEF HasRow
    <2> QED BY <2>1, StatusNames, ChangedRows
  <1>7. ASSUME op' \in OpStates, runtime' \in [Sessions -> Runtimes \cup {NoRuntime}],
               OpOK', warmup' \in BOOLEAN,
               alive' \in SUBSET Processes, stray' \in Strays,
               UNCHANGED <<disk, active, due, given, rest, marks, faults>>
        PROVE  TypeInv'
    <2>1. TypeOK'
      BY <1>2, <1>7 DEF TypeOK, rest, marks, Strays
    <2>2. ServiceOK'
      BY <1>2, <1>7 DEF TypeInv, ServiceOK, rest, marks
    <2> QED BY <1>7, <2>1, <2>2 DEF TypeInv
  <1> USE DEF memory, world
  <1>8. ASSUME NEW s \in Sessions, BeginStart(s)
        PROVE  TypeInv'
    <2>1. /\ op' \in OpStates /\ op'.kind \in {"start", "reuse"} /\ op'.s = s
          /\ op'.at = "creating" /\ op'.copy \in Rows
      BY <1>3, <1>4, <1>5, <1>8, BeginsTypes DEF BeginStart
    <2>2. OpOK'
      BY <2>1 DEF OpOK
    <2> QED BY <1>2, <1>7, <1>8, <2>1, <2>2 DEF BeginStart, TypeOK
  <1>9. ASSUME NEW s \in Sessions, BeginRetry(s)
        PROVE  TypeInv'
    <2>1. /\ op' \in OpStates /\ op'.kind = "retry" /\ op'.s = s
          /\ op'.at = "booting" /\ op'.copy \in Rows
      <3>1. Begins("retry", s, "booting", [disk[s] EXCEPT !.status = "booting-query-mode"])
        BY <1>9 DEF BeginRetry
      <3>2. [disk[s] EXCEPT !.status = "booting-query-mode"] \in Rows
        BY <1>6, <1>9 DEF BeginRetry
      <3> QED BY <1>3, <1>4, <3>1, <3>2, BeginsTypes
    <2>2. OpOK'
      BY <2>1 DEF OpOK, StartPoints
    <2> QED BY <1>2, <1>7, <1>9, <2>1, <2>2 DEF BeginRetry, TypeOK
  <1>10. ASSUME NEW s \in Sessions, BeginStage(s)
         PROVE  TypeInv'
    <2>1. /\ op' \in OpStates /\ op'.kind = "stage" /\ op'.s = s
          /\ op'.at = "staging" /\ op'.copy \in Rows
      <3>1. Begins("stage", s, "staging", [disk[s] EXCEPT !.status = "processing"])
        BY <1>10 DEF BeginStage
      <3>2. [disk[s] EXCEPT !.status = "processing"] \in Rows
        BY <1>6, <1>10 DEF BeginStage
      <3> QED BY <1>3, <1>4, <3>1, <3>2, BeginsTypes
    <2>2. OpOK'
      BY <2>1 DEF OpOK, StartPoints
    <2> QED BY <1>2, <1>7, <1>10, <2>1, <2>2 DEF BeginStage, TypeOK
  <1>11. ASSUME NEW s \in Sessions, BeginDelete(s)
         PROVE  TypeInv'
    <2>1. /\ op' \in OpStates /\ op'.kind = "delete" /\ op'.s = s /\ op'.at = "deleting"
      BY <1>3, <1>4, <1>11, BeginsTypes DEF BeginDelete
    <2>2. OpOK'
      BY <2>1 DEF OpOK, StartPoints, WarmUpPoints
    <2>3. runtime' \in [Sessions -> Runtimes \cup {NoRuntime}]
      BY <1>2, <1>11 DEF BeginDelete, Forget
    <2>4. alive' \in SUBSET Processes /\ stray' \in Strays
      BY <1>2, <1>11 DEF BeginDelete, Forget, Strays, Processes
    <2> QED BY <1>2, <1>7, <1>11, <2>1, <2>2, <2>3, <2>4 DEF BeginDelete, TypeOK
  <1>12. CASE BeginStop
    <2>1. active \in Sessions /\ HasRow(active)
      BY <1>2, <1>12 DEF BeginStop, TypeOK
    <2>2. /\ op' \in OpStates /\ op'.kind = "stop" /\ op'.s = active
          /\ op'.at = "stopping" /\ op'.copy \in Rows
      <3>1. Begins("stop", active, "stopping", [disk[active] EXCEPT !.status = "stopping", !.stopAsked = TRUE])
        BY <1>12 DEF BeginStop, BeginsStop
      <3>2. [disk[active] EXCEPT !.status = "stopping", !.stopAsked = TRUE] \in Rows
        BY <1>6, <1>12, <2>1 DEF BeginStop
      <3> QED BY <1>3, <1>4, <3>1, <3>2, <2>1, BeginsTypes
    <2>3. OpOK'
      BY <2>1, <2>2 DEF OpOK, StartPoints
    <2>4. runtime' \in [Sessions -> Runtimes \cup {NoRuntime}]
      BY <1>2, <1>12, <2>1, ClearTypes DEF BeginStop, BeginsStop, SameRuntimes
    <2> QED BY <1>2, <1>7, <1>12, <2>2, <2>3, <2>4 DEF BeginStop, TypeOK
  <1>13. CASE BeginSchedule
    <2>1. active \in Sessions /\ HasRow(active)
      BY <1>2, <1>13 DEF BeginSchedule, TypeOK
    <2>2. /\ op' \in OpStates /\ op'.kind = "schedule" /\ op'.s = active
          /\ op'.at = "scheduling" /\ op'.copy \in Rows
      BY <1>3, <1>4, <1>6, <1>13, <2>1, BeginsTypes DEF BeginSchedule
    <2>3. OpOK'
      BY <2>1, <2>2 DEF OpOK, StartPoints
    <2>4. runtime' \in [Sessions -> Runtimes \cup {NoRuntime}]
      BY <1>2, <1>13, <2>1, SetTypes DEF BeginSchedule
    <2> QED BY <1>2, <1>7, <1>13, <2>2, <2>3, <2>4 DEF BeginSchedule, TypeOK
  <1>14. CASE BeginBootstrap
    <2>1. /\ op' \in OpStates /\ op'.kind = "bootstrap" /\ op'.at = "warming up"
      BY <1>3, <1>4, <1>14, BeginsTypes DEF BeginBootstrap
    <2>2. OpOK'
      BY <2>1 DEF OpOK, StartPoints, WarmUpPoints
    <2> QED BY <1>2, <1>7, <1>14, <2>1, <2>2 DEF BeginBootstrap, TypeOK
  <1> QED BY <1>8, <1>9, <1>10, <1>11, <1>12, <1>13, <1>14 DEF Requests

\* Timers, and the stops they ask for.
LEMMA TimerTypes ==
    ASSUME TypeInv, NEW s \in Sessions, TimerSteps(s)
    PROVE  TypeInv'
  <1>1. /\ TypeOK
        /\ runtime \in [Sessions -> Runtimes \cup {NoRuntime}]
        /\ disk \in [Sessions -> Rows \cup {NoRow, Deleted}]
        /\ due \in SUBSET Sessions /\ given \in SUBSET Sessions
    BY DEF TypeInv, TypeOK
  <1>2. {"stopping", "marking"} \subseteq Points /\ {"timer", "giveup"} \subseteq OpKinds
    BY DEF Points, OpKinds
  <1> USE DEF memory, world, ghosts, marks, bounds, rest
  <1>3. CASE TimerFires(s)
    <2>1. SameRuntimes
      BY <1>1, <1>3, ClearTypes DEF TimerFires
    <2>2. due' \in SUBSET Sessions
      BY <1>1, <1>3 DEF TimerFires
    <2>3. TypeOK'
      BY <1>1, <1>3, <2>1, <2>2 DEF TimerFires, TypeOK, SameRuntimes
    <2>4. OpOK'
      <3>1. op' = op /\ service' = service /\ OpOK
        BY <1>3 DEF TimerFires, TypeInv
      <3>2. op # Idle /\ op.at = "spawning" /\ Running => runtime'[op.s] # NoRuntime
        BY <2>1, <3>1 DEF OpOK, SameRuntimes, Known, WarmUpPoints
      <3> QED BY <3>1, <3>2 DEF OpOK, Running
    <2>5. ServiceOK'
      BY <1>3, <2>1 DEF TypeInv, ServiceOK, TimerFires, SameRuntimes, Known
    <2> QED BY <2>3, <2>4, <2>5 DEF TypeInv
  <1>4. CASE BeginTimedStop(s)
    <2>1. op = Idle /\ service = "running" /\ due' \in SUBSET Sessions
      BY <1>1, <1>4 DEF BeginTimedStop, Running
    <2>2. /\ runtime' \in [Sessions -> Runtimes \cup {NoRuntime}]
          /\ op' \in OpStates \cup {Idle} /\ OpOK'
      <3>1. CASE HasRow(s) /\ IsRecording(s)
        <4>1. BeginsStop("timer", s)
          BY <1>4, <3>1 DEF BeginTimedStop
        <4>2. [disk[s] EXCEPT !.status = "stopping", !.stopAsked = TRUE] \in Rows
          BY <1>1, <3>1, ChangedRows DEF HasRow
        <4>3. /\ op' \in OpStates /\ op'.kind = "timer" /\ op'.s = s
              /\ op'.at = "stopping" /\ op'.copy \in Rows
          BY <1>2, <4>1, <4>2, BeginsTypes DEF BeginsStop
        <4>4. OpOK'
          BY <4>3 DEF OpOK, StartPoints
        <4> QED BY <1>1, <4>1, <4>3, <4>4, ClearTypes DEF BeginsStop, SameRuntimes
      <3>2. CASE ~(HasRow(s) /\ IsRecording(s))
        BY <1>1, <1>4, <2>1, <3>2 DEF BeginTimedStop, OpOK
      <3> QED BY <3>1, <3>2
    <2>3. TypeOK'
      BY <1>1, <1>4, <2>1, <2>2 DEF BeginTimedStop, TypeOK
    <2>4. ServiceOK'
      BY <1>4, <2>1 DEF TypeInv, ServiceOK, BeginTimedStop
    <2> QED BY <2>2, <2>3, <2>4 DEF TypeInv
  <1>5. CASE BeginMark(s)
    <2>1. op = Idle /\ service = "running" /\ given' \in SUBSET Sessions
      BY <1>1, <1>5 DEF BeginMark, Running
    <2>2. op' \in OpStates \cup {Idle} /\ OpOK'
      <3>1. CASE HasRow(s) /\ disk[s].status \notin Terminal
        <4>1. [disk[s] EXCEPT !.status = "failed"] \in Rows
          BY <1>1, <3>1, StatusNames, ChangedRows DEF HasRow
        <4>2. /\ op' \in OpStates /\ op'.kind = "giveup" /\ op'.s = s
              /\ op'.at = "marking" /\ op'.copy \in Rows
          BY <1>2, <1>5, <3>1, <4>1, BeginsTypes DEF BeginMark
        <4> QED BY <4>2 DEF OpOK, StartPoints
      <3>2. CASE ~(HasRow(s) /\ disk[s].status \notin Terminal)
        BY <1>5, <2>1, <3>2 DEF BeginMark, OpOK
      <3> QED BY <3>1, <3>2
    <2>3. TypeOK'
      BY <1>1, <1>5, <2>1, <2>2 DEF BeginMark, TypeOK
    <2>4. ServiceOK'
      BY <1>5, <2>1 DEF TypeInv, ServiceOK, BeginMark
    <2> QED BY <2>2, <2>3, <2>4 DEF TypeInv
  <1> QED BY <1>3, <1>4, <1>5 DEF TimerSteps

\* Processes that exit on their own, and the callbacks.
LEMMA ExitTypes ==
    ASSUME TypeInv, NEW s \in Sessions, NEW kind \in Kinds,
           ProcessExits(s, kind) \/ ExitSteps(s, kind)
    PROVE  TypeInv'
  <1>1. /\ TypeOK
        /\ runtime \in [Sessions -> Runtimes \cup {NoRuntime}]
        /\ disk \in [Sessions -> Rows \cup {NoRow, Deleted}]
        /\ exits \in [Processes -> Rows \cup {NoExit, Reading}]
        /\ alive \in SUBSET Processes /\ disturbed \in SUBSET Sessions
    BY DEF TypeInv, TypeOK
  <1>2. <<s, kind>> \in Processes
    BY DEF Processes
  <1> USE DEF memory, world, marks, bounds
  <1>3. ASSUME UNCHANGED <<op, service>>,
               \A t \in Sessions : runtime'[t] = NoRuntime <=> runtime[t] = NoRuntime
        PROVE  OpOK'
    BY <1>3 DEF TypeInv, OpOK, Running, WarmUpPoints
  <1>4. CASE ProcessExits(s, kind)
    <2>1. exits' \in [Processes -> Rows \cup {NoExit, Reading}]
      BY <1>1, <1>2, <1>4 DEF ProcessExits
    <2>2. alive' \in SUBSET Processes
      BY <1>1, <1>4 DEF ProcessExits
    <2>3. faults' \in 0 .. MaxFaults
      BY <1>1, <1>4, FaultTypes DEF ProcessExits
    <2>4. TypeOK'
      BY <1>1, <1>4, <2>1, <2>2, <2>3 DEF ProcessExits, TypeOK
    <2>5. OpOK'
      BY <1>3, <1>4 DEF ProcessExits
    <2>6. service = "down" => exits' = exits
      BY <1>4 DEF ProcessExits, Unexpected, Running
    <2>7. ServiceOK'
      BY <1>4, <2>6 DEF TypeInv, ServiceOK, ProcessExits
    <2> QED BY <2>4, <2>5, <2>7 DEF TypeInv
  <1>5. ASSUME service # "down", UNCHANGED <<service, op, closing, due, given, world, bounds>>,
               exits' \in [Processes -> Rows \cup {NoExit, Reading}],
               disk' \in [Sessions -> Rows \cup {NoRow, Deleted}],
               SameRuntimes, active' \in Sessions \cup {NoSession},
               disturbed' \in SUBSET Sessions, unsaved' \in Marks
        PROVE  TypeInv'
    <2>1. TypeOK'
      BY <1>1, <1>5 DEF TypeOK, SameRuntimes, Marks
    <2>2. OpOK'
      BY <1>3, <1>5 DEF SameRuntimes, Known
    <2>3. ServiceOK'
      BY <1>5 DEF TypeInv, ServiceOK
    <2> QED BY <2>1, <2>2, <2>3 DEF TypeInv
  <1>6. runtime' = runtime => SameRuntimes
    BY <1>1 DEF SameRuntimes, Known, Reused, Handle
  <1>7. CASE ReadForExit(s, kind)
    <2>1. exits[<<s, kind>>] # NoExit /\ service # "down"
      BY <1>2, <1>7, PlaceholdersAreNotValues DEF ReadForExit, TypeInv, ServiceOK
    <2>2. exits' \in [Processes -> Rows \cup {NoExit, Reading}]
      <3>1. (IF HasRow(s) /\ Running THEN disk[s] ELSE NoExit) \in Rows \cup {NoExit, Reading}
        BY <1>1 DEF HasRow
      <3> QED BY <1>1, <1>2, <1>7, <3>1 DEF ReadForExit
    <2>3. /\ SameRuntimes /\ active' \in Sessions \cup {NoSession}
          /\ disturbed' \in SUBSET Sessions /\ unsaved' \in Marks
      <3>1. CASE HasRow(s) /\ kind = "recording"
        BY <1>1, <1>7, <3>1, ClearTypes DEF ReadForExit, Unseated, TypeOK, Marks
      <3>2. CASE ~(HasRow(s) /\ kind = "recording")
        BY <1>1, <1>6, <1>7, <3>2 DEF ReadForExit, TypeOK, Marks
      <3> QED BY <3>1, <3>2
    <2> QED BY <1>1, <1>5, <1>7, <2>1, <2>2, <2>3 DEF ReadForExit
  <1>8. CASE WriteForExit(s, kind)
    <2>1. exits[<<s, kind>>] # NoExit /\ service # "down"
      BY <1>2, <1>8, PlaceholdersAreNotValues DEF WriteForExit, TypeInv, ServiceOK
    <2>2. exits' \in [Processes -> Rows \cup {NoExit, Reading}]
      BY <1>1, <1>2, <1>8 DEF WriteForExit
    <2>3. PICK row \in Rows : row = exits[<<s, kind>>]
      BY <1>8 DEF WriteForExit
    <2>4. /\ [row EXCEPT !.status = "failed", !.recording = "none"] \in Rows
          /\ [row EXCEPT !.status = "failed", !.query = "none"] \in Rows
      BY ChangedRows
    <2>5. disk' \in [Sessions -> Rows \cup {NoRow, Deleted}]
      BY <1>1, <1>8, <2>3, <2>4 DEF WriteForExit
    <2>6. disturbed' \in SUBSET Sessions /\ unsaved' \in Marks
      BY <1>1, <1>8 DEF WriteForExit, Overlapped, TypeOK, Marks
    <2>7. SameRuntimes /\ active' \in Sessions \cup {NoSession}
      BY <1>1, <1>6, <1>8 DEF WriteForExit, TypeOK
    <2> QED BY <1>1, <1>5, <1>8, <2>1, <2>2, <2>5, <2>6, <2>7 DEF WriteForExit
  <1>9. CASE WriteForExitFails(s, kind)
    <2>1. exits[<<s, kind>>] # NoExit /\ service # "down"
      BY <1>2, <1>9, PlaceholdersAreNotValues DEF WriteForExitFails, TypeInv, ServiceOK
    <2>2. exits' \in [Processes -> Rows \cup {NoExit, Reading}]
      BY <1>1, <1>2, <1>9 DEF WriteForExitFails
    <2>3. disturbed' \in SUBSET Sessions /\ unsaved' \in Marks
      BY <1>1, <1>9 DEF WriteForExitFails, Overlapped, TypeOK, Marks
    <2>4. /\ SameRuntimes /\ active' \in Sessions \cup {NoSession}
          /\ disk' \in [Sessions -> Rows \cup {NoRow, Deleted}]
      BY <1>1, <1>6, <1>9 DEF WriteForExitFails, TypeOK
    <2> QED BY <1>1, <1>5, <1>9, <2>1, <2>2, <2>3, <2>4 DEF WriteForExitFails
  <1> QED BY <1>4, <1>7, <1>8, <1>9 DEF ExitSteps

\* Rows as a shutdown or a restart leaves them.
LEMMA FinalizedRows ==
    ASSUME NEW row \in Rows, NEW held \in SUBSET Kinds
    PROVE  /\ Finalized(row, held) \in Rows
           /\ Finalized(row, held).status \in Terminal
           /\ \A kind \in Kinds :
                 Finalized(row, held)[kind] =
                     IF kind \in held \/ row[kind] = "none" THEN "none" ELSE "stopped"
  <1> DEFINE rec == IF "recording" \in held \/ row.recording = "none" THEN "none" ELSE "stopped"
             que == IF "query" \in held \/ row.query = "none" THEN "none" ELSE "stopped"
             closed == [row EXCEPT !.recording = rec, !.query = que]
             marked == [closed EXCEPT !.status = "interrupted", !.stopAsked = TRUE,
                                      !.warned = TRUE]
             final  == Finalized(row, held)
  <1>1. final = IF row.status = "ready" /\ row.recording # "running" THEN closed ELSE marked
    BY DEF Finalized, FinalPid
  <1>2. rec \in Pids /\ que \in Pids
    BY DEF Pids
  <1>3. "interrupted" \in Statuses /\ "interrupted" \in Terminal /\ "ready" \in Terminal
    BY DEF Statuses, Terminal
  <1> HIDE DEF rec, que
  <1>4. /\ closed \in Rows /\ closed.status = row.status
        /\ closed.recording = rec /\ closed.query = que
    BY <1>2 DEF Rows
  <1> HIDE DEF closed
  <1>5. /\ marked \in Rows /\ marked.status = "interrupted"
        /\ marked.recording = rec /\ marked.query = que
    BY <1>3, <1>4 DEF Rows
  <1> HIDE DEF marked, final
  <1>6. /\ final \in Rows /\ final.status \in Terminal
        /\ final.recording = rec /\ final.query = que
    <2>1. CASE row.status = "ready" /\ row.recording # "running"
      BY <1>1, <1>3, <1>4, <2>1
    <2>2. CASE ~(row.status = "ready" /\ row.recording # "running")
      BY <1>1, <1>3, <1>5, <2>2
    <2> QED BY <2>1, <2>2
  <1>7. \A kind \in Kinds :
           final[kind] = IF kind \in held \/ row[kind] = "none" THEN "none" ELSE "stopped"
    BY <1>6 DEF Kinds, rec, que
  <1> QED BY <1>6, <1>7 DEF final

\* shutdown() is called, waits for its turn, and finalizes what it listed.
LEMMA ShutdownTypes ==
    ASSUME TypeInv, RequestShutdown \/ ShutdownSteps
    PROVE  TypeInv'
  <1>1. /\ TypeOK
        /\ runtime \in [Sessions -> Runtimes \cup {NoRuntime}]
        /\ disk \in [Sessions -> Rows \cup {NoRow, Deleted}]
        /\ closing \in [Sessions -> Finalizations \cup {Done}]
        /\ alive \in SUBSET Processes
    BY DEF TypeInv, TypeOK
  <1> USE DEF memory, world, ghosts, marks, bounds, rest
  <1>2. CASE RequestShutdown
    <2>1. runtime' = [s \in Sessions |-> IF runtime[s] = NoRuntime THEN NoRuntime
                                         ELSE [runtime[s] EXCEPT !.timer = FALSE]]
      BY <1>2 DEF RequestShutdown
    <2>2. \A s \in Sessions :
              runtime[s] # NoRuntime => [runtime[s] EXCEPT !.timer = FALSE] \in Runtimes
      BY <1>1 DEF Runtimes
    <2>3. runtime' \in [Sessions -> Runtimes \cup {NoRuntime}]
      BY <1>1, <2>1, <2>2
    <2>4. TypeOK'
      BY <1>1, <1>2, <2>3 DEF RequestShutdown, TypeOK
    <2>5. OpOK' /\ ServiceOK'
      BY <1>2 DEF RequestShutdown, TypeInv, OpOK, ServiceOK, Running
    <2> QED BY <2>4, <2>5 DEF TypeInv
  <1>3. CASE ListSessions
    <2>1. closing' \in [Sessions -> Finalizations \cup {Done}]
      <3>1. \A s \in Sessions : HasRow(s) =>
                [row |-> disk[s], handles |-> {kind \in Kinds : Handle(s, kind)}] \in Finalizations
        BY <1>1 DEF HasRow, Finalizations
      <3>2. closing' = [s \in Sessions |->
                           IF HasRow(s) /\ ShouldFinalize(s)
                           THEN [row     |-> disk[s],
                                 handles |-> {kind \in Kinds : Handle(s, kind)}]
                           ELSE Done]
        BY <1>3 DEF ListSessions
      <3> QED BY <3>1, <3>2
    <2>2. runtime' \in [Sessions -> Runtimes \cup {NoRuntime}]
      <3>1. \A s \in Sessions : runtime[s] # NoRuntime =>
                [runtime[s] EXCEPT !.timer = FALSE, !.allowed = @ \cup runtime[s].handles]
                    \in Runtimes
        BY <1>1 DEF Runtimes
      <3>2. runtime' = [s \in Sessions |->
                           IF runtime[s] = NoRuntime \/ ~HasRow(s) THEN runtime[s]
                           ELSE IF ~ShouldFinalize(s) THEN NoRuntime
                           ELSE [runtime[s] EXCEPT !.timer = FALSE,
                                                   !.allowed = @ \cup runtime[s].handles]]
        BY <1>3 DEF ListSessions
      <3> QED BY <1>1, <3>1, <3>2
    <2>3. TypeOK'
      BY <1>1, <1>3, <2>1, <2>2 DEF ListSessions, TypeOK
    <2>4. OpOK' /\ ServiceOK'
      BY <1>3 DEF ListSessions, TypeInv, OpOK, ServiceOK, Running
    <2> QED BY <2>3, <2>4 DEF TypeInv
  <1>4. ASSUME NEW s \in Sessions, FinalizeSession(s)
        PROVE  TypeInv'
    <2>1. PICK entry \in Finalizations : entry = closing[s]
      BY <1>1, <1>4 DEF FinalizeSession
    <2>2. Finalized(entry.row, entry.handles) \in Rows
      BY FinalizedRows DEF Finalizations
    <2>3. disk' \in [Sessions -> Rows \cup {NoRow, Deleted}]
      BY <1>1, <1>4, <2>1, <2>2 DEF FinalizeSession
    <2>4. /\ runtime' \in [Sessions -> Runtimes \cup {NoRuntime}]
          /\ closing' \in [Sessions -> Finalizations \cup {Done}]
          /\ alive' \in SUBSET Processes
      BY <1>1, <1>4 DEF FinalizeSession
    <2>5. TypeOK'
      BY <1>1, <1>4, <2>3, <2>4 DEF FinalizeSession, TypeOK
    <2>6. service = "finalizing"
      BY <1>4 DEF TypeInv, ServiceOK, FinalizeSession
    <2>7. OpOK' /\ ServiceOK'
      BY <1>4, <2>6 DEF FinalizeSession, TypeInv, OpOK, ServiceOK, Running
    <2> QED BY <2>5, <2>7 DEF TypeInv
  <1>5. CASE FinishShutdown
    <2>1. TypeOK'
      BY <1>1, <1>5 DEF FinishShutdown, TypeOK
    <2>2. OpOK' /\ ServiceOK'
      BY <1>5 DEF FinishShutdown, TypeInv, OpOK, ServiceOK, Running
    <2> QED BY <2>1, <2>2 DEF TypeInv
  <1> QED BY <1>2, <1>3, <1>4, <1>5 DEF ShutdownSteps

\* The service ends.
LEMMA VanishTypes ==
    ASSUME TypeInv, Exit \/ Crash
    PROVE  TypeInv'
  <1>1. TypeOK /\ Vanish /\ faults' \in 0 .. MaxFaults
    BY FaultTypes DEF TypeInv, Exit, Crash, TypeOK
  <1>2. stray' \in Strays /\ unsaved' \in Marks
    <2>1. Untraced \subseteq (Sessions \cup {NoSession}) \X Kinds
      <3>1. op # Idle => op.s \in Sessions \cup {NoSession}
        BY <1>1, OpFields DEF TypeOK
      <3>2. Nascent \subseteq (Sessions \cup {NoSession}) \X Kinds
        <4>1. CASE op = Idle
          BY <4>1 DEF Nascent
        <4>2. CASE op # Idle
          <5>1. PICK t \in Sessions \cup {NoSession} : t = op.s
            BY <3>1, <4>2
          <5>2. /\ <<t, "recording">> \in (Sessions \cup {NoSession}) \X Kinds
                /\ <<t, "query">> \in (Sessions \cup {NoSession}) \X Kinds
            BY DEF Kinds
          <5> QED BY <4>2, <5>1, <5>2 DEF Nascent
        <4> QED BY <4>1, <4>2
      <3>3. alive \subseteq Sessions \X Kinds
        BY <1>1 DEF TypeOK, Processes
      <3> QED BY <3>2, <3>3 DEF Untraced
    <2>2. PICK left : /\ left \subseteq Untraced
                      /\ stray' = stray \cup left
                                   \cup (IF warmup THEN {<<NoSession, "recording">>} ELSE {})
      BY <1>1 DEF Vanish
    <2>3. <<NoSession, "recording">> \in (Sessions \cup {NoSession}) \X Kinds
      BY DEF Kinds
    <2>4. unsaved' = {}
      BY <1>1 DEF Vanish
    <2> QED BY <1>1, <2>1, <2>2, <2>3, <2>4 DEF TypeOK, Strays, Marks
  <1>3. /\ runtime' \in [Sessions -> Runtimes \cup {NoRuntime}]
        /\ exits' \in [Processes -> Rows \cup {NoExit, Reading}]
        /\ closing' \in [Sessions -> Finalizations \cup {Done}]
        /\ alive' \in SUBSET Processes
    BY <1>1 DEF Vanish, TypeOK, NoExits
  <1>4. TypeOK'
    BY <1>1, <1>2, <1>3 DEF Vanish, TypeOK, Strays, Marks
  <1>5. OpOK' /\ ServiceOK'
    BY <1>1 DEF Vanish, OpOK, ServiceOK, NoExits
  <1> QED BY <1>4, <1>5 DEF TypeInv

\* What repairStaleSessions makes of a row, and of the processes it names.
LEMMA RepairedRows ==
    ASSUME TypeOK, NEW s \in Sessions, HasRow(s)
    PROVE  /\ Repaired(s) \in Rows /\ Repaired(s).status \in Terminal
           /\ NeedsRepair(s) =>
                 \A kind \in Kinds :
                    Repaired(s)[kind] = IF <<s, kind>> \in alive \/ disk[s][kind] = "none"
                                        THEN "none" ELSE "stopped"
           /\ ~NeedsRepair(s) => \A kind \in Kinds : Repaired(s)[kind] = disk[s][kind]
  <1> DEFINE row == Migrated(disk[s])
             held == {kind \in Kinds : <<s, kind>> \in alive}
  <1>1. disk[s] \in Rows
    BY DEF TypeOK, HasRow
  <1>2. "interrupted" \in Statuses /\ "interrupted" \in Terminal
    BY DEF Statuses, Terminal
  <1>3. /\ row \in Rows /\ \A kind \in Kinds : row[kind] = disk[s][kind]
        /\ disk[s].status \in Terminal => row.status \in Terminal
    <2>1. CASE disk[s].status = "failed" /\ disk[s].warned
      <3>1. row = [disk[s] EXCEPT !.status = "interrupted"]
        BY <2>1 DEF Migrated
      <3>2. /\ row \in Rows /\ row.status = "interrupted"
            /\ row.recording = disk[s].recording /\ row.query = disk[s].query
        BY <1>1, <1>2, <3>1 DEF Rows
      <3> HIDE DEF row
      <3> QED BY <1>2, <3>2 DEF Kinds
    <2>2. CASE ~(disk[s].status = "failed" /\ disk[s].warned)
      BY <1>1, <2>2 DEF Migrated
    <2> QED BY <2>1, <2>2
  <1>4. held \in SUBSET Kinds
    OBVIOUS
  <1>5. Repaired(s) = IF ~NeedsRepair(s) THEN row ELSE Finalized(row, held)
    BY DEF Repaired
  <1> HIDE DEF row
  <1>6. CASE NeedsRepair(s)
    <2>1. Repaired(s) = Finalized(row, held)
      BY <1>5, <1>6
    <2>2. \A kind \in Kinds : kind \in held <=> <<s, kind>> \in alive
      OBVIOUS
    <2> HIDE DEF held
    <2>3. /\ Repaired(s) \in Rows /\ Repaired(s).status \in Terminal
          /\ \A kind \in Kinds : Repaired(s)[kind] =
                 IF kind \in held \/ row[kind] = "none" THEN "none" ELSE "stopped"
      BY <1>3, <1>4, <2>1, FinalizedRows
    <2> QED BY <1>3, <1>6, <2>2, <2>3
  <1>7. CASE ~NeedsRepair(s)
    BY <1>3, <1>5, <1>7 DEF NeedsRepair
  <1> QED BY <1>6, <1>7

\* The service comes up again.
LEMMA RestartTypes ==
    ASSUME TypeInv, Restart
    PROVE  TypeInv'
  <1>1. TypeOK
    BY DEF TypeInv
  <1>2. \A s \in Sessions : Repaired(s) \in Rows \cup {NoRow, Deleted}
    BY <1>1, RepairedRows DEF Repaired, TypeOK
  <1>3. disk' \in [Sessions -> Rows \cup {NoRow, Deleted}]
    BY <1>2 DEF Restart
  <1>4. alive' \in SUBSET Processes /\ disturbed' \in SUBSET Sessions
    BY <1>1 DEF Restart, TypeOK
  <1>5. TypeOK'
    BY <1>1, <1>3, <1>4 DEF Restart, TypeOK, memory, bounds
  <1>6. op' = Idle
    BY DEF Restart, TypeInv, ServiceOK
  <1>7. OpOK' /\ ServiceOK'
    BY <1>6 DEF Restart, TypeInv, OpOK, ServiceOK
  <1> QED BY <1>5, <1>7 DEF TypeInv

\* Every step preserves the types.
LEMMA NextTypes ==
    ASSUME TypeInv, [Next]_vars
    PROVE  TypeInv'
  <1>1. CASE OpSteps
    BY <1>1, StartTypes, StopStepTypes, IngestTypes, OtherTypes DEF OpSteps
  <1>2. CASE UNCHANGED vars
    BY <1>2 DEF vars, TypeInv, TypeOK, OpOK, ServiceOK, Running
  <1> QED BY <1>1, <1>2, RequestTypes, TimerTypes, ExitTypes, ShutdownTypes, VanishTypes,
             RestartTypes DEF Next

\* A service that has not started anything.
LEMMA InitTypes ==
    ASSUME Init
    PROVE  TypeInv
  <1>1. begun \in 0 .. MaxOps /\ faults \in 0 .. MaxFaults
    BY BoundsOK DEF Init
  <1>2. exits \in [Processes -> Rows \cup {NoExit, Reading}] /\ alive \subseteq Processes
    BY DEF Init, NoExits
  <1>3. TypeOK
    <2>1. disk \in [Sessions -> Rows \cup {NoRow, Deleted}]
      <3>1. EarlierRow \in Rows
        BY DEF EarlierRow, Rows, Statuses, Terminal, Pids
      <3> QED BY <3>1 DEF Init
    <2>2. stray \subseteq (Sessions \cup {NoSession}) \X Kinds
      BY DEF Init, Kinds
    <2> QED BY <1>1, <1>2, <2>1, <2>2 DEF Init, TypeOK
  <1>4. \A p \in Processes : exits[p] = NoExit
    BY DEF Init, NoExits
  <1> QED BY <1>3, <1>4 DEF Init, TypeInv, OpOK, ServiceOK

\* The data of the lab service have their types in every state.
THEOREM LabTypesAreCorrect == Spec => []TypeOK
  <1>1. Init => TypeInv
    BY InitTypes
  <1>2. TypeInv /\ [Next]_vars => TypeInv'
    BY NextTypes
  <1>3. TypeInv => TypeOK
    BY DEF TypeInv
  <1> QED BY <1>1, <1>2, <1>3, PTL DEF Spec

\* repairStaleSessions: when the service comes up again every row is over, and no
\* process runs whose pid a row has.
THEOREM RestartsRepair == Spec => RestartRepairs
  <1> DEFINE Repair == Restart => \A s \in Sessions : disk'[s] \notin {NoRow, Deleted} =>
                 /\ disk'[s].status \in Terminal
                 /\ \A kind \in Kinds : disk'[s][kind] # "none" => <<s, kind>> \notin alive'
  <1>1. Init => TypeInv
    BY InitTypes
  <1>2. TypeInv /\ [Next]_vars => TypeInv'
    BY NextTypes
  <1>3. ASSUME TypeInv, Restart, NEW s \in Sessions, disk'[s] \notin {NoRow, Deleted}
        PROVE  /\ disk'[s].status \in Terminal
               /\ \A kind \in Kinds : disk'[s][kind] # "none" => <<s, kind>> \notin alive'
    <2>1. TypeOK /\ disk'[s] = Repaired(s) /\ HasRow(s)
      BY <1>3 DEF TypeInv, Restart, Repaired, HasRow
    <2>2. disk'[s].status \in Terminal
      BY <2>1, RepairedRows
    <2>3. ASSUME NEW kind \in Kinds, disk'[s][kind] # "none", <<s, kind>> \in alive'
          PROVE  FALSE
      <3>1. /\ <<s, kind>> \in alive
            /\ ~NeedsRepair(s) \/ disk[s][kind] = "none"
        BY <1>3, <2>1, <2>3 DEF Restart
      <3>2. disk[s] \in Rows
        BY <2>1 DEF TypeOK, HasRow
      <3>3. CASE NeedsRepair(s)
        BY <2>1, <2>3, <3>1, <3>3, RepairedRows
      <3>4. CASE ~NeedsRepair(s)
        BY <2>1, <2>3, <3>1, <3>2, <3>4, RepairedRows, RowFields DEF NeedsRepair, Pids
      <3> QED BY <3>3, <3>4
    <2> QED BY <2>2, <2>3
  <1>4. TypeInv => [Repair]_vars
    BY <1>3
  <1> HIDE DEF Repair
  <1>5. Init /\ [][Next]_vars => [][Repair]_vars
    BY <1>1, <1>2, <1>4, PTL
  <1> QED BY <1>5 DEF Spec, Repair, RestartRepairs

----------------------------------------------------------------------------
(* The invariant of a session                                              *)

\* The mutation under way is one of the session s.
Mine(s) == op # Idle /\ op.s = s

\* A write of the session has failed: of its status, or of the pid of a process.
Marked(s, mark) == <<s, mark>> \in unsaved

\* A process of the session runs, and no code outside the queue has written it.
Runs(s, kind) == <<s, kind>> \in alive /\ s \notin disturbed

\* Where startRecording holds a recorder of a session that is not active yet, and where
\* runIngestForSession holds a query process.
RecorderPoints == {"spawned", "waiting", "ready", "failing"}
QueryPoints    == {"query spawned", "query waiting", "analysing", "ingesting", "finishing",
                   "closing"}

\* A session that has no row, or no recorder yet, has no process and no callback.
FreshOK(s) ==
    disk[s] = NoRow \/ On(s, {"creating", "spawning"}) =>
        \A kind \in Kinds : exits[<<s, kind>>] = NoExit /\ <<s, kind>> \notin alive

\* A recorder that runs has a row, and in it its pid unless that could not be written;
\* the service has its handle, and it is the one of the active session or of a start
\* under way.
RecorderOK(s) ==
    Runs(s, "recording") =>
        /\ HasRow(s)
        /\ ~On(s, {"spawned"}) /\ ~Marked(s, "recording") => disk[s].recording = "running"
        /\ service # "down" => /\ Handle(s, "recording")
                               /\ active = s \/ On(s, RecorderPoints)
        /\ Mine(s) => op.copy # NoRow /\ op.copy.recording = "running"
        /\ ~Reused(s)
        /\ ~On(s, {"halted"})

\* The same of a query process, which only an ingest has, and one that failed to write
\* its pid and ended leaves behind.
QueryOK(s) ==
    Runs(s, "query") =>
        /\ HasRow(s)
        /\ ~On(s, {"query spawned"}) /\ ~Marked(s, "query") => disk[s].query = "running"
        /\ service # "down" => Handle(s, "query")
        /\ service # "down" /\ ~Marked(s, "query") => On(s, QueryPoints)
        /\ Mine(s) /\ ~Marked(s, "query") => op.copy # NoRow /\ op.copy.query = "running"

\* A callback of a recorder follows its end.
CallbackOK(s) == exits[<<s, "recording">>] # NoExit => <<s, "recording">> \notin alive

\* What the mutation under way has done and holds at each of its points.
PointsOK(s) ==
    /\ Mine(s) /\ op.at # "creating" => HasRow(s)
    /\ On(s, {"creating"}) /\ Running => disk[s] = NoRow
    /\ Marked(s, "recording") => On(s, {"failing"})
    /\ On(s, {"deleting"}) => active # s /\ \A kind \in Kinds : ~Handle(s, kind)
    /\ On(s, {"spawning"}) => ~Reused(s)
    /\ On(s, {"failed", "marking"}) => op.copy.status = "failed"
    /\ On(s, {"staged", "stage failed"}) => op.copy.status = "ready"
    /\ On(s, {"finishing", "closing", "closed"}) => op.copy.status \in {"ready", "failed"}
    /\ On(s, {"booting"}) => op.copy.status = "booting-query-mode"
    /\ On(s, {"query spawning"}) /\ Running =>
          s \in disturbed \/ disk[s].status = "booting-query-mode"
    /\ On(s, {"stopping", "scheduling"}) /\ Running /\ op.kind # "timer" =>
          active = s \/ ExitPending(s) \/ s \in disturbed

\* What shutdown has still to stop, and what it has left behind.
ClosingOK(s) ==
    /\ service = "finalizing" /\ closing[s] # Done =>
          \A kind \in Kinds : Handle(s, kind) => kind \in closing[s].handles
    /\ service \in {"finalizing", "closed"} /\ closing[s] = Done /\ s \notin disturbed =>
          /\ \A kind \in Kinds : <<s, kind>> \notin alive
          /\ HasRow(s) => disk[s].status \in Terminal

\* A row that is not settled has somebody who will settle it.
SettledOK(s) ==
    Running /\ HasRow(s) =>
        \/ Settled(s) \/ s \in given \/ ExitPending(s) \/ s = active \/ s \in disturbed
        \/ Marked(s, "row")
        \/ Mine(s) /\ op.at \notin {"staging", "scheduling", "deleting"}

SessionInv(s) ==
    /\ FreshOK(s) /\ RecorderOK(s) /\ QueryOK(s) /\ CallbackOK(s) /\ PointsOK(s)
    /\ ClosingOK(s) /\ SettledOK(s)

\* A recording starts only when no session is active.
SeatOK == op # Idle /\ op.kind \in {"start", "reuse"} => active = NoSession

\* The bootstrap recorder belongs to a bootstrap under way, which has no session.
WarmOK == /\ warmup => op # Idle /\ op.at \in WarmUpPoints
          /\ op # Idle /\ op.at \in WarmUpPoints => op.s = NoSession

LabInv ==
    /\ TypeInv /\ SeatOK /\ WarmOK
    /\ \A s \in Sessions : SessionInv(s)

\* A step of another session.
Untouched(t) ==
    /\ disk'[t] = disk[t]
    /\ \A kind \in Kinds : /\ Handle(t, kind)' <=> Handle(t, kind)
                           /\ exits'[<<t, kind>>] = exits[<<t, kind>>]
                           /\ <<t, kind>> \in alive' <=> <<t, kind>> \in alive
    /\ Reused(t)' <=> Reused(t)
    /\ \A mark \in Kinds \cup {"row"} : Marked(t, mark)' <=> Marked(t, mark)
    /\ closing'[t] = closing[t] /\ service' = service
    /\ t \in disturbed => t \in disturbed'
    /\ t \in given => t \in given'
    /\ active' = t => active = t
    /\ active = t => active' = t \/ t \in disturbed'
    /\ Mine(t) => op' = op
    /\ Mine(t)' => Mine(t)

\* It keeps the invariant of this one.
LEMMA UntouchedKeeps ==
    ASSUME NEW t \in Sessions, SessionInv(t), Untouched(t)
    PROVE  SessionInv(t)'
  <1>1. "recording" \in Kinds /\ "query" \in Kinds
    BY DEF Kinds
  <1>2. /\ Mine(t)' => Mine(t) /\ op' = op
        /\ \A points : On(t, points)' => Mine(t) /\ op' = op /\ On(t, points)
        /\ \A points : On(t, points) => On(t, points)'
        /\ \A mark \in Kinds \cup {"row"} : Marked(t, mark)' <=> Marked(t, mark)
    BY DEF Untouched, On, Mine
  <1>3. FreshOK(t)'
    BY <1>2 DEF SessionInv, FreshOK, Untouched
  <1>4. RecorderOK(t)'
    BY <1>1, <1>2 DEF SessionInv, RecorderOK, Untouched, Runs, HasRow
  <1>5. QueryOK(t)'
    BY <1>1, <1>2 DEF SessionInv, QueryOK, Untouched, Runs, HasRow
  <1>6. CallbackOK(t)'
    BY <1>1 DEF SessionInv, CallbackOK, Untouched
  <1>7. PointsOK(t)'
    BY <1>1, <1>2 DEF SessionInv, PointsOK, Untouched, HasRow, Running, ExitPending
  <1>8. ClosingOK(t)'
    BY DEF SessionInv, ClosingOK, Untouched, HasRow
  <1>9. SettledOK(t)'
    BY <1>2 DEF SessionInv, SettledOK, Untouched, HasRow, Running, ExitPending, Settled, Mine
  <1> QED BY <1>3, <1>4, <1>5, <1>6, <1>7, <1>8, <1>9 DEF SessionInv

\* What a step of the mutation of the session s leaves alone.
OnlySession(s) ==
    /\ \A t \in Sessions \ {s} :
          /\ disk'[t] = disk[t] /\ (Reused(t)' <=> Reused(t))
          /\ \A kind \in Kinds : /\ Handle(t, kind)' <=> Handle(t, kind)
                                 /\ <<t, kind>> \in alive' <=> <<t, kind>> \in alive
          /\ \A mark \in Kinds \cup {"row"} : Marked(t, mark)' <=> Marked(t, mark)
    /\ UNCHANGED rest
    /\ disturbed \subseteq disturbed' /\ given \subseteq given'
    /\ \/ active' = active
       \/ active' \in {s, NoSession} /\ active \in disturbed' \cup {s, NoSession}
    /\ op' = Idle \/ op'.s = s

\* The other sessions are untouched.
LEMMA OthersUntouched ==
    ASSUME op # Idle, NEW s \in Sessions, op.s = s, OnlySession(s)
    PROVE  \A t \in Sessions \ {s} : Untouched(t)
  BY PlaceholdersAreNotValues DEF OnlySession, Untouched, Mine, rest

\* What shutdown left behind stays so: a mutation that it cut off starts no process, and
\* its writes are noticed.
LEMMA ClosingKept ==
    ASSUME NEW s \in Sessions, ClosingOK(s), UNCHANGED rest,
           disturbed \subseteq disturbed',
           Running \/ \A kind \in Kinds : /\ Handle(s, kind)' => Handle(s, kind)
                                          /\ <<s, kind>> \in alive' => <<s, kind>> \in alive,
           \/ disk'[s] = disk[s]
           \/ disk'[s] \in {NoRow, Deleted}
           \/ service \in {"finalizing", "closed"} /\ closing[s] = Done => s \in disturbed'
    PROVE  ClosingOK(s)'
  BY DEF ClosingOK, rest, HasRow, Running

\* The mutation under way and its session.
LEMMA OpSession ==
    ASSUME LabInv, op # Idle, op.at \notin WarmUpPoints
    PROVE  /\ op.s \in Sessions /\ SessionInv(op.s) /\ Mine(op.s)
           /\ op.at # "deleting" => op.copy \in Rows
           /\ disk \in [Sessions -> Rows \cup {NoRow, Deleted}]
           /\ TypeInv /\ TypeOK /\ op \in OpStates /\ service # "down" /\ warmup = FALSE
  BY OpHas DEF LabInv, TypeInv, TypeOK, Mine, WarmOK

\* No session gains or loses a handle.
SameHandles ==
    \A t \in Sessions : /\ Reused(t)' <=> Reused(t)
                        /\ \A kind \in Kinds : Handle(t, kind)' <=> Handle(t, kind)

\* No mark changes but that of the row of the session s.
OnlyRowMark(s) ==
    /\ \A t \in Sessions \ {s} : \A mark \in Kinds \cup {"row"} :
          Marked(t, mark)' <=> Marked(t, mark)
    /\ \A kind \in {"recording", "query"} : Marked(s, kind)' <=> Marked(s, kind)

\* That is so when a write lands, and when one fails whose row has no new pid.
LEMMA RowMarks ==
    ASSUME TypeOK, op # Idle, NEW s \in Sessions, op.s = s, op.copy \in Rows
    PROVE  /\ unsaved' = unsaved => OnlyRowMark(s)
           /\ \A unseated \in SUBSET Sessions : LandsOver(unseated) => OnlyRowMark(s)
           /\ WriteFails({}) => OnlyRowMark(s) /\ Marked(s, "row")'
  <1>1. "recording" \in Kinds /\ "query" \in Kinds /\ "row" \notin {"recording", "query"}
    BY DEF Kinds
  <1>2. unsaved' = unsaved => OnlyRowMark(s)
    BY DEF OnlyRowMark, Marked
  <1>3. ASSUME NEW unseated \in SUBSET Sessions, LandsOver(unseated)
        PROVE  OnlyRowMark(s)
    BY <1>1, <1>3, LandsTypes DEF OnlyRowMark, Marked
  <1>4. ASSUME WriteFails({})
        PROVE  OnlyRowMark(s) /\ Marked(s, "row")'
    BY <1>1, <1>4, WriteFailsTypes DEF OnlyRowMark, Marked
  <1> QED BY <1>2, <1>3, <1>4

\* A query process that an earlier ingest left behind.
LEMMA QueryKept ==
    ASSUME NEW s \in Sessions, QueryOK(s), service # "down", ~On(s, QueryPoints),
           <<s, "query">> \in alive' => <<s, "query">> \in alive,
           disturbed \subseteq disturbed',
           Runs(s, "query") => HasRow(s)',
           Handle(s, "query") => Handle(s, "query")',
           Marked(s, "query") => Marked(s, "query")'
    PROVE  QueryOK(s)'
  BY DEF QueryOK, Runs

\* A step of the mutation of a session keeps the invariant if it keeps that session's.
LEMMA OpStepKeeps ==
    ASSUME LabInv, TypeInv', op # Idle, NEW s \in Sessions, op.s = s, OnlySession(s),
           SessionInv(s)', warmup' = FALSE,
           op' # Idle => /\ op'.at \notin WarmUpPoints
                         /\ op'.kind = op.kind
                         /\ op.kind \in {"start", "reuse"} => active' = active
    PROVE  LabInv'
  <1>1. \A t \in Sessions \ {s} : SessionInv(t)'
    BY OthersUntouched, UntouchedKeeps DEF LabInv
  <1>2. SeatOK' /\ WarmOK'
    BY DEF LabInv, SeatOK, WarmOK
  <1> QED BY <1>1, <1>2 DEF LabInv

\* The steps of startRecording.
LEMMA StartKeeps ==
    ASSUME LabInv, StartSteps
    PROVE  LabInv'
  <1>1. op # Idle /\ op.at \in StartPoints
    BY DEF StartSteps, Create, Spawn, SpawnFails, RecordPid, RecorderReady, RecorderNotReady,
           Activate, CatchShutdown, StopFailedStart, RecordFailure, CreateFails,
           StartWriteFails, At, StartPoints
  <1>2. PICK s \in Sessions : s = op.s
    BY <1>1, OpSession DEF StartPoints, WarmUpPoints
  <1>3. /\ SessionInv(s) /\ Mine(s) /\ TypeInv /\ TypeOK /\ service # "down" /\ warmup = FALSE
        /\ op \in OpStates /\ op.copy \in Rows /\ op.copy # NoRow
        /\ op.kind \in {"start", "reuse"} /\ active = NoSession /\ active # s
        /\ disk \in [Sessions -> Rows \cup {NoRow, Deleted}]
    BY <1>1, <1>2, OpSession, OpHas, RowFields, PlaceholdersAreNotValues
       DEF StartPoints, WarmUpPoints, LabInv, SeatOK
  <1>4. TypeInv'
    BY <1>3, StartTypes
  <1>5. "recording" \in Kinds /\ "query" \in Kinds /\ "failed" \in Terminal
    BY DEF Kinds, Terminal
  <1>6. {"creating", "reusing", "spawning", "spawned", "waiting", "ready", "failing",
         "failed"} \subseteq Points
    BY DEF Points
  <1>7. /\ [op.copy EXCEPT !.status = "recording"] \in Rows
        /\ [op.copy EXCEPT !.recording = "running"] \in Rows
        /\ [op.copy EXCEPT !.status = "failed", !.recording = "none"] \in Rows
    BY <1>3, StatusNames, ChangedRows
  <1>8. \A unseated \in SUBSET Sessions : LandsOver(unseated) => OnlyRowMark(s)
    BY <1>1, <1>2, <1>3, RowMarks
  <1>9. unsaved' = unsaved => OnlyRowMark(s)
    BY <1>1, <1>2, <1>3, RowMarks
  <1>10. QueryOK(s) /\ ~On(s, QueryPoints)
    BY <1>1, <1>3 DEF SessionInv, On, StartPoints, QueryPoints
  <1>11. Marked(s, "recording") => op.at = "failing"
    BY <1>3 DEF SessionInv, PointsOK, On
  <1> USE DEF memory, world, bounds, marks, ghosts
  <1>12. CASE Create
    <2>1. /\ disk'[s] = op.copy /\ \A t \in Sessions \ {s} : disk'[t] = disk[t]
          /\ disturbed \subseteq disturbed'
          /\ service \in {"finalizing", "closed"} /\ closing[s] = Done => s \in disturbed'
          /\ OnlyRowMark(s)
      BY <1>1, <1>2, <1>3, <1>12, <1>8, LandsTypes DEF Create, Lands
    <2>2. \/ op' = Idle /\ ~Running
          \/ /\ op' # Idle /\ op'.s = s /\ op'.kind = op.kind /\ op'.copy \in Rows /\ Running
             /\ op'.at = IF op.kind = "reuse" THEN "reusing" ELSE "spawning"
      BY <1>1, <1>2, <1>3, <1>6, <1>7, <1>12, PersistsTypes DEF Create
    <2>3. \A t \in Sessions \ {s} : runtime'[t] = runtime[t]
      BY <1>2, <1>3, <1>12 DEF Create, TypeOK
    <2>4. /\ \A kind \in Kinds : Handle(s, kind)' => Handle(s, kind)
          /\ Running => (Reused(s)' <=> op.kind = "reuse")
      <3>1. PICK flag \in BOOLEAN : flag <=> op.kind = "reuse"
        OBVIOUS
      <3>2. runtime' = IF Running THEN [runtime EXCEPT ![s] = NewRuntime(flag)] ELSE runtime
        BY <1>2, <1>12, <3>1 DEF Create
      <3>3. NewRuntime(flag) # NoRuntime
        BY RuntimeFields DEF NewRuntime, Runtimes
      <3>4. Running => runtime'[s] = NewRuntime(flag)
        BY <1>3, <3>2 DEF TypeOK
      <3> QED BY <3>1, <3>2, <3>3, <3>4 DEF NewRuntime, Handle, Reused, Known
    <2>5. OnlySession(s)
      BY <1>2, <1>12, <2>1, <2>2, <2>3 DEF Create, OnlySession, OnlyRowMark, Handle, Reused, Known
    <2>6. At("creating") /\ alive' = alive /\ exits' = exits /\ service' = service
      BY <1>12 DEF Create, rest
    <2>7. \A kind \in Kinds : exits[<<s, kind>>] = NoExit /\ <<s, kind>> \notin alive
      BY <1>2, <1>3, <2>6 DEF At, SessionInv, FreshOK, On
    <2>8. FreshOK(s)' /\ CallbackOK(s)' /\ RecorderOK(s)' /\ QueryOK(s)'
      BY <1>5, <2>6, <2>7 DEF FreshOK, CallbackOK, RecorderOK, QueryOK, Runs
    <2>9. PointsOK(s)'
      BY <1>3, <1>11, <2>1, <2>2, <2>4, <2>6, RowFields
         DEF PointsOK, On, Mine, HasRow, OnlyRowMark, At
    <2>10. ClosingOK(s)'
      BY <1>3, <1>12, <2>1, <2>4, <2>6, ClosingKept DEF Create, SessionInv
    <2>11. SettledOK(s)'
      BY <2>2, <2>6 DEF SettledOK, Running, Mine
    <2>12. SessionInv(s)'
      BY <2>8, <2>9, <2>10, <2>11 DEF SessionInv
    <2> QED BY <1>1, <1>2, <1>3, <1>4, <1>12, <2>2, <2>5, <2>12, OpStepKeeps
            DEF Create, WarmUpPoints
  <1>13. CASE CreateFails
    <2>1. op' = Idle /\ op.at = "creating" /\ UNCHANGED <<memory, alive, warmup, rest>>
      BY <1>13 DEF CreateFails, At
    <2>2. /\ \A u \in Sessions \ {s} : disk'[u] = disk[u]
          /\ disturbed \subseteq disturbed' /\ OnlyRowMark(s)
          /\ \/ disk'[s] = disk[s]
             \/ /\ disk'[s] = op.copy /\ Marked(s, "row")'
                /\ service \in {"finalizing", "closed"} /\ closing[s] = Done => s \in disturbed'
      <3>1. CASE UNCHANGED <<disk, marks>>
        BY <1>9, <3>1
      <3>2. CASE Overwrites({}) /\ WriteFails({})
        BY <1>1, <1>2, <1>3, <3>2, OverwritesTypes, RowMarks
      <3> QED BY <1>13, <3>1, <3>2 DEF CreateFails
    <2>3. OnlySession(s)
      BY <2>1, <2>2 DEF OnlySession, OnlyRowMark, Handle, Reused, Known
    <2>4. \A kind \in Kinds : exits[<<s, kind>>] = NoExit /\ <<s, kind>> \notin alive
      BY <1>1, <1>2, <1>3, <2>1 DEF SessionInv, FreshOK, On
    <2>5. FreshOK(s)' /\ CallbackOK(s)' /\ RecorderOK(s)' /\ QueryOK(s)'
      BY <1>5, <2>1, <2>4 DEF FreshOK, CallbackOK, RecorderOK, QueryOK, Runs, rest
    <2>6. PointsOK(s)'
      BY <1>11, <2>1, <2>2 DEF PointsOK, On, Mine, OnlyRowMark
    <2>7. SettledOK(s)'
      BY <1>1, <1>2, <1>3, <2>1, <2>2
         DEF SessionInv, PointsOK, SettledOK, On, HasRow, Running, rest
    <2>8. ClosingOK(s)'
      BY <1>3, <2>1, <2>2, ClosingKept DEF SessionInv, Handle
    <2>9. SessionInv(s)'
      BY <2>5, <2>6, <2>7, <2>8 DEF SessionInv
    <2> QED BY <1>1, <1>2, <1>3, <1>4, <2>1, <2>3, <2>9, OpStepKeeps
  <1>14. CASE Spawn
    <2>1. /\ op' # Idle /\ op'.s = s /\ op'.kind = op.kind /\ op'.at = "spawned"
          /\ op'.copy \in Rows /\ op'.copy.recording = "running"
      <3>1. [op.copy EXCEPT !.recording = "running"].recording = "running"
        BY <1>3, StatusNames, ChangedRows
      <3> QED BY <1>1, <1>2, <1>3, <1>7, <1>14, <3>1, GoesTypes DEF Spawn, Points
    <2>2. /\ \A t \in Sessions \ {s} : runtime'[t] = runtime[t]
          /\ \A kind \in Kinds : Handle(s, kind)' <=> Handle(s, kind) \/ kind = "recording"
          /\ Reused(s)' <=> Reused(s)
      <3>1. runtime[s] \in Runtimes
        BY <1>1, <1>2, <1>3, <1>14, OpHas DEF Spawn, At, Known, TypeOK
      <3> DEFINE entry == [runtime[s] EXCEPT !.handles = @ \cup {"recording"}]
      <3>2. /\ entry \in Runtimes /\ entry.handles = runtime[s].handles \cup {"recording"}
            /\ entry.reused = runtime[s].reused
        BY <3>1 DEF Runtimes, Kinds
      <3>3. runtime' = [runtime EXCEPT ![s] = entry]
        BY <1>2, <1>14 DEF Spawn
      <3> HIDE DEF entry
      <3>4. runtime'[s] = entry /\ \A t \in Sessions \ {s} : runtime'[t] = runtime[t]
        BY <1>3, <3>3 DEF TypeOK
      <3> QED BY <3>1, <3>2, <3>4, RuntimeFields DEF Handle, Reused, Known
    <2>3. /\ alive' = alive \cup {<<s, "recording">>} /\ UNCHANGED <<disk, disturbed, rest>>
          /\ service = "running" /\ op.at = "spawning" /\ OnlyRowMark(s)
      BY <1>2, <1>14, <1>9 DEF Spawn, Running, At
    <2>4. OnlySession(s)
      BY <1>14, <2>1, <2>2, <2>3 DEF Spawn, OnlySession, OnlyRowMark, Handle, Reused, Known
    <2>5. /\ HasRow(s) /\ ~Reused(s)
          /\ \A kind \in Kinds : exits[<<s, kind>>] = NoExit /\ <<s, kind>> \notin alive
      BY <1>3, <2>3 DEF SessionInv, FreshOK, PointsOK, On, Mine
    <2>6. FreshOK(s)' /\ CallbackOK(s)' /\ QueryOK(s)'
      BY <1>5, <2>1, <2>3, <2>5 DEF FreshOK, CallbackOK, QueryOK, Runs, On, HasRow, rest
    <2>7. RecorderOK(s)'
      BY <1>3, <1>5, <2>1, <2>2, <2>3, <2>5, RowFields
         DEF RecorderOK, On, Mine, HasRow, RecorderPoints
    <2>8. PointsOK(s)' /\ SettledOK(s)'
      BY <1>11, <2>1, <2>3, <2>5 DEF PointsOK, SettledOK, On, Mine, HasRow, OnlyRowMark
    <2>9. ClosingOK(s)'
      BY <1>3, <1>14, <2>3, ClosingKept DEF Running, SessionInv
    <2>10. SessionInv(s)'
      BY <2>6, <2>7, <2>8, <2>9 DEF SessionInv
    <2> QED BY <1>1, <1>2, <1>3, <1>4, <1>14, <2>1, <2>4, <2>10, OpStepKeeps
            DEF Spawn, WarmUpPoints
  \* The error of a start is caught: its recorder, if there is one, will be stopped.
  <1>15. CASE /\ Catch /\ UNCHANGED <<disk, active, due, given, alive, warmup, rest, disturbed>>
              /\ op.at \in {"spawning", "spawned", "waiting", "ready", "reusing"}
              /\ \A u \in Sessions \ {s} : \A mark \in Kinds \cup {"row"} :
                    Marked(u, mark)' <=> Marked(u, mark)
              /\ Marked(s, "query")' <=> Marked(s, "query")
              /\ op.at = "spawned" \/ Marked(s, "recording") => Marked(s, "recording")'
    <2>1. /\ op' # Idle /\ op'.s = s /\ op'.kind = op.kind /\ op'.at = "failing"
          /\ op'.copy = op.copy
      BY <1>1, <1>2, <1>3, <1>6, <1>15, GoesTypes DEF Catch
    <2>2. SameRuntimes
      BY <1>2, <1>3, <1>5, <1>15, AllowTypes DEF Catch
    <2>3. OnlySession(s)
      BY <1>15, <2>1, <2>2 DEF OnlySession, SameRuntimes
    <2>4. FreshOK(s)' /\ CallbackOK(s)' /\ QueryOK(s)'
      <3>1. FreshOK(s)' /\ CallbackOK(s)'
        BY <1>3, <1>5, <1>15, <2>1 DEF SessionInv, FreshOK, CallbackOK, On, HasRow, rest
      <3>2. Runs(s, "query") => HasRow(s)'
        BY <1>10, <1>15 DEF QueryOK, HasRow
      <3> QED BY <1>3, <1>5, <1>15, <1>10, <2>2, <3>1, <3>2, QueryKept DEF SameRuntimes
    <2>5. RecorderOK(s)'
      BY <1>3, <1>5, <1>15, <2>1, <2>2
         DEF SessionInv, RecorderOK, Runs, On, HasRow, Mine, RecorderPoints, SameRuntimes, rest
    <2>6. PointsOK(s)' /\ SettledOK(s)'
      BY <1>3, <1>15, <2>1 DEF SessionInv, PointsOK, SettledOK, On, Mine, HasRow
    <2>7. ClosingOK(s)'
      BY <1>3, <1>15, <2>2, ClosingKept DEF SameRuntimes, SessionInv
    <2>8. SessionInv(s)'
      BY <2>4, <2>5, <2>6, <2>7 DEF SessionInv
    <2> QED BY <1>1, <1>2, <1>3, <1>4, <1>15, <2>1, <2>3, <2>8, OpStepKeeps DEF WarmUpPoints
  <1>16. CASE SpawnFails
    BY <1>15, <1>16, <1>9 DEF SpawnFails, At, OnlyRowMark
  <1>17. CASE RecordPid
    <2>1. /\ disk'[s] = op.copy /\ \A t \in Sessions \ {s} : disk'[t] = disk[t]
          /\ disturbed \subseteq disturbed'
          /\ service \in {"finalizing", "closed"} /\ closing[s] = Done => s \in disturbed'
          /\ OnlyRowMark(s)
      BY <1>1, <1>2, <1>3, <1>17, <1>8, LandsTypes DEF RecordPid, Lands
    <2>2. /\ op' # Idle /\ op'.s = s /\ op'.kind = op.kind /\ op'.at = "waiting"
          /\ op'.copy = op.copy
      BY <1>1, <1>2, <1>3, <1>6, <1>17, GoesTypes DEF RecordPid
    <2>3. op.at = "spawned" /\ UNCHANGED <<runtime, active, given, alive, rest>>
      BY <1>17 DEF RecordPid, At
    <2>4. OnlySession(s)
      BY <2>1, <2>2, <2>3 DEF OnlySession, OnlyRowMark, Handle, Reused, Known
    <2>5. HasRow(s)'
      BY <1>3, <2>1, RowFields DEF HasRow
    <2>6. FreshOK(s)' /\ CallbackOK(s)' /\ QueryOK(s)'
      <3>1. FreshOK(s)' /\ CallbackOK(s)'
        BY <1>3, <1>5, <2>2, <2>3, <2>5 DEF SessionInv, FreshOK, CallbackOK, On, HasRow, rest
      <3> QED BY <1>3, <1>10, <2>1, <2>3, <2>5, <3>1, QueryKept DEF Handle, OnlyRowMark
    <2>7. RecorderOK(s)'
      BY <1>3, <1>5, <2>1, <2>2, <2>3, <2>5
         DEF SessionInv, RecorderOK, Runs, On, Mine, RecorderPoints, Handle, Reused, Known, rest
    <2>8. PointsOK(s)' /\ SettledOK(s)'
      BY <1>11, <2>1, <2>2, <2>3, <2>5 DEF PointsOK, SettledOK, On, Mine, OnlyRowMark
    <2>9. ClosingOK(s)'
      BY <1>3, <2>1, <2>3, ClosingKept DEF SessionInv, Handle
    <2>10. SessionInv(s)'
      BY <2>6, <2>7, <2>8, <2>9 DEF SessionInv
    <2> QED BY <1>1, <1>2, <1>3, <1>4, <1>17, <2>2, <2>4, <2>10, OpStepKeeps
            DEF RecordPid, WarmUpPoints
  <1>18. CASE RecorderReady
    <2>1. /\ op' # Idle /\ op'.s = s /\ op'.kind = op.kind /\ op'.at = "ready"
          /\ op'.copy \in Rows /\ op'.copy.recording = op.copy.recording
      <3>1. [op.copy EXCEPT !.status = "recording"].recording = op.copy.recording
        BY <1>3 DEF Rows
      <3> QED BY <1>1, <1>2, <1>3, <1>6, <1>7, <1>18, <3>1, GoesTypes DEF RecorderReady
    <2>2. /\ op.at = "waiting" /\ OnlyRowMark(s)
          /\ UNCHANGED <<disk, runtime, active, given, alive, rest, disturbed>>
      BY <1>18, <1>9 DEF RecorderReady, At
    <2>3. OnlySession(s)
      BY <2>1, <2>2 DEF OnlySession, OnlyRowMark, Handle, Reused, Known
    <2>4. FreshOK(s)' /\ CallbackOK(s)' /\ QueryOK(s)'
      <3>1. FreshOK(s)' /\ CallbackOK(s)'
        BY <1>3, <1>5, <2>1, <2>2 DEF SessionInv, FreshOK, CallbackOK, On, HasRow, rest
      <3>2. Runs(s, "query") => HasRow(s)'
        BY <1>10, <2>2 DEF QueryOK, HasRow
      <3> QED BY <1>3, <1>10, <2>2, <3>1, <3>2, QueryKept DEF Handle, OnlyRowMark
    <2>5. RecorderOK(s)'
      BY <1>3, <1>5, <1>11, <2>1, <2>2, RowFields
         DEF SessionInv, RecorderOK, Runs, On, HasRow, Mine, RecorderPoints, Handle, Reused,
             Known, rest
    <2>6. PointsOK(s)' /\ SettledOK(s)'
      BY <1>3, <1>11, <2>1, <2>2
         DEF SessionInv, PointsOK, SettledOK, On, Mine, HasRow, OnlyRowMark
    <2>7. ClosingOK(s)'
      BY <1>3, <2>2, ClosingKept DEF SessionInv, Handle
    <2>8. SessionInv(s)'
      BY <2>4, <2>5, <2>6, <2>7 DEF SessionInv
    <2> QED BY <1>1, <1>2, <1>3, <1>4, <1>18, <2>1, <2>3, <2>8, OpStepKeeps
            DEF RecorderReady, WarmUpPoints
  <1>19. CASE RecorderNotReady
    BY <1>15, <1>19, <1>9 DEF RecorderNotReady, At, OnlyRowMark
  <1>20. CASE Activate
    <2>1. /\ disk'[s] = op.copy /\ \A t \in Sessions \ {s} : disk'[t] = disk[t]
          /\ disturbed \subseteq disturbed'
          /\ service \in {"finalizing", "closed"} /\ closing[s] = Done => s \in disturbed'
          /\ OnlyRowMark(s)
      BY <1>1, <1>2, <1>3, <1>20, <1>8, LandsTypes DEF Activate, Lands
    <2>2. /\ \A t \in Sessions : /\ Reused(t)' <=> Reused(t)
                                 /\ \A kind \in Kinds : Handle(t, kind)' <=> Handle(t, kind)
      BY <1>2, <1>3, <1>20, SetTypes DEF Activate, Handle, Reused, Known
    <2>3. /\ op.at \in {"ready", "reusing"} /\ op' = Idle /\ active' = s
          /\ UNCHANGED <<given, alive, rest>>
      BY <1>2, <1>20 DEF Activate, Ends
    <2>4. OnlySession(s)
      BY <1>3, <2>1, <2>2, <2>3 DEF OnlySession, OnlyRowMark
    <2>5. HasRow(s)'
      BY <1>3, <2>1, RowFields DEF HasRow
    <2>6. FreshOK(s)' /\ CallbackOK(s)' /\ QueryOK(s)'
      <3>1. FreshOK(s)' /\ CallbackOK(s)'
        BY <1>3, <1>5, <2>3, <2>5 DEF SessionInv, FreshOK, CallbackOK, On, HasRow, rest
      <3> QED BY <1>3, <1>5, <1>10, <2>1, <2>2, <2>3, <2>5, <3>1, QueryKept DEF OnlyRowMark
    <2>7. RecorderOK(s)'
      BY <1>3, <1>5, <2>1, <2>2, <2>3, <2>5
         DEF SessionInv, RecorderOK, Runs, On, Mine, RecorderPoints, rest
    <2>8. PointsOK(s)' /\ SettledOK(s)'
      BY <1>11, <2>1, <2>3 DEF PointsOK, SettledOK, On, Mine, OnlyRowMark
    <2>9. ClosingOK(s)'
      BY <1>3, <2>1, <2>2, <2>3, ClosingKept DEF SessionInv
    <2>10. SessionInv(s)'
      BY <2>6, <2>7, <2>8, <2>9 DEF SessionInv
    <2> QED BY <1>1, <1>2, <1>3, <1>4, <1>20, <2>3, <2>4, <2>10, OpStepKeeps DEF Activate
  <1>21. CASE CatchShutdown
    BY <1>15, <1>21, <1>9 DEF CatchShutdown, At, OnlyRowMark
  <1>22. CASE StartWriteFails
    <2>1. PICK kinds \in {{}, {"recording"}} :
              /\ WriteFails(kinds)
              /\ op.at = "spawned" => kinds = {"recording"}
      BY <1>22 DEF StartWriteFails
    <2>2. kinds \in SUBSET Kinds /\ "query" \notin kinds
      BY <1>5, <2>1
    <2>3. \A u \in Sessions, mark \in Kinds \cup {"row"} :
              Marked(u, mark)' <=> Marked(u, mark) \/ (u = s /\ mark \in kinds \cup {"row"})
      BY <1>1, <1>2, <1>3, <2>1, <2>2, WriteFailsTypes DEF Marked
    <2>4. /\ Catch /\ UNCHANGED <<disk, active, due, given, alive, warmup, rest, disturbed>>
          /\ op.at \in {"spawned", "ready", "reusing"}
      BY <1>22 DEF StartWriteFails
    <2> QED BY <1>5, <1>15, <2>1, <2>2, <2>3, <2>4
  <1>23. CASE StopFailedStart
    <2>1. /\ \A t \in Sessions : Reused(t)' <=> Reused(t)
          /\ \A t \in Sessions : \A kind \in Kinds :
                Handle(t, kind)' <=> Handle(t, kind) /\ <<t, kind>> # <<s, "recording">>
      BY <1>2, <1>3, <1>5, <1>23, DropTypes DEF StopFailedStart
    <2>2. \A p \in Processes : p \in alive' <=>
              p \in alive /\ ~(p = <<s, "recording">> /\ Handle(s, "recording"))
      BY <1>2, <1>3, <1>5, <1>23, StopTypes DEF StopFailedStart
    <2>3. op.at = "failing" /\ UNCHANGED <<disk, active, given, rest, disturbed>>
      BY <1>23 DEF StopFailedStart, At
    <2>4. \/ op' = Idle /\ ~Running
          \/ /\ op' # Idle /\ op'.s = s /\ op'.kind = op.kind /\ op'.at = "failed"
             /\ op'.copy \in Rows /\ op'.copy.status = "failed"
      <3>1. [op.copy EXCEPT !.status = "failed", !.recording = "none"].status = "failed"
        BY <1>3, ChangedRows
      <3> QED BY <1>1, <1>2, <1>3, <1>6, <1>7, <1>23, <3>1, PersistsTypes DEF StopFailedStart
    <2>5. /\ \A u \in Sessions \ {s} : \A mark \in Kinds \cup {"row"} :
                Marked(u, mark)' <=> Marked(u, mark)
          /\ ~Marked(s, "recording")' /\ (Marked(s, "query")' <=> Marked(s, "query"))
      BY <1>2, <1>23 DEF StopFailedStart, Marked
    <2>6. OnlySession(s)
      BY <2>1, <2>2, <2>3, <2>4, <2>5 DEF OnlySession, Processes
    <2>7. /\ \A kind \in Kinds : <<s, kind>> \in alive' => <<s, kind>> \in alive
          /\ ~Runs(s, "recording")' /\ (Runs(s, "query") => HasRow(s)')
      BY <1>3, <1>5, <2>2, <2>3
         DEF SessionInv, RecorderOK, QueryOK, Runs, Processes, HasRow
    <2>8. FreshOK(s)' /\ CallbackOK(s)' /\ QueryOK(s)' /\ RecorderOK(s)'
      <3>1. FreshOK(s)' /\ CallbackOK(s)' /\ RecorderOK(s)'
        BY <1>3, <1>5, <2>3, <2>4, <2>7 DEF SessionInv, FreshOK, CallbackOK, RecorderOK, On, rest
      <3>2. Handle(s, "query") => Handle(s, "query")'
        BY <1>5, <2>1
      <3> QED BY <1>3, <1>5, <1>10, <2>3, <2>7, <2>5, <3>1, <3>2, QueryKept
    <2>9. PointsOK(s)'
      BY <1>3, <2>3, <2>4, <2>5 DEF SessionInv, PointsOK, On, Mine, HasRow
    <2>10. SettledOK(s)'
      BY <2>3, <2>4 DEF SettledOK, Mine, Running, rest
    <2>11. ClosingOK(s)'
      BY <1>3, <2>1, <2>3, <2>7, ClosingKept DEF SessionInv
    <2>12. SessionInv(s)'
      BY <2>8, <2>9, <2>10, <2>11 DEF SessionInv
    <2> QED BY <1>1, <1>2, <1>3, <1>4, <1>23, <2>4, <2>6, <2>12, OpStepKeeps
            DEF StopFailedStart, WarmUpPoints
  <1>24. CASE RecordFailure
    <2>1. /\ disk'[s] = op.copy /\ \A t \in Sessions \ {s} : disk'[t] = disk[t]
          /\ disturbed \subseteq disturbed'
          /\ service \in {"finalizing", "closed"} /\ closing[s] = Done => s \in disturbed'
          /\ OnlyRowMark(s)
      BY <1>1, <1>2, <1>3, <1>24, <1>8, LandsTypes DEF RecordFailure, Lands
    <2>2. /\ op.at = "failed" /\ op' = Idle /\ UNCHANGED <<runtime, active, alive, rest>>
          /\ given \subseteq given'
      BY <1>24 DEF RecordFailure, Throws, At
    <2>3. OnlySession(s)
      BY <2>1, <2>2 DEF OnlySession, OnlyRowMark, Handle, Reused, Known
    <2>4. HasRow(s)' /\ disk'[s].status = "failed"
      BY <1>3, <2>1, <2>2, RowFields DEF HasRow, SessionInv, PointsOK, On, Mine
    <2>5. ~Runs(s, "recording")'
      BY <1>3, <1>5, <2>1, <2>2 DEF SessionInv, RecorderOK, Runs, On, RecorderPoints
    <2>6. FreshOK(s)' /\ CallbackOK(s)' /\ QueryOK(s)' /\ RecorderOK(s)'
      <3>1. FreshOK(s)' /\ CallbackOK(s)' /\ RecorderOK(s)'
        BY <1>3, <1>5, <2>2, <2>4, <2>5
           DEF SessionInv, FreshOK, CallbackOK, RecorderOK, On, HasRow, rest
      <3> QED BY <1>3, <1>10, <2>1, <2>2, <2>4, <3>1, QueryKept DEF Handle, OnlyRowMark
    <2>7. PointsOK(s)' /\ SettledOK(s)'
      BY <1>5, <1>11, <2>1, <2>2, <2>4 DEF PointsOK, SettledOK, On, Mine, Settled, OnlyRowMark
    <2>8. ClosingOK(s)'
      BY <1>3, <2>1, <2>2, ClosingKept DEF SessionInv, Handle
    <2>9. SessionInv(s)'
      BY <2>6, <2>7, <2>8 DEF SessionInv
    <2> QED BY <1>1, <1>2, <1>3, <1>4, <1>24, <2>2, <2>3, <2>9, OpStepKeeps DEF RecordFailure
  <1> QED BY <1>12, <1>13, <1>22, <1>14, <1>16, <1>17, <1>18, <1>19, <1>20, <1>21, <1>23, <1>24 DEF StartSteps

\* The steps of stopRecording.
LEMMA StopKeeps ==
    ASSUME LabInv, StopSteps
    PROVE  LabInv'
  <1>1. op # Idle /\ op.at \in {"stopping", "halting", "halted"}
    BY DEF StopSteps, RecordStop, Halt, Release, At
  <1>2. PICK s \in Sessions : s = op.s
    BY <1>1, OpSession DEF WarmUpPoints
  <1>3. /\ SessionInv(s) /\ Mine(s) /\ TypeInv /\ TypeOK /\ service # "down" /\ warmup = FALSE
        /\ op \in OpStates /\ op.copy \in Rows /\ op.copy # NoRow
        /\ disk \in [Sessions -> Rows \cup {NoRow, Deleted}]
    BY <1>1, <1>2, OpSession, RowFields DEF WarmUpPoints
  <1>4. TypeInv'
    BY <1>3, StopStepTypes
  <1>5. "recording" \in Kinds /\ "query" \in Kinds
    BY DEF Kinds
  <1>6. {"halting", "halted", "tapping", "booting"} \subseteq Points
    BY DEF Points
  <1>7. /\ [op.copy EXCEPT !.recording = "none"] \in Rows
        /\ [op.copy EXCEPT !.status = "ingesting"] \in Rows
        /\ [op.copy EXCEPT !.status = "booting-query-mode"] \in Rows
        /\ [op.copy EXCEPT !.status = "booting-query-mode"].status = "booting-query-mode"
    BY <1>3, StatusNames DEF Rows
  <1>8. /\ QueryOK(s) /\ ~On(s, QueryPoints)
        /\ Runs(s, "query") => HasRow(s)
        /\ ~Marked(s, "recording")
    BY <1>1, <1>3 DEF SessionInv, PointsOK, QueryOK, On, QueryPoints
  <1>9. op.at = "stopping" => op.kind \in {"stop", "timer"}
    BY <1>1, <1>3, OpHas
  <1>10. \A unseated \in SUBSET Sessions : LandsOver(unseated) => OnlyRowMark(s)
    BY <1>1, <1>2, <1>3, RowMarks
  <1>11. unsaved' = unsaved => OnlyRowMark(s)
    BY <1>1, <1>2, <1>3, RowMarks
  <1> USE DEF memory, world, bounds, marks, ghosts
  <1>12. CASE RecordStop
    <2>1. /\ disk'[s] = op.copy /\ \A t \in Sessions \ {s} : disk'[t] = disk[t]
          /\ disturbed \subseteq disturbed'
          /\ service \in {"finalizing", "closed"} /\ closing[s] = Done => s \in disturbed'
          /\ OnlyRowMark(s)
      BY <1>1, <1>2, <1>3, <1>10, <1>12, LandsTypes DEF RecordStop, Lands
    <2>2. op.at = "stopping" /\ UNCHANGED <<active, alive, rest>>
      BY <1>12 DEF RecordStop, At
    <2>3. /\ SameRuntimes /\ given \subseteq given'
          /\ \/ /\ op' # Idle /\ op'.s = s /\ op'.kind = op.kind /\ op'.copy = op.copy
                /\ op'.at = "halting" \/ (op'.at = "halted" /\ Reused(s))
             \/ op' = Idle /\ (Running => op.kind # "timer" \/ s \in given')
      <3>1. CASE Persists("halted", op.copy) /\ UNCHANGED <<runtime, given>> /\ Reused(s)
        <4>1. SameRuntimes
          BY <1>3, <3>1 DEF SameRuntimes, TypeOK, Known, Reused, Handle
        <4> QED BY <1>1, <1>2, <1>3, <1>6, <3>1, <4>1, PersistsTypes
      <3>2. CASE runtime' = Allow(op.s, "recording") /\ Goes("halting", op.copy)
                   /\ UNCHANGED given
        BY <1>1, <1>2, <1>3, <1>5, <1>6, <3>2, GoesTypes, AllowTypes
      <3>3. CASE Throws /\ UNCHANGED runtime
        <4>1. SameRuntimes
          BY <1>3, <3>3 DEF SameRuntimes, TypeOK, Known, Reused, Handle
        <4> QED BY <1>2, <3>3, <4>1 DEF Throws
      <3> QED BY <1>2, <1>12, <3>1, <3>2, <3>3 DEF RecordStop, Reused, Known
    <2>4. OnlySession(s)
      BY <2>1, <2>2, <2>3 DEF OnlySession, OnlyRowMark, SameRuntimes
    <2>5. HasRow(s)'
      BY <1>3, <2>1, RowFields DEF HasRow
    <2>6. FreshOK(s)' /\ CallbackOK(s)' /\ QueryOK(s)'
      <3>1. FreshOK(s)' /\ CallbackOK(s)'
        BY <1>3, <1>5, <2>2, <2>3, <2>5 DEF SessionInv, FreshOK, CallbackOK, On, HasRow, rest
      <3> QED BY <1>3, <1>5, <1>8, <2>1, <2>2, <2>3, <2>5, <3>1, QueryKept
              DEF SameRuntimes, OnlyRowMark
    <2>7. RecorderOK(s)'
      BY <1>3, <1>5, <2>1, <2>2, <2>3, <2>5
         DEF SessionInv, RecorderOK, Runs, On, Mine, RecorderPoints, SameRuntimes, rest
    <2>8. PointsOK(s)'
      BY <1>8, <2>1, <2>3, <2>5 DEF PointsOK, On, Mine, OnlyRowMark
    <2>9. SettledOK(s)'
      BY <1>3, <1>9, <2>1, <2>2, <2>3
         DEF SessionInv, PointsOK, SettledOK, On, Mine, Running, ExitPending, rest
    <2>10. ClosingOK(s)'
      BY <1>3, <2>1, <2>2, <2>3, ClosingKept DEF SessionInv, SameRuntimes
    <2>11. SessionInv(s)'
      BY <2>6, <2>7, <2>8, <2>9, <2>10 DEF SessionInv
    <2> QED BY <1>1, <1>2, <1>3, <1>4, <1>12, <2>2, <2>3, <2>4, <2>11, OpStepKeeps
            DEF RecordStop, WarmUpPoints
  <1>13. CASE Halt
    <2>1. /\ \A t \in Sessions : Reused(t)' <=> Reused(t)
          /\ \A t \in Sessions : \A kind \in Kinds :
                Handle(t, kind)' <=> Handle(t, kind) /\ <<t, kind>> # <<s, "recording">>
      BY <1>2, <1>3, <1>5, <1>13, DropTypes DEF Halt
    <2>2. \A p \in Processes : p \in alive' <=>
              p \in alive /\ ~(p = <<s, "recording">> /\ Handle(s, "recording"))
      BY <1>2, <1>3, <1>5, <1>13, StopTypes DEF Halt
    <2>3. /\ op.at = "halting" /\ OnlyRowMark(s)
          /\ UNCHANGED <<disk, active, given, rest, disturbed>>
      BY <1>13, <1>11 DEF Halt, At
    <2>4. \/ op' = Idle /\ ~Running
          \/ /\ op' # Idle /\ op'.s = s /\ op'.kind = op.kind /\ op'.at = "halted"
             /\ op'.copy \in Rows
      BY <1>1, <1>2, <1>3, <1>6, <1>7, <1>13, PersistsTypes DEF Halt
    <2>5. OnlySession(s)
      BY <2>1, <2>2, <2>3, <2>4 DEF OnlySession, OnlyRowMark, Processes
    <2>6. /\ \A kind \in Kinds : <<s, kind>> \in alive' => <<s, kind>> \in alive
          /\ ~Runs(s, "recording")'
      BY <1>3, <1>5, <2>2, <2>3 DEF SessionInv, RecorderOK, Runs, Processes
    <2>7. FreshOK(s)' /\ CallbackOK(s)' /\ QueryOK(s)' /\ RecorderOK(s)'
      <3>1. FreshOK(s)' /\ CallbackOK(s)' /\ RecorderOK(s)'
        BY <1>3, <1>5, <2>3, <2>4, <2>6 DEF SessionInv, FreshOK, CallbackOK, RecorderOK, On, rest
      <3>2. /\ Handle(s, "query") => Handle(s, "query")'
            /\ Runs(s, "query") => HasRow(s)'
        BY <1>5, <1>8, <2>1, <2>3 DEF HasRow
      <3> QED BY <1>3, <1>5, <1>8, <2>3, <2>6, <3>1, <3>2, QueryKept DEF OnlyRowMark
    <2>8. PointsOK(s)'
      BY <1>3, <1>8, <2>3, <2>4 DEF SessionInv, PointsOK, On, Mine, HasRow, OnlyRowMark
    <2>9. SettledOK(s)'
      BY <2>3, <2>4 DEF SettledOK, Mine, Running, rest
    <2>10. ClosingOK(s)'
      BY <1>3, <2>1, <2>3, <2>6, ClosingKept DEF SessionInv
    <2>11. SessionInv(s)'
      BY <2>7, <2>8, <2>9, <2>10 DEF SessionInv
    <2> QED BY <1>1, <1>2, <1>3, <1>4, <1>13, <2>3, <2>4, <2>5, <2>11, OpStepKeeps
            DEF Halt, WarmUpPoints
  <1>14. CASE Release
    <2>1. Unseated(s) \in SUBSET Sessions /\ active \in Unseated(s) \cup {s, NoSession}
      BY <1>3 DEF Unseated, TypeOK
    <2>2. /\ disk'[s] = op.copy /\ \A t \in Sessions \ {s} : disk'[t] = disk[t]
          /\ disturbed \subseteq disturbed' /\ Unseated(s) \subseteq disturbed'
          /\ service \in {"finalizing", "closed"} /\ closing[s] = Done => s \in disturbed'
          /\ OnlyRowMark(s)
      BY <1>1, <1>2, <1>3, <1>10, <1>14, <2>1, LandsTypes DEF Release
    <2>3. /\ op.at = "halted" /\ active' = NoSession
          /\ UNCHANGED <<runtime, given, alive, rest>>
      BY <1>14 DEF Release, At
    <2>4. \/ op' = Idle /\ ~Running
          \/ /\ op' # Idle /\ op'.s = s /\ op'.kind = op.kind /\ op'.copy \in Rows
             /\ op'.at = "tapping" \/ (op'.at = "booting"
                                          /\ op'.copy.status = "booting-query-mode")
      BY <1>1, <1>2, <1>3, <1>6, <1>7, <1>14, PersistsTypes DEF Release
    <2>5. OnlySession(s)
      BY <2>1, <2>2, <2>3, <2>4 DEF OnlySession, OnlyRowMark, Handle, Reused, Known
    <2>6. HasRow(s)'
      BY <1>3, <2>2, RowFields DEF HasRow
    <2>7. ~Runs(s, "recording")'
      BY <1>3, <2>2, <2>3 DEF SessionInv, RecorderOK, Runs, On, Mine
    <2>8. FreshOK(s)' /\ CallbackOK(s)' /\ QueryOK(s)' /\ RecorderOK(s)'
      <3>1. FreshOK(s)' /\ CallbackOK(s)' /\ RecorderOK(s)'
        BY <1>3, <1>5, <2>3, <2>4, <2>6, <2>7
           DEF SessionInv, FreshOK, CallbackOK, RecorderOK, On, HasRow, rest
      <3> QED BY <1>3, <1>8, <2>2, <2>3, <2>6, <3>1, QueryKept DEF Handle, OnlyRowMark
    <2>9. PointsOK(s)'
      BY <1>8, <2>2, <2>4, <2>6 DEF PointsOK, On, Mine, OnlyRowMark
    <2>10. SettledOK(s)'
      BY <2>3, <2>4 DEF SettledOK, Mine, Running, rest
    <2>11. ClosingOK(s)'
      BY <1>3, <2>2, <2>3, ClosingKept DEF SessionInv, Handle
    <2>12. SessionInv(s)'
      BY <2>8, <2>9, <2>10, <2>11 DEF SessionInv
    <2>13. op.kind \notin {"start", "reuse"} \/ active' = active
      BY <1>3, <2>3 DEF LabInv, SeatOK, Mine
    <2> QED BY <1>1, <1>2, <1>3, <1>4, <1>14, <2>4, <2>5, <2>12, <2>13, OpStepKeeps
            DEF Release, WarmUpPoints
  <1> QED BY <1>12, <1>13, <1>14 DEF StopSteps

\* The steps of runIngestForSession.
LEMMA IngestKeeps ==
    ASSUME LabInv, IngestSteps
    PROVE  LabInv'
  <1>1. op # Idle /\ op.at \in {"booting", "query spawning", "query spawned", "query waiting",
                                "analysing", "tapping", "ingesting", "finishing", "closing"}
    BY DEF IngestSteps, Boot, SpawnQuery, SpawnQueryFails, RecordQueryPid, QueryReady,
           QueryNotReady, Analyse, Ingest, IngestFails, Finish, IngestWriteFails, Close, At
  <1>2. PICK s \in Sessions : s = op.s
    BY <1>1, OpSession DEF WarmUpPoints
  <1>3. /\ SessionInv(s) /\ Mine(s) /\ TypeInv /\ TypeOK /\ service # "down" /\ warmup = FALSE
        /\ op \in OpStates /\ op.copy \in Rows /\ op.copy # NoRow
        /\ disk \in [Sessions -> Rows \cup {NoRow, Deleted}]
    BY <1>1, <1>2, OpSession, RowFields DEF WarmUpPoints
  <1>4. TypeInv'
    BY <1>3, IngestTypes
  <1>5. "recording" \in Kinds /\ "query" \in Kinds
    BY DEF Kinds
  <1>6. /\ {"query spawning", "query spawned", "query waiting", "analysing", "ingesting",
            "finishing", "closing", "closed"} \subseteq Points
        /\ {"ready", "failed", "booting-query-mode"} \subseteq Terminal \cup {"booting-query-mode"}
    BY DEF Points, Terminal
  <1>7. /\ [op.copy EXCEPT !.query = "running"] \in Rows
        /\ [op.copy EXCEPT !.query = "running"].query = "running"
        /\ [op.copy EXCEPT !.query = "running"].recording = op.copy.recording
        /\ [op.copy EXCEPT !.query = "none"] \in Rows
        /\ [op.copy EXCEPT !.query = "none"].recording = op.copy.recording
        /\ [op.copy EXCEPT !.query = "none"].status = op.copy.status
        /\ [op.copy EXCEPT !.status = "ingesting"] \in Rows
        /\ [op.copy EXCEPT !.status = "ingesting"].recording = op.copy.recording
        /\ [op.copy EXCEPT !.status = "ingesting"].query = op.copy.query
    BY <1>3, StatusNames DEF Rows
  <1>8. /\ [op.copy EXCEPT !.status = "ready", !.ingested = TRUE] \in Rows
        /\ [op.copy EXCEPT !.status = "ready", !.ingested = TRUE].status = "ready"
        /\ [op.copy EXCEPT !.status = "ready", !.ingested = TRUE].recording = op.copy.recording
        /\ [op.copy EXCEPT !.status = "ready", !.ingested = TRUE].query = op.copy.query
    BY <1>3, StatusNames DEF Rows
  <1>9. \A unseated \in SUBSET Sessions : LandsOver(unseated) => OnlyRowMark(s)
    BY <1>1, <1>2, <1>3, RowMarks
  <1>10. unsaved' = unsaved => OnlyRowMark(s)
    BY <1>1, <1>2, <1>3, RowMarks
  <1>11. ~Marked(s, "recording")
    BY <1>1, <1>3 DEF SessionInv, PointsOK, On
  \* A point of the ingest whose row is not written, or cannot be.
  <1>12. ASSUME op' # Idle, op'.s = s, op'.kind = op.kind, op'.copy \in Rows,
                op.at \in {"query waiting", "ingesting", "analysing", "finishing"},
                OnlyRowMark(s),
                op'.at \in {"analysing", "finishing", "closing"},
                op'.at # "analysing" => op'.copy.status \in {"ready", "failed"},
                op'.copy.recording = op.copy.recording, op'.copy.query = op.copy.query,
                SameRuntimes, given \subseteq given', warmup' = FALSE,
                UNCHANGED <<disk, active, alive, rest, disturbed>>
         PROVE  LabInv'
    <2>1. OnlySession(s)
      BY <1>12 DEF OnlySession, OnlyRowMark, SameRuntimes
    <2>2. FreshOK(s)' /\ CallbackOK(s)'
      BY <1>3, <1>5, <1>12 DEF SessionInv, FreshOK, CallbackOK, On, rest
    <2>3. RecorderOK(s)'
      BY <1>3, <1>5, <1>12, <1>11, RowFields
         DEF SessionInv, RecorderOK, Runs, On, HasRow, Mine, RecorderPoints, SameRuntimes, rest
    <2>4. QueryOK(s)'
      BY <1>3, <1>5, <1>12, RowFields
         DEF SessionInv, QueryOK, Runs, On, HasRow, Mine, QueryPoints, SameRuntimes,
             OnlyRowMark, rest
    <2>5. PointsOK(s)' /\ SettledOK(s)'
      BY <1>3, <1>12, <1>11 DEF SessionInv, PointsOK, SettledOK, On, Mine, HasRow, OnlyRowMark
    <2>6. ClosingOK(s)'
      BY <1>3, <1>12, ClosingKept DEF SessionInv, SameRuntimes
    <2>7. SessionInv(s)'
      BY <2>2, <2>3, <2>4, <2>5, <2>6 DEF SessionInv
    <2> QED BY <1>1, <1>2, <1>4, <1>12, <2>1, <2>7, OpStepKeeps DEF WarmUpPoints
  \* A write after which the ingest goes on.
  <1>13. ASSUME Lands, op' # Idle, op'.s = s, op'.kind = op.kind, op'.copy = op.copy,
                \/ op.at = "booting" /\ op'.at = "query spawning"
                \/ op.at = "query spawned" /\ op'.at = "query waiting"
                \/ op.at \in {"analysing", "tapping"} /\ op'.at = "ingesting"
                \/ op.at = "finishing" /\ op'.at = "closing",
                SameRuntimes, given \subseteq given', warmup' = FALSE,
                UNCHANGED <<active, alive, rest>>
         PROVE  LabInv'
    <2>1. /\ disk'[s] = op.copy /\ \A t \in Sessions \ {s} : disk'[t] = disk[t]
          /\ disturbed \subseteq disturbed'
          /\ service \in {"finalizing", "closed"} /\ closing[s] = Done => s \in disturbed'
          /\ OnlyRowMark(s)
      BY <1>1, <1>2, <1>3, <1>13, <1>9, LandsTypes DEF Lands
    <2>2. OnlySession(s)
      BY <1>13, <2>1 DEF OnlySession, OnlyRowMark, SameRuntimes
    <2>3. HasRow(s)'
      BY <1>3, <2>1, RowFields DEF HasRow
    <2>4. FreshOK(s)' /\ CallbackOK(s)'
      BY <1>3, <1>5, <1>13, <2>3 DEF SessionInv, FreshOK, CallbackOK, On, HasRow, rest
    <2>5. RecorderOK(s)'
      BY <1>3, <1>5, <1>13, <1>11, <2>1, <2>3
         DEF SessionInv, RecorderOK, Runs, On, Mine, RecorderPoints, SameRuntimes, rest
    <2>6. QueryOK(s)'
      BY <1>3, <1>5, <1>13, <2>1, <2>3
         DEF SessionInv, QueryOK, Runs, On, Mine, QueryPoints, SameRuntimes, OnlyRowMark,
             rest
    <2>7. PointsOK(s)' /\ SettledOK(s)'
      BY <1>3, <1>13, <1>11, <2>1, <2>3
         DEF SessionInv, PointsOK, SettledOK, On, Mine, OnlyRowMark
    <2>8. ClosingOK(s)'
      BY <1>3, <1>13, <2>1, ClosingKept DEF SessionInv, SameRuntimes
    <2>9. SessionInv(s)'
      BY <2>4, <2>5, <2>6, <2>7, <2>8 DEF SessionInv
    <2> QED BY <1>1, <1>2, <1>4, <1>13, <2>2, <2>9, OpStepKeeps DEF WarmUpPoints
  \* The end of the ingest without a process of its own.
  <1>14. ASSUME op' = Idle, SameHandles, OnlyRowMark(s), given \subseteq given',
                warmup' = FALSE, UNCHANGED <<active, alive, rest>>,
                ~Runs(s, "query") \/ ~On(s, QueryPoints),
                disturbed \subseteq disturbed',
                \A t \in Sessions \ {s} : disk'[t] = disk[t],
                \/ disk'[s] = disk[s] /\ (Running => \/ s \in disturbed
                                                     \/ disk[s].status = "booting-query-mode"
                                                     \/ Marked(s, "row")')
                \/ /\ disk'[s] = op.copy /\ op.copy.status \in {"ready", "failed"}
                   /\ service \in {"finalizing", "closed"} /\ closing[s] = Done
                          => s \in disturbed'
         PROVE  LabInv'
    <2>1. OnlySession(s)
      BY <1>14 DEF OnlySession, OnlyRowMark, SameHandles
    <2>2. HasRow(s)'
      BY <1>1, <1>3, <1>14, RowFields DEF SessionInv, PointsOK, HasRow
    <2>3. FreshOK(s)' /\ CallbackOK(s)'
      BY <1>3, <1>5, <1>14, <2>2 DEF SessionInv, FreshOK, CallbackOK, On, HasRow, rest
    <2>4. RecorderOK(s)'
      BY <1>1, <1>3, <1>5, <1>14, <1>11, <2>2
         DEF SessionInv, RecorderOK, Runs, On, Mine, RecorderPoints, SameHandles, rest
    <2>5. QueryOK(s)'
      <3>1. CASE ~Runs(s, "query")
        BY <1>14, <3>1 DEF QueryOK, Runs
      <3>2. CASE ~On(s, QueryPoints)
        <4>1. QueryOK(s)
          BY <1>3 DEF SessionInv
        <4> QED BY <1>3, <1>5, <1>14, <2>2, <3>2, <4>1, QueryKept
                DEF SameHandles, OnlyRowMark, rest
      <3> QED BY <1>14, <3>1, <3>2
    <2>6. PointsOK(s)' /\ SettledOK(s)'
      BY <1>3, <1>6, <1>14, <1>11
         DEF SessionInv, PointsOK, SettledOK, On, Mine, Settled, Running, OnlyRowMark, rest
    <2>7. ClosingOK(s)'
      BY <1>3, <1>14, ClosingKept DEF SessionInv, SameHandles
    <2>8. SessionInv(s)'
      BY <2>3, <2>4, <2>5, <2>6, <2>7 DEF SessionInv
    <2> QED BY <1>1, <1>2, <1>4, <1>14, <2>1, <2>8, OpStepKeeps
  <1>15. runtime' = runtime => SameRuntimes
    BY <1>3 DEF SameRuntimes, TypeOK, Known, Reused, Handle
  <1>16. SameRuntimes => SameHandles
    BY DEF SameRuntimes, SameHandles
  \* The ingest has failed, in its "try" or in its "catch".
  <1>17. ASSUME op.at \in {"query waiting", "ingesting", "analysing", "finishing"},
                IngestFailed \/ (op.copy.status = "failed" /\ StopQuery(op.copy)),
                warmup' = FALSE, OnlyRowMark(s), IngestFailed \/ Marked(s, "row")',
                UNCHANGED <<disk, active, alive, rest, disturbed>>
         PROVE  LabInv'
    <2>1. /\ SameRuntimes /\ given \subseteq given'
          /\ \/ op' = Idle /\ ~Handle(s, "query") /\ (~Running \/ Marked(s, "row")')
             \/ /\ op' # Idle /\ op'.kind = op.kind /\ op'.s = s
                /\ op'.at \in {"finishing", "closing"} /\ op'.copy \in Rows
                /\ op'.copy.status = "failed" /\ op'.copy.recording = op.copy.recording
                /\ op'.copy.query = op.copy.query
      <3>1. CASE IngestFailed
        BY <1>1, <1>2, <1>3, <3>1, IngestFailedTypes
      <3>2. CASE op.copy.status = "failed" /\ StopQuery(op.copy) /\ Marked(s, "row")'
        BY <1>1, <1>2, <1>3, <3>2, StopQueryTypes
      <3> QED BY <1>17, <3>1, <3>2
    <2>2. CASE op' = Idle
      <3>1. (~Running \/ Marked(s, "row")') /\ ~Runs(s, "query")
        BY <1>3, <2>1, <2>2 DEF SessionInv, QueryOK
      <3> QED BY <1>14, <1>16, <1>17, <2>1, <2>2, <3>1
    <2>3. CASE op' # Idle
      BY <1>12, <1>17, <2>1, <2>3
    <2> QED BY <2>2, <2>3
  <1> USE DEF memory, world, bounds, marks, ghosts
  <1>18. CASE Boot
    <2>1. op' # Idle /\ op'.s = s /\ op'.kind = op.kind /\ op'.at = "query spawning" /\ op'.copy = op.copy
      BY <1>1, <1>2, <1>3, <1>6, <1>18, GoesTypes DEF Boot
    <2> QED BY <1>3, <1>13, <1>15, <1>18, <2>1 DEF Boot, At
  <1>19. CASE RecordQueryPid
    <2>1. op' # Idle /\ op'.s = s /\ op'.kind = op.kind /\ op'.at = "query waiting" /\ op'.copy = op.copy
      BY <1>1, <1>2, <1>3, <1>6, <1>19, GoesTypes DEF RecordQueryPid
    <2> QED BY <1>3, <1>13, <1>15, <1>19, <2>1 DEF RecordQueryPid, At
  <1>20. CASE Analyse
    <2>1. op' # Idle /\ op'.s = s /\ op'.kind = op.kind /\ op'.at = "ingesting" /\ op'.copy = op.copy
      BY <1>1, <1>2, <1>3, <1>6, <1>20, GoesTypes DEF Analyse
    <2> QED BY <1>3, <1>13, <1>15, <1>20, <2>1 DEF Analyse, At
  <1>21. CASE QueryReady
    <2>1. /\ op' # Idle /\ op'.s = s /\ op'.kind = op.kind /\ op'.at = "analysing"
          /\ op'.copy \in Rows
          /\ op'.copy.recording = op.copy.recording /\ op'.copy.query = op.copy.query
      BY <1>1, <1>2, <1>3, <1>6, <1>7, <1>21, GoesTypes DEF QueryReady
    <2> QED BY <1>3, <1>12, <1>15, <1>21, <1>10, <2>1 DEF QueryReady, At
  <1>22. CASE Ingest
    <2>1. /\ op' # Idle /\ op'.s = s /\ op'.kind = op.kind /\ op'.at = "finishing"
          /\ op'.copy \in Rows /\ op'.copy.status = "ready"
          /\ op'.copy.recording = op.copy.recording /\ op'.copy.query = op.copy.query
      BY <1>1, <1>2, <1>3, <1>6, <1>8, <1>22, GoesTypes DEF Ingest
    <2> QED BY <1>3, <1>12, <1>15, <1>22, <1>10, <2>1 DEF Ingest, At
  <1>23. CASE QueryNotReady
    BY <1>3, <1>17, <1>23, <1>10 DEF QueryNotReady, At
  <1>24. CASE IngestFails
    BY <1>3, <1>17, <1>24, <1>10 DEF IngestFails, At
  <1>25. CASE IngestWriteFails
    <2>1. /\ WriteFails({}) /\ op.at \in {"analysing", "finishing"}
          /\ IF op.copy.status = "failed" THEN StopQuery(op.copy) ELSE IngestFailed
          /\ UNCHANGED <<disk, active, alive, warmup, rest, disturbed>>
      BY <1>25 DEF IngestWriteFails
    <2>2. OnlyRowMark(s) /\ Marked(s, "row")'
      BY <1>1, <1>2, <1>3, <2>1, RowMarks
    <2> QED BY <1>3, <1>17, <2>1, <2>2
  <1>26. CASE SpawnQuery
    <2>1. /\ op' # Idle /\ op'.s = s /\ op'.kind = op.kind /\ op'.at = "query spawned"
          /\ op'.copy \in Rows /\ op'.copy.query = "running"
          /\ op'.copy.recording = op.copy.recording
      BY <1>1, <1>2, <1>3, <1>6, <1>7, <1>26, GoesTypes DEF SpawnQuery
    <2>2. \A t \in Sessions :
             /\ Reused(t)' <=> Reused(t)
             /\ \A kind \in Kinds :
                   Handle(t, kind)' <=> Handle(t, kind) \/ (t = s /\ kind = "query")
      <3>1. runtime' = Readied(op.s, {"query"}) /\ {"query"} \in SUBSET Kinds
        BY <1>5, <1>26 DEF SpawnQuery
      <3> QED BY <1>2, <1>3, <3>1, ReadiedTypes
    <2>3. /\ op.at = "query spawning" /\ service = "running"
          /\ alive' = alive \cup {<<s, "query">>}
          /\ UNCHANGED <<disk, active, given, rest, disturbed, warmup>>
      BY <1>2, <1>26 DEF SpawnQuery, At, Running
    <2>4. /\ \A u \in Sessions \ {s} : \A mark \in Kinds \cup {"row"} :
                Marked(u, mark)' <=> Marked(u, mark)
          /\ Marked(s, "recording")' <=> Marked(s, "recording")
      BY <1>2, <1>26 DEF SpawnQuery, Marked
    <2>5. OnlySession(s)
      BY <2>1, <2>2, <2>3, <2>4 DEF OnlySession
    <2>6. HasRow(s)
      BY <1>3, <2>3 DEF SessionInv, PointsOK
    <2>7. FreshOK(s)' /\ CallbackOK(s)'
      BY <1>3, <1>5, <2>1, <2>3, <2>6 DEF SessionInv, FreshOK, CallbackOK, On, HasRow, rest
    <2>8. RecorderOK(s)'
      BY <1>3, <1>5, <1>11, <2>1, <2>2, <2>3, <2>6, RowFields
         DEF SessionInv, RecorderOK, Runs, On, Mine, HasRow, RecorderPoints, rest
    <2>9. QueryOK(s)'
      BY <1>5, <2>1, <2>2, <2>3, <2>6, RowFields
         DEF QueryOK, On, Mine, HasRow, QueryPoints
    <2>10. PointsOK(s)' /\ SettledOK(s)'
      BY <1>11, <2>1, <2>3, <2>6, <2>4 DEF PointsOK, SettledOK, On, Mine, HasRow
    <2>11. ClosingOK(s)'
      BY <1>3, <2>3, ClosingKept DEF SessionInv, Running
    <2>12. SessionInv(s)'
      BY <2>7, <2>8, <2>9, <2>10, <2>11 DEF SessionInv
    <2> QED BY <1>1, <1>2, <1>3, <1>4, <2>1, <2>3, <2>5, <2>12, OpStepKeeps DEF WarmUpPoints
  <1>27. CASE SpawnQueryFails
    <2>1. /\ op.at = "query spawning" /\ op' = Idle /\ given \subseteq given'
          /\ OnlyRowMark(s)
          /\ UNCHANGED <<disk, active, alive, warmup, rest, disturbed>>
      BY <1>27, <1>10 DEF SpawnQueryFails, Throws, At
    <2>2. Running => s \in disturbed \/ disk[s].status = "booting-query-mode"
      BY <1>3, <2>1 DEF SessionInv, PointsOK, On, Mine
    <2>3. ~On(s, QueryPoints)
      BY <2>1 DEF On, QueryPoints
    <2>4. SameHandles
      <3>1. CASE runtime' = runtime
        BY <1>15, <1>16, <3>1
      <3>2. CASE runtime' = Readied(op.s, {})
        BY <1>2, <1>3, <3>2, ReadiedTypes DEF SameHandles
      <3> QED BY <1>27, <3>1, <3>2 DEF SpawnQueryFails
    <2> QED BY <1>3, <1>14, <2>1, <2>2, <2>3, <2>4
  <1>28. CASE Finish
    <2>1. /\ SameRuntimes /\ given \subseteq given'
          /\ \/ /\ op' # Idle /\ op'.kind = op.kind /\ op'.s = s
                /\ op'.at = "closing" /\ op'.copy = op.copy
             \/ ~Handle(s, "query") /\ op' = Idle
      BY <1>1, <1>2, <1>3, <1>28, StopQueryTypes DEF Finish
    <2>2. Lands /\ op.at = "finishing" /\ UNCHANGED <<active, alive, warmup, rest>>
      BY <1>28 DEF Finish, At
    <2>3. CASE op' # Idle
      BY <1>3, <1>13, <2>1, <2>2, <2>3
    <2>4. CASE op' = Idle
      <3>1. /\ disk'[s] = op.copy /\ \A t \in Sessions \ {s} : disk'[t] = disk[t]
            /\ disturbed \subseteq disturbed'
            /\ service \in {"finalizing", "closed"} /\ closing[s] = Done => s \in disturbed'
            /\ OnlyRowMark(s)
        BY <1>1, <1>2, <1>3, <1>9, <2>2, LandsTypes DEF Lands
      <3>2. op.copy.status \in {"ready", "failed"}
        BY <1>3, <2>2 DEF SessionInv, PointsOK, On, Mine
      <3>3. ~Runs(s, "query")
        BY <1>3, <2>1, <2>4 DEF SessionInv, QueryOK
      <3> QED BY <1>3, <1>14, <1>16, <2>1, <2>2, <2>4, <3>1, <3>2, <3>3
    <2> QED BY <2>3, <2>4
  <1>29. CASE Close
    <2>1. /\ \A t \in Sessions : Reused(t)' <=> Reused(t)
          /\ \A t \in Sessions : \A kind \in Kinds :
                Handle(t, kind)' <=> Handle(t, kind) /\ <<t, kind>> # <<s, "query">>
      BY <1>2, <1>3, <1>5, <1>29, DropTypes DEF Close
    <2>2. \A p \in Processes : p \in alive' <=>
              p \in alive /\ ~(p = <<s, "query">> /\ Handle(s, "query"))
      BY <1>2, <1>3, <1>5, <1>29, StopTypes DEF Close
    <2>3. /\ op.at = "closing" /\ OnlyRowMark(s)
          /\ UNCHANGED <<disk, active, given, rest, disturbed, warmup>>
      BY <1>29, <1>10 DEF Close, At
    <2>4. \/ op' = Idle /\ ~Running
          \/ /\ op' # Idle /\ op'.s = s /\ op'.kind = op.kind /\ op'.at = "closed"
             /\ op'.copy \in Rows /\ op'.copy.recording = op.copy.recording
             /\ op'.copy.status = op.copy.status
      BY <1>1, <1>2, <1>3, <1>6, <1>7, <1>29, PersistsTypes DEF Close
    <2>5. OnlySession(s)
      BY <2>1, <2>2, <2>3, <2>4 DEF OnlySession, OnlyRowMark, Processes
    <2>6. /\ \A kind \in Kinds : <<s, kind>> \in alive' => <<s, kind>> \in alive
          /\ ~Runs(s, "query")'
      BY <1>3, <1>5, <2>2, <2>3 DEF SessionInv, QueryOK, Runs, Processes
    <2>7. FreshOK(s)' /\ CallbackOK(s)' /\ QueryOK(s)'
      BY <1>3, <1>5, <2>3, <2>4, <2>6
         DEF SessionInv, FreshOK, CallbackOK, QueryOK, On, rest
    <2>8. RecorderOK(s)'
      BY <1>3, <1>5, <1>11, <2>1, <2>3, <2>4, <2>6, RowFields
         DEF SessionInv, RecorderOK, Runs, On, Mine, HasRow, RecorderPoints, rest
    <2>9. PointsOK(s)'
      BY <1>3, <1>11, <2>3, <2>4 DEF SessionInv, PointsOK, On, Mine, HasRow, OnlyRowMark
    <2>10. SettledOK(s)'
      BY <2>3, <2>4 DEF SettledOK, Mine, Running, rest
    <2>11. ClosingOK(s)'
      BY <1>3, <2>1, <2>3, <2>6, ClosingKept DEF SessionInv
    <2>12. SessionInv(s)'
      BY <2>7, <2>8, <2>9, <2>10, <2>11 DEF SessionInv
    <2> QED BY <1>1, <1>2, <1>3, <1>4, <2>3, <2>4, <2>5, <2>12, OpStepKeeps DEF WarmUpPoints
  <1> QED BY <1>25, <1>18, <1>19, <1>20, <1>21, <1>22, <1>23, <1>24, <1>26, <1>27, <1>28, <1>29
          DEF IngestSteps

\* The other steps of a mutation under way.
LEMMA OtherKeeps ==
    ASSUME LabInv, OtherSteps
    PROVE  LabInv'
  <1>1. op # Idle /\ op.at \in {"closed", "scheduling", "staged", "stage failed", "marking",
                                "stopping", "staging", "stage running", "booting",
                                "deleting", "failed", "halted", "query spawned", "tapping"}
    BY DEF OtherSteps, Conclude, RefusedByShutdown, RecordStage, StageEnds, Delete,
           WriteThrows, RequestThrows, StageWriteFails, At
  <1>2. PICK s \in Sessions : s = op.s
    BY <1>1, OpSession DEF WarmUpPoints
  <1>3. /\ SessionInv(s) /\ Mine(s) /\ TypeInv /\ TypeOK /\ service # "down" /\ warmup = FALSE
        /\ op \in OpStates
        /\ disk \in [Sessions -> Rows \cup {NoRow, Deleted}]
        /\ op.at # "deleting" => op.copy \in Rows
        /\ op.at = "scheduling" => op.kind = "schedule"
    BY <1>1, <1>2, OpSession, OpHas DEF WarmUpPoints
  <1>4. TypeInv'
    BY <1>3, OtherTypes
  <1>5. "recording" \in Kinds /\ "query" \in Kinds /\ {"ready", "failed"} \subseteq Terminal
    BY DEF Kinds, Terminal
  <1>6. {"stage running", "staged", "stage failed"} \subseteq Points
    BY DEF Points
  <1>7. /\ Runs(s, "recording") => active = s
        /\ ~Marked(s, "recording") /\ QueryOK(s) /\ HasRow(s)
        /\ op.at # "query spawned" => ~On(s, QueryPoints)
    BY <1>1, <1>3, <1>5
       DEF SessionInv, QueryOK, RecorderOK, PointsOK, On, QueryPoints, RecorderPoints
  <1>8. unsaved' = unsaved => OnlyRowMark(s)
    BY DEF OnlyRowMark, Marked
  <1>9. ASSUME op.at # "query spawned", UNCHANGED <<alive, rest>>, HasRow(s)',
               disturbed \subseteq disturbed', OnlyRowMark(s),
               Handle(s, "query") => Handle(s, "query")'
        PROVE  QueryOK(s)'
    BY <1>3, <1>7, <1>9, QueryKept DEF OnlyRowMark
  \* A write of the row, after which the mutation ends or goes on.
  <1>10. ASSUME Lands, op.at \notin {"deleting", "query spawned"}, warmup' = FALSE, given \subseteq given',
                UNCHANGED <<runtime, active, alive, rest>>,
                \/ /\ op' = Idle
                   /\ \/ op.copy.status \in {"ready", "failed"}
                      \/ op.at = "scheduling"
                \/ /\ op' # Idle /\ op'.s = s /\ op'.kind = op.kind /\ op'.copy = op.copy
                   /\ op'.at = "stage running"
         PROVE  LabInv'
    <2>1. /\ disk'[s] = op.copy /\ \A t \in Sessions \ {s} : disk'[t] = disk[t]
          /\ disturbed \subseteq disturbed'
          /\ service \in {"finalizing", "closed"} /\ closing[s] = Done => s \in disturbed'
          /\ OnlyRowMark(s)
      BY <1>1, <1>2, <1>3, <1>10, LandsTypes, RowMarks DEF Lands
    <2>2. OnlySession(s)
      BY <1>10, <2>1 DEF OnlySession, OnlyRowMark, Handle, Reused, Known
    <2>3. HasRow(s)'
      BY <1>3, <1>10, <2>1, RowFields DEF HasRow
    <2>4. FreshOK(s)' /\ CallbackOK(s)' /\ QueryOK(s)'
      <3>1. FreshOK(s)' /\ CallbackOK(s)'
        BY <1>1, <1>3, <1>5, <1>10, <2>3 DEF SessionInv, FreshOK, CallbackOK, On, HasRow, rest
      <3> QED BY <1>9, <1>10, <2>1, <2>3, <3>1 DEF Handle
    <2>5. RecorderOK(s)'
      BY <1>3, <1>5, <1>7, <1>10, <2>1, <2>3, RowFields
         DEF SessionInv, RecorderOK, Runs, On, Mine, RecorderPoints, Handle, Reused, Known, rest
    <2>6. PointsOK(s)'
      BY <1>7, <1>10, <2>1, <2>3 DEF PointsOK, On, Mine, OnlyRowMark
    <2>7. SettledOK(s)'
      BY <1>3, <1>5, <1>10, <2>1
         DEF SessionInv, PointsOK, SettledOK, Settled, On, Mine, Running, ExitPending, rest
    <2>8. ClosingOK(s)'
      BY <1>3, <1>10, <2>1, ClosingKept DEF SessionInv, Handle
    <2>9. SessionInv(s)'
      BY <2>4, <2>5, <2>6, <2>7, <2>8 DEF SessionInv
    <2> QED BY <1>1, <1>2, <1>4, <1>10, <2>2, <2>9, OpStepKeeps DEF WarmUpPoints
  <1> USE DEF memory, world, bounds, marks, ghosts
  <1>11. CASE Conclude
    <2>1. /\ Lands /\ op' = Idle /\ given \subseteq given' /\ warmup' = FALSE
          /\ op.at \in {"closed", "scheduling", "staged", "stage failed", "marking"}
          /\ UNCHANGED <<runtime, active, alive, rest>>
      BY <1>3, <1>11 DEF Conclude, Throws, Ends
    <2>2. op.copy.status \in {"ready", "failed"} \/ op.at = "scheduling"
      BY <1>3, <2>1 DEF SessionInv, PointsOK, On, Mine
    <2> QED BY <1>10, <2>1, <2>2
  <1>12. CASE RecordStage
    <2>1. op' # Idle /\ op'.s = s /\ op'.kind = op.kind /\ op'.at = "stage running" /\ op'.copy = op.copy
      BY <1>1, <1>2, <1>3, <1>6, <1>12, GoesTypes DEF RecordStage, At
    <2> QED BY <1>3, <1>10, <1>12, <2>1 DEF RecordStage, At
  <1>13. CASE StageEnds
    <2>1. /\ [op.copy EXCEPT !.status = "ready"] \in Rows
          /\ [op.copy EXCEPT !.status = "ready"].status = "ready"
          /\ [op.copy EXCEPT !.status = "ready"].recording = op.copy.recording
      BY <1>3, <1>13, StatusNames DEF StageEnds, At, Rows
    <2>2. /\ op' # Idle /\ op'.s = s /\ op'.kind = op.kind
          /\ op'.at \in {"staged", "stage failed"}
          /\ op'.copy \in Rows /\ op'.copy.status = "ready"
          /\ op'.copy.recording = op.copy.recording
      BY <1>1, <1>2, <1>3, <1>6, <1>13, <2>1, GoesTypes DEF StageEnds
    <2>3. /\ op.at = "stage running" /\ OnlyRowMark(s)
          /\ UNCHANGED <<disk, runtime, active, given, alive, warmup, rest, disturbed>>
      BY <1>13, <1>8 DEF StageEnds, At
    <2>4. OnlySession(s)
      BY <2>2, <2>3 DEF OnlySession, OnlyRowMark, Handle, Reused, Known
    <2>5. FreshOK(s)' /\ CallbackOK(s)' /\ QueryOK(s)'
      <3>1. FreshOK(s)' /\ CallbackOK(s)' /\ HasRow(s)'
        BY <1>3, <1>5, <1>7, <2>2, <2>3 DEF SessionInv, FreshOK, CallbackOK, On, HasRow, rest
      <3> QED BY <1>9, <2>3, <3>1 DEF Handle
    <2>6. RecorderOK(s)'
      BY <1>3, <1>5, <1>7, <2>2, <2>3, RowFields
         DEF SessionInv, RecorderOK, Runs, On, Mine, HasRow, RecorderPoints, Handle, Reused,
             Known, rest
    <2>7. PointsOK(s)' /\ SettledOK(s)'
      BY <1>3, <1>7, <2>2, <2>3
         DEF SessionInv, PointsOK, SettledOK, On, Mine, HasRow, OnlyRowMark
    <2>8. ClosingOK(s)'
      BY <1>3, <2>3, ClosingKept DEF SessionInv, Handle
    <2>9. SessionInv(s)'
      BY <2>5, <2>6, <2>7, <2>8 DEF SessionInv
    <2> QED BY <1>1, <1>2, <1>3, <1>4, <2>2, <2>3, <2>4, <2>9, OpStepKeeps DEF WarmUpPoints
  <1>14. CASE StageWriteFails
    <2>1. /\ op.at = "staged" /\ UNCHANGED <<disk, runtime, active, given, alive, warmup, rest,
                                             disturbed>>
      BY <1>14 DEF StageWriteFails, At
    <2>2. OnlyRowMark(s) /\ Marked(s, "row")'
      BY <1>1, <1>2, <1>3, <1>14, RowMarks DEF StageWriteFails, At
    <2>3. \/ op' = Idle /\ ~Running
          \/ /\ op' # Idle /\ op'.s = s /\ op'.kind = op.kind /\ op'.at = "stage failed"
             /\ op'.copy = op.copy
      BY <1>1, <1>2, <1>3, <1>6, <1>14, <2>1, PersistsTypes DEF StageWriteFails
    <2>4. OnlySession(s)
      BY <2>1, <2>2, <2>3 DEF OnlySession, OnlyRowMark, Handle, Reused, Known
    <2>5. FreshOK(s)' /\ CallbackOK(s)' /\ QueryOK(s)'
      <3>1. FreshOK(s)' /\ CallbackOK(s)' /\ HasRow(s)'
        BY <1>3, <1>5, <1>7, <2>1, <2>3 DEF SessionInv, FreshOK, CallbackOK, On, HasRow, rest
      <3> QED BY <1>9, <2>1, <2>2, <3>1 DEF Handle
    <2>6. RecorderOK(s)'
      BY <1>3, <1>5, <1>7, <2>1, <2>3, RowFields
         DEF SessionInv, RecorderOK, Runs, On, Mine, HasRow, RecorderPoints, Handle, Reused,
             Known, rest
    <2>7. PointsOK(s)' /\ SettledOK(s)'
      BY <1>3, <1>7, <2>1, <2>2, <2>3
         DEF SessionInv, PointsOK, SettledOK, On, Mine, HasRow, OnlyRowMark
    <2>8. ClosingOK(s)'
      BY <1>3, <2>1, ClosingKept DEF SessionInv, Handle
    <2>9. SessionInv(s)'
      BY <2>5, <2>6, <2>7, <2>8 DEF SessionInv
    <2> QED BY <1>1, <1>2, <1>3, <1>4, <2>1, <2>3, <2>4, <2>9, OpStepKeeps DEF WarmUpPoints
  \* The end of a mutation without a write.
  <1>15. ASSUME op' = Idle, given \subseteq given',
                UNCHANGED <<disk, runtime, active, alive, warmup, rest, disturbed>>,
                \A u \in Sessions \ {s} : \A mark \in Kinds \cup {"row"} :
                   Marked(u, mark)' <=> Marked(u, mark),
                ~Marked(s, "recording")', Marked(s, "query") => Marked(s, "query")',
                op.at = "query spawned" => Marked(s, "query")',
                Marked(s, "row") => Marked(s, "row")',
                \/ Marked(s, "row")' \/ ~Running
                \/ op.at \in {"staging", "scheduling", "deleting"}
         PROVE  LabInv'
    <2>1. OnlySession(s)
      BY <1>15 DEF OnlySession, Handle, Reused, Known
    <2>2. FreshOK(s)' /\ CallbackOK(s)'
      BY <1>3, <1>5, <1>7, <1>15 DEF SessionInv, FreshOK, CallbackOK, On, HasRow, rest
    <2>3. QueryOK(s)'
      <3>1. CASE op.at = "query spawned"
        BY <1>3, <1>7, <1>15, <3>1 DEF QueryOK, Runs, HasRow, Mine, Handle
      <3>2. CASE op.at # "query spawned"
        <4>1. HasRow(s)' /\ (Handle(s, "query") => Handle(s, "query")')
          BY <1>7, <1>15 DEF HasRow, Handle
        <4> QED BY <1>3, <1>7, <1>15, <3>2, <4>1, QueryKept
      <3> QED BY <3>1, <3>2
    <2>4. RecorderOK(s)'
      BY <1>1, <1>3, <1>5, <1>7, <1>15
         DEF SessionInv, RecorderOK, Runs, On, Mine, HasRow, Handle, Reused, Known, rest
    <2>5. PointsOK(s)' /\ SettledOK(s)'
      BY <1>3, <1>15
         DEF SessionInv, PointsOK, SettledOK, Settled, ExitPending, On, Mine, HasRow, Running,
             rest
    <2>6. ClosingOK(s)'
      BY <1>3, <1>15, ClosingKept DEF SessionInv, Handle
    <2>7. SessionInv(s)'
      BY <2>2, <2>3, <2>4, <2>5, <2>6 DEF SessionInv
    <2> QED BY <1>1, <1>2, <1>3, <1>4, <1>15, <2>1, <2>7, OpStepKeeps
  <1>16. CASE WriteThrows
    <2>1. PICK kinds \in {{}, {"query"}} :
              WriteFails(kinds) /\ (op.at = "query spawned" => kinds = {"query"})
      BY <1>16 DEF WriteThrows
    <2>2. kinds \in SUBSET Kinds /\ "recording" \notin kinds /\ "row" # "recording"
      BY <1>5, <2>1
    <2>3. op.at # "deleting"
      BY <1>16 DEF WriteThrows
    <2>4. \A u \in Sessions, mark \in Kinds \cup {"row"} :
              Marked(u, mark)' <=> Marked(u, mark) \/ (u = s /\ mark \in kinds \cup {"row"})
      BY <1>1, <1>2, <1>3, <2>1, <2>2, <2>3, WriteFailsTypes DEF Marked
    <2>5. /\ op' = Idle /\ given \subseteq given'
          /\ UNCHANGED <<disk, runtime, active, alive, warmup, rest, disturbed>>
      BY <1>16 DEF WriteThrows, Throws
    <2>6. \A u \in Sessions \ {s} : \A mark \in Kinds \cup {"row"} :
              Marked(u, mark)' <=> Marked(u, mark)
      BY <2>4
    <2>7. /\ Marked(s, "row")' /\ ~Marked(s, "recording")'
          /\ Marked(s, "query") => Marked(s, "query")'
          /\ op.at = "query spawned" => Marked(s, "query")'
      <3>1. \A mark \in Kinds \cup {"row"} :
                Marked(s, mark)' <=> Marked(s, mark) \/ mark \in kinds \cup {"row"}
        BY <2>4
      <3>2. Marked(s, "row")'
        BY <3>1
      <3>3. ~Marked(s, "recording")'
        BY <1>5, <1>7, <2>2, <3>1
      <3>4. Marked(s, "query")' <=> Marked(s, "query") \/ "query" \in kinds \cup {"row"}
        BY <1>5, <3>1
      <3> QED BY <2>1, <3>2, <3>3, <3>4
    <2> QED BY <1>15, <2>5, <2>6, <2>7
  <1>17. CASE RequestThrows
    <2>1. /\ op' = Idle /\ op.at \in {"scheduling", "staging", "deleting"}
          /\ UNCHANGED <<disk, runtime, active, given, alive, warmup, rest, disturbed, unsaved>>
      BY <1>17 DEF RequestThrows
    <2> QED BY <1>7, <1>15, <2>1 DEF Marked
  <1>18. CASE RefusedByShutdown
    <2>1. /\ op' = Idle /\ ~Running /\ op.at # "query spawned"
          /\ UNCHANGED <<disk, runtime, active, given, alive, warmup, rest, disturbed, unsaved>>
      BY <1>18 DEF RefusedByShutdown
    <2> QED BY <1>7, <1>15, <2>1 DEF Marked
  <1>19. CASE Delete
    <2>1. /\ op' = Idle /\ op.at = "deleting" /\ disk'[s] = Deleted
          /\ \A t \in Sessions \ {s} : disk'[t] = disk[t]
          /\ OnlyRowMark(s)
          /\ UNCHANGED <<runtime, active, given, alive, warmup, rest, disturbed>>
      BY <1>2, <1>3, <1>19, <1>8 DEF Delete, At
    <2>2. OnlySession(s)
      BY <2>1 DEF OnlySession, OnlyRowMark, Handle, Reused, Known
    <2>3. ~Runs(s, "recording") /\ ~Runs(s, "query")
      BY <1>3, <1>5, <1>7, <2>1 DEF SessionInv, PointsOK, QueryOK, On, Mine
    <2>4. FreshOK(s)' /\ CallbackOK(s)' /\ QueryOK(s)' /\ RecorderOK(s)'
      BY <1>3, <1>5, <2>1, <2>3, PlaceholdersAreNotValues
         DEF SessionInv, FreshOK, CallbackOK, QueryOK, RecorderOK, Runs, On, rest
    <2>5. PointsOK(s)' /\ SettledOK(s)'
      BY <1>7, <2>1 DEF PointsOK, SettledOK, On, Mine, HasRow, OnlyRowMark
    <2>6. ClosingOK(s)'
      BY <1>3, <2>1, ClosingKept DEF SessionInv, Handle
    <2>7. SessionInv(s)'
      BY <2>4, <2>5, <2>6 DEF SessionInv
    <2> QED BY <1>1, <1>2, <1>3, <1>4, <2>1, <2>2, <2>7, OpStepKeeps
  <1> QED BY <1>11, <1>12, <1>13, <1>18, <1>19, <1>14, <1>16, <1>17 DEF OtherSteps

\* A bootstrap has no session.
LEMMA BootstrapKeeps ==
    ASSUME LabInv, BootstrapSteps
    PROVE  LabInv'
  <1>1. op # Idle /\ op.at \in WarmUpPoints /\ op.s = NoSession /\ TypeInv
    BY DEF BootstrapSteps, WarmUp, CoolDown, At, WarmUpPoints, LabInv, WarmOK
  <1>2. TypeInv'
    BY <1>1, OtherTypes
  <1>3. /\ UNCHANGED <<disk, runtime, active, given, alive, rest, disturbed, unsaved>>
        /\ \/ op' = Idle /\ warmup' = FALSE
           \/ /\ op' # Idle /\ op'.s = op.s /\ op'.kind = op.kind
              /\ op'.at = "cooling down" /\ warmup' = warmup
    <2>1. CASE WarmUp
      BY <1>1, <2>1, GoesTypes
         DEF WarmUp, TypeInv, Points, memory, world, marks, ghosts
    <2>2. CASE CoolDown
      BY <2>2 DEF CoolDown, memory, marks, ghosts
    <2> QED BY <2>1, <2>2 DEF BootstrapSteps
  <1>4. \A t \in Sessions : Untouched(t)
    BY <1>1, <1>3, PlaceholdersAreNotValues
       DEF Untouched, Mine, Handle, Reused, Known, Marked, rest
  <1>5. SeatOK' /\ WarmOK'
    BY <1>1, <1>3 DEF LabInv, SeatOK, WarmOK, WarmUpPoints
  <1>6. \A t \in Sessions : SessionInv(t)'
    BY <1>4, UntouchedKeeps DEF LabInv
  <1> QED BY <1>2, <1>5, <1>6 DEF LabInv

\* A mutation of a session begins with what is on disk.
LEMMA BeginKeeps ==
    ASSUME LabInv, TypeInv', op = Idle, Running, NEW s \in Sessions,
           op' # Idle, op'.s = s,
           op'.at \in {"creating", "booting", "staging", "deleting", "stopping", "scheduling",
                       "marking"},
           op'.at = "creating" => disk[s] = NoRow /\ active = NoSession,
           op'.at # "creating" => HasRow(s) /\ op'.kind \notin {"start", "reuse"},
           op'.at = "booting" => op'.copy.status = "booting-query-mode",
           op'.at = "marking" => op'.copy.status = "failed",
           op'.at = "booting" => active # s,
           op'.at = "deleting" => /\ active # s /\ ~Runs(s, "query")'
                                  /\ \A kind \in Kinds : ~Handle(s, kind)',
           op'.at \in {"staging", "stopping", "scheduling", "marking"} =>
               op'.copy \in Rows /\ op'.copy.recording = disk[s].recording,
           op'.at \in {"stopping", "scheduling"} => active = s \/ op'.kind = "timer",
           UNCHANGED <<disk, active, warmup, rest, disturbed, unsaved>>,
           \A t \in Sessions, kind \in Kinds :
               /\ <<t, kind>> \in alive' => <<t, kind>> \in alive
               /\ t # s => (<<t, kind>> \in alive' <=> <<t, kind>> \in alive),
           given \subseteq given' \cup {s},
           op'.at \in {"staging", "scheduling", "deleting"} => given' = given,
           \A t \in Sessions :
               \/ /\ Reused(t)' <=> Reused(t)
                  /\ \A kind \in Kinds : Handle(t, kind)' <=> Handle(t, kind)
               \/ t = s /\ op'.at = "deleting"
    PROVE  LabInv'
  <1>1. TypeOK /\ service = "running"
    BY DEF LabInv, TypeInv, Running
  <1>2. \A t \in Sessions \ {s} : Untouched(t)
    BY DEF Untouched, Mine, Marked, rest
  <1>3. SessionInv(s) /\ "recording" \in Kinds /\ "query" \in Kinds
    BY DEF LabInv, Kinds
  <1>4. /\ QueryOK(s) /\ ~On(s, QueryPoints)
        /\ Runs(s, "recording") => active = s
        /\ Runs(s, "query") => HasRow(s)'
        /\ \A mark : Marked(s, mark)' <=> Marked(s, mark)
        /\ ~Marked(s, "recording")
        /\ SettledOK(s)
    BY <1>1, <1>3 DEF SessionInv, QueryOK, RecorderOK, PointsOK, On, HasRow, Marked
  <1>5. FreshOK(s)' /\ CallbackOK(s)'
    BY <1>3 DEF SessionInv, FreshOK, CallbackOK, On, HasRow, rest
  <1>6. QueryOK(s)'
    <2>1. CASE op'.at = "deleting"
      BY <2>1 DEF QueryOK
    <2>2. CASE op'.at # "deleting"
      <3>1. Handle(s, "query") => Handle(s, "query")'
        BY <1>3, <2>2
      <3> QED BY <1>1, <1>3, <1>4, <3>1, QueryKept
    <2> QED BY <2>1, <2>2
  <1>7. RecorderOK(s)'
    <2>1. CASE ~Runs(s, "recording")
      <3>1. <<s, "recording">> \in alive' => <<s, "recording">> \in alive
        BY <1>3
      <3>2. ~Runs(s, "recording")'
        BY <2>1, <3>1 DEF Runs
      <3> QED BY <3>2 DEF RecorderOK
    <2>2. CASE Runs(s, "recording")
      <3>1. /\ active = s /\ HasRow(s) /\ disk[s].recording = "running"
            /\ Handle(s, "recording")' /\ ~Reused(s)'
        BY <1>1, <1>3, <1>4, <2>2 DEF SessionInv, RecorderOK, On
      <3>2. op'.copy \in Rows /\ op'.copy.recording = "running"
        BY <3>1, PlaceholdersAreNotValues DEF HasRow
      <3> QED BY <1>1, <1>3, <3>1, <3>2, RowFields DEF RecorderOK, On, HasRow
    <2> QED BY <2>1, <2>2
  <1>8. PointsOK(s)' /\ SettledOK(s)'
    <2>1. PointsOK(s)'
      BY <1>1, <1>4 DEF PointsOK, On, Mine, HasRow
    <2>2. SettledOK(s)'
      BY <1>1, <1>4 DEF SettledOK, Settled, ExitPending, On, Mine, HasRow, Running, rest
    <2> QED BY <2>1, <2>2
  <1>9. ClosingOK(s)'
    BY <1>1 DEF ClosingOK, rest
  <1>10. SessionInv(s)'
    BY <1>5, <1>6, <1>7, <1>8, <1>9 DEF SessionInv
  <1>11. SeatOK' /\ WarmOK'
    BY DEF LabInv, SeatOK, WarmOK, WarmUpPoints
  <1>12. \A t \in Sessions \ {s} : SessionInv(t)'
    BY <1>2, UntouchedKeeps DEF LabInv
  <1> QED BY <1>10, <1>11, <1>12 DEF LabInv

\* What the user asks for.
LEMMA RequestKeeps ==
    ASSUME LabInv, Requests
    PROVE  LabInv'
  <1>1. Asked
    BY DEF Requests, BeginStart, BeginRetry, BeginStage, BeginDelete, BeginStop, BeginSchedule,
           BeginBootstrap
  <1>2. /\ TypeInv /\ TypeOK /\ op = Idle /\ service = "running" /\ Running
        /\ disk \in [Sessions -> Rows \cup {NoRow, Deleted}]
    BY <1>1 DEF LabInv, TypeInv, TypeOK, Asked, Running
  <1>3. TypeInv'
    BY <1>2, RequestTypes
  <1>4. {"creating", "booting", "staging", "deleting", "stopping", "scheduling",
         "warming up"} \subseteq Points
    BY DEF Points
  <1>5. {"start", "reuse", "stop", "retry", "stage", "delete", "schedule",
         "bootstrap"} \subseteq OpKinds
    BY DEF OpKinds
  <1>6. runtime' = runtime => SameRuntimes
    BY <1>2 DEF SameRuntimes, TypeOK, Known, Reused, Handle
  <1>7. ASSUME NEW t \in Sessions, HasRow(t)
        PROVE  /\ disk[t] \in Rows
               /\ LET new == [disk[t] EXCEPT !.status = "booting-query-mode"]
                  IN  new \in Rows /\ new.status = "booting-query-mode"
               /\ LET new == [disk[t] EXCEPT !.status = "processing"]
                  IN  new \in Rows /\ new.recording = disk[t].recording
               /\ LET new == [disk[t] EXCEPT !.status = "stopping", !.stopAsked = TRUE]
                  IN  new \in Rows /\ new.recording = disk[t].recording
    <2>1. disk[t] \in Rows
      BY <1>2, <1>7 DEF HasRow
    <2> QED BY <2>1, StatusNames DEF Rows
  <1> USE DEF memory, world, marks
  <1>8. ASSUME NEW s \in Sessions, BeginStart(s)
        PROVE  LabInv'
    <2>1. op' # Idle /\ op'.s = s /\ op'.at = "creating"
      BY <1>4, <1>5, <1>8, StatusNames, BeginsTypes DEF BeginStart
    <2> QED BY <1>2, <1>3, <1>6, <1>8, <2>1, BeginKeeps DEF BeginStart, SameRuntimes
  <1>9. ASSUME NEW s \in Sessions, BeginRetry(s)
        PROVE  LabInv'
    <2>1. HasRow(s) /\ Begins("retry", s, "booting",
                              [disk[s] EXCEPT !.status = "booting-query-mode"])
      BY <1>9 DEF BeginRetry
    <2>2. /\ op' # Idle /\ op'.s = s /\ op'.at = "booting" /\ op'.kind = "retry"
          /\ op'.copy.status = "booting-query-mode"
      BY <1>4, <1>5, <1>7, <2>1, BeginsTypes
    <2> QED BY <1>2, <1>3, <1>6, <1>9, <2>1, <2>2, BeginKeeps DEF BeginRetry, SameRuntimes
  <1>10. ASSUME NEW s \in Sessions, BeginStage(s)
         PROVE  LabInv'
    <2>1. HasRow(s) /\ Begins("stage", s, "staging", [disk[s] EXCEPT !.status = "processing"])
      BY <1>10 DEF BeginStage
    <2>2. /\ op' # Idle /\ op'.s = s /\ op'.at = "staging" /\ op'.kind = "stage"
          /\ op'.copy \in Rows /\ op'.copy.recording = disk[s].recording
      <3>1. /\ [disk[s] EXCEPT !.status = "processing"] \in Rows
            /\ [disk[s] EXCEPT !.status = "processing"].recording = disk[s].recording
        BY <1>7, <2>1
      <3> QED BY <1>4, <1>5, <2>1, <3>1, BeginsTypes
    <2> QED BY <1>2, <1>3, <1>6, <1>10, <2>1, <2>2, BeginKeeps DEF BeginStage, SameRuntimes
  <1>11. ASSUME NEW s \in Sessions, BeginDelete(s)
         PROVE  LabInv'
    <2>1. op' # Idle /\ op'.s = s /\ op'.at = "deleting" /\ op'.kind = "delete"
      BY <1>4, <1>5, <1>11, BeginsTypes DEF BeginDelete
    <2>2. /\ runtime'[s] = NoRuntime /\ \A t \in Sessions \ {s} : runtime'[t] = runtime[t]
          /\ alive' = alive \ {p \in alive \cap unsaved : p[1] = s}
      BY <1>2, <1>11 DEF BeginDelete, Forget, TypeOK
    <2>3. \A t \in Sessions, kind \in Kinds :
             /\ <<t, kind>> \in alive' => <<t, kind>> \in alive
             /\ t # s => (<<t, kind>> \in alive' <=> <<t, kind>> \in alive)
      BY <2>2
    <2>4. ~Runs(s, "query")'
      <3>1. Runs(s, "query") => Marked(s, "query")
        BY <1>2 DEF LabInv, SessionInv, QueryOK, On
      <3> QED BY <1>11, <2>2, <3>1 DEF BeginDelete, Runs, Marked
    <2> QED BY <1>2, <1>3, <1>11, <2>1, <2>2, <2>3, <2>4, BeginKeeps
            DEF BeginDelete, Handle, Reused, Known
  <1>12. CASE BeginStop
    <2>1. PICK s \in Sessions : s = active /\ HasRow(s)
      BY <1>2, <1>12 DEF BeginStop, TypeOK
    <2>2. /\ Begins("stop", s, "stopping",
                    [disk[s] EXCEPT !.status = "stopping", !.stopAsked = TRUE])
          /\ runtime' = clearAutoStopTimer(s)
      BY <1>12, <2>1 DEF BeginStop, BeginsStop
    <2>3. /\ op' # Idle /\ op'.s = s /\ op'.at = "stopping" /\ op'.kind = "stop"
          /\ op'.copy \in Rows /\ op'.copy.recording = disk[s].recording
      <3>1. PICK row \in Rows : /\ row = [disk[s] EXCEPT !.status = "stopping",
                                                         !.stopAsked = TRUE]
                                /\ row.recording = disk[s].recording
        BY <1>7, <2>1
      <3>2. Begins("stop", s, "stopping", row)
        BY <2>2, <3>1
      <3>3. "stop" \in OpKinds /\ "stopping" \in Points /\ s \in Sessions \cup {NoSession}
        BY <1>4, <1>5
      <3>4. /\ op' # Idle /\ op'.s = s /\ op'.at = "stopping" /\ op'.kind = "stop"
            /\ op'.copy = row
        BY <3>2, <3>3, BeginsTypes
      <3> QED BY <3>1, <3>4
    <2>4. SameRuntimes
      BY <1>2, <2>2, ClearTypes
    <2> QED BY <1>2, <1>3, <1>12, <2>1, <2>3, <2>4, BeginKeeps DEF BeginStop, SameRuntimes
  <1>13. CASE BeginSchedule
    <2>1. PICK s \in Sessions : s = active /\ HasRow(s)
      BY <1>2, <1>13 DEF BeginSchedule, TypeOK
    <2>2. Begins("schedule", s, "scheduling", disk[s]) /\ runtime' = setAutoStopTimer(s)
      BY <1>13, <2>1 DEF BeginSchedule
    <2>3. /\ op' # Idle /\ op'.s = s /\ op'.at = "scheduling" /\ op'.kind = "schedule"
          /\ op'.copy \in Rows /\ op'.copy.recording = disk[s].recording
      <3>1. PICK row \in Rows : row = disk[s]
        BY <1>7, <2>1
      <3>2. Begins("schedule", s, "scheduling", row)
        BY <2>2, <3>1
      <3>3. /\ "schedule" \in OpKinds /\ "scheduling" \in Points
            /\ s \in Sessions \cup {NoSession}
        BY <1>4, <1>5
      <3> QED BY <3>1, <3>2, <3>3, BeginsTypes
    <2>4. \A t \in Sessions : /\ Reused(t)' <=> Reused(t)
                              /\ \A kind \in Kinds : Handle(t, kind)' <=> Handle(t, kind)
      BY <1>2, <2>2, SetTypes
    <2> QED BY <1>2, <1>3, <1>13, <2>1, <2>3, <2>4, BeginKeeps DEF BeginSchedule
  <1>14. CASE BeginBootstrap
    <2>1. /\ op' # Idle /\ op'.s = NoSession /\ op'.at = "warming up" /\ op'.kind = "bootstrap"
      BY <1>4, <1>5, <1>14, BeginsTypes DEF BeginBootstrap
    <2>2. \A t \in Sessions : Untouched(t)
      BY <1>2, <1>14, <2>1, PlaceholdersAreNotValues
         DEF BeginBootstrap, Untouched, Mine, Handle, Reused, Known, Marked, rest
    <2>3. SeatOK' /\ WarmOK'
      BY <2>1 DEF SeatOK, WarmOK, WarmUpPoints
    <2>4. \A t \in Sessions : SessionInv(t)'
      BY <2>2, UntouchedKeeps DEF LabInv
    <2> QED BY <1>3, <2>3, <2>4 DEF LabInv
  <1> QED BY <1>8, <1>9, <1>10, <1>11, <1>12, <1>13, <1>14 DEF Requests

\* Timers that fire, and the stops and marks they lead to.
LEMMA TimerKeeps ==
    ASSUME LabInv, NEW s \in Sessions, TimerSteps(s)
    PROVE  LabInv'
  <1>1. /\ TypeInv /\ TypeOK
        /\ disk \in [Sessions -> Rows \cup {NoRow, Deleted}]
    BY DEF LabInv, TypeInv, TypeOK
  <1>2. TypeInv'
    BY <1>1, TimerTypes
  <1>3. {"stopping", "marking"} \subseteq Points /\ {"timer", "giveup"} \subseteq OpKinds
    BY DEF Points, OpKinds
  \* Nothing of the mutation under way changes.
  <1>4. ASSUME UNCHANGED <<disk, active, op, alive, warmup, rest, disturbed, unsaved>>,
               SameRuntimes,
               \A t \in Sessions : t \in given => \/ t \in given' \/ ~HasRow(t)
                                                  \/ disk[t].status \in Terminal
        PROVE  LabInv'
    <2>1. ASSUME NEW t \in Sessions
          PROVE  SessionInv(t)'
      <3>1. CASE t \in given => t \in given'
        <4>1. Untouched(t)
          BY <1>4, <3>1 DEF Untouched, SameRuntimes, Mine, Marked, rest
        <4> QED BY <4>1, UntouchedKeeps DEF LabInv
      <3>2. CASE ~(t \in given => t \in given')
        <4>1. SettledOK(t)'
          BY <1>4, <3>2 DEF SettledOK, Settled, HasRow
        <4>2. SessionInv(t) /\ "recording" \in Kinds /\ "query" \in Kinds
          BY DEF LabInv, Kinds
        <4>3. FreshOK(t)' /\ CallbackOK(t)' /\ ClosingOK(t)'
          BY <1>4, <4>2 DEF SameRuntimes, rest, SessionInv, FreshOK, CallbackOK, ClosingOK, On,
                            HasRow
        <4>4. RecorderOK(t)' /\ QueryOK(t)'
          BY <1>4, <4>2 DEF SameRuntimes, rest, SessionInv, RecorderOK, QueryOK, Runs, On, Mine,
                            HasRow, Marked
        <4>5. PointsOK(t)'
          BY <1>4, <4>2 DEF SameRuntimes, rest, SessionInv, PointsOK, On, Mine, HasRow, Running,
                            ExitPending, Marked
        <4> QED BY <4>1, <4>3, <4>4, <4>5 DEF SessionInv
      <3> QED BY <3>1, <3>2
    <2>2. SeatOK' /\ WarmOK'
      BY <1>4 DEF LabInv, SeatOK, WarmOK
    <2> QED BY <1>2, <2>1, <2>2 DEF LabInv
  <1>5. runtime' = runtime => SameRuntimes
    BY <1>1 DEF SameRuntimes, TypeOK, Known, Reused, Handle
  <1> USE DEF memory, world, ghosts, marks, bounds
  <1>6. CASE TimerFires(s)
    BY <1>1, <1>4, <1>6, ClearTypes DEF TimerFires
  <1>7. CASE BeginTimedStop(s)
    <2>1. CASE HasRow(s) /\ IsRecording(s)
      <3>1. /\ Begins("timer", s, "stopping",
                      [disk[s] EXCEPT !.status = "stopping", !.stopAsked = TRUE])
            /\ runtime' = clearAutoStopTimer(s)
        BY <1>7, <2>1 DEF BeginTimedStop, BeginsStop
      <3>2. /\ [disk[s] EXCEPT !.status = "stopping", !.stopAsked = TRUE] \in Rows
            /\ [disk[s] EXCEPT !.status = "stopping", !.stopAsked = TRUE].recording
                  = disk[s].recording
        BY <1>1, <2>1, StatusNames DEF HasRow, Rows
      <3>3. /\ op' # Idle /\ op'.s = s /\ op'.at = "stopping" /\ op'.kind = "timer"
            /\ op'.copy \in Rows /\ op'.copy.recording = disk[s].recording
        BY <1>3, <3>1, <3>2, BeginsTypes
      <3>4. SameRuntimes
        BY <1>1, <3>1, ClearTypes
      <3> QED BY <1>2, <1>7, <2>1, <3>3, <3>4, BeginKeeps DEF BeginTimedStop, SameRuntimes
    <2>2. CASE ~(HasRow(s) /\ IsRecording(s))
      BY <1>4, <1>5, <1>7, <2>2 DEF BeginTimedStop
    <2> QED BY <2>1, <2>2
  <1>8. CASE BeginMark(s)
    <2>1. CASE HasRow(s) /\ disk[s].status \notin Terminal
      <3>1. Begins("giveup", s, "marking", [disk[s] EXCEPT !.status = "failed"])
        BY <1>8, <2>1 DEF BeginMark
      <3>2. /\ [disk[s] EXCEPT !.status = "failed"] \in Rows
            /\ [disk[s] EXCEPT !.status = "failed"].recording = disk[s].recording
            /\ [disk[s] EXCEPT !.status = "failed"].status = "failed"
        BY <1>1, <2>1, StatusNames DEF HasRow, Rows
      <3>3. /\ op' # Idle /\ op'.s = s /\ op'.at = "marking" /\ op'.kind = "giveup"
            /\ op'.copy \in Rows /\ op'.copy.recording = disk[s].recording
            /\ op'.copy.status = "failed"
        BY <1>3, <3>1, <3>2, BeginsTypes
      <3> QED BY <1>2, <1>5, <1>8, <2>1, <3>3, BeginKeeps DEF BeginMark, SameRuntimes
    <2>2. CASE ~(HasRow(s) /\ disk[s].status \notin Terminal)
      BY <1>4, <1>5, <1>8, <2>2 DEF BeginMark
    <2> QED BY <2>1, <2>2
  <1> QED BY <1>6, <1>7, <1>8 DEF TimerSteps

\* A process that exits on its own, and its callback.
LEMMA ExitKeeps ==
    ASSUME LabInv, NEW s \in Sessions, NEW kind \in Kinds,
           ProcessExits(s, kind) \/ ExitSteps(s, kind)
    PROVE  LabInv'
  <1>1. /\ TypeInv /\ TypeOK /\ SessionInv(s)
        /\ disk \in [Sessions -> Rows \cup {NoRow, Deleted}]
        /\ runtime \in [Sessions -> Runtimes \cup {NoRuntime}]
        /\ exits \in [Processes -> Rows \cup {NoExit, Reading}]
    BY DEF LabInv, TypeInv, TypeOK
  <1>2. TypeInv'
    BY <1>1, ExitTypes
  <1>3. /\ \A t \in Sessions, k \in Kinds : <<t, k>> \in Processes
        /\ "recording" \in Kinds /\ "query" \in Kinds /\ "failed" \in Terminal
        /\ kind \in {"recording", "query"} /\ "row" \notin Kinds
    BY DEF Processes, Kinds, Terminal
  <1>4. runtime' = runtime => SameRuntimes
    BY <1>1 DEF SameRuntimes, Known, Reused, Handle
  <1>5. ASSUME op' = op, warmup' = warmup, active' \in {active, NoSession}
        PROVE  SeatOK' /\ WarmOK'
    BY <1>5 DEF LabInv, SeatOK, WarmOK
  <1> USE DEF memory, world, marks, bounds
  <1>6. CASE ProcessExits(s, kind)
    <2>1. /\ <<s, kind>> \in alive /\ alive' = alive \ {<<s, kind>>}
          /\ UNCHANGED <<disk, runtime, active, given, op, warmup, service, closing>>
          /\ UNCHANGED <<disturbed, unsaved>>
          /\ SameRuntimes
      BY <1>4, <1>6 DEF ProcessExits
    <2>2. /\ \A p \in Processes : p # <<s, kind>> => exits'[p] = exits[p]
          /\ exits[<<s, kind>>] = NoExit
      BY <1>1, <1>3, <1>6 DEF ProcessExits
    <2>3. \A t \in Sessions \ {s} : Untouched(t)
      BY <1>3, <2>1, <2>2 DEF Untouched, Mine, Marked, SameRuntimes
    <2>4. FreshOK(s)'
      BY <1>1, <2>1 DEF SessionInv, FreshOK, On
    <2>5. CallbackOK(s)'
      BY <1>1, <1>3, <2>1, <2>2 DEF SessionInv, CallbackOK
    <2>6. RecorderOK(s)' /\ QueryOK(s)'
      BY <1>1, <1>3, <2>1
         DEF SessionInv, RecorderOK, QueryOK, Runs, On, Mine, HasRow, Marked, SameRuntimes
    <2>7. \A k \in Kinds : exits[<<s, k>>] # NoExit => exits'[<<s, k>>] # NoExit
      BY <1>3, <2>2
    <2>8. PointsOK(s)' /\ SettledOK(s)'
      BY <1>1, <2>1, <2>7
         DEF SessionInv, PointsOK, SettledOK, Settled, On, Mine, HasRow, Running, ExitPending,
             Marked, SameRuntimes
    <2>9. ClosingOK(s)'
      BY <1>1, <2>1 DEF SessionInv, ClosingOK, HasRow, SameRuntimes
    <2>10. SessionInv(s)'
      BY <2>4, <2>5, <2>6, <2>8, <2>9 DEF SessionInv
    <2>11. \A t \in Sessions \ {s} : SessionInv(t)'
      BY <2>3, UntouchedKeeps DEF LabInv
    <2> QED BY <1>2, <1>5, <2>1, <2>10, <2>11 DEF LabInv
  \* The row is read.
  <1>7. CASE ReadForExit(s, kind)
    <2>1. /\ exits[<<s, kind>>] = Reading /\ exits[<<s, kind>>] # NoExit
          /\ exits' = [exits EXCEPT ![<<s, kind>>] =
                          IF HasRow(s) /\ Running THEN disk[s] ELSE NoExit]
          /\ UNCHANGED <<disk, given, op, alive, warmup, service, closing, unsaved>>
      BY <1>7, PlaceholdersAreNotValues DEF ReadForExit
    <2>2. /\ \A p \in Processes : p # <<s, kind>> => exits'[p] = exits[p]
          /\ HasRow(s) /\ Running => exits'[<<s, kind>>] # NoExit
      <3>1. HasRow(s) => disk[s] \in Rows /\ disk[s] # NoExit
        BY <1>1, RowFields DEF HasRow
      <3> QED BY <1>1, <1>3, <2>1, <3>1
    <2>3. /\ SameRuntimes /\ disturbed \subseteq disturbed'
          /\ \/ active' = active
             \/ /\ active' = NoSession /\ active \in disturbed' \cup {s, NoSession}
                /\ kind = "recording"
      <3>1. CASE HasRow(s) /\ kind = "recording"
        BY <1>1, <1>7, <3>1, ClearTypes DEF ReadForExit, Unseated
      <3>2. CASE ~(HasRow(s) /\ kind = "recording")
        BY <1>4, <1>7, <3>2 DEF ReadForExit
      <3> QED BY <3>1, <3>2
    <2>4. \A t \in Sessions \ {s} : Untouched(t)
      BY <1>3, <2>1, <2>2, <2>3, PlaceholdersAreNotValues
         DEF Untouched, Mine, Marked, SameRuntimes
    <2>5. FreshOK(s)'
      BY <1>1, <1>3, <2>1 DEF SessionInv, FreshOK, On
    <2>6. CallbackOK(s)'
      BY <1>1, <1>3, <2>1, <2>2 DEF SessionInv, CallbackOK
    <2>7. active = s /\ active' # s => <<s, "recording">> \notin alive
      BY <1>1, <2>1, <2>3 DEF SessionInv, CallbackOK
    <2>8. RecorderOK(s)' /\ QueryOK(s)'
      BY <1>1, <1>3, <2>1, <2>3, <2>7
         DEF SessionInv, RecorderOK, QueryOK, Runs, On, Mine, HasRow, Marked, SameRuntimes
    <2>9. \A k \in Kinds : exits[<<s, k>>] # NoExit /\ HasRow(s) /\ Running
                               => exits'[<<s, k>>] # NoExit
      BY <1>3, <2>1, <2>2
    <2>10. HasRow(s) /\ Running => ExitPending(s)'
      BY <2>2 DEF ExitPending
    <2>11. SettledOK(s)'
      BY <1>1, <2>1, <2>10 DEF SettledOK, HasRow, Running
    <2>12. PointsOK(s)'
      BY <1>1, <2>1, <2>3, <2>10, PlaceholdersAreNotValues
         DEF SessionInv, PointsOK, On, Mine, HasRow, Running, Marked, SameRuntimes
    <2>13. ClosingOK(s)'
      BY <1>1, <2>1, <2>3 DEF SessionInv, ClosingOK, HasRow, SameRuntimes
    <2>14. SessionInv(s)'
      BY <2>5, <2>6, <2>8, <2>11, <2>12, <2>13 DEF SessionInv
    <2>15. \A t \in Sessions \ {s} : SessionInv(t)'
      BY <2>4, UntouchedKeeps DEF LabInv
    <2> QED BY <1>2, <1>5, <2>1, <2>3, <2>14, <2>15 DEF LabInv
  \* The row is written back.
  <1>8. CASE WriteForExit(s, kind)
    <2>1. /\ exits[<<s, kind>>] \in Rows /\ exits[<<s, kind>>] # NoExit
          /\ exits' = [exits EXCEPT ![<<s, kind>>] = NoExit]
          /\ UNCHANGED <<runtime, active, given, op, alive, warmup, service, closing>>
          /\ SameRuntimes
      BY <1>4, <1>8, RowFields DEF WriteForExit
    <2>2. /\ \A p \in Processes : p # <<s, kind>> => exits'[p] = exits[p]
          /\ exits'[<<s, kind>>] = NoExit
      BY <1>1, <1>3, <2>1
    <2>3. PICK row \in Rows : row = exits[<<s, kind>>]
      BY <2>1
    <2>4. PICK new \in Rows :
             /\ disk' = [disk EXCEPT ![s] = new]
             /\ new.status = "failed"
             /\ kind = "query" => new.recording = row.recording
      <3> DEFINE fail == IF kind = "recording"
                         THEN [row EXCEPT !.status = "failed", !.recording = "none"]
                         ELSE [row EXCEPT !.status = "failed", !.query = "none"]
      <3>1. disk' = [disk EXCEPT ![s] = fail]
        BY <1>8, <2>3 DEF WriteForExit
      <3>2. fail \in Rows /\ fail.status = "failed"
            /\ (kind = "query" => fail.recording = row.recording)
        BY StatusNames DEF Rows
      <3> QED BY <3>1, <3>2
    <2>5. /\ disk'[s] = new /\ \A t \in Sessions \ {s} : disk'[t] = disk[t]
          /\ HasRow(s)'
      BY <1>1, <2>4, RowFields DEF HasRow
    <2>6. /\ disturbed' = IF disk[s] # row \/ Mine(s) THEN disturbed \cup {s} ELSE disturbed
          /\ \A t \in Sessions, k \in Kinds : Marked(t, k)' <=> Marked(t, k)
          /\ \A t \in Sessions \ {s} : Marked(t, "row")' <=> Marked(t, "row")
      <3>1. disturbed' = IF disk[s] # row \/ Mine(s) THEN disturbed \cup {s} ELSE disturbed
        BY <1>8, <2>3 DEF WriteForExit, Mine, Overlapped
      <3>2. unsaved' = unsaved \ {<<s, "row">>}
        BY <1>8 DEF WriteForExit
      <3> QED BY <1>3, <3>1, <3>2 DEF Marked
    <2>7. \A t \in Sessions \ {s} : Untouched(t)
      BY <1>3, <2>1, <2>2, <2>5, <2>6 DEF Untouched, Mine, SameRuntimes
    <2>8. FreshOK(s)'
      BY <1>1, <1>3, <2>1, <2>5 DEF SessionInv, FreshOK, On, HasRow
    <2>9. CallbackOK(s)'
      BY <1>1, <1>3, <2>1, <2>2 DEF SessionInv, CallbackOK
    <2>10. Runs(s, "recording")' => kind = "query" /\ Runs(s, "recording") /\ disk[s] = row
      BY <1>1, <1>3, <2>1, <2>6 DEF SessionInv, CallbackOK, Runs
    <2>11. RecorderOK(s)'
      <3>1. s \in disturbed' \/ (~Mine(s) /\ ~Marked(s, "recording"))
        <4>1. Marked(s, "recording") => Mine(s)
          BY <1>1 DEF SessionInv, PointsOK, On, Mine
        <4> QED BY <2>6, <4>1
      <3>2. SUFFICES ASSUME Runs(s, "recording")'
                     PROVE  /\ disk'[s].recording = "running" /\ ~Mine(s)' /\ ~Reused(s)'
                            /\ service # "down" => /\ Handle(s, "recording")'
                                                   /\ active = s
        BY <2>1, <2>5 DEF RecorderOK, On, Mine
      <3>3. /\ Runs(s, "recording") /\ ~Mine(s) /\ ~Marked(s, "recording")
            /\ disk'[s].recording = disk[s].recording
        BY <2>4, <2>5, <2>10, <3>1, <3>2 DEF Runs
      <3> QED BY <1>1, <1>3, <2>1, <3>3 DEF SessionInv, RecorderOK, On, Mine, SameRuntimes
    <2>12. service # "down"
      BY <1>1, <1>3, <2>1 DEF TypeInv, ServiceOK
    <2>13. QueryOK(s)'
      BY <1>1, <1>3, <2>1, <2>5, <2>6, <2>12
         DEF SessionInv, QueryOK, Runs, On, Mine, SameRuntimes
    <2>14. SettledOK(s)'
      BY <1>3, <2>4, <2>5 DEF SettledOK, Settled
    <2>15. PointsOK(s)'
      <3>1. ~On(s, {"creating"})
        BY <1>1, <2>1 DEF SessionInv, FreshOK, On
      <3>2. Mine(s) => s \in disturbed'
        BY <2>6
      <3> QED BY <1>1, <1>3, <2>1, <2>5, <2>6, <3>1, <3>2
              DEF SessionInv, PointsOK, On, Mine, Running, SameRuntimes
    <2>16. ClosingOK(s)'
      BY <1>1, <1>3, <2>1, <2>4, <2>5, <2>6 DEF SessionInv, ClosingOK, HasRow, SameRuntimes
    <2>17. SessionInv(s)'
      BY <2>8, <2>9, <2>11, <2>13, <2>14, <2>15, <2>16 DEF SessionInv
    <2>18. \A t \in Sessions \ {s} : SessionInv(t)'
      BY <2>7, UntouchedKeeps DEF LabInv
    <2> QED BY <1>2, <1>5, <2>1, <2>17, <2>18 DEF LabInv
  \* It could not be written back.
  <1>9. CASE WriteForExitFails(s, kind)
    <2>1. /\ exits[<<s, kind>>] # NoExit
          /\ exits' = [exits EXCEPT ![<<s, kind>>] = NoExit]
          /\ UNCHANGED <<disk, runtime, active, given, op, alive, warmup, service, closing>>
          /\ SameRuntimes
      BY <1>4, <1>9, RowFields DEF WriteForExitFails
    <2>2. /\ \A p \in Processes : p # <<s, kind>> => exits'[p] = exits[p]
          /\ exits'[<<s, kind>>] = NoExit
      BY <1>1, <1>3, <2>1
    <2>3. /\ disturbed' = IF Mine(s) THEN disturbed \cup {s} ELSE disturbed
          /\ \A t \in Sessions, k \in Kinds : Marked(t, k)' <=> Marked(t, k)
          /\ \A t \in Sessions \ {s} : Marked(t, "row")' <=> Marked(t, "row")
          /\ Marked(s, "row")'
      <3>1. disturbed' = IF Mine(s) THEN disturbed \cup {s} ELSE disturbed
        BY <1>9 DEF WriteForExitFails, Mine, Overlapped
      <3>2. unsaved' = unsaved \cup {<<s, "row">>}
        BY <1>9 DEF WriteForExitFails
      <3> QED BY <1>3, <3>1, <3>2 DEF Marked
    <2>4. \A t \in Sessions \ {s} : Untouched(t)
      BY <1>3, <2>1, <2>2, <2>3 DEF Untouched, Mine, SameRuntimes
    <2>5. FreshOK(s)' /\ CallbackOK(s)'
      BY <1>1, <1>3, <2>1, <2>2 DEF SessionInv, FreshOK, CallbackOK, On, Kinds
    <2>6. RecorderOK(s)' /\ QueryOK(s)'
      BY <1>1, <1>3, <2>1, <2>3
         DEF SessionInv, RecorderOK, QueryOK, Runs, On, Mine, HasRow, SameRuntimes
    <2>7. PointsOK(s)' /\ SettledOK(s)'
      BY <1>1, <1>3, <2>1, <2>3
         DEF SessionInv, PointsOK, SettledOK, On, Mine, HasRow, Running, SameRuntimes
    <2>8. ClosingOK(s)'
      BY <1>1, <2>1, <2>3 DEF SessionInv, ClosingOK, HasRow, SameRuntimes
    <2>9. SessionInv(s)'
      BY <2>5, <2>6, <2>7, <2>8 DEF SessionInv
    <2>10. \A t \in Sessions \ {s} : SessionInv(t)'
      BY <2>4, UntouchedKeeps DEF LabInv
    <2> QED BY <1>2, <1>5, <2>1, <2>9, <2>10 DEF LabInv
  <1> QED BY <1>6, <1>7, <1>8, <1>9 DEF ExitSteps

\* A shutdown is asked for.
LEMMA RequestShutdownKeeps ==
    ASSUME LabInv, RequestShutdown
    PROVE  LabInv'
  <1>1. TypeInv /\ TypeOK
    BY DEF LabInv, TypeInv
  <1>2. TypeInv'
    BY <1>1, ShutdownTypes
  <1>3. /\ service = "running" /\ service' = "stopping"
        /\ UNCHANGED <<disk, active, op, exits, closing, alive, warmup, disturbed, unsaved>>
    BY DEF RequestShutdown, Running, world, ghosts, marks
  <1>4. \A t \in Sessions : /\ Reused(t)' <=> Reused(t)
                            /\ \A kind \in Kinds : Handle(t, kind)' <=> Handle(t, kind)
    <2>1. \A t \in Sessions : runtime[t] # NoRuntime =>
             LET new == [runtime[t] EXCEPT !.timer = FALSE]
             IN  /\ new \in Runtimes /\ new.handles = runtime[t].handles
                 /\ new.reused = runtime[t].reused
      BY <1>1 DEF TypeOK, Runtimes
    <2>2. \A t \in Sessions : runtime'[t] = IF runtime[t] = NoRuntime THEN NoRuntime
                                            ELSE [runtime[t] EXCEPT !.timer = FALSE]
      BY DEF RequestShutdown
    <2>3. ASSUME NEW t \in Sessions
          PROVE  /\ Reused(t)' <=> Reused(t)
                 /\ \A kind \in Kinds : Handle(t, kind)' <=> Handle(t, kind)
      <3>1. CASE runtime[t] = NoRuntime
        BY <2>2, <3>1 DEF Handle, Reused, Known
      <3>2. CASE runtime[t] # NoRuntime
        BY <2>1, <2>2, <3>2, RuntimeFields DEF Handle, Reused, Known
      <3> QED BY <3>1, <3>2
    <2> QED BY <2>3
  <1>5. ASSUME NEW t \in Sessions
        PROVE  SessionInv(t)'
    <2>1. SessionInv(t) /\ "recording" \in Kinds /\ "query" \in Kinds
      BY DEF LabInv, Kinds
    <2>2. FreshOK(t)' /\ CallbackOK(t)' /\ ClosingOK(t)' /\ SettledOK(t)'
      BY <1>3, <2>1
         DEF SessionInv, FreshOK, CallbackOK, ClosingOK, SettledOK, On, Mine, HasRow, Running
    <2>3. RecorderOK(t)' /\ QueryOK(t)'
      BY <1>3, <1>4, <2>1 DEF SessionInv, RecorderOK, QueryOK, Runs, On, Mine, HasRow, Marked
    <2>4. PointsOK(t)'
      BY <1>3, <1>4, <2>1 DEF SessionInv, PointsOK, On, Mine, HasRow, Running, Marked
    <2> QED BY <2>2, <2>3, <2>4 DEF SessionInv
  <1>6. SeatOK' /\ WarmOK'
    BY <1>3 DEF LabInv, SeatOK, WarmOK
  <1> QED BY <1>2, <1>5, <1>6 DEF LabInv

\* Shutdown has its turn.
LEMMA ShutdownKeeps ==
    ASSUME LabInv, ShutdownSteps
    PROVE  LabInv'
  <1>1. /\ TypeInv /\ TypeOK
        /\ disk \in [Sessions -> Rows \cup {NoRow, Deleted}]
        /\ runtime \in [Sessions -> Runtimes \cup {NoRuntime}]
        /\ closing \in [Sessions -> Finalizations \cup {Done}]
        /\ \A t \in Sessions : SessionInv(t)
        /\ "recording" \in Kinds /\ "query" \in Kinds
    BY DEF LabInv, TypeInv, TypeOK, Kinds
  <1>2. TypeInv'
    BY <1>1, ShutdownTypes
  <1> USE DEF memory, world, ghosts, marks, bounds
  <1>3. CASE ListSessions
    <2>1. /\ service = "stopping" /\ service' = "finalizing"
          /\ UNCHANGED <<disk, active, op, exits, alive, warmup, disturbed, unsaved, given>>
      BY <1>3 DEF ListSessions
    <2>2. \A t \in Sessions : closing'[t] = IF HasRow(t) /\ ShouldFinalize(t)
              THEN [row |-> disk[t], handles |-> {kind \in Kinds : Handle(t, kind)}] ELSE Done
      BY <1>3 DEF ListSessions
    <2>3. ASSUME NEW t \in Sessions
          PROVE  /\ Reused(t)' => Reused(t)
                 /\ \A kind \in Kinds : Handle(t, kind)' => Handle(t, kind)
                 /\ \/ HasRow(t) /\ ~ShouldFinalize(t)
                    \/ \A kind \in Kinds : Handle(t, kind) => Handle(t, kind)'
      <3> DEFINE new == [runtime[t] EXCEPT !.timer = FALSE, !.allowed = @ \cup runtime[t].handles]
      <3>1. runtime'[t] = IF runtime[t] = NoRuntime \/ ~HasRow(t) THEN runtime[t]
                          ELSE IF ~ShouldFinalize(t) THEN NoRuntime ELSE new
        BY <1>3 DEF ListSessions
      <3>2. runtime[t] # NoRuntime => /\ new \in Runtimes /\ new.handles = runtime[t].handles
                                      /\ new.reused = runtime[t].reused
        BY <1>1 DEF Runtimes
      <3> HIDE DEF new
      <3>3. CASE runtime[t] = NoRuntime \/ ~HasRow(t)
        BY <3>1, <3>3 DEF Handle, Reused, Known
      <3>4. CASE runtime[t] # NoRuntime /\ HasRow(t) /\ ~ShouldFinalize(t)
        BY <3>1, <3>4 DEF Handle, Reused, Known
      <3>5. CASE runtime[t] # NoRuntime /\ HasRow(t) /\ ShouldFinalize(t)
        BY <3>1, <3>2, <3>5, RuntimeFields DEF Handle, Reused, Known
      <3> QED BY <3>3, <3>4, <3>5
    <2>4. ASSUME NEW t \in Sessions
          PROVE  SessionInv(t)'
      <3>1. HasRow(t) /\ ~ShouldFinalize(t) =>
               /\ disk[t].status \in Terminal
               /\ \A kind \in Kinds : ~Handle(t, kind)
        BY DEF ShouldFinalize, Handle
      <3>2. /\ Runs(t, "recording") => HasRow(t) /\ Handle(t, "recording")
            /\ Runs(t, "query") => HasRow(t) /\ Handle(t, "query")
        BY <1>1, <2>1 DEF SessionInv, RecorderOK, QueryOK
      <3>3. FreshOK(t)' /\ CallbackOK(t)' /\ SettledOK(t)' /\ PointsOK(t)'
        BY <1>1, <2>1, <2>3
           DEF SessionInv, FreshOK, CallbackOK, SettledOK, PointsOK, On, Mine, HasRow, Running,
               Marked
      <3>4. RecorderOK(t)' /\ QueryOK(t)'
        BY <1>1, <2>1, <2>3, <3>1, <3>2
           DEF SessionInv, RecorderOK, QueryOK, Runs, On, Mine, HasRow, Marked
      <3>5. ClosingOK(t)'
        <4>1. CASE HasRow(t) /\ ShouldFinalize(t)
          <5>1. PICK held \in SUBSET Kinds : held = {kind \in Kinds : Handle(t, kind)}
            OBVIOUS
          <5>2. \A kind \in Kinds : kind \in held <=> Handle(t, kind)
            BY <5>1
          <5>3. PICK entry \in Finalizations : entry = [row |-> disk[t], handles |-> held]
            BY <1>1, <4>1 DEF HasRow, Finalizations
          <5>4. closing'[t] = entry
            BY <2>2, <4>1, <5>1, <5>3
          <5>5. entry.handles = held /\ entry # Done
            BY <5>3, PlaceholdersAreNotValues
          <5> QED BY <2>1, <2>3, <5>2, <5>4, <5>5 DEF ClosingOK
        <4>2. CASE ~(HasRow(t) /\ ShouldFinalize(t))
          <5>1. closing'[t] = Done
            BY <2>2, <4>2
          <5>2. t \notin disturbed => <<t, "recording">> \notin alive /\ <<t, "query">> \notin alive
            BY <1>1, <3>1, <3>2, <4>2 DEF Runs
          <5>3. HasRow(t) => disk[t].status \in Terminal
            BY <3>1, <4>2
          <5> QED BY <2>1, <5>1, <5>2, <5>3 DEF ClosingOK, HasRow, Kinds
        <4> QED BY <4>1, <4>2
      <3> QED BY <3>3, <3>4, <3>5 DEF SessionInv
    <2>5. SeatOK' /\ WarmOK'
      BY <2>1 DEF LabInv, SeatOK, WarmOK
    <2> QED BY <1>2, <2>4, <2>5 DEF LabInv
  <1>4. ASSUME NEW s \in Sessions, FinalizeSession(s)
        PROVE  LabInv'
    <2>1. service = "finalizing"
      BY <1>1, <1>4 DEF TypeInv, ServiceOK, FinalizeSession
    <2>2. PICK entry \in Finalizations : entry = closing[s]
      BY <1>1, <1>4 DEF FinalizeSession
    <2>3. PICK row \in Rows : /\ row = Finalized(entry.row, entry.handles)
                              /\ row.status \in Terminal
      BY FinalizedRows DEF Finalizations
    <2>4. /\ closing[s] # Done
          /\ disk'[s] = row /\ \A t \in Sessions \ {s} : disk'[t] = disk[t]
          /\ runtime'[s] = NoRuntime /\ \A t \in Sessions \ {s} : runtime'[t] = runtime[t]
          /\ closing'[s] = Done /\ \A t \in Sessions \ {s} : closing'[t] = closing[t]
          /\ alive' = alive \ {<<s, kind>> : kind \in entry.handles}
          /\ UNCHANGED <<active, given, op, exits, service, warmup, disturbed, unsaved>>
      BY <1>1, <1>4, <2>2, <2>3 DEF FinalizeSession
    <2>5. \A t \in Sessions \ {s} : Untouched(t)
      BY <2>4 DEF Untouched, Mine, Handle, Reused, Known, Marked
    <2>6. SessionInv(s) /\ HasRow(s)' /\ disk'[s] # NoRow
      BY <1>1, <2>4, RowFields DEF HasRow
    <2>7. ~Runs(s, "recording")' /\ ~Runs(s, "query")'
      <3>1. /\ Runs(s, "recording") => "recording" \in entry.handles
            /\ Runs(s, "query") => "query" \in entry.handles
        BY <1>1, <2>1, <2>2, <2>4, <2>6 DEF SessionInv, RecorderOK, QueryOK, ClosingOK
      <3> QED BY <2>4, <3>1 DEF Runs
    <2>8. FreshOK(s)' /\ CallbackOK(s)' /\ RecorderOK(s)' /\ QueryOK(s)'
      BY <2>4, <2>6, <2>7 DEF SessionInv, FreshOK, CallbackOK, RecorderOK, QueryOK, On
    <2>9. PointsOK(s)' /\ SettledOK(s)'
      BY <2>1, <2>4, <2>6
         DEF SessionInv, PointsOK, SettledOK, On, Mine, Handle, Reused, Known, Running, Marked
    <2>10. ClosingOK(s)'
      BY <2>3, <2>4, <2>7 DEF ClosingOK, Runs, Kinds
    <2>11. SessionInv(s)'
      BY <2>8, <2>9, <2>10 DEF SessionInv
    <2>12. SeatOK' /\ WarmOK'
      BY <2>4 DEF LabInv, SeatOK, WarmOK
    <2>13. \A t \in Sessions \ {s} : SessionInv(t)'
      BY <2>5, UntouchedKeeps DEF LabInv
    <2> QED BY <1>2, <2>11, <2>12, <2>13 DEF LabInv
  <1>5. CASE FinishShutdown
    <2>1. /\ service = "finalizing" /\ service' = "closed" /\ active' = NoSession
          /\ \A t \in Sessions : closing[t] = Done
          /\ UNCHANGED <<disk, runtime, given, op, exits, alive, warmup, closing>>
          /\ UNCHANGED <<disturbed, unsaved>>
      BY <1>5 DEF FinishShutdown
    <2>2. ASSUME NEW t \in Sessions
          PROVE  SessionInv(t)'
      <3>1. SessionInv(t) /\ ~Runs(t, "recording") /\ ~Runs(t, "query")
        BY <1>1, <2>1 DEF SessionInv, ClosingOK, Runs
      <3>2. FreshOK(t)' /\ CallbackOK(t)' /\ RecorderOK(t)' /\ QueryOK(t)'
        BY <2>1, <3>1 DEF SessionInv, FreshOK, CallbackOK, RecorderOK, QueryOK, Runs, On
      <3>3. PointsOK(t)' /\ SettledOK(t)' /\ ClosingOK(t)'
        BY <2>1, <3>1, PlaceholdersAreNotValues
           DEF SessionInv, PointsOK, SettledOK, ClosingOK, On, Mine, Handle, Reused, Known,
               Running, HasRow, Marked
      <3> QED BY <3>2, <3>3 DEF SessionInv
    <2>3. SeatOK' /\ WarmOK'
      BY <2>1 DEF LabInv, SeatOK, WarmOK
    <2> QED BY <1>2, <2>2, <2>3 DEF LabInv
  <1> QED BY <1>3, <1>4, <1>5 DEF ShutdownSteps

\* Nascent by the points of the mutation.
LEMMA NascentPoints ==
    ASSUME NEW t \in Sessions
    PROVE  /\ <<t, "recording">> \in Nascent <=> On(t, {"spawning", "spawned"})
           /\ <<t, "query">> \in Nascent <=> On(t, {"query spawning", "query spawned"})
  BY DEF Nascent, On

\* The service ends; what it recorded lives on.
LEMMA VanishKeeps ==
    ASSUME LabInv, Exit \/ Crash
    PROVE  LabInv'
  <1>1. TypeInv'
    BY VanishTypes DEF LabInv
  <1>2. /\ service' = "down" /\ op' = Idle /\ active' = NoSession /\ warmup' = FALSE
        /\ \A t \in Sessions : runtime'[t] = NoRuntime /\ closing'[t] = Done
        /\ \A p \in Processes : exits'[p] = NoExit
        /\ alive' = alive \ Untraced /\ unsaved' = {} /\ UNCHANGED <<disk, disturbed>>
    BY DEF Exit, Crash, Vanish, NoExits
  <1>3. ASSUME NEW t \in Sessions
        PROVE  SessionInv(t)'
    <2>1. SessionInv(t) /\ \A kind \in Kinds : <<t, kind>> \in Processes
      BY DEF LabInv, Processes
    <2>2. FreshOK(t)' /\ CallbackOK(t)'
      BY <1>2, <2>1 DEF SessionInv, FreshOK, CallbackOK, On, Kinds
    <2>3. \A kind \in Kinds : Runs(t, kind)' => /\ Runs(t, kind) /\ ~Marked(t, kind)
                                                /\ <<t, kind>> \notin Nascent
      BY <1>2 DEF Runs, Marked, Untraced
    <2>4. \A mark : ~Marked(t, mark)'
      BY <1>2 DEF Marked
    <2>5. RecorderOK(t)'
      BY <1>2, <2>1, <2>3, NascentPoints
         DEF SessionInv, RecorderOK, On, Mine, HasRow, Reused, Known, Kinds
    <2>6. QueryOK(t)'
      BY <1>2, <2>1, <2>3, NascentPoints DEF SessionInv, QueryOK, On, Mine, HasRow, Kinds
    <2>7. PointsOK(t)' /\ SettledOK(t)' /\ ClosingOK(t)'
      BY <1>2, <2>4 DEF PointsOK, SettledOK, ClosingOK, On, Mine, Running
    <2> QED BY <2>2, <2>5, <2>6, <2>7 DEF SessionInv
  <1>4. SeatOK' /\ WarmOK'
    BY <1>2 DEF SeatOK, WarmOK
  <1> QED BY <1>1, <1>3, <1>4 DEF LabInv

\* The service comes up: no process runs that it did not find on disk.
LEMMA RestartKeeps ==
    ASSUME LabInv, Restart
    PROVE  LabInv'
  <1>1. TypeInv /\ TypeOK /\ TypeInv'
    BY RestartTypes DEF LabInv, TypeInv
  <1>2. /\ service = "down" /\ service' = "running" /\ op = Idle /\ active = NoSession
        /\ \A t \in Sessions : runtime[t] = NoRuntime
        /\ \A p \in Processes : exits[p] = NoExit
        /\ UNCHANGED <<op, active, runtime, exits, closing, warmup, unsaved>> /\ unsaved = {}
    BY <1>1 DEF Restart, TypeInv, ServiceOK, memory
  <1>3. ASSUME NEW t \in Sessions
        PROVE  SessionInv(t)'
    <2>1. SessionInv(t) /\ \A kind \in Kinds : <<t, kind>> \in Processes
      BY DEF LabInv, Processes
    <2>2. ASSUME NEW kind \in Kinds, <<t, kind>> \in alive'
          PROVE  <<t, kind>> \in alive /\ t \in disturbed'
      <3>1. /\ <<t, kind>> \in alive
            /\ ~HasRow(t) \/ ~NeedsRepair(t) \/ disk[t][kind] = "none"
        BY <2>2 DEF Restart
      <3>2. t \in disturbed
        <4>1. SUFFICES ASSUME t \notin disturbed PROVE FALSE
          OBVIOUS
        <4>2. HasRow(t) /\ disk[t][kind] = "running"
          BY <1>2, <2>1, <3>1, <4>1 DEF SessionInv, RecorderOK, QueryOK, Runs, On, Marked, Kinds
        <4>3. NeedsRepair(t)
          BY <4>2 DEF NeedsRepair
        <4> QED BY <3>1, <4>2, <4>3
      <3> QED BY <2>2, <3>1, <3>2 DEF Restart
    <2>3. ~Runs(t, "recording")' /\ ~Runs(t, "query")'
      BY <2>2 DEF Runs, Kinds
    <2>4. disk'[t] = Repaired(t)
      BY DEF Restart
    <2>5. FreshOK(t)'
      <3>1. disk'[t] = NoRow => disk[t] = NoRow
        BY <1>1, <2>4, RepairedRows, RowFields DEF Repaired, HasRow, TypeOK
      <3> QED BY <1>2, <2>1, <2>2, <3>1 DEF SessionInv, FreshOK, On
    <2>6. RecorderOK(t)' /\ QueryOK(t)' /\ CallbackOK(t)'
      BY <1>2, <2>1, <2>3 DEF RecorderOK, QueryOK, CallbackOK, Kinds
    <2>7. PointsOK(t)' /\ ClosingOK(t)'
      BY <1>2 DEF PointsOK, ClosingOK, On, Mine, Marked
    <2>8. SettledOK(t)'
      <3>1. HasRow(t)' => HasRow(t)
        BY <2>4 DEF HasRow, Repaired
      <3>2. HasRow(t)' => disk'[t].status \in Terminal
        BY <1>1, <2>4, <3>1, RepairedRows
      <3> QED BY <3>2 DEF SettledOK, Settled
    <2> QED BY <2>5, <2>6, <2>7, <2>8 DEF SessionInv
  <1>4. SeatOK' /\ WarmOK'
    BY <1>2 DEF LabInv, SeatOK, WarmOK
  <1> QED BY <1>1, <1>3, <1>4 DEF LabInv

\* Every step keeps the invariant.
LEMMA NextKeeps ==
    ASSUME LabInv, [Next]_vars
    PROVE  LabInv'
  <1>1. CASE OpSteps
    BY <1>1, StartKeeps, StopKeeps, IngestKeeps, OtherKeeps, BootstrapKeeps DEF OpSteps
  <1>2. CASE UNCHANGED vars
    <2>1. /\ UNCHANGED <<disk, runtime, active, op, given, exits, alive, warmup, service,
                        closing, disturbed, unsaved>>
          /\ TypeInv'
      BY <1>2, NextTypes DEF vars, LabInv
    <2>2. \A t \in Sessions : Untouched(t)
      BY <2>1 DEF Untouched, Handle, Reused, Known, Mine, Marked
    <2>3. \A t \in Sessions : SessionInv(t)'
      BY <2>2, UntouchedKeeps DEF LabInv
    <2>4. SeatOK' /\ WarmOK'
      BY <2>1 DEF LabInv, SeatOK, WarmOK
    <2> QED BY <2>1, <2>3, <2>4 DEF LabInv
  <1>3. CASE \E s \in Sessions, kind \in Kinds : ProcessExits(s, kind) \/ ExitSteps(s, kind)
    BY <1>3, ExitKeeps
  <1> QED BY <1>1, <1>2, <1>3, RequestKeeps, TimerKeeps, RequestShutdownKeeps, ShutdownKeeps,
             VanishKeeps, RestartKeeps DEF Next

\* It holds of a service that has not started anything, whatever was recorded earlier.
LEMMA InitKeeps ==
    ASSUME Init
    PROVE  LabInv
  <1>1. /\ op = Idle /\ alive = {} /\ warmup = FALSE /\ service = "running"
        /\ \A s \in Sessions, kind \in Kinds : exits[<<s, kind>>] = NoExit
        /\ \A s \in Sessions : HasRow(s) => disk[s].status = "ready"
        /\ unsaved = {}
    BY DEF Init, NoExits, Processes, HasRow, EarlierRow
  <1>2. ASSUME NEW s \in Sessions
        PROVE  SessionInv(s)
    <2>1. FreshOK(s) /\ CallbackOK(s) /\ RecorderOK(s) /\ QueryOK(s)
      BY <1>1 DEF FreshOK, CallbackOK, RecorderOK, QueryOK, Runs, Kinds
    <2>2. PointsOK(s) /\ ClosingOK(s) /\ SettledOK(s)
      BY <1>1 DEF PointsOK, ClosingOK, SettledOK, Settled, Terminal, On, Mine, Marked
    <2> QED BY <2>1, <2>2 DEF SessionInv
  <1>3. SeatOK /\ WarmOK
    BY <1>1 DEF SeatOK, WarmOK
  <1> QED BY <1>2, <1>3, InitTypes DEF LabInv

----------------------------------------------------------------------------
(* What the invariant gives                                                *)

\* A process the service can name can be stopped: the service has its handle or, when
\* it is down, session.json its pid; while the queue is idle only the recorder of the
\* active session runs, and a query process whose pid could not be written.
THEOREM ProcessesStayOwned == Spec => []ProcessesAreOwned
  <1>1. Init => LabInv
    BY InitKeeps
  <1>2. LabInv /\ [Next]_vars => LabInv'
    BY NextKeeps
  <1>3. ASSUME LabInv, NEW s \in Sessions, NEW kind \in Kinds, Runs(s, kind)
        PROVE  /\ IF service = "down" THEN HasRow(s) /\ disk[s][kind] = "running"
                  ELSE Handle(s, kind)
               /\ Idling => IF kind = "recording" THEN s = active
                            ELSE <<s, kind>> \in unsaved
    <2>1. RecorderOK(s) /\ QueryOK(s) /\ (service = "down" => op = Idle /\ unsaved = {})
      BY <1>3 DEF LabInv, SessionInv, TypeInv, ServiceOK
    <2>2. CASE kind = "recording"
      BY <1>3, <2>1, <2>2 DEF RecorderOK, On, Marked, Idling, Running
    <2>3. CASE kind = "query"
      BY <1>3, <2>1, <2>3 DEF QueryOK, On, Marked, Idling, Running
    <2> QED BY <2>2, <2>3 DEF Kinds
  <1>4. LabInv => ProcessesAreOwned
    BY <1>3 DEF ProcessesAreOwned, Runs
  <1> QED BY <1>1, <1>2, <1>4, PTL DEF Spec

\* After a shutdown nothing runs that the service had a handle of, and every row is over,
\* except those that a write already under way overwrote.
THEOREM ShutdownsLeaveNothing == Spec => []ShutdownLeavesNothing
  <1>1. Init => LabInv
    BY InitKeeps
  <1>2. LabInv /\ [Next]_vars => LabInv'
    BY NextKeeps
  <1>3. ASSUME LabInv, service = "closed", op = Idle
        PROVE  /\ ~warmup
               /\ \A s \in Sessions \ disturbed :
                     /\ \A kind \in Kinds : <<s, kind>> \notin alive
                     /\ HasRow(s) => disk[s].status \in Terminal
    <2>1. \A s \in Sessions : closing[s] = Done
      BY <1>3 DEF LabInv, TypeInv, ServiceOK
    <2> QED BY <1>3, <2>1 DEF LabInv, WarmOK, SessionInv, ClosingOK
  <1>4. LabInv => ShutdownLeavesNothing
    BY <1>3 DEF ShutdownLeavesNothing
  <1> QED BY <1>1, <1>2, <1>4, PTL DEF Spec

\* A row does not promise work that nobody does: unless a mutation, a timed stop or an
\* exit callback of its session is pending or it is the active one, it is over; a row
\* whose last write failed stays as it was.
THEOREM SessionsStaySettled == Spec => []SessionsSettle
  <1>1. Init => LabInv
    BY InitKeeps
  <1>2. LabInv /\ [Next]_vars => LabInv'
    BY NextKeeps
  <1>3. LabInv => SessionsSettle
    BY DEF LabInv, SessionInv, SettledOK, SessionsSettle, Idling, Mine, Marked
  <1> QED BY <1>1, <1>2, <1>3, PTL DEF Spec
================================================================================
