------------------------------ MODULE LabSessions ------------------------------
(***************************************************************************)
(* Recording sessions of the lab service (src/src/lab-api/service.ts): a   *)
(* recorder process is started and stopped by hand or by a timer, its data *)
(* is ingested through a query process, later stages run on the result.    *)
(* Mutations run one at a time in mutationQueue. Outside it run the exit   *)
(* callbacks of the processes (handleUnexpectedExit), the timers, and an   *)
(* operation that a shutdown has cut off: the queue moves on, its promise  *)
(* continues. Processes survive a crash of the service.                    *)
(*                                                                         *)
(* An action is one await completing together with the code up to the next *)
(* one. A mutation waiting in the queue has read nothing yet, so only the  *)
(* ones asked for by timers are kept; users ask when it is their turn.     *)
(* Ingested data, skills and progress are left out of the session row.     *)
(***************************************************************************)
EXTENDS Naturals, FiniteSets

CONSTANTS
    Sessions,
    NoSession, NoRow, Deleted, NoRuntime, Idle, NoExit, Reading, Done,
    MaxOps,          \* bound: mutations begun
    MaxFaults        \* bound: crashes, process deaths, failed writes and spawns

ASSUME BoundsOK == MaxOps \in Nat /\ MaxFaults \in Nat

Kinds     == {"recording", "query"}
Processes == Sessions \X Kinds

Terminal == {"ready", "failed", "interrupted"}
Statuses == Terminal \cup {"starting", "recording", "stopping", "booting-query-mode",
                           "ingesting", "processing"}

\* A process id in the row: none, of a process that runs, of one marked as stopped.
Pids == {"none", "running", "stopped"}

\* warned: the row carries a warning of an earlier shutdown or restart.
Rows == [status : Statuses, stopAsked : BOOLEAN, recording : Pids, query : Pids,
         ingested : BOOLEAN, warned : BOOLEAN]

Runtimes == [handles : SUBSET Kinds, allowed : SUBSET Kinds, reused : BOOLEAN,
             timer : BOOLEAN]

OpKinds == {"start", "reuse", "stop", "timer", "giveup", "retry", "stage", "delete",
            "schedule", "bootstrap"}

Points == {"creating", "reusing", "spawning", "spawned", "waiting", "ready", "failing",
           "failed", "stopping", "halting", "halted", "booting", "query spawning",
           "query spawned", "query waiting", "analysing", "tapping", "ingesting",
           "finishing", "closing", "closed", "scheduling", "deleting", "staging",
           "stage running", "staged", "stage failed", "marking", "warming up",
           "cooling down"}

OpStates == [kind : OpKinds, s : Sessions \cup {NoSession}, at : Points,
             copy : Rows \cup {NoRow}]

\* What shutdown read of a session and still has to finalize.
Finalizations == [row : Rows, handles : SUBSET Kinds]

ASSUME PlaceholdersAreNotValues ==
    /\ NoSession \notin Sessions
    /\ NoRow # Deleted /\ {NoRow, Deleted} \cap Rows = {}
    /\ NoExit # Reading /\ {NoExit, Reading} \cap Rows = {}
    /\ NoRuntime \notin Runtimes
    /\ Idle \notin OpStates
    /\ Done \notin Finalizations

VARIABLES
    disk,        \* session -> NoRow, Deleted, or the row in session.json
    runtime,     \* runtimeBySession
    active,      \* activeSessionId
    op,          \* the mutation under way (also when a shutdown has cut it off)
    due,         \* timer stops that wait in the queue
    given,       \* stops that failed and wait to be marked
    exits,       \* <<session, kind>> -> the exit callback under way
    alive,       \* <<session, kind>>: its process runs
    warmup,      \* the bootstrap recorder is alive
    stray,       \* processes that run and that neither a handle nor a pid on disk
                 \* leads to: the user's recorder, and what the service lost
    service,     \* "running", "stopping", "finalizing", "closed" or "down"
    closing,     \* session -> what shutdown has to finalize, or Done
    disturbed,   \* sessions written or unseated by code outside the queue
    unsaved,     \* <<session, "row">>: the last write that was to change its status
                 \* failed; <<session, kind>>: that of the pid of its process did
    begun, faults

vars == <<disk, runtime, active, op, due, given, exits, alive, warmup, stray,
          service, closing, disturbed, unsaved, begun, faults>>

memory == <<runtime, active, due, given>>
world  == <<alive, warmup, stray>>
marks  == <<disturbed, unsaved>>
bounds == <<begun, faults>>
ghosts == <<marks, bounds>>
rest   == <<exits, service, closing>>

HasRow(s) == disk[s] \notin {NoRow, Deleted}

TypeOK ==
    /\ disk \in [Sessions -> Rows \cup {NoRow, Deleted}]
    /\ runtime \in [Sessions -> Runtimes \cup {NoRuntime}]
    /\ active \in Sessions \cup {NoSession}
    /\ op \in OpStates \cup {Idle}
    /\ due \subseteq Sessions /\ given \subseteq Sessions
    /\ exits \in [Processes -> Rows \cup {NoExit, Reading}]
    /\ alive \subseteq Processes
    /\ warmup \in BOOLEAN
    /\ stray \subseteq (Sessions \cup {NoSession}) \X Kinds
    /\ service \in {"running", "stopping", "finalizing", "closed", "down"}
    /\ closing \in [Sessions -> Finalizations \cup {Done}]
    /\ disturbed \subseteq Sessions
    /\ unsaved \subseteq Sessions \X (Kinds \cup {"row"})
    /\ begun \in 0 .. MaxOps /\ faults \in 0 .. MaxFaults

\* A session that was recorded and ingested before the service was started.
EarlierRow == [status |-> "ready", stopAsked |-> TRUE, recording |-> "none",
               query |-> "none", ingested |-> TRUE, warned |-> FALSE]

NoExits == [p \in Processes |-> NoExit]

Init ==
    /\ disk \in [Sessions -> {NoRow, EarlierRow}]
    /\ runtime = [s \in Sessions |-> NoRuntime]
    /\ active = NoSession
    /\ op = Idle
    /\ due = {} /\ given = {}
    /\ exits = NoExits
    /\ alive = {}
    /\ warmup = FALSE
    /\ stray \in {{}, {<<NoSession, "recording">>}}
    /\ service = "running"
    /\ closing = [s \in Sessions |-> Done]
    /\ disturbed = {} /\ unsaved = {}
    /\ begun = 0 /\ faults = 0

Running == service = "running"

At(point) == op # Idle /\ op.at = point

Fault == faults < MaxFaults /\ faults' = faults + 1

\* The mutation goes on, with another row in memory.
Goes(point, copy) == op' = [op EXCEPT !.at = point, !.copy = copy]

\* A timed stop that throws asks for its session to be marked.
Ends   == op' = Idle /\ UNCHANGED given
Throws == /\ op' = Idle
          /\ given' = IF op.kind = "timer" /\ Running THEN given \cup {op.s} ELSE given

\* persistSession is called: it refuses once a shutdown was requested,
Persists(point, copy) == IF Running THEN Goes(point, copy) ELSE op' = Idle

\* and its write lands, even after a shutdown that was requested meanwhile,
Overwrites(unseated) ==
    /\ disk' = [disk EXCEPT ![op.s] = op.copy]
    /\ disturbed' = disturbed \cup unseated
                    \cup (IF service \in {"finalizing", "closed"} /\ closing[op.s] = Done
                          THEN {op.s} ELSE {})

LandsOver(unseated) == Overwrites(unseated) /\ unsaved' = unsaved \ {<<op.s, "row">>}

Lands == LandsOver({})

\* or it fails, and leaves the file as it was: writes replace it by a rename. (The
\* bound does not count the failure to write down another failure.)
WriteFails(kinds) ==
    /\ IF op.copy.status = "failed" THEN UNCHANGED faults ELSE Fault
    /\ unsaved' = unsaved \cup {<<op.s, kind>> : kind \in kinds \cup {"row"}}

\* "activeSessionId = null" in code that means one session and may hit another.
Unseated(s) == {active} \ {s, NoSession}

NewRuntime(reused) == [handles |-> {}, allowed |-> {}, reused |-> reused, timer |-> FALSE]

\* getRuntime finds nothing for a session that shutdown or a delete let go.
Update(s, entry) == IF runtime[s] = NoRuntime THEN runtime ELSE [runtime EXCEPT ![s] = entry]

Allow(s, kind) == Update(s, [runtime[s] EXCEPT !.allowed = @ \cup {kind}])
Drop(s, kind)  == Update(s, [runtime[s] EXCEPT !.handles = @ \ {kind}])

clearAutoStopTimer(s) == Update(s, [runtime[s] EXCEPT !.timer = FALSE])

setAutoStopTimer(s) ==
    [runtime EXCEPT ![s] =
        IF @ = NoRuntime THEN [NewRuntime(FALSE) EXCEPT !.timer = TRUE]
        ELSE [@ EXCEPT !.timer = TRUE]]

Handle(s, kind) == runtime[s] # NoRuntime /\ kind \in runtime[s].handles

\* The process behind a handle is gone once stopProcess returns.
stopProcess(s, kind) == alive' = IF Handle(s, kind) THEN alive \ {<<s, kind>>} ELSE alive

----------------------------------------------------------------------------
(* startRecording                                                          *)

\* A request of the user is taken from the queue.
Asked == op = Idle /\ Running /\ begun < MaxOps /\ begun' = begun + 1

Begins(kind, s, point, copy) ==
    op' = [kind |-> kind, s |-> s, at |-> point, copy |-> copy]

\* Mutant: createSession's own status is kept.
NewRowIdle == [status |-> "idle", stopAsked |-> FALSE, recording |-> "none",
               query |-> "none", ingested |-> FALSE, warned |-> FALSE]

NewRow == [status |-> "starting", stopAsked |-> FALSE, recording |-> "none",
           query |-> "none", ingested |-> FALSE, warned |-> FALSE]

\* A recorder answers on the port.
Healthy == warmup \/ \E p \in alive \cup stray : p[2] = "recording"

BeginStart(s) ==
    /\ Asked
    /\ active = NoSession
    /\ disk[s] = NoRow
    /\ Begins(IF Healthy THEN "reuse" ELSE "start", s, "creating", NewRow)
    /\ UNCHANGED <<disk, memory, world, rest, marks, faults>>

\* The first write does not look at shutdownRequested, the second does.
Create ==
    /\ At("creating")
    /\ Lands
    /\ runtime' = IF Running
                  THEN [runtime EXCEPT ![op.s] = NewRuntime(op.kind = "reuse")] ELSE runtime
    /\ IF op.kind = "reuse"
       THEN Persists("reusing", [op.copy EXCEPT !.status = "recording"])
       ELSE Persists("spawning", op.copy)
    /\ UNCHANGED <<active, due, given, world, rest, bounds>>

\* One of the two writes of a new session fails.
CreateFails ==
    /\ At("creating")
    /\ \/ Fault /\ UNCHANGED <<disk, marks>>
       \/ Overwrites({}) /\ WriteFails({})
    /\ op' = Idle
    /\ UNCHANGED <<memory, world, rest, begun>>

Spawn ==
    /\ At("spawning")
    /\ Running
    /\ alive' = alive \cup {<<op.s, "recording">>}
    /\ runtime' = [runtime EXCEPT ![op.s].handles = @ \cup {"recording"}]
    /\ Goes("spawned", [op.copy EXCEPT !.recording = "running"])
    /\ UNCHANGED <<disk, active, due, given, warmup, stray, rest, ghosts>>

\* awaitInterruptibly gives up on a spawn that may still succeed.
SpawnFailed(kind) ==
    \/ Fault /\ UNCHANGED stray
    \/ /\ ~Running
       /\ stray' \in {stray, stray \cup {<<op.s, kind>>}}
       /\ UNCHANGED faults

Catch == runtime' = Allow(op.s, "recording") /\ Goes("failing", op.copy)

SpawnFails ==
    /\ At("spawning")
    /\ SpawnFailed("recording")
    /\ Catch
    /\ UNCHANGED <<disk, active, due, given, alive, warmup, rest, marks, begun>>

RecordPid ==
    /\ At("spawned")
    /\ Lands
    /\ Goes("waiting", op.copy)
    /\ UNCHANGED <<memory, world, rest, bounds>>

RecorderReady ==
    /\ At("waiting")
    /\ Running
    /\ <<op.s, "recording">> \in alive
    /\ Goes("ready", [op.copy EXCEPT !.status = "recording"])
    /\ UNCHANGED <<disk, memory, world, rest, ghosts>>

\* The recorder exits, does not become healthy in time, or a shutdown interrupts.
RecorderNotReady ==
    /\ At("waiting")
    /\ \/ Fault
       \/ (<<op.s, "recording">> \notin alive \/ ~Running) /\ UNCHANGED faults
    /\ Catch
    /\ UNCHANGED <<disk, active, due, given, world, rest, marks, begun>>

\* The row says recording, the session becomes the active one, its timer is set.
Activate ==
    /\ op # Idle /\ op.at \in {"ready", "reusing"}
    /\ Lands
    /\ active' = op.s
    /\ runtime' \in {runtime, setAutoStopTimer(op.s)}
    /\ Ends
    /\ UNCHANGED <<due, world, rest, bounds>>

CatchShutdown ==
    /\ At("reusing")
    /\ ~Running
    /\ Catch
    /\ UNCHANGED <<disk, active, due, given, world, rest, ghosts>>

\* The pid, or the row of a recording that is ready, cannot be written.
StartWriteFails ==
    /\ op # Idle /\ op.at \in {"reusing", "spawned", "ready"}
    /\ WriteFails(IF op.at = "spawned" THEN {"recording"} ELSE {})
    /\ Catch
    /\ UNCHANGED <<disk, active, due, given, world, rest, disturbed, begun>>

StopFailedStart ==
    /\ At("failing")
    /\ stopProcess(op.s, "recording")
    /\ runtime' = Drop(op.s, "recording")
    /\ Persists("failed", [op.copy EXCEPT !.status = "failed", !.recording = "none"])
    /\ unsaved' = unsaved \ {<<op.s, "recording">>}
    /\ UNCHANGED <<disk, active, due, given, warmup, stray, rest, disturbed, bounds>>

RecordFailure ==
    /\ At("failed")
    /\ Lands
    /\ Throws
    /\ UNCHANGED <<runtime, active, due, world, rest, bounds>>

----------------------------------------------------------------------------
(* stopRecording and the timed stop                                        *)

BeginsStop(kind, s) ==
    /\ Begins(kind, s, "stopping",
              [disk[s] EXCEPT !.status = "stopping", !.stopAsked = TRUE])
    /\ runtime' = clearAutoStopTimer(s)

BeginStop ==
    /\ Asked
    /\ active # NoSession
    /\ HasRow(active)
    /\ BeginsStop("stop", active)
    /\ UNCHANGED <<disk, active, due, given, world, rest, marks, faults>>

\* Mutant: a timer that fires while a mutation is under way is lost.
TimerFiresUnheard(s) ==
    /\ runtime[s] # NoRuntime /\ runtime[s].timer
    /\ runtime' = clearAutoStopTimer(s)
    /\ due' = IF Running /\ op = Idle THEN due \cup {s} ELSE due
    /\ UNCHANGED <<disk, active, given, op, world, rest, ghosts>>

TimerFires(s) ==
    /\ runtime[s] # NoRuntime /\ runtime[s].timer
    /\ runtime' = clearAutoStopTimer(s)
    /\ due' = IF Running THEN due \cup {s} ELSE due
    /\ UNCHANGED <<disk, active, given, op, world, rest, ghosts>>

IsRecording(s) == disk[s].status \in {"recording", "starting"}

BeginTimedStop(s) ==
    /\ op = Idle /\ Running
    /\ s \in due
    /\ due' = due \ {s}
    /\ IF HasRow(s) /\ IsRecording(s)
       THEN BeginsStop("timer", s)
       ELSE UNCHANGED <<op, runtime>>
    /\ UNCHANGED <<disk, active, given, world, rest, ghosts>>

\* The stop is on disk; a managed recorder is told to stop, a reused one stays.
RecordStop ==
    /\ At("stopping")
    /\ Lands
    /\ IF runtime[op.s] # NoRuntime /\ runtime[op.s].reused
       THEN Persists("halted", op.copy) /\ UNCHANGED <<runtime, given>>
       ELSE IF Handle(op.s, "recording")
       THEN runtime' = Allow(op.s, "recording") /\ Goes("halting", op.copy) /\ UNCHANGED given
       ELSE Throws /\ UNCHANGED runtime
    /\ UNCHANGED <<active, due, world, rest, bounds>>

Halt ==
    /\ At("halting")
    /\ stopProcess(op.s, "recording")
    /\ runtime' = Drop(op.s, "recording")
    /\ Persists("halted", [op.copy EXCEPT !.recording = "none"])
    /\ UNCHANGED <<disk, active, due, given, warmup, stray, rest, ghosts>>

\* The session is released and ingested: from the reused recorder, or through a
\* query process.
Release ==
    /\ At("halted")
    /\ LandsOver(Unseated(op.s))
    /\ active' = NoSession
    /\ IF runtime[op.s] # NoRuntime /\ runtime[op.s].reused
       THEN Persists("tapping", [op.copy EXCEPT !.status = "ingesting"])
       ELSE Persists("booting", [op.copy EXCEPT !.status = "booting-query-mode"])
    /\ UNCHANGED <<runtime, due, given, world, rest, bounds>>

----------------------------------------------------------------------------
(* retryIngest and runIngestForSession                                     *)

BeginRetry(s) ==
    /\ Asked
    /\ active # s
    /\ HasRow(s)
    /\ disk[s].stopAsked
    /\ Begins("retry", s, "booting", [disk[s] EXCEPT !.status = "booting-query-mode"])
    /\ UNCHANGED <<disk, memory, world, rest, marks, faults>>

Boot ==
    /\ At("booting")
    /\ Lands
    /\ Goes("query spawning", op.copy)
    /\ UNCHANGED <<memory, world, rest, bounds>>

\* getOrCreateRuntime for a query process, and its handle once it runs.
Readied(s, handles) ==
    [runtime EXCEPT ![s] =
        LET entry == IF @ = NoRuntime THEN NewRuntime(FALSE) ELSE @
        IN  [entry EXCEPT !.handles = @ \cup handles, !.allowed = @ \ {"query"}]]

\* A query process that an earlier mutation left running loses its handle.
SpawnQuery ==
    /\ At("query spawning")
    /\ Running
    /\ alive' = alive \cup {<<op.s, "query">>}
    /\ stray' = stray \cup (alive \cap {<<op.s, "query">>})
    /\ runtime' = Readied(op.s, {"query"})
    /\ Goes("query spawned", [op.copy EXCEPT !.query = "running"])
    /\ unsaved' = unsaved \ {<<op.s, "query">>}
    /\ UNCHANGED <<disk, active, due, given, warmup, rest, disturbed, bounds>>

\* No port or no process: the failure is not caught, the row keeps its status.
SpawnQueryFails ==
    /\ At("query spawning")
    /\ SpawnFailed("query")
    /\ UNCHANGED runtime \/ (Running /\ runtime' = Readied(op.s, {}))
    /\ Throws
    /\ UNCHANGED <<disk, active, due, alive, warmup, rest, marks, begun>>

RecordQueryPid ==
    /\ At("query spawned")
    /\ Lands
    /\ Goes("query waiting", op.copy)
    /\ UNCHANGED <<memory, world, rest, bounds>>

QueryReady ==
    /\ At("query waiting")
    /\ Running
    /\ <<op.s, "query">> \in alive
    /\ Goes("analysing", [op.copy EXCEPT !.status = "ingesting"])
    /\ UNCHANGED <<disk, memory, world, rest, ghosts>>

\* The "finally" of runIngestForSession; an error goes on to the caller.
StopQuery(copy) ==
    IF Handle(op.s, "query")
    THEN runtime' = Allow(op.s, "query") /\ Goes("closing", copy) /\ UNCHANGED given
    ELSE UNCHANGED runtime /\ IF copy.status = "failed" THEN Throws ELSE Ends

\* Mutant: a failure is passed on and not written down.
IngestFailedSilently == StopQuery(op.copy)

\* The outcome is written, unless a shutdown refuses it.
IngestFailed ==
    LET copy == [op.copy EXCEPT !.status = "failed"]
    IN  IF Running THEN Goes("finishing", copy) /\ UNCHANGED <<runtime, given>>
        ELSE StopQuery(copy)

QueryNotReady ==
    /\ At("query waiting")
    /\ \/ Fault
       \/ (<<op.s, "query">> \notin alive \/ ~Running) /\ UNCHANGED faults
    /\ IngestFailed
    /\ UNCHANGED <<disk, active, due, world, rest, marks, begun>>

Analyse ==
    /\ op # Idle /\ op.at \in {"analysing", "tapping"}
    /\ Lands
    /\ Goes("ingesting", op.copy)
    /\ UNCHANGED <<memory, world, rest, bounds>>

Ingest ==
    /\ At("ingesting")
    /\ Running
    /\ Goes("finishing", [op.copy EXCEPT !.status = "ready", !.ingested = TRUE])
    /\ UNCHANGED <<disk, memory, world, rest, ghosts>>

IngestFails ==
    /\ At("ingesting")
    /\ \/ Fault
       \/ ~Running /\ UNCHANGED faults
    /\ IngestFailed
    /\ UNCHANGED <<disk, active, due, world, rest, marks, begun>>

Finish ==
    /\ At("finishing")
    /\ Lands
    /\ StopQuery(op.copy)
    /\ UNCHANGED <<active, due, world, rest, bounds>>

\* A write inside the "try" fails, or that of its "catch".
IngestWriteFails ==
    /\ op # Idle /\ op.at \in {"analysing", "finishing"}
    /\ WriteFails({})
    /\ IF op.copy.status = "failed" THEN StopQuery(op.copy) ELSE IngestFailed
    /\ UNCHANGED <<disk, active, due, world, rest, disturbed, begun>>

Close ==
    /\ At("closing")
    /\ stopProcess(op.s, "query")
    /\ runtime' = Drop(op.s, "query")
    /\ Persists("closed", [op.copy EXCEPT !.query = "none"])
    /\ UNCHANGED <<disk, active, due, given, warmup, stray, rest, ghosts>>

\* The last write of a mutation.
Conclude ==
    /\ op # Idle
    /\ op.at \in {"closed", "scheduling", "staged", "stage failed", "marking"}
    /\ Lands
    /\ IF op.copy.status = "failed" THEN Throws ELSE Ends
    /\ UNCHANGED <<runtime, active, due, world, rest, bounds>>

\* A write that nothing catches: the mutation ends with it. The session keeps its
\* seat, or its query process, when it was about to give it up.
WriteThrows ==
    /\ op # Idle
    /\ op.at \in {"failed", "stopping", "halted", "booting", "query spawned", "tapping",
                   "closed", "stage failed", "marking"}
    /\ WriteFails(IF op.at = "query spawned" THEN {"query"} ELSE {})
    /\ Throws
    /\ UNCHANGED <<disk, runtime, active, due, world, rest, disturbed, begun>>

\* The same of a write that the status of the row does not wait for.
RequestThrows ==
    /\ op # Idle /\ op.at \in {"scheduling", "staging", "deleting"}
    /\ Fault
    /\ op' = Idle
    /\ UNCHANGED <<disk, memory, world, rest, marks, begun>>

\* The shutdown was requested while the session was read, or a stage ran.
RefusedByShutdown ==
    /\ op # Idle
    /\ \/ op.at \in {"stopping", "scheduling", "staging", "stage running", "marking"}
       \/ op.kind = "retry" /\ op.at = "booting"
    /\ ~Running
    /\ op' = Idle
    /\ UNCHANGED <<disk, memory, world, rest, ghosts>>

----------------------------------------------------------------------------
(* The other mutations                                                     *)

\* scheduleTimedStop: the timer is set at once, the row follows.
BeginSchedule ==
    /\ Asked
    /\ active # NoSession
    /\ HasRow(active)
    /\ IsRecording(active)
    /\ runtime' = setAutoStopTimer(active)
    /\ Begins("schedule", active, "scheduling", disk[active])
    /\ UNCHANGED <<disk, active, due, given, world, rest, marks, faults>>

\* runSessionStage: discovery, extraction, generalization, optimization.
BeginStage(s) ==
    /\ Asked
    /\ HasRow(s)
    /\ disk[s].ingested
    /\ Begins("stage", s, "staging", [disk[s] EXCEPT !.status = "processing"])
    /\ UNCHANGED <<disk, memory, world, rest, marks, faults>>

RecordStage ==
    /\ At("staging")
    /\ Lands
    /\ Goes("stage running", op.copy)
    /\ UNCHANGED <<memory, world, rest, bounds>>

\* The row is ready again whether the stage succeeded or not.
StageEnds ==
    /\ At("stage running")
    /\ Running
    /\ \E point \in {"staged", "stage failed"} :
          Goes(point, [op.copy EXCEPT !.status = "ready"])
    /\ UNCHANGED <<disk, memory, world, rest, ghosts>>

\* The result cannot be written: the stage counts as failed.
StageWriteFails ==
    /\ At("staged")
    /\ WriteFails({})
    /\ Persists("stage failed", op.copy)
    /\ UNCHANGED <<disk, memory, world, rest, disturbed, begun>>

\* The runtime goes with its handles; nothing is stopped.
Forget(s) ==
    LET left == {p \in alive \cap unsaved : p[1] = s}
    IN  /\ runtime' = [runtime EXCEPT ![s] = NoRuntime]
        /\ alive' = alive \ left
        /\ stray' = stray \cup left

\* Mutant: the active session may be deleted.
BeginDeleteActive(s) ==
    /\ Asked
    /\ HasRow(s)
    /\ Forget(s)
    /\ Begins("delete", s, "deleting", NoRow)
    /\ UNCHANGED <<disk, active, due, given, warmup, rest, marks, faults>>

BeginDelete(s) ==
    /\ Asked
    /\ active # s
    /\ HasRow(s)
    /\ Forget(s)
    /\ Begins("delete", s, "deleting", NoRow)
    /\ UNCHANGED <<disk, active, due, given, warmup, rest, marks, faults>>

Delete ==
    /\ At("deleting")
    /\ disk' = [disk EXCEPT ![op.s] = Deleted]
    /\ op' = Idle
    /\ UNCHANGED <<memory, world, rest, ghosts>>

\* The timed stop failed: its session is marked unless it is over.
BeginMark(s) ==
    /\ op = Idle /\ Running
    /\ s \in given
    /\ given' = given \ {s}
    /\ IF HasRow(s) /\ disk[s].status \notin Terminal
       THEN Begins("giveup", s, "marking", [disk[s] EXCEPT !.status = "failed"])
       ELSE UNCHANGED op
    /\ UNCHANGED <<disk, runtime, active, due, world, rest, ghosts>>

\* performRecorderBootstrap: its spawn is awaited to the end, shutdown or not.
BeginBootstrap ==
    /\ Asked
    /\ ~Healthy
    /\ Begins("bootstrap", NoSession, "warming up", NoRow)
    /\ warmup' = TRUE
    /\ UNCHANGED <<disk, memory, alive, stray, rest, marks, faults>>

WarmUp ==
    /\ At("warming up")
    /\ Goes("cooling down", NoRow)
    /\ UNCHANGED <<disk, memory, world, rest, ghosts>>

CoolDown ==
    /\ At("cooling down")
    /\ warmup' = FALSE
    /\ op' = Idle
    /\ UNCHANGED <<disk, memory, alive, stray, rest, ghosts>>

----------------------------------------------------------------------------
(* Processes that exit on their own: handleUnexpectedExit                  *)

\* The callback of a recorder is registered once its pid was written.
Registered(s, kind) ==
    ~(kind = "recording" /\ op # Idle /\ op.s = s /\ op.at = "spawned")

Unexpected(s, kind) ==
    /\ Running
    /\ runtime[s] # NoRuntime
    /\ kind \notin runtime[s].allowed

ProcessExits(s, kind) ==
    /\ <<s, kind>> \in alive
    /\ exits[<<s, kind>>] = NoExit
    /\ Fault
    /\ alive' = alive \ {<<s, kind>>}
    /\ exits' = IF Registered(s, kind) /\ Unexpected(s, kind)
                THEN [exits EXCEPT ![<<s, kind>>] = Reading] ELSE exits
    /\ UNCHANGED <<disk, memory, op, warmup, stray, service, closing, marks, begun>>

\* The row is read; the exit of a recorder releases the active session, whichever.
ReadForExit(s, kind) ==
    /\ exits[<<s, kind>>] = Reading
    /\ exits' = [exits EXCEPT ![<<s, kind>>] = IF HasRow(s) /\ Running THEN disk[s] ELSE NoExit]
    /\ IF HasRow(s) /\ kind = "recording"
       THEN /\ active' = NoSession
            /\ runtime' = clearAutoStopTimer(s)
            /\ disturbed' = disturbed \cup Unseated(s)
       ELSE UNCHANGED <<active, runtime, disturbed>>
    /\ UNCHANGED <<disk, due, given, op, world, service, closing, unsaved, bounds>>

Overlapped(s) == IF op # Idle /\ op.s = s THEN {s} ELSE {}

\* The row that was read is written back as failed, over what happened since.
WriteForExit(s, kind) ==
    /\ exits[<<s, kind>>] \in Rows
    /\ exits' = [exits EXCEPT ![<<s, kind>>] = NoExit]
    /\ disk' = [disk EXCEPT ![s] =
                   IF kind = "recording"
                   THEN [exits[<<s, kind>>] EXCEPT !.status = "failed", !.recording = "none"]
                   ELSE [exits[<<s, kind>>] EXCEPT !.status = "failed", !.query = "none"]]
    /\ disturbed' = IF disk[s] # exits[<<s, kind>>] THEN disturbed \cup {s}
                    ELSE disturbed \cup Overlapped(s)
    /\ unsaved' = unsaved \ {<<s, "row">>}
    /\ UNCHANGED <<memory, op, world, service, closing, bounds>>

\* A second failure is swallowed.
WriteForExitFails(s, kind) ==
    /\ exits[<<s, kind>>] \in Rows
    /\ exits' = [exits EXCEPT ![<<s, kind>>] = NoExit]
    /\ disturbed' = disturbed \cup Overlapped(s)
    /\ unsaved' = unsaved \cup {<<s, "row">>}
    /\ UNCHANGED <<disk, memory, op, world, service, closing, bounds>>

----------------------------------------------------------------------------
(* shutdown, crash and repairStaleSessions                                 *)

RequestShutdown ==
    /\ Running
    /\ service' = "stopping"
    /\ runtime' = [s \in Sessions |-> IF runtime[s] = NoRuntime THEN NoRuntime
                                      ELSE [runtime[s] EXCEPT !.timer = FALSE]]
    /\ due' = {} /\ given' = {}
    /\ UNCHANGED <<disk, active, op, exits, closing, world, ghosts>>

\* Mutant: only sessions with a process are finalized.
ShouldFinalizeProcesses(s) == runtime[s] # NoRuntime /\ runtime[s].handles # {}

\* "runtime?.recordingProcess !== null" also holds for a session without runtime.
ShouldFinalize(s) ==
    \/ runtime[s] = NoRuntime
    \/ runtime[s].handles # {}
    \/ runtime[s].timer
    \/ active = s
    \/ disk[s].status \notin Terminal

\* Mutant: shutdown waits for the mutation that it should cut off.
QueueIsFreeOnceIdle == op = Idle

\* Shutdown's turn in the queue: a mutation that was cut off does not hold it up.
QueueIsFree == op # Idle => op.kind # "bootstrap"

ListSessions ==
    /\ service = "stopping"
    /\ QueueIsFree
    /\ service' = "finalizing"
    /\ closing' = [s \in Sessions |->
                      IF HasRow(s) /\ ShouldFinalize(s)
                      THEN [row     |-> disk[s],
                            handles |-> {kind \in Kinds : Handle(s, kind)}]
                      ELSE Done]
    /\ runtime' = [s \in Sessions |->
                      IF runtime[s] = NoRuntime \/ ~HasRow(s) THEN runtime[s]
                      ELSE IF ~ShouldFinalize(s) THEN NoRuntime
                      ELSE [runtime[s] EXCEPT !.timer = FALSE,
                                              !.allowed = @ \cup runtime[s].handles]]
    /\ UNCHANGED <<disk, active, due, given, op, exits, world, ghosts>>

\* A pid whose process nobody holds stays, marked as stopped.
FinalPid(pid, held) == IF held \/ pid = "none" THEN "none" ELSE "stopped"

\* finalizeSessionAfterInterruptedRun, or the completed session is preserved.
Finalized(row, held) ==
    LET closed == [row EXCEPT !.recording = FinalPid(row.recording, "recording" \in held),
                              !.query     = FinalPid(row.query, "query" \in held)]
    IN  IF row.status = "ready" /\ row.recording # "running"
        THEN closed
        ELSE [closed EXCEPT !.status = "interrupted", !.stopAsked = TRUE, !.warned = TRUE]

FinalizeSession(s) ==
    /\ closing[s] # Done
    /\ alive' = alive \ {<<s, kind>> : kind \in closing[s].handles}
    /\ disk' = [disk EXCEPT ![s] = Finalized(closing[s].row, closing[s].handles)]
    /\ runtime' = [runtime EXCEPT ![s] = NoRuntime]
    /\ closing' = [closing EXCEPT ![s] = Done]
    /\ UNCHANGED <<active, due, given, op, exits, service, warmup, stray, ghosts>>

FinishShutdown ==
    /\ service = "finalizing"
    /\ \A s \in Sessions : closing[s] = Done
    /\ service' = "closed"
    /\ active' = NoSession
    /\ UNCHANGED <<disk, runtime, due, given, op, exits, world, closing, ghosts>>

\* A process that was started or comes up, and whose pid is not written yet.
Nascent ==
    IF op = Idle THEN {}
    ELSE IF op.at \in {"spawning", "spawned"} THEN {<<op.s, "recording">>}
    ELSE IF op.at \in {"query spawning", "query spawned"} THEN {<<op.s, "query">>}
    ELSE {}

\* Processes that only a handle leads to, if anything does.
Untraced == Nascent \cup (alive \cap unsaved)

\* The process of the service ends; the processes it started live on, and a spawn
\* that was under way may still bring one up.
Vanish ==
    /\ service' = "down"
    /\ op' = Idle
    /\ runtime' = [s \in Sessions |-> NoRuntime]
    /\ active' = NoSession
    /\ due' = {} /\ given' = {}
    /\ exits' = NoExits
    /\ closing' = [s \in Sessions |-> Done]
    /\ warmup' = FALSE
    /\ alive' = alive \ Untraced
    /\ \E left \in {Untraced, Untraced \cap alive} :
          stray' = stray \cup left
                   \cup (IF warmup THEN {<<NoSession, "recording">>} ELSE {})
    /\ unsaved' = {}
    /\ UNCHANGED <<disk, disturbed, begun>>

Exit == service = "closed" /\ Vanish /\ UNCHANGED faults

Crash == service # "down" /\ Vanish /\ Fault

\* Mutant: only sessions that are under way are looked at.
NeedsRepairByStatus(s) == disk[s].status \notin Terminal

\* shouldRepairInterruptedSession
NeedsRepair(s) ==
    \/ disk[s].status \notin Terminal
    \/ \E kind \in Kinds :
          \/ disk[s][kind] = "running"
          \/ disk[s][kind] = "stopped" /\ <<s, kind>> \in alive

\* migrateLegacyInterruptedSession: a failed session that carries an old warning.
Migrated(row) ==
    IF row.status = "failed" /\ row.warned
    THEN [row EXCEPT !.status = "interrupted"] ELSE row

Repaired(s) ==
    IF ~HasRow(s) THEN disk[s]
    ELSE IF ~NeedsRepair(s) THEN Migrated(disk[s])
    ELSE Finalized(Migrated(disk[s]), {kind \in Kinds : <<s, kind>> \in alive})

\* The service comes up; processes whose pid is on disk are stopped.
Restart ==
    /\ service = "down"
    /\ service' = "running"
    /\ disk' = [s \in Sessions |-> Repaired(s)]
    /\ alive' = {p \in alive : ~HasRow(p[1]) \/ ~NeedsRepair(p[1])
                                \/ disk[p[1]][p[2]] = "none"}
    /\ disturbed' = {s \in disturbed : \E kind \in Kinds : <<s, kind>> \in alive'}
    /\ UNCHANGED <<memory, op, exits, warmup, stray, closing, unsaved, bounds>>

----------------------------------------------------------------------------

StartSteps ==
    \/ Create \/ CreateFails \/ Spawn \/ SpawnFails \/ RecordPid \/ RecorderReady
    \/ RecorderNotReady \/ Activate \/ CatchShutdown \/ StartWriteFails
    \/ StopFailedStart \/ RecordFailure

StopSteps == RecordStop \/ Halt \/ Release

IngestSteps ==
    \/ Boot \/ SpawnQuery \/ SpawnQueryFails \/ RecordQueryPid \/ QueryReady
    \/ QueryNotReady \/ Analyse \/ Ingest \/ IngestFails \/ Finish
    \/ IngestWriteFails \/ Close

OtherSteps ==
    \/ Conclude \/ WriteThrows \/ RequestThrows \/ RefusedByShutdown \/ RecordStage
    \/ StageEnds \/ StageWriteFails \/ Delete

BootstrapSteps == WarmUp \/ CoolDown

OpSteps == StartSteps \/ StopSteps \/ IngestSteps \/ OtherSteps \/ BootstrapSteps

Requests ==
    \/ \E s \in Sessions : BeginStart(s) \/ BeginRetry(s) \/ BeginStage(s) \/ BeginDelete(s)
    \/ BeginStop
    \/ BeginSchedule
    \/ BeginBootstrap

TimerSteps(s) == TimerFires(s) \/ BeginTimedStop(s) \/ BeginMark(s)

ExitSteps(s, kind) ==
    ReadForExit(s, kind) \/ WriteForExit(s, kind) \/ WriteForExitFails(s, kind)

ShutdownSteps == ListSessions \/ (\E s \in Sessions : FinalizeSession(s)) \/ FinishShutdown

Next ==
    \/ OpSteps
    \/ Requests
    \/ \E s \in Sessions : TimerSteps(s)
    \/ \E s \in Sessions, kind \in Kinds : ProcessExits(s, kind) \/ ExitSteps(s, kind)
    \/ RequestShutdown
    \/ ShutdownSteps
    \/ Exit
    \/ Crash
    \/ Restart

Spec == Init /\ [][Next]_vars

\* Once asked to shut down the service does so, and a bootstrap ends: nothing is
\* asked of the mutation that was cut off, nor of timers and callbacks.
ShutdownFairness == WF_vars(ShutdownSteps) /\ WF_vars(BootstrapSteps)

\* While the service runs awaits come back, timers fire and the queue is served.
QueueFairness ==
    WF_vars(Running /\ OpSteps) /\ \A s \in Sessions : WF_vars(TimerSteps(s))

LiveSpec == Spec /\ ShutdownFairness /\ QueueFairness

----------------------------------------------------------------------------
(* Correctness                                                             *)

ExitPending(s) == \E kind \in Kinds : exits[<<s, kind>>] # NoExit

Idling == Running /\ op = Idle

\* A status that no mutation will change on its own.
Settled(s) == disk[s].status \in Terminal \cup {"booting-query-mode"}

\* When no mutation, timer stop or exit callback of a session is pending and it
\* is not the active one, its row does not promise work that nobody does: it is
\* over. ("booting-query-mode" stays when no query process could be started, and a
\* row whose last write failed stays as it was: see unsaved. A failed write that
\* the code answers with another one leaves a row that is over.)
SessionsSettle ==
    Idling => \A s \in Sessions :
        \/ ~HasRow(s) \/ s \in due \cup given \/ ExitPending(s) \/ s = active
        \/ s \in disturbed \/ <<s, "row">> \in unsaved
        \/ Settled(s)

\* Every process the service started and can still name can be stopped: its handle
\* is in runtimeBySession or, when the service is down, its pid is in session.json,
\* where repairStaleSessions finds it; while the queue is idle a recorder that runs
\* is the one of the active session, and a query process runs only when its pid
\* could not be written. Beyond that are the processes in stray: a spawn that a
\* shutdown gave up, a process that ran without its pid on disk when the service
\* ended, and one whose pid could not be written and whose session was deleted or
\* ingested again.
ProcessesAreOwned ==
    \A s \in Sessions, kind \in Kinds :
        <<s, kind>> \in alive /\ s \notin disturbed =>
            /\ IF service = "down" THEN HasRow(s) /\ disk[s][kind] = "running"
               ELSE Handle(s, kind)
            /\ Idling => IF kind = "recording" THEN s = active
                         ELSE <<s, kind>> \in unsaved

\* After shutdown, once the mutation it cut off has ended, nothing the service
\* has a handle of runs, and every row is over, except those that a write already
\* under way overwrote.
ShutdownLeavesNothing ==
    service = "closed" /\ op = Idle =>
        /\ ~warmup
        /\ \A s \in Sessions \ disturbed :
              /\ \A kind \in Kinds : <<s, kind>> \notin alive
              /\ HasRow(s) => disk[s].status \in Terminal

\* repairStaleSessions: when the service comes up again every row is over, and
\* no process runs whose pid a row has.
RestartRepairs ==
    [][Restart => \A s \in Sessions : disk'[s] \notin {NoRow, Deleted} =>
          /\ disk'[s].status \in Terminal
          /\ \A kind \in Kinds : disk'[s][kind] # "none" => <<s, kind>> \notin alive'
       ]_vars

\* shutdown() comes to its end whatever the mutation it cut off does.
ShutdownCompletes == service = "stopping" ~> service \in {"closed", "down"}

\* setAutoStopTimer: a recording with a timer comes to its end, by the timer or
\* otherwise, whatever is in the queue before it; an exit callback that overlapped
\* the start or the stop can undo it. When a write of the stop fails the session
\* keeps its seat, and is marked as failed unless that write fails too.
TimedRecordingsEnd ==
    \A s \in Sessions :
        active = s /\ runtime[s] # NoRuntime /\ runtime[s].timer
            ~> \/ active # s \/ disk[s].status = "failed"
               \/ s \in disturbed \/ <<s, "row">> \in unsaved

\* What shutdown() tells the user of a session it marks as interrupted, "lab-api
\* shut down while the session was still in progress": a session that was over, with
\* no process and nothing under way, keeps its outcome.
InProgress(s) ==
    \/ disk[s].status \notin Terminal
    \/ s = active
    \/ \E kind \in Kinds : Handle(s, kind) \/ exits[<<s, kind>>] # NoExit
    \/ op # Idle /\ op.s = s

ShutdownKeepsFinished ==
    [][\A s \in Sessions :
          ListSessions /\ HasRow(s) /\ ~InProgress(s) /\ closing'[s] # Done =>
              Finalized(closing'[s].row, closing'[s].handles).status = disk[s].status]_vars
================================================================================
