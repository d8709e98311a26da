------------------------------ MODULE WorkerRuns ------------------------------
(***************************************************************************)
(* The life of AI worker runs in the product store (src/src/product/store  *)
(* .ts): startWorker, runInstalledWorkflow, sendCommand, stopWorker,       *)
(* deleteWorker and shutdown run concurrently and await the executor       *)
(* between reading the state and updating it; the turns they start report  *)
(* back on their own; every change of the persisted state goes through one *)
(* promise chain (updateState) in the order it was asked for.              *)
(*                                                                         *)
(* Persisted: the worker rows, what each shows, the runs. In memory: the   *)
(* turn handles (activeHermesRuns), manuallyStoppingHermesRuns, the calls  *)
(* in progress, the update queue. A worker process outlives the product    *)
(* process. Which device a worker has, installed workflows, events and     *)
(* commands are left out: a call they would refuse changes nothing.        *)
(***************************************************************************)
EXTENDS Integers, Sequences, FiniteSets, SequencesExt

CONSTANTS
    Workers, Runs, Turns,   \* the ids a behaviour can use
    Calls,                  \* how many store calls can be in progress at once
    Results,                \* what a turn can report
    NoRun, NoTurn, Idle,
    MaxCalls,               \* bound: calls users make altogether
    MaxFaults               \* bound: failed writes and crashes

Kinds        == {"worker_session", "workflow"}
OpenStatuses == {"running", "waiting_for_user", "blocked"}
RunStatuses  == OpenStatuses \cup {"succeeded", "failed", "paused"}

\* A turn ends in failure, without a session status, or with the one it reported.
ResultKinds == {"failed", "plain", "running", "waiting_for_user", "blocked", "succeeded"}

ASSUME ConstantsOK ==
    /\ Results \subseteq ResultKinds
    /\ MaxCalls \in Nat
    /\ MaxFaults \in Nat

VARIABLES
    workers,    \* the worker rows
    placed,     \* the workers that have a device
    shown,      \* worker -> the status its row shows
    runs,       \* run id -> NoRun or its row
    turns,      \* executor turns and their processes
    stopping,   \* manuallyStoppingHermesRuns
    calls,      \* call slot -> Idle or where the call stands
    updates,    \* updateQueue
    store,      \* "open", "stopping" (shutdownRequested) or "closed"
    begun,      \* calls made so far
    faults      \* failed writes and crashes so far

persisted == <<workers, placed, shown, runs>>
vars == <<persisted, turns, stopping, calls, updates, store, begun, faults>>

ShownStatuses == {"Working", "Available", "Waiting for user", "Blocked",
                  "Setup needed", "Needs device", "No active task"}

RunRows == [worker : Workers, kind : Kinds, status : RunStatuses, session : BOOLEAN]

TurnStates == [run : Runs, kind : {"start", "command"}, alive : BOOLEAN,
               handle : {"tracked", "dropped", "lost"}, asked : BOOLEAN,
               ready : BOOLEAN, observed : BOOLEAN, last : Results \cup {"none"}]

CallStates == [op : {"start", "command", "stop", "delete"},
               at : {"provisioning", "queued", "starting turn", "awaiting ready",
                     "ready", "stopping processes", "disconnecting"},
               worker : Workers, kind : Kinds, run : Runs \cup {NoRun},
               turn : Turns \cup {NoTurn}, result : Results \cup {"none"}]

UpdateStates == [what : {"start", "stop", "delete", "started", "commanded", "observed"},
                 call : Calls \cup {Idle}, run : Runs \cup {NoRun},
                 result : Results \cup {"failed", "none"},
                 fallback : {"running", "paused"}, caught : BOOLEAN]

ASSUME PlaceholdersAreNotValues ==
    /\ NoRun \notin Runs /\ NoRun \notin RunRows
    /\ NoTurn \notin TurnStates
    /\ Idle \notin Calls /\ Idle \notin CallStates

TypeOK ==
    /\ workers \subseteq Workers
    /\ placed \subseteq workers
    /\ shown \in [Workers -> ShownStatuses]
    /\ runs \in [Runs -> RunRows \cup {NoRun}]
    /\ turns \in [Turns -> TurnStates \cup {NoTurn}]
    /\ stopping \subseteq Runs
    /\ calls \in [Calls -> CallStates \cup {Idle}]
    /\ updates \in Seq(UpdateStates)
    /\ store \in {"open", "stopping", "closed"}
    /\ begun \in 0 .. MaxCalls
    /\ faults \in 0 .. MaxFaults

Init ==
    /\ workers = Workers
    /\ placed \in SUBSET Workers
    /\ shown = [w \in Workers |-> IF w \in placed THEN "No active task" ELSE "Needs device"]
    /\ runs = [r \in Runs |-> NoRun]
    /\ turns = [t \in Turns |-> NoTurn]
    /\ stopping = {}
    /\ calls = [c \in Calls |-> Idle]
    /\ updates = << >>
    /\ store = "open"
    /\ begun = 0
    /\ faults = 0

IsOpen(r) == runs[r] # NoRun /\ runs[r].status \in OpenStatuses

OpenIn(rows, w) == {r \in Runs : rows[r] # NoRun /\ rows[r].worker = w
                                                /\ rows[r].status \in OpenStatuses}

OpenRunsOf(w) == OpenIn(runs, w)

TurnsOf(r) == {t \in Turns : turns[t] # NoTurn /\ turns[t].run = r}

Tracked(t) == turns[t] # NoTurn /\ turns[t].handle = "tracked"

\* Mutant: the status of the run is shown as it is.
ShownForRaw(status, kind) == status

ShownFor(status, kind) ==
    CASE status = "waiting_for_user" -> "Waiting for user"
      [] status = "blocked"          -> "Blocked"
      [] status = "failed"           -> "Setup needed"
      [] status = "running"          -> IF kind = "worker_session"
                                        THEN "Available" ELSE "Working"
      [] OTHER                       -> "No active task"

\* normalizeProductWorkerState: what w's row shows in a state with these runs and
\* placed workers when an update left it showing "status".
RowShows(w, status, rows, at) ==
    IF OpenIn(rows, w) # {}
    THEN LET run == rows[CHOOSE r \in OpenIn(rows, w) : TRUE]
         IN  ShownFor(run.status, run.kind)
    ELSE IF w \in at /\ status \in {"Working", "Available"} THEN "No active task"
    ELSE status

\* normalizeState at the end of every update that is written.
Show(statuses) ==
    shown' = [w \in Workers |-> IF w \in workers'
                                THEN RowShows(w, statuses[w], runs', placed')
                                ELSE shown[w]]

\* handle.stop() on a set of turns, which leave activeHermesRuns.
StopHandles(S) ==
    turns' = [t \in Turns |-> IF t \in S
                              THEN [turns[t] EXCEPT !.handle = "dropped", !.asked = TRUE]
                              ELSE turns[t]]

Enqueue(what, c, r, result, fallback) ==
    updates' = Append(updates, [what |-> what, call |-> c, run |-> r,
                                result |-> result, fallback |-> fallback,
                                caught |-> FALSE])

\* Bound: a call is made while the budget lasts.
Begin == begun < MaxCalls /\ begun' = begun + 1

Return(c) == calls' = [calls EXCEPT ![c] = Idle]

Goes(c, at) == calls' = [calls EXCEPT ![c].at = at]

Call(op, at, w, kind, r) ==
    [op |-> op, at |-> at, worker |-> w, kind |-> kind, run |-> r, turn |-> NoTurn,
     result |-> "none"]

\* stopWorkerProcesses signals every process of the worker's profile, whoever
\* started it, or fails unnoticed: what may become of the turns ts.
Signalled(ts, w) ==
    {ts, [t \in Turns |-> IF ts[t] # NoTurn /\ ts[t].alive /\ runs[ts[t].run].worker = w
                          THEN [ts[t] EXCEPT !.asked = TRUE] ELSE ts[t]]}

\* A call that meets the shutdown cleans up after its worker.
CleanUp(w) == turns' \in IF store = "open" THEN {turns} ELSE Signalled(turns, w)

At(c, op, at) == calls[c] # Idle /\ calls[c].op = op /\ calls[c].at = at

----------------------------------------------------------------------------
(* startWorker and runInstalledWorkflow. *)

\* Bound: a start begins only when a run id is left for it.
RunIdLeft ==
    LET starting == {c \in Calls : calls[c] # Idle /\ calls[c].op = "start"
                                                  /\ calls[c].run = NoRun}
    IN  Cardinality(starting) < Cardinality({r \in Runs : runs[r] = NoRun})

\* requireWorker, requireNoActiveRun and, in startWorker only, requireWorkerDeviceReady.
CanCreateRun(w, kind) ==
    /\ w \in workers
    /\ kind = "worker_session" => w \in placed
    /\ OpenRunsOf(w) = {}

\* The checks on the state as it is when the call comes in.
BeginStart(c, w, kind) ==
    /\ Begin
    /\ RunIdLeft
    /\ calls[c] = Idle
    /\ store = "open"
    /\ CanCreateRun(w, kind)
    /\ calls' = [calls EXCEPT ![c] = Call("start", "provisioning", w, kind, NoRun)]
    /\ UNCHANGED <<persisted, turns, stopping, updates, store, faults>>

\* provisionAgent and installSkill are done; the run is created by an update.
Provisioned(c) ==
    /\ At(c, "start", "provisioning")
    /\ store = "open"
    /\ Enqueue("start", c, NoRun, "none", "running")
    /\ Goes(c, "queued")
    /\ UNCHANGED <<persisted, turns, stopping, store, begun, faults>>

\* The executor refuses, or the store is shutting down.
NotProvisioned(c) ==
    /\ At(c, "start", "provisioning")
    /\ Return(c)
    /\ CleanUp(calls[c].worker)
    /\ UNCHANGED <<persisted, stopping, updates, store, begun, faults>>

CreateRun(c, w, r) ==
    /\ runs[r] = NoRun
    /\ runs' = [runs EXCEPT ![r] = [worker |-> w, kind |-> calls[c].kind,
                                    status |-> "running", session |-> FALSE]]
    /\ UNCHANGED <<workers, placed>>
    /\ Show([shown EXCEPT ![w] = "Working"])
    /\ calls' = [calls EXCEPT ![c].at = "starting turn", ![c].run = r]
    /\ UNCHANGED <<turns, stopping, store, begun, faults>>

\* The shutdown is noticed after the update and before startTurn.
AbandonTurn(c) ==
    /\ calls[c] # Idle /\ calls[c].at = "starting turn"
    /\ store # "open"
    /\ Return(c)
    /\ IF calls[c].op = "start" THEN CleanUp(calls[c].worker) ELSE UNCHANGED turns
    /\ UNCHANGED <<persisted, stopping, updates, store, begun, faults>>

NewTurn(c, late) ==
    [run |-> calls[c].run, kind |-> calls[c].op, alive |-> TRUE,
     handle |-> IF late THEN "dropped" ELSE "tracked", asked |-> late,
     ready |-> FALSE, observed |-> FALSE, last |-> "none"]

\* Mutant: the shutdown is not looked at after startTurn.
TurnStartsTracked(c, t) ==
    /\ calls[c] # Idle /\ calls[c].at = "starting turn"
    /\ turns[t] = NoTurn
    /\ turns' = [turns EXCEPT ![t] = NewTurn(c, FALSE)]
    /\ Return(c)
    /\ UNCHANGED <<persisted, stopping, updates, store, begun, faults>>

\* startTurn resolves: the process runs. A handle that arrives after the shutdown
\* was requested is stopped at once (rejectLateHermesHandle), any other is tracked.
TurnStarts(c, t) ==
    /\ calls[c] # Idle /\ calls[c].at = "starting turn"
    /\ turns[t] = NoTurn
    /\ IF store = "open"
       THEN turns' = [turns EXCEPT ![t] = NewTurn(c, FALSE)]
       ELSE turns' \in Signalled([turns EXCEPT ![t] = NewTurn(c, TRUE)], calls[c].worker)
    /\ IF store = "open" /\ calls[c].op = "start"
       THEN calls' = [calls EXCEPT ![c].at = "awaiting ready", ![c].turn = t]
       ELSE Return(c)
    /\ UNCHANGED <<persisted, stopping, updates, store, begun, faults>>

\* Mutant: a refused turn is only reported to the caller.
TurnRefusedQuietly(c) ==
    /\ calls[c] # Idle /\ calls[c].at = "starting turn"
    /\ Return(c)
    /\ CleanUp(calls[c].worker)
    /\ UNCHANGED <<persisted, stopping, updates, store, begun, faults>>

\* startTurn throws: the run gets a failed result.
TurnRefused(c) ==
    /\ calls[c] # Idle /\ calls[c].at = "starting turn"
    /\ IF store = "open"
       THEN Enqueue(IF calls[c].op = "start" THEN "started" ELSE "commanded",
                    Idle, calls[c].run, "failed", "running")
       ELSE UNCHANGED updates
    /\ Return(c)
    /\ CleanUp(calls[c].worker)
    /\ UNCHANGED <<persisted, stopping, store, begun, faults>>

\* settleWithin(handle.ready, 750) gave a result: it is applied once more.
ApplyReady(c) ==
    /\ At(c, "start", "ready")
    /\ IF store = "open"
       THEN Enqueue("started", Idle, calls[c].run, calls[c].result, "running")
       ELSE UNCHANGED updates
    /\ Return(c)
    /\ CleanUp(calls[c].worker)
    /\ UNCHANGED <<persisted, stopping, store, begun, faults>>

\* 750 ms have passed.
ReadyTimesOut(c) ==
    /\ At(c, "start", "awaiting ready")
    /\ Return(c)
    /\ CleanUp(calls[c].worker)
    /\ UNCHANGED <<persisted, stopping, updates, store, begun, faults>>

----------------------------------------------------------------------------
(* What a turn reports, on its own. *)

\* handle.ready settles; a call still waiting for it sees the same result.
WakeWaiters(t, result) ==
    calls' = [c \in Calls |->
        IF At(c, "start", "awaiting ready") /\ calls[c].turn = t
        THEN [calls[c] EXCEPT !.at = "ready", !.result = result]
        ELSE calls[c]]

\* What a handler of trackHermesRun or trackHermesCommand applies, and catches.
StartedUpdate(t, result, fallback) ==
    [what |-> "started", call |-> Idle, run |-> turns[t].run, result |-> result,
     fallback |-> fallback, caught |-> TRUE]

\* The ready handler of trackHermesRun applies a good result only.
ReadyUpdates(t, result) ==
    IF store = "open" /\ turns[t].kind = "start" /\ result # "failed"
    THEN <<StartedUpdate(t, result, "running")>> ELSE << >>

\* The completion handlers of trackHermesRun and trackHermesCommand.
FinalUpdates(t, result) ==
    IF store # "open" THEN << >>
    ELSE IF turns[t].kind = "command"
    THEN <<[StartedUpdate(t, result, "paused") EXCEPT !.what = "commanded"]>>
    ELSE <<StartedUpdate(t, result,
              IF runs[turns[t].run].kind = "worker_session" THEN "running" ELSE "paused")>>

\* The output shows the ready marker or a session status.
Ready(t, result) ==
    /\ turns[t] # NoTurn /\ turns[t].alive /\ turns[t].handle # "lost"
    /\ ~turns[t].ready
    /\ result # "failed"
    /\ turns' = [turns EXCEPT ![t].ready = TRUE]
    /\ WakeWaiters(t, result)
    /\ updates' = updates \o ReadyUpdates(t, result)
    /\ UNCHANGED <<persisted, stopping, store, begun, faults>>

\* The first output of a turn marks the worker as working, if its signals have not
\* been released.
Observed(t) ==
    /\ Tracked(t) /\ turns[t].alive /\ ~turns[t].observed
    /\ turns' = [turns EXCEPT ![t].observed = TRUE]
    /\ Enqueue("observed", Idle, turns[t].run, "none", "running")
    /\ UNCHANGED <<persisted, stopping, calls, store, begun, faults>>

\* A turn that is over; its flags mean nothing any more.
Ended(turn, result) ==
    [turn EXCEPT !.alive = FALSE, !.handle = "dropped", !.asked = FALSE, !.ready = TRUE,
                 !.observed = TRUE, !.last = result]

\* The process ends: ready (if it had not) and completion settle, in this order.
Exits(t, result) ==
    /\ turns[t] # NoTurn /\ turns[t].alive /\ turns[t].handle # "lost"
    /\ turns' = [turns EXCEPT ![t] = Ended(@, result)]
    /\ IF turns[t].ready
       THEN /\ updates' = updates \o FinalUpdates(t, result)
            /\ UNCHANGED calls
       ELSE /\ updates' = updates \o ReadyUpdates(t, result) \o FinalUpdates(t, result)
            /\ WakeWaiters(t, result)
    /\ UNCHANGED <<persisted, stopping, store, begun, faults>>

\* A process whose product process is gone ends unheard.
LostTurnExits(t) ==
    /\ turns[t] # NoTurn /\ turns[t].alive /\ turns[t].handle = "lost"
    /\ turns' = [turns EXCEPT ![t] = Ended(@, "none")]
    /\ UNCHANGED <<persisted, stopping, calls, updates, store, begun, faults>>

----------------------------------------------------------------------------
(* sendCommand, stopWorker, deleteWorker. *)

\* Nothing happens before the update that accepts the command.
BeginSend(c, w) ==
    /\ Begin
    /\ calls[c] = Idle
    /\ store = "open"
    /\ w \in workers
    /\ \E r \in OpenRunsOf(w) :
          /\ runs[r].session
          /\ runs' = [runs EXCEPT ![r].status = "running"]
          /\ calls' = [calls EXCEPT ![c] =
                          Call("command", "starting turn", w, runs[r].kind, r)]
    /\ UNCHANGED <<workers, placed, turns, stopping, updates, store, faults>>
    /\ Show(shown)

\* The run open now is marked and its handles are stopped; the processes of the
\* worker's profile are looked for next. Not refused by a shutdown.
BeginStop(c, w) ==
    /\ Begin
    /\ calls[c] = Idle
    /\ w \in workers
    /\ \/ /\ OpenRunsOf(w) = {}
          /\ calls' = [calls EXCEPT ![c] =
                          Call("stop", "stopping processes", w, "workflow", NoRun)]
          /\ UNCHANGED <<turns, stopping>>
       \/ \E r \in OpenRunsOf(w) :
          /\ calls' = [calls EXCEPT ![c] =
                          Call("stop", "stopping processes", w, runs[r].kind, r)]
          /\ stopping' = stopping \cup {r}
          /\ StopHandles({t \in TurnsOf(r) : Tracked(t)})
    /\ UNCHANGED <<persisted, updates, store, faults>>

\* Mutant: a stop that found processes leaves the run to their results.
ProcessesStoppedOnly(c) ==
    /\ At(c, "stop", "stopping processes")
    /\ turns' \in Signalled(turns, calls[c].worker)
    /\ Return(c)
    /\ UNCHANGED <<persisted, stopping, updates, store, begun, faults>>

ProcessesStopped(c) ==
    /\ At(c, "stop", "stopping processes")
    /\ turns' \in Signalled(turns, calls[c].worker)
    /\ IF store = "open"
       THEN /\ Enqueue("stop", c, calls[c].run, "none", "paused")
            /\ Goes(c, "queued")
            /\ UNCHANGED stopping
       ELSE /\ Return(c)
            /\ stopping' = stopping \ {calls[c].run}
            /\ UNCHANGED updates
    /\ UNCHANGED <<persisted, store, begun, faults>>

BeginDelete(c, w) ==
    /\ Begin
    /\ calls[c] = Idle
    /\ store = "open"
    /\ w \in workers
    /\ OpenRunsOf(w) = {}
    /\ calls' = [calls EXCEPT ![c] = Call("delete", "disconnecting", w, "workflow", NoRun)]
    /\ UNCHANGED <<persisted, turns, stopping, updates, store, faults>>

\* Channel setups are cancelled and channels disconnected, or one of them fails.
Disconnected(c) ==
    /\ At(c, "delete", "disconnecting")
    /\ \/ /\ store = "open"
          /\ Enqueue("delete", c, NoRun, "none", "running")
          /\ Goes(c, "queued")
       \/ /\ Return(c)
          /\ UNCHANGED updates
    /\ UNCHANGED <<persisted, turns, stopping, store, begun, faults>>

\* assignDevice: the row shows no active task, whatever its runs; a worker v that
\* had the device loses it.
AssignDevice(w, v) ==
    /\ Begin
    /\ store = "open"
    /\ w \in workers
    /\ placed' = (placed \cup {w}) \ ({v} \ {w})
    /\ UNCHANGED <<workers, runs>>
    /\ Show([u \in Workers |-> CASE u = w          -> "No active task"
                                [] u \in placed \ placed' -> "Needs device"
                                [] OTHER          -> shown[u]])
    /\ UNCHANGED <<turns, stopping, calls, updates, store, faults>>

\* installWorkflow, deleteWorkflow and deleteInstalledWorkflow reset the row.
ChangeInstalled(w) ==
    /\ Begin
    /\ store = "open"
    /\ w \in workers
    /\ UNCHANGED <<workers, placed, runs>>
    /\ \E status \in {"No active task"} \cup (IF w \in placed THEN {} ELSE {"Needs device"}) :
          Show([shown EXCEPT ![w] = status])
    /\ UNCHANGED <<turns, stopping, calls, updates, store, faults>>

----------------------------------------------------------------------------
(* The update queue. *)

StatusOf(result, fallback) ==
    CASE result = "failed" -> "failed"
      [] result = "plain"  -> fallback
      [] OTHER             -> result

\* runStatusAfterWorkerCommand: a session stays open after a command.
AfterCommand(status, kind) ==
    IF kind = "worker_session" /\ status \in {"succeeded", "paused"}
    THEN "running" ELSE status

\* Mutant: a late result counts for a run that is over.
TakesResultsOfAny(r) == r \notin stopping /\ runs[r] # NoRun

\* A result counts only for a run that is running and not being stopped.
TakesResults(r) ==
    /\ r \notin stopping
    /\ runs[r] # NoRun
    /\ runs[r].status = "running"

\* applyHermesStartResult and applyHermesCommandResult. A result may carry the
\* session id.
ApplyResult(u) ==
    /\ u.what \in {"started", "commanded"}
    /\ UNCHANGED <<workers, placed>>
    /\ IF TakesResults(u.run)
       THEN LET run    == runs[u.run]
                status == IF u.what = "started" THEN StatusOf(u.result, u.fallback)
                          ELSE AfterCommand(StatusOf(u.result, "paused"), run.kind)
            IN  /\ \E session \in {run.session, TRUE} :
                      runs' = [runs EXCEPT ![u.run] =
                                  [run EXCEPT !.status = status, !.session = session]]
                /\ Show([shown EXCEPT ![run.worker] = ShownFor(status, run.kind)])
       ELSE UNCHANGED runs /\ Show(shown)
    /\ UNCHANGED <<turns, stopping, calls, store, begun, faults>>

\* Mutant: late output marks the worker of a run that is over.
ApplyObservedLate(u) ==
    /\ u.what = "observed"
    /\ UNCHANGED <<workers, placed, runs>>
    /\ Show([shown EXCEPT ![runs[u.run].worker] = "Working"])
    /\ UNCHANGED <<turns, stopping, calls, store, begun, faults>>

\* recordWorkerExecutionStarted.
ApplyObserved(u) ==
    /\ u.what = "observed"
    /\ UNCHANGED <<workers, placed, runs>>
    /\ Show(IF runs[u.run].status = "running"
            THEN [shown EXCEPT ![runs[u.run].worker] = "Working"] ELSE shown)
    /\ UNCHANGED <<turns, stopping, calls, store, begun, faults>>

\* The update of a stop pauses whichever run of the worker is open by now.
ApplyStop(u) ==
    /\ u.what = "stop"
    /\ UNCHANGED <<workers, placed>>
    /\ LET w == calls[u.call].worker IN
       /\ IF OpenRunsOf(w) = {}
          THEN UNCHANGED runs
          ELSE \E r \in OpenRunsOf(w) : runs' = [runs EXCEPT ![r].status = "paused"]
       /\ Show([shown EXCEPT ![w] = "No active task"])
    /\ stopping' = stopping \ {u.run}
    /\ Return(u.call)
    /\ UNCHANGED <<turns, store, begun, faults>>

ApplyDelete(u) ==
    /\ u.what = "delete"
    /\ workers' = workers \ {calls[u.call].worker}
    /\ placed' = placed \ {calls[u.call].worker}
    /\ UNCHANGED runs
    /\ Show(shown)
    /\ Return(u.call)
    /\ UNCHANGED <<turns, stopping, store, begun, faults>>

\* Mutant: the update trusts the checks made when the call came in.
ApplyStartUnchecked(u) ==
    /\ u.what = "start"
    /\ calls[u.call].worker \in workers
    /\ \E r \in Runs : CreateRun(u.call, calls[u.call].worker, r)

\* The update of a start: every check again, then the new run.
ApplyStart(u) ==
    /\ u.what = "start"
    /\ CanCreateRun(calls[u.call].worker, calls[u.call].kind)
    /\ \E r \in Runs : CreateRun(u.call, calls[u.call].worker, r)

\* Mutant: the caller of a dropped update is not told.
DropUpdateQuietly(u) ==
    /\ stopping' = IF u.what = "stop" THEN stopping \ {u.run} ELSE stopping
    /\ UNCHANGED <<persisted, turns, calls, store, begun>>

\* An update that throws, is refused by the shutdown, or whose transaction fails
\* changes nothing; its caller returns.
DropUpdate(u) ==
    /\ calls' = [c \in Calls |-> IF c = u.call THEN Idle ELSE calls[c]]
    /\ stopping' = IF u.what = "stop" THEN stopping \ {u.run} ELSE stopping
    /\ UNCHANGED <<persisted, turns, store, begun>>

\* The handler of a turn that catches the error of its update asks for another one,
\* with a failed result, whose error nobody catches.
Rescued(u) ==
    IF u.caught THEN <<[u EXCEPT !.result = "failed", !.caught = FALSE]>> ELSE << >>

\* The update of a start throws when a check fails; those of its device and of its
\* workflow are left out, so it may throw whatever the runs are.
MayThrow(u) == u.what = "start"

\* Mutant: the updates queued before a shutdown are carried out.
RunUpdateLate ==
    /\ updates # << >>
    /\ updates' = Tail(updates)
    /\ LET u == Head(updates) IN
       \/ ApplyStart(u) \/ ApplyResult(u) \/ ApplyObserved(u)
       \/ ApplyStop(u) \/ ApplyDelete(u)
       \/ MayThrow(u) /\ DropUpdate(u) /\ UNCHANGED faults

RunUpdate ==
    /\ updates # << >>
    /\ LET u == Head(updates) IN
       \/ /\ store = "open"
          /\ \/ ApplyStart(u) \/ ApplyResult(u) \/ ApplyObserved(u)
             \/ ApplyStop(u) \/ ApplyDelete(u)
          /\ updates' = Tail(updates)
       \/ /\ store # "open" \/ MayThrow(u)
          /\ DropUpdate(u)
          /\ updates' = Tail(updates)
          /\ UNCHANGED faults
       \/ /\ store = "open" /\ faults < MaxFaults
          /\ DropUpdate(u)
          /\ updates' = Tail(updates) \o Rescued(u)
          /\ faults' = faults + 1

----------------------------------------------------------------------------
(* Shutdown, crash and restart. *)

RequestShutdown ==
    /\ Begin
    /\ store = "open"
    /\ store' = "stopping"
    /\ StopHandles({t \in Turns : Tracked(t)})
    /\ UNCHANGED <<persisted, stopping, calls, updates, faults>>

\* The processes of every known worker are signalled, if that does not fail. The
\* drains of performStoreShutdown are bounded in time, all but the last: the update
\* queue is empty when the database is closed.
CloseStore ==
    /\ store = "stopping"
    /\ updates = << >>
    /\ store' = "closed"
    /\ \E W \in SUBSET Workers :
          turns' = [t \in Turns |->
                      IF turns[t] # NoTurn /\ turns[t].alive
                         /\ runs[turns[t].run].worker \in W
                      THEN [turns[t] EXCEPT !.asked = TRUE] ELSE turns[t]]
    /\ UNCHANGED <<persisted, stopping, calls, updates, begun, faults>>

\* repairStaleRuntimeState, on the first load of the state.
Repaired(r) ==
    IF runs[r] # NoRun /\ runs[r].status = "running"
    THEN [runs[r] EXCEPT !.status = "failed"] ELSE runs[r]

\* Mutant: the rows of failed runs are not repaired.
RepairedShownKept(w) == RowShows(w, shown[w], runs, placed)

RepairedShown(w) ==
    LET status == RowShows(w, shown[w], runs, placed) IN
    IF \/ \E r \in OpenRunsOf(w) : runs[r].status = "running"
       \/ status = "Working" /\ OpenRunsOf(w) = {}
    THEN "No active task" ELSE status

\* The product process ends, in order or not, and is started again.
Restart ==
    /\ \/ store = "closed" /\ UNCHANGED faults
       \/ faults < MaxFaults /\ faults' = faults + 1
    /\ runs' = [r \in Runs |-> Repaired(r)]
    /\ shown' = [w \in Workers |-> IF w \in workers THEN RepairedShown(w) ELSE shown[w]]
    /\ turns' = [t \in Turns |-> IF turns[t] # NoTurn /\ turns[t].alive
                                 THEN [turns[t] EXCEPT !.handle = "lost"] ELSE turns[t]]
    /\ stopping' = {}
    /\ calls' = [c \in Calls |-> Idle]
    /\ updates' = << >>
    /\ store' = "open"
    /\ UNCHANGED <<workers, placed, begun>>

Next ==
    \/ \E c \in Calls, w \in Workers :
          \/ \E kind \in Kinds : BeginStart(c, w, kind)
          \/ BeginSend(c, w) \/ BeginStop(c, w) \/ BeginDelete(c, w)
    \/ \E c \in Calls :
          \/ Provisioned(c) \/ NotProvisioned(c)
          \/ \E t \in Turns : TurnStarts(c, t)
          \/ AbandonTurn(c) \/ TurnRefused(c)
          \/ ApplyReady(c) \/ ReadyTimesOut(c)
          \/ ProcessesStopped(c) \/ Disconnected(c)
    \/ \E t \in Turns :
          \/ \E result \in Results : Ready(t, result) \/ Exits(t, result)
          \/ Observed(t) \/ LostTurnExits(t)
    \/ \E w \in Workers : ChangeInstalled(w) \/ \E v \in Workers : AssignDevice(w, v)
    \/ RunUpdate
    \/ RequestShutdown \/ CloseStore \/ Restart

Spec == Init /\ [][Next]_vars

\* Whatever a call awaits settles (the executor answers, 750 ms pass) and the event
\* loop runs queued updates. Nothing is assumed of users, turns or the shutdown.
FairSpec ==
    /\ Spec
    /\ WF_vars(RunUpdate)
    /\ \A c \in Calls :
          /\ WF_vars(Provisioned(c) \/ NotProvisioned(c))
          /\ WF_vars((\E t \in Turns : TurnStarts(c, t)) \/ TurnRefused(c) \/ AbandonTurn(c))
          /\ WF_vars(ApplyReady(c) \/ ReadyTimesOut(c))
          /\ WF_vars(ProcessesStopped(c))
          /\ WF_vars(Disconnected(c))

----------------------------------------------------------------------------
(* Properties. *)

\* requireNoActiveRun: a worker never has two open runs, although every start is
\* checked long before its run is created.
OneOpenRun == \A w \in Workers : Cardinality(OpenRunsOf(w)) <= 1

\* A run that is over (succeeded, failed, paused) is never touched again by a late
\* result, a second stop, a command or a restart.
ClosedRunsStayClosed ==
    [][\A r \in Runs : (runs[r] # NoRun /\ ~IsOpen(r)) => runs'[r] = runs[r]]_vars

\* Every row shows what its worker's open run says, and a worker without one is shown
\* neither at work nor available, waiting or blocked: the results, the first output,
\* stops, device changes and the repair after a crash all write the same row.
ShownMatchesRuns ==
    \A w \in workers :
        IF OpenRunsOf(w) # {}
        THEN \E r \in OpenRunsOf(w) : shown[w] = ShownFor(runs[r].status, runs[r].kind)
        ELSE shown[w] \notin {"Working", "Available", "Waiting for user", "Blocked"}

\* After the shutdown was requested nothing is written before the next start,
\* although calls, turns and queued updates are still under way.
NoWriteAfterShutdown ==
    [][(store # "open" /\ store' # "open") => UNCHANGED persisted]_vars

\* Once the database is closed every turn this process started has been told to
\* stop, the ones whose startTurn was still pending at the shutdown included.
ShutdownStopsTurns ==
    store = "closed" =>
        \A t \in Turns : (turns[t] # NoTurn /\ turns[t].alive) =>
                             turns[t].asked \/ turns[t].handle = "lost"

\* updateState settles the promise of every update: a call that waits for one has
\* exactly one update in the queue, and every other update is nobody's.
UpdatesHaveCallers ==
    /\ \A i \in DOMAIN updates :
          IF updates[i].what \in {"start", "stop", "delete"}
          THEN updates[i].call \in Calls /\ At(updates[i].call, updates[i].what, "queued")
          ELSE updates[i].call = Idle
    /\ \A i, j \in DOMAIN updates :
          updates[i].call = updates[j].call /\ updates[i].call # Idle => i = j
    /\ \A c \in Calls :
          (calls[c] # Idle /\ calls[c].at = "queued") =>
              \E i \in DOMAIN updates : updates[i].call = c

PendingFor(r) == \E i \in DOMAIN updates : updates[i].run = r

\* While nothing fails, a workflow run shown as running has someone behind it: its
\* turn is being started, is running and tracked, or has a result on its way; or
\* the run is being stopped; or a turn itself ended by reporting "running".
RunningWorkIsAttended ==
    (store = "open" /\ faults = 0) =>
        \A r \in Runs :
            (runs[r] # NoRun /\ runs[r].kind = "workflow" /\ runs[r].status = "running") =>
                \/ \E c \in Calls :
                      calls[c] # Idle /\ calls[c].run = r /\ calls[c].at = "starting turn"
                \/ \E t \in TurnsOf(r) :
                      (Tracked(t) /\ turns[t].alive) \/ turns[t].last = "running"
                \/ PendingFor(r)
                \/ r \in stopping

\* Every call to the store returns: none waits for an update that never runs.
CallsReturn == \A c \in Calls : calls[c] # Idle ~> calls[c] = Idle

\* A stop ends the run it was asked to stop, whatever the run's turns report in the
\* meantime, unless the store shuts down or a write fails.
StopEndsTheRun ==
    \A r \in Runs : (r \in stopping /\ IsOpen(r))
                        ~> (~IsOpen(r) \/ store # "open" \/ faults > 0)

\* deleteWorker: "Stop the active AI worker session before deleting it." (store.ts):
\* an open run has its worker.
OpenRunsHaveWorkers == \A r \in Runs : IsOpen(r) => runs[r].worker \in workers

\* "stops every active Hermes process for the same run" (the title of a test of
\* stopWorker): with no other way to be paused, a paused run has no process that
\* goes on without having been told to stop.
StopReachesEveryTurn ==
    \A t \in Turns :
        (turns[t] # NoTurn /\ turns[t].alive /\ runs[turns[t].run].status = "paused")
            => turns[t].asked
================================================================================
