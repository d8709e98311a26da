# A TLA+ verification of OysterWorkflow

OysterWorkflow turns recordings of work into *workflows* (graphs of steps), installs
them on *AI workers*, and lets the workers, or the agents of other programs, run them.
This directory holds TLA+ models of the parts of the program where order matters, the
TLC configurations that check them on small instances, and TLAPS proofs that hold for
every instance. Paths below are those of the repository, under `src/`.

## Reading guide

| File | What it is |
|---|---|
| `WorkflowGraph.tla` | what a valid workflow graph is; starting and advancing a run, as pure operators |
| `McpWorkflowRuns.tla` | the service that hosts runs for MCP clients: queue, files, replies, crashes |
| `RunLedger.tla` | what that service promises its clients, without queue, files or process |
| `WorkerRuns.tla` | AI worker runs in the product store: calls, turns, reports, shutdown, restart |
| `WorkflowRevisions.tla` | the version history of a workflow: edits, restores and saves, file by file |
| `RevisionTree.tla` | what that history promises: a tree of revisions that only grows |
| `WorkflowMerge.tla` | merging a recorded source into a canonical workflow; extends `WorkflowRevisions` |
| `CapabilityChecks.tla` | checks, prepares and refreshes of a capability provider |
| `LabSessions.tla` | recording sessions of the lab service, their processes, timers, shutdown and repair |
| `MC*.tla`, `*.cfg` | the small instances TLC checks |
| `*Proofs.tla` | lemmas and theorems with TLAPS proofs about the module of that name; `WorkerAttendanceProofs` is the second one about `WorkerRuns` |
| `PROJECT.json` | components, runs, mutants, the map from definitions to source lines, findings, hazards, theorems |

In every module an operator whose comment begins with "Mutant:" is the definition after it
with a plausible bug. Nothing uses it in a run; `PROJECT.json` names, for each property,
the mutant that breaks it, which shows that the property can fail.

## The system and its components

All services live in one Node.js process, the runtime, started by the desktop host or the
command line. They interact by method calls and promises, share the files under the data
directory, and start child processes (agents, recorders, browsers). There is no
shared-memory concurrency: code between two `await`s is atomic, and every hazard is about
what happens during an `await`, in a child process, or across a crash.

### Modelled

**Workflow graph runtime and topology** (`src/skill/workflow-graph-runtime.ts`,
`src/skill/workflow-topology.ts`). *State*: none of its own; a run state is the current
node, its status, the retry counters and the transition history. *Operations*: validate a
graph, start, list the available transitions, advance. *Used by*: the MCP service and the
editors of workflows. *Hard*: retry budgets over many loops, routes without a default,
waits with and without a resume route, cycles. *Correct when*: a run is an unbroken walk of
its graph, its retry counters are those of its history and within budget, and its status is
that of its node.

**MCP hosted workflow runs** (`src/codex-workflow/service.ts`, `mcp.ts`). *State*: one JSON
file per run, which pins the graph it was prepared from; in memory a promise chain
(`updateQueue`). *Operations*: `prepareRun`, `getRun`, `advanceRun`, `cancelRun`. *Interacts
with*: the canonical graphs, which others edit, and hosts that decide on replies they
received earlier. *Hard*: lost replies and repeated requests, several hosts on one run,
writes that fail, crashes between computing and renaming, edits under a run. *Correct when*:
stored runs are sound walks, what a reply said stays true, a final run stays exactly as it
was, ids are not shared, updates do not interleave and the chain always moves on.

**AI worker run lifecycle** (`src/product/store.ts`, `hermes.ts`, `worker-executor.ts`).
*State*: persisted worker and run rows; in memory the handles of the executor's turns, the
runs being stopped by hand, the update queue and the shutdown flag. *Operations*:
`startWorker`, `runInstalledWorkflow`, `sendCommand`, `stopWorker`, `deleteWorker`,
`assignDevice`, the turns' ready, output and completion callbacks, `shutdown`, the repair on
first load. *Interacts with*: the executor, whose processes outlive the runtime; the
runtime server, which calls several operations concurrently. *Hard*: everything is checked,
then awaited, then updated; turns report in any order, late, or never; a shutdown overtakes
calls under way. *Correct when*: a worker never has two open runs, a run that is over stays
untouched, each worker's row agrees with its runs, a run shown as running has someone behind
it, nothing is written after a shutdown, and every turn is told to stop.

**Workflow revisions** (`src/skill/workflow-graph.ts`, `src/product/workflow-graph-edit.ts`).
*State*: `workflow.json`, one immutable file for each revision. *Operations*: edit against the
revision the author saw (`expectedRevisionId`), restore, save. *Interacts with*: the store runs
its edits, restores and merges through its update queue; the command line and the lab service
save into the same directory without it. *Hard*: a save is several awaited writes, none of them
atomic, and another writer, a crash or a failed write can come between any two. *Correct when*:
the revisions form a tree that only grows, what was acknowledged stays in it, and
the current revision descends from it.

**Workflow merge** (`src/product/store.ts`, `src/product/workflow-merge-resolution.ts`,
`src/skill/workflow-merge.ts`). *State*: a proposal bound to one revision, the resolution file
beside the source, the tombstone that hides the source. *Operations*: merge, keep as new,
repeat. *Hard*: three stores written one after the other; a repeat may find any prefix of
them. *Correct when*: a recorded merge is in the history of the canonical workflow, a hidden
source lives on there, and a merge that was reported done has hidden its source.

**Capability providers** (`src/product/capabilities.ts`, `src/product/store.ts`). *State*: the
row of a provider; in memory the promise of a check under way and a generation counter.
*Operations*: check, prepare, refresh, shutdown, repair. *Hard*: a probe takes seconds, outside
the update queue or while holding it, and its answer may be out of date. *Correct
when*: "ready" was the answer of the last check, "checking" has a check behind it, checks asked
for together probe once, and every request ends.

**Lab sessions** (`src/lab-api/service.ts`, `session-store.ts`). *State*: `session.json` with
status and process ids; in memory handles, timers, the active session, a mutation queue.
*Operations*: start, stop, timed stop, retry of the ingest, stages, delete, bootstrap, exit
callbacks, shutdown, repair at start. *Interacts with*: recorder and query processes, which
exit on their own and survive a crash. *Hard*: exit callbacks run outside the queue, a shutdown
moves on while the mutation it cut off goes on too. *Correct when*: no session is left
in a status that nobody works on, every process has an owner who can stop it, a shutdown ends
and leaves nothing running, a restart repairs what a crash left.

### Not modelled, or only touched

| Component | State and operations | Hard behaviour | Correct when | Status |
|---|---|---|---|---|
| Atomic JSON files (`src/io/atomic-json.ts`) | file, backup, temporary files; write, read | crash between any two steps | a reader finds the old or the new version | planned; MCP writes are modelled as atomic renames |
| Product database, history retention (`src/product/sqlite.ts`, `history-retention.ts`) | one SQLite database | - | a write is all or nothing; open runs are kept | one atomic step of `WorkerRuns` |
| Channels (`src/product/channels.ts`, store) | connections, a promise chain for each | cancellation goes around the chain | one operation at a time for each connection, no setup survives its cancellation | planned |
| Cloud synchronisation (`src/product/supabase-control-plane.ts`, store) | session, attempts, mutation tokens | attempts that supersede each other after awaits | no data of an earlier identity is written under a later one | planned |
| Desktop host (`desktop/*.ts`) | update state, relaunch, shutdown deadline | deadlines against late answers | at most one relaunch; one runtime at a time | planned |
| Records and identity (`src/product/seed-state.ts`, `identity.ts`, `contracts.ts`) | plain rows | - | - | partly, as far as they change a worker's row |
| Runtime server, command line, user interface, MCP bridge | none worth a model | - | - | their calls are the environment of the models |
| Learning a workflow (`src/skill/workflow-learning.ts`), package export (`workflow-graph-package.ts`) | - | - | - | not modelled: language-model calls and text; a proposal is data of `WorkflowMerge` |
| Integrations (Composio, ClawHub), extraction, ingest, harness and quality, presentation, build | remote clients, text and batch pipelines | - | - | not modelled: sequential, or the outcome is data |

The hazards of the code, each with its line and the properties about it, are the list
`hazards` of `PROJECT.json`.

## How the models correspond to the code

### WorkflowGraph

A graph is a record of functions over its node and transition ids; a run state is the record
`advanceWorkflowGraph` returns. `ValidGraph` is `validateWorkflowTopology` with its checks on
text removed; reachability and strongly connected components are stated as sets instead of
computed by traversal. `SelectTransition` and `CanAdvance` hold exactly when the code does not
throw; `Traverse` is what it returns. `SoundState` is not in the code: it is what a history
is supposed to mean, and what the proofs show it means.

### McpWorkflowRuns

| Code | Model |
|---|---|
| run files | `disk` |
| `updateQueue` | `queue` (not begun) and `working` (computed, not yet renamed) |
| `prepareRun` up to and after the await of the write | `PrepareRun`, `PersistPrepared` / `FailPrepared` |
| `getRun` | `GetRun`, at any time, outside the queue |
| a host calling `advanceRun` or `cancelRun` | `SendRequest`: decided on `view`, its last reply |
| the queued advance | `StartAdvance` or `RefuseAdvance`, then `PersistUpdate` / `FailUpdate` |
| the queued cancel | `StartCancel` or `AnswerCancel`, then `PersistUpdate` / `FailUpdate` |
| the process ends | `Crash`: everything but `disk`, `view` and `canonical` is lost |
| edit, restore, merge of a canonical graph | `EditCanonical` |

`Reply` lets every reply arrive or be lost. A run record names its revision where the code
stores the whole graph: the graph of a revision never changes. The load and the computation of
an update are one step (nothing else writes a stored run); the write is another, so that
reads, crashes and failures fall in between. The number of requests in transit is not
bounded except by `MaxRequests`. Evidence, summaries and timestamps are left out.

### WorkerRuns

| Code | Model |
|---|---|
| rows of workers, their device, `worker.status`, rows of runs | `workers`, `placed`, `shown`, `runs` |
| `activeHermesRuns` and the processes | `turns`: `handle` is tracked, dropped or lost; `alive`; `asked` (told to stop) |
| `manuallyStoppingHermesRuns` | `stopping` |
| a call that awaits something | `calls`: `at` names the await |
| `updateQueue` of `updateState` | `updates`, run in order by `RunUpdate` |
| `shutdownRequested`, the closed database | `store` |
| `startWorker`, `runInstalledWorkflow` | `BeginStart`, `Provisioned` / `NotProvisioned`, `ApplyStart`, `TurnStarts` / `TurnRefused` / `AbandonTurn`, `ApplyReady` / `ReadyTimesOut` |
| `trackHermesRun`, `trackHermesCommand`, the output observer | `Ready`, `Observed`, `Exits`, then `ApplyResult`, `ApplyObserved` |
| `sendCommand` | `BeginSend` (from its update on), then the steps of a turn |
| `stopWorker` | `BeginStop`, `ProcessesStopped`, `ApplyStop` |
| `deleteWorker` | `BeginDelete`, `Disconnected`, `ApplyDelete` |
| `assignDevice`, installing and removing workflows | `AssignDevice`, `ChangeInstalled` |
| `normalizeState` at the end of every written update | `Show` |
| `shutdown` | `RequestShutdown`, `CloseStore` |
| crash, or end, and first load (`repairStaleRuntimeState`) | `Restart` |

An update is atomic: the code applies a synchronous function to a copy of the state and writes
it in one SQLite transaction; one that throws or cannot be written changes nothing
(`DropUpdate`), and where the code catches that error it asks for a second update, with a
failed result (`Rescued`: the `.catch` of `trackHermesRun` and `trackHermesCommand`). What an update waits for in the queue is modelled; what is awaited before an
update that does not look at it again (`installWorkflow` copying files) is not. Left out: which
device a worker has, the device's own status, `createWorker`, installed workflow rows, events
and commands. Where one of these could refuse a start, `MayThrow` lets the update throw.
`Signalled` lets a search for a profile's processes find all of them or fail, because
`stopWorkerProcesses` catches and ignores its errors in those places.

### WorkflowRevisions and WorkflowMerge

| Code | Model |
|---|---|
| `workflow.json`; `.workflow-revisions/` | `head`; `files`, by revision number and content |
| a call of `persistWorkflowGraphDraft`, `materializeWorkflowGraphArtifacts` | an entry of `writers`; its `at` names the await |
| `persistProductWorkflowGraphEdit`, `restoreWorkflowGraphRevision`, saves without `expectedRevisionId` | `BeginEdit`, `BeginRestore`, `BeginSave` |
| the second reading of `workflow.json`, `resolveRevision` | `Resolve` or `Refuse` |
| `writeImmutableRevision` (flag `wx`) | `CreateRevision`, `FillRevision`, or `Refuse` |
| `writeFile` of `workflow.json` | `TruncateHead`, `FillHead` |
| `WORKFLOW.md`, the save of the state, the reply | `Acknowledge` |
| crash, failed write, refusal by a shutdown | `Interrupt`, at any await |
| `resolveProductWorkflowMergeBase` | `Applied`, `Ready` |
| `applyWorkflowMergeProposal` | `BeginMerge` (then the steps of a save), `ResumeMerge`, `RepeatMerge` |
| `keepWorkflowAsNew` | `BeginKeep` |
| `writeProductWorkflowMergeResolution` | `TruncateResolution`, `FillResolution` |
| `finalizeProductWorkflowMergeState`, the save of the state | `SaveDecision` |

A writer is a queue of saves: `Product` is the update queue of the store, which also runs the
merges; the other writers are processes without it. Content is its hash, assumed free of
collisions; the creation time of a revision is one of a few stamps, because two attempts at
the same content are different files only by their time. `writeFile` empties a file and then
fills it; two that overlap on `workflow.json` may leave a mixture (`Garbled`).

The hash covers the workflow id, so each content belongs to one workflow (`WorkflowOf`). An edit
or a restore stays in the workflow; a save without `expectedRevisionId` may bring the graph of
another one into the directory, which then starts again at revision 1 without a predecessor
(`ResolveRevision`), and a restore is refused while revision files of both are there
(`BeginRestore`). `acknowledged`, `overlapped` and `abandoned` are history variables: what callers
were told, that saves came between each other's steps, and the revisions that the save of another
workflow left behind.

### CapabilityChecks

| Code | Model |
|---|---|
| status and `lastSuccessAt` of the row | `row` |
| `capabilityOperationGeneration`, `capabilityCheckPromises` | `generation`, `promise` |
| a call that awaits something | `operation`: `at` names the await |
| `updateQueue` | `queue`, in order; a refresh keeps its turn from `BeginList` to `EndList` |
| `checkCapabilityProvider` | `BeginCheck` or `JoinCheck`, `Mark`, `Probe` / `ProbeThrows`, `Write` |
| `prepareCapabilityProvider` | `BeginPrepare`, `Prepared` / `PrepareFails`, `Write` |
| `refreshCapabilityProviders` | `BeginRefresh`, `BeginList`, `EndList` |
| `shutdown`, `assertStoreAcceptingOperations` | `RequestShutdown`, `Refuse` |
| crash, end; `repairStaleRuntimeState` | `Crash`, `Exit`; `Restart` |

One provider is enough: generations, promises and rows of providers are apart, and what they
share, the queue, is only waited for. `answered`, `shown` and `abandoned` are history variables.

### LabSessions

| Code | Model |
|---|---|
| `session.json`: status, `requestedStopAt`, process ids, ingested data, a warning | `disk` |
| `runtimeBySession`, `activeSessionId` | `runtime`, `active` |
| `mutationQueue` | `op`, the mutation under way; `due` and `given`, the timer stops and marks that wait |
| `startRecording` | `BeginStart`, `Create`, `Spawn` / `SpawnFails`, `RecordPid`, `RecorderReady` / `RecorderNotReady`, `Activate`; on an error `StopFailedStart`, `RecordFailure` |
| `stopRecording`, the timer | `BeginStop`; `TimerFires`, `BeginTimedStop`; then `RecordStop`, `Halt`, `Release` |
| `runIngestForSession`, `retryIngest` | `Boot`, `SpawnQuery`, `RecordQueryPid`, `QueryReady`, `Analyse`, `Ingest`, `Finish`, `Close`, and their failures |
| the later stages (`runSessionStage`) | `BeginStage`, `RecordStage`, `StageEnds` |
| `deleteSession`, `scheduleTimedStop`, `performRecorderBootstrap` | `BeginDelete`, `BeginSchedule`, `BeginBootstrap` and what follows them |
| `handleUnexpectedExit`, outside the queue | `ProcessExits`, `ReadForExit`, `WriteForExit` |
| `shutdown` | `RequestShutdown`, `ListSessions`, `FinalizeSession`, `FinishShutdown` |
| crash, end; `repairStaleSessions` | `Crash`, `Exit`; `Restart` |

A mutation waiting in the queue has read nothing, so users ask when it is their turn; only
what timers queued is kept. After a shutdown was requested the queue goes on to the shutdown's
own entry while the mutation it cut off continues: `op` steps interleave with `FinalizeSession`.
The four statuses of later stages are one, `processing`. A session may have been recorded and
ingested before the service started (`EarlierRow`).

Every write of a mutation can fail, and leaves the file as it was, since it is replaced by a
rename: `CreateFails`, `StartWriteFails`, `IngestWriteFails` and `StageWriteFails` where a
`catch` answers it, `WriteThrows` and `RequestThrows` where the mutation ends with the error, which
for a timed stop goes on to the mark of `autoStop.catch` (`given`, `BeginMark`), and
`WriteForExitFails` in the exit callback, which swallows it.

A process is in `alive` while a handle or a pid on disk leads to it, and in `stray` when it runs
and nothing does: a spawn that a shutdown gave up and that comes up later (`SpawnFailed`), any
process that ran, or was being started, without its pid on disk when the service ended (`Vanish`), a
query process without a pid on disk whose session was deleted or ingested again (`Forget`,
`SpawnQuery`), and a recorder of the user. A stray recorder still answers on the recorder's port
(`Healthy`), so the next start reuses it.

`disturbed` and `unsaved` are history variables: the sessions that code outside the queue wrote
or unseated while something else was under way, and the writes that failed and that no later
write of the row made good. Left out: write errors while a shutdown finalizes or a restart
repairs, what strays do (nobody waits for their exit), recorders of the user that come and go,
and the order in which a restart repairs sessions.

## What the runs check

| Run | Instance | Shows |
|---|---|---|
| `mcp_runs` | 2 hosts, 1 run, 2 revisions, 4 requests | stored runs are walks (`RunsAreWalks`), replies stay true (`ViewsArePast`), an open run that no advance can move has spent its retries (`OnlySpentRunsAreStuck`), updates are serial (`UpdateFollowsDisk`), a stale advance passes the guard only when the run came back to the node (`StaleAdvanceOnlyAfterLoop`), and the service implements `RunLedger` |
| `mcp_two_runs` | 2 hosts, 2 runs, 2 requests, fairness | the refinement across runs that share the queue; `QueueDrains` |
| `mcp_guard` | 1 host | *violation*: see the first finding |
| `worker_runs` | 1 worker, 2 runs, 2 turns, 2 calls at once, 3 in all, 1 fault | one open run for each worker (`OneOpenRun`), rows agree with runs (`ShownMatchesRuns`), a shutdown reaches every turn (`ShutdownStopsTurns`), running work has someone behind it (`RunningWorkIsAttended`), every waiting call has its update (`UpdatesHaveCallers`), closed runs stay closed, nothing is written after a shutdown |
| `worker_reports` | 2 workers, 1 run, 2 turns that report session statuses | rows agree with runs and running work is attended under reports in any order and device changes |
| `worker_live` | 1 worker, 2 runs, 1 turn, no fault, fairness | every call returns (`CallsReturn`), a stop ends its run (`StopEndsTheRun`) |
| `worker_delete`, `worker_stop` | 1 worker, 1 run, 1 turn | *violations*: see the findings |
| `workflow_merge` | 2 writers, 2 contents and 1 of another workflow, 2 stamps, 3 revisions, 3 saves, 1 fault | the history is a tree that only grows (`ImplementsTree`), acknowledged saves stay and the current revision descends from them unless the other workflow left them behind (`AcknowledgedSavesLast`), recorded merges are backed by a revision (`MergesAreRecorded`), hidden sources live on, likewise (`HiddenSourcesWereMerged`), a merge reported done has hidden its source unless there was a fault (`ToldMergesAreHidden`) |
| `capabilities` | 3 callers, 3 checks or prepares, 1 shutdown or crash, fairness | checks share one probe (`ChecksAreShared`), "checking" is attended (`CheckingIsAttended`), "ready" is earned (`ReadyIsEarned`), late outcomes are dropped (`LatestOutcomeStays`), every request ends (`RequestsEnd`) |
| `lab_sessions` | 2 sessions, new or finished earlier, 2 mutations, 1 fault, fairness | no session is stuck unless its last write failed (`SessionsSettle`), processes have owners (`ProcessesAreOwned`), a shutdown ends (`ShutdownCompletes`) and leaves nothing (`ShutdownLeavesNothing`), a restart repairs (`RestartRepairs`), timed recordings end (`TimedRecordingsEnd`) |
| `lab_shutdown` | 1 session, 1 mutation, 1 fault | *violation*: see the fourth finding |

### Bounds, and why they are enough

- `MaxRequests` counts the advance and cancel calls of the MCP hosts. Four let a run loop back
  through a retry, be advanced from an outdated view, and be cancelled, with requests of both
  hosts queued. Revision `v1` has a decision, an automatic route, a wait and a retry bounded
  by one; `v2` a self-loop that may be taken once, which leaves the `currentNodeId` guard blind, and
  a node that a run can enter twice and leave once, where it is then stuck.
- `MaxCalls` counts the calls users make to the store, a shutdown included. Three with two at
  once give a start racing a start, a start, a stop and a command, a delete racing a start, and
  a call under way at a shutdown.
- `RunIdLeft` lets a start begin only while a run id is left for it, and a turn starts only
  while one is left in `Turns`. The ids of the code are random and never run out.
- `MaxFaults` counts crashes and failed writes and, in `LabSessions`, also failed spawns, processes
  that die and probes that fail; one is enough for a state that was stored and never completed,
  and for the late exits after it. Not counted there are the failure to write down another failure
  and that of an exit callback's write, so they come on top of the one. The theorems hold for
  every bound.
- `MaxSaves` and `MaxNumber` count saves and revisions. Three saves of two writers give an edit
  and a merge that overlap a save of the other process, and a merge that is repeated after it
  failed; with two contents and two stamps a save can collide with a revision file that an
  interrupted one left; the third content, of another workflow, can be saved at any point.
- `MaxBegun` counts the checks and prepares between two restarts, joins and refreshes are not
  bounded. Three with three callers give a check overtaken by a prepare and that by a check,
  while a refresh holds the queue. `MaxStops` lets the service stop once and come up again.
- `MaxOps` counts what users ask of the lab service, timed stops not included. Two give a
  recording that is started, stopped by hand or by its timer, and ingested, retried, processed or
  deleted, or followed by one of the other session, and two of these on a session that was finished
  earlier; two sessions let an exit callback of one hit the other.
- What turns report is divided between the runs: `plain` (no session status) in `worker_runs` and
  `worker_live`, where failed results come from turns that are refused and from updates that are
  rescued; `failed` and the session statuses `running`, `waiting_for_user` and `succeeded` in
  `worker_reports`. The code treats `blocked` like `waiting_for_user` in everything these
  properties see but the label, so no run uses it.
- Symmetry is used over identities that are only compared, and only in runs without
  liveness properties.
- Deadlock is checked in the MCP runs. It is not checked in the runs of `WorkerRuns`: a
  store whose users have used up their calls, with no turn alive, is at rest; so are a version
  history and a lab service whose users have used up theirs. It is checked in `capabilities`.

### Fairness

`McpWorkflowRuns!FairSpec` assumes that a queued update begins once the one before it
settled, and that file system calls return: the event loop runs every ready callback.
`WorkerRuns!FairSpec` assumes that the update queue moves and that whatever a call awaits
settles: the executor answers or throws, the 750 ms timer of `settleWithin` fires, processes
are signalled, channel disconnects return. Each is weak fairness of what one continuation can
do next. Nothing is assumed of users, of turns (one may run for ever), of a shutdown or of
a restart. `CapabilityChecks!Spec` assumes weak fairness of each caller's next step: the probes
have deadlines and the update queue goes on. `LabSessions!QueueFairness` assumes the same of the
mutation under way and of timers, while the service runs; `ShutdownFairness` only that the steps
of the shutdown itself, and a recorder bootstrap it waits for, go on: the point of
`ShutdownCompletes` is that nothing is asked of the mutation that was cut off.

## Findings

1. `AdvanceActsOnSeenRun` (`mcp_guard`): the tool description calls `currentNodeId` "an
   optimistic concurrency guard" (`src/codex-workflow/mcp.ts:130`), but a request that is
   repeated over a transition back to the same node, or that is older than a loop, is applied
   to a run its host has not seen. `StaleAdvanceOnlyAfterLoop` is what does hold.
2. `OpenRunsHaveWorkers` (`worker_delete`): `deleteWorker` checks for an open run, then awaits
   channel disconnects, and its update does not check again. A start in between leaves an open
   run, and its turn, without a worker, and `stopWorker` can no longer reach it.
3. `StopReachesEveryTurn` (`worker_stop`): `stopWorker` does not see a turn whose `startTurn`
   is still pending. The turn is tracked later, for a run that is paused, and goes on.

4. `ShutdownKeepsFinished` (`lab_shutdown`): `runtime?.recordingProcess !== null`
   (`src/lab-api/service.ts:755`) holds for a session without a runtime entry, hence for every
   session of an earlier lifetime of the service. A session that had failed is relabelled
   "interrupted" by the next shutdown, with the warning "lab-api shut down while the session was
   still in progress" (`service.ts:128`).

Observations that the properties have to except, each visible in the definition named:

- `RepeatMerge`: after a failure between the resolution file and the save of the state,
  repeating the merge answers success (`src/product/store.ts:1618`) and never hides the source,
  while the UI says "Merged. The source card was removed" (`ui/src/App.tsx:4509`).
- `Refuse` of `WorkflowRevisions`: an interrupted save can leave a revision file that makes the
  same edit, tried again later, fail as a change of an immutable revision.
- `overlapped`: `expectedRevisionId` does not protect against another process.
- `abandoned` of `WorkflowRevisions`: a save of another workflow into the directory, which needs
  no `expectedRevisionId` (`src/cli/commands/manage-workflow-graph.ts:200`,
  `src/cli/commands/learn-workflow-graph.ts:188`), starts a second history at revision 1
  (`src/skill/workflow-graph.ts:1126`). From `workflow.json` nothing leads to the first any more, and
  revisions can be neither listed nor restored while both are there.
- `abandoned` of `CapabilityChecks`: a prepare that throws has already made a check out of date, whose outcome is
  dropped; the row says "checking" until the next check or restart.
- A probe that throws keeps the old `lastSuccessAt`, so a check that is interrupted later is
  repaired to "ready" by the answer before it; `ReadyIsEarned` holds because the last *answer*
  said so.
- `disturbed`: an exit callback may overwrite the row of a mutation under way, release the
  active session of another recording, or bring a deleted session back.
- `SpawnQueryFails`: a session whose query process cannot be started stays in
  "booting-query-mode" until a retry or a restart.
- `stray`: a shutdown that interrupts a spawn may lose the handle of a recorder or query process
  that comes up, and no restart looks for a process that was running without its pid on disk.
- `unsaved`: a stop whose write fails (`src/lab-api/service.ts:1585`, `1614`) leaves the session in
  "stopping" with the seat of the active session and without its recorder; later stops throw, and
  nothing can be recorded until a restart. A timed stop is marked "failed", with the seat kept all
  the same. When the pid of the query process cannot be written (`service.ts:1670`, before the `try`
  whose `finally` stops it), the process runs on.
- `given`: the mark of a timed stop that failed is queued like a mutation, and marks whatever
  unfinished recording the session is in by then.
- `Migrated`: a retry that fails, of a session that once was interrupted, is relabelled
  "interrupted" at the next start.

## What is proved

Assumptions: `GraphsAreValid` (every revision's graph passes `ValidGraph`; the code validates a
graph before it is written and when it is loaded), `ConstantsOK` (a turn reports one of the
kinds of results the code knows), `ProductIsAWriter` (the store is one of the writers),
`BoundsOK` (bounds are natural numbers) and, in every system, that the placeholders are not values
(that `NoTurn`, say, is no turn: TLC's model values are none).
The sets of hosts, ids, workflows, revisions, workers, runs, turns, calls, writers, contents,
stamps and callers are arbitrary, infinite ones included.

**The hosted runs** (`WorkflowGraphProofs`, `McpWorkflowRunsProofs`)

- `WorkflowGraphProofs`: `StartSound` and `TraverseSound`: starting yields a sound state,
  and traversing an available transition within its budget keeps it sound, for every graph.
- `TypeCorrect`: `TypeOK` of `McpWorkflowRuns`.
- `StoredRunsAreWalks`, `RepliesAreDurable`, `UpdatesAreSerial`:
  `RunsAreWalks`, `ViewsArePast`, `UpdateFollowsDisk`.
- `StaleAdvancesNeedALoop`: `StaleAdvanceOnlyAfterLoop`.
- `RefinesLedger`: the specification implies `RunLedger!Spec` under the mapping `LedgerView`.
- `GuardIsExactWithoutLoops`: if the nodes of every graph can be numbered so that transitions go
  up (`RisesBy`), `AdvanceActsOnSeenRun` holds. The run `mcp_guard` refutes it for graphs with
  loops, so loops are exactly what the `currentNodeId` guard cannot see through.
- `StuckRunsAreSpent`: `OnlySpentRunsAreStuck`: an open run that no request can advance is at an open wait, or every route
  from its node is a retry that its history has taken `maxAttempts` times. No other run is
  stranded, because `validateWorkflowTopology` demands routes of every other node.

None of the first three invariants is inductive alone. A write keeps the stored run a
walk and the replies true only because what is being written is one legal step *of the record
still on disk*; that stays so only because nothing else writes that file: advances and cancels
are queued, and a prepare writes an id nobody else has. Hence the inductive invariant `Inv` is
the conjunction of `TypeOK`, `RunsAreWalks`, `ViewsArePast`, `PreparedRunsAreFresh` and
`UpdateFollowsDisk`. (`PreparedRunsAreFresh` is no promise of the service: it rests on
`FreshRunId`, the assumption that `randomUUID` never draws an id twice. TLC checks the other four
in `mcp_runs`.) `InvInit` and `InvStep` show it
inductive, with one step for each action; each action that writes goes through `WriteKeeps`.
`LedgerStep` maps every step of a state in `Inv` to a step of `RunLedger` or a stutter.
For requests decided on old views `Inv` is not enough: `RequestsSawThePast` adds that a request
in transit has seen no more of its run than was stored, and that the node it names is where the
run was then (`NodeAfter`). A request keeps that standing while others write, since histories
only grow (`StoredRunsGrow`, `NodesStay`); it starts with it since a view ends where its history
ends (`ViewsAreWalks`, because every reply shows the file: `RepliesShowTheFile`). The guard, met
when the update begins, then gives the theorem, and the file stands still until the write.
Without loops a run never comes back to a node (`Risen`), so the request saw the end.

**The worker runs** (`WorkerRunsProofs`, `WorkerAttendanceProofs`)

- `TypesCorrect`, `EveryCallerIsServed`: `TypeOK` and `UpdatesHaveCallers`.
- `WorkersHaveOneOpenRun`, `ClosedRunsAreFinal`, `RowsShowTheRuns`: `OneOpenRun`,
  `ClosedRunsStayClosed`, `ShownMatchesRuns`.
- `ShutdownWritesNothing`, `ShutdownReachesTurns`: `NoWriteAfterShutdown`, `ShutdownStopsTurns`.
- `RunningWorkStaysAttended`: `RunningWorkIsAttended`.

An update in the queue dereferences the call that waits for it and the run it reports on, so
the types are not inductive alone: `TypeInv` adds that whoever names a run names one that was
created (`NamedRunsExist`) and that updates and waiting calls belong together
(`UpdatesHaveCallers`). `QueueStep` reduces every step to one of four things that can happen to
the queue, and `RowsStay` says what a step may do to a row that exists; `ClosedRunsAreFinal`
is a part of it. One open run follows because a row is created only for a worker without an
open one (`RunsCreated`), by the check that the update repeats. `ShowMatches` reduces
`RowsShowTheRuns` to what each write proposes to show for a worker *without* an open run, which
the normalisation does not correct; the repair after a crash also needs that there is at most
one open run. The shutdown needs `HandlesAreTold`: a handle is dropped only together with
telling its turn to stop, and none is tracked once the shutdown was requested (`Fates` has one
step for each action).

`RunningWorkIsAttended` speaks of four kinds of attendance, and a step that takes one away must
leave another. The inductive invariant is `WorkIsAttended` (with `TypeInv` and
`AtMostOneOpenRun`): a running workflow run has a call about to start its turn, a turn that
stands behind it (`StandsBehind`: tracked and alive, or ended with a result that leaves the run
running), a queued result that will *settle* it (`Settles`), or a stop that marked it. It says
more than the property where a result waits in the queue: a queued result that would leave the
run running does not count, since applying it changes nothing; the turn that gave it does. The
last step of a stop removes the mark of the run that the stop was asked for and pauses the run
that is open *then*; that these are the same run needs `StopsAreKnown` (a stop marks a run of its
worker, and its update carries that run) and that there is one open run. `CallsAttend`,
`TurnsAttend`, `RequestsAttend` and `UpdatesAttend` treat the four kinds of steps;
`StaysAttended` disposes of those that disturb none of it.

**Revisions and merges** (`WorkflowMergeProofs`)

- `MergeTypesAreCorrect`, `DecisionsAreBacked`, `ReportsAreTrue`: `MergeTypeOK`,
  `MergesAreRecorded`, `ToldMergesAreHidden`.
- `HistoryIsATree`: the specification, merges included, implies `RevisionTree!Spec`.
- `AcknowledgedSavesAreNotLost`, `HiddenSourcesLiveOn`: `AcknowledgedSavesLast`,
  `HiddenSourcesWereMerged`.

That the history is a tree needs to be known of every save under way, not only of the files:
`HistoryInv` says that a whole revision file holds the revision of its name and continues the
chain of its predecessors, that a readable `workflow.json` is one of them, that the graph of each
writer continues the chain (`Sound`), and that a file being filled has one writer
(`CreatorsOK`, from the exclusive create). `HistoryKept` and `HistoryWritten` carry it over any
step that keeps, or adds to, the whole files (`Keeps`); `RevisionStepHistory` has one case for
each action. A merge adds `MergeServes`: from the moment its graph is resolved the save under
way serves the proposal, so when the decision is written the revision is there.
`ReportsAreTrue` needs that a recorded merge, without faults, is either about to be saved or
was (`ToldOK`). `StepTree` maps each step to a step of the tree or a stutter.

That the current revision descends from every acknowledged one speaks of chains of any length.
`Ancestry(i)` is therefore stated without recursion, as what lies in every set that holds `i` and
is closed under parents, and two facts replace the induction: the ancestry of a parent is part of
that of its child (`LineageOfChild`), and ancestries only grow (`LineageGrows`). The invariant
`LineageInv` adds to the above what is known of every save *under way* as long as saves did not
overlap: its graph is the current revision, a child of it or of another workflow (`Succeeds`),
and while `workflow.json` is being rewritten, and empty, nobody else is saving and the graph to
come descends from everything saved, but for what a save of another workflow left behind
(`Alone`, `Behind`). That only a save without an author who saw a revision changes the workflow
is `KinOK`. `FollowsOK` and `AcknowledgedOK` carry the revision that the author saw from the
check to the acknowledgement; `HiddenOK` ties the tombstone to an acknowledged merged revision.

**Capability checks** (`CapabilityChecksProofs`)

- `TypesAreCorrect`, `OneCheckAtATime`, `ReadinessIsEarned`, `ChecksAreAttended`,
  `LateOutcomesAreDropped`: `CapabilityTypeOK`, `ChecksAreShared`, `ReadyIsEarned`,
  `CheckingIsAttended`, `LatestOutcomeStays`.

`TypeInv` adds that whoever has a place in the queue has one, and an operation that waits for
it. `Shared` says that every check under way is the one of the promise, so there is one;
`Earned` relates what each operation is about to write to the last answer (`Honest`), with the
`lastSuccessAt` that the repair relies on; `Attended` needs generations: the operation of the
current generation is the one that will take "checking" away.

**Lab sessions** (`LabSessionsProofs`)

- `LabTypesAreCorrect`, `RestartsRepair`: `TypeOK`, `RestartRepairs`.
- `ProcessesStayOwned`, `ShutdownsLeaveNothing`, `SessionsStaySettled`: `ProcessesAreOwned`,
  `ShutdownLeavesNothing`, `SessionsSettle`.

Each property holds when the mutation queue is idle or the service closed; the invariant has to
say what holds in between. `SessionInv(s)` does so for one session: a session without a row has
no process (`FreshOK`); a recorder or query process that runs has its handle, its pid on disk
unless that is still to be written or could not be, and a mutation that still knows of it
(`RecorderOK`, `QueryOK`; a query process whose pid could not be written outlives its mutation);
what the mutation holds in its copy of the row at each of its points (`PointsOK`); what the
shutdown has still to stop (`ClosingOK`); and who will settle an unsettled row (`SettledOK`). A
session is excused once code outside the queue has written its row or taken its seat
(`disturbed`), and its row from being settled while its last write failed (`Marked`, the members
of `unsaved`). `LabInv` adds the types, the seat of the active session and the bootstrap
recorder. Almost every step concerns one session: for the others `UntouchedKeeps` shows once that
a step that leaves a session untouched keeps its invariant, so each action is argued for its own
session only (`StartKeeps`, `StopKeeps`, `IngestKeeps`, `OtherKeeps`, `TimerKeeps`, `ExitKeeps`,
`ShutdownKeeps`, ...); `VanishKeeps` and `RestartKeeps` treat all sessions at once.

**Model-checked only**: the liveness properties `QueueDrains`, `CallsReturn`, `StopEndsTheRun`,
`ShutdownCompletes`, `TimedRecordingsEnd` and `RequestsEnd`, since fairness and `ENABLED` are
beyond the prover. Every invariant and every action property that a passing run checks is
proved.

## Plan

In this order; each entry names the module, what it composes with, and its main questions.

1. `WorkerRunsProofs`: what is left of the two disagreements. `StopReachesEveryTurn` fails for a
   turn that is started after its run was stopped, and `OpenRunsHaveWorkers` for a start that a
   deletion overtakes; prove that these are the only ways, as `GuardIsExactWithoutLoops` does
   for the guard.
2. An abstract specification of the runs of a worker, opened one at a time and closed for good,
   and of the life of a lab session; `WorkerRuns` and `LabSessions` shown to implement them.
3. `WorkflowGraph`, over all small graphs: can every open run of a valid graph still finish?
   (`StuckRunsAreSpent` says where a run can stand still; a cycle without an exit can also keep
   it going until its retries are spent.)
4. `AtomicFile`: temporary file, backup and rename with crashes and failing steps, refining a
   register that holds the old or the new value; it justifies the atomic writes of
   `McpWorkflowRuns`. Theorem: a reader finds a valid version.
5. `ChannelSetup`: the chain for each connection and cancellations, composed with the
   deletion of `WorkerRuns`.
6. `CloudSync`: attempts, tokens, and the change of identity with turns under way.
7. `DesktopHost`: update, relaunch and the shutdown deadline.
8. `McpWorkflowRuns` taking its canonical graphs from `WorkflowRevisions`, whose torn
   `workflow.json` a prepare then has to refuse.

The larger instances are near the size that is practical; a new module brings one or two
small runs of its own.
