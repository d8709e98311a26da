---------------------------- MODULE McpWorkflowRuns ----------------------------
(***************************************************************************)
(* The service that hosts workflow runs for MCP clients                    *)
(* (src/src/codex-workflow/service.ts): every run is a JSON file that pins *)
(* the graph revision it was prepared from. prepareRun and getRun run      *)
(* freely; advanceRun and cancelRun go through one promise chain           *)
(* (enqueueUpdate), each of them a load of the file, a computation, and a  *)
(* write-then-rename. Several hosts act on what they last saw; replies may *)
(* be lost and requests sent twice; the canonical graph may be edited      *)
(* under a run; a write may fail; the runtime process may crash and        *)
(* restart at any point, which forgets everything but the files.           *)
(***************************************************************************)
EXTENDS WorkflowGraph, SequencesExt

CONSTANTS
    Hosts,          \* MCP clients
    RunIds,         \* the ids createId can draw
    Workflows,
    Revisions,      \* the revisions the canonical graphs go through
    GraphOf,        \* revision -> its graph
    WorkflowOf,     \* revision -> the workflow it belongs to
    NoRun,          \* no file with that run id
    NoWork,         \* nothing in flight
    NoGraph,        \* the workflow has no valid canonical graph
    MaxRequests     \* bound: update requests the hosts send altogether

ASSUME GraphsAreValid ==
    /\ \A v \in Revisions : ValidGraph(GraphOf[v])
    /\ WorkflowOf \in [Revisions -> Workflows]
    /\ MaxRequests \in Nat

AllNodes       == UNION {GraphOf[v].nodes : v \in Revisions}
AllTransitions == UNION {GraphOf[v].trans : v \in Revisions}

RecordsOf(v) ==
    [revision : {v},
     status   : RunStatuses \cup {"cancelled"},
     state    : RunStates(GraphOf[v]),
     results  : Seq([node : GraphOf[v].nodes, id : GraphOf[v].trans])]

IsRecord(x) == \E v \in Revisions : x \in RecordsOf(v)

ASSUME PlaceholdersAreNotValues ==
    /\ \A v \in Revisions : NoRun \notin RecordsOf(v)
    /\ NoRun \notin [revision : Revisions, phase : {"open", "finished", "cancelled"},
                     path : Seq(AllTransitions)]
    /\ NoGraph \notin Revisions

VARIABLES
    canonical,   \* workflow -> the revision in its workflow.json
    disk,        \* run id -> the record in its file
    queue,       \* updateQueue: the requests not yet begun
    working,     \* the update being written: its request and the new record
    preparing,   \* host -> the run its prepareRun is about to write
    view,        \* host -> run id -> the record its last reply showed
    sent         \* update requests sent so far

vars == <<canonical, disk, queue, working, preparing, view, sent>>

Final(status) == status \in Outcomes \cup {"cancelled"}

\* An advance or cancel call. "seen" is a history variable: how long the run's
\* history was when the host decided on the call.
Requests ==
    [kind : {"advance", "cancel"}, host : Hosts, run : RunIds, node : AllNodes,
     choice : AllTransitions \cup {NoChoice}, seen : Nat]

TypeOK ==
    /\ canonical \in [Workflows -> Revisions \cup {NoGraph}]
    /\ disk = [r \in RunIds |-> disk[r]]
    /\ \A r \in RunIds : disk[r] = NoRun \/ IsRecord(disk[r])
    /\ queue \in Seq(Requests)
    /\ working # NoWork =>
          /\ working = [request |-> working.request, updated |-> working.updated]
          /\ working.request \in Requests
          /\ IsRecord(working.updated)
    /\ preparing = [h \in Hosts |-> preparing[h]]
    /\ \A h \in Hosts : preparing[h] # NoWork =>
          /\ preparing[h] = [run |-> preparing[h].run, record |-> preparing[h].record]
          /\ preparing[h].run \in RunIds
          /\ IsRecord(preparing[h].record)
    /\ view = [h \in Hosts |-> view[h]]
    /\ \A h \in Hosts : view[h] = [r \in RunIds |-> view[h][r]]
    /\ \A h \in Hosts, r \in RunIds : view[h][r] = NoRun \/ IsRecord(view[h][r])
    /\ sent \in 0 .. MaxRequests

Init ==
    /\ canonical \in [Workflows -> Revisions \cup {NoGraph}]
    /\ \A w \in Workflows : canonical[w] # NoGraph => WorkflowOf[canonical[w]] = w
    /\ disk = [r \in RunIds |-> NoRun]
    /\ queue = << >>
    /\ working = NoWork
    /\ preparing = [h \in Hosts |-> NoWork]
    /\ view = [h \in Hosts |-> [r \in RunIds |-> NoRun]]
    /\ sent = 0

\* The canonical graph of a workflow is edited, restored or merged elsewhere.
EditCanonical(w, v) ==
    /\ WorkflowOf[v] = w
    /\ canonical' = [canonical EXCEPT ![w] = v]
    /\ UNCHANGED <<disk, queue, working, preparing, view, sent>>

\* The run view a reply carries reaches host h, or the reply is lost.
Reply(h, r, record) ==
    view' \in {view, [view EXCEPT ![h][r] = record]}

----------------------------------------------------------------------------
(* prepareRun: not queued. *)

\* Mutant: the record is stored before the run is started.
NewRecordUnstarted(v) ==
    [revision |-> v, status |-> "prepared",
     state    |-> StartWorkflowGraph(GraphOf[v]), results  |-> << >>]

NewRecord(v) ==
    [revision |-> v,
     status   |-> StartWorkflowGraph(GraphOf[v]).status,
     state    |-> StartWorkflowGraph(GraphOf[v]),
     results  |-> << >>]

\* createId draws an id that belongs to no run: an assumption about randomUUID.
FreshRunId(r) ==
    /\ disk[r] = NoRun
    /\ \A h \in Hosts : preparing[h] # NoWork => preparing[h].run # r

\* fetchWorkflow, the revision check and createId, up to the await of persistRun.
\* The host may name the revision it expects; a different one is refused, so an
\* accepted call with an expectation is a call on the revision it named.
PrepareRun(h, w, r) ==
    /\ preparing[h] = NoWork
    /\ canonical[w] # NoGraph
    /\ FreshRunId(r)
    /\ preparing' = [preparing EXCEPT ![h] =
                        [run |-> r, record |-> NewRecord(canonical[w])]]
    /\ UNCHANGED <<canonical, disk, queue, working, view, sent>>

PersistPrepared(h) ==
    /\ preparing[h] # NoWork
    /\ disk' = [disk EXCEPT ![preparing[h].run] = preparing[h].record]
    /\ preparing' = [preparing EXCEPT ![h] = NoWork]
    /\ Reply(h, preparing[h].run, preparing[h].record)
    /\ UNCHANGED <<canonical, queue, working, sent>>

FailPrepared(h) ==
    /\ preparing[h] # NoWork
    /\ preparing' = [preparing EXCEPT ![h] = NoWork]
    /\ UNCHANGED <<canonical, disk, queue, working, view, sent>>

\* getRun reads the file, whatever the update queue is doing.
GetRun(h, r) ==
    /\ disk[r] # NoRun
    /\ view' = [view EXCEPT ![h][r] = disk[r]]
    /\ UNCHANGED <<canonical, disk, queue, working, preparing, sent>>

----------------------------------------------------------------------------
(* advanceRun and cancelRun: queued. *)

\* A host decides on a call from what it last saw, possibly long ago, possibly
\* while an earlier call of its own is still pending.
SendRequest(h, r, kind, choice) ==
    /\ view[h][r] # NoRun
    /\ sent < MaxRequests
    /\ choice \in AvailableTransitions(GraphOf[view[h][r].revision], view[h][r].state)
                      \cup {NoChoice}
    /\ kind = "cancel" => choice = NoChoice
    /\ queue' = Append(queue, [kind   |-> kind, host |-> h, run |-> r,
                               node   |-> view[h][r].state.node,
                               choice |-> choice,
                               seen   |-> Len(view[h][r].state.history)])
    /\ sent' = sent + 1
    /\ UNCHANGED <<canonical, disk, working, preparing, view>>

\* enqueueUpdate: the next request begins when the one before it has settled.
Begins(q) ==
    /\ working = NoWork
    /\ queue # << >>
    /\ q = Head(queue)
    /\ queue' = Tail(queue)

\* Mutant: assertRunCanAdvance is left out.
AcceptsFinal(record, q) ==
    /\ record # NoRun
    /\ record.state.node = q.node
    /\ CanAdvance(GraphOf[record.revision], record.state, q.choice)

\* Mutant: the currentNodeId guard is left out.
AcceptsAnyNode(record, q) ==
    /\ record # NoRun
    /\ ~Final(record.status)
    /\ CanAdvance(GraphOf[record.revision], record.state, q.choice)

\* loadRun, assertRunCanAdvance, the currentNodeId guard and advanceWorkflowGraph.
Accepts(record, q) ==
    /\ record # NoRun
    /\ ~Final(record.status)
    /\ record.state.node = q.node
    /\ CanAdvance(GraphOf[record.revision], record.state, q.choice)

Advanced(record, t) ==
    LET g    == GraphOf[record.revision]
        next == Traverse(g, record.state, t)
    IN  [revision |-> record.revision,
         status   |-> next.status,
         state    |-> next,
         results  |-> Append(record.results, [node |-> record.state.node, id |-> t])]

StartAdvance ==
    \E q \in {queue[i] : i \in DOMAIN queue} :
        /\ Begins(q)
        /\ q.kind = "advance"
        /\ Accepts(disk[q.run], q)
        /\ \E t \in SelectTransition(GraphOf[disk[q.run].revision],
                                     disk[q.run].state, q.choice) :
              working' = [request |-> q, updated |-> Advanced(disk[q.run], t)]
        /\ UNCHANGED <<canonical, disk, preparing, view, sent>>

\* Mutant: a refused advance stays at the head of the chain.
RefuseAdvanceForever ==
    /\ working = NoWork
    /\ queue # << >>
    /\ Head(queue).kind = "advance"
    /\ ~Accepts(disk[Head(queue).run], Head(queue))
    /\ UNCHANGED vars

RefuseAdvance ==
    \E q \in {queue[i] : i \in DOMAIN queue} :
        /\ Begins(q)
        /\ q.kind = "advance"
        /\ ~Accepts(disk[q.run], q)
        /\ UNCHANGED <<canonical, disk, working, preparing, view, sent>>

\* Mutant: a finished run can be cancelled.
StartCancelAnyway ==
    \E q \in {queue[i] : i \in DOMAIN queue} :
        /\ Begins(q)
        /\ q.kind = "cancel"
        /\ disk[q.run] # NoRun
        /\ working' = [request |-> q,
                       updated |-> [disk[q.run] EXCEPT !.status = "cancelled"]]
        /\ UNCHANGED <<canonical, disk, preparing, view, sent>>

StartCancel ==
    \E q \in {queue[i] : i \in DOMAIN queue} :
        /\ Begins(q)
        /\ q.kind = "cancel"
        /\ disk[q.run] # NoRun
        /\ ~Final(disk[q.run].status)
        /\ working' = [request |-> q,
                       updated |-> [disk[q.run] EXCEPT !.status = "cancelled"]]
        /\ UNCHANGED <<canonical, disk, preparing, view, sent>>

\* Cancelling a run that is already finished or cancelled only reports it.
AnswerCancel ==
    \E q \in {queue[i] : i \in DOMAIN queue} :
        /\ Begins(q)
        /\ q.kind = "cancel"
        /\ disk[q.run] # NoRun
        /\ Final(disk[q.run].status)
        /\ Reply(q.host, q.run, disk[q.run])
        /\ UNCHANGED <<canonical, disk, working, preparing, sent>>

\* persistRun: the rename makes the new record the run's file.
PersistUpdate ==
    /\ working # NoWork
    /\ disk' = [disk EXCEPT ![working.request.run] = working.updated]
    /\ working' = NoWork
    /\ Reply(working.request.host, working.request.run, working.updated)
    /\ UNCHANGED <<canonical, queue, preparing, sent>>

\* The temporary file cannot be written or renamed: the call fails, the chain
\* goes on.
FailUpdate ==
    /\ working # NoWork
    /\ working' = NoWork
    /\ UNCHANGED <<canonical, disk, queue, preparing, view, sent>>

Crash ==
    /\ queue' = << >>
    /\ working' = NoWork
    /\ preparing' = [h \in Hosts |-> NoWork]
    /\ UNCHANGED <<canonical, disk, view, sent>>

Next ==
    \/ \E w \in Workflows, v \in Revisions : EditCanonical(w, v)
    \/ \E h \in Hosts, r \in RunIds :
          \/ \E w \in Workflows : PrepareRun(h, w, r)
          \/ GetRun(h, r)
          \/ \E kind \in {"advance", "cancel"} :
             \E choice \in AllTransitions \cup {NoChoice} :
                SendRequest(h, r, kind, choice)
    \/ \E h \in Hosts : PersistPrepared(h) \/ FailPrepared(h)
    \/ StartAdvance \/ RefuseAdvance \/ StartCancel \/ AnswerCancel
    \/ PersistUpdate \/ FailUpdate
    \/ Crash

Spec == Init /\ [][Next]_vars

\* The event loop runs what is ready: a chained update begins once the one before
\* it has settled, and file system calls return.
FairSpec ==
    /\ Spec
    /\ WF_vars(StartAdvance \/ RefuseAdvance \/ StartCancel \/ AnswerCancel)
    /\ WF_vars(PersistUpdate \/ FailUpdate)

----------------------------------------------------------------------------
(* Properties. *)

GoodRecord(record) ==
    LET g == GraphOf[record.revision]
        s == record.state
    IN  /\ SoundState(g, s)
        /\ \/ record.status = s.status
           \/ record.status = "cancelled" /\ s.status \notin Outcomes
        /\ record.results =
              [i \in DOMAIN s.history |->
                  [node |-> s.history[i].from, id |-> s.history[i].id]]

\* Whatever the hosts, the editor, the file system and crashes do, every stored
\* run is an unbroken walk of the graph it was pinned to, with its retries within
\* budget, one step result per transition, and a status loadRun accepts.
RunsAreWalks == \A r \in RunIds : disk[r] # NoRun => GoodRecord(disk[r])

IsPast(old, new) ==
    /\ old.revision = new.revision
    /\ IsPrefix(old.state.history, new.state.history)
    /\ Final(old.status) => new = old

\* What a reply ever told a host stays true of the stored run: its history is only
\* extended, and a run reported as finished or cancelled stays exactly so, across
\* failed writes and restarts.
ViewsArePast ==
    \A h \in Hosts, r \in RunIds :
        view[h][r] # NoRun => disk[r] # NoRun /\ IsPast(view[h][r], disk[r])

\* A run being prepared has no file and no second writer.
PreparedRunsAreFresh ==
    \A h \in Hosts : preparing[h] # NoWork =>
        /\ disk[preparing[h].run] = NoRun
        /\ preparing[h].record = NewRecord(preparing[h].record.revision)
        /\ \A k \in Hosts : preparing[k] # NoWork /\ preparing[k].run = preparing[h].run
                                => k = h

\* The record being written is one transition, or the cancellation, of the record
\* that is still in the file: no other writer got in between.
UpdateFollowsDisk ==
    working # NoWork =>
        LET old == disk[working.request.run] IN
        /\ old # NoRun
        /\ ~Final(old.status)
        /\ \/ working.updated = [old EXCEPT !.status = "cancelled"]
           \/ \E t \in AvailableTransitions(GraphOf[old.revision], old.state) :
                 /\ RetryBudgetLeft(GraphOf[old.revision], old.state, t)
                 /\ working.updated = Advanced(old, t)

\* What makes the stored runs and the replies sound, as one inductive invariant.
Inv == /\ TypeOK
       /\ RunsAreWalks
       /\ ViewsArePast
       /\ PreparedRunsAreFresh
       /\ UpdateFollowsDisk

\* No request can move the run stored as x on.
Stuck(x) ==
    LET g == GraphOf[x.revision]
    IN  \A choice \in g.trans \cup {NoChoice} : ~CanAdvance(g, x.state, choice)

\* Every way on from the node of x is a retry that its run has taken as often as it may.
Spent(x) ==
    LET g == GraphOf[x.revision] IN
    \A t \in Outgoing(g, x.state.node) :
        g.kind[t] = "retry" /\ Cardinality(Traversals(x.state.history, t)) = g.max[t]

\* An open run that no request can move on is at an open wait, or has taken every retry
\* that leads on exactly maxAttempts times: no retry is refused too early, over loops,
\* failed writes and restarts, and no other node strands a run (advanceWorkflowGraph,
\* validateWorkflowTopology).
OnlySpentRunsAreStuck ==
    \A r \in RunIds : disk[r] # NoRun /\ ~Final(disk[r].status) /\ Stuck(disk[r]) =>
        \/ OpenWait(GraphOf[disk[r].revision], disk[r].state.node)
        \/ /\ Outgoing(GraphOf[disk[r].revision], disk[r].state.node) # {}
           /\ Spent(disk[r])

\* An advance decided on an outdated view is applied only if the run has come back
\* to the node the host named: the currentNodeId guard of advanceRun.
StaleAdvanceOnlyAfterLoop ==
    (working # NoWork /\ working.request.kind = "advance") =>
        LET q       == working.request
            history == disk[q.run].state.history
        IN  \/ q.seen = Len(history)
            \/ \E i \in q.seen + 1 .. Len(history) : history[i].to = q.node

\* The tool description of advance_workflow_run calls currentNodeId "an optimistic
\* concurrency guard": an advance is applied only to the run its host saw.
AdvanceActsOnSeenRun ==
    (working # NoWork /\ working.request.kind = "advance") =>
        working.request.seen = Len(disk[working.request.run].state.history)

Phase(status) ==
    CASE status = "cancelled"   -> "cancelled"
      [] status \in Outcomes    -> "finished"
      [] OTHER                  -> "open"

LedgerEntry(record) ==
    IF record = NoRun THEN NoRun
    ELSE [revision |-> record.revision,
          phase    |-> Phase(record.status),
          path     |-> [i \in DOMAIN record.state.history |->
                            record.state.history[i].id]]

LedgerView == [r \in RunIds |-> LedgerEntry(disk[r])]

Ledger == INSTANCE RunLedger
            WITH ledger <- LedgerView, Transitions <- AllTransitions

\* The service implements the ledger it promises: runs are created once, grow by
\* one transition at a time on their pinned revision, and freeze when final.
ImplementsLedger == Ledger!Spec

\* enqueueUpdate chains an update after the failure of the one before it as well as
\* after its success: every queued advance and cancel is settled in the end.
QueueDrains == queue # << >> ~> (queue = << >> /\ working = NoWork)
================================================================================
