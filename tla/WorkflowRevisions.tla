--------------------------- MODULE WorkflowRevisions ---------------------------
(***************************************************************************)
(* The version history of one workflow (src/src/skill/workflow-graph.ts):  *)
(* workflow.json, the canonical graph, and one immutable file per revision *)
(* beside it. The product store edits and restores through its queue, one  *)
(* call at a time; the command line and the lab service save into the same *)
(* directory without that queue. Every save is a sequence of awaited file  *)
(* operations that another writer can interleave with, and that a crash or *)
(* a failed write can end; writeFile empties a file before it fills it.    *)
(*                                                                         *)
(* Content is a model value (its hash, assumed free of collisions), the    *)
(* time of creation one of a few stamps. The hash covers the workflow id,  *)
(* so a content belongs to one workflow. WORKFLOW.md, which nothing reads  *)
(* back, is only the last step that can fail.                              *)
(***************************************************************************)
EXTENDS Naturals

CONSTANTS
    Writers,              \* the product store's queue and the other processes
    Contents,             \* the semantic contents a graph can have
    WorkflowOf,           \* content -> the id of the workflow it belongs to
    Stamps,               \* the times a revision can be created at
    NoRevision, NoGraph, Absent, Empty, Garbled, Idle,
    MaxNumber,            \* bound: the highest revision number
    MaxSaves,             \* bound: how many saves are begun
    MaxFaults             \* bound: crashes and failed writes

ASSUME BoundsOK == MaxNumber \in Nat /\ MaxSaves \in Nat /\ MaxFaults \in Nat

Numbers == 1 .. MaxNumber
Ids     == Numbers \X Contents        \* revisionId, and the name of the file
Graphs  == [number : Numbers, content : Contents, prev : Ids \cup {NoRevision},
            stamp : Stamps]

Ops    == {"save", "merge", "keep"}
Saving == {"resolved", "creating", "recorded", "overwriting"}
Stages == Saving \cup {"checked", "written", "deciding", "decided"}

WriterStates == [op : Ops, at : Stages, expected : Ids \cup {NoRevision},
                 content : Contents, graph : Graphs \cup {NoGraph}]

Id(g) == <<g.number, g.content>>

FirstRevisions == {g \in Graphs : g.number = 1 /\ g.prev = NoRevision}

ASSUME PlaceholdersAreNoGraphs ==
    /\ {NoGraph, Absent, Empty, Garbled} \cap Graphs = {}
    /\ Empty # Absent
    /\ NoRevision \notin Ids
    /\ Idle \notin WriterStates

VARIABLES
    head,           \* workflow.json
    files,          \* revision id -> its file
    writers,        \* writer -> Idle or the save it is in the middle of
    acknowledged,   \* the revisions callers were told are saved, with what they saw
    abandoned,      \* revisions that the save of another workflow left behind
    overlapped,     \* two saves were under way when one of them wrote workflow.json
    begun,          \* saves begun so far
    faults          \* crashes and failed writes so far

vars == <<head, files, writers, acknowledged, abandoned, overlapped, begun, faults>>

TypeOK ==
    /\ head \in Graphs \cup {Absent, Empty, Garbled}
    /\ files \in [Ids -> Graphs \cup {Absent, Empty}]
    /\ writers \in [Writers -> WriterStates \cup {Idle}]
    /\ acknowledged \subseteq [seen : Ids \cup {NoRevision}, id : Ids]
    /\ abandoned \subseteq Ids
    /\ overlapped \in BOOLEAN
    /\ begun \in 0 .. MaxSaves
    /\ faults \in 0 .. MaxFaults

\* A directory without a workflow, or with the first revision of one.
Init ==
    /\ \/ /\ head = Absent
          /\ files = [i \in Ids |-> Absent]
       \/ /\ head \in FirstRevisions
          /\ files = [i \in Ids |-> IF i = Id(head) THEN head ELSE Absent]
    /\ writers = [w \in Writers |-> Idle]
    /\ acknowledged = {}
    /\ abandoned = {}
    /\ overlapped = FALSE
    /\ begun = 0
    /\ faults = 0

Whole(i)  == files[i] \in Graphs
Readable  == head \in Graphs
Recorded  == {files[i] : i \in {j \in Ids : Whole(j)}}

\* The revisions that lead to i: those in every set of revisions that holds i and the
\* parent of each of its members.
History == {i \in Ids : Whole(i)}

ClosedUnderParents(S) == \A i \in S : files[i].prev \in S \cup {NoRevision}

Ancestry(i) ==
    {j \in History : \A S \in SUBSET History : i \in S /\ ClosedUnderParents(S) => j \in S}

\* A content of the workflow that workflow.json holds.
SameWorkflow(content) == Readable /\ WorkflowOf[content] = WorkflowOf[head.content]

At(w, stage) == writers[w] # Idle /\ writers[w].at = stage

Moves(w, stage) == writers' = [writers EXCEPT ![w].at = stage]

Returns(w) == writers' = [writers EXCEPT ![w] = Idle]

----------------------------------------------------------------------------
(* Beginning a save                                                        *)

Begins(w, op, at, seen, content, graph) ==
    /\ writers[w] = Idle
    /\ begun < MaxSaves
    /\ begun' = begun + 1
    /\ writers' = [writers EXCEPT ![w] = [op |-> op, at |-> at, expected |-> seen,
                                          content |-> content, graph |-> graph]]

\* persistProductWorkflowGraphEdit: the author saw revision "seen".
BeginEdit(w, seen, content) ==
    /\ Readable
    /\ Id(head) = seen
    /\ SameWorkflow(content)
    /\ Begins(w, "save", "checked", seen, content, NoGraph)
    /\ UNCHANGED <<head, files, acknowledged, abandoned, overlapped, faults>>

\* restoreWorkflowGraphRevision: every revision file must be readable and belong to
\* the workflow (listWorkflowGraphRevisions).
BeginRestore(w, i) ==
    /\ Readable
    /\ Id(head) # i
    /\ \A j \in Ids : files[j] # Absent => Whole(j) /\ SameWorkflow(files[j].content)
    /\ Whole(i)
    /\ Begins(w, "save", "checked", Id(head), files[i].content, NoGraph)
    /\ UNCHANGED <<head, files, acknowledged, abandoned, overlapped, faults>>

\* persistWorkflowGraphDraft without expectedRevisionId, and materialize.
BeginSave(w, content) ==
    /\ Begins(w, "save", "checked", NoRevision, content, NoGraph)
    /\ UNCHANGED <<head, files, acknowledged, abandoned, overlapped, faults>>

----------------------------------------------------------------------------
(* persistWorkflowGraphDraft                                               *)

\* Equal content keeps its revision, other content becomes the next one; the content
\* of another workflow starts at number one, as if there were no graph.
ResolveRevision(content, stamp) ==
    IF Readable /\ head.content = content THEN head
    ELSE IF SameWorkflow(content)
    THEN [number |-> head.number + 1, content |-> content, prev |-> Id(head),
          stamp  |-> stamp]
    ELSE [number |-> 1, content |-> content, prev |-> NoRevision, stamp |-> stamp]

\* Mutant: the second reading of workflow.json is not compared.
CanPersistUnguarded(w) == Readable \/ head = Absent

CanPersist(w) ==
    IF writers[w].expected = NoRevision
    THEN Readable \/ head = Absent
    ELSE Readable /\ Id(head) = writers[w].expected

Resolve(w) ==
    /\ At(w, "checked")
    /\ CanPersist(w)
    /\ \E stamp \in Stamps :
          LET graph == ResolveRevision(writers[w].content, stamp)
          IN  /\ graph \in Graphs
              /\ writers' = [writers EXCEPT ![w].at = "resolved", ![w].graph = graph]
    /\ UNCHANGED <<head, files, acknowledged, abandoned, overlapped, begun, faults>>

File(w) == files[Id(writers[w].graph)]

\* Mutant: an existing file is overwritten (flag "w").
CreateRevisionOver(w) ==
    /\ At(w, "resolved")
    /\ files' = [files EXCEPT ![Id(writers[w].graph)] = Empty]
    /\ Moves(w, "creating")
    /\ UNCHANGED <<head, acknowledged, abandoned, overlapped, begun, faults>>

\* writeImmutableRevision: the file is created, or holds the same graph already.
CreateRevision(w) ==
    /\ At(w, "resolved")
    /\ \/ /\ File(w) = Absent
          /\ files' = [files EXCEPT ![Id(writers[w].graph)] = Empty]
          /\ Moves(w, "creating")
       \/ /\ File(w) = writers[w].graph
          /\ Moves(w, "recorded")
          /\ UNCHANGED files
    /\ UNCHANGED <<head, acknowledged, abandoned, overlapped, begun, faults>>

FillRevision(w) ==
    /\ At(w, "creating")
    /\ files' = [files EXCEPT ![Id(writers[w].graph)] = writers[w].graph]
    /\ Moves(w, "recorded")
    /\ UNCHANGED <<head, acknowledged, abandoned, overlapped, begun, faults>>

\* The call throws: stale, workflow.json cannot be read, or an immutable revision.
Refuse(w) ==
    /\ \/ At(w, "checked") /\ ~CanPersist(w)
       \/ At(w, "resolved") /\ File(w) \notin {Absent, writers[w].graph}
    /\ Returns(w)
    /\ UNCHANGED <<head, files, acknowledged, abandoned, overlapped, begun, faults>>

\* workflow.json is emptied. What led to the graph of another workflow is left behind.
TruncateHead(w) ==
    /\ At(w, "recorded")
    /\ head' = Empty
    /\ Moves(w, "overwriting")
    /\ abandoned' = IF Readable /\ ~SameWorkflow(writers[w].graph.content)
                    THEN abandoned \cup Ancestry(Id(head)) ELSE abandoned
    /\ overlapped' = (overlapped \/ \E v \in Writers \ {w}, stage \in Saving : At(v, stage))
    /\ UNCHANGED <<files, acknowledged, begun, faults>>

\* Text written over another writer's longer text leaves the end of that.
FillHead(w) ==
    /\ At(w, "overwriting")
    /\ \/ head' = writers[w].graph
       \/ head # Empty /\ head' = Garbled
    /\ Moves(w, "written")
    /\ UNCHANGED <<files, acknowledged, abandoned, overlapped, begun, faults>>

Acknowledges(w) ==
    acknowledged' = acknowledged \cup {[seen |-> writers[w].expected,
                                        id   |-> Id(writers[w].graph)]}

\* WORKFLOW.md is written, the store saves its state, the caller has the graph.
Acknowledge(w) ==
    /\ At(w, "written")
    /\ writers[w].op = "save"
    /\ Acknowledges(w)
    /\ Returns(w)
    /\ UNCHANGED <<head, files, abandoned, overlapped, begun, faults>>

\* A crash, a failed write, or a shutdown that refuses the store's own save.
Interrupt(w) ==
    /\ faults < MaxFaults
    /\ writers[w] # Idle
    /\ Returns(w)
    /\ faults' = faults + 1
    /\ UNCHANGED <<head, files, acknowledged, abandoned, overlapped, begun>>

RevisionStep(w) ==
    \/ Resolve(w)
    \/ CreateRevision(w)
    \/ FillRevision(w)
    \/ Refuse(w)
    \/ TruncateHead(w)
    \/ FillHead(w)
    \/ Acknowledge(w)
    \/ Interrupt(w)

Next ==
    \E w \in Writers :
        \/ \E content \in Contents :
              \/ BeginSave(w, content)
              \/ \E seen \in Ids : BeginEdit(w, seen, content)
        \/ \E i \in Ids : BeginRestore(w, i)
        \/ RevisionStep(w)

Spec == Init /\ [][Next]_vars

----------------------------------------------------------------------------
(* Properties                                                              *)

\* The version history is a tree that only grows, numbered along its branches, and
\* a readable workflow.json is one of its revisions, with any number of writers,
\* crashes and torn files (writeImmutableRevision, resolveRevision).
Tree == INSTANCE RevisionTree
            WITH recorded   <- Recorded,
                 current    <- IF Readable THEN head ELSE Empty,
                 Unreadable <- Empty

ImplementsTree == Tree!Spec

\* A save that was acknowledged is in the history for good, right after the revision
\* its author looked at; and as long as saves did not overlap the current revision
\* descends from it, through crashes and torn files (expectedRevisionId), unless the
\* save of another workflow into the directory left it behind (resolveRevision).
AcknowledgedSavesLast ==
    \A a \in acknowledged :
        /\ Whole(a.id)
        /\ a.seen # NoRevision => a.seen \in {a.id, files[a.id].prev}
        /\ ~overlapped /\ Readable => a.id \in Ancestry(Id(head)) \cup abandoned
================================================================================
