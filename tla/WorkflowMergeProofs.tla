-------------------------- MODULE WorkflowMergeProofs --------------------------
(***************************************************************************)
(* Theorems about WorkflowMerge, and with it WorkflowRevisions, for any    *)
(* writers, contents, stamps and bounds: the types, the tree of revisions, *)
(* what a recorded merge decision stands on, and that no save acknowledged *)
(* and no merge that hid its source is lost.                               *)
(***************************************************************************)
EXTENDS WorkflowMerge, TLAPS

\* The fields of a save under way.
LEMMA WriterFields ==
    ASSUME NEW x \in WriterStates
    PROVE  /\ x # Idle
           /\ x.op \in Ops /\ x.at \in Stages /\ x.expected \in Ids \cup {NoRevision}
           /\ x.content \in Contents /\ x.graph \in Graphs \cup {NoGraph}
  BY PlaceholdersAreNoGraphs DEF WriterStates

\* The fields of a graph.
LEMMA GraphFields ==
    ASSUME NEW g \in Graphs
    PROVE  /\ g.number \in Numbers /\ g.content \in Contents
           /\ g.prev \in Ids \cup {NoRevision} /\ g.stamp \in Stamps
           /\ Id(g) \in Ids /\ Id(g)[2] = g.content
           /\ g # NoGraph /\ g # Absent /\ g # Empty /\ g # Garbled
  BY PlaceholdersAreNoGraphs DEF Graphs, Id, Ids

\* A save begins.
LEMMA BeginsTypes ==
    ASSUME TypeOK, NEW w \in Writers, NEW op \in Ops, NEW at \in Stages,
           NEW seen \in Ids \cup {NoRevision}, NEW content \in Contents,
           NEW graph \in Graphs \cup {NoGraph}, Begins(w, op, at, seen, content, graph)
    PROVE  /\ writers' \in [Writers -> WriterStates \cup {Idle}]
           /\ begun' \in 0 .. MaxSaves
           /\ writers[w] = Idle
           /\ writers'[w] # Idle
           /\ writers'[w].op = op /\ writers'[w].at = at /\ writers'[w].expected = seen
           /\ writers'[w].content = content /\ writers'[w].graph = graph
           /\ \A v \in Writers : v # w => writers'[v] = writers[v]
  <1> DEFINE x == [op |-> op, at |-> at, expected |-> seen, content |-> content,
                   graph |-> graph]
  <1>1. /\ x \in WriterStates /\ x.op = op /\ x.at = at /\ x.expected = seen
        /\ x.content = content /\ x.graph = graph
    BY DEF WriterStates
  <1>2. writers' = [writers EXCEPT ![w] = x] /\ writers[w] = Idle
    BY DEF Begins
  <1>3. begun' \in 0 .. MaxSaves
    BY BoundsOK DEF Begins, TypeOK
  <1> HIDE DEF x
  <1>4. writers'[w] = x /\ \A v \in Writers : v # w => writers'[v] = writers[v]
    BY <1>2 DEF TypeOK
  <1>5. writers' \in [Writers -> WriterStates \cup {Idle}]
    BY <1>1, <1>2 DEF TypeOK
  <1>6. x # Idle
    BY <1>1, WriterFields
  <1> QED BY <1>1, <1>2, <1>3, <1>4, <1>5, <1>6

\* A save goes on to its next stage.
LEMMA MovesTypes ==
    ASSUME TypeOK, NEW w \in Writers, writers[w] # Idle, NEW stage \in Stages,
           Moves(w, stage)
    PROVE  /\ writers' \in [Writers -> WriterStates \cup {Idle}]
           /\ writers'[w] # Idle /\ writers'[w].at = stage
           /\ writers'[w].op = writers[w].op
           /\ writers'[w].expected = writers[w].expected
           /\ writers'[w].content = writers[w].content
           /\ writers'[w].graph = writers[w].graph
           /\ \A v \in Writers : v # w => writers'[v] = writers[v]
  <1> DEFINE x == [writers[w] EXCEPT !.at = stage]
  <1>1. writers[w] \in WriterStates
    BY DEF TypeOK
  <1>2. /\ x \in WriterStates /\ x.at = stage /\ x.op = writers[w].op
        /\ x.expected = writers[w].expected /\ x.content = writers[w].content
        /\ x.graph = writers[w].graph
    BY <1>1 DEF WriterStates
  <1>3. writers' = [writers EXCEPT ![w] = x]
    BY DEF Moves
  <1> HIDE DEF x
  <1>4. writers'[w] = x /\ \A v \in Writers : v # w => writers'[v] = writers[v]
    BY <1>3 DEF TypeOK
  <1>5. writers' \in [Writers -> WriterStates \cup {Idle}]
    BY <1>2, <1>3 DEF TypeOK
  <1> QED BY <1>2, <1>4, <1>5, WriterFields

\* A save is over.
LEMMA ReturnsTypes ==
    ASSUME TypeOK, NEW w \in Writers, Returns(w)
    PROVE  /\ writers' \in [Writers -> WriterStates \cup {Idle}]
           /\ writers'[w] = Idle
           /\ \A v \in Writers : v # w => writers'[v] = writers[v]
  BY DEF TypeOK, Returns

\* The revision a save is resolved to is new, or the current one.
LEMMA ResolveTypes ==
    ASSUME TypeOK, NEW w \in Writers, Resolve(w)
    PROVE  \E stamp \in Stamps :
             LET graph == ResolveRevision(writers[w].content, stamp)
             IN  /\ graph \in Graphs
                 /\ writers' \in [Writers -> WriterStates \cup {Idle}]
                 /\ writers'[w] # Idle /\ writers'[w].at = "resolved"
                 /\ writers'[w].op = writers[w].op
                 /\ writers'[w].expected = writers[w].expected
                 /\ writers'[w].content = writers[w].content
                 /\ writers'[w].graph = graph
                 /\ \A v \in Writers : v # w => writers'[v] = writers[v]
  <1>1. writers[w] \in WriterStates
    BY DEF TypeOK, Resolve, At
  <1>2. PICK stamp \in Stamps :
            /\ ResolveRevision(writers[w].content, stamp) \in Graphs
            /\ writers' = [writers EXCEPT ![w].at = "resolved",
                              ![w].graph = ResolveRevision(writers[w].content, stamp)]
    BY DEF Resolve
  <1> DEFINE graph == ResolveRevision(writers[w].content, stamp)
             x == [writers[w] EXCEPT !.at = "resolved", !.graph = graph]
  <1>3. graph \in Graphs
    BY <1>2
  <1>4. writers' = [writers EXCEPT ![w] = x]
    BY <1>2
  <1> HIDE DEF graph
  <1>5. /\ x \in WriterStates /\ x.at = "resolved" /\ x.op = writers[w].op
        /\ x.expected = writers[w].expected /\ x.content = writers[w].content
        /\ x.graph = graph
    BY <1>1, <1>3 DEF WriterStates, Stages, Saving
  <1> HIDE DEF x
  <1>6. writers'[w] = x /\ \A v \in Writers : v # w => writers'[v] = writers[v]
    BY <1>4 DEF TypeOK
  <1>7. writers' \in [Writers -> WriterStates \cup {Idle}]
    BY <1>4, <1>5 DEF TypeOK
  <1>8. x # Idle
    BY <1>5, WriterFields
  <1>9. /\ graph \in Graphs
        /\ writers' \in [Writers -> WriterStates \cup {Idle}]
        /\ writers'[w] # Idle /\ writers'[w].at = "resolved"
        /\ writers'[w].op = writers[w].op
        /\ writers'[w].expected = writers[w].expected
        /\ writers'[w].content = writers[w].content
        /\ writers'[w].graph = graph
        /\ \A v \in Writers : v # w => writers'[v] = writers[v]
    BY <1>3, <1>5, <1>6, <1>7, <1>8
  <1> QED BY <1>9 DEF graph

----------------------------------------------------------------------------
(* The inductive invariant of the version history                          *)

\* g is a first revision or the child of one that the files f hold.
Chain(f, g) ==
    IF g.prev = NoRevision
    THEN g.number = 1
    ELSE f[g.prev] \in Graphs /\ g.number = f[g.prev].number + 1

\* What a save under way stands on: from its resolution to its file a revision that
\* fits the history; from then on a revision the history holds.
Sound(f, x) ==
    /\ x.at \in {"resolved", "creating"} => x.graph \in Graphs /\ Chain(f, x.graph)
    /\ x.at = "creating" => f[Id(x.graph)] = Empty
    /\ x.at \in {"recorded", "overwriting"} => x.graph \in Graphs /\ f[Id(x.graph)] = x.graph
    /\ x.op # "keep" /\ x.at \in {"written", "deciding", "decided"}
          => x.graph \in Graphs /\ f[Id(x.graph)] = x.graph

Creating(w) == writers[w] # Idle /\ writers[w].at = "creating"

FilesOK == \A i \in Ids : files[i] \in Graphs => Id(files[i]) = i /\ Chain(files, files[i])

HeadOK == head \in Graphs => files[Id(head)] = head

WritersOK == \A w \in Writers : writers[w] # Idle => Sound(files, writers[w])

CreatorsOK ==
    \A v, w \in Writers :
        v # w /\ Creating(v) /\ Creating(w) => Id(writers[v].graph) # Id(writers[w].graph)

HistoryInv == TypeOK /\ FilesOK /\ HeadOK /\ WritersOK /\ CreatorsOK

\* No file that is whole in f changes in g.
Keeps(f, g) == \A i \in Ids : f[i] \in Graphs => g[i] = f[i]

\* A revision that fits the history keeps fitting it.
LEMMA ChainKeeps ==
    ASSUME NEW f, NEW f2, Keeps(f, f2), NEW g \in Graphs, Chain(f, g)
    PROVE  Chain(f2, g)
  BY GraphFields DEF Keeps, Chain

\* A save keeps standing on what it stands on.
LEMMA SoundKeeps ==
    ASSUME NEW f, NEW f2, Keeps(f, f2), NEW x \in WriterStates, Sound(f, x),
           x.at = "creating" => f2[Id(x.graph)] = Empty
    PROVE  Sound(f2, x)
  <1>1. x.at \in {"resolved", "creating"} => x.graph \in Graphs /\ Chain(f2, x.graph)
    BY ChainKeeps DEF Sound
  <1>2. x.graph \in Graphs /\ f[Id(x.graph)] = x.graph => f2[Id(x.graph)] = x.graph
    BY GraphFields DEF Keeps
  <1> QED BY <1>1, <1>2 DEF Sound

\* The revision a save is resolved to fits the history.
LEMMA ResolvedFits ==
    ASSUME HistoryInv, NEW content \in Contents, NEW stamp \in Stamps,
           ResolveRevision(content, stamp) \in Graphs
    PROVE  Chain(files, ResolveRevision(content, stamp))
  <1>1. CASE Readable /\ head.content = content
    <2>1. head \in Graphs /\ files[Id(head)] = head /\ Id(head) \in Ids
      BY <1>1, GraphFields DEF Readable, HistoryInv, HeadOK
    <2>2. Chain(files, head)
      BY <2>1 DEF HistoryInv, FilesOK
    <2> QED BY <1>1, <2>2 DEF ResolveRevision
  <1>2. CASE SameWorkflow(content) /\ ~(Readable /\ head.content = content)
    <2> DEFINE g == [number |-> head.number + 1, content |-> content, prev |-> Id(head),
                     stamp |-> stamp]
    <2>1. head \in Graphs /\ files[Id(head)] = head /\ Id(head) \in Ids
      BY <1>2, GraphFields DEF SameWorkflow, Readable, HistoryInv, HeadOK
    <2>2. ResolveRevision(content, stamp) = g
      BY <1>2 DEF ResolveRevision
    <2>3. g.prev = Id(head) /\ g.number = head.number + 1
      OBVIOUS
    <2> HIDE DEF g
    <2>4. Chain(files, g)
      BY <2>1, <2>3, PlaceholdersAreNoGraphs DEF Chain
    <2> QED BY <2>2, <2>4
  <1>3. CASE ~SameWorkflow(content) /\ ~(Readable /\ head.content = content)
    <2> DEFINE g == [number |-> 1, content |-> content, prev |-> NoRevision, stamp |-> stamp]
    <2>1. ResolveRevision(content, stamp) = g
      BY <1>3 DEF ResolveRevision
    <2>2. g.prev = NoRevision /\ g.number = 1
      OBVIOUS
    <2> HIDE DEF g
    <2> QED BY <2>1, <2>2 DEF Chain
  <1> QED BY <1>1, <1>2, <1>3

----------------------------------------------------------------------------
(* Types                                                                   *)

\* A step of a save, within the types.
LEMMA RevisionStepTypes ==
    ASSUME HistoryInv, NEW w \in Writers, RevisionStep(w)
    PROVE  TypeOK'
  <1>0. /\ head \in Graphs \cup {Absent, Empty, Garbled}
        /\ files \in [Ids -> Graphs \cup {Absent, Empty}]
        /\ writers \in [Writers -> WriterStates \cup {Idle}]
        /\ acknowledged \subseteq [seen : Ids \cup {NoRevision}, id : Ids]
        /\ abandoned \subseteq Ids
        /\ overlapped \in BOOLEAN /\ begun \in 0 .. MaxSaves /\ faults \in 0 .. MaxFaults
        /\ (writers[w] # Idle => writers[w] \in WriterStates /\ Sound(files, writers[w]))
        /\ TypeOK
    BY DEF HistoryInv, TypeOK, WritersOK
  <1>1. CASE Resolve(w)
    <2>1. writers' \in [Writers -> WriterStates \cup {Idle}]
      BY <1>0, <1>1, ResolveTypes
    <2> QED BY <1>0, <1>1, <2>1 DEF Resolve, TypeOK
  <1>2. CASE CreateRevision(w)
    <2>1. writers' \in [Writers -> WriterStates \cup {Idle}]
      BY <1>0, <1>2, MovesTypes DEF CreateRevision, At, Stages, Saving
    <2>2. files' \in [Ids -> Graphs \cup {Absent, Empty}]
      BY <1>0, <1>2 DEF CreateRevision
    <2> QED BY <1>0, <1>2, <2>1, <2>2 DEF CreateRevision, TypeOK
  <1>3. CASE FillRevision(w)
    <2>1. writers' \in [Writers -> WriterStates \cup {Idle}]
      BY <1>0, <1>3, MovesTypes DEF FillRevision, At, Stages, Saving
    <2>2. files' \in [Ids -> Graphs \cup {Absent, Empty}]
      <3>1. writers[w].graph \in Graphs
        BY <1>0, <1>3 DEF FillRevision, At, Sound
      <3> QED BY <1>0, <1>3, <3>1 DEF FillRevision
    <2> QED BY <1>0, <1>3, <2>1, <2>2 DEF FillRevision, TypeOK
  <1>4. CASE Refuse(w)
    BY <1>0, <1>4, ReturnsTypes DEF Refuse, TypeOK
  <1>5. CASE TruncateHead(w)
    <2>1. writers' \in [Writers -> WriterStates \cup {Idle}]
      BY <1>0, <1>5, MovesTypes DEF TruncateHead, At, Stages, Saving
    <2>2. head' = Empty /\ overlapped' \in BOOLEAN
      BY <1>0, <1>5 DEF TruncateHead
    <2>3. abandoned' \subseteq Ids
      BY <1>0, <1>5 DEF TruncateHead, Ancestry, History
    <2> QED BY <1>0, <1>5, <2>1, <2>2, <2>3 DEF TruncateHead, TypeOK
  <1>6. CASE FillHead(w)
    <2>1. writers' \in [Writers -> WriterStates \cup {Idle}]
      BY <1>0, <1>6, MovesTypes DEF FillHead, At, Stages
    <2>2. head' \in Graphs \cup {Garbled}
      BY <1>0, <1>6 DEF FillHead, At, Sound
    <2> QED BY <1>0, <1>6, <2>1, <2>2 DEF FillHead, TypeOK
  <1>7. CASE Acknowledge(w)
    <2>1. writers[w].graph \in Graphs /\ Id(writers[w].graph) \in Ids
      BY <1>0, <1>7, GraphFields DEF Acknowledge, At, Sound
    <2>2. writers[w].expected \in Ids \cup {NoRevision}
      BY <1>0, <1>7, WriterFields DEF Acknowledge, At
    <2>3. acknowledged' \subseteq [seen : Ids \cup {NoRevision}, id : Ids]
      BY <1>0, <1>7, <2>1, <2>2 DEF Acknowledge, Acknowledges
    <2> QED BY <1>0, <1>7, <2>3, ReturnsTypes DEF Acknowledge, TypeOK
  <1>8. CASE Interrupt(w)
    <2>1. faults' \in 0 .. MaxFaults
      BY <1>0, <1>8, BoundsOK DEF Interrupt
    <2> QED BY <1>0, <1>8, <2>1, ReturnsTypes DEF Interrupt, TypeOK
  <1> QED BY <1>1, <1>2, <1>3, <1>4, <1>5, <1>6, <1>7, <1>8 DEF RevisionStep

\* A step of one save that writes no revision file.
LEMMA HistoryKept ==
    ASSUME HistoryInv, TypeOK', NEW w \in Writers, files' = files,
           head' \in Graphs => files[Id(head')] = head',
           \A v \in Writers : v # w => writers'[v] = writers[v],
           writers'[w] # Idle => /\ writers'[w].at # "creating"
                                 /\ Sound(files, writers'[w])
    PROVE  HistoryInv'
  <1>1. FilesOK' /\ HeadOK'
    BY DEF HistoryInv, FilesOK, HeadOK
  <1>2. WritersOK'
    BY DEF HistoryInv, WritersOK
  <1>3. CreatorsOK'
    BY DEF HistoryInv, CreatorsOK, Creating
  <1> QED BY <1>1, <1>2, <1>3 DEF HistoryInv

\* A step of one save that changes the revision file of its own graph, which no file
\* or another save stands on.
LEMMA HistoryWritten ==
    ASSUME HistoryInv, TypeOK', NEW w \in Writers, NEW i \in Ids, NEW file,
           files' = [files EXCEPT ![i] = file], files[i] \notin Graphs, head' = head,
           file \in Graphs => Id(file) = i /\ Chain(files, file),
           \A v \in Writers : v # w => writers'[v] = writers[v],
           \A v \in Writers : v # w /\ Creating(v) => Id(writers[v].graph) # i,
           writers'[w] # Idle => Sound(files', writers'[w]),
           Creating(w)' => Id(writers'[w].graph) = i
    PROVE  HistoryInv' /\ Keeps(files, files')
  <1>0. /\ files \in [Ids -> Graphs \cup {Absent, Empty}]
        /\ writers \in [Writers -> WriterStates \cup {Idle}]
    BY DEF HistoryInv, TypeOK
  <1>1. files'[i] = file /\ \A j \in Ids : j # i => files'[j] = files[j]
    BY <1>0
  <1>2. Keeps(files, files')
    BY <1>1 DEF Keeps
  <1>3. FilesOK'
    <2> SUFFICES ASSUME NEW j \in Ids, files'[j] \in Graphs
                 PROVE  Id(files'[j]) = j /\ Chain(files', files'[j])
      BY DEF FilesOK
    <2>1. Id(files'[j]) = j /\ Chain(files, files'[j])
      BY <1>1 DEF HistoryInv, FilesOK
    <2> QED BY <1>2, <2>1, ChainKeeps
  <1>4. HeadOK'
    BY <1>2, GraphFields DEF HistoryInv, HeadOK, Keeps
  <1>5. WritersOK'
    <2> SUFFICES ASSUME NEW v \in Writers, v # w, writers[v] # Idle
                 PROVE  Sound(files', writers[v])
      BY DEF WritersOK
    <2>1. writers[v] \in WriterStates /\ Sound(files, writers[v])
      BY <1>0 DEF HistoryInv, WritersOK
    <2>2. writers[v].at = "creating" => files'[Id(writers[v].graph)] = Empty
      <3> HAVE writers[v].at = "creating"
      <3>1. writers[v].graph \in Graphs /\ files[Id(writers[v].graph)] = Empty
        BY <2>1 DEF Sound
      <3>2. Id(writers[v].graph) \in Ids /\ Id(writers[v].graph) # i
        BY <3>1, GraphFields DEF Creating
      <3> QED BY <1>1, <3>1, <3>2
    <2> QED BY <1>2, <2>1, <2>2, SoundKeeps
  <1>6. CreatorsOK'
    BY DEF HistoryInv, CreatorsOK, Creating
  <1> QED BY <1>2, <1>3, <1>4, <1>5, <1>6 DEF HistoryInv

\* A step of a save keeps the invariant and every whole revision.
LEMMA RevisionStepHistory ==
    ASSUME HistoryInv, NEW w \in Writers, RevisionStep(w)
    PROVE  HistoryInv' /\ Keeps(files, files')
  <1>0. /\ files \in [Ids -> Graphs \cup {Absent, Empty}]
        /\ (writers[w] # Idle => writers[w] \in WriterStates /\ Sound(files, writers[w]))
        /\ TypeOK /\ TypeOK'
        /\ (head \in Graphs => files[Id(head)] = head)
    BY RevisionStepTypes DEF HistoryInv, TypeOK, WritersOK, HeadOK
  <1>k. files' = files => Keeps(files, files')
    BY DEF Keeps
  <1>1. CASE Resolve(w)
    <2>1. PICK stamp \in Stamps :
             LET graph == ResolveRevision(writers[w].content, stamp)
             IN  /\ graph \in Graphs
                 /\ writers'[w].at = "resolved"
                 /\ writers'[w].graph = graph
                 /\ \A v \in Writers : v # w => writers'[v] = writers[v]
      BY <1>0, <1>1, ResolveTypes
    <2>2. writers[w].content \in Contents
      BY <1>0, <1>1, WriterFields DEF Resolve, At
    <2>3. Chain(files, writers'[w].graph)
      BY <2>1, <2>2, ResolvedFits
    <2>4. writers'[w].at # "creating" /\ Sound(files, writers'[w])
      BY <2>1, <2>3 DEF Sound
    <2> QED BY <1>0, <1>1, <1>k, <2>1, <2>4, HistoryKept DEF Resolve
  <1>2. CASE CreateRevision(w)
    <2>0. writers[w] # Idle /\ writers[w].at = "resolved" /\ head' = head
      BY <1>2 DEF CreateRevision, At
    <2> DEFINE g == writers[w].graph
    <2>1. g \in Graphs /\ Chain(files, g) /\ Id(g) \in Ids
      BY <1>0, <2>0, GraphFields DEF Sound
    <2>2. CASE files[Id(g)] = Absent /\ files' = [files EXCEPT ![Id(g)] = Empty]
                 /\ Moves(w, "creating")
      <3>1. /\ writers'[w].at = "creating" /\ writers'[w].graph = g
            /\ \A v \in Writers : v # w => writers'[v] = writers[v]
        BY <1>0, <2>0, <2>2, MovesTypes DEF Stages, Saving
      <3>2. files[Id(g)] \notin Graphs /\ Empty \notin Graphs
        BY <2>2, PlaceholdersAreNoGraphs
      <3>3. \A v \in Writers : v # w /\ Creating(v) => Id(writers[v].graph) # Id(g)
        BY <2>2, PlaceholdersAreNoGraphs DEF HistoryInv, WritersOK, Sound, Creating
      <3>4. Sound(files', writers'[w])
        <4>1. Keeps(files, files') /\ files'[Id(g)] = Empty
          BY <1>0, <2>1, <2>2, <3>2 DEF Keeps
        <4>2. Chain(files', g)
          BY <2>1, <4>1, ChainKeeps
        <4> QED BY <2>1, <3>1, <4>1, <4>2 DEF Sound
      <3> HIDE DEF g
      <3>5. Creating(w)' => Id(writers'[w].graph) = Id(g)
        BY <3>1
      <3> QED BY <1>0, <2>0, <2>1, <2>2, <3>1, <3>2, <3>3, <3>4, <3>5, HistoryWritten
    <2>3. CASE files[Id(g)] = g /\ files' = files /\ Moves(w, "recorded")
      <3>1. /\ writers'[w].at = "recorded" /\ writers'[w].graph = g
            /\ \A v \in Writers : v # w => writers'[v] = writers[v]
        BY <1>0, <2>0, <2>3, MovesTypes DEF Stages, Saving
      <3>2. writers'[w].at # "creating" /\ Sound(files, writers'[w])
        BY <2>1, <2>3, <3>1 DEF Sound
      <3> QED BY <1>0, <1>k, <2>0, <2>3, <3>1, <3>2, HistoryKept
    <2> QED BY <1>2, <2>2, <2>3 DEF CreateRevision, File
  <1>3. CASE FillRevision(w)
    <2>0. writers[w] # Idle /\ writers[w].at = "creating" /\ head' = head
      BY <1>3 DEF FillRevision, At
    <2> DEFINE g == writers[w].graph
    <2>1. g \in Graphs /\ Chain(files, g) /\ files[Id(g)] = Empty /\ Id(g) \in Ids
      BY <1>0, <2>0, GraphFields DEF Sound
    <2>2. /\ files' = [files EXCEPT ![Id(g)] = g]
          /\ writers'[w].at = "recorded" /\ writers'[w].graph = g
          /\ \A v \in Writers : v # w => writers'[v] = writers[v]
      BY <1>0, <1>3, <2>0, MovesTypes DEF FillRevision, Stages, Saving
    <2>3. files[Id(g)] \notin Graphs
      BY <2>1, PlaceholdersAreNoGraphs
    <2>4. \A v \in Writers : v # w /\ Creating(v) => Id(writers[v].graph) # Id(g)
      BY <2>0 DEF HistoryInv, CreatorsOK, Creating
    <2>5. Sound(files', writers'[w])
      <3>1. files'[Id(g)] = g
        BY <1>0, <2>1, <2>2
      <3> QED BY <2>1, <2>2, <3>1 DEF Sound
    <2>6. ~Creating(w)'
      BY <2>2 DEF Creating
    <2> HIDE DEF g
    <2> QED BY <1>0, <2>0, <2>1, <2>2, <2>3, <2>4, <2>5, <2>6, HistoryWritten
  <1>4. CASE Refuse(w) \/ Acknowledge(w) \/ Interrupt(w)
    <2>1. Returns(w) /\ files' = files /\ head' = head
      BY <1>4 DEF Refuse, Acknowledge, Interrupt
    <2>2. writers'[w] = Idle /\ \A v \in Writers : v # w => writers'[v] = writers[v]
      BY <1>0, <2>1, ReturnsTypes
    <2> QED BY <1>0, <1>k, <2>1, <2>2, HistoryKept
  <1>5. CASE TruncateHead(w) \/ FillHead(w)
    <2>1. /\ writers[w] # Idle /\ writers[w].at \in {"recorded", "overwriting"}
          /\ files' = files /\ head' \in {Empty, Garbled, writers[w].graph}
      BY <1>5 DEF TruncateHead, FillHead, At
    <2>2. PICK stage \in {"overwriting", "written"} : Moves(w, stage)
      BY <1>5 DEF TruncateHead, FillHead
    <2>3. /\ writers'[w].at = stage /\ writers'[w].graph = writers[w].graph
          /\ \A v \in Writers : v # w => writers'[v] = writers[v]
      BY <1>0, <2>1, <2>2, MovesTypes DEF Stages, Saving
    <2>4. writers[w].graph \in Graphs /\ files[Id(writers[w].graph)] = writers[w].graph
      BY <1>0, <2>1 DEF Sound
    <2>5. writers'[w].at # "creating" /\ Sound(files, writers'[w])
      BY <2>2, <2>3, <2>4 DEF Sound
    <2>6. head' \in Graphs => files[Id(head')] = head'
      BY <2>1, <2>4, PlaceholdersAreNoGraphs
    <2> QED BY <1>0, <1>k, <2>1, <2>3, <2>5, <2>6, HistoryKept
  <1> QED BY <1>1, <1>2, <1>3, <1>4, <1>5 DEF RevisionStep

----------------------------------------------------------------------------
(* The steps of the merge                                                  *)

\* A step that begins a save, of any kind.
BeginStep ==
    \/ \E w \in Writers, content \in Contents :
          \/ BeginSave(w, content)
          \/ \E seen \in Ids : BeginEdit(w, seen, content)
    \/ \E w \in Writers, i \in Ids : BeginRestore(w, i)

\* A begun save: what it changes and what it stands on.
LEMMA BeginTypes ==
    ASSUME HistoryInv, BeginStep
    PROVE  \E w \in Writers :
             /\ writers[w] = Idle
             /\ writers' \in [Writers -> WriterStates \cup {Idle}]
             /\ begun' \in 0 .. MaxSaves
             /\ writers'[w] # Idle /\ writers'[w].op = "save" /\ writers'[w].at = "checked"
             /\ \A v \in Writers : v # w => writers'[v] = writers[v]
             /\ UNCHANGED <<head, files, acknowledged, abandoned, overlapped, faults>>
  <1>0. TypeOK /\ head \in Graphs \cup {Absent, Empty, Garbled}
    BY DEF HistoryInv, TypeOK
  <1>1. PICK w \in Writers, seen \in Ids \cup {NoRevision}, content \in Contents :
            /\ Begins(w, "save", "checked", seen, content, NoGraph)
            /\ UNCHANGED <<head, files, acknowledged, abandoned, overlapped, faults>>
    <2>1. CASE \E w \in Writers, content \in Contents : BeginSave(w, content)
      BY <2>1 DEF BeginSave
    <2>2. CASE \E w \in Writers, content \in Contents, seen \in Ids :
                  BeginEdit(w, seen, content)
      BY <2>2 DEF BeginEdit
    <2>3. CASE \E w \in Writers, i \in Ids : BeginRestore(w, i)
      <3>1. PICK w \in Writers, i \in Ids : BeginRestore(w, i)
        BY <2>3
      <3>2. files[i].content \in Contents /\ Id(head) \in Ids
        BY <3>1, GraphFields DEF BeginRestore, Whole, Readable
      <3> QED BY <3>1, <3>2 DEF BeginRestore
    <2> QED BY <2>1, <2>2, <2>3 DEF BeginStep
  <1>2. "save" \in Ops /\ "checked" \in Stages
    BY DEF Ops, Stages
  <1> QED BY <1>0, <1>1, <1>2, BeginsTypes

\* A begun save keeps the invariant.
LEMMA BeginHistory ==
    ASSUME HistoryInv, BeginStep
    PROVE  HistoryInv' /\ files' = files
  <1>1. PICK w \in Writers :
             /\ writers[w] = Idle
             /\ writers' \in [Writers -> WriterStates \cup {Idle}]
             /\ begun' \in 0 .. MaxSaves
             /\ writers'[w] # Idle /\ writers'[w].op = "save" /\ writers'[w].at = "checked"
             /\ \A v \in Writers : v # w => writers'[v] = writers[v]
             /\ UNCHANGED <<head, files, acknowledged, abandoned, overlapped, faults>>
    BY BeginTypes
  <1>2. TypeOK'
    BY <1>1 DEF HistoryInv, TypeOK
  <1>3. writers'[w].at # "creating" /\ Sound(files, writers'[w])
    BY <1>1 DEF Sound
  <1>4. head' \in Graphs => files[Id(head')] = head'
    BY <1>1 DEF HistoryInv, HeadOK
  <1> QED BY <1>1, <1>2, <1>3, <1>4, HistoryKept

\* The next-state relation, by what its steps do to the history.
LEMMA MergeSteps ==
    ASSUME MergeNext
    PROVE  \/ BeginStep /\ UNCHANGED mergeVars
           \/ \E w \in Writers : RevisionStep(w) /\ UNCHANGED mergeVars
           \/ \E content \in Contents : Propose(content)
           \/ BeginMerge \/ ResumeMerge \/ RepeatMerge \/ BeginKeep
           \/ TruncateResolution \/ FillResolution \/ SaveDecision
  BY DEF MergeNext, Next, BeginStep

----------------------------------------------------------------------------
(* The inductive invariant of the merge                                    *)

\* A save of an author who saw a revision is of the workflow of that revision.
Kin(x) == x # Idle /\ x.expected # NoRevision =>
              WorkflowOf[x.content] = WorkflowOf[x.expected[2]]

\* A save is of the workflow of the revision that its author saw, and so is a proposal.
KinOK ==
    /\ \A w \in Writers : Kin(writers[w])
    /\ proposal # NoProposal => WorkflowOf[proposal.content] = WorkflowOf[proposal.base[2]]

\* x is a merge of the proposal p: it saves the proposed content over the revision
\* the proposal is bound to, and so does the graph it is resolved to.
Serves(x, p) ==
    /\ p \in Proposals
    /\ x.op = "merge" =>
         /\ x.expected = p.base /\ x.content = p.content
         /\ x.at # "checked" => /\ x.graph \in Graphs /\ x.graph.content = p.content
                                /\ p.base \in {Id(x.graph), x.graph.prev}

DecisionTypes ==
    /\ proposal \in Proposals \cup {NoProposal}
    /\ resolution \in {"none", "torn", "create_new", "merge"}
    /\ hidden \in BOOLEAN
    /\ told \in BOOLEAN

MergeServes ==
    writers[Product] # Idle /\ writers[Product].op \in {"merge", "keep"} =>
        Serves(writers[Product], proposal) /\ ~hidden

Finishing == At(Product, "decided") /\ writers[Product].op = "merge"

ToldOK ==
    /\ told /\ ~hidden => faults > 0
    /\ resolution = "merge" /\ ~hidden /\ ~Finishing => faults > 0

RecordedMerge == resolution = "merge" => proposal \in Proposals /\ MergedRevisions # {}

MergeInv == HistoryInv /\ DecisionTypes /\ MergeServes /\ RecordedMerge /\ ToldOK

\* A merged revision stays one.
LEMMA MergedKeeps ==
    ASSUME HistoryInv, Keeps(files, files'), proposal' = proposal
    PROVE  MergedRevisions \subseteq MergedRevisions'
  BY DEF MergedRevisions, Whole, Keeps

\* The invariant holds at the start.
LEMMA MergeInitially ==
    ASSUME MergeInit
    PROVE  MergeInv
  <1>1. writers = [w \in Writers |-> Idle] /\ acknowledged = {} /\ abandoned = {}
        /\ overlapped = FALSE
        /\ begun = 0 /\ faults = 0 /\ resolution = "none" /\ hidden = FALSE /\ told = FALSE
        /\ proposal = NoProposal
    BY DEF MergeInit, Init
  <1>2. \A w \in Writers : writers[w] = Idle
    BY <1>1
  <1>3. /\ head \in Graphs \cup {Absent, Empty, Garbled}
        /\ files \in [Ids -> Graphs \cup {Absent, Empty}]
        /\ FilesOK /\ HeadOK
    <2>1. CASE head = Absent /\ files = [i \in Ids |-> Absent]
      BY <2>1, PlaceholdersAreNoGraphs DEF FilesOK, HeadOK
    <2>2. CASE head \in FirstRevisions
                 /\ files = [i \in Ids |-> IF i = Id(head) THEN head ELSE Absent]
      <3>1. head \in Graphs /\ head.number = 1 /\ head.prev = NoRevision
        BY <2>2 DEF FirstRevisions
      <3>2. Id(head) \in Ids
        BY <3>1, GraphFields
      <3>3. \A i \in Ids : files[i] = IF i = Id(head) THEN head ELSE Absent
        BY <2>2
      <3>4. FilesOK
        BY <3>1, <3>3, PlaceholdersAreNoGraphs DEF FilesOK, Chain
      <3>5. HeadOK
        BY <3>2, <3>3 DEF HeadOK
      <3> QED BY <2>2, <3>1, <3>4, <3>5
    <2> QED BY <2>1, <2>2 DEF MergeInit, Init
  <1>4. TypeOK
    <2>1. begun \in 0 .. MaxSaves /\ faults \in 0 .. MaxFaults
      BY <1>1, BoundsOK
    <2>2. writers \in [Writers -> WriterStates \cup {Idle}]
      BY <1>1
    <2> QED BY <1>1, <1>3, <2>1, <2>2 DEF TypeOK
  <1>5. WritersOK /\ CreatorsOK /\ MergeServes
    BY <1>2, ProductIsAWriter DEF WritersOK, CreatorsOK, Creating, MergeServes
  <1>6. DecisionTypes /\ RecordedMerge /\ ToldOK
    BY <1>1 DEF DecisionTypes, RecordedMerge, ToldOK
  <1> QED BY <1>3, <1>4, <1>5, <1>6 DEF MergeInv, HistoryInv

\* What a step of a save does to the save the product store is in the middle of.
LEMMA ProductMoves ==
    ASSUME HistoryInv, NEW w \in Writers, RevisionStep(w)
    PROVE  /\ \/ writers'[Product] = writers[Product]
              \/ writers'[Product] = Idle
              \/ /\ At(Product, "checked") /\ CanPersist(Product)
                 /\ writers'[Product].op = writers[Product].op
                 /\ writers'[Product].expected = writers[Product].expected
                 /\ writers'[Product].content = writers[Product].content
                 /\ writers'[Product].graph \in Graphs
                 /\ \E stamp \in Stamps : writers'[Product].graph
                                            = ResolveRevision(writers[Product].content, stamp)
              \/ /\ writers[Product] # Idle /\ writers[Product].at # "checked"
                 /\ writers'[Product].op = writers[Product].op
                 /\ writers'[Product].expected = writers[Product].expected
                 /\ writers'[Product].content = writers[Product].content
                 /\ writers'[Product].graph = writers[Product].graph
           /\ \/ faults' = faults + 1
              \/ /\ faults' = faults
                 /\ At(Product, "decided") => writers'[Product] = writers[Product]
  <1>0. TypeOK /\ Product \in Writers /\ (writers[w] # Idle => writers[w] \in WriterStates)
    BY ProductIsAWriter DEF HistoryInv, TypeOK
  <1>1. CASE Resolve(w)
    <2>1. /\ \E stamp \in Stamps :
               /\ ResolveRevision(writers[w].content, stamp) \in Graphs
               /\ writers'[w].graph = ResolveRevision(writers[w].content, stamp)
          /\ writers'[w].op = writers[w].op
          /\ writers'[w].expected = writers[w].expected
          /\ writers'[w].content = writers[w].content
          /\ \A v \in Writers : v # w => writers'[v] = writers[v]
      BY <1>0, <1>1, ResolveTypes
    <2>2. At(w, "checked") /\ CanPersist(w) /\ faults' = faults
      BY <1>1 DEF Resolve
    <2> QED BY <1>0, <2>1, <2>2 DEF At
  <1>2. CASE CreateRevision(w) \/ FillRevision(w) \/ TruncateHead(w) \/ FillHead(w)
    <2>1. PICK stage \in Stages : Moves(w, stage)
      BY <1>2 DEF CreateRevision, FillRevision, TruncateHead, FillHead, Stages, Saving
    <2>2. writers[w] # Idle /\ writers[w].at \in Saving /\ faults' = faults
      BY <1>2 DEF CreateRevision, FillRevision, TruncateHead, FillHead, At, Saving
    <2>3. /\ writers'[w].op = writers[w].op
          /\ writers'[w].expected = writers[w].expected
          /\ writers'[w].content = writers[w].content
          /\ writers'[w].graph = writers[w].graph
          /\ \A v \in Writers : v # w => writers'[v] = writers[v]
      BY <1>0, <2>1, <2>2, MovesTypes
    <2> QED BY <1>0, <2>2, <2>3 DEF At, Saving
  <1>3. CASE Refuse(w) \/ Acknowledge(w)
    <2>1. /\ Returns(w) /\ faults' = faults
          /\ writers[w] # Idle /\ writers[w].at # "decided"
      BY <1>3 DEF Refuse, Acknowledge, At
    <2>2. writers'[w] = Idle /\ \A v \in Writers : v # w => writers'[v] = writers[v]
      BY <1>0, <2>1, ReturnsTypes
    <2> QED BY <1>0, <2>1, <2>2 DEF At
  <1>4. CASE Interrupt(w)
    <2>1. writers'[w] = Idle /\ \A v \in Writers : v # w => writers'[v] = writers[v]
      BY <1>0, <1>4, ReturnsTypes DEF Interrupt
    <2> QED BY <1>0, <1>4, <2>1 DEF Interrupt
  <1> QED BY <1>1, <1>2, <1>3, <1>4 DEF RevisionStep

\* A merge is resolved to a graph that serves its proposal.
LEMMA ResolvedServes ==
    ASSUME HistoryInv, At(Product, "checked"), CanPersist(Product), NEW stamp \in Stamps,
           writers[Product].op = "merge", Serves(writers[Product], proposal),
           Kin(writers[Product]), NEW g \in Graphs, g = ResolveRevision(writers[Product].content, stamp)
    PROVE  g.content = proposal.content /\ proposal.base \in {Id(g), g.prev}
  <1>1. /\ proposal.base \in Ids /\ writers[Product].expected = proposal.base
        /\ writers[Product].content = proposal.content
    BY DEF Serves, Proposals
  <1>2. Readable /\ Id(head) = proposal.base
    BY <1>1, PlaceholdersAreNoGraphs DEF CanPersist
  <1>3. CASE head.content = proposal.content
    BY <1>1, <1>2, <1>3 DEF ResolveRevision
  <1>5. SameWorkflow(proposal.content)
    <2>1. writers[Product] # Idle /\ proposal.base # NoRevision
      BY <1>1, PlaceholdersAreNoGraphs DEF At
    <2> QED BY <1>1, <1>2, <2>1, GraphFields DEF Kin, SameWorkflow, Readable
  <1>4. CASE head.content # proposal.content
    <2> DEFINE h == [number |-> head.number + 1, content |-> proposal.content,
                     prev |-> Id(head), stamp |-> stamp]
    <2>1. g = h
      BY <1>1, <1>2, <1>4, <1>5 DEF ResolveRevision
    <2>2. h.content = proposal.content /\ h.prev = Id(head)
      OBVIOUS
    <2> QED BY <1>2, <2>1, <2>2
  <1> QED BY <1>3, <1>4

\* A step of a save keeps the invariant of the merge.
LEMMA RevisionStepMerge ==
    ASSUME MergeInv, KinOK, NEW w \in Writers, RevisionStep(w), UNCHANGED mergeVars
    PROVE  MergeInv'
  <1>0. HistoryInv /\ HistoryInv' /\ Keeps(files, files') /\ faults \in Nat
    BY RevisionStepHistory DEF MergeInv, HistoryInv, TypeOK
  <1>1. /\ proposal' = proposal /\ resolution' = resolution /\ hidden' = hidden
        /\ told' = told
    BY DEF mergeVars
  <1>2. DecisionTypes'
    BY <1>1 DEF MergeInv, DecisionTypes
  <1>3. MergeServes'
    <2> SUFFICES ASSUME writers'[Product] # Idle, writers'[Product].op \in {"merge", "keep"}
                 PROVE  Serves(writers'[Product], proposal) /\ ~hidden
      BY <1>1 DEF MergeServes
    <2>1. CASE writers'[Product] = writers[Product]
      BY <2>1 DEF MergeInv, MergeServes
    <2>2. CASE /\ At(Product, "checked") /\ CanPersist(Product)
               /\ writers'[Product].op = writers[Product].op
               /\ writers'[Product].expected = writers[Product].expected
               /\ writers'[Product].content = writers[Product].content
               /\ writers'[Product].graph \in Graphs
               /\ \E stamp \in Stamps : writers'[Product].graph
                                          = ResolveRevision(writers[Product].content, stamp)
      <3>1. Serves(writers[Product], proposal) /\ ~hidden
        BY <2>2 DEF MergeInv, MergeServes, At
      <3>2. writers[Product].op = "merge" =>
                /\ writers'[Product].graph.content = proposal.content
                /\ proposal.base \in {Id(writers'[Product].graph), writers'[Product].graph.prev}
        BY <1>0, <2>2, <3>1, ResolvedServes, ProductIsAWriter DEF KinOK
      <3> QED BY <2>2, <3>1, <3>2 DEF Serves
    <2>3. CASE /\ writers[Product] # Idle /\ writers[Product].at # "checked"
               /\ writers'[Product].op = writers[Product].op
               /\ writers'[Product].expected = writers[Product].expected
               /\ writers'[Product].content = writers[Product].content
               /\ writers'[Product].graph = writers[Product].graph
      <3>1. Serves(writers[Product], proposal) /\ ~hidden
        BY <2>3 DEF MergeInv, MergeServes
      <3> QED BY <2>3, <3>1 DEF Serves
    <2> QED BY <1>0, <2>1, <2>2, <2>3, ProductMoves
  <1>4. RecordedMerge'
    BY <1>0, <1>1, MergedKeeps DEF MergeInv, RecordedMerge
  <1>5. ToldOK'
    <2>1. CASE faults' = faults + 1
      BY <1>0, <2>1 DEF ToldOK
    <2>2. CASE /\ faults' = faults
               /\ At(Product, "decided") => writers'[Product] = writers[Product]
      <3>1. Finishing => Finishing'
        BY <2>2 DEF Finishing, At
      <3> QED BY <1>1, <2>2, <3>1 DEF MergeInv, ToldOK
    <2> QED BY <1>0, <2>1, <2>2, ProductMoves
  <1> QED BY <1>0, <1>2, <1>3, <1>4, <1>5 DEF MergeInv

\* A begun save keeps it.
LEMMA BeginMergeInv ==
    ASSUME MergeInv, BeginStep, UNCHANGED mergeVars
    PROVE  MergeInv'
  <1>0. HistoryInv /\ HistoryInv' /\ files' = files
    BY BeginHistory DEF MergeInv
  <1>1. /\ proposal' = proposal /\ resolution' = resolution /\ hidden' = hidden
        /\ told' = told
    BY DEF mergeVars
  <1>2. PICK w \in Writers :
             /\ writers[w] = Idle
             /\ writers'[w] # Idle /\ writers'[w].op = "save" /\ writers'[w].at = "checked"
             /\ \A v \in Writers : v # w => writers'[v] = writers[v]
             /\ faults' = faults
    BY <1>0, BeginTypes
  <1>3. DecisionTypes'
    BY <1>1 DEF MergeInv, DecisionTypes
  <1>4. MergeServes'
    BY <1>1, <1>2, ProductIsAWriter DEF MergeInv, MergeServes
  <1>5. RecordedMerge'
    <2>1. Keeps(files, files')
      BY <1>0 DEF Keeps
    <2> QED BY <1>0, <1>1, <2>1, MergedKeeps DEF MergeInv, RecordedMerge
  <1>6. ToldOK'
    <2>1. Finishing => Finishing'
      BY <1>2, ProductIsAWriter DEF Finishing, At
    <2> QED BY <1>1, <1>2, <2>1 DEF MergeInv, ToldOK
  <1> QED BY <1>0, <1>3, <1>4, <1>5, <1>6 DEF MergeInv

\* A proposal is learned.
LEMMA ProposeMergeInv ==
    ASSUME MergeInv, NEW content \in Contents, Propose(content)
    PROVE  MergeInv'
  <1> DEFINE p == [base |-> Id(head), content |-> content]
  <1>1. p \in Proposals
    BY GraphFields DEF Propose, SameWorkflow, Readable, Proposals
  <1>2. /\ proposal = NoProposal /\ proposal' = p
        /\ UNCHANGED <<head, files, writers, acknowledged, abandoned, overlapped, begun, faults>>
        /\ resolution' = resolution /\ hidden' = hidden /\ told' = told
    BY DEF Propose, vars
  <1> HIDE DEF p
  <1>3. HistoryInv'
    BY <1>2 DEF MergeInv, HistoryInv, TypeOK, FilesOK, HeadOK, WritersOK, CreatorsOK, Creating
  <1>4. DecisionTypes'
    BY <1>1, <1>2 DEF MergeInv, DecisionTypes
  <1>5. MergeServes' /\ RecordedMerge'
    BY <1>2, NoProposalIsNone DEF MergeInv, MergeServes, Serves, RecordedMerge
  <1> QED BY <1>2, <1>3, <1>4, <1>5 DEF MergeInv, ToldOK, Finishing, At

\* The product store begins a merge, resumes one or keeps the source as a new workflow:
\* a save that serves the proposal begins.
LEMMA DecideMergeInv ==
    ASSUME MergeInv, BeginMerge \/ ResumeMerge \/ BeginKeep
    PROVE  MergeInv' /\ files' = files
  <1>0. /\ TypeOK /\ Product \in Writers /\ faults' = faults /\ proposal \in Proposals
        /\ ~hidden /\ head' = head /\ files' = files
        /\ UNCHANGED <<acknowledged, abandoned, overlapped, mergeVars>>
    BY ProductIsAWriter
       DEF MergeInv, HistoryInv, DecisionTypes, BeginMerge, ResumeMerge, BeginKeep, CanDecide,
           Decides
  <1>1. PICK op \in {"merge", "keep"}, at \in {"checked", "written"},
             graph \in Graphs \cup {NoGraph} :
             /\ Begins(Product, op, at, proposal.base, proposal.content, graph)
             /\ op = "keep" => at = "written"
             /\ op = "merge" /\ at = "written" =>
                   /\ graph \in Graphs /\ files[Id(graph)] = graph
                   /\ graph.content = proposal.content /\ graph.prev = proposal.base
             /\ resolution = "merge" => op = "keep" \/ at = "checked"
    <2>1. CASE BeginMerge
      BY <2>1 DEF BeginMerge, Decides
    <2>2. CASE ResumeMerge
      BY <2>2 DEF ResumeMerge, Decides, Applied, Readable, MergeInv, HistoryInv, HeadOK
    <2>3. CASE BeginKeep
      BY <2>3 DEF BeginKeep, Decides
    <2> QED BY <2>1, <2>2, <2>3
  <1>2. /\ proposal.base \in Ids \cup {NoRevision} /\ proposal.content \in Contents
        /\ op \in Ops /\ at \in Stages
    BY <1>0 DEF Proposals, Ops, Stages
  <1>3. /\ writers' \in [Writers -> WriterStates \cup {Idle}]
        /\ begun' \in 0 .. MaxSaves
        /\ writers[Product] = Idle
        /\ writers'[Product] # Idle
        /\ writers'[Product].op = op /\ writers'[Product].at = at
        /\ writers'[Product].expected = proposal.base
        /\ writers'[Product].content = proposal.content
        /\ writers'[Product].graph = graph
        /\ \A v \in Writers : v # Product => writers'[v] = writers[v]
    BY <1>0, <1>1, <1>2, BeginsTypes
  <1>4. TypeOK'
    BY <1>0, <1>3 DEF TypeOK
  <1>5. writers'[Product].at # "creating" /\ Sound(files, writers'[Product])
    BY <1>1, <1>3 DEF Sound
  <1>6. head' \in Graphs => files[Id(head')] = head'
    BY <1>0 DEF MergeInv, HistoryInv, HeadOK
  <1>7. HistoryInv'
    BY <1>0, <1>3, <1>4, <1>5, <1>6, HistoryKept DEF MergeInv
  <1>8. /\ proposal' = proposal /\ resolution' = resolution /\ hidden' = hidden
        /\ told' = told
    BY <1>0 DEF mergeVars
  <1>9. MergeServes'
    <2>1. Serves(writers'[Product], proposal)
      BY <1>0, <1>1, <1>3 DEF Serves
    <2> QED BY <1>0, <1>8, <2>1 DEF MergeServes
  <1>10. RecordedMerge'
    <2>1. Keeps(files, files')
      BY <1>0 DEF Keeps
    <2> QED BY <1>8, <2>1, MergedKeeps DEF MergeInv, RecordedMerge
  <1>11. DecisionTypes' /\ ToldOK'
    BY <1>0, <1>3, <1>8 DEF MergeInv, DecisionTypes, ToldOK, Finishing, At
  <1> QED BY <1>0, <1>7, <1>9, <1>10, <1>11 DEF MergeInv

\* A repeated merge is answered.
LEMMA RepeatMergeInv ==
    ASSUME MergeInv, RepeatMerge
    PROVE  MergeInv'
  <1>1. /\ UNCHANGED <<head, files, writers, acknowledged, abandoned, overlapped, begun, faults>>
        /\ proposal' = proposal /\ resolution' = resolution /\ hidden' = hidden
        /\ told' = TRUE /\ resolution = "merge" /\ writers[Product] = Idle
    BY DEF RepeatMerge, vars
  <1>2. HistoryInv'
    BY <1>1 DEF MergeInv, HistoryInv, TypeOK, FilesOK, HeadOK, WritersOK, CreatorsOK, Creating
  <1>3. DecisionTypes' /\ MergeServes' /\ ToldOK'
    BY <1>1 DEF MergeInv, DecisionTypes, MergeServes, ToldOK, Finishing, At
  <1>4. RecordedMerge'
    BY <1>1 DEF MergeInv, RecordedMerge, MergedRevisions, Whole
  <1> QED BY <1>2, <1>3, <1>4 DEF MergeInv

\* The resolution file is written.
LEMMA ResolutionMergeInv ==
    ASSUME MergeInv, TruncateResolution \/ FillResolution
    PROVE  MergeInv' /\ files' = files
  <1>0. /\ TypeOK /\ Product \in Writers
        /\ UNCHANGED <<head, files, acknowledged, abandoned, overlapped, begun, faults>>
        /\ proposal' = proposal /\ hidden' = hidden /\ told' = told
        /\ writers[Product] # Idle /\ writers[Product].op \in {"merge", "keep"}
        /\ writers[Product].at \in {"written", "deciding"}
    BY ProductIsAWriter
       DEF MergeInv, HistoryInv, TruncateResolution, FillResolution, Deciding, At
  <1>1. PICK stage \in {"deciding", "decided"} : Moves(Product, stage)
    BY DEF TruncateResolution, FillResolution
  <1>2. stage \in Stages
    BY DEF Stages
  <1>3. /\ writers' \in [Writers -> WriterStates \cup {Idle}]
        /\ writers'[Product] # Idle /\ writers'[Product].at = stage
        /\ writers'[Product].op = writers[Product].op
        /\ writers'[Product].expected = writers[Product].expected
        /\ writers'[Product].content = writers[Product].content
        /\ writers'[Product].graph = writers[Product].graph
        /\ \A v \in Writers : v # Product => writers'[v] = writers[v]
    BY <1>0, <1>1, <1>2, MovesTypes
  <1>4. TypeOK'
    BY <1>0, <1>3 DEF TypeOK
  <1>5. Sound(files, writers[Product]) /\ Serves(writers[Product], proposal) /\ ~hidden
    BY <1>0 DEF MergeInv, HistoryInv, WritersOK, MergeServes
  <1>6. writers'[Product].at # "creating" /\ Sound(files, writers'[Product])
    BY <1>0, <1>3, <1>5 DEF Sound
  <1>7. head' \in Graphs => files[Id(head')] = head'
    BY <1>0 DEF MergeInv, HistoryInv, HeadOK
  <1>8. HistoryInv'
    BY <1>0, <1>3, <1>4, <1>6, <1>7, HistoryKept DEF MergeInv
  <1>9. MergeServes'
    <2>1. Serves(writers'[Product], proposal)
      BY <1>0, <1>3, <1>5 DEF Serves
    <2> QED BY <1>0, <1>5, <2>1 DEF MergeServes
  <1>10. resolution' \in {"torn", "create_new", "merge"}
         /\ (resolution' = "merge" => /\ writers[Product].op = "merge"
                                      /\ writers'[Product].at = "decided")
    <2>1. CASE TruncateResolution
      BY <2>1 DEF TruncateResolution
    <2>2. CASE FillResolution
      <3>1. Moves(Product, "decided")
        BY <2>2 DEF FillResolution
      <3>2. writers'[Product].at = "decided"
        BY <1>0, <3>1, MovesTypes DEF Stages
      <3> QED BY <2>2, <3>2 DEF FillResolution, Decision
    <2> QED BY <2>1, <2>2
  <1>11. RecordedMerge'
    <2> SUFFICES ASSUME resolution' = "merge"
                 PROVE  proposal \in Proposals /\ MergedRevisions # {}
      BY <1>0 DEF RecordedMerge, MergedRevisions, Whole
    <2> DEFINE g == writers[Product].graph
    <2>1. /\ g \in Graphs /\ g.content = proposal.content /\ files[Id(g)] = g
          /\ proposal.base \in {Id(g), g.prev} /\ proposal \in Proposals
      BY <1>0, <1>5, <1>10 DEF Serves, Sound
    <2> HIDE DEF g
    <2>2. Id(g) \in MergedRevisions
      BY <2>1, GraphFields DEF MergedRevisions, Whole
    <2> QED BY <2>1, <2>2
  <1>12. DecisionTypes'
    BY <1>0, <1>10 DEF MergeInv, DecisionTypes
  <1>13. ToldOK'
    BY <1>0, <1>3, <1>10 DEF MergeInv, ToldOK, Finishing, At
  <1> QED BY <1>0, <1>8, <1>9, <1>11, <1>12, <1>13 DEF MergeInv

\* The product state is saved.
LEMMA SaveMergeInv ==
    ASSUME MergeInv, SaveDecision
    PROVE  MergeInv' /\ files' = files
  <1>0. /\ TypeOK /\ Product \in Writers
        /\ UNCHANGED <<head, files, abandoned, overlapped, begun, faults>>
        /\ proposal' = proposal /\ resolution' = resolution
        /\ writers[Product] # Idle /\ writers[Product].op \in {"merge", "keep"}
        /\ writers[Product].at = "decided" /\ Returns(Product)
    BY ProductIsAWriter DEF MergeInv, HistoryInv, SaveDecision, Deciding, At
  <1>1. /\ writers' \in [Writers -> WriterStates \cup {Idle}]
        /\ writers'[Product] = Idle
        /\ \A v \in Writers : v # Product => writers'[v] = writers[v]
    BY <1>0, ReturnsTypes
  <1>2. acknowledged' \subseteq [seen : Ids \cup {NoRevision}, id : Ids]
    <2>1. CASE writers[Product].op = "merge"
      <3>1. writers[Product] \in WriterStates /\ Sound(files, writers[Product])
        BY <1>0 DEF MergeInv, HistoryInv, WritersOK, TypeOK
      <3>2. /\ Id(writers[Product].graph) \in Ids
            /\ writers[Product].expected \in Ids \cup {NoRevision}
        BY <1>0, <2>1, <3>1, WriterFields, GraphFields DEF Sound
      <3> QED BY <1>0, <2>1, <3>2 DEF SaveDecision, Acknowledges, TypeOK
    <2>2. CASE writers[Product].op # "merge"
      BY <1>0, <2>2 DEF SaveDecision, TypeOK
    <2> QED BY <2>1, <2>2
  <1>3. TypeOK'
    BY <1>0, <1>1, <1>2 DEF TypeOK
  <1>4. head' \in Graphs => files[Id(head')] = head'
    BY <1>0 DEF MergeInv, HistoryInv, HeadOK
  <1>5. HistoryInv'
    BY <1>0, <1>1, <1>3, <1>4, HistoryKept DEF MergeInv
  <1>6. MergeServes'
    BY <1>1 DEF MergeServes
  <1>7. RecordedMerge'
    BY <1>0 DEF MergeInv, RecordedMerge, MergedRevisions, Whole
  <1>8. /\ hidden' \in BOOLEAN /\ told' \in BOOLEAN
        /\ writers[Product].op = "merge" => hidden'
        /\ writers[Product].op # "merge" => ~hidden' /\ (told' => told)
    BY DEF SaveDecision, Hides, MergeInv, DecisionTypes
  <1>9. DecisionTypes'
    BY <1>0, <1>8 DEF MergeInv, DecisionTypes
  <1>10. ToldOK'
    BY <1>0, <1>8 DEF MergeInv, MergeServes, ToldOK, Finishing, At
  <1> QED BY <1>0, <1>5, <1>6, <1>7, <1>9, <1>10 DEF MergeInv

\* A save keeps its author and its content.
LEMMA RevisionStepKin ==
    ASSUME HistoryInv, NEW w \in Writers, RevisionStep(w), Kin(writers[w])
    PROVE  /\ Kin(writers'[w])
           /\ \A v \in Writers : v # w => writers'[v] = writers[v]
  <1>0. TypeOK
    BY DEF HistoryInv
  <1>1. CASE Resolve(w)
    <2>1. writers[w] # Idle
      BY <1>1 DEF Resolve, At
    <2> QED BY <1>0, <1>1, <2>1, ResolveTypes DEF Kin
  <1>2. CASE Refuse(w) \/ Acknowledge(w) \/ Interrupt(w)
    BY <1>0, <1>2, ReturnsTypes DEF Refuse, Acknowledge, Interrupt, Kin
  <1>3. CASE CreateRevision(w) \/ FillRevision(w) \/ TruncateHead(w) \/ FillHead(w)
    <2>1. writers[w] # Idle
      BY <1>3 DEF CreateRevision, FillRevision, TruncateHead, FillHead, At
    <2>2. PICK stage \in {"creating", "recorded", "overwriting", "written"} : Moves(w, stage)
      BY <1>3 DEF CreateRevision, FillRevision, TruncateHead, FillHead
    <2>3. stage \in Stages
      BY DEF Stages, Saving
    <2> QED BY <1>0, <2>1, <2>2, <2>3, MovesTypes DEF Kin
  <1> QED BY <1>1, <1>2, <1>3 DEF RevisionStep

\* A save begins with a content of the workflow of the revision that its author saw.
LEMMA BeginKin ==
    ASSUME HistoryInv, BeginStep
    PROVE  \E w \in Writers : /\ Kin(writers'[w])
                             /\ \A v \in Writers : v # w => writers'[v] = writers[v]
  <1>0. /\ TypeOK
        /\ Readable => Id(head) \in Ids /\ Id(head)[2] = head.content
    BY GraphFields DEF HistoryInv, Readable
  <1>1. PICK w \in Writers, seen \in Ids \cup {NoRevision}, content \in Contents :
            /\ Begins(w, "save", "checked", seen, content, NoGraph)
            /\ seen # NoRevision => WorkflowOf[content] = WorkflowOf[seen[2]]
    <2>1. ASSUME NEW w \in Writers, NEW content \in Contents, BeginSave(w, content)
          PROVE  Begins(w, "save", "checked", NoRevision, content, NoGraph)
      BY <2>1 DEF BeginSave
    <2>2. ASSUME NEW w \in Writers, NEW content \in Contents, NEW seen \in Ids,
                 BeginEdit(w, seen, content)
          PROVE  /\ Begins(w, "save", "checked", seen, content, NoGraph)
                 /\ WorkflowOf[content] = WorkflowOf[seen[2]]
      BY <1>0, <2>2 DEF BeginEdit, SameWorkflow
    <2>3. ASSUME NEW w \in Writers, NEW i \in Ids, BeginRestore(w, i)
          PROVE  /\ Begins(w, "save", "checked", Id(head), files[i].content, NoGraph)
                 /\ Id(head) \in Ids /\ files[i].content \in Contents
                 /\ WorkflowOf[files[i].content] = WorkflowOf[Id(head)[2]]
      <3>1. files[i] \in Graphs /\ files[i] # Absent /\ Readable
        BY <2>3, PlaceholdersAreNoGraphs DEF BeginRestore, Whole
      <3>2. SameWorkflow(files[i].content)
        BY <2>3, <3>1 DEF BeginRestore
      <3> QED BY <1>0, <2>3, <3>1, <3>2, GraphFields DEF BeginRestore, SameWorkflow
    <2> QED BY <2>1, <2>2, <2>3 DEF BeginStep
  <1>2. /\ writers'[w].expected = seen /\ writers'[w].content = content
        /\ \A v \in Writers : v # w => writers'[v] = writers[v]
    <2>1. "save" \in Ops /\ "checked" \in Stages
      BY DEF Ops, Stages
    <2> QED BY <1>0, <1>1, <2>1, BeginsTypes
  <1> QED BY <1>1, <1>2 DEF Kin

\* The product store decides with its proposal.
LEMMA DecideKin ==
    ASSUME MergeInv, KinOK, BeginMerge \/ ResumeMerge \/ BeginKeep
    PROVE  KinOK'
  <1>0. TypeOK /\ Product \in Writers /\ proposal \in Proposals /\ UNCHANGED mergeVars
    BY ProductIsAWriter
       DEF MergeInv, HistoryInv, DecisionTypes, BeginMerge, ResumeMerge, BeginKeep, CanDecide,
           Decides
  <1>1. PICK op \in {"merge", "keep"}, at \in {"checked", "written"},
             graph \in Graphs \cup {NoGraph} :
             Begins(Product, op, at, proposal.base, proposal.content, graph)
    <2>1. CASE BeginMerge
      BY <2>1 DEF BeginMerge, Decides
    <2>2. CASE ResumeMerge
      BY <2>2 DEF ResumeMerge, Decides, Applied, Readable
    <2>3. CASE BeginKeep
      BY <2>3 DEF BeginKeep, Decides
    <2> QED BY <2>1, <2>2, <2>3
  <1>2. /\ proposal.base \in Ids \cup {NoRevision} /\ proposal.content \in Contents
        /\ op \in Ops /\ at \in Stages
    BY <1>0 DEF Proposals, Ops, Stages
  <1>3. /\ writers'[Product].expected = proposal.base
        /\ writers'[Product].content = proposal.content
        /\ \A v \in Writers : v # Product => writers'[v] = writers[v]
    BY <1>0, <1>1, <1>2, BeginsTypes
  <1>4. WorkflowOf[proposal.content] = WorkflowOf[proposal.base[2]]
    BY <1>0, NoProposalIsNone DEF KinOK
  <1> QED BY <1>0, <1>3, <1>4 DEF KinOK, Kin, mergeVars

\* A proposal is for the workflow of the current revision.
LEMMA ProposeKin ==
    ASSUME HistoryInv, KinOK, NEW content \in Contents, Propose(content)
    PROVE  KinOK'
  <1>1. /\ proposal' = [base |-> Id(head), content |-> content]
        /\ SameWorkflow(content) /\ writers' = writers
    BY DEF Propose, vars
  <1>2. Id(head)[2] = head.content
    BY <1>1, GraphFields DEF SameWorkflow, Readable
  <1>3. WorkflowOf[proposal'.content] = WorkflowOf[proposal'.base[2]]
    BY <1>1, <1>2 DEF SameWorkflow
  <1>4. \A x : Kin(x)' <=> Kin(x)
    BY DEF Kin
  <1> QED BY <1>1, <1>3, <1>4 DEF KinOK

\* The decision is written, and the product state is saved.
LEMMA ResolutionKin ==
    ASSUME HistoryInv, KinOK, TruncateResolution \/ FillResolution \/ SaveDecision
    PROVE  KinOK'
  <1>0. /\ TypeOK /\ Product \in Writers /\ proposal' = proposal /\ writers[Product] # Idle
        /\ Kin(writers[Product])
    BY ProductIsAWriter
       DEF HistoryInv, TruncateResolution, FillResolution, SaveDecision, Deciding, At, KinOK
  <1>1. /\ Kin(writers'[Product])
        /\ \A v \in Writers : v # Product => writers'[v] = writers[v]
    <2>1. CASE SaveDecision
      BY <1>0, <2>1, ReturnsTypes DEF SaveDecision, Kin
    <2>2. CASE TruncateResolution \/ FillResolution
      <3>1. PICK stage \in {"deciding", "decided"} : Moves(Product, stage)
        BY <2>2 DEF TruncateResolution, FillResolution
      <3> QED BY <1>0, <3>1, MovesTypes DEF Stages, Kin
    <2> QED BY <2>1, <2>2
  <1> QED BY <1>0, <1>1 DEF KinOK, Kin

\* Every save stays of the workflow that its author saw.
LEMMA KinInductive ==
    ASSUME MergeInv, KinOK, [MergeNext]_<<vars, mergeVars>>
    PROVE  KinOK'
  <1>0. HistoryInv /\ (\A x : Kin(x)' <=> Kin(x)) /\ \A w \in Writers : Kin(writers[w])
    BY DEF MergeInv, Kin, KinOK
  <1>1. CASE BeginStep /\ UNCHANGED mergeVars
    BY <1>0, <1>1, BeginKin DEF KinOK, mergeVars
  <1>2. CASE \E w \in Writers : RevisionStep(w) /\ UNCHANGED mergeVars
    <2>1. PICK w \in Writers : RevisionStep(w)
      BY <1>2
    <2>2. Kin(writers'[w]) /\ \A v \in Writers : v # w => writers'[v] = writers[v]
      BY <1>0, <2>1, RevisionStepKin
    <2>3. \A v \in Writers : Kin(writers'[v])
      BY <1>0, <2>2
    <2> QED BY <1>2, <2>3 DEF KinOK, Kin, mergeVars
  <1>3. CASE \E content \in Contents : Propose(content)
    BY <1>0, <1>3, ProposeKin
  <1>4. CASE BeginMerge \/ ResumeMerge \/ BeginKeep
    BY <1>4, DecideKin
  <1>5. CASE RepeatMerge \/ UNCHANGED <<vars, mergeVars>>
    BY <1>5 DEF RepeatMerge, KinOK, Kin, vars, mergeVars
  <1>6. CASE TruncateResolution \/ FillResolution \/ SaveDecision
    BY <1>0, <1>6, ResolutionKin
  <1> QED BY <1>1, <1>2, <1>3, <1>4, <1>5, <1>6, MergeSteps

\* Every step keeps the invariant.
LEMMA MergeInductive ==
    ASSUME MergeInv, KinOK, [MergeNext]_<<vars, mergeVars>>
    PROVE  MergeInv' /\ KinOK'
  <1> SUFFICES MergeInv'
    BY KinInductive
  <1>1. CASE MergeNext
    <2>1. CASE BeginStep /\ UNCHANGED mergeVars
      BY <2>1, BeginMergeInv
    <2>2. CASE \E w \in Writers : RevisionStep(w) /\ UNCHANGED mergeVars
      BY <2>2, RevisionStepMerge
    <2>3. CASE \E content \in Contents : Propose(content)
      BY <2>3, ProposeMergeInv
    <2>4. CASE BeginMerge \/ ResumeMerge \/ BeginKeep
      BY <2>4, DecideMergeInv
    <2>5. CASE RepeatMerge
      BY <2>5, RepeatMergeInv
    <2>6. CASE TruncateResolution \/ FillResolution
      BY <2>6, ResolutionMergeInv
    <2>7. CASE SaveDecision
      BY <2>7, SaveMergeInv
    <2> QED BY <1>1, <2>1, <2>2, <2>3, <2>4, <2>5, <2>6, <2>7, MergeSteps
  <1>2. CASE UNCHANGED <<vars, mergeVars>>
    BY <1>2
       DEF vars, mergeVars, MergeInv, HistoryInv, TypeOK, FilesOK, HeadOK, WritersOK, CreatorsOK,
           Creating, DecisionTypes, MergeServes, RecordedMerge, MergedRevisions, Whole, ToldOK,
           Finishing, At
  <1> QED BY <1>1, <1>2

\* The types and shapes hold in every state.
LEMMA MergeInvariant == MergeSpec => [](MergeInv /\ KinOK)
  <1>1. MergeInit => KinOK
    BY DEF MergeInit, Init, KinOK, Kin
  <1> QED BY <1>1, MergeInitially, MergeInductive, PTL DEF MergeSpec

\* The variables of the version history and of the merge keep their types.
THEOREM MergeTypesAreCorrect == MergeSpec => []MergeTypeOK
  <1>1. MergeInv => MergeTypeOK
    BY DEF MergeInv, HistoryInv, DecisionTypes, MergeTypeOK
  <1> QED BY <1>1, MergeInvariant, PTL

\* A recorded decision to merge is backed by a revision of the canonical workflow,
\* however many writers, crashes and failed writes there are.
THEOREM DecisionsAreBacked == MergeSpec => []MergesAreRecorded
  <1>1. MergeInv => MergesAreRecorded
    BY DEF MergeInv, RecordedMerge, MergesAreRecorded
  <1> QED BY <1>1, MergeInvariant, PTL

\* Unless a write failed or the program crashed, a merge that was reported done has
\* hidden the source.
THEOREM ReportsAreTrue == MergeSpec => []ToldMergesAreHidden
  <1>1. MergeInv => ToldMergesAreHidden
    BY DEF MergeInv, ToldOK, ToldMergesAreHidden
  <1> QED BY <1>1, MergeInvariant, PTL

----------------------------------------------------------------------------
(* The version history is the tree of revisions                            *)

TreeNext ==
    \/ \E g \in Graphs :
          /\ \A h \in Recorded : Id(h) # Id(g)
          /\ IF g.prev = NoRevision THEN g.number = 1
             ELSE \E h \in Recorded : Id(h) = g.prev /\ g.number = h.number + 1
          /\ Recorded' = Recorded \cup {g}
          /\ head' = head
    \/ Recorded' = Recorded

\* A whole revision file is a recorded revision.
LEMMA RecordedFile ==
    ASSUME HistoryInv, NEW h \in Recorded
    PROVE  Id(h) \in Ids /\ files[Id(h)] = h /\ h \in Graphs
  BY GraphFields DEF HistoryInv, FilesOK, Recorded, Whole

\* A step of a save records one revision, or none.
LEMMA RevisionStepTree ==
    ASSUME HistoryInv, NEW w \in Writers, RevisionStep(w)
    PROVE  TreeNext
  <1>0. /\ files \in [Ids -> Graphs \cup {Absent, Empty}]
        /\ (writers[w] # Idle => Sound(files, writers[w]))
    BY DEF HistoryInv, TypeOK, WritersOK
  <1>1. CASE FillRevision(w)
    <2> DEFINE g == writers[w].graph
    <2>0. /\ writers[w] # Idle /\ writers[w].at = "creating" /\ head' = head
          /\ files' = [files EXCEPT ![Id(g)] = g]
      BY <1>1 DEF FillRevision, At
    <2>1. g \in Graphs /\ Chain(files, g) /\ files[Id(g)] = Empty /\ Id(g) \in Ids
      BY <1>0, <2>0, GraphFields DEF Sound
    <2> HIDE DEF g
    <2>2. \A h \in Recorded : Id(h) # Id(g)
      BY <2>1, RecordedFile, PlaceholdersAreNoGraphs
    <2>3. IF g.prev = NoRevision THEN g.number = 1
          ELSE \E h \in Recorded : Id(h) = g.prev /\ g.number = h.number + 1
      <3>1. CASE g.prev = NoRevision
        BY <2>1, <3>1 DEF Chain
      <3>2. CASE g.prev # NoRevision
        <4>1. g.prev \in Ids /\ files[g.prev] \in Graphs
              /\ g.number = files[g.prev].number + 1
          BY <2>1, <3>2, GraphFields DEF Chain
        <4>2. files[g.prev] \in Recorded /\ Id(files[g.prev]) = g.prev
          BY <4>1 DEF Recorded, Whole, HistoryInv, FilesOK
        <4> QED BY <3>2, <4>1, <4>2
      <3> QED BY <3>1, <3>2
    <2>4. Recorded' = Recorded \cup {g}
      <3>1. files'[Id(g)] = g /\ \A j \in Ids : j # Id(g) => files'[j] = files[j]
        BY <1>0, <2>0, <2>1
      <3>2. files[Id(g)] \notin Graphs
        BY <2>1, PlaceholdersAreNoGraphs
      <3>3. Recorded' \subseteq Recorded \cup {g}
        BY <3>1 DEF Recorded, Whole
      <3>4. Recorded \cup {g} \subseteq Recorded'
        BY <2>1, <3>1, <3>2 DEF Recorded, Whole
      <3> QED BY <3>3, <3>4
    <2> QED BY <2>0, <2>1, <2>2, <2>3, <2>4 DEF TreeNext
  <1>2. CASE CreateRevision(w) /\ files' # files
    <2> DEFINE i == Id(writers[w].graph)
    <2>1. files[i] = Absent /\ files' = [files EXCEPT ![i] = Empty]
      BY <1>2 DEF CreateRevision, File
    <2>2. \A j \in Ids : files'[j] = files[j] \/ (j = i /\ files'[j] = Empty)
      BY <1>0, <2>1
    <2> HIDE DEF i
    <2>3. \A j \in Ids : files'[j] \in Graphs <=> files[j] \in Graphs
      BY <2>1, <2>2, PlaceholdersAreNoGraphs
    <2>4. \A j \in Ids : files[j] \in Graphs => files'[j] = files[j]
      BY <2>1, <2>2, PlaceholdersAreNoGraphs
    <2>5. Recorded' = Recorded
      BY <2>3, <2>4 DEF Recorded, Whole
    <2> QED BY <2>5 DEF TreeNext
  <1>3. CASE files' = files
    BY <1>3 DEF TreeNext, Recorded, Whole
  <1> QED BY <1>1, <1>2, <1>3
        DEF RevisionStep, Resolve, CreateRevision, Refuse, TruncateHead, FillHead, Acknowledge,
            Interrupt

\* So does every step.
LEMMA StepTree ==
    ASSUME MergeInv, [MergeNext]_<<vars, mergeVars>>
    PROVE  TreeNext
  <1>1. CASE \E w \in Writers : RevisionStep(w)
    BY <1>1, RevisionStepTree DEF MergeInv
  <1>2. CASE files' = files
    BY <1>2 DEF TreeNext, Recorded, Whole
  <1>3. CASE MergeNext
    <2>1. CASE BeginStep
      BY <1>2, <2>1, BeginHistory DEF MergeInv
    <2>2. CASE \E content \in Contents : Propose(content)
      BY <1>2, <2>2 DEF Propose, vars
    <2>3. CASE RepeatMerge
      BY <1>2, <2>3 DEF RepeatMerge, vars
    <2>4. CASE BeginMerge \/ ResumeMerge \/ BeginKeep
      BY <1>2, <2>4, DecideMergeInv
    <2>5. CASE TruncateResolution \/ FillResolution
      BY <1>2, <2>5, ResolutionMergeInv
    <2>6. CASE SaveDecision
      BY <1>2, <2>6, SaveMergeInv
    <2> QED BY <1>1, <1>3, <2>1, <2>2, <2>3, <2>4, <2>5, <2>6, MergeSteps
  <1> QED BY <1>2, <1>3 DEF vars

\* The version history on disk implements the tree of revisions: whatever the writers,
\* crashes and failed writes, it only grows, every revision is the child of a recorded
\* one and numbered after it, and a readable workflow.json is one of them.
THEOREM HistoryIsATree == MergeSpec => ImplementsTree
  <1>1. MergeInit => Tree!Init
    <2> SUFFICES ASSUME MergeInit PROVE Tree!Init
      OBVIOUS
    <2>0. HistoryInv
      BY MergeInitially DEF MergeInv
    <2>1. CASE head = Absent /\ files = [i \in Ids |-> Absent]
      <3>1. Recorded = {} /\ ~Readable
        BY <2>1, PlaceholdersAreNoGraphs DEF Recorded, Whole, Readable
      <3> QED BY <3>1 DEF Tree!Init
    <2>2. CASE head \in FirstRevisions
                 /\ files = [i \in Ids |-> IF i = Id(head) THEN head ELSE Absent]
      <3>1. head \in Graphs /\ head.number = 1 /\ head.prev = NoRevision /\ Readable
        BY <2>2 DEF FirstRevisions, Readable
      <3>2. Id(head) \in Ids
        BY <3>1, GraphFields
      <3>3. Recorded = {head}
        BY <2>2, <3>1, <3>2, PlaceholdersAreNoGraphs DEF Recorded, Whole
      <3>4. head \in Tree!Revisions
        BY <3>1 DEF Graphs, Tree!Revisions, Tree!Ids, Ids
      <3> QED BY <3>1, <3>3, <3>4 DEF Tree!Init
    <2> QED BY <2>1, <2>2 DEF MergeInit, Init
  <1>2. MergeInv /\ MergeInv' /\ [MergeNext]_<<vars, mergeVars>>
          => [Tree!Next]_<<Recorded, IF Readable THEN head ELSE Empty>>
    <2> SUFFICES ASSUME MergeInv, MergeInv', [MergeNext]_<<vars, mergeVars>>
                 PROVE  Tree!Next
      OBVIOUS
    <2>1. CASE Recorded' = Recorded
      <3>1. (IF Readable THEN head ELSE Empty)' \in Recorded' \cup {Empty}
        BY GraphFields DEF MergeInv, HistoryInv, HeadOK, Recorded, Whole, Readable
      <3> QED BY <2>1, <3>1 DEF Tree!Next, Tree!MakeCurrent
    <2>2. CASE \E g \in Graphs :
                  /\ \A h \in Recorded : Id(h) # Id(g)
                  /\ IF g.prev = NoRevision THEN g.number = 1
                     ELSE \E h \in Recorded : Id(h) = g.prev /\ g.number = h.number + 1
                  /\ Recorded' = Recorded \cup {g}
                  /\ head' = head
      <3>1. PICK g \in Graphs :
                  /\ \A h \in Recorded : Id(h) # Id(g)
                  /\ IF g.prev = NoRevision THEN g.number = 1
                     ELSE \E h \in Recorded : Id(h) = g.prev /\ g.number = h.number + 1
                  /\ Recorded' = Recorded \cup {g}
                  /\ head' = head
        BY <2>2
      <3>2. g \in Tree!Revisions
        BY DEF Graphs, Tree!Revisions, Tree!Ids, Ids
      <3>3. Tree!Record(g)
        BY <3>1 DEF Tree!Record, Tree!Extends, Tree!Id, Id, Readable
      <3> QED BY <3>2, <3>3 DEF Tree!Next
    <2> QED BY <2>1, <2>2, StepTree DEF TreeNext
  <1> QED BY <1>1, <1>2, MergeInvariant, PTL DEF MergeSpec, ImplementsTree, Tree!Spec

----------------------------------------------------------------------------
(* The lineage of a revision                                               *)

\* A revision leads to itself.
LEMMA LineageStarts ==
    ASSUME NEW i \in Ids, Whole(i)
    PROVE  i \in Ancestry(i)
  BY DEF Ancestry, History

\* What leads to the parent of a revision leads to the revision.
LEMMA LineageOfChild ==
    ASSUME NEW i \in Ids, Whole(i), NEW j \in Ids, files[i].prev = j
    PROVE  Ancestry(j) \subseteq Ancestry(i)
  BY PlaceholdersAreNoGraphs DEF Ancestry, ClosedUnderParents

\* What leads to a revision keeps leading to it as the history grows, because the parent
\* of a recorded revision is recorded.
LEMMA LineageGrows ==
    ASSUME HistoryInv, Keeps(files, files')
    PROVE  \A i \in Ids : Whole(i) => Ancestry(i) \subseteq Ancestry(i)'
  <1>1. History \subseteq History'
    BY DEF History, Keeps, Whole
  <1>2. ASSUME NEW S \in SUBSET History', ClosedUnderParents(S)'
        PROVE  ClosedUnderParents(S \cap History)
    <2> SUFFICES ASSUME NEW i \in S \cap History
                 PROVE  files[i].prev \in (S \cap History) \cup {NoRevision}
      BY DEF ClosedUnderParents
    <2>1. i \in Ids /\ files[i] \in Graphs /\ files'[i] = files[i]
      BY DEF History, Whole, Keeps
    <2>2. files[i].prev \in S \cup {NoRevision} /\ files[i].prev \in Ids \cup {NoRevision}
      BY <1>2, <2>1, GraphFields DEF ClosedUnderParents
    <2>3. files[i].prev # NoRevision => files[files[i].prev] \in Graphs
      BY <2>1 DEF HistoryInv, FilesOK, Chain
    <2> QED BY <2>2, <2>3 DEF History, Whole
  <1>3. ASSUME NEW i \in Ids, Whole(i), NEW j \in Ancestry(i),
               NEW S \in SUBSET History', i \in S, ClosedUnderParents(S)'
        PROVE  j \in S
    <2>1. S \cap History \in SUBSET History /\ i \in S \cap History
      BY <1>3 DEF History
    <2>2. ClosedUnderParents(S \cap History)
      BY <1>2, <1>3
    <2>3. j \in S \cap History
      BY <2>1, <2>2 DEF Ancestry
    <2> QED BY <2>3
  <1>4. \A i \in Ids : Ancestry(i) \subseteq History
    BY DEF Ancestry
  <1> QED BY <1>1, <1>3, <1>4 DEF Ancestry

----------------------------------------------------------------------------
(* The inductive invariant of the saves under way                          *)

In(x, stages) == x # Idle /\ x.at \in stages

Unsaved == {"resolved", "creating", "recorded"}
After   == {"written", "deciding", "decided"}

\* x has its graph in workflow.json.
SavedBy(x) == In(x, After) /\ x.op # "keep"

\* The revisions that were saved, told to the caller or not yet.
Saved == {a.id : a \in acknowledged}
         \cup {Id(writers[w].graph) : w \in {v \in Writers : SavedBy(writers[v])}}

\* What leads to i, and what the save of another workflow left behind.
Behind(i) == Ancestry(i) \cup abandoned

\* g is the current revision, or a child of it, or of another workflow, or there is no
\* current revision yet.
Succeeds(g) ==
    \/ head = Absent
    \/ Readable /\ g = head
    \/ Readable /\ g.prev = Id(head)
    \/ Readable /\ ~SameWorkflow(g.content)

\* Whoever resolved its graph still stands on the current revision; while one empties
\* and fills workflow.json nobody else is on the way there.
Alone(w) ==
    /\ In(writers[w], Unsaved) => Succeeds(writers[w].graph)
    /\ In(writers[w], {"overwriting"}) =>
          /\ head = Empty
          /\ Saved \subseteq Behind(Id(writers[w].graph))
          /\ \A v \in Writers : v # w => ~In(writers[v], Saving)

LineageOK ==
    ~overlapped => /\ head = Absent => Saved = {}
                   /\ Readable => Saved \subseteq Behind(Id(head))
                   /\ \A w \in Writers : Alone(w)

\* The graph of a save follows the revision that its author saw.
Follows(x) ==
    x # Idle /\ x.op # "keep" /\ x.at # "checked" /\ x.expected # NoRevision =>
        x.graph \in Graphs /\ x.expected \in {Id(x.graph), x.graph.prev}

FollowsOK == \A w \in Writers : Follows(writers[w])

\* A revision that was acknowledged is recorded right after the one its author saw.
RecordedAfter(a) ==
    Whole(a.id) /\ (a.seen # NoRevision => a.seen \in {a.id, files[a.id].prev})

AcknowledgedOK == \A a \in acknowledged : RecordedAfter(a)

HiddenOK ==
    /\ hidden => resolution = "merge" /\ \E a \in acknowledged : a.id \in MergedRevisions
    /\ Finishing => resolution = "merge"

LineageInv == MergeInv /\ LineageOK /\ FollowsOK /\ AcknowledgedOK /\ HiddenOK

\* Every saved revision is the name of a file.
LEMMA SavedTypes ==
    ASSUME HistoryInv
    PROVE  /\ Saved \subseteq Ids
           /\ \A w \in Writers : SavedBy(writers[w]) =>
                 /\ writers[w].graph \in Graphs /\ Id(writers[w].graph) \in Ids
                 /\ files[Id(writers[w].graph)] = writers[w].graph
  <1>1. \A w \in Writers : SavedBy(writers[w]) =>
           /\ writers[w].graph \in Graphs /\ Id(writers[w].graph) \in Ids
           /\ files[Id(writers[w].graph)] = writers[w].graph
    BY GraphFields DEF HistoryInv, WritersOK, Sound, SavedBy, In, After
  <1>2. \A a \in acknowledged : a.id \in Ids
    BY DEF HistoryInv, TypeOK
  <1> QED BY <1>1, <1>2 DEF Saved

\* A step of one save that leaves workflow.json and saves nothing, but for the current
\* revision: it goes on with its graph, or takes one that succeeds the current revision.
LEMMA LineageKept ==
    ASSUME HistoryInv, LineageOK, Keeps(files, files'), NEW w \in Writers,
           head' = head, overlapped' = overlapped, abandoned' = abandoned,
           Saved' \subseteq Saved \/ (Readable /\ Saved' \subseteq Saved \cup {Id(head)}),
           \A v \in Writers : v # w => writers'[v] = writers[v],
           ~In(writers'[w], {"overwriting"}),
           In(writers'[w], Unsaved) =>
              \/ In(writers[w], Unsaved) /\ writers'[w].graph = writers[w].graph
              \/ head # Empty /\ Succeeds(writers'[w].graph)
    PROVE  LineageOK'
  <1>0. \A i \in Ids : Whole(i) => Behind(i) \subseteq Behind(i)'
    BY LineageGrows DEF Behind
  <1>1. ~(Readable /\ head \in {Absent, Empty}) /\ Empty # Absent
    BY PlaceholdersAreNoGraphs DEF Readable
  <1>2. ~overlapped' => (head = Absent => Saved = {})'
    BY <1>1 DEF LineageOK
  <1>3. ASSUME ~overlapped'
        PROVE  (Readable => Saved \subseteq Behind(Id(head)))'
    <2> SUFFICES ASSUME Readable'
                 PROVE  (Saved \subseteq Behind(Id(head)))'
      OBVIOUS
    <2>1. Readable /\ Id(head) \in Ids /\ Id(head)' = Id(head) /\ Whole(Id(head))
      BY GraphFields DEF Readable, Id, HistoryInv, HeadOK, Whole
    <2>2. Saved \subseteq Behind(Id(head)) /\ Id(head) \in Behind(Id(head))
      BY <1>3, <2>1, LineageStarts DEF LineageOK, Behind
    <2>3. Saved' \subseteq Behind(Id(head))
      BY <2>2
    <2>4. Behind(Id(head)) \subseteq Behind(Id(head))'
      BY <1>0, <2>1
    <2> QED BY <2>3, <2>4
  <1>4. ASSUME ~overlapped', NEW v \in Writers
        PROVE  Alone(v)'
    <2>0. /\ Alone(v) /\ Alone(w)
          /\ v # w => writers'[v] = writers[v]
      BY <1>4 DEF LineageOK
    <2>1. (In(writers[v], Unsaved) => Succeeds(writers[v].graph))'
      <3>1. \A g : Succeeds(g)' <=> Succeeds(g)
        BY DEF Succeeds, Readable, Id, SameWorkflow
      <3> QED BY <2>0, <3>1 DEF Alone
    <2>2. ASSUME In(writers[v], {"overwriting"})'
          PROVE  /\ (head = Empty)'
                 /\ (Saved \subseteq Behind(Id(writers[v].graph)))'
                 /\ (\A u \in Writers : u # v => ~In(writers[u], Saving))'
      <3>1. v # w /\ In(writers[v], {"overwriting"}) /\ writers'[v] = writers[v]
        BY <2>0, <2>2
      <3>2. /\ head = Empty /\ Saved \subseteq Behind(Id(writers[v].graph))
            /\ \A u \in Writers : u # v => ~In(writers[u], Saving)
        BY <2>0, <3>1 DEF Alone
      <3>3. Saved' \subseteq Saved
        BY <1>1, <3>2
      <3>4. /\ Id(writers[v].graph) \in Ids /\ Id(writers[v].graph)' = Id(writers[v].graph)
            /\ Whole(Id(writers[v].graph))
        BY <3>1, GraphFields DEF HistoryInv, WritersOK, Sound, In, Id, Whole
      <3>5. (Saved \subseteq Behind(Id(writers[v].graph)))'
        BY <1>0, <3>2, <3>3, <3>4
      <3>6. ~In(writers'[w], Saving)
        <4>1. In(writers'[w], Saving) => In(writers'[w], Unsaved)
          BY DEF In, Saving, Unsaved
        <4>2. ~In(writers[w], Unsaved)
          BY <3>1, <3>2 DEF In, Saving, Unsaved
        <4> QED BY <3>2, <4>1, <4>2
      <3>7. \A u \in Writers : u # v => ~In(writers'[u], Saving)
        BY <3>2, <3>6
      <3> QED BY <3>2, <3>5, <3>7
    <2> QED BY <2>1, <2>2 DEF Alone
  <1> QED BY <1>2, <1>3, <1>4 DEF LineageOK

\* A save that goes on without entering the saved ones, or is told to its caller, adds
\* nothing to what is saved.
LEMMA SavedShrinks ==
    ASSUME NEW w \in Writers, \A v \in Writers : v # w => writers'[v] = writers[v],
           SavedBy(writers'[w]) => SavedBy(writers[w]) /\ writers'[w].graph = writers[w].graph,
           \A a \in acknowledged' \ acknowledged :
               SavedBy(writers[w]) /\ a.id = Id(writers[w].graph)
    PROVE  Saved' \subseteq Saved
  <1>1. \A g : Id(g)' = Id(g)
    BY DEF Id
  <1>2. \A a \in acknowledged' : a.id \in Saved
    BY DEF Saved
  <1>3. \A v \in Writers : SavedBy(writers'[v]) => Id(writers'[v].graph) \in Saved
    BY DEF Saved
  <1> QED BY <1>2, <1>3 DEF Saved, SavedBy, In

\* The graph that a save is resolved to succeeds the current revision and follows the
\* one that its author saw.
LEMMA ResolvedSucceeds ==
    ASSUME HistoryInv, NEW w \in Writers, Kin(writers[w]), Resolve(w)
    PROVE  Succeeds(writers'[w].graph) /\ head # Empty /\ Follows(writers'[w])
  <1>1. PICK stamp \in Stamps :
           LET graph == ResolveRevision(writers[w].content, stamp)
           IN  /\ graph \in Graphs
               /\ writers'[w].expected = writers[w].expected
               /\ writers'[w].graph = graph
    BY ResolveTypes DEF HistoryInv
  <1> DEFINE g == ResolveRevision(writers[w].content, stamp)
  <1>2. g \in Graphs /\ writers'[w].expected = writers[w].expected /\ writers'[w].graph = g
    BY <1>1
  <1>3. /\ Readable \/ head = Absent
        /\ writers[w].expected # NoRevision => Readable /\ Id(head) = writers[w].expected
    BY DEF Resolve, CanPersist
  <1>4. Readable => \/ g = head
                    \/ g.prev = Id(head)
                    \/ ~SameWorkflow(writers[w].content) /\ g.content = writers[w].content
    <2> DEFINE h == [number |-> head.number + 1, content |-> writers[w].content,
                     prev |-> Id(head), stamp |-> stamp]
               r == [number |-> 1, content |-> writers[w].content, prev |-> NoRevision,
                     stamp |-> stamp]
    <2>1. h.prev = Id(head) /\ r.content = writers[w].content
      OBVIOUS
    <2>2. Readable => g \in {head, h} \/ (~SameWorkflow(writers[w].content) /\ g = r)
      BY DEF ResolveRevision
    <2> QED BY <2>1, <2>2
  <1> HIDE DEF g
  <1>5. head # Empty
    BY <1>3, PlaceholdersAreNoGraphs DEF Readable
  <1>6. Succeeds(g)
    BY <1>3, <1>4 DEF Succeeds
  <1>7. writers[w].expected # NoRevision => writers[w].expected \in {Id(g), g.prev}
    <2> HAVE writers[w].expected # NoRevision
    <2>1. Readable /\ Id(head) = writers[w].expected /\ Id(head)[2] = head.content
      BY <1>3, GraphFields DEF Readable
    <2>2. writers[w] # Idle
      BY DEF Resolve, At
    <2>3. SameWorkflow(writers[w].content)
      BY <2>1, <2>2 DEF Kin, SameWorkflow
    <2> QED BY <1>4, <2>1, <2>3
  <1> QED BY <1>2, <1>5, <1>6, <1>7 DEF Follows

\* workflow.json is emptied.
LEMMA TruncateLineage ==
    ASSUME HistoryInv, HistoryInv', LineageOK, NEW w \in Writers, TruncateHead(w)
    PROVE  LineageOK'
  <1> DEFINE g == writers[w].graph
  <1>0. /\ In(writers[w], Unsaved) /\ writers[w].at = "recorded" /\ writers[w] # Idle
        /\ head' = Empty /\ files' = files /\ acknowledged' = acknowledged
        /\ Moves(w, "overwriting")
    BY DEF TruncateHead, At, In, Unsaved
  <1>1. /\ writers'[w].at = "overwriting" /\ writers'[w].graph = g
        /\ \A v \in Writers : v # w => writers'[v] = writers[v]
    BY <1>0, MovesTypes DEF HistoryInv, Stages, Saving
  <1>2. g \in Graphs /\ files[Id(g)] = g /\ Id(g) \in Ids
    BY <1>0, GraphFields DEF HistoryInv, WritersOK, Sound
  <1>a. /\ abandoned \subseteq abandoned'
        /\ Readable /\ ~SameWorkflow(g.content) => Ancestry(Id(head)) \subseteq abandoned'
    BY DEF TruncateHead
  <1>3. Saved' \subseteq Saved
    <2>1. ~SavedBy(writers'[w])
      BY <1>1 DEF SavedBy, In, After
    <2> QED BY <1>0, <1>1, <2>1, SavedShrinks
  <1> HIDE DEF g
  <1>4. Empty # Absent /\ Empty \notin Graphs
    BY PlaceholdersAreNoGraphs
  <1>5. ASSUME ~overlapped'
        PROVE  ~overlapped /\ \A v \in Writers : v # w => ~In(writers[v], Saving)
    BY <1>5 DEF TruncateHead, At, In
  <1>6. ASSUME ~overlapped
        PROVE  Saved \subseteq Ancestry(Id(g)) \cup abandoned'
    <2>1. Succeeds(g) /\ (head = Absent => Saved = {})
          /\ (Readable => Saved \subseteq Ancestry(Id(head)) \cup abandoned)
      BY <1>0, <1>6 DEF LineageOK, Alone, Behind, g
    <2>2. CASE Readable /\ g.prev = Id(head)
      <3>1. Id(head) \in Ids /\ Whole(Id(g)) /\ files[Id(g)].prev = Id(head)
        BY <1>2, <2>2, GraphFields DEF Readable, Whole
      <3>2. Ancestry(Id(head)) \subseteq Ancestry(Id(g))
        BY <1>2, <3>1, LineageOfChild
      <3> QED BY <1>a, <2>1, <2>2, <3>2
    <2>3. CASE Readable /\ ~SameWorkflow(g.content)
      BY <1>a, <2>1, <2>3
    <2> QED BY <1>a, <2>1, <2>2, <2>3 DEF Succeeds
  <1>7. ASSUME ~overlapped', NEW v \in Writers
        PROVE  Alone(v)'
    <2>0. ~overlapped /\ \A u \in Writers : u # w => ~In(writers'[u], Saving)
      BY <1>1, <1>5, <1>7
    <2>1. CASE v # w
      <3>1. ~In(writers'[v], Unsaved) /\ ~In(writers'[v], {"overwriting"})
        BY <2>0, <2>1 DEF In, Unsaved, Saving
      <3> QED BY <3>1 DEF Alone
    <2>2. CASE v = w
      <3>1. ~In(writers'[w], Unsaved)
        BY <1>1 DEF In, Unsaved
      <3>2. Id(writers[w].graph)' = Id(g)
        BY <1>1 DEF Id, g
      <3>3. \A i \in Ids : Whole(i) => Ancestry(i) \subseteq Ancestry(i)'
        BY <1>0, LineageGrows DEF Keeps
      <3>4. (Saved \subseteq Behind(Id(writers[w].graph)))'
        <4>1. Ancestry(Id(g)) \subseteq Ancestry(Id(writers[w].graph))'
          BY <1>2, <3>2, <3>3 DEF Whole
        <4> QED BY <1>3, <1>6, <2>0, <4>1 DEF Behind
      <3> QED BY <1>0, <2>0, <2>2, <3>1, <3>4 DEF Alone
    <2> QED BY <2>1, <2>2
  <1>8. ~Readable' /\ head' # Absent
    BY <1>0, <1>4 DEF Readable
  <1> QED BY <1>7, <1>8 DEF LineageOK

\* workflow.json is filled again.
LEMMA FillLineage ==
    ASSUME HistoryInv, HistoryInv', LineageOK, NEW w \in Writers, FillHead(w)
    PROVE  LineageOK'
  <1> DEFINE g == writers[w].graph
  <1>0. /\ In(writers[w], {"overwriting"}) /\ writers[w].at = "overwriting"
        /\ writers[w] # Idle /\ files' = files /\ acknowledged' = acknowledged
        /\ overlapped' = overlapped /\ abandoned' = abandoned /\ Moves(w, "written")
        /\ head' = g \/ (head # Empty /\ head' = Garbled)
    BY DEF FillHead, At, In
  <1>1. /\ writers'[w].at = "written" /\ writers'[w].graph = g
        /\ \A v \in Writers : v # w => writers'[v] = writers[v]
    BY <1>0, MovesTypes DEF HistoryInv, Stages
  <1>2. g \in Graphs /\ files[Id(g)] = g /\ Id(g) \in Ids
    BY <1>0, GraphFields DEF HistoryInv, WritersOK, Sound
  <1> HIDE DEF g
  <1>4. ASSUME ~overlapped
        PROVE  /\ Saved' \subseteq Behind(Id(g)) /\ head' = g
               /\ \A v \in Writers : ~In(writers'[v], Saving)
    <2>1. /\ head = Empty /\ Saved \subseteq Behind(Id(g))
          /\ \A v \in Writers : v # w => ~In(writers[v], Saving)
      BY <1>0, <1>4 DEF LineageOK, Alone, g
    <2>2. Saved' \subseteq Saved \cup {Id(g)}
      BY <1>0, <1>1 DEF Saved, Id
    <2>3. ~In(writers'[w], Saving)
      BY <1>1 DEF In, Saving
    <2>4. Id(g) \in Behind(Id(g))
      BY <1>2, LineageStarts DEF Behind, Whole
    <2> QED BY <1>0, <1>1, <1>2, <2>1, <2>2, <2>3, <2>4
  <1>5. ASSUME ~overlapped'
        PROVE  (Saved \subseteq Behind(Id(head)))' /\ head' # Absent
    <2>1. Saved' \subseteq Behind(Id(g)) /\ head' = g /\ g # Absent
      BY <1>0, <1>2, <1>4, <1>5, GraphFields
    <2>2. Id(head)' = Id(g)
      BY <2>1 DEF Id
    <2>3. \A i \in Ids : Whole(i) => Behind(i) \subseteq Behind(i)'
      BY <1>0, LineageGrows DEF Keeps, Behind
    <2>4. Behind(Id(g)) \subseteq Behind(Id(head))'
      BY <1>2, <2>2, <2>3 DEF Whole
    <2> QED BY <2>1, <2>4
  <1>6. ASSUME ~overlapped', NEW v \in Writers
        PROVE  Alone(v)'
    BY <1>0, <1>4, <1>6 DEF Alone, In, Saving, Unsaved
  <1> QED BY <1>5, <1>6 DEF LineageOK

\* A step of one save, for what is acknowledged and what the saves follow.
LEMMA FollowsKept ==
    ASSUME TypeOK, FollowsOK, AcknowledgedOK, Keeps(files, files'), NEW w \in Writers,
           \A v \in Writers : v # w => writers'[v] = writers[v],
           Follows(writers'[w]),
           \A a \in acknowledged' \ acknowledged : RecordedAfter(a)'
    PROVE  FollowsOK' /\ AcknowledgedOK'
  <1>1. \A x : Follows(x)' <=> Follows(x)
    BY DEF Follows, Id
  <1>2. FollowsOK'
    BY <1>1 DEF FollowsOK
  <1>3. \A a : RecordedAfter(a) => RecordedAfter(a)' \/ a.id \notin Ids
    BY DEF RecordedAfter, Whole, Keeps
  <1>4. \A a \in acknowledged : a.id \in Ids
    BY DEF TypeOK
  <1>5. AcknowledgedOK'
    BY <1>3, <1>4 DEF AcknowledgedOK
  <1> QED BY <1>2, <1>5

\* The revision of a save that is acknowledged is recorded after the one its author saw.
LEMMA AcknowledgedAfter ==
    ASSUME HistoryInv, NEW w \in Writers, SavedBy(writers[w]), Follows(writers[w]),
           files' = files, NEW a, a = [seen |-> writers[w].expected,
                                       id   |-> Id(writers[w].graph)]
    PROVE  RecordedAfter(a)' /\ a.id = Id(writers[w].graph)
  <1> DEFINE g == writers[w].graph
  <1>1. g \in Graphs /\ files[Id(g)] = g /\ Id(g) \in Ids
    BY SavedTypes
  <1>2. a.id = Id(g) /\ a.seen = writers[w].expected
    OBVIOUS
  <1>3. a.seen # NoRevision => a.seen \in {Id(g), g.prev}
    BY <1>2 DEF Follows, SavedBy, In, After
  <1> QED BY <1>1, <1>2, <1>3 DEF RecordedAfter, Whole

\* A step of a save keeps the lineage.
LEMMA RevisionStepLineage ==
    ASSUME HistoryInv, HistoryInv', LineageOK, FollowsOK, AcknowledgedOK,
           NEW w \in Writers, Kin(writers[w]), RevisionStep(w)
    PROVE  LineageOK' /\ FollowsOK' /\ AcknowledgedOK' /\ acknowledged \subseteq acknowledged'
  <1>0. /\ TypeOK /\ Keeps(files, files') /\ Follows(writers[w])
        /\ (writers[w] # Idle => writers[w] \in WriterStates)
    BY RevisionStepHistory DEF HistoryInv, TypeOK, FollowsOK
  <1>1. CASE Resolve(w)
    <2>1. /\ writers'[w] # Idle /\ writers'[w].at = "resolved"
          /\ \A v \in Writers : v # w => writers'[v] = writers[v]
      BY <1>0, <1>1, ResolveTypes
    <2>2. /\ head' = head /\ overlapped' = overlapped /\ acknowledged' = acknowledged
          /\ abandoned' = abandoned
      BY <1>1 DEF Resolve
    <2>3. ~SavedBy(writers'[w]) /\ ~In(writers'[w], {"overwriting"})
      BY <2>1 DEF SavedBy, In, After
    <2>4. Saved' \subseteq Saved
      BY <2>1, <2>2, <2>3, SavedShrinks
    <2>5. Succeeds(writers'[w].graph) /\ head # Empty /\ Follows(writers'[w])
      BY <1>1, ResolvedSucceeds
    <2>6. LineageOK'
      BY <1>0, <2>1, <2>2, <2>3, <2>4, <2>5, LineageKept
    <2> QED BY <1>0, <2>1, <2>2, <2>5, <2>6, FollowsKept
  <1>2. CASE CreateRevision(w) \/ FillRevision(w)
    <2>1. PICK stage \in {"creating", "recorded"} : Moves(w, stage)
      BY <1>2 DEF CreateRevision, FillRevision
    <2>2. /\ writers[w] # Idle /\ In(writers[w], Unsaved)
          /\ head' = head /\ overlapped' = overlapped /\ acknowledged' = acknowledged
          /\ abandoned' = abandoned
      BY <1>2 DEF CreateRevision, FillRevision, At, In, Unsaved
    <2>3. /\ writers'[w].at = stage
          /\ writers'[w].op = writers[w].op
          /\ writers'[w].expected = writers[w].expected
          /\ writers'[w].graph = writers[w].graph
          /\ \A v \in Writers : v # w => writers'[v] = writers[v]
      BY <1>0, <2>1, <2>2, MovesTypes DEF Stages, Saving
    <2>4. ~SavedBy(writers'[w]) /\ ~In(writers'[w], {"overwriting"})
      BY <2>1, <2>3 DEF SavedBy, In, After
    <2>5. Saved' \subseteq Saved
      BY <2>2, <2>3, <2>4, SavedShrinks
    <2>6. LineageOK'
      BY <1>0, <2>2, <2>3, <2>4, <2>5, LineageKept
    <2>7. Follows(writers'[w])
      BY <1>0, <2>2, <2>3 DEF Follows, In, Unsaved
    <2> QED BY <1>0, <2>2, <2>3, <2>6, <2>7, FollowsKept
  <1>3. CASE Refuse(w) \/ Interrupt(w) \/ Acknowledge(w)
    <2>1. /\ Returns(w) /\ head' = head /\ overlapped' = overlapped /\ files' = files
          /\ abandoned' = abandoned
      BY <1>3 DEF Refuse, Interrupt, Acknowledge
    <2>2. writers'[w] = Idle /\ \A v \in Writers : v # w => writers'[v] = writers[v]
      BY <1>0, <2>1, ReturnsTypes
    <2>3. /\ ~SavedBy(writers'[w]) /\ ~In(writers'[w], {"overwriting"})
          /\ ~In(writers'[w], Unsaved) /\ Follows(writers'[w])
      BY <2>2 DEF SavedBy, In, Follows
    <2>4. \A a \in acknowledged' \ acknowledged :
             SavedBy(writers[w]) /\ a.id = Id(writers[w].graph) /\ RecordedAfter(a)'
      <3>1. CASE Acknowledge(w)
        <4>1. SavedBy(writers[w])
          BY <3>1 DEF Acknowledge, At, SavedBy, In, After
        <4> QED BY <1>0, <2>1, <3>1, <4>1, AcknowledgedAfter DEF Acknowledge, Acknowledges
      <3>2. CASE acknowledged' = acknowledged
        BY <3>2
      <3> QED BY <1>3, <3>1, <3>2 DEF Refuse, Interrupt
    <2>5. Saved' \subseteq Saved
      BY <2>2, <2>3, <2>4, SavedShrinks
    <2>6. LineageOK'
      BY <1>0, <2>1, <2>2, <2>3, <2>5, LineageKept
    <2>7. acknowledged \subseteq acknowledged'
      BY <1>3 DEF Refuse, Interrupt, Acknowledge, Acknowledges
    <2> QED BY <1>0, <2>2, <2>3, <2>4, <2>6, <2>7, FollowsKept
  <1>4. CASE TruncateHead(w) \/ FillHead(w)
    <2>1. LineageOK'
      BY <1>4, TruncateLineage, FillLineage
    <2>2. PICK stage \in {"overwriting", "written"} : Moves(w, stage)
      BY <1>4 DEF TruncateHead, FillHead
    <2>3. /\ writers[w] # Idle /\ writers[w].at \in {"recorded", "overwriting"}
          /\ acknowledged' = acknowledged
      BY <1>4 DEF TruncateHead, FillHead, At
    <2>4. /\ writers'[w].op = writers[w].op
          /\ writers'[w].expected = writers[w].expected
          /\ writers'[w].graph = writers[w].graph
          /\ \A v \in Writers : v # w => writers'[v] = writers[v]
      BY <1>0, <2>2, <2>3, MovesTypes DEF Stages, Saving
    <2>5. Follows(writers'[w])
      BY <1>0, <2>3, <2>4 DEF Follows
    <2> QED BY <1>0, <2>1, <2>3, <2>4, <2>5, FollowsKept
  <1> QED BY <1>1, <1>2, <1>3, <1>4 DEF RevisionStep

\* What was merged into the canonical workflow stays merged.
LEMMA HiddenKept ==
    ASSUME MergeInv, HiddenOK, Keeps(files, files'), UNCHANGED mergeVars,
           acknowledged \subseteq acknowledged', Finishing' => Finishing
    PROVE  HiddenOK'
  <1>1. MergedRevisions \subseteq MergedRevisions'
    BY MergedKeeps DEF MergeInv, mergeVars
  <1>2. hidden' = hidden /\ resolution' = resolution
    BY DEF mergeVars
  <1> QED BY <1>1, <1>2 DEF HiddenOK

\* The lineage holds at the start.
LEMMA LineageInitially ==
    ASSUME MergeInit
    PROVE  LineageInv
  <1>1. /\ MergeInv /\ acknowledged = {} /\ hidden = FALSE
        /\ \A w \in Writers : writers[w] = Idle
    BY MergeInitially DEF MergeInit, Init
  <1>2. Saved = {}
    BY <1>1 DEF Saved, SavedBy, In
  <1>3. LineageOK
    BY <1>1, <1>2 DEF LineageOK, Alone, In
  <1>4. FollowsOK /\ AcknowledgedOK
    BY <1>1 DEF FollowsOK, Follows, AcknowledgedOK
  <1>5. HiddenOK
    BY <1>1, ProductIsAWriter DEF HiddenOK, Finishing, At
  <1> QED BY <1>1, <1>3, <1>4, <1>5 DEF LineageInv

\* A save, or a decision of the product store, begins.
LEMMA BeginLineage ==
    ASSUME LineageInv, MergeInv', NEW w \in Writers, files' = files, head' = head,
           overlapped' = overlapped, abandoned' = abandoned, acknowledged' = acknowledged,
           UNCHANGED mergeVars,
           \A v \in Writers : v # w => writers'[v] = writers[v],
           writers'[w] # Idle,
           \/ writers'[w].at = "checked"
           \/ writers'[w].op = "keep" /\ writers'[w].at = "written"
           \/ /\ writers'[w].at = "written" /\ Readable /\ writers'[w].graph = head
              /\ writers'[w].expected \in {Id(head), head.prev}
    PROVE  LineageInv'
  <1>0. Keeps(files, files') /\ HistoryInv
    BY DEF Keeps, LineageInv, MergeInv
  <1>1. ~In(writers'[w], {"overwriting"}) /\ ~In(writers'[w], Unsaved)
    BY DEF In, Unsaved
  <1>2. Saved' \subseteq Saved \/ (Readable /\ Saved' \subseteq Saved \cup {Id(head)})
    <2>1. \A v \in Writers : SavedBy(writers'[v]) =>
             \/ Id(writers'[v].graph) \in Saved
             \/ Readable /\ writers'[v].graph = head
      <3>1. SavedBy(writers'[w]) => Readable /\ writers'[w].graph = head
        BY DEF SavedBy, In, After
      <3> QED BY <3>1 DEF Saved
    <2>2. \A g : Id(g)' = Id(g)
      BY DEF Id
    <2>3. \A x : SavedBy(x)' <=> SavedBy(x)
      BY DEF SavedBy, In
    <2>4. CASE Readable
      <3>1. Saved' \subseteq Saved \cup {Id(head)}
        BY <2>1, <2>2, <2>3, <2>4 DEF Saved
      <3> QED BY <2>4, <3>1
    <2>5. CASE ~Readable
      <3>1. Saved' \subseteq Saved
        BY <2>1, <2>2, <2>3, <2>5 DEF Saved
      <3> QED BY <3>1
    <2> QED BY <2>4, <2>5
  <1>3. LineageOK'
    BY <1>0, <1>1, <1>2, LineageKept DEF LineageInv
  <1>4. Follows(writers'[w])
    BY DEF Follows, Readable
  <1>5. FollowsOK' /\ AcknowledgedOK'
    BY <1>0, <1>4, FollowsKept DEF LineageInv, HistoryInv
  <1>6. Finishing' => Finishing
    BY ProductIsAWriter DEF Finishing, At
  <1>7. HiddenOK'
    BY <1>0, <1>6, HiddenKept DEF LineageInv
  <1> QED BY <1>3, <1>5, <1>7 DEF LineageInv

\* The resolution file is written.
LEMMA ResolutionLineage ==
    ASSUME LineageInv, MergeInv', TruncateResolution \/ FillResolution
    PROVE  LineageInv'
  <1>0. /\ TypeOK /\ HistoryInv /\ Product \in Writers /\ Keeps(files, files')
        /\ UNCHANGED <<head, files, acknowledged, abandoned, overlapped, begun, faults>>
        /\ proposal' = proposal /\ hidden' = hidden /\ told' = told
        /\ writers[Product] # Idle /\ writers[Product].op \in {"merge", "keep"}
        /\ writers[Product].at \in {"written", "deciding"}
    BY ProductIsAWriter
       DEF LineageInv, MergeInv, HistoryInv, TruncateResolution, FillResolution, Deciding, At,
           Keeps
  <1>1. PICK stage \in {"deciding", "decided"} :
            /\ Moves(Product, stage)
            /\ stage = "decided" => resolution' = Decision
    BY DEF TruncateResolution, FillResolution
  <1>2. /\ writers'[Product] # Idle /\ writers'[Product].at = stage
        /\ writers'[Product].op = writers[Product].op
        /\ writers'[Product].expected = writers[Product].expected
        /\ writers'[Product].graph = writers[Product].graph
        /\ \A v \in Writers : v # Product => writers'[v] = writers[v]
    BY <1>0, <1>1, MovesTypes DEF Stages
  <1>3. Saved' \subseteq Saved
    <2>1. SavedBy(writers'[Product]) => SavedBy(writers[Product])
      BY <1>0, <1>2 DEF SavedBy, In, After
    <2> QED BY <1>0, <1>2, <2>1, SavedShrinks
  <1>4. ~In(writers'[Product], {"overwriting"}) /\ ~In(writers'[Product], Unsaved)
    BY <1>2 DEF In, Unsaved
  <1>5. LineageOK'
    BY <1>0, <1>2, <1>3, <1>4, LineageKept DEF LineageInv
  <1>6. Follows(writers'[Product])
    BY <1>0, <1>2 DEF LineageInv, FollowsOK, Follows
  <1>7. FollowsOK' /\ AcknowledgedOK'
    BY <1>0, <1>2, <1>6, FollowsKept DEF LineageInv
  <1>8. ~hidden
    BY <1>0 DEF LineageInv, MergeInv, MergeServes
  <1>9. Finishing' => resolution' = "merge"
    BY <1>1, <1>2 DEF Finishing, At, Decision
  <1> QED BY <1>0, <1>5, <1>7, <1>8, <1>9 DEF LineageInv, HiddenOK

\* The product state is saved: a merge is acknowledged and hides the source.
LEMMA SaveLineage ==
    ASSUME LineageInv, MergeInv', SaveDecision
    PROVE  LineageInv'
  <1>0. /\ TypeOK /\ HistoryInv /\ Product \in Writers /\ Keeps(files, files')
        /\ UNCHANGED <<head, files, abandoned, overlapped, begun, faults>>
        /\ proposal' = proposal /\ resolution' = resolution
        /\ writers[Product] # Idle /\ writers[Product].op \in {"merge", "keep"}
        /\ writers[Product].at = "decided" /\ Returns(Product)
    BY ProductIsAWriter DEF LineageInv, MergeInv, HistoryInv, SaveDecision, Deciding, At, Keeps
  <1>1. writers'[Product] = Idle /\ \A v \in Writers : v # Product => writers'[v] = writers[v]
    BY <1>0, ReturnsTypes
  <1>2. /\ ~SavedBy(writers'[Product]) /\ ~In(writers'[Product], {"overwriting"})
        /\ ~In(writers'[Product], Unsaved) /\ Follows(writers'[Product])
    BY <1>1 DEF SavedBy, In, Follows
  <1>3. /\ Serves(writers[Product], proposal) /\ ~hidden /\ Sound(files, writers[Product])
        /\ Follows(writers[Product])
    BY <1>0 DEF LineageInv, MergeInv, MergeServes, HistoryInv, WritersOK, FollowsOK
  <1>4. \A a \in acknowledged' \ acknowledged :
           SavedBy(writers[Product]) /\ a.id = Id(writers[Product].graph) /\ RecordedAfter(a)'
    <2>1. CASE writers[Product].op = "merge"
      <3>1. SavedBy(writers[Product])
        BY <1>0, <2>1 DEF SavedBy, In, After
      <3> QED BY <1>0, <1>3, <2>1, <3>1, AcknowledgedAfter DEF SaveDecision, Acknowledges
    <2>2. CASE writers[Product].op # "merge"
      BY <2>2 DEF SaveDecision
    <2> QED BY <2>1, <2>2
  <1>5. Saved' \subseteq Saved
    BY <1>0, <1>1, <1>2, <1>4, SavedShrinks
  <1>6. LineageOK'
    BY <1>0, <1>1, <1>2, <1>5, LineageKept DEF LineageInv
  <1>7. FollowsOK' /\ AcknowledgedOK'
    BY <1>0, <1>1, <1>2, <1>4, FollowsKept DEF LineageInv
  <1>8. HiddenOK'
    <2>1. ~Finishing'
      BY <1>1 DEF Finishing, At
    <2>2. CASE writers[Product].op = "merge"
      <3> DEFINE g == writers[Product].graph
                 a == [seen |-> writers[Product].expected, id |-> Id(g)]
      <3>1. resolution' = "merge"
        BY <1>0, <2>2 DEF LineageInv, HiddenOK, Finishing, At
      <3>2. /\ g \in Graphs /\ g.content = proposal.content /\ files[Id(g)] = g
            /\ proposal.base \in {Id(g), g.prev} /\ proposal \in Proposals
        BY <1>0, <1>3, <2>2 DEF Serves, Sound
      <3>3. a \in acknowledged' /\ a.id = Id(g)
        BY <2>2 DEF SaveDecision, Acknowledges
      <3> HIDE DEF g, a
      <3>4. Id(g) \in MergedRevisions'
        BY <1>0, <3>2, GraphFields DEF MergedRevisions, Whole
      <3> QED BY <2>1, <3>1, <3>3, <3>4 DEF HiddenOK
    <2>3. CASE writers[Product].op # "merge"
      <3>1. ~hidden'
        BY <2>3 DEF SaveDecision, Hides
      <3> QED BY <2>1, <3>1 DEF HiddenOK
    <2> QED BY <2>2, <2>3
  <1> QED BY <1>6, <1>7, <1>8 DEF LineageInv

\* No step of a save takes it to the decision.
LEMMA SavesDecideNothing ==
    ASSUME HistoryInv, NEW w \in Writers, RevisionStep(w)
    PROVE  Finishing' => Finishing
  <1>0. TypeOK /\ Product \in Writers
    BY ProductIsAWriter DEF HistoryInv
  <1>1. /\ \A v \in Writers : v # w => writers'[v] = writers[v]
        /\ writers'[w] = Idle \/ writers'[w].at # "decided"
    <2>1. CASE Resolve(w)
      BY <1>0, <2>1, ResolveTypes
    <2>2. CASE Refuse(w) \/ Acknowledge(w) \/ Interrupt(w)
      BY <1>0, <2>2, ReturnsTypes DEF Refuse, Acknowledge, Interrupt
    <2>3. CASE CreateRevision(w) \/ FillRevision(w) \/ TruncateHead(w) \/ FillHead(w)
      <3>1. writers[w] # Idle
        BY <2>3 DEF CreateRevision, FillRevision, TruncateHead, FillHead, At
      <3>2. PICK stage \in {"creating", "recorded", "overwriting", "written"} :
               Moves(w, stage)
        BY <2>3 DEF CreateRevision, FillRevision, TruncateHead, FillHead
      <3>3. stage \in Stages
        BY DEF Stages, Saving
      <3> QED BY <1>0, <3>1, <3>2, <3>3, MovesTypes
    <2> QED BY <2>1, <2>2, <2>3 DEF RevisionStep
  <1> QED BY <1>0, <1>1 DEF Finishing, At

\* The product store begins a merge, resumes one or keeps the source as a new workflow.
LEMMA DecideLineage ==
    ASSUME LineageInv, MergeInv', BeginMerge \/ ResumeMerge \/ BeginKeep
    PROVE  LineageInv'
  <1>0. /\ TypeOK /\ Product \in Writers /\ proposal \in Proposals
        /\ UNCHANGED <<head, files, acknowledged, abandoned, overlapped, mergeVars>>
    BY ProductIsAWriter
       DEF LineageInv, MergeInv, HistoryInv, DecisionTypes, BeginMerge, ResumeMerge, BeginKeep,
           CanDecide, Decides
  <1>1. PICK op \in {"merge", "keep"}, at \in {"checked", "written"},
             graph \in Graphs \cup {NoGraph} :
             /\ Begins(Product, op, at, proposal.base, proposal.content, graph)
             /\ \/ at = "checked" \/ op = "keep"
                \/ Readable /\ graph = head /\ proposal.base = head.prev
    <2>1. CASE BeginMerge
      BY <2>1 DEF BeginMerge, Decides
    <2>2. CASE ResumeMerge
      BY <2>2 DEF ResumeMerge, Decides, Applied, Readable
    <2>3. CASE BeginKeep
      BY <2>3 DEF BeginKeep, Decides
    <2> QED BY <2>1, <2>2, <2>3
  <1>2. /\ proposal.base \in Ids \cup {NoRevision} /\ proposal.content \in Contents
        /\ op \in Ops /\ at \in Stages
    BY <1>0 DEF Proposals, Ops, Stages
  <1>3. /\ writers'[Product] # Idle
        /\ writers'[Product].op = op /\ writers'[Product].at = at
        /\ writers'[Product].expected = proposal.base
        /\ writers'[Product].graph = graph
        /\ \A v \in Writers : v # Product => writers'[v] = writers[v]
    BY <1>0, <1>1, <1>2, BeginsTypes
  <1> QED BY <1>0, <1>1, <1>3, BeginLineage

\* A step that leaves the saves and the files alone.
LEMMA StillLineage ==
    ASSUME LineageInv, MergeInv', UNCHANGED vars, resolution' = resolution,
           hidden' = hidden, hidden => proposal' = proposal
    PROVE  LineageInv'
  <1>1. UNCHANGED <<head, files, writers, acknowledged, abandoned, overlapped>>
    BY DEF vars
  <1>2. LineageOK'
    BY <1>1 DEF LineageInv, LineageOK, Readable, Saved, SavedBy, In, Alone, Succeeds, Behind,
                Ancestry, History, ClosedUnderParents, SameWorkflow, Whole, Id
  <1>3. FollowsOK' /\ AcknowledgedOK'
    BY <1>1 DEF LineageInv, FollowsOK, Follows, AcknowledgedOK, RecordedAfter, Whole, Id
  <1>4. HiddenOK'
    BY <1>1 DEF LineageInv, HiddenOK, MergedRevisions, Whole, Finishing, At
  <1> QED BY <1>2, <1>3, <1>4 DEF LineageInv

\* Every step keeps the lineage.
LEMMA LineageInductive ==
    ASSUME LineageInv, KinOK, MergeInv', [MergeNext]_<<vars, mergeVars>>
    PROVE  LineageInv'
  <1>0. /\ MergeInv /\ LineageOK /\ FollowsOK /\ AcknowledgedOK /\ HiddenOK
        /\ HistoryInv /\ HistoryInv' /\ TypeOK
    BY DEF LineageInv, MergeInv, HistoryInv
  <1>1. CASE BeginStep /\ UNCHANGED mergeVars
    <2>1. PICK w \in Writers :
             /\ writers'[w] # Idle /\ writers'[w].at = "checked"
             /\ \A v \in Writers : v # w => writers'[v] = writers[v]
             /\ UNCHANGED <<head, files, acknowledged, abandoned, overlapped>>
      BY <1>0, <1>1, BeginTypes
    <2> QED BY <1>1, <2>1, BeginLineage
  <1>2. CASE \E w \in Writers : RevisionStep(w) /\ UNCHANGED mergeVars
    <2>1. PICK w \in Writers : RevisionStep(w)
      BY <1>2
    <2>0. Kin(writers[w])
      BY DEF KinOK
    <2>2. LineageOK' /\ FollowsOK' /\ AcknowledgedOK' /\ acknowledged \subseteq acknowledged'
      BY <1>0, <2>0, <2>1, RevisionStepLineage
    <2>3. Keeps(files, files') /\ (Finishing' => Finishing)
      BY <1>0, <2>1, RevisionStepHistory, SavesDecideNothing
    <2>4. HiddenOK'
      BY <1>0, <1>2, <2>2, <2>3, HiddenKept
    <2> QED BY <2>2, <2>4 DEF LineageInv
  <1>3. CASE \E content \in Contents : Propose(content)
    <2>1. /\ UNCHANGED vars /\ proposal = NoProposal /\ resolution' = resolution
          /\ hidden' = hidden
      BY <1>3 DEF Propose
    <2>2. ~hidden
      BY <1>0, <2>1, NoProposalIsNone DEF HiddenOK, MergeInv, RecordedMerge
    <2> QED BY <2>1, <2>2, StillLineage
  <1>4. CASE BeginMerge \/ ResumeMerge \/ BeginKeep
    BY <1>4, DecideLineage
  <1>5. CASE RepeatMerge \/ UNCHANGED <<vars, mergeVars>>
    BY <1>5, StillLineage DEF RepeatMerge, mergeVars
  <1>6. CASE TruncateResolution \/ FillResolution
    BY <1>6, ResolutionLineage
  <1>7. CASE SaveDecision
    BY <1>7, SaveLineage
  <1> QED BY <1>1, <1>2, <1>3, <1>4, <1>5, <1>6, <1>7, MergeSteps

\* The invariant of the lineage holds in every state.
LEMMA LineageInvariant == MergeSpec => []LineageInv
  <1>1. MergeInit => LineageInv
    BY LineageInitially
  <1>2. LineageInv /\ KinOK /\ MergeInv' /\ [MergeNext]_<<vars, mergeVars>> => LineageInv'
    BY LineageInductive
  <1> QED BY <1>1, <1>2, MergeInvariant, PTL DEF MergeSpec

\* A save that was acknowledged is in the history for good, right after the revision its
\* author looked at, and unless saves overlapped the current revision descends from it, or
\* the save of another workflow left it behind: for any number of writers, contents, saves, crashes and failed writes.
THEOREM AcknowledgedSavesAreNotLost == MergeSpec => []AcknowledgedSavesLast
  <1>1. LineageInv => AcknowledgedSavesLast
    <2> SUFFICES ASSUME LineageInv, NEW a \in acknowledged
                 PROVE  /\ RecordedAfter(a)
                        /\ ~overlapped /\ Readable => a.id \in Behind(Id(head))
      BY DEF AcknowledgedSavesLast, RecordedAfter, Behind
    <2>1. a.id \in Saved
      BY DEF Saved
    <2> QED BY <2>1 DEF LineageInv, AcknowledgedOK, LineageOK
  <1> QED BY <1>1, LineageInvariant, PTL

\* A source that a merge has hidden lives on: the decision is recorded, and unless saves
\* overlapped the current revision descends from one that holds the merged content, or the
\* save of another workflow left that one behind.
THEOREM HiddenSourcesLiveOn == MergeSpec => []HiddenSourcesWereMerged
  <1>1. LineageInv => HiddenSourcesWereMerged
    <2> SUFFICES ASSUME LineageInv, hidden
                 PROVE  /\ resolution = "merge"
                        /\ ~overlapped /\ Readable =>
                               MergedRevisions \cap Behind(Id(head)) # {}
      BY DEF HiddenSourcesWereMerged, Behind
    <2>1. PICK a \in acknowledged : a.id \in MergedRevisions
      BY DEF LineageInv, HiddenOK
    <2>2. a.id \in Saved
      BY DEF Saved
    <2> QED BY <2>1, <2>2 DEF LineageInv, HiddenOK, LineageOK
  <1> QED BY <1>1, LineageInvariant, PTL
================================================================================
