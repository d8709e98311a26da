------------------------- MODULE McpWorkflowRunsProofs -------------------------
(***************************************************************************)
(* Theorems about McpWorkflowRuns for any hosts, runs, workflows and       *)
(* revisions: the types, the stored runs, what replies promise, and the    *)
(* refinement of RunLedger.                                                *)
(***************************************************************************)
EXTENDS McpWorkflowRuns, WorkflowGraphProofs

\* Every revision the service can load has a graph of the right shape, because
\* validateWorkflowGraph accepted it.
LEMMA GraphsHaveShape == \A v \in Revisions : GraphShape(GraphOf[v])
  BY GraphsAreValid DEF ValidGraph

\* The fields of a run file (persistedRunSchema).
LEMMA RecordFields ==
    ASSUME NEW x, IsRecord(x)
    PROVE  /\ x = [revision |-> x.revision, status |-> x.status,
                   state |-> x.state, results |-> x.results]
           /\ x.revision \in Revisions
           /\ x \in RecordsOf(x.revision)
           /\ x.status \in RunStatuses \cup {"cancelled"}
           /\ x.state \in RunStates(GraphOf[x.revision])
           /\ x.results \in Seq([node : GraphOf[x.revision].nodes,
                                 id   : GraphOf[x.revision].trans])
           /\ x # NoRun
  BY PlaceholdersAreNotValues DEF IsRecord, RecordsOf

\* prepareRun writes a well-formed record at the entry node.
LEMMA NewRecordType ==
    ASSUME NEW v \in Revisions
    PROVE  IsRecord(NewRecord(v)) /\ NewRecord(v).revision = v
  <1>1. StartWorkflowGraph(GraphOf[v]) \in RunStates(GraphOf[v])
    BY GraphsHaveShape, StartSound
  <1>2. StartWorkflowGraph(GraphOf[v]).status \in RunStatuses
    BY <1>1 DEF RunStates
  <1> QED BY <1>1, <1>2 DEF NewRecord, IsRecord, RecordsOf

\* advanceRun turns a record into a record of the same revision.
LEMMA AdvancedType ==
    ASSUME NEW x, IsRecord(x),
           NEW t \in AvailableTransitions(GraphOf[x.revision], x.state)
    PROVE  IsRecord(Advanced(x, t)) /\ Advanced(x, t).revision = x.revision
  <1> DEFINE g == GraphOf[x.revision]
  <1>1. /\ x.revision \in Revisions
        /\ x.state \in RunStates(g)
        /\ x.results \in Seq([node : g.nodes, id : g.trans])
    BY RecordFields
  <1>2. t \in g.trans
    BY DEF AvailableTransitions, Outgoing
  <1>3. Traverse(g, x.state, t) \in RunStates(g)
    BY <1>1, <1>2, GraphsHaveShape, TraverseType
  <1>4. Traverse(g, x.state, t).status \in RunStatuses /\ x.state.node \in g.nodes
    BY <1>1, <1>3 DEF RunStates
  <1>5. Append(x.results, [node |-> x.state.node, id |-> t])
          \in Seq([node : g.nodes, id : g.trans])
    BY <1>1, <1>2, <1>4
  <1> QED BY <1>1, <1>3, <1>4, <1>5 DEF Advanced, IsRecord, RecordsOf

\* cancelRun changes the status only.
LEMMA CancelledType ==
    ASSUME NEW x, IsRecord(x)
    PROVE  IsRecord([x EXCEPT !.status = "cancelled"])
  BY RecordFields DEF IsRecord, RecordsOf

ViewType ==
    /\ view = [h \in Hosts |-> view[h]]
    /\ \A h \in Hosts : view[h] = [r \in RunIds |-> view[h][r]]
    /\ \A h \in Hosts, r \in RunIds : view[h][r] = NoRun \/ IsRecord(view[h][r])

\* A reply shows a record or is lost.
LEMMA ReplyCases ==
    ASSUME ViewType, NEW h \in Hosts, NEW r \in RunIds, NEW x, Reply(h, r, x),
           NEW k \in Hosts, NEW s \in RunIds
    PROVE  view'[k][s] = view[k][s] \/ (k = h /\ s = r /\ view'[k][s] = x)
  BY DEF ViewType, Reply

\* A reply keeps the views well formed.
LEMMA ReplyType ==
    ASSUME ViewType, NEW h \in Hosts, NEW r \in RunIds, NEW x, IsRecord(x), Reply(h, r, x)
    PROVE  ViewType'
  <1>1. view' = [k \in Hosts |-> view'[k]]
    BY DEF ViewType, Reply
  <1>2. \A k \in Hosts : view'[k] = [s \in RunIds |-> view'[k][s]]
    BY DEF ViewType, Reply
  <1>3. \A k \in Hosts, s \in RunIds : view'[k][s] = NoRun \/ IsRecord(view'[k][s])
    BY ReplyCases DEF ViewType
  <1> QED BY <1>1, <1>2, <1>3 DEF ViewType

\* The request taken from the queue is one that was sent.
LEMMA BeginsType ==
    ASSUME queue \in Seq(Requests), NEW q, Begins(q)
    PROVE  q \in Requests /\ queue' \in Seq(Requests)
  BY DEF Begins

\* The service starts well typed.
LEMMA TypeInit == Init => TypeOK
  BY GraphsAreValid DEF Init, TypeOK

\* Every action of the service and of its clients keeps the types.
LEMMA TypeStep == TypeOK /\ [Next]_vars => TypeOK'
  <1>1. SUFFICES ASSUME TypeOK, [Next]_vars
                 PROVE  TypeOK'
    OBVIOUS
  <1>2. ViewType
    BY <1>1 DEF TypeOK, ViewType
  <1>3. ASSUME NEW w \in Workflows, NEW v \in Revisions, EditCanonical(w, v)
        PROVE  TypeOK'
    BY <1>1, <1>3 DEF TypeOK, EditCanonical
  <1>4. ASSUME NEW h \in Hosts, NEW r \in RunIds, NEW w \in Workflows, PrepareRun(h, w, r)
        PROVE  TypeOK'
    <2>1. canonical[w] \in Revisions
      BY <1>1, <1>4 DEF TypeOK, PrepareRun
    <2>2. IsRecord(NewRecord(canonical[w]))
      BY <2>1, NewRecordType
    <2> QED BY <1>1, <1>4, <2>2 DEF TypeOK, PrepareRun
  <1>5. ASSUME NEW h \in Hosts, PersistPrepared(h)
        PROVE  TypeOK'
    <2>1. preparing[h].run \in RunIds /\ IsRecord(preparing[h].record)
      BY <1>1, <1>5 DEF TypeOK, PersistPrepared
    <2>2. ViewType'
      BY <1>2, <1>5, <2>1, ReplyType DEF PersistPrepared
    <2> QED BY <1>1, <1>5, <2>1, <2>2 DEF TypeOK, ViewType, PersistPrepared
  <1>6. ASSUME NEW h \in Hosts, FailPrepared(h)
        PROVE  TypeOK'
    BY <1>1, <1>6 DEF TypeOK, FailPrepared
  <1>7. ASSUME NEW h \in Hosts, NEW r \in RunIds, GetRun(h, r)
        PROVE  TypeOK'
    <2>1. IsRecord(disk[r])
      BY <1>1, <1>7 DEF TypeOK, GetRun
    <2>2. ViewType'
      BY <1>2, <1>7, <2>1, ReplyType DEF GetRun, Reply
    <2> QED BY <1>1, <1>7, <2>2 DEF TypeOK, ViewType, GetRun
  <1>8. ASSUME NEW h \in Hosts, NEW r \in RunIds, NEW kind \in {"advance", "cancel"},
               NEW choice \in AllTransitions \cup {NoChoice},
               SendRequest(h, r, kind, choice)
        PROVE  TypeOK'
    <2> DEFINE x == view[h][r]
               q == [kind |-> kind, host |-> h, run |-> r, node |-> x.state.node,
                     choice |-> choice, seen |-> Len(x.state.history)]
    <2>1. IsRecord(x)
      BY <1>1, <1>8 DEF TypeOK, SendRequest
    <2>2. x.state.node \in AllNodes /\ Len(x.state.history) \in Nat
      <3>1. x.revision \in Revisions /\ x.state \in RunStates(GraphOf[x.revision])
        BY <2>1, RecordFields
      <3>2. /\ x.state.node \in GraphOf[x.revision].nodes
            /\ x.state.history \in Seq([id   : GraphOf[x.revision].trans,
                                        from : GraphOf[x.revision].nodes,
                                        to   : GraphOf[x.revision].nodes])
        BY <3>1 DEF RunStates
      <3> QED BY <3>1, <3>2 DEF AllNodes
    <2>3. q \in Requests
      BY <2>2 DEF Requests
    <2>4. queue' = Append(queue, q)
      BY <1>8 DEF SendRequest
    <2>5. queue' \in Seq(Requests)
      BY <1>1, <2>3, <2>4 DEF TypeOK
    <2>6. sent' \in 0 .. MaxRequests
      BY <1>1, <1>8, GraphsAreValid DEF TypeOK, SendRequest
    <2> QED BY <1>1, <1>8, <2>5, <2>6 DEF TypeOK, SendRequest
  <1>9. CASE StartAdvance
    <2>1. PICK q : /\ Begins(q)
                   /\ Accepts(disk[q.run], q)
                   /\ \E t \in SelectTransition(GraphOf[disk[q.run].revision],
                                                disk[q.run].state, q.choice) :
                        working' = [request |-> q, updated |-> Advanced(disk[q.run], t)]
                   /\ UNCHANGED <<canonical, disk, preparing, view, sent>>
      BY <1>9 DEF StartAdvance
    <2>2. q \in Requests /\ queue' \in Seq(Requests)
      BY <1>1, <2>1, BeginsType DEF TypeOK
    <2>3. IsRecord(disk[q.run])
      BY <1>1, <2>1, <2>2 DEF TypeOK, Accepts, Requests
    <2>4. PICK t \in AvailableTransitions(GraphOf[disk[q.run].revision], disk[q.run].state) :
              working' = [request |-> q, updated |-> Advanced(disk[q.run], t)]
      BY <2>1 DEF SelectTransition
    <2>5. IsRecord(Advanced(disk[q.run], t))
      BY <2>3, AdvancedType
    <2> QED BY <1>1, <2>1, <2>2, <2>4, <2>5 DEF TypeOK
  <1>10. CASE RefuseAdvance
    <2>1. queue' \in Seq(Requests) /\ UNCHANGED <<canonical, disk, working, preparing, view, sent>>
      BY <1>1, <1>10, BeginsType DEF TypeOK, RefuseAdvance
    <2> QED BY <1>1, <2>1 DEF TypeOK
  <1>11. CASE StartCancel
    <2>1. PICK q : /\ Begins(q)
                   /\ disk[q.run] # NoRun
                   /\ working' = [request |-> q,
                                  updated |-> [disk[q.run] EXCEPT !.status = "cancelled"]]
                   /\ UNCHANGED <<canonical, disk, preparing, view, sent>>
      BY <1>11 DEF StartCancel
    <2>2. q \in Requests /\ queue' \in Seq(Requests)
      BY <1>1, <2>1, BeginsType DEF TypeOK
    <2>3. IsRecord([disk[q.run] EXCEPT !.status = "cancelled"])
      BY <1>1, <2>1, <2>2, CancelledType DEF TypeOK, Requests
    <2> QED BY <1>1, <2>1, <2>2, <2>3 DEF TypeOK
  <1>12. CASE AnswerCancel
    <2>1. PICK q : /\ Begins(q)
                   /\ disk[q.run] # NoRun
                   /\ Reply(q.host, q.run, disk[q.run])
                   /\ UNCHANGED <<canonical, disk, working, preparing, sent>>
      BY <1>12 DEF AnswerCancel
    <2>2. q \in Requests /\ queue' \in Seq(Requests)
      BY <1>1, <2>1, BeginsType DEF TypeOK
    <2>3. q.host \in Hosts /\ q.run \in RunIds /\ IsRecord(disk[q.run])
      BY <1>1, <2>1, <2>2 DEF TypeOK, Requests
    <2>4. ViewType'
      BY <1>2, <2>1, <2>3, ReplyType
    <2> QED BY <1>1, <2>1, <2>2, <2>4 DEF TypeOK, ViewType
  <1>13. CASE PersistUpdate
    <2>1. /\ working.request.host \in Hosts /\ working.request.run \in RunIds
          /\ IsRecord(working.updated)
      BY <1>1, <1>13 DEF TypeOK, PersistUpdate, Requests
    <2>2. ViewType'
      BY <1>2, <1>13, <2>1, ReplyType DEF PersistUpdate
    <2> QED BY <1>1, <1>13, <2>1, <2>2 DEF TypeOK, ViewType, PersistUpdate
  <1>14. CASE FailUpdate
    BY <1>1, <1>14 DEF TypeOK, FailUpdate
  <1>15. CASE Crash
    BY <1>1, <1>15 DEF TypeOK, Crash
  <1>16. CASE UNCHANGED vars
    BY <1>1, <1>16 DEF TypeOK, vars
  <1> QED BY <1>1, <1>3, <1>4, <1>5, <1>6, <1>7, <1>8, <1>9, <1>10, <1>11, <1>12,
             <1>13, <1>14, <1>15, <1>16 DEF Next

\* Every variable keeps its type: the files, the queue, what is in flight and what
\* the hosts saw (src/src/codex-workflow/service.ts).
THEOREM TypeCorrect == Spec => []TypeOK
  BY TypeInit, TypeStep, PTL DEF Spec

----------------------------------------------------------------------------

\* Appending to a sequence keeps its prefixes, and every sequence is a prefix of
\* itself.
LEMMA PrefixOfAppend ==
    ASSUME NEW E, NEW s \in Seq(E), NEW u \in Seq(E), NEW e \in E, IsPrefix(s, u)
    PROVE  IsPrefix(s, Append(u, e))
  <1>1. Len(s) <= Len(u) /\ SubSeq(s, 1, Len(s)) = SubSeq(u, 1, Len(s))
    BY DEF IsPrefix
  <1>2. Len(s) \in Nat /\ Len(u) \in Nat /\ Len(Append(u, e)) = Len(u) + 1
    OBVIOUS
  <1>3. SubSeq(Append(u, e), 1, Len(s)) = SubSeq(u, 1, Len(s))
    BY <1>1, <1>2
  <1> QED BY <1>1, <1>2, <1>3 DEF IsPrefix

\* A history is a prefix of itself.
LEMMA PrefixReflexive ==
    ASSUME NEW E, NEW s \in Seq(E)
    PROVE  IsPrefix(s, s)
  BY DEF IsPrefix

\* Every record is a past of itself.
LEMMA PastReflexive ==
    ASSUME NEW x, IsRecord(x)
    PROVE  IsPast(x, x)
  <1>1. IsPrefix(x.state.history, x.state.history)
    BY RecordFields, PrefixReflexive DEF RunStates
  <1> QED BY <1>1 DEF IsPast

\* prepareRun writes a good record.
LEMMA NewRecordGood ==
    ASSUME NEW v \in Revisions
    PROVE  GoodRecord(NewRecord(v))
  <1> DEFINE x == NewRecord(v)
             R == [i \in DOMAIN x.state.history |->
                      [node |-> x.state.history[i].from, id |-> x.state.history[i].id]]
  <1>1. /\ x.revision = v
        /\ x.state = StartWorkflowGraph(GraphOf[v])
        /\ x.status = x.state.status
        /\ x.results = << >>
    BY DEF NewRecord
  <1>2. SoundState(GraphOf[v], x.state)
    BY <1>1, GraphsHaveShape, StartSound
  <1>3. x.state.history = << >>
    BY <1>1 DEF StartWorkflowGraph
  <1>4. x.results = R
    BY <1>1, <1>3
  <1> QED BY <1>1, <1>2, <1>4 DEF GoodRecord

\* advanceRun turns a good open record into a good one and forgets nothing of what
\* was true of it before.
LEMMA AdvancedGood ==
    ASSUME NEW x, IsRecord(x), GoodRecord(x), ~Final(x.status),
           NEW t \in AvailableTransitions(GraphOf[x.revision], x.state),
           RetryBudgetLeft(GraphOf[x.revision], x.state, t)
    PROVE  /\ GoodRecord(Advanced(x, t))
           /\ \A old : IsRecord(old) /\ IsPast(old, x) => IsPast(old, Advanced(x, t))
  <1> DEFINE g == GraphOf[x.revision]
             E == [id : g.trans, from : g.nodes, to : g.nodes]
             e == [id |-> t, from |-> g.from[t], to |-> g.to[t]]
             h == x.state.history
             y == Advanced(x, t)
             F(s) == [i \in DOMAIN s |-> [node |-> s[i].from, id |-> s[i].id]]
  <1>1. /\ GraphShape(g)
        /\ x.revision \in Revisions
        /\ x.state \in RunStates(g)
        /\ SoundState(g, x.state)
        /\ t \in Outgoing(g, x.state.node)
    BY RecordFields, GraphsHaveShape DEF GoodRecord, AvailableTransitions
  <1>2. /\ y.revision = x.revision
        /\ y.state = Traverse(g, x.state, t)
        /\ y.status = y.state.status
        /\ y.results = Append(x.results, [node |-> x.state.node, id |-> t])
    BY DEF Advanced
  <1>3. h \in Seq(E) /\ e \in E /\ g.from[t] = x.state.node
    BY <1>1 DEF RunStates, Outgoing, GraphShape
  <1>4. y.state.history = Append(h, e)
    BY <1>2 DEF Traverse
  <1>5. SoundState(g, y.state)
    BY <1>1, <1>2, TraverseSound
  <1>6. F(Append(h, e)) = Append(F(h), [node |-> e.from, id |-> e.id])
    <2> HIDE DEF e, h, E
    <2>1. /\ Append(h, e) \in Seq(E) /\ DOMAIN Append(h, e) = 1 .. Len(h) + 1
          /\ DOMAIN h = 1 .. Len(h) /\ Len(h) \in Nat
          /\ Append(h, e)[Len(h) + 1] = e
          /\ \A i \in 1 .. Len(h) : Append(h, e)[i] = h[i]
      BY <1>3
    <2> DEFINE G(a) == [node |-> a.from, id |-> a.id]
               S == {G(a) : a \in E}
    <2>2. F(h) \in Seq(S)
      BY <1>3, <2>1
    <2>3. Len(F(h)) = Len(h)
      BY <2>1, <2>2
    <2>4. \A i \in 1 .. Len(h) + 1 :
              F(Append(h, e))[i] = Append(F(h), G(e))[i]
      BY <1>3, <2>1, <2>2, <2>3
    <2>5. DOMAIN F(Append(h, e)) = 1 .. Len(h) + 1
      BY <2>1
    <2>6. Append(F(h), G(e)) \in Seq(S) /\ DOMAIN Append(F(h), G(e)) = 1 .. Len(h) + 1
      BY <1>3, <2>1, <2>2, <2>3
    <2> QED BY <2>4, <2>5, <2>6
  <1>7. y.results = F(y.state.history)
    BY <1>2, <1>3, <1>4, <1>6 DEF GoodRecord
  <1>8. GoodRecord(y)
    BY <1>2, <1>5, <1>7 DEF GoodRecord
  <1>9. ASSUME NEW old, IsRecord(old), IsPast(old, x)
        PROVE  IsPast(old, y)
    <2>1. /\ old.revision = x.revision
          /\ IsPrefix(old.state.history, h)
          /\ ~Final(old.status)
      BY <1>9 DEF IsPast
    <2>2. old.state.history \in Seq(E)
      BY <1>9, <2>1, RecordFields DEF RunStates
    <2>3. IsPrefix(old.state.history, y.state.history)
      <3> HIDE DEF E, e, h, y
      <3> QED BY <1>3, <1>4, <2>1, <2>2, PrefixOfAppend
    <2> QED BY <1>2, <2>1, <2>3 DEF IsPast
  <1> QED BY <1>8, <1>9

\* cancelRun does the same without touching the walk.
LEMMA CancelledGood ==
    ASSUME NEW x, IsRecord(x), GoodRecord(x), ~Final(x.status)
    PROVE  /\ GoodRecord([x EXCEPT !.status = "cancelled"])
           /\ \A old : IsPast(old, x) => IsPast(old, [x EXCEPT !.status = "cancelled"])
  <1> DEFINE y == [x EXCEPT !.status = "cancelled"]
  <1>1. /\ y.revision = x.revision /\ y.state = x.state /\ y.results = x.results
        /\ y.status = "cancelled"
    BY RecordFields
  <1>2. x.state.status \notin Outcomes
    BY DEF GoodRecord, Final
  <1>3. GoodRecord(y)
    BY <1>1, <1>2 DEF GoodRecord
  <1>4. ASSUME NEW old, IsPast(old, x)
        PROVE  IsPast(old, y)
    BY <1>1, <1>4 DEF IsPast
  <1> QED BY <1>3, <1>4

----------------------------------------------------------------------------

\* The inductive invariant holds before any run exists.
LEMMA InvInit == Init => Inv
  <1>1. SUFFICES ASSUME Init
                 PROVE  Inv
    OBVIOUS
  <1>2. /\ \A r \in RunIds : disk[r] = NoRun
        /\ \A h \in Hosts : preparing[h] = NoWork
        /\ \A h \in Hosts, r \in RunIds : view[h][r] = NoRun
        /\ working = NoWork
    BY <1>1 DEF Init
  <1> QED BY <1>1, <1>2, TypeInit DEF Inv, RunsAreWalks, ViewsArePast,
             PreparedRunsAreFresh, UpdateFollowsDisk

\* A reply with the stored record keeps every view a past of the stored run.
LEMMA ReplyPast ==
    ASSUME TypeOK, ViewsArePast, UNCHANGED disk, NEW h \in Hosts, NEW r \in RunIds,
           disk[r] # NoRun, Reply(h, r, disk[r])
    PROVE  ViewsArePast'
  <1>1. SUFFICES ASSUME NEW k \in Hosts, NEW s \in RunIds, view'[k][s] # NoRun
                 PROVE  disk[s] # NoRun /\ IsPast(view'[k][s], disk[s])
    BY DEF ViewsArePast
  <1>2. view'[k][s] = view[k][s] \/ (s = r /\ view'[k][s] = disk[r])
    BY ReplyCases DEF TypeOK, ViewType
  <1>3. CASE view'[k][s] = view[k][s]
    BY <1>1, <1>3 DEF ViewsArePast
  <1>4. CASE s = r /\ view'[k][s] = disk[r]
    BY <1>4, PastReflexive DEF TypeOK
  <1> QED BY <1>2, <1>3, <1>4

\* A step that writes record y over run r, of which everything told before is a past,
\* and replies with y or not at all, keeps the stored runs and the views.
LEMMA WriteKeeps ==
    ASSUME TypeOK, RunsAreWalks, ViewsArePast,
           NEW h \in Hosts, NEW r \in RunIds, NEW y, IsRecord(y), GoodRecord(y),
           disk' = [disk EXCEPT ![r] = y], Reply(h, r, y),
           \A old : IsRecord(old) /\ disk[r] # NoRun /\ IsPast(old, disk[r])
                        => IsPast(old, y)
    PROVE  RunsAreWalks' /\ ViewsArePast'
  <1>1. \A s \in RunIds : disk'[s] = IF s = r THEN y ELSE disk[s]
    BY DEF TypeOK
  <1>2. RunsAreWalks'
    BY <1>1 DEF RunsAreWalks
  <1>3. ASSUME NEW k \in Hosts, NEW s \in RunIds, view'[k][s] # NoRun
        PROVE  disk'[s] # NoRun /\ IsPast(view'[k][s], disk'[s])
    <2>1. view'[k][s] = view[k][s] \/ (s = r /\ view'[k][s] = y)
      BY ReplyCases DEF TypeOK, ViewType
    <2>2. CASE s = r /\ view'[k][s] = y
      BY <1>1, <2>2, PastReflexive, RecordFields
    <2>3. CASE view'[k][s] = view[k][s]
      <3>1. disk[s] # NoRun /\ IsPast(view[k][s], disk[s]) /\ IsRecord(view[k][s])
        BY <1>3, <2>3 DEF TypeOK, ViewsArePast
      <3>2. CASE s = r
        BY <1>1, <2>3, <3>1, <3>2, RecordFields
      <3>3. CASE s # r
        BY <1>1, <2>3, <3>1, <3>3
      <3> QED BY <3>2, <3>3
    <2> QED BY <2>1, <2>2, <2>3
  <1> QED BY <1>2, <1>3 DEF ViewsArePast

\* Every action keeps the inductive invariant: writes go through the promise chain,
\* so the record being written still follows from the record in the file.
LEMMA InvStep == Inv /\ [Next]_vars => Inv'
  <1>1. SUFFICES ASSUME Inv, [Next]_vars
                 PROVE  Inv'
    OBVIOUS
  <1>2. TypeOK /\ RunsAreWalks /\ ViewsArePast /\ PreparedRunsAreFresh /\ UpdateFollowsDisk
    BY <1>1 DEF Inv
  <1>3. TypeOK'
    BY <1>1, <1>2, TypeStep
  <1> DEFINE Rest == RunsAreWalks /\ ViewsArePast /\ PreparedRunsAreFresh
                         /\ UpdateFollowsDisk
  <1>4. ASSUME UNCHANGED <<disk, working, preparing, view>>
        PROVE  Rest'
    BY <1>2, <1>4 DEF RunsAreWalks, ViewsArePast, PreparedRunsAreFresh, UpdateFollowsDisk
  <1>5. ASSUME NEW w \in Workflows, NEW v \in Revisions, EditCanonical(w, v)
        PROVE  Rest'
    BY <1>4, <1>5 DEF EditCanonical
  <1>6. ASSUME NEW h \in Hosts, NEW r \in RunIds, NEW w \in Workflows, PrepareRun(h, w, r)
        PROVE  Rest'
    <2>1. UNCHANGED <<disk, working, view>> /\ disk[r] = NoRun
      BY <1>6 DEF PrepareRun, FreshRunId
    <2>2. RunsAreWalks' /\ ViewsArePast' /\ UpdateFollowsDisk'
      BY <1>2, <2>1 DEF RunsAreWalks, ViewsArePast, UpdateFollowsDisk
    <2>3. canonical[w] \in Revisions
      BY <1>2, <1>6 DEF TypeOK, PrepareRun
    <2>4. NewRecord(canonical[w]) = NewRecord(NewRecord(canonical[w]).revision)
      BY <2>3, NewRecordType
    <2>5. \A k \in Hosts : preparing'[k] =
              IF k = h THEN [run |-> r, record |-> NewRecord(canonical[w])]
              ELSE preparing[k]
      BY <1>2, <1>6 DEF TypeOK, PrepareRun
    <2>6. \A k \in Hosts : preparing[k] # NoWork => preparing[k].run # r
      BY <1>6 DEF PrepareRun, FreshRunId
    <2>7. PreparedRunsAreFresh'
      BY <1>2, <2>1, <2>4, <2>5, <2>6 DEF PreparedRunsAreFresh
    <2> QED BY <2>2, <2>7
  <1>7. ASSUME NEW h \in Hosts, PersistPrepared(h)
        PROVE  Rest'
    <2> DEFINE r == preparing[h].run
               y == preparing[h].record
    <2>1. /\ r \in RunIds /\ IsRecord(y)
          /\ disk[r] = NoRun
          /\ y = NewRecord(y.revision)
          /\ disk' = [disk EXCEPT ![r] = y]
          /\ preparing' = [preparing EXCEPT ![h] = NoWork]
          /\ Reply(h, r, y)
          /\ UNCHANGED working
      BY <1>2, <1>7 DEF TypeOK, PersistPrepared, PreparedRunsAreFresh
    <2>2. GoodRecord(y)
      BY <2>1, RecordFields, NewRecordGood
    <2>3. RunsAreWalks' /\ ViewsArePast'
      BY <1>2, <2>1, <2>2, WriteKeeps
    <2>4. \A s \in RunIds : s # r => disk'[s] = disk[s]
      BY <1>2, <2>1 DEF TypeOK
    <2>5. \A k \in Hosts : preparing'[k] = IF k = h THEN NoWork ELSE preparing[k]
      BY <1>2, <2>1 DEF TypeOK
    <2>6. ASSUME NEW k \in Hosts, preparing'[k] # NoWork
          PROVE  /\ preparing[k] # NoWork /\ preparing'[k] = preparing[k]
                 /\ preparing[k].run \in RunIds /\ preparing[k].run # r
      BY <1>2, <1>7, <2>5, <2>6 DEF PreparedRunsAreFresh, PersistPrepared, TypeOK
    <2>7. PreparedRunsAreFresh'
      BY <1>2, <2>4, <2>5, <2>6 DEF PreparedRunsAreFresh
    <2>8. UpdateFollowsDisk'
      <3>1. working # NoWork => working.request.run \in RunIds /\ working.request.run # r
        BY <1>2, <2>1 DEF TypeOK, Requests, UpdateFollowsDisk
      <3> QED BY <1>2, <2>1, <2>4, <3>1 DEF UpdateFollowsDisk
    <2> QED BY <2>3, <2>7, <2>8
  <1>8. ASSUME NEW h \in Hosts, preparing' = [preparing EXCEPT ![h] = NoWork],
               UNCHANGED <<disk, working, view>>
        PROVE  Rest'
    <2>1. \A k \in Hosts : preparing'[k] = IF k = h THEN NoWork ELSE preparing[k]
      BY <1>2, <1>8 DEF TypeOK
    <2> QED BY <1>2, <1>8, <2>1 DEF RunsAreWalks, ViewsArePast, PreparedRunsAreFresh,
               UpdateFollowsDisk
  <1>9. ASSUME NEW h \in Hosts, FailPrepared(h)
        PROVE  Rest'
    BY <1>8, <1>9 DEF FailPrepared
  <1>10. ASSUME NEW h \in Hosts, NEW r \in RunIds, disk[r] # NoRun,
                Reply(h, r, disk[r]), UNCHANGED <<disk, working, preparing>>
         PROVE  Rest'
    <2>1. ViewsArePast'
      BY <1>2, <1>10, ReplyPast
    <2> QED BY <1>2, <1>10, <2>1 DEF RunsAreWalks, PreparedRunsAreFresh, UpdateFollowsDisk
  <1>11. ASSUME NEW h \in Hosts, NEW r \in RunIds, GetRun(h, r)
         PROVE  Rest'
    BY <1>10, <1>11 DEF GetRun, Reply
  <1>12. ASSUME NEW h \in Hosts, NEW r \in RunIds, NEW kind \in {"advance", "cancel"},
                NEW choice \in AllTransitions \cup {NoChoice},
                SendRequest(h, r, kind, choice)
         PROVE  Rest'
    BY <1>4, <1>12 DEF SendRequest
  <1>13. ASSUME UNCHANGED <<disk, preparing, view>>, UpdateFollowsDisk'
         PROVE  Rest'
    BY <1>2, <1>13 DEF RunsAreWalks, ViewsArePast, PreparedRunsAreFresh
  <1>14. ASSUME StartAdvance
         PROVE  Rest'
    <2>1. PICK q : /\ Begins(q)
                   /\ Accepts(disk[q.run], q)
                   /\ \E t \in SelectTransition(GraphOf[disk[q.run].revision],
                                                disk[q.run].state, q.choice) :
                        working' = [request |-> q, updated |-> Advanced(disk[q.run], t)]
                   /\ UNCHANGED <<canonical, disk, preparing, view, sent>>
      BY <1>14 DEF StartAdvance
    <2> DEFINE x == disk[q.run]
               g == GraphOf[x.revision]
    <2>2. PICK t \in SelectTransition(g, x.state, q.choice) :
              working' = [request |-> q, updated |-> Advanced(x, t)]
      BY <2>1
    <2>3. \A u \in SelectTransition(g, x.state, q.choice) : RetryBudgetLeft(g, x.state, u)
      <3>1. \E u \in SelectTransition(g, x.state, q.choice) : RetryBudgetLeft(g, x.state, u)
        BY <2>1 DEF Accepts, CanAdvance
      <3>2. IsRecord(x)
        <4>1. q \in Requests
          BY <1>2, <1>14, <2>1, BeginsType DEF TypeOK
        <4> QED BY <1>2, <2>1, <4>1 DEF TypeOK, Accepts, Requests
      <3>3. NoChoice \notin g.trans
        BY <3>2, RecordFields, GraphsHaveShape DEF GraphShape
      <3>4. \A u, v \in SelectTransition(g, x.state, q.choice) : u = v
        BY <3>3 DEF SelectTransition, AvailableTransitions, Outgoing
      <3> QED BY <3>1, <3>4
    <2>4. UpdateFollowsDisk'
      BY <2>1, <2>2, <2>3 DEF UpdateFollowsDisk, Accepts, SelectTransition
    <2> QED BY <1>13, <2>1, <2>4
  <1>15. ASSUME RefuseAdvance
         PROVE  Rest'
    BY <1>4, <1>15 DEF RefuseAdvance
  <1>16. ASSUME StartCancel
         PROVE  Rest'
    <2>1. UpdateFollowsDisk' /\ UNCHANGED <<disk, preparing, view>>
      BY <1>16 DEF StartCancel, UpdateFollowsDisk
    <2> QED BY <1>13, <2>1
  <1>17. ASSUME AnswerCancel
         PROVE  Rest'
    <2>1. PICK q : /\ Begins(q)
                   /\ disk[q.run] # NoRun
                   /\ Reply(q.host, q.run, disk[q.run])
                   /\ UNCHANGED <<canonical, disk, working, preparing, sent>>
      BY <1>17 DEF AnswerCancel
    <2>2. q.host \in Hosts /\ q.run \in RunIds
      BY <1>2, <2>1, BeginsType DEF TypeOK, Requests
    <2> QED BY <1>10, <2>1, <2>2
  <1>18. ASSUME PersistUpdate
         PROVE  Rest'
    <2> DEFINE q == working.request
               x == disk[q.run]
               y == working.updated
    <2>1. /\ q.host \in Hosts /\ q.run \in RunIds
          /\ IsRecord(y)
          /\ x # NoRun /\ IsRecord(x) /\ GoodRecord(x) /\ ~Final(x.status)
          /\ \/ y = [x EXCEPT !.status = "cancelled"]
             \/ \E t \in AvailableTransitions(GraphOf[x.revision], x.state) :
                   /\ RetryBudgetLeft(GraphOf[x.revision], x.state, t)
                   /\ y = Advanced(x, t)
      BY <1>2, <1>18 DEF TypeOK, Requests, PersistUpdate, UpdateFollowsDisk, RunsAreWalks
    <2>2. /\ disk' = [disk EXCEPT ![q.run] = y]
          /\ working' = NoWork
          /\ Reply(q.host, q.run, y)
          /\ UNCHANGED preparing
      BY <1>18 DEF PersistUpdate
    <2>3. /\ GoodRecord(y)
          /\ \A old : IsRecord(old) /\ IsPast(old, x) => IsPast(old, y)
      BY <2>1, AdvancedGood, CancelledGood
    <2>4. RunsAreWalks' /\ ViewsArePast'
      <3> HIDE DEF q, x, y
      <3>1. x = disk[q.run]
        BY DEF x
      <3> QED BY <1>2, <2>1, <2>2, <2>3, <3>1, WriteKeeps
    <2>5. \A s \in RunIds : s # q.run => disk'[s] = disk[s]
      BY <1>2, <2>2 DEF TypeOK
    <2>6. PreparedRunsAreFresh'
      <3>1. \A k \in Hosts : preparing[k] # NoWork =>
                preparing[k].run \in RunIds /\ preparing[k].run # q.run
        BY <1>2, <2>1 DEF TypeOK, PreparedRunsAreFresh
      <3> QED BY <1>2, <2>2, <2>5, <3>1 DEF PreparedRunsAreFresh
    <2>7. UpdateFollowsDisk'
      BY <2>2 DEF UpdateFollowsDisk
    <2> QED BY <2>4, <2>6, <2>7
  <1>19. ASSUME FailUpdate
         PROVE  Rest'
    <2>1. UpdateFollowsDisk' /\ UNCHANGED <<disk, preparing, view>>
      BY <1>19 DEF FailUpdate, UpdateFollowsDisk
    <2> QED BY <1>13, <2>1
  <1>20. ASSUME Crash
         PROVE  Rest'
    <2>1. /\ UNCHANGED <<disk, view>> /\ working' = NoWork
          /\ \A h \in Hosts : preparing'[h] = NoWork
      BY <1>20 DEF Crash
    <2> QED BY <1>2, <2>1 DEF RunsAreWalks, ViewsArePast, PreparedRunsAreFresh,
               UpdateFollowsDisk
  <1>21. ASSUME UNCHANGED vars
         PROVE  Rest'
    BY <1>4, <1>21 DEF vars
  <1>22. Rest'
    BY <1>1, <1>5, <1>6, <1>7, <1>9, <1>11, <1>12, <1>14, <1>15, <1>16, <1>17, <1>18,
       <1>19, <1>20, <1>21 DEF Next
  <1> QED BY <1>3, <1>22 DEF Inv

\* The inductive invariant holds in every behaviour.
LEMMA InvCorrect == Spec => []Inv
  BY InvInit, InvStep, PTL DEF Spec

\* Every stored run is a walk of its pinned graph within its retry budgets, for any
\* number of hosts and any valid graphs (advanceRun, cancelRun, persistRun).
THEOREM StoredRunsAreWalks == Spec => []RunsAreWalks
  <1>1. Inv => RunsAreWalks
    BY DEF Inv
  <1> QED BY <1>1, InvCorrect, PTL

\* What a reply showed is never taken back (persistRun before toRunView).
THEOREM RepliesAreDurable == Spec => []ViewsArePast
  <1>1. Inv => ViewsArePast
    BY DEF Inv
  <1> QED BY <1>1, InvCorrect, PTL

\* The update being written is one step from the stored record (enqueueUpdate).
THEOREM UpdatesAreSerial == Spec => []UpdateFollowsDisk
  <1>1. Inv => UpdateFollowsDisk
    BY DEF Inv
  <1> QED BY <1>1, InvCorrect, PTL

\* An open run that no request can move on waits in the open or has spent every retry that
\* leads on: validateWorkflowTopology refuses every other graph in which a run could end up
\* like this (advanceWorkflowGraph, validateWorkflowTopology).
THEOREM StuckRunsAreSpent == Spec => []OnlySpentRunsAreStuck
  <1>1. ASSUME NEW x, IsRecord(x), GoodRecord(x), ~Final(x.status), Stuck(x),
               ~OpenWait(GraphOf[x.revision], x.state.node)
        PROVE  Outgoing(GraphOf[x.revision], x.state.node) # {} /\ Spent(x)
    <2> DEFINE g == GraphOf[x.revision]
               s == x.state
    <2>1. /\ ValidGraph(g) /\ GraphShape(g) /\ s \in RunStates(g) /\ s.node \in g.nodes
      BY <1>1, RecordFields, GraphsAreValid, GraphsHaveShape DEF RunStates
    <2>2. s.status = StatusForNode(g, s.node) /\ s.status \notin Outcomes /\ RetriesAccounted(g, s)
      BY <1>1 DEF GoodRecord, SoundState, Final
    <2>3. g.type[s.node] # "terminal"
      <3>1. g.outcome[s.node] \in Outcomes
        BY <2>1 DEF GraphShape
      <3> QED BY <2>2, <3>1 DEF StatusForNode
    <2>4. Outgoing(g, s.node) # {}
      BY <1>1, <2>1, <2>3 DEF ValidGraph
    <2>5. ASSUME NEW t \in Outgoing(g, s.node)
          PROVE  g.kind[t] = "retry" /\ Cardinality(Traversals(s.history, t)) = g.max[t]
      <3>1. t \in SelectTransition(g, s, t) /\ t \in g.trans
        BY DEF SelectTransition, AvailableTransitions, Outgoing
      <3>2. ~RetryBudgetLeft(g, s, t)
        BY <1>1, <2>2, <2>3, <3>1 DEF Stuck, CanAdvance
      <3>3. g.kind[t] = "retry" /\ ~(s.attempts[t] + 1 <= g.max[t])
        BY <3>2 DEF RetryBudgetLeft
      <3>4. t \in g.trans /\ g.max[t] \in Nat /\ s.attempts[t] \in Nat
        BY <2>1 DEF Outgoing, GraphShape, RunStates
      <3>5. /\ s.attempts[t] = Cardinality(Traversals(s.history, t))
            /\ s.attempts[t] <= g.max[t]
        BY <2>2, <3>3, <3>4 DEF RetriesAccounted
      <3> QED BY <3>3, <3>4, <3>5
    <2> QED BY <2>4, <2>5 DEF Spent
  <1>2. Inv => OnlySpentRunsAreStuck
    BY <1>1 DEF Inv, TypeOK, RunsAreWalks, OnlySpentRunsAreStuck
  <1> QED BY <1>2, InvCorrect, PTL

----------------------------------------------------------------------------
(* Requests decided on outdated views. *)

\* A stored history has a length.
LEMMA HistoryLength ==
    ASSUME NEW x, IsRecord(x)
    PROVE  x.revision \in Revisions /\ Len(x.state.history) \in Nat
  <1> DEFINE g == GraphOf[x.revision]
  <1>1. x.revision \in Revisions /\ x.state \in RunStates(g)
    BY RecordFields
  <1>2. x.state.history \in Seq([id : g.trans, from : g.nodes, to : g.nodes])
    BY <1>1 DEF RunStates
  <1> QED BY <1>1, <1>2

\* A prefix agrees with the whole as far as it goes.
LEMMA PrefixAgrees ==
    ASSUME NEW E, NEW F, NEW s \in Seq(E), NEW u \in Seq(F), IsPrefix(s, u)
    PROVE  /\ Len(s) \in Nat /\ Len(u) \in Nat /\ Len(s) <= Len(u)
           /\ \A k \in 1 .. Len(s) : u[k] = s[k]
  <1>1. Len(s) <= Len(u) /\ SubSeq(s, 1, Len(s)) = SubSeq(u, 1, Len(s))
    BY DEF IsPrefix
  <1>2. Len(s) \in Nat /\ Len(u) \in Nat
    OBVIOUS
  <1>3. ASSUME NEW k \in 1 .. Len(s)
        PROVE  SubSeq(s, 1, Len(s))[k] = s[k] /\ SubSeq(u, 1, Len(s))[k] = u[k]
    BY <1>1, <1>2
  <1> QED BY <1>1, <1>2, <1>3

\* No step changes what is written of a stored run: it only adds to it.
LEMMA StoredRunsGrow ==
    ASSUME Inv, [Next]_vars, NEW r \in RunIds, disk[r] # NoRun
    PROVE  disk'[r] # NoRun /\ IsPast(disk[r], disk'[r])
  <1>0. /\ TypeOK /\ RunsAreWalks /\ PreparedRunsAreFresh /\ UpdateFollowsDisk
        /\ IsRecord(disk[r])
    <2>1. TypeOK /\ RunsAreWalks /\ PreparedRunsAreFresh /\ UpdateFollowsDisk
      BY DEF Inv
    <2> QED BY <2>1 DEF TypeOK
  <1>1. CASE disk'[r] = disk[r]
    BY <1>0, <1>1, PastReflexive
  <1>2. ASSUME NEW h \in Hosts, PersistPrepared(h)
        PROVE  disk'[r] = disk[r]
    BY <1>0, <1>2 DEF PersistPrepared, PreparedRunsAreFresh, TypeOK
  <1>3. CASE PersistUpdate
    <2> DEFINE q == working.request
               y == working.updated
    <2>1. disk' = [disk EXCEPT ![q.run] = y] /\ q.run \in RunIds /\ IsRecord(y)
      BY <1>0, <1>3 DEF PersistUpdate, TypeOK, Requests
    <2>2. CASE q.run # r
      BY <1>0, <1>1, <2>1, <2>2 DEF TypeOK
    <2>3. CASE q.run = r
      <3>1. disk'[r] = y
        BY <1>0, <2>1, <2>3 DEF TypeOK
      <3>2. /\ GoodRecord(disk[r]) /\ ~Final(disk[r].status)
            /\ \/ y = [disk[r] EXCEPT !.status = "cancelled"]
               \/ \E t \in AvailableTransitions(GraphOf[disk[r].revision], disk[r].state) :
                     /\ RetryBudgetLeft(GraphOf[disk[r].revision], disk[r].state, t)
                     /\ y = Advanced(disk[r], t)
        BY <1>0, <1>3, <2>3 DEF PersistUpdate, UpdateFollowsDisk, RunsAreWalks
      <3>3. IsPast(disk[r], y)
        BY <1>0, <3>2, AdvancedGood, CancelledGood, PastReflexive
      <3> QED BY <2>1, <3>1, <3>3, RecordFields
    <2> QED BY <2>2, <2>3
  <1>4. UNCHANGED disk \/ (\E h \in Hosts : PersistPrepared(h)) \/ PersistUpdate
    BY DEF Next, vars, EditCanonical, PrepareRun, GetRun, SendRequest, FailPrepared,
           StartAdvance, RefuseAdvance, StartCancel, AnswerCancel, FailUpdate, Crash
  <1> QED BY <1>1, <1>2, <1>3, <1>4

\* Where the run stored as x was after k transitions.
NodeAfter(x, k) == IF k = 0 THEN GraphOf[x.revision].entry ELSE x.state.history[k].to

\* The host of q saw no more than what the run has come to in these files, and named
\* the node at which it saw the run.
SawThePast(q, files) ==
    /\ files[q.run] # NoRun
    /\ q.seen <= Len(files[q.run].state.history)
    /\ q.node = NodeAfter(files[q.run], q.seen)

RequestsSawThePast ==
    /\ \A i \in DOMAIN queue : SawThePast(queue[i], disk)
    /\ working # NoWork => SawThePast(working.request, disk)

\* Every view is at the end of its history.
ViewsAreWalks ==
    \A h \in Hosts, r \in RunIds : view[h][r] # NoRun =>
        view[h][r].state.node = NodeAfter(view[h][r], Len(view[h][r].state.history))

\* A good record is at the end of its history.
LEMMA AtTheEnd ==
    ASSUME NEW x, IsRecord(x), GoodRecord(x)
    PROVE  /\ Len(x.state.history) \in Nat
           /\ x.state.node = NodeAfter(x, Len(x.state.history))
  <1>1. IsWalk(GraphOf[x.revision], x.state)
    BY DEF GoodRecord, SoundState
  <1>2. /\ Len(x.state.history) \in Nat
        /\ x.state.history = << >> <=> Len(x.state.history) = 0
    BY RecordFields DEF RunStates
  <1> QED BY <1>1, <1>2 DEF IsWalk, NodeAfter

\* What was after k transitions of a past still is.
LEMMA NodesStay ==
    ASSUME NEW x, NEW y, IsRecord(x), IsRecord(y), IsPast(x, y),
           NEW k \in Nat, k <= Len(x.state.history)
    PROVE  k <= Len(y.state.history) /\ NodeAfter(y, k) = NodeAfter(x, k)
  <1>1. /\ x.state.history \in Seq([id : GraphOf[x.revision].trans,
               from : GraphOf[x.revision].nodes, to : GraphOf[x.revision].nodes])
        /\ y.state.history \in Seq([id : GraphOf[y.revision].trans,
               from : GraphOf[y.revision].nodes, to : GraphOf[y.revision].nodes])
        /\ IsPrefix(x.state.history, y.state.history) /\ x.revision = y.revision
    <2>1. x.state \in RunStates(GraphOf[x.revision]) /\ y.state \in RunStates(GraphOf[y.revision])
      BY RecordFields
    <2> QED BY <2>1 DEF RunStates, IsPast
  <1> DEFINE s == x.state.history
             u == y.state.history
  <1>2. /\ Len(s) \in Nat /\ Len(u) \in Nat /\ Len(s) <= Len(u)
        /\ \A i \in 1 .. Len(s) : u[i] = s[i]
    <2> HIDE DEF s, u
    <2> QED BY <1>1, PrefixAgrees DEF s, u
  <1>3. k # 0 => k \in 1 .. Len(s)
    BY <1>2
  <1> QED BY <1>1, <1>2, <1>3 DEF NodeAfter

\* A request keeps its standing, because histories only grow.
LEMMA StillThePast ==
    ASSUME Inv, [Next]_vars, NEW q \in Requests, SawThePast(q, disk)
    PROVE  SawThePast(q, disk')
  <1>1. q.run \in RunIds /\ q.seen \in Nat
    BY DEF Requests
  <1>2. disk'[q.run] # NoRun /\ IsPast(disk[q.run], disk'[q.run])
    BY <1>1, StoredRunsGrow DEF SawThePast
  <1>3. IsRecord(disk[q.run]) /\ IsRecord(disk'[q.run])
    <2>1. TypeOK /\ TypeOK'
      BY TypeStep DEF Inv
    <2> QED BY <1>1, <1>2, <2>1 DEF SawThePast, TypeOK
  <1>4. q.seen <= Len(disk[q.run].state.history) /\ q.node = NodeAfter(disk[q.run], q.seen)
    BY DEF SawThePast
  <1>5. /\ q.seen <= Len(disk'[q.run].state.history)
        /\ NodeAfter(disk'[q.run], q.seen) = NodeAfter(disk[q.run], q.seen)
    BY <1>1, <1>2, <1>3, <1>4, NodesStay
  <1> QED BY <1>2, <1>4, <1>5 DEF SawThePast

\* A request that the promise chain begins is one that waited in it.
LEMMA BeginsHead ==
    ASSUME queue \in Seq(Requests), NEW q, Begins(q)
    PROVE  /\ 1 \in DOMAIN queue /\ q = queue[1]
           /\ \A i \in DOMAIN queue' : i + 1 \in DOMAIN queue /\ queue'[i] = queue[i + 1]
  BY DEF Begins

\* A host that sends a request has seen a past of the stored run.
LEMMA SendsOfThePast ==
    ASSUME Inv, ViewsAreWalks, NEW h \in Hosts, NEW r \in RunIds, NEW q, view[h][r] # NoRun,
           q.run = r, q.seen = Len(view[h][r].state.history), q.node = view[h][r].state.node
    PROVE  SawThePast(q, disk)
  <1>1. disk[r] # NoRun /\ IsPast(view[h][r], disk[r])
    BY DEF Inv, ViewsArePast
  <1>2. IsRecord(view[h][r]) /\ IsRecord(disk[r])
    BY <1>1 DEF Inv, TypeOK
  <1>3. q.node = NodeAfter(view[h][r], q.seen)
    BY DEF ViewsAreWalks
  <1>4. q.seen \in Nat
    BY <1>2, RecordFields DEF RunStates
  <1> QED BY <1>1, <1>2, <1>3, <1>4, NodesStay DEF SawThePast

\* Every reply shows the record that is then in the file, or shows nothing.
LEMMA RepliesShowTheFile ==
    ASSUME Inv, [Next]_vars, NEW h \in Hosts, NEW r \in RunIds
    PROVE  view'[h][r] = view[h][r] \/ view'[h][r] = disk'[r]
  <1>0. /\ TypeOK /\ ViewType /\ queue \in Seq(Requests)
    BY DEF Inv, TypeOK, ViewType
  <1>1. ASSUME NEW k \in Hosts, NEW s \in RunIds, NEW x, disk'[s] = x, Reply(k, s, x)
        PROVE  view'[h][r] = view[h][r] \/ view'[h][r] = disk'[r]
    BY <1>0, <1>1, ReplyCases
  <1>2. ASSUME NEW k \in Hosts, PersistPrepared(k)
        PROVE  view'[h][r] = view[h][r] \/ view'[h][r] = disk'[r]
    <2>1. /\ preparing[k].run \in RunIds
          /\ disk'[preparing[k].run] = preparing[k].record
          /\ Reply(k, preparing[k].run, preparing[k].record)
      BY <1>0, <1>2 DEF PersistPrepared, TypeOK
    <2> QED BY <1>1, <2>1
  <1>3. CASE PersistUpdate
    <2>1. /\ working.request.run \in RunIds /\ working.request.host \in Hosts
          /\ disk'[working.request.run] = working.updated
          /\ Reply(working.request.host, working.request.run, working.updated)
      BY <1>0, <1>3 DEF PersistUpdate, TypeOK, Requests
    <2> QED BY <1>1, <2>1
  <1>4. CASE AnswerCancel
    <2>1. PICK q : Begins(q) /\ Reply(q.host, q.run, disk[q.run]) /\ UNCHANGED disk
      BY <1>4 DEF AnswerCancel
    <2>2. q.host \in Hosts /\ q.run \in RunIds
      BY <1>0, <2>1, BeginsType DEF Requests
    <2> QED BY <1>1, <2>1, <2>2
  <1>5. ASSUME NEW k \in Hosts, NEW s \in RunIds, GetRun(k, s)
        PROVE  view'[h][r] = view[h][r] \/ view'[h][r] = disk'[r]
    BY <1>1, <1>5 DEF GetRun, Reply
  <1>6. \/ UNCHANGED view \/ AnswerCancel \/ PersistUpdate
        \/ \E k \in Hosts : PersistPrepared(k)
        \/ \E k \in Hosts, s \in RunIds : GetRun(k, s)
    BY DEF Next, vars, EditCanonical, PrepareRun, SendRequest, FailPrepared,
           StartAdvance, RefuseAdvance, StartCancel, FailUpdate, Crash
  <1> QED BY <1>2, <1>3, <1>4, <1>5, <1>6

\* Every step leaves the views at the ends of their histories.
LEMMA ViewsStep == Inv /\ ViewsAreWalks /\ [Next]_vars => ViewsAreWalks'
  <1> SUFFICES ASSUME Inv, ViewsAreWalks, [Next]_vars, NEW h \in Hosts, NEW r \in RunIds,
                      view'[h][r] # NoRun
               PROVE  view'[h][r].state.node =
                          NodeAfter(view'[h][r], Len(view'[h][r].state.history))
    BY DEF ViewsAreWalks, NodeAfter
  <1>1. CASE view'[h][r] = view[h][r]
    BY <1>1 DEF ViewsAreWalks
  <1>2. CASE view'[h][r] = disk'[r]
    <2>1. Inv'
      BY InvStep
    <2>2. IsRecord(disk'[r]) /\ GoodRecord(disk'[r])
      BY <1>2, <2>1 DEF Inv, TypeOK, RunsAreWalks, GoodRecord
    <2> QED BY <1>2, <2>2, AtTheEnd
  <1> QED BY <1>1, <1>2, RepliesShowTheFile

\* Every step keeps the requests within what their runs have come to.
LEMMA PastStep ==
    Inv /\ ViewsAreWalks /\ RequestsSawThePast /\ [Next]_vars => RequestsSawThePast'
  <1> SUFFICES ASSUME Inv, ViewsAreWalks, RequestsSawThePast, [Next]_vars
               PROVE  RequestsSawThePast'
    OBVIOUS
  <1>0. /\ queue \in Seq(Requests)
        /\ working # NoWork => working.request \in Requests
    BY DEF Inv, TypeOK
  <1>1. /\ \A i \in DOMAIN queue : SawThePast(queue[i], disk')
        /\ working # NoWork => SawThePast(working.request, disk')
    BY <1>0, StillThePast DEF RequestsSawThePast
  <1>2. CASE UNCHANGED queue /\ (UNCHANGED working \/ working' = NoWork)
    BY <1>1, <1>2 DEF RequestsSawThePast
  <1>3. CASE queue' = << >> /\ working' = NoWork
    <2>1. \A i \in DOMAIN << >> : FALSE
      OBVIOUS
    <2> QED BY <1>3, <2>1 DEF RequestsSawThePast
  <1>4. ASSUME NEW q, Begins(q),
               \/ UNCHANGED working
               \/ \E y : working' = [request |-> q, updated |-> y]
        PROVE  RequestsSawThePast'
    <2>1. /\ 1 \in DOMAIN queue /\ q = queue[1] /\ working = NoWork
          /\ \A i \in DOMAIN queue' : i + 1 \in DOMAIN queue /\ queue'[i] = queue[i + 1]
      BY <1>0, <1>4, BeginsHead DEF Begins
    <2>2. working' # NoWork => working'.request = q
      BY <1>4, <2>1
    <2> QED BY <1>1, <2>1, <2>2 DEF RequestsSawThePast
  <1>5. ASSUME NEW h \in Hosts, NEW r \in RunIds, NEW kind \in {"advance", "cancel"},
               NEW choice \in AllTransitions \cup {NoChoice},
               SendRequest(h, r, kind, choice)
        PROVE  RequestsSawThePast'
    <2> DEFINE q == [kind   |-> kind, host |-> h, run |-> r,
                     node   |-> view[h][r].state.node, choice |-> choice,
                     seen   |-> Len(view[h][r].state.history)]
    <2>1. UNCHANGED <<disk, working>> /\ view[h][r] # NoRun /\ queue' = Append(queue, q)
      BY <1>5 DEF SendRequest
    <2>2. /\ q.run = r /\ q.seen = Len(view[h][r].state.history)
          /\ q.node = view[h][r].state.node
      OBVIOUS
    <2> HIDE DEF q
    <2>3. SawThePast(q, disk')
      BY <2>1, <2>2, SendsOfThePast
    <2>4. \A i \in DOMAIN queue' : (i \in DOMAIN queue /\ queue'[i] = queue[i]) \/ queue'[i] = q
      BY <1>0, <2>1
    <2> QED BY <1>1, <2>1, <2>3, <2>4 DEF RequestsSawThePast
  <1>6. CASE StartAdvance
    BY <1>4, <1>6 DEF StartAdvance
  <1>7. CASE RefuseAdvance \/ AnswerCancel
    BY <1>4, <1>7 DEF RefuseAdvance, AnswerCancel
  <1>8. CASE StartCancel
    BY <1>4, <1>8 DEF StartCancel
  <1>9. CASE Crash
    BY <1>3, <1>9 DEF Crash
  <1>10. CASE UNCHANGED vars \/ PersistUpdate \/ FailUpdate
    BY <1>2, <1>10 DEF vars, PersistUpdate, FailUpdate
  <1>11. ASSUME NEW h \in Hosts, PersistPrepared(h) \/ FailPrepared(h)
         PROVE  RequestsSawThePast'
    BY <1>2, <1>11 DEF PersistPrepared, FailPrepared
  <1>12. ASSUME NEW w \in Workflows, NEW v \in Revisions, EditCanonical(w, v)
         PROVE  RequestsSawThePast'
    BY <1>2, <1>12 DEF EditCanonical
  <1>13. ASSUME NEW h \in Hosts, NEW r \in RunIds,
                GetRun(h, r) \/ \E w \in Workflows : PrepareRun(h, w, r)
         PROVE  RequestsSawThePast'
    BY <1>2, <1>13 DEF GetRun, PrepareRun
  <1> QED BY <1>5, <1>6, <1>7, <1>8, <1>9, <1>10, <1>11, <1>12, <1>13 DEF Next

\* In every behaviour a request names a node at which its run has been.
LEMMA RequestsArePast == Spec => []RequestsSawThePast
  <1>1. Init => RequestsSawThePast
    <2>1. \A i \in DOMAIN << >> : FALSE
      OBVIOUS
    <2> QED BY <2>1 DEF Init, RequestsSawThePast
  <1>2. Init => ViewsAreWalks
    BY DEF Init, ViewsAreWalks
  <1> QED BY <1>1, <1>2, PastStep, ViewsStep, InvCorrect, PTL DEF Spec

\* The files stand still while an update of theirs is being written, so the guard that
\* was met when the update began still says where the run is.
LEMMA GuardStep ==
    Inv /\ RequestsSawThePast /\ StaleAdvanceOnlyAfterLoop /\ [Next]_vars
        => StaleAdvanceOnlyAfterLoop'
  <1> SUFFICES ASSUME Inv, RequestsSawThePast, StaleAdvanceOnlyAfterLoop, [Next]_vars,
                      working' # NoWork, working'.request.kind = "advance"
               PROVE  LET q       == working'.request
                          history == disk'[q.run].state.history
                      IN  \/ q.seen = Len(history)
                          \/ \E i \in q.seen + 1 .. Len(history) : history[i].to = q.node
    BY DEF StaleAdvanceOnlyAfterLoop
  <1>0. /\ TypeOK /\ PreparedRunsAreFresh /\ UpdateFollowsDisk /\ RunsAreWalks
        /\ queue \in Seq(Requests)
    BY DEF Inv, TypeOK
  <1>1. CASE UNCHANGED <<working, disk>>
    BY <1>1 DEF StaleAdvanceOnlyAfterLoop
  <1>2. CASE StartAdvance
    <2>1. PICK q : /\ Begins(q) /\ Accepts(disk[q.run], q)
                   /\ \E y : working' = [request |-> q, updated |-> y]
                   /\ UNCHANGED disk
      BY <1>2 DEF StartAdvance
    <2> DEFINE x == disk[q.run]
    <2>2. /\ working'.request = q /\ q \in Requests /\ SawThePast(q, disk)
          /\ x # NoRun /\ x.state.node = q.node
      BY <1>0, <2>1, BeginsHead, BeginsType DEF Accepts, RequestsSawThePast
    <2>3. IsRecord(x) /\ GoodRecord(x) /\ q.seen \in Nat
      BY <1>0, <2>2 DEF Requests, TypeOK, RunsAreWalks
    <2> HIDE DEF x
    <2>4. /\ Len(x.state.history) \in Nat
          /\ x.state.node = NodeAfter(x, Len(x.state.history))
      BY <2>3, AtTheEnd
    <2>5. Len(x.state.history) # 0 =>
              x.state.node = x.state.history[Len(x.state.history)].to
      BY <2>4 DEF NodeAfter
    <2>6. q.seen <= Len(x.state.history)
      BY <2>2 DEF SawThePast, x
    <2>7. CASE q.seen = Len(x.state.history)
      BY <2>1, <2>2, <2>7 DEF x
    <2>8. CASE q.seen # Len(x.state.history)
      <3>1. Len(x.state.history) \in q.seen + 1 .. Len(x.state.history)
        BY <2>3, <2>4, <2>6, <2>8
      <3>2. x.state.history[Len(x.state.history)].to = q.node
        BY <2>2, <2>3, <2>4, <2>5, <2>6, <2>8
      <3> QED BY <2>1, <2>2, <3>1, <3>2 DEF x
    <2> QED BY <2>7, <2>8
  <1>3. ASSUME NEW h \in Hosts, PersistPrepared(h)
        PROVE  UNCHANGED working /\ disk'[working.request.run] = disk[working.request.run]
    <2>1. /\ UNCHANGED working
          /\ preparing[h].run \in RunIds /\ disk[preparing[h].run] = NoRun
          /\ disk' = [disk EXCEPT ![preparing[h].run] = preparing[h].record]
      BY <1>0, <1>3 DEF PersistPrepared, PreparedRunsAreFresh, TypeOK
    <2>2. /\ working.request.run \in RunIds
          /\ disk[working.request.run] # NoRun
      BY <1>0, <2>1 DEF TypeOK, Requests, UpdateFollowsDisk
    <2> QED BY <1>0, <2>1, <2>2 DEF TypeOK
  <1>4. \/ UNCHANGED <<working, disk>> \/ StartAdvance
        \/ \E h \in Hosts : PersistPrepared(h)
    <2>1. ~StartCancel
      <3>1. ASSUME StartCancel
            PROVE  FALSE
        <4>1. PICK q : q.kind = "cancel" /\ \E y : working' = [request |-> q, updated |-> y]
          BY <3>1 DEF StartCancel
        <4> QED BY <4>1
      <3> QED BY <3>1
    <2> QED BY <2>1 DEF Next, vars, EditCanonical, PrepareRun, GetRun, SendRequest,
               FailPrepared, RefuseAdvance, AnswerCancel, PersistUpdate, FailUpdate, Crash
  <1>5. CASE \E h \in Hosts : PersistPrepared(h)
    BY <1>3, <1>5 DEF StaleAdvanceOnlyAfterLoop
  <1> QED BY <1>1, <1>2, <1>4, <1>5

\* An advance decided on an outdated view is applied only if the run has come back to the
\* node that the host named, however late it begins and whatever was written meanwhile
\* (advanceRun's currentNodeId guard inside enqueueUpdate).
THEOREM StaleAdvancesNeedALoop == Spec => []StaleAdvanceOnlyAfterLoop
  <1>1. Init => StaleAdvanceOnlyAfterLoop
    BY DEF Init, StaleAdvanceOnlyAfterLoop
  <1> QED BY <1>1, GuardStep, InvCorrect, RequestsArePast, PTL DEF Spec

\* The graphs have no loops: their nodes can be numbered so that every transition goes up.
RisesBy(rank) ==
    \A v \in Revisions :
        /\ \A n \in GraphOf[v].nodes : rank[v][n] \in Int
        /\ \A t \in GraphOf[v].trans : rank[v][GraphOf[v].from[t]] < rank[v][GraphOf[v].to[t]]

\* The run stored as x has only ever gone up.
Risen(rank, x) ==
    \A j, k \in 0 .. Len(x.state.history) :
        j < k => rank[x.revision][NodeAfter(x, j)] < rank[x.revision][NodeAfter(x, k)]

\* Where a run has been is a node of its graph.
LEMMA NodeAfterType ==
    ASSUME NEW x, IsRecord(x), NEW k \in 0 .. Len(x.state.history)
    PROVE  NodeAfter(x, k) \in GraphOf[x.revision].nodes
  <1> DEFINE g == GraphOf[x.revision]
             s == x.state.history
             E == [id : g.trans, from : g.nodes, to : g.nodes]
  <1>1. s \in Seq(E) /\ x.revision \in Revisions
    BY RecordFields DEF RunStates
  <1>2. g.entry \in g.nodes
    BY <1>1, GraphsHaveShape DEF GraphShape
  <1> HIDE DEF g, s, E
  <1>3. k \in 0 .. Len(s)
    BY DEF s
  <1>4. k # 0 => s[k] \in E
    BY <1>1, <1>3
  <1>5. \A e \in E : e.to \in g.nodes
    BY DEF E
  <1> QED BY <1>2, <1>4, <1>5 DEF NodeAfter, g, s

\* A run that takes a transition rises.
LEMMA AdvancedRisen ==
    ASSUME NEW rank, RisesBy(rank), NEW x, IsRecord(x), GoodRecord(x), ~Final(x.status),
           Risen(rank, x), NEW t \in AvailableTransitions(GraphOf[x.revision], x.state),
           RetryBudgetLeft(GraphOf[x.revision], x.state, t)
    PROVE  Risen(rank, Advanced(x, t))
  <1> DEFINE g == GraphOf[x.revision]
             y == Advanced(x, t)
             n == Len(x.state.history)
             R(m) == rank[x.revision][m]
  <1>1. /\ x.revision \in Revisions /\ x.state.node \in g.nodes
        /\ t \in g.trans /\ g.from[t] = x.state.node /\ g.to[t] \in g.nodes
    <2>1. x.revision \in Revisions /\ x.state \in RunStates(g) /\ GraphShape(g)
      BY RecordFields, GraphsHaveShape
    <2> QED BY <2>1 DEF RunStates, AvailableTransitions, Outgoing, GraphShape
  <1>2. y.revision = x.revision /\ y.state.node = g.to[t]
    BY DEF Advanced, Traverse
  <1>3. R(x.state.node) < R(g.to[t]) /\ R(x.state.node) \in Int /\ R(g.to[t]) \in Int
    BY <1>1 DEF RisesBy
  <1>4. n \in Nat /\ x.state.node = NodeAfter(x, n)
    BY AtTheEnd
  <1>5. Len(y.state.history) = n + 1
    <2>1. x.state.history \in Seq([id : g.trans, from : g.nodes, to : g.nodes])
      BY RecordFields DEF RunStates
    <2>2. y.state.history = Append(x.state.history,
                                   [id |-> t, from |-> g.from[t], to |-> g.to[t]])
      BY DEF Advanced, Traverse
    <2> QED BY <2>1, <2>2
  <1>6. IsRecord(y) /\ IsPast(x, y)
    BY AdvancedType, AdvancedGood, PastReflexive
  <1>7. NodeAfter(y, n + 1) = g.to[t]
    BY <1>2, <1>5, <1>6, AdvancedGood, AtTheEnd
  <1> SUFFICES ASSUME NEW j \in 0 .. n + 1, NEW k \in 0 .. n + 1, j < k
               PROVE  R(NodeAfter(y, j)) < R(NodeAfter(y, k))
    BY <1>2, <1>5 DEF Risen
  <1>8. NodeAfter(y, j) = NodeAfter(x, j) /\ (k # n + 1 => NodeAfter(y, k) = NodeAfter(x, k))
    BY <1>4, <1>6, NodesStay
  <1>9. CASE k # n + 1
    <2>1. j \in 0 .. n /\ k \in 0 .. n
      BY <1>4, <1>9
    <2> QED BY <1>8, <1>9, <2>1 DEF Risen
  <1>10. CASE k = n + 1
    <2>1. CASE j = n
      BY <1>3, <1>4, <1>7, <1>8, <1>10, <2>1
    <2>2. CASE j # n
      <3>1. j \in 0 .. n /\ n \in 0 .. n /\ j < n
        BY <1>4, <1>10, <2>2
      <3>2. R(NodeAfter(x, j)) < R(x.state.node)
        BY <1>4, <3>1 DEF Risen
      <3>3. R(NodeAfter(x, j)) \in Int
        BY <1>1, <3>1, NodeAfterType DEF RisesBy
      <3> QED BY <1>3, <1>7, <1>8, <1>10, <3>2, <3>3
    <2> QED BY <2>1, <2>2
  <1> QED BY <1>9, <1>10

\* Without loops every stored run keeps rising.
LEMMA RisenStep ==
    ASSUME NEW rank, RisesBy(rank), Inv, [Next]_vars,
           \A r \in RunIds : disk[r] # NoRun => Risen(rank, disk[r])
    PROVE  \A r \in RunIds : disk'[r] # NoRun => Risen(rank, disk'[r])
  <1>0. TypeOK /\ RunsAreWalks /\ PreparedRunsAreFresh /\ UpdateFollowsDisk
    BY DEF Inv
  <1> SUFFICES ASSUME NEW r \in RunIds, disk'[r] # NoRun
               PROVE  Risen(rank, disk'[r])
    OBVIOUS
  <1>1. CASE disk'[r] = disk[r]
    BY <1>1
  <1>2. ASSUME NEW v \in Revisions, disk'[r] = NewRecord(v)
        PROVE  Risen(rank, disk'[r])
    <2>1. disk'[r].state.history = << >>
      BY <1>2 DEF NewRecord, StartWorkflowGraph
    <2>2. Len(disk'[r].state.history) = 0
      BY <2>1
    <2> QED BY <2>2 DEF Risen
  <1>3. ASSUME NEW h \in Hosts, PersistPrepared(h)
        PROVE  Risen(rank, disk'[r])
    <2>1. /\ disk' = [disk EXCEPT ![preparing[h].run] = preparing[h].record]
          /\ preparing[h].run \in RunIds /\ IsRecord(preparing[h].record)
          /\ preparing[h].record = NewRecord(preparing[h].record.revision)
      BY <1>0, <1>3 DEF PersistPrepared, PreparedRunsAreFresh, TypeOK
    <2>2. disk'[r] = disk[r] \/ disk'[r] = preparing[h].record
      BY <1>0, <2>1 DEF TypeOK
    <2> QED BY <1>1, <1>2, <2>1, <2>2, RecordFields
  <1>4. CASE PersistUpdate
    <2> DEFINE q == working.request
               y == working.updated
    <2>1. disk' = [disk EXCEPT ![q.run] = y] /\ q.run \in RunIds /\ working # NoWork
      BY <1>0, <1>4 DEF PersistUpdate, TypeOK, Requests
    <2>2. CASE q.run # r
      BY <1>0, <1>1, <2>1, <2>2 DEF TypeOK
    <2>3. CASE q.run = r
      <3> DEFINE x == disk[r]
      <3>1. disk'[r] = y
        BY <1>0, <2>1, <2>3 DEF TypeOK
      <3>2. /\ IsRecord(x) /\ GoodRecord(x) /\ ~Final(x.status) /\ Risen(rank, x)
            /\ \/ y = [x EXCEPT !.status = "cancelled"]
               \/ \E t \in AvailableTransitions(GraphOf[x.revision], x.state) :
                     /\ RetryBudgetLeft(GraphOf[x.revision], x.state, t)
                     /\ y = Advanced(x, t)
        BY <1>0, <2>1, <2>3 DEF TypeOK, UpdateFollowsDisk, RunsAreWalks
      <3>3. CASE y = [x EXCEPT !.status = "cancelled"]
        <4>1. y.state = x.state /\ y.revision = x.revision
          BY <3>2, <3>3, RecordFields
        <4> QED BY <3>1, <3>2, <4>1 DEF Risen, NodeAfter
      <3> QED BY <3>1, <3>2, <3>3, AdvancedRisen
    <2> QED BY <2>2, <2>3
  <1>5. UNCHANGED disk \/ (\E h \in Hosts : PersistPrepared(h)) \/ PersistUpdate
    BY DEF Next, vars, EditCanonical, PrepareRun, GetRun, SendRequest, FailPrepared,
           StartAdvance, RefuseAdvance, StartCancel, AnswerCancel, FailUpdate, Crash
  <1> QED BY <1>1, <1>3, <1>4, <1>5

\* On workflows without loops the currentNodeId guard is the optimistic concurrency guard
\* that the tool description of advance_workflow_run promises: only a loop lets it take a
\* run that went on for the run that the host saw (advanceRun).
THEOREM GuardIsExactWithoutLoops ==
    ASSUME NEW CONSTANT rank, RisesBy(rank)
    PROVE  Spec => []AdvanceActsOnSeenRun
  <1> DEFINE Rising == \A r \in RunIds : disk[r] # NoRun => Risen(rank, disk[r])
  <1>1. Init => Rising
    BY DEF Init
  <1>2. Inv /\ Rising /\ [Next]_vars => Rising'
    BY RisenStep
  <1>3. Inv /\ Rising /\ RequestsSawThePast /\ StaleAdvanceOnlyAfterLoop => AdvanceActsOnSeenRun
    <2> SUFFICES ASSUME Inv, Rising, RequestsSawThePast, StaleAdvanceOnlyAfterLoop,
                        working # NoWork, working.request.kind = "advance"
                 PROVE  working.request.seen = Len(disk[working.request.run].state.history)
      BY DEF AdvanceActsOnSeenRun
    <2> DEFINE q == working.request
               x == disk[q.run]
    <2>1. /\ IsRecord(x) /\ Risen(rank, x) /\ q.seen \in Nat
          /\ q.seen <= Len(x.state.history) /\ q.node = NodeAfter(x, q.seen)
          /\ \/ q.seen = Len(x.state.history)
             \/ \E i \in q.seen + 1 .. Len(x.state.history) : x.state.history[i].to = q.node
      <3>1. /\ q.run \in RunIds /\ q.seen \in Nat /\ SawThePast(q, disk)
        BY DEF Inv, TypeOK, Requests, RequestsSawThePast
      <3>2. IsRecord(x) /\ Risen(rank, x)
        BY <3>1 DEF Inv, TypeOK, SawThePast
      <3> QED BY <3>1, <3>2 DEF SawThePast, StaleAdvanceOnlyAfterLoop
    <2> HIDE DEF q, x
    <2>2. x.revision \in Revisions /\ Len(x.state.history) \in Nat
      BY <2>1, HistoryLength
    <2>3. ASSUME NEW i \in q.seen + 1 .. Len(x.state.history), x.state.history[i].to = q.node
          PROVE  FALSE
      <3>1. /\ i \in 0 .. Len(x.state.history) /\ q.seen \in 0 .. Len(x.state.history)
            /\ q.seen < i /\ i # 0
        BY <2>1, <2>2
      <3>2. NodeAfter(x, i) = q.node
        BY <2>3, <3>1 DEF NodeAfter
      <3>3. rank[x.revision][q.node] < rank[x.revision][q.node]
        BY <2>1, <3>1, <3>2 DEF Risen
      <3>4. rank[x.revision][q.node] \in Int
        BY <2>1, <2>2, <3>1, <3>2, NodeAfterType DEF RisesBy
      <3> QED BY <3>3, <3>4
    <2>4. q.seen = Len(x.state.history)
      BY <2>1, <2>3
    <2> QED BY <2>4 DEF q, x
  <1> QED BY <1>1, <1>2, <1>3, InvCorrect, RequestsArePast, StaleAdvancesNeedALoop, PTL DEF Spec

----------------------------------------------------------------------------
(* The refinement of RunLedger. *)

\* The fields of the ledger entry of a stored record.
LEMMA FieldsOfEntry ==
    ASSUME NEW x, IsRecord(x)
    PROVE  LedgerEntry(x) = [revision |-> x.revision, phase |-> Phase(x.status),
                             path |-> [i \in DOMAIN x.state.history |->
                                           x.state.history[i].id]]
  BY RecordFields DEF LedgerEntry

\* A run that has a record has an entry.
LEMMA EntryIsNotNoRun ==
    ASSUME NEW x, IsRecord(x)
    PROVE  LedgerEntry(x) # NoRun
  <1> DEFINE g == GraphOf[x.revision]
             h == x.state.history
  <1>1. x.revision \in Revisions /\ x.state \in RunStates(g)
    BY RecordFields
  <1>2. h \in Seq([id : g.trans, from : g.nodes, to : g.nodes])
    BY <1>1 DEF RunStates
  <1>3. \A i \in DOMAIN h : h[i].id \in AllTransitions
    <2>1. ASSUME NEW i \in DOMAIN h
          PROVE  h[i].id \in g.trans
      <3> DEFINE E == [id : g.trans, from : g.nodes, to : g.nodes]
      <3>1. h[i] \in E
        <4> HIDE DEF E, h
        <4>1. h \in Seq(E)
          BY <1>2 DEF E, h
        <4> QED BY <4>1, <2>1
      <3> QED BY <3>1
    <2>2. g.trans \subseteq AllTransitions
      BY <1>1 DEF AllTransitions
    <2> QED BY <2>1, <2>2
  <1>4. [i \in DOMAIN h |-> h[i].id] \in Seq(AllTransitions)
    BY <1>2, <1>3
  <1>5. Phase(x.status) \in {"open", "finished", "cancelled"}
    BY DEF Phase
  <1> QED BY <1>1, <1>4, <1>5, FieldsOfEntry, PlaceholdersAreNotValues

\* The entry of an open record is open, that of a final one is not.
LEMMA OpenEntries ==
    ASSUME NEW x, IsRecord(x)
    PROVE  ~Final(x.status) => LedgerEntry(x).phase = "open"
  <1>1. Phase(x.status) = "open" <=> ~Final(x.status)
    BY RecordFields DEF Phase, Final, Outcomes, RunStatuses
  <1> QED BY <1>1, FieldsOfEntry

\* prepareRun creates an entry with an empty path.
LEMMA NewEntry ==
    ASSUME NEW v \in Revisions
    PROVE  \E phase \in {"open", "finished"} :
              LedgerEntry(NewRecord(v)) = [revision |-> v, phase |-> phase, path |-> << >>]
  <1> DEFINE x == NewRecord(v)
  <1>1. IsRecord(x) /\ x.revision = v
    BY NewRecordType
  <1>2. x.state = StartWorkflowGraph(GraphOf[v]) /\ x.status = x.state.status
    BY DEF NewRecord
  <1>3. x.status \in RunStatuses
    BY <1>1, <1>2, GraphsHaveShape, StartSound DEF RunStates
  <1>4. Phase(x.status) \in {"open", "finished"}
    BY <1>3 DEF Phase, RunStatuses, Outcomes
  <1>5. x.state.history = << >>
    BY <1>2 DEF StartWorkflowGraph
  <1>6. [i \in DOMAIN x.state.history |-> x.state.history[i].id] = << >>
    BY <1>5
  <1>7. LedgerEntry(x) = [revision |-> v, phase |-> Phase(x.status), path |-> << >>]
    BY <1>1, <1>6, FieldsOfEntry
  <1> HIDE DEF x
  <1> QED BY <1>4, <1>7 DEF x

\* advanceRun appends the transition taken to the path of an open entry.
LEMMA StepEntry ==
    ASSUME NEW x, IsRecord(x),
           NEW t \in AvailableTransitions(GraphOf[x.revision], x.state)
    PROVE  \E phase \in {"open", "finished"} :
              LedgerEntry(Advanced(x, t)) =
                  [revision |-> LedgerEntry(x).revision, phase |-> phase,
                   path     |-> Append(LedgerEntry(x).path, t)]
  <1> DEFINE g == GraphOf[x.revision]
             E == [id : g.trans, from : g.nodes, to : g.nodes]
             e == [id |-> t, from |-> g.from[t], to |-> g.to[t]]
             h == x.state.history
             y == Advanced(x, t)
             Path(s) == [i \in DOMAIN s |-> s[i].id]
  <1>1. /\ x.revision \in Revisions /\ GraphShape(g)
        /\ x.state \in RunStates(g)
        /\ t \in g.trans
    BY RecordFields, GraphsHaveShape DEF AvailableTransitions, Outgoing
  <1>2. IsRecord(y) /\ y.revision = x.revision
    BY AdvancedType
  <1>3. y.status = y.state.status /\ y.state = Traverse(g, x.state, t)
    BY DEF Advanced
  <1>4. y.status \in RunStatuses
    BY <1>1, <1>3, TraverseType DEF RunStates
  <1>5. Phase(y.status) \in {"open", "finished"}
    BY <1>4 DEF Phase, RunStatuses, Outcomes
  <1>6. h \in Seq(E) /\ e \in E /\ e.id = t
    BY <1>1 DEF RunStates, GraphShape
  <1>7. y.state.history = Append(h, e)
    BY <1>3 DEF Traverse
  <1>8. Path(Append(h, e)) = Append(Path(h), t)
    <2> HIDE DEF e, h, E
    <2>1. /\ Append(h, e) \in Seq(E) /\ DOMAIN Append(h, e) = 1 .. Len(h) + 1
          /\ DOMAIN h = 1 .. Len(h) /\ Len(h) \in Nat
          /\ Append(h, e)[Len(h) + 1] = e
          /\ \A i \in 1 .. Len(h) : Append(h, e)[i] = h[i]
      BY <1>6
    <2> DEFINE S == {a.id : a \in E}
    <2>2. Path(h) \in Seq(S) /\ t \in S
      BY <1>6, <2>1
    <2>3. Len(Path(h)) = Len(h)
      BY <2>1, <2>2
    <2>4. \A i \in 1 .. Len(h) + 1 : Path(Append(h, e))[i] = Append(Path(h), t)[i]
      BY <1>6, <2>1, <2>2, <2>3
    <2>5. DOMAIN Path(Append(h, e)) = 1 .. Len(h) + 1
      BY <2>1
    <2>6. Append(Path(h), t) \in Seq(S) /\ DOMAIN Append(Path(h), t) = 1 .. Len(h) + 1
      BY <2>1, <2>2, <2>3
    <2> DEFINE p == Path(Append(h, e))
               q == Append(Path(h), t)
               n == Len(h) + 1
    <2>7. p = [i \in 1 .. n |-> p[i]]
      BY <2>5
    <2>8. q = [i \in 1 .. n |-> q[i]]
      <3> HIDE DEF q, n, S
      <3> QED BY <2>6 DEF n, q
    <2>9. \A i \in 1 .. n : p[i] = q[i]
      BY <2>4
    <2> HIDE DEF p, q, n
    <2>10. p = q
      BY <2>7, <2>8, <2>9
    <2> QED BY <2>10 DEF p, q
  <1>9. LedgerEntry(x).revision = x.revision /\ LedgerEntry(x).path = Path(h)
    BY FieldsOfEntry
  <1>10. LedgerEntry(y) = [revision |-> y.revision, phase |-> Phase(y.status),
                           path |-> Path(y.state.history)]
    BY <1>2, FieldsOfEntry
  <1>11. LedgerEntry(y) = [revision |-> LedgerEntry(x).revision,
                           phase |-> Phase(y.status), path |-> Append(LedgerEntry(x).path, t)]
    BY <1>2, <1>7, <1>8, <1>9, <1>10
  <1> HIDE DEF y
  <1> QED BY <1>5, <1>11 DEF y

\* cancelRun closes an open entry and keeps its path.
LEMMA CancelEntry ==
    ASSUME NEW x, IsRecord(x)
    PROVE  LedgerEntry([x EXCEPT !.status = "cancelled"]) =
              [revision |-> LedgerEntry(x).revision, phase |-> "cancelled",
               path     |-> LedgerEntry(x).path]
  <1> DEFINE y == [x EXCEPT !.status = "cancelled"]
  <1>1. IsRecord(y)
    BY CancelledType
  <1>2. y.revision = x.revision /\ y.state = x.state /\ y.status = "cancelled"
    BY RecordFields
  <1>3. Phase(y.status) = "cancelled"
    BY <1>2 DEF Phase, Outcomes
  <1>4. LedgerEntry(x).revision = x.revision
    BY FieldsOfEntry
  <1>5. LedgerEntry(x).path = [i \in DOMAIN x.state.history |-> x.state.history[i].id]
    BY FieldsOfEntry
  <1>6. LedgerEntry(y) = [revision |-> y.revision, phase |-> Phase(y.status),
                          path |-> [i \in DOMAIN y.state.history |->
                                        y.state.history[i].id]]
    BY <1>1, FieldsOfEntry
  <1> HIDE DEF y
  <1>7. LedgerEntry(y) = [revision |-> LedgerEntry(x).revision, phase |-> "cancelled",
                          path |-> LedgerEntry(x).path]
    BY <1>2, <1>3, <1>4, <1>5, <1>6
  <1> QED BY <1>7 DEF y

\* No stored runs is the empty ledger.
LEMMA LedgerInit == Init => Ledger!Init
  <1>1. Init => \A r \in RunIds : LedgerEntry(disk[r]) = NoRun
    BY DEF Init, LedgerEntry
  <1> QED BY <1>1 DEF Ledger!Init, LedgerView

\* A step that writes one file changes one entry.
LEMMA LedgerWrite ==
    ASSUME TypeOK, NEW r \in RunIds, NEW y, disk' = [disk EXCEPT ![r] = y]
    PROVE  LedgerView' = [LedgerView EXCEPT ![r] = LedgerEntry(y)]
  <1>1. \A s \in RunIds : disk'[s] = IF s = r THEN y ELSE disk[s]
    BY DEF TypeOK
  <1>2. LedgerView' = [s \in RunIds |-> LedgerEntry(IF s = r THEN y ELSE disk[s])]
    BY <1>1 DEF LedgerView
  <1>3. \A s \in RunIds : LedgerEntry(IF s = r THEN y ELSE disk[s]) =
                              IF s = r THEN LedgerEntry(y) ELSE LedgerEntry(disk[s])
    OBVIOUS
  <1>4. LedgerView' = [s \in RunIds |-> IF s = r THEN LedgerEntry(y) ELSE LedgerEntry(disk[s])]
    BY <1>2, <1>3
  <1> QED BY <1>4 DEF LedgerView

\* Every step of the service is a step of the ledger, or leaves it alone.
LEMMA LedgerStep == Inv /\ [Next]_vars => [Ledger!Next]_LedgerView
  <1>1. SUFFICES ASSUME Inv, [Next]_vars
                 PROVE  [Ledger!Next]_LedgerView
    OBVIOUS
  <1>2. TypeOK /\ PreparedRunsAreFresh /\ UpdateFollowsDisk
    BY <1>1 DEF Inv
  <1>3. CASE UNCHANGED disk
    BY <1>3 DEF LedgerView
  <1>4. CASE \E h \in Hosts : PersistPrepared(h)
    <2>1. PICK h \in Hosts : PersistPrepared(h)
      BY <1>4
    <2> DEFINE r == preparing[h].run
               y == preparing[h].record
    <2>2. /\ r \in RunIds /\ IsRecord(y) /\ y.revision \in Revisions
          /\ disk[r] = NoRun
          /\ y = NewRecord(y.revision)
          /\ disk' = [disk EXCEPT ![r] = y]
      BY <1>2, <2>1, RecordFields DEF TypeOK, PersistPrepared, PreparedRunsAreFresh
    <2>3. PICK phase \in {"open", "finished"} :
              LedgerEntry(y) = [revision |-> y.revision, phase |-> phase, path |-> << >>]
      BY <2>2, NewEntry
    <2>4. LedgerView[r] = NoRun
      BY <2>2 DEF LedgerView, LedgerEntry
    <2>5. LedgerView' = [LedgerView EXCEPT ![r] = LedgerEntry(y)]
      BY <1>2, <2>2, LedgerWrite
    <2>6. Ledger!Create(r, y.revision, phase)
      BY <2>3, <2>4, <2>5 DEF Ledger!Create
    <2> QED BY <2>2, <2>6 DEF Ledger!Next
  <1>5. CASE PersistUpdate
    <2> DEFINE r == working.request.run
               x == disk[r]
               y == working.updated
    <2>1. /\ r \in RunIds
          /\ IsRecord(x) /\ IsRecord(y)
          /\ ~Final(x.status)
          /\ disk' = [disk EXCEPT ![r] = y]
      BY <1>2, <1>5 DEF TypeOK, Requests, PersistUpdate, UpdateFollowsDisk
    <2>2. \/ y = [x EXCEPT !.status = "cancelled"]
          \/ \E t \in AvailableTransitions(GraphOf[x.revision], x.state) : y = Advanced(x, t)
      BY <1>2, <1>5 DEF PersistUpdate, UpdateFollowsDisk
    <2>3. LedgerView' = [LedgerView EXCEPT ![r] = LedgerEntry(y)]
      BY <1>2, <2>1, LedgerWrite
    <2>4. LedgerView[r] = LedgerEntry(x)
      BY <2>1 DEF LedgerView
    <2>5. Ledger!Open(r)
      <3>1. IsRecord(x) /\ LedgerEntry(x).phase = "open"
        BY <2>1, OpenEntries
      <3>2. LedgerEntry(x) # NoRun
        BY <2>1, EntryIsNotNoRun
      <3> QED BY <2>4, <3>1, <3>2 DEF Ledger!Open
    <2>6. CASE y = [x EXCEPT !.status = "cancelled"]
      <3>1. Ledger!Cancel(r)
        BY <2>1, <2>3, <2>4, <2>5, <2>6, CancelEntry DEF Ledger!Cancel
      <3> QED BY <2>1, <3>1 DEF Ledger!Next
    <2>7. CASE \E t \in AvailableTransitions(GraphOf[x.revision], x.state) : y = Advanced(x, t)
      <3>1. PICK t \in AvailableTransitions(GraphOf[x.revision], x.state) : y = Advanced(x, t)
        BY <2>7
      <3>2. PICK phase \in {"open", "finished"} :
                LedgerEntry(y) = [revision |-> LedgerEntry(x).revision, phase |-> phase,
                                  path     |-> Append(LedgerEntry(x).path, t)]
        BY <2>1, <3>1, StepEntry
      <3>3. t \in AllTransitions
        BY <2>1, RecordFields DEF AllTransitions, AvailableTransitions, Outgoing
      <3>4. Ledger!Step(r, t, phase)
        BY <2>3, <2>4, <2>5, <3>2 DEF Ledger!Step
      <3> QED BY <2>1, <3>3, <3>4 DEF Ledger!Next
    <2> QED BY <2>2, <2>6, <2>7
  <1>6. UNCHANGED disk \/ (\E h \in Hosts : PersistPrepared(h)) \/ PersistUpdate
    BY <1>1 DEF Next, vars, EditCanonical, PrepareRun, GetRun, SendRequest, FailPrepared,
                StartAdvance, RefuseAdvance, StartCancel, AnswerCancel, FailUpdate, Crash
  <1> QED BY <1>3, <1>4, <1>5, <1>6

\* The service refines the ledger: whatever the hosts, the file system and crashes
\* do, a client that looks at the files sees runs created once, grown one transition
\* at a time, and frozen when finished or cancelled.
THEOREM RefinesLedger == Spec => ImplementsLedger
  BY InvCorrect, LedgerInit, LedgerStep, PTL DEF Spec, ImplementsLedger, Ledger!Spec
================================================================================
