-------------------------- MODULE WorkflowGraphProofs --------------------------
(***************************************************************************)
(* What starting and advancing a run do to its state, for every valid      *)
(* graph.                                                                  *)
(***************************************************************************)
EXTENDS WorkflowGraph, FiniteSetTheorems, TLAPS

\* The status of a node is a run status (statusForNode).
LEMMA StatusType ==
    ASSUME NEW g, GraphShape(g), NEW n \in g.nodes
    PROVE  StatusForNode(g, n) \in RunStatuses
  BY DEF GraphShape, StatusForNode, RunStatuses, Outcomes, NodeTypes

\* The traversals of a transition are finitely many.
LEMMA TraversalsFinite ==
    ASSUME NEW E, NEW h \in Seq(E), NEW t
    PROVE  IsFiniteSet(Traversals(h, t))
  <1>1. IsFiniteSet(1 .. Len(h))
    BY FS_Interval
  <1>2. Traversals(h, t) \in SUBSET (1 .. Len(h))
    BY DEF Traversals
  <1> QED BY <1>1, <1>2, FS_Subset

\* Traversing adds one to the traversals of the transition taken and nothing to
\* those of the others.
LEMMA TraversalsOfAppend ==
    ASSUME NEW E, NEW h \in Seq(E), NEW e \in E, NEW t
    PROVE  Cardinality(Traversals(Append(h, e), t)) =
              Cardinality(Traversals(h, t)) + (IF e.id = t THEN 1 ELSE 0)
  <1> DEFINE T == Traversals(h, t)
             n == Len(h) + 1
             A == Append(h, e)
  <1>1. IsFiniteSet(T) /\ Cardinality(T) \in Nat
    BY TraversalsFinite, FS_CardinalityType
  <1>2. DOMAIN A = (DOMAIN h) \cup {n} /\ n \notin DOMAIN h
    OBVIOUS
  <1>3. A[n] = e /\ \A i \in DOMAIN h : A[i] = h[i]
    OBVIOUS
  <1>4. n \notin T
    BY <1>2 DEF Traversals
  <1>5. CASE e.id = t
    <2>1. Traversals(A, t) = T \cup {n}
      BY <1>2, <1>3, <1>5 DEF Traversals
    <2> QED BY <2>1, <1>1, <1>4, <1>5, FS_AddElement
  <1>6. CASE e.id # t
    <2>1. Traversals(A, t) = T
      BY <1>2, <1>3, <1>6 DEF Traversals
    <2> QED BY <2>1, <1>1, <1>6
  <1> QED BY <1>5, <1>6

\* startWorkflowGraph yields a sound state.
LEMMA StartSound ==
    ASSUME NEW g, GraphShape(g)
    PROVE  /\ StartWorkflowGraph(g) \in RunStates(g)
           /\ SoundState(g, StartWorkflowGraph(g))
  <1> DEFINE s == StartWorkflowGraph(g)
  <1>1. g.entry \in g.nodes /\ StatusForNode(g, g.entry) \in RunStatuses
    BY StatusType DEF GraphShape
  <1>2. s \in RunStates(g)
    BY <1>1 DEF StartWorkflowGraph, RunStates
  <1>3. IsWalk(g, s)
    BY DEF StartWorkflowGraph, IsWalk
  <1>4. \A t : Traversals(s.history, t) = {}
    BY DEF StartWorkflowGraph, Traversals
  <1>5. RetriesAccounted(g, s)
    <2>1. SUFFICES ASSUME NEW t \in g.trans
                   PROVE  /\ s.attempts[t] = 0
                          /\ Cardinality(Traversals(s.history, t)) = 0
                          /\ 0 <= g.max[t]
      BY DEF RetriesAccounted
    <2>2. s.attempts[t] = 0
      BY DEF StartWorkflowGraph
    <2>3. Cardinality(Traversals(s.history, t)) = 0
      BY <1>4, FS_EmptySet
    <2>4. g.max[t] \in Nat
      BY DEF GraphShape
    <2> QED BY <2>2, <2>3, <2>4
  <1> QED BY <1>2, <1>3, <1>5 DEF SoundState, StartWorkflowGraph

\* advanceWorkflowGraph keeps the type of a run state.
LEMMA TraverseType ==
    ASSUME NEW g, GraphShape(g), NEW s \in RunStates(g), NEW t \in g.trans
    PROVE  Traverse(g, s, t) \in RunStates(g)
  <1>1. g.from[t] \in g.nodes /\ g.to[t] \in g.nodes
    BY DEF GraphShape
  <1>2. StatusForNode(g, g.to[t]) \in RunStatuses
    BY <1>1, StatusType
  <1>3. /\ s.history \in Seq([id : g.trans, from : g.nodes, to : g.nodes])
        /\ s.attempts \in [g.trans -> Nat]
    BY DEF RunStates
  <1>4. [s.attempts EXCEPT ![t] = @ + 1] \in [g.trans -> Nat]
    BY <1>3
  <1>5. Append(s.history, [id |-> t, from |-> g.from[t], to |-> g.to[t]])
          \in Seq([id : g.trans, from : g.nodes, to : g.nodes])
    BY <1>1, <1>3
  <1> QED BY <1>1, <1>2, <1>3, <1>4, <1>5 DEF Traverse, RunStates

\* Traversing a transition that leaves the current node extends the walk.
LEMMA TraverseWalks ==
    ASSUME NEW g, GraphShape(g), NEW s \in RunStates(g), IsWalk(g, s),
           NEW t \in Outgoing(g, s.node)
    PROVE  IsWalk(g, Traverse(g, s, t))
  <1> DEFINE e == [id |-> t, from |-> g.from[t], to |-> g.to[t]]
             n == Len(s.history) + 1
             A == Append(s.history, e)
             u == Traverse(g, s, t)
  <1>1. u.history = A /\ u.node = g.to[t]
    BY DEF Traverse
  <1>2. s.history \in Seq([id : g.trans, from : g.nodes, to : g.nodes])
    BY DEF RunStates
  <1>3. e \in [id : g.trans, from : g.nodes, to : g.nodes] /\ g.from[t] = s.node
    BY DEF Outgoing, GraphShape
  <1> HIDE DEF e
  <1>4. /\ DOMAIN A = 1 .. n /\ Len(A) = n /\ n \in Nat /\ A # << >>
        /\ A[n] = e
        /\ \A i \in 1 .. n - 1 : A[i] = s.history[i] /\ i \in DOMAIN s.history
    BY <1>2, <1>3
  <1>5. e.id = t /\ e.from = g.from[t] /\ e.to = g.to[t]
    BY DEF e
  <1>6. ASSUME NEW i \in 1 .. n
        PROVE  /\ A[i].from = g.from[A[i].id]
               /\ A[i].to   = g.to[A[i].id]
               /\ A[i].from = IF i = 1 THEN g.entry ELSE A[i - 1].to
    <2>1. CASE i \in 1 .. n - 1
      <3>1. A[i] = s.history[i] /\ (i # 1 => A[i - 1] = s.history[i - 1])
        BY <1>4, <2>1
      <3> QED BY <3>1, <2>1, <1>4 DEF IsWalk
    <2>2. CASE i = n
      <3>1. s.history = << >> <=> n = 1
        BY <1>2
      <3>2. n # 1 => A[n - 1] = s.history[Len(s.history)]
        BY <1>2, <1>4
      <3> QED BY <3>1, <3>2, <2>2, <1>3, <1>4, <1>5 DEF IsWalk
    <2> QED BY <2>1, <2>2, <1>4
  <1>7. u.node = A[Len(A)].to
    BY <1>1, <1>4, <1>5
  <1>8. u.history = A /\ DOMAIN A = 1 .. n /\ A # << >>
    BY <1>1, <1>4
  <1> HIDE DEF A, u, n
  <1> QED BY <1>6, <1>7, <1>8 DEF IsWalk, u

\* advanceWorkflowGraph: a transition within its retry budget keeps the counters
\* equal to the traversals and within maxAttempts.
LEMMA TraverseAccounts ==
    ASSUME NEW g, GraphShape(g), NEW s \in RunStates(g), RetriesAccounted(g, s),
           NEW t \in g.trans, RetryBudgetLeft(g, s, t)
    PROVE  RetriesAccounted(g, Traverse(g, s, t))
  <1> DEFINE E == [id : g.trans, from : g.nodes, to : g.nodes]
             e == [id |-> t, from |-> g.from[t], to |-> g.to[t]]
             u == Traverse(g, s, t)
  <1>1. s.history \in Seq(E) /\ e \in E /\ s.attempts \in [g.trans -> Nat]
    BY DEF RunStates, GraphShape
  <1>2. u.history = Append(s.history, e) /\ e.id = t
    BY DEF Traverse
  <1>3. u.attempts = IF g.kind[t] = "retry" THEN [s.attempts EXCEPT ![t] = @ + 1]
                     ELSE s.attempts
    BY DEF Traverse
  <1>4. SUFFICES ASSUME NEW r \in g.trans
                 PROVE  /\ u.attempts[r] = IF g.kind[r] = "retry"
                              THEN Cardinality(Traversals(u.history, r)) ELSE 0
                        /\ g.kind[r] = "retry" => u.attempts[r] <= g.max[r]
    BY DEF RetriesAccounted
  <1>5. Cardinality(Traversals(u.history, r)) =
          Cardinality(Traversals(s.history, r)) + (IF t = r THEN 1 ELSE 0)
    <2> HIDE DEF E, e
    <2> QED BY <1>1, <1>2, TraversalsOfAppend
  <1>6. /\ s.attempts[r] = IF g.kind[r] = "retry"
                           THEN Cardinality(Traversals(s.history, r)) ELSE 0
        /\ g.kind[r] = "retry" => s.attempts[r] <= g.max[r]
    BY DEF RetriesAccounted
  <1>7. s.attempts[r] \in Nat
    BY <1>1
  <1>8. CASE g.kind[t] = "retry" /\ r = t
    BY <1>1, <1>3, <1>5, <1>6, <1>7, <1>8 DEF RetryBudgetLeft
  <1>9. CASE ~(g.kind[t] = "retry" /\ r = t)
    <2>1. u.attempts[r] = s.attempts[r]
      BY <1>1, <1>3, <1>9
    <2>2. CASE r = t
      BY <2>1, <2>2, <1>6, <1>9
    <2>3. CASE r # t
      BY <2>1, <2>3, <1>5, <1>6, <1>7, TraversalsFinite, FS_CardinalityType, <1>1
    <2> QED BY <2>2, <2>3
  <1> QED BY <1>8, <1>9

\* advanceWorkflowGraph yields a sound state from a sound state.
LEMMA TraverseSound ==
    ASSUME NEW g, GraphShape(g), NEW s \in RunStates(g), SoundState(g, s),
           NEW t \in Outgoing(g, s.node), RetryBudgetLeft(g, s, t)
    PROVE  /\ Traverse(g, s, t) \in RunStates(g)
           /\ SoundState(g, Traverse(g, s, t))
  <1>1. t \in g.trans
    BY DEF Outgoing
  <1>2. Traverse(g, s, t).status = StatusForNode(g, Traverse(g, s, t).node)
    BY DEF Traverse
  <1> QED BY <1>1, <1>2, TraverseType, TraverseWalks, TraverseAccounts DEF SoundState
================================================================================
