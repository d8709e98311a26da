---------------------------- MODULE WorkflowGraph ----------------------------
(***************************************************************************)
(* Executable workflow graphs and the pure functions that move a run       *)
(* through one: src/src/skill/workflow-topology.ts (what a valid graph is) *)
(* and src/src/skill/workflow-graph-runtime.ts (start, available           *)
(* transitions, advance).                                                  *)
(*                                                                         *)
(* A graph is a record                                                     *)
(*   nodes, entry           the node ids and the entry node                *)
(*   type, outcome          node -> node type / terminal outcome           *)
(*   trans, from, to, kind  the transition ids, their ends and types       *)
(*   max                    transition -> maxAttempts (retry only)         *)
(* A run state is a record                                                 *)
(*   node, status           current node and run status                    *)
(*   attempts               transition -> retries taken (absent is 0)      *)
(*   history                the transitions traversed, oldest first        *)
(* Titles, conditions, evidence and timestamps are left out.               *)
(***************************************************************************)
EXTENDS Integers, Sequences, FiniteSets

NodeTypes       == {"action", "decision", "wait", "terminal"}
TransitionTypes == {"default", "conditional", "retry", "resume"}
Outcomes        == {"completed", "stopped", "rejected", "failed"}
RunStatuses     == {"running", "waiting"} \cup Outcomes

\* The transitionId a caller leaves out.
NoChoice == "no transition id"

GraphShape(g) ==
    /\ g.entry \in g.nodes
    /\ g.type    \in [g.nodes -> NodeTypes]
    /\ g.outcome \in [g.nodes -> Outcomes]
    /\ g.from \in [g.trans -> g.nodes]
    /\ g.to   \in [g.trans -> g.nodes]
    /\ g.kind \in [g.trans -> TransitionTypes]
    /\ g.max  \in [g.trans -> Nat]
    /\ NoChoice \notin g.trans

Outgoing(g, n) == {t \in g.trans : g.from[t] = n}

OpenWait(g, n) == g.type[n] = "wait" /\ Outgoing(g, n) = {}

\* The nodes reachable from n: those in every set that holds n and is closed
\* under the transitions.
Reach(g, n) ==
    {m \in g.nodes :
        \A S \in SUBSET g.nodes :
            (n \in S /\ \A t \in g.trans : g.from[t] \in S => g.to[t] \in S)
                => m \in S}

Component(g, n) == {m \in Reach(g, n) : n \in Reach(g, m)}

CycleHasExitOrBoundedRetry(g, C) ==
    LET internal == {t \in g.trans : g.from[t] \in C /\ g.to[t] \in C}
        hasCycle == Cardinality(C) > 1 \/ internal # {}
    IN  hasCycle => \/ \E t \in internal : g.kind[t] = "retry" /\ g.max[t] >= 1
                    \/ \E t \in g.trans  : g.from[t] \in C /\ g.to[t] \notin C

\* validateWorkflowTopology accepts g.
ValidGraph(g) ==
    /\ GraphShape(g)
    /\ \A t \in g.trans :
          /\ g.kind[t] = "retry"  => g.max[t] >= 1
          /\ g.kind[t] = "resume" => g.type[g.from[t]] = "wait"
    /\ \A n \in g.nodes :
          LET routes == Outgoing(g, n) IN
          CASE g.type[n] = "terminal" -> routes = {}
            [] OpenWait(g, n)         -> TRUE
            [] OTHER ->
                 /\ routes # {}
                 /\ \A s, t \in routes :
                       g.kind[s] = "default" /\ g.kind[t] = "default" => s = t
                 /\ g.type[n] = "decision"
                       => \E t \in routes : g.kind[t] = "conditional"
                 /\ g.type[n] = "wait" => \E t \in routes : g.kind[t] = "resume"
    /\ \E n \in g.nodes : g.type[n] = "terminal" \/ OpenWait(g, n)
    /\ Reach(g, g.entry) = g.nodes
    /\ \A n \in g.nodes : CycleHasExitOrBoundedRetry(g, Component(g, n))

StatusForNode(g, n) ==
    CASE g.type[n] = "wait"     -> "waiting"
      [] g.type[n] = "terminal" -> g.outcome[n]
      [] OTHER                  -> "running"

StartWorkflowGraph(g) ==
    [node     |-> g.entry,
     status   |-> StatusForNode(g, g.entry),
     attempts |-> [t \in g.trans |-> 0],
     history  |-> << >>]

AvailableTransitions(g, s) == Outgoing(g, s.node)

\* The transition a caller's choice selects, as a set of at most one: the named
\* one if it leaves the current node, or the single default route.
SelectTransition(g, s, choice) ==
    {t \in AvailableTransitions(g, s) :
        \/ t = choice
        \/ choice = NoChoice /\ g.kind[t] = "default"
                             /\ AvailableTransitions(g, s) = {t}}

\* Mutant: the budget is compared before the attempt is counted.
RetryBudgetLeftLate(g, s, t) ==
    g.kind[t] = "retry" => s.attempts[t] <= g.max[t]

\* Mutant: the attempt is counted twice.
RetryBudgetLeftEarly(g, s, t) ==
    g.kind[t] = "retry" => s.attempts[t] + 1 < g.max[t]

RetryBudgetLeft(g, s, t) ==
    g.kind[t] = "retry" => s.attempts[t] + 1 <= g.max[t]

\* advanceWorkflowGraph does not throw.
CanAdvance(g, s, choice) ==
    /\ s.status = StatusForNode(g, s.node)
    /\ g.type[s.node] # "terminal"
    /\ \E t \in SelectTransition(g, s, choice) : RetryBudgetLeft(g, s, t)

Traverse(g, s, t) ==
    LET retry == g.kind[t] = "retry" IN
    [node     |-> g.to[t],
     status   |-> StatusForNode(g, g.to[t]),
     attempts |-> IF retry THEN [s.attempts EXCEPT ![t] = @ + 1] ELSE s.attempts,
     history  |-> Append(s.history,
                         [id |-> t, from |-> g.from[t], to |-> g.to[t]])]

\* A well-formed run state of g.
RunStates(g) ==
    [node     : g.nodes,
     status   : RunStatuses,
     attempts : [g.trans -> Nat],
     history  : Seq([id : g.trans, from : g.nodes, to : g.nodes])]

\* How often a history traverses transition t.
Traversals(history, t) == {i \in DOMAIN history : history[i].id = t}

\* The history is an unbroken walk of g from the entry node to the current one.
IsWalk(g, s) ==
    /\ \A i \in DOMAIN s.history :
          /\ s.history[i].from = g.from[s.history[i].id]
          /\ s.history[i].to   = g.to[s.history[i].id]
          /\ s.history[i].from = IF i = 1 THEN g.entry ELSE s.history[i - 1].to
    /\ s.node = IF s.history = << >> THEN g.entry
                ELSE s.history[Len(s.history)].to

\* The retry counters of a run agree with its history, and no retry transition
\* was taken more often than its maxAttempts.
RetriesAccounted(g, s) ==
    \A t \in g.trans :
        /\ s.attempts[t] = IF g.kind[t] = "retry"
                           THEN Cardinality(Traversals(s.history, t)) ELSE 0
        /\ g.kind[t] = "retry" => s.attempts[t] <= g.max[t]

\* What every state reached by starting and advancing satisfies.
SoundState(g, s) ==
    /\ s.status = StatusForNode(g, s.node)
    /\ IsWalk(g, s)
    /\ RetriesAccounted(g, s)
==============================================================================
