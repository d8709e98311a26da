--------------------------- MODULE MCMcpWorkflowRuns ---------------------------
(***************************************************************************)
(* Small workflows for McpWorkflowRuns. Revision v1 is a decision with an  *)
(* automatic route, a wait and a bounded way back; revision v2 of the same *)
(* workflow is an action that may repeat itself, pause or end; it can      *)
(* pause twice but wake up only once, and then no advance can move it.     *)
(***************************************************************************)
EXTENDS McpWorkflowRuns, TLC

CONSTANTS v1, v2, w1

G1 == [nodes |-> {"act", "check", "hold", "done", "drop"},
       entry |-> "act",
       type  |-> ("act" :> "action" @@ "check" :> "decision" @@ "hold" :> "wait"
                  @@ "done" :> "terminal" @@ "drop" :> "terminal"),
       outcome |-> [n \in {"act", "check", "hold", "done"} |-> "completed"]
                   @@ "drop" :> "rejected",
       trans |-> {"next", "park", "again", "resume", "reject"},
       from  |-> ("next" :> "act" @@ "park" :> "check" @@ "again" :> "check"
                  @@ "resume" :> "hold" @@ "reject" :> "check"),
       to    |-> ("next" :> "check" @@ "park" :> "hold" @@ "again" :> "act"
                  @@ "resume" :> "done" @@ "reject" :> "drop"),
       kind  |-> ("next" :> "default" @@ "park" :> "conditional"
                  @@ "again" :> "retry" @@ "resume" :> "resume"
                  @@ "reject" :> "conditional"),
       max   |-> [t \in {"next", "park", "resume", "reject"} |-> 0] @@ "again" :> 1]

G2 == [nodes |-> {"poll", "rest", "end"},
       entry |-> "poll",
       type  |-> ("poll" :> "action" @@ "rest" :> "action" @@ "end" :> "terminal"),
       outcome |-> [n \in {"poll", "rest", "end"} |-> "completed"],
       trans |-> {"repeat", "pause", "wake", "finish"},
       from  |-> [t \in {"repeat", "pause", "finish"} |-> "poll"] @@ "wake" :> "rest",
       to    |-> ("repeat" :> "poll" @@ "pause" :> "rest" @@ "wake" :> "poll"
                  @@ "finish" :> "end"),
       kind  |-> ("repeat" :> "retry" @@ "pause" :> "conditional"
                  @@ "wake" :> "retry" @@ "finish" :> "default"),
       max   |-> ("repeat" :> 1 @@ "wake" :> 1 @@ "pause" :> 0 @@ "finish" :> 0)]

MCGraphOf    == v1 :> G1 @@ v2 :> G2
MCWorkflowOf == v1 :> w1 @@ v2 :> w1

Symmetry == Permutations(Hosts) \cup Permutations(RunIds)
================================================================================
