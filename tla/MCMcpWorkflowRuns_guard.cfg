SPECIFICATION Spec
CONSTANTS
    v1 = v1
    v2 = v2
    w1 = w1
    Hosts = {h1}
    RunIds = {r1}
    Workflows = {w1}
    Revisions = {v1, v2}
    GraphOf <- MCGraphOf
    WorkflowOf <- MCWorkflowOf
    NoRun = NoRun
    NoWork = NoWork
    NoGraph = NoGraph
    MaxRequests = 4
INVARIANTS
    AdvanceActsOnSeenRun
