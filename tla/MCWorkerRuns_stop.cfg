SPECIFICATION Spec
CONSTANTS
    Workers = {w1}
    Runs = {r1}
    Turns = {t1}
    Calls = {c1, c2}
    Results = {"failed"}
    NoRun = NoRun
    NoTurn = NoTurn
    Idle = Idle
    MaxCalls = 3
    MaxFaults = 0
INVARIANTS
    StopReachesEveryTurn
CHECK_DEADLOCK FALSE
