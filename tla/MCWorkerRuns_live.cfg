SPECIFICATION FairSpec
CONSTANTS
    Workers = {w1}
    Runs = {r1, r2}
    Turns = {t1}
    Calls = {c1, c2}
    Results = {"plain"}
    NoRun = NoRun
    NoTurn = NoTurn
    Idle = Idle
    MaxCalls = 3
    MaxFaults = 0
PROPERTIES
    CallsReturn
    StopEndsTheRun
CHECK_DEADLOCK FALSE
