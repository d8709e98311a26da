SPECIFICATION Spec
CONSTANTS
    Workers = {w1, w2}
    Runs = {r1}
    Turns = {t1, t2}
    Calls = {c1, c2}
    Results = {"failed", "running", "waiting_for_user", "succeeded"}
    NoRun = NoRun
    NoTurn = NoTurn
    Idle = Idle
    MaxCalls = 3
    MaxFaults = 0
SYMMETRY Symmetry
INVARIANTS
    ShownMatchesRuns
    RunningWorkIsAttended
CHECK_DEADLOCK FALSE
