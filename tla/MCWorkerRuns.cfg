SPECIFICATION Spec
CONSTANTS
    Workers = {w1}
    Runs = {r1, r2}
    Turns = {t1, t2}
    Calls = {c1, c2}
    Results = {"plain"}
    NoRun = NoRun
    NoTurn = NoTurn
    Idle = Idle
    MaxCalls = 3
    MaxFaults = 1
SYMMETRY Symmetry
INVARIANTS
    TypeOK
    OneOpenRun
    ShownMatchesRuns
    ShutdownStopsTurns
    RunningWorkIsAttended
    UpdatesHaveCallers
PROPERTIES
    ClosedRunsStayClosed
    NoWriteAfterShutdown
CHECK_DEADLOCK FALSE
