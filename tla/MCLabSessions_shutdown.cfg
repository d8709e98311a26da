SPECIFICATION Spec
CONSTANTS
    Sessions = {s1}
    NoSession = NoSession
    NoRow = NoRow
    Deleted = Deleted
    NoRuntime = NoRuntime
    Idle = Idle
    NoExit = NoExit
    Reading = Reading
    Done = Done
    MaxOps = 1
    MaxFaults = 1
PROPERTIES
    ShutdownKeepsFinished
CHECK_DEADLOCK FALSE
