SPECIFICATION LiveSpec
CONSTANTS
    Sessions = {s1, s2}
    NoSession = NoSession
    NoRow = NoRow
    Deleted = Deleted
    NoRuntime = NoRuntime
    Idle = Idle
    NoExit = NoExit
    Reading = Reading
    Done = Done
    MaxOps = 2
    MaxFaults = 1
INVARIANTS
    TypeOK
    SessionsSettle
    ProcessesAreOwned
    ShutdownLeavesNothing
PROPERTIES
    RestartRepairs
    ShutdownCompletes
    TimedRecordingsEnd
CHECK_DEADLOCK FALSE
