SPECIFICATION Spec
CONSTANTS
    Callers = {c1, c2, c3}
    NoCaller = NoCaller
    Idle = Idle
    MaxBegun = 3
    MaxStops = 1
INVARIANTS
    CapabilityTypeOK
    CheckingIsAttended
    ChecksAreShared
    ReadyIsEarned
PROPERTIES
    LatestOutcomeStays
    RequestsEnd
