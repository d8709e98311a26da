SPECIFICATION MergeSpec
CONSTANTS
    Writers = {product, cli}
    Product = product
    Contents = {c1, c2, c3}
    Foreign = {c3}
    WorkflowOf <- MCWorkflowOf
    Stamps = {s1, s2}
    NoRevision = NoRevision
    NoGraph = NoGraph
    NoProposal = NoProposal
    Absent = Absent
    Empty = Empty
    Garbled = Garbled
    Idle = Idle
    MaxNumber = 3
    MaxSaves = 3
    MaxFaults = 1
SYMMETRY Symmetry
INVARIANTS
    MergeTypeOK
    AcknowledgedSavesLast
    MergesAreRecorded
    HiddenSourcesWereMerged
    ToldMergesAreHidden
PROPERTIES
    ImplementsTree
CHECK_DEADLOCK FALSE
