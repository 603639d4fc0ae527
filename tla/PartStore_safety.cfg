SPECIFICATION Spec
CONSTANTS
    c1 = c1
    c2 = c2
    Client = {c1, c2}
    Inserter = {c1, c2}
    NoOne = NoOne
    Merger = Merger
    MaxInserts = 3
    Granularity = 1
    RowCount <- MixedSizes
    Stamp <- TiedStamps
    LoadThreshold = 5
    Faults <- AllFaults
    MaxFaults = 2
    MaxCrashes = 1
SYMMETRY ClientSymmetry
CHECK_DEADLOCK FALSE
INVARIANTS
    TypeOK
    IInv
    AckedCovered
    EachInsertOnce
    FailedNeverVisible
PROPERTIES
    OldRemovedOnlyWhenReplaced
