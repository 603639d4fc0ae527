SPECIFICATION Spec
CONSTANTS
    c1 = c1
    c2 = c2
    Client = {c1, c2}
    Inserter = {c1, c2}
    NoOne = NoOne
    Merger = Merger
    MaxInserts = 2
    Granularity = 1
    RowCount <- TwoGranulesEach
    Stamp <- DistinctStamps
    LoadThreshold = 5
    Faults = {}
    MaxFaults = 0
    MaxCrashes = 1
SYMMETRY ClientSymmetry
INVARIANTS
    AckedVisible
