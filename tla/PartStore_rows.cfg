SPECIFICATION Spec
CONSTANTS
    c1 = c1
    c2 = c2
    Client = {c1, c2}
    Inserter = {c1, c2}
    NoOne = NoOne
    Merger = Merger
    MaxInserts = 3
    Granularity = 1
    RowCount <- OneGranuleEach
    Stamp <- DistinctStamps
    LoadThreshold = 5
    Faults = {}
    MaxFaults = 0
    MaxCrashes = 0
SYMMETRY ClientSymmetry
INVARIANTS
    PartsHoldTheirRows
