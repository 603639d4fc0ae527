SPECIFICATION FairSpec
CONSTANTS
    c1 = c1
    c2 = c2
    Client = {c1}
    Inserter = {c1}
    NoOne = NoOne
    Merger = Merger
    MaxInserts = 2
    Granularity = 1
    RowCount <- TwoGranulesEach
    Stamp <- DistinctStamps
    LoadThreshold = 5
    Faults = {"publish"}
    MaxFaults = 1
    MaxCrashes = 0
CHECK_DEADLOCK FALSE
PROPERTIES
    RollsBack
