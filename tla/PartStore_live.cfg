SPECIFICATION FairSpec
CONSTANTS
    Client = {c1, c2, c3}
    Inserter = {c1}
    NoOne = NoOne
    Merger = Merger
    MaxInserts = 3
    Granularity = 1
    RowCount <- MixedSizes
    Stamp <- TiedStamps
    LoadThreshold = 5
    Faults <- LiveFaults
    MaxFaults = 1
    MaxCrashes = 0
CHECK_DEADLOCK FALSE
PROPERTIES
    CommandsAnswered
    MergesConverge
