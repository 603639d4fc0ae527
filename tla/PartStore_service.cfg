SPECIFICATION Spec
CONSTANTS
    Client = {c1, c2}
    Inserter = {c1, c2}
    NoOne = NoOne
    Merger = Merger
    MaxInserts = 3
    Granularity = 1
    RowCount <- TwoGranulesEach
    Stamp <- TiedStamps
    LoadThreshold = 5
    Faults <- ReleasedFaults
    MaxFaults = 2
    MaxCrashes = 0
INVARIANTS
    MemoryMatchesDisk
    PartsInAgeOrder
    ScanCoversAcked
PROPERTIES
    ImplementsService
