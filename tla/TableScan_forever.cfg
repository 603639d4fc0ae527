SPECIFICATION FairSpec
CONSTANTS
    Granularity = 2
    PartLists <- Lists
    PartSizes = {1, 2, 3}
    Queries <- AskNestedLong
    OutputCap = 6
    UsizeMax = 15
CHECK_DEADLOCK FALSE
PROPERTY NestedScanEnds
