SPECIFICATION FairSpec
CONSTANTS
    Granularity = 2
    PartLists <- Lists
    PartSizes = {1, 2, 3, 4}
    Queries <- AskAll
    OutputCap = 16
    UsizeMax = 15
CHECK_DEADLOCK FALSE
INVARIANTS
    TypeOK
    AnswerExact
    LoadIsMergeRead
    LiteralAligned
PROPERTIES
    TableScanEnds
    LargeLimitsAnswered
