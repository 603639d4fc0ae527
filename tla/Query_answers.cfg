SPECIFICATION Spec
CONSTANTS
    Granularity = 2
    Definitions <- AllDefinitions
    ValidName <- IsName
    Batches <- AllBatches
    Selects <- AllSelects
    UsizeMax = 9
    MaxInserts = 2
    MaxRows = 5
CHECK_DEADLOCK FALSE
INVARIANTS
    TypeOK
    AnswerIsSQL
    OrderedByLast
    GroupsAreExact
    EveryItemAnswered
    PanicsExplained
    RowsStayWhole
    LastOfEachKey
