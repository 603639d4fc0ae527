SPECIFICATION Spec
CONSTANTS
    d1 = d1
    d2 = d2
    i1 = i1
    t1 = t1
    t2 = t2
    db = db
    Database = {db}
    Table = {t1}
    DatabaseOf <- OneDatabase
    Definer = {d1, d2}
    Inserter = {i1}
    Merger = Merger
    NoOne = NoOne
    MaxMerges = 0
    MaxSchemas = 2
    MaxInserts = 1
    MaxCrashes = 0
CHECK_DEADLOCK FALSE
INVARIANT EntryMatchesDisk
