SPECIFICATION FairSpec
CONSTANTS
    c1 = c1
    c2 = c2
    Radix = 2
    HeaderSize = 2
    Connection = {c1, c2}
    Body <- Bodies
    Meaning <- Kinds
    MaxConnections = 1
    MergeUnder = 3
    Window = 1
    MaxAsked <- Asked
    MaxFaults = 1
CHECK_DEADLOCK FALSE
INVARIANTS
    TypeOK
    PermitsConserved
    LoadIsRunning
PROPERTIES
    ImplementsDialogue
    CommandsAnswered
    WaitingIsAccepted
    PermitsComeBack
