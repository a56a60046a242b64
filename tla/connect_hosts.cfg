CONSTANTS
    Client = {main, other}
    Main = main
    Master = master
    r1 = r1
    r2 = r2
    Listed <- TwoReplicas
    MaxWrites = 1
    MaxFaults = 1
    MaxEdits = 1
SPECIFICATION Spec
CHECK_DEADLOCK FALSE
INVARIANTS
    TypeOK
    CallerHoldsConnections
PROPERTIES
    ReadsOwnWrites
    DialsInOrder
