CONSTANTS
    Layout <- Layouts
    Declaration <- Declarations
    Naming <- Namings
    BatchSize = {1, 2}
SPECIFICATION Spec
CHECK_DEADLOCK FALSE
INVARIANTS
    TypeOK
    GroupsAsDeclared
    SettersFindTheirBit
    BitsFit
    PlaceholdersMatch
    ResultsFollowReturning
    ListsSeparated
    UpdateSendsChanges
    UpdateMultiRowsFit
