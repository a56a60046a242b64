CONSTANTS
    Conn = {k1, k2}
    Table = {users}
    Duration = {0}
    DefaultTimeout = 2
    Missing = Missing
    Malformed = Malformed
    NoTable = NoTable
    NoDeadline = NoDeadline
    HasReplica = TRUE
    MaxEdits = 2
SPECIFICATION FairSpec
INVARIANTS
    TypeOK
    TimeoutWasOffered
    FallbackWasConfigured
PROPERTY
    EveryQueryEnds
