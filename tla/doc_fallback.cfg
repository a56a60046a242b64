CONSTANTS
    Conn = {k1}
    Table = {users}
    Duration = {1, 3}
    DefaultTimeout = 2
    Missing = Missing
    Malformed = Malformed
    NoTable = NoTable
    NoDeadline = NoDeadline
    HasReplica = FALSE
    MaxEdits = 1
SPECIFICATION Spec
INVARIANT
    FallbackWasConfigured
