CONSTANTS
    Size = 2
    Key = {k1, k2}
    Blank = 0
    Value = {1}
    Stamp = {3, 4}
    Delta = {1}
    Table <- Posts
    Default <- PostsDefault
    NoRow = NoRow
    MaxCalls = 2
    MaxForeign = 1
    MaxMut = 1
SYMMETRY Symmetry
SPECIFICATION Spec
CHECK_DEADLOCK FALSE
INVARIANTS
    TypeOK
    BatchCounters
    BatchTracking
PROPERTY
    BatchReturnsActual
