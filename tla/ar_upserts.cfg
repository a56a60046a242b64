CONSTANTS
    Client = {c1, c2}
    Key = {k1}
    Blank = 0
    Value = {1}
    Stamp = {3, 4}
    Delta = {1}
    Table <- Links
    Default <- LinksDefault
    NoRow = NoRow
    Earlier = {}
    Issued <- Op
    MaxCalls = 3
    MaxMut = 1
    CountBeforeInsert = TRUE
SYMMETRY Symmetry
SPECIFICATION Spec
CHECK_DEADLOCK FALSE
INVARIANTS
    CounterExactlyOnce
    DirtyTracking
PROPERTIES
    UpdateWritesOnlyChanges
    SuccessReturnsActual
    CountsAreTallied
