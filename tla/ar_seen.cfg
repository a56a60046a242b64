CONSTANTS
    Client = {c1, c2}
    Key = {k1}
    Blank = 0
    Value = {1}
    Stamp = {3, 4}
    Delta = {1}
    Table <- Views
    Default <- ViewsDefault
    NoRow = NoRow
    Earlier = {k1}
    Issued = {"Insert", "Update", "Refresh", "Select", "Delete"}
    MaxCalls = 3
    MaxMut = 1
    CountBeforeInsert = TRUE
SYMMETRY Symmetry
SPECIFICATION ReplicaSpec
CHECK_DEADLOCK FALSE
INVARIANTS
    DirtyTracking
PROPERTIES
    UpdateWritesOnlyChanges
    CountsAreTallied
    CountersWereCurrent
