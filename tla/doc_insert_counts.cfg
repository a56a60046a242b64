CONSTANTS
    Client = {c1}
    Key = {k1}
    Blank = 0
    Value = {1}
    Stamp = {3, 4}
    Delta = {1}
    Table <- ExtLinks
    Default <- ExtLinksDefault
    NoRow = NoRow
    Earlier = {}
    Issued <- Op
    MaxCalls = 1
    MaxMut = 1
    CountBeforeInsert = TRUE
SYMMETRY Symmetry
SPECIFICATION Spec
CHECK_DEADLOCK FALSE
INVARIANTS
    InsertKeepsCounts
