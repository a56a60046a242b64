CONSTANTS
    Size = 2
    Key = {k1, k2}
    Blank = 0
    Value = {1}
    Stamp = {3, 4}
    Delta = {1}
    Table <- UserOptions
    Default <- UserOptionsDefault
    NoRow = NoRow
    MaxCalls = 3
    MaxForeign = 0
    MaxMut = 1
SYMMETRY Symmetry
SPECIFICATION Spec
CHECK_DEADLOCK FALSE
PROPERTY
    EquivalentToFullUpdates
