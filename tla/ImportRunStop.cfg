SPECIFICATION Spec

CONSTANTS
    Ids = {i1, i2}
    NoId = NoId
    MaxItems = 2
    BatchSize = 2

SYMMETRY Symmetry
INVARIANT TotalIsExact

\* An import ends.
CHECK_DEADLOCK FALSE
