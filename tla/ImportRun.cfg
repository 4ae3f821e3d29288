SPECIFICATION Spec

CONSTANTS
    Ids = {i1, i2}
    NoId = NoId
    MaxItems = 4
    BatchSize = 2

SYMMETRY Symmetry
INVARIANT TypeOK
INVARIANT NoItemLost
INVARIANT CountedOnce
INVARIANT AddedIsImported
INVARIANT ImportedIsReported
INVARIANT AddedOncePerId

\* An import ends.
CHECK_DEADLOCK FALSE
