SPECIFICATION Spec
CONSTANTS
    KeySpaces <- Spaces
    MaxParts = {1, 2, 3}
    MinRows = {0, 2}
    RowCounts = {0, 3, 6}
    Codecs <- Codings
    BatchSize = 2
    MaxResumes = 2
INVARIANTS
    TypeOK
    OnePart
    ReadInFull
