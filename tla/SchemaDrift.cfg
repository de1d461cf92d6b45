SPECIFICATION Spec
CONSTANTS
    Keys = {1}
    Columns = {c}
    OrderBy = {}
    Workers = {w1, w2}
    MaxVersion = 1
    MaxEvents = 3
INVARIANTS
    ViewAnswers
    DriftInv
    ViewIsCurrent
    ValuesArrive
PROPERTIES
    CatchesUp
    ColumnsArrive
