SPECIFICATION Spec
CONSTANTS
    Keys = {1}
    Columns = {c}
    OrderBy = {c}
    Workers = {w1}
    MaxVersion = 1
    MaxEvents = 0
INVARIANT ViewIsCurrent
