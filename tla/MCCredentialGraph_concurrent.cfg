\* Two requests add at one time, or one after the other.
SPECIFICATION Spec
CONSTANTS
    w1 = w1
    w2 = w2
    Writers = {w1, w2}
    Credentials = 1
    Cap = 2
    MaxRecords = 5
SYMMETRY
    Interchangeable
INVARIANTS
    CapPlusBusy
    SequentialIsExact
    ListedIsWhole
PROPERTIES
    OldestGoFirst
\* No request has to come: the graph is at rest between additions.
CHECK_DEADLOCK FALSE
