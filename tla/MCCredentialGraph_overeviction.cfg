\* Do concurrent additions leave a class at its cap?
SPECIFICATION Spec
CONSTANTS
    w1 = w1
    w2 = w2
    Writers = {w1, w2}
    Credentials = 0
    Cap = 1
    MaxRecords = 2
INVARIANTS
    NewestKept
\* No request has to come: the graph is at rest between additions.
CHECK_DEADLOCK FALSE
