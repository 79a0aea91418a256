\* Two checks at one time, snapshots of eight units and fetches of up to one.
SPECIFICATION Spec
CONSTANTS
    c1 = c1
    c2 = c2
    Callers = {c1, c2}
    Ttl = 8
    Margin = 1
    MaxFetch = 1
    MaxTime = 11
    MaxChanges = 1
SYMMETRY Interchangeable
INVARIANTS
    FailsClosed
    SuspensionReaches
PROPERTIES
    RefreshedInOrder
\* No request has to come: the cache is at rest between checks.
CHECK_DEADLOCK FALSE
