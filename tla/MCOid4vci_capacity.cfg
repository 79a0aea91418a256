\* Is the memory of a table bounded by its capacity, as its comment says?
SPECIFICATION Spec
CONSTANTS
    d1 = d1
    d2 = d2
    q1 = q1
    q2 = q2
    Definitions = {d1}
    Requests = {}
    Capacity = 1
    OfferTtl = 1
    AccessTokenTtl = 1
    NonceTtl = 1
    MaxTxCodeAttempts = 2
    MaxKeys = 3
    MaxTime = 0
INVARIANTS
    FixedCapacity
