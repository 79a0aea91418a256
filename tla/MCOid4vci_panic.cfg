\* Is a grant that was live still live under the same lock, as `expect` says?
SPECIFICATION Spec
CONSTANTS
    d1 = d1
    d2 = d2
    q1 = q1
    q2 = q2
    Definitions = {d1}
    Requests = {}
    Capacity = 1
    OfferTtl = 1
    AccessTokenTtl = 1
    NonceTtl = 1
    MaxTxCodeAttempts = 2
    MaxKeys = 2
    MaxTime = 1
INVARIANTS
    GrantStaysLive
