\* One offer, one access token and one nonce, or any other use of three random
\* tokens, with two credential requests in flight and tables of two entries.
SPECIFICATION Spec
CONSTANTS
    d1 = d1
    d2 = d2
    q1 = q1
    q2 = q2
    Definitions = {d1, d2}
    Requests = {q1, q2}
    Capacity = 2
    OfferTtl = 1
    AccessTokenTtl = 1
    NonceTtl = 1
    MaxTxCodeAttempts = 2
    MaxKeys = 3
    MaxTime = 1
SYMMETRY Interchangeable
INVARIANTS
    TypeOK
    SingleUse
    GuessesBounded
    IssuedWasOffered
PROPERTIES
    EvictionIsFair
