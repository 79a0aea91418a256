\* Two parties, one of them trusted; two calls at a time; caches of one entry.
CONSTANTS
    Self = self
    Sts = sts
    p1 = p1
    p2 = p2
    t1 = t1
    t2 = t2
    Parties = {p1, p2}
    Trusted = {p1}
    Types = {t1, t2}
    Messages <- MCMessages
    Offers <- MCOffers
    Calls = {c1, c2}
    MaxSeenJti = 1
    MaxBatches = 1
    MaxOffers = 1
    TokenTtl = 1
    Jtis = 1
    MaxMinted = 1
    MaxAccepted = 3
    MaxTime = 1
SPECIFICATION Spec
SYMMETRY Interchangeable
INVARIANTS
    ReplayCacheSound
    PresentedWasGranted
    PresentedIsSound
    OwnTokensVerify
\* No call has to come: the service is at rest between calls.
CHECK_DEADLOCK FALSE
