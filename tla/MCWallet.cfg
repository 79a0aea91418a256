\* Offers of up to two of four configurations: c1 yields JWT credentials bound
\* to a DID, c2 credentials of another format, c3 JWT credentials bound to a
\* bare key, and c4 is not described by the issuer's metadata.
SPECIFICATION Spec
CONSTANTS
    Configs = {"c1", "c2", "c3", "c4"}
    Described = {"c1", "c2", "c3"}
    JwtConfigs = {"c1", "c3"}
    DidConfigs = {"c1", "c2"}
    AuthorizationDetails <- MCAuthorizationDetails
    Flaws = {"subject"}
    Hosts = {"issuer", "elsewhere"}
    AllowedHosts = {"issuer"}
    ClientId = TRUE
    MaxRedirects = 2
    MaxOffered = 2
    MaxHandedOver = 2
INVARIANTS
    StoresWhatWasOffered
    ProofsServeOnce
    RetriesAreSound
PROPERTIES
    RedemptionEnds
