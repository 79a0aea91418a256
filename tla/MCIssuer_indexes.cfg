\* Two deliveries of up to two credentials each and an OID4VCI redemption at
\* the same time, on a status list of three indexes.
SPECIFICATION Spec
CONSTANTS
    d1 = d1
    d2 = d2
    h1 = h1
    h2 = h2
    r1 = r1
    Definitions = {d1, d2}
    Seeded = d1
    Holders = {h1}
    Redemptions = {r1}
    HolderApproval = "auto"
    MaxDefinitions = 2
    MaxHolders = 1
    MaxRequestCredentials = 2
    MaxPendingPerHolder = 1
    MaxPending = 2
    MaxTracked = 2
    MaxInFlight = 2
    MaxProcesses = 2
    StatusListBits = 3
INVARIANTS
    IndexesAccounted
    ListMatchesRevocations
    RecordsMatchOutcome
