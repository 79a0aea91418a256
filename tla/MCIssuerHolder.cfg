\* Two processes of two holders under manual approval compete for one delivery
\* permit; each index one of them hands back is the other's next.
SPECIFICATION HolderSpec
CONSTANTS
    d1 = d1
    d2 = d2
    h1 = h1
    h2 = h2
    Definitions = {d1}
    Seeded = d1
    Holders = {h1, h2}
    Redemptions = {}
    HolderApproval = "manual"
    MaxDefinitions = 1
    MaxHolders = 2
    MaxRequestCredentials = 1
    MaxPendingPerHolder = 2
    MaxPending = 2
    MaxTracked = 2
    MaxInFlight = 1
    MaxProcesses = 2
    StatusListBits = 2
INVARIANTS
    HeldMatchesRecords
    RejectedGetsNothing
    RevocationHitsItsOwn
PROPERTIES
    ApprovedSettles
    ImplementsLifecycle
