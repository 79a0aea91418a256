\* DCP issuance under manual approval: two holders, two definitions, three
\* requests through a table of two, one delivery at a time.
SPECIFICATION Spec
CONSTANTS
    d1 = d1
    d2 = d2
    h1 = h1
    h2 = h2
    r1 = r1
    Definitions = {d1, d2}
    Seeded = d1
    Holders = {h1, h2}
    Redemptions = {}
    HolderApproval = "manual"
    MaxDefinitions = 2
    MaxHolders = 2
    MaxRequestCredentials = 1
    MaxPendingPerHolder = 1
    MaxPending = 2
    MaxTracked = 2
    MaxInFlight = 1
    MaxProcesses = 3
    StatusListBits = 2
SYMMETRY Interchangeable
INVARIANTS
    TypeOK
    ActiveProcessesSafe
    TasksFitProcesses
    LimitsHold
PROPERTIES
    TerminalStays
    ClaimNeedsApproval
