\* Two holders out of three ids and five DIDs, up to two of three definitions, and
\* pages of one or two holders.
SPECIFICATION Spec
CONSTANTS
    Absent = Absent
    DefaultLimit = 2
    MaxLimit = 2
    MaxCriteria = 1
    Dids <- MCDids
    h1 = h1
    h2 = h2
    h3 = h3
    HolderIds = {h1, h2, h3}
    DefinitionIds = {1, 2, 3}
    Names = {1}
    MaxHolders = 2
    MaxDefinitions = 2
    DefaultValidity = 1
    Specs <- MCSpecs
    MaxTime = 1
SYMMETRY Interchangeable
ACTION_CONSTRAINT OneRegistryAtATime
INVARIANTS
    RegistryConsistent
    OnePartyOneDecision
    WalkReturnsEachOnce
    QueriesSound
PROPERTIES
    RecordsKeepIdentity
