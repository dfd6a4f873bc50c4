SPECIFICATION Spec
CONSTANTS
    NEntries = 8
    EntriesPerSector = 8
    DirChain <- OneCluster
    BadClusters = {4}
    SlotsPerCluster = 2
    DottedNames = {a}
    BareNames = {c}
    NoName = NoName
    Payloads = {v}
    NoPayload = NoPayload
    MaxLength = 2
    Calls = {}
    PowerLossAllowed = FALSE
    TearResumed = FALSE
INVARIANTS UniqueNames
