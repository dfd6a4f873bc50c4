SPECIFICATION FairSpec
CONSTANTS
    NEntries = 8
    EntriesPerSector = 4
    DirChain <- TwoClusters
    BadClusters = {4}
    SlotsPerCluster = 1
    DottedNames = {a, b}
    BareNames = {}
    NoName = NoName
    Payloads = {v}
    NoPayload = NoPayload
    MaxLength = 3
    Calls = {}
    PowerLossAllowed = FALSE
    TearResumed = FALSE
INVARIANTS SizeBacked NoLeak
PROPERTIES CallsEnd
