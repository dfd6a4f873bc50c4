SPECIFICATION FilesSpec
CONSTANTS
    NEntries = 8
    EntriesPerSector = 4
    DirChain <- TwoClusters
    BadClusters = {4}
    SlotsPerCluster = 1
    DottedNames = {a, b, c}
    BareNames = {}
    NoName = NoName
    Payloads = {v, w}
    NoPayload = NoPayload
    MaxLength = 3
    Calls = {}
    PowerLossAllowed = TRUE
    TearResumed = FALSE
    Absent = Absent
INVARIANTS TypeOK MemorySound DiskSound  UniqueDottedNames
PROPERTIES ImplementsStore
SYMMETRY Alike
