SPECIFICATION Spec
CONSTANTS
    NEntries = 8
    EntriesPerSector = 4
    DirChain <- TwoClusters
    BadClusters = {4}
    SlotsPerCluster = 1
    DottedNames = {a, b}
    BareNames = {c}
    NoName = NoName
    Payloads = {v}
    NoPayload = NoPayload
    MaxLength = 2
    Calls = {"rename_over", "truncate_to_zero", "truncate_beyond"}
    PowerLossAllowed = TRUE
    TearResumed = TRUE
INVARIANTS DirIntact
