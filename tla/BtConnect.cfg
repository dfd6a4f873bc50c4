SPECIFICATION FairSpec
CONSTANTS
    Alice = Alice
    Bob = Bob
    Hosts = {Alice, Bob}
    Opcodes <- AllOpcodes
    CommandSlots = 1
    NChunks = 2
    MaxData = 2
    AclSlots = 1
    NTyped = 3
    Terse = {Bob}
    LinkMayFail = TRUE
INVARIANTS TypeOK CommandsFit EventsAsExpected StreamInOrder NothingUnread
PROPERTIES UploadEnds ConnectEnds TypedIsShown
CHECK_DEADLOCK FALSE
