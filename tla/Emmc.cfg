SPECIFICATION FairSpec
CONSTANTS
    Kinds = {"v1", "v2", "hc"}
    NSectors = 2
    Values = {0, 1}
    Junk = Junk
    MaxResets = 4
    MaxTries = 3
    MaxBusy = 1
    Noisy = {"GoIdle", "SendIfCond", "IOSetOpCond", "App", "OcrCheck", "SendCide",
             "SendRelativeAddr", "SelectCard", "SetBlockLen", "SendSCR",
             "ReadBlock", "ReadMultiple", "WriteBlock", "WriteMultiple"}
    Faults = {"lost", "garbled", "late", "stuck data", "corrupt", "reset"}
    MaxFaults = 2
INVARIANTS TypeOK
PROPERTIES ImplementsDevice CallsEnd InitRecovers
CHECK_DEADLOCK FALSE
