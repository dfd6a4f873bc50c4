SPECIFICATION Spec
CONSTANTS
    FifoSize = 3
    Trigger = 2
    NBytes = 3
    NPuts = 4
INVARIANTS TypeOK StaffInOrder NothingLost
PROPERTIES ReaderServed
CHECK_DEADLOCK FALSE
