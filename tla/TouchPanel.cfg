SPECIFICATION Spec
CONSTANTS
    Fifo = 2
    Max = 7
    Tolerance = 1
    Positions <- Places
    Columns = 4
    Pages = 2
    PageBits = 2
    Leftovers = {0, 5}
    ShowEvery = 2
    InitCommands = 2
    Faults = {"nak", "stretch"}
    MaxMoves = 2
    MaxPoints = 3
INVARIANTS TypeOK SampleIsReal PanelCatchesUp
PROPERTIES PanelIsReal
