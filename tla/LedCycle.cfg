SPECIFICATION Spec
CONSTANTS
    Wrap = 12
    MaxLoop = 4
    TreeTicks = 5
    ScrollTicks = 3
    SweepTicks = 3
    BlinkTicks = 2
    CharCols = 3
    GoLen = 3
    CsLen = 2
    BlinkChar = 2
INVARIANTS TypeOK StripShowsState
PROPERTIES StaysItsTime PassIsComplete CycleGoesOn
