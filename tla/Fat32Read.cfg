SPECIFICATION Spec
CONSTANT NEntries = 6
INVARIANTS ReadsTheChain
PROPERTIES ReadEnds
CHECK_DEADLOCK FALSE
