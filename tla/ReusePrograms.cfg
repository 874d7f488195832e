\* Every pair of small functions, and folds.
SPECIFICATION Spec
CONSTANTS
    Programs <- MCPrograms
    MaxSlots = 4
    MaxDepth = 3
INVARIANTS SummariesAreSound QuietIsConverged
CHECK_DEADLOCK FALSE
