SPECIFICATION Spec
CONSTANTS
    Names = {"a", "b", "refuses"}
    Fields = {".f"}
    Comments = {"//1", "//2"}
    Sources <- MCSources
    Width = 12
CHECK_DEADLOCK FALSE
INVARIANTS MeaningKept CommentsKept FormattedStays
