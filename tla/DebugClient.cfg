\* One program, any requests in any order, a client that leaves either way.
SPECIFICATION FairSpec
CONSTANTS
    Files <- MCFiles
    Spellings <- MCOneSpelling
    FileOf <- MCFileOfOne
    Lines = {1, 2}
    MaxDepth = 3
    MaxStatements = 3
    MaxStarts = 1
    Restarts = "never"
    Leaves = {"disconnect", "close"}
INVARIANTS StopIsWhereItIsHeld NobodyWaitsForNobody OutputReportedOnce
PROPERTIES StopsExactlyWhereAsked DisconnectLeavesNothing EveryRequestIsAnswered
CHECK_DEADLOCK FALSE
