SPECIFICATION Spec
CONSTANTS
    Modules = {"a", "b", "std", "core"}
    NoModule = "none"
    Shipped <- MCShipped
    Provided <- MCProvided
    Uris = {"a", "b", "bx"}
    Files = {"fa", "fb"}
    FileOf <- MCFileOf
    Walked = {"a", "b"}
    Rank <- MCRank
    Texts <- MCTexts
    FirstDisk <- MCDisk
    Absent = Absent
    Closed = Closed
    Fresh = "fresh"
    Asked <- OwnNames
    MaxEdits = 1
    MaxRenames = 1
    MaxPending = 2
    MaxUnread = 1
INVARIANTS DocumentsFollow SquigglesAreCurrent NoEditAfterShutdown
PROPERTIES RenameBreaksNothing
CHECK_DEADLOCK FALSE
