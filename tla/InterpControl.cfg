CONSTANTS
    Functions = {"main", "write", "each"}
    Main = "main"
    Generic = {"each"}
    Ensuring <- MCEnsuring
    Handlers = {"Loud", "Memory"}
    Cleaning = {"Loud", "Memory"}
    Ops = {"note", "get", "print"}
    HostOps = {"print"}
    Effects = {"Log", "Db", "Io"}
    EffectOf <- MCEffectOf
    Implements <- MCImplements
    Uses <- MCUses
    OpUses <- MCOpUses
    FinallyUses <- MCFinallyUses
    Lists <- OrMemory
    Closures <- MCClosures
    Values = {0}
    Faults = {"contract", "assert", "abandoned"}
    ReturnSites = {"body", "clause", "closure", "finally", "install"}
    MaxDepth = 4
    MaxStack = 4
SPECIFICATION Spec
INVARIANTS Balanced OwnState
PROPERTIES LeavesAsFound CleanupOnce OriginalFailureKept RowsAreKept EffectsAreAnswered
