SPECIFICATION Spec
CONSTANTS
    Handlers <- MCHandlers
    EffectOf <- MCEffectOf
    Fields <- MCFields
    Codes <- MCCodes
    Effects <- MCEffects
    Operations <- MCOperations
    Values = {1, 2}
    MaxDepth = 5
    FRAME_START = 5
    HEAP_START = 15
    ReturnsInside = TRUE
    AsksAnywhere = FALSE
INVARIANT FramesAreTheOpenBlocks
CHECK_DEADLOCK FALSE
