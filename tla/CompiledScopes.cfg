SPECIFICATION Spec
CONSTANTS
    Handlers <- MCHandlers
    EffectOf <- MCEffectOf
    Fields <- MCFields
    Codes <- MCCodes
    Effects <- MCEffects
    Operations <- MCOperations
    Values = {1, 2}
    MaxDepth = 5
    FRAME_START = 5
    HEAP_START = 15
    ReturnsInside = FALSE
    AsksAnywhere = FALSE
INVARIANTS FramesAreTheOpenBlocks RoomIsGivenBack
PROPERTY ImplementsScopes
CHECK_DEADLOCK FALSE
