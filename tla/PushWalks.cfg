SPECIFICATION Spec
CONSTANTS
    Walks <- MCWalks
    Inputs <- MCInputs
    Handed <- MCHanded
    FieldNames <- MCFieldNames
    Carried = 4
    HelperLocals = {1}
    Words = 40
    Always = Always
INVARIANTS WalkIsAFold HeldListsStay PushesStayInRoom
CHECK_DEADLOCK FALSE
