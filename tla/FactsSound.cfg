SPECIFICATION Spec
CONSTANTS
    MaxInt = 15
    MaxValue = 2
    Params = {"x"}
    Locals = {"y"}
    State = {"s"}
    Lengths = {"n"}
    Fields = {"f"}
    Refined <- MCRefined
    Declarations <- MCDeclarations
    Conditions <- MCConditions
    Values <- MCValues
    Orders <- MCOrders
    MaxStatements = 3
    MaxNesting = 2
    Forms = {}
INVARIANTS FactsHold ProvenIsTrue
CHECK_DEADLOCK FALSE
