SPECIFICATION Spec
CONSTANTS
    Refinements <- TheRefinements
    Shapes <- TheShapes
    Generics <- TheGenerics
    Params <- TheParams
    Signatures <- TheSignatures
    Library <- TheLibrary
    Programs <- ThePrograms
    Inputs <- TheInputs
    MostInt = 7
INVARIANTS AcceptedProgramsRun AnswersAreOfTheirType WhatIsBuiltValidates EnginesAgree
CHECK_DEADLOCK FALSE
