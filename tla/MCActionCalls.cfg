SPECIFICATION Spec
CONSTANTS
    Name <- MCName
    Class <- MCClass
    Func <- MCFunc
    Def <- MCDef
    NotADict = NotADict
    Requests <- MCRequests
INVARIANTS
    TypeOK
    HintsEnforced
    AcceptedCallBinds
    InferredNeverAsserts
    ValidatedOneByOne
CHECK_DEADLOCK FALSE
