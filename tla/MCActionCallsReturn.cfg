SPECIFICATION Spec
CONSTANTS
    Name <- MCName
    Class <- MCClass
    Func <- MCFunc
    Def <- MCDef
    NotADict = NotADict
    Requests <- MCRequests
INVARIANT
    OnlyParametersConflict
CHECK_DEADLOCK FALSE
