SPECIFICATION Spec
CONSTANTS
    Name <- MCName
    Class <- MCClass
    Func <- MCFunc
    Def <- MCDef
    NotADict = NotADict
    Path <- MCPath
    Queue <- MCQueue
    QueueType <- MCQueueType
    HasUrl = {"sqs_url"}
    MockAws = TRUE
    Deployments <- AllDeployments
    Events <- AllEvents
    Does <- MCDoes
    HandlerRaises <- MCHandlerRaises
    Attributes <- MCAttributes
    MaxDepth = 3
INVARIANTS
    TypeOK
    VerdictsHaveReasons
    OneVerdict
    
    SuccessIsClean
    UserErrorsContained
    DeeperFirst
    OutputPerVerdict
    EndsForACause
    ArgumentsFit
    ResponsesAsTested
PROPERTIES
    ProcessEventSpec
    WorkDescends
