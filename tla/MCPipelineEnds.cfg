SPECIFICATION HSpec
CONSTANTS
    Name <- MCName
    Class <- MCClass
    Func <- MCFunc
    Def <- MCDef
    NotADict = NotADict
    Path <- MCPath
    Queue <- MCQueue
    QueueType <- MCQueueType
    HasUrl = {"sqs_url"}
    MockAws = TRUE
    Deployments <- MCDeployments
    Events <- FewEvents
    Does <- MCDoes
    HandlerRaises <- MCHandlerRaises
    Attributes <- MCAttributes
    MaxDepth = 3
PROPERTIES
    EveryInvocationEnds
    SuccessIsComplete
