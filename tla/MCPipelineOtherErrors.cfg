SPECIFICATION Spec
CONSTANTS
    Name <- MCName
    Class <- MCClass
    Func <- MCFunc
    Def <- MCDef
    NotADict = NotADict
    Path <- MCPath
    Queue <- MCQueue
    QueueType <- MCQueueType
    HasUrl = {"sqs_url"}
    MockAws = FALSE
    Deployments <- MCDeployments
    Events <- FewEvents
    Does <- MCDoes
    HandlerRaises <- NoHandlerRaises
    Attributes <- MCAttributes
    MaxDepth = 3
INVARIANT
    OtherErrorsAreDropped
