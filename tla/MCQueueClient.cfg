SPECIFICATION Spec
CONSTANTS
    Queue = {"sqs", "sqs_url", "kinesis"}
    QueueType <- MCQueueType
    HasUrl = {"sqs_url"}
    Message = {"a", "b", "c", "d", "e"}
    Lists <- MCLists
    Sizes <- MCSizes
    Limit <- MCLimit
    MockAws = {"", "False"}
INVARIANTS
    TypeOK
    EachOnceInOrder
    FailureIsTold
PROPERTIES
    PutKeepsPromise
