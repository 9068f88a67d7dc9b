SPECIFICATION Spec
CONSTANTS
    m1 = m1
    m2 = m2
    w1 = w1
    w2 = w2
    Message = {m1, m2}
    Worker = {w1, w2}
    Batches <- MCBatches
    MaxReceives = 2
INVARIANTS
    TypeOK
    NothingLost
PROPERTIES
    RemovedByItsInvocation
    QueueDrains
    WorkersProcessEvents
CHECK_DEADLOCK FALSE
