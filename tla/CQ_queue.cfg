SPECIFICATION FairSpec
CONSTANTS
    l1 = l1
    l2 = l2
    u1 = u1
    u2 = u2
    Thread <- Threads
    Producer = {l1, l2}
    Callback = {l2}
    Consumer = {u1, u2}
    MaxItems = 4
    MaxConstructs = 0
    NoThread = NoThread
CHECK_DEADLOCK FALSE
INVARIANTS
    TypeOK
    QueueInv
PROPERTIES
    HandsOver
    AllDelivered
