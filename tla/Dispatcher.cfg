SPECIFICATION FairSpec
CONSTANTS
    batch = batch
    other = other
    send1 = send1
    send2 = send2
    send3 = send3
    send4 = send4
    send5 = send5
    send6 = send6
    create = create
    backup = backup
    k1 = k1
    k2 = k2
    None = None
    Works = {batch, other, send1, send2, send3, send4, send5, send6, create}
    Roots = {batch, other, create}
    Submits <- FanOut
    Answering = {create}
    Awaited = {create}
    Workers = {k1, k2}
    MaxQueue = 1
    PendingMin = 9
CHECK_DEADLOCK FALSE
INVARIANT TypeOK
PROPERTY ImplementsWorkBag
PROPERTY EveryWorkEnds
