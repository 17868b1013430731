SPECIFICATION FanInFairSpec
CONSTANTS
    NoLeader = NoLeader
    FanNode = {n1, n2}
    ExecutionLog = {l1}
    MaxChanges = 1
    MaxTicks = 0
CHECK_DEADLOCK FALSE
PROPERTY LeaderAcceptsWrites
