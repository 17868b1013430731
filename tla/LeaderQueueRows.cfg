SPECIFICATION JobAssignmentSpec
CONSTANTS
    QueueNode = {1, 2, 3}
    FirstNode = 1
    Account = {2, 3}
    RowsPerCommand = 5
    MaxJobs = 2
    MaxBatch = 2
    MaxOutages = 2
    MaxInactive = 0
CHECK_DEADLOCK FALSE
INVARIANT QueueRowsFound
