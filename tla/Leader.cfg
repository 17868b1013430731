SPECIFICATION LeaderSpec
CONSTANTS
    QueueNode = {1, 2, 3}
    FirstNode = 1
    Account = {2, 3}
    RowsPerCommand = 2
    MaxJobs = 3
    MaxBatch = 3
    MaxOutages = 2
    MaxInactive = 1
    MaxEvents = 4
    MaxQuotaEvents = 3
    QuotaNode = {1, 2}
    QuotaAccount = {1, 2}
    Reporter = {r1}
    Limit = 2
    SystemLimit = 1
    Share = 2
    NoCount = NoCount
    MaxElections = 2
    MaxUsage = 1
    MaxTaken = 2
    Tenant = {1, 2}
    Request = {q1, q2}
    ProjectName = {"reports"}
    Unset = Unset
    MaxBatchJobs = 2
    MaxProjects = 2
    MaxExecutors = 2
    MaxTenantJobs = 2
    MaxTenantEvents = 3
    Operation = {a1, a2}
    Payment = {p1}
    NoPayment = NoPayment
    WelcomeCredit = 1
    RunPrice = 2
    FreeLimit = 1
    PaidLimit = 2
    MaxWindow = 2
    MaxAccountEvents = 3
CHECK_DEADLOCK FALSE
 
PROPERTY AssignsBatchOnce
 
INVARIANT ExecutionsPaid
INVARIANT SystemStaysActive
INVARIANT TenantsApart
PROPERTY ChecksFailOnlyInRaces
INVARIANT LedgerExplainsBalance
INVARIANT LimitPassedByOverlapOnly
