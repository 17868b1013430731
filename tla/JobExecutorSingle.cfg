SPECIFICATION FairSpec
CONSTANTS
    j1 = j1
    j2 = j2
    sys = sys
    acct = acct
    t1 = t1
    t2 = t2
    None = None
    Jobs = {j1, j2}
    Accounts = {acct}
    SystemAccount = sys
    Account <- OneAccount
    RetryMax <- RetryOnce
    OneTime = {j2}
    LocalJobs = {}
    Tasks = {t1, t2}
    SingleNode = TRUE
    Aggregation = TRUE
    Faults = {"end"}
    MaxVersion = 2
    MaxFailed = 3
    MaxQueued = 1
    MaxQuota = 2
CHECK_DEADLOCK FALSE
INVARIANT NoJobStranded
INVARIANT FailuresBounded
INVARIANT OneTimeRunsOnce
 
 
PROPERTY ScheduledJobsProgress
