SPECIFICATION Spec
CONSTANTS
    j1 = j1
    j2 = j2
    sys = sys
    acct = acct
    t1 = t1
    t2 = t2
    None = None
    Jobs = {j1}
    Accounts = {acct}
    SystemAccount = sys
    Account <- OneJob
    RetryMax <- RetryOnce
    OneTime = {j1}
    LocalJobs = {}
    Tasks = {t1}
    SingleNode = TRUE
    Aggregation = FALSE
    Faults = {"crash"}
    MaxVersion = 2
    MaxFailed = 3
    MaxQueued = 1
    MaxQuota = 1
CHECK_DEADLOCK FALSE
INVARIANT NoZeroExecutionTime
