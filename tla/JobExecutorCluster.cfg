SPECIFICATION Spec
CONSTANTS
    j1 = j1
    j2 = j2
    sys = sys
    acct = acct
    t1 = t1
    t2 = t2
    None = None
    Jobs = {j1}
    Accounts = {acct}
    SystemAccount = sys
    Account <- OneJob
    RetryMax <- RetryOnce
    OneTime = {}
    LocalJobs = {}
    Tasks = {t1, t2}
    SingleNode = FALSE
    Aggregation = TRUE
    Faults = {"leader", "stop", "overlap", "overtake", "recover", "dberror"}
    MaxVersion = 1
    MaxFailed = 1
    MaxQueued = 1
    MaxQuota = 1
SYMMETRY TaskSymmetry
CHECK_DEADLOCK FALSE
INVARIANT TypeOK
PROPERTY ExecutionsDoNotMultiply
