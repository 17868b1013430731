SPECIFICATION Spec
CONSTANTS
    j1 = j1
    j2 = j2
    sys = sys
    acct = acct
    t1 = t1
    t2 = t2
    None = None
    Jobs = {j1}
    Accounts = {acct}
    SystemAccount = sys
    Account <- OneJob
    RetryMax <- RetryTwice
    OneTime = {}
    LocalJobs = {}
    Tasks = {t1, t2}
    SingleNode = FALSE
    Aggregation = FALSE
    Faults = {"crash", "refill", "overtake"}
    MaxVersion = 2
    MaxFailed = 3
    MaxQueued = 1
    MaxQuota = 2
CHECK_DEADLOCK FALSE
INVARIANT NoJobStranded
