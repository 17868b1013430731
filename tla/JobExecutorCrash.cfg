SPECIFICATION Spec
CONSTANTS
    j1 = j1
    j2 = j2
    sys = sys
    acct = acct
    t1 = t1
    t2 = t2
    None = None
    Jobs = {j1, j2}
    Accounts = {acct}
    SystemAccount = sys
    Account <- OneAccount
    RetryMax <- RetryMixed
    OneTime = {j2}
    LocalJobs = {}
    Tasks = {t1, t2}
    SingleNode = TRUE
    Aggregation = FALSE
    Faults = {"crash", "refill", "status"}
    MaxVersion = 2
    MaxFailed = 3
    MaxQueued = 1
    MaxQuota = 1
SYMMETRY TaskSymmetry
CHECK_DEADLOCK FALSE
INVARIANT MemoryNotAheadOfLog
INVARIANT MemoryNotBehindOutcomes
INVARIANT RetryCountAgrees
INVARIANT SingleFlight
