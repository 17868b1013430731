SPECIFICATION ServicesSpec
CONSTANTS
    NoLeader = NoLeader
    FanNode = {n1, n2}
    ExecutionLog = {l1, l2}
    MaxChanges = 2
    MaxTicks = 1
    NoTask = NoTask
    TaskRequest = {q1, q2}
    CreateJob = {q1}
    TaskReader = {c1}
    HttpReader = {c1}
    MaxModeChanges = 1
    SendTimeRequest <- Requests
    NoInstant = NoInstant
    MaxRecipients = 2
    MaxSuggestions = 4
    MaxCandidates = 60
    k1 = k1
    k2 = k2
    e1 = e1
    Command = {k1, k2}
    Failing = {k2}
    Seed = Seed
    Execution = {e1}
    Task = {}
    Cleans <- CleanedRows
    NoBackup = NoBackup
    NoSnapshot = NoSnapshot
    MaxCrashes = 2
    MaxRetained = 2
CHECK_DEADLOCK FALSE
INVARIANT AcceptingIsSettled
INVARIANT FollowerKeepsRows
INVARIANT AnswersOwn
 
 
 
INVARIANT SuggestionsAllowed
INVARIANT SpreadBestFirst
 
INVARIANT RowsSurviveRestart
