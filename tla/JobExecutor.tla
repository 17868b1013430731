----------------------------- MODULE JobExecutor -----------------------------
(***************************************************************************)
(* The job executor service of one scheduler0 node:                        *)
(* pkg/service/executor/executor.go.                                       *)
(*                                                                         *)
(* A job that is scheduled has an entry in jobExecutionsCache and an entry *)
(* in scheduleQueue.  ListenForJobsToInvokeV1 pops the due entries and     *)
(* hands the batch to the dispatcher; a dispatcher worker reads the jobs   *)
(* again, calls their executor, and the callback logs the outcome and      *)
(* calls reschedule, which puts the job back in the queue.                 *)
(*                                                                         *)
(* The source holds unresolved merge conflicts (lines 347 and 1029): the   *)
(* first side of each is modelled, the one that the code after it uses.    *)
(*                                                                         *)
(* The clock is left out: an entry of the queue may become due at any      *)
(* time, and several entries of one job that are due together are popped   *)
(* together and collapse into one job of the batch (a SELECT ... IN).      *)
(***************************************************************************)
EXTENDS Integers, FiniteSets, ExecutionLog

CONSTANTS
    Jobs,           \* jobs of this node
    Accounts,       \* accounts
    Account,        \* Account[j]: the account of job j
    SystemAccount,  \* the account with id 1, which has no quota in a cluster
    RetryMax,       \* RetryMax[j]: retryMax of job j
    OneTime,        \* jobs with an empty cron spec
    LocalJobs,      \* jobs whose executor is of type local, which is never pushed to
    Tasks,          \* effectors the dispatcher can hold at a time
    SingleNode,     \* singleNodeMode
    Aggregation,    \* payloadAggregation of the executors
    Faults,         \* what the environment may do, a subset of FaultKinds
    None,           \* no entry in a map
    MaxVersion,     \* bound: a job of a higher version is not popped or recovered
    MaxFailed,      \* bound: failed rows of one version
    MaxQueued,      \* bound: a job with as many queue entries is not scheduled again
    MaxQuota        \* bound: largest allocation

FaultKinds == {"crash",      \* the process is killed
               "stop",       \* StopAll on the command of the leader
               "leader",     \* a leadership change
               "overlap",    \* a job is scheduled again while it is still scheduled
               "overtake",   \* a job queued for a retry is popped before its entry is stored
               "recover",    \* RecoverJobs quick-recovers a job
               "dberror",    \* a read of the database fails
               "status",     \* a user deactivates or activates a job
               "end",        \* the end date of a job passes
               "refill"}     \* an account is given executions again

\* An entry of jobExecutionsCache.
MemExecution == [version : Nat, failCount : Nat, lastState : ExecStates]

ASSUME ConstantsAssumption ==
    /\ IsFiniteSet(Jobs) /\ IsFiniteSet(Tasks)
    /\ None \notin Jobs \cup Nat \cup MemExecution
    /\ Account \in [Jobs -> Accounts]
    /\ RetryMax \in [Jobs -> Nat]
    /\ OneTime \subseteq Jobs
    /\ LocalJobs \subseteq Jobs
    /\ {SingleNode, Aggregation} \subseteq BOOLEAN
    /\ Faults \subseteq FaultKinds
    /\ {MaxVersion, MaxFailed, MaxQueued, MaxQuota} \subseteq Nat

VARIABLES
    down,        \* "no" while the process runs, otherwise why it does not
    nodeIsLeader,
    change,      \* step of HandleRaftLeadershipChanges in progress
    cache,       \* jobExecutionsCache: job -> MemJobExecution or None
    queue,       \* scheduleQueue: number of entries of each job
    quota,       \* localQuotaAllocations: account -> tokens or None
    execCount,   \* account_job_executions_count: tokens of each account (single node)
    status,      \* status column of the jobs table
    ended,       \* HasJobEnded
    logs,        \* execution log of each job
    task,        \* effectors in the dispatcher
    sched        \* the ScheduleJobs call in progress

memory == <<nodeIsLeader, change, cache, queue, quota, task, sched>>
store  == <<execCount, status, ended, logs>>
vars   == <<down, memory, store>>

\* The panics and the fatal error the executor's own code can raise.
Panics == {"zero execution time",       \* AddJob: execution time is zero
           "zero last execution",       \* createInMem...: last execution datetime is zero
           "unlock of unlocked mutex"}  \* the second mtx.Unlock of a callback

TaskPCs == {"free", "invoke", "send", "create", "load", "log", "reschedule"}
Task    == [pc : TaskPCs, jobs : SUBSET Jobs, outcome : ExecStates, version : [Jobs -> Nat]]

NoVersion == [j \in Jobs |-> 0]
FreeTask  == [pc |-> "free", jobs |-> {}, outcome |-> "scheduled", version |-> NoVersion]

Sched    == [pc      : {"idle", "loop"},
             jobs    : SUBSET Jobs,          \* scheduledJobIds
             todo    : SUBSET Jobs,          \* jobs the loop has not reached
             retried : SUBSET Jobs,          \* jobs the loop queued for a retry
             last    : [Jobs -> LastLogType],\* executionLogsMap
             retry   : Jobs \cup {None},     \* queued for a retry, not yet cached
             fails   : Nat]                  \* failCounts of that job
IdleSched == [pc |-> "idle", jobs |-> {}, todo |-> {}, retried |-> {},
              last |-> [j \in Jobs |-> NoLastLog], retry |-> None, fails |-> 0]

TypeOK ==
    /\ down \in {"no", "crash"} \cup Panics
    /\ nodeIsLeader \in BOOLEAN
    /\ change \in {"none", "leader", "reset"}
    /\ cache \in [Jobs -> MemExecution \cup {None}]
    /\ queue \in [Jobs -> Nat]
    /\ quota \in [Accounts -> Nat \cup {None}]
    /\ execCount \in [Accounts -> Nat]
    /\ status \in [Jobs -> {"active", "inactive"}]
    /\ ended \in [Jobs -> BOOLEAN]
    /\ logs \in [Jobs -> LogType]
    /\ task \in [Tasks -> Task]
    /\ sched \in Sched

up == down = "no"
Cached(j) == cache[j] # None
AccountJobs(S, a) == {j \in S : Account[j] = a}
Smaller(m, n) == IF m < n THEN m ELSE n
FreeTasks == {t \in Tasks : task[t].pc = "free"}
Holders(j) == {t \in Tasks : j \in task[t].jobs}

\* What is left of the process when it goes down for reason r: its files.
GoDown(r) ==
    /\ down' = r
    /\ nodeIsLeader' = SingleNode
    /\ change' = "none"
    /\ cache' = [j \in Jobs |-> None]
    /\ queue' = [j \in Jobs |-> 0]
    /\ quota' = [a \in Accounts |-> None]
    /\ task' = [t \in Tasks |-> FreeTask]
    /\ sched' = IdleSched

Init ==
    /\ down = "no"
    /\ nodeIsLeader = SingleNode
    /\ change = "none"
    /\ cache = [j \in Jobs |-> None]
    /\ queue = [j \in Jobs |-> 0]
    /\ quota = [a \in Accounts |-> None]
    /\ execCount \in [Accounts -> 0 .. MaxQuota]
    /\ status = [j \in Jobs |-> "active"]
    /\ ended = [j \in Jobs |-> FALSE]
    /\ logs = [j \in Jobs |-> EmptyLog]
    /\ task = [t \in Tasks |-> FreeTask]
    /\ sched = IdleSched

-----------------------------------------------------------------------------
(* ScheduleJobs.  It takes no lock: its loop interleaves with everything.   *)

\* Accounts whose jobs ScheduleJobs takes: every account of a single node,
\* otherwise the system account and those with local quota left.
MaySchedule(a) ==
    \/ SingleNode
    \/ a = SystemAccount
    \/ quota[a] # None /\ quota[a] > 0

\* Whether the environment may ask for job j to be scheduled (again).  In a
\* cluster the leader gives itself no jobs.
Schedulable(j) ==
    /\ SingleNode \/ ~nodeIsLeader
    /\ queue[j] < MaxQueued
    /\ "overlap" \in Faults \/ (queue[j] = 0 /\ Holders(j) = {} /\ j \notin sched.jobs)

\* ScheduleJobs(S): the last execution logs and the quotas are read, and the
\* jobs that are inactive or ended are left out.
SchedStart(S) ==
    LET eligible == {j \in S : MaySchedule(Account[j]) /\ status[j] = "active" /\ ~ended[j]}
    IN  /\ up
        /\ sched.pc = "idle"
        /\ eligible # {}
        /\ \A j \in S : Schedulable(j)
        /\ \E last \in [Jobs -> {NoLastLog} \cup UNION {LastLogs(logs[j]) : j \in S}] :
             /\ \A j \in Jobs : last[j] \in IF j \in S THEN LastLogs(logs[j]) ELSE {NoLastLog}
             /\ sched' = [IdleSched EXCEPT !.pc = "loop", !.jobs = eligible,
                                           !.todo = eligible, !.last = last]
        /\ UNCHANGED <<down, nodeIsLeader, change, cache, queue, quota, task, store>>

\* Whether the last log asks for a retry: a failed row, and fewer failed rows
\* than retryMax.
AsksRetry(j, last) ==
    /\ last.version > 0
    /\ last.state = "failed"
    /\ CountLastFailed(logs[j], last.version) < RetryMax[j]

\* GetNextExecutionTime of a one-time job with a last execution date is the
\* zero time, which AddJob of the schedule queue panics on.
HasNoNextTime(j, last) ==
    /\ j \in OneTime
    /\ last.version > 0
    /\ last.state = "scheduled" => last.date = "dated"

\* Variant: the failed rows of the version are forgotten.
ScheduledEntryAnew(last, fails) ==
    [version   |-> IF last.version = 0 THEN 1 ELSE last.version,
     failCount |-> 0,
     lastState |-> last.state]

\* Variant: a scheduled job starts at its first execution again.
ScheduledEntryFirst(last, fails) ==
    [version |-> 1, failCount |-> fails, lastState |-> last.state]

\* The entry ScheduleJobs stores for a job it does not retry.
ScheduledEntry(last, fails) ==
    CASE last.version = 0 -> [version |-> 1, failCount |-> 0, lastState |-> "scheduled"]
      [] last.version > 0 /\ last.state = "failed" ->
             [version |-> last.version, failCount |-> fails, lastState |-> "failed"]
      [] OTHER -> [version |-> last.version, failCount |-> 0, lastState |-> last.state]

\* One turn of the loop for a job that starts a new execution: the entry is
\* stored, then the job is queued.
SchedStore(j) ==
    LET last  == sched.last[j]
    IN  /\ up
        /\ sched.pc = "loop"
        /\ sched.retry = None
        /\ j \in sched.todo
        /\ ~AsksRetry(j, last)
        /\ ~HasNoNextTime(j, last)
        /\ cache' = [cache EXCEPT ![j] = ScheduledEntry(last, CountLastFailed(logs[j], last.version))]
        /\ queue' = [queue EXCEPT ![j] = @ + 1]
        /\ sched' = [sched EXCEPT !.todo = @ \ {j}]
        /\ UNCHANGED <<down, nodeIsLeader, change, quota, task, store>>

\* ... and for a one-time job that has run: the queue refuses the zero time.
SchedPanic(j) ==
    LET last == sched.last[j]
    IN  /\ up
        /\ sched.pc = "loop"
        /\ sched.retry = None
        /\ j \in sched.todo
        /\ ~AsksRetry(j, last)
        /\ HasNoNextTime(j, last)
        /\ GoDown("zero execution time")
        /\ UNCHANGED store

\* A job whose last execution is retried is queued first ...
SchedRetryQueue(j) ==
    LET last == sched.last[j]
    IN  /\ up
        /\ sched.pc = "loop"
        /\ sched.retry = None
        /\ j \in sched.todo
        /\ AsksRetry(j, last)
        /\ queue' = [queue EXCEPT ![j] = @ + 1]
        /\ sched' = [sched EXCEPT !.todo    = @ \ {j},
                                  !.retried = @ \cup {j},
                                  !.retry   = j,
                                  !.fails   = CountLastFailed(logs[j], last.version)]
        /\ UNCHANGED <<down, nodeIsLeader, change, cache, quota, task, store>>

\* ... and its entry is stored after.
SchedRetryStore(j) ==
    /\ up
    /\ sched.pc = "loop"
    /\ sched.retry = j
    /\ cache' = [cache EXCEPT ![j] = [version   |-> sched.last[j].version,
                                      failCount |-> sched.fails,
                                      lastState |-> "failed"]]
    /\ sched' = [sched EXCEPT !.retry = None, !.fails = 0]
    /\ UNCHANGED <<down, nodeIsLeader, change, queue, quota, task, store>>

\* The version of the scheduled row.  It looks at the cache again, which a
\* callback may have changed since the loop stored its entry.
ScheduledVersion(j, last) ==
    LET renewed == \/ last.state = "success"
                   \/ cache[j].failCount = 0 /\ cache[j].lastState = "failed"
    IN  IF last.version = 0 THEN 1
        ELSE IF Cached(j) /\ renewed THEN last.version + 1
        ELSE last.version

\* LastExecutionDate of the job when its scheduled row is written.
ScheduledDate(j, last) ==
    IF last.version = 0 THEN "undated"
    ELSE CASE last.state = "scheduled" -> last.date
           [] last.state = "success"   -> "dated"
           [] last.state = "failed"    -> IF j \in sched.retried THEN "undated" ELSE "dated"

\* The loop is over: one BatchInsert writes the scheduled rows.
SchedInsert ==
    /\ up
    /\ sched.pc = "loop"
    /\ sched.todo = {}
    /\ sched.retry = None
    /\ logs' = [j \in Jobs |->
                  IF j \in sched.jobs
                  THEN InsertScheduled(logs[j], ScheduledVersion(j, sched.last[j]),
                                       ScheduledDate(j, sched.last[j]))
                  ELSE logs[j]]
    /\ sched' = IdleSched
    /\ UNCHANGED <<down, nodeIsLeader, change, cache, queue, quota, task, execCount, status, ended>>

\* AddJobSchedule, the quick recovery of a job whose last log is a scheduled
\* row and whose next time is to come: the execution version starts at 1 again.
AddJobSchedule(j) ==
    /\ up
    /\ "recover" \in Faults
    /\ Schedulable(j)
    /\ status[j] = "active"
    /\ ~ended[j]
    /\ \E last \in LastLogs(logs[j]) :
         last.version \in 1 .. MaxVersion /\ last.state = "scheduled" /\ ~HasNoNextTime(j, last)
    /\ cache' = [cache EXCEPT ![j] = [version |-> 1, failCount |-> 0, lastState |-> "scheduled"]]
    /\ queue' = [queue EXCEPT ![j] = @ + 1]
    /\ UNCHANGED <<down, nodeIsLeader, change, quota, task, sched, store>>

-----------------------------------------------------------------------------
(* ListenForJobsToInvokeV1 and the effectors of the dispatcher.             *)

\* Effectors each job of each batch may come to need: a batch that waits to be
\* invoked has one effector and needs one for each of its jobs.
Reserved == Cardinality({p \in Tasks \X Jobs : p[2] \in task[p[1]].jobs})

\* The listener pops the due entries: for each due job, all of its entries or
\* only the earliest.  Entries whose job has no entry in the cache are dropped,
\* the others become one batch.  It may come between the two steps by which
\* ScheduleJobs takes a job for a retry, whose entry is due at once: "overtake".
PopDue(due, left) ==
    LET live == {j \in due : Cached(j)}
    IN  /\ up
        /\ due # {}
        /\ \A j \in due : left[j] < queue[j]
        /\ "overtake" \in Faults \/ sched.retry \notin due
        /\ \A j \in live : cache[j].version <= MaxVersion
        /\ Reserved + Cardinality(live) <= Cardinality(Tasks)
        /\ queue' = [j \in Jobs |-> IF j \in due THEN left[j] ELSE queue[j]]
        /\ IF live = {} THEN task' = task
           ELSE \E t \in FreeTasks :
                  task' = [task EXCEPT ![t] = [FreeTask EXCEPT !.pc = "invoke", !.jobs = live]]
        /\ UNCHANGED <<down, nodeIsLeader, change, cache, quota, sched, store>>

\* invokeJobsV1: the jobs are read again, the inactive ones and those of a
\* local executor are dropped, and the others become deliveries of their own:
\* one for each job, or with payloadAggregation one for each group of jobs that
\* share a fire time.
Invoke(t) ==
    LET pushed == {j \in task[t].jobs : status[j] = "active" /\ j \notin LocalJobs}
    IN  /\ up
        /\ task[t].pc = "invoke"
        /\ \E to \in [pushed -> {t} \cup FreeTasks] :
             /\ Aggregation \/ \A i, j \in pushed : to[i] = to[j] => i = j
             /\ task' = [u \in Tasks |->
                           LET group == {j \in pushed : to[j] = u}
                           IN  IF group # {} THEN [FreeTask EXCEPT !.pc = "send", !.jobs = group]
                               ELSE IF u = t THEN FreeTask
                               ELSE task[u]]
        /\ UNCHANGED <<down, nodeIsLeader, change, cache, queue, quota, sched, store>>

\* The query of invokeJobsV1 fails: the batch is dropped.
InvokeFails(t) ==
    /\ up
    /\ "dberror" \in Faults
    /\ task[t].pc = "invoke"
    /\ task' = [task EXCEPT ![t] = FreeTask]
    /\ UNCHANGED <<down, nodeIsLeader, change, cache, queue, quota, sched, store>>

\* The executor answers, or the delivery fails for the last time.
Finish(t, outcome) ==
    /\ up
    /\ task[t].pc = "send"
    /\ outcome = "failed" =>
           \A j \in task[t].jobs : \/ logs[j].failed < MaxFailed
                                   \/ Cached(j) /\ cache[j].version > logs[j].settled
    /\ task' = [task EXCEPT ![t].pc = "create", ![t].outcome = outcome]
    /\ UNCHANGED <<down, nodeIsLeader, change, cache, queue, quota, sched, store>>

\* The entry of a job that has none, rebuilt from its last log.
EntryFromLog(j, last) ==
    [version   |-> last.version,
     failCount |-> IF last.state = "failed" THEN CountLastFailed(logs[j], last.version) ELSE 0,
     lastState |-> last.state]

\* createInMemExecutionsForJobsIfNotExist rebuilds the missing entries; it
\* panics on a last log without a last execution time, or without any log.
Create(t) ==
    LET missing == {j \in task[t].jobs : ~Cached(j)}
    IN  /\ up
        /\ task[t].pc = "create"
        /\ \E last \in [missing -> UNION {LastLogs(logs[j]) : j \in missing}] :
             /\ \A j \in missing : last[j] \in LastLogs(logs[j])
             /\ IF \E j \in missing : last[j].date = "undated"
                THEN GoDown("zero last execution")
                ELSE /\ cache' = [j \in Jobs |-> IF j \in missing THEN EntryFromLog(j, last[j])
                                                  ELSE cache[j]]
                     /\ task' = [task EXCEPT ![t].pc = "load"]
                     /\ UNCHANGED <<down, nodeIsLeader, change, queue, quota, sched>>
        /\ UNCHANGED store

\* The callback takes the execution version from the cache.  The callback of
\* one job unlocks its mutex twice when the entry is gone; the callback of an
\* aggregated delivery leaves the job out.
Load(t) ==
    LET resolved == {j \in task[t].jobs : Cached(j)}
    IN  /\ up
        /\ task[t].pc = "load"
        /\ IF Cardinality(task[t].jobs) = 1 /\ resolved = {}
           THEN GoDown("unlock of unlocked mutex")
           ELSE /\ task' = [task EXCEPT ![t] =
                      IF resolved = {} THEN FreeTask
                      ELSE [pc |-> "log", jobs |-> resolved, outcome |-> @.outcome,
                            version |-> [j \in Jobs |-> IF j \in resolved THEN cache[j].version ELSE 0]]]
                /\ UNCHANGED <<down, nodeIsLeader, change, cache, queue, quota, sched>>
        /\ UNCHANGED store

\* The outcome is logged under the version read from the cache, as an
\* uncommitted row in a cluster and as a row committed through raft on a single
\* node.  The clean-up that such a commit asks for
\* (DeleteNewUncommittedExecutionLogs) deletes uncommitted rows of a single node,
\* which are the scheduled ones: as these have all been committed too, it takes
\* nothing out of the log.
Log(t) ==
    LET InsertOutcome(log, v) == IF task[t].outcome = "success" THEN InsertSuccess(log, v)
                                 ELSE InsertFailed(log, v)
    IN  /\ up
        /\ task[t].pc = "log"
        /\ logs' = [j \in Jobs |-> IF j \in task[t].jobs
                                    THEN InsertOutcome(logs[j], task[t].version[j]) ELSE logs[j]]
        /\ task' = [task EXCEPT ![t].pc = "reschedule", ![t].version = NoVersion]
        /\ UNCHANGED <<down, nodeIsLeader, change, cache, queue, quota, sched, execCount, status, ended>>

-----------------------------------------------------------------------------
(* reschedule(jobs, newState), which holds mtx from beginning to end.       *)

\* Variant: the balance is not looked at before it is charged.
BudgetUnchecked(a, n) == n

\* How many of n jobs of account a can be charged.  A missing allocation counts
\* for none, and the system account of a cluster is never charged.
Budget(a, n) ==
    IF SingleNode THEN Smaller(execCount[a], n)
    ELSE IF a = SystemAccount THEN n
    ELSE IF quota[a] = None THEN 0
    ELSE Smaller(quota[a], n)

\* The jobs of account a in S, of which those in paid have been charged for, are
\* as many as it can be charged for; and so it is for every account.
Spent(S, paid, a) ==
    Cardinality(AccountJobs(paid, a)) = Budget(a, Cardinality(AccountJobs(S, a)))
Pays(S, paid) == \A a \in Accounts : Spent(S, paid, a)

\* Variant: one charge for all the jobs of an account that are in the batch.
ChargedOnce(paid, a) == IF AccountJobs(paid, a) = {} THEN 0 ELSE 1

Charged(paid, a) == Cardinality(AccountJobs(paid, a))

\* Jobs that stop because their account has nothing left on a single node.
Exhausted(S, paid) ==
    {j \in Jobs : /\ SingleNode
                  /\ Account[j] # SystemAccount
                  /\ AccountJobs(S \ paid, Account[j]) # {}}

\* Jobs that are over, of those that paid: one-time jobs whose start date has
\* passed (past) and jobs whose end date has.
Over(paid, past) == {j \in paid : (j \in OneTime /\ past) \/ ended[j]}

\* Variant: one retry too many.
RetriedTooOften(S, outcome) ==
    {j \in S : Cached(j) /\ outcome = "failed" /\ cache[j].failCount <= RetryMax[j]}

\* Jobs whose failed execution is retried under the same version.
Retried(S, outcome) ==
    {j \in S : Cached(j) /\ outcome = "failed" /\ cache[j].failCount < RetryMax[j]}

\* Variant: a one-time job is renewed like a recurring one.
RenewedAll(finished) == finished

\* A job whose execution is finished gets a new one, if there is a next time.
Renewed(finished) == finished \ OneTime

\* Jobs that paid, and whose execution succeeded or failed for the last time.
Finished(paid, past, outcome) ==
    {j \in paid \ (Over(paid, past) \cup Retried(paid \ Over(paid, past), outcome)) : Cached(j)}

\* jobsToInactivate
ToInactivate(paid, past, outcome) ==
    LET finished == Finished(paid, past, outcome)
    IN  Over(paid, past) \cup (finished \ Renewed(finished))

\* Variants: the branch of a retry goes on into the next one; a retry is stored
\* in the cache and not queued.
NewEntriesFallThrough(retried, renewed) == IF retried THEN 2 ELSE IF renewed THEN 1 ELSE 0
NewEntriesNoRetry(retried, renewed) == IF renewed THEN 1 ELSE 0

\* Entries that are queued for a job.
NewEntries(retried, renewed) == IF retried \/ renewed THEN 1 ELSE 0

NextVersion(v) == v + 1

\* Variant: the row is written under the version of the execution that is over.
RenewedLogBefore(log, v) == InsertScheduled(log, v, "dated")

\* The log once the new execution of a job is written to it.
RenewedLog(log, v) == InsertScheduled(log, NextVersion(v), "dated")

\* Variant: the status is never written.
InactivatesNone(inactivate, told) == {}

\* The jobs that become inactive in the table: off the leader of a cluster
\* updateJobOnLeader is asked to, and may fail (told).
Inactivates(inactivate, told) ==
    IF SingleNode \/ nodeIsLeader THEN inactivate ELSE inactivate \cap told

\* The accounts of a single node once the jobs in paid are charged for.
ChargedCounts(paid) ==
    [a \in Accounts |-> IF SingleNode THEN execCount[a] - Charged(paid, a) ELSE execCount[a]]

Reschedule(t) ==
    LET S       == task[t].jobs
        outcome == task[t].outcome
    IN
    /\ up
    /\ task[t].pc = "reschedule"
    /\ \E paid \in SUBSET S, past \in BOOLEAN, told \in SUBSET S :
         LET retried  == Retried(paid \ Over(paid, past), outcome)
             renewed  == Renewed(Finished(paid, past, outcome))
             inactive == ToInactivate(paid, past, outcome)
         IN
         /\ Pays(S, paid)
         /\ execCount' = ChargedCounts(paid)
         /\ quota' = [a \in Accounts |->
                         IF ~SingleNode /\ a # SystemAccount /\ quota[a] # None
                         THEN quota[a] - Charged(paid, a) ELSE quota[a]]
         /\ cache' = [j \in Jobs |->
               CASE j \in (S \ paid) \cup inactive -> None
                 [] j \in retried -> [version   |-> cache[j].version,
                                      failCount |-> cache[j].failCount + 1,
                                      lastState |-> outcome]
                 [] j \in renewed -> [version   |-> NextVersion(cache[j].version),
                                      failCount |-> 0,
                                      lastState |-> outcome]
                 [] OTHER -> cache[j]]
         /\ queue' = [j \in Jobs |-> queue[j] + NewEntries(j \in retried, j \in renewed)]
         /\ logs' = [j \in Jobs |->
               IF j \in renewed THEN RenewedLog(logs[j], cache[j].version) ELSE logs[j]]
         /\ status' = [j \in Jobs |->
               IF j \in Inactivates(inactive, told) \cup Exhausted(S, paid) THEN "inactive"
               ELSE status[j]]
    /\ task' = [task EXCEPT ![t] = FreeTask]
    /\ UNCHANGED <<down, nodeIsLeader, change, ended, sched>>

\* The process is killed inside reschedule, before the rows of the new executions
\* are written: some jobs are charged for, the jobs of accounts that turned out
\* to have nothing left (shut) are stopped, and once all jobs have been gone
\* through some are made inactive (told).
CrashInReschedule(t) ==
    LET S == task[t].jobs
    IN  /\ up
        /\ "crash" \in Faults
        /\ task[t].pc = "reschedule"
        /\ \E paid, told \in SUBSET S, past \in BOOLEAN, shut \in SUBSET Accounts :
             /\ \A a \in Accounts :
                  Cardinality(AccountJobs(paid, a)) <= Budget(a, Cardinality(AccountJobs(S, a)))
             /\ \A a \in shut : Spent(S, paid, a)
             /\ told # {} => Pays(S, paid)
             /\ execCount' = ChargedCounts(paid)
             /\ status' = [j \in Jobs |->
                  IF \/ j \in told \cap ToInactivate(paid, past, task[t].outcome)
                     \/ j \in Exhausted(S, paid) /\ Account[j] \in shut
                  THEN "inactive" ELSE status[j]]
        /\ GoDown("crash")
        /\ UNCHANGED <<ended, logs>>

\* The account counts cannot be read: reschedule gives up.
RescheduleFails(t) ==
    /\ up
    /\ "dberror" \in Faults
    /\ task[t].pc = "reschedule"
    /\ task' = [task EXCEPT ![t] = FreeTask]
    /\ UNCHANGED <<down, nodeIsLeader, change, cache, queue, quota, sched, store>>

-----------------------------------------------------------------------------
(* Control of the executor by the node, and its environment.                *)

ClearAll ==
    /\ cache' = [j \in Jobs |-> None]
    /\ queue' = [j \in Jobs |-> 0]
    /\ quota' = [a \in Accounts |-> None]

\* StopAll on the command of the leader: what is in a worker's hands goes on.
StopAll ==
    /\ up
    /\ "stop" \in Faults
    /\ \E j \in Jobs : Cached(j) \/ queue[j] > 0
    /\ ClearAll
    /\ UNCHANGED <<down, nodeIsLeader, change, task, sched, store>>

\* HandleRaftLeadershipChanges calls StopAll, ...
LeadershipChange ==
    /\ up
    /\ "leader" \in Faults
    /\ ~SingleNode
    /\ change = "none"
    /\ change' = "leader"
    /\ ClearAll
    /\ UNCHANGED <<down, nodeIsLeader, task, sched, store>>

\* ... then SetNodeIsLeader, ...
SetNodeIsLeader(isLeader) ==
    /\ up
    /\ change = "leader"
    /\ nodeIsLeader' = isLeader
    /\ change' = "reset"
    /\ UNCHANGED <<down, cache, queue, quota, task, sched, store>>

\* ... then ResetLocalQuotaAllocations.
ResetLocalQuotaAllocations ==
    /\ up
    /\ change = "reset"
    /\ quota' = [a \in Accounts |-> None]
    /\ change' = "none"
    /\ UNCHANGED <<down, nodeIsLeader, cache, queue, task, sched, store>>

\* An allocation of the leader replaces what was left of the one before.
UpdateLocalQuotaAllocations(a, n) ==
    /\ up
    /\ ~SingleNode
    /\ a # SystemAccount
    /\ quota[a] = None \/ "refill" \in Faults
    /\ quota' = [quota EXCEPT ![a] = n]
    /\ UNCHANGED <<down, nodeIsLeader, change, cache, queue, task, sched, store>>

\* A user deactivates or activates a job: UpdateJob writes the row, no more.
SetStatus(j, s) ==
    /\ "status" \in Faults
    /\ status[j] # s
    /\ status' = [status EXCEPT ![j] = s]
    /\ UNCHANGED <<down, memory, execCount, ended, logs>>

EndJob(j) ==
    /\ "end" \in Faults
    /\ ~ended[j]
    /\ ended' = [ended EXCEPT ![j] = TRUE]
    /\ UNCHANGED <<down, memory, execCount, status, logs>>

RefillAccount(a) ==
    /\ "refill" \in Faults
    /\ execCount[a] < MaxQuota
    /\ execCount' = [execCount EXCEPT ![a] = MaxQuota]
    /\ UNCHANGED <<down, memory, status, ended, logs>>

Crash ==
    /\ up
    /\ "crash" \in Faults
    /\ GoDown("crash")
    /\ UNCHANGED store

\* The store is rebuilt from the last snapshot, the raft log, and the
\* uncommitted rows found in the database.  Those of a node of a cluster are in
\* no raft log: they are taken to be preserved, as they are until the node takes
\* its first snapshot.
Restart ==
    /\ ~up
    /\ down' = "no"
    /\ UNCHANGED <<memory, store>>

-----------------------------------------------------------------------------
SchedNext ==
    \/ \E S \in SUBSET Jobs : SchedStart(S)
    \/ \E j \in Jobs : SchedStore(j)
    \/ \E j \in Jobs : SchedPanic(j)
    \/ \E j \in Jobs : SchedRetryQueue(j)
    \/ \E j \in Jobs : SchedRetryStore(j)
    \/ SchedInsert
    \/ \E j \in Jobs : AddJobSchedule(j)

ListenerNext == \E due \in SUBSET Jobs : \E left \in [due -> 0 .. MaxQueued] : PopDue(due, left)

TaskNext(t) ==
    \/ Invoke(t)
    \/ InvokeFails(t)
    \/ \E outcome \in {"success", "failed"} : Finish(t, outcome)
    \/ Create(t)
    \/ Load(t)
    \/ Log(t)
    \/ Reschedule(t)
    \/ RescheduleFails(t)

NodeNext ==
    \/ StopAll
    \/ LeadershipChange
    \/ \E isLeader \in BOOLEAN : SetNodeIsLeader(isLeader)
    \/ ResetLocalQuotaAllocations
    \/ \E a \in Accounts, n \in 0 .. MaxQuota : UpdateLocalQuotaAllocations(a, n)

EnvNext ==
    \/ \E j \in Jobs, s \in {"active", "inactive"} : SetStatus(j, s)
    \/ \E j \in Jobs : EndJob(j)
    \/ \E a \in Accounts : RefillAccount(a)
    \/ Crash
    \/ \E t \in Tasks : CrashInReschedule(t)
    \/ Restart

Next ==
    \/ SchedNext
    \/ ListenerNext
    \/ \E t \in Tasks : TaskNext(t)
    \/ NodeNext
    \/ EnvNext

Spec == Init /\ [][Next]_vars

\* The loop of ScheduleJobs, the listener and the workers go on as long as they
\* have something to do: an entry is due in the end, an executor answers or its
\* client times out, and goroutines are scheduled fairly.
SchedStep == \/ \E j \in Jobs : SchedStore(j) \/ SchedPanic(j) \/ SchedRetryQueue(j) \/ SchedRetryStore(j)
             \/ SchedInsert
PopJob(j) == \E due \in SUBSET Jobs : /\ j \in due
                                      /\ \E left \in [due -> 0 .. MaxQueued] : PopDue(due, left)
Fairness ==
    /\ WF_vars(SchedStep)
    /\ \A j \in Jobs : WF_vars(PopJob(j))
    /\ \A t \in Tasks : WF_vars(TaskNext(t))

FairSpec == Spec /\ Fairness

-----------------------------------------------------------------------------
(* Properties.                                                              *)

\* Entries of job j in the queue and executions of it under way.
Tokens(j) == queue[j] + Cardinality(Holders(j))

\* What memory says is executed is never ahead of the log on disk, so that a
\* restart resumes from the log without going back to an execution that is over:
\* neither the version of an entry of jobExecutionsCache nor the version a
\* callback is about to log an outcome under exceeds the latest logged one,
\* except for the jobs that a ScheduleJobs in progress has yet to log.
MemoryNotAheadOfLog ==
    \A j \in Jobs \ sched.jobs :
        /\ Cached(j) => cache[j].version \in 1 .. logs[j].version
        /\ \A t \in Holders(j) : task[t].version[j] <= logs[j].version

\* reschedule counts retries in memory, CountLastFailedExecutionLogs on disk.
\* The two agree whenever no outcome of the job waits to be rescheduled, also
\* after a restart: a crash neither gives retries back nor takes any away.
RetryCountAgrees ==
    \A j \in Jobs :
        (Cached(j) /\ \A t \in Holders(j) : task[t].pc # "reschedule")
        => cache[j].failCount = CountLastFailed(logs[j], cache[j].version)

\* Nor does memory go back behind the outcomes on disk, however the process is
\* restarted and its jobs scheduled again: no execution is run, or has its
\* outcome logged, under a version older than one that has an outcome.
MemoryNotBehindOutcomes ==
    \A j \in Jobs :
        /\ Cached(j) => cache[j].version >= logs[j].settled
        /\ \A t \in Holders(j) : task[t].pc = "log" => task[t].version[j] >= logs[j].settled

\* Every path of the executor that queues a job has taken it from the queue
\* before: a job that is not scheduled anew while it is scheduled has at most one
\* entry in the queue or one execution under way.
SingleFlight == \A j \in Jobs : Tokens(j) <= 1

\* "Scheduler0 guarantees at-least-once execution": a job of the cache that is
\* active is in the queue or in the hands of a worker, or it never fires again.
NoJobStranded ==
    \A j \in Jobs \ LocalJobs :
        Cached(j) /\ status[j] = "active" => Tokens(j) > 0

\* A one-time job has one execution: no row of a second version is ever logged
\* for it, and once its success is logged it is not in the queue again.
OneTimeRunsOnce ==
    \A j \in OneTime : logs[j].version <= 1 /\ (logs[j].success => queue[j] = 0)

\* An execution fails at most retryMax times after its first failure: the
\* failed rows of a version never exceed retryMax + 1.
FailuresBounded == \A j \in Jobs : logs[j].failed <= RetryMax[j] + 1

\* None of the panics of the executor is reached while its jobs are neither
\* stopped nor scheduled twice and the process does not crash.
NoPanic == down \notin Panics

\* AddJob's assertion, "execution time is zero": ScheduleJobs never queues a job
\* without a next execution time.
NoZeroExecutionTime == down # "zero execution time"

\* A step of a worker or of the listener leaves no job with more entries and
\* executions than it had, whatever else interleaves with the callbacks.
ExecutionsDoNotMultiply ==
    [][task' # task => \A j \in Jobs : Tokens(j)' <= Tokens(j)]_vars

\* What account a may still be charged, and the entries its jobs have.
Balance(a) == IF SingleNode THEN execCount[a] ELSE IF quota[a] = None THEN 0 ELSE quota[a]
QueuedOf(a) == Cardinality({p \in Jobs \X (1 .. MaxQueued + Cardinality(Tasks)) :
                              Account[p[1]] = a /\ p[2] <= queue[p[1]]})

\* Each job that reschedule queues again is paid for by its account, also when
\* the jobs of an aggregated delivery are rescheduled together.
RequeuesArePaid ==
    [][task' # task => \A a \in Accounts :
          (a = SystemAccount /\ ~SingleNode) \/ QueuedOf(a)' - QueuedOf(a) <= Balance(a) - Balance(a)']_vars

\* A scheduled job keeps being executed: its entry moves on to the next version,
\* up to the bound, unless the job is over or its account exhausted.
ScheduledJobsProgress ==
    \A j \in Jobs \ LocalJobs :
        Cached(j) ~> (~Cached(j) \/ status[j] = "inactive" \/ cache[j].version > MaxVersion)

=============================================================================
