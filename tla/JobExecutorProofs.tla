-------------------------- MODULE JobExecutorProofs --------------------------
(***************************************************************************)
(* The executor of one node, for any number of jobs, accounts and           *)
(* effectors and any retryMax, a single node or a node of a cluster.        *)
(*                                                                         *)
(* For any faults: its counters stay in range (TypeCorrect), memory is      *)
(* never ahead of the log (MemoryBehindLog), callbacks do not multiply      *)
(* executions (CallbacksDoNotMultiply) and what they queue is paid for      *)
(* (RequeuesPaidFor).                                                      *)
(*                                                                         *)
(* The other theorems are about a job in the places it can be: the cache,   *)
(* the queue, the hands of an effector, a ScheduleJobs call in progress.    *)
(* FlightInv says it is in one of them at a time, RetryInv that its entry   *)
(* agrees with its log, StrandInv that it is in one of them at all, LifeInv *)
(* that an entry outlives the executions that need it. Each needs that some *)
(* of the faults do not happen: OrderlyFaults, SteadyFaults, Undisturbed.   *)
(***************************************************************************)
EXTENDS JobExecutor, FiniteSetTheorems, TLAPS

-----------------------------------------------------------------------------
(* The execution log.                                                       *)

\* A scheduled row leaves a log at least as new as it was, and as the row.
LEMMA ScheduledRow ==
    ASSUME NEW log \in LogType, NEW v \in Nat, NEW date \in RowDates
    PROVE  /\ InsertScheduled(log, v, date) \in LogType
           /\ InsertScheduled(log, v, date).version >= log.version
           /\ InsertScheduled(log, v, date).version >= v
  <1>1. log \in LogRecord /\ log.settled <= log.version
    BY DEF LogType
  <1>2. CASE v < log.version \/ v = log.settled
    BY <1>1, <1>2 DEF InsertScheduled, LogType, LogRecord
  <1>3. CASE ~(v < log.version \/ v = log.settled)
    <2> DEFINE new == [log EXCEPT !.version   = v,
                                  !.scheduled = IF v = log.version THEN @ \cup {date} ELSE {date}]
    <2>1. new \in LogRecord /\ new.version = v /\ new.settled = log.settled
      BY <1>1 DEF LogRecord
    <2>2. InsertScheduled(log, v, date) = new
      BY <1>3 DEF InsertScheduled
    <2> HIDE DEF new
    <2> QED
      BY <1>1, <1>3, <2>1, <2>2 DEF LogType, LogRecord
  <1> QED
    BY <1>2, <1>3

LEMMA SettledType ==
    ASSUME NEW log \in LogType, NEW v \in Nat
    PROVE  Settled(log, v) \in LogType /\ Settled(log, v).version >= log.version
  BY DEF Settled, LogType, LogRecord

\* So does the row of an outcome.
LEMMA OutcomeRow ==
    ASSUME NEW log \in LogType, NEW v \in Nat
    PROVE  /\ InsertSuccess(log, v) \in LogType
           /\ InsertSuccess(log, v).version >= log.version
           /\ InsertFailed(log, v) \in LogType
           /\ InsertFailed(log, v).version >= log.version
  <1> DEFINE top == Settled(log, v)
  <1>1. top \in LogType /\ top.version >= log.version
    BY SettledType
  <1> HIDE DEF top
  <1>2. /\ [top EXCEPT !.success = TRUE] \in LogType
        /\ [top EXCEPT !.success = TRUE].version = top.version
    BY <1>1 DEF LogType, LogRecord
  <1>3. /\ [top EXCEPT !.failed = @ + 1] \in LogType
        /\ [top EXCEPT !.failed = @ + 1].version = top.version
    BY <1>1 DEF LogType, LogRecord
  <1>4. log.version >= log.version
    BY DEF LogType, LogRecord
  <1>5. /\ InsertSuccess(log, v) \in {log, [top EXCEPT !.success = TRUE]}
        /\ InsertFailed(log, v) \in {log, [top EXCEPT !.failed = @ + 1]}
    BY DEF InsertSuccess, InsertFailed, top
  <1> QED
    BY <1>1, <1>2, <1>3, <1>4, <1>5

\* What is read as the last row has the version of the log, and is dated only
\* when there is a row.
LEMMA LastRow ==
    ASSUME NEW log \in LogType, NEW last \in LastLogs(log)
    PROVE  /\ last \in LastLogType
           /\ last.version = log.version
           /\ last.date = "dated" => log.version > 0
  <1>1. log.version \in Nat /\ log.scheduled \subseteq RowDates
    BY DEF LogType, LogRecord
  <1>2. CASE log.version = 0
    BY <1>2 DEF LastLogs, NoLastLog, LastLogType, ExecStates, RowDates
  <1>3. CASE log.version # 0 /\ log.settled < log.version
    <2>1. PICK d \in log.scheduled :
            last = [version |-> log.version, state |-> "scheduled", date |-> d]
      BY <1>3 DEF LastLogs
    <2> QED
      BY <1>1, <1>3, <2>1 DEF LastLogType, ExecStates
  <1>4. CASE log.version # 0 /\ ~(log.settled < log.version)
    <2>1. last = [version |-> log.version, state |-> IF log.failed > 0 THEN "failed" ELSE "success",
                  date |-> "undated"]
      BY <1>4 DEF LastLogs
    <2> QED
      BY <1>1, <1>4, <2>1 DEF LastLogType, ExecStates, RowDates
  <1> QED
    BY <1>2, <1>3, <1>4

LEMMA CountedFailures ==
    ASSUME NEW log \in LogType, NEW v
    PROVE  CountLastFailed(log, v) \in Nat
  BY DEF CountLastFailed, LogType, LogRecord

-----------------------------------------------------------------------------
(* Type correctness.                                                        *)

LEMMA Constants ==
    /\ IsFiniteSet(Jobs) /\ IsFiniteSet(Tasks)
    /\ None \notin Jobs /\ None \notin Nat /\ None \notin MemExecution
    /\ Account \in [Jobs -> Accounts]
    /\ RetryMax \in [Jobs -> Nat]
    /\ SingleNode \in BOOLEAN
    /\ MaxVersion \in Nat /\ MaxFailed \in Nat /\ MaxQueued \in Nat /\ MaxQuota \in Nat
  BY ConstantsAssumption

LEMMA FreeTaskType == FreeTask \in Task
  BY DEF FreeTask, Task, TaskPCs, NoVersion, ExecStates

LEMMA IdleSchedType == IdleSched \in Sched
  BY DEF IdleSched, Sched, LastLogType, NoLastLog, ExecStates, RowDates

LEMMA InitType == Init => TypeOK
  <1> SUFFICES ASSUME Init PROVE TypeOK
    OBVIOUS
  <1>1. logs \in [Jobs -> LogType]
    BY DEF Init, EmptyLog, LogType, LogRecord
  <1>2. execCount \in [Accounts -> Nat]
    BY Constants DEF Init
  <1> QED
    BY <1>1, <1>2, FreeTaskType, IdleSchedType, Constants DEF Init, TypeOK

\* A process that goes down leaves nothing of the wrong type.
LEMMA GoDownType ==
    ASSUME TypeOK, NEW r \in {"crash"} \cup Panics, GoDown(r), UNCHANGED store
    PROVE  TypeOK'
  BY FreeTaskType, IdleSchedType, Constants DEF TypeOK, GoDown, store

LEMMA ScheduledEntryType ==
    ASSUME NEW last \in LastLogType, NEW fails \in Nat
    PROVE  ScheduledEntry(last, fails) \in MemExecution
  BY DEF ScheduledEntry, LastLogType, MemExecution, ExecStates

LEMMA ScheduledRowType ==
    ASSUME TypeOK, NEW j \in Jobs
    PROVE  /\ ScheduledVersion(j, sched.last[j]) \in Nat
           /\ ScheduledVersion(j, sched.last[j]) > 0
           /\ ScheduledDate(j, sched.last[j]) \in RowDates
  <1> DEFINE last == sched.last[j]
  <1>1. last \in LastLogType
    BY DEF TypeOK, Sched
  <1> HIDE DEF last
  <1>2. ScheduledVersion(j, last) \in Nat /\ ScheduledVersion(j, last) > 0
    BY <1>1 DEF ScheduledVersion, LastLogType
  <1>3. ScheduledDate(j, last) \in RowDates
    BY <1>1 DEF ScheduledDate, LastLogType, RowDates, ExecStates
  <1> QED
    BY <1>2, <1>3 DEF last

\* The steps of ScheduleJobs.
LEMMA SchedType == TypeOK /\ SchedNext => TypeOK'
  <1> SUFFICES ASSUME TypeOK, SchedNext PROVE TypeOK'
    OBVIOUS
  <1>1. ASSUME NEW S \in SUBSET Jobs, SchedStart(S) PROVE TypeOK'
    <2> DEFINE eligible == {j \in S : MaySchedule(Account[j]) /\ status[j] = "active" /\ ~ended[j]}
    <2>1. PICK last : /\ last \in [Jobs -> {NoLastLog} \cup UNION {LastLogs(logs[j]) : j \in S}]
                      /\ \A j \in Jobs : last[j] \in IF j \in S THEN LastLogs(logs[j]) ELSE {NoLastLog}
                      /\ sched' = [IdleSched EXCEPT !.pc = "loop", !.jobs = eligible,
                                                    !.todo = eligible, !.last = last]
      BY <1>1 DEF SchedStart
    <2>2. NoLastLog \in LastLogType
      BY DEF NoLastLog, LastLogType, ExecStates, RowDates
    <2>3. \A j \in Jobs : last[j] \in LastLogType
      BY <2>1, <2>2, LastRow DEF TypeOK
    <2>4. last \in [Jobs -> LastLogType]
      BY <2>1, <2>3
    <2>5. eligible \subseteq Jobs
      OBVIOUS
    <2> HIDE DEF eligible
    <2>6. sched' \in Sched
      BY <2>1, <2>4, <2>5, IdleSchedType DEF Sched
    <2> QED
      BY <1>1, <2>6 DEF SchedStart, TypeOK, store
  <1>2. ASSUME NEW j \in Jobs, SchedStore(j) PROVE TypeOK'
    <2>1. sched.last[j] \in LastLogType
      BY DEF TypeOK, Sched
    <2>2. CountLastFailed(logs[j], sched.last[j].version) \in Nat
      BY CountedFailures DEF TypeOK
    <2>3. cache' \in [Jobs -> MemExecution \cup {None}]
      BY <1>2, <2>1, <2>2, ScheduledEntryType DEF SchedStore, TypeOK
    <2>4. sched' \in Sched
      BY <1>2 DEF SchedStore, TypeOK, Sched
    <2> QED
      BY <1>2, <2>3, <2>4 DEF SchedStore, TypeOK, store
  <1>3. ASSUME NEW j \in Jobs, SchedPanic(j) PROVE TypeOK'
    BY <1>3, GoDownType DEF SchedPanic, Panics
  <1>4. ASSUME NEW j \in Jobs, SchedRetryQueue(j) PROVE TypeOK'
    <2>1. CountLastFailed(logs[j], sched.last[j].version) \in Nat
      BY CountedFailures DEF TypeOK
    <2>2. sched' \in Sched
      BY <1>4, <2>1 DEF SchedRetryQueue, TypeOK, Sched
    <2> QED
      BY <1>4, <2>2 DEF SchedRetryQueue, TypeOK, store
  <1>5. ASSUME NEW j \in Jobs, SchedRetryStore(j) PROVE TypeOK'
    <2>1. cache' \in [Jobs -> MemExecution \cup {None}]
      BY <1>5 DEF SchedRetryStore, TypeOK, Sched, LastLogType, MemExecution, ExecStates
    <2>2. sched' \in Sched
      BY <1>5 DEF SchedRetryStore, TypeOK, Sched
    <2> QED
      BY <1>5, <2>1, <2>2 DEF SchedRetryStore, TypeOK, store
  <1>6. ASSUME SchedInsert PROVE TypeOK'
    <2>1. logs' \in [Jobs -> LogType]
      BY <1>6, ScheduledRowType, ScheduledRow DEF SchedInsert, TypeOK
    <2> QED
      BY <1>6, <2>1, IdleSchedType DEF SchedInsert, TypeOK
  <1>7. ASSUME NEW j \in Jobs, AddJobSchedule(j) PROVE TypeOK'
    BY <1>7 DEF AddJobSchedule, TypeOK, MemExecution, ExecStates, store
  <1> QED
    BY <1>1, <1>2, <1>3, <1>4, <1>5, <1>6, <1>7 DEF SchedNext

\* The listener.
LEMMA ListenerType == TypeOK /\ ListenerNext => TypeOK'
  <1> SUFFICES ASSUME TypeOK, NEW due \in SUBSET Jobs, NEW left \in [due -> 0 .. MaxQueued],
                      PopDue(due, left)
               PROVE  TypeOK'
    BY DEF ListenerNext
  <1> DEFINE live == {j \in due : Cached(j)}
  <1>1. queue' \in [Jobs -> Nat]
    <2>1. \A j \in due : left[j] \in Nat
      BY Constants
    <2>2. queue' = [j \in Jobs |-> IF j \in due THEN left[j] ELSE queue[j]]
      BY DEF PopDue
    <2> QED
      BY <2>1, <2>2 DEF TypeOK
  <1>2. [FreeTask EXCEPT !.pc = "invoke", !.jobs = live] \in Task
    BY FreeTaskType DEF Task, TaskPCs
  <1>3. \/ task' = task
        \/ \E t \in FreeTasks : task' = [task EXCEPT ![t] = [FreeTask EXCEPT !.pc = "invoke", !.jobs = live]]
    BY DEF PopDue
  <1> HIDE DEF live
  <1>4. task' \in [Tasks -> Task]
    BY <1>2, <1>3 DEF TypeOK, FreeTasks
  <1> QED
    BY <1>1, <1>4 DEF PopDue, TypeOK, store

\* No account is charged more than it has.
LEMMA ChargedWithinBalance ==
    ASSUME TypeOK, NEW S \in SUBSET Jobs, NEW paid \in SUBSET S, NEW a \in Accounts,
           Cardinality(AccountJobs(paid, a)) <= Budget(a, Cardinality(AccountJobs(S, a)))
    PROVE  /\ Charged(paid, a) \in Nat
           /\ SingleNode => Charged(paid, a) <= execCount[a]
           /\ ~SingleNode /\ a # SystemAccount /\ quota[a] # None => Charged(paid, a) <= quota[a]
  <1> DEFINE n == Cardinality(AccountJobs(S, a))
  <1>1. AccountJobs(S, a) \subseteq Jobs /\ AccountJobs(paid, a) \subseteq Jobs
    BY DEF AccountJobs
  <1>2. n \in Nat /\ Charged(paid, a) \in Nat
    BY <1>1, Constants, FS_Subset, FS_CardinalityType DEF Charged
  <1>3. Charged(paid, a) <= Budget(a, n)
    BY DEF Charged
  <1>4. execCount[a] \in Nat /\ quota[a] \in Nat \cup {None}
    BY DEF TypeOK
  <1> HIDE DEF n
  <1> QED
    BY <1>2, <1>3, <1>4 DEF Budget, Smaller

\* The callback of a delivery.
LEMMA RescheduleType == ASSUME TypeOK, NEW t \in Tasks, Reschedule(t) PROVE TypeOK'
  <1> DEFINE S       == task[t].jobs
             outcome == task[t].outcome
  <1>1. task[t] \in Task /\ S \in SUBSET Jobs /\ outcome \in ExecStates
    BY DEF TypeOK, Task
  <1>2. PICK paid \in SUBSET S, past \in BOOLEAN, told \in SUBSET S :
          LET retried  == Retried(paid \ Over(paid, past), outcome)
              renewed  == Renewed(Finished(paid, past, outcome))
              inactive == ToInactivate(paid, past, outcome)
          IN
          /\ Pays(S, paid)
          /\ execCount' = ChargedCounts(paid)
          /\ quota' = [a \in Accounts |->
                          IF ~SingleNode /\ a # SystemAccount /\ quota[a] # None
                          THEN quota[a] - Charged(paid, a) ELSE quota[a]]
          /\ cache' = [j \in Jobs |->
                CASE j \in (S \ paid) \cup inactive -> None
                  [] j \in retried -> [version   |-> cache[j].version,
                                       failCount |-> cache[j].failCount + 1,
                                       lastState |-> outcome]
                  [] j \in renewed -> [version   |-> NextVersion(cache[j].version),
                                       failCount |-> 0,
                                       lastState |-> outcome]
                  [] OTHER -> cache[j]]
          /\ queue' = [j \in Jobs |-> queue[j] + NewEntries(j \in retried, j \in renewed)]
          /\ logs' = [j \in Jobs |->
                IF j \in renewed THEN RenewedLog(logs[j], cache[j].version) ELSE logs[j]]
          /\ status' = [j \in Jobs |->
                IF j \in Inactivates(inactive, told) \cup Exhausted(S, paid) THEN "inactive"
                ELSE status[j]]
    BY DEF Reschedule
  <1> DEFINE retried  == Retried(paid \ Over(paid, past), outcome)
             renewed  == Renewed(Finished(paid, past, outcome))
             inactive == ToInactivate(paid, past, outcome)
  <1>3. \A j \in retried \cup renewed : Cached(j)
    BY DEF Retried, Renewed, Finished
  <1>4. \A a \in Accounts :
          /\ Charged(paid, a) \in Nat
          /\ SingleNode => Charged(paid, a) <= execCount[a]
          /\ ~SingleNode /\ a # SystemAccount /\ quota[a] # None => Charged(paid, a) <= quota[a]
    <2>1. TAKE a \in Accounts
    <2>2. Cardinality(AccountJobs(paid, a)) \in Nat /\ AccountJobs(paid, a) \subseteq Jobs
      <3>1. AccountJobs(paid, a) \subseteq Jobs
        BY <1>1 DEF AccountJobs
      <3> QED
        BY <3>1, Constants, FS_Subset, FS_CardinalityType
    <2>3. Cardinality(AccountJobs(paid, a)) <= Budget(a, Cardinality(AccountJobs(S, a)))
      <3>1. Cardinality(AccountJobs(paid, a)) = Budget(a, Cardinality(AccountJobs(S, a)))
        BY <1>2 DEF Pays, Spent
      <3> QED
        BY <2>2, <3>1
    <2> HIDE DEF S
    <2> QED
      BY <1>1, <2>3, ChargedWithinBalance
  <1> HIDE DEF retried, renewed, inactive, S, outcome
  <1>5. execCount' \in [Accounts -> Nat]
    BY <1>2, <1>4 DEF TypeOK, ChargedCounts
  <1>6. quota' \in [Accounts -> Nat \cup {None}]
    <2>1. \A a \in Accounts : quota[a] \in Nat \cup {None}
      BY DEF TypeOK
    <2> QED
      BY <1>2, <1>4, <2>1
  <1>7. \A j \in Jobs : Cached(j) => cache[j] \in MemExecution
    BY DEF TypeOK, Cached
  <1>8. cache' \in [Jobs -> MemExecution \cup {None}]
    <2>1. \A j \in retried : j \in Jobs =>
            [version |-> cache[j].version, failCount |-> cache[j].failCount + 1, lastState |-> outcome]
              \in MemExecution
      BY <1>1, <1>3, <1>7 DEF MemExecution
    <2>2. \A j \in renewed : j \in Jobs =>
            [version |-> NextVersion(cache[j].version), failCount |-> 0, lastState |-> outcome]
              \in MemExecution
      BY <1>1, <1>3, <1>7 DEF MemExecution, NextVersion
    <2>3. cache \in [Jobs -> MemExecution \cup {None}]
      BY DEF TypeOK
    <2>4. cache' = [j \in Jobs |->
                CASE j \in (S \ paid) \cup inactive -> None
                  [] j \in retried -> [version   |-> cache[j].version,
                                       failCount |-> cache[j].failCount + 1,
                                       lastState |-> outcome]
                  [] j \in renewed -> [version   |-> NextVersion(cache[j].version),
                                       failCount |-> 0,
                                       lastState |-> outcome]
                  [] OTHER -> cache[j]]
      BY <1>2 DEF retried, renewed, inactive
    <2> QED
      BY <2>1, <2>2, <2>3, <2>4
  <1>9. queue' \in [Jobs -> Nat]
    <2>1. \A j \in Jobs : NewEntries(j \in retried, j \in renewed) \in Nat
      BY DEF NewEntries
    <2>2. queue' = [j \in Jobs |-> queue[j] + NewEntries(j \in retried, j \in renewed)]
      BY <1>2 DEF retried, renewed
    <2> QED
      BY <2>1, <2>2 DEF TypeOK
  <1>10. logs' \in [Jobs -> LogType]
    <2>1. \A j \in renewed : j \in Jobs => RenewedLog(logs[j], cache[j].version) \in LogType
      <3> TAKE j \in renewed
      <3> HAVE j \in Jobs
      <3>1. NextVersion(cache[j].version) \in Nat /\ logs[j] \in LogType
        BY <1>3, <1>7 DEF MemExecution, NextVersion, TypeOK
      <3> QED
        BY <3>1, ScheduledRow DEF RenewedLog, RowDates
    <2>2. logs' = [j \in Jobs |-> IF j \in renewed THEN RenewedLog(logs[j], cache[j].version) ELSE logs[j]]
      BY <1>2 DEF retried, renewed
    <2> QED
      BY <2>1, <2>2 DEF TypeOK
  <1>11. status' \in [Jobs -> {"active", "inactive"}]
    BY <1>2 DEF TypeOK
  <1>12. task' \in [Tasks -> Task]
    BY FreeTaskType DEF Reschedule, TypeOK
  <1> QED
    BY <1>5, <1>6, <1>8, <1>9, <1>10, <1>11, <1>12 DEF Reschedule, TypeOK

\* A process that goes down inside reschedule has charged no account too much.
LEMMA CrashInRescheduleType == ASSUME TypeOK, NEW t \in Tasks, CrashInReschedule(t) PROVE TypeOK'
  <1> DEFINE S == task[t].jobs
  <1>1. S \in SUBSET Jobs
    BY DEF TypeOK, Task
  <1>2. PICK paid \in SUBSET S :
          /\ \A a \in Accounts :
               Cardinality(AccountJobs(paid, a)) <= Budget(a, Cardinality(AccountJobs(S, a)))
          /\ execCount' = ChargedCounts(paid)
    BY DEF CrashInReschedule
  <1>3. GoDown("crash") /\ UNCHANGED <<ended, logs>>
    BY DEF CrashInReschedule
  <1>4. status' \in [Jobs -> {"active", "inactive"}]
    BY DEF CrashInReschedule, TypeOK
  <1> HIDE DEF S
  <1>5. execCount' \in [Accounts -> Nat]
    <2>1. \A a \in Accounts : /\ Charged(paid, a) \in Nat
                              /\ SingleNode => Charged(paid, a) <= execCount[a]
      BY <1>1, <1>2, ChargedWithinBalance
    <2> QED
      BY <1>2, <2>1 DEF ChargedCounts, TypeOK
  <1> QED
    BY <1>3, <1>4, <1>5, FreeTaskType, IdleSchedType, Constants DEF TypeOK, GoDown

\* The effectors.
LEMMA TaskType == ASSUME TypeOK, NEW t \in Tasks, TaskNext(t) PROVE TypeOK'
  <1>1. task[t] \in Task
    BY DEF TypeOK
  <1>2. CASE Invoke(t)
    <2> DEFINE pushed == {j \in task[t].jobs : status[j] = "active" /\ j \notin LocalJobs}
    <2>1. PICK to \in [pushed -> {t} \cup FreeTasks] :
            task' = [u \in Tasks |->
                       LET group == {j \in pushed : to[j] = u}
                       IN  IF group # {} THEN [FreeTask EXCEPT !.pc = "send", !.jobs = group]
                           ELSE IF u = t THEN FreeTask
                           ELSE task[u]]
      BY <1>2 DEF Invoke
    <2>2. pushed \subseteq Jobs
      BY <1>1 DEF Task
    <2> HIDE DEF pushed
    <2>3. \A u \in Tasks : [FreeTask EXCEPT !.pc = "send", !.jobs = {j \in pushed : to[j] = u}] \in Task
      BY <2>2, FreeTaskType DEF Task, TaskPCs
    <2>4. task' \in [Tasks -> Task]
      BY <2>1, <2>3, FreeTaskType DEF TypeOK
    <2> QED
      BY <1>2, <2>4 DEF Invoke, TypeOK, store
  <1>3. CASE InvokeFails(t)
    BY <1>3, FreeTaskType DEF InvokeFails, TypeOK, store
  <1>4. ASSUME NEW outcome \in {"success", "failed"}, Finish(t, outcome) PROVE TypeOK'
    <2>1. [task[t] EXCEPT !.pc = "create", !.outcome = outcome] \in Task
      BY <1>1 DEF Task, TaskPCs, ExecStates
    <2>2. task' = [task EXCEPT ![t] = [task[t] EXCEPT !.pc = "create", !.outcome = outcome]]
      BY <1>4 DEF Finish
    <2> QED
      BY <1>4, <2>1, <2>2 DEF Finish, TypeOK, store
  <1>5. CASE Create(t)
    <2> DEFINE missing == {j \in task[t].jobs : ~Cached(j)}
    <2>1. PICK last \in [missing -> UNION {LastLogs(logs[j]) : j \in missing}] :
            /\ \A j \in missing : last[j] \in LastLogs(logs[j])
            /\ IF \E j \in missing : last[j].date = "undated"
               THEN GoDown("zero last execution")
               ELSE /\ cache' = [j \in Jobs |-> IF j \in missing THEN EntryFromLog(j, last[j]) ELSE cache[j]]
                    /\ task' = [task EXCEPT ![t].pc = "load"]
                    /\ UNCHANGED <<down, nodeIsLeader, change, queue, quota, sched>>
      BY <1>5 DEF Create
    <2>2. UNCHANGED store
      BY <1>5 DEF Create
    <2>3. missing \subseteq Jobs
      BY <1>1 DEF Task
    <2> HIDE DEF missing
    <2>4. CASE \E j \in missing : last[j].date = "undated"
      BY <2>1, <2>2, <2>4, GoDownType DEF Panics
    <2>5. CASE ~ \E j \in missing : last[j].date = "undated"
      <3>1. ASSUME NEW j \in missing PROVE EntryFromLog(j, last[j]) \in MemExecution
        <4>1. logs[j] \in LogType
          BY <2>3 DEF TypeOK
        <4>2. last[j] \in LastLogType
          BY <2>1, <4>1, LastRow
        <4>3. CountLastFailed(logs[j], last[j].version) \in Nat
          BY <4>1, CountedFailures
        <4> QED
          BY <4>2, <4>3 DEF EntryFromLog, MemExecution, LastLogType
      <3>2. cache' = [j \in Jobs |-> IF j \in missing THEN EntryFromLog(j, last[j]) ELSE cache[j]]
        BY <2>1, <2>5
      <3>3. cache' \in [Jobs -> MemExecution \cup {None}]
        BY <3>1, <3>2 DEF TypeOK
      <3>4. [task[t] EXCEPT !.pc = "load"] \in Task
        BY <1>1 DEF Task, TaskPCs
      <3>5. task' \in [Tasks -> Task]
        BY <2>1, <2>5, <3>4 DEF TypeOK
      <3> QED
        BY <2>1, <2>2, <2>5, <3>3, <3>5 DEF TypeOK, store
    <2> QED
      BY <2>4, <2>5
  <1>6. CASE Load(t)
    <2> DEFINE resolved == {j \in task[t].jobs : Cached(j)}
               version  == [j \in Jobs |-> IF j \in resolved THEN cache[j].version ELSE 0]
               loaded   == [pc |-> "log", jobs |-> resolved, outcome |-> task[t].outcome, version |-> version]
    <2>1. resolved \subseteq Jobs
      BY <1>1 DEF Task
    <2>2. version \in [Jobs -> Nat]
      BY DEF TypeOK, Cached, MemExecution
    <2>3. loaded \in Task
      <3> HIDE DEF resolved, version
      <3> QED
        BY <1>1, <2>1, <2>2 DEF Task, TaskPCs
    <2>4. CASE GoDown("unlock of unlocked mutex")
      BY <1>6, <2>4, GoDownType DEF Load, Panics
    <2>5. CASE ~GoDown("unlock of unlocked mutex")
      <3>1. /\ task' = [task EXCEPT ![t] = IF resolved = {} THEN FreeTask ELSE loaded]
            /\ UNCHANGED <<down, nodeIsLeader, change, cache, queue, quota, sched, store>>
        BY <1>6, <2>5 DEF Load
      <3> HIDE DEF resolved, loaded
      <3> QED
        BY <2>3, <3>1, FreeTaskType DEF TypeOK, store
    <2> QED
      BY <2>4, <2>5
  <1>7. CASE Log(t)
    <2>1. logs' \in [Jobs -> LogType]
      <3>1. \A j \in Jobs : task[t].version[j] \in Nat /\ logs[j] \in LogType
        BY <1>1 DEF Task, TypeOK
      <3> QED
        BY <1>7, <3>1, OutcomeRow DEF Log
    <2>2. [task[t] EXCEPT !.pc = "reschedule", !.version = NoVersion] \in Task
      BY <1>1 DEF Task, TaskPCs, NoVersion
    <2>3. task' = [task EXCEPT ![t] = [task[t] EXCEPT !.pc = "reschedule", !.version = NoVersion]]
      BY <1>7 DEF Log
    <2> QED
      BY <1>7, <2>1, <2>2, <2>3 DEF Log, TypeOK
  <1>8. CASE Reschedule(t)
    BY <1>8, RescheduleType
  <1>9. CASE RescheduleFails(t)
    BY <1>9, FreeTaskType DEF RescheduleFails, TypeOK, store
  <1> QED
    BY <1>2, <1>3, <1>4, <1>5, <1>6, <1>7, <1>8, <1>9 DEF TaskNext

\* Control by the node.
LEMMA NodeType == TypeOK /\ NodeNext => TypeOK'
  <1> SUFFICES ASSUME TypeOK, NodeNext PROVE TypeOK'
    OBVIOUS
  <1>1. CASE StopAll
    BY <1>1 DEF StopAll, ClearAll, TypeOK, store
  <1>2. CASE LeadershipChange
    BY <1>2 DEF LeadershipChange, ClearAll, TypeOK, store
  <1>3. ASSUME NEW isLeader \in BOOLEAN, SetNodeIsLeader(isLeader) PROVE TypeOK'
    BY <1>3 DEF SetNodeIsLeader, TypeOK, store
  <1>4. CASE ResetLocalQuotaAllocations
    BY <1>4 DEF ResetLocalQuotaAllocations, TypeOK, store
  <1>5. ASSUME NEW a \in Accounts, NEW n \in 0 .. MaxQuota, UpdateLocalQuotaAllocations(a, n) PROVE TypeOK'
    BY <1>5, Constants DEF UpdateLocalQuotaAllocations, TypeOK, store
  <1> QED
    BY <1>1, <1>2, <1>3, <1>4, <1>5 DEF NodeNext

\* The environment.
LEMMA EnvType == TypeOK /\ EnvNext => TypeOK'
  <1> SUFFICES ASSUME TypeOK, EnvNext PROVE TypeOK'
    OBVIOUS
  <1>1. ASSUME NEW j \in Jobs, NEW s \in {"active", "inactive"}, SetStatus(j, s) PROVE TypeOK'
    BY <1>1 DEF SetStatus, TypeOK, memory
  <1>2. ASSUME NEW j \in Jobs, EndJob(j) PROVE TypeOK'
    BY <1>2 DEF EndJob, TypeOK, memory
  <1>3. ASSUME NEW a \in Accounts, RefillAccount(a) PROVE TypeOK'
    BY <1>3, Constants DEF RefillAccount, TypeOK, memory
  <1>4. CASE Crash
    BY <1>4, GoDownType DEF Crash
  <1>5. CASE Restart
    BY <1>5 DEF Restart, TypeOK, memory, store
  <1>6. ASSUME NEW t \in Tasks, CrashInReschedule(t) PROVE TypeOK'
    BY <1>6, CrashInRescheduleType
  <1> QED
    BY <1>1, <1>2, <1>3, <1>4, <1>5, <1>6 DEF EnvNext

\* Every variable has its type: in particular no balance is charged below zero,
\* whichever accounts the jobs of an aggregated delivery belong to.
THEOREM TypeCorrect == Spec => []TypeOK
  <1>1. TypeOK /\ [Next]_vars => TypeOK'
    <2> SUFFICES ASSUME TypeOK, [Next]_vars PROVE TypeOK'
      OBVIOUS
    <2>1. CASE Next
      BY <2>1, SchedType, ListenerType, TaskType, NodeType, EnvType DEF Next
    <2>2. CASE UNCHANGED vars
      BY <2>2 DEF TypeOK, vars, memory, store
    <2> QED
      BY <2>1, <2>2
  <1> QED
    BY InitType, <1>1, PTL DEF Spec

-----------------------------------------------------------------------------
(* Memory and the log.  MemoryNotAheadOfLog is not inductive: a job that is *)
(* scheduled for the first time is in the cache before its first row is in *)
(* the log, and a callback that holds its version may meet a ScheduleJobs   *)
(* that is about to write that row.                                        *)

\* The version the log of a job has, or is about to have.
Latest(j) == IF logs[j].version = 0 THEN 1 ELSE logs[j].version

CacheNotAhead == \A j \in Jobs : Cached(j) => cache[j].version \in 1 .. Latest(j)

CallbackNotAhead == \A t \in Tasks, j \in Jobs : task[t].version[j] <= Latest(j)

\* Only a job that ScheduleJobs has yet to log may be in memory and not logged.
InMemory(j) == Cached(j) \/ \E t \in Tasks : task[t].version[j] > 0
InMemoryIsLogged == \A j \in Jobs \ sched.jobs : InMemory(j) => logs[j].version > 0

\* The last logs that ScheduleJobs has read may be out of date, never ahead.
SchedNotAhead ==
    /\ sched.pc = "idle" => sched.jobs = {}
    /\ sched.todo \subseteq sched.jobs
    /\ \A j \in Jobs : sched.last[j].version <= logs[j].version
    /\ sched.retry \in Jobs => sched.retry \in sched.jobs /\ sched.last[sched.retry].version > 0

MemoryInv == CacheNotAhead /\ CallbackNotAhead /\ InMemoryIsLogged /\ SchedNotAhead

\* The invariant gives the property.
LEMMA MemoryInvSuffices == TypeOK /\ MemoryInv => MemoryNotAheadOfLog
  <1> SUFFICES ASSUME TypeOK, MemoryInv, NEW j \in Jobs \ sched.jobs
               PROVE  /\ Cached(j) => cache[j].version \in 1 .. logs[j].version
                      /\ \A t \in Holders(j) : task[t].version[j] <= logs[j].version
    BY DEF MemoryNotAheadOfLog
  <1>1. logs[j].version \in Nat
    BY DEF TypeOK, LogType, LogRecord
  <1>2. ASSUME Cached(j) PROVE cache[j].version \in 1 .. logs[j].version
    BY <1>1, <1>2 DEF MemoryInv, CacheNotAhead, InMemoryIsLogged, InMemory, Latest
  <1>3. ASSUME NEW t \in Holders(j) PROVE task[t].version[j] <= logs[j].version
    <2>1. t \in Tasks /\ task[t].version[j] \in Nat
      BY DEF Holders, TypeOK, Task
    <2> QED
      BY <1>1, <2>1 DEF MemoryInv, CallbackNotAhead, InMemoryIsLogged, InMemory, Latest
  <1> QED
    BY <1>2, <1>3

\* A log that grows leaves what was not ahead of it not ahead.
LEMMA LatestGrows ==
    ASSUME TypeOK, TypeOK', NEW j \in Jobs, logs[j].version <= logs'[j].version
    PROVE  /\ Latest(j) \in Nat \ {0}
           /\ Latest(j)' \in Nat \ {0}
           /\ Latest(j) <= Latest(j)'
           /\ logs'[j].version <= Latest(j)'
  BY DEF TypeOK, LogType, LogRecord, Latest

LEMMA InitMemory == Init => MemoryInv
  <1> SUFFICES ASSUME Init PROVE MemoryInv
    OBVIOUS
  <1>1. /\ \A j \in Jobs : ~Cached(j) /\ logs[j].version = 0
        /\ \A t \in Tasks, j \in Jobs : task[t].version[j] = 0
        /\ sched = IdleSched
    BY DEF Init, Cached, FreeTask, NoVersion, EmptyLog
  <1> QED
    BY <1>1, Constants DEF MemoryInv, CacheNotAhead, CallbackNotAhead, InMemoryIsLogged, InMemory,
                      SchedNotAhead, IdleSched, NoLastLog, Latest

\* What is lost with the process cannot be ahead of anything.
LEMMA GoDownMemory ==
    ASSUME TypeOK, NEW r, GoDown(r), UNCHANGED logs
    PROVE  MemoryInv'
  <1>1. \A j \in Jobs : logs'[j].version \in Nat
    BY DEF TypeOK, LogType, LogRecord
  <1>2. /\ \A j \in Jobs : ~Cached(j)'
        /\ \A t \in Tasks, j \in Jobs : task'[t].version[j] = 0
        /\ sched' = IdleSched
    BY DEF GoDown, Cached, FreeTask, NoVersion
  <1> QED
    BY <1>1, <1>2, Constants DEF MemoryInv, CacheNotAhead, CallbackNotAhead, InMemoryIsLogged, InMemory,
                      SchedNotAhead, IdleSched, NoLastLog, Latest

\* The steps of ScheduleJobs.
LEMMA SchedMemory ==
    ASSUME TypeOK, TypeOK', MemoryInv, SchedNext
    PROVE  MemoryInv'
  <1> USE DEF MemoryInv
  <1>0. \A j \in Jobs : logs[j] \in LogType /\ logs[j].version \in Nat /\ sched.last[j].version \in Nat
    BY DEF TypeOK, LogType, LogRecord, Sched, LastLogType
  <1>1. ASSUME NEW S \in SUBSET Jobs, SchedStart(S) PROVE MemoryInv'
    <2> DEFINE eligible == {j \in S : MaySchedule(Account[j]) /\ status[j] = "active" /\ ~ended[j]}
    <2>1. PICK last : /\ \A j \in Jobs : last[j] \in IF j \in S THEN LastLogs(logs[j]) ELSE {NoLastLog}
                      /\ sched' = [IdleSched EXCEPT !.pc = "loop", !.jobs = eligible,
                                                    !.todo = eligible, !.last = last]
      BY <1>1 DEF SchedStart
    <2>2. \A j \in Jobs : last[j].version <= logs[j].version
      BY <1>0, <2>1, LastRow DEF NoLastLog
    <2>3. sched.jobs = {}
      BY <1>1 DEF SchedStart, SchedNotAhead
    <2>4. UNCHANGED <<cache, task, logs>>
      BY <1>1 DEF SchedStart, store
    <2> HIDE DEF eligible
    <2>5. SchedNotAhead'
      BY <2>1, <2>2, <2>4, Constants DEF SchedNotAhead, IdleSched
    <2>6. InMemoryIsLogged'
      BY <2>3, <2>4 DEF InMemoryIsLogged, InMemory, Cached
    <2> QED
      BY <2>4, <2>5, <2>6 DEF CacheNotAhead, CallbackNotAhead, Cached, Latest
  <1>2. ASSUME NEW j \in Jobs, SchedStore(j) PROVE MemoryInv'
    <2> DEFINE entry == ScheduledEntry(sched.last[j], CountLastFailed(logs[j], sched.last[j].version))
    <2>1. entry.version \in 1 .. Latest(j)
      BY <1>0 DEF ScheduledEntry, SchedNotAhead, Latest
    <2>2. /\ cache' = [cache EXCEPT ![j] = entry]
          /\ sched' = [sched EXCEPT !.todo = @ \ {j}]
          /\ UNCHANGED <<task, logs>>
          /\ j \in sched.todo
      BY <1>2 DEF SchedStore, store
    <2> HIDE DEF entry
    <2>3. CacheNotAhead'
      BY <2>1, <2>2 DEF CacheNotAhead, Cached, Latest, TypeOK
    <2>4. SchedNotAhead'
      BY <2>2 DEF SchedNotAhead, TypeOK, Sched
    <2>5. InMemoryIsLogged'
      BY <2>2 DEF InMemoryIsLogged, InMemory, Cached, SchedNotAhead, TypeOK, Sched
    <2> QED
      BY <2>2, <2>3, <2>4, <2>5 DEF CallbackNotAhead, Latest
  <1>3. ASSUME NEW j \in Jobs, SchedPanic(j) PROVE MemoryInv'
    BY <1>3, GoDownMemory DEF SchedPanic, store
  <1>4. ASSUME NEW j \in Jobs, SchedRetryQueue(j) PROVE MemoryInv'
    <2>1. /\ sched' = [sched EXCEPT !.todo = @ \ {j}, !.retried = @ \cup {j}, !.retry = j,
                                    !.fails = CountLastFailed(logs[j], sched.last[j].version)]
          /\ UNCHANGED <<cache, task, logs>>
          /\ j \in sched.todo
          /\ sched.last[j].version > 0
      BY <1>4 DEF SchedRetryQueue, AsksRetry, store
    <2>2. SchedNotAhead'
      BY <2>1 DEF SchedNotAhead, TypeOK, Sched
    <2>3. InMemoryIsLogged'
      BY <2>1 DEF InMemoryIsLogged, InMemory, Cached, TypeOK, Sched
    <2> QED
      BY <2>1, <2>2, <2>3 DEF CacheNotAhead, CallbackNotAhead, Cached, Latest
  <1>5. ASSUME NEW j \in Jobs, SchedRetryStore(j) PROVE MemoryInv'
    <2> DEFINE entry == [version |-> sched.last[j].version, failCount |-> sched.fails, lastState |-> "failed"]
    <2>1. /\ cache' = [cache EXCEPT ![j] = entry]
          /\ sched' = [sched EXCEPT !.retry = None, !.fails = 0]
          /\ UNCHANGED <<task, logs>>
          /\ sched.retry = j
      BY <1>5 DEF SchedRetryStore, store
    <2>2. entry.version \in 1 .. Latest(j)
      BY <1>0, <2>1 DEF SchedNotAhead, Latest
    <2> HIDE DEF entry
    <2>3. CacheNotAhead'
      BY <2>1, <2>2 DEF CacheNotAhead, Cached, Latest, TypeOK
    <2>4. SchedNotAhead'
      BY <2>1, Constants DEF SchedNotAhead, TypeOK, Sched
    <2>5. InMemoryIsLogged'
      BY <2>1 DEF InMemoryIsLogged, InMemory, Cached, SchedNotAhead, TypeOK, Sched
    <2> QED
      BY <2>1, <2>3, <2>4, <2>5 DEF CallbackNotAhead, Latest
  <1>6. CASE SchedInsert
    <2>1. /\ sched' = IdleSched
          /\ UNCHANGED <<cache, task>>
          /\ \A j \in Jobs : logs'[j] = IF j \in sched.jobs
                                        THEN InsertScheduled(logs[j], ScheduledVersion(j, sched.last[j]),
                                                             ScheduledDate(j, sched.last[j]))
                                        ELSE logs[j]
      BY <1>6 DEF SchedInsert
    <2>2. \A j \in Jobs : /\ logs[j].version <= logs'[j].version
                          /\ j \in sched.jobs => logs'[j].version > 0
      <3> TAKE j \in Jobs
      <3>1. /\ ScheduledVersion(j, sched.last[j]) \in Nat
            /\ ScheduledVersion(j, sched.last[j]) > 0
            /\ ScheduledDate(j, sched.last[j]) \in RowDates
        BY ScheduledRowType
      <3>2. logs'[j] \in LogType
        BY DEF TypeOK
      <3>3. logs'[j].version \in Nat
        BY <3>2 DEF LogType, LogRecord
      <3> QED
        BY <1>0, <2>1, <3>1, <3>3, ScheduledRow
    <2>3. \A j \in Jobs : Latest(j) \in Nat \ {0} /\ Latest(j)' \in Nat \ {0} /\ Latest(j) <= Latest(j)'
      BY <2>2, LatestGrows
    <2>4. CacheNotAhead'
      BY <2>1, <2>3 DEF CacheNotAhead, Cached, TypeOK, MemExecution
    <2>5. CallbackNotAhead'
      <3>1. \A t \in Tasks, j \in Jobs : task[t].version[j] \in Nat
        BY DEF TypeOK, Task
      <3> QED
        BY <2>1, <2>3, <3>1 DEF CallbackNotAhead
    <2>6. InMemoryIsLogged'
      <3> SUFFICES ASSUME NEW j \in Jobs, InMemory(j)' PROVE logs'[j].version > 0
        BY DEF InMemoryIsLogged
      <3>1. InMemory(j)
        BY <2>1 DEF InMemory, Cached
      <3> QED
        BY <2>1, <2>2, <3>1 DEF InMemoryIsLogged
    <2>7. SchedNotAhead'
      <3>1. \A j \in Jobs : logs'[j].version \in Nat
        BY DEF TypeOK, LogType, LogRecord
      <3> QED
        BY <2>1, <3>1, Constants DEF SchedNotAhead, IdleSched, NoLastLog
    <2> QED
      BY <2>4, <2>5, <2>6, <2>7
  <1>7. ASSUME NEW j \in Jobs, AddJobSchedule(j) PROVE MemoryInv'
    <2>1. /\ cache' = [cache EXCEPT ![j] = [version |-> 1, failCount |-> 0, lastState |-> "scheduled"]]
          /\ UNCHANGED <<task, sched, logs>>
          /\ logs[j].version > 0
      BY <1>0, <1>7, LastRow DEF AddJobSchedule, store
    <2>2. CacheNotAhead'
      BY <1>0, <2>1 DEF CacheNotAhead, Cached, Latest, TypeOK
    <2>3. InMemoryIsLogged'
      BY <2>1 DEF InMemoryIsLogged, InMemory, Cached, TypeOK
    <2> QED
      BY <2>1, <2>2, <2>3 DEF CallbackNotAhead, SchedNotAhead, Latest
  <1> QED
    BY <1>1, <1>2, <1>3, <1>4, <1>5, <1>6, <1>7 DEF SchedNext

\* A step that changes neither entries nor logs and gives no effector a version.
LEMMA MemoryUnmoved ==
    ASSUME TypeOK, MemoryInv, UNCHANGED <<cache, sched, logs>>,
           \A t \in Tasks, j \in Jobs : task'[t].version[j] \in {0, task[t].version[j]}
    PROVE  MemoryInv'
  <1>1. \A j \in Jobs : logs[j].version \in Nat
    BY DEF TypeOK, LogType, LogRecord
  <1>2. CallbackNotAhead'
    BY <1>1 DEF MemoryInv, CallbackNotAhead, Latest
  <1>3. InMemoryIsLogged'
    BY DEF MemoryInv, InMemoryIsLogged, InMemory, Cached
  <1> QED
    BY <1>2, <1>3 DEF MemoryInv, CacheNotAhead, SchedNotAhead, Cached, Latest

LEMMA ListenerMemory == ASSUME TypeOK, MemoryInv, ListenerNext PROVE MemoryInv'
  <1>1. PICK due \in SUBSET Jobs : \E left \in [due -> 0 .. MaxQueued] : PopDue(due, left)
    BY DEF ListenerNext
  <1> DEFINE live == {j \in due : Cached(j)}
  <1>2. /\ UNCHANGED <<cache, sched, logs>>
        /\ \/ task' = task
           \/ \E t \in FreeTasks : task' = [task EXCEPT ![t] = [FreeTask EXCEPT !.pc = "invoke", !.jobs = live]]
    BY <1>1 DEF PopDue, store
  <1> HIDE DEF live
  <1>3. \A t \in Tasks, j \in Jobs : task'[t].version[j] \in {0, task[t].version[j]}
    <2> DEFINE batch == [FreeTask EXCEPT !.pc = "invoke", !.jobs = live]
    <2>1. \A j \in Jobs : batch.version[j] = 0
      BY DEF FreeTask, NoVersion
    <2> HIDE DEF batch
    <2>2. task' = task \/ \E t \in Tasks : task' = [task EXCEPT ![t] = batch]
      BY <1>2 DEF FreeTasks, batch
    <2> QED
      BY <2>1, <2>2 DEF TypeOK
  <1> QED
    BY <1>2, <1>3, MemoryUnmoved

\* The end of a callback: the entries that stay keep their version or take the
\* next one, which is logged in the same critical section.
LEMMA RescheduleMemory ==
    ASSUME TypeOK, TypeOK', MemoryInv, NEW t \in Tasks, Reschedule(t)
    PROVE  MemoryInv'
  <1>1. PICK renewed \in SUBSET Jobs :
          /\ \A j \in Jobs : Cached(j)' => Cached(j)
          /\ \A j \in Jobs : Cached(j)' => cache'[j].version = IF j \in renewed
                                                              THEN NextVersion(cache[j].version)
                                                              ELSE cache[j].version
          /\ \A j \in renewed : Cached(j)
          /\ \A j \in Jobs : logs'[j] = IF j \in renewed THEN RenewedLog(logs[j], cache[j].version)
                                        ELSE logs[j]
    <2> DEFINE S       == task[t].jobs
               outcome == task[t].outcome
    <2>1. S \subseteq Jobs
      BY DEF TypeOK, Task
    <2>2. PICK paid \in SUBSET S, past \in BOOLEAN, told \in SUBSET S :
            LET retried  == Retried(paid \ Over(paid, past), outcome)
                renewed  == Renewed(Finished(paid, past, outcome))
                inactive == ToInactivate(paid, past, outcome)
            IN
            /\ cache' = [j \in Jobs |->
                  CASE j \in (S \ paid) \cup inactive -> None
                    [] j \in retried -> [version   |-> cache[j].version,
                                         failCount |-> cache[j].failCount + 1,
                                         lastState |-> outcome]
                    [] j \in renewed -> [version   |-> NextVersion(cache[j].version),
                                         failCount |-> 0,
                                         lastState |-> outcome]
                    [] OTHER -> cache[j]]
            /\ logs' = [j \in Jobs |->
                  IF j \in renewed THEN RenewedLog(logs[j], cache[j].version) ELSE logs[j]]
      BY DEF Reschedule
    <2> DEFINE retried  == Retried(paid \ Over(paid, past), outcome)
               renewed  == Renewed(Finished(paid, past, outcome))
               inactive == ToInactivate(paid, past, outcome)
    <2>3. /\ retried \subseteq Jobs
          /\ renewed \subseteq Jobs
          /\ \A j \in retried \cup renewed : Cached(j)
          /\ retried \cap renewed = {}
      BY <2>1 DEF Retried, Renewed, Finished
    <2>4. /\ cache' = [j \in Jobs |->
                  CASE j \in (S \ paid) \cup inactive -> None
                    [] j \in retried -> [version   |-> cache[j].version,
                                         failCount |-> cache[j].failCount + 1,
                                         lastState |-> outcome]
                    [] j \in renewed -> [version   |-> NextVersion(cache[j].version),
                                         failCount |-> 0,
                                         lastState |-> outcome]
                    [] OTHER -> cache[j]]
          /\ logs' = [j \in Jobs |->
                  IF j \in renewed THEN RenewedLog(logs[j], cache[j].version) ELSE logs[j]]
      BY <2>2
    <2> HIDE DEF S, outcome, retried, renewed, inactive
    <2> SUFFICES
          /\ \A j \in Jobs : Cached(j)' => Cached(j)
          /\ \A j \in Jobs : Cached(j)' => cache'[j].version = IF j \in renewed
                                                              THEN NextVersion(cache[j].version)
                                                              ELSE cache[j].version
          /\ \A j \in renewed : Cached(j)
          /\ \A j \in Jobs : logs'[j] = IF j \in renewed THEN RenewedLog(logs[j], cache[j].version)
                                        ELSE logs[j]
      BY <2>3
    <2> QED
      BY <2>3, <2>4 DEF Cached
  <1>2. \A j \in Jobs : /\ logs[j] \in LogType /\ logs[j].version \in Nat /\ logs'[j].version \in Nat
                        /\ Cached(j) => cache[j].version \in Nat
    BY DEF TypeOK, LogType, LogRecord, Cached, MemExecution
  <1>3. \A j \in Jobs : /\ logs[j].version <= logs'[j].version
                        /\ j \in renewed => NextVersion(cache[j].version) <= logs'[j].version
    <2> TAKE j \in Jobs
    <2>1. CASE j \in renewed
      <3>1. NextVersion(cache[j].version) \in Nat
        BY <1>1, <1>2, <2>1 DEF NextVersion
      <3> QED
        BY <1>1, <1>2, <2>1, <3>1, ScheduledRow DEF RenewedLog, RowDates
    <2>2. CASE j \notin renewed
      BY <1>1, <1>2, <2>2
    <2> QED
      BY <2>1, <2>2
  <1>4. \A j \in Jobs : /\ Latest(j) \in Nat \ {0} /\ Latest(j)' \in Nat \ {0}
                        /\ Latest(j) <= Latest(j)' /\ logs'[j].version <= Latest(j)'
    BY <1>3, LatestGrows
  <1>5. CacheNotAhead'
    <2> SUFFICES ASSUME NEW j \in Jobs, Cached(j)' PROVE cache'[j].version \in 1 .. Latest(j)'
      BY DEF CacheNotAhead
    <2>1. cache[j].version \in 1 .. Latest(j)
      BY <1>1 DEF MemoryInv, CacheNotAhead
    <2> QED
      BY <1>1, <1>2, <1>3, <1>4, <2>1 DEF NextVersion
  <1>6. \A u \in Tasks, j \in Jobs : /\ task[u].version[j] \in Nat
                                     /\ task'[u].version[j] \in {0, task[u].version[j]}
    BY DEF TypeOK, Task, Reschedule, FreeTask, NoVersion
  <1>7. CallbackNotAhead'
    BY <1>4, <1>6 DEF MemoryInv, CallbackNotAhead
  <1>8. sched' = sched
    BY DEF Reschedule
  <1>9. InMemoryIsLogged'
    <2> SUFFICES ASSUME NEW j \in Jobs \ sched.jobs, InMemory(j)' PROVE logs'[j].version > 0
      BY <1>8 DEF InMemoryIsLogged
    <2>1. InMemory(j)
      BY <1>1, <1>6 DEF InMemory
    <2> QED
      BY <1>2, <1>3, <2>1 DEF MemoryInv, InMemoryIsLogged
  <1>10. SchedNotAhead'
    <2>1. \A j \in Jobs : sched.last[j].version \in Nat
      BY DEF TypeOK, Sched, LastLogType
    <2> QED
      BY <1>2, <1>3, <1>8, <2>1 DEF MemoryInv, SchedNotAhead
  <1> QED
    BY <1>5, <1>7, <1>9, <1>10 DEF MemoryInv

\* The steps of an effector.
LEMMA TaskMemory ==
    ASSUME TypeOK, TypeOK', MemoryInv, NEW t \in Tasks, TaskNext(t)
    PROVE  MemoryInv'
  <1>1. /\ task \in [Tasks -> Task]
        /\ \A u \in Tasks, j \in Jobs : task[u].version[j] \in Nat
        /\ \A j \in Jobs : logs[j] \in LogType /\ logs[j].version \in Nat
    BY DEF TypeOK, Task, LogType, LogRecord
  <1>2. \A j \in Jobs : FreeTask.version[j] = 0
    BY DEF FreeTask, NoVersion
  <1>3. CASE Invoke(t)
    <2> DEFINE pushed == {j \in task[t].jobs : status[j] = "active" /\ j \notin LocalJobs}
    <2>1. PICK to \in [pushed -> {t} \cup FreeTasks] :
            task' = [u \in Tasks |->
                       LET group == {j \in pushed : to[j] = u}
                       IN  IF group # {} THEN [FreeTask EXCEPT !.pc = "send", !.jobs = group]
                           ELSE IF u = t THEN FreeTask
                           ELSE task[u]]
      BY <1>3 DEF Invoke
    <2> HIDE DEF pushed
    <2>2. \A u \in Tasks, j \in Jobs :
            [FreeTask EXCEPT !.pc = "send", !.jobs = {i \in pushed : to[i] = u}].version[j] = 0
      BY DEF FreeTask, NoVersion
    <2>3. \A u \in Tasks, j \in Jobs : task'[u].version[j] \in {0, task[u].version[j]}
      BY <1>2, <2>1, <2>2
    <2>4. UNCHANGED <<cache, sched, logs>>
      BY <1>3 DEF Invoke, store
    <2> QED
      BY <2>3, <2>4, MemoryUnmoved
  <1>4. CASE InvokeFails(t)
    <2>1. \A u \in Tasks, j \in Jobs : task'[u].version[j] \in {0, task[u].version[j]}
      BY <1>1, <1>2, <1>4 DEF InvokeFails
    <2> QED
      BY <1>4, <2>1, MemoryUnmoved DEF InvokeFails, store
  <1>5. ASSUME NEW outcome \in {"success", "failed"}, Finish(t, outcome) PROVE MemoryInv'
    <2>1. task' = [task EXCEPT ![t] = [task[t] EXCEPT !.pc = "create", !.outcome = outcome]]
      BY <1>5 DEF Finish
    <2>2. task[t] \in Task
      BY <1>1
    <2>3. [task[t] EXCEPT !.pc = "create", !.outcome = outcome].version = task[t].version
      BY <2>2 DEF Task
    <2>4. \A u \in Tasks, j \in Jobs : task'[u].version[j] \in {0, task[u].version[j]}
      BY <1>1, <2>1, <2>3
    <2> QED
      BY <1>5, <2>4, MemoryUnmoved DEF Finish, store
  <1>6. CASE Create(t)
    <2> DEFINE missing == {j \in task[t].jobs : ~Cached(j)}
    <2>1. PICK last \in [missing -> UNION {LastLogs(logs[j]) : j \in missing}] :
            /\ \A j \in missing : last[j] \in LastLogs(logs[j])
            /\ IF \E j \in missing : last[j].date = "undated"
               THEN GoDown("zero last execution")
               ELSE /\ cache' = [j \in Jobs |-> IF j \in missing THEN EntryFromLog(j, last[j]) ELSE cache[j]]
                    /\ task' = [task EXCEPT ![t].pc = "load"]
                    /\ UNCHANGED <<down, nodeIsLeader, change, queue, quota, sched>>
      BY <1>6 DEF Create
    <2>2. UNCHANGED store
      BY <1>6 DEF Create
    <2>3. missing \subseteq Jobs
      BY <1>1 DEF Task
    <2> HIDE DEF missing
    <2>4. CASE \E j \in missing : last[j].date = "undated"
      BY <2>1, <2>2, <2>4, GoDownMemory DEF store
    <2>5. CASE ~ \E j \in missing : last[j].date = "undated"
      \* An entry is rebuilt from a row of the log.
      <3>1. ASSUME NEW j \in missing
            PROVE  EntryFromLog(j, last[j]).version = logs[j].version /\ logs[j].version > 0
        <4>1. /\ last[j] \in LastLogType
              /\ last[j].version = logs[j].version
              /\ last[j].date = "dated" => logs[j].version > 0
          BY <1>1, <2>1, <2>3, LastRow
        <4>2. last[j].date = "dated"
          BY <2>5, <4>1 DEF LastLogType, RowDates
        <4> QED
          BY <4>1, <4>2 DEF EntryFromLog
      <3>2. /\ cache' = [j \in Jobs |-> IF j \in missing THEN EntryFromLog(j, last[j]) ELSE cache[j]]
            /\ UNCHANGED <<sched, logs>>
        BY <2>1, <2>2, <2>5 DEF store
      <3>3. CacheNotAhead'
        BY <1>1, <3>1, <3>2 DEF MemoryInv, CacheNotAhead, Cached, Latest
      <3>4. task' = [task EXCEPT ![t] = [task[t] EXCEPT !.pc = "load"]]
        BY <2>1, <2>5
      <3>5. task[t] \in Task
        BY <1>1
      <3>6. [task[t] EXCEPT !.pc = "load"].version = task[t].version
        BY <3>5 DEF Task
      <3>7. \A u \in Tasks, j \in Jobs : task'[u].version[j] = task[u].version[j]
        BY <1>1, <3>4, <3>6
      <3>8. InMemoryIsLogged'
        BY <3>1, <3>2, <3>7 DEF MemoryInv, InMemoryIsLogged, InMemory, Cached
      <3> QED
        BY <3>2, <3>3, <3>7, <3>8 DEF MemoryInv, CallbackNotAhead, SchedNotAhead, Latest
    <2> QED
      BY <2>4, <2>5
  <1>7. CASE Load(t)
    <2> DEFINE resolved == {j \in task[t].jobs : Cached(j)}
               version  == [j \in Jobs |-> IF j \in resolved THEN cache[j].version ELSE 0]
               loaded   == [pc |-> "log", jobs |-> resolved, outcome |-> task[t].outcome, version |-> version]
    <2>1. CASE GoDown("unlock of unlocked mutex")
      BY <1>7, <2>1, GoDownMemory DEF Load, store
    <2>2. CASE ~GoDown("unlock of unlocked mutex")
      <3>1. /\ task' = [task EXCEPT ![t] = IF resolved = {} THEN FreeTask ELSE loaded]
            /\ UNCHANGED <<cache, sched, logs>>
        BY <1>7, <2>2 DEF Load, store
      <3>2. \A j \in Jobs : version[j] > 0 => Cached(j) /\ version[j] = cache[j].version
        OBVIOUS
      <3>3. \A j \in Jobs : version[j] <= Latest(j)
        BY <1>1, <3>2 DEF MemoryInv, CacheNotAhead, Latest
      <3> HIDE DEF version, resolved
      <3>4. CallbackNotAhead'
        <4> SUFFICES ASSUME NEW u \in Tasks, NEW j \in Jobs PROVE task'[u].version[j] <= Latest(j)
          BY <3>1 DEF CallbackNotAhead, Latest
        <4>1. Latest(j) \in Nat
          BY <1>1 DEF Latest
        <4> QED
          BY <1>1, <1>2, <3>1, <3>3, <4>1 DEF MemoryInv, CallbackNotAhead
      <3>5. InMemoryIsLogged'
        <4> SUFFICES ASSUME NEW j \in Jobs \ sched.jobs, InMemory(j)' PROVE logs[j].version > 0
          BY <3>1 DEF InMemoryIsLogged
        <4>1. InMemory(j)
          BY <1>1, <1>2, <3>1, <3>2 DEF InMemory, Cached
        <4> QED
          BY <4>1 DEF MemoryInv, InMemoryIsLogged
      <3> QED
        BY <3>1, <3>4, <3>5 DEF MemoryInv, CacheNotAhead, SchedNotAhead, Cached, Latest
    <2> QED
      BY <2>1, <2>2
  <1>8. CASE Log(t)
    <2>1. UNCHANGED <<cache, sched>>
      BY <1>8 DEF Log
    <2>2. \A j \in Jobs : logs[j].version <= logs'[j].version /\ logs'[j].version \in Nat
      <3>1. \A j \in Jobs : logs'[j] \in LogType
        BY DEF TypeOK
      <3> QED
        BY <1>1, <1>8, <3>1, OutcomeRow DEF Log, LogType, LogRecord
    <2>3. \A j \in Jobs : Latest(j) \in Nat \ {0} /\ Latest(j)' \in Nat \ {0} /\ Latest(j) <= Latest(j)'
      BY <2>2, LatestGrows
    <2>4. \A u \in Tasks, j \in Jobs : task'[u].version[j] \in {0, task[u].version[j]}
      <3>1. task' = [task EXCEPT ![t] = [task[t] EXCEPT !.pc = "reschedule", !.version = NoVersion]]
        BY <1>8 DEF Log
      <3>2. task[t] \in Task
        BY <1>1
      <3>3. [task[t] EXCEPT !.pc = "reschedule", !.version = NoVersion].version = NoVersion
        BY <3>2 DEF Task
      <3> QED
        BY <1>1, <3>1, <3>3 DEF NoVersion
    <2>5. CacheNotAhead'
      <3>1. \A j \in Jobs : Cached(j) => cache[j].version \in Nat
        BY DEF TypeOK, Cached, MemExecution
      <3> QED
        BY <2>1, <2>3, <3>1 DEF MemoryInv, CacheNotAhead, Cached
    <2>6. CallbackNotAhead'
      BY <1>1, <2>3, <2>4 DEF MemoryInv, CallbackNotAhead
    <2>7. InMemoryIsLogged'
      BY <1>1, <2>1, <2>2, <2>4 DEF MemoryInv, InMemoryIsLogged, InMemory, Cached
    <2>8. SchedNotAhead'
      <3>1. \A j \in Jobs : sched.last[j].version \in Nat
        BY DEF TypeOK, Sched, LastLogType
      <3> QED
        BY <1>1, <2>1, <2>2, <3>1 DEF MemoryInv, SchedNotAhead
    <2> QED
      BY <2>5, <2>6, <2>7, <2>8 DEF MemoryInv
  <1>9. CASE Reschedule(t)
    BY <1>9, RescheduleMemory
  <1>10. CASE RescheduleFails(t)
    <2>1. \A u \in Tasks, j \in Jobs : task'[u].version[j] \in {0, task[u].version[j]}
      BY <1>1, <1>2, <1>10 DEF RescheduleFails
    <2> QED
      BY <1>10, <2>1, MemoryUnmoved DEF RescheduleFails, store
  <1> QED
    BY <1>3, <1>4, <1>5, <1>6, <1>7, <1>8, <1>9, <1>10 DEF TaskNext

\* StopAll and a leadership change empty the cache, nothing else.
LEMMA ClearedMemory ==
    ASSUME TypeOK, MemoryInv, ClearAll, UNCHANGED <<task, sched, logs>>
    PROVE  MemoryInv'
  <1>1. \A j \in Jobs : ~Cached(j)'
    BY DEF ClearAll, Cached
  <1> QED
    BY <1>1 DEF MemoryInv, CacheNotAhead, CallbackNotAhead, InMemoryIsLogged, InMemory, SchedNotAhead, Latest

LEMMA NodeMemory == ASSUME TypeOK, MemoryInv, NodeNext PROVE MemoryInv'
  <1>0. \A t \in Tasks, j \in Jobs : task[t].version[j] \in {0, task[t].version[j]}
    OBVIOUS
  <1>1. CASE StopAll
    BY <1>1, ClearedMemory DEF StopAll, store
  <1>2. CASE LeadershipChange
    BY <1>2, ClearedMemory DEF LeadershipChange, store
  <1>3. ASSUME NEW isLeader \in BOOLEAN, SetNodeIsLeader(isLeader) PROVE MemoryInv'
    BY <1>0, <1>3, MemoryUnmoved DEF SetNodeIsLeader, store
  <1>4. CASE ResetLocalQuotaAllocations
    BY <1>0, <1>4, MemoryUnmoved DEF ResetLocalQuotaAllocations, store
  <1>5. ASSUME NEW a \in Accounts, NEW n \in 0 .. MaxQuota, UpdateLocalQuotaAllocations(a, n) PROVE MemoryInv'
    BY <1>0, <1>5, MemoryUnmoved DEF UpdateLocalQuotaAllocations, store
  <1> QED
    BY <1>1, <1>2, <1>3, <1>4, <1>5 DEF NodeNext

LEMMA EnvMemory == ASSUME TypeOK, MemoryInv, EnvNext PROVE MemoryInv'
  <1>0. \A t \in Tasks, j \in Jobs : task[t].version[j] \in {0, task[t].version[j]}
    OBVIOUS
  <1>1. ASSUME NEW j \in Jobs, NEW s \in {"active", "inactive"}, SetStatus(j, s) PROVE MemoryInv'
    BY <1>0, <1>1, MemoryUnmoved DEF SetStatus, memory
  <1>2. ASSUME NEW j \in Jobs, EndJob(j) PROVE MemoryInv'
    BY <1>0, <1>2, MemoryUnmoved DEF EndJob, memory
  <1>3. ASSUME NEW a \in Accounts, RefillAccount(a) PROVE MemoryInv'
    BY <1>0, <1>3, MemoryUnmoved DEF RefillAccount, memory
  <1>4. CASE Crash
    BY <1>4, GoDownMemory DEF Crash, store
  <1>5. CASE Restart
    BY <1>0, <1>5, MemoryUnmoved DEF Restart, memory, store
  <1>6. ASSUME NEW t \in Tasks, CrashInReschedule(t) PROVE MemoryInv'
    BY <1>6, GoDownMemory DEF CrashInReschedule
  <1> QED
    BY <1>1, <1>2, <1>3, <1>4, <1>5, <1>6 DEF EnvNext

LEMMA MemoryInvariant == Spec => [](TypeOK /\ MemoryInv)
  <1>1. TypeOK /\ TypeOK' /\ MemoryInv /\ [Next]_vars => MemoryInv'
    <2> SUFFICES ASSUME TypeOK, TypeOK', MemoryInv, [Next]_vars PROVE MemoryInv'
      OBVIOUS
    <2>1. CASE Next
      BY <2>1, SchedMemory, ListenerMemory, TaskMemory, NodeMemory, EnvMemory DEF Next
    <2>2. CASE UNCHANGED vars
      BY <2>2, MemoryUnmoved DEF vars, memory, store
    <2> QED
      BY <2>1, <2>2
  <1> QED
    BY <1>1, TypeCorrect, InitMemory, PTL DEF Spec

\* jobExecutionsCache and the callbacks under way are never ahead of the
\* execution log, whatever interleaves, stops or crashes: a restart never goes
\* back to an execution that is over.
THEOREM MemoryBehindLog == Spec => []MemoryNotAheadOfLog
  BY MemoryInvariant, MemoryInvSuffices, PTL

-----------------------------------------------------------------------------
(* Entries of the queue and executions under way.                           *)

\* A free effector holds no job.
FreeHoldsNothing == \A t \in Tasks : task[t].pc = "free" => task[t].jobs = {}

\* What reschedule does to the jobs of effector t: those in gone lose their entry
\* of the cache, and the others that have one are queued again, to retry the
\* execution (retried) or for the next one (renewed).
RescheduleEffect(t, paid, gone, retried, renewed) ==
    /\ paid \subseteq task[t].jobs
    /\ Pays(task[t].jobs, paid)
    /\ retried \subseteq paid /\ renewed \subseteq paid \ OneTime
    /\ gone \subseteq task[t].jobs
    /\ task[t].jobs \ paid \subseteq gone
    /\ retried \cap renewed = {} /\ gone \cap (retried \cup renewed) = {}
    /\ \A j \in retried : /\ Cached(j) /\ task[t].outcome = "failed"
                          /\ cache[j].failCount < RetryMax[j]
    /\ \A j \in renewed : Cached(j) /\ (task[t].outcome = "failed" => cache[j].failCount >= RetryMax[j])
    /\ \A j \in task[t].jobs : Cached(j) => j \in gone \cup retried \cup renewed
    /\ cache' = [j \in Jobs |->
                   IF j \in gone THEN None
                   ELSE IF j \in retried
                   THEN [version |-> cache[j].version, failCount |-> cache[j].failCount + 1,
                         lastState |-> task[t].outcome]
                   ELSE IF j \in renewed
                   THEN [version |-> NextVersion(cache[j].version), failCount |-> 0,
                         lastState |-> task[t].outcome]
                   ELSE cache[j]]
    /\ queue' = [j \in Jobs |-> IF j \in retried \cup renewed THEN queue[j] + 1 ELSE queue[j]]
    /\ logs' = [j \in Jobs |-> IF j \in renewed THEN RenewedLog(logs[j], cache[j].version) ELSE logs[j]]
    /\ execCount' = ChargedCounts(paid)
    /\ quota' = [a \in Accounts |-> IF ~SingleNode /\ a # SystemAccount /\ quota[a] # None
                                    THEN quota[a] - Charged(paid, a) ELSE quota[a]]
    /\ \A j \in Jobs : status'[j] \in {status[j], "inactive"}
    /\ SingleNode => \A j \in gone : Account[j] # SystemAccount => status'[j] = "inactive"
    /\ task' = [task EXCEPT ![t] = FreeTask]
    /\ UNCHANGED <<down, nodeIsLeader, change, ended, sched>>

LEMMA RescheduleHasEffect ==
    ASSUME TypeOK, NEW t \in Tasks, Reschedule(t)
    PROVE  \E paid, gone, retried, renewed \in SUBSET Jobs :
             RescheduleEffect(t, paid, gone, retried, renewed)
  <1> DEFINE S       == task[t].jobs
             outcome == task[t].outcome
  <1>1. S \in SUBSET Jobs /\ outcome \in ExecStates
    BY DEF TypeOK, Task
  <1>2. PICK paid \in SUBSET S, past \in BOOLEAN, told \in SUBSET S :
          LET retried  == Retried(paid \ Over(paid, past), outcome)
              renewed  == Renewed(Finished(paid, past, outcome))
              inactive == ToInactivate(paid, past, outcome)
          IN
          /\ Pays(S, paid)
          /\ execCount' = ChargedCounts(paid)
          /\ quota' = [a \in Accounts |->
                          IF ~SingleNode /\ a # SystemAccount /\ quota[a] # None
                          THEN quota[a] - Charged(paid, a) ELSE quota[a]]
          /\ cache' = [j \in Jobs |->
                CASE j \in (S \ paid) \cup inactive -> None
                  [] j \in retried -> [version   |-> cache[j].version,
                                       failCount |-> cache[j].failCount + 1,
                                       lastState |-> outcome]
                  [] j \in renewed -> [version   |-> NextVersion(cache[j].version),
                                       failCount |-> 0,
                                       lastState |-> outcome]
                  [] OTHER -> cache[j]]
          /\ queue' = [j \in Jobs |-> queue[j] + NewEntries(j \in retried, j \in renewed)]
          /\ logs' = [j \in Jobs |->
                IF j \in renewed THEN RenewedLog(logs[j], cache[j].version) ELSE logs[j]]
          /\ status' = [j \in Jobs |->
                IF j \in Inactivates(inactive, told) \cup Exhausted(S, paid) THEN "inactive"
                ELSE status[j]]
    BY DEF Reschedule
  <1> DEFINE retried  == Retried(paid \ Over(paid, past), outcome)
             renewed  == Renewed(Finished(paid, past, outcome))
             inactive == ToInactivate(paid, past, outcome)
             gone     == (S \ paid) \cup inactive
  <1>3. /\ retried \subseteq paid /\ renewed \subseteq paid \ OneTime
        /\ gone \subseteq S /\ S \ paid \subseteq gone
        /\ retried \cap renewed = {} /\ gone \cap (retried \cup renewed) = {}
    BY <1>1, <1>2 DEF Retried, Renewed, Finished, ToInactivate, Over
  <1>4. /\ \A j \in retried : Cached(j) /\ outcome = "failed" /\ cache[j].failCount < RetryMax[j]
        /\ \A j \in S : Cached(j) => j \in gone \cup retried \cup renewed
    BY <1>1, <1>2 DEF Retried, Renewed, Finished, ToInactivate, Over
  <1>5. \A j \in renewed : Cached(j) /\ (outcome = "failed" => cache[j].failCount >= RetryMax[j])
    <2> SUFFICES ASSUME NEW j \in renewed
                 PROVE  Cached(j) /\ (outcome = "failed" => cache[j].failCount >= RetryMax[j])
      OBVIOUS
    <2>1. Cached(j) /\ (outcome = "failed" => ~(cache[j].failCount < RetryMax[j]))
      BY DEF Retried, Renewed, Finished
    <2>2. j \in Jobs
      BY <1>1, <1>3
    <2>3. cache[j].failCount \in Nat /\ RetryMax[j] \in Nat
      BY <2>1, <2>2, Constants DEF TypeOK, Cached, MemExecution
    <2> QED
      BY <2>1, <2>3
  <1>6. /\ cache' = [j \in Jobs |->
                CASE j \in gone -> None
                  [] j \in retried -> [version   |-> cache[j].version,
                                       failCount |-> cache[j].failCount + 1,
                                       lastState |-> outcome]
                  [] j \in renewed -> [version   |-> NextVersion(cache[j].version),
                                       failCount |-> 0,
                                       lastState |-> outcome]
                  [] OTHER -> cache[j]]
        /\ queue' = [j \in Jobs |-> queue[j] + NewEntries(j \in retried, j \in renewed)]
        /\ logs' = [j \in Jobs |-> IF j \in renewed THEN RenewedLog(logs[j], cache[j].version) ELSE logs[j]]
        /\ status' = [j \in Jobs |-> IF j \in Inactivates(inactive, told) \cup Exhausted(S, paid)
                                     THEN "inactive" ELSE status[j]]
    BY <1>2
  <1>12. gone = (S \ paid) \cup inactive
    OBVIOUS
  <1> HIDE DEF retried, renewed, inactive, gone
  <1>13. \A j \in Jobs : status'[j] \in {status[j], "inactive"}
    BY <1>6
  <1>14. ASSUME SingleNode, NEW j \in gone, Account[j] # SystemAccount PROVE status'[j] = "inactive"
    <2>1. j \in Jobs /\ j \in S
      BY <1>1, <1>3
    <2>2. j \in S \ paid => j \in Exhausted(S, paid)
      BY <1>14, <2>1 DEF Exhausted, AccountJobs
    <2>3. j \in inactive => j \in Inactivates(inactive, told)
      BY <1>14 DEF Inactivates
    <2> QED
      BY <1>6, <1>12, <2>1, <2>2, <2>3
  <1>7. cache' = [j \in Jobs |->
                   IF j \in gone THEN None
                   ELSE IF j \in retried
                   THEN [version |-> cache[j].version, failCount |-> cache[j].failCount + 1,
                         lastState |-> outcome]
                   ELSE IF j \in renewed
                   THEN [version |-> NextVersion(cache[j].version), failCount |-> 0,
                         lastState |-> outcome]
                   ELSE cache[j]]
    BY <1>3, <1>6
  <1>8. queue' = [j \in Jobs |-> IF j \in retried \cup renewed THEN queue[j] + 1 ELSE queue[j]]
    <2>1. \A j \in Jobs : queue[j] + 0 = queue[j]
      BY DEF TypeOK
    <2> QED
      BY <1>6, <2>1 DEF NewEntries
  <1>9. task' = [task EXCEPT ![t] = FreeTask] /\ UNCHANGED <<down, nodeIsLeader, change, ended, sched>>
    BY DEF Reschedule
  <1>10. /\ paid \in SUBSET Jobs /\ gone \in SUBSET Jobs
         /\ retried \in SUBSET Jobs /\ renewed \in SUBSET Jobs
    BY <1>1, <1>3
  <1>11. RescheduleEffect(t, paid, gone, retried, renewed)
    BY <1>2, <1>3, <1>4, <1>5, <1>6, <1>7, <1>8, <1>9, <1>13, <1>14 DEF RescheduleEffect
  <1> QED
    BY <1>10, <1>11

\* The process goes down, for any reason.
GoesDown == (\E r \in Panics \cup {"crash"} : GoDown(r)) /\ UNCHANGED store

\* The jobs of a batch that Invoke pushes, those that it gives to effector u, and
\* what an effector is once it is given the jobs in S.
Pushed(t)        == {j \in task[t].jobs : status[j] = "active" /\ j \notin LocalJobs}
Group(S, to, u)  == {j \in S : to[j] = u}
Sending(S)       == [FreeTask EXCEPT !.pc = "send", !.jobs = S]
Sent(t, to, u)   == IF Group(Pushed(t), to, u) # {} THEN Sending(Group(Pushed(t), to, u))
                    ELSE IF u = t THEN FreeTask ELSE task[u]

LEMMA SendingFields ==
    ASSUME NEW S
    PROVE  Sending(S).jobs = S /\ Sending(S).pc = "send" /\ Sending(S).version = NoVersion
  BY DEF Sending, FreeTask

LEMMA GroupMembers ==
    ASSUME NEW S, NEW to, NEW u, NEW j
    PROVE  j \in Group(S, to, u) <=> j \in S /\ to[j] = u
  BY DEF Group

\* What Invoke does to effector u: it gets some of the pushed jobs of t, or is
\* freed, or left alone.
InvokeEffect(t, pushed, to, u) ==
    \/ /\ \A j \in task'[u].jobs : j \in pushed /\ to[j] = u
       /\ task'[u].pc = "send" /\ task'[u].version = NoVersion
       /\ u = t \/ task[u].pc = "free"
    \/ u = t /\ task'[u] = FreeTask
    \/ u # t /\ task'[u] = task[u]

LEMMA InvokeStep ==
    ASSUME TypeOK, NEW t \in Tasks, Invoke(t)
    PROVE  /\ UNCHANGED <<down, nodeIsLeader, change, cache, queue, quota, sched, store>>
           /\ Pushed(t) \subseteq task[t].jobs
           /\ \E to \in [Pushed(t) -> Tasks] :
                /\ \A u \in Tasks : InvokeEffect(t, Pushed(t), to, u)
                /\ \A j \in Pushed(t) : j \in task'[to[j]].jobs
  <1>1. UNCHANGED <<down, nodeIsLeader, change, cache, queue, quota, sched, store>>
    BY Zenon DEF Invoke
  <1>2. PICK to \in [Pushed(t) -> {t} \cup FreeTasks] : task' = [u \in Tasks |-> Sent(t, to, u)]
    BY Zenon DEF Invoke, Pushed, Group, Sending, Sent
  <1>3. Pushed(t) \subseteq task[t].jobs
    BY DEF Pushed
  <1>4. FreeTasks \subseteq Tasks /\ \A u \in FreeTasks : task[u].pc = "free"
    BY DEF FreeTasks
  <1>5. to \in [Pushed(t) -> Tasks]
    BY <1>2, <1>4
  <1>6. ASSUME NEW u \in Tasks
        PROVE  InvokeEffect(t, Pushed(t), to, u) /\ \A j \in Pushed(t) : to[j] = u => j \in task'[u].jobs
    <2> DEFINE group == Group(Pushed(t), to, u)
    <2>1. \A j : j \in group <=> j \in Pushed(t) /\ to[j] = u
      BY GroupMembers
    <2>2. task'[u] = IF group # {} THEN Sending(group) ELSE IF u = t THEN FreeTask ELSE task[u]
      BY <1>2 DEF Sent
    <2>3. Sending(group).jobs = group /\ Sending(group).pc = "send" /\ Sending(group).version = NoVersion
      BY SendingFields
    <2> HIDE DEF group
    <2>4. group # {} => u = t \/ task[u].pc = "free"
      BY <1>2, <1>4, <2>1
    <2>5. CASE group # {}
      BY <2>1, <2>2, <2>3, <2>4, <2>5 DEF InvokeEffect
    <2>6. CASE group = {}
      BY <2>1, <2>2, <2>6 DEF InvokeEffect
    <2> QED
      BY <2>5, <2>6
  <1>7. \A j \in Pushed(t) : j \in task'[to[j]].jobs
    BY <1>5, <1>6
  <1> QED
    BY <1>1, <1>3, <1>5, <1>6, <1>7

\* Create rebuilds the missing entries of the cache from dated rows.
Missing(t) == {j \in task[t].jobs : ~Cached(j)}
Rebuilt(t, last) ==
    /\ \A j \in Missing(t) : last[j].date # "undated"
    /\ cache' = [j \in Jobs |-> IF j \in Missing(t) THEN EntryFromLog(j, last[j]) ELSE cache[j]]
    /\ task' = [task EXCEPT ![t].pc = "load"]
    /\ UNCHANGED <<down, nodeIsLeader, change, queue, quota, sched>>

LEMMA CreateStep ==
    ASSUME TypeOK, NEW t \in Tasks, Create(t)
    PROVE  /\ UNCHANGED store
           /\ \/ GoesDown /\ Missing(t) # {}
              \/ \E last : (\A j \in Missing(t) : last[j] \in LastLogs(logs[j])) /\ Rebuilt(t, last)
  <1>1. UNCHANGED store
    BY Zenon DEF Create
  <1>2. PICK last \in [Missing(t) -> UNION {LastLogs(logs[j]) : j \in Missing(t)}] :
          /\ \A j \in Missing(t) : last[j] \in LastLogs(logs[j])
          /\ IF \E j \in Missing(t) : last[j].date = "undated"
             THEN GoDown("zero last execution")
             ELSE /\ cache' = [j \in Jobs |-> IF j \in Missing(t) THEN EntryFromLog(j, last[j]) ELSE cache[j]]
                  /\ task' = [task EXCEPT ![t].pc = "load"]
                  /\ UNCHANGED <<down, nodeIsLeader, change, queue, quota, sched>>
    BY Zenon DEF Create, Missing
  <1>3. CASE \E j \in Missing(t) : last[j].date = "undated"
    <2>1. Missing(t) # {}
      BY <1>3
    <2> QED
      BY <1>1, <1>2, <1>3, <2>1, Zenon DEF GoesDown, Panics
  <1>4. CASE ~ \E j \in Missing(t) : last[j].date = "undated"
    BY <1>1, <1>2, <1>4, Zenon DEF Rebuilt
  <1> QED
    BY <1>3, <1>4

\* Load takes the versions of the jobs that have an entry, and frees the effector
\* when none has.
Resolved(t) == {j \in task[t].jobs : Cached(j)}
LoadedVersions(t) == [j \in Jobs |-> IF j \in Resolved(t) THEN cache[j].version ELSE 0]
Loaded(t) == [pc |-> "log", jobs |-> Resolved(t), outcome |-> task[t].outcome, version |-> LoadedVersions(t)]

LEMMA LoadStep ==
    ASSUME TypeOK, NEW t \in Tasks, Load(t)
    PROVE  /\ UNCHANGED store
           /\ \/ GoesDown /\ Resolved(t) = {} /\ task[t].jobs # {}
              \/ /\ task' = [task EXCEPT ![t] = IF Resolved(t) = {} THEN FreeTask ELSE Loaded(t)]
                 /\ UNCHANGED <<down, nodeIsLeader, change, cache, queue, quota, sched>>
  <1>1. UNCHANGED store
    BY Zenon DEF Load
  <1>2. IF Cardinality(task[t].jobs) = 1 /\ Resolved(t) = {}
        THEN GoDown("unlock of unlocked mutex")
        ELSE /\ task' = [task EXCEPT ![t] = IF Resolved(t) = {} THEN FreeTask ELSE Loaded(t)]
             /\ UNCHANGED <<down, nodeIsLeader, change, cache, queue, quota, sched>>
    BY Zenon DEF Load, Resolved, LoadedVersions, Loaded
  <1>3. Cardinality(task[t].jobs) = 1 => task[t].jobs # {}
    BY FS_EmptySet
  <1> QED
    BY <1>1, <1>2, <1>3, Zenon DEF GoesDown, Panics

LEMMA LoadedType ==
    ASSUME TypeOK, NEW t \in Tasks
    PROVE  Loaded(t) \in Task /\ Resolved(t) \subseteq task[t].jobs
  <1>1. task[t] \in Task /\ \A j \in Resolved(t) : cache[j].version \in Nat
    BY DEF TypeOK, Task, Resolved, Cached, MemExecution
  <1>2. LoadedVersions(t) \in [Jobs -> Nat]
    BY <1>1 DEF LoadedVersions
  <1>3. Resolved(t) \subseteq task[t].jobs
    BY DEF Resolved
  <1> QED
    BY <1>1, <1>2, <1>3 DEF Loaded, Task, TaskPCs

\* What a step of effector t does to the executions of job j: one of them moves
\* to another effector or ends, one ends and puts the job back in the queue, or
\* none is touched.
MovesOn(j, t)   == /\ j \in task[t].jobs
                   /\ queue'[j] = queue[j]
                   /\ \E u \in Tasks : \A v \in Tasks :
                        j \in task'[v].jobs => v = u \/ (v # t /\ j \in task[v].jobs)
QueuesAgain(j, t) == /\ j \in task[t].jobs
                     /\ queue'[j] <= queue[j] + 1
                     /\ \A v \in Tasks : j \in task'[v].jobs => v # t /\ j \in task[v].jobs
StaysPut(j)     == /\ queue'[j] = queue[j]
                   /\ \A v \in Tasks : j \in task'[v].jobs => j \in task[v].jobs

\* A process that goes down has no job left in memory.
NothingLeft == /\ \A j \in Jobs : queue'[j] = 0
               /\ \A t \in Tasks : task'[t].jobs = {}
               /\ sched' = IdleSched

LEMMA GoDownLeavesNothing ==
    ASSUME NEW r, GoDown(r)
    PROVE  NothingLeft /\ FreeHoldsNothing'
  BY DEF GoDown, NothingLeft, FreeHoldsNothing, FreeTask

\* One effector changes, and its jobs are no others than before.
LEMMA OneEffector ==
    ASSUME TypeOK, FreeHoldsNothing, NEW t \in Tasks, NEW new \in Task,
           task' = [task EXCEPT ![t] = new],
           new.jobs \subseteq task[t].jobs, new.pc = "free" => new.jobs = {}
    PROVE  /\ FreeHoldsNothing'
           /\ \A j \in Jobs : queue'[j] = queue[j] => StaysPut(j)
  BY DEF TypeOK, FreeHoldsNothing, StaysPut

LEMMA EffectorMoves ==
    ASSUME TypeOK, FreeHoldsNothing, NEW t \in Tasks, TaskNext(t)
    PROVE  /\ FreeHoldsNothing'
           /\ \/ NothingLeft
              \/ /\ \A j \in Jobs : MovesOn(j, t) \/ QueuesAgain(j, t) \/ StaysPut(j)
                 /\ sched' = sched
  <1>1. task \in [Tasks -> Task] /\ task[t] \in Task /\ \A j \in Jobs : queue[j] \in Nat
    BY DEF TypeOK
  <1>2. FreeTask \in Task /\ FreeTask.jobs = {} /\ FreeTask.pc = "free"
    BY FreeTaskType DEF FreeTask
  <1>3. CASE Invoke(t)
    <2>1. queue' = queue /\ sched' = sched
      BY <1>3, InvokeStep
    <2>2. PICK to \in [Pushed(t) -> Tasks] : \A u \in Tasks : InvokeEffect(t, Pushed(t), to, u)
      BY <1>3, InvokeStep
    <2>3. Pushed(t) \subseteq task[t].jobs
      BY <1>3, InvokeStep
    <2>4. FreeHoldsNothing'
      BY <1>2, <2>2 DEF FreeHoldsNothing, InvokeEffect
    <2>5. ASSUME NEW j \in Jobs, NEW v \in Tasks, j \in task'[v].jobs
          PROVE  (j \in Pushed(t) /\ v = to[j]) \/ (v # t /\ j \in task[v].jobs)
      BY <1>2, <2>2, <2>5 DEF InvokeEffect
    <2>6. ASSUME NEW j \in Jobs, j \in task[t].jobs PROVE MovesOn(j, t)
      <3>1. CASE j \in Pushed(t)
        <4>1. to[j] \in Tasks
          BY <2>2, <3>1
        <4> QED
          BY <2>1, <2>5, <2>6, <4>1 DEF MovesOn
      <3>2. CASE j \notin Pushed(t)
        BY <2>1, <2>5, <2>6, <3>2 DEF MovesOn
      <3> QED
        BY <3>1, <3>2
    <2>7. ASSUME NEW j \in Jobs, j \notin task[t].jobs PROVE StaysPut(j)
      BY <2>1, <2>3, <2>5, <2>7 DEF StaysPut
    <2> QED
      BY <2>1, <2>4, <2>6, <2>7
  <1>4. CASE InvokeFails(t) \/ RescheduleFails(t)
    BY <1>1, <1>2, <1>4, OneEffector DEF InvokeFails, RescheduleFails
  <1>5. ASSUME NEW outcome \in {"success", "failed"}, Finish(t, outcome)
        PROVE  FreeHoldsNothing' /\ sched' = sched /\ \A j \in Jobs : StaysPut(j)
    <2> DEFINE new == [task[t] EXCEPT !.pc = "create", !.outcome = outcome]
    <2>1. task' = [task EXCEPT ![t] = new] /\ queue' = queue /\ sched' = sched
      BY <1>5 DEF Finish
    <2>2. new \in Task /\ new.jobs = task[t].jobs /\ new.pc = "create"
      BY <1>1 DEF Task, TaskPCs, ExecStates
    <2> HIDE DEF new
    <2> QED
      BY <2>1, <2>2, OneEffector
  <1>6. CASE Create(t)
    <2> DEFINE new == [task[t] EXCEPT !.pc = "load"]
    <2>1. CASE GoesDown
      BY <2>1, GoDownLeavesNothing DEF GoesDown
    <2>2. CASE ~GoesDown
      <3>1. task' = [task EXCEPT ![t] = new] /\ queue' = queue /\ sched' = sched
        BY <1>6, <2>2, CreateStep DEF Rebuilt
      <3>2. new \in Task /\ new.jobs = task[t].jobs /\ new.pc = "load"
        BY <1>1 DEF Task, TaskPCs
      <3> HIDE DEF new
      <3> QED
        BY <3>1, <3>2, OneEffector
    <2> QED
      BY <2>1, <2>2
  <1>7. CASE Load(t)
    <2> DEFINE new == IF Resolved(t) = {} THEN FreeTask ELSE Loaded(t)
    <2>1. CASE GoesDown
      BY <2>1, GoDownLeavesNothing DEF GoesDown
    <2>2. CASE ~GoesDown
      <3>1. task' = [task EXCEPT ![t] = new] /\ queue' = queue /\ sched' = sched
        BY <1>7, <2>2, LoadStep
      <3>2. Loaded(t).jobs = Resolved(t) /\ Loaded(t).pc = "log"
        BY DEF Loaded
      <3>3. new \in Task /\ new.jobs \subseteq task[t].jobs /\ (new.pc = "free" => new.jobs = {})
        BY <1>2, <3>2, LoadedType
      <3> HIDE DEF new
      <3> QED
        BY <3>1, <3>3, OneEffector
    <2> QED
      BY <2>1, <2>2
  <1>8. CASE Log(t)
    <2> DEFINE new == [task[t] EXCEPT !.pc = "reschedule", !.version = NoVersion]
    <2>1. task' = [task EXCEPT ![t] = new] /\ queue' = queue /\ sched' = sched
      BY <1>8 DEF Log
    <2>2. new \in Task /\ new.jobs = task[t].jobs /\ new.pc = "reschedule"
      BY <1>1 DEF Task, TaskPCs, NoVersion
    <2> HIDE DEF new
    <2> QED
      BY <2>1, <2>2, OneEffector
  <1>9. CASE Reschedule(t)
    <2>1. PICK paid, gone, retried, renewed \in SUBSET Jobs :
            RescheduleEffect(t, paid, gone, retried, renewed)
      BY <1>9, RescheduleHasEffect
    <2>2. /\ task' = [task EXCEPT ![t] = FreeTask] /\ sched' = sched
          /\ retried \cup renewed \subseteq task[t].jobs
          /\ queue' = [j \in Jobs |-> IF j \in retried \cup renewed THEN queue[j] + 1 ELSE queue[j]]
      BY <2>1 DEF RescheduleEffect
    <2>3. FreeHoldsNothing'
      BY <1>1, <1>2, <2>2, OneEffector
    <2>4. ASSUME NEW j \in Jobs PROVE QueuesAgain(j, t) \/ StaysPut(j)
      BY <1>1, <1>2, <2>2 DEF QueuesAgain, StaysPut
    <2> QED
      BY <2>2, <2>3, <2>4
  <1> QED
    BY <1>3, <1>4, <1>5, <1>6, <1>7, <1>8, <1>9 DEF TaskNext

\* The steps that take the process down.
LEMMA StepsDown ==
    ASSUME (\E j \in Jobs : SchedPanic(j)) \/ Crash \/ \E t \in Tasks : CrashInReschedule(t)
    PROVE  \E r : GoDown(r)
  <1>1. ASSUME NEW j \in Jobs, SchedPanic(j) PROVE \E r : GoDown(r)
    <2>1. GoDown("zero execution time")
      BY <1>1, Zenon DEF SchedPanic
    <2> QED
      BY <2>1, Zenon
  <1>2. ASSUME Crash PROVE \E r : GoDown(r)
    <2>1. GoDown("crash")
      BY <1>2, Zenon DEF Crash
    <2> QED
      BY <2>1, Zenon
  <1>3. ASSUME NEW t \in Tasks, CrashInReschedule(t) PROVE \E r : GoDown(r)
    <2>1. GoDown("crash")
      BY <1>3, Zenon DEF CrashInReschedule
    <2> QED
      BY <2>1, Zenon
  <1> QED
    BY <1>1, <1>2, <1>3, Zenon

\* No other step that leaves the process up changes an effector.
LEMMA OthersMoveEffectors ==
    ASSUME SchedNext \/ NodeNext \/ EnvNext, task' # task
    PROVE  (\E j \in Jobs : SchedPanic(j)) \/ Crash \/ \E t \in Tasks : CrashInReschedule(t)
  <1>1. ASSUME SchedNext PROVE (\E j \in Jobs : SchedPanic(j)) \/ task' = task
    <2>1. ASSUME NEW S \in SUBSET Jobs, SchedStart(S) PROVE task' = task
      BY <2>1 DEF SchedStart
    <2>2. ASSUME NEW j \in Jobs, SchedStore(j) \/ SchedRetryQueue(j) \/ SchedRetryStore(j) \/ AddJobSchedule(j)
          PROVE  task' = task
      BY <2>2 DEF SchedStore, SchedRetryQueue, SchedRetryStore, AddJobSchedule
    <2>3. ASSUME SchedInsert PROVE task' = task
      BY <2>3 DEF SchedInsert
    <2> QED
      BY <1>1, <2>1, <2>2, <2>3, Zenon DEF SchedNext
  <1>2. ASSUME NodeNext PROVE task' = task
    BY <1>2 DEF NodeNext, StopAll, LeadershipChange, SetNodeIsLeader, ResetLocalQuotaAllocations,
                UpdateLocalQuotaAllocations
  <1>3. ASSUME EnvNext PROVE Crash \/ (\E t \in Tasks : CrashInReschedule(t)) \/ task' = task
    <2>1. ASSUME \/ \E j \in Jobs, s \in {"active", "inactive"} : SetStatus(j, s)
                 \/ \E j \in Jobs : EndJob(j)
                 \/ \E a \in Accounts : RefillAccount(a)
                 \/ Restart
          PROVE  task' = task
      BY <2>1 DEF SetStatus, EndJob, RefillAccount, Restart, memory
    <2> QED
      BY <1>3, <2>1, Zenon DEF EnvNext
  <1> QED
    BY <1>1, <1>2, <1>3

\* Whatever else takes a step, the holders of a job are what they were, or the
\* process is down and holds no job at all.
LEMMA OthersLeaveEffectors ==
    ASSUME TypeOK, FreeHoldsNothing, SchedNext \/ NodeNext \/ EnvNext
    PROVE  FreeHoldsNothing' /\ (NothingLeft \/ task' = task)
  <1>1. task' = task => FreeHoldsNothing'
    BY DEF FreeHoldsNothing
  <1>2. (\E r : GoDown(r)) => NothingLeft /\ FreeHoldsNothing'
    BY GoDownLeavesNothing
  <1> QED
    BY <1>1, <1>2, OthersMoveEffectors, StepsDown

\* The listener takes an entry of each due job out of the queue, and gives the job
\* to one free effector at most.
Batch(due) == [FreeTask EXCEPT !.pc = "invoke", !.jobs = {j \in due : Cached(j)}]

LEMMA BatchFields ==
    ASSUME NEW due
    PROVE  /\ Batch(due).pc = "invoke" /\ Batch(due).version = NoVersion
           /\ Batch(due).jobs = {j \in due : Cached(j)}
  BY DEF Batch, FreeTask

LEMMA PopMoves ==
    ASSUME TypeOK, FreeHoldsNothing,
           NEW due \in SUBSET Jobs, NEW left \in [due -> 0 .. MaxQueued], PopDue(due, left)
    PROVE  /\ FreeHoldsNothing'
           /\ \A j \in Jobs \ due : queue'[j] = queue[j]
           /\ \A j \in due : queue'[j] = left[j] /\ left[j] \in Nat /\ left[j] < queue[j]
           /\ \/ task' = task
              \/ \E t \in Tasks : /\ task[t].pc = "free" /\ task[t].jobs = {}
                                  /\ task' = [task EXCEPT ![t] = Batch(due)]
           /\ UNCHANGED <<down, nodeIsLeader, change, cache, quota, sched, store>>
  <1>1. /\ queue' = [j \in Jobs |-> IF j \in due THEN left[j] ELSE queue[j]]
        /\ \A j \in due : left[j] < queue[j]
        /\ UNCHANGED <<down, nodeIsLeader, change, cache, quota, sched, store>>
    BY Zenon DEF PopDue
  <1>2. \A j \in due : left[j] \in Nat
    BY Constants
  <1>3. task' = task \/ \E t \in FreeTasks : task' = [task EXCEPT ![t] = Batch(due)]
    BY Zenon DEF PopDue, Batch
  <1>4. Batch(due).pc = "invoke"
    BY BatchFields
  <1>5. CASE task' = task
    <2>1. FreeHoldsNothing'
      BY <1>5 DEF FreeHoldsNothing
    <2> QED
      BY <1>1, <1>2, <1>5, <2>1
  <1>6. ASSUME NEW t \in FreeTasks, task' = [task EXCEPT ![t] = Batch(due)]
        PROVE  FreeHoldsNothing' /\ t \in Tasks /\ task[t].pc = "free" /\ task[t].jobs = {}
    BY <1>4, <1>6 DEF FreeHoldsNothing, FreeTasks, TypeOK
  <1> QED
    BY <1>1, <1>2, <1>3, <1>5, <1>6

\* The free effectors hold nothing, whatever happens.
LEMMA FreeInvariant == Spec => [](TypeOK /\ FreeHoldsNothing)
  <1>1. Init => FreeHoldsNothing
    BY DEF Init, FreeHoldsNothing, FreeTask
  <1>2. TypeOK /\ FreeHoldsNothing /\ [Next]_vars => FreeHoldsNothing'
    <2> SUFFICES ASSUME TypeOK, FreeHoldsNothing, [Next]_vars PROVE FreeHoldsNothing'
      OBVIOUS
    <2>1. CASE SchedNext \/ NodeNext \/ EnvNext
      BY <2>1, OthersLeaveEffectors
    <2>2. CASE ListenerNext
      BY <2>2, PopMoves DEF ListenerNext
    <2>3. ASSUME NEW t \in Tasks, TaskNext(t) PROVE FreeHoldsNothing'
      BY <2>3, EffectorMoves
    <2>4. CASE UNCHANGED vars
      BY <2>4 DEF FreeHoldsNothing, vars, memory
    <2> QED
      BY <2>1, <2>2, <2>3, <2>4 DEF Next
  <1> QED
    BY <1>1, <1>2, TypeCorrect, PTL DEF Spec

LEMMA AtMostOneMore ==
    ASSUME NEW S, IsFiniteSet(S), NEW x, NEW T \in SUBSET (S \cup {x})
    PROVE  IsFiniteSet(T) /\ Cardinality(T) \in Nat /\ Cardinality(T) <= Cardinality(S) + 1
  <1>1. IsFiniteSet(S \cup {x}) /\ Cardinality(S) \in Nat
    BY FS_AddElement, FS_CardinalityType
  <1>2. Cardinality(S \cup {x}) <= Cardinality(S) + 1
    BY <1>1, FS_AddElement
  <1>3. IsFiniteSet(T) /\ Cardinality(T) <= Cardinality(S \cup {x})
    BY <1>1, FS_Subset
  <1>4. Cardinality(T) \in Nat /\ Cardinality(S \cup {x}) \in Nat
    BY <1>1, <1>3, FS_CardinalityType
  <1> QED
    BY <1>1, <1>2, <1>3, <1>4

LEMMA HoldersFinite ==
    ASSUME TypeOK, NEW j \in Jobs
    PROVE  /\ IsFiniteSet(Holders(j)) /\ Cardinality(Holders(j)) \in Nat
           /\ \A S \in SUBSET Holders(j) : IsFiniteSet(S) /\ Cardinality(S) \in Nat
                                          /\ Cardinality(S) <= Cardinality(Holders(j))
  <1>1. Holders(j) \subseteq Tasks
    BY DEF Holders
  <1>2. IsFiniteSet(Holders(j)) /\ Cardinality(Holders(j)) \in Nat
    BY <1>1, Constants, FS_Subset, FS_CardinalityType
  <1>3. ASSUME NEW S \in SUBSET Holders(j)
        PROVE  IsFiniteSet(S) /\ Cardinality(S) \in Nat /\ Cardinality(S) <= Cardinality(Holders(j))
    BY <1>2, FS_Subset, FS_CardinalityType
  <1> QED
    BY <1>2, <1>3

\* When the holders of a job lose one and gain at most one other, they are no more
\* than they were; when they gain none, they are one less.
LEMMA OneHolderMoves ==
    ASSUME TypeOK, NEW j \in Jobs, NEW t \in Holders(j), NEW new
    PROVE  /\ new \subseteq Holders(j) \ {t} => Cardinality(new) \in Nat /\ Cardinality(new) + 1 <= Cardinality(Holders(j))
           /\ \A u : new \subseteq (Holders(j) \ {t}) \cup {u} =>
                       Cardinality(new) \in Nat /\ Cardinality(new) <= Cardinality(Holders(j))
  <1> DEFINE rest == Holders(j) \ {t}
  <1>1. IsFiniteSet(Holders(j)) /\ Cardinality(Holders(j)) \in Nat
    BY HoldersFinite
  <1>2. IsFiniteSet(rest) /\ Cardinality(rest) = Cardinality(Holders(j)) - 1
    BY <1>1, FS_RemoveElement
  <1> HIDE DEF rest
  <1>3. Cardinality(rest) \in Nat
    BY <1>2, FS_CardinalityType
  <1>4. new \subseteq rest => Cardinality(new) \in Nat /\ Cardinality(new) + 1 <= Cardinality(Holders(j))
    <2> SUFFICES ASSUME new \subseteq rest
                 PROVE  Cardinality(new) \in Nat /\ Cardinality(new) + 1 <= Cardinality(Holders(j))
      OBVIOUS
    <2>1. IsFiniteSet(new) /\ Cardinality(new) <= Cardinality(rest)
      BY <1>2, FS_Subset
    <2>2. Cardinality(new) \in Nat
      BY <2>1, FS_CardinalityType
    <2> QED
      BY <1>1, <1>2, <1>3, <2>1, <2>2
  <1>5. ASSUME NEW u, new \subseteq rest \cup {u}
        PROVE  Cardinality(new) \in Nat /\ Cardinality(new) <= Cardinality(Holders(j))
    <2>1. Cardinality(new) \in Nat /\ Cardinality(new) <= Cardinality(rest) + 1
      BY <1>2, <1>5, AtMostOneMore
    <2> QED
      BY <1>1, <1>2, <1>3, <2>1
  <1> QED
    BY <1>4, <1>5 DEF rest

\* A step of an effector does not multiply the entries and executions of a job.
LEMMA EffectorAddsNone ==
    ASSUME TypeOK, TypeOK', FreeHoldsNothing, NEW t \in Tasks, TaskNext(t), NEW j \in Jobs
    PROVE  Tokens(j)' <= Tokens(j)
  <1>1. queue[j] \in Nat /\ queue'[j] \in Nat
    BY DEF TypeOK
  <1>2. Cardinality(Holders(j)) \in Nat
    BY HoldersFinite
  <1>3. Holders(j)' = {u \in Tasks : j \in task'[u].jobs}
    BY DEF Holders
  <1>4. Tokens(j)' = queue'[j] + Cardinality(Holders(j)')
    BY DEF Tokens
  <1>5. CASE NothingLeft
    <2>1. Holders(j)' = {} /\ queue'[j] = 0
      BY <1>3, <1>5 DEF NothingLeft
    <2> QED
      BY <1>1, <1>2, <1>4, <2>1, FS_EmptySet DEF Tokens
  <1>6. CASE MovesOn(j, t)
    <2>1. PICK u \in Tasks : \A v \in Tasks : j \in task'[v].jobs => v = u \/ (v # t /\ j \in task[v].jobs)
      BY <1>6 DEF MovesOn
    <2>2. t \in Holders(j) /\ queue'[j] = queue[j]
      BY <1>6 DEF MovesOn, Holders
    <2>3. Holders(j)' \subseteq (Holders(j) \ {t}) \cup {u}
      BY <1>3, <2>1 DEF Holders
    <2>4. Cardinality(Holders(j)') \in Nat /\ Cardinality(Holders(j)') <= Cardinality(Holders(j))
      BY <2>2, <2>3, OneHolderMoves
    <2> QED
      BY <1>1, <1>2, <1>4, <2>2, <2>4 DEF Tokens
  <1>7. CASE QueuesAgain(j, t)
    <2>1. t \in Holders(j) /\ queue'[j] <= queue[j] + 1
      BY <1>7 DEF QueuesAgain, Holders
    <2>2. Holders(j)' \subseteq Holders(j) \ {t}
      BY <1>3, <1>7 DEF QueuesAgain, Holders
    <2>3. Cardinality(Holders(j)') \in Nat /\ Cardinality(Holders(j)') + 1 <= Cardinality(Holders(j))
      BY <2>1, <2>2, OneHolderMoves
    <2> QED
      BY <1>1, <1>2, <1>4, <2>1, <2>3 DEF Tokens
  <1>8. CASE StaysPut(j)
    <2>1. Holders(j)' \in SUBSET Holders(j) /\ queue'[j] = queue[j]
      BY <1>3, <1>8 DEF StaysPut, Holders
    <2>2. Cardinality(Holders(j)') \in Nat /\ Cardinality(Holders(j)') <= Cardinality(Holders(j))
      BY <2>1, HoldersFinite
    <2> QED
      BY <1>1, <1>2, <1>4, <2>1, <2>2 DEF Tokens
  <1> QED
    BY <1>5, <1>6, <1>7, <1>8, EffectorMoves

\* Nor does the listener: what it gives to an effector it takes from the queue.
LEMMA PopAddsNone ==
    ASSUME TypeOK, TypeOK', FreeHoldsNothing, ListenerNext, NEW j \in Jobs
    PROVE  Tokens(j)' <= Tokens(j)
  <1>1. PICK due \in SUBSET Jobs : \E left \in [due -> 0 .. MaxQueued] : PopDue(due, left)
    BY DEF ListenerNext
  <1>2. PICK left \in [due -> 0 .. MaxQueued] : PopDue(due, left)
    BY <1>1
  <1>3. /\ \A i \in Jobs \ due : queue'[i] = queue[i]
        /\ \A i \in due : queue'[i] = left[i] /\ left[i] \in Nat /\ left[i] < queue[i]
        /\ \/ task' = task
           \/ \E t \in Tasks : task' = [task EXCEPT ![t] = Batch(due)]
    BY <1>2, PopMoves
  <1>4. queue[j] \in Nat /\ queue'[j] \in Nat /\ task \in [Tasks -> Task]
    BY DEF TypeOK
  <1>5. IsFiniteSet(Holders(j)) /\ Cardinality(Holders(j)) \in Nat
    BY HoldersFinite
  <1>6. Tokens(j)' = queue'[j] + Cardinality(Holders(j)')
    BY DEF Tokens
  <1>7. Holders(j)' = {u \in Tasks : j \in task'[u].jobs}
    BY DEF Holders
  <1>8. CASE task' = task \/ j \notin due
    <2>1. j \notin due => j \notin Batch(due).jobs
      BY BatchFields
    <2>2. Holders(j)' \in SUBSET Holders(j) /\ queue'[j] <= queue[j]
      BY <1>3, <1>4, <1>7, <1>8, <2>1 DEF Holders
    <2>3. Cardinality(Holders(j)') \in Nat /\ Cardinality(Holders(j)') <= Cardinality(Holders(j))
      BY <2>2, HoldersFinite
    <2> QED
      BY <1>4, <1>5, <1>6, <2>2, <2>3 DEF Tokens
  <1>9. ASSUME NEW t \in Tasks, task' = [task EXCEPT ![t] = Batch(due)], j \in due
        PROVE  Tokens(j)' <= Tokens(j)
    <2>1. queue'[j] + 1 <= queue[j]
      BY <1>3, <1>4, <1>9
    <2>2. Holders(j)' \subseteq Holders(j) \cup {t}
      BY <1>4, <1>7, <1>9 DEF Holders
    <2>3. Cardinality(Holders(j)') \in Nat /\ Cardinality(Holders(j)') <= Cardinality(Holders(j)) + 1
      BY <1>5, <2>2, AtMostOneMore
    <2> QED
      BY <1>4, <1>5, <1>6, <2>1, <2>3 DEF Tokens
  <1> QED
    BY <1>3, <1>8, <1>9

\* Whatever interleaves with the callbacks and the listener, a step of theirs
\* leaves no job with more entries and executions than it had.
THEOREM CallbacksDoNotMultiply == Spec => ExecutionsDoNotMultiply
  <1>1. ASSUME TypeOK, TypeOK', FreeHoldsNothing, [Next]_vars
        PROVE  [task' # task => \A j \in Jobs : Tokens(j)' <= Tokens(j)]_vars
    <2> SUFFICES ASSUME Next, task' # task, NEW j \in Jobs PROVE Tokens(j)' <= Tokens(j)
      BY <1>1
    <2>1. CASE ListenerNext
      BY <1>1, <2>1, PopAddsNone
    <2>2. CASE \E t \in Tasks : TaskNext(t)
      BY <1>1, <2>2, EffectorAddsNone
    <2>3. CASE SchedNext \/ NodeNext \/ EnvNext
      <3>1. NothingLeft
        BY <1>1, <2>3, OthersLeaveEffectors
      <3>2. Holders(j)' = {} /\ queue'[j] = 0
        BY <3>1 DEF NothingLeft, Holders
      <3>3. queue[j] \in Nat /\ Cardinality(Holders(j)) \in Nat
        BY <1>1, HoldersFinite DEF TypeOK
      <3> QED
        BY <3>2, <3>3, FS_EmptySet DEF Tokens
    <2> QED
      BY <2>1, <2>2, <2>3 DEF Next
  <1> QED
    BY <1>1, FreeInvariant, PTL DEF Spec, ExecutionsDoNotMultiply

-----------------------------------------------------------------------------
(* At most one execution of a job, when no job is scheduled while it is     *)
(* scheduled already.                                                       *)

\* Job j has at most one entry in the queue or one execution under way, and none
\* of either while ScheduleJobs has yet to queue it.
OneFlight(j) ==
    /\ queue[j] <= 1
    /\ \A t, u \in Tasks : j \in task[t].jobs /\ j \in task[u].jobs => t = u
    /\ \A t \in Tasks : j \in task[t].jobs => queue[j] = 0 /\ j \notin sched.todo
    /\ j \in sched.todo => queue[j] = 0

FlightInv ==
    /\ FreeHoldsNothing
    /\ sched.todo \subseteq sched.jobs
    /\ \A j \in Jobs : OneFlight(j)

LEMMA FlightSuffices == TypeOK /\ FlightInv => SingleFlight
  <1> SUFFICES ASSUME TypeOK, FlightInv, NEW j \in Jobs PROVE Tokens(j) <= 1
    BY DEF SingleFlight
  <1>1. queue[j] \in Nat /\ OneFlight(j)
    BY DEF TypeOK, FlightInv
  <1>2. CASE Holders(j) = {}
    BY <1>1, <1>2, FS_EmptySet DEF OneFlight, Tokens
  <1>3. CASE Holders(j) # {}
    <2>1. PICK t \in Tasks : j \in task[t].jobs
      BY <1>3 DEF Holders
    <2>2. Holders(j) = {t} /\ queue[j] = 0
      BY <1>1, <2>1 DEF OneFlight, Holders
    <2> QED
      BY <2>2, FS_Singleton DEF Tokens
  <1> QED
    BY <1>2, <1>3

LEMMA DownFlight ==
    ASSUME NothingLeft, FreeHoldsNothing'
    PROVE  FlightInv'
  BY DEF NothingLeft, FlightInv, OneFlight, IdleSched

LEMMA UnmovedFlight ==
    ASSUME FlightInv, UNCHANGED <<queue, task, sched>>
    PROVE  FlightInv'
  BY DEF FlightInv, OneFlight, FreeHoldsNothing

LEMMA TaskFlight ==
    ASSUME TypeOK, TypeOK', FlightInv, NEW t \in Tasks, TaskNext(t)
    PROVE  FlightInv'
  <1>1. /\ FreeHoldsNothing'
        /\ \/ NothingLeft
           \/ /\ \A j \in Jobs : MovesOn(j, t) \/ QueuesAgain(j, t) \/ StaysPut(j)
              /\ sched' = sched
    BY EffectorMoves DEF FlightInv
  <1>2. CASE NothingLeft
    BY <1>1, <1>2, DownFlight
  <1>3. CASE ~NothingLeft
    <2>1. ASSUME NEW j \in Jobs PROVE OneFlight(j)'
      <3>1. OneFlight(j) /\ queue[j] \in Nat /\ queue'[j] \in Nat /\ sched' = sched
        BY <1>1, <1>3 DEF FlightInv, TypeOK
      <3>2. CASE MovesOn(j, t)
        <4>1. PICK u \in Tasks : \A v \in Tasks : j \in task'[v].jobs => v = u \/ (v # t /\ j \in task[v].jobs)
          BY <3>2 DEF MovesOn
        <4>2. \A v \in Tasks : j \in task'[v].jobs => v = u
          BY <3>1, <3>2, <4>1 DEF MovesOn, OneFlight
        <4> QED
          BY <3>1, <3>2, <4>2 DEF MovesOn, OneFlight
      <3>3. CASE QueuesAgain(j, t)
        <4>1. \A v \in Tasks : j \notin task'[v].jobs
          BY <3>1, <3>3 DEF QueuesAgain, OneFlight
        <4> QED
          BY <3>1, <3>3, <4>1 DEF QueuesAgain, OneFlight
      <3>4. CASE StaysPut(j)
        BY <3>1, <3>4 DEF StaysPut, OneFlight
      <3> QED
        BY <1>1, <1>3, <3>2, <3>3, <3>4
    <2> QED
      BY <1>1, <1>3, <2>1 DEF FlightInv
  <1> QED
    BY <1>2, <1>3

LEMMA ListenerFlight ==
    ASSUME TypeOK, TypeOK', FlightInv, ListenerNext
    PROVE  FlightInv'
  <1>1. PICK due \in SUBSET Jobs : \E left \in [due -> 0 .. MaxQueued] : PopDue(due, left)
    BY DEF ListenerNext
  <1>2. PICK left \in [due -> 0 .. MaxQueued] : PopDue(due, left)
    BY <1>1
  <1>3. /\ FreeHoldsNothing'
        /\ \A i \in Jobs \ due : queue'[i] = queue[i]
        /\ \A i \in due : queue'[i] = left[i] /\ left[i] \in Nat /\ left[i] < queue[i]
        /\ \/ task' = task
           \/ \E t \in Tasks : task' = [task EXCEPT ![t] = Batch(due)]
        /\ sched' = sched
    BY <1>2, PopMoves DEF FlightInv
  <1>4. ASSUME NEW j \in Jobs PROVE OneFlight(j)'
    <2>1. OneFlight(j) /\ queue[j] \in Nat /\ queue'[j] \in Nat /\ task \in [Tasks -> Task]
      BY DEF FlightInv, TypeOK
    <2>2. CASE j \notin due
      <3>1. j \notin Batch(due).jobs
        BY <2>2, BatchFields
      <3>2. \A v \in Tasks : j \in task'[v].jobs => j \in task[v].jobs
        BY <1>3, <2>1, <3>1
      <3> QED
        BY <1>3, <2>1, <2>2, <3>2 DEF OneFlight
    <2>3. CASE j \in due
      <3>1. queue[j] = 1 /\ queue'[j] = 0
        BY <1>3, <2>1, <2>3 DEF OneFlight
      <3>2. (\A v \in Tasks : j \notin task[v].jobs) /\ j \notin sched.todo
        BY <2>1, <3>1 DEF OneFlight
      <3>3. \A u, v \in Tasks : j \in task'[u].jobs /\ j \in task'[v].jobs => u = v
        BY <1>3, <2>1, <3>2
      <3> QED
        BY <1>3, <3>1, <3>2, <3>3 DEF OneFlight
    <2> QED
      BY <2>2, <2>3
  <1> QED
    BY <1>3, <1>4 DEF FlightInv

\* What a ScheduleJobs that starts takes with it.
Eligible(S) == {j \in S : MaySchedule(Account[j]) /\ status[j] = "active" /\ ~ended[j]}
Started(S, last) == [IdleSched EXCEPT !.pc = "loop", !.jobs = Eligible(S), !.todo = Eligible(S), !.last = last]

LEMMA SchedStartStep ==
    ASSUME NEW S \in SUBSET Jobs, SchedStart(S)
    PROVE  /\ up /\ sched.pc = "idle"
           /\ \A j \in S : Schedulable(j)
           /\ Eligible(S) \subseteq S
           /\ UNCHANGED <<down, nodeIsLeader, change, cache, queue, quota, task, store>>
           /\ \E last : /\ \A j \in S : last[j] \in LastLogs(logs[j])
                        /\ sched'.jobs = Eligible(S) /\ sched'.todo = Eligible(S) /\ sched'.last = last
                        /\ sched'.retry = None /\ sched'.fails = 0 /\ sched'.retried = {}
  <1>1. /\ up /\ sched.pc = "idle"
        /\ \A j \in S : Schedulable(j)
        /\ UNCHANGED <<down, nodeIsLeader, change, cache, queue, quota, task, store>>
    BY Zenon DEF SchedStart
  <1>2. \E last \in [Jobs -> {NoLastLog} \cup UNION {LastLogs(logs[j]) : j \in S}] :
          /\ \A j \in Jobs : last[j] \in IF j \in S THEN LastLogs(logs[j]) ELSE {NoLastLog}
          /\ sched' = Started(S, last)
    BY Zenon DEF SchedStart, Started, Eligible
  <1>3. \A last : /\ Started(S, last).jobs = Eligible(S) /\ Started(S, last).todo = Eligible(S)
                  /\ Started(S, last).last = last /\ Started(S, last).retry = None
                  /\ Started(S, last).fails = 0 /\ Started(S, last).retried = {}
    BY DEF Started, IdleSched
  <1>4. Eligible(S) \subseteq S
    BY DEF Eligible
  <1> QED
    BY <1>1, <1>2, <1>3, <1>4

LEMMA SchedFlight ==
    ASSUME TypeOK, FlightInv, "overlap" \notin Faults, SchedNext
    PROVE  FlightInv'
  <1>1. /\ queue \in [Jobs -> Nat] /\ sched \in Sched
        /\ sched.todo \subseteq sched.jobs
    BY DEF TypeOK, FlightInv
  <1>2. task' = task => FreeHoldsNothing'
    BY DEF FlightInv, FreeHoldsNothing
  <1>3. ASSUME NEW j \in Jobs, Schedulable(j)
        PROVE  queue[j] = 0 /\ j \notin sched.jobs /\ \A t \in Tasks : j \notin task[t].jobs
    BY <1>3 DEF Schedulable, Holders
  <1>4. ASSUME NEW S \in SUBSET Jobs, SchedStart(S) PROVE FlightInv'
    <2>1. /\ \A j \in S : Schedulable(j)
          /\ Eligible(S) \subseteq S
          /\ UNCHANGED <<queue, task>>
          /\ sched'.jobs = Eligible(S) /\ sched'.todo = Eligible(S)
      BY <1>4, SchedStartStep
    <2>4. ASSUME NEW j \in Jobs PROVE OneFlight(j)'
      <3>1. j \in Eligible(S) => queue[j] = 0 /\ \A t \in Tasks : j \notin task[t].jobs
        BY <1>3, <2>1
      <3> QED
        BY <2>1, <3>1 DEF FlightInv, OneFlight
    <2> QED
      BY <1>2, <2>1, <2>4 DEF FlightInv
  <1>5. ASSUME NEW j \in Jobs, SchedStore(j) \/ SchedRetryQueue(j) PROVE FlightInv'
    <2>1. /\ j \in sched.todo /\ task' = task
          /\ queue' = [queue EXCEPT ![j] = queue[j] + 1]
          /\ sched'.todo = sched.todo \ {j} /\ sched'.jobs = sched.jobs
      BY <1>1, <1>5 DEF SchedStore, SchedRetryQueue, Sched
    <2>2. ASSUME NEW i \in Jobs PROVE OneFlight(i)'
      <3>1. OneFlight(i)
        BY DEF FlightInv
      <3> QED
        BY <1>1, <2>1, <3>1 DEF OneFlight
    <2> QED
      BY <1>1, <1>2, <2>1, <2>2 DEF FlightInv
  <1>6. ASSUME NEW j \in Jobs, SchedPanic(j) PROVE FlightInv'
    BY <1>6, StepsDown, GoDownLeavesNothing, DownFlight
  <1>7. ASSUME NEW j \in Jobs, SchedRetryStore(j) PROVE FlightInv'
    <2>1. /\ UNCHANGED <<queue, task>>
          /\ sched'.todo = sched.todo /\ sched'.jobs = sched.jobs
      BY <1>1, <1>7 DEF SchedRetryStore, Sched
    <2> QED
      BY <1>2, <2>1 DEF FlightInv, OneFlight
  <1>8. ASSUME SchedInsert PROVE FlightInv'
    <2>1. /\ UNCHANGED <<queue, task>>
          /\ sched'.todo = {} /\ sched'.jobs = {}
      BY <1>8 DEF SchedInsert, IdleSched
    <2> QED
      BY <1>2, <2>1 DEF FlightInv, OneFlight
  <1>9. ASSUME NEW j \in Jobs, AddJobSchedule(j) PROVE FlightInv'
    <2>1. /\ Schedulable(j) /\ UNCHANGED <<sched, task>>
          /\ queue' = [queue EXCEPT ![j] = queue[j] + 1]
      BY <1>9 DEF AddJobSchedule
    <2>2. queue[j] = 0 /\ j \notin sched.todo /\ \A t \in Tasks : j \notin task[t].jobs
      BY <1>1, <1>3, <2>1
    <2> QED
      BY <1>1, <1>2, <2>1, <2>2 DEF FlightInv, OneFlight
  <1> QED
    BY <1>4, <1>5, <1>6, <1>7, <1>8, <1>9, Zenon DEF SchedNext

LEMMA OthersFlight ==
    ASSUME TypeOK, FlightInv, NodeNext \/ EnvNext
    PROVE  FlightInv'
  <1>1. /\ FreeHoldsNothing' /\ (NothingLeft \/ task' = task)
    BY OthersLeaveEffectors DEF FlightInv
  <1>2. CASE NothingLeft
    BY <1>1, <1>2, DownFlight
  <1>3. ASSUME ~NothingLeft PROVE sched' = sched /\ \A j \in Jobs : queue'[j] \in {0, queue[j]}
    <2>1. CASE NodeNext
      BY <2>1 DEF NodeNext, StopAll, LeadershipChange, SetNodeIsLeader, ResetLocalQuotaAllocations,
                  UpdateLocalQuotaAllocations, ClearAll
    <2>2. CASE EnvNext
      <3>1. ~Crash /\ ~ \E t \in Tasks : CrashInReschedule(t)
        BY <1>3, StepsDown, GoDownLeavesNothing
      <3>2. ASSUME \/ \E j \in Jobs, s \in {"active", "inactive"} : SetStatus(j, s)
                   \/ \E j \in Jobs : EndJob(j)
                   \/ \E a \in Accounts : RefillAccount(a)
                   \/ Restart
            PROVE  sched' = sched /\ queue' = queue
        BY <3>2 DEF SetStatus, EndJob, RefillAccount, Restart, memory
      <3> QED
        BY <2>2, <3>1, <3>2, Zenon DEF EnvNext
    <2> QED
      BY <2>1, <2>2
  <1>4. CASE ~NothingLeft
    <2>1. \A j \in Jobs : queue[j] \in Nat
      BY DEF TypeOK
    <2>2. sched' = sched /\ task' = task /\ \A j \in Jobs : queue'[j] \in {0, queue[j]}
      BY <1>1, <1>3, <1>4
    <2>3. ASSUME NEW j \in Jobs PROVE OneFlight(j)'
      <3>1. OneFlight(j) /\ queue[j] \in Nat /\ queue'[j] \in {0, queue[j]}
        BY <2>1, <2>2 DEF FlightInv
      <3> QED
        BY <2>2, <3>1 DEF OneFlight
    <2> QED
      BY <1>1, <2>2, <2>3 DEF FlightInv
  <1> QED
    BY <1>2, <1>4

LEMMA FlightInvariant == "overlap" \notin Faults => (Spec => [](TypeOK /\ FlightInv))
  <1> SUFFICES ASSUME "overlap" \notin Faults PROVE Spec => [](TypeOK /\ FlightInv)
    OBVIOUS
  <1>1. Init => FlightInv
    BY DEF Init, FlightInv, OneFlight, FreeHoldsNothing, FreeTask, IdleSched
  <1>2. TypeOK /\ TypeOK' /\ FlightInv /\ [Next]_vars => FlightInv'
    <2> SUFFICES ASSUME TypeOK, TypeOK', FlightInv, [Next]_vars PROVE FlightInv'
      OBVIOUS
    <2>1. CASE Next
      BY <2>1, SchedFlight, ListenerFlight, TaskFlight, OthersFlight DEF Next
    <2>2. CASE UNCHANGED vars
      BY <2>2, UnmovedFlight DEF vars, memory
    <2> QED
      BY <2>1, <2>2
  <1> QED
    BY <1>1, <1>2, TypeCorrect, PTL DEF Spec

\* A job that is never scheduled anew while it is scheduled has at most one entry
\* in the queue or one execution under way, whatever crashes, stops, retries and
\* interleaves otherwise.
THEOREM OneExecutionAtATime ==
    ASSUME "overlap" \notin Faults
    PROVE  Spec => []SingleFlight
  <1>1. TypeOK /\ FlightInv => SingleFlight
    BY FlightSuffices
  <1>2. Spec => [](TypeOK /\ FlightInv)
    BY FlightInvariant
  <1> QED
    BY <1>1, <1>2, PTL

-----------------------------------------------------------------------------
(* What reschedule queues is paid for.                                      *)

Entries(a) == {p \in Jobs \X (1 .. MaxQueued + Cardinality(Tasks)) :
                 Account[p[1]] = a /\ p[2] <= queue[p[1]]}

LEMMA EntriesFinite ==
    IsFiniteSet(Jobs \X (1 .. MaxQueued + Cardinality(Tasks)))
  <1>1. MaxQueued + Cardinality(Tasks) \in Nat
    BY Constants, FS_CardinalityType
  <1>2. IsFiniteSet(1 .. MaxQueued + Cardinality(Tasks))
    BY <1>1, FS_Interval
  <1> QED
    BY <1>2, Constants, FS_Product

\* The jobs in R that are queued once more are as many entries more at most.
LEMMA EntriesAdded ==
    ASSUME TypeOK, NEW a \in Accounts, NEW R \in SUBSET Jobs,
           \A j \in Jobs : Account[j] = a =>
              queue'[j] <= IF j \in R THEN queue[j] + 1 ELSE queue[j],
           \A j \in Jobs : queue'[j] \in Nat,
           \A j \in R : Account[j] = a
    PROVE  /\ QueuedOf(a) \in Nat /\ QueuedOf(a)' \in Nat
           /\ QueuedOf(a)' <= QueuedOf(a) + Cardinality(R)
  <1> DEFINE next == [j \in R |-> <<j, queue[j] + 1>>]
             new  == {next[j] : j \in R}
             old  == Entries(a)
             then == Entries(a)'
  <1>1. IsFiniteSet(R) /\ Cardinality(R) \in Nat
    BY Constants, FS_Subset, FS_CardinalityType
  <1>2. next \in Surjection(R, new)
    BY DEF Surjection
  <1>3. IsFiniteSet(new) /\ Cardinality(new) <= Cardinality(R)
    BY <1>1, <1>2, FS_Surjection
  <1>4. /\ old \in SUBSET (Jobs \X (1 .. MaxQueued + Cardinality(Tasks)))
        /\ then \in SUBSET (Jobs \X (1 .. MaxQueued + Cardinality(Tasks)))
    BY DEF Entries
  <1>5. IsFiniteSet(old) /\ IsFiniteSet(then)
    BY <1>4, EntriesFinite, FS_Subset
  <1>6. QueuedOf(a) = Cardinality(old) /\ QueuedOf(a)' = Cardinality(then)
    BY DEF QueuedOf, Entries
  <1>7. then \subseteq old \cup new
    <2> SUFFICES ASSUME NEW p \in then, p \notin old PROVE p \in new
      OBVIOUS
    <2>1. /\ p[1] \in Jobs /\ p[2] \in 1 .. MaxQueued + Cardinality(Tasks)
          /\ Account[p[1]] = a /\ p[2] <= queue'[p[1]]
          /\ ~(p[2] <= queue[p[1]])
          /\ p = <<p[1], p[2]>>
      BY DEF Entries
    <2>2. MaxQueued + Cardinality(Tasks) \in Nat
      BY Constants, FS_CardinalityType
    <2>3. p[2] \in Nat /\ queue[p[1]] \in Nat /\ queue'[p[1]] \in Nat
      BY <2>1, <2>2 DEF TypeOK
    <2>4. p[1] \in R /\ p[2] = queue[p[1]] + 1
      BY <2>1, <2>3
    <2> QED
      BY <2>1, <2>4
  <1> HIDE DEF next, new, old, then
  <1>8. Cardinality(old) \in Nat /\ Cardinality(then) \in Nat /\ Cardinality(new) \in Nat
    BY <1>3, <1>5, FS_CardinalityType
  <1>9. IsFiniteSet(old \cup new) /\ Cardinality(old \cup new) <= Cardinality(old) + Cardinality(new)
    <2>1. IsFiniteSet(old \cap new)
      BY <1>5, FS_Intersection
    <2>2. Cardinality(old \cap new) \in Nat
      BY <2>1, FS_CardinalityType
    <2>3. /\ IsFiniteSet(old \cup new)
          /\ Cardinality(old \cup new) = Cardinality(old) + Cardinality(new) - Cardinality(old \cap new)
      BY <1>3, <1>5, FS_Union
    <2> QED
      BY <1>8, <2>2, <2>3
  <1>10. Cardinality(then) <= Cardinality(old \cup new)
    BY <1>7, <1>9, FS_Subset
  <1>11. Cardinality(old \cup new) \in Nat
    BY <1>9, FS_CardinalityType
  <1> QED
    BY <1>1, <1>3, <1>6, <1>8, <1>9, <1>10, <1>11

LEMMA BalanceType == ASSUME TypeOK, NEW a \in Accounts PROVE Balance(a) \in Nat
  BY DEF TypeOK, Balance

\* A step that queues nothing and charges nothing, or only charges.
LEMMA NothingQueued ==
    ASSUME TypeOK, TypeOK', NEW a \in Accounts,
           \A j \in Jobs : queue'[j] <= queue[j],
           Balance(a)' <= Balance(a)
    PROVE  QueuedOf(a)' - QueuedOf(a) <= Balance(a) - Balance(a)'
  <1>1. \A j \in Jobs : queue'[j] \in Nat /\ queue[j] \in Nat
    BY DEF TypeOK
  <1>2. /\ QueuedOf(a) \in Nat /\ QueuedOf(a)' \in Nat
        /\ QueuedOf(a)' <= QueuedOf(a) + Cardinality({})
    <2>1. \A j \in Jobs : queue'[j] <= IF j \in {} THEN queue[j] + 1 ELSE queue[j]
      OBVIOUS
    <2> QED
      BY <1>1, <2>1, EntriesAdded
  <1>3. Balance(a) \in Nat /\ Balance(a)' \in Nat
    BY BalanceType DEF TypeOK, Balance
  <1> QED
    BY <1>2, <1>3, FS_EmptySet

LEMMA RescheduleIsPaid ==
    ASSUME TypeOK, TypeOK', NEW t \in Tasks, Reschedule(t), NEW a \in Accounts,
           ~(a = SystemAccount /\ ~SingleNode)
    PROVE  QueuedOf(a)' - QueuedOf(a) <= Balance(a) - Balance(a)'
  <1>1. PICK paid, gone, retried, renewed \in SUBSET Jobs :
          RescheduleEffect(t, paid, gone, retried, renewed)
    BY RescheduleHasEffect
  <1> DEFINE R == AccountJobs(retried \cup renewed, a)
  <1>2. /\ Pays(task[t].jobs, paid) /\ paid \subseteq task[t].jobs
        /\ retried \subseteq paid /\ renewed \subseteq paid
        /\ queue' = [j \in Jobs |-> IF j \in retried \cup renewed THEN queue[j] + 1 ELSE queue[j]]
        /\ execCount' = ChargedCounts(paid)
        /\ quota' = [b \in Accounts |-> IF ~SingleNode /\ b # SystemAccount /\ quota[b] # None
                                        THEN quota[b] - Charged(paid, b) ELSE quota[b]]
    BY <1>1 DEF RescheduleEffect
  <1>3. R \in SUBSET Jobs /\ R \in SUBSET AccountJobs(paid, a) /\ \A j \in R : Account[j] = a
    BY <1>2 DEF AccountJobs
  <1>4. \A j \in Jobs : Account[j] = a => queue'[j] <= IF j \in R THEN queue[j] + 1 ELSE queue[j]
    BY <1>2 DEF AccountJobs, TypeOK
  <1> HIDE DEF R
  <1>5. \A j \in Jobs : queue'[j] \in Nat
    BY DEF TypeOK
  <1>6. /\ QueuedOf(a) \in Nat /\ QueuedOf(a)' \in Nat
        /\ QueuedOf(a)' <= QueuedOf(a) + Cardinality(R)
    BY <1>3, <1>4, <1>5, EntriesAdded
  <1>7. AccountJobs(paid, a) \subseteq Jobs
    BY DEF AccountJobs
  <1>8. Cardinality(R) \in Nat /\ Cardinality(R) <= Charged(paid, a) /\ Charged(paid, a) \in Nat
    BY <1>3, <1>7, Constants, FS_Subset, FS_CardinalityType DEF Charged
  <1>9. Charged(paid, a) = Budget(a, Cardinality(AccountJobs(task[t].jobs, a)))
    BY <1>2 DEF Pays, Spent, Charged
  <1>10. Charged(paid, a) = Balance(a) - Balance(a)'
    <2>1. execCount[a] \in Nat /\ quota[a] \in Nat \cup {None} /\ SingleNode \in BOOLEAN
      BY Constants DEF TypeOK
    <2>2. execCount'[a] = IF SingleNode THEN execCount[a] - Charged(paid, a) ELSE execCount[a]
      BY <1>2 DEF ChargedCounts
    <2>3. quota'[a] = IF ~SingleNode /\ a # SystemAccount /\ quota[a] # None
                      THEN quota[a] - Charged(paid, a) ELSE quota[a]
      BY <1>2
    <2>4. quota'[a] \in Nat \cup {None}
      BY DEF TypeOK
    <2>5. CASE SingleNode
      BY <1>8, <2>1, <2>2, <2>5 DEF Balance
    <2>6. CASE ~SingleNode /\ quota[a] = None
      BY <1>8, <1>9, <2>3, <2>6 DEF Balance, Budget
    <2>7. CASE ~SingleNode /\ quota[a] # None
      <3>1. quota'[a] = quota[a] - Charged(paid, a) /\ quota[a] \in Nat
        BY <2>1, <2>3, <2>7
      <3>2. Cardinality(AccountJobs(task[t].jobs, a)) \in Nat
        <4>1. AccountJobs(task[t].jobs, a) \subseteq Jobs
          BY DEF AccountJobs, TypeOK, Task
        <4> QED
          BY <4>1, Constants, FS_Subset, FS_CardinalityType
      <3>3. Charged(paid, a) <= quota[a]
        BY <1>9, <2>7, <3>1, <3>2 DEF Budget, Smaller
      <3>4. quota'[a] \in Nat /\ quota'[a] # None
        BY <1>8, <3>1, <3>3, Constants
      <3> QED
        BY <1>8, <2>7, <3>1, <3>4 DEF Balance
    <2> QED
      BY <2>5, <2>6, <2>7
  <1> QED
    BY <1>6, <1>8, <1>10, BalanceType

\* The other steps of an effector queue nothing and charge nothing.
LEMMA EffectorIsPaid ==
    ASSUME TypeOK, TypeOK', FreeHoldsNothing, NEW t \in Tasks, TaskNext(t), NEW a \in Accounts,
           ~(a = SystemAccount /\ ~SingleNode)
    PROVE  QueuedOf(a)' - QueuedOf(a) <= Balance(a) - Balance(a)'
  <1>1. \A j \in Jobs : queue[j] \in Nat
    BY DEF TypeOK
  <1>2. ASSUME UNCHANGED <<queue, quota, execCount>>
        PROVE  QueuedOf(a)' - QueuedOf(a) <= Balance(a) - Balance(a)'
    <2>1. Balance(a)' = Balance(a) /\ \A j \in Jobs : queue'[j] <= queue[j]
      BY <1>1, <1>2 DEF Balance
    <2>2. Balance(a) \in Nat
      BY BalanceType
    <2> QED
      BY <2>1, <2>2, NothingQueued
  <1>3. ASSUME GoesDown PROVE QueuedOf(a)' - QueuedOf(a) <= Balance(a) - Balance(a)'
    <2>1. PICK r : GoDown(r)
      BY <1>3 DEF GoesDown
    <2>2. quota' = [b \in Accounts |-> None] /\ queue' = [j \in Jobs |-> 0] /\ execCount' = execCount
      BY <1>3, <2>1 DEF GoDown, GoesDown, store
    <2>3. Balance(a)' <= Balance(a) /\ \A j \in Jobs : queue'[j] <= queue[j]
      BY <1>1, <2>2 DEF Balance, TypeOK
    <2> QED
      BY <2>3, NothingQueued
  <1>4. CASE Invoke(t)
    <2>1. UNCHANGED <<queue, quota, execCount>>
      BY <1>4, InvokeStep DEF store
    <2> QED
      BY <1>2, <2>1
  <1>5. CASE InvokeFails(t) \/ Log(t) \/ RescheduleFails(t) \/ \E outcome \in {"success", "failed"} : Finish(t, outcome)
    <2>1. UNCHANGED <<queue, quota, execCount>>
      BY <1>5 DEF InvokeFails, Log, RescheduleFails, Finish, store
    <2> QED
      BY <1>2, <2>1
  <1>6. CASE Create(t)
    <2>1. GoesDown \/ UNCHANGED <<queue, quota, execCount>>
      BY <1>6, CreateStep DEF Rebuilt, store
    <2> QED
      BY <1>2, <1>3, <2>1
  <1>7. CASE Load(t)
    <2>1. GoesDown \/ UNCHANGED <<queue, quota, execCount>>
      BY <1>7, LoadStep DEF store
    <2> QED
      BY <1>2, <1>3, <2>1
  <1>8. CASE Reschedule(t)
    BY <1>8, RescheduleIsPaid
  <1> QED
    BY <1>4, <1>5, <1>6, <1>7, <1>8, Zenon DEF TaskNext

LEMMA CrashIsPaid ==
    ASSUME TypeOK, TypeOK', NEW a \in Accounts,
           (\E j \in Jobs : SchedPanic(j)) \/ Crash \/ \E t \in Tasks : CrashInReschedule(t)
    PROVE  QueuedOf(a)' - QueuedOf(a) <= Balance(a) - Balance(a)'
  <1>1. PICK r : GoDown(r)
    BY StepsDown
  <1>2. quota' = [b \in Accounts |-> None] /\ queue' = [j \in Jobs |-> 0]
    BY <1>1 DEF GoDown
  <1>3. ASSUME SingleNode PROVE execCount'[a] <= execCount[a]
    <2>1. ASSUME NEW j \in Jobs, SchedPanic(j) PROVE execCount'[a] <= execCount[a]
      <3>1. UNCHANGED store
        BY <2>1, Zenon DEF SchedPanic
      <3> QED
        BY <3>1 DEF store, TypeOK
    <2>2. ASSUME Crash PROVE execCount'[a] <= execCount[a]
      <3>1. UNCHANGED store
        BY <2>2, Zenon DEF Crash
      <3> QED
        BY <3>1 DEF store, TypeOK
    <2>3. ASSUME NEW t \in Tasks, CrashInReschedule(t) PROVE execCount'[a] <= execCount[a]
      <3>1. PICK paid \in SUBSET task[t].jobs : execCount' = ChargedCounts(paid)
        BY <2>3, Zenon DEF CrashInReschedule
      <3>2. AccountJobs(paid, a) \subseteq Jobs
        BY DEF AccountJobs, TypeOK, Task
      <3>3. Charged(paid, a) \in Nat
        BY <3>2, Constants, FS_Subset, FS_CardinalityType DEF Charged
      <3> QED
        BY <1>3, <3>1, <3>3 DEF ChargedCounts, TypeOK
    <2> QED
      BY <2>1, <2>2, <2>3
  <1>4. Balance(a)' <= Balance(a)
    BY <1>2, <1>3 DEF Balance, TypeOK
  <1>5. \A j \in Jobs : queue'[j] <= queue[j]
    BY <1>2 DEF TypeOK
  <1> QED
    BY <1>4, <1>5, NothingQueued

\* A step of the listener or of a callback queues no more entries of an account
\* than it charges the account for, also when the jobs of an aggregated delivery
\* are rescheduled together.
THEOREM RequeuesPaidFor == Spec => RequeuesArePaid
  <1>1. ASSUME TypeOK, TypeOK', FreeHoldsNothing, [Next]_vars
        PROVE  [task' # task => \A a \in Accounts :
                  (a = SystemAccount /\ ~SingleNode) \/ QueuedOf(a)' - QueuedOf(a) <= Balance(a) - Balance(a)']_vars
    <2> SUFFICES ASSUME Next, task' # task, NEW a \in Accounts, ~(a = SystemAccount /\ ~SingleNode)
                 PROVE  QueuedOf(a)' - QueuedOf(a) <= Balance(a) - Balance(a)'
      BY <1>1
    <2>1. CASE ListenerNext
      <3>1. PICK due \in SUBSET Jobs : \E left \in [due -> 0 .. MaxQueued] : PopDue(due, left)
        BY <2>1 DEF ListenerNext
      <3>2. PICK left \in [due -> 0 .. MaxQueued] : PopDue(due, left)
        BY <3>1
      <3>3. /\ \A i \in Jobs \ due : queue'[i] = queue[i]
            /\ \A i \in due : queue'[i] = left[i] /\ left[i] \in Nat /\ left[i] < queue[i]
            /\ UNCHANGED <<quota, store>>
        BY <1>1, <3>2, PopMoves
      <3>4. Balance(a)' <= Balance(a)
        <4>1. Balance(a) \in Nat
          BY <1>1, BalanceType
        <4> QED
          BY <3>3, <4>1 DEF Balance, store
      <3>5. \A j \in Jobs : queue'[j] <= queue[j]
        BY <1>1, <3>3 DEF TypeOK
      <3> QED
        BY <1>1, <3>4, <3>5, NothingQueued
    <2>2. CASE \E t \in Tasks : TaskNext(t)
      BY <1>1, <2>2, EffectorIsPaid
    <2>3. CASE SchedNext \/ NodeNext \/ EnvNext
      <3>1. (\E j \in Jobs : SchedPanic(j)) \/ Crash \/ \E t \in Tasks : CrashInReschedule(t)
        BY <2>3, OthersMoveEffectors
      <3> QED
        BY <1>1, <3>1, CrashIsPaid
    <2> QED
      BY <2>1, <2>2, <2>3 DEF Next
  <1> QED
    BY <1>1, FreeInvariant, PTL DEF Spec, RequeuesArePaid

-----------------------------------------------------------------------------
(* An effector works on its own jobs.                                       *)

\* A step of effector t leaves the jobs that it does not hold as they are, in the
\* cache, in the log and in the hands of the other effectors.
KeepsApart(t) ==
    \A j \in Jobs : j \notin task[t].jobs =>
       /\ cache'[j] = cache[j] /\ logs'[j] = logs[j]
       /\ \A u \in Tasks : j \in task'[u].jobs \/ j \in task[u].jobs => task'[u] = task[u]

LEMMA EffectorsKeepApart ==
    ASSUME TypeOK, FreeHoldsNothing, NEW t \in Tasks, TaskNext(t)
    PROVE  GoesDown \/ (sched' = sched /\ KeepsApart(t))
  <1>1. task \in [Tasks -> Task] /\ task[t] \in Task /\ cache \in [Jobs -> MemExecution \cup {None}]
    BY DEF TypeOK
  <1>2. FreeTask.jobs = {}
    BY DEF FreeTask
  \* One effector changes, and holds no other jobs than before.
  <1>3. ASSUME NEW new, task' = [task EXCEPT ![t] = new], new.jobs \subseteq task[t].jobs,
               \A j \in Jobs : j \notin task[t].jobs => cache'[j] = cache[j] /\ logs'[j] = logs[j]
        PROVE  KeepsApart(t)
    BY <1>1, <1>3 DEF KeepsApart
  <1>4. CASE Invoke(t)
    <2>1. UNCHANGED <<cache, logs, sched>>
      BY <1>4, InvokeStep DEF store
    <2>2. PICK to \in [Pushed(t) -> Tasks] : \A u \in Tasks : InvokeEffect(t, Pushed(t), to, u)
      BY <1>4, InvokeStep
    <2>3. Pushed(t) \subseteq task[t].jobs
      BY <1>4, InvokeStep
    <2>4. ASSUME NEW j \in Jobs, j \notin task[t].jobs, NEW u \in Tasks, j \in task'[u].jobs \/ j \in task[u].jobs
          PROVE  task'[u] = task[u]
      <3>1. InvokeEffect(t, Pushed(t), to, u)
        BY <2>2
      <3>2. j \notin Pushed(t) /\ u # t
        BY <1>2, <2>3, <2>4, <3>1 DEF InvokeEffect
      <3>3. task[u].pc = "free" => j \notin task[u].jobs
        BY DEF FreeHoldsNothing
      <3> QED
        BY <2>4, <3>1, <3>2, <3>3 DEF InvokeEffect
    <2> QED
      BY <2>1, <2>4 DEF KeepsApart
  <1>5. CASE InvokeFails(t) \/ RescheduleFails(t)
    <2>1. task' = [task EXCEPT ![t] = FreeTask] /\ UNCHANGED <<cache, logs, sched>>
      BY <1>5 DEF InvokeFails, RescheduleFails, store
    <2> QED
      BY <1>2, <1>3, <2>1
  <1>6. ASSUME NEW outcome \in {"success", "failed"}, Finish(t, outcome) PROVE KeepsApart(t) /\ sched' = sched
    <2> DEFINE new == [task[t] EXCEPT !.pc = "create", !.outcome = outcome]
    <2>1. task' = [task EXCEPT ![t] = new] /\ UNCHANGED <<cache, logs, sched>>
      BY <1>6 DEF Finish, store
    <2>2. new.jobs = task[t].jobs
      BY <1>1 DEF Task
    <2> HIDE DEF new
    <2> QED
      BY <1>3, <2>1, <2>2
  <1>7. CASE Create(t)
    <2> DEFINE new == [task[t] EXCEPT !.pc = "load"]
    <2>1. ASSUME NEW last, Rebuilt(t, last), UNCHANGED store
          PROVE  /\ task' = [task EXCEPT ![t] = new] /\ UNCHANGED <<logs, sched>>
                 /\ cache' = [j \in Jobs |-> IF j \in Missing(t) THEN EntryFromLog(j, last[j]) ELSE cache[j]]
      BY <2>1 DEF Rebuilt, store
    <2>2. new.jobs = task[t].jobs
      BY <1>1 DEF Task
    <2>3. \A j : j \in Missing(t) => j \in task[t].jobs
      BY DEF Missing
    <2> HIDE DEF new
    <2>4. ASSUME NEW last, Rebuilt(t, last), UNCHANGED store PROVE KeepsApart(t) /\ sched' = sched
      BY <1>3, <2>1, <2>2, <2>3, <2>4
    <2> QED
      BY <1>7, <2>4, CreateStep
  <1>8. CASE Load(t)
    <2> DEFINE new == IF Resolved(t) = {} THEN FreeTask ELSE Loaded(t)
    <2>1. GoesDown \/ (task' = [task EXCEPT ![t] = new] /\ UNCHANGED <<cache, logs, sched>>)
      BY <1>8, LoadStep DEF store
    <2>2. new.jobs \subseteq task[t].jobs
      BY <1>2, LoadedType DEF Loaded
    <2> HIDE DEF new
    <2> QED
      BY <1>3, <2>1, <2>2
  <1>9. CASE Log(t)
    <2> DEFINE new == [task[t] EXCEPT !.pc = "reschedule", !.version = NoVersion]
    <2>1. task' = [task EXCEPT ![t] = new] /\ UNCHANGED <<cache, sched>>
      BY <1>9 DEF Log
    <2>2. new.jobs = task[t].jobs
      BY <1>1 DEF Task
    <2>3. \A j \in Jobs : j \notin task[t].jobs => logs'[j] = logs[j]
      BY <1>9 DEF Log
    <2> HIDE DEF new
    <2> QED
      BY <1>3, <2>1, <2>2, <2>3
  <1>10. CASE Reschedule(t)
    <2>1. PICK paid, gone, retried, renewed \in SUBSET Jobs :
            RescheduleEffect(t, paid, gone, retried, renewed)
      BY <1>10, RescheduleHasEffect
    <2>2. /\ task' = [task EXCEPT ![t] = FreeTask] /\ sched' = sched
          /\ gone \cup retried \cup renewed \subseteq task[t].jobs
      BY <2>1 DEF RescheduleEffect
    <2>3. \A j \in Jobs : j \notin task[t].jobs => cache'[j] = cache[j] /\ logs'[j] = logs[j]
      BY <2>1, <2>2 DEF RescheduleEffect
    <2> QED
      BY <1>2, <1>3, <2>2, <2>3
  <1> QED
    BY <1>4, <1>5, <1>6, <1>7, <1>8, <1>9, <1>10 DEF TaskNext

-----------------------------------------------------------------------------
(* Memory and the outcomes on disk.                                         *)

\* A row read as the last one counts its failures, and none for a row that did not
\* fail.
LEMMA LastRowCounts ==
    ASSUME NEW log \in LogType, NEW last \in LastLogs(log)
    PROVE  /\ last.version = log.version /\ log.settled <= last.version
           /\ last.version > 0 /\ last.state # "failed" => CountLastFailed(log, last.version) = 0
           /\ last.version = 0 => CountLastFailed(log, 1) = 0
  <1>1. log \in LogRecord /\ log.settled <= log.version
    BY DEF LogType
  <1>2. last \in LastLogType /\ last.version = log.version
    BY LastRow
  <1>3. CASE log.version = 0
    BY <1>1, <1>2, <1>3 DEF CountLastFailed, LogRecord
  <1>4. CASE log.version # 0 /\ log.settled < log.version
    BY <1>1, <1>2, <1>4 DEF CountLastFailed, LogRecord
  <1>5. CASE log.version # 0 /\ ~(log.settled < log.version)
    <2>1. last.state = IF log.failed > 0 THEN "failed" ELSE "success"
      BY <1>5 DEF LastLogs
    <2> QED
      BY <1>1, <1>2, <1>5, <2>1 DEF CountLastFailed, LogRecord
  <1> QED
    BY <1>3, <1>4, <1>5

\* A scheduled row adds no outcome.
LEMMA ScheduledRowCounts ==
    ASSUME NEW log \in LogType, NEW v, NEW date
    PROVE  /\ InsertScheduled(log, v, date).settled = log.settled
           /\ InsertScheduled(log, v, date).failed = log.failed
           /\ InsertScheduled(log, v, date).success = log.success
  BY DEF InsertScheduled, LogType, LogRecord

\* The row of an outcome makes its version the settled one, and a failed row adds
\* one to the failures of its version.
LEMMA OutcomeRowCounts ==
    ASSUME NEW log \in LogType, NEW v \in Nat, v >= log.settled
    PROVE  /\ InsertSuccess(log, v).settled = v
           /\ InsertFailed(log, v).settled = v
           /\ InsertSuccess(log, v).failed = CountLastFailed(log, v)
           /\ InsertFailed(log, v).failed = CountLastFailed(log, v) + 1
           /\ InsertFailed(log, v).success => log.success
  <1>1. log \in LogRecord
    BY DEF LogType
  <1>2. ~(v < log.settled)
    BY <1>1 DEF LogRecord
  <1> DEFINE top == Settled(log, v)
  <1>3. /\ top \in LogRecord /\ top.settled = v /\ top.failed = CountLastFailed(log, v)
        /\ top.success => log.success
    BY <1>1, <1>2, SettledType DEF Settled, CountLastFailed, LogType, LogRecord
  <1>4. InsertSuccess(log, v) = [top EXCEPT !.success = TRUE] /\ InsertFailed(log, v) = [top EXCEPT !.failed = top.failed + 1]
    BY <1>2 DEF InsertSuccess, InsertFailed
  <1> HIDE DEF top
  <1> QED
    BY <1>3, <1>4 DEF LogRecord

\* The entry of a job and its callback are not behind the outcomes on disk, and the
\* callback that has logged an outcome has logged it under the version of the entry.
EntryAgrees(j) ==
    /\ Cached(j) => cache[j].version >= logs[j].settled
    /\ \A t \in Tasks : j \in task[t].jobs /\ task[t].pc = "log" =>
         /\ task[t].version[j] >= logs[j].settled
         /\ Cached(j) => task[t].version[j] = cache[j].version
    /\ \A t \in Tasks : j \in task[t].jobs /\ task[t].pc = "reschedule" /\ Cached(j) =>
         cache[j].version = logs[j].settled

\* What ScheduleJobs read of a job that it has yet to store is still its last log,
\* and nothing executes the job.
LastIsFresh(j) ==
    j \in sched.todo \cup {sched.retry} =>
      /\ sched.last[j] \in LastLogs(logs[j])
      /\ \A t \in Tasks : j \notin task[t].jobs

\* The entry counts the failures on disk, less the one that is not rescheduled yet.
FailuresAgree(j) ==
    /\ Cached(j) /\ (\A t \in Tasks : j \in task[t].jobs => task[t].pc # "reschedule") =>
         cache[j].failCount = CountLastFailed(logs[j], cache[j].version)
    /\ \A t \in Tasks :
         j \in task[t].jobs /\ Cached(j) /\ task[t].pc = "reschedule" /\ task[t].outcome = "failed" =>
         cache[j].failCount + 1 = logs[j].failed
    /\ sched.retry = j => sched.fails = CountLastFailed(logs[j], sched.last[j].version)

\* A failed read leaves an outcome that is logged and never rescheduled.
RetryJobInv(j) == /\ EntryAgrees(j) /\ LastIsFresh(j)
                  /\ "dberror" \notin Faults => FailuresAgree(j)
RetryInv == \A j \in Jobs : RetryJobInv(j)

LEMMA DownAgrees ==
    ASSUME NEW r, GoDown(r)
    PROVE  RetryInv'
  <1>1. /\ \A j \in Jobs : ~Cached(j)'
        /\ \A t \in Tasks : task'[t].jobs = {}
        /\ sched'.todo = {} /\ sched'.retry = None
    BY DEF GoDown, Cached, FreeTask, IdleSched
  <1>2. None \notin Jobs
    BY Constants
  <1> QED
    BY <1>1, <1>2 DEF RetryInv, RetryJobInv, EntryAgrees, LastIsFresh, FailuresAgree

\* Nothing changes for a job whose entry, outcomes and callbacks stay as they are.
LEMMA UnmovedAgrees ==
    ASSUME NEW j \in Jobs, RetryJobInv(j), sched' = sched,
           cache'[j] = cache[j], logs'[j] = logs[j],
           \A u \in Tasks : j \in task'[u].jobs \/ j \in task[u].jobs => task'[u] = task[u]
    PROVE  RetryJobInv(j)'
  BY DEF RetryJobInv, EntryAgrees, LastIsFresh, FailuresAgree, Cached

\* Nor for one whose execution moves on before its outcome is to be logged.
LEMMA MovingAgrees ==
    ASSUME NEW j \in Jobs, RetryJobInv(j), sched' = sched, cache'[j] = cache[j], logs'[j] = logs[j],
           j \notin sched.todo \cup {sched.retry},
           \A u \in Tasks : j \in task[u].jobs => task[u].pc # "reschedule",
           \A u \in Tasks : j \in task'[u].jobs => task'[u].pc \notin {"log", "reschedule"}
    PROVE  RetryJobInv(j)'
  BY DEF RetryJobInv, EntryAgrees, LastIsFresh, FailuresAgree, Cached

\* A step of an effector on a job of its own that has no other entry or execution.
LEMMA CreateAgrees ==
    ASSUME TypeOK, NEW t \in Tasks, NEW j \in Jobs, j \in task[t].jobs, RetryJobInv(j),
           j \notin sched.todo \cup {sched.retry},
           \A u \in Tasks : j \in task[u].jobs => u = t,
           task[t].pc = "create", NEW last,
           \A i \in Missing(t) : last[i] \in LastLogs(logs[i]),
           Rebuilt(t, last), UNCHANGED store
    PROVE  RetryJobInv(j)'
  <1>1. task \in [Tasks -> Task] /\ logs[j] \in LogType /\ logs'[j] = logs[j] /\ sched' = sched
    BY DEF TypeOK, Rebuilt, store
  <1>2. task' = [task EXCEPT ![t] = [task[t] EXCEPT !.pc = "load"]]
    BY DEF Rebuilt
  <1>3. \A u \in Tasks : j \in task'[u].jobs => u = t /\ task'[u].pc = "load"
    BY <1>1, <1>2 DEF Task
  <1>4. CASE j \notin Missing(t)
    <2>1. cache'[j] = cache[j]
      BY <1>4 DEF Rebuilt
    <2> QED
      BY <1>1, <1>3, <2>1, MovingAgrees
  <1>5. CASE j \in Missing(t)
    <2>1. last[j] \in LastLogs(logs[j]) /\ last[j].date # "undated"
      BY <1>5 DEF Rebuilt
    <2>2. last[j] \in LastLogType /\ (last[j].date = "dated" => logs[j].version > 0) /\ last[j].version = logs[j].version
      BY <1>1, <2>1, LastRow
    <2>3. last[j].version > 0
      BY <2>1, <2>2 DEF LastLogType, RowDates
    <2>4. /\ logs[j].settled <= last[j].version
          /\ last[j].state # "failed" => CountLastFailed(logs[j], last[j].version) = 0
      BY <1>1, <2>1, <2>3, LastRowCounts
    <2>5. cache'[j] = EntryFromLog(j, last[j])
      BY <1>5 DEF Rebuilt
    <2>6. cache'[j].version >= logs[j].settled /\ cache'[j].failCount = CountLastFailed(logs[j], cache'[j].version)
      BY <1>1, <2>2, <2>4, <2>5 DEF EntryFromLog, LogType, LogRecord
    <2> QED
      BY <1>1, <1>3, <2>6 DEF RetryJobInv, EntryAgrees, LastIsFresh, FailuresAgree
  <1> QED
    BY <1>4, <1>5

LEMMA LoadAgrees ==
    ASSUME TypeOK, NEW t \in Tasks, NEW j \in Jobs, j \in task[t].jobs, RetryJobInv(j),
           j \notin sched.todo \cup {sched.retry},
           \A u \in Tasks : j \in task[u].jobs => u = t,
           task[t].pc = "load",
           task' = [task EXCEPT ![t] = IF Resolved(t) = {} THEN FreeTask ELSE Loaded(t)],
           UNCHANGED <<cache, sched, logs>>
    PROVE  RetryJobInv(j)'
  <1>1. task \in [Tasks -> Task]
    BY DEF TypeOK
  <1>2. FreeTask.jobs = {} /\ FreeTask.pc = "free"
    BY DEF FreeTask
  <1>3. Loaded(t).pc = "log" /\ Loaded(t).jobs = Resolved(t) /\ Loaded(t).version = LoadedVersions(t)
    BY DEF Loaded
  <1>4. j \in Resolved(t) <=> Cached(j)
    BY DEF Resolved
  <1>5. j \in Resolved(t) => LoadedVersions(t)[j] = cache[j].version
    BY DEF LoadedVersions
  <1>6. \A u \in Tasks : j \in task'[u].jobs =>
          task'[u].pc = "log" /\ Cached(j) /\ task'[u].version[j] = cache[j].version
    BY <1>1, <1>2, <1>3, <1>4, <1>5
  <1> QED
    BY <1>6 DEF RetryJobInv, EntryAgrees, LastIsFresh, FailuresAgree, Cached

LEMMA LogAgrees ==
    ASSUME TypeOK, NEW t \in Tasks, NEW j \in Jobs, j \in task[t].jobs, RetryJobInv(j),
           j \notin sched.todo \cup {sched.retry},
           \A u \in Tasks : j \in task[u].jobs => u = t,
           Log(t)
    PROVE  RetryJobInv(j)'
  <1> DEFINE v == task[t].version[j]
  <1>1. task \in [Tasks -> Task] /\ task[t] \in Task /\ logs[j] \in LogType /\ v \in Nat
    BY DEF TypeOK, Task
  <1>2. /\ task[t].pc = "log" /\ UNCHANGED <<cache, sched>>
        /\ logs'[j] = IF task[t].outcome = "success" THEN InsertSuccess(logs[j], v) ELSE InsertFailed(logs[j], v)
        /\ task' = [task EXCEPT ![t] = [task[t] EXCEPT !.pc = "reschedule", !.version = NoVersion]]
    BY DEF Log
  <1>3. v >= logs[j].settled /\ (Cached(j) => v = cache[j].version)
    BY <1>2 DEF RetryJobInv, EntryAgrees
  <1>4. "dberror" \notin Faults /\ Cached(j) => cache[j].failCount = CountLastFailed(logs[j], cache[j].version)
    BY <1>2 DEF RetryJobInv, FailuresAgree
  <1>5. \A u \in Tasks : j \in task'[u].jobs =>
          u = t /\ task'[u].pc = "reschedule" /\ task'[u].outcome = task[t].outcome
    BY <1>1, <1>2 DEF Task
  <1>6. task'[t].pc = "reschedule" /\ j \in task'[t].jobs
    BY <1>1, <1>2 DEF Task
  <1> HIDE DEF v
  <1>7. logs'[j].settled = v
    BY <1>1, <1>2, <1>3, OutcomeRowCounts
  <1>8. task[t].outcome = "failed" => logs'[j].failed = CountLastFailed(logs[j], v) + 1
    BY <1>1, <1>2, <1>3, OutcomeRowCounts
  <1>9. EntryAgrees(j)'
    BY <1>1, <1>2, <1>3, <1>5, <1>7 DEF EntryAgrees, Cached
  <1>10. LastIsFresh(j)'
    BY <1>2 DEF LastIsFresh
  <1>11. "dberror" \notin Faults => FailuresAgree(j)'
    BY <1>2, <1>3, <1>4, <1>5, <1>6, <1>8 DEF FailuresAgree, Cached
  <1> QED
    BY <1>9, <1>10, <1>11 DEF RetryJobInv

LEMMA RescheduleAgrees ==
    ASSUME TypeOK, NEW t \in Tasks, NEW j \in Jobs, j \in task[t].jobs, RetryJobInv(j),
           j \notin sched.todo \cup {sched.retry},
           \A u \in Tasks : j \in task[u].jobs => u = t,
           task[t].pc = "reschedule", Reschedule(t)
    PROVE  RetryJobInv(j)'
  <1>1. PICK paid, gone, retried, renewed \in SUBSET Jobs :
          RescheduleEffect(t, paid, gone, retried, renewed)
    BY RescheduleHasEffect
  <1>2. task \in [Tasks -> Task] /\ logs[j] \in LogType /\ (Cached(j) => cache[j] \in MemExecution)
    BY DEF TypeOK, Cached
  <1>3. /\ sched' = sched
        /\ task' = [task EXCEPT ![t] = FreeTask]
        /\ Cached(j) => j \in gone \cup retried \cup renewed
        /\ retried \cap renewed = {} /\ gone \cap (retried \cup renewed) = {}
        /\ j \in retried => Cached(j) /\ task[t].outcome = "failed"
        /\ j \in renewed => Cached(j)
    BY <1>1 DEF RescheduleEffect
  <1>4. /\ cache'[j] = IF j \in gone THEN None
                       ELSE IF j \in retried
                       THEN [version |-> cache[j].version, failCount |-> cache[j].failCount + 1,
                             lastState |-> task[t].outcome]
                       ELSE IF j \in renewed
                       THEN [version |-> NextVersion(cache[j].version), failCount |-> 0,
                             lastState |-> task[t].outcome]
                       ELSE cache[j]
        /\ logs'[j] = IF j \in renewed THEN RenewedLog(logs[j], cache[j].version) ELSE logs[j]
    BY <1>1 DEF RescheduleEffect
  <1>5. \A u \in Tasks : j \notin task'[u].jobs
    BY <1>2, <1>3 DEF FreeTask
  <1>6. Cached(j) => cache[j].version = logs[j].settled
    BY DEF RetryJobInv, EntryAgrees
  <1>7. logs'[j].settled = logs[j].settled /\ logs'[j].failed = logs[j].failed
    BY <1>2, <1>4, ScheduledRowCounts DEF RenewedLog
  <1>8. Cached(j)' => cache'[j].version >= logs'[j].settled
    BY <1>2, <1>3, <1>4, <1>6, <1>7 DEF Cached, NextVersion, MemExecution
  <1>9. ASSUME "dberror" \notin Faults, Cached(j)'
        PROVE  cache'[j].failCount = CountLastFailed(logs'[j], cache'[j].version)
    <2>1. j \in retried \/ j \in renewed
      BY <1>3, <1>4, <1>9 DEF Cached
    <2>2. CASE j \in retried
      <3>1. cache[j].failCount + 1 = logs[j].failed
        BY <1>3, <1>9, <2>2 DEF RetryJobInv, FailuresAgree
      <3> QED
        BY <1>3, <1>4, <1>6, <1>7, <2>2, <3>1 DEF CountLastFailed
    <2>3. CASE j \in renewed
      <3>1. cache'[j].version = logs[j].settled + 1 /\ cache'[j].failCount = 0
        BY <1>3, <1>4, <1>6, <2>3 DEF NextVersion
      <3>2. logs[j].settled + 1 # logs[j].settled
        BY <1>2 DEF LogType, LogRecord
      <3> QED
        BY <1>7, <3>1, <3>2 DEF CountLastFailed
    <2> QED
      BY <2>1, <2>2, <2>3
  <1> QED
    BY <1>3, <1>5, <1>8, <1>9 DEF RetryJobInv, EntryAgrees, LastIsFresh, FailuresAgree

LEMMA TaskAgrees ==
    ASSUME TypeOK, FlightInv, RetryInv, NEW t \in Tasks, TaskNext(t)
    PROVE  RetryInv'
  <1>1. GoesDown => RetryInv'
    BY DownAgrees DEF GoesDown
  <1>2. CASE ~GoesDown
    <2>1. sched' = sched /\ KeepsApart(t)
      BY <1>2, EffectorsKeepApart DEF FlightInv
    <2>2. ASSUME NEW j \in Jobs, j \notin task[t].jobs PROVE RetryJobInv(j)'
      BY <2>1, <2>2, UnmovedAgrees DEF KeepsApart, RetryInv
    <2>3. ASSUME NEW j \in Jobs, j \in task[t].jobs PROVE RetryJobInv(j)'
      <3>1. /\ \A u \in Tasks : j \in task[u].jobs => u = t
            /\ j \notin sched.todo
            /\ RetryJobInv(j)
        BY <2>3 DEF FlightInv, OneFlight, RetryInv
      <3>2. j \notin sched.todo \cup {sched.retry}
        BY <2>3, <3>1 DEF RetryJobInv, LastIsFresh
      <3>3. task \in [Tasks -> Task] /\ task[t] \in Task
        BY DEF TypeOK
      <3>4. FreeTask.jobs = {} /\ FreeTask.pc = "free"
        BY DEF FreeTask
      <3>5. CASE Invoke(t)
        <4>1. UNCHANGED <<cache, sched, logs>> /\ task[t].pc = "invoke"
          <5>1. task[t].pc = "invoke"
            BY <3>5, Zenon DEF Invoke
          <5> QED
            BY <3>5, <5>1, InvokeStep DEF store
        <4>2. PICK to \in [Pushed(t) -> Tasks] : \A u \in Tasks : InvokeEffect(t, Pushed(t), to, u)
          BY <3>5, InvokeStep
        <4>3. \A u \in Tasks : j \in task'[u].jobs => task'[u].pc \notin {"log", "reschedule"}
          BY <2>3, <3>1, <3>4, <4>2 DEF InvokeEffect
        <4> QED
          BY <3>1, <3>2, <4>1, <4>3, MovingAgrees
      <3>6. CASE InvokeFails(t)
        <4>1. /\ task[t].pc = "invoke" /\ task' = [task EXCEPT ![t] = FreeTask]
              /\ UNCHANGED <<cache, sched, logs>>
          BY <3>6 DEF InvokeFails, store
        <4>2. \A u \in Tasks : j \notin task'[u].jobs
          BY <3>1, <3>3, <3>4, <4>1
        <4> QED
          BY <3>1, <3>2, <4>1, <4>2, MovingAgrees
      <3>7. ASSUME NEW outcome \in {"success", "failed"}, Finish(t, outcome) PROVE RetryJobInv(j)'
        <4>1. /\ task[t].pc = "send"
              /\ task' = [task EXCEPT ![t] = [task[t] EXCEPT !.pc = "create", !.outcome = outcome]]
              /\ UNCHANGED <<cache, sched, logs>>
          BY <3>7 DEF Finish, store
        <4>2. \A u \in Tasks : j \in task'[u].jobs => task'[u].pc = "create"
          BY <3>1, <3>3, <4>1 DEF Task
        <4> QED
          BY <3>1, <3>2, <4>1, <4>2, MovingAgrees
      <3>8. CASE Create(t)
        <4>1. task[t].pc = "create"
          BY <3>8, Zenon DEF Create
        <4> QED
          BY <1>2, <2>3, <3>1, <3>2, <3>8, <4>1, CreateStep, CreateAgrees
      <3>9. CASE Load(t)
        <4>1. task[t].pc = "load"
          BY <3>9, Zenon DEF Load
        <4>2. /\ task' = [task EXCEPT ![t] = IF Resolved(t) = {} THEN FreeTask ELSE Loaded(t)]
              /\ UNCHANGED <<cache, sched, logs>>
          BY <1>2, <3>9, LoadStep DEF store
        <4> QED
          BY <2>3, <3>1, <3>2, <4>1, <4>2, LoadAgrees
      <3>10. CASE Log(t)
        BY <2>3, <3>1, <3>2, <3>10, LogAgrees
      <3>11. CASE Reschedule(t)
        <4>1. task[t].pc = "reschedule"
          BY <3>11, Zenon DEF Reschedule
        <4> QED
          BY <2>3, <3>1, <3>2, <3>11, <4>1, RescheduleAgrees
      <3>12. CASE RescheduleFails(t)
        <4>1. /\ "dberror" \in Faults /\ task' = [task EXCEPT ![t] = FreeTask]
              /\ UNCHANGED <<cache, sched, logs>>
          BY <3>12 DEF RescheduleFails, store
        <4>2. \A u \in Tasks : j \notin task'[u].jobs
          BY <3>1, <3>3, <3>4, <4>1
        <4> QED
          BY <3>1, <3>2, <4>1, <4>2 DEF RetryJobInv, EntryAgrees, LastIsFresh, Cached
      <3> QED
        BY <3>5, <3>6, <3>7, <3>8, <3>9, <3>10, <3>11, <3>12 DEF TaskNext
    <2> QED
      BY <2>2, <2>3 DEF RetryInv
  <1> QED
    BY <1>1, <1>2

\* The listener takes no job that ScheduleJobs has yet to store.
LEMMA ListenerAgrees ==
    ASSUME TypeOK, FlightInv, RetryInv, "overtake" \notin Faults \/ sched.retry = None, ListenerNext
    PROVE  RetryInv'
  <1>1. PICK due \in SUBSET Jobs : \E left \in [due -> 0 .. MaxQueued] : PopDue(due, left)
    BY DEF ListenerNext
  <1>2. PICK left \in [due -> 0 .. MaxQueued] : PopDue(due, left)
    BY <1>1
  <1>3. /\ \A i \in due : left[i] \in Nat /\ left[i] < queue[i]
        /\ \/ task' = task
           \/ \E t \in Tasks : task[t].jobs = {} /\ task' = [task EXCEPT ![t] = Batch(due)]
        /\ UNCHANGED <<cache, sched, logs>>
    BY <1>2, PopMoves DEF FlightInv, store
  <1>4. sched.retry \notin due
    <2>1. "overtake" \notin Faults => sched.retry \notin due
      BY <1>2, Zenon DEF PopDue
    <2> QED
      BY <2>1, Constants
  <1>5. task \in [Tasks -> Task] /\ \A j \in Jobs : queue[j] \in Nat
    BY DEF TypeOK
  <1>6. Batch(due).pc = "invoke" /\ Batch(due).jobs = {j \in due : Cached(j)}
    BY BatchFields
  <1>7. ASSUME NEW j \in Jobs, j \notin due PROVE RetryJobInv(j)'
    <2>1. \A u \in Tasks : j \in task'[u].jobs \/ j \in task[u].jobs => task'[u] = task[u]
      BY <1>3, <1>5, <1>6, <1>7
    <2> QED
      BY <1>3, <2>1, UnmovedAgrees DEF RetryInv
  <1>8. ASSUME NEW j \in Jobs, j \in due PROVE RetryJobInv(j)'
    <2>1. queue[j] # 0
      BY <1>3, <1>5, <1>8
    <2>2. (\A u \in Tasks : j \notin task[u].jobs) /\ j \notin sched.todo
      BY <2>1 DEF FlightInv, OneFlight
    <2>3. \A u \in Tasks : j \in task'[u].jobs => task'[u].pc \notin {"log", "reschedule"}
      BY <1>3, <1>5, <1>6, <2>2
    <2> QED
      BY <1>3, <1>4, <1>8, <2>2, <2>3, MovingAgrees DEF RetryInv
  <1> QED
    BY <1>7, <1>8 DEF RetryInv

\* The entry of a job that nothing executes is stored from its last log.
LEMMA StoredAgrees ==
    ASSUME NEW j \in Jobs, task' = task, \A u \in Tasks : j \notin task[u].jobs,
           logs'[j] = logs[j], LastIsFresh(j)', sched'.retry # j,
           cache'[j].version >= logs[j].settled,
           "dberror" \notin Faults => cache'[j].failCount = CountLastFailed(logs[j], cache'[j].version)
    PROVE  RetryJobInv(j)'
  BY DEF RetryJobInv, EntryAgrees, LastIsFresh, FailuresAgree, Cached

LEMMA SchedAgrees ==
    ASSUME TypeOK, FlightInv, RetryInv, "overlap" \notin Faults, SchedNext
    PROVE  RetryInv' \/ \E j \in Jobs : AddJobSchedule(j)
  <1>1. /\ sched \in Sched /\ \A j \in Jobs : logs[j] \in LogType
        /\ cache \in [Jobs -> MemExecution \cup {None}] /\ None \notin Jobs
    BY Constants DEF TypeOK
  <1>2. ASSUME NEW j \in Jobs, task' = task, cache'[j] = cache[j], logs'[j] = logs[j],
               j \in sched'.todo => j \in sched.todo, sched'.retry \in {sched.retry, None},
               sched'.retry # None => sched'.fails = sched.fails,
               sched'.last = sched.last
        PROVE  RetryJobInv(j)'
    BY <1>1, <1>2 DEF RetryInv, RetryJobInv, EntryAgrees, LastIsFresh, FailuresAgree, Cached
  <1>3. ASSUME NEW S \in SUBSET Jobs, SchedStart(S) PROVE RetryInv'
    <2>1. /\ \A j \in S : Schedulable(j)
          /\ Eligible(S) \subseteq S
          /\ UNCHANGED <<cache, task, logs>>
      BY <1>3, SchedStartStep DEF store
    <2>2. PICK last : /\ \A j \in S : last[j] \in LastLogs(logs[j])
                      /\ sched'.jobs = Eligible(S) /\ sched'.todo = Eligible(S) /\ sched'.last = last
                      /\ sched'.retry = None
      BY <1>3, SchedStartStep
    <2>3. \A j \in S : \A u \in Tasks : j \notin task[u].jobs
      BY <2>1 DEF Schedulable, Holders
    <2>4. \A j \in Jobs : LastIsFresh(j)' /\ sched'.retry # j
      BY <1>1, <2>1, <2>2, <2>3 DEF LastIsFresh
    <2> QED
      BY <2>1, <2>4 DEF RetryInv, RetryJobInv, EntryAgrees, FailuresAgree, Cached
  <1>4. ASSUME NEW j \in Jobs, SchedStore(j) PROVE RetryInv'
    <2> DEFINE last == sched.last[j]
    <2>1. /\ j \in sched.todo /\ sched.retry = None
          /\ UNCHANGED <<task, logs>>
          /\ cache' = [cache EXCEPT ![j] = ScheduledEntry(last, CountLastFailed(logs[j], last.version))]
          /\ sched' = [sched EXCEPT !.todo = sched.todo \ {j}]
      BY <1>4 DEF SchedStore, store
    <2>2. /\ sched'.todo = sched.todo \ {j} /\ sched'.retry = sched.retry /\ sched'.last = sched.last
          /\ sched'.fails = sched.fails
      BY <1>1, <2>1 DEF Sched
    <2>3. ASSUME NEW i \in Jobs, i # j PROVE RetryJobInv(i)'
      BY <1>1, <1>2, <2>1, <2>2, <2>3
    <2>4. last \in LastLogs(logs[j]) /\ \A u \in Tasks : j \notin task[u].jobs
      BY <2>1 DEF RetryInv, RetryJobInv, LastIsFresh
    <2>5. last \in LastLogType /\ logs[j].settled \in Nat
      BY <1>1 DEF Sched, LogType, LogRecord
    <2>6. /\ last.version = logs[j].version /\ logs[j].settled <= last.version
          /\ last.version > 0 /\ last.state # "failed" => CountLastFailed(logs[j], last.version) = 0
          /\ last.version = 0 => CountLastFailed(logs[j], 1) = 0
      BY <1>1, <2>4, LastRowCounts
    <2>7. cache'[j] = ScheduledEntry(last, CountLastFailed(logs[j], last.version))
      BY <1>1, <2>1
    <2> HIDE DEF last
    <2>8. cache'[j].version >= logs[j].settled /\ cache'[j].failCount = CountLastFailed(logs[j], cache'[j].version)
      BY <2>5, <2>6, <2>7 DEF ScheduledEntry, LastLogType
    <2>9. LastIsFresh(j)' /\ sched'.retry # j
      BY <1>1, <2>1, <2>2 DEF LastIsFresh
    <2>10. RetryJobInv(j)'
      BY <2>1, <2>4, <2>8, <2>9, StoredAgrees
    <2> QED
      BY <2>3, <2>10 DEF RetryInv
  <1>5. ASSUME NEW j \in Jobs, SchedPanic(j) PROVE RetryInv'
    BY <1>5, StepsDown, DownAgrees
  <1>6. ASSUME NEW j \in Jobs, SchedRetryQueue(j) PROVE RetryInv'
    <2>1. /\ j \in sched.todo /\ sched.retry = None
          /\ UNCHANGED <<cache, task, logs>>
          /\ sched' = [sched EXCEPT !.todo = sched.todo \ {j}, !.retried = sched.retried \cup {j}, !.retry = j,
                                    !.fails = CountLastFailed(logs[j], sched.last[j].version)]
      BY <1>6 DEF SchedRetryQueue, store
    <2>2. /\ sched'.todo = sched.todo \ {j} /\ sched'.retry = j /\ sched'.last = sched.last
          /\ sched'.fails = CountLastFailed(logs[j], sched.last[j].version)
      BY <1>1, <2>1 DEF Sched
    <2>3. \A i \in Jobs : i \in sched'.todo \cup {sched'.retry} => i \in sched.todo
      BY <2>1, <2>2
    <2> QED
      BY <1>1, <2>1, <2>2, <2>3 DEF RetryInv, RetryJobInv, EntryAgrees, LastIsFresh, FailuresAgree, Cached
  <1>7. ASSUME NEW j \in Jobs, SchedRetryStore(j) PROVE RetryInv'
    <2>1. /\ sched.retry = j
          /\ UNCHANGED <<task, logs>>
          /\ cache' = [cache EXCEPT ![j] = [version |-> sched.last[j].version, failCount |-> sched.fails,
                                            lastState |-> "failed"]]
          /\ sched' = [sched EXCEPT !.retry = None, !.fails = 0]
      BY <1>7 DEF SchedRetryStore, store
    <2>2. sched'.todo = sched.todo /\ sched'.retry = None /\ sched'.last = sched.last
      BY <1>1, <2>1 DEF Sched
    <2>3. ASSUME NEW i \in Jobs, i # j PROVE RetryJobInv(i)'
      BY <1>1, <1>2, <2>1, <2>2, <2>3
    <2>4. sched.last[j] \in LastLogs(logs[j]) /\ \A u \in Tasks : j \notin task[u].jobs
      BY <2>1 DEF RetryInv, RetryJobInv, LastIsFresh
    <2>5. logs[j].settled <= sched.last[j].version /\ sched.last[j].version \in Nat /\ logs[j].settled \in Nat
      BY <1>1, <2>4, LastRowCounts DEF Sched, LastLogType, LogType, LogRecord
    <2>6. cache'[j].version = sched.last[j].version /\ cache'[j].failCount = sched.fails
      BY <1>1, <2>1
    <2>7. "dberror" \notin Faults => sched.fails = CountLastFailed(logs[j], sched.last[j].version)
      BY <2>1 DEF RetryInv, RetryJobInv, FailuresAgree
    <2>8. LastIsFresh(j)' /\ sched'.retry # j
      BY <1>1, <2>1, <2>2, <2>4 DEF LastIsFresh
    <2>9. RetryJobInv(j)'
      BY <2>1, <2>4, <2>5, <2>6, <2>7, <2>8, StoredAgrees
    <2> QED
      BY <2>3, <2>9 DEF RetryInv
  <1>8. ASSUME SchedInsert PROVE RetryInv'
    <2>1. /\ UNCHANGED <<cache, task>> /\ sched' = IdleSched
          /\ \A j \in Jobs : logs'[j] = IF j \in sched.jobs
                                        THEN InsertScheduled(logs[j], ScheduledVersion(j, sched.last[j]),
                                                             ScheduledDate(j, sched.last[j]))
                                        ELSE logs[j]
      BY <1>8 DEF SchedInsert
    <2>2. sched'.todo = {} /\ sched'.retry = None
      BY <2>1 DEF IdleSched
    <2>3. \A j \in Jobs : logs'[j].settled = logs[j].settled /\ logs'[j].failed = logs[j].failed
      BY <1>1, <2>1, ScheduledRowCounts
    <2> QED
      BY <1>1, <2>1, <2>2, <2>3 DEF RetryInv, RetryJobInv, EntryAgrees, LastIsFresh, FailuresAgree, Cached,
                                    CountLastFailed
  <1> QED
    BY <1>3, <1>4, <1>5, <1>6, <1>7, <1>8, Zenon DEF SchedNext

LEMMA OthersAgree ==
    ASSUME TypeOK, RetryInv, NodeNext \/ EnvNext
    PROVE  RetryInv'
  <1>1. ASSUME UNCHANGED <<task, sched, logs>>, \A j \in Jobs : cache'[j] \in {None, cache[j]}
        PROVE  RetryInv'
    BY <1>1 DEF RetryInv, RetryJobInv, EntryAgrees, LastIsFresh, FailuresAgree, Cached
  <1>2. CASE NodeNext
    <2>1. /\ UNCHANGED <<task, sched, logs>>
          /\ \A j \in Jobs : cache'[j] \in {None, cache[j]}
      BY <1>2 DEF NodeNext, StopAll, LeadershipChange, SetNodeIsLeader, ResetLocalQuotaAllocations,
                  UpdateLocalQuotaAllocations, ClearAll, store
    <2> QED
      BY <1>1, <2>1
  <1>3. CASE EnvNext
    <2>1. ASSUME \/ \E j \in Jobs, s \in {"active", "inactive"} : SetStatus(j, s)
                 \/ \E j \in Jobs : EndJob(j)
                 \/ \E a \in Accounts : RefillAccount(a)
                 \/ Restart
          PROVE  UNCHANGED <<cache, task, sched, logs>>
      BY <2>1 DEF SetStatus, EndJob, RefillAccount, Restart, memory, store
    <2>2. ASSUME Crash \/ \E t \in Tasks : CrashInReschedule(t) PROVE RetryInv'
      BY <2>2, StepsDown, DownAgrees
    <2> QED
      BY <1>1, <1>3, <2>1, <2>2, Zenon DEF EnvNext
  <1> QED
    BY <1>2, <1>3

\* No entry is added to a job that is scheduled, and none is popped before what it
\* stands for is stored.
OrderlyFaults == Faults \cap {"overlap", "overtake", "recover"} = {}

LEMMA RetryInvariant == OrderlyFaults => (Spec => [](TypeOK /\ RetryInv))
  <1> SUFFICES ASSUME OrderlyFaults PROVE Spec => [](TypeOK /\ RetryInv)
    OBVIOUS
  <1>1. /\ "overlap" \notin Faults /\ "overtake" \notin Faults
        /\ \A j \in Jobs : ~AddJobSchedule(j)
    BY DEF OrderlyFaults, AddJobSchedule
  <1>2. Init => RetryInv
    <2>1. None \notin Jobs
      BY Constants
    <2> QED
      BY <2>1 DEF Init, RetryInv, RetryJobInv, EntryAgrees, LastIsFresh, FailuresAgree, Cached, FreeTask, IdleSched
  <1>3. TypeOK /\ FlightInv /\ RetryInv /\ [Next]_vars => RetryInv'
    <2> SUFFICES ASSUME TypeOK, FlightInv, RetryInv, [Next]_vars PROVE RetryInv'
      OBVIOUS
    <2>1. CASE Next
      BY <1>1, <2>1, SchedAgrees, ListenerAgrees, TaskAgrees, OthersAgree DEF Next
    <2>2. CASE UNCHANGED vars
      BY <2>2 DEF vars, memory, store, RetryInv, RetryJobInv, EntryAgrees, LastIsFresh, FailuresAgree, Cached
    <2> QED
      BY <2>1, <2>2
  <1>4. Spec => [](TypeOK /\ FlightInv)
    BY <1>1, FlightInvariant
  <1> QED
    BY <1>2, <1>3, <1>4, PTL DEF Spec

\* Memory never goes back behind the outcomes on disk, however the process is
\* restarted and its jobs are scheduled again: no execution is run, or has its
\* outcome logged, under a version older than one that has an outcome.
THEOREM MemoryNeverBehindOutcomes ==
    ASSUME OrderlyFaults
    PROVE  Spec => []MemoryNotBehindOutcomes
  <1>1. TypeOK /\ RetryInv => MemoryNotBehindOutcomes
    BY DEF RetryInv, RetryJobInv, EntryAgrees, MemoryNotBehindOutcomes, Holders
  <1>2. Spec => [](TypeOK /\ RetryInv)
    BY RetryInvariant
  <1> QED
    BY <1>1, <1>2, PTL

\* The retries counted in memory and those counted on disk agree, also after any
\* crash and restart, as long as no read of the database fails.
THEOREM RetriesCountedOnce ==
    ASSUME OrderlyFaults, "dberror" \notin Faults
    PROVE  Spec => []RetryCountAgrees
  <1>1. TypeOK /\ RetryInv => RetryCountAgrees
    BY DEF RetryInv, RetryJobInv, FailuresAgree, RetryCountAgrees, Holders
  <1>2. Spec => [](TypeOK /\ RetryInv)
    BY RetryInvariant
  <1> QED
    BY <1>1, <1>2, PTL

-----------------------------------------------------------------------------
(* No job of the cache is forgotten.                                        *)

\* Job j has an entry in the queue, or an effector holds it.
InHand(j) == queue[j] > 0 \/ \E t \in Tasks : j \in task[t].jobs

\* An entry of the cache that is to fire has one, and so has the job whose entry
\* ScheduleJobs is about to store.
KeptInHand(j) == j \notin LocalJobs /\ Cached(j) /\ status[j] = "active" => InHand(j)
StrandInv == /\ \A j \in Jobs : KeptInHand(j)
             /\ sched.retry # None => queue[sched.retry] > 0

\* No command empties the memory of a node that runs, no read fails, no job is made
\* active again, and no entry is popped before what it stands for is stored.
SteadyFaults == Faults \cap {"stop", "leader", "overtake", "dberror", "status"} = {}

LEMMA StrandSuffices == TypeOK /\ StrandInv => NoJobStranded
  <1> SUFFICES ASSUME TypeOK, StrandInv, NEW j \in Jobs \ LocalJobs, Cached(j), status[j] = "active"
               PROVE  Tokens(j) > 0
    BY DEF NoJobStranded
  <1>1. queue[j] \in Nat /\ InHand(j)
    BY DEF TypeOK, StrandInv, KeptInHand
  <1>2. IsFiniteSet(Holders(j)) /\ Cardinality(Holders(j)) \in Nat
    BY HoldersFinite, FS_CardinalityType
  <1>3. (\E t \in Tasks : j \in task[t].jobs) => Holders(j) # {}
    BY DEF Holders
  <1>4. Holders(j) # {} => Cardinality(Holders(j)) # 0
    BY <1>2, FS_EmptySet
  <1> QED
    BY <1>1, <1>2, <1>3, <1>4 DEF Tokens, InHand

LEMMA DownStrands ==
    ASSUME NEW r, GoDown(r)
    PROVE  StrandInv'
  BY DEF GoDown, StrandInv, KeptInHand, Cached, IdleSched

\* A job that gets no new entry, is not made active and stays in hand is kept.
LEMMA StillInHand ==
    ASSUME NEW j \in Jobs, KeptInHand(j),
           cache'[j] \in {None, cache[j]}, status'[j] \in {status[j], "inactive"},
           InHand(j) => InHand(j)'
    PROVE  KeptInHand(j)'
  BY DEF KeptInHand, Cached

\* What effector t does to one of its jobs leaves the job in hand, or drops it with
\* its entry, or drops a job that is not to fire.
LEMMA HeldJobStrands ==
    ASSUME TypeOK, SteadyFaults, NEW t \in Tasks, TaskNext(t), ~GoesDown,
           NEW j \in Jobs, j \in task[t].jobs
    PROVE  KeptInHand(j)' /\ queue'[j] >= queue[j] /\ status'[j] \in {status[j], "inactive"}
  <1>1. task \in [Tasks -> Task] /\ queue \in [Jobs -> Nat]
    BY DEF TypeOK
  <1>2. ASSUME UNCHANGED <<queue, status>>, InHand(j)' \/ ~Cached(j)' \/ status[j] # "active" \/ j \in LocalJobs
        PROVE  KeptInHand(j)' /\ queue'[j] >= queue[j] /\ status'[j] \in {status[j], "inactive"}
    BY <1>1, <1>2 DEF KeptInHand
  <1>3. CASE Invoke(t)
    <2>1. UNCHANGED <<queue, status>>
      BY <1>3, InvokeStep DEF store
    <2>2. PICK to \in [Pushed(t) -> Tasks] : \A i \in Pushed(t) : i \in task'[to[i]].jobs
      BY <1>3, InvokeStep
    <2>3. j \in Pushed(t) => InHand(j)'
      BY <2>2 DEF InHand
    <2>4. j \notin Pushed(t) => status[j] # "active" \/ j \in LocalJobs
      BY DEF Pushed
    <2> QED
      BY <1>2, <2>1, <2>3, <2>4
  <1>4. ASSUME NEW outcome \in {"success", "failed"}, Finish(t, outcome)
        PROVE  UNCHANGED <<queue, status>> /\ InHand(j)'
    <2>1. /\ task' = [task EXCEPT ![t] = [task[t] EXCEPT !.pc = "create", !.outcome = outcome]]
          /\ UNCHANGED <<queue, status>>
      BY <1>4 DEF Finish, store
    <2>2. j \in task'[t].jobs
      BY <1>1, <2>1 DEF Task
    <2> QED
      BY <2>1, <2>2 DEF InHand
  <1>5. ASSUME Create(t) PROVE UNCHANGED <<queue, status>> /\ InHand(j)'
    <2>1. UNCHANGED store /\ \E last : Rebuilt(t, last)
      BY <1>5, CreateStep
    <2>2. task' = [task EXCEPT ![t] = [task[t] EXCEPT !.pc = "load"]] /\ UNCHANGED <<queue, status>>
      BY <2>1 DEF Rebuilt, store
    <2>3. j \in task'[t].jobs
      BY <1>1, <2>2 DEF Task
    <2> QED
      BY <2>2, <2>3 DEF InHand
  <1>6. ASSUME Load(t) PROVE UNCHANGED <<queue, status>> /\ (InHand(j)' \/ ~Cached(j)')
    <2>1. /\ task' = [task EXCEPT ![t] = IF Resolved(t) = {} THEN FreeTask ELSE Loaded(t)]
          /\ UNCHANGED <<queue, status, cache>>
      BY <1>6, LoadStep DEF store
    <2>2. Cached(j) => j \in Resolved(t)
      BY DEF Resolved
    <2>3. Loaded(t).jobs = Resolved(t)
      BY DEF Loaded
    <2>4. j \in Resolved(t) => j \in task'[t].jobs
      BY <1>1, <2>1, <2>3
    <2> QED
      BY <2>1, <2>2, <2>4 DEF InHand, Cached
  <1>7. ASSUME Log(t) PROVE UNCHANGED <<queue, status>> /\ InHand(j)'
    <2>1. /\ task' = [task EXCEPT ![t] = [task[t] EXCEPT !.pc = "reschedule", !.version = NoVersion]]
          /\ UNCHANGED <<queue, status>>
      BY <1>7 DEF Log
    <2>2. j \in task'[t].jobs
      BY <1>1, <2>1 DEF Task
    <2> QED
      BY <2>1, <2>2 DEF InHand
  <1>8. CASE Reschedule(t)
    <2>1. PICK paid, gone, retried, renewed \in SUBSET Jobs : RescheduleEffect(t, paid, gone, retried, renewed)
      BY <1>8, RescheduleHasEffect
    <2>2. /\ j \in gone => ~Cached(j)'
          /\ j \in retried \cup renewed => queue'[j] = queue[j] + 1
          /\ j \notin retried \cup renewed => queue'[j] = queue[j]
          /\ Cached(j) => j \in gone \cup retried \cup renewed
          /\ j \notin gone \cup retried \cup renewed => cache'[j] = cache[j]
          /\ status'[j] \in {status[j], "inactive"}
      BY <2>1 DEF RescheduleEffect, Cached
    <2> QED
      BY <1>1, <2>2 DEF KeptInHand, InHand, Cached
  <1>9. ~InvokeFails(t) /\ ~RescheduleFails(t)
    BY DEF SteadyFaults, InvokeFails, RescheduleFails
  <1> QED
    BY <1>2, <1>3, <1>4, <1>5, <1>6, <1>7, <1>8, <1>9 DEF TaskNext

\* Reschedule alone, of the steps of an effector, changes the queue or the status
\* of a job.
LEMMA OnlyRescheduleQueues ==
    ASSUME TypeOK, NEW t \in Tasks, TaskNext(t), ~GoesDown, ~Reschedule(t)
    PROVE  UNCHANGED <<down, queue, status, sched>>
  <1>1. ASSUME Invoke(t) PROVE UNCHANGED <<down, queue, status, sched>>
    BY <1>1, InvokeStep DEF store
  <1>2. ASSUME Create(t) PROVE UNCHANGED <<down, queue, status, sched>>
    <2>1. UNCHANGED store /\ \E last : Rebuilt(t, last)
      BY <1>2, CreateStep
    <2> QED
      BY <2>1 DEF Rebuilt, store
  <1>3. ASSUME Load(t) PROVE UNCHANGED <<down, queue, status, sched>>
    BY <1>3, LoadStep DEF store
  <1>4. ASSUME NEW outcome \in {"success", "failed"}, Finish(t, outcome) \/ Log(t) \/ InvokeFails(t) \/ RescheduleFails(t)
        PROVE  UNCHANGED <<down, queue, status, sched>>
    BY <1>4 DEF Finish, Log, InvokeFails, RescheduleFails, store
  <1> QED
    BY <1>1, <1>2, <1>3, <1>4 DEF TaskNext

\* The jobs that effector t does not hold keep their entries and their status, but
\* for those that stop with their account.
LEMMA UnheldJobs ==
    ASSUME TypeOK, NEW t \in Tasks, TaskNext(t), ~GoesDown, NEW j \in Jobs, j \notin task[t].jobs
    PROVE  queue'[j] = queue[j] /\ status'[j] \in {status[j], "inactive"}
  <1>1. CASE Reschedule(t)
    <2>1. PICK paid, gone, retried, renewed \in SUBSET Jobs : RescheduleEffect(t, paid, gone, retried, renewed)
      BY <1>1, RescheduleHasEffect
    <2> QED
      BY <2>1 DEF RescheduleEffect
  <1>2. CASE ~Reschedule(t)
    BY <1>2, OnlyRescheduleQueues
  <1> QED
    BY <1>1, <1>2

LEMMA TaskStrands ==
    ASSUME TypeOK, FreeHoldsNothing, StrandInv, SteadyFaults, NEW t \in Tasks, TaskNext(t)
    PROVE  StrandInv'
  <1>1. CASE GoesDown
    BY <1>1, DownStrands DEF GoesDown
  <1>2. CASE ~GoesDown
    <2>1. sched' = sched /\ KeepsApart(t)
      BY <1>2, EffectorsKeepApart
    <2>2. queue \in [Jobs -> Nat] /\ queue' \in [Jobs -> Nat] /\ sched \in Sched
      BY TaskType DEF TypeOK
    <2>3. ASSUME NEW j \in Jobs PROVE KeptInHand(j)' /\ queue'[j] >= queue[j]
      <3>1. CASE j \in task[t].jobs
        BY <1>2, <3>1, HeldJobStrands
      <3>2. CASE j \notin task[t].jobs
        <4>1. queue'[j] = queue[j] /\ status'[j] \in {status[j], "inactive"}
          BY <1>2, <3>2, UnheldJobs
        <4>2. cache'[j] = cache[j] /\ (InHand(j) => InHand(j)')
          BY <2>1, <3>2, <4>1 DEF KeepsApart, InHand
        <4>3. KeptInHand(j)
          BY DEF StrandInv
        <4> QED
          BY <2>2, <4>1, <4>2, <4>3, StillInHand
      <3> QED
        BY <3>1, <3>2
    <2>4. sched.retry # None => sched.retry \in Jobs
      BY <2>2 DEF Sched
    <2> QED
      BY <2>1, <2>2, <2>3, <2>4 DEF StrandInv
  <1> QED
    BY <1>1, <1>2

LEMMA ListenerStrands ==
    ASSUME TypeOK, FreeHoldsNothing, StrandInv, SteadyFaults, ListenerNext
    PROVE  StrandInv'
  <1>1. PICK due \in SUBSET Jobs : \E left \in [due -> 0 .. MaxQueued] : PopDue(due, left)
    BY DEF ListenerNext
  <1>2. PICK left \in [due -> 0 .. MaxQueued] : PopDue(due, left)
    BY <1>1
  <1>3. /\ \A j \in Jobs \ due : queue'[j] = queue[j]
        /\ UNCHANGED <<cache, sched, status>>
    BY <1>2, PopMoves DEF store
  <1>4. sched.retry \notin due
    BY <1>2, Zenon DEF PopDue, SteadyFaults
  <1>5. \/ task' = task /\ {j \in due : Cached(j)} = {}
        \/ \E t \in FreeTasks : task' = [task EXCEPT ![t] = Batch(due)]
    BY <1>2, Zenon DEF PopDue, Batch
  <1>6. task \in [Tasks -> Task] /\ \A t \in FreeTasks : t \in Tasks /\ task[t].jobs = {}
    BY DEF TypeOK, FreeTasks, FreeHoldsNothing
  <1>7. ASSUME NEW j \in Jobs PROVE KeptInHand(j)'
    <2>1. KeptInHand(j) /\ cache'[j] = cache[j] /\ status'[j] = status[j]
      BY <1>3 DEF StrandInv
    <2>2. CASE j \notin due
      <3>1. queue'[j] = queue[j] /\ \A t \in Tasks : j \in task[t].jobs => j \in task'[t].jobs
        BY <1>3, <1>5, <1>6, <2>2
      <3> QED
        BY <2>1, <3>1, StillInHand DEF InHand
    <2>3. CASE j \in due /\ Cached(j)
      <3>1. PICK t \in FreeTasks : task' = [task EXCEPT ![t] = Batch(due)]
        BY <1>5, <2>3
      <3>2. j \in task'[t].jobs
        BY <1>6, <2>3, <3>1, BatchFields
      <3> QED
        BY <1>6, <3>2 DEF KeptInHand, InHand
    <2>4. CASE ~Cached(j)
      BY <2>1, <2>4 DEF KeptInHand, Cached
    <2> QED
      BY <2>2, <2>3, <2>4
  <1>8. sched.retry # None => sched.retry \in Jobs \ due
    BY <1>4 DEF TypeOK, Sched
  <1> QED
    BY <1>3, <1>7, <1>8 DEF StrandInv

LEMMA SchedStrands ==
    ASSUME TypeOK, StrandInv, SchedNext
    PROVE  StrandInv'
  <1>1. queue \in [Jobs -> Nat] /\ sched \in Sched /\ cache \in [Jobs -> MemExecution \cup {None}] /\ None \notin Jobs
    BY Constants DEF TypeOK
  \* A step that stores the entry of no job but j, which is in the queue then.
  <1>2. ASSUME NEW j \in Jobs, UNCHANGED <<status, task>>,
               \A i \in Jobs : queue'[i] \in Nat /\ queue'[i] >= queue[i],
               \A i \in Jobs \ {j} : cache'[i] = cache[i],
               cache'[j] = cache[j] \/ queue'[j] > 0,
               sched'.retry \in {None, sched.retry} \/ (sched'.retry = j /\ queue'[j] > 0)
        PROVE  StrandInv'
    <2>1. ASSUME NEW i \in Jobs PROVE KeptInHand(i)'
      <3>1. KeptInHand(i) /\ (InHand(i) => InHand(i)')
        BY <1>1, <1>2 DEF StrandInv, InHand
      <3>2. CASE cache'[i] = cache[i]
        BY <1>2, <3>1, <3>2, StillInHand
      <3>3. CASE cache'[i] # cache[i]
        BY <1>2, <3>3 DEF KeptInHand, InHand
      <3> QED
        BY <3>2, <3>3
    <2>2. sched'.retry # None => queue'[sched'.retry] > 0
      <3>1. CASE sched'.retry = j /\ queue'[j] > 0
        BY <3>1
      <3>2. CASE sched'.retry = sched.retry /\ sched.retry # None
        <4>1. sched.retry \in Jobs /\ queue[sched.retry] > 0
          BY <1>1, <3>2 DEF StrandInv, Sched
        <4> QED
          BY <1>1, <1>2, <3>2, <4>1
      <3> QED
        BY <1>2, <3>1, <3>2
    <2> QED
      BY <2>1, <2>2 DEF StrandInv
  <1>3. ASSUME NEW S \in SUBSET Jobs, SchedStart(S) PROVE StrandInv'
    <2>1. sched'.retry = None /\ UNCHANGED <<status, task, cache, queue>>
      BY <1>3, SchedStartStep DEF store
    <2> QED
      BY <2>1 DEF StrandInv, KeptInHand, InHand, Cached
  <1>4. ASSUME NEW j \in Jobs, SchedStore(j) PROVE StrandInv'
    <2>1. /\ UNCHANGED <<status, task>>
          /\ queue' = [queue EXCEPT ![j] = queue[j] + 1]
          /\ \A i \in Jobs \ {j} : cache'[i] = cache[i]
          /\ sched'.retry = sched.retry
      BY <1>1, <1>4 DEF SchedStore, store, Sched
    <2> QED
      BY <1>1, <1>2, <2>1
  <1>5. ASSUME NEW j \in Jobs, SchedPanic(j) PROVE StrandInv'
    BY <1>5, StepsDown, DownStrands
  <1>6. ASSUME NEW j \in Jobs, SchedRetryQueue(j) PROVE StrandInv'
    <2>1. /\ UNCHANGED <<status, task, cache>>
          /\ queue' = [queue EXCEPT ![j] = queue[j] + 1]
          /\ sched'.retry = j
      BY <1>1, <1>6 DEF SchedRetryQueue, store, Sched
    <2> QED
      BY <1>1, <1>2, <2>1
  <1>7. ASSUME NEW j \in Jobs, SchedRetryStore(j) PROVE StrandInv'
    <2>1. /\ UNCHANGED <<status, task, queue>> /\ sched.retry = j
          /\ \A i \in Jobs \ {j} : cache'[i] = cache[i]
          /\ sched'.retry = None
      BY <1>1, <1>7 DEF SchedRetryStore, store, Sched
    <2>2. queue[j] > 0
      BY <1>1, <2>1 DEF StrandInv
    <2> QED
      BY <1>1, <1>2, <2>1, <2>2
  <1>8. ASSUME SchedInsert PROVE StrandInv'
    <2>1. UNCHANGED <<status, task, cache, queue>> /\ sched'.retry = None
      BY <1>8 DEF SchedInsert, IdleSched
    <2> QED
      BY <2>1 DEF StrandInv, KeptInHand, InHand, Cached
  <1>9. ASSUME NEW j \in Jobs, AddJobSchedule(j) PROVE StrandInv'
    <2>1. /\ UNCHANGED <<status, task, sched>>
          /\ queue' = [queue EXCEPT ![j] = queue[j] + 1]
          /\ \A i \in Jobs \ {j} : cache'[i] = cache[i]
      BY <1>9 DEF AddJobSchedule, store
    <2> QED
      BY <1>1, <1>2, <2>1
  <1> QED
    BY <1>3, <1>4, <1>5, <1>6, <1>7, <1>8, <1>9, Zenon DEF SchedNext

LEMMA OthersStrand ==
    ASSUME TypeOK, StrandInv, SteadyFaults, NodeNext \/ EnvNext
    PROVE  StrandInv'
  <1>1. ASSUME UNCHANGED <<cache, queue, task, sched>>, \A j \in Jobs : status'[j] \in {status[j], "inactive"}
        PROVE  StrandInv'
    BY <1>1, StillInHand DEF StrandInv, KeptInHand, InHand, Cached
  <1>2. CASE NodeNext
    <2>1. UNCHANGED <<cache, queue, task, sched, status>>
      BY <1>2 DEF NodeNext, StopAll, LeadershipChange, SetNodeIsLeader, ResetLocalQuotaAllocations,
                  UpdateLocalQuotaAllocations, store, SteadyFaults
    <2> QED
      BY <1>1, <2>1
  <1>3. CASE EnvNext
    <2>1. ASSUME \/ \E j \in Jobs : EndJob(j)
                 \/ \E a \in Accounts : RefillAccount(a)
                 \/ Restart
          PROVE  UNCHANGED <<cache, queue, task, sched, status>>
      BY <2>1 DEF EndJob, RefillAccount, Restart, memory, store
    <2>2. \A j \in Jobs, s \in {"active", "inactive"} : ~SetStatus(j, s)
      BY DEF SetStatus, SteadyFaults
    <2>3. ASSUME Crash \/ \E t \in Tasks : CrashInReschedule(t) PROVE StrandInv'
      BY <2>3, StepsDown, DownStrands
    <2> QED
      BY <1>1, <1>3, <2>1, <2>2, <2>3, Zenon DEF EnvNext
  <1> QED
    BY <1>2, <1>3

\* A job of the cache that is active is in the queue or in the hands of an effector,
\* whatever crashes, ends and interleaves with the callbacks: reschedule, the
\* listener and ScheduleJobs never leave an entry of the cache that nothing fires.
THEOREM EveryCachedJobFires ==
    ASSUME SteadyFaults
    PROVE  Spec => []NoJobStranded
  <1>1. Init => StrandInv
    BY DEF Init, StrandInv, KeptInHand, Cached, IdleSched
  <1>2. TypeOK /\ FreeHoldsNothing /\ StrandInv /\ [Next]_vars => StrandInv'
    <2> SUFFICES ASSUME TypeOK, FreeHoldsNothing, StrandInv, [Next]_vars PROVE StrandInv'
      OBVIOUS
    <2>1. CASE Next
      BY <2>1, SchedStrands, ListenerStrands, TaskStrands, OthersStrand DEF Next
    <2>2. CASE UNCHANGED vars
      BY <2>2 DEF vars, memory, store, StrandInv, KeptInHand, InHand, Cached
    <2> QED
      BY <2>1, <2>2
  <1>3. TypeOK /\ StrandInv => NoJobStranded
    BY StrandSuffices
  <1> QED
    BY <1>1, <1>2, <1>3, FreeInvariant, PTL DEF Spec

-----------------------------------------------------------------------------
(* A node by itself whose process does not crash and whose jobs no user     *)
(* stops: no panic, no retry too many, no one-time job that runs twice.     *)

\* What is in the queue or in the hands of an effector has an entry of the cache,
\* and what is sent is not local.
HasEntry(j) ==
    /\ queue[j] > 0 => Cached(j)
    /\ \A t \in Tasks : j \in task[t].jobs => Cached(j) /\ (task[t].pc # "invoke" => j \notin LocalJobs)

\* Failures are within retryMax, in memory and on disk.
RetriesLeft(j) ==
    /\ Cached(j) => cache[j].failCount <= RetryMax[j]
    /\ logs[j].failed <= RetryMax[j] + 1

\* A job with an outcome is over, or queued or executed again: ScheduleJobs is not
\* about to store it.
StaysScheduled(j) ==
    /\ logs[j].settled = 0 => logs[j].failed = 0 /\ ~logs[j].success
    /\ logs[j].settled > 0 => /\ j \notin LocalJobs /\ j \notin sched.todo
                              /\ status[j] = "active" => InHand(j)

\* A one-time job has one version, whose scheduled rows are undated; once it has
\* succeeded all that is left of it is a callback that has logged the success.
RunsOnce(j) ==
    /\ logs[j].version <= 1 /\ logs[j].scheduled \subseteq {"undated"}
    /\ Cached(j) => /\ cache[j].version = 1
                    /\ cache[j].lastState = "failed" => cache[j].failCount > 0
    /\ j \in sched.jobs => /\ sched.last[j].version <= 1
                           /\ sched.last[j].state = "scheduled" /\ sched.last[j].date = "undated"
    /\ logs[j].success => /\ queue[j] = 0
                          /\ \A t \in Tasks : j \in task[t].jobs =>
                               task[t].pc = "reschedule" /\ task[t].outcome = "success"

LifeJobInv(j) == HasEntry(j) /\ RetriesLeft(j) /\ StaysScheduled(j) /\ (j \in OneTime => RunsOnce(j))
LifeInv == up /\ sched.retry = None /\ \A j \in Jobs : LifeJobInv(j)

\* A node by itself, whose jobs end and are recovered and whose accounts run out of
\* executions and get new ones, while nothing crashes, no read fails and no user
\* changes a job.
Undisturbed ==
    /\ SingleNode
    /\ Faults \cap {"crash", "stop", "overlap", "dberror", "status"} = {}
    /\ \A j \in Jobs : Account[j] # SystemAccount

LEMMA UnmovedLife ==
    ASSUME NEW j \in Jobs, LifeJobInv(j),
           cache'[j] = cache[j], logs'[j] = logs[j], queue'[j] = queue[j],
           status'[j] \in {status[j], "inactive"},
           \A u \in Tasks : j \in task'[u].jobs \/ j \in task[u].jobs => task'[u] = task[u],
           j \in sched'.todo => j \in sched.todo,
           j \in sched'.jobs => j \in sched.jobs /\ sched'.last[j] = sched.last[j]
    PROVE  LifeJobInv(j)'
  <1>1. HasEntry(j)' /\ RetriesLeft(j)'
    BY DEF LifeJobInv, HasEntry, RetriesLeft, Cached
  <1>2. InHand(j) => InHand(j)'
    BY DEF InHand
  <1>3. StaysScheduled(j)'
    BY <1>2 DEF LifeJobInv, StaysScheduled
  <1>4. j \in OneTime => RunsOnce(j)'
    BY DEF LifeJobInv, RunsOnce, Cached
  <1> QED
    BY <1>1, <1>3, <1>4 DEF LifeJobInv

\* An execution of effector t whose outcome is not logged moves on.
LEMMA MovingLife ==
    ASSUME NEW j \in Jobs, LifeJobInv(j), NEW t \in Tasks, j \in task[t].jobs, task[t].pc # "reschedule",
           cache'[j] = cache[j], UNCHANGED <<logs, queue, status, sched>>,
           \A u \in Tasks : j \in task'[u].jobs => j \notin LocalJobs,
           status[j] = "active" /\ j \notin LocalJobs => InHand(j)'
    PROVE  LifeJobInv(j)'
  <1>1. HasEntry(j)' /\ RetriesLeft(j)'
    BY DEF LifeJobInv, HasEntry, RetriesLeft, Cached
  <1>2. StaysScheduled(j)'
    BY DEF LifeJobInv, StaysScheduled
  <1>3. j \in OneTime => RunsOnce(j)'
    BY DEF LifeJobInv, RunsOnce, Cached
  <1> QED
    BY <1>1, <1>2, <1>3 DEF LifeJobInv

LEMMA LogLife ==
    ASSUME TypeOK, Undisturbed, MemoryInv, NEW t \in Tasks, NEW j \in Jobs, j \in task[t].jobs,
           RetryJobInv(j), LifeJobInv(j), OneFlight(j), Log(t)
    PROVE  LifeJobInv(j)'
  <1> DEFINE v == task[t].version[j]
  <1>1. task \in [Tasks -> Task] /\ task[t] \in Task /\ logs[j] \in LogType /\ v \in Nat /\ RetryMax[j] \in Nat
    BY Constants DEF TypeOK, Task
  <1>2. /\ task[t].pc = "log" /\ UNCHANGED <<cache, queue, sched, status>>
        /\ logs'[j] = IF task[t].outcome = "success" THEN InsertSuccess(logs[j], v) ELSE InsertFailed(logs[j], v)
        /\ task' = [task EXCEPT ![t] = [task[t] EXCEPT !.pc = "reschedule", !.version = NoVersion]]
    BY DEF Log
  <1>3. Cached(j) /\ j \notin LocalJobs
    BY <1>2 DEF LifeJobInv, HasEntry
  <1>4. v = cache[j].version /\ v >= logs[j].settled
    BY <1>2, <1>3 DEF RetryJobInv, EntryAgrees
  <1>5. v >= 1
    BY <1>1, <1>3, <1>4 DEF MemoryInv, CacheNotAhead
  <1>6. /\ \A u \in Tasks : j \in task[u].jobs => u = t
        /\ queue[j] = 0 /\ j \notin sched.todo
    BY DEF OneFlight
  <1>7. \A u \in Tasks : j \in task'[u].jobs =>
          u = t /\ task'[u].pc = "reschedule" /\ task'[u].outcome = task[t].outcome
    BY <1>1, <1>2, <1>6 DEF Task
  <1>8. j \in task'[t].jobs
    BY <1>1, <1>2 DEF Task
  <1>9. cache[j].failCount = CountLastFailed(logs[j], v) /\ cache[j].failCount <= RetryMax[j]
    <2>1. \A u \in Tasks : j \in task[u].jobs => task[u].pc # "reschedule"
      BY <1>2, <1>6
    <2> QED
      BY <1>3, <1>4, <2>1 DEF Undisturbed, RetryJobInv, FailuresAgree, LifeJobInv, RetriesLeft
  <1> HIDE DEF v
  <1>10. /\ logs'[j].settled = v
         /\ logs'[j].failed \in {CountLastFailed(logs[j], v), CountLastFailed(logs[j], v) + 1}
         /\ logs'[j].success => task[t].outcome = "success" \/ logs[j].success
    <2>1. /\ InsertSuccess(logs[j], v).settled = v /\ InsertFailed(logs[j], v).settled = v
          /\ InsertSuccess(logs[j], v).failed = CountLastFailed(logs[j], v)
          /\ InsertFailed(logs[j], v).failed = CountLastFailed(logs[j], v) + 1
          /\ InsertFailed(logs[j], v).success => logs[j].success
      BY <1>1, <1>4, OutcomeRowCounts
    <2> QED
      BY <1>2, <2>1
  <1>11. cache[j].failCount \in Nat
    BY <1>3 DEF TypeOK, Cached, MemExecution
  <1>12. HasEntry(j)' /\ RetriesLeft(j)'
    BY <1>1, <1>2, <1>3, <1>6, <1>9, <1>10, <1>11 DEF HasEntry, RetriesLeft, Cached
  <1>13. StaysScheduled(j)'
    BY <1>1, <1>2, <1>3, <1>5, <1>6, <1>8, <1>10 DEF StaysScheduled, InHand
  <1>14. ASSUME j \in OneTime PROVE RunsOnce(j)'
    <2>1. RunsOnce(j)
      BY <1>14 DEF LifeJobInv
    <2>2. v = 1 /\ ~logs[j].success
      BY <1>2, <1>3, <1>4, <2>1 DEF RunsOnce
    <2>3. logs'[j].version <= 1 /\ logs'[j].scheduled \subseteq {"undated"}
      <3>1. Settled(logs[j], v).version <= 1 /\ Settled(logs[j], v).scheduled \subseteq {"undated"}
        BY <1>1, <2>1, <2>2 DEF Settled, RunsOnce, LogType, LogRecord
      <3>2. /\ logs[j].version <= 1 /\ logs[j].scheduled \subseteq {"undated"}
            /\ Settled(logs[j], v) \in LogRecord
        BY <1>1, <2>1, SettledType DEF RunsOnce, LogType
      <3>3. \/ logs'[j] = logs[j]
            \/ logs'[j] = [Settled(logs[j], v) EXCEPT !.success = TRUE]
            \/ logs'[j] = [Settled(logs[j], v) EXCEPT !.failed = @ + 1]
        BY <1>2 DEF InsertSuccess, InsertFailed
      <3> QED
        BY <3>1, <3>2, <3>3 DEF LogRecord
    <2>4. logs'[j].success => task[t].outcome = "success"
      BY <1>10, <2>2
    <2> QED
      BY <1>2, <1>6, <1>7, <2>1, <2>3, <2>4 DEF RunsOnce, Cached
  <1> QED
    BY <1>12, <1>13, <1>14 DEF LifeJobInv

LEMMA RescheduleLife ==
    ASSUME TypeOK, Undisturbed, NEW t \in Tasks, NEW j \in Jobs, j \in task[t].jobs,
           LifeJobInv(j), OneFlight(j), task[t].pc = "reschedule", Reschedule(t)
    PROVE  LifeJobInv(j)'
  <1>1. /\ task \in [Tasks -> Task] /\ logs[j] \in LogType /\ RetryMax[j] \in Nat
        /\ Account[j] # SystemAccount /\ SingleNode
    BY Constants DEF TypeOK, Undisturbed
  <1>2. PICK paid, gone, retried, renewed \in SUBSET Jobs : RescheduleEffect(t, paid, gone, retried, renewed)
    BY <1>1, RescheduleHasEffect
  <1>3. /\ \A u \in Tasks : j \in task[u].jobs => u = t
        /\ queue[j] = 0 /\ j \notin sched.todo
    BY DEF OneFlight
  <1>4. Cached(j) /\ j \notin LocalJobs
    BY DEF LifeJobInv, HasEntry
  <1>5. /\ j \in gone \cup retried \cup renewed
        /\ gone \cap (retried \cup renewed) = {} /\ retried \cap renewed = {} /\ renewed \cap OneTime = {}
        /\ j \in gone => status'[j] = "inactive"
        /\ j \in retried => task[t].outcome = "failed" /\ cache[j].failCount < RetryMax[j]
        /\ sched' = sched
    BY <1>1, <1>2, <1>4 DEF RescheduleEffect
  <1>6. /\ j \in gone => ~Cached(j)' /\ queue'[j] = 0
        /\ j \in retried \cup renewed => Cached(j)' /\ queue'[j] = 1
    <2>1. cache'[j] = IF j \in gone THEN None
                      ELSE IF j \in retried
                      THEN [version |-> cache[j].version, failCount |-> cache[j].failCount + 1,
                            lastState |-> task[t].outcome]
                      ELSE IF j \in renewed
                      THEN [version |-> NextVersion(cache[j].version), failCount |-> 0,
                            lastState |-> task[t].outcome]
                      ELSE cache[j]
      BY <1>2 DEF RescheduleEffect
    <2>2. queue'[j] = IF j \in retried \cup renewed THEN queue[j] + 1 ELSE queue[j]
      BY <1>2 DEF RescheduleEffect
    <2>3. cache'[j] \in MemExecution \/ j \in gone
      <3>1. cache[j] \in MemExecution /\ task[t].outcome \in ExecStates
        BY <1>4 DEF TypeOK, Cached, Task
      <3> QED
        BY <1>5, <2>1, <3>1 DEF MemExecution, NextVersion
    <2> QED
      BY <1>3, <1>5, <2>1, <2>2, <2>3, Constants DEF Cached
  <1>7. /\ logs'[j].settled = logs[j].settled /\ logs'[j].failed = logs[j].failed
        /\ logs'[j].success = logs[j].success
        /\ j \notin renewed => logs'[j] = logs[j]
    <2>1. logs'[j] = IF j \in renewed THEN RenewedLog(logs[j], cache[j].version) ELSE logs[j]
      BY <1>2 DEF RescheduleEffect
    <2> QED
      BY <1>1, <2>1, ScheduledRowCounts DEF RenewedLog
  <1>8. \A u \in Tasks : j \notin task'[u].jobs
    <2>1. task' = [task EXCEPT ![t] = FreeTask]
      BY <1>2 DEF RescheduleEffect
    <2> QED
      BY <1>1, <1>3, <2>1 DEF FreeTask
  <1>9. HasEntry(j)'
    BY <1>5, <1>6, <1>8 DEF HasEntry
  <1>10. RetriesLeft(j)'
    <2>1. /\ j \in retried => cache'[j].failCount = cache[j].failCount + 1
          /\ j \in renewed => cache'[j].failCount = 0
      BY <1>2, <1>5 DEF RescheduleEffect
    <2>2. cache[j].failCount \in Nat
      BY <1>4 DEF TypeOK, Cached, MemExecution
    <2> QED
      BY <1>1, <1>5, <1>6, <1>7, <2>1, <2>2 DEF LifeJobInv, RetriesLeft
  <1>11. StaysScheduled(j)'
    <2>1. status'[j] = "active" => queue'[j] > 0
      BY <1>5, <1>6
    <2> QED
      BY <1>3, <1>4, <1>5, <1>7, <2>1 DEF LifeJobInv, StaysScheduled, InHand
  <1>12. ASSUME j \in OneTime PROVE RunsOnce(j)'
    <2>1. RunsOnce(j) /\ j \notin renewed /\ logs'[j] = logs[j]
      BY <1>5, <1>7, <1>12 DEF LifeJobInv
    <2>2. j \in retried => /\ cache'[j].version = cache[j].version
                           /\ cache'[j].failCount = cache[j].failCount + 1
      BY <1>2, <1>5 DEF RescheduleEffect
    <2>3. cache[j].failCount \in Nat
      BY <1>4 DEF TypeOK, Cached, MemExecution
    <2>4. logs[j].success => task[t].outcome = "success" /\ j \notin retried
      BY <1>5, <2>1 DEF RunsOnce
    <2> QED
      BY <1>4, <1>5, <1>6, <1>8, <2>1, <2>2, <2>3, <2>4 DEF RunsOnce
  <1> QED
    BY <1>9, <1>10, <1>11, <1>12 DEF LifeJobInv

LEMMA DownIsNotUp ==
    ASSUME GoesDown
    PROVE  ~up'
  <1>1. \A r \in Panics \cup {"crash"} : r # "no"
    BY Zenon DEF Panics
  <1>2. PICK r \in Panics \cup {"crash"} : GoDown(r)
    BY DEF GoesDown
  <1>3. down' = r
    BY <1>2 DEF GoDown
  <1> QED
    BY <1>1, <1>2, <1>3 DEF up

\* No callback panics while its jobs have their entries.
LEMMA NoCallbackPanics ==
    ASSUME TypeOK, LifeInv, NEW t \in Tasks, TaskNext(t)
    PROVE  ~GoesDown /\ up' /\ (Create(t) => Missing(t) = {}) /\ (Load(t) => Resolved(t) = task[t].jobs)
  <1>1. up /\ task[t].jobs \subseteq Jobs /\ \A j \in Jobs : j \in task[t].jobs => Cached(j)
    BY DEF TypeOK, Task, LifeInv, LifeJobInv, HasEntry
  <1>2. Missing(t) = {} /\ Resolved(t) = task[t].jobs
    BY <1>1 DEF Missing, Resolved
  <1>3. ~GoesDown
    <2>1. CASE Create(t)
      <3>1. GoesDown \/ \E last : Rebuilt(t, last)
        BY <2>1, CreateStep
      <3>2. (\E last : Rebuilt(t, last)) => down' = down
        BY DEF Rebuilt
      <3>3. (\E last : Rebuilt(t, last)) \/ ~GoesDown
        BY <1>2, <2>1, CreateStep
      <3> QED
        BY <1>1, <3>2, <3>3, DownIsNotUp DEF up
    <2>2. CASE Load(t)
      <3>1. (GoesDown /\ Resolved(t) = {} /\ task[t].jobs # {}) \/ down' = down
        BY <2>2, LoadStep
      <3> QED
        BY <1>1, <1>2, <3>1, DownIsNotUp DEF up
    <2>3. CASE Invoke(t)
      <3>1. down' = down
        BY <2>3, InvokeStep
      <3> QED
        BY <1>1, <3>1, DownIsNotUp DEF up
    <2>4. CASE Reschedule(t)
      <3>1. down' = down
        BY <2>4 DEF Reschedule
      <3> QED
        BY <1>1, <3>1, DownIsNotUp DEF up
    <2>5. ASSUME NEW outcome \in {"success", "failed"}, Finish(t, outcome) \/ Log(t) \/ InvokeFails(t) \/ RescheduleFails(t)
          PROVE  ~GoesDown
      <3>1. down' = down
        BY <2>5 DEF Finish, Log, InvokeFails, RescheduleFails
      <3> QED
        BY <1>1, <3>1, DownIsNotUp DEF up
    <2> QED
      BY <2>1, <2>2, <2>3, <2>4, <2>5 DEF TaskNext
  <1>4. down' = down
    <2>1. CASE Reschedule(t)
      BY <2>1 DEF Reschedule
    <2>2. CASE ~Reschedule(t)
      BY <1>3, <2>2, OnlyRescheduleQueues
    <2> QED
      BY <2>1, <2>2
  <1> QED
    BY <1>1, <1>2, <1>3, <1>4 DEF up

LEMMA TaskLife ==
    ASSUME TypeOK, Undisturbed, FlightInv, MemoryInv, RetryInv, LifeInv, NEW t \in Tasks, TaskNext(t)
    PROVE  LifeInv'
  <1>1. ~GoesDown /\ up' /\ (Create(t) => Missing(t) = {}) /\ (Load(t) => Resolved(t) = task[t].jobs)
    BY NoCallbackPanics
  <1>2. sched' = sched /\ KeepsApart(t)
    BY <1>1, EffectorsKeepApart DEF FlightInv
  <1>3. task \in [Tasks -> Task] /\ task[t] \in Task /\ FreeTask.jobs = {}
    BY DEF TypeOK, FreeTask
  <1>4. ASSUME NEW j \in Jobs PROVE LifeJobInv(j)'
    <2>1. LifeJobInv(j) /\ OneFlight(j) /\ RetryJobInv(j)
      BY DEF LifeInv, FlightInv, RetryInv
    <2>2. CASE j \notin task[t].jobs
      <3>1. queue'[j] = queue[j] /\ status'[j] \in {status[j], "inactive"}
        BY <1>1, <2>2, UnheldJobs
      <3>2. /\ cache'[j] = cache[j] /\ logs'[j] = logs[j]
            /\ \A u \in Tasks : j \in task'[u].jobs \/ j \in task[u].jobs => task'[u] = task[u]
        BY <1>2, <2>2 DEF KeepsApart
      <3> QED
        BY <1>2, <2>1, <3>1, <3>2, UnmovedLife
    <2>3. CASE j \in task[t].jobs
      <3>1. \A u \in Tasks : j \in task[u].jobs => u = t
        BY <2>1, <2>3 DEF OneFlight
      <3>2. task[t].pc # "invoke" => j \notin LocalJobs
        BY <2>1, <2>3 DEF LifeJobInv, HasEntry
      \* Only effector t changes, keeps the job, and goes on to the next step.
      <3>3. ASSUME NEW new, task' = [task EXCEPT ![t] = new], j \in new.jobs,
                   task[t].pc \notin {"invoke", "reschedule"},
                   cache'[j] = cache[j], UNCHANGED <<logs, queue, status>>
            PROVE  LifeJobInv(j)'
        <4>1. j \in task'[t].jobs
          BY <1>3, <3>3
        <4> QED
          BY <1>2, <2>1, <2>3, <3>2, <3>3, <4>1, MovingLife DEF InHand
      <3>4. CASE Invoke(t)
        <4>1. UNCHANGED <<cache, logs, queue, status>> /\ task[t].pc = "invoke"
          <5>1. task[t].pc = "invoke"
            BY <3>4, Zenon DEF Invoke
          <5> QED
            BY <3>4, <5>1, InvokeStep DEF store
        <4>2. PICK to \in [Pushed(t) -> Tasks] : /\ \A u \in Tasks : InvokeEffect(t, Pushed(t), to, u)
                                                 /\ \A i \in Pushed(t) : i \in task'[to[i]].jobs
          BY <3>4, InvokeStep
        <4>3. j \in Pushed(t) <=> status[j] = "active" /\ j \notin LocalJobs
          BY <2>3 DEF Pushed
        <4>4. \A u \in Tasks : j \in task'[u].jobs => j \in Pushed(t)
          BY <1>3, <3>1, <4>2 DEF InvokeEffect
        <4>5. j \in Pushed(t) => InHand(j)'
          BY <4>2 DEF InHand
        <4> QED
          BY <1>2, <2>1, <2>3, <4>1, <4>3, <4>4, <4>5, MovingLife
      <3>5. ASSUME NEW outcome \in {"success", "failed"}, Finish(t, outcome) PROVE LifeJobInv(j)'
        <4> DEFINE new == [task[t] EXCEPT !.pc = "create", !.outcome = outcome]
        <4>1. /\ task' = [task EXCEPT ![t] = new] /\ task[t].pc = "send"
              /\ UNCHANGED <<cache, logs, queue, status>>
          BY <3>5 DEF Finish, store
        <4>2. j \in new.jobs
          BY <1>3, <2>3 DEF Task
        <4> HIDE DEF new
        <4> QED
          BY <3>3, <4>1, <4>2
      <3>6. CASE Create(t)
        <4> DEFINE new == [task[t] EXCEPT !.pc = "load"]
        <4>1. task[t].pc = "create"
          BY <3>6, Zenon DEF Create
        <4>2. UNCHANGED store /\ \E last : Rebuilt(t, last)
          BY <1>1, <3>6, CreateStep
        <4>3. task' = [task EXCEPT ![t] = new] /\ cache'[j] = cache[j] /\ UNCHANGED <<logs, queue, status>>
          BY <1>1, <3>6, <4>2 DEF Rebuilt, store
        <4>4. j \in new.jobs
          BY <1>3, <2>3 DEF Task
        <4> HIDE DEF new
        <4> QED
          BY <3>3, <4>1, <4>3, <4>4
      <3>7. CASE Load(t)
        <4>1. task[t].pc = "load"
          BY <3>7, Zenon DEF Load
        <4>2. task' = [task EXCEPT ![t] = Loaded(t)] /\ UNCHANGED <<cache, logs, queue, status>>
          BY <1>1, <2>3, <3>7, LoadStep DEF store
        <4>3. j \in Loaded(t).jobs
          BY <1>1, <2>3, <3>7 DEF Loaded
        <4> QED
          BY <3>3, <4>1, <4>2, <4>3
      <3>8. CASE Log(t)
        BY <2>1, <2>3, <3>8, LogLife
      <3>9. CASE Reschedule(t)
        <4>1. task[t].pc = "reschedule"
          BY <3>9, Zenon DEF Reschedule
        <4> QED
          BY <2>1, <2>3, <3>9, <4>1, RescheduleLife
      <3>10. ~InvokeFails(t) /\ ~RescheduleFails(t)
        BY DEF InvokeFails, RescheduleFails, Undisturbed
      <3> QED
        BY <3>4, <3>5, <3>6, <3>7, <3>8, <3>9, <3>10 DEF TaskNext
    <2> QED
      BY <2>2, <2>3
  <1> QED
    BY <1>1, <1>2, <1>4 DEF LifeInv

LEMMA ListenerLife ==
    ASSUME TypeOK, FlightInv, LifeInv, ListenerNext
    PROVE  LifeInv'
  <1>1. PICK due \in SUBSET Jobs : \E left \in [due -> 0 .. MaxQueued] : PopDue(due, left)
    BY DEF ListenerNext
  <1>2. PICK left \in [due -> 0 .. MaxQueued] : PopDue(due, left)
    BY <1>1
  <1>3. /\ \A j \in Jobs \ due : queue'[j] = queue[j]
        /\ \A j \in due : queue'[j] = left[j] /\ left[j] \in Nat /\ left[j] < queue[j]
        /\ UNCHANGED <<down, cache, sched, logs, status>>
    BY <1>2, PopMoves DEF FlightInv, store
  <1>4. \/ task' = task /\ {j \in due : Cached(j)} = {}
        \/ \E t \in FreeTasks : task' = [task EXCEPT ![t] = Batch(due)]
    BY <1>2, Zenon DEF PopDue, Batch
  <1>5. /\ task \in [Tasks -> Task] /\ \A j \in Jobs : queue[j] \in Nat
        /\ \A t \in FreeTasks : t \in Tasks /\ task[t].jobs = {}
    BY DEF TypeOK, FreeTasks, FlightInv, FreeHoldsNothing
  <1>6. Batch(due).pc = "invoke" /\ Batch(due).jobs = {j \in due : Cached(j)}
    BY BatchFields
  <1>7. ASSUME NEW j \in Jobs PROVE LifeJobInv(j)'
    <2>1. LifeJobInv(j) /\ OneFlight(j)
      BY DEF LifeInv, FlightInv
    <2>2. CASE j \notin due
      <3>1. \A u \in Tasks : j \in task'[u].jobs \/ j \in task[u].jobs => task'[u] = task[u]
        BY <1>4, <1>5, <1>6, <2>2
      <3> QED
        BY <1>3, <2>1, <2>2, <3>1, UnmovedLife
    <2>3. CASE j \in due
      <3>1. queue[j] = 1 /\ queue'[j] = 0
        BY <1>3, <1>5, <2>1, <2>3 DEF OneFlight
      <3>2. Cached(j) /\ Cached(j)'
        BY <1>3, <2>1, <3>1 DEF LifeJobInv, HasEntry, Cached
      <3>3. \A u \in Tasks : j \notin task[u].jobs
        BY <2>1, <3>1 DEF OneFlight
      <3>4. PICK t \in FreeTasks : task' = [task EXCEPT ![t] = Batch(due)]
        BY <1>4, <2>3, <3>2
      <3>5. j \in task'[t].jobs /\ t \in Tasks /\ \A u \in Tasks : j \in task'[u].jobs => task'[u].pc = "invoke"
        BY <1>5, <1>6, <2>3, <3>2, <3>3, <3>4
      <3>6. HasEntry(j)' /\ RetriesLeft(j)'
        BY <1>3, <2>1, <3>1, <3>2, <3>5 DEF LifeJobInv, HasEntry, RetriesLeft
      <3>7. StaysScheduled(j)'
        BY <1>3, <2>1, <3>5 DEF LifeJobInv, StaysScheduled, InHand
      <3>8. j \in OneTime => RunsOnce(j)'
        BY <1>3, <2>1, <3>1, <3>2 DEF LifeJobInv, RunsOnce
      <3> QED
        BY <3>6, <3>7, <3>8 DEF LifeJobInv
    <2> QED
      BY <2>2, <2>3
  <1> QED
    BY <1>3, <1>7 DEF LifeInv, up

\* The last row of a job that has no outcome is a scheduled one, or there is none.
LEMMA NoOutcomeYet ==
    ASSUME NEW log \in LogType, log.settled = 0, NEW last \in LastLogs(log)
    PROVE  /\ last.state = "scheduled" /\ last.version = log.version /\ last.version \in Nat
           /\ last.date = "undated" \/ last.date \in log.scheduled
  <1>1. log.version \in Nat /\ log.settled <= log.version
    BY DEF LogType, LogRecord
  <1>2. CASE log.version = 0
    BY <1>1, <1>2 DEF LastLogs, NoLastLog
  <1>3. CASE log.version # 0
    <2>1. log.settled < log.version
      BY <1>1, <1>3
    <2>2. PICK d \in log.scheduled : last = [version |-> log.version, state |-> "scheduled", date |-> d]
      BY <1>3, <2>1 DEF LastLogs
    <2> QED
      BY <1>1, <2>2
  <1> QED
    BY <1>2, <1>3

\* A job that may be scheduled and is active has no outcome.
LEMMA SchedulableIsNew ==
    ASSUME TypeOK, Undisturbed, NEW j \in Jobs, LifeJobInv(j), Schedulable(j), status[j] = "active"
    PROVE  /\ logs[j].settled = 0 /\ queue[j] = 0 /\ j \notin sched.jobs
           /\ \A t \in Tasks : j \notin task[t].jobs
  <1>1. queue[j] = 0 /\ j \notin sched.jobs /\ \A t \in Tasks : j \notin task[t].jobs
    BY DEF Undisturbed, Schedulable, Holders
  <1>2. ~InHand(j)
    BY <1>1 DEF InHand
  <1>3. logs[j].settled \in Nat
    BY DEF TypeOK, LogType, LogRecord
  <1> QED
    BY <1>1, <1>2, <1>3 DEF LifeJobInv, StaysScheduled

\* The entry of a new job is stored, and the job is queued.
LEMMA StoredLife ==
    ASSUME TypeOK, NEW j \in Jobs, LifeJobInv(j), logs[j].settled = 0, logs'[j] = logs[j],
           \A u \in Tasks : j \in task'[u].jobs => task'[u] = task[u] /\ j \in task[u].jobs,
           cache'[j] \in MemExecution, cache'[j].failCount = 0,
           j \in OneTime => cache'[j].version = 1 /\ cache'[j].lastState # "failed",
           j \in sched'.jobs => j \in sched.jobs /\ sched'.last[j] = sched.last[j]
    PROVE  LifeJobInv(j)'
  <1>1. Cached(j)' /\ RetryMax[j] \in Nat
    BY Constants DEF Cached
  <1>2. HasEntry(j)' /\ RetriesLeft(j)'
    BY <1>1 DEF LifeJobInv, HasEntry, RetriesLeft, Cached
  <1>3. StaysScheduled(j)' /\ ~logs[j].success
    BY DEF LifeJobInv, StaysScheduled
  <1>4. j \in OneTime => RunsOnce(j)'
    BY <1>3 DEF LifeJobInv, RunsOnce
  <1> QED
    BY <1>2, <1>3, <1>4 DEF LifeJobInv

LEMMA SchedLife ==
    ASSUME TypeOK, Undisturbed, FlightInv, RetryInv, LifeInv, SchedNext
    PROVE  LifeInv' /\ RetryInv'
  <1>1. /\ sched \in Sched /\ queue \in [Jobs -> Nat] /\ cache \in [Jobs -> MemExecution \cup {None}]
        /\ logs \in [Jobs -> LogType] /\ None \notin Jobs
    BY Constants DEF TypeOK
  <1>2. up /\ sched.retry = None /\ \A j \in Jobs : LifeJobInv(j) /\ RetryJobInv(j)
    BY DEF LifeInv, RetryInv
  \* What ScheduleJobs is about to store is new.
  <1>3. ASSUME NEW j \in Jobs, j \in sched.todo
        PROVE  /\ logs[j].settled = 0 /\ logs[j].failed = 0 /\ j \in sched.jobs
               /\ sched.last[j].state = "scheduled" /\ sched.last[j].version \in Nat
    <2>1. logs[j].settled \in Nat
      BY <1>1 DEF LogType, LogRecord
    <2>2. logs[j].settled = 0 /\ logs[j].failed = 0
      BY <1>2, <1>3, <2>1 DEF LifeJobInv, StaysScheduled
    <2>3. sched.last[j] \in LastLogs(logs[j])
      BY <1>2, <1>3 DEF RetryJobInv, LastIsFresh
    <2>4. j \in sched.jobs
      BY <1>3 DEF FlightInv
    <2> QED
      BY <1>1, <2>2, <2>3, <2>4, NoOutcomeYet
  <1>4. ASSUME NEW S \in SUBSET Jobs, SchedStart(S) PROVE LifeInv'
    <2>1. /\ \A j \in S : Schedulable(j)
          /\ Eligible(S) \subseteq S /\ \A j \in Eligible(S) : status[j] = "active"
          /\ UNCHANGED <<down, cache, queue, task, logs, status>>
      BY <1>4, SchedStartStep DEF store, Eligible
    <2>2. PICK last : /\ \A j \in S : last[j] \in LastLogs(logs[j])
                      /\ sched'.jobs = Eligible(S) /\ sched'.todo = Eligible(S) /\ sched'.last = last
                      /\ sched'.retry = None
      BY <1>4, SchedStartStep
    <2>3. ASSUME NEW j \in Jobs PROVE LifeJobInv(j)'
      <3>1. CASE j \notin Eligible(S)
        BY <1>2, <2>1, <2>2, <3>1, UnmovedLife
      <3>2. CASE j \in Eligible(S)
        <4>1. logs[j].settled = 0 /\ last[j] \in LastLogs(logs[j])
          BY <1>2, <2>1, <2>2, <3>2, SchedulableIsNew
        <4>2. /\ last[j].state = "scheduled" /\ last[j].version = logs[j].version
              /\ last[j].date = "undated" \/ last[j].date \in logs[j].scheduled
          BY <1>1, <4>1, NoOutcomeYet
        <4>3. HasEntry(j)' /\ RetriesLeft(j)'
          BY <1>2, <2>1 DEF LifeJobInv, HasEntry, RetriesLeft, Cached
        <4>4. StaysScheduled(j)'
          BY <1>2, <2>1, <4>1 DEF LifeJobInv, StaysScheduled
        <4>5. j \in OneTime => RunsOnce(j)'
          BY <1>2, <2>1, <2>2, <4>2 DEF LifeJobInv, RunsOnce, Cached
        <4> QED
          BY <4>3, <4>4, <4>5 DEF LifeJobInv
      <3> QED
        BY <3>1, <3>2
    <2> QED
      BY <1>2, <2>1, <2>2, <2>3 DEF LifeInv, up
  <1>5. ASSUME NEW j \in Jobs, SchedStore(j) PROVE LifeInv'
    <2> DEFINE last == sched.last[j]
               new  == ScheduledEntry(last, CountLastFailed(logs[j], last.version))
    <2>1. /\ j \in sched.todo
          /\ UNCHANGED <<down, task, logs, status>>
          /\ cache' = [cache EXCEPT ![j] = new]
          /\ queue' = [queue EXCEPT ![j] = queue[j] + 1]
          /\ sched' = [sched EXCEPT !.todo = sched.todo \ {j}]
      BY <1>5 DEF SchedStore, store
    <2>2. /\ sched'.todo = sched.todo \ {j} /\ sched'.retry = sched.retry /\ sched'.last = sched.last
          /\ sched'.jobs = sched.jobs
      BY <1>1, <2>1 DEF Sched
    <2>3. /\ logs[j].settled = 0 /\ logs[j].failed = 0 /\ j \in sched.jobs
          /\ last.state = "scheduled" /\ last.version \in Nat
      BY <1>3, <2>1
    <2>4. CountLastFailed(logs[j], last.version) = 0
      BY <2>3 DEF CountLastFailed
    <2>5. j \in OneTime => last.version <= 1
      BY <1>2, <2>3 DEF LifeJobInv, RunsOnce
    <2>6. cache'[j] = new
      BY <1>1, <2>1
    <2>7. /\ new \in MemExecution /\ new.failCount = 0 /\ new.lastState = "scheduled"
          /\ new.version = IF last.version = 0 THEN 1 ELSE last.version
      BY <2>3, <2>4 DEF ScheduledEntry, MemExecution, ExecStates
    <2> HIDE DEF new, last
    <2>8. LifeJobInv(j)'
      BY <1>2, <2>1, <2>2, <2>3, <2>5, <2>6, <2>7, StoredLife
    <2>9. ASSUME NEW i \in Jobs, i # j PROVE LifeJobInv(i)'
      BY <1>1, <1>2, <2>1, <2>2, <2>9, UnmovedLife
    <2> QED
      BY <1>2, <2>1, <2>2, <2>8, <2>9 DEF LifeInv, up
  <1>6. ASSUME NEW j \in Jobs PROVE ~SchedPanic(j)
    <2>1. SchedPanic(j) => j \in sched.todo /\ HasNoNextTime(j, sched.last[j])
      BY Zenon DEF SchedPanic
    <2>2. j \in OneTime /\ j \in sched.todo => sched.last[j].state = "scheduled" /\ sched.last[j].date = "undated"
      BY <1>2, <1>3 DEF LifeJobInv, RunsOnce
    <2> QED
      BY <2>1, <2>2 DEF HasNoNextTime
  <1>7. ASSUME NEW j \in Jobs PROVE ~SchedRetryQueue(j) /\ ~SchedRetryStore(j)
    <2>1. SchedRetryQueue(j) => j \in sched.todo /\ sched.last[j].state = "failed"
      BY DEF SchedRetryQueue, AsksRetry
    <2>2. SchedRetryStore(j) => sched.retry = j
      BY DEF SchedRetryStore
    <2> QED
      BY <1>1, <1>2, <1>3, <2>1, <2>2
  <1>8. ASSUME SchedInsert PROVE LifeInv'
    <2>1. /\ UNCHANGED <<down, cache, queue, task, status>> /\ sched' = IdleSched
          /\ \A j \in Jobs : logs'[j] = IF j \in sched.jobs
                                        THEN InsertScheduled(logs[j], ScheduledVersion(j, sched.last[j]),
                                                             ScheduledDate(j, sched.last[j]))
                                        ELSE logs[j]
      BY <1>8 DEF SchedInsert
    <2>2. sched'.todo = {} /\ sched'.jobs = {} /\ sched'.retry = None
      BY <2>1 DEF IdleSched
    <2>3. ASSUME NEW j \in Jobs PROVE LifeJobInv(j)'
      <3>1. CASE j \notin sched.jobs
        BY <1>2, <2>1, <2>2, <3>1, UnmovedLife
      <3>2. CASE j \in sched.jobs
        <4> DEFINE v == ScheduledVersion(j, sched.last[j])
                   d == ScheduledDate(j, sched.last[j])
        <4>1. logs'[j] = InsertScheduled(logs[j], v, d)
          BY <2>1, <3>2
        <4>2. j \in OneTime => v <= 1 /\ d = "undated"
          <5>1. SUFFICES ASSUME j \in OneTime PROVE v <= 1 /\ d = "undated"
            OBVIOUS
          <5>2. /\ sched.last[j].version <= 1 /\ sched.last[j].state = "scheduled" /\ sched.last[j].date = "undated"
                /\ Cached(j) => (cache[j].lastState = "failed" => cache[j].failCount > 0)
            BY <1>2, <3>2, <5>1 DEF LifeJobInv, RunsOnce
          <5> QED
            BY <5>2 DEF ScheduledVersion, ScheduledDate
        <4> HIDE DEF v, d
        <4>3. /\ logs'[j].settled = logs[j].settled /\ logs'[j].failed = logs[j].failed
              /\ logs'[j].success = logs[j].success
          BY <1>1, <4>1, ScheduledRowCounts
        <4>4. HasEntry(j)' /\ RetriesLeft(j)'
          BY <1>2, <2>1, <4>3 DEF LifeJobInv, HasEntry, RetriesLeft, Cached
        <4>5. StaysScheduled(j)'
          BY <1>2, <2>1, <2>2, <4>3 DEF LifeJobInv, StaysScheduled, InHand
        <4>6. ASSUME j \in OneTime PROVE RunsOnce(j)'
          <5>1. RunsOnce(j) /\ logs[j] \in LogRecord
            BY <1>1, <1>2, <4>6 DEF LifeJobInv, LogType
          <5>2. logs'[j].version <= 1 /\ logs'[j].scheduled \subseteq {"undated"}
            BY <4>1, <4>2, <4>6, <5>1 DEF RunsOnce, InsertScheduled, LogRecord
          <5> QED
            BY <2>1, <2>2, <4>3, <5>1, <5>2 DEF RunsOnce, Cached
        <4> QED
          BY <4>4, <4>5, <4>6 DEF LifeJobInv
      <3> QED
        BY <3>1, <3>2
    <2> QED
      BY <1>2, <2>1, <2>2, <2>3 DEF LifeInv, up
  <1>9. ASSUME NEW j \in Jobs, AddJobSchedule(j) PROVE LifeInv' /\ RetryInv'
    <2> DEFINE new == [version |-> 1, failCount |-> 0, lastState |-> "scheduled"]
    <2>1. /\ Schedulable(j) /\ status[j] = "active"
          /\ UNCHANGED <<down, task, sched, logs, status>>
          /\ cache' = [cache EXCEPT ![j] = new]
          /\ queue' = [queue EXCEPT ![j] = queue[j] + 1]
      BY <1>9 DEF AddJobSchedule, store
    <2>2. /\ logs[j].settled = 0 /\ queue[j] = 0 /\ j \notin sched.jobs
          /\ \A t \in Tasks : j \notin task[t].jobs
      BY <1>2, <2>1, SchedulableIsNew
    <2>3. cache'[j] = new
      BY <1>1, <2>1
    <2>4. new \in MemExecution /\ new.failCount = 0 /\ new.version = 1 /\ new.lastState = "scheduled"
      BY DEF MemExecution, ExecStates
    <2> HIDE DEF new
    <2>5. LifeJobInv(j)'
      BY <1>2, <2>1, <2>2, <2>3, <2>4, StoredLife
    <2>6. ASSUME NEW i \in Jobs, i # j PROVE LifeJobInv(i)' /\ RetryJobInv(i)'
      BY <1>1, <1>2, <2>1, <2>6, UnmovedLife, UnmovedAgrees
    <2>7. j \notin sched.todo /\ sched.retry # j
      BY <1>1, <1>2, <2>2 DEF FlightInv
    <2>8. RetryJobInv(j)'
      <3>1. LastIsFresh(j)' /\ sched'.retry # j
        BY <2>1, <2>7 DEF LastIsFresh
      <3>2. cache'[j].version >= logs[j].settled /\ cache'[j].failCount = CountLastFailed(logs[j], cache'[j].version)
        BY <2>2, <2>3, <2>4 DEF CountLastFailed
      <3> QED
        BY <2>1, <2>2, <3>1, <3>2, StoredAgrees
    <2> QED
      BY <1>2, <2>1, <2>5, <2>6, <2>8 DEF LifeInv, RetryInv, up
  <1>10. RetryInv' \/ \E j \in Jobs : AddJobSchedule(j)
    BY SchedAgrees DEF Undisturbed
  <1> QED
    BY <1>4, <1>5, <1>6, <1>7, <1>8, <1>9, <1>10, Zenon DEF SchedNext

LEMMA OthersLive ==
    ASSUME TypeOK, Undisturbed, LifeInv, NodeNext \/ EnvNext
    PROVE  LifeInv'
  <1>1. ASSUME UNCHANGED <<down, cache, queue, task, sched, logs, status>> PROVE LifeInv'
    BY <1>1, UnmovedLife DEF LifeInv, up
  <1>2. CASE NodeNext
    <2>1. UNCHANGED <<down, cache, queue, task, sched, logs, status>>
      BY <1>2 DEF NodeNext, StopAll, LeadershipChange, SetNodeIsLeader, ResetLocalQuotaAllocations,
                  UpdateLocalQuotaAllocations, store, Undisturbed
    <2> QED
      BY <1>1, <2>1
  <1>3. CASE EnvNext
    <2>1. ASSUME \/ \E j \in Jobs : EndJob(j)
                 \/ \E a \in Accounts : RefillAccount(a)
          PROVE  UNCHANGED <<down, cache, queue, task, sched, logs, status>>
      BY <2>1 DEF EndJob, RefillAccount, memory
    <2>2. /\ \A j \in Jobs, s \in {"active", "inactive"} : ~SetStatus(j, s)
          /\ ~Restart
      BY DEF SetStatus, Restart, Undisturbed, LifeInv
    <2>3. ~Crash /\ \A t \in Tasks : ~CrashInReschedule(t)
      BY Zenon DEF Crash, CrashInReschedule, Undisturbed
    <2> QED
      BY <1>1, <1>3, <2>1, <2>2, <2>3, Zenon DEF EnvNext
  <1> QED
    BY <1>2, <1>3

LEMMA LifeInvariant == Undisturbed => (Spec => [](TypeOK /\ LifeInv))
  <1> SUFFICES ASSUME Undisturbed PROVE Spec => [](TypeOK /\ LifeInv)
    OBVIOUS
  <1>1. "overlap" \notin Faults
    BY DEF Undisturbed
  <1>2. Init => LifeInv /\ RetryInv
    <2> SUFFICES ASSUME Init PROVE LifeInv /\ RetryInv
      OBVIOUS
    <2>1. /\ up /\ sched.retry = None /\ sched.todo = {} /\ sched.jobs = {}
          /\ \A t \in Tasks : task[t].jobs = {}
          /\ \A j \in Jobs : ~Cached(j) /\ queue[j] = 0 /\ logs[j] = EmptyLog
      BY DEF Init, up, IdleSched, FreeTask, Cached
    <2>2. \A j \in Jobs : RetryMax[j] \in Nat /\ j # None
      BY Constants
    <2>3. /\ EmptyLog.version = 0 /\ EmptyLog.scheduled = {} /\ EmptyLog.settled = 0
          /\ EmptyLog.success = FALSE /\ EmptyLog.failed = 0
      BY DEF EmptyLog
    <2>4. \A j \in Jobs : RetryJobInv(j)
      BY <2>1, <2>2 DEF RetryJobInv, EntryAgrees, LastIsFresh, FailuresAgree
    <2>5. ASSUME NEW j \in Jobs PROVE HasEntry(j) /\ RetriesLeft(j) /\ StaysScheduled(j) /\ RunsOnce(j)
      BY <2>1, <2>2, <2>3 DEF HasEntry, RetriesLeft, StaysScheduled, RunsOnce
    <2> QED
      BY <2>1, <2>4, <2>5 DEF LifeInv, LifeJobInv, RetryInv
  <1>3. TypeOK /\ FlightInv /\ MemoryInv /\ LifeInv /\ RetryInv /\ [Next]_vars => LifeInv' /\ RetryInv'
    <2> SUFFICES ASSUME TypeOK, FlightInv, MemoryInv, LifeInv, RetryInv, [Next]_vars PROVE LifeInv' /\ RetryInv'
      OBVIOUS
    <2>1. sched.retry = None
      BY DEF LifeInv
    <2>2. CASE SchedNext
      BY <2>2, SchedLife
    <2>3. CASE ListenerNext
      BY <2>1, <2>3, ListenerLife, ListenerAgrees
    <2>4. ASSUME NEW t \in Tasks, TaskNext(t) PROVE LifeInv' /\ RetryInv'
      BY <2>4, TaskLife, TaskAgrees
    <2>5. CASE NodeNext \/ EnvNext
      BY <2>5, OthersLive, OthersAgree
    <2>6. CASE UNCHANGED vars
      <3>1. UNCHANGED <<down, cache, queue, task, sched, logs, status>>
        BY <2>6 DEF vars, memory, store
      <3>2. \A j \in Jobs : LifeJobInv(j) /\ RetryJobInv(j)
        BY DEF LifeInv, RetryInv
      <3>3. \A j \in Jobs : LifeJobInv(j)' /\ RetryJobInv(j)'
        BY <3>1, <3>2, UnmovedLife, UnmovedAgrees
      <3> QED
        BY <3>1, <3>3 DEF LifeInv, RetryInv, up
    <2> QED
      BY <2>2, <2>3, <2>4, <2>5, <2>6 DEF Next
  <1> QED
    BY <1>1, <1>2, <1>3, FlightInvariant, MemoryInvariant, PTL DEF Spec

\* No panic of the executor is reached by a node whose jobs are neither stopped by
\* a user nor scheduled twice and whose process does not crash: no callback finds
\* its entry gone, and no one-time job that has run is scheduled again.
THEOREM NothingPanics ==
    ASSUME Undisturbed
    PROVE  Spec => []NoPanic
  <1>1. LifeInv => NoPanic
    BY Zenon DEF LifeInv, up, NoPanic, Panics
  <1> QED
    BY <1>1, LifeInvariant, PTL

\* An execution of such a node fails at most retryMax times after its first failure.
THEOREM RetriesBounded ==
    ASSUME Undisturbed
    PROVE  Spec => []FailuresBounded
  <1>1. LifeInv => FailuresBounded
    BY DEF LifeInv, LifeJobInv, RetriesLeft, FailuresBounded
  <1> QED
    BY <1>1, LifeInvariant, PTL

\* A one-time job of such a node has one execution, and once its success is logged
\* nothing queues it again.
THEOREM OneTimeJobsRunOnce ==
    ASSUME Undisturbed
    PROVE  Spec => []OneTimeRunsOnce
  <1>1. LifeInv => OneTimeRunsOnce
    BY Constants, ConstantsAssumption DEF LifeInv, LifeJobInv, RunsOnce, OneTimeRunsOnce
  <1> QED
    BY <1>1, LifeInvariant, PTL
=============================================================================
