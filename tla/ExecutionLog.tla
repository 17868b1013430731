---------------------------- MODULE ExecutionLog ----------------------------
(***************************************************************************)
(* The execution log of one job, as the executor reads it: the union of    *)
(* the tables job_executions_committed and job_executions_uncommitted.     *)
(*                                                                         *)
(* Every reader of the log takes the rows of the HIGHEST execution version *)
(* (GetLastExecutionLogForJobIds orders by execution_version desc, state   *)
(* desc) or counts the failed rows of one version                          *)
(* (CountLastFailedExecutionLogs).  So a log is represented by its highest *)
(* version, by the outcomes (success, failed) of the highest version that  *)
(* has one, and by the scheduled rows of the highest version while that    *)
(* one has no outcome: no other row can be read again.                     *)
(*                                                                         *)
(* A scheduled row is "dated" when its last_execution_time is not the zero *)
(* time: createInMemExecutionsForJobsIfNotExist panics on an undated row.  *)
(* Rows of the states success and failed are never dated: the callbacks    *)
(* write them with the job read by BatchGetJobsByID, whose                 *)
(* LastExecutionDate is not a column of the jobs table.                    *)
(***************************************************************************)
EXTENDS Naturals

ExecStates == {"scheduled", "success", "failed"}
RowDates   == {"dated", "undated"}

LogRecord == [version   : Nat,                \* highest version of a row
              scheduled : SUBSET RowDates,    \* its scheduled rows, before it has an outcome
              settled   : Nat,                \* highest version with an outcome
              success   : BOOLEAN,            \* ... which has a success row
              failed    : Nat]                \* ... and as many failed rows
LogType   == {log \in LogRecord : log.settled <= log.version}

EmptyLog == [version |-> 0, scheduled |-> {}, settled |-> 0, success |-> FALSE, failed |-> 0]

\* What GetLastExecutionLogForJobIds returns: a row, or nothing (version 0).
LastLogType == [version : Nat, state : ExecStates, date : RowDates]
NoLastLog   == [version |-> 0, state |-> "scheduled", date |-> "undated"]

InsertScheduled(log, v, date) ==
    IF v < log.version \/ v = log.settled THEN log
    ELSE [log EXCEPT !.version   = v,
                     !.scheduled = IF v = log.version THEN @ \cup {date} ELSE {date}]

\* The log about to get an outcome of version v.
Settled(log, v) ==
    IF v <= log.settled THEN log
    ELSE [version   |-> IF v < log.version THEN log.version ELSE v,
          scheduled |-> IF v < log.version THEN log.scheduled ELSE {},
          settled   |-> v,
          success   |-> FALSE,
          failed    |-> 0]

InsertSuccess(log, v) ==
    IF v < log.settled THEN log ELSE [Settled(log, v) EXCEPT !.success = TRUE]

InsertFailed(log, v) ==
    IF v < log.settled THEN log ELSE [Settled(log, v) EXCEPT !.failed = @ + 1]

\* "order by execution_version desc, state desc": a failed row of the latest
\* version hides a success row, which hides the scheduled rows.  Scheduled rows
\* of one version tie, and the database may return any of them.
LastLogs(log) ==
    IF log.version = 0 THEN {NoLastLog}
    ELSE IF log.settled < log.version
         THEN {[version |-> log.version, state |-> "scheduled", date |-> d] : d \in log.scheduled}
    ELSE {[version |-> log.version,
           state   |-> IF log.failed > 0 THEN "failed" ELSE "success",
           date    |-> "undated"]}

CountLastFailed(log, v) == IF v = log.settled THEN log.failed ELSE 0
=============================================================================
