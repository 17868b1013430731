---------------------------- MODULE ExecutionQuota -----------------------------
(***************************************************************************)
(* The executions an account may still run: the count of the account,      *)
(* which raft replicates (repository/account_job_executions_count), the    *)
(* share of it a leader hands to a worker (AllocateQuotasForJobQueue of    *)
(* service/queue), what the workers of several nodes spend of it, and the  *)
(* reports of local executors that are charged to the count directly.      *)
(*                                                                         *)
(* A cluster of several nodes: a single one charges the count itself, see  *)
(* JobExecutor. Features are left out: an account has one limit.           *)
(*                                                                         *)
(* Bounds: MaxElections elections, MaxUsage committed rows of an account,  *)
(* MaxTaken executions of a node that have read the quota and not taken it.*)
(***************************************************************************)
EXTENDS Integers, FiniteSets, Sequences, TLC, SequencesExt, FiniteSetsExt

CONSTANTS QuotaNode,      \* node ids
          QuotaAccount,   \* account ids; 1 is the system's
          Reporter,       \* requests of local executors, one report each
          Limit,          \* executionLimit
          SystemLimit,    \* what the system account is reset to
          Share,          \* a leader hands out 1/Share of a count
          NoCount,
          MaxElections, MaxUsage, MaxTaken

ASSUME ExecutionQuotaAssumption ==
    /\ QuotaNode \subseteq Nat \ {0} /\ IsFiniteSet(QuotaNode) /\ Cardinality(QuotaNode) > 1
    /\ QuotaAccount \subseteq Nat \ {0}
    /\ Limit \in Nat \ {0} /\ SystemLimit \in Nat \ {0} /\ Share \in Nat \ {0}
    /\ NoCount \notin Int
    /\ MaxElections \in Nat /\ MaxUsage \in Nat /\ MaxTaken \in Nat

VARIABLES
    quotaLeader,   \* the leader
    elections,
    handling,      \* nodes with a change of leadership to handle
    counts,        \* counts[a]: the row of account_job_executions_count
    jobsActive,    \* accounts whose jobs the quota has not made inactive
    usage,         \* usage[a]: rows committed since the last queue version
    allocation,    \* allocation[n]: AllocateQuotasForJobQueue of n
    localQuota,    \* localQuota[n][a]: localQuotaAllocations of n
    taking,        \* taking[n][a]: executions between reading and taking a token
    reports,       \* reports[r]: decrementAccountQuota for r
    spent,         \* spent[a]: executions workers have paid with tokens
    unpaid         \* accounts a grant of which was not charged, or was sent twice,
                   \* or whose count an allocation of an earlier leadership wrote

countVars == <<counts, jobsActive, usage>>
workerVars == <<localQuota, taking, spent>>
executionQuotaVars == <<quotaLeader, elections, handling, countVars, allocation,
                        workerVars, reports, unpaid>>

SystemAccount == 1
Count == 0..(Limit + SystemLimit)
NoTokens == [a \in QuotaAccount |-> 0]
NotAllocating == [pc |-> "idle", term |-> 0, todo |-> {}, node |-> <<>>, counts |-> <<>>, usage |-> <<>>,
                  account |-> 0, read |-> 0, grants |-> [m \in QuotaNode |-> NoTokens]]
NotReported == [pc |-> "new", account |-> 0, read |-> 0]

ExecutionQuotaInit ==
    /\ quotaLeader \in QuotaNode /\ elections = 0 /\ handling = {}
    /\ counts \in [QuotaAccount -> {NoCount, Limit}]
    /\ jobsActive = QuotaAccount
    /\ usage = NoTokens
    /\ allocation = [n \in QuotaNode |-> NotAllocating]
    /\ localQuota = [n \in QuotaNode |-> <<>>]
    /\ taking = [n \in QuotaNode |-> NoTokens]
    /\ reports = [r \in Reporter |-> NotReported]
    /\ spent = NoTokens /\ unpaid = {}

-----------------------------------------------------------------------------
(* Leadership *)

Elect(n) ==
    /\ n # quotaLeader /\ elections < MaxElections
    /\ elections' = elections + 1
    /\ quotaLeader' = n /\ handling' = handling \cup {n, quotaLeader}
    /\ UNCHANGED <<countVars, allocation, workerVars, reports, unpaid>>

(* The handler of a node resets its quota; the leader starts an allocation.*)
HandleChange(n) ==
    /\ n \in handling /\ allocation[n].pc = "idle"
    /\ handling' = handling \ {n}
    /\ localQuota' = [localQuota EXCEPT ![n] = <<>>]
    /\ allocation' = IF n = quotaLeader THEN [allocation EXCEPT ![n].pc = "read"] ELSE allocation
    /\ UNCHANGED <<quotaLeader, elections, countVars, taking, spent, reports, unpaid>>

-----------------------------------------------------------------------------
(* AllocateQuotasForJobQueue *)

Step(n, next) == allocation' = [allocation EXCEPT ![n] = next]

(* Accounts are spread over the workers in the order etcd lists them.      *)
ReadAccounts(n) ==
    /\ allocation[n].pc = "read"
    /\ \E workers \in SetToSeqs(QuotaNode \ {quotaLeader}) :
         Step(n, [allocation[n] EXCEPT !.pc = "account", !.term = elections, !.todo = QuotaAccount,
                    !.node = [a \in QuotaAccount |-> workers[(a % Len(workers)) + 1]],
                    !.counts = counts, !.usage = usage])
    /\ UNCHANGED <<quotaLeader, elections, handling, countVars, workerVars, reports, unpaid>>

Remaining(al, a) ==
    LET current == IF al.counts[a] = NoCount THEN Limit ELSE al.counts[a]
    IN  IF al.usage[a] > current THEN 0 ELSE current - al.usage[a]

\* Variant: the system account is treated as any other.
AllExhausted(al, a) == Remaining(al, a) = 0
Exhausted(al, a) == Remaining(al, a) = 0 /\ a # SystemAccount

Reconciled(al, a) ==
    IF Remaining(al, a) = 0 /\ a = SystemAccount THEN SystemLimit ELSE Remaining(al, a)

(* At least one token if there is one.                                     *)
Allocated(remaining) == Max({remaining \div Share, 1})

(* An allocation goes on when the leadership changes, and writes again once *)
(* its node is elected again (history: term is the election it read under). *)
WriteCount(n, a, count) ==
    /\ n = quotaLeader
    /\ counts' = [counts EXCEPT ![a] = count]
    /\ unpaid' = IF allocation[n].term = elections THEN unpaid ELSE unpaid \cup {a}

(* Reset or create the count of an account; its jobs end with its tokens.  *)
Reconcile(n, a) ==
    LET al == allocation[n]
        remaining == Reconciled(al, a)
    IN  /\ al.pc = "account" /\ a \in al.todo
        /\ jobsActive' = IF Exhausted(al, a) THEN jobsActive \ {a} ELSE jobsActive
        /\ WriteCount(n, a, remaining)
        /\ IF remaining = 0 THEN Step(n, [al EXCEPT !.todo = @ \ {a}])
           ELSE Step(n, [al EXCEPT !.todo = @ \ {a}, !.account = a, !.pc = "reread",
                           !.grants[al.node[a]][a] = Allocated(remaining)])
        /\ UNCHANGED <<quotaLeader, elections, handling, usage, workerVars, reports>>

(* A count that cannot be written ends the allocation: nothing is sent.    *)
ReconcileFails(n) ==
    /\ allocation[n].pc = "account" /\ allocation[n].todo # {}
    /\ Step(n, NotAllocating)
    /\ UNCHANGED <<quotaLeader, elections, handling, countVars, workerVars, reports, unpaid>>

Reread(n) ==
    /\ allocation[n].pc = "reread"
    /\ Step(n, [allocation[n] EXCEPT !.pc = "charge", !.read = counts[allocation[n].account]])
    /\ UNCHANGED <<quotaLeader, elections, handling, countVars, workerVars, reports, unpaid>>

Granted(al) == al.grants[al.node[al.account]][al.account]

Charged(al) == al.read - Min({Granted(al), al.read})

Charge(n) ==
    /\ allocation[n].pc = "charge"
    /\ WriteCount(n, allocation[n].account, Charged(allocation[n]))
    /\ Step(n, [allocation[n] EXCEPT !.pc = "account"])
    /\ UNCHANGED <<quotaLeader, elections, handling, jobsActive, usage, workerVars, reports>>

(* The grant stays when the count cannot be read or written.               *)
ChargeFails(n) ==
    /\ allocation[n].pc \in {"reread", "charge"}
    /\ unpaid' = unpaid \cup {allocation[n].account}
    /\ Step(n, [allocation[n] EXCEPT !.pc = "account"])
    /\ UNCHANGED <<quotaLeader, elections, handling, countVars, workerVars, reports>>

Unsent(n) == {m \in QuotaNode : allocation[n].grants[m] # NoTokens}

Receives(m, grant) ==
    localQuota' = [localQuota EXCEPT ![m] =
        [a \in {b \in QuotaAccount : grant[b] > 0} \cup DOMAIN @ |->
            IF grant[a] > 0 THEN grant[a] ELSE @[a]]]

(* Grants are sent last, to one worker after the other, leader or not. A   *)
(* call is given up, arrives, or arrives and is sent again for want of the *)
(* reply: then the worker may get the same tokens twice.                   *)
SendQuotaAllocation(n, m) ==
    LET al == allocation[n]
        grant == al.grants[m]
        done == Step(n, [al EXCEPT !.grants[m] = NoTokens])
    IN  /\ al.pc = "account" /\ al.todo = {} /\ m \in Unsent(n)
        /\ \/ done /\ UNCHANGED <<localQuota, unpaid>>
           \/ done /\ Receives(m, grant) /\ UNCHANGED unpaid
           \/ /\ Receives(m, grant) /\ UNCHANGED allocation
              /\ unpaid' = unpaid \cup {a \in QuotaAccount : grant[a] > 0}
        /\ UNCHANGED <<quotaLeader, elections, handling, countVars, taking, spent, reports>>

AllocationEnds(n) ==
    /\ allocation[n].pc = "account" /\ allocation[n].todo = {} /\ Unsent(n) = {}
    /\ Step(n, NotAllocating)
    /\ UNCHANGED <<quotaLeader, elections, handling, countVars, workerVars, reports, unpaid>>

-----------------------------------------------------------------------------
(* Workers; the system account needs no tokens *)

GetLocalQuotaRemaining(n, a) ==
    /\ a # SystemAccount /\ a \in DOMAIN localQuota[n]
    /\ localQuota[n][a] > 0 /\ taking[n][a] < MaxTaken
    /\ taking' = [taking EXCEPT ![n][a] = @ + 1]
    /\ UNCHANGED <<quotaLeader, elections, handling, countVars, allocation, localQuota,
                   spent, reports, unpaid>>

\* Variant: the quota that was read is decremented without another look.
HasQuota(n, a) == a \in DOMAIN localQuota[n]
HasToken(n, a) == a \in DOMAIN localQuota[n] /\ localQuota[n][a] > 0

DecrementLocalQuota(n, a) ==
    /\ taking[n][a] > 0
    /\ taking' = [taking EXCEPT ![n][a] = @ - 1]
    /\ IF HasToken(n, a)
       THEN /\ localQuota' = [localQuota EXCEPT ![n][a] = @ - 1]
            /\ spent' = [spent EXCEPT ![a] = @ + 1]
       ELSE UNCHANGED <<localQuota, spent>>
    /\ UNCHANGED <<quotaLeader, elections, handling, countVars, allocation,
                   reports, unpaid>>

(* An execution that finds no token left tells the leader.                 *)
HandleAccountExhaustion(n, a) ==
    /\ a # SystemAccount /\ a \in DOMAIN localQuota[n] /\ localQuota[n][a] = 0
    /\ jobsActive' = jobsActive \ {a}
    /\ UNCHANGED <<quotaLeader, elections, handling, counts, usage, allocation, workerVars,
                   reports, unpaid>>

(* The rows of executions are committed, of workers and of reports alike.  *)
CommitExecutions(a) ==
    /\ usage[a] < MaxUsage
    /\ usage' = [usage EXCEPT ![a] = @ + 1]
    /\ UNCHANGED <<quotaLeader, elections, handling, counts, jobsActive, allocation, workerVars,
                   reports, unpaid>>

(* A cleanup of an account's old rows compares what is left and what was    *)
(* used since the queue version with the limit, and makes the jobs of the   *)
(* account inactive when the sum exceeds it. Rows since the queue version   *)
(* are taken to be younger than the retention, and stay.                    *)
ExceedsLimit(a) ==
    a # SystemAccount /\ usage[a] + (IF counts[a] = NoCount THEN 0 ELSE counts[a]) > Limit

CleanupOldExecutionLogs(a) ==
    /\ jobsActive' = IF ExceedsLimit(a) THEN jobsActive \ {a} ELSE jobsActive
    /\ UNCHANGED <<quotaLeader, elections, handling, counts, usage, allocation, workerVars,
                   reports, unpaid>>

-----------------------------------------------------------------------------
(* ReportExecutions: read the count, then write it *)

ReportRead(r, a) ==
    /\ reports[r].pc = "new" /\ a # SystemAccount
    /\ reports' = [reports EXCEPT ![r] = [pc |-> IF counts[a] = NoCount THEN "done" ELSE "write",
                                          account |-> a,
                                          read |-> IF counts[a] = NoCount THEN 0 ELSE counts[a]]]
    /\ UNCHANGED <<quotaLeader, elections, handling, countVars, allocation, workerVars, unpaid>>

ReportWrite(r) ==
    /\ reports[r].pc = "write"
    /\ reports' = [reports EXCEPT ![r].pc = "done"]
    /\ counts' = [counts EXCEPT ![reports[r].account] = Max({reports[r].read, 1}) - 1]
    /\ UNCHANGED <<quotaLeader, elections, handling, jobsActive, usage, allocation, workerVars, unpaid>>

ExecutionQuotaNext ==
    \/ \E n \in QuotaNode :
         \/ Elect(n) \/ HandleChange(n) \/ ReadAccounts(n) \/ ReconcileFails(n)
         \/ Reread(n) \/ Charge(n) \/ ChargeFails(n) \/ AllocationEnds(n)
         \/ \E m \in QuotaNode : SendQuotaAllocation(n, m)
         \/ \E a \in QuotaAccount :
              \/ Reconcile(n, a) \/ GetLocalQuotaRemaining(n, a) \/ DecrementLocalQuota(n, a)
              \/ HandleAccountExhaustion(n, a)
    \/ \E a \in QuotaAccount : CommitExecutions(a) \/ CleanupOldExecutionLogs(a)
    \/ \E r \in Reporter : ReportWrite(r) \/ \E a \in QuotaAccount : ReportRead(r, a)

ExecutionQuotaSpec == ExecutionQuotaInit /\ [][ExecutionQuotaNext]_executionQuotaVars

-----------------------------------------------------------------------------
(* Properties *)

(* Counts and quotas are unsigned: whatever a report takes between the     *)
(* reset, the second reading and the charge of an allocation, no count     *)
(* goes below zero (queue.go:528-547).                                     *)
ExecutionQuotaTypeOK ==
    /\ quotaLeader \in QuotaNode /\ elections \in 0..MaxElections /\ handling \subseteq QuotaNode
    /\ counts \in [QuotaAccount -> Count \cup {NoCount}]
    /\ jobsActive \subseteq QuotaAccount
    /\ usage \in [QuotaAccount -> 0..MaxUsage]
    /\ \A n \in QuotaNode : \A a \in DOMAIN localQuota[n] : localQuota[n][a] \in Count
    /\ taking \in [QuotaNode -> [QuotaAccount -> 0..MaxTaken]]

(* What workers have executed and what is left of an account never exceed  *)
(* its limit, over all leaders, lost allocations and executions that read  *)
(* the last token together (executor.go:810-852) - unless a grant could    *)
(* not be charged (queue.go:532, 543) or was sent again after a lost reply *)
(* (tcp_client.go:38), a report wrote a count it had read before           *)
(* (executor.go:2064), or an allocation that began under an earlier        *)
(* leadership wrote one (queue.go:496-533).                                *)
ExecutionsPaid ==
    \A a \in QuotaAccount \ {SystemAccount} :
        /\ counts[a] # NoCount /\ a \notin unpaid
        /\ \A r \in Reporter : reports[r].account # a
        => spent[a] + counts[a] <= Limit

(* The jobs of the system account are never made inactive for want of      *)
(* quota (queue.go:465-485, executor.go:1118).                             *)
SystemStaysActive == SystemAccount \in QuotaAccount => SystemAccount \in jobsActive
=============================================================================
