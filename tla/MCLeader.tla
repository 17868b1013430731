------------------------------ MODULE MCLeader ------------------------------
(* What the leader does for jobs, for the quota of accounts and for their   *)
(* requests and credits, checked side by side: a behaviour is one of        *)
(* JobAssignment, ExecutionQuota, Tenants or Accounts, the other components *)
(* rest.                                                                    *)
EXTENDS JobAssignment, ExecutionQuota, Tenants, Accounts

CONSTANTS MaxEvents, MaxQuotaEvents, MaxTenantEvents, MaxAccountEvents

VARIABLE focusOfLeader

(* MaxEvents bounds jobs, outages, inactivated jobs and workers together,   *)
(* MaxQuotaEvents elections, rows, executions, reports and uncharged grants. *)
AssignmentBound ==
    Len(jobAccounts') + outages' + Cardinality(inactive') + Cardinality(servers') - 1 <= MaxEvents
QuotaBound ==
    elections' + FoldFunction(+, 0, usage') + FoldFunction(+, 0, spent')
               + FoldFunction(LAMBDA t, k : FoldFunction(+, k, t), 0, taking') + Cardinality(unpaid')
               + Cardinality({r \in Reporter : reports'[r].pc # "new"}) <= MaxQuotaEvents

(* MaxTenantEvents bounds jobs, requests in progress, and rows that are     *)
(* deleted or inactive; lookups are made while no request is in progress.   *)
Asked == {r \in Request : requests'[r] # NotAsked}
TenantsBound ==
    /\ shown' # NothingShown => Asked = {}
    /\ Cardinality(Asked) + Len(tenantJobs')
       + Cardinality({p \in DOMAIN projects' : ~projects'[p].live})
       + Cardinality({e \in DOMAIN executors' : ~executors'[e].live})
       + Cardinality({j \in DOMAIN tenantJobs' : ~tenantJobs'[j].live})
       + Cardinality({j \in DOMAIN tenantJobs' : tenantJobs'[j].status = "inactive"}) <= MaxTenantEvents

(* MaxAccountEvents bounds requests in progress, features, past windows,    *)
(* successes, and what is in the counters or in the ledger.                 *)
AccountsBound ==
    LET counted == FoldFunction(+, 0, counters') - (IF "tokens" \in DOMAIN counters' THEN 1 ELSE 0) IN
    Cardinality({o \in Operation : operations'[o] # Idle}) + Cardinality(features') + window' - 1
      + FoldFunction(LAMBDA log, n : n + Len(log), 0, successes')
      + Max({counted, Len(creditLedger')}) + (IF unexplained' THEN 1 ELSE 0) <= MaxAccountEvents

QuotaRests == quotaLeader = Min(QuotaNode) /\ \A a \in QuotaAccount : counts[a] = Limit

LeaderInit ==
    /\ JobAssignmentInit /\ ExecutionQuotaInit /\ TenantsInit /\ AccountsInit
    /\ \/ focusOfLeader = "quota"
       \/ focusOfLeader \in {"jobs", "requests", "accounts"} /\ QuotaRests

LeaderNext ==
    /\ UNCHANGED focusOfLeader
    /\ \/ /\ focusOfLeader = "jobs" /\ JobAssignmentNext /\ AssignmentBound
          /\ UNCHANGED <<executionQuotaVars, tenantsVars, accountsVars>>
       \/ /\ focusOfLeader = "quota" /\ ExecutionQuotaNext /\ QuotaBound
          /\ UNCHANGED <<jobAssignmentVars, tenantsVars, accountsVars>>
       \/ /\ focusOfLeader = "requests" /\ TenantsNext /\ TenantsBound
          /\ UNCHANGED <<jobAssignmentVars, executionQuotaVars, accountsVars>>
       \/ /\ focusOfLeader = "accounts" /\ AccountsNext /\ AccountsBound
          /\ UNCHANGED <<jobAssignmentVars, executionQuotaVars, tenantsVars>>

leaderVars == <<focusOfLeader, jobAssignmentVars, executionQuotaVars, tenantsVars, accountsVars>>
LeaderSpec == LeaderInit /\ [][LeaderNext]_leaderVars /\ JobAssignmentFairness
=============================================================================
