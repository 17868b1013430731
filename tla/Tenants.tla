------------------------------ MODULE Tenants ------------------------------
(* Projects, executors and jobs of several accounts, as the handlers of the *)
(* API read and write them. A handler reads its rows and writes through the *)
(* Raft log in separate steps, so that requests interleave between them;    *)
(* rows are never removed: a deletion sets deleted_by. Requests that the    *)
(* handlers refuse change nothing and are not steps. Descriptions, dates,   *)
(* specs and payloads are left out; Secrets has the secrets of executors.   *)
EXTENDS Integers, Sequences, SequencesExt, FiniteSets

CONSTANTS Tenant,         \* account ids; 1 is the system's
          Request,        \* requests in progress
          ProjectName,
          Unset,          \* a field that an update leaves out
          MaxBatchJobs, MaxProjects, MaxExecutors, MaxTenantJobs

ASSUME TenantsAssumption ==
    /\ Tenant \subseteq Nat \ {0}
    /\ MaxBatchJobs \in Nat /\ MaxProjects \in Nat /\ MaxExecutors \in Nat /\ MaxTenantJobs \in Nat

VARIABLES
    projects,    \* the table projects: account, name, and whether deleted_by is empty
    executors,   \* the table job_executors
    tenantJobs,  \* the table jobs, with the executor and the status of each
    requests,    \* requests[r]: the handler r is in, and what it has read
    overtaken,   \* overtaken[r]: what r has read was written by another since
    shown        \* the last answer: the account that asked and the rows it got

tenantsVars == <<projects, executors, tenantJobs, requests, overtaken, shown>>
tables == <<projects, executors, tenantJobs>>

SystemTenant == 1
Status == {"active", "inactive"}
NotAsked == [pc |-> "idle"]
NothingShown == [account |-> 0, rows |-> {}]

TenantsInit ==
    /\ projects = <<>> /\ executors = <<>> /\ tenantJobs = <<>>
    /\ requests = [r \in Request |-> NotAsked]
    /\ overtaken = [r \in Request |-> FALSE]
    /\ shown = NothingShown

-----------------------------------------------------------------------------
(* What the repositories select. GetOneByID of executors and of jobs finds  *)
(* deleted rows too, and the batch reads of validateBatch do not filter.    *)

OwnProject(a, p) == p \in DOMAIN projects /\ projects[p].account = a /\ projects[p].live
NamedProjects(a, name) == {p \in DOMAIN projects : OwnProject(a, p) /\ projects[p].name = name}
ProjectsOf(a) == {p \in DOMAIN projects : OwnProject(a, p)}
BatchOfProjects(ids) == ids \cap DOMAIN projects

OwnExecutor(a, e) == e \in DOMAIN executors /\ executors[e].account = a
ExecutorsOf(a) == {e \in DOMAIN executors : OwnExecutor(a, e) /\ executors[e].live}
BatchOfExecutors(ids) == ids \cap DOMAIN executors

OwnJob(a, j) == j \in DOMAIN tenantJobs /\ tenantJobs[j].account = a
LiveJobs == {j \in DOMAIN tenantJobs : tenantJobs[j].live}
JobsOf(a) == {j \in LiveJobs : OwnJob(a, j)}
JobsOfProject(p) == {j \in LiveJobs : tenantJobs[j].project = p}
JobsOfExecutor(a, e) == {j \in JobsOf(a) : tenantJobs[j].executor = e}

(* What an answer shows, as pairs of a table and an id.                     *)
Show(a, table, ids) == shown' = [account |-> a, rows |-> {<<table, i>> : i \in ids}]

-----------------------------------------------------------------------------
(* The steps of a request: Reads ends with what the handler knows, and      *)
(* Ends with its last write.                                                *)

Reads(r, known) ==
    /\ requests[r] = NotAsked
    /\ requests' = [requests EXCEPT ![r] = known]
    /\ UNCHANGED <<tables, shown>>
Ends(r) == requests' = [requests EXCEPT ![r] = NotAsked] /\ shown' = NothingShown

(* Projects. A name is looked up, then the row inserted: the table has no   *)
(* unique index.                                                            *)
CreateProject(r, a, name) ==
    /\ NamedProjects(a, name) = {}
    /\ Reads(r, [pc |-> "insertProject", account |-> a, name |-> name])

InsertProject(r) ==
    /\ requests[r].pc = "insertProject" /\ Len(projects) < MaxProjects
    /\ projects' = Append(projects, [account |-> requests[r].account, name |-> requests[r].name, live |-> TRUE])
    /\ Ends(r) /\ UNCHANGED <<executors, tenantJobs>>

(* UpdateOneProject writes the description only.                            *)
UpdateProject(a, p) ==
    /\ OwnProject(a, p) /\ Show(a, "project", {p})
    /\ UNCHANGED <<tables, requests>>

(* The deletion of a project deletes its jobs, looks again for jobs that    *)
(* are left, and deletes it: three steps.                                   *)
WithoutJobsOf(p, a) ==
    [j \in DOMAIN tenantJobs |->
        IF j \in JobsOfProject(p) \cap JobsOf(a)
        THEN [tenantJobs[j] EXCEPT !.live = FALSE, !.status = "deleted"] ELSE tenantJobs[j]]

DeleteProject(r, a, p) ==
    /\ a # SystemTenant /\ p \in ProjectsOf(a) /\ requests[r] = NotAsked
    /\ tenantJobs' = WithoutJobsOf(p, a)
    /\ requests' = [requests EXCEPT ![r] = [pc |-> "checkProject", account |-> a, project |-> p]]
    /\ UNCHANGED <<projects, executors, shown>>

\* Variant: the project is deleted without a look at the jobs that are left.
CheckSkipped(r) ==
    /\ requests[r].pc = "checkProject"
    /\ requests' = [requests EXCEPT ![r].pc = "deleteProject"]
    /\ UNCHANGED <<tables, shown>>

CheckProject(r) ==
    /\ requests[r].pc = "checkProject"
    /\ requests' = [requests EXCEPT ![r] =
           IF JobsOfProject(@.project) = {} THEN [@ EXCEPT !.pc = "deleteProject"] ELSE NotAsked]
    /\ UNCHANGED <<tables, shown>>

DeleteProjectRow(r) ==
    /\ requests[r].pc = "deleteProject"
    /\ projects' = [projects EXCEPT ![requests[r].project].live = FALSE]
    /\ Ends(r) /\ UNCHANGED <<executors, tenantJobs>>

-----------------------------------------------------------------------------
(* Executors. Create, update and delete each end with one write; the rows   *)
(* an update and a deletion read first stay in the table.                   *)

CreateExecutor(a) ==
    /\ Len(executors) < MaxExecutors
    /\ executors' = Append(executors, [account |-> a, live |-> TRUE])
    /\ shown' = NothingShown /\ UNCHANGED <<projects, tenantJobs, requests>>

(* UpdateOneBy returns the number of rows written, one, and the handler     *)
(* answers with the executor of that id, if it is one of the account.       *)
UpdatedExecutor(a) == {e \in {1} : OwnExecutor(a, e)}
UpdateExecutor(a, e) ==
    /\ OwnExecutor(a, e) /\ Show(a, "executor", UpdatedExecutor(a))
    /\ UNCHANGED <<tables, requests>>

(* The deletion does not look for jobs of the executor.                     *)
DeleteExecutor(a, e) ==
    /\ OwnExecutor(a, e)
    /\ executors' = [executors EXCEPT ![e].live = FALSE]
    /\ shown' = NothingShown /\ UNCHANGED <<projects, tenantJobs, requests>>

-----------------------------------------------------------------------------
(* Jobs. The controller gives every job of a batch the account that asks.   *)

Batch(a) ==
    UNION {[1..n -> [account : {a}, project : 1..MaxProjects, executor : 1..MaxExecutors,
                     live : {TRUE}, status : {"active"}]] : n \in 1..MaxBatchJobs}

\* Variant: the owner of the first job's project and executor stands for all.
ValidFirst(batch) ==
    LET first == batch[1]
        ids == {batch[i].project : i \in DOMAIN batch}
        eids == {batch[i].executor : i \in DOMAIN batch}
    IN  /\ BatchOfProjects(ids) = ids /\ BatchOfExecutors(eids) = eids
        /\ projects[first.project].account = first.account /\ executors[first.executor].account = first.account

ValidBatch(batch) ==
    LET ids == {batch[i].project : i \in DOMAIN batch}
        eids == {batch[i].executor : i \in DOMAIN batch}
    IN  /\ BatchOfProjects(ids) = ids /\ BatchOfExecutors(eids) = eids
        /\ \A i \in DOMAIN batch :
               /\ projects[batch[i].project].account = batch[i].account
               /\ executors[batch[i].executor].account = batch[i].account

BatchInsert(r, batch) ==
    /\ ValidBatch(batch)
    /\ Reads(r, [pc |-> "insertJobs", rows |-> batch])

(* One command inserts the rows, at most eleven.                            *)
InsertJobRows(r) ==
    /\ requests[r].pc = "insertJobs" /\ Len(tenantJobs) + Len(requests[r].rows) <= MaxTenantJobs
    /\ tenantJobs' = tenantJobs \o requests[r].rows
    /\ Ends(r) /\ UNCHANGED <<projects, executors>>

(* A prompt becomes jobs: an executor is taken that the request names, or   *)
(* the only one, or one a model picks of the list; then a project is named, *)
(* found by its name or created; then the jobs are built and inserted as a  *)
(* batch is. The calls of the models lie between the steps.                 *)
ResolvedExecutor(a) == {e \in DOMAIN executors : OwnExecutor(a, e)}

ScheduleFromPrompt(r, a) ==
    \E e \in ResolvedExecutor(a) : Reads(r, [pc |-> "resolveProject", account |-> a, executor |-> e])

buildJobs(q, p, n) ==
    [i \in 1..n |-> [account |-> q.account, project |-> p, executor |-> q.executor,
                     live |-> TRUE, status |-> "active"]]
InsertsBuilt(r, p) ==
    \E n \in 1..MaxBatchJobs :
        requests' = [requests EXCEPT ![r] = [pc |-> "insertJobs", rows |-> buildJobs(requests[r], p, n)]]

(* The name that the request hints at, else its first purpose, else the     *)
(* beginning of the prompt; never empty.                                    *)
deriveProject == ProjectName

ResolveProject(r) ==
    /\ requests[r].pc = "resolveProject"
    /\ \/ \E p \in ProjectsOf(requests[r].account) : InsertsBuilt(r, p)
       \/ \E name \in deriveProject :
              /\ NamedProjects(requests[r].account, name) = {}
              /\ requests' = [requests EXCEPT ![r] =
                     [pc |-> "createProject", account |-> @.account, executor |-> @.executor, name |-> name]]
    /\ UNCHANGED <<tables, shown>>

CreateResolvedProject(r) ==
    /\ requests[r].pc = "createProject" /\ Len(projects) < MaxProjects
    /\ projects' = Append(projects, [account |-> requests[r].account, name |-> requests[r].name, live |-> TRUE])
    /\ InsertsBuilt(r, Len(projects) + 1)
    /\ shown' = NothingShown /\ UNCHANGED <<executors, tenantJobs>>

(* An update reads the job, deleted or not, and takes from it the executor  *)
(* and the status that the request leaves out. The project must be a live   *)
(* one of the account, and is not stored.                                   *)
Merged(given, stored) == IF given = Unset THEN stored ELSE given
ValidStatus(a, status) == a = SystemTenant \/ status \in Status \cup {""}

UpdateJob(r, a, j, p, e, status) ==
    /\ OwnJob(a, j) /\ OwnProject(a, p)
    /\ LET executor == Merged(e, tenantJobs[j].executor)
           new == Merged(status, tenantJobs[j].status)
       IN  /\ OwnExecutor(a, executor) /\ ValidStatus(a, new)
           /\ Reads(r, [pc |-> "updateJob", account |-> a, job |-> j, given |-> <<e, status>>,
                        executor |-> executor,
                        status |-> IF new = "" /\ a # SystemTenant THEN "active" ELSE new])

(* The write sets deleted_by to that of the request, which has none.        *)
UpdateJobRow(r) ==
    /\ requests[r].pc = "updateJob"
    /\ tenantJobs' = [tenantJobs EXCEPT ![requests[r].job] =
           [@ EXCEPT !.executor = requests[r].executor, !.status = requests[r].status, !.live = TRUE]]
    /\ Ends(r) /\ UNCHANGED <<projects, executors>>

(* A deletion stores the status of the request too, which is empty.         *)
DeletedRow(row) == [row EXCEPT !.live = FALSE, !.status = ""]
DeleteJob(a, j) ==
    /\ OwnJob(a, j)
    /\ tenantJobs' = [tenantJobs EXCEPT ![j] = DeletedRow(@)]
    /\ shown' = NothingShown /\ UNCHANGED <<projects, executors, requests>>

(* The jobs of an account are inactivated when it has used up its quota,    *)
(* and activated when the account buys more.                                *)
UpdateJobsStatusByAccountId(a, status) ==
    /\ tenantJobs' = [j \in DOMAIN tenantJobs |->
           IF j \in JobsOf(a) THEN [tenantJobs[j] EXCEPT !.status = status] ELSE tenantJobs[j]]
    /\ shown' = NothingShown /\ UNCHANGED <<projects, executors, requests>>

-----------------------------------------------------------------------------
(* The handlers of the API, for every request of an account.                *)

GetOneProject(a) == \E p \in ProjectsOf(a) : Show(a, "project", {p})
ListProjects(a) == Show(a, "project", ProjectsOf(a))
GetOneExecutor(a) == \E e \in DOMAIN executors : OwnExecutor(a, e) /\ Show(a, "executor", {e})
ListExecutors(a) == Show(a, "executor", ExecutorsOf(a))
PullJobs(a) == \E e \in DOMAIN executors : OwnExecutor(a, e) /\ Show(a, "job", JobsOfExecutor(a, e))
GetOneJob(a) == \E j \in DOMAIN tenantJobs : OwnJob(a, j) /\ Show(a, "job", {j})
ListJobs(a) ==
    \/ Show(a, "job", JobsOf(a))
    \/ \E p \in ProjectsOf(a) : Show(a, "job", JobsOf(a) \cap JobsOfProject(p))

Lookup(a) ==
    /\ \/ GetOneProject(a) \/ ListProjects(a)
       \/ GetOneExecutor(a) \/ ListExecutors(a) \/ PullJobs(a)
       \/ GetOneJob(a) \/ ListJobs(a)
    /\ UNCHANGED <<tables, requests>>

CreateOneProject(r, a) == \E name \in ProjectName : CreateProject(r, a, name)
UpdateOneProject(a) == \E p \in DOMAIN projects : UpdateProject(a, p)
DeleteOneProject(r, a) == \E p \in DOMAIN projects : DeleteProject(r, a, p)
CreateOneExecutor(a) == CreateExecutor(a)
UpdateOneExecutor(a) == \E e \in DOMAIN executors : UpdateExecutor(a, e)
DeleteOneExecutor(a) == \E e \in DOMAIN executors : DeleteExecutor(a, e)
BatchCreateJobs(r, a) == \E batch \in Batch(a) : BatchInsert(r, batch)
UpdateOneJob(r, a) ==
    \E j \in DOMAIN tenantJobs, p \in DOMAIN projects,
       e \in DOMAIN executors \cup {Unset}, status \in Status \cup {Unset} : UpdateJob(r, a, j, p, e, status)
DeleteOneJob(a) == \E j \in DOMAIN tenantJobs : DeleteJob(a, j)

-----------------------------------------------------------------------------
TenantsStep ==
    \/ \E a \in Tenant :
           \/ Lookup(a) \/ UpdateOneProject(a)
           \/ CreateOneExecutor(a) \/ UpdateOneExecutor(a) \/ DeleteOneExecutor(a)
           \/ DeleteOneJob(a)
           \/ \E status \in Status : UpdateJobsStatusByAccountId(a, status)
    \/ \E r \in Request, a \in Tenant :
           \/ CreateOneProject(r, a) \/ DeleteOneProject(r, a) \/ BatchCreateJobs(r, a) \/ UpdateOneJob(r, a)
           \/ ScheduleFromPrompt(r, a)
    \/ \E r \in Request :
           \/ InsertProject(r) \/ CheckProject(r) \/ DeleteProjectRow(r)
           \/ InsertJobRows(r) \/ UpdateJobRow(r)
           \/ ResolveProject(r) \/ CreateResolvedProject(r)

(* Whether the step changes what request q, which it leaves alone, has read *)
(* and is about to rely on.                                                 *)
Overtakes(q) ==
    /\ requests'[q] = requests[q]
    /\ \/ /\ requests[q].pc \in {"insertProject", "createProject"}
          /\ NamedProjects(requests[q].account, requests[q].name)' # {}
       \/ requests[q].pc = "deleteProject" /\ JobsOfProject(requests[q].project)' # {}
       \/ requests[q].pc = "updateJob" /\ tenantJobs'[requests[q].job] # tenantJobs[requests[q].job]

TenantsNext ==
    /\ TenantsStep
    /\ overtaken' = [q \in Request |-> requests'[q] # NotAsked /\ (overtaken[q] \/ Overtakes(q))]

TenantsSpec == TenantsInit /\ [][TenantsNext]_tenantsVars
-----------------------------------------------------------------------------
(* Properties.                                                              *)

AccountOf(row) ==
    CASE row[1] = "project"  -> projects[row[2]].account
      [] row[1] = "executor" -> executors[row[2]].account
      [] row[1] = "job"      -> tenantJobs[row[2]].account

(* The tenancy of the API: whatever requests interleave, a job's project    *)
(* and executor are of the job's own account, so that no account runs jobs  *)
(* on the executor of another, and an answer has rows of the account that   *)
(* asked only (validateBatch, UpdateJob, and the account_id conditions of   *)
(* the repositories).                                                       *)
TenantsApart ==
    /\ \A j \in DOMAIN tenantJobs :
           /\ projects[tenantJobs[j].project].account = tenantJobs[j].account
           /\ executors[tenantJobs[j].executor].account = tenantJobs[j].account
    /\ \A row \in shown.rows : AccountOf(row) = shown.account

(* The checks of the handlers fail only in a race: a project is deleted     *)
(* with live jobs, gets a name that a live project of the account has, or   *)
(* an update of a job undoes a change of its executor or status that it     *)
(* does not mention, only if another request wrote those rows between the   *)
(* check and the write ("cannot delete project with jobs", "another project *)
(* exist with the same name", the merge of UpdateJob).                      *)
WritesWhatItChecked(r) ==
    requests'[r] # requests[r] /\ ~overtaken[r] =>
        CASE requests[r].pc = "deleteProject" -> JobsOfProject(requests[r].project) = {}
          [] requests[r].pc \in {"insertProject", "createProject"} ->
                 NamedProjects(requests[r].account, requests[r].name) = {}
          [] requests[r].pc = "updateJob" ->
                 LET old == tenantJobs[requests[r].job]
                     new == tenantJobs'[requests[r].job]
                 IN  /\ requests[r].given[1] = Unset => new.executor = old.executor
                     /\ requests[r].given[2] = Unset /\ old.status \in Status => new.status = old.status
          [] OTHER -> TRUE
ChecksFailOnlyInRaces == [][\A r \in Request : WritesWhatItChecked(r)]_tenantsVars
=============================================================================
