---------------------------- MODULE TenantsProofs ----------------------------
(***************************************************************************)
(* The tenancy of the API in Tenants, for any accounts, any number of      *)
(* requests in progress and batches and tables of any length: accounts see *)
(* their own rows, and run jobs on their own executors. Then what one      *)
(* account has and uses, in Accounts: its ledger explains its balance, and *)
(* its limits are passed by requests that overlap only.                    *)
(***************************************************************************)
EXTENDS Tenants, Accounts, FiniteSetTheorems, WellFoundedInduction, TLAPS

(* Rows. A project keeps its account, so does an executor.                  *)
ProjectRow == [account : Tenant, name : ProjectName, live : BOOLEAN]
ExecutorRow == [account : Tenant, live : BOOLEAN]
JobStatus == {"active", "inactive", "deleted", ""}
JobRow == [account : Tenant, project : Nat, executor : Nat, live : BOOLEAN, status : JobStatus]

TablesOK ==
    /\ projects \in Seq(ProjectRow)
    /\ executors \in Seq(ExecutorRow)
    /\ tenantJobs \in Seq(JobRow)

(* A job has a project and an executor of its account.                      *)
Rooted(row) ==
    /\ row.project \in DOMAIN projects /\ projects[row.project].account = row.account
    /\ OwnExecutor(row.account, row.executor)

JobsOK == \A j \in DOMAIN tenantJobs : Rooted(tenantJobs[j])

(* What a request has read, and will write, is as rooted as the tables:     *)
(* this is what the time between the check and the write needs.             *)
Pending(q) ==
    /\ q.pc \in {"insertProject", "createProject"} => q.account \in Tenant /\ q.name \in ProjectName
    /\ q.pc \in {"resolveProject", "createProject"} =>
           q.account \in Tenant /\ OwnExecutor(q.account, q.executor)
    /\ q.pc \in {"checkProject", "deleteProject"} =>
           /\ q.project \in DOMAIN projects
           /\ q = [pc |-> q.pc, account |-> q.account, project |-> q.project]
    /\ q.pc = "insertJobs" => q.rows \in Seq(JobRow) /\ \A i \in DOMAIN q.rows : Rooted(q.rows[i])
    /\ q.pc = "updateJob" => /\ OwnJob(q.account, q.job) /\ OwnExecutor(q.account, q.executor)
                             /\ q.status \in JobStatus

RequestsOK ==
    /\ requests = [r \in Request |-> requests[r]]
    /\ \A r \in Request : Pending(requests[r])

(* An answer has rows of the tables, of the account that asked.             *)
ShownRow(row) ==
    \/ row[1] = "project" /\ row[2] \in DOMAIN projects /\ projects[row[2]].account = shown.account
    \/ row[1] = "executor" /\ OwnExecutor(shown.account, row[2])
    \/ row[1] = "job" /\ OwnJob(shown.account, row[2])
ShownOK == \A row \in shown.rows : ShownRow(row)

TenantsInv == TablesOK /\ JobsOK /\ RequestsOK /\ ShownOK

-----------------------------------------------------------------------------
(* Every step adds rows or changes fields that tenancy does not look at.    *)
SameProjects ==
    /\ DOMAIN projects \subseteq DOMAIN projects'
    /\ \A p \in DOMAIN projects : projects'[p].account = projects[p].account
SameExecutors ==
    /\ DOMAIN executors \subseteq DOMAIN executors'
    /\ \A e \in DOMAIN executors : executors'[e].account = executors[e].account
SameJobs ==
    /\ DOMAIN tenantJobs \subseteq DOMAIN tenantJobs'
    /\ \A j \in DOMAIN tenantJobs : tenantJobs'[j].account = tenantJobs[j].account
OwnersKept == TablesOK' /\ SameProjects /\ SameExecutors /\ SameJobs

LEMMA RootedKept ==
    ASSUME OwnersKept, NEW row, Rooted(row)
    PROVE  Rooted(row)'
  BY DEF OwnersKept, SameProjects, SameExecutors, Rooted, OwnExecutor

LEMMA PendingKept ==
    ASSUME OwnersKept, NEW q, Pending(q)
    PROVE  Pending(q)'
  <1>1. q.pc = "insertJobs" => \A i \in DOMAIN q.rows : Rooted(q.rows[i])'
    BY RootedKept DEF Pending
  <1> QED
    BY <1>1 DEF OwnersKept, SameProjects, SameExecutors, SameJobs, Pending, OwnExecutor, OwnJob

(* One request ends or reads; the others have read what they had read.      *)
LEMMA OneRequest ==
    ASSUME RequestsOK, OwnersKept, NEW r \in Request, NEW q,
           requests' = [requests EXCEPT ![r] = q], Pending(q)'
    PROVE  RequestsOK'
  <1>1. \A s \in Request : requests'[s] = IF s = r THEN q ELSE requests[s]
    BY DEF RequestsOK
  <1>2. \A s \in Request : Pending(requests[s])'
    BY <1>1, PendingKept DEF RequestsOK
  <1> QED
    BY <1>2 DEF RequestsOK

LEMMA SameRequests ==
    ASSUME RequestsOK, OwnersKept, UNCHANGED requests
    PROVE  RequestsOK'
  BY PendingKept DEF RequestsOK

LEMMA RequestEnds ==
    ASSUME RequestsOK, OwnersKept, NEW r \in Request, requests' = [requests EXCEPT ![r] = NotAsked]
    PROVE  RequestsOK'
  <1>1. Pending(NotAsked)'
    BY DEF Pending, NotAsked
  <1> QED
    BY <1>1, OneRequest

LEMMA SameShown ==
    ASSUME ShownOK, OwnersKept, UNCHANGED shown \/ shown' = NothingShown
    PROVE  ShownOK'
  BY DEF ShownOK, ShownRow, NothingShown, OwnersKept, SameProjects, SameExecutors, SameJobs,
         OwnExecutor, OwnJob

LEMMA SameTables ==
    ASSUME TablesOK, UNCHANGED tables
    PROVE  OwnersKept
  BY DEF TablesOK, tables, OwnersKept, SameProjects, SameExecutors, SameJobs

LEMMA SameJobRows ==
    ASSUME JobsOK, OwnersKept, UNCHANGED tenantJobs
    PROVE  JobsOK'
  BY RootedKept DEF JobsOK

(* A handler that reads ends with what it knows.                            *)
LEMMA ReadsKeeps ==
    ASSUME TenantsInv, NEW r \in Request, NEW q, Pending(q), UNCHANGED <<tables, shown>>,
           requests' = [requests EXCEPT ![r] = q]
    PROVE  TenantsInv'
  <1>1. OwnersKept
    BY SameTables DEF TenantsInv
  <1>2. Pending(q)'
    BY <1>1, PendingKept
  <1> QED
    BY <1>1, <1>2, OneRequest, SameShown, SameJobRows DEF TenantsInv, OwnersKept, tables

(* A handler that answers shows what the repositories select.               *)
LEMMA AnswerKeeps ==
    ASSUME TenantsInv, UNCHANGED <<tables, requests>>, ShownOK'
    PROVE  TenantsInv'
  <1>1. OwnersKept
    BY SameTables DEF TenantsInv
  <1> QED
    BY <1>1, SameRequests, SameJobRows DEF TenantsInv, OwnersKept, tables

-----------------------------------------------------------------------------
(* Answers.                                                                 *)

LEMMA ShowProjects ==
    ASSUME NEW a, NEW ids, Show(a, "project", ids), UNCHANGED tables,
           \A i \in ids : i \in DOMAIN projects /\ projects[i].account = a
    PROVE  ShownOK'
  BY DEF Show, ShownOK, ShownRow, tables

LEMMA ShowExecutors ==
    ASSUME NEW a, NEW ids, Show(a, "executor", ids), UNCHANGED tables,
           \A i \in ids : OwnExecutor(a, i)
    PROVE  ShownOK'
  BY DEF Show, ShownOK, ShownRow, tables, OwnExecutor

LEMMA ShowJobs ==
    ASSUME NEW a, NEW ids, Show(a, "job", ids), UNCHANGED tables,
           \A i \in ids : OwnJob(a, i)
    PROVE  ShownOK'
  BY DEF Show, ShownOK, ShownRow, tables, OwnJob

LEMMA LookupKeeps ==
    ASSUME TenantsInv, NEW a \in Tenant, Lookup(a)
    PROVE  TenantsInv'
  <1> SUFFICES ShownOK'
    BY AnswerKeeps DEF Lookup
  <1>1. UNCHANGED tables
    BY DEF Lookup
  <1>2. /\ \A p \in ProjectsOf(a) : p \in DOMAIN projects /\ projects[p].account = a
        /\ \A e \in ExecutorsOf(a) : OwnExecutor(a, e)
        /\ \A j \in JobsOf(a) : OwnJob(a, j)
    BY DEF ProjectsOf, OwnProject, ExecutorsOf, JobsOf
  <1>3. CASE GetOneProject(a)
    <2>1. PICK p \in ProjectsOf(a) : Show(a, "project", {p})
      BY <1>3 DEF GetOneProject
    <2>2. \A i \in {p} : i \in DOMAIN projects /\ projects[i].account = a
      BY <1>2
    <2> QED
      BY <1>1, <2>1, <2>2, ShowProjects
  <1>4. CASE ListProjects(a)
    BY <1>1, <1>2, <1>4, ShowProjects DEF ListProjects
  <1>5. CASE GetOneExecutor(a)
    <2>1. PICK e \in DOMAIN executors : OwnExecutor(a, e) /\ Show(a, "executor", {e})
      BY <1>5 DEF GetOneExecutor
    <2>2. \A i \in {e} : OwnExecutor(a, i)
      BY <2>1
    <2> QED
      BY <1>1, <2>1, <2>2, ShowExecutors
  <1>6. CASE ListExecutors(a)
    BY <1>1, <1>2, <1>6, ShowExecutors DEF ListExecutors
  <1>7. CASE PullJobs(a)
    <2>1. PICK e \in DOMAIN executors : Show(a, "job", JobsOfExecutor(a, e))
      BY <1>7 DEF PullJobs
    <2>2. \A i \in JobsOfExecutor(a, e) : OwnJob(a, i)
      BY <1>2 DEF JobsOfExecutor
    <2> QED
      BY <1>1, <2>1, <2>2, ShowJobs
  <1>8. CASE GetOneJob(a)
    <2>1. PICK j \in DOMAIN tenantJobs : OwnJob(a, j) /\ Show(a, "job", {j})
      BY <1>8 DEF GetOneJob
    <2>2. \A i \in {j} : OwnJob(a, i)
      BY <2>1
    <2> QED
      BY <1>1, <2>1, <2>2, ShowJobs
  <1>9. CASE ListJobs(a)
    <2>1. PICK ids \in SUBSET JobsOf(a) : Show(a, "job", ids)
      BY <1>9 DEF ListJobs
    <2> QED
      BY <1>1, <1>2, <2>1, ShowJobs
  <1> QED
    BY <1>3, <1>4, <1>5, <1>6, <1>7, <1>8, <1>9 DEF Lookup

LEMMA UpdateProjectKeeps ==
    ASSUME TenantsInv, NEW a \in Tenant, UpdateOneProject(a)
    PROVE  TenantsInv'
  <1>1. PICK p \in DOMAIN projects : UpdateProject(a, p)
    BY DEF UpdateOneProject
  <1>2. ShownOK'
    BY <1>1, ShowProjects DEF UpdateProject, OwnProject
  <1> QED
    BY <1>1, <1>2, AnswerKeeps DEF UpdateProject

LEMMA UpdateExecutorKeeps ==
    ASSUME TenantsInv, NEW a \in Tenant, UpdateOneExecutor(a)
    PROVE  TenantsInv'
  <1>1. PICK e \in DOMAIN executors : UpdateExecutor(a, e)
    BY DEF UpdateOneExecutor
  <1>2. ShownOK'
    BY <1>1, ShowExecutors DEF UpdateExecutor, UpdatedExecutor
  <1> QED
    BY <1>1, <1>2, AnswerKeeps DEF UpdateExecutor

-----------------------------------------------------------------------------
(* Requests that read.                                                      *)

LEMMA CreateProjectKeeps ==
    ASSUME TenantsInv, NEW r \in Request, NEW a \in Tenant, CreateOneProject(r, a)
    PROVE  TenantsInv'
  <1>1. PICK name \in ProjectName : CreateProject(r, a, name)
    BY DEF CreateOneProject
  <1> DEFINE q == [pc |-> "insertProject", account |-> a, name |-> name]
  <1>2. Pending(q)
    BY DEF Pending
  <1> QED
    BY <1>1, <1>2, ReadsKeeps DEF CreateProject, Reads

LEMMA ScheduleKeeps ==
    ASSUME TenantsInv, NEW r \in Request, NEW a \in Tenant, ScheduleFromPrompt(r, a)
    PROVE  TenantsInv'
  <1>1. PICK e \in ResolvedExecutor(a) : Reads(r, [pc |-> "resolveProject", account |-> a, executor |-> e])
    BY DEF ScheduleFromPrompt
  <1> DEFINE q == [pc |-> "resolveProject", account |-> a, executor |-> e]
  <1>2. Pending(q)
    BY DEF Pending, ResolvedExecutor
  <1> QED
    BY <1>1, <1>2, ReadsKeeps DEF Reads

LEMMA NewJobRow ==
    ASSUME NEW a \in Tenant,
           NEW row \in [account : {a}, project : 1..MaxProjects, executor : 1..MaxExecutors,
                       live : {TRUE}, status : {"active"}]
    PROVE  row \in JobRow
  <1>1. 1..MaxProjects \subseteq Nat /\ 1..MaxExecutors \subseteq Nat
    OBVIOUS
  <1> QED
    BY <1>1, Zenon DEF JobRow, JobStatus

(* The check of a batch makes its rows rooted.                              *)
LEMMA ValidBatchIsRooted ==
    ASSUME NEW a \in Tenant, NEW batch \in Batch(a), ValidBatch(batch)
    PROVE  batch \in Seq(JobRow) /\ \A i \in DOMAIN batch : Rooted(batch[i])
  <1>1. PICK n \in 1..MaxBatchJobs :
            batch \in [1..n -> [account : {a}, project : 1..MaxProjects, executor : 1..MaxExecutors,
                                live : {TRUE}, status : {"active"}]]
    BY DEF Batch
  <1>2. \A i \in 1..n : batch[i] \in JobRow
    BY <1>1, NewJobRow
  <1>3. n \in Nat /\ batch \in [1..n -> JobRow]
    BY <1>1, <1>2
  <1>4. batch \in Seq(JobRow)
    BY <1>3
  <1>5. ASSUME NEW i \in DOMAIN batch
        PROVE  Rooted(batch[i])
    <2>1. batch[i].project \in DOMAIN projects /\ batch[i].executor \in DOMAIN executors
      BY DEF ValidBatch, BatchOfProjects, BatchOfExecutors
    <2> QED
      BY <2>1 DEF ValidBatch, Rooted, OwnExecutor
  <1> QED
    BY <1>4, <1>5

LEMMA BatchKeeps ==
    ASSUME TenantsInv, NEW r \in Request, NEW a \in Tenant, BatchCreateJobs(r, a)
    PROVE  TenantsInv'
  <1>1. PICK batch \in Batch(a) : BatchInsert(r, batch)
    BY DEF BatchCreateJobs
  <1> DEFINE q == [pc |-> "insertJobs", rows |-> batch]
  <1>2. Pending(q)
    BY <1>1, ValidBatchIsRooted DEF Pending, BatchInsert
  <1> QED
    BY <1>1, <1>2, ReadsKeeps DEF BatchInsert, Reads

LEMMA UpdateJobKeeps ==
    ASSUME TenantsInv, NEW r \in Request, NEW a \in Tenant, UpdateOneJob(r, a)
    PROVE  TenantsInv'
  <1>1. PICK j \in DOMAIN tenantJobs, p \in DOMAIN projects,
             e \in DOMAIN executors \cup {Unset}, status \in Status \cup {Unset} :
                 UpdateJob(r, a, j, p, e, status)
    BY DEF UpdateOneJob
  <1> DEFINE executor == Merged(e, tenantJobs[j].executor)
             new == Merged(status, tenantJobs[j].status)
             stored == IF new = "" /\ a # SystemTenant THEN "active" ELSE new
             q == [pc |-> "updateJob", account |-> a, job |-> j, given |-> <<e, status>>,
                   executor |-> executor, status |-> stored]
  <1>2. tenantJobs[j] \in JobRow
    BY DEF TenantsInv, TablesOK
  <1>3. stored \in JobStatus
    BY <1>2 DEF Merged, Status, JobRow, JobStatus
  <1>4. OwnJob(a, j) /\ OwnExecutor(a, executor) /\ Reads(r, q)
    BY <1>1 DEF UpdateJob
  <1> HIDE DEF executor, stored
  <1>5. Pending(q)
    BY <1>3, <1>4 DEF Pending
  <1> QED
    BY <1>4, <1>5, ReadsKeeps DEF Reads

LEMMA CheckProjectKeeps ==
    ASSUME TenantsInv, NEW r \in Request, CheckProject(r)
    PROVE  TenantsInv'
  <1> DEFINE q == IF JobsOfProject(requests[r].project) = {}
                  THEN [requests[r] EXCEPT !.pc = "deleteProject"] ELSE NotAsked
  <1>1. Pending(q)
    BY DEF TenantsInv, RequestsOK, CheckProject, Pending, NotAsked
  <1>2. requests' = [requests EXCEPT ![r] = q]
    BY DEF CheckProject
  <1> QED
    BY <1>1, <1>2, ReadsKeeps DEF CheckProject

-----------------------------------------------------------------------------
(* Requests that write. A row is added at the end of its table.             *)

LEMMA AppendProject ==
    ASSUME TablesOK, NEW row \in ProjectRow, projects' = Append(projects, row),
           UNCHANGED <<executors, tenantJobs>>
    PROVE  OwnersKept
  BY DEF TablesOK, OwnersKept, SameProjects, SameExecutors, SameJobs

LEMMA AppendExecutor ==
    ASSUME TablesOK, NEW row \in ExecutorRow, executors' = Append(executors, row),
           UNCHANGED <<projects, tenantJobs>>
    PROVE  OwnersKept
  BY DEF TablesOK, OwnersKept, SameProjects, SameExecutors, SameJobs

LEMMA AppendJobs ==
    ASSUME TablesOK, NEW rows \in Seq(JobRow), tenantJobs' = tenantJobs \o rows,
           UNCHANGED <<projects, executors>>
    PROVE  OwnersKept
  BY DEF TablesOK, OwnersKept, SameProjects, SameExecutors, SameJobs

LEMMA InsertProjectKeeps ==
    ASSUME TenantsInv, NEW r \in Request, InsertProject(r)
    PROVE  TenantsInv'
  <1> DEFINE row == [account |-> requests[r].account, name |-> requests[r].name, live |-> TRUE]
  <1>1. row \in ProjectRow
    BY DEF TenantsInv, RequestsOK, Pending, InsertProject, ProjectRow
  <1>2. OwnersKept
    BY <1>1, AppendProject DEF TenantsInv, InsertProject
  <1> QED
    BY <1>2, RequestEnds, SameShown, SameJobRows DEF TenantsInv, OwnersKept, InsertProject, Ends

LEMMA DeleteProjectRowKeeps ==
    ASSUME TenantsInv, NEW r \in Request, DeleteProjectRow(r)
    PROVE  TenantsInv'
  <1>1. requests[r].project \in DOMAIN projects
    BY DEF TenantsInv, RequestsOK, Pending, DeleteProjectRow
  <1> DEFINE p == requests[r].project
             row == [projects[p] EXCEPT !.live = FALSE]
  <1>2. projects[p] \in ProjectRow
    BY <1>1 DEF TenantsInv, TablesOK
  <1>3. row \in ProjectRow /\ row.account = projects[p].account
    BY <1>2 DEF ProjectRow
  <1>4. projects' = [projects EXCEPT ![p] = row]
    BY DEF DeleteProjectRow
  <1> HIDE DEF row
  <1>5. OwnersKept
    BY <1>1, <1>3, <1>4
    DEF TenantsInv, TablesOK, OwnersKept, SameProjects, SameExecutors, SameJobs, DeleteProjectRow
  <1> QED
    BY <1>5, RequestEnds, SameShown, SameJobRows DEF TenantsInv, OwnersKept, DeleteProjectRow, Ends

LEMMA CreateExecutorKeeps ==
    ASSUME TenantsInv, NEW a \in Tenant, CreateExecutor(a)
    PROVE  TenantsInv'
  <1>1. [account |-> a, live |-> TRUE] \in ExecutorRow
    BY DEF ExecutorRow
  <1>2. OwnersKept
    BY <1>1, AppendExecutor DEF TenantsInv, CreateExecutor
  <1> QED
    BY <1>2, SameRequests, SameShown, SameJobRows DEF TenantsInv, OwnersKept, CreateExecutor

LEMMA DeleteExecutorKeeps ==
    ASSUME TenantsInv, NEW a \in Tenant, NEW e \in DOMAIN executors, DeleteExecutor(a, e)
    PROVE  TenantsInv'
  <1> DEFINE row == [executors[e] EXCEPT !.live = FALSE]
  <1>1. executors[e] \in ExecutorRow
    BY DEF TenantsInv, TablesOK
  <1>2. row \in ExecutorRow /\ row.account = executors[e].account
    BY <1>1 DEF ExecutorRow
  <1>3. executors' = [executors EXCEPT ![e] = row] /\ UNCHANGED <<projects, tenantJobs>>
    BY DEF DeleteExecutor
  <1> HIDE DEF row
  <1>4. OwnersKept
    BY <1>2, <1>3 DEF TenantsInv, TablesOK, OwnersKept, SameProjects, SameExecutors, SameJobs
  <1> QED
    BY <1>4, SameRequests, SameShown, SameJobRows DEF TenantsInv, OwnersKept, DeleteExecutor

(* Jobs that keep their account and project, and whose executor is one of   *)
(* their account.                                                           *)
LEMMA RewriteJobs ==
    ASSUME TablesOK, JobsOK, UNCHANGED <<projects, executors>>,
           NEW f, tenantJobs' = [j \in DOMAIN tenantJobs |-> f[j]],
           \A j \in DOMAIN tenantJobs :
               /\ f[j] \in JobRow
               /\ f[j].account = tenantJobs[j].account /\ f[j].project = tenantJobs[j].project
               /\ OwnExecutor(f[j].account, f[j].executor)
    PROVE  OwnersKept /\ JobsOK'
  <1>1. tenantJobs' \in Seq(JobRow)
    <2>1. Len(tenantJobs) \in Nat /\ DOMAIN tenantJobs = 1..Len(tenantJobs)
      BY DEF TablesOK
    <2>2. tenantJobs' \in [1..Len(tenantJobs) -> JobRow]
      BY <2>1
    <2> QED
      BY <2>1, <2>2
  <1>2. OwnersKept
    BY <1>1 DEF TablesOK, OwnersKept, SameProjects, SameExecutors, SameJobs
  <1>3. ASSUME NEW j \in DOMAIN tenantJobs
        PROVE  Rooted(f[j])
    BY DEF JobsOK, Rooted
  <1> QED
    BY <1>2, <1>3 DEF JobsOK, Rooted, OwnExecutor

LEMMA DeleteProjectKeeps ==
    ASSUME TenantsInv, NEW r \in Request, NEW a \in Tenant, NEW p \in DOMAIN projects,
           DeleteProject(r, a, p)
    PROVE  TenantsInv'
  <1> DEFINE f == [j \in DOMAIN tenantJobs |->
                     IF j \in JobsOfProject(p) \cap JobsOf(a)
                     THEN [tenantJobs[j] EXCEPT !.live = FALSE, !.status = "deleted"] ELSE tenantJobs[j]]
             q == [pc |-> "checkProject", account |-> a, project |-> p]
  <1>1. ASSUME NEW j \in DOMAIN tenantJobs
        PROVE  /\ f[j] \in JobRow
               /\ f[j].account = tenantJobs[j].account /\ f[j].project = tenantJobs[j].project
               /\ OwnExecutor(f[j].account, f[j].executor)
    <2>1. tenantJobs[j] \in JobRow /\ OwnExecutor(tenantJobs[j].account, tenantJobs[j].executor)
      BY DEF TenantsInv, TablesOK, JobsOK, Rooted
    <2> QED
      BY <2>1 DEF JobRow, JobStatus
  <1>2. tenantJobs' = [j \in DOMAIN tenantJobs |-> f[j]] /\ UNCHANGED <<projects, executors>>
    BY DEF DeleteProject, WithoutJobsOf
  <1> HIDE DEF f
  <1>3. OwnersKept /\ JobsOK'
    BY <1>1, <1>2, RewriteJobs DEF TenantsInv
  <1>4. Pending(q)'
    BY <1>2 DEF Pending
  <1>5. requests' = [requests EXCEPT ![r] = q] /\ UNCHANGED shown
    BY DEF DeleteProject
  <1> HIDE DEF q
  <1> QED
    BY <1>3, <1>4, <1>5, OneRequest, SameShown DEF TenantsInv, OwnersKept

LEMMA InsertJobRowsKeeps ==
    ASSUME TenantsInv, NEW r \in Request, InsertJobRows(r)
    PROVE  TenantsInv'
  <1> DEFINE rows == requests[r].rows
  <1>1. rows \in Seq(JobRow) /\ \A i \in DOMAIN rows : Rooted(rows[i])
    BY DEF TenantsInv, RequestsOK, Pending, InsertJobRows
  <1>2. tenantJobs' = tenantJobs \o rows /\ UNCHANGED <<projects, executors>>
    BY DEF InsertJobRows
  <1> HIDE DEF rows
  <1>3. OwnersKept
    BY <1>1, <1>2, AppendJobs DEF TenantsInv
  <1>4. ASSUME NEW j \in DOMAIN tenantJobs'
        PROVE  Rooted(tenantJobs'[j])
    BY <1>1, <1>2 DEF TenantsInv, TablesOK, JobsOK
  <1>5. JobsOK'
    BY <1>2, <1>4 DEF JobsOK, Rooted, OwnExecutor
  <1> QED
    BY <1>3, <1>5, RequestEnds, SameShown DEF TenantsInv, OwnersKept, InsertJobRows, Ends

(* The executor that the update stores was one of the account when it was   *)
(* checked, and an executor keeps its account.                              *)
LEMMA UpdateJobRowKeeps ==
    ASSUME TenantsInv, NEW r \in Request, UpdateJobRow(r)
    PROVE  TenantsInv'
  <1> DEFINE q == requests[r]
             f == [tenantJobs EXCEPT ![q.job] =
                      [@ EXCEPT !.executor = q.executor, !.status = q.status, !.live = TRUE]]
  <1>1. OwnJob(q.account, q.job) /\ OwnExecutor(q.account, q.executor) /\ q.status \in JobStatus
    BY DEF TenantsInv, RequestsOK, Pending, UpdateJobRow
  <1>2. ASSUME NEW j \in DOMAIN tenantJobs
        PROVE  /\ f[j] \in JobRow
               /\ f[j].account = tenantJobs[j].account /\ f[j].project = tenantJobs[j].project
               /\ OwnExecutor(f[j].account, f[j].executor)
    <2>1. tenantJobs[j] \in JobRow /\ OwnExecutor(tenantJobs[j].account, tenantJobs[j].executor)
      BY DEF TenantsInv, TablesOK, JobsOK, Rooted
    <2>2. CASE j # q.job
      BY <2>1, <2>2
    <2>3. CASE j = q.job
      <3> DEFINE row == [tenantJobs[j] EXCEPT !.executor = q.executor, !.status = q.status, !.live = TRUE]
      <3>1. f[j] = row /\ tenantJobs[j].account = q.account
        BY <1>1, <2>3 DEF OwnJob
      <3>2. q.executor \in Nat
        BY <1>1 DEF OwnExecutor, TenantsInv, TablesOK
      <3>3. /\ row.account = tenantJobs[j].account /\ row.project = tenantJobs[j].project
            /\ row.executor = q.executor /\ row \in JobRow
        BY <1>1, <2>1, <3>2 DEF JobRow
      <3> HIDE DEF row
      <3> QED
        BY <1>1, <3>1, <3>3
    <2> QED
      BY <2>2, <2>3
  <1>3. tenantJobs' = f /\ UNCHANGED <<projects, executors>> /\ DOMAIN f = DOMAIN tenantJobs
    BY DEF UpdateJobRow
  <1>4. tenantJobs' = [j \in DOMAIN tenantJobs |-> f[j]]
    BY <1>3
  <1> HIDE DEF f
  <1>5. OwnersKept /\ JobsOK'
    BY <1>2, <1>3, <1>4, RewriteJobs DEF TenantsInv
  <1> QED
    BY <1>5, RequestEnds, SameShown DEF TenantsInv, OwnersKept, UpdateJobRow, Ends

LEMMA DeleteJobKeeps ==
    ASSUME TenantsInv, NEW a \in Tenant, NEW i \in DOMAIN tenantJobs, DeleteJob(a, i)
    PROVE  TenantsInv'
  <1> DEFINE f == [tenantJobs EXCEPT ![i] = DeletedRow(@)]
  <1>1. ASSUME NEW j \in DOMAIN tenantJobs
        PROVE  /\ f[j] \in JobRow
               /\ f[j].account = tenantJobs[j].account /\ f[j].project = tenantJobs[j].project
               /\ OwnExecutor(f[j].account, f[j].executor)
    <2>1. tenantJobs[j] \in JobRow /\ OwnExecutor(tenantJobs[j].account, tenantJobs[j].executor)
      BY DEF TenantsInv, TablesOK, JobsOK, Rooted
    <2> QED
      BY <2>1 DEF JobRow, JobStatus, DeletedRow
  <1>2. tenantJobs' = f /\ UNCHANGED <<projects, executors>> /\ DOMAIN f = DOMAIN tenantJobs
    BY DEF DeleteJob
  <1>3. tenantJobs' = [j \in DOMAIN tenantJobs |-> f[j]]
    BY <1>2
  <1> HIDE DEF f
  <1>4. OwnersKept /\ JobsOK'
    BY <1>1, <1>2, <1>3, RewriteJobs DEF TenantsInv
  <1> QED
    BY <1>4, SameRequests, SameShown DEF TenantsInv, OwnersKept, DeleteJob

LEMMA UpdateStatusKeeps ==
    ASSUME TenantsInv, NEW a \in Tenant, NEW status \in Status, UpdateJobsStatusByAccountId(a, status)
    PROVE  TenantsInv'
  <1> DEFINE f == [j \in DOMAIN tenantJobs |->
                     IF j \in JobsOf(a) THEN [tenantJobs[j] EXCEPT !.status = status] ELSE tenantJobs[j]]
  <1>1. ASSUME NEW j \in DOMAIN tenantJobs
        PROVE  /\ f[j] \in JobRow
               /\ f[j].account = tenantJobs[j].account /\ f[j].project = tenantJobs[j].project
               /\ OwnExecutor(f[j].account, f[j].executor)
    <2>1. tenantJobs[j] \in JobRow /\ OwnExecutor(tenantJobs[j].account, tenantJobs[j].executor)
      BY DEF TenantsInv, TablesOK, JobsOK, Rooted
    <2> QED
      BY <2>1 DEF JobRow, JobStatus, Status
  <1>2. tenantJobs' = [j \in DOMAIN tenantJobs |-> f[j]] /\ UNCHANGED <<projects, executors>>
    BY DEF UpdateJobsStatusByAccountId
  <1> HIDE DEF f
  <1>3. OwnersKept /\ JobsOK'
    BY <1>1, <1>2, RewriteJobs DEF TenantsInv
  <1> QED
    BY <1>3, SameRequests, SameShown DEF TenantsInv, OwnersKept, UpdateJobsStatusByAccountId

(* The jobs of a prompt are built for a project and an executor of the      *)
(* account that asks.                                                       *)
LEMMA BuiltJobs ==
    ASSUME NEW q, NEW n \in Nat, NEW p \in Nat, q.account \in Tenant, q.executor \in Nat
    PROVE  /\ buildJobs(q, p, n) \in Seq(JobRow)
           /\ \A i \in DOMAIN buildJobs(q, p, n) :
                  /\ buildJobs(q, p, n)[i].account = q.account /\ buildJobs(q, p, n)[i].project = p
                  /\ buildJobs(q, p, n)[i].executor = q.executor
  <1> DEFINE row == [account |-> q.account, project |-> p, executor |-> q.executor,
                     live |-> TRUE, status |-> "active"]
  <1>1. row \in JobRow
    BY DEF JobRow, JobStatus
  <1>2. buildJobs(q, p, n) = [i \in 1..n |-> row]
    BY DEF buildJobs
  <1>3. row.account = q.account /\ row.project = p /\ row.executor = q.executor
    OBVIOUS
  <1> HIDE DEF row
  <1> QED
    BY <1>1, <1>2, <1>3

LEMMA BuiltIsPending ==
    ASSUME TenantsInv, NEW r \in Request, requests[r].pc \in {"resolveProject", "createProject"},
           OwnersKept, NEW p \in DOMAIN projects', projects'[p].account = requests[r].account,
           InsertsBuilt(r, p)
    PROVE  RequestsOK'
  <1> DEFINE q == requests[r]
  <1>1. PICK n \in 1..MaxBatchJobs :
            requests' = [requests EXCEPT ![r] = [pc |-> "insertJobs", rows |-> buildJobs(q, p, n)]]
    BY DEF InsertsBuilt
  <1> DEFINE rows == buildJobs(q, p, n)
             new == [pc |-> "insertJobs", rows |-> rows]
  <1>2. q.account \in Tenant /\ OwnExecutor(q.account, q.executor)
    BY DEF TenantsInv, RequestsOK, Pending
  <1>3. OwnExecutor(q.account, q.executor) => q.executor \in DOMAIN executors'
                                              /\ executors'[q.executor].account = q.account
    BY DEF OwnExecutor, OwnersKept, SameExecutors
  <1>4. q.executor \in Nat /\ p \in Nat /\ n \in Nat
    BY <1>2, TenantsAssumption DEF OwnExecutor, TenantsInv, TablesOK, OwnersKept
  <1>5. /\ rows \in Seq(JobRow)
        /\ \A i \in DOMAIN rows : /\ rows[i].account = q.account /\ rows[i].project = p
                                  /\ rows[i].executor = q.executor
    BY <1>2, <1>4, BuiltJobs
  <1>6. new.pc = "insertJobs" /\ new.rows = rows
    OBVIOUS
  <1> HIDE DEF rows, new
  <1>7. \A i \in DOMAIN rows : /\ rows[i].project \in DOMAIN projects'
                               /\ projects'[rows[i].project].account = rows[i].account
                               /\ rows[i].executor \in DOMAIN executors'
                               /\ executors'[rows[i].executor].account = rows[i].account
    BY <1>2, <1>3, <1>5
  <1>8. /\ requests' = [s \in Request |-> requests'[s]]
        /\ \A s \in Request : requests'[s] = IF s = r THEN new ELSE requests[s]
    BY <1>1 DEF TenantsInv, RequestsOK, new, rows
  <1>9. ASSUME NEW s \in Request
        PROVE  Pending(requests[s])'
    <2>1. CASE s = r
      <3>1. requests'[s] = new
        BY <1>8, <2>1
      <3> QED
        BY <1>5, <1>6, <1>7, <3>1 DEF Pending, Rooted, OwnExecutor
    <2>2. CASE s # r
      <3>1. requests'[s] = requests[s] /\ Pending(requests[s])
        BY <1>8, <2>2 DEF TenantsInv, RequestsOK
      <3> QED
        BY <3>1, PendingKept
    <2> QED
      BY <2>1, <2>2
  <1> QED
    BY <1>8, <1>9 DEF RequestsOK

LEMMA ResolveProjectKeeps ==
    ASSUME TenantsInv, NEW r \in Request, ResolveProject(r)
    PROVE  TenantsInv'
  <1>1. OwnersKept /\ UNCHANGED <<tables, shown>>
    BY SameTables DEF TenantsInv, ResolveProject
  <1>2. SUFFICES RequestsOK'
    BY <1>1, SameShown, SameJobRows DEF TenantsInv, OwnersKept, tables
  <1>3. CASE \E p \in ProjectsOf(requests[r].account) : InsertsBuilt(r, p)
    <2>1. PICK p \in ProjectsOf(requests[r].account) : InsertsBuilt(r, p)
      BY <1>3
    <2>2. p \in DOMAIN projects' /\ projects'[p].account = requests[r].account
      BY <1>1 DEF ProjectsOf, OwnProject, tables
    <2> QED
      BY <1>1, <2>1, <2>2, BuiltIsPending DEF ResolveProject
  <1>4. CASE \E name \in deriveProject :
                requests' = [requests EXCEPT ![r] =
                    [pc |-> "createProject", account |-> @.account, executor |-> @.executor, name |-> name]]
    <2>1. PICK name \in ProjectName :
             requests' = [requests EXCEPT ![r] = [pc |-> "createProject", account |-> requests[r].account,
                                                  executor |-> requests[r].executor, name |-> name]]
      BY <1>4 DEF deriveProject
    <2> DEFINE q == [pc |-> "createProject", account |-> requests[r].account,
                     executor |-> requests[r].executor, name |-> name]
    <2>2. Pending(q)
      BY DEF TenantsInv, RequestsOK, ResolveProject, Pending
    <2> QED
      BY <1>1, <2>1, <2>2, ReadsKeeps DEF TenantsInv
  <1> QED
    BY <1>3, <1>4 DEF ResolveProject

LEMMA CreateResolvedProjectKeeps ==
    ASSUME TenantsInv, NEW r \in Request, CreateResolvedProject(r)
    PROVE  TenantsInv'
  <1> DEFINE row == [account |-> requests[r].account, name |-> requests[r].name, live |-> TRUE]
             p == Len(projects) + 1
  <1>1. row \in ProjectRow
    BY DEF TenantsInv, RequestsOK, Pending, CreateResolvedProject, ProjectRow
  <1>2. projects' = Append(projects, row) /\ row.account = requests[r].account
    BY DEF CreateResolvedProject
  <1> HIDE DEF row
  <1>3. OwnersKept
    BY <1>1, <1>2, AppendProject DEF TenantsInv, CreateResolvedProject
  <1>4. p \in DOMAIN projects' /\ projects'[p].account = requests[r].account
    BY <1>1, <1>2 DEF TenantsInv, TablesOK
  <1>5. RequestsOK'
    BY <1>3, <1>4, BuiltIsPending DEF CreateResolvedProject
  <1> QED
    BY <1>3, <1>5, SameShown, SameJobRows DEF TenantsInv, OwnersKept, CreateResolvedProject

-----------------------------------------------------------------------------
LEMMA TenantsStepKeeps ==
    ASSUME TenantsInv, TenantsStep
    PROVE  TenantsInv'
  <1>1. ASSUME NEW a \in Tenant, CreateOneExecutor(a) \/ DeleteOneExecutor(a)
        PROVE  TenantsInv'
    BY <1>1, CreateExecutorKeeps, DeleteExecutorKeeps DEF CreateOneExecutor, DeleteOneExecutor
  <1>2. ASSUME NEW a \in Tenant, DeleteOneJob(a)
        PROVE  TenantsInv'
    BY <1>2, DeleteJobKeeps DEF DeleteOneJob
  <1>3. ASSUME NEW a \in Tenant, NEW r \in Request, DeleteOneProject(r, a)
        PROVE  TenantsInv'
    BY <1>3, DeleteProjectKeeps DEF DeleteOneProject
  <1> QED
    BY <1>1, <1>2, <1>3, LookupKeeps, UpdateProjectKeeps, UpdateExecutorKeeps, UpdateStatusKeeps,
       CreateProjectKeeps, ScheduleKeeps, BatchKeeps, UpdateJobKeeps, CheckProjectKeeps,
       InsertProjectKeeps, DeleteProjectRowKeeps, InsertJobRowsKeeps, UpdateJobRowKeeps,
       ResolveProjectKeeps, CreateResolvedProjectKeeps
    DEF TenantsStep

LEMMA TenantsInitHolds == TenantsInit => TenantsInv
  BY DEF TenantsInit, TenantsInv, TablesOK, JobsOK, RequestsOK, ShownOK, Pending, NotAsked, NothingShown

(* Whatever requests interleave between their reads and their writes, what  *)
(* a request has checked and not written yet stays rooted in the account it *)
(* was checked for (service/job/job.go validateBatch and UpdateJob; the     *)
(* rows of projects and executors never change their account).              *)
THEOREM TenantsInvariant == TenantsSpec => []TenantsInv
  <1>1. TenantsInv /\ UNCHANGED tenantsVars => TenantsInv'
    BY DEF tenantsVars, TenantsInv, TablesOK, JobsOK, Rooted, RequestsOK, Pending, ShownOK, ShownRow,
           OwnExecutor, OwnJob
  <1>2. TenantsInv /\ [TenantsNext]_tenantsVars => TenantsInv'
    BY <1>1, TenantsStepKeeps DEF TenantsNext
  <1> QED
    BY <1>2, TenantsInitHolds, PTL DEF TenantsSpec

(* Accounts are kept apart: a job's project and executor are of the job's   *)
(* own account, and an answer has rows of the account that asked only       *)
(* (validateBatch, UpdateJob, and the account_id conditions of the          *)
(* repositories), for any number of accounts, requests and rows.            *)
THEOREM AccountsAreApart == TenantsSpec => []TenantsApart
  <1>1. TenantsInv => TenantsApart
    BY DEF TenantsInv, JobsOK, Rooted, OwnExecutor, ShownOK, ShownRow, OwnJob, TenantsApart, AccountOf
  <1> QED
    BY <1>1, TenantsInvariant, PTL

-----------------------------------------------------------------------------
(* What a request has checked holds until another request writes the rows.  *)

(* An update writes what it has read of the fields it does not mention.     *)
Merges(q) ==
    /\ q.given[1] = Unset => q.executor = tenantJobs[q.job].executor
    /\ q.given[2] = Unset /\ tenantJobs[q.job].status \in Status => q.status = tenantJobs[q.job].status
CheckHolds(q) ==
    /\ q.pc = "deleteProject" => JobsOfProject(q.project) = {}
    /\ q.pc \in {"insertProject", "createProject"} => NamedProjects(q.account, q.name) = {}
    /\ q.pc = "updateJob" => Merges(q)

ChecksInv == \A r \in Request : ~overtaken[r] => CheckHolds(requests[r])

LEMMA OneChanges ==
    ASSUME TenantsInv, NEW r \in Request, NEW s \in Request, NEW q,
           requests' = [requests EXCEPT ![s] = q], requests'[r] # requests[r]
    PROVE  s = r /\ requests'[r] = q
  BY DEF TenantsInv, RequestsOK

(* A request that goes on has just checked what it now relies on.           *)
LEMMA ChecksFirst ==
    ASSUME TenantsInv, TenantsStep, NEW r \in Request, requests'[r] # requests[r]
    PROVE  CheckHolds(requests[r])'
  <1>0. \A pc \in {"idle", "insertJobs", "checkProject", "resolveProject"} : \A q : q.pc = pc => CheckHolds(q)'
    BY DEF CheckHolds
  <1>1. ASSUME NEW q, NEW s \in Request, requests' = [requests EXCEPT ![s] = q],
               q.pc \in {"idle", "insertJobs", "checkProject", "resolveProject"}
        PROVE  CheckHolds(requests[r])'
    <2>1. requests'[r] = q
      BY <1>1, OneChanges
    <2> QED
      BY <1>0, <1>1, <2>1
  <1>2. ASSUME NEW s \in Request, requests' = [requests EXCEPT ![s] = NotAsked]
        PROVE  CheckHolds(requests[r])'
    BY <1>1, <1>2 DEF NotAsked
  <1>3. ASSUME NEW s \in Request, NEW p, InsertsBuilt(s, p) PROVE CheckHolds(requests[r])'
    <2>1. PICK n \in 1..MaxBatchJobs :
             requests' = [requests EXCEPT ![s] = [pc |-> "insertJobs", rows |-> buildJobs(requests[s], p, n)]]
      BY <1>3 DEF InsertsBuilt
    <2> QED
      BY <1>1, <2>1
  <1>4. ASSUME NEW s \in Request, NEW a \in Tenant, CreateOneProject(s, a) PROVE CheckHolds(requests[r])'
    <2>1. PICK name \in ProjectName : CreateProject(s, a, name)
      BY <1>4 DEF CreateOneProject
    <2> DEFINE q == [pc |-> "insertProject", account |-> a, name |-> name]
    <2>2. requests'[r] = q /\ NamedProjects(a, name)' = {}
      <3>1. requests' = [requests EXCEPT ![s] = q]
        BY <2>1 DEF CreateProject, Reads
      <3>2. NamedProjects(a, name)' = {}
        BY <2>1 DEF CreateProject, Reads, NamedProjects, OwnProject, tables
      <3> QED
        BY <3>1, <3>2, OneChanges
    <2> QED
      BY <2>2 DEF CheckHolds
  <1>5. ASSUME NEW s \in Request, CheckProject(s) PROVE CheckHolds(requests[r])'
    <2>1. CASE JobsOfProject(requests[s].project) = {}
      <3> DEFINE q == [pc |-> "deleteProject", account |-> requests[s].account,
                       project |-> requests[s].project]
      <3>1. requests' = [requests EXCEPT ![s] = q]
        <4>1. requests[s] = [pc |-> requests[s].pc, account |-> requests[s].account,
                             project |-> requests[s].project]
          BY <1>5 DEF CheckProject, TenantsInv, RequestsOK, Pending
        <4>2. [requests[s] EXCEPT !.pc = "deleteProject"] = q
          BY <4>1
        <4>3. requests' = [requests EXCEPT ![s] = [requests[s] EXCEPT !.pc = "deleteProject"]]
          BY <1>5, <2>1 DEF CheckProject
        <4> QED
          BY <4>2, <4>3
      <3>2. JobsOfProject(q.project)' = {}
        BY <1>5, <2>1 DEF CheckProject, JobsOfProject, LiveJobs, tables
      <3> QED
        BY <3>1, <3>2, OneChanges DEF CheckHolds
    <2>2. CASE JobsOfProject(requests[s].project) # {}
      BY <1>2, <1>5, <2>2 DEF CheckProject
    <2> QED
      BY <2>1, <2>2
  <1>6. ASSUME NEW s \in Request, NEW a \in Tenant, UpdateOneJob(s, a) PROVE CheckHolds(requests[r])'
    <2>1. PICK j, p, e, status : UpdateJob(s, a, j, p, e, status)
      BY <1>6 DEF UpdateOneJob
    <2> DEFINE new == Merged(status, tenantJobs[j].status)
               q == [pc |-> "updateJob", account |-> a, job |-> j, given |-> <<e, status>>,
                     executor |-> Merged(e, tenantJobs[j].executor),
                     status |-> IF new = "" /\ a # SystemTenant THEN "active" ELSE new]
    <2>2. PICK read : read = q
      OBVIOUS
    <2>3. requests' = [requests EXCEPT ![s] = read] /\ UNCHANGED tables
      BY <2>1, <2>2 DEF UpdateJob, Reads
    <2>4. Merges(read) /\ read.pc = "updateJob"
      BY <2>2 DEF Merges, Merged, Status
    <2>5. Merges(read)'
      BY <2>3, <2>4 DEF Merges, tables
    <2>6. requests'[r] = read
      BY <2>3, OneChanges
    <2> QED
      BY <2>4, <2>5, <2>6 DEF CheckHolds, Merges
  <1>7. ASSUME NEW s \in Request, ResolveProject(s) PROVE CheckHolds(requests[r])'
    <2>1. CASE \E p \in ProjectsOf(requests[s].account) : InsertsBuilt(s, p)
      BY <1>3, <2>1
    <2>2. CASE \E name \in deriveProject :
              /\ NamedProjects(requests[s].account, name) = {}
              /\ requests' = [requests EXCEPT ![s] =
                     [pc |-> "createProject", account |-> @.account, executor |-> @.executor, name |-> name]]
      <3>1. PICK name \in deriveProject :
              /\ NamedProjects(requests[s].account, name) = {}
              /\ requests' = [requests EXCEPT ![s] =
                     [pc |-> "createProject", account |-> requests[s].account,
                      executor |-> requests[s].executor, name |-> name]]
        BY <2>2
      <3>2. \A a : NamedProjects(a, name)' = NamedProjects(a, name)
        BY <1>7 DEF ResolveProject, NamedProjects, OwnProject, tables
      <3>3. /\ requests'[r].pc = "createProject" /\ requests'[r].account = requests[s].account
            /\ requests'[r].name = name
        BY <3>1, OneChanges
      <3> QED
        BY <3>1, <3>2, <3>3 DEF CheckHolds, NamedProjects, OwnProject
    <2> QED
      BY <1>7, <2>1, <2>2 DEF ResolveProject
  <1>8. ASSUME NEW s \in Request, NEW a \in Tenant, DeleteOneProject(s, a) \/ BatchCreateJobs(s, a)
        PROVE  CheckHolds(requests[r])'
    <2>1. CASE DeleteOneProject(s, a)
      <3>1. PICK p \in DOMAIN projects : DeleteProject(s, a, p)
        BY <2>1 DEF DeleteOneProject
      <3> QED
        BY <1>1, <3>1 DEF DeleteProject
    <2>2. CASE BatchCreateJobs(s, a)
      <3>1. PICK batch \in Batch(a) : BatchInsert(s, batch)
        BY <2>2 DEF BatchCreateJobs
      <3> QED
        BY <1>1, <3>1 DEF BatchInsert, Reads
    <2> QED
      BY <1>8, <2>1, <2>2
  <1>9. ASSUME NEW s \in Request, NEW a \in Tenant, ScheduleFromPrompt(s, a) PROVE CheckHolds(requests[r])'
    <2>1. PICK e : Reads(s, [pc |-> "resolveProject", account |-> a, executor |-> e])
      BY <1>9 DEF ScheduleFromPrompt
    <2> QED
      BY <1>1, <2>1 DEF Reads
  <1>10. ASSUME NEW s \in Request,
                InsertProject(s) \/ DeleteProjectRow(s) \/ InsertJobRows(s) \/ UpdateJobRow(s)
         PROVE  CheckHolds(requests[r])'
    BY <1>2, <1>10 DEF InsertProject, DeleteProjectRow, InsertJobRows, UpdateJobRow, Ends
  <1>11. ASSUME NEW s \in Request, CreateResolvedProject(s) PROVE CheckHolds(requests[r])'
    BY <1>3, <1>11 DEF CreateResolvedProject
  <1>12. requests' # requests
    OBVIOUS
  <1>13. ASSUME NEW a \in Tenant, Lookup(a) \/ UpdateOneProject(a) \/ CreateOneExecutor(a)
                \/ UpdateOneExecutor(a) \/ DeleteOneExecutor(a) \/ DeleteOneJob(a)
                \/ \E status \in Status : UpdateJobsStatusByAccountId(a, status)
         PROVE  FALSE
    BY <1>12, <1>13 DEF Lookup, UpdateOneProject, UpdateProject, CreateOneExecutor, CreateExecutor,
           UpdateOneExecutor, UpdateExecutor, DeleteOneExecutor, DeleteExecutor, DeleteOneJob, DeleteJob,
           UpdateJobsStatusByAccountId
  <1> QED
    BY <1>4, <1>5, <1>6, <1>7, <1>8, <1>9, <1>10, <1>11, <1>13 DEF TenantsStep

(* A request that rests, and whose rows no other has written, relies on     *)
(* what is still true.                                                      *)
LEMMA ChecksStay ==
    ASSUME TenantsInv, NEW r \in Request, requests'[r] = requests[r], ~Overtakes(r),
           CheckHolds(requests[r])
    PROVE  CheckHolds(requests[r])'
  <1>1. requests[r].pc = "deleteProject" => JobsOfProject(requests[r].project)' = {}
    BY DEF Overtakes
  <1>2. requests[r].pc \in {"insertProject", "createProject"}
        => NamedProjects(requests[r].account, requests[r].name)' = {}
    BY DEF Overtakes
  <1>3. requests[r].pc = "updateJob" => Merges(requests[r])'
    BY DEF Overtakes, CheckHolds, Merges
  <1> QED
    BY <1>1, <1>2, <1>3 DEF CheckHolds

LEMMA ChecksStep ==
    ASSUME TenantsInv, ChecksInv, TenantsNext
    PROVE  ChecksInv'
  <1> SUFFICES ASSUME NEW r \in Request, ~overtaken'[r] PROVE CheckHolds(requests[r])'
    BY DEF ChecksInv
  <1>1. requests'[r] = NotAsked \/ (~overtaken[r] /\ ~Overtakes(r))
    BY DEF TenantsNext
  <1>2. CASE requests'[r] # requests[r]
    BY <1>2, ChecksFirst DEF TenantsNext
  <1>3. CASE requests'[r] = NotAsked
    BY <1>3 DEF CheckHolds, NotAsked
  <1>4. CASE requests'[r] = requests[r] /\ ~overtaken[r] /\ ~Overtakes(r)
    BY <1>4, ChecksStay DEF ChecksInv
  <1> QED
    BY <1>1, <1>2, <1>3, <1>4

(* An update that goes on writes.                                           *)
LEMMA UpdateGoesOn ==
    ASSUME TenantsInv, TenantsStep, NEW r \in Request, requests'[r] # requests[r],
           requests[r].pc = "updateJob"
    PROVE  UpdateJobRow(r)
  <1>1. \A s \in Request : \A q : requests' = [requests EXCEPT ![s] = q] => s = r
    BY OneChanges
  <1>2. ASSUME NEW s \in Request, NEW q, Reads(s, q) PROVE FALSE
    BY <1>1, <1>2 DEF Reads, NotAsked
  <1>3. ASSUME NEW s \in Request, NEW a \in Tenant,
               CreateOneProject(s, a) \/ DeleteOneProject(s, a) \/ BatchCreateJobs(s, a)
               \/ ScheduleFromPrompt(s, a)
        PROVE  FALSE
    <2>1. CASE DeleteOneProject(s, a)
      BY <1>1, <2>1 DEF DeleteOneProject, DeleteProject, NotAsked
    <2>2. CASE CreateOneProject(s, a)
      BY <1>2, <2>2 DEF CreateOneProject, CreateProject
    <2>3. CASE BatchCreateJobs(s, a)
      BY <1>2, <2>3 DEF BatchCreateJobs, BatchInsert
    <2>4. CASE ScheduleFromPrompt(s, a)
      BY <1>2, <2>4 DEF ScheduleFromPrompt
    <2> QED
      BY <1>3, <2>1, <2>2, <2>3, <2>4
  <1>4. ASSUME NEW s \in Request, NEW a \in Tenant, UpdateOneJob(s, a) PROVE FALSE
    <2>1. PICK j, p, e, status : UpdateJob(s, a, j, p, e, status)
      BY <1>4 DEF UpdateOneJob
    <2> QED
      BY <1>2, <2>1 DEF UpdateJob
  <1>5. ASSUME NEW s \in Request, ResolveProject(s) \/ CreateResolvedProject(s) PROVE FALSE
    <2>1. \E q : requests' = [requests EXCEPT ![s] = q]
      BY <1>5 DEF ResolveProject, CreateResolvedProject, InsertsBuilt
    <2> QED
      BY <1>1, <1>5, <2>1 DEF ResolveProject, CreateResolvedProject
  <1>6. ASSUME NEW s \in Request, InsertProject(s) \/ DeleteProjectRow(s) \/ InsertJobRows(s) PROVE FALSE
    BY <1>1, <1>6 DEF InsertProject, DeleteProjectRow, InsertJobRows, Ends
  <1>7. ASSUME NEW s \in Request, CheckProject(s) PROVE FALSE
    BY <1>1, <1>7 DEF CheckProject
  <1>8. ASSUME NEW s \in Request, UpdateJobRow(s) PROVE s = r
    BY <1>1, <1>8 DEF UpdateJobRow, Ends
  <1>9. ASSUME NEW a \in Tenant, Lookup(a) \/ UpdateOneProject(a) \/ CreateOneExecutor(a)
               \/ UpdateOneExecutor(a) \/ DeleteOneExecutor(a) \/ DeleteOneJob(a)
               \/ \E status \in Status : UpdateJobsStatusByAccountId(a, status)
        PROVE  FALSE
    <2>1. requests' # requests
      OBVIOUS
    <2> QED
      BY <1>9, <2>1 DEF Lookup, UpdateOneProject, UpdateProject, CreateOneExecutor, CreateExecutor,
         UpdateOneExecutor, UpdateExecutor, DeleteOneExecutor, DeleteExecutor, DeleteOneJob, DeleteJob,
         UpdateJobsStatusByAccountId
  <1> QED
    BY <1>3, <1>4, <1>5, <1>6, <1>7, <1>8, <1>9 DEF TenantsStep

LEMMA UpdateWritesWhatItRead ==
    ASSUME TenantsInv, NEW r \in Request, UpdateJobRow(r), Merges(requests[r])
    PROVE  /\ requests[r].given[1] = Unset
              => tenantJobs'[requests[r].job].executor = tenantJobs[requests[r].job].executor
           /\ requests[r].given[2] = Unset /\ tenantJobs[requests[r].job].status \in Status
              => tenantJobs'[requests[r].job].status = tenantJobs[requests[r].job].status
  <1> DEFINE j == requests[r].job
  <1>1. j \in DOMAIN tenantJobs /\ tenantJobs[j] \in JobRow
    BY DEF TenantsInv, RequestsOK, Pending, UpdateJobRow, OwnJob, TablesOK
  <1>2. tenantJobs'[j] = [tenantJobs[j] EXCEPT !.executor = requests[r].executor,
                                               !.status = requests[r].status, !.live = TRUE]
    BY <1>1 DEF UpdateJobRow
  <1>3. tenantJobs'[j].executor = requests[r].executor /\ tenantJobs'[j].status = requests[r].status
    BY <1>1, <1>2 DEF JobRow
  <1> QED
    BY <1>3 DEF Merges

LEMMA ChecksUsed ==
    ASSUME TenantsInv, ChecksInv, TenantsNext, NEW r \in Request
    PROVE  WritesWhatItChecked(r)
  <1> SUFFICES ASSUME requests'[r] # requests[r], ~overtaken[r]
               PROVE  /\ requests[r].pc = "deleteProject" => JobsOfProject(requests[r].project) = {}
                      /\ requests[r].pc \in {"insertProject", "createProject"}
                         => NamedProjects(requests[r].account, requests[r].name) = {}
                      /\ requests[r].pc = "updateJob" =>
                           /\ requests[r].given[1] = Unset
                              => tenantJobs'[requests[r].job].executor = tenantJobs[requests[r].job].executor
                           /\ requests[r].given[2] = Unset /\ tenantJobs[requests[r].job].status \in Status
                              => tenantJobs'[requests[r].job].status = tenantJobs[requests[r].job].status
    BY DEF WritesWhatItChecked
  <1>1. CheckHolds(requests[r])
    BY DEF ChecksInv
  <1>2. requests[r].pc = "updateJob" => UpdateJobRow(r) /\ Merges(requests[r])
    BY <1>1, UpdateGoesOn DEF TenantsNext, CheckHolds
  <1> QED
    BY <1>1, <1>2, UpdateWritesWhatItRead DEF CheckHolds

LEMMA ChecksInvariant == TenantsSpec => [](TenantsInv /\ ChecksInv)
  <1>1. TenantsInit => TenantsInv /\ ChecksInv
    BY TenantsInitHolds DEF TenantsInit, ChecksInv, CheckHolds, NotAsked
  <1>2. ChecksInv /\ UNCHANGED tenantsVars => ChecksInv'
    BY DEF tenantsVars, ChecksInv, CheckHolds, Merges, JobsOfProject, LiveJobs, NamedProjects, OwnProject
  <1>3. TenantsInv /\ ChecksInv /\ [TenantsNext]_tenantsVars => ChecksInv'
    BY <1>2, ChecksStep
  <1> QED
    BY <1>1, <1>3, TenantsInvariant, PTL DEF TenantsSpec

(* A check of a handler fails only when another request wrote the rows      *)
(* between the check and the write: else a project is deleted without live  *)
(* jobs, gets a name that no live project of the account has, and an update *)
(* of a job keeps the executor and the status it does not mention           *)
(* (DeleteOneByID and CreateOne of service/project/project.go, UpdateJob of *)
(* service/job/job.go).                                                     *)
THEOREM ChecksFailInRacesOnly == TenantsSpec => ChecksFailOnlyInRaces
  <1>1. TenantsInv /\ ChecksInv /\ [TenantsNext]_tenantsVars
        => [\A r \in Request : WritesWhatItChecked(r)]_tenantsVars
    BY ChecksUsed
  <1> QED
    BY <1>1, ChecksInvariant, PTL DEF TenantsSpec, ChecksFailOnlyInRaces

-----------------------------------------------------------------------------
(* Induction: a set of numbers with 0 and the successors of its members.    *)
LEMMA Inductive ==
    ASSUME NEW S \in SUBSET Nat, 0 \in S, \A n \in S : n + 1 \in S
    PROVE  S = Nat
  <1> DEFINE T == Nat \ S
  <1> SUFFICES ASSUME T # {} PROVE FALSE
    OBVIOUS
  <1>1. PICK x \in T : \A y \in T : ~(<<y, x>> \in OpToRel(<, Nat))
    BY NatLessThanWellFounded, WFMin
  <1>2. x # 0 /\ x - 1 \in Nat /\ (x - 1) + 1 = x
    OBVIOUS
  <1>3. \A y \in T : ~(y < x)
    BY <1>1 DEF OpToRel
  <1>4. x - 1 \in S
    <2>1. x - 1 < x
      BY <1>2
    <2> QED
      BY <1>2, <1>3, <2>1
  <1> QED
    BY <1>2, <1>4

-----------------------------------------------------------------------------
(* Sums of the first numbers of a sequence.                                 *)
Sums(amounts) == CHOOSE s : s = [i \in Nat |-> IF i = 0 THEN 0 ELSE s[i - 1] + amounts[i]]

SumsUpTo(amounts, n, s) == s = [i \in 0..n |-> IF i = 0 THEN 0 ELSE s[i - 1] + amounts[i]]

LEMMA SumsUpToExist == ASSUME NEW amounts PROVE \A n \in Nat : \E s : SumsUpTo(amounts, n, s)
  <1> DEFINE Good == {n \in Nat : \E s : SumsUpTo(amounts, n, s)}
  <1>1. 0 \in Good
    <2> DEFINE s == [i \in 0..0 |-> 0]
    <2>1. s = [i \in 0..0 |-> IF i = 0 THEN 0 ELSE s[i - 1] + amounts[i]]
      OBVIOUS
    <2> QED
      BY <2>1 DEF SumsUpTo
  <1>2. ASSUME NEW n \in Good PROVE n + 1 \in Good
    <2>1. PICK s : SumsUpTo(amounts, n, s)
      OBVIOUS
    <2> DEFINE t == [i \in 0..(n + 1) |-> IF i = n + 1 THEN s[n] + amounts[n + 1] ELSE s[i]]
    <2>2. ASSUME NEW i \in 0..(n + 1) PROVE t[i] = IF i = 0 THEN 0 ELSE t[i - 1] + amounts[i]
      <3>1. CASE i = n + 1
        <4>1. n \in 0..(n + 1) /\ n # n + 1 /\ i - 1 = n /\ i # 0
          BY <3>1
        <4> QED
          BY <3>1, <4>1
      <3>2. CASE i \in 0..n
        <4>1. s[i] = IF i = 0 THEN 0 ELSE s[i - 1] + amounts[i]
          BY <2>1, <3>2 DEF SumsUpTo
        <4>2. i # 0 => i - 1 \in 0..(n + 1) /\ i - 1 # n + 1
          BY <3>2
        <4>3. i # n + 1
          BY <3>2
        <4> QED
          BY <4>1, <4>2, <4>3
      <3> QED
        BY <3>1, <3>2
    <2>3. SumsUpTo(amounts, n + 1, t)
      <3> HIDE DEF t
      <3>1. t = [i \in 0..(n + 1) |-> t[i]]
        BY DEF t
      <3> QED
        BY <2>2, <3>1 DEF SumsUpTo
    <2> QED
      BY <2>3
  <1> HIDE DEF Good
  <1>3. Good = Nat
    BY <1>1, <1>2, Inductive DEF Good
  <1> QED
    BY <1>3 DEF Good

LEMMA SumsUpToAgree ==
    ASSUME NEW amounts, NEW m \in Nat, NEW n \in Nat, m <= n, NEW s, NEW t,
           SumsUpTo(amounts, m, s), SumsUpTo(amounts, n, t)
    PROVE  \A i \in 0..m : s[i] = t[i]
  <1> DEFINE Good == {i \in Nat : i <= m => s[i] = t[i]}
  <1>1. 0 \in Good
    BY DEF SumsUpTo
  <1>2. ASSUME NEW i \in Good PROVE i + 1 \in Good
    <2> SUFFICES ASSUME i + 1 <= m PROVE s[i + 1] = t[i + 1]
      OBVIOUS
    <2>1. i + 1 \in 0..m /\ i + 1 \in 0..n /\ i + 1 # 0 /\ (i + 1) - 1 = i /\ s[i] = t[i]
      OBVIOUS
    <2> QED
      BY <2>1 DEF SumsUpTo
  <1> HIDE DEF Good
  <1>3. Good = Nat
    BY <1>1, <1>2, Inductive DEF Good
  <1> QED
    BY <1>3 DEF Good

LEMMA SumsStep ==
    ASSUME NEW amounts
    PROVE  Sums(amounts)[0] = 0 /\ \A i \in Nat : Sums(amounts)[i + 1] = Sums(amounts)[i] + amounts[i + 1]
  <1> DEFINE G(n) == CHOOSE s : SumsUpTo(amounts, n, s)
             t == [i \in Nat |-> G(i)[i]]
  <1>1. \A n \in Nat : SumsUpTo(amounts, n, G(n))
    BY SumsUpToExist
  <1> HIDE DEF G
  <1>2. ASSUME NEW i \in Nat PROVE t[i] = IF i = 0 THEN 0 ELSE t[i - 1] + amounts[i]
    <2>1. G(i)[i] = IF i = 0 THEN 0 ELSE G(i)[i - 1] + amounts[i]
      BY <1>1 DEF SumsUpTo
    <2>2. i # 0 => G(i - 1)[i - 1] = G(i)[i - 1]
      <3> SUFFICES ASSUME i # 0 PROVE G(i - 1)[i - 1] = G(i)[i - 1]
        OBVIOUS
      <3>1. i - 1 \in Nat /\ i - 1 <= i /\ i - 1 \in 0..(i - 1)
        OBVIOUS
      <3> QED
        BY <1>1, <3>1, SumsUpToAgree
    <2> QED
      BY <2>1, <2>2
  <1>3. t = [i \in Nat |-> IF i = 0 THEN 0 ELSE t[i - 1] + amounts[i]]
    <2> HIDE DEF t
    <2>1. t = [i \in Nat |-> t[i]]
      BY DEF t
    <2> QED
      BY <1>2, <2>1
  <1> HIDE DEF t
  <1>4. Sums(amounts) = [i \in Nat |-> IF i = 0 THEN 0 ELSE Sums(amounts)[i - 1] + amounts[i]]
    BY <1>3 DEF Sums
  <1>5. ASSUME NEW i \in Nat PROVE Sums(amounts)[i] = IF i = 0 THEN 0 ELSE Sums(amounts)[i - 1] + amounts[i]
    BY <1>4
  <1>6. \A i \in Nat : i + 1 \in Nat /\ i + 1 # 0 /\ (i + 1) - 1 = i
    OBVIOUS
  <1> QED
    BY <1>5, <1>6

LEMMA TotalIsSum == ASSUME NEW amounts, NEW n PROVE Total(amounts, n) = Sums(amounts)[n]
  BY DEF Total, Sums

(* A sum depends on what is summed only, is a number, and follows a change  *)
(* of one of its numbers.                                                   *)
LEMMA SumsChange ==
    ASSUME NEW f, NEW g, NEW n \in Nat, NEW k \in Nat, \A i \in 1..n : f[i] \in Int /\ g[i] \in Int,
           \A i \in 1..n : i # k => f[i] = g[i]
    PROVE  /\ Sums(f)[n] \in Int /\ Sums(g)[n] \in Int
           /\ Sums(g)[n] = Sums(f)[n] + (IF k \in 1..n THEN g[k] - f[k] ELSE 0)
  <1> DEFINE Diff(i) == IF k \in 1..i THEN g[k] - f[k] ELSE 0
             Follows(i) == Sums(f)[i] \in Int /\ Sums(g)[i] \in Int /\ Sums(g)[i] = Sums(f)[i] + Diff(i)
             Good == {i \in Nat : i <= n => Follows(i)}
  <1>1. 0 \in Good
    BY SumsStep
  <1>2. ASSUME NEW i \in Good PROVE i + 1 \in Good
    <2> SUFFICES ASSUME i + 1 <= n PROVE Follows(i + 1)
      OBVIOUS
    <2>1. Follows(i) /\ i + 1 \in 1..n
      OBVIOUS
    <2>2. Sums(f)[i + 1] = Sums(f)[i] + f[i + 1] /\ Sums(g)[i + 1] = Sums(g)[i] + g[i + 1]
      BY SumsStep
    <2>3. f[i + 1] \in Int /\ g[i + 1] \in Int
      BY <2>1
    <2>4. CASE i + 1 = k
      BY <2>1, <2>2, <2>3, <2>4
    <2>5. CASE i + 1 # k
      <3>1. f[i + 1] = g[i + 1] /\ Diff(i + 1) = Diff(i)
        BY <2>1, <2>5
      <3>2. Diff(i) \in Int
        BY <2>1, <2>5
      <3> HIDE DEF Diff
      <3> QED
        BY <2>1, <2>2, <2>3, <3>1, <3>2
    <2> QED
      BY <2>4, <2>5
  <1> HIDE DEF Good
  <1>3. Good = Nat
    BY <1>1, <1>2, Inductive DEF Good
  <1> QED
    BY <1>3 DEF Good

LEMMA SumsSame ==
    ASSUME NEW f, NEW g, NEW n \in Nat, \A i \in 1..n : f[i] \in Int /\ g[i] = f[i]
    PROVE  Sums(f)[n] \in Int /\ Sums(g)[n] = Sums(f)[n]
  <1>1. 0 \in Nat /\ 0 \notin 1..n
    OBVIOUS
  <1>0. /\ \A i \in 1..n : f[i] \in Int /\ g[i] \in Int
        /\ \A i \in 1..n : i # 0 => f[i] = g[i]
    OBVIOUS
  <1>2. /\ Sums(f)[n] \in Int /\ Sums(g)[n] \in Int
        /\ Sums(g)[n] = Sums(f)[n] + (IF 0 \in 1..n THEN g[0] - f[0] ELSE 0)
    BY <1>0, <1>1, SumsChange
  <1> QED
    BY <1>1, <1>2

LEMMA SumsOfZeros ==
    ASSUME NEW f, NEW n \in Nat, \A i \in 1..n : f[i] = 0
    PROVE  Sums(f)[n] = 0
  <1> DEFINE Good == {i \in Nat : i <= n => Sums(f)[i] = 0}
  <1>1. 0 \in Good
    BY SumsStep
  <1>2. ASSUME NEW i \in Good PROVE i + 1 \in Good
    BY SumsStep
  <1> HIDE DEF Good
  <1>3. Good = Nat
    BY <1>1, <1>2, Inductive DEF Good
  <1> QED
    BY <1>3 DEF Good

-----------------------------------------------------------------------------
(* The ledger. Every entry has a whole amount.                              *)
LedgerEntry == [amount : Int, key : Payment \cup {NoPayment, "welcome"}, after : Int]
Amounts(ledger) == [i \in DOMAIN ledger |-> ledger[i].amount]

LEMMA AmountsAre ==
    ASSUME NEW ledger \in Seq(LedgerEntry), NEW i \in 1..Len(ledger)
    PROVE  Amounts(ledger)[i] = ledger[i].amount /\ ledger[i].amount \in Int
  <1>1. i \in DOMAIN ledger /\ ledger[i] \in LedgerEntry
    OBVIOUS
  <1>2. ledger[i].amount \in Int
    BY <1>1 DEF LedgerEntry
  <1> QED
    BY <1>1, <1>2 DEF Amounts

LEMMA LedgerSumIs ==
    ASSUME creditLedger \in Seq(LedgerEntry)
    PROVE  LedgerSum = Sums(Amounts(creditLedger))[Len(creditLedger)] /\ LedgerSum \in Int
  <1>1. \A i \in 1..Len(creditLedger) : Amounts(creditLedger)[i] \in Int
    BY AmountsAre
  <1>2. LedgerSum = Sums(Amounts(creditLedger))[Len(creditLedger)]
    BY TotalIsSum DEF LedgerSum, Amounts
  <1>3. Len(creditLedger) \in Nat
    OBVIOUS
  <1>4. Sums(Amounts(creditLedger))[Len(creditLedger)] \in Int
    BY <1>1, <1>3, SumsSame
  <1> QED
    BY <1>2, <1>4

LEMMA LedgerSumGrows ==
    ASSUME creditLedger \in Seq(LedgerEntry), NEW entry \in LedgerEntry,
           creditLedger' = Append(creditLedger, entry)
    PROVE  creditLedger' \in Seq(LedgerEntry) /\ LedgerSum' = LedgerSum + entry.amount
  <1> DEFINE n == Len(creditLedger)
             grown == Append(creditLedger, entry)
             f == Amounts(creditLedger)
             g == Amounts(grown)
  <1>1. grown \in Seq(LedgerEntry) /\ Len(grown) = n + 1 /\ n \in Nat /\ grown[n + 1] = entry
        /\ \A i \in 1..n : grown[i] = creditLedger[i]
    OBVIOUS
  <1>2. LedgerSum' = Sums(g)[n + 1]
    <2>1. LedgerSum' = Total(g, n + 1)
      BY <1>1 DEF LedgerSum, Amounts
    <2> QED
      BY <2>1, TotalIsSum
  <1>3. LedgerSum = Sums(f)[n]
    BY LedgerSumIs
  <1> HIDE DEF grown
  <1>4. \A i \in 1..n : f[i] \in Int /\ g[i] = f[i]
    <2> SUFFICES ASSUME NEW i \in 1..n PROVE f[i] \in Int /\ g[i] = f[i]
      OBVIOUS
    <2>1. i \in 1..Len(grown) /\ grown[i] = creditLedger[i]
      BY <1>1
    <2> QED
      BY <1>1, <2>1, AmountsAre
  <1>5. g[n + 1] = entry.amount /\ entry.amount \in Int
    <2>1. n + 1 \in 1..Len(grown)
      BY <1>1
    <2> QED
      BY <1>1, <2>1, AmountsAre
  <1> HIDE DEF f, g, n
  <1>6. Sums(g)[n] = Sums(f)[n] /\ Sums(f)[n] \in Int
    BY <1>1, <1>4, SumsSame
  <1>7. Sums(g)[n + 1] = Sums(g)[n] + g[n + 1]
    BY <1>1, SumsStep
  <1> QED
    BY <1>1, <1>2, <1>3, <1>5, <1>6, <1>7 DEF grown

-----------------------------------------------------------------------------
(* Types, and what each step of a request knows.                            *)
PC == {"counting", "opening", "features", "adding", "removing", "reading", "seeding", "writing",
       "looking", "noting", "ensuring", "creating", "welcoming", "running", "answered", "recording",
       "window", "starting", "advancing", "counted"}
Counter == {"executions", "tokens", "credits"}
Model == {"own", "platform"}
OperationRecord ==
    [pc : PC, kind : Feature \cup {"none"}, counter : Counter \cup {"none"}, delta : Int,
     key : Payment \cup {NoPayment}, read : Int, welcome : Nat,
     then : {"end", "run", "apply", "change"}, limit : Nat, start : Nat,
     models : Seq(Model), rest : Seq(Feature)]

Knows(q) ==
    /\ q.pc = "writing" => q.counter \in DOMAIN counters
    /\ q.pc \in {"ensuring", "creating", "welcoming", "looking", "noting"} => q.counter = "credits"
    /\ q.pc \in {"welcoming", "looking", "noting"} => "credits" \in DOMAIN counters
    /\ q.pc = "reading" => q.counter \in {"executions", "tokens"} /\ q.key = NoPayment /\ q.kind \notin AIKind
    /\ q.pc = "welcoming" => q.welcome > 0
    /\ q.pc \in {"features", "removing"} => q.rest # <<>>
    /\ q.pc = "adding" => q.kind \in Feature
    /\ q.pc \in {"window", "starting", "advancing", "counted", "running", "recording"} => q.kind \in AIKind
    /\ q.pc \in {"starting", "advancing", "counted"} => q.start <= window
    /\ q.pc = "answered" => q.kind = "prompt"
    /\ q.pc \in {"ensuring", "creating", "welcoming"} /\ q.then = "run" => q.kind = "prompt"
    /\ q.pc # "idle" /\ q.then = "change" =>
           q.welcome = 0 /\ q.pc \in {"ensuring", "creating", "looking", "writing", "noting"}

CountersOK ==
    /\ counters = [c \in DOMAIN counters |-> counters[c]]
    /\ DOMAIN counters \subseteq Counter
    /\ \A c \in DOMAIN counters : counters[c] \in Int
OperationsOK ==
    /\ operations \in [Operation -> OperationRecord \cup {Idle}]
    /\ \A o \in Operation : Knows(operations[o])
AccountTypes ==
    /\ CountersOK /\ creditLedger \in Seq(LedgerEntry) /\ features \subseteq Feature
    /\ quotaWindow \in Nat /\ window \in Windows
    /\ successes \in [AIKind -> Seq(Windows)] /\ admittedUnder \in [AIKind -> [Windows -> Nat]]
    /\ OperationsOK

(* The balance is what the ledger explains and what the entries under way   *)
(* will add; after a cut at zero it is more.                                *)
Owed(q) == IF q.pc = "noting" THEN q.delta ELSE IF q.pc = "welcoming" THEN q.welcome ELSE 0
Order == CHOOSE order : order \in Bijection(1..Cardinality(Operation), Operation)
OwedSum == Sums([i \in 1..Cardinality(Operation) |-> Owed(operations[Order[i]])])[Cardinality(Operation)]
Uncut ==
    /\ \A i \in DOMAIN creditLedger : creditLedger[i].after > 0
    /\ \A o \in Operation : operations[o].pc = "noting" => operations[o].read > 0
Explained ==
    /\ counters["credits"] >= LedgerSum + OwedSum
    /\ Uncut => counters["credits"] = LedgerSum + OwedSum

(* A request that will write the balance has read it, or is disturbed; the  *)
(* payment it applies is not in the ledger.                                 *)
ReadsBalance(q) ==
    q.pc \in {"writing", "looking"} /\ q.counter = "credits"
    => "credits" \in DOMAIN counters /\ q.read = counters["credits"]
LedgerInv ==
    /\ "credits" \notin DOMAIN counters => creditLedger = <<>>
    /\ "credits" \in DOMAIN counters /\ ~unexplained => Explained
    /\ \A o \in Operation :
           /\ ~unexplained /\ operations[o].pc \in {"writing", "noting"} => ~Noted(operations[o].key)
           /\ o \notin disturbed => ReadsBalance(operations[o])

(* Of the requests that were let in under limit m, or less, only those in   *)
(* progress can still be logged.                                            *)
Admitted(q) ==
    /\ q.pc \in {"ensuring", "creating", "welcoming", "writing", "looking", "noting",
                  "running", "answered", "recording"}
    /\ q.kind \in AIKind
InFlight(kind, m) ==
    {o \in Operation : /\ Admitted(operations[o])
                       /\ operations[o].kind = kind /\ operations[o].limit <= m}
LimitInv ==
    /\ LimitPassedByOverlapOnly
    /\ \A kind \in AIKind, w \in window..MaxWindow, m \in Nat :
           m >= admittedUnder[kind][w]
           => SuccessesIn(kind, w) + Cardinality(InFlight(kind, m)) <= m + Cardinality(Operation) - 1

AccountsInv == AccountTypes /\ LedgerInv /\ LimitInv

-----------------------------------------------------------------------------
LEMMA OrderIs ==
    /\ Cardinality(Operation) \in Nat
    /\ \A i \in 1..Cardinality(Operation) : Order[i] \in Operation
    /\ \A o \in Operation : \E i \in 1..Cardinality(Operation) : Order[i] = o
    /\ \A i, j \in 1..Cardinality(Operation) : Order[i] = Order[j] => i = j
  <1>1. Cardinality(Operation) \in Nat /\ ExistsBijection(1..Cardinality(Operation), Operation)
    BY AccountsAssumption, FS_CardinalityType
  <1>2. Order \in Bijection(1..Cardinality(Operation), Operation)
    BY <1>1 DEF Order, ExistsBijection
  <1> QED
    BY <1>1, <1>2 DEF Bijection, Injection, Surjection, IsInjective

LEMMA OwedIsInt ==
    ASSUME NEW q \in OperationRecord \cup {Idle}
    PROVE  Owed(q) \in Int
  BY DEF OperationRecord, Idle, Owed

LEMMA OwedSumIsInt ==
    ASSUME operations \in [Operation -> OperationRecord \cup {Idle}]
    PROVE  OwedSum \in Int
  <1> DEFINE n == Cardinality(Operation)
             f == [i \in 1..n |-> Owed(operations[Order[i]])]
  <1>1. \A i \in 1..n : f[i] \in Int /\ f[i] = f[i]
    BY OrderIs, OwedIsInt
  <1> HIDE DEF f
  <1>2. Sums(f)[n] \in Int
    BY <1>1, OrderIs, SumsSame
  <1> QED
    BY <1>2 DEF OwedSum, f

LEMMA OwedSumMoves ==
    ASSUME operations \in [Operation -> OperationRecord \cup {Idle}],
           NEW o \in Operation, NEW q \in OperationRecord \cup {Idle},
           operations' = [operations EXCEPT ![o] = q]
    PROVE  OwedSum' = OwedSum + Owed(q) - Owed(operations[o])
  <1> DEFINE n == Cardinality(Operation)
             next == [operations EXCEPT ![o] = q]
             f == [i \in 1..n |-> Owed(operations[Order[i]])]
             g == [i \in 1..n |-> Owed(next[Order[i]])]
  <1>1. PICK k \in 1..n : Order[k] = o
    BY OrderIs
  <1>2. /\ \A i \in 1..n : f[i] \in Int /\ g[i] \in Int
        /\ \A i \in 1..n : i # k => f[i] = g[i]
        /\ f[k] = Owed(operations[o]) /\ g[k] = Owed(q)
    <2>1. \A p \in Operation : next[p] = IF p = o THEN q ELSE operations[p]
      OBVIOUS
    <2>2. \A p \in Operation : Owed(operations[p]) \in Int /\ Owed(next[p]) \in Int
      BY <2>1, OwedIsInt
    <2> HIDE DEF next
    <2> QED
      BY <1>1, <2>1, <2>2, OrderIs
  <1>3. OwedSum = Sums(f)[n]
    BY DEF OwedSum
  <1>4. OwedSum' = Sums(g)[n]
    <2>1. OwedSum' = Sums([i \in 1..n |-> Owed(operations'[Order[i]])])[n]
      BY DEF OwedSum, Owed, Order
    <2> QED
      BY <2>1
  <1> HIDE DEF f, g
  <1>5. /\ Sums(f)[n] \in Int /\ Sums(g)[n] \in Int
        /\ Sums(g)[n] = Sums(f)[n] + (IF k \in 1..n THEN g[k] - f[k] ELSE 0)
    <2>1. n \in Nat /\ k \in Nat
      BY OrderIs
    <2>2. \A i \in 1..n : f[i] \in Int /\ g[i] \in Int
      BY <1>2
    <2>3. \A i \in 1..n : i # k => f[i] = g[i]
      BY <1>2
    <2> HIDE DEF n
    <2> QED
      BY <2>1, <2>2, <2>3, SumsChange
  <1> QED
    BY <1>1, <1>2, <1>3, <1>4, <1>5

LEMMA NothingOwed ==
    ASSUME operations \in [Operation -> OperationRecord \cup {Idle}],
           \A o \in Operation : operations[o].pc \notin {"noting", "welcoming"}
    PROVE  OwedSum = 0
  <1> DEFINE n == Cardinality(Operation)
             f == [i \in 1..n |-> Owed(operations[Order[i]])]
  <1>1. \A i \in 1..n : f[i] = 0
    BY OrderIs DEF Owed
  <1> HIDE DEF f
  <1>2. Sums(f)[n] = 0
    BY <1>1, OrderIs, SumsOfZeros
  <1> QED
    BY <1>2 DEF OwedSum, f

-----------------------------------------------------------------------------
(* A request goes on with what it may know, and is not let in again.        *)
Sound(o, q) ==
    /\ q \in OperationRecord \cup {Idle} /\ Knows(q)
    /\ q.pc \in {"writing", "noting"} => ~Noted(q.key)
    /\ o \notin disturbed => ReadsBalance(q)
Continues(o, q) ==
    /\ Sound(o, q)
    /\ Admitted(q) => /\ Admitted(operations[o])
                      /\ q.kind = operations[o].kind /\ q.limit = operations[o].limit
OwesNothing(q) == q.pc \notin {"noting", "welcoming"}
Steps(o, q) ==
    /\ operations' = [operations EXCEPT ![o] = q]
    /\ \A p \in Operation \ {o} : p \in disturbed => p \in disturbed'
    /\ o \notin disturbed' => ReadsBalance(q)
BalanceKept ==
    /\ "credits" \in DOMAIN counters' <=> "credits" \in DOMAIN counters
    /\ "credits" \in DOMAIN counters => counters'["credits"] = counters["credits"]

LEMMA OneOperation ==
    ASSUME AccountTypes, NEW o \in Operation, NEW q, operations' = [operations EXCEPT ![o] = q]
    PROVE  \A p \in Operation : operations'[p] = IF p = o THEN q ELSE operations[p]
  BY DEF AccountTypes, OperationsOK

LEMMA OperationsMove ==
    ASSUME AccountTypes, NEW o \in Operation, NEW q \in OperationRecord \cup {Idle}, Knows(q),
           operations' = [operations EXCEPT ![o] = q],
           DOMAIN counters \subseteq DOMAIN counters', window' = window
    PROVE  OperationsOK'
  <1>0. \A p \in Operation : operations'[p] = IF p = o THEN q ELSE operations[p]
    BY OneOperation
  <1>1. operations' \in [Operation -> OperationRecord \cup {Idle}]
    BY DEF AccountTypes, OperationsOK
  <1>2. ASSUME NEW p \in Operation PROVE Knows(operations[p])'
    <2>1. CASE p = o
      <3>1. operations'[p] = q
        BY <1>0, <2>1
      <3> QED
        BY <3>1 DEF Knows
    <2>2. CASE p # o
      <3>1. operations'[p] = operations[p] /\ Knows(operations[p])
        BY <1>0, <2>2 DEF AccountTypes, OperationsOK
      <3> QED
        BY <3>1 DEF Knows
    <2> QED
      BY <2>1, <2>2
  <1> QED
    BY <1>1, <1>2 DEF OperationsOK

LEMMA GoesSteps ==
    ASSUME NEW o \in Operation, NEW q, Sound(o, q), Goes(o, q)
    PROVE  Steps(o, q)
  <1>1. q = Idle => ReadsBalance(q)
    BY DEF Idle, ReadsBalance
  <1> QED
    BY <1>1 DEF Steps, Goes, Sound

LEMMA LedgerMove ==
    ASSUME AccountTypes, LedgerInv, NEW o \in Operation, NEW q, Sound(o, q), OwesNothing(q),
           Steps(o, q), BalanceKept, UNCHANGED creditLedger,
           unexplained' \/ (~unexplained /\ OwesNothing(operations[o]))
    PROVE  LedgerInv'
  <1>1. operations' = [operations EXCEPT ![o] = q]
    BY DEF Steps
  <1>0. \A p \in Operation : operations'[p] = IF p = o THEN q ELSE operations[p]
    BY <1>1, OneOperation
  <1>2. "credits" \notin DOMAIN counters' => creditLedger' = <<>>
    BY DEF LedgerInv, BalanceKept
  <1>3. ASSUME "credits" \in DOMAIN counters', ~unexplained' PROVE Explained'
    <2>1. "credits" \in DOMAIN counters /\ ~unexplained /\ Explained
      BY <1>3 DEF BalanceKept, LedgerInv
    <2>2. OwedSum' = OwedSum /\ OwedSum \in Int
      <3>1. Owed(q) = 0 /\ Owed(operations[o]) = 0
        BY <1>3 DEF Owed, OwesNothing
      <3>2. operations \in [Operation -> OperationRecord \cup {Idle}] /\ q \in OperationRecord \cup {Idle}
        BY DEF Sound, AccountTypes, OperationsOK
      <3>3. OwedSum' = OwedSum + Owed(q) - Owed(operations[o])
        BY <1>1, <3>2, OwedSumMoves
      <3>4. OwedSum \in Int
        BY <3>2, OwedSumIsInt
      <3> QED
        BY <3>1, <3>3, <3>4
    <2>3. LedgerSum' = LedgerSum
      BY DEF LedgerSum
    <2>4. Uncut' => Uncut
      <3> SUFFICES ASSUME Uncut', NEW p \in Operation, operations[p].pc = "noting"
                   PROVE  operations[p].read > 0
        BY DEF Uncut
      <3>1. operations'[p] = operations[p]
        BY <1>0, <1>3 DEF OwesNothing
      <3> QED
        BY <3>1 DEF Uncut
    <2> QED
      BY <2>1, <2>2, <2>3, <2>4 DEF Explained, BalanceKept
  <1>4. ASSUME NEW p \in Operation
        PROVE  /\ ~unexplained' /\ operations'[p].pc \in {"writing", "noting"} => ~Noted(operations[p].key)'
               /\ p \notin disturbed' => ReadsBalance(operations[p])'
    <2>1. CASE p = o
      <3>1. operations'[p] = q
        BY <1>0, <2>1
      <3>2. q.pc \in {"writing", "noting"} => ~Noted(q.key)
        BY DEF Sound
      <3>3. p \notin disturbed' => ReadsBalance(q)
        BY <2>1 DEF Steps
      <3> QED
        BY <3>1, <3>2, <3>3 DEF ReadsBalance, BalanceKept, Noted
    <2>2. CASE p # o
      <3>1. operations'[p] = operations[p]
        BY <1>0, <2>2
      <3>2. p \notin disturbed' => p \notin disturbed
        BY <2>2 DEF Steps
      <3>3. ~unexplained' => ~unexplained
        OBVIOUS
      <3> QED
        BY <3>1, <3>2, <3>3 DEF LedgerInv, ReadsBalance, BalanceKept, Noted
    <2> QED
      BY <2>1, <2>2
  <1> QED
    BY <1>2, <1>3, <1>4 DEF LedgerInv, Noted

LEMMA InFlightFinite ==
    ASSUME NEW kind, NEW m
    PROVE  /\ Cardinality(InFlight(kind, m)) \in Nat /\ IsFiniteSet(InFlight(kind, m))
           /\ Cardinality(InFlight(kind, m)) <= Cardinality(Operation) /\ Cardinality(Operation) \in Nat
  BY AccountsAssumption, FS_Subset, FS_CardinalityType DEF InFlight

LEMMA LogFinite ==
    ASSUME AccountTypes, NEW kind \in AIKind, NEW w
    PROVE  SuccessesIn(kind, w) \in Nat /\ IsFiniteSet({i \in DOMAIN successes[kind] : successes[kind][i] = w})
  <1>1. DOMAIN successes[kind] = 1..Len(successes[kind]) /\ Len(successes[kind]) \in Nat
    BY DEF AccountTypes
  <1>2. IsFiniteSet(DOMAIN successes[kind])
    BY <1>1, FS_Interval
  <1> QED
    BY <1>2, FS_Subset, FS_CardinalityType DEF SuccessesIn

LEMMA LimitMove ==
    ASSUME AccountTypes, LimitInv, NEW o \in Operation, NEW q,
           Admitted(q) => /\ Admitted(operations[o])
                          /\ q.kind = operations[o].kind /\ q.limit = operations[o].limit,
           operations' = [operations EXCEPT ![o] = q], UNCHANGED <<successes, admittedUnder, window>>
    PROVE  LimitInv'
  <1>1. LimitPassedByOverlapOnly'
    BY DEF LimitInv, LimitPassedByOverlapOnly, SuccessesIn
  <1>2. ASSUME NEW kind, NEW m PROVE Cardinality(InFlight(kind, m)') <= Cardinality(InFlight(kind, m))
                                     /\ Cardinality(InFlight(kind, m)') \in Nat
    <2>1. \A p \in Operation : operations'[p] = IF p = o THEN q ELSE operations[p]
      BY OneOperation
    <2>2. InFlight(kind, m)' \subseteq InFlight(kind, m)
      BY <2>1 DEF InFlight, Admitted
    <2> QED
      BY <2>2, InFlightFinite, FS_Subset, FS_CardinalityType
  <1>3. ASSUME NEW kind \in AIKind, NEW w \in window'..MaxWindow, NEW m \in Nat, m >= admittedUnder'[kind][w]
        PROVE  SuccessesIn(kind, w)' + Cardinality(InFlight(kind, m))' <= m + Cardinality(Operation) - 1
    <2>1. SuccessesIn(kind, w) + Cardinality(InFlight(kind, m)) <= m + Cardinality(Operation) - 1
      BY <1>3 DEF LimitInv
    <2>2. SuccessesIn(kind, w)' = SuccessesIn(kind, w) /\ SuccessesIn(kind, w) \in Nat
      BY LogFinite DEF SuccessesIn
    <2> QED
      BY <1>2, <2>1, <2>2, InFlightFinite
  <1> QED
    BY <1>1, <1>3 DEF LimitInv

LEMMA MoveKeeps ==
    ASSUME AccountsInv, NEW o \in Operation, NEW q, Continues(o, q), OwesNothing(q), Steps(o, q),
           CountersOK', DOMAIN counters \subseteq DOMAIN counters', BalanceKept,
           features' \subseteq Feature, quotaWindow' \in Nat,
           UNCHANGED <<creditLedger, successes, window, admittedUnder>>,
           unexplained' \/ (~unexplained /\ OwesNothing(operations[o]))
    PROVE  AccountsInv'
  <1>1. operations' = [operations EXCEPT ![o] = q]
    BY DEF Steps
  <1>2. AccountTypes'
    BY <1>1, OperationsMove DEF AccountTypes, AccountsInv, Continues, Sound
  <1>3. LedgerInv'
    BY LedgerMove DEF AccountsInv, Continues
  <1>4. LimitInv'
    BY <1>1, LimitMove DEF AccountsInv, Continues
  <1> QED
    BY <1>2, <1>3, <1>4 DEF AccountsInv

(* A request that only goes on, or changes rows that no other relies on.    *)
LEMMA OnlyGoesKeeps ==
    ASSUME AccountsInv, NEW o \in Operation, NEW q, Continues(o, q), OwesNothing(q), Goes(o, q),
           OwesNothing(operations[o]),
           features' \subseteq Feature, quotaWindow' \in Nat,
           UNCHANGED <<counters, creditLedger, successes, window, unexplained, admittedUnder>>
    PROVE  AccountsInv'
  <1>1. CountersOK' /\ DOMAIN counters \subseteq DOMAIN counters' /\ BalanceKept
    BY DEF AccountsInv, AccountTypes, CountersOK, BalanceKept
  <1>2. unexplained' \/ (~unexplained /\ OwesNothing(operations[o]))
    BY DEF AccountsInv
  <1>3. Steps(o, q)
    BY GoesSteps DEF Continues
  <1> QED
    BY <1>1, <1>2, <1>3, MoveKeeps

-----------------------------------------------------------------------------
(* Requests at steps on which neither a balance nor a limit depends.        *)
PlainPC == {"idle", "counting", "opening", "features", "adding", "removing", "reading", "seeding",
            "window", "starting", "advancing", "counted"}
Plain(q) == q \in OperationRecord \cup {Idle} /\ Knows(q) /\ q.pc \in PlainPC

LEMMA PlainContinues ==
    ASSUME NEW o, NEW q, Plain(q)
    PROVE  Continues(o, q) /\ OwesNothing(q)
  BY DEF Plain, PlainPC, Continues, Sound, OwesNothing, Admitted, ReadsBalance

LEMMA IdleIsPlain == Plain(Idle)
  BY DEF Plain, PlainPC, Idle, Knows

LEMMA NewIs ==
    ASSUME NEW pc \in PC
    PROVE  /\ NewOperation(pc) \in OperationRecord
           /\ NewOperation(pc).pc = pc /\ NewOperation(pc).kind = "none" /\ NewOperation(pc).counter = "none"
           /\ NewOperation(pc).key = NoPayment /\ NewOperation(pc).welcome = 0 /\ NewOperation(pc).then = "end"
  BY DEF NewOperation, OperationRecord, Feature, Model

LEMMA NewIsPlain ==
    ASSUME NEW pc \in {"counting", "opening", "seeding"}
    PROVE  Plain(NewOperation(pc))
  BY NewIs DEF Plain, PlainPC, PC, Knows

LEMMA AddingIsPlain ==
    ASSUME NEW rest \in Seq(Feature)
    PROVE  Plain(Adding(rest))
  <1>1. CASE rest = <<>>
    BY <1>1, IdleIsPlain DEF Adding
  <1>2. CASE rest # <<>>
    <2> DEFINE q == [pc |-> "features", kind |-> "none", counter |-> "none", delta |-> 0, key |-> NoPayment,
                     read |-> 0, welcome |-> 0, then |-> "end", limit |-> 0, start |-> 0,
                     models |-> <<>>, rest |-> rest]
    <2>1. Adding(rest) = q
      BY <1>2 DEF Adding, NewOperation
    <2>2. q \in OperationRecord
      BY DEF OperationRecord, PC
    <2>3. Knows(q) /\ q.pc \in PlainPC
      BY <1>2 DEF Knows, PlainPC
    <2> QED
      BY <2>1, <2>2, <2>3 DEF Plain
  <1> QED
    BY <1>1, <1>2

LEMMA FeatureAddedIsPlain ==
    ASSUME NEW feature \in Feature, NEW rest \in Seq(Feature)
    PROVE  Plain(FeatureAdded(feature, rest))
  <1>1. CASE feature # "executions"
    BY <1>1, AddingIsPlain DEF FeatureAdded
  <1>2. CASE feature = "executions"
    <2> DEFINE q == [pc |-> "reading", kind |-> feature, counter |-> feature, delta |-> 2, key |-> NoPayment,
                     read |-> 0, welcome |-> 0, then |-> "end", limit |-> 0, start |-> 0,
                     models |-> <<>>, rest |-> rest]
    <2>1. FeatureAdded(feature, rest) = q
      BY <1>2 DEF FeatureAdded, NewOperation
    <2>2. q \in OperationRecord
      BY <1>2 DEF OperationRecord, PC, Counter
    <2>3. Knows(q) /\ q.pc \in PlainPC
      BY <1>2 DEF Knows, PlainPC, AIKind
    <2> QED
      BY <2>1, <2>2, <2>3 DEF Plain
  <1> QED
    BY <1>1, <1>2

LEMMA FeatureCheckedIsPlain ==
    ASSUME NEW feature \in Feature, NEW rest \in Seq(Feature)
    PROVE  Plain(FeatureChecked(feature, rest))
  <1>1. CASE feature \in features
    BY <1>1, FeatureAddedIsPlain DEF FeatureChecked
  <1>2. CASE feature \notin features
    <2> DEFINE q == [pc |-> "adding", kind |-> feature, counter |-> "none", delta |-> 0, key |-> NoPayment,
                     read |-> 0, welcome |-> 0, then |-> "end", limit |-> 0, start |-> 0,
                     models |-> <<>>, rest |-> rest]
    <2>1. FeatureChecked(feature, rest) = q
      BY <1>2 DEF FeatureChecked, NewOperation
    <2>2. q \in OperationRecord
      BY DEF OperationRecord, PC
    <2>3. Knows(q) /\ q.pc \in PlainPC
      BY DEF Knows, PlainPC
    <2> QED
      BY <2>1, <2>2, <2>3 DEF Plain
  <1> QED
    BY <1>1, <1>2

(* A plain step of a request that owes nothing.                             *)
LEMMA PlainKeeps ==
    ASSUME AccountsInv, NEW o \in Operation, NEW q, Plain(q), Goes(o, q), OwesNothing(operations[o]),
           features' \subseteq Feature, quotaWindow' \in Nat,
           UNCHANGED <<counters, creditLedger, successes, window, unexplained, admittedUnder>>
    PROVE  AccountsInv'
  BY PlainContinues, OnlyGoesKeeps

LEMMA OperationIs ==
    ASSUME AccountsInv, NEW o \in Operation
    PROVE  /\ operations[o] \in OperationRecord \cup {Idle} /\ Knows(operations[o])
           /\ operations[o].pc # "idle" => operations[o] \in OperationRecord
           /\ features \subseteq Feature /\ quotaWindow \in Nat /\ window \in Windows
  BY DEF AccountsInv, AccountTypes, OperationsOK, Idle

LEMMA CreateAccountKeeps ==
    ASSUME AccountsInv, NEW o \in Operation, CreateAccount(o)
    PROVE  AccountsInv'
  BY OperationIs, NewIsPlain, PlainKeeps DEF CreateAccount, At, OwesNothing

LEMMA OpenWindowKeeps ==
    ASSUME AccountsInv, NEW o \in Operation, OpenWindow(o)
    PROVE  AccountsInv'
  BY OperationIs, IdleIsPlain, PlainKeeps DEF OpenWindow, At, OwesNothing, Windows

LEMMA AddFeatureKeeps ==
    ASSUME AccountsInv, NEW o \in Operation, AddFeature(o)
    PROVE  AccountsInv'
  <1>1. PICK feature \in Feature : Begins(o, FeatureChecked(feature, <<>>))
    BY DEF AddFeature
  <1>2. Plain(FeatureChecked(feature, <<>>))
    <2>1. <<>> \in Seq(Feature)
      OBVIOUS
    <2> QED
      BY <2>1, FeatureCheckedIsPlain
  <1> QED
    BY <1>1, <1>2, OperationIs, PlainKeeps DEF Begins, At, OwesNothing, rowVars

LEMMA AddAllFeaturesKeeps ==
    ASSUME AccountsInv, NEW o \in Operation, AddAllFeatures(o)
    PROVE  AccountsInv'
  <1>1. Plain(Adding(AllFeatures))
    <2>1. AllFeatures \in Seq(Feature)
      BY DEF AllFeatures, Feature, AIKind
    <2> QED
      BY <2>1, AddingIsPlain
  <1> QED
    BY <1>1, OperationIs, PlainKeeps DEF AddAllFeatures, Begins, At, OwesNothing, rowVars

LEMMA NextFeatureKeeps ==
    ASSUME AccountsInv, NEW o \in Operation, NextFeature(o)
    PROVE  AccountsInv'
  <1> DEFINE rest == operations[o].rest
  <1>1. rest \in Seq(Feature) /\ rest # <<>>
    BY OperationIs DEF NextFeature, At, OperationRecord, Knows
  <1>2. Head(rest) \in Feature /\ Tail(rest) \in Seq(Feature)
    BY <1>1
  <1>3. Plain(FeatureChecked(Head(rest), Tail(rest)))
    BY <1>2, FeatureCheckedIsPlain
  <1> QED
    BY <1>3, OperationIs, PlainKeeps DEF NextFeature, OnlyGoes, At, OwesNothing, rowVars

LEMMA InsertFeatureKeeps ==
    ASSUME AccountsInv, NEW o \in Operation, InsertFeature(o)
    PROVE  AccountsInv'
  <1> DEFINE feature == operations[o].kind
             rest == operations[o].rest
  <1>1. feature \in Feature /\ rest \in Seq(Feature)
    BY OperationIs DEF InsertFeature, At, OperationRecord, Knows
  <1>2. CASE feature \in features
    BY <1>2, OperationIs, IdleIsPlain, PlainKeeps DEF InsertFeature, At, OwesNothing
  <1>3. CASE feature \notin features
    BY <1>1, <1>3, OperationIs, FeatureAddedIsPlain, PlainKeeps DEF InsertFeature, At, OwesNothing
  <1> QED
    BY <1>2, <1>3

LEMMA OthersKeep ==
    ASSUME AccountsInv, features' \subseteq Feature,
           UNCHANGED <<counters, creditLedger, quotaWindow, window, successes, operations, disturbed,
                       unexplained, admittedUnder>>
    PROVE  AccountsInv'
  <1>1. AccountTypes'
    BY DEF AccountsInv, AccountTypes, CountersOK, OperationsOK, Knows
  <1>2. LedgerInv'
    BY DEF AccountsInv, LedgerInv, Explained, Uncut, LedgerSum, OwedSum, Order, Owed, ReadsBalance, Noted
  <1>3. LimitInv'
    BY DEF AccountsInv, LimitInv, LimitPassedByOverlapOnly, SuccessesIn, InFlight, Admitted
  <1> QED
    BY <1>1, <1>2, <1>3 DEF AccountsInv

LEMMA RemoveFeatureKeeps ==
    ASSUME AccountsInv, NEW feature \in Feature, RemoveFeature(feature)
    PROVE  AccountsInv'
  BY OthersKeep DEF RemoveFeature, AccountsInv, AccountTypes

LEMMA WindowEndsKeeps ==
    ASSUME AccountsInv, WindowEnds
    PROVE  AccountsInv'
  <1>1. window' = window + 1 /\ window' \in Windows /\ window \in Windows /\ MaxWindow \in Nat
    BY AccountsAssumption DEF WindowEnds, AccountsInv, AccountTypes, Windows
  <1>2. \A o \in Operation : Knows(operations[o])'
    <2> SUFFICES ASSUME NEW o \in Operation PROVE Knows(operations[o])'
      OBVIOUS
    <2>1. operations'[o] = operations[o] /\ counters' = counters
      BY DEF WindowEnds, rowVars
    <2>2. operations[o].pc \in {"starting", "advancing", "counted"} => operations[o].start <= window'
      <3> SUFFICES ASSUME operations[o].pc \in {"starting", "advancing", "counted"}
                   PROVE  operations[o].start <= window'
        OBVIOUS
      <3>1. operations[o].start \in Nat /\ operations[o].start <= window
        BY OperationIs DEF OperationRecord, Knows
      <3> QED
        BY <1>1, <3>1 DEF Windows
    <2> QED
      BY <2>1, <2>2, OperationIs DEF Knows
  <1>3. AccountTypes'
    BY <1>1, <1>2 DEF WindowEnds, rowVars, AccountsInv, AccountTypes, CountersOK, OperationsOK
  <1>4. LedgerInv'
    BY DEF WindowEnds, rowVars, AccountsInv, LedgerInv, Explained, Uncut, LedgerSum, OwedSum, Order, Owed,
           ReadsBalance, Noted
  <1>5. window'..MaxWindow \subseteq window..MaxWindow
    BY <1>1 DEF Windows
  <1>6. LimitInv'
    BY <1>5 DEF WindowEnds, rowVars, AccountsInv, LimitInv, LimitPassedByOverlapOnly, SuccessesIn, InFlight, Admitted
  <1> QED
    BY <1>3, <1>4, <1>6 DEF AccountsInv

LEMMA RemovingIsPlain ==
    ASSUME NEW q \in OperationRecord, q.pc = "removing", q.rest # <<>>, q.then # "change"
    PROVE  Plain(q)
  BY DEF Plain, PlainPC, Knows

LEMMA RemoveAllFeaturesKeeps ==
    ASSUME AccountsInv, NEW o \in Operation, RemoveAllFeatures(o)
    PROVE  AccountsInv'
  <1>1. PICK rest \in SetToSeqs(features) :
            Begins(o, IF rest = <<>> THEN Idle ELSE [NewOperation("removing") EXCEPT !.rest = rest])
    BY DEF RemoveAllFeatures
  <1>2. rest \in Seq(Feature)
    <2>1. IsFiniteSet(features)
      <3>1. features \subseteq Feature /\ Feature = {"prompt", "classify", "executions"}
        BY OperationIs DEF Feature, AIKind
      <3>2. IsFiniteSet({"prompt"})
        BY FS_Singleton
      <3>3. IsFiniteSet({"prompt"} \cup {"classify"})
        BY <3>2, FS_AddElement
      <3>4. IsFiniteSet(({"prompt"} \cup {"classify"}) \cup {"executions"})
        BY <3>3, FS_AddElement
      <3>5. IsFiniteSet(Feature)
        <4>1. Feature = ({"prompt"} \cup {"classify"}) \cup {"executions"}
          BY <3>1
        <4> QED
          BY <3>4, <4>1
      <3> QED
        BY <3>1, <3>5, FS_Subset
    <2>2. Cardinality(features) \in Nat /\ rest \in [1..Cardinality(features) -> features]
      BY <2>1, FS_CardinalityType DEF SetToSeqs
    <2>3. features \subseteq Feature
      BY OperationIs
    <2> QED
      BY <2>2, <2>3
  <1> DEFINE removing == [pc |-> "removing", kind |-> "none", counter |-> "none", delta |-> 0, key |-> NoPayment,
                          read |-> 0, welcome |-> 0, then |-> "end", limit |-> 0, start |-> 0,
                          models |-> <<>>, rest |-> rest]
             q == IF rest = <<>> THEN Idle ELSE removing
  <1>3. Plain(q)
    <2>1. removing \in OperationRecord /\ removing.pc = "removing" /\ removing.then = "end" /\ removing.rest = rest
      BY <1>2 DEF OperationRecord, PC
    <2> HIDE DEF removing
    <2> QED
      BY <2>1, IdleIsPlain, RemovingIsPlain
  <1>4. Begins(o, q)
    BY <1>1 DEF NewOperation
  <1> QED
    BY <1>3, <1>4, OperationIs, PlainKeeps DEF Begins, At, OwesNothing, rowVars

LEMMA RemoveNextKeeps ==
    ASSUME AccountsInv, NEW o \in Operation, RemoveNext(o)
    PROVE  AccountsInv'
  <1> DEFINE rest == operations[o].rest
             next == [operations[o] EXCEPT !.rest = Tail(rest)]
             q == IF Tail(rest) = <<>> THEN Idle ELSE next
  <1>1. operations[o] \in OperationRecord /\ rest \in Seq(Feature) /\ rest # <<>> /\ operations[o].pc = "removing"
    BY OperationIs DEF RemoveNext, At, OperationRecord, Knows
  <1>2. Tail(rest) \in Seq(Feature)
    BY <1>1
  <1>3. next \in OperationRecord /\ next.pc = "removing" /\ next.rest = Tail(rest)
        /\ next.then = operations[o].then /\ next.welcome = operations[o].welcome
    BY <1>1, <1>2 DEF OperationRecord
  <1>4. operations[o].then # "change"
    BY <1>1, OperationIs DEF Knows
  <1>5. Goes(o, q) /\ features' = features \ {Head(rest)}
    BY DEF RemoveNext
  <1> HIDE DEF next
  <1>6. Plain(q)
    <2>1. Tail(rest) # <<>> => Plain(next)
      BY <1>3, <1>4 DEF Plain, PlainPC, Knows
    <2> QED
      BY <2>1, IdleIsPlain
  <1>7. OwesNothing(operations[o])
    BY <1>1 DEF OwesNothing
  <1> HIDE DEF q, rest
  <1> QED
    BY <1>5, <1>6, <1>7, OperationIs, PlainKeeps DEF RemoveNext

-----------------------------------------------------------------------------
(* Counts.                                                                  *)
LEMMA AdjustingIsPlain ==
    ASSUME NEW counter \in {"executions", "tokens"}, NEW delta \in Int
    PROVE  Plain(Adjusting(counter, delta))
  <1> DEFINE new == NewOperation("reading")
             q == [new EXCEPT !.counter = counter, !.delta = delta]
  <1>1. new \in OperationRecord /\ new.pc = "reading" /\ new.kind = "none" /\ new.key = NoPayment /\ new.then = "end"
    BY NewIs DEF PC
  <1> HIDE DEF new
  <1>2. /\ q \in OperationRecord /\ q.pc = "reading" /\ q.kind = "none" /\ q.key = NoPayment /\ q.then = "end"
        /\ q.counter = counter
    BY <1>1 DEF OperationRecord, Counter
  <1>3. Adjusting(counter, delta) = q
    BY DEF Adjusting, new
  <1> HIDE DEF q
  <1>4. Knows(q) /\ q.pc \in PlainPC
    BY <1>2 DEF Knows, PlainPC, AIKind
  <1> QED
    BY <1>2, <1>3, <1>4 DEF Plain

LEMMA AdjustKeeps ==
    ASSUME AccountsInv, NEW o \in Operation,
           IncreaseExecutionCount(o) \/ AddTokens(o) \/ DeductTokens(o)
    PROVE  AccountsInv'
  <1>1. PICK counter \in {"executions", "tokens"}, delta \in Int : Begins(o, Adjusting(counter, delta))
    <2>1. 1 \in Int /\ -2 \in Int
      OBVIOUS
    <2> QED
      BY <2>1 DEF IncreaseExecutionCount, AddTokens, DeductTokens
  <1>2. Plain(Adjusting(counter, delta))
    BY AdjustingIsPlain
  <1> QED
    BY <1>1, <1>2, OperationIs, PlainKeeps DEF Begins, At, OwesNothing, rowVars

LEMMA GetByAccountIdKeeps ==
    ASSUME AccountsInv, NEW o \in Operation, GetByAccountId(o)
    PROVE  AccountsInv'
  <1> DEFINE operation == operations[o]
             c == operation.counter
             seeding == [operation EXCEPT !.pc = "seeding"]
             writing == [operation EXCEPT !.pc = "writing", !.read = counters[c]]
  <1>1. /\ operation \in OperationRecord /\ operation.pc = "reading" /\ operation.key = NoPayment
        /\ c \in {"executions", "tokens"} /\ operation.kind \notin AIKind /\ operation.then # "change"
    BY OperationIs DEF GetByAccountId, At, Knows
  <1>2. c \in DOMAIN counters => counters[c] \in Int
    BY DEF AccountsInv, AccountTypes, CountersOK
  <1>3. Plain(seeding)
    <2>1. seeding \in OperationRecord /\ seeding.pc = "seeding" /\ seeding.then = operation.then
          /\ seeding.welcome = operation.welcome
      BY <1>1 DEF OperationRecord, PC
    <2> HIDE DEF seeding
    <2> QED
      BY <1>1, <2>1 DEF Plain, PlainPC, Knows
  <1>4. ASSUME c \in DOMAIN counters
        PROVE  Continues(o, writing) /\ OwesNothing(writing)
    <2>1. /\ writing \in OperationRecord /\ writing.pc = "writing" /\ writing.then = operation.then
          /\ writing.welcome = operation.welcome /\ writing.key = NoPayment /\ writing.counter = c
          /\ writing.kind = operation.kind
      BY <1>1, <1>2, <1>4 DEF OperationRecord, PC
    <2> HIDE DEF writing
    <2>2. Knows(writing)
      BY <1>1, <1>4, <2>1 DEF Knows
    <2>3. ~Noted(writing.key)
      BY <2>1 DEF Noted
    <2>4. ReadsBalance(writing)
      BY <1>1, <2>1 DEF ReadsBalance
    <2> QED
      BY <1>1, <2>1, <2>2, <2>3, <2>4 DEF Continues, Sound, OwesNothing, Admitted
  <1>5. OwesNothing(operations[o])
    BY <1>1 DEF OwesNothing
  <1>6. UNCHANGED <<counters, creditLedger, features, quotaWindow, successes, window, unexplained, admittedUnder>>
    BY DEF GetByAccountId, OnlyGoes, rowVars
  <1>7. \/ Goes(o, seeding) \/ Goes(o, Idle)
        \/ c \in DOMAIN counters /\ Goes(o, writing)
    BY DEF GetByAccountId, OnlyGoes
  <1> HIDE DEF seeding, writing
  <1> QED
    BY <1>3, <1>4, <1>5, <1>6, <1>7, IdleIsPlain, OperationIs, PlainKeeps, OnlyGoesKeeps

LEMMA InsertedKeeps ==
    ASSUME AccountsInv, NEW rows, DOMAIN rows \subseteq {"executions", "tokens"},
           \A c \in DOMAIN rows : rows[c] \in Int, counters' = Inserted(rows)
    PROVE  CountersOK' /\ DOMAIN counters \subseteq DOMAIN counters' /\ BalanceKept
  <1> DEFINE all == DOMAIN counters \cup DOMAIN rows
  <1>1. DOMAIN counters \subseteq Counter /\ \A c \in DOMAIN counters : counters[c] \in Int
    BY DEF AccountsInv, AccountTypes, CountersOK
  <1>2. DOMAIN counters' = all /\ \A c \in all : counters'[c] = IF c \in DOMAIN counters THEN counters[c] ELSE rows[c]
    BY DEF Inserted
  <1>3. CountersOK'
    <2>1. counters' = [c \in DOMAIN counters' |-> counters'[c]]
      BY DEF Inserted
    <2>2. DOMAIN counters' \subseteq Counter
      BY <1>1, <1>2 DEF Counter
    <2>3. \A c \in DOMAIN counters' : counters'[c] \in Int
      BY <1>1, <1>2
    <2> QED
      BY <2>1, <2>2, <2>3 DEF CountersOK
  <1>4. BalanceKept
    <2>1. "credits" \in DOMAIN counters' <=> "credits" \in DOMAIN counters
      BY <1>2
    <2>2. "credits" \in DOMAIN counters => counters'["credits"] = counters["credits"]
      BY <1>2
    <2> QED
      BY <2>1, <2>2 DEF BalanceKept
  <1> QED
    BY <1>2, <1>3, <1>4

LEMMA WithCountsKeeps ==
    ASSUME AccountsInv, NEW initial \in Int, counters' = WithCounts(initial)
    PROVE  CountersOK' /\ DOMAIN counters \subseteq DOMAIN counters' /\ BalanceKept
  <1> DEFINE rows == [c \in {"executions", "tokens"} |-> IF c = "executions" THEN initial ELSE 0]
  <1>1. DOMAIN rows = {"executions", "tokens"} /\ \A c \in DOMAIN rows : rows[c] \in Int
    OBVIOUS
  <1>2. counters' = Inserted(rows)
    BY DEF WithCounts
  <1> HIDE DEF rows
  <1> QED
    BY <1>1, <1>2, InsertedKeeps

LEMMA CreateCountsKeeps ==
    ASSUME AccountsInv, NEW o \in Operation, CreateCounts(o) \/ SeedCounts(o)
    PROVE  AccountsInv'
  <1>1. PICK initial \in Int : counters' = WithCounts(initial)
    BY DEF CreateCounts, SeedCounts
  <1>2. CountersOK' /\ DOMAIN counters \subseteq DOMAIN counters' /\ BalanceKept
    BY <1>1, WithCountsKeeps
  <1>3. PICK q : Goes(o, q) /\ Plain(q)
    <2>1. CASE CreateCounts(o)
      BY <2>1, NewIsPlain DEF CreateCounts
    <2>2. CASE SeedCounts(o)
      <3>1. operations[o].rest \in Seq(Feature)
        BY <2>2, OperationIs DEF SeedCounts, At, OperationRecord
      <3> QED
        BY <2>2, <3>1, AddingIsPlain DEF SeedCounts
    <2> QED
      BY <2>1, <2>2
  <1>4. /\ UNCHANGED <<creditLedger, features, quotaWindow, successes, window, unexplained, admittedUnder>>
        /\ OwesNothing(operations[o])
    BY DEF CreateCounts, SeedCounts, At, OwesNothing
  <1>5. unexplained' \/ (~unexplained /\ OwesNothing(operations[o]))
    BY <1>4
  <1> QED
    BY <1>2, <1>3, <1>4, <1>5, PlainContinues, GoesSteps, OperationIs, MoveKeeps DEF Continues

-----------------------------------------------------------------------------
(* Credits.                                                                 *)

LEMMA EnsuringIs ==
    ASSUME NEW welcome \in Nat, NEW then \in {"end", "apply"}
    PROVE  /\ Ensuring(welcome, then) \in OperationRecord
           /\ Ensuring(welcome, then).pc = "ensuring" /\ Ensuring(welcome, then).counter = "credits"
           /\ Ensuring(welcome, then).then = then /\ Ensuring(welcome, then).kind = "none"
  <1> DEFINE new == NewOperation("ensuring")
  <1>1. new \in OperationRecord /\ new.pc = "ensuring" /\ new.kind = "none"
    BY NewIs DEF PC
  <1> HIDE DEF new
  <1>2. Ensuring(welcome, then) = [new EXCEPT !.counter = "credits", !.welcome = welcome, !.then = then]
    BY DEF Ensuring, new
  <1> QED
    BY <1>1, <1>2 DEF OperationRecord, Counter

LEMMA EnsuringContinues ==
    ASSUME NEW o, NEW q \in OperationRecord, q.pc = "ensuring", q.counter = "credits",
           q.then \in {"end", "apply"}, q.kind = "none"
    PROVE  Continues(o, q) /\ OwesNothing(q)
  <1>1. Knows(q)
    BY DEF Knows
  <1> QED
    BY <1>1 DEF Continues, Sound, OwesNothing, ReadsBalance, Admitted, AIKind

LEMMA CreditKeeps ==
    ASSUME AccountsInv, NEW o \in Operation, Credit(o) \/ UpdateAutoTopup(o)
    PROVE  AccountsInv'
  <1>1. PICK q \in OperationRecord :
            /\ q.pc = "ensuring" /\ q.counter = "credits" /\ q.then \in {"end", "apply"} /\ q.kind = "none"
            /\ Begins(o, q)
    <2>1. CASE Credit(o)
      <3> DEFINE new == Ensuring(WelcomeCredit, "apply")
      <3>1. PICK key \in Payment : Begins(o, [new EXCEPT !.delta = 1, !.key = key])
        BY <2>1 DEF Credit
      <3>2. new \in OperationRecord /\ new.pc = "ensuring" /\ new.counter = "credits" /\ new.then = "apply"
            /\ new.kind = "none"
        BY EnsuringIs, AccountsAssumption
      <3> HIDE DEF new
      <3> DEFINE q == [new EXCEPT !.delta = 1, !.key = key]
      <3>3. q \in OperationRecord /\ q.pc = "ensuring" /\ q.counter = "credits" /\ q.then = "apply" /\ q.kind = "none"
        <4>1. key \in Payment \cup {NoPayment} /\ 1 \in Int
          OBVIOUS
        <4> QED
          BY <3>2, <4>1 DEF OperationRecord
      <3> HIDE DEF q
      <3> QED
        BY <3>1, <3>3 DEF q
    <2>2. CASE UpdateAutoTopup(o)
      BY <2>2, EnsuringIs DEF UpdateAutoTopup
    <2> QED
      BY <2>1, <2>2
  <1>2. Continues(o, q) /\ OwesNothing(q)
    BY <1>1, EnsuringContinues
  <1> QED
    BY <1>1, <1>2, OperationIs, OnlyGoesKeeps DEF Begins, At, OwesNothing, rowVars

(* A prompt at its next step.                                               *)
LEMMA PromptingIs ==
    ASSUME NEW pc \in PC, NEW operation \in OperationRecord, NEW models \in Seq(Model)
    PROVE  /\ Prompting(pc, operation, models) \in OperationRecord
           /\ Prompting(pc, operation, models).pc = pc
           /\ Prompting(pc, operation, models).kind = "prompt"
           /\ Prompting(pc, operation, models).limit = operation.limit
           /\ Prompting(pc, operation, models).then = "end"
           /\ Prompting(pc, operation, models).welcome = 0
           /\ Prompting(pc, operation, models).key = NoPayment
           /\ Prompting(pc, operation, models).models = models
  <1> DEFINE new == NewOperation(pc)
  <1>1. new \in OperationRecord /\ new.pc = pc /\ new.then = "end" /\ new.welcome = 0 /\ new.key = NoPayment
    BY NewIs
  <1> HIDE DEF new
  <1>2. Prompting(pc, operation, models) =
            [new EXCEPT !.kind = "prompt", !.limit = operation.limit, !.models = models]
    BY DEF Prompting, new
  <1>3. operation.limit \in Nat /\ "prompt" \in Feature
    BY DEF OperationRecord, Feature, AIKind
  <1> QED
    BY <1>1, <1>2, <1>3 DEF OperationRecord

LEMMA PromptingContinues ==
    ASSUME NEW o \in Operation, operations[o] \in OperationRecord, Admitted(operations[o]),
           operations[o].kind = "prompt",
           NEW pc \in {"running", "answered", "recording"}, NEW models \in Seq(Model)
    PROVE  Continues(o, Prompting(pc, operations[o], models)) /\ OwesNothing(Prompting(pc, operations[o], models))
  <1> DEFINE q == Prompting(pc, operations[o], models)
  <1>1. /\ q \in OperationRecord /\ q.pc = pc /\ q.kind = "prompt" /\ q.limit = operations[o].limit
        /\ q.then = "end"
    <2>1. pc \in PC
      BY DEF PC
    <2> QED
      BY <2>1, PromptingIs
  <1> HIDE DEF q
  <1>2. Knows(q)
    BY <1>1 DEF Knows, AIKind
  <1>3. Continues(o, q) /\ OwesNothing(q)
    BY <1>1, <1>2 DEF Continues, Sound, OwesNothing, ReadsBalance
  <1> QED
    BY <1>3 DEF q

LEMMA IdleContinues == ASSUME NEW o PROVE Continues(o, Idle) /\ OwesNothing(Idle)
  BY IdleIsPlain, PlainContinues

(* What follows once the balance is known to be there.                      *)
EnsuredTo(operation, balance, q) ==
    \/ q = Idle
    \/ /\ q \in OperationRecord /\ q.kind = operation.kind /\ q.limit = operation.limit
       /\ \/ q.pc = "running" /\ q.kind = "prompt" /\ q.then = "end"
          \/ /\ q.pc = "ensuring" /\ q.counter = "credits" /\ q.then = "change" /\ q.welcome = 0
          \/ /\ q.pc \in {"writing", "looking"} /\ q.counter = "credits" /\ q.read = balance
             /\ q.then = "change" /\ operation.then = "change" /\ q.welcome = 0
             /\ q.pc = "writing" => q.key = NoPayment

LEMMA EnsuredIs ==
    ASSUME NEW operation \in OperationRecord, NEW balance \in Int, operation.counter = "credits",
           operation.then = "run" => operation.kind = "prompt",
           operation.then = "change" => operation.welcome = 0
    PROVE  EnsuredTo(operation, balance, Ensured(operation, balance))
  <1> DEFINE ensuring == [operation EXCEPT !.pc = "ensuring", !.welcome = 0, !.then = "change"]
             changing(pc) == [operation EXCEPT !.pc = pc, !.read = balance]
  <1>1. CASE operation.then = "run"
    <2>1. operation.models \in Seq(Model) /\ "running" \in PC
      BY DEF OperationRecord, PC
    <2>2. CASE balance > 0
      <3>1. Ensured(operation, balance) = Prompting("running", operation, operation.models)
        BY <1>1, <2>2 DEF Ensured
      <3> QED
        BY <1>1, <2>1, <3>1, PromptingIs DEF EnsuredTo
    <2>3. CASE ~(balance > 0)
      BY <1>1, <2>3 DEF Ensured, EnsuredTo
    <2> QED
      BY <2>2, <2>3
  <1>2. CASE operation.then = "apply"
    <2>1. /\ ensuring \in OperationRecord /\ ensuring.pc = "ensuring" /\ ensuring.welcome = 0
          /\ ensuring.then = "change" /\ ensuring.counter = "credits" /\ ensuring.kind = operation.kind
          /\ ensuring.limit = operation.limit
      BY DEF OperationRecord, PC
    <2>2. Ensured(operation, balance) = ensuring
      BY <1>2 DEF Ensured
    <2> HIDE DEF ensuring
    <2> QED
      BY <2>1, <2>2 DEF EnsuredTo
  <1>3. CASE operation.then = "change"
    <2>1. ASSUME NEW pc \in {"writing", "looking"}, pc = "writing" => operation.key = NoPayment
          PROVE  EnsuredTo(operation, balance, changing(pc))
      <3> DEFINE q == changing(pc)
      <3>1. /\ q \in OperationRecord /\ q.pc = pc /\ q.read = balance /\ q.then = "change"
            /\ q.counter = "credits" /\ q.kind = operation.kind /\ q.limit = operation.limit
            /\ q.key = operation.key /\ q.welcome = 0
        BY <1>3 DEF OperationRecord, PC
      <3> HIDE DEF q
      <3>2. EnsuredTo(operation, balance, q)
        BY <1>3, <2>1, <3>1 DEF EnsuredTo
      <3> QED
        BY <3>2 DEF q
    <2>2. Ensured(operation, balance) = changing(IF operation.key = NoPayment THEN "writing" ELSE "looking")
      BY <1>3 DEF Ensured
    <2> HIDE DEF changing
    <2> QED
      BY <2>1, <2>2
  <1>4. CASE operation.then = "end"
    BY <1>4 DEF Ensured, EnsuredTo
  <1> QED
    BY <1>1, <1>2, <1>3, <1>4 DEF OperationRecord

LEMMA EnsuredContinues ==
    ASSUME NEW o \in Operation, operations[o] \in OperationRecord, Knows(operations[o]),
           operations[o].pc \in {"ensuring", "creating", "welcoming"},
           NEW balance \in Int, "credits" \in DOMAIN counters,
           operations[o].then = "change" => balance = counters["credits"]
    PROVE  Continues(o, Ensured(operations[o], balance)) /\ OwesNothing(Ensured(operations[o], balance))
  <1> DEFINE q == Ensured(operations[o], balance)
  <1>1. EnsuredTo(operations[o], balance, q)
    BY EnsuredIs DEF Knows
  <1> HIDE DEF q
  <1>2. CASE q = Idle
    BY <1>2, IdleContinues DEF q
  <1>3. CASE q # Idle
    <2>1. Knows(q)
      BY <1>1, <1>3 DEF EnsuredTo, Knows, AIKind
    <2>2. Continues(o, q) /\ OwesNothing(q)
      BY <1>1, <1>3, <2>1 DEF EnsuredTo, Continues, Sound, OwesNothing, ReadsBalance, Admitted, Noted
    <2> QED
      BY <2>2 DEF q
  <1> QED
    BY <1>2, <1>3

LEMMA EnsureKeeps ==
    ASSUME AccountsInv, NEW o \in Operation, Ensure(o)
    PROVE  AccountsInv'
  <1> DEFINE creating == [operations[o] EXCEPT !.pc = "creating"]
  <1>1. operations[o] \in OperationRecord /\ Knows(operations[o]) /\ operations[o].pc = "ensuring"
    BY OperationIs DEF Ensure, At
  <1>2. UNCHANGED <<counters, creditLedger, features, quotaWindow, successes, window, unexplained, admittedUnder>>
        /\ OwesNothing(operations[o])
    BY <1>1 DEF Ensure, OnlyGoes, rowVars, OwesNothing
  <1>3. CASE "credits" \in DOMAIN counters
    <2> DEFINE q == Ensured(operations[o], counters["credits"])
    <2>1. counters["credits"] \in Int
      BY <1>3 DEF AccountsInv, AccountTypes, CountersOK
    <2>2. Continues(o, q) /\ OwesNothing(q)
      BY <1>1, <1>3, <2>1, EnsuredContinues
    <2>3. Goes(o, q)
      BY <1>3 DEF Ensure, OnlyGoes
    <2> HIDE DEF q
    <2> QED
      BY <1>2, <2>2, <2>3, OperationIs, OnlyGoesKeeps
  <1>4. CASE "credits" \notin DOMAIN counters
    <2>1. /\ creating \in OperationRecord /\ creating.pc = "creating" /\ creating.counter = operations[o].counter
          /\ creating.then = operations[o].then /\ creating.kind = operations[o].kind
          /\ creating.limit = operations[o].limit /\ creating.welcome = operations[o].welcome
      BY <1>1 DEF OperationRecord, PC
    <2>2. Goes(o, creating)
      BY <1>4 DEF Ensure, OnlyGoes
    <2> HIDE DEF creating
    <2>3. Knows(creating)
      BY <1>1, <2>1 DEF Knows
    <2>4. Continues(o, creating) /\ OwesNothing(creating)
      BY <1>1, <2>1, <2>3 DEF Continues, Sound, OwesNothing, ReadsBalance, Admitted
    <2> QED
      BY <1>2, <2>2, <2>4, OperationIs, OnlyGoesKeeps
  <1> QED
    BY <1>3, <1>4

LEMMA FailedContinues ==
    ASSUME AccountsInv, NEW o \in Operation, operations[o] # Idle
    PROVE  Continues(o, Failed(operations[o])) /\ OwesNothing(Failed(operations[o]))
  <1>1. operations[o] \in OperationRecord /\ Knows(operations[o])
    BY OperationIs
  <1>2. CASE operations[o].pc = "welcoming"
    <2>1. /\ "credits" \in DOMAIN counters /\ operations[o].then # "change"
          /\ operations[o].welcome \in Int
      BY <1>1, <1>2 DEF Knows, OperationRecord
    <2> QED
      BY <1>1, <1>2, <2>1, EnsuredContinues DEF Failed
  <1>3. CASE operations[o].pc # "welcoming" /\ Charging(operations[o])
    <2>1. operations[o].models \in Seq(Model) /\ operations[o].pc # "idle"
      BY <1>1 DEF OperationRecord, PC
    <2>2. Admitted(operations[o]) /\ operations[o].kind = "prompt"
      BY <1>1, <1>3, <2>1 DEF Knows, Admitted, Charging, AIKind
    <2> QED
      BY <1>1, <1>3, <2>1, <2>2, PromptingContinues DEF Failed, Answered
  <1>4. CASE operations[o].pc # "welcoming" /\ ~Charging(operations[o])
    BY <1>4, IdleContinues DEF Failed
  <1> QED
    BY <1>2, <1>3, <1>4

LEMMA FailsKeeps ==
    ASSUME AccountsInv, NEW o \in Operation, Fails(o)
    PROVE  AccountsInv'
  <1>1. PICK q \in {Idle, Failed(operations[o])} : Goes(o, q)
    BY DEF Fails
  <1>2. Continues(o, q) /\ OwesNothing(q)
    BY <1>1, FailedContinues, IdleContinues DEF Fails
  <1>3. unexplained' \/ (~unexplained /\ OwesNothing(operations[o]))
    BY DEF Fails, At, OwesNothing
  <1>4. /\ UNCHANGED <<counters, creditLedger, features, quotaWindow, successes, window, admittedUnder>>
        /\ CountersOK' /\ DOMAIN counters \subseteq DOMAIN counters' /\ BalanceKept
    BY DEF Fails, rowVars, AccountsInv, AccountTypes, CountersOK, BalanceKept
  <1>5. Steps(o, q)
    BY <1>1, <1>2, GoesSteps DEF Continues
  <1>6. features' \subseteq Feature /\ quotaWindow' \in Nat
    BY <1>4, OperationIs
  <1> QED
    BY <1>2, <1>3, <1>4, <1>5, <1>6, MoveKeeps

LEMMA LedgerKeyExistsKeeps ==
    ASSUME AccountsInv, NEW o \in Operation, LedgerKeyExists(o)
    PROVE  AccountsInv'
  <1> DEFINE writing == [operations[o] EXCEPT !.pc = "writing"]
  <1>1. operations[o] \in OperationRecord /\ Knows(operations[o]) /\ operations[o].pc = "looking"
    BY OperationIs DEF LedgerKeyExists, At
  <1>2. UNCHANGED <<counters, creditLedger, features, quotaWindow, successes, window, unexplained, admittedUnder>>
        /\ OwesNothing(operations[o])
    BY <1>1 DEF LedgerKeyExists, OnlyGoes, rowVars, OwesNothing
  <1>3. CASE Noted(operations[o].key)
    BY <1>2, <1>3, IdleContinues, OperationIs, OnlyGoesKeeps DEF LedgerKeyExists, OnlyGoes
  <1>4. CASE ~Noted(operations[o].key)
    <2>1. /\ writing \in OperationRecord /\ writing.pc = "writing" /\ writing.counter = operations[o].counter
          /\ writing.then = operations[o].then /\ writing.kind = operations[o].kind
          /\ writing.limit = operations[o].limit /\ writing.welcome = operations[o].welcome
          /\ writing.key = operations[o].key /\ writing.read = operations[o].read
      BY <1>1 DEF OperationRecord, PC
    <2>2. Goes(o, writing)
      BY <1>4 DEF LedgerKeyExists, OnlyGoes
    <2> HIDE DEF writing
    <2>3. Knows(writing)
      BY <1>1, <2>1 DEF Knows
    <2>4. o \notin disturbed => ReadsBalance(writing)
      BY <1>1, <2>1 DEF AccountsInv, LedgerInv, ReadsBalance
    <2>5. Continues(o, writing) /\ OwesNothing(writing)
      BY <1>1, <1>4, <2>1, <2>3, <2>4 DEF Continues, Sound, OwesNothing, Admitted
    <2> QED
      BY <1>2, <2>2, <2>5, OperationIs, OnlyGoesKeeps
  <1> QED
    BY <1>3, <1>4

-----------------------------------------------------------------------------
(* AI requests up to their admission.                                       *)
LEMMA AskAIKeeps ==
    ASSUME AccountsInv, NEW o \in Operation, AskAI(o)
    PROVE  AccountsInv'
  <1> DEFINE new == NewOperation("window")
             Asking(kind, limit) == [new EXCEPT !.kind = kind, !.limit = limit]
  <1>1. PICK kind \in AIKind, limit \in Nat : Begins(o, Asking(kind, limit))
    <2>1. PICK kind \in AIKind : Begins(o, Asking(kind, LimitOf(kind)))
      BY DEF AskAI
    <2>2. LimitOf(kind) \in Nat
      BY AccountsAssumption DEF LimitOf
    <2> QED
      BY <2>1, <2>2
  <1>2. new \in OperationRecord /\ new.pc = "window" /\ new.then = "end"
    BY NewIs DEF PC
  <1> HIDE DEF new
  <1> DEFINE q == Asking(kind, limit)
  <1>3. q \in OperationRecord /\ q.pc = "window" /\ q.then = "end" /\ q.kind \in AIKind
    <2>1. kind \in Feature
      BY DEF Feature
    <2> QED
      BY <1>2, <2>1 DEF OperationRecord
  <1>4. Begins(o, q)
    BY <1>1
  <1> HIDE DEF q
  <1>5. Plain(q)
    BY <1>3 DEF Plain, PlainPC, Knows
  <1> QED
    BY <1>4, <1>5, OperationIs, PlainKeeps DEF Begins, At, OwesNothing, rowVars

LEMMA StartedIsPlain ==
    ASSUME AccountsInv, NEW operation \in OperationRecord, operation.kind \in AIKind,
           operation.then # "change", NEW pc \in {"starting", "advancing", "counted"},
           NEW start \in Nat, start <= window
    PROVE  Plain([operation EXCEPT !.pc = pc, !.start = start])
  <1> DEFINE q == [operation EXCEPT !.pc = pc, !.start = start]
  <1>1. q \in OperationRecord /\ q.pc = pc /\ q.then # "change" /\ q.kind \in AIKind /\ q.start = start
    BY DEF OperationRecord, PC
  <1> HIDE DEF q
  <1>2. Plain(q)
    BY <1>1 DEF Plain, PlainPC, Knows
  <1> QED
    BY <1>2 DEF q

LEMMA EnsurePeriodKeeps ==
    ASSUME AccountsInv, NEW o \in Operation, EnsurePeriod(o)
    PROVE  AccountsInv'
  <1>1. /\ operations[o] \in OperationRecord /\ operations[o].kind \in AIKind
        /\ operations[o].then # "change" /\ operations[o].pc = "window"
        /\ window \in Nat /\ window <= window
    BY OperationIs DEF EnsurePeriod, At, Knows, Windows
  <1>2. PICK pc \in {"starting", "advancing", "counted"} :
            OnlyGoes(o, [operations[o] EXCEPT !.pc = pc, !.start = window])
    BY DEF EnsurePeriod
  <1>3. Plain([operations[o] EXCEPT !.pc = pc, !.start = window])
    BY <1>1, StartedIsPlain
  <1> QED
    BY <1>1, <1>2, <1>3, OperationIs, PlainKeeps DEF OnlyGoes, OwesNothing, rowVars

LEMMA WriteWindowKeeps ==
    ASSUME AccountsInv, NEW o \in Operation, WriteWindow(o)
    PROVE  AccountsInv'
  <1> DEFINE q == [operations[o] EXCEPT !.pc = "counted"]
  <1>1. /\ operations[o] \in OperationRecord /\ operations[o].kind \in AIKind
        /\ operations[o].then # "change" /\ operations[o].pc \in {"starting", "advancing"}
        /\ operations[o].start \in Nat /\ operations[o].start <= window
    BY OperationIs DEF WriteWindow, Knows, OperationRecord
  <1>2. Plain(q)
    <2>1. q \in OperationRecord /\ q.pc = "counted" /\ q.then # "change" /\ q.kind \in AIKind
          /\ q.start = operations[o].start
      BY <1>1 DEF OperationRecord, PC
    <2> HIDE DEF q
    <2> QED
      BY <1>1, <2>1 DEF Plain, PlainPC, Knows
  <1>3. /\ UNCHANGED <<counters, creditLedger, features, successes, window, unexplained, admittedUnder>>
        /\ OwesNothing(operations[o]) /\ quotaWindow' \in Nat
    BY <1>1, OperationIs DEF WriteWindow, OwesNothing
  <1>4. Goes(o, q) \/ Goes(o, Idle)
    BY DEF WriteWindow
  <1> HIDE DEF q
  <1> QED
    BY <1>2, <1>3, <1>4, IdleIsPlain, OperationIs, PlainKeeps

-----------------------------------------------------------------------------
(* AI requests after their admission.                                       *)
LEMMA ExecutePromptKeeps ==
    ASSUME AccountsInv, NEW o \in Operation, ExecutePrompt(o)
    PROVE  AccountsInv'
  <1> DEFINE operation == operations[o]
             models == Tail(operation.models)
             new == Prompting("ensuring", operation, models)
             charging == [new EXCEPT !.counter = "credits", !.delta = -RunPrice, !.then = "change"]
  <1>1. /\ operation \in OperationRecord /\ operation.pc = "running" /\ operation.kind = "prompt"
        /\ operation.models \in Seq(Model) /\ Admitted(operation)
    BY OperationIs DEF ExecutePrompt, At, OperationRecord, Admitted, AIKind
  <1>2. UNCHANGED <<counters, creditLedger, features, quotaWindow, successes, window, unexplained, admittedUnder>>
        /\ OwesNothing(operation)
    BY <1>1 DEF ExecutePrompt, OnlyGoes, rowVars, OwesNothing
  <1>3. PICK q : Goes(o, q) /\ Continues(o, q) /\ OwesNothing(q)
    <2>1. CASE Goes(o, Idle)
      BY <2>1, IdleContinues
    <2>2. CASE operation.models # <<>> /\ \E pc \in {"running", "answered"} : Goes(o, Prompting(pc, operation, models))
      <3>1. models \in Seq(Model)
        BY <1>1, <2>2
      <3> QED
        BY <1>1, <2>2, <3>1, PromptingContinues
    <2>3. CASE operation.models # <<>> /\ Goes(o, charging)
      <3>1. models \in Seq(Model)
        BY <1>1, <2>3
      <3> HIDE DEF models
      <3>2. /\ new \in OperationRecord /\ new.pc = "ensuring" /\ new.kind = "prompt"
            /\ new.limit = operation.limit /\ new.welcome = 0
        <4>1. "ensuring" \in PC
          BY DEF PC
        <4> QED
          BY <1>1, <3>1, <4>1, PromptingIs
      <3> HIDE DEF new
      <3>3. /\ charging \in OperationRecord /\ charging.pc = "ensuring" /\ charging.kind = "prompt"
            /\ charging.limit = operation.limit /\ charging.counter = "credits" /\ charging.then = "change"
            /\ charging.welcome = 0
        <4>1. -RunPrice \in Int
          BY AccountsAssumption
        <4> QED
          BY <3>2, <4>1 DEF OperationRecord, Counter
      <3> HIDE DEF charging
      <3>4. Knows(charging)
        BY <3>3 DEF Knows
      <3>5. Continues(o, charging) /\ OwesNothing(charging)
        BY <1>1, <3>3, <3>4 DEF Continues, Sound, OwesNothing, ReadsBalance, Admitted
      <3> QED
        BY <2>3, <3>5
    <2> QED
      BY <2>1, <2>2, <2>3 DEF ExecutePrompt, OnlyGoes
  <1> QED
    BY <1>2, <1>3, OperationIs, OnlyGoesKeeps

(* A request at another step, its record otherwise unchanged.               *)
LEMMA ParseAnswerKeeps ==
    ASSUME AccountsInv, NEW o \in Operation, ParseAnswer(o)
    PROVE  AccountsInv'
  <1> DEFINE running == [operations[o] EXCEPT !.pc = "running"]
  <1>1. /\ operations[o] \in OperationRecord /\ operations[o].pc = "answered" /\ operations[o].kind = "prompt"
        /\ Admitted(operations[o]) /\ operations[o].then # "change"
    BY OperationIs DEF ParseAnswer, At, Admitted, Knows, AIKind
  <1>2. Continues(o, running) /\ OwesNothing(running)
    <2>1. /\ running \in OperationRecord /\ running.pc = "running" /\ running.kind = "prompt"
          /\ running.limit = operations[o].limit /\ running.then # "change"
      BY <1>1 DEF OperationRecord, PC
    <2> HIDE DEF running
    <2>2. Knows(running)
      BY <2>1 DEF Knows, AIKind
    <2> QED
      BY <1>1, <2>1, <2>2 DEF Continues, Sound, OwesNothing, ReadsBalance, Admitted
  <1>3. Continues(o, Prompting("recording", operations[o], <<>>))
        /\ OwesNothing(Prompting("recording", operations[o], <<>>))
    <2>1. <<>> \in Seq(Model)
      OBVIOUS
    <2> QED
      BY <1>1, <2>1, PromptingContinues
  <1>4. Goes(o, running) \/ Goes(o, Prompting("recording", operations[o], <<>>))
    BY DEF ParseAnswer, OnlyGoes
  <1>5. UNCHANGED <<counters, creditLedger, features, quotaWindow, successes, window, unexplained, admittedUnder>>
        /\ OwesNothing(operations[o])
    BY <1>1 DEF ParseAnswer, OnlyGoes, rowVars, OwesNothing
  <1> HIDE DEF running
  <1> QED
    BY <1>2, <1>3, <1>4, <1>5, OperationIs, OnlyGoesKeeps

LEMMA ClassifyPromptKeeps ==
    ASSUME AccountsInv, NEW o \in Operation, ClassifyPrompt(o)
    PROVE  AccountsInv'
  <1> DEFINE recording == [operations[o] EXCEPT !.pc = "recording"]
  <1>1. /\ operations[o] \in OperationRecord /\ operations[o].pc = "running" /\ operations[o].kind = "classify"
        /\ Admitted(operations[o]) /\ operations[o].then # "change"
    BY OperationIs DEF ClassifyPrompt, At, Admitted, Knows, AIKind
  <1>2. Continues(o, recording) /\ OwesNothing(recording)
    <2>1. /\ recording \in OperationRecord /\ recording.pc = "recording" /\ recording.kind = "classify"
          /\ recording.limit = operations[o].limit /\ recording.then # "change"
      BY <1>1 DEF OperationRecord, PC
    <2> HIDE DEF recording
    <2>2. Knows(recording)
      BY <2>1 DEF Knows, AIKind
    <2> QED
      BY <1>1, <2>1, <2>2 DEF Continues, Sound, OwesNothing, ReadsBalance, Admitted
  <1>3. Goes(o, recording) \/ Goes(o, Idle)
    BY DEF ClassifyPrompt, OnlyGoes
  <1>4. UNCHANGED <<counters, creditLedger, features, quotaWindow, successes, window, unexplained, admittedUnder>>
        /\ OwesNothing(operations[o])
    BY <1>1 DEF ClassifyPrompt, OnlyGoes, rowVars, OwesNothing
  <1> HIDE DEF recording
  <1> QED
    BY <1>2, <1>3, <1>4, IdleContinues, OperationIs, OnlyGoesKeeps

-----------------------------------------------------------------------------
(* Admission and success.                                                   *)
LEMMA MaxOfTwo ==
    ASSUME NEW a \in Int, NEW b \in Int
    PROVE  Max({a, b}) \in {a, b} /\ Max({a, b}) >= a /\ Max({a, b}) >= b
  <1>1. \E x \in {a, b} : \A y \in {a, b} : x >= y
    <2>1. CASE a >= b
      BY <2>1
    <2>2. CASE b >= a
      BY <2>2
    <2> QED
      BY <2>1, <2>2
  <1>2. Max({a, b}) \in {a, b} /\ \A y \in {a, b} : Max({a, b}) >= y
    BY <1>1 DEF Max
  <1> QED
    BY <1>2

LEMMA AdmittedKeeps ==
    ASSUME AccountsInv, NEW o \in Operation, NEW q, Sound(o, q), OwesNothing(q), Goes(o, q),
           operations[o].pc = "counted", WithinLimit(operations[o]),
           q.kind = operations[o].kind, q.limit = operations[o].limit,
           UNCHANGED <<counters, creditLedger, features, quotaWindow, successes, window, unexplained, admittedUnder>>
    PROVE  AccountsInv'
  <1>1. operations' = [operations EXCEPT ![o] = q] /\ Steps(o, q)
    BY GoesSteps DEF Goes
  <1>2. OperationsOK'
    <2>1. DOMAIN counters \subseteq DOMAIN counters'
      OBVIOUS
    <2> QED
      BY <1>1, <2>1, OperationsMove DEF AccountsInv, Sound
  <1>3. AccountTypes'
    BY <1>2 DEF AccountsInv, AccountTypes, CountersOK
  <1>4. LedgerInv'
    <2>1. BalanceKept
      BY DEF BalanceKept
    <2>2. unexplained' \/ (~unexplained /\ OwesNothing(operations[o]))
      BY DEF OwesNothing
    <2> QED
      BY <1>1, <2>1, <2>2, LedgerMove DEF AccountsInv
  <1>5. ASSUME NEW kind \in AIKind, NEW w \in window..MaxWindow, NEW m \in Nat, m >= admittedUnder[kind][w]
        PROVE  SuccessesIn(kind, w) + Cardinality(InFlight(kind, m)') <= m + Cardinality(Operation) - 1
    <2>1. \A p \in Operation : operations'[p] = IF p = o THEN q ELSE operations[p]
      BY <1>1, OneOperation DEF AccountsInv
    <2>2. Cardinality(InFlight(kind, m)') \in Nat /\ Cardinality(InFlight(kind, m)') <= Cardinality(Operation)
      BY AccountsAssumption, FS_Subset, FS_CardinalityType DEF InFlight
    <2>3. SuccessesIn(kind, w) \in Nat
      BY LogFinite DEF AccountsInv
    <2>4. CASE kind = q.kind /\ q.limit <= m
      <3>1. /\ operations[o].start \in Nat /\ operations[o].start <= window /\ operations[o].limit \in Nat
            /\ window \in Nat /\ w >= window /\ w \in Nat
        BY <1>5, OperationIs DEF OperationRecord, Knows, Windows
      <3>2. SuccessesIn(kind, w) <= SuccessesSince(kind, operations[o].start)
            /\ SuccessesSince(kind, operations[o].start) \in Nat
        <4> DEFINE log == successes[kind]
                   All == {i \in DOMAIN log : log[i] >= operations[o].start}
        <4>1. log \in Seq(Windows) /\ DOMAIN log = 1..Len(log) /\ Len(log) \in Nat
          BY DEF AccountsInv, AccountTypes
        <4>2. IsFiniteSet(All)
          <5>0. All \subseteq DOMAIN log
            OBVIOUS
          <5> HIDE DEF All, log
          <5>1. 1 \in Int /\ Len(log) \in Int
            BY <4>1
          <5>2. IsFiniteSet(1..Len(log))
            BY <5>1, FS_Interval
          <5> QED
            BY <4>1, <5>0, <5>2, FS_Subset
        <4>3. {i \in DOMAIN log : log[i] = w} \subseteq All
          BY <3>1
        <4> QED
          BY <4>2, <4>3, FS_Subset, FS_CardinalityType DEF SuccessesIn, SuccessesSince
      <3>3. SuccessesSince(kind, operations[o].start) < operations[o].limit
        BY <2>4 DEF WithinLimit
      <3>4. Cardinality(Operation) \in Nat
        BY OrderIs
      <3> QED
        BY <2>2, <2>3, <2>4, <3>1, <3>2, <3>3, <3>4
    <2>5. CASE ~(kind = q.kind /\ q.limit <= m)
      <3>1. InFlight(kind, m)' \subseteq InFlight(kind, m)
        BY <2>1, <2>5 DEF InFlight, Admitted
      <3>2. Cardinality(InFlight(kind, m)') <= Cardinality(InFlight(kind, m)) /\ Cardinality(InFlight(kind, m)) \in Nat
        BY <3>1, InFlightFinite, FS_Subset
      <3>3. SuccessesIn(kind, w) + Cardinality(InFlight(kind, m)) <= m + Cardinality(Operation) - 1
        BY <1>5 DEF AccountsInv, LimitInv
      <3> QED
        BY <2>2, <2>3, <3>2, <3>3, OrderIs
    <2> QED
      BY <2>4, <2>5
  <1>6. LimitInv'
    BY <1>5 DEF AccountsInv, LimitInv, LimitPassedByOverlapOnly, SuccessesIn
  <1> QED
    BY <1>3, <1>4, <1>6 DEF AccountsInv

LEMMA EnforceQuotaKeeps ==
    ASSUME AccountsInv, NEW o \in Operation, EnforceQuota(o)
    PROVE  AccountsInv'
  <1> DEFINE operation == operations[o]
             running == [operation EXCEPT !.pc = "running"]
             new(models) == Prompting("ensuring", operation, models)
             ensuring(models) == [new(models) EXCEPT !.counter = "credits", !.welcome = WelcomeCredit, !.then = "run"]
  <1>1. /\ operation \in OperationRecord /\ operation.pc = "counted" /\ operation.kind \in AIKind
        /\ operation.then # "change"
    BY OperationIs DEF EnforceQuota, At, Knows
  <1>2. UNCHANGED <<counters, creditLedger, features, quotaWindow, successes, window, unexplained, admittedUnder>>
        /\ OwesNothing(operation)
    BY <1>1 DEF EnforceQuota, OnlyGoes, rowVars, OwesNothing
  <1>3. CASE ~WithinLimit(operation)
    BY <1>2, <1>3, IdleContinues, OperationIs, OnlyGoesKeeps DEF EnforceQuota, OnlyGoes
  <1>4. CASE WithinLimit(operation)
    <2>1. PICK q : Goes(o, q) /\ Sound(o, q) /\ OwesNothing(q) /\ q.kind = operation.kind /\ q.limit = operation.limit
      <3>1. CASE operation.kind = "classify"
        <4>1. /\ running \in OperationRecord /\ running.pc = "running" /\ running.kind = "classify"
              /\ running.limit = operation.limit /\ running.then # "change"
          BY <1>1, <3>1 DEF OperationRecord, PC
        <4>2. Goes(o, running)
          BY <1>4, <3>1 DEF EnforceQuota, OnlyGoes
        <4> HIDE DEF running
        <4>3. Knows(running)
          BY <4>1 DEF Knows, AIKind
        <4>4. Sound(o, running) /\ OwesNothing(running)
          BY <4>1, <4>3 DEF Sound, OwesNothing, ReadsBalance
        <4> QED
          BY <3>1, <4>1, <4>2, <4>4
      <3>2. CASE operation.kind # "classify"
        <4>1. operation.kind = "prompt"
          BY <1>1, <3>2 DEF AIKind
        <4>2. PICK models \in ModelLists :
                  Goes(o, Prompting("running", operation, models)) \/ Goes(o, ensuring(models))
          BY <1>4, <3>2 DEF EnforceQuota, OnlyGoes
        <4>3. models \in Seq(Model)
          <5>1. /\ <<>> \in Seq(Model) /\ <<"own">> \in Seq(Model) /\ <<"platform">> \in Seq(Model)
                /\ <<"platform", "own">> \in Seq(Model) /\ <<"own", "platform">> \in Seq(Model)
            BY DEF Model
          <5> QED
            BY <5>1 DEF ModelLists
        <4>4. CASE Goes(o, Prompting("running", operation, models))
          <5> DEFINE q == Prompting("running", operation, models)
          <5>1. "running" \in PC
            BY DEF PC
          <5>2. /\ q \in OperationRecord /\ q.pc = "running" /\ q.kind = "prompt"
                /\ q.limit = operation.limit /\ q.then = "end"
            BY <1>1, <4>3, <5>1, PromptingIs
          <5>3. Goes(o, q)
            BY <4>4
          <5> HIDE DEF q
          <5>4. Knows(q)
            BY <5>2 DEF Knows, AIKind
          <5>5. Sound(o, q) /\ OwesNothing(q)
            BY <5>2, <5>4 DEF Sound, OwesNothing, ReadsBalance
          <5> QED
            BY <4>1, <5>2, <5>3, <5>5
        <4>5. CASE Goes(o, ensuring(models))
          <5> DEFINE base == new(models)
                     q == [base EXCEPT !.counter = "credits", !.welcome = WelcomeCredit, !.then = "run"]
          <5>1. "ensuring" \in PC
            BY DEF PC
          <5>2. base \in OperationRecord /\ base.pc = "ensuring" /\ base.kind = "prompt" /\ base.limit = operation.limit
            BY <1>1, <4>3, <5>1, PromptingIs
          <5>3. Goes(o, q)
            BY <4>5
          <5> HIDE DEF base
          <5>4. /\ q \in OperationRecord /\ q.pc = "ensuring" /\ q.kind = "prompt" /\ q.limit = operation.limit
                /\ q.counter = "credits" /\ q.then = "run"
            BY <5>2, AccountsAssumption DEF OperationRecord, Counter
          <5> HIDE DEF q
          <5>5. Knows(q)
            BY <5>4 DEF Knows
          <5>6. Sound(o, q) /\ OwesNothing(q)
            BY <5>4, <5>5 DEF Sound, OwesNothing, ReadsBalance
          <5> QED
            BY <4>1, <5>3, <5>4, <5>6
        <4> QED
          BY <4>2, <4>4, <4>5
      <3> QED
        BY <3>1, <3>2
    <2> QED
      BY <1>1, <1>2, <1>4, <2>1, AdmittedKeeps
  <1> QED
    BY <1>3, <1>4

LEMMA LogGrows ==
    ASSUME AccountsInv, NEW kind \in AIKind, NEW w \in Windows,
           successes' = [successes EXCEPT ![kind] = Append(@, w)]
    PROVE  /\ successes' \in [AIKind -> Seq(Windows)]
           /\ \A k \in AIKind, v \in Windows :
                  SuccessesIn(k, v)' = SuccessesIn(k, v) + (IF k = kind /\ v = w THEN 1 ELSE 0)
  <1>1. successes \in [AIKind -> Seq(Windows)]
    BY DEF AccountsInv, AccountTypes
  <1>2. successes[kind] \in Seq(Windows) /\ Append(successes[kind], w) \in Seq(Windows)
    BY <1>1
  <1>3. successes' \in [AIKind -> Seq(Windows)]
    BY <1>1, <1>2
  <1>4. ASSUME NEW k \in AIKind, NEW v \in Windows
        PROVE  SuccessesIn(k, v)' = SuccessesIn(k, v) + (IF k = kind /\ v = w THEN 1 ELSE 0)
    <2> DEFINE log == successes[kind]
               n == Len(log)
               grown == Append(log, w)
               Old == {i \in DOMAIN log : log[i] = v}
               New == {i \in DOMAIN grown : grown[i] = v}
    <2>0. SuccessesIn(k, v) \in Nat
      BY LogFinite DEF AccountsInv
    <2>1. CASE k # kind
      <3>1. successes'[k] = successes[k]
        BY <1>1, <2>1
      <3> QED
        BY <2>0, <2>1, <3>1 DEF SuccessesIn
    <2>2. CASE k = kind
      <3>1. /\ n \in Nat /\ DOMAIN log = 1..n /\ DOMAIN grown = 1..(n + 1) /\ grown[n + 1] = w
            /\ \A i \in 1..n : grown[i] = log[i]
        BY <1>2
      <3>2. IsFiniteSet(Old) /\ SuccessesIn(k, v) = Cardinality(Old)
        BY <2>2, LogFinite DEF AccountsInv, SuccessesIn
      <3>3. successes'[k] = grown
        BY <1>1, <2>2
      <3>4. SuccessesIn(k, v)' = Cardinality(New)
        BY <3>3 DEF SuccessesIn
      <3>5. CASE v = w
        <4>1. New = Old \cup {n + 1} /\ n + 1 \notin Old
          <5> HIDE DEF log, n, grown
          <5> QED
            BY <3>1, <3>5
        <4> HIDE DEF New, Old, n, log
        <4>2. Cardinality(New) = Cardinality(Old) + 1
          BY <3>2, <4>1, FS_AddElement
        <4> QED
          BY <2>2, <3>2, <3>4, <3>5, <4>2
      <3>6. CASE v # w
        <4>1. New = Old
          <5> HIDE DEF log, n, grown
          <5> QED
            BY <3>1, <3>6
        <4> HIDE DEF New, Old
        <4> QED
          BY <2>0, <3>2, <3>4, <3>6, <4>1
      <3> QED
        BY <3>5, <3>6
    <2> QED
      BY <2>1, <2>2
  <1> QED
    BY <1>3, <1>4

LEMMA RecordSuccessKeeps ==
    ASSUME AccountsInv, NEW o \in Operation, RecordSuccess(o)
    PROVE  AccountsInv'
  <1> DEFINE kind == operations[o].kind
             limit == operations[o].limit
             raised == Max({admittedUnder[kind][window], limit})
  <1>1. /\ operations[o] \in OperationRecord /\ operations[o].pc = "recording" /\ kind \in AIKind
        /\ limit \in Nat /\ window \in Windows /\ Admitted(operations[o])
    BY OperationIs DEF RecordSuccess, At, OperationRecord, Knows, Admitted
  <1>2. UNCHANGED <<counters, creditLedger, features, quotaWindow, window, unexplained>>
        /\ Goes(o, Idle) /\ OwesNothing(operations[o])
    BY <1>1 DEF RecordSuccess, OwesNothing
  <1>3. /\ admittedUnder \in [AIKind -> [Windows -> Nat]] /\ admittedUnder[kind][window] \in Nat
        /\ AccountTypes
    BY <1>1 DEF AccountsInv, AccountTypes
  <1>4. raised \in Nat /\ raised >= admittedUnder[kind][window] /\ raised >= limit
    <2> DEFINE old == admittedUnder[kind][window]
    <2>1. old \in Int /\ limit \in Int /\ old \in Nat /\ limit \in Nat
      BY <1>1, <1>3
    <2> HIDE DEF old, limit
    <2>2. Max({old, limit}) \in {old, limit} /\ Max({old, limit}) >= old /\ Max({old, limit}) >= limit
      BY <2>1, MaxOfTwo
    <2> QED
      BY <2>1, <2>2 DEF old
  <1>5. admittedUnder' = [admittedUnder EXCEPT ![kind][window] = raised]
    BY <1>1, <1>3 DEF RecordSuccess
  <1>6. successes' = [successes EXCEPT ![kind] = Append(@, window)]
    BY DEF RecordSuccess
  <1> HIDE DEF raised
  <1>7. /\ admittedUnder' \in [AIKind -> [Windows -> Nat]]
        /\ \A k \in AIKind, v \in Windows : admittedUnder'[k][v] =
               IF k = kind /\ v = window THEN raised ELSE admittedUnder[k][v]
    BY <1>1, <1>3, <1>4, <1>5
  <1>8. /\ successes' \in [AIKind -> Seq(Windows)]
        /\ \A k \in AIKind, v \in Windows :
               SuccessesIn(k, v)' = SuccessesIn(k, v) + (IF k = kind /\ v = window THEN 1 ELSE 0)
    BY <1>1, <1>6, LogGrows
  <1>9. operations' = [operations EXCEPT ![o] = Idle] /\ Sound(o, Idle) /\ OwesNothing(Idle) /\ Steps(o, Idle)
    BY <1>2, IdleContinues, GoesSteps DEF Goes, Continues
  <1>10. AccountTypes'
    <2>1. OperationsOK'
      BY <1>2, <1>3, <1>9, OperationsMove DEF Sound
    <2> QED
      BY <1>2, <1>7, <1>8, <2>1 DEF AccountsInv, AccountTypes, CountersOK
  <1>11. LedgerInv'
    <2>1. BalanceKept /\ (unexplained' \/ (~unexplained /\ OwesNothing(operations[o])))
      BY <1>2 DEF BalanceKept
    <2> QED
      BY <1>2, <1>3, <1>9, <2>1, LedgerMove DEF AccountsInv
  <1>12. ASSUME NEW k \in AIKind, NEW w \in window..MaxWindow, NEW m \in Nat, m >= admittedUnder'[k][w]
         PROVE  SuccessesIn(k, w)' + Cardinality(InFlight(k, m)') <= m + Cardinality(Operation) - 1
    <2>0. w \in Windows
      BY <1>1, AccountsAssumption DEF Windows
    <2>1. \A p \in Operation : operations'[p] = IF p = o THEN Idle ELSE operations[p]
      BY <1>3, <1>9, OneOperation
    <2>2. InFlight(k, m)' \subseteq InFlight(k, m)
      BY <2>1 DEF InFlight, Admitted, Idle
    <2>3. m >= admittedUnder[k][w]
      BY <1>3, <1>4, <1>7, <1>12, <2>0
    <2>4. SuccessesIn(k, w) + Cardinality(InFlight(k, m)) <= m + Cardinality(Operation) - 1
      BY <2>3 DEF AccountsInv, LimitInv
    <2>5. /\ Cardinality(InFlight(k, m)') \in Nat /\ Cardinality(InFlight(k, m)) \in Nat
          /\ Cardinality(InFlight(k, m)') <= Cardinality(InFlight(k, m)) /\ IsFiniteSet(InFlight(k, m))
      BY <2>2, InFlightFinite, FS_Subset, FS_CardinalityType
    <2>6. SuccessesIn(k, w) \in Nat
      BY <1>3, LogFinite
    <2>7. CASE k = kind /\ w = window
      <3>1. limit <= m
        BY <1>1, <1>4, <1>7, <1>12, <2>0, <2>7
      <3>2. o \in InFlight(k, m)
        BY <1>1, <2>7, <3>1 DEF InFlight
      <3>3. o \notin InFlight(k, m)'
        BY <2>1 DEF InFlight, Admitted, Idle
      <3>4. InFlight(k, m)' \subseteq InFlight(k, m) \ {o}
        BY <2>2, <3>3
      <3>5. /\ IsFiniteSet(InFlight(k, m) \ {o})
            /\ Cardinality(InFlight(k, m) \ {o}) = Cardinality(InFlight(k, m)) - 1
        BY <2>5, <3>2, FS_RemoveElement
      <3>6. Cardinality(InFlight(k, m)') <= Cardinality(InFlight(k, m)) - 1
        BY <3>4, <3>5, FS_Subset
      <3>7. SuccessesIn(k, w)' = SuccessesIn(k, w) + 1
        BY <1>8, <2>0, <2>7
      <3> QED
        BY <2>4, <2>5, <2>6, <3>6, <3>7, OrderIs
    <2>8. CASE ~(k = kind /\ w = window)
      <3>1. SuccessesIn(k, w)' = SuccessesIn(k, w)
        BY <1>8, <2>0, <2>6, <2>8
      <3> QED
        BY <2>4, <2>5, <2>6, <3>1, OrderIs
    <2> QED
      BY <2>7, <2>8
  <1>13. LimitInv'
    <2>1. ASSUME NEW k \in AIKind, NEW w \in Windows
          PROVE  SuccessesIn(k, w)' <= admittedUnder'[k][w] + Cardinality(Operation) - 1
      <3>0. SuccessesIn(k, w) \in Nat
        BY <1>3, LogFinite
      <3>1. CASE k = kind /\ w = window
        <4>1. w \in window..MaxWindow /\ admittedUnder'[k][w] \in Nat /\ admittedUnder'[k][w] >= admittedUnder'[k][w]
          BY <1>1, <1>7, <3>1, AccountsAssumption DEF Windows
        <4>0. PICK m \in Nat : m = admittedUnder'[k][w]
          BY <4>1
        <4>2. SuccessesIn(k, w)' + Cardinality(InFlight(k, m)') <= m + Cardinality(Operation) - 1
          BY <1>12, <4>0, <4>1
        <4>3. Cardinality(InFlight(k, m)') \in Nat
          <5>1. InFlight(k, m)' \subseteq Operation
            BY DEF InFlight
          <5> QED
            BY <5>1, AccountsAssumption, FS_Subset, FS_CardinalityType
        <4>4. SuccessesIn(k, w)' \in Nat
          BY <1>8, <3>0
        <4> QED
          BY <4>0, <4>2, <4>3, <4>4, OrderIs
      <3>2. CASE ~(k = kind /\ w = window)
        <4>1. SuccessesIn(k, w)' = SuccessesIn(k, w) /\ admittedUnder'[k][w] = admittedUnder[k][w]
          BY <1>7, <1>8, <3>0, <3>2
        <4> QED
          BY <4>1 DEF AccountsInv, LimitInv, LimitPassedByOverlapOnly
      <3> QED
        BY <3>1, <3>2
    <2> QED
      BY <1>2, <1>12, <2>1 DEF LimitInv, LimitPassedByOverlapOnly
  <1> QED
    BY <1>10, <1>11, <1>13 DEF AccountsInv

-----------------------------------------------------------------------------
(* The ledger.                                                              *)
LEMMA RestKeeps ==
    ASSUME AccountsInv, NEW o \in Operation, NEW q, Continues(o, q), operations' = [operations EXCEPT ![o] = q],
           CountersOK', DOMAIN counters \subseteq DOMAIN counters', creditLedger' \in Seq(LedgerEntry),
           LedgerInv', UNCHANGED <<features, quotaWindow, successes, window, admittedUnder>>
    PROVE  AccountsInv'
  <1>1. OperationsOK'
    BY OperationsMove DEF AccountsInv, Continues, Sound
  <1>2. AccountTypes'
    BY <1>1 DEF AccountsInv, AccountTypes
  <1>3. LimitInv'
    BY LimitMove DEF AccountsInv, Continues
  <1> QED
    BY <1>2, <1>3 DEF AccountsInv

(* The entry that is owed is appended.                                      *)
LEMMA AppendMove ==
    ASSUME AccountTypes, LedgerInv, NEW o \in Operation, NEW q, Sound(o, q), OwesNothing(q), Steps(o, q),
           BalanceKept, "credits" \in DOMAIN counters, NEW entry \in LedgerEntry,
           creditLedger' = Append(creditLedger, entry),
           q.pc = "writing" => q.key = NoPayment,
           Owed(operations[o]) = entry.amount,
           operations[o].pc = "noting" => entry.after = operations[o].read,
           ~unexplained' => ~unexplained,
           ~unexplained' => \A p \in Operation \ {o} : operations[p].pc \in {"writing", "noting"}
                                => operations[p].key = NoPayment \/ operations[p].key # entry.key
    PROVE  LedgerInv' /\ creditLedger' \in Seq(LedgerEntry)
  <1>1. operations' = [operations EXCEPT ![o] = q]
    BY DEF Steps
  <1>0. \A p \in Operation : operations'[p] = IF p = o THEN q ELSE operations[p]
    BY <1>1, OneOperation
  <1>2. creditLedger' \in Seq(LedgerEntry) /\ LedgerSum' = LedgerSum + entry.amount /\ LedgerSum \in Int
    BY LedgerSumGrows, LedgerSumIs DEF AccountTypes
  <1>3. /\ creditLedger \in Seq(LedgerEntry) /\ Len(creditLedger) \in Nat
        /\ DOMAIN creditLedger = 1..Len(creditLedger) /\ DOMAIN creditLedger' = 1..(Len(creditLedger) + 1)
        /\ creditLedger'[Len(creditLedger) + 1] = entry
        /\ \A i \in 1..Len(creditLedger) : creditLedger'[i] = creditLedger[i]
    BY DEF AccountTypes
  <1>4. ASSUME ~unexplained' PROVE Explained'
    <2>1. ~unexplained /\ Explained
      BY <1>4 DEF LedgerInv
    <2>2. OwedSum' = OwedSum - entry.amount /\ OwedSum \in Int /\ entry.amount \in Int
      <3>1. operations \in [Operation -> OperationRecord \cup {Idle}] /\ q \in OperationRecord \cup {Idle}
        BY DEF Sound, AccountTypes, OperationsOK
      <3>2. OwedSum' = OwedSum + Owed(q) - Owed(operations[o])
        BY <1>1, <3>1, OwedSumMoves
      <3>3. OwedSum \in Int /\ Owed(q) = 0 /\ entry.amount \in Int
        BY <3>1, OwedSumIsInt DEF Owed, OwesNothing, LedgerEntry
      <3> QED
        BY <3>2, <3>3
    <2>3. Uncut' => Uncut
      <3> SUFFICES ASSUME Uncut' PROVE Uncut
        OBVIOUS
      <3>1. \A i \in DOMAIN creditLedger' : creditLedger'[i].after > 0
        BY DEF Uncut
      <3>2. \A i \in DOMAIN creditLedger : creditLedger[i].after > 0
        <4> SUFFICES ASSUME NEW i \in DOMAIN creditLedger PROVE creditLedger[i].after > 0
          OBVIOUS
        <4>1. i \in DOMAIN creditLedger' /\ creditLedger'[i] = creditLedger[i]
          BY <1>3
        <4> QED
          BY <3>1, <4>1
      <3>3. entry.after > 0
        <4>1. Len(creditLedger) + 1 \in DOMAIN creditLedger'
          BY <1>3
        <4> QED
          BY <1>3, <3>1, <4>1
      <3>4. ASSUME NEW p \in Operation, operations[p].pc = "noting" PROVE operations[p].read > 0
        <4>1. CASE p = o
          BY <3>3, <3>4, <4>1
        <4>2. CASE p # o
          BY <1>0, <3>4, <4>2 DEF Uncut
        <4> QED
          BY <4>1, <4>2
      <3> QED
        BY <3>2, <3>4 DEF Uncut
    <2>4. counters'["credits"] = counters["credits"]
      BY DEF BalanceKept
    <2>5. LedgerSum' + OwedSum' = LedgerSum + OwedSum
      BY <1>2, <2>2
    <2> QED
      BY <2>1, <2>3, <2>4, <2>5 DEF Explained
  <1>5. ASSUME NEW p \in Operation
        PROVE  /\ ~unexplained' /\ operations'[p].pc \in {"writing", "noting"} => ~Noted(operations[p].key)'
               /\ p \notin disturbed' => ReadsBalance(operations[p])'
    <2>1. CASE p = o
      <3>1. operations'[p] = q
        BY <1>0, <2>1
      <3>2. operations'[p].pc \in {"writing", "noting"} => ~Noted(operations[p].key)'
        BY <3>1 DEF OwesNothing, Noted
      <3>3. p \notin disturbed' => ReadsBalance(q)
        BY <2>1 DEF Steps
      <3> QED
        BY <3>1, <3>2, <3>3 DEF ReadsBalance, BalanceKept
    <2>2. CASE p # o
      <3>1. operations'[p] = operations[p]
        BY <1>0, <2>2
      <3>2. p \notin disturbed' => p \notin disturbed
        BY <2>2 DEF Steps
      <3>3. p \notin disturbed' => ReadsBalance(operations[p])'
        BY <3>1, <3>2 DEF LedgerInv, ReadsBalance, BalanceKept
      <3>4. ASSUME ~unexplained', operations[p].pc \in {"writing", "noting"} PROVE ~Noted(operations[p].key)'
        <4> SUFFICES ASSUME operations[p].key # NoPayment,
                            NEW i \in DOMAIN creditLedger', creditLedger'[i].key = operations[p].key
                     PROVE  FALSE
          BY <3>1 DEF Noted
        <4>1. ~Noted(operations[p].key) /\ operations[p].key # entry.key
          BY <2>2, <3>4 DEF LedgerInv
        <4>2. i = Len(creditLedger) + 1 \/ (i \in DOMAIN creditLedger /\ creditLedger'[i] = creditLedger[i])
          BY <1>3
        <4> QED
          BY <1>3, <4>1, <4>2 DEF Noted
      <3> QED
        BY <3>1, <3>3, <3>4
    <2> QED
      BY <2>1, <2>2
  <1> QED
    BY <1>2, <1>4, <1>5 DEF LedgerInv, BalanceKept

LEMMA NoteWelcomeKeeps ==
    ASSUME AccountsInv, NEW o \in Operation, NoteWelcome(o)
    PROVE  AccountsInv'
  <1> DEFINE operation == operations[o]
             entry == Entry(operation.welcome, "welcome", operation.welcome)
  <1>1. /\ operation \in OperationRecord /\ Knows(operation) /\ operation.pc = "welcoming"
        /\ operation.welcome \in Nat /\ operation.welcome \in Int /\ "credits" \in DOMAIN counters
        /\ operation.then # "change" /\ operation.counter = "credits"
    BY OperationIs DEF NoteWelcome, At, OperationRecord, Knows
  <1>2. PICK q : q = Ensured(operation, operation.welcome)
    OBVIOUS
  <1>3. Continues(o, q) /\ OwesNothing(q) /\ Sound(o, q)
    BY <1>1, <1>2, EnsuredContinues DEF Continues
  <1>4. Goes(o, q) /\ Steps(o, q) /\ operations' = [operations EXCEPT ![o] = q]
    BY <1>2, <1>3, GoesSteps DEF NoteWelcome, Goes
  <1>5. q.pc = "writing" => q.key = NoPayment
    <2>1. EnsuredTo(operation, operation.welcome, q)
      BY <1>1, <1>2, EnsuredIs DEF Knows
    <2> QED
      BY <2>1 DEF EnsuredTo, Idle
  <1>6. entry \in LedgerEntry /\ entry.amount = operation.welcome /\ entry.key = "welcome"
    BY <1>1 DEF Entry, LedgerEntry
  <1>7. creditLedger' = Append(creditLedger, entry)
    BY DEF NoteWelcome
  <1>8. UNCHANGED <<counters, features, quotaWindow, successes, window, unexplained, admittedUnder>>
    BY DEF NoteWelcome
  <1>9. Owed(operation) = entry.amount /\ operation.pc # "noting"
    BY <1>1, <1>6 DEF Owed
  <1> HIDE DEF entry
  <1>10. ASSUME NEW p \in Operation \ {o}, operations[p].pc \in {"writing", "noting"}
         PROVE  operations[p].key = NoPayment \/ operations[p].key # entry.key
    <2>1. operations[p].key \in Payment \cup {NoPayment}
      BY <1>10, OperationIs DEF OperationRecord
    <2> QED
      BY <1>6, <2>1, AccountsAssumption
  <1>11. /\ CountersOK' /\ BalanceKept /\ DOMAIN counters \subseteq DOMAIN counters'
         /\ AccountTypes /\ LedgerInv
    BY <1>8 DEF AccountsInv, AccountTypes, CountersOK, BalanceKept
  <1>12. ~unexplained' => ~unexplained
    BY <1>8
  <1>13. LedgerInv' /\ creditLedger' \in Seq(LedgerEntry)
    BY <1>1, <1>3, <1>4, <1>5, <1>6, <1>7, <1>9, <1>10, <1>11, <1>12, AppendMove
  <1> QED
    BY <1>3, <1>4, <1>8, <1>11, <1>13, RestKeeps

LEMMA NoteLedgerKeeps ==
    ASSUME AccountsInv, NEW o \in Operation, NoteLedger(o)
    PROVE  AccountsInv'
  <1> DEFINE operation == operations[o]
             entry == Entry(operation.delta, operation.key, operation.read)
  <1>1. /\ operation \in OperationRecord /\ Knows(operation) /\ operation.pc = "noting"
        /\ operation.delta \in Int /\ operation.key \in Payment \cup {NoPayment} /\ operation.read \in Int
        /\ operation.models \in Seq(Model) /\ "credits" \in DOMAIN counters
    BY OperationIs DEF NoteLedger, At, OperationRecord, Knows
  <1>2. PICK q : Goes(o, q) /\ Continues(o, q) /\ OwesNothing(q) /\ q.pc # "writing"
    <2>1. CASE operation.kind = "prompt"
      <3>1. Admitted(operation)
        BY <1>1, <2>1 DEF Admitted, AIKind
      <3>2. Continues(o, Answered(operation)) /\ OwesNothing(Answered(operation))
        BY <1>1, <2>1, <3>1, PromptingContinues DEF Answered
      <3>3. Answered(operation).pc = "answered"
        <4>1. "answered" \in PC
          BY DEF PC
        <4> QED
          BY <1>1, <4>1, PromptingIs DEF Answered
      <3> QED
        BY <2>1, <3>2, <3>3 DEF NoteLedger
    <2>2. CASE operation.kind # "prompt"
      BY <2>2, IdleContinues DEF NoteLedger, Idle
    <2> QED
      BY <2>1, <2>2
  <1>3. Sound(o, q) /\ Steps(o, q) /\ operations' = [operations EXCEPT ![o] = q]
    BY <1>2, GoesSteps DEF Continues, Goes
  <1>4. UNCHANGED <<counters, features, quotaWindow, successes, window, admittedUnder>>
    BY DEF NoteLedger
  <1>5. /\ CountersOK' /\ BalanceKept /\ DOMAIN counters \subseteq DOMAIN counters'
        /\ AccountTypes /\ LedgerInv /\ creditLedger \in Seq(LedgerEntry)
    BY <1>4 DEF AccountsInv, AccountTypes, CountersOK, BalanceKept
  <1>6. CASE Noted(operation.key)
    <2>1. unexplained'
      BY <1>1, <1>6 DEF AccountsInv, LedgerInv, NoteLedger
    <2>2. creditLedger' = creditLedger
      BY <1>6 DEF NoteLedger
    <2>3. LedgerInv'
      BY <1>2, <1>3, <1>5, <2>1, <2>2, LedgerMove
    <2> QED
      BY <1>2, <1>3, <1>4, <1>5, <2>2, <2>3, RestKeeps
  <1>7. CASE ~Noted(operation.key)
    <2>1. /\ entry \in LedgerEntry /\ entry.amount = operation.delta /\ entry.key = operation.key
          /\ entry.after = operation.read
      BY <1>1 DEF Entry, LedgerEntry
    <2>2. creditLedger' = Append(creditLedger, entry)
      BY <1>7 DEF NoteLedger
    <2>3. Owed(operation) = entry.amount
      BY <1>1, <2>1 DEF Owed
    <2> HIDE DEF entry
    <2>4. ASSUME ~unexplained'
          PROVE  /\ ~unexplained
                 /\ \A p \in Operation \ {o} : operations[p].pc \in {"writing", "noting"}
                        => operations[p].key = NoPayment \/ operations[p].key # entry.key
      BY <2>1, <2>4 DEF NoteLedger
    <2>5. LedgerInv' /\ creditLedger' \in Seq(LedgerEntry)
      BY <1>1, <1>2, <1>3, <1>5, <2>1, <2>2, <2>3, <2>4, AppendMove
    <2> QED
      BY <1>2, <1>3, <1>4, <1>5, <2>5, RestKeeps
  <1> QED
    BY <1>6, <1>7

-----------------------------------------------------------------------------
(* The writes of the counters.                                              *)
LEMMA ChangedIs ==
    ASSUME NEW operation \in OperationRecord
    PROVE  /\ Changed(operation) \in Int /\ Changed(operation) >= 0
           /\ Changed(operation) >= operation.read + operation.delta
           /\ Changed(operation) > 0 => Changed(operation) = operation.read + operation.delta
  <1> DEFINE sum == operation.read + operation.delta
  <1>1. 0 \in Int /\ sum \in Int
    BY DEF OperationRecord
  <1>2. Changed(operation) = Max({0, sum})
    BY DEF Changed
  <1> HIDE DEF sum
  <1>3. Max({0, sum}) \in {0, sum} /\ Max({0, sum}) >= 0 /\ Max({0, sum}) >= sum
    BY <1>1, MaxOfTwo
  <1>4. /\ Changed(operation) \in Int /\ Changed(operation) >= 0
        /\ Changed(operation) >= sum /\ (Changed(operation) > 0 => Changed(operation) = sum)
    BY <1>1, <1>2, <1>3
  <1> QED
    BY <1>4 DEF sum

LEMMA WriteCountKeeps ==
    ASSUME AccountsInv, NEW o \in Operation, WriteCounter(o), operations[o].counter # "credits"
    PROVE  AccountsInv'
  <1> DEFINE operation == operations[o]
             c == operation.counter
             q == Adding(operation.rest)
  <1>1. /\ operation \in OperationRecord /\ Knows(operation) /\ operation.pc = "writing"
        /\ operation.rest \in Seq(Feature) /\ c \in DOMAIN counters
    BY OperationIs DEF WriteCounter, At, OperationRecord, Knows
  <1>2. /\ counters' = [counters EXCEPT ![c] = Changed(operation)]
        /\ operations' = [operations EXCEPT ![o] = q]
        /\ disturbed' = (disturbed \cup {p \in Operation : Holds(p, c)}) \ {o}
        /\ unexplained' <=> unexplained
    <2>1. /\ counters' = [counters EXCEPT ![c] = Changed(operation)]
          /\ operations' = [operations EXCEPT ![o] = q]
      BY DEF WriteCounter
    <2>2. disturbed' = (disturbed \cup {p \in Operation : Holds(p, c)}) \ {o}
      BY DEF WriteCounter
    <2>3. unexplained' <=> unexplained
      BY DEF WriteCounter
    <2> QED
      BY <2>1, <2>2, <2>3
  <1>3. UNCHANGED <<creditLedger, features, quotaWindow, successes, window, admittedUnder>>
    BY DEF WriteCounter
  <1>4. Continues(o, q) /\ OwesNothing(q) /\ ReadsBalance(q)
    <2>1. Plain(q)
      BY <1>1, AddingIsPlain
    <2> QED
      BY <2>1, PlainContinues DEF Plain, PlainPC, ReadsBalance
  <1>5. Changed(operation) \in Int
    BY <1>1, ChangedIs
  <1>6. CountersOK' /\ DOMAIN counters \subseteq DOMAIN counters' /\ BalanceKept
    BY <1>1, <1>2, <1>5 DEF AccountsInv, AccountTypes, CountersOK, BalanceKept
  <1>7. Steps(o, q)
    <2>1. \A p \in Operation \ {o} : p \in disturbed => p \in disturbed'
      BY <1>2
    <2> QED
      BY <1>2, <1>4, <2>1 DEF Steps
  <1>8. unexplained' \/ (~unexplained /\ OwesNothing(operation))
    BY <1>1, <1>2 DEF OwesNothing
  <1>9. features' \subseteq Feature /\ quotaWindow' \in Nat
    BY <1>3, OperationIs
  <1> HIDE DEF q
  <1> QED
    BY <1>3, <1>4, <1>6, <1>7, <1>8, <1>9, MoveKeeps

LEMMA WriteBalanceKeeps ==
    ASSUME AccountsInv, NEW o \in Operation, WriteCounter(o), operations[o].counter = "credits"
    PROVE  AccountsInv'
  <1> DEFINE operation == operations[o]
             changed == Changed(operation)
             q == [operation EXCEPT !.pc = "noting", !.read = changed]
  <1>1. /\ operation \in OperationRecord /\ Knows(operation) /\ operation.pc = "writing"
        /\ operation.delta \in Int /\ operation.read \in Int /\ "credits" \in DOMAIN counters
    BY OperationIs DEF WriteCounter, At, OperationRecord, Knows
  <1>2. /\ counters' = [counters EXCEPT !["credits"] = changed]
        /\ operations' = [operations EXCEPT ![o] = q]
        /\ disturbed' = (disturbed \cup {p \in Operation : Holds(p, "credits")}) \ {o}
        /\ unexplained' = (unexplained \/ o \in disturbed)
    BY DEF WriteCounter
  <1>3. UNCHANGED <<creditLedger, features, quotaWindow, successes, window, admittedUnder>>
    BY DEF WriteCounter
  <1>4. changed \in Int /\ changed >= operation.read + operation.delta
        /\ (changed > 0 => changed = operation.read + operation.delta)
    BY <1>1, ChangedIs
  <1> HIDE DEF changed
  <1>5. /\ q \in OperationRecord /\ q.pc = "noting" /\ q.counter = "credits" /\ q.read = changed
        /\ q.delta = operation.delta /\ q.key = operation.key /\ q.kind = operation.kind
        /\ q.limit = operation.limit /\ q.then = operation.then /\ q.welcome = operation.welcome
    BY <1>1, <1>4 DEF OperationRecord, PC
  <1> HIDE DEF q
  <1>6. Knows(q)
    BY <1>1, <1>5 DEF Knows
  <1>7. CountersOK' /\ DOMAIN counters' = DOMAIN counters /\ counters'["credits"] = changed
    BY <1>1, <1>2, <1>4 DEF AccountsInv, AccountTypes, CountersOK
  <1>8. \A p \in Operation : operations'[p] = IF p = o THEN q ELSE operations[p]
    BY <1>2, OneOperation DEF AccountsInv
  <1>9. OperationsOK'
    BY <1>2, <1>3, <1>5, <1>6, <1>7, OperationsMove DEF AccountsInv
  <1>10. AccountTypes'
    BY <1>3, <1>7, <1>9 DEF AccountsInv, AccountTypes
  <1>11. LimitInv'
    <2>1. Admitted(q) => Admitted(operation) /\ q.kind = operation.kind /\ q.limit = operation.limit
      BY <1>1, <1>5 DEF Admitted
    <2> QED
      BY <1>2, <1>3, <2>1, LimitMove DEF AccountsInv
  <1>12. ASSUME ~unexplained' PROVE Explained'
    <2>1. /\ ~unexplained /\ o \notin disturbed /\ Explained
          /\ operation.read = counters["credits"] /\ counters["credits"] \in Int
      BY <1>1, <1>2, <1>12 DEF AccountsInv, AccountTypes, CountersOK, LedgerInv, ReadsBalance
    <2>2. OwedSum' = OwedSum + operation.delta /\ OwedSum \in Int
      <3>1. operations \in [Operation -> OperationRecord \cup {Idle}] /\ q \in OperationRecord \cup {Idle}
        BY <1>5 DEF AccountsInv, AccountTypes, OperationsOK
      <3>2. OwedSum' = OwedSum + Owed(q) - Owed(operations[o])
        BY <1>2, <3>1, OwedSumMoves
      <3>3. OwedSum \in Int /\ Owed(q) = operation.delta /\ Owed(operations[o]) = 0
        BY <1>1, <1>5, <3>1, OwedSumIsInt DEF Owed
      <3> QED
        BY <1>1, <3>2, <3>3
    <2>3. LedgerSum' = LedgerSum /\ LedgerSum \in Int
      BY <1>3, LedgerSumIs DEF AccountsInv, AccountTypes, LedgerSum
    <2>4. Uncut' => Uncut /\ changed > 0
      <3> SUFFICES ASSUME Uncut' PROVE Uncut /\ changed > 0
        OBVIOUS
      <3>1. \A p \in Operation : operations'[p].pc = "noting" => operations'[p].read > 0
        BY DEF Uncut
      <3>2. changed > 0
        BY <1>5, <1>8, <3>1
      <3>3. \A p \in Operation : operations[p].pc = "noting" => operations[p].read > 0
        BY <1>1, <1>8, <3>1
      <3>4. \A i \in DOMAIN creditLedger : creditLedger[i].after > 0
        BY <1>3 DEF Uncut
      <3> QED
        BY <3>2, <3>3, <3>4 DEF Uncut
    <2>5. changed >= LedgerSum + OwedSum + operation.delta
      BY <1>1, <1>4, <2>1, <2>2, <2>3 DEF Explained
    <2>6. Uncut' => changed = LedgerSum + OwedSum + operation.delta
      BY <1>1, <1>4, <2>1, <2>2, <2>3, <2>4 DEF Explained
    <2>7. LedgerSum' + OwedSum' = LedgerSum + OwedSum + operation.delta
      BY <1>1, <2>2, <2>3
    <2> QED
      BY <1>7, <2>5, <2>6, <2>7 DEF Explained
  <1>13. ASSUME NEW p \in Operation
         PROVE  /\ ~unexplained' /\ operations'[p].pc \in {"writing", "noting"} => ~Noted(operations[p].key)'
                /\ p \notin disturbed' => ReadsBalance(operations[p])'
    <2>1. CASE p = o
      <3>1. operations'[p] = q
        BY <1>8, <2>1
      <3>2. ~unexplained' => ~Noted(operation.key)
        BY <1>1, <1>2 DEF AccountsInv, LedgerInv
      <3>3. ~unexplained' => ~Noted(operations[p].key)'
        BY <1>3, <1>5, <3>1, <3>2 DEF Noted
      <3>4. ReadsBalance(operations[p])'
        BY <1>5, <3>1 DEF ReadsBalance
      <3> QED
        BY <3>3, <3>4
    <2>2. CASE p # o
      <3>1. operations'[p] = operations[p]
        BY <1>8, <2>2
      <3>2. ~unexplained' /\ operations[p].pc \in {"writing", "noting"} => ~Noted(operations[p].key)'
        BY <1>2, <1>3, <3>1 DEF AccountsInv, LedgerInv, Noted
      <3>3. ASSUME p \notin disturbed' PROVE ReadsBalance(operations[p])'
        <4>1. ~Holds(p, "credits")
          BY <1>2, <2>2, <3>3
        <4> QED
          BY <3>1, <4>1 DEF Holds, ReadsBalance
      <3> QED
        BY <3>1, <3>2, <3>3
    <2> QED
      BY <2>1, <2>2
  <1>14. LedgerInv'
    BY <1>1, <1>7, <1>12, <1>13 DEF LedgerInv
  <1> QED
    BY <1>10, <1>11, <1>14 DEF AccountsInv

LEMMA WriteCounterKeeps ==
    ASSUME AccountsInv, NEW o \in Operation, WriteCounter(o)
    PROVE  AccountsInv'
  BY WriteCountKeeps, WriteBalanceKeeps

(* The row of the credits is created: nobody has read a balance yet, and    *)
(* nothing is owed but the welcome entry of the request that creates it.    *)
LEMMA NobodyOwesYet ==
    ASSUME AccountsInv, "credits" \notin DOMAIN counters
    PROVE  /\ \A p \in Operation : ~(operations[p].pc \in {"writing", "looking"} /\ operations[p].counter = "credits")
                                   /\ operations[p].pc \notin {"noting", "welcoming"}
           /\ OwedSum = 0 /\ LedgerSum = 0 /\ creditLedger = <<>>
  <1>1. ASSUME NEW p \in Operation
        PROVE  /\ ~(operations[p].pc \in {"writing", "looking"} /\ operations[p].counter = "credits")
               /\ operations[p].pc \notin {"noting", "welcoming"}
    BY OperationIs DEF Knows
  <1>2. OwedSum = 0
    BY <1>1, NothingOwed DEF AccountsInv, AccountTypes, OperationsOK
  <1>3. creditLedger = <<>>
    BY DEF AccountsInv, LedgerInv
  <1>4. LedgerSum = 0
    <2>1. LedgerSum = Sums(Amounts(creditLedger))[Len(creditLedger)]
      BY LedgerSumIs DEF AccountsInv, AccountTypes
    <2>2. Len(creditLedger) = 0
      BY <1>3
    <2> QED
      BY <2>1, <2>2, SumsStep
  <1> QED
    BY <1>1, <1>2, <1>3, <1>4

LEMMA NewCreditsKeep ==
    ASSUME AccountsInv, NEW o \in Operation, CreateCredits(o), "credits" \notin DOMAIN counters
    PROVE  AccountsInv'
  <1> DEFINE operation == operations[o]
             welcome == operation.welcome
             welcoming == [operation EXCEPT !.pc = "welcoming"]
  <1>1. /\ operation \in OperationRecord /\ Knows(operation) /\ operation.pc = "creating"
        /\ welcome \in Nat /\ welcome \in Int /\ operation.counter = "credits"
    BY OperationIs DEF CreateCredits, At, OperationRecord, Knows
  <1>2. /\ \A p \in Operation : ~(operations[p].pc \in {"writing", "looking"} /\ operations[p].counter = "credits")
                                /\ operations[p].pc \notin {"noting", "welcoming"}
        /\ OwedSum = 0 /\ LedgerSum = 0 /\ creditLedger = <<>>
    BY NobodyOwesYet
  <1>3. UNCHANGED <<creditLedger, features, quotaWindow, successes, window, unexplained, admittedUnder>>
    BY DEF CreateCredits
  <1>4. counters' = Inserted([c \in {"credits"} |-> welcome])
    BY DEF CreateCredits
  <1>5. /\ CountersOK' /\ DOMAIN counters \subseteq DOMAIN counters'
        /\ "credits" \in DOMAIN counters' /\ counters'["credits"] = welcome
    <2>1. DOMAIN counters \subseteq Counter /\ \A c \in DOMAIN counters : counters[c] \in Int
      BY DEF AccountsInv, AccountTypes, CountersOK
    <2>2. /\ counters' = [c \in DOMAIN counters' |-> counters'[c]]
          /\ DOMAIN counters' = DOMAIN counters \cup {"credits"}
          /\ \A c \in DOMAIN counters' : counters'[c] = IF c \in DOMAIN counters THEN counters[c] ELSE welcome
      BY <1>4 DEF Inserted
    <2>3. "credits" \in DOMAIN counters' /\ counters'["credits"] = welcome
      BY <2>2
    <2>4. DOMAIN counters' \subseteq Counter /\ \A c \in DOMAIN counters' : counters'[c] \in Int
      BY <1>1, <2>1, <2>2 DEF Counter
    <2> QED
      BY <2>2, <2>3, <2>4 DEF CountersOK
  <1>6. PICK q \in OperationRecord \cup {Idle} :
            /\ Goes(o, q) /\ Owed(q) = welcome /\ q.pc # "noting"
            /\ Knows(q)'
            /\ q.pc = "writing" => q.key = NoPayment
            /\ q.pc \in {"writing", "looking"} /\ q.counter = "credits" => q.read = welcome
            /\ Admitted(q) => /\ Admitted(operation)
                              /\ q.kind = operation.kind /\ q.limit = operation.limit
    <2>1. CASE welcome > 0
      <3>1. PICK q : q = welcoming
        OBVIOUS
      <3>2. /\ q \in OperationRecord /\ q.pc = "welcoming" /\ q.welcome = welcome
            /\ q.then = operation.then /\ q.counter = "credits"
            /\ q.kind = operation.kind /\ q.limit = operation.limit
        BY <1>1, <3>1 DEF OperationRecord, PC
      <3>3. Goes(o, q)
        BY <2>1, <3>1 DEF CreateCredits
      <3>4. Knows(q)'
        BY <1>1, <1>5, <2>1, <3>2 DEF Knows
      <3>5. Owed(q) = welcome /\ (Admitted(q) => Admitted(operation))
        BY <1>1, <3>2 DEF Owed, Admitted
      <3> QED
        BY <3>2, <3>3, <3>4, <3>5
    <2>2. CASE welcome = 0
      <3>1. PICK q : q = Ensured(operation, 0)
        OBVIOUS
      <3>2. EnsuredTo(operation, 0, q)
        BY <1>1, <3>1, EnsuredIs DEF Knows
      <3>3. Goes(o, q)
        BY <2>2, <3>1 DEF CreateCredits
      <3>4. q \in OperationRecord \cup {Idle} /\ Owed(q) = 0 /\ q.pc # "noting"
        BY <3>2 DEF EnsuredTo, Owed, Idle
      <3>5. CASE q = Idle
        <4>1. Knows(q)'
          BY <3>5 DEF Idle, Knows
        <4>2. q.pc = "idle"
          BY <3>5 DEF Idle
        <4> QED
          BY <2>2, <3>3, <3>4, <4>1, <4>2 DEF Admitted
      <3>6. CASE q # Idle
        <4>1. Knows(q)'
          BY <1>1, <1>5, <3>2, <3>6 DEF EnsuredTo, Knows, AIKind
        <4>2. Admitted(q) => Admitted(operation) /\ q.kind = operation.kind /\ q.limit = operation.limit
          BY <1>1, <3>2, <3>6 DEF EnsuredTo, Admitted
        <4>3. /\ q.pc = "writing" => q.key = NoPayment
              /\ q.pc \in {"writing", "looking"} /\ q.counter = "credits" => q.read = welcome
          BY <2>2, <3>2, <3>6 DEF EnsuredTo
        <4> QED
          BY <2>2, <3>3, <3>4, <4>1, <4>2, <4>3
      <3> QED
        BY <3>5, <3>6
    <2> QED
      BY <1>1, <2>1, <2>2
  <1>7. operations' = [operations EXCEPT ![o] = q]
    BY <1>6 DEF Goes
  <1>8. \A p \in Operation : operations'[p] = IF p = o THEN q ELSE operations[p]
    BY <1>7, OneOperation DEF AccountsInv
  <1>9. OperationsOK'
    <2>1. operations' \in [Operation -> OperationRecord \cup {Idle}]
      BY <1>6, <1>7 DEF AccountsInv, AccountTypes, OperationsOK
    <2>2. ASSUME NEW p \in Operation PROVE Knows(operations[p])'
      <3>1. CASE p = o
        <4>1. operations'[p] = q
          BY <1>8, <3>1
        <4> QED
          BY <1>6, <4>1 DEF Knows
      <3>2. CASE p # o
        <4>1. operations'[p] = operations[p]
          BY <1>8, <3>2
        <4> QED
          BY <1>3, <1>5, <4>1, OperationIs DEF Knows
      <3> QED
        BY <3>1, <3>2
    <2> QED
      BY <2>1, <2>2 DEF OperationsOK
  <1>10. AccountTypes'
    BY <1>3, <1>5, <1>9 DEF AccountsInv, AccountTypes
  <1>11. LimitInv'
    BY <1>3, <1>6, <1>7, LimitMove DEF AccountsInv
  <1>12. Explained'
    <2>1. OwedSum' = welcome
      <3>1. operations \in [Operation -> OperationRecord \cup {Idle}]
        BY DEF AccountsInv, AccountTypes, OperationsOK
      <3>2. OwedSum' = OwedSum + Owed(q) - Owed(operations[o])
        BY <1>6, <1>7, <3>1, OwedSumMoves
      <3>3. Owed(operations[o]) = 0
        BY <1>1 DEF Owed
      <3> QED
        BY <1>1, <1>2, <1>6, <3>2, <3>3
    <2>2. LedgerSum' = 0
      BY <1>2, <1>3 DEF LedgerSum
    <2> QED
      BY <1>1, <1>5, <2>1, <2>2 DEF Explained
  <1>13. ASSUME NEW p \in Operation
         PROVE  /\ operations'[p].pc \in {"writing", "noting"} => ~Noted(operations[p].key)'
                /\ ReadsBalance(operations[p])'
    <2>1. ~Noted(operations[p].key)'
      BY <1>2, <1>3 DEF Noted
    <2>2. CASE p = o
      <3>1. operations'[p] = q
        BY <1>8, <2>2
      <3> QED
        BY <1>5, <1>6, <2>1, <3>1 DEF ReadsBalance
    <2>3. CASE p # o
      <3>1. operations'[p] = operations[p]
        BY <1>8, <2>3
      <3> QED
        BY <1>2, <2>1, <3>1 DEF ReadsBalance
    <2> QED
      BY <2>2, <2>3
  <1>14. LedgerInv'
    BY <1>5, <1>12, <1>13 DEF LedgerInv
  <1> QED
    BY <1>10, <1>11, <1>14 DEF AccountsInv

LEMMA CreateCreditsKeeps ==
    ASSUME AccountsInv, NEW o \in Operation, CreateCredits(o)
    PROVE  AccountsInv'
  <1>1. CASE "credits" \notin DOMAIN counters
    BY <1>1, NewCreditsKeep
  <1>2. CASE "credits" \in DOMAIN counters
    <2>1. operations[o].pc = "creating" /\ operations[o] # Idle
      BY DEF CreateCredits, At, Idle
    <2>2. Continues(o, Failed(operations[o])) /\ OwesNothing(Failed(operations[o]))
      BY <2>1, FailedContinues
    <2>3. UNCHANGED <<counters, creditLedger, features, quotaWindow, successes, window, unexplained, admittedUnder>>
          /\ Goes(o, Failed(operations[o])) /\ OwesNothing(operations[o])
      BY <1>2, <2>1 DEF CreateCredits, OwesNothing
    <2> QED
      BY <2>2, <2>3, OperationIs, OnlyGoesKeeps
  <1> QED
    BY <1>1, <1>2

-----------------------------------------------------------------------------
LEMMA AccountsStart == ASSUME AccountsInit PROVE AccountsInv
  <1>1. \A o \in Operation : operations[o] = Idle
    BY DEF AccountsInit
  <1>2. OperationsOK
    BY <1>1 DEF AccountsInit, OperationsOK, Knows, Idle
  <1>3. AccountTypes
    <2>1. window \in Windows
      BY AccountsAssumption DEF AccountsInit, Windows
    <2>2. successes \in [AIKind -> Seq(Windows)] /\ admittedUnder \in [AIKind -> [Windows -> Nat]]
      BY DEF AccountsInit
    <2>3. creditLedger \in Seq(LedgerEntry) /\ features \subseteq Feature /\ quotaWindow \in Nat
      BY DEF AccountsInit
    <2>4. CountersOK
      <3>1. counters = <<>>
        BY DEF AccountsInit
      <3>2. DOMAIN counters = {}
        BY <3>1
      <3>3. counters = [c \in DOMAIN counters |-> counters[c]]
        BY <3>1
      <3> QED
        BY <3>2, <3>3 DEF CountersOK
    <2> QED
      BY <1>2, <2>1, <2>2, <2>3, <2>4 DEF AccountTypes
  <1>4. LedgerInv
    <2>1. "credits" \notin DOMAIN counters /\ creditLedger = <<>>
      BY DEF AccountsInit
    <2>2. \A o \in Operation : ReadsBalance(operations[o]) /\ operations[o].pc \notin {"writing", "noting"}
      BY <1>1 DEF ReadsBalance, Idle
    <2> QED
      BY <2>1, <2>2 DEF LedgerInv
  <1>5. LimitInv
    <2>1. Cardinality(Operation) \in Nat /\ Cardinality(Operation) >= 1
      <3>1. Cardinality(Operation) \in Nat /\ Cardinality(Operation) # 0
        BY AccountsAssumption, FS_CardinalityType, FS_EmptySet
      <3> QED
        BY <3>1
    <2>2. \A kind \in AIKind : \A w : SuccessesIn(kind, w) = 0
      <3> SUFFICES ASSUME NEW kind \in AIKind, NEW w PROVE SuccessesIn(kind, w) = 0
        OBVIOUS
      <3>1. {i \in DOMAIN successes[kind] : successes[kind][i] = w} = {}
        BY DEF AccountsInit
      <3> QED
        BY <3>1, FS_EmptySet DEF SuccessesIn
    <2>3. \A kind, m : Cardinality(InFlight(kind, m)) = 0
      <3> SUFFICES ASSUME NEW kind, NEW m PROVE Cardinality(InFlight(kind, m)) = 0
        OBVIOUS
      <3>1. InFlight(kind, m) = {}
        BY <1>1 DEF InFlight, Admitted, Idle
      <3> QED
        BY <3>1, FS_EmptySet
    <2>4. \A kind \in AIKind, w \in Windows : admittedUnder[kind][w] = 0
      BY DEF AccountsInit
    <2> QED
      BY <2>1, <2>2, <2>3, <2>4 DEF LimitInv, LimitPassedByOverlapOnly
  <1> QED
    BY <1>3, <1>4, <1>5 DEF AccountsInv

(* What the balance, the ledger and the log of successes are to the         *)
(* requests under way holds in every state: each read and write of          *)
(* services account, ai_credits and ai keeps it, and so do failed commands, *)
(* new windows and removed features.                                        *)
THEOREM AccountsInvariant == AccountsSpec => []AccountsInv
  <1>1. AccountsInit => AccountsInv
    BY AccountsStart
  <1>2. AccountsInv /\ [AccountsNext]_accountsVars => AccountsInv'
    <2> SUFFICES ASSUME AccountsInv, [AccountsNext]_accountsVars PROVE AccountsInv'
      OBVIOUS
    <2>1. CASE UNCHANGED accountsVars
      BY <2>1, OthersKeep, OperationIs DEF accountsVars, AccountsInv, AccountTypes
    <2>2. CASE WindowEnds
      BY <2>2, WindowEndsKeeps
    <2>3. CASE \E feature \in Feature : RemoveFeature(feature)
      BY <2>3, RemoveFeatureKeeps
    <2>4. ASSUME NEW o \in Operation,
                 \/ CreateAccount(o) \/ CreateCounts(o) \/ OpenWindow(o)
                 \/ AddFeature(o) \/ AddAllFeatures(o) \/ NextFeature(o) \/ InsertFeature(o)
                 \/ RemoveAllFeatures(o) \/ RemoveNext(o)
          PROVE  AccountsInv'
      BY <2>4, CreateAccountKeeps, CreateCountsKeeps, OpenWindowKeeps, AddFeatureKeeps, AddAllFeaturesKeeps,
         NextFeatureKeeps, InsertFeatureKeeps, RemoveAllFeaturesKeeps, RemoveNextKeeps
    <2>5. ASSUME NEW o \in Operation,
                 \/ IncreaseExecutionCount(o) \/ AddTokens(o) \/ DeductTokens(o)
                 \/ GetByAccountId(o) \/ SeedCounts(o) \/ Credit(o) \/ UpdateAutoTopup(o)
                 \/ Ensure(o) \/ CreateCredits(o) \/ NoteWelcome(o)
                 \/ LedgerKeyExists(o) \/ WriteCounter(o) \/ NoteLedger(o)
          PROVE  AccountsInv'
      BY <2>5, AdjustKeeps, GetByAccountIdKeeps, CreateCountsKeeps, CreditKeeps, EnsureKeeps, CreateCreditsKeeps,
         NoteWelcomeKeeps, LedgerKeyExistsKeeps, WriteCounterKeeps, NoteLedgerKeeps
    <2>6. ASSUME NEW o \in Operation,
                 \/ AskAI(o) \/ EnsurePeriod(o) \/ WriteWindow(o) \/ EnforceQuota(o)
                 \/ ExecutePrompt(o) \/ ParseAnswer(o) \/ ClassifyPrompt(o) \/ RecordSuccess(o)
                 \/ Fails(o)
          PROVE  AccountsInv'
      BY <2>6, AskAIKeeps, EnsurePeriodKeeps, WriteWindowKeeps, EnforceQuotaKeeps, ExecutePromptKeeps,
         ParseAnswerKeeps, ClassifyPromptKeeps, RecordSuccessKeeps, FailsKeeps
    <2> QED
      BY <2>1, <2>2, <2>3, <2>4, <2>5, <2>6 DEF AccountsNext
  <1> QED
    BY <1>1, <1>2, PTL DEF AccountsSpec

(* The ledger explains the balance whenever no entry is under way, for any  *)
(* requests, payments and prices: the balance is the sum of the entries, or *)
(* more where a charge was cut at zero. Exempt are a balance written over   *)
(* another write, a lost entry and a payment applied twice at one moment    *)
(* (Ensure, ApplyDelta, ledgerKeyExists and insertLedger of                 *)
(* repository/account_ai_credits/account_ai_credits.go).                    *)
THEOREM LedgerAlwaysExplains == AccountsSpec => []LedgerExplainsBalance
  <1>1. AccountsInv => LedgerExplainsBalance
    <2> SUFFICES ASSUME AccountsInv, ~unexplained, ~Outstanding, "credits" \in DOMAIN counters
                 PROVE  /\ counters["credits"] >= LedgerSum
                        /\ (\A i \in DOMAIN creditLedger : creditLedger[i].after > 0) => counters["credits"] = LedgerSum
      BY DEF LedgerExplainsBalance
    <2>1. OwedSum = 0
      BY NothingOwed DEF Outstanding, AccountsInv, AccountTypes, OperationsOK
    <2>2. LedgerSum \in Int /\ Explained
      BY LedgerSumIs DEF AccountsInv, AccountTypes, LedgerInv
    <2>3. (\A i \in DOMAIN creditLedger : creditLedger[i].after > 0) => Uncut
      BY DEF Uncut, Outstanding
    <2> QED
      BY <2>1, <2>2, <2>3 DEF Explained
  <1> QED
    BY <1>1, AccountsInvariant, PTL

(* No window has more successes than the largest limit one of them was let  *)
(* in under and the requests that were in progress beside it, for any       *)
(* number of requests, limits and windows (enforcePromptQuota and           *)
(* enforceClassifyQuota of http/server/controllers/ai.go, GetAIUsage, and   *)
(* the rows of prompt_request and classify_request).                        *)
THEOREM OnlyOverlapPassesLimit == AccountsSpec => []LimitPassedByOverlapOnly
  <1>1. AccountsInv => LimitPassedByOverlapOnly
    BY DEF AccountsInv, LimitInv
  <1> QED
    BY <1>1, AccountsInvariant, PTL

=============================================================================
