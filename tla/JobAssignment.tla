---------------------------- MODULE JobAssignment -----------------------------
(***************************************************************************)
(* Which node runs a job: the queue of the leader (service/queue), its     *)
(* rows (repository/job_queue), the processor that starts and recovers     *)
(* jobs (service/processor), and what an executor takes from the rows      *)
(* (QueueExecutions).                                                      *)
(*                                                                         *)
(* A job is its id, the place of its account in jobAccounts; an account    *)
(* has one project. Raft's election and the leadership handler are one     *)
(* step: module FanIn has the steps of the handler, JobExecutor what an    *)
(* executor does with a job it has taken, ExecutionQuota the quota.        *)
(*                                                                         *)
(* Bounds: MaxJobs jobs, MaxBatch jobs in a request, MaxOutages crashes    *)
(* and elections of a running cluster, MaxInactive jobs made inactive.     *)
(***************************************************************************)
EXTENDS Naturals, Sequences, FiniteSets, SequencesExt, FiniteSetsExt

CONSTANTS QueueNode,       \* node ids
          FirstNode,       \* the node that bootstraps the cluster
          Account,         \* account ids
          RowsPerCommand,  \* rows one command of InsertJobQueueLogs inserts
          MaxJobs, MaxBatch, MaxOutages, MaxInactive

ASSUME JobAssignmentAssumption ==
    /\ QueueNode \subseteq Nat \ {0} /\ IsFiniteSet(QueueNode) /\ FirstNode \in QueueNode
    /\ Account \subseteq Nat \ {0}
    /\ RowsPerCommand \in Nat \ {0} /\ MaxBatch \in Nat \ {0}
    /\ MaxJobs \in Nat /\ MaxOutages \in Nat /\ MaxInactive \in Nat

VARIABLES
    servers,      \* servers of the raft configuration
    peers,        \* nodes registered in etcd: those that run
    leader,       \* the leader, 0 if there is none
    single,       \* single[n]: singleNodeMode of the services of n
    deposed,      \* running nodes that have yet to handle the loss of leadership
    starting,     \* StartJobs of a single leader: what is left to do
    jobAccounts,  \* the job table
    inactive,     \* jobs whose status is inactive
    unqueued,     \* inserted batches the job service has not queued yet
    inserting,    \* rows Queue has not inserted yet
    jobQueues,    \* the rows of job_queues, by id
    queueVersion, \* the last row of job_queue_versions
    posted,       \* posted[n]: calls of QueueExecutions n has been asked for
    scheduled,    \* scheduled[n]: jobs the executor of n holds
    resumed,      \* a follower has come back, which the leader observes
    outages

clusterVars == <<servers, peers, leader, single, deposed, resumed, outages>>
jobVars == <<jobAccounts, inactive>>
queueVars == <<starting, unqueued, inserting>>
queueRowVars == <<jobQueues, queueVersion>>
executorVars == <<posted, scheduled>>
jobAssignmentVars == <<clusterVars, jobVars, queueVars, queueRowVars, executorVars>>

JobId == 1..MaxJobs
JobQueueLog == [node: QueueNode, lower: JobId, upper: JobId, version: Nat]
PostProcess == [last: Nat, rows: 1..RowsPerCommand]
NotStarting == [increment |-> FALSE, todo |-> {}]

Active == DOMAIN jobAccounts \ inactive
ActiveOf(a) == {j \in Active : jobAccounts[j] = a}

(* The first node has bootstrapped the cluster and is yet to start.        *)
JobAssignmentInit ==
    /\ servers = {FirstNode} /\ peers = {} /\ leader = 0
    /\ single = [n \in QueueNode |-> FALSE]
    /\ deposed = {} /\ resumed = FALSE /\ outages = 0
    /\ jobAccounts = <<>> /\ inactive = {}
    /\ starting = NotStarting /\ unqueued = {} /\ inserting = <<>>
    /\ jobQueues = <<>> /\ queueVersion = 0
    /\ posted = [n \in QueueNode |-> {}]
    /\ scheduled = [n \in QueueNode |-> {}]

-----------------------------------------------------------------------------
(* The cluster *)

Quorum(nodes) == 2 * Cardinality(nodes \cap servers) > Cardinality(servers)

(* StopAll on the given nodes; calls of QueueExecutions still run later.   *)
StopAllOn(nodes) == scheduled' = [n \in QueueNode |-> IF n \in nodes THEN {} ELSE scheduled[n]]

(* The leadership handler: stop commands reach some of the other nodes.    *)
HandleLeadership(n) ==
    /\ single' = [single EXCEPT ![n] = Cardinality(servers) = 1]
    /\ \E reached \in SUBSET (peers \ {n}) : StopAllOn(reached \cup {n})

(* A new leader starts jobs itself if it is alone. What the old one was    *)
(* queueing fails for want of leadership.                                  *)
Elected(n) ==
    /\ n \in (peers \cap servers) \ {leader}
    /\ Quorum(peers)
    /\ leader # 0 => outages < MaxOutages
    /\ outages' = IF leader = 0 THEN outages ELSE outages + 1
    /\ leader' = n
    /\ deposed' = (deposed \ {n}) \cup ({leader} \cap peers)
    /\ HandleLeadership(n)
    /\ starting' = IF Cardinality(servers) = 1 THEN [increment |-> TRUE, todo |-> {}] ELSE NotStarting
    /\ unqueued' = {} /\ inserting' = <<>>
    /\ UNCHANGED <<servers, peers, resumed, jobVars, queueRowVars, posted>>

Deposed(n) ==
    /\ n \in deposed
    /\ deposed' = deposed \ {n}
    /\ HandleLeadership(n)
    /\ UNCHANGED <<servers, peers, leader, resumed, outages, jobVars, queueVars,
                   queueRowVars, posted>>

(* A reconciliation of the leader adds a registered node.                  *)
PeerJoins(n) ==
    /\ leader # 0 /\ n \notin servers
    /\ servers' = servers \cup {n} /\ peers' = peers \cup {n}
    /\ UNCHANGED <<leader, single, deposed, resumed, outages, jobVars, queueVars,
                   queueRowVars, executorVars>>

(* A node that is registered no more, or that an operator removes.         *)
PeerRemoved(n) ==
    /\ leader # 0 /\ n \in servers \ {leader}
    /\ servers' = servers \ {n}
    /\ UNCHANGED <<peers, leader, single, deposed, resumed, outages, jobVars, queueVars,
                   queueRowVars, executorVars>>

(* A leader that loses its quorum steps down.                              *)
NodeFails(n) ==
    /\ n \in peers /\ outages < MaxOutages
    /\ outages' = outages + 1
    /\ peers' = peers \ {n}
    /\ single' = [single EXCEPT ![n] = FALSE]
    /\ scheduled' = [scheduled EXCEPT ![n] = {}] /\ posted' = [posted EXCEPT ![n] = {}]
    /\ IF leader # 0 /\ (n = leader \/ ~Quorum(peers'))
       THEN /\ leader' = 0 /\ deposed' = (deposed \cup {leader}) \ {n}
            /\ starting' = NotStarting /\ unqueued' = {} /\ inserting' = <<>>
       ELSE deposed' = deposed \ {n} /\ UNCHANGED <<leader, queueVars>>
    /\ UNCHANGED <<servers, resumed, jobVars, queueRowVars>>

NodeReturns(n) ==
    /\ n \in servers \ peers
    /\ peers' = peers \cup {n} /\ resumed' = (leader # 0)
    /\ UNCHANGED <<servers, leader, single, deposed, outages, jobVars, queueVars,
                   queueRowVars, executorVars>>

-----------------------------------------------------------------------------
(* The queue of the leader *)

QueueRow(n, run) == [node |-> n, lower |-> run[1], upper |-> run[2], version |-> queueVersion]

\* Variant (see the mutants of the project): a gap does not end a range.
RunsAcrossGaps(ids) == {<<Min(ids), Max(ids)>>}
(* The ranges of consecutive ids.                                          *)
Runs(ids) ==
    {run \in ids \X ids : /\ run[1] <= run[2] /\ run[1]..run[2] \subseteq ids
                          /\ run[1] - 1 \notin ids /\ run[2] + 1 \notin ids}

WorkerNodes(nodes, own) ==
    LET workers == nodes \ {leader}
    IN  IF workers = {} THEN {own} ELSE workers

(* The account's place among the workers, sorted by id.                    *)
NodeOf(a, workers) ==
    CHOOSE n \in workers : Cardinality({m \in workers : m < n}) = a % Cardinality(workers)

(* Rows are grouped by node, and a node's by account, in map order; those  *)
(* of an account are in the order of their ids.                            *)
InMapOrder(rows) ==
    \A i, k \in DOMAIN rows : i < k =>
        /\ rows[i].node = rows[k].node => \A l \in i..k : rows[l].node = rows[i].node
        /\ jobAccounts[rows[i].lower] = jobAccounts[rows[k].lower] =>
              /\ \A l \in i..k : jobAccounts[rows[l].lower] = jobAccounts[rows[i].lower]
              /\ rows[i].lower < rows[k].lower

RowsOfAccount(ids, n) == {QueueRow(n, run) : run \in Runs(ids)}

AssignJobsByAccountToServers(batch) ==
    LET OfAccount(a) == {j \in batch : jobAccounts[j] = a}
        rows == UNION {RowsOfAccount(OfAccount(a), NodeOf(a, WorkerNodes(peers, leader))) :
                          a \in {jobAccounts[j] : j \in batch}}
    IN  {order \in SetToSeqs(rows) : InMapOrder(order)}

(* Queue holds the mutex until all rows are inserted.                      *)
Queue(batch) ==
    /\ inserting = <<>>
    /\ IF batch = {} THEN UNCHANGED inserting
       ELSE IF single[leader] THEN inserting' = <<QueueRow(leader, <<Min(batch), Max(batch)>>)>>
       ELSE inserting' \in AssignJobsByAccountToServers(batch)

(* A batch of jobs in the order of the request.                            *)
BatchInsertJobs ==
    /\ leader # 0 /\ starting = NotStarting /\ inserting = <<>>
    /\ \E k \in 1..MaxBatch :
         /\ Len(jobAccounts) + k <= MaxJobs
         /\ \E batch \in [1..k -> Account] :
              /\ jobAccounts' = jobAccounts \o batch
              /\ unqueued' = unqueued \cup {(Len(jobAccounts) + 1)..(Len(jobAccounts) + k)}
    /\ UNCHANGED <<clusterVars, inactive, starting, inserting, queueRowVars, executorVars>>

QueueJobs(batch) ==
    /\ batch \in unqueued
    /\ unqueued' = unqueued \ {batch}
    /\ Queue(batch)
    /\ UNCHANGED <<clusterVars, jobVars, starting, queueRowVars, executorVars>>

Chunk == SubSeq(inserting, 1, Min({RowsPerCommand, Len(inserting)}))

InsertJobQueueLogs ==
    LET rows == Chunk
        call == [last |-> Len(jobQueues) + Len(rows), rows |-> Len(rows)]
        targets == {rows[i].node : i \in DOMAIN rows} \cap peers
    IN  /\ leader # 0 /\ inserting # <<>>
        /\ inserting' = SubSeq(inserting, Len(rows) + 1, Len(inserting))
        /\ jobQueues' = jobQueues \o rows
        /\ posted' = [n \in QueueNode |-> posted[n] \cup IF n \in targets THEN {call} ELSE {}]
        /\ UNCHANGED <<clusterVars, jobVars, starting, unqueued, queueVersion, scheduled>>

\* Variant: the version is raised after the jobs have been queued.
VersionRaisedLater == queueVersion
VersionAtStart == queueVersion + 1

IncrementQueueVersion ==
    /\ starting.increment
    /\ queueVersion' = VersionAtStart
    /\ starting' = [increment |-> FALSE, todo |-> Range(jobAccounts)]
    /\ UNCHANGED <<clusterVars, jobVars, unqueued, inserting, jobQueues, executorVars>>

StartProject(a) ==
    /\ a \in starting.todo
    /\ starting' = [starting EXCEPT !.todo = @ \ {a}]
    /\ Queue(ActiveOf(a))
    /\ UNCHANGED <<clusterVars, jobVars, unqueued, queueRowVars, executorVars>>

UpdateJobToInactive(j) ==
    /\ j \in Active /\ Cardinality(inactive) < MaxInactive
    /\ inactive' = inactive \cup {j}
    /\ UNCHANGED <<clusterVars, jobAccounts, queueVars, queueRowVars, executorVars>>

-----------------------------------------------------------------------------
(* The executors *)

\* Variant: the last id is taken for the first one's successor.
IdsAfter(call) == ((call.last + 1)..(call.last + call.rows)) \cap DOMAIN jobQueues
RowIds(call) == (call.last .. (call.last + call.rows - 1)) \cap DOMAIN jobQueues

QueueRowsOf(ids) == {jobQueues[i] : i \in ids}

(* The jobs of the whole range of the rows, less those of other workers:   *)
(* here the workers are the nodes the rows name.                           *)
Mine(n, rows) ==
    LET lower == Min({row.lower : row \in rows})
        upper == Max({row.upper : row \in rows})
        range == (lower..upper) \cap Active
        nodes == {row.node : row \in rows}
    IN  IF rows = {} THEN {}
        ELSE IF single[n] THEN range
        ELSE IF nodes \subseteq {leader} /\ n = leader THEN {}
        ELSE {j \in range : NodeOf(jobAccounts[j], WorkerNodes(nodes, n)) = n}

QueueExecutions(n, call) ==
    /\ call \in posted[n]
    /\ posted' = [posted EXCEPT ![n] = @ \ {call}]
    /\ scheduled' = [scheduled EXCEPT ![n] = @ \cup Mine(n, QueueRowsOf(RowIds(call)))]
    /\ UNCHANGED <<clusterVars, jobVars, queueVars, queueRowVars>>

(* The jobs in the rows of a node under the last version.                  *)
Recovered(n) ==
    {j \in Active : \E row \in QueueRowsOf(DOMAIN jobQueues) :
        row.node = n /\ row.version = queueVersion /\ j \in row.lower..row.upper}

(* The leader has the other nodes run RecoverJobs.                         *)
RecoverOnWorkerNodes ==
    /\ resumed /\ leader # 0 /\ resumed' = FALSE
    /\ \E reached \in SUBSET (peers \ {leader}) :
         scheduled' = [n \in QueueNode |-> scheduled[n] \cup IF n \in reached THEN Recovered(n) ELSE {}]
    /\ UNCHANGED <<servers, peers, leader, single, deposed, outages, jobVars, queueVars,
                   queueRowVars, posted>>

JobAssignmentNext ==
    \/ \E n \in QueueNode : \/ Elected(n) \/ Deposed(n) \/ PeerJoins(n) \/ PeerRemoved(n)
                            \/ NodeFails(n) \/ NodeReturns(n)
                            \/ \E call \in posted[n] : QueueExecutions(n, call)
    \/ BatchInsertJobs \/ InsertJobQueueLogs \/ IncrementQueueVersion
    \/ RecoverOnWorkerNodes
    \/ \E batch \in unqueued : QueueJobs(batch)
    \/ \E a \in Account : StartProject(a)
    \/ \E j \in JobId : UpdateJobToInactive(j)

JobAssignmentSpec == JobAssignmentInit /\ [][JobAssignmentNext]_jobAssignmentVars

(* A running process makes progress; raft elects a leader if it can, and   *)
(* the peers of etcd are reconciled.                                       *)
JobAssignmentFairness ==
    /\ WF_jobAssignmentVars(IncrementQueueVersion)
    /\ WF_jobAssignmentVars(\E a \in Account : StartProject(a))
    /\ WF_jobAssignmentVars(\E batch \in unqueued : QueueJobs(batch))
    /\ WF_jobAssignmentVars(InsertJobQueueLogs)
    /\ WF_jobAssignmentVars(RecoverOnWorkerNodes)
    /\ \A n \in QueueNode :
        /\ WF_jobAssignmentVars(leader = 0 /\ Elected(n))
        /\ WF_jobAssignmentVars(Deposed(n))
        /\ WF_jobAssignmentVars(\E call \in posted[n] : QueueExecutions(n, call))

JobAssignmentFairSpec == JobAssignmentSpec /\ JobAssignmentFairness

-----------------------------------------------------------------------------
(* Properties *)

(* Rows and calls are as the repositories define them, and a call names no *)
(* more rows than a command inserts.                                       *)
JobAssignmentTypeOK ==
    /\ servers \subseteq QueueNode /\ peers \subseteq QueueNode
    /\ leader \in peers \cup {0} /\ single \in [QueueNode -> BOOLEAN]
    /\ deposed \subseteq peers \ {leader} /\ resumed \in BOOLEAN /\ outages \in 0..MaxOutages
    /\ jobAccounts \in Seq(Account) /\ inactive \subseteq DOMAIN jobAccounts
    /\ starting \in [increment : BOOLEAN, todo : SUBSET Account]
    /\ unqueued \subseteq SUBSET DOMAIN jobAccounts
    /\ inserting \in Seq(JobQueueLog) /\ jobQueues \in Seq(JobQueueLog)
    /\ queueVersion \in Nat
    /\ posted \in [QueueNode -> SUBSET PostProcess]
    /\ scheduled \in [QueueNode -> SUBSET DOMAIN jobAccounts]

(* The rows of a batch that is assigned to workers hold each of its jobs   *)
(* once and no other job, although ids of several accounts interleave      *)
(* (queue.go:254-302).                                                     *)
AssignsBatchOnce ==
    [][\A batch \in unqueued \ unqueued' :
         leader # 0 /\ leader' = leader /\ ~single[leader] =>
            /\ \A j \in batch : Cardinality({i \in DOMAIN inserting' :
                                    j \in inserting'[i].lower..inserting'[i].upper}) = 1
            /\ \A i \in DOMAIN inserting' : inserting'[i].lower..inserting'[i].upper \subseteq batch
      ]_jobAssignmentVars

(* The rows of the last version give an active job to one node, whatever   *)
(* leaders, alone or not, have written them: RecoverJobs on two nodes does *)
(* not start a job twice (processor.go:135-157).                           *)
OneOwnerPerVersion ==
    LET current == {row \in QueueRowsOf(DOMAIN jobQueues) : row.version = queueVersion}
    IN  \A r, s \in current : r.node # s.node =>
            (r.lower..r.upper) \cap (s.lower..s.upper) \cap Active = {}

(* A leader that was alone when it was elected comes to run every active   *)
(* job, whatever has crashed before (processor.go:75-133) - unless a node  *)
(* that was deposed earlier is late and stops its jobs (raft_cluster.go:   *)
(* 654), which nothing starts again.                                       *)
SingleLeaderRunsAll ==
    [](leader # 0 /\ single[leader] => deposed = {})
    => \A n \in QueueNode :
           <>[](leader = n /\ single[n]) => <>[](Active \subseteq scheduled[n])

(* The rows of a command are found by the call it posts (job_queues.go:    *)
(* 181-241, job_queues_test.go:374-376).                                   *)
QueueRowsFound ==
    \A n \in QueueNode : \A call \in posted[n] :
        (call.last - call.rows + 1)..call.last \subseteq RowIds(call)

=============================================================================
