------------------------------- MODULE FanIn --------------------------------
(***************************************************************************)
(* What a node does when raft makes it leader or takes that away (service/ *)
(* node/raft_cluster.go, event_handler.go, utils/debounce.go), and how the *)
(* execution logs that the other nodes hold uncommitted reach the raft log *)
(* (peer_communication.go, tcp_client.go).                                 *)
(*                                                                         *)
(* Every node numbers its uncommitted rows; the committed rows are         *)
(* numbered by their place in committed. Authentication, addresses and     *)
(* the framing of messages are left out; a call to a peer answers or fails *)
(* after its retries.                                                      *)
(*                                                                         *)
(* Bounds: MaxChanges elections, MaxTicks ticks of the periodic fan-in.    *)
(***************************************************************************)
EXTENDS Naturals, FiniteSets, Sequences, Functions

CONSTANTS FanNode, NoLeader, ExecutionLog,
          MaxChanges, MaxTicks

ASSUME FanInAssumption ==
    /\ NoLeader \notin FanNode
    /\ MaxChanges \in Nat /\ MaxTicks \in Nat

VARIABLES
    members,     \* servers of the raft configuration
    raftLeader,  \* the leader raft has elected
    leaderCh,    \* leaderCh[n]: the notification n has not read yet
    latest,      \* latestIsLeader
    handler,     \* handler[n]: the debounced leadership handler
    isLeader, singleNode,        \* flags of the services of a node
    acceptClientWrites,
    running,     \* nodes whose jobs have been started and not stopped
    fanIns,      \* fanIns[n][m]: what n knows of its fan-in from m
    fetches,     \* fetches[n]: goroutines of the periodic fan-in
    periodic,    \* nodes that run the periodic fan-in
    uncommitted, \* uncommitted[n]: rows of n in its own table
    lastId,      \* lastId[n]: the last id given to an uncommitted row of n
    committed,   \* the logs of the committed rows, in the order of their ids
    cleanUps,    \* cleanUps[n]: ranges of ids n is about to delete
    written,     \* written[n]: logs the executor of n put into its own table
    committers,  \* nodes that have committed rows
    changes, ticks

fanInVars == <<members, raftLeader, leaderCh, latest, handler, isLeader,
               singleNode, acceptClientWrites, running, fanIns, fetches,
               periodic, uncommitted, lastId, committed, cleanUps, written,
               committers, changes, ticks>>
handlerVars == <<handler, isLeader, singleNode, acceptClientWrites, running>>
raftVars == <<members, raftLeader, leaderCh, latest, changes>>
fetchVars == <<fanIns, fetches, periodic, ticks>>
rowVars == <<uncommitted, lastId, committed, cleanUps, written, committers>>

(* none: fresh; waiting: the ticker runs; the others are the places where  *)
(* the effector talks to peers or to raft; blocked: it sends on fanInCh.   *)
HandlerPC == {"none", "waiting", "stopWorkers", "commitOwn", "nextPeer",
              "phase1", "phase2", "commitPeer", "blocked", "startJobs"}
Handler == [pc: HandlerPC, lead: BOOLEAN, todo: SUBSET FanNode,
            peer: FanNode \cup {NoLeader}, data: SUBSET ExecutionLog]
NoHandler == [pc |-> "none", lead |-> FALSE, todo |-> {}, peer |-> NoLeader, data |-> {}]

PeerFanInState == {"none", "notStarted", "requestId", "logs"}
PeerFanIn == [state: PeerFanInState, data: SUBSET ExecutionLog]
NoFanIn == [state |-> "none", data |-> {}]

(* A goroutine of the periodic fan-in and the copies it works on.          *)
Fetch == [phase: {"notStarted", "requestId", "logs"}, todo: SUBSET FanNode,
          data: [FanNode -> SUBSET ExecutionLog]]

FanInInit ==
    /\ members \in {m \in SUBSET FanNode : m # {}}
    /\ raftLeader = NoLeader
    /\ leaderCh = [n \in FanNode |-> {}]
    /\ latest = [n \in FanNode |-> FALSE]
    /\ handler = [n \in FanNode |-> NoHandler]
    /\ isLeader = [n \in FanNode |-> FALSE]
    /\ singleNode = [n \in FanNode |-> FALSE]
    /\ acceptClientWrites = [n \in FanNode |-> FALSE]
    /\ running = {}
    /\ fanIns = [n \in FanNode |-> [m \in FanNode |-> NoFanIn]]
    /\ fetches = [n \in FanNode |-> {}]
    /\ periodic = {}
    /\ uncommitted = [n \in FanNode |-> {}]
    /\ lastId = [n \in FanNode |-> 0]
    /\ committed = <<>>
    /\ cleanUps = [n \in FanNode |-> {}]
    /\ written = [n \in FanNode |-> {}]
    /\ committers = {}
    /\ changes = 0 /\ ticks = 0

-----------------------------------------------------------------------------
(* raft: an election notifies the old and the new leader; the channel      *)
(* holds one notification, the newest.                                     *)

LeaderChanges(n) ==
    /\ changes < MaxChanges /\ n # raftLeader /\ n \in members \cup {NoLeader}
    /\ raftLeader' = n
    /\ leaderCh' = [m \in FanNode |-> CASE m = n -> {TRUE}
                                        [] m = raftLeader -> {FALSE}
                                        [] OTHER -> leaderCh[m]]
    /\ changes' = changes + 1
    /\ UNCHANGED <<members, latest, handlerVars, fetchVars, rowVars>>

(* Servers are added by the leader (see Membership); nobody is told.       *)
NodeJoins(n) ==
    /\ raftLeader # NoLeader /\ n \notin members
    /\ members' = members \cup {n}
    /\ UNCHANGED <<raftLeader, leaderCh, latest, changes, handlerVars, fetchVars, rowVars>>

-----------------------------------------------------------------------------
(* The rows of execution logs *)

Logs(rows) == {r.log : r \in rows}
IsSequenceOf(s, logs) == Len(s) = Cardinality(logs) /\ Range(s) = logs

\* Variant (see the mutants of the project): the peer is told to clean up.
PeerIsTarget(n, m) == m
CommitTarget(n, m) == n

IdRange(last, rows) == (last - rows + 1)..last

(* Fails without a word unless n leads raft. Once committed the target     *)
(* node is told the ids the rows got in the committed table.               *)
RaftInsertExecutionLogs(n, m, logs) ==
    IF raftLeader # n \/ logs = {}
    THEN UNCHANGED rowVars
    ELSE LET last == Len(committed) + Cardinality(logs)
             target == CommitTarget(n, m)
         IN /\ \E s \in [1..Cardinality(logs) -> logs] :
                  IsSequenceOf(s, logs) /\ committed' = committed \o s
            /\ cleanUps' = [cleanUps EXCEPT ![target] =
                              @ \cup {IdRange(last, Cardinality(logs))}]
            /\ committers' = committers \cup {n}
            /\ UNCHANGED <<uncommitted, lastId, written>>

(* An execution ends: its log is written to the table of the node, or, if  *)
(* the node believes to be alone, through raft.                            *)
LogExecution(n, l) ==
    /\ \A m \in FanNode : l \notin written[m]
    /\ l \notin Range(committed)
    /\ IF singleNode[n]
       THEN RaftInsertExecutionLogs(n, n, {l})
       ELSE /\ uncommitted' = [uncommitted EXCEPT ![n] =
                                 @ \cup {[id |-> lastId[n] + 1, log |-> l]}]
            /\ lastId' = [lastId EXCEPT ![n] = @ + 1]
            /\ written' = [written EXCEPT ![n] = @ \cup {l}]
            /\ UNCHANGED <<committed, cleanUps, committers>>
    /\ UNCHANGED <<raftVars, handlerVars, fetchVars>>

DeleteNewUncommittedExecutionLogs(n) ==
    \E ids \in cleanUps[n] :
        /\ cleanUps' = [cleanUps EXCEPT ![n] = @ \ {ids}]
        /\ uncommitted' = [uncommitted EXCEPT ![n] = {r \in @ : r.id \notin ids}]
        /\ UNCHANGED <<lastId, committed, written, committers,
                       raftVars, handlerVars, fetchVars>>

-----------------------------------------------------------------------------
(* The debounce: a change starts the ticker unless one has been started    *)
(* since the last effector ended; the effector reads the latest value once.*)

ListenOnInputQueues(n) ==
    /\ leaderCh[n] # {}
    /\ leaderCh' = [leaderCh EXCEPT ![n] = {}]
    /\ latest' = [latest EXCEPT ![n] = (TRUE \in leaderCh[n])]
    /\ handler' = IF handler[n].pc = "none"
                  THEN [handler EXCEPT ![n].pc = "waiting"]
                  ELSE handler
    /\ UNCHANGED <<members, raftLeader, changes, isLeader, singleNode,
                   acceptClientWrites, running, fetchVars, rowVars>>

\* Variant (see the mutants of the project): writes go on being accepted.
KeepAcceptingClientWrites(n) == UNCHANGED acceptClientWrites
StopAcceptingClientWrites(n) ==
    acceptClientWrites' = [acceptClientWrites EXCEPT ![n] = FALSE]

Goto(n, pc) == handler' = [handler EXCEPT ![n].pc = pc]

HandleRaftLeadershipChanges(n) ==
    /\ handler[n].pc = "waiting"
    /\ handler' = [handler EXCEPT ![n] = [NoHandler EXCEPT !.pc = "stopWorkers",
                                                           !.lead = latest[n]]]
    /\ StopAcceptingClientWrites(n)
    /\ singleNode' = [singleNode EXCEPT ![n] = (Cardinality(members) = 1)]
    /\ UNCHANGED <<raftVars, isLeader, running, fetchVars, rowVars>>

(* Every peer that answers is stopped, the leader among them if n is not;  *)
(* then the flags of the services of n are set.                            *)
StopAllJobsOnAllWorkerNodes(n) ==
    /\ handler[n].pc = "stopWorkers"
    /\ \E unreachable \in SUBSET (FanNode \ {n}) : running' = running \cap unreachable
    /\ isLeader' = [isLeader EXCEPT ![n] = handler[n].lead]
    /\ handler' = CASE ~handler[n].lead -> [handler EXCEPT ![n] = NoHandler]
                    [] handler[n].lead /\ singleNode[n] -> [handler EXCEPT ![n].pc = "startJobs"]
                    [] OTHER -> [handler EXCEPT ![n].pc = "commitOwn"]
    /\ UNCHANGED <<raftVars, singleNode, acceptClientWrites, fetchVars, rowVars>>

(* A leader of several nodes commits its own rows first; then it works     *)
(* through its peers, one after the other.                                 *)
CommitOwnLogs(n) ==
    /\ handler[n].pc = "commitOwn"
    /\ RaftInsertExecutionLogs(n, n, Logs(uncommitted[n]))
    /\ handler' = [handler EXCEPT ![n].pc = "nextPeer", ![n].todo = members \ {n}]
    /\ UNCHANGED <<raftVars, isLeader, singleNode, acceptClientWrites, running, fetchVars>>

FanInLocalDataFromPeersSync(n) ==
    /\ handler[n].pc = "nextPeer"
    /\ IF handler[n].todo = {}
       THEN Goto(n, "startJobs") /\ periodic' = periodic \cup {n}
       ELSE /\ \E m \in handler[n].todo :
                  handler' = [handler EXCEPT ![n].pc = "phase1", ![n].peer = m,
                                             ![n].todo = @ \ {m}]
            /\ UNCHANGED periodic
    /\ UNCHANGED <<raftVars, isLeader, singleNode, acceptClientWrites, running,
                   fanIns, fetches, ticks, rowVars>>

SetFanIn(n, m, f) == fanIns' = [fanIns EXCEPT ![n][m] = f]

Phase1(n) ==
    LET m == handler[n].peer
    IN /\ handler[n].pc = "phase1"
       /\ Goto(n, "phase2")
       /\ SetFanIn(n, m, [state |-> "requestId", data |-> {}])
       /\ UNCHANGED <<raftVars, isLeader, singleNode, acceptClientWrites, running,
                      fetches, periodic, ticks, rowVars>>

(* The peer answers with the rows its table holds when it reads them, or   *)
(* the handler finds what the periodic fan-in has got from it.             *)
Answers(n, m) ==
    {Logs(uncommitted[m])} \cup
    {f.data : f \in {g \in {fanIns[n][m]} : g.state = "logs"}}
Phase2(n) ==
    LET m == handler[n].peer
    IN /\ handler[n].pc = "phase2"
       /\ \E rows \in Answers(n, m) :
             /\ handler' = [handler EXCEPT ![n].pc = "commitPeer", ![n].data = rows]
             /\ SetFanIn(n, m, [state |-> "logs", data |-> rows])
       /\ UNCHANGED <<raftVars, isLeader, singleNode, acceptClientWrites, running,
                      fetches, periodic, ticks, rowVars>>

\* Variant (see the mutants of the project): the phases have no timeout.
PhaseNeverTimesOut(n) == FALSE
PhaseTimesOut(n) == handler[n].pc \in {"phase1", "phase2"}

(* The call fails, also because the task it asks for is not done yet, and  *)
(* the poll of fanIns runs into its timeout.                               *)
PhaseFails(n) ==
    /\ PhaseTimesOut(n)
    /\ Goto(n, "nextPeer")
    /\ SetFanIn(n, handler[n].peer, NoFanIn)
    /\ UNCHANGED <<raftVars, isLeader, singleNode, acceptClientWrites, running,
                   fetches, periodic, ticks, rowVars>>

(* Nobody receives from fanInCh, which has no buffer.                      *)
CommitFetchedUnCommittedLogs(n) ==
    /\ handler[n].pc = "commitPeer"
    /\ RaftInsertExecutionLogs(n, handler[n].peer, handler[n].data)
    /\ SetFanIn(n, handler[n].peer, NoFanIn)
    /\ Goto(n, "blocked")
    /\ UNCHANGED <<raftVars, isLeader, singleNode, acceptClientWrites, running,
                   fetches, periodic, ticks>>

(* Ends the effector; a new change can start the ticker again. Only a node *)
(* on its own schedules jobs here, the leader of several grants quota.     *)
BeginAcceptingClientWrites(n) ==
    /\ handler[n].pc = "startJobs"
    /\ handler' = [handler EXCEPT ![n] = NoHandler]
    /\ acceptClientWrites' = [acceptClientWrites EXCEPT ![n] = TRUE]
    /\ running' = IF singleNode[n] THEN running \cup {n} ELSE running
    /\ UNCHANGED <<raftVars, isLeader, singleNode, fetchVars, rowVars>>

(* A follower the leader hears of again is told to recover its jobs.       *)
StartJobsOnWorkerNodes(n) ==
    /\ raftLeader = n
    /\ \E peers \in SUBSET (members \ {n}) : running' = running \cup peers
    /\ UNCHANGED <<raftVars, handler, isLeader, singleNode, acceptClientWrites,
                   fetchVars, rowVars>>

-----------------------------------------------------------------------------
(* The periodic fan-in, which no change of leadership stops. Every tick    *)
(* starts a goroutine per phase for the peers that are in it, whether or   *)
(* not an earlier goroutine works on them.                                 *)

InPhase(n, state) == {m \in FanNode : fanIns[n][m].state = state}
SelectedPeers(n) == {m \in members \ {n} : fanIns[n][m].state = "none"}

FanInLocalDataFromPeers(n) ==
    /\ n \in periodic
    /\ ticks < MaxTicks /\ ticks' = ticks + 1
    /\ LET new == SelectedPeers(n)
           data == [m \in FanNode |-> fanIns[n][m].data]
           started(state) == InPhase(n, state) \cup (IF state = "notStarted" THEN new ELSE {})
       IN /\ fanIns' = [fanIns EXCEPT ![n] = [m \in FanNode |->
                          IF m \in new THEN [state |-> "notStarted", data |-> {}] ELSE @[m]]]
          /\ fetches' = [fetches EXCEPT ![n] = @ \cup
                {[phase |-> s, todo |-> started(s), data |-> data] :
                    s \in {t \in {"notStarted", "requestId", "logs"} : started(t) # {}}}]
    /\ UNCHANGED <<periodic, raftVars, handlerVars, rowVars>>

ReplaceFetch(n, f, s) == fetches' = [fetches EXCEPT ![n] = (@ \ {f}) \cup s]
Without(f, m) == IF f.todo = {m} THEN {} ELSE {[f EXCEPT !.todo = @ \ {m}]}

FetchUncommittedLogsFromPeersPhase1(n, f, m) ==
    /\ f.phase = "notStarted"
    /\ SetFanIn(n, m, [state |-> "requestId", data |-> {}])
    /\ ReplaceFetch(n, f, Without(f, m))
    /\ UNCHANGED rowVars

FetchUncommittedLogsFromPeersPhase2(n, f, m) ==
    /\ f.phase = "requestId"
    /\ SetFanIn(n, m, [state |-> "logs", data |-> Logs(uncommitted[m])])
    /\ ReplaceFetch(n, f, Without(f, m))
    /\ UNCHANGED rowVars

(* The goroutine commits one peer and is then blocked for ever.            *)
FetchCommit(n, f, m) ==
    /\ f.phase = "logs"
    /\ RaftInsertExecutionLogs(n, m, f.data[m])
    /\ SetFanIn(n, m, NoFanIn)
    /\ ReplaceFetch(n, f, {})

(* An error ends the goroutine; the other peers of it are left.            *)
FetchFails(n, f) ==
    /\ f.phase # "logs"
    /\ ReplaceFetch(n, f, {})
    /\ UNCHANGED <<fanIns, rowVars>>

FetchProceeds(n) ==
    /\ \E f \in fetches[n] :
          \/ FetchFails(n, f)
          \/ \E m \in f.todo : \/ FetchUncommittedLogsFromPeersPhase1(n, f, m)
                               \/ FetchUncommittedLogsFromPeersPhase2(n, f, m)
                               \/ FetchCommit(n, f, m)
    /\ UNCHANGED <<periodic, ticks, raftVars, handlerVars>>

-----------------------------------------------------------------------------
PeerAnswers(n) == Phase1(n) \/ Phase2(n)

HandlerProceeds(n) ==
    \/ HandleRaftLeadershipChanges(n) \/ StopAllJobsOnAllWorkerNodes(n)
    \/ CommitOwnLogs(n) \/ FanInLocalDataFromPeersSync(n) \/ PhaseFails(n)
    \/ CommitFetchedUnCommittedLogs(n) \/ BeginAcceptingClientWrites(n)

FanInNext ==
    \/ \E n \in FanNode \cup {NoLeader} : LeaderChanges(n)
    \/ \E n \in FanNode :
          \/ NodeJoins(n) \/ ListenOnInputQueues(n) \/ StartJobsOnWorkerNodes(n)
          \/ HandlerProceeds(n) \/ PeerAnswers(n)
          \/ FanInLocalDataFromPeers(n) \/ FetchProceeds(n)
          \/ DeleteNewUncommittedExecutionLogs(n)
          \/ \E l \in ExecutionLog : LogExecution(n, l)

(* The goroutines of a node go on; its peers need not answer.              *)
FanInFairness ==
    \A n \in FanNode : /\ WF_fanInVars(ListenOnInputQueues(n))
                       /\ WF_fanInVars(HandlerProceeds(n))

FanInSpec == FanInInit /\ [][FanInNext]_fanInVars
FanInFairSpec == FanInSpec /\ FanInFairness

-----------------------------------------------------------------------------
FanInTypeOK ==
    /\ members \subseteq FanNode /\ members # {}
    /\ raftLeader \in members \cup {NoLeader}
    /\ leaderCh \in [FanNode -> {{}, {TRUE}, {FALSE}}]
    /\ latest \in [FanNode -> BOOLEAN]
    /\ handler \in [FanNode -> Handler]
    /\ isLeader \in [FanNode -> BOOLEAN] /\ singleNode \in [FanNode -> BOOLEAN]
    /\ acceptClientWrites \in [FanNode -> BOOLEAN]
    /\ running \subseteq FanNode /\ periodic \subseteq FanNode
    /\ fanIns \in [FanNode -> [FanNode -> PeerFanIn]]
    /\ \A n \in FanNode : fetches[n] \subseteq Fetch
    /\ \A n \in FanNode : \A r \in uncommitted[n] :
          r.id \in 1..lastId[n] /\ r.log \in written[n]
    /\ committed \in Seq(ExecutionLog)
    /\ \A n \in FanNode : \A ids \in cleanUps[n] : ids \subseteq DOMAIN committed
    /\ written \in [FanNode -> SUBSET ExecutionLog]
    /\ committers \subseteq FanNode
    /\ changes \in 0..MaxChanges /\ ticks \in 0..MaxTicks

(* A node accepts writes of clients only once its services know that it is *)
(* leader, and never while it takes over or hands over (raft_cluster.go:   *)
(* 644-710).                                                               *)
AcceptingIsSettled ==
    \A n \in FanNode :
        acceptClientWrites[n] => isLeader[n] /\ handler[n].pc \in {"none", "waiting"}

(* The rows of a node that has committed none itself are all there, how-    *)
(* ever often a leader has fetched and committed them: a leader that fails *)
(* between the two loses nothing (peer_communication.go:553-570,           *)
(* executor.go:729-757).                                                   *)
FollowerKeepsRows ==
    \A n \in FanNode \ committers : written[n] \subseteq Logs(uncommitted[n])

(* The effector ends or sends on fanInCh, whatever its peers do: a peer    *)
(* that does not answer costs it a timeout (peer_communication.go:350-430).*)
HandlerEnds ==
    \A n \in FanNode : handler[n].pc # "none" ~> handler[n].pc \in {"none", "blocked"}

(* A node that stays leader comes to accept writes: the fan-in is "used    *)
(* during leader restart to ensure predictable initialization before       *)
(* accepting write requests" (peer_communication.go:301).                  *)
LeaderAcceptsWrites ==
    \A n \in FanNode : raftLeader = n ~> acceptClientWrites[n] \/ raftLeader # n

=============================================================================
