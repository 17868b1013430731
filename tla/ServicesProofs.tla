---------------------------- MODULE ServicesProofs ----------------------------
(***************************************************************************)
(* The services of a node that gains and loses the leadership.              *)
(*                                                                         *)
(* FanIn, for any nodes, logs, elections and ticks: a node accepts the      *)
(* writes of clients only as a settled leader, and keeps its rows unless it *)
(* commits some itself.                                                    *)
(*                                                                         *)
(* AsyncTasks, for any requests, readers and changes of mode: a reader is   *)
(* told about the task it asked for, and a task that has ended says what    *)
(* became of its jobs, as long as no number names two tasks.                *)
(*                                                                         *)
(* SendTime, for any requests: the search scores the moments a request      *)
(* allows, and the answer is sorted, of its length and spread.              *)
(***************************************************************************)
EXTENDS FanIn, AsyncTasks, SendTime, SequenceTheorems, FiniteSetTheorems, WellFoundedInduction, TLAPS

Row == [id : Nat, log : ExecutionLog]

(* A handler past the stop of the workers has told the services of its     *)
(* node that it leads.                                                     *)
Taken(pc) == pc \notin {"none", "waiting", "stopWorkers"}

(* A handler that talks to a peer has one.                                 *)
Talking == {"phase1", "phase2", "commitPeer"}
PeerHandler == {h \in Handler : h.pc \in Talking => h.peer \in FanNode}

HandlersOK ==
    /\ handler \in [FanNode -> PeerHandler]
    /\ isLeader \in [FanNode -> BOOLEAN] /\ singleNode \in [FanNode -> BOOLEAN]
    /\ acceptClientWrites \in [FanNode -> BOOLEAN]
    /\ \A n \in FanNode : Taken(handler[n].pc) => isLeader[n]
    /\ AcceptingIsSettled

FetchesOK ==
    /\ members \subseteq FanNode
    /\ latest \in [FanNode -> BOOLEAN]
    /\ fanIns \in [FanNode -> [FanNode -> PeerFanIn]]
    /\ fetches \in [FanNode -> SUBSET Fetch]

(* The ranges of ids that a node deletes are those of rows it committed.    *)
RowsOK ==
    /\ uncommitted \in [FanNode -> SUBSET Row]
    /\ lastId \in [FanNode -> Nat]
    /\ written \in [FanNode -> SUBSET ExecutionLog]
    /\ cleanUps = [n \in FanNode |-> cleanUps[n]]
    /\ \A n \in FanNode \ committers : cleanUps[n] = {}
    /\ FollowerKeepsRows

FanInInv == HandlersOK /\ FetchesOK /\ RowsOK

-----------------------------------------------------------------------------
(* Rows.                                                                   *)

LEMMA LogsType ==
    ASSUME NEW rows \in SUBSET Row
    PROVE  Logs(rows) \in SUBSET ExecutionLog
  BY DEF Logs, Row

LEMMA CommitKeepsRows ==
    ASSUME RowsOK, NEW n \in FanNode, NEW m, NEW logs, RaftInsertExecutionLogs(n, m, logs)
    PROVE  RowsOK'
  <1>1. CASE raftLeader # n \/ logs = {}
    BY <1>1 DEF RaftInsertExecutionLogs, rowVars, RowsOK, FollowerKeepsRows, Logs
  <1>2. CASE ~(raftLeader # n \/ logs = {})
    <2>1. PICK ids : cleanUps' = [cleanUps EXCEPT ![n] = @ \cup {ids}]
      BY <1>2 DEF RaftInsertExecutionLogs, CommitTarget
    <2>2. committers' = committers \cup {n} /\ UNCHANGED <<uncommitted, lastId, written>>
      BY <1>2 DEF RaftInsertExecutionLogs
    <2> QED
      BY <2>1, <2>2 DEF RowsOK, FollowerKeepsRows, Logs
  <1> QED
    BY <1>1, <1>2

LEMMA SameRows ==
    ASSUME RowsOK, UNCHANGED rowVars
    PROVE  RowsOK'
  BY DEF RowsOK, rowVars, FollowerKeepsRows, Logs

LEMMA SameHandlers ==
    ASSUME HandlersOK, UNCHANGED handlerVars
    PROVE  HandlersOK'
  BY DEF HandlersOK, handlerVars, AcceptingIsSettled, Taken

LEMMA SameFetches ==
    ASSUME FetchesOK, UNCHANGED <<raftVars, fetchVars>>
    PROVE  FetchesOK'
  BY DEF FetchesOK, raftVars, fetchVars

LEMMA LogExecutionKeeps ==
    ASSUME FanInInv, NEW n \in FanNode, NEW l \in ExecutionLog, LogExecution(n, l)
    PROVE  FanInInv'
  <1>1. RowsOK'
    <2>1. CASE singleNode[n]
      BY <2>1, CommitKeepsRows DEF LogExecution, FanInInv
    <2>2. CASE ~singleNode[n]
      <3> DEFINE row == [id |-> lastId[n] + 1, log |-> l]
      <3>1. row \in Row /\ row.log = l
        BY DEF Row, FanInInv, RowsOK
      <3>2. /\ uncommitted' = [uncommitted EXCEPT ![n] = @ \cup {row}]
            /\ lastId' = [lastId EXCEPT ![n] = @ + 1]
            /\ written' = [written EXCEPT ![n] = @ \cup {l}]
            /\ UNCHANGED <<cleanUps, committers>>
        BY <2>2 DEF LogExecution
      <3> HIDE DEF row
      <3>3. ASSUME NEW m \in FanNode \ committers
            PROVE  written'[m] \subseteq Logs(uncommitted'[m])
        <4>1. written[m] \subseteq Logs(uncommitted[m])
          BY DEF FanInInv, RowsOK, FollowerKeepsRows
        <4>2. CASE m = n
          <5>1. uncommitted'[m] = uncommitted[m] \cup {row} /\ written'[m] = written[m] \cup {l}
            BY <3>2, <4>2 DEF FanInInv, RowsOK
          <5> QED
            BY <3>1, <4>1, <5>1 DEF Logs
        <4>3. CASE m # n
          BY <3>2, <4>1, <4>3 DEF FanInInv, RowsOK
        <4> QED
          BY <4>2, <4>3
      <3> QED
        BY <3>1, <3>2, <3>3 DEF FanInInv, RowsOK, FollowerKeepsRows
    <2> QED
      BY <2>1, <2>2
  <1> QED
    BY <1>1, SameHandlers, SameFetches DEF LogExecution, FanInInv

LEMMA CleanUpKeeps ==
    ASSUME FanInInv, NEW n \in FanNode, DeleteNewUncommittedExecutionLogs(n)
    PROVE  FanInInv'
  <1>1. n \in committers /\ UNCHANGED committers
    BY DEF DeleteNewUncommittedExecutionLogs, FanInInv, RowsOK
  <1>2. PICK ids : /\ cleanUps' = [cleanUps EXCEPT ![n] = @ \ {ids}]
                   /\ uncommitted' = [uncommitted EXCEPT ![n] = {r \in @ : r.id \notin ids}]
                   /\ UNCHANGED <<lastId, written>>
    BY DEF DeleteNewUncommittedExecutionLogs
  <1>3. \A m \in FanNode \ committers : uncommitted'[m] = uncommitted[m] /\ cleanUps'[m] = cleanUps[m]
    BY <1>1, <1>2 DEF FanInInv, RowsOK
  <1>4. FollowerKeepsRows'
    BY <1>1, <1>2, <1>3 DEF FanInInv, RowsOK, FollowerKeepsRows, Logs
  <1>5. uncommitted' \in [FanNode -> SUBSET Row]
    BY <1>2 DEF FanInInv, RowsOK
  <1>6. RowsOK'
    BY <1>1, <1>2, <1>3, <1>4, <1>5 DEF FanInInv, RowsOK
  <1> QED
    BY <1>6, SameHandlers, SameFetches DEF DeleteNewUncommittedExecutionLogs, FanInInv

-----------------------------------------------------------------------------
(* raft and the debounce.                                                  *)

LEMMA RaftKeeps ==
    ASSUME FanInInv, NEW n \in FanNode \cup {NoLeader}, LeaderChanges(n) \/ (n \in FanNode /\ NodeJoins(n))
    PROVE  FanInInv'
  <1>1. FetchesOK'
    BY DEF LeaderChanges, NodeJoins, FanInInv, FetchesOK, fetchVars
  <1> QED
    BY <1>1, SameHandlers, SameRows DEF LeaderChanges, NodeJoins, FanInInv

(* The handler of one node moves on.                                       *)
LEMMA OneHandler ==
    ASSUME HandlersOK, NEW n \in FanNode, NEW h \in PeerHandler,
           handler' = [handler EXCEPT ![n] = h],
           UNCHANGED <<isLeader, singleNode, acceptClientWrites>>,
           Taken(h.pc) => isLeader[n],
           acceptClientWrites[n] => h.pc \in {"none", "waiting"}
    PROVE  HandlersOK'
  BY DEF HandlersOK, AcceptingIsSettled

LEMMA ListenKeeps ==
    ASSUME FanInInv, NEW n \in FanNode, ListenOnInputQueues(n)
    PROVE  FanInInv'
  <1> DEFINE h == IF handler[n].pc = "none" THEN [handler[n] EXCEPT !.pc = "waiting"] ELSE handler[n]
  <1>0. handler[n] \in PeerHandler
    BY DEF FanInInv, HandlersOK
  <1>1. h \in PeerHandler /\ h.pc \in {"waiting", handler[n].pc}
        /\ (h.pc # handler[n].pc => handler[n].pc = "none")
    BY <1>0 DEF PeerHandler, Talking, Handler, HandlerPC
  <1>2. handler' = [handler EXCEPT ![n] = h]
    BY DEF ListenOnInputQueues, FanInInv, HandlersOK
  <1> HIDE DEF h
  <1>3. HandlersOK'
    BY <1>1, <1>2, OneHandler DEF ListenOnInputQueues, FanInInv, HandlersOK, AcceptingIsSettled, Taken
  <1>4. FetchesOK'
    BY DEF ListenOnInputQueues, FanInInv, FetchesOK, fetchVars
  <1> QED
    BY <1>3, <1>4, SameRows DEF ListenOnInputQueues, FanInInv

LEMMA HandleKeeps ==
    ASSUME FanInInv, NEW n \in FanNode, HandleRaftLeadershipChanges(n)
    PROVE  FanInInv'
  <1> DEFINE h == [NoHandler EXCEPT !.pc = "stopWorkers", !.lead = latest[n]]
  <1>1. h \in PeerHandler /\ h.pc = "stopWorkers"
    BY DEF FanInInv, FetchesOK, NoHandler, PeerHandler, Talking, Handler, HandlerPC
  <1>2. handler' = [handler EXCEPT ![n] = h]
    BY DEF HandleRaftLeadershipChanges
  <1> HIDE DEF h
  <1>3. /\ acceptClientWrites' = [acceptClientWrites EXCEPT ![n] = FALSE]
        /\ singleNode' \in [FanNode -> BOOLEAN] /\ isLeader' = isLeader
    BY DEF HandleRaftLeadershipChanges, StopAcceptingClientWrites, FanInInv, HandlersOK
  <1>4. HandlersOK'
    BY <1>1, <1>2, <1>3 DEF FanInInv, HandlersOK, AcceptingIsSettled, Taken
  <1> QED
    BY <1>4, SameRows, SameFetches DEF HandleRaftLeadershipChanges, FanInInv

LEMMA StopAllKeeps ==
    ASSUME FanInInv, NEW n \in FanNode, StopAllJobsOnAllWorkerNodes(n)
    PROVE  FanInInv'
  <1> DEFINE lead == handler[n].lead
             h == IF ~lead THEN NoHandler
                  ELSE IF singleNode[n] THEN [handler[n] EXCEPT !.pc = "startJobs"]
                  ELSE [handler[n] EXCEPT !.pc = "commitOwn"]
  <1>1. handler[n] \in PeerHandler /\ handler[n].pc = "stopWorkers" /\ lead \in BOOLEAN
        /\ ~acceptClientWrites[n]
    BY DEF StopAllJobsOnAllWorkerNodes, FanInInv, HandlersOK, PeerHandler, Talking, Handler, AcceptingIsSettled
  <1>2. h \in PeerHandler /\ (Taken(h.pc) => lead)
    BY <1>1 DEF PeerHandler, Talking, Handler, HandlerPC, NoHandler, Taken
  <1>3. handler' = [handler EXCEPT ![n] = h]
    BY DEF StopAllJobsOnAllWorkerNodes
  <1>4. isLeader' = [isLeader EXCEPT ![n] = lead] /\ UNCHANGED <<singleNode, acceptClientWrites>>
    BY DEF StopAllJobsOnAllWorkerNodes
  <1> HIDE DEF h, lead
  <1>5. HandlersOK'
    BY <1>1, <1>2, <1>3, <1>4 DEF FanInInv, HandlersOK, AcceptingIsSettled
  <1> QED
    BY <1>5, SameRows, SameFetches DEF StopAllJobsOnAllWorkerNodes, FanInInv

LEMMA BeginKeeps ==
    ASSUME FanInInv, NEW n \in FanNode, BeginAcceptingClientWrites(n)
    PROVE  FanInInv'
  <1>1. isLeader[n]
    BY DEF BeginAcceptingClientWrites, FanInInv, HandlersOK, Taken
  <1>2. NoHandler \in PeerHandler /\ NoHandler.pc = "none"
    BY DEF NoHandler, PeerHandler, Talking, Handler, HandlerPC
  <1>3. /\ handler' = [handler EXCEPT ![n] = NoHandler]
        /\ acceptClientWrites' = [acceptClientWrites EXCEPT ![n] = TRUE]
        /\ UNCHANGED <<isLeader, singleNode>>
    BY DEF BeginAcceptingClientWrites
  <1>4. HandlersOK'
    BY <1>1, <1>2, <1>3 DEF FanInInv, HandlersOK, AcceptingIsSettled, Taken
  <1> QED
    BY <1>4, SameRows, SameFetches DEF BeginAcceptingClientWrites, FanInInv

-----------------------------------------------------------------------------
(* The fan-in of the handler: from one step to the next the handler stays  *)
(* taken, and what it learns is a set of logs.                             *)

LEMMA TakenGoes ==
    ASSUME HandlersOK, NEW n \in FanNode, Taken(handler[n].pc), NEW h \in PeerHandler, Taken(h.pc),
           handler' = [handler EXCEPT ![n] = h],
           UNCHANGED <<isLeader, singleNode, acceptClientWrites>>
    PROVE  HandlersOK'
  BY OneHandler DEF HandlersOK, AcceptingIsSettled, Taken

LEMMA GotoTaken ==
    ASSUME HandlersOK, NEW n \in FanNode, Taken(handler[n].pc), NEW pc \in HandlerPC, Taken(pc),
           pc \in Talking => handler[n].peer \in FanNode,
           Goto(n, pc), UNCHANGED <<isLeader, singleNode, acceptClientWrites>>
    PROVE  HandlersOK'
  <1> DEFINE h == [handler[n] EXCEPT !.pc = pc]
  <1>1. h \in PeerHandler /\ h.pc = pc
    BY DEF HandlersOK, PeerHandler, Talking, Handler
  <1>2. handler' = [handler EXCEPT ![n] = h]
    BY DEF Goto
  <1> HIDE DEF h
  <1> QED
    BY <1>1, <1>2, TakenGoes

LEMMA FanInSet ==
    ASSUME FetchesOK, NEW n \in FanNode, NEW m \in FanNode, NEW f \in PeerFanIn, SetFanIn(n, m, f),
           UNCHANGED <<members, latest, fetches>>
    PROVE  FetchesOK'
  BY DEF FetchesOK, SetFanIn

LEMMA FanInStates ==
    /\ NoFanIn \in PeerFanIn
    /\ [state |-> "requestId", data |-> {}] \in PeerFanIn
    /\ [state |-> "notStarted", data |-> {}] \in PeerFanIn
    /\ \A rows \in SUBSET ExecutionLog : [state |-> "logs", data |-> rows] \in PeerFanIn
  BY DEF NoFanIn, PeerFanIn, PeerFanInState

LEMMA CommitOwnKeeps ==
    ASSUME FanInInv, NEW n \in FanNode, CommitOwnLogs(n)
    PROVE  FanInInv'
  <1> DEFINE h == [handler[n] EXCEPT !.pc = "nextPeer", !.todo = members \ {n}]
  <1>1. handler[n] \in PeerHandler /\ Taken(handler[n].pc)
    BY DEF CommitOwnLogs, FanInInv, HandlersOK, Taken
  <1>2. h \in PeerHandler /\ Taken(h.pc)
    BY <1>1 DEF FanInInv, FetchesOK, PeerHandler, Talking, Handler, HandlerPC, Taken
  <1>3. handler' = [handler EXCEPT ![n] = h]
    BY DEF CommitOwnLogs
  <1> HIDE DEF h
  <1>4. HandlersOK'
    BY <1>1, <1>2, <1>3, TakenGoes DEF CommitOwnLogs, FanInInv
  <1> QED
    BY <1>4, CommitKeepsRows, SameFetches DEF CommitOwnLogs, FanInInv

LEMMA NextPeerKeeps ==
    ASSUME FanInInv, NEW n \in FanNode, FanInLocalDataFromPeersSync(n)
    PROVE  FanInInv'
  <1>1. handler[n] \in PeerHandler /\ Taken(handler[n].pc)
    BY DEF FanInLocalDataFromPeersSync, FanInInv, HandlersOK, Taken
  <1>2. HandlersOK'
    <2>1. CASE handler[n].todo = {}
      BY <1>1, <2>1, GotoTaken DEF FanInLocalDataFromPeersSync, FanInInv, HandlerPC, Taken, Talking
    <2>2. CASE handler[n].todo # {}
      <3>1. PICK m \in handler[n].todo :
               handler' = [handler EXCEPT ![n].pc = "phase1", ![n].peer = m, ![n].todo = @ \ {m}]
        BY <2>2 DEF FanInLocalDataFromPeersSync
      <3> DEFINE h == [handler[n] EXCEPT !.pc = "phase1", !.peer = m, !.todo = @ \ {m}]
      <3>2. h \in PeerHandler /\ Taken(h.pc)
        BY <1>1 DEF PeerHandler, Talking, Handler, HandlerPC, Taken
      <3>3. handler' = [handler EXCEPT ![n] = h]
        BY <3>1
      <3> HIDE DEF h
      <3> QED
        BY <1>1, <3>2, <3>3, TakenGoes DEF FanInLocalDataFromPeersSync, FanInInv
    <2> QED
      BY <2>1, <2>2
  <1>3. FetchesOK'
    BY DEF FanInLocalDataFromPeersSync, FanInInv, FetchesOK, raftVars
  <1> QED
    BY <1>2, <1>3, SameRows DEF FanInLocalDataFromPeersSync, FanInInv

LEMMA PeerOfHandler ==
    ASSUME FanInInv, NEW n \in FanNode, handler[n].pc \in Talking
    PROVE  handler[n].peer \in FanNode /\ Taken(handler[n].pc) /\ handler[n].data \in SUBSET ExecutionLog
  BY DEF FanInInv, HandlersOK, PeerHandler, Handler, Talking, Taken

LEMMA Phase1Keeps ==
    ASSUME FanInInv, NEW n \in FanNode, Phase1(n)
    PROVE  FanInInv'
  <1>1. handler[n].peer \in FanNode /\ Taken(handler[n].pc)
    BY PeerOfHandler DEF Phase1, Talking
  <1>2. HandlersOK'
    BY <1>1, GotoTaken DEF Phase1, FanInInv, HandlerPC, Taken
  <1>3. FetchesOK'
    BY <1>1, FanInSet, FanInStates DEF Phase1, FanInInv, raftVars
  <1> QED
    BY <1>2, <1>3, SameRows DEF Phase1, FanInInv

LEMMA PhaseFailsKeeps ==
    ASSUME FanInInv, NEW n \in FanNode, PhaseFails(n)
    PROVE  FanInInv'
  <1>1. handler[n].peer \in FanNode /\ Taken(handler[n].pc)
    BY PeerOfHandler DEF PhaseFails, PhaseTimesOut, Talking
  <1>2. HandlersOK'
    BY <1>1, GotoTaken DEF PhaseFails, FanInInv, HandlerPC, Taken
  <1>3. FetchesOK'
    BY <1>1, FanInSet, FanInStates DEF PhaseFails, FanInInv, raftVars
  <1> QED
    BY <1>2, <1>3, SameRows DEF PhaseFails, FanInInv

LEMMA Phase2Keeps ==
    ASSUME FanInInv, NEW n \in FanNode, Phase2(n)
    PROVE  FanInInv'
  <1> DEFINE m == handler[n].peer
  <1>1. m \in FanNode /\ Taken(handler[n].pc)
    BY PeerOfHandler DEF Phase2, Talking
  <1>2. PICK rows \in Answers(n, m) :
            /\ handler' = [handler EXCEPT ![n].pc = "commitPeer", ![n].data = rows]
            /\ SetFanIn(n, m, [state |-> "logs", data |-> rows])
    BY DEF Phase2
  <1>3. rows \in SUBSET ExecutionLog
    <2>1. Logs(uncommitted[m]) \in SUBSET ExecutionLog
      BY <1>1, LogsType DEF FanInInv, RowsOK
    <2>2. fanIns[n][m].data \in SUBSET ExecutionLog
      BY <1>1 DEF FanInInv, FetchesOK, PeerFanIn
    <2> QED
      BY <2>1, <2>2 DEF Answers
  <1> DEFINE h == [handler[n] EXCEPT !.pc = "commitPeer", !.data = rows]
  <1>4. h \in PeerHandler /\ Taken(h.pc)
    <2>1. handler[n] \in Handler
      BY DEF FanInInv, HandlersOK, PeerHandler
    <2>2. h \in Handler
      BY <1>3, <2>1 DEF Handler, HandlerPC
    <2>3. h.pc = "commitPeer" /\ h.peer = m
      BY <2>1 DEF Handler
    <2> QED
      BY <1>1, <2>2, <2>3 DEF PeerHandler, Talking, Taken
  <1>5. handler' = [handler EXCEPT ![n] = h]
    BY <1>2
  <1> HIDE DEF h
  <1>6. HandlersOK'
    BY <1>1, <1>4, <1>5, TakenGoes DEF Phase2, FanInInv
  <1>7. [state |-> "logs", data |-> rows] \in PeerFanIn
    BY <1>3, FanInStates
  <1>8. FetchesOK'
    BY <1>1, <1>2, <1>7, FanInSet DEF Phase2, FanInInv, raftVars
  <1> QED
    BY <1>6, <1>8, SameRows DEF Phase2, FanInInv

LEMMA CommitFetchedKeeps ==
    ASSUME FanInInv, NEW n \in FanNode, CommitFetchedUnCommittedLogs(n)
    PROVE  FanInInv'
  <1>1. handler[n].peer \in FanNode /\ Taken(handler[n].pc)
    BY PeerOfHandler DEF CommitFetchedUnCommittedLogs, Talking
  <1>2. HandlersOK'
    BY <1>1, GotoTaken DEF CommitFetchedUnCommittedLogs, FanInInv, HandlerPC, Taken
  <1>3. FetchesOK'
    BY <1>1, FanInSet, FanInStates DEF CommitFetchedUnCommittedLogs, FanInInv, raftVars
  <1> QED
    BY <1>2, <1>3, CommitKeepsRows DEF CommitFetchedUnCommittedLogs, FanInInv

LEMMA StartJobsKeeps ==
    ASSUME FanInInv, NEW n \in FanNode, StartJobsOnWorkerNodes(n)
    PROVE  FanInInv'
  <1>1. HandlersOK'
    BY DEF StartJobsOnWorkerNodes, FanInInv, HandlersOK, AcceptingIsSettled, Taken
  <1> QED
    BY <1>1, SameRows, SameFetches DEF StartJobsOnWorkerNodes, FanInInv

-----------------------------------------------------------------------------
(* The periodic fan-in works on copies of what the node knows.             *)

LEMMA TickKeeps ==
    ASSUME FanInInv, NEW n \in FanNode, FanInLocalDataFromPeers(n)
    PROVE  FanInInv'
  <1> DEFINE new == SelectedPeers(n)
             data == [m \in FanNode |-> fanIns[n][m].data]
             started(state) == InPhase(n, state) \cup (IF state = "notStarted" THEN new ELSE {})
             starts == {[phase |-> s, todo |-> started(s), data |-> data] :
                           s \in {t \in {"notStarted", "requestId", "logs"} : started(t) # {}}}
             known == [m \in FanNode |->
                         IF m \in new THEN [state |-> "notStarted", data |-> {}] ELSE fanIns[n][m]]
  <1>1. fanIns[n] \in [FanNode -> PeerFanIn] /\ data \in [FanNode -> SUBSET ExecutionLog]
    BY DEF FanInInv, FetchesOK, PeerFanIn
  <1>2. known \in [FanNode -> PeerFanIn]
    BY <1>1, FanInStates
  <1>3. \A s : started(s) \in SUBSET FanNode
    BY DEF SelectedPeers, InPhase, FanInInv, FetchesOK
  <1>4. fanIns' = [fanIns EXCEPT ![n] = known] /\ fetches' = [fetches EXCEPT ![n] = @ \cup starts]
    BY DEF FanInLocalDataFromPeers, FanInInv, FetchesOK
  <1> HIDE DEF known, data, started
  <1>5. starts \subseteq Fetch
    BY <1>1, <1>3 DEF Fetch
  <1> HIDE DEF starts
  <1>6. FetchesOK'
    BY <1>2, <1>4, <1>5 DEF FanInLocalDataFromPeers, FanInInv, FetchesOK, raftVars
  <1> QED
    BY <1>6, SameRows, SameHandlers DEF FanInLocalDataFromPeers, FanInInv

LEMMA ReplaceFetchKeeps ==
    ASSUME FetchesOK, NEW n \in FanNode, NEW f \in Fetch, NEW s \in SUBSET Fetch, ReplaceFetch(n, f, s),
           UNCHANGED <<members, latest>>, fanIns' \in [FanNode -> [FanNode -> PeerFanIn]]
    PROVE  FetchesOK'
  BY DEF FetchesOK, ReplaceFetch

LEMMA WithoutType ==
    ASSUME NEW f \in Fetch, NEW m
    PROVE  Without(f, m) \in SUBSET Fetch
  BY DEF Without, Fetch

LEMMA FetchKeeps ==
    ASSUME FanInInv, NEW n \in FanNode, FetchProceeds(n)
    PROVE  FanInInv'
  <1>1. PICK f \in fetches[n] :
          \/ FetchFails(n, f)
          \/ \E m \in f.todo : \/ FetchUncommittedLogsFromPeersPhase1(n, f, m)
                               \/ FetchUncommittedLogsFromPeersPhase2(n, f, m)
                               \/ FetchCommit(n, f, m)
    BY DEF FetchProceeds
  <1>2. f \in Fetch
    BY DEF FanInInv, FetchesOK
  <1>3. UNCHANGED <<members, latest>> /\ HandlersOK'
    BY SameHandlers DEF FetchProceeds, raftVars, FanInInv
  <1>4. ASSUME NEW m \in FanNode, NEW g \in PeerFanIn, SetFanIn(n, m, g)
        PROVE  fanIns' \in [FanNode -> [FanNode -> PeerFanIn]]
    BY <1>4 DEF SetFanIn, FanInInv, FetchesOK
  <1>5. CASE FetchFails(n, f)
    <2>1. FetchesOK'
      BY <1>2, <1>3, <1>5, ReplaceFetchKeeps DEF FetchFails, FanInInv, FetchesOK
    <2> QED
      BY <1>3, <1>5, <2>1, SameRows DEF FetchFails, FanInInv
  <1>6. ASSUME NEW m \in f.todo, FetchUncommittedLogsFromPeersPhase1(n, f, m)
        PROVE  FanInInv'
    <2>1. m \in FanNode
      BY <1>2 DEF Fetch
    <2>2. fanIns' \in [FanNode -> [FanNode -> PeerFanIn]]
      BY <1>4, <1>6, <2>1, FanInStates DEF FetchUncommittedLogsFromPeersPhase1
    <2>3. FetchesOK'
      BY <1>2, <1>3, <1>6, <2>2, WithoutType, ReplaceFetchKeeps
      DEF FetchUncommittedLogsFromPeersPhase1, FanInInv
    <2> QED
      BY <1>3, <1>6, <2>3, SameRows DEF FetchUncommittedLogsFromPeersPhase1, FanInInv
  <1>7. ASSUME NEW m \in f.todo, FetchUncommittedLogsFromPeersPhase2(n, f, m)
        PROVE  FanInInv'
    <2>1. m \in FanNode
      BY <1>2 DEF Fetch
    <2>2. Logs(uncommitted[m]) \in SUBSET ExecutionLog
      BY <2>1, LogsType DEF FanInInv, RowsOK
    <2>3. [state |-> "logs", data |-> Logs(uncommitted[m])] \in PeerFanIn
      BY <2>2, FanInStates
    <2>4. fanIns' \in [FanNode -> [FanNode -> PeerFanIn]]
      BY <1>4, <1>7, <2>1, <2>3 DEF FetchUncommittedLogsFromPeersPhase2
    <2>5. FetchesOK'
      BY <1>2, <1>3, <1>7, <2>4, WithoutType, ReplaceFetchKeeps
      DEF FetchUncommittedLogsFromPeersPhase2, FanInInv
    <2> QED
      BY <1>3, <1>7, <2>5, SameRows DEF FetchUncommittedLogsFromPeersPhase2, FanInInv
  <1>8. ASSUME NEW m \in f.todo, FetchCommit(n, f, m)
        PROVE  FanInInv'
    <2>1. m \in FanNode
      BY <1>2 DEF Fetch
    <2>2. fanIns' \in [FanNode -> [FanNode -> PeerFanIn]]
      BY <1>4, <1>8, <2>1, FanInStates DEF FetchCommit
    <2>3. FetchesOK'
      BY <1>2, <1>3, <1>8, <2>2, ReplaceFetchKeeps DEF FetchCommit, FanInInv
    <2> QED
      BY <1>3, <1>8, <2>3, CommitKeepsRows DEF FetchCommit, FanInInv
  <1> QED
    BY <1>1, <1>5, <1>6, <1>7, <1>8

-----------------------------------------------------------------------------
LEMMA FanInNextKeeps ==
    ASSUME FanInInv, FanInNext
    PROVE  FanInInv'
  <1>1. ASSUME NEW n \in FanNode, HandlerProceeds(n) \/ PeerAnswers(n)
        PROVE  FanInInv'
    BY <1>1, HandleKeeps, StopAllKeeps, CommitOwnKeeps, NextPeerKeeps, PhaseFailsKeeps,
       CommitFetchedKeeps, BeginKeeps, Phase1Keeps, Phase2Keeps
    DEF HandlerProceeds, PeerAnswers
  <1> QED
    BY <1>1, RaftKeeps, ListenKeeps, StartJobsKeeps, TickKeeps, FetchKeeps, CleanUpKeeps,
       LogExecutionKeeps
    DEF FanInNext

LEMMA FanInInitHolds == FanInInit => FanInInv
  BY DEF FanInInit, FanInInv, HandlersOK, FetchesOK, RowsOK, PeerHandler, Talking, Handler, HandlerPC,
         NoHandler, PeerFanIn, PeerFanInState, NoFanIn, Taken, AcceptingIsSettled, FollowerKeepsRows, Logs

(* Whatever elections, fan-ins and clean-ups interleave, a handler past the *)
(* stop of the workers has told the services of its node that it leads, and *)
(* a node deletes rows only after it has committed some (raft_cluster.go:   *)
(* 644-710, executor.go:729-757).                                           *)
THEOREM FanInInvariant == FanInSpec => []FanInInv
  <1>1. FanInInv /\ UNCHANGED fanInVars => FanInInv'
    BY DEF fanInVars, FanInInv, HandlersOK, FetchesOK, RowsOK, Taken, AcceptingIsSettled,
           FollowerKeepsRows, Logs
  <1>2. FanInInv /\ [FanInNext]_fanInVars => FanInInv'
    BY <1>1, FanInNextKeeps
  <1> QED
    BY <1>2, FanInInitHolds, PTL DEF FanInSpec

(* A node accepts writes of clients only once its services know that it is *)
(* leader, and never while it takes over or hands over (raft_cluster.go:   *)
(* 644-710), for any nodes and elections.                                  *)
THEOREM WritesAcceptedBySettledLeaders == FanInSpec => []AcceptingIsSettled
  <1>1. FanInInv => AcceptingIsSettled
    BY DEF FanInInv, HandlersOK
  <1> QED
    BY <1>1, FanInInvariant, PTL

(* However often leaders fetch and commit the rows of a node that commits  *)
(* none itself, and fail between the two, the rows are all there           *)
(* (peer_communication.go:553-570, executor.go:729-757).                   *)
THEOREM FollowersLoseNoRows == FanInSpec => []FollowerKeepsRows
  <1>1. FanInInv => FollowerKeepsRows
    BY DEF FanInInv, RowsOK
  <1> QED
    BY <1>1, FanInInvariant, PTL

-----------------------------------------------------------------------------
(* Async tasks.                                                            *)

(* As long as one of the tables is empty, a number names one row.           *)
OneTable == committedTasks = <<>> \/ uncommittedTasks = <<>>
RowIn(main, own, number, q) ==
    /\ number \in DOMAIN main \cup DOMAIN own
    /\ number \in DOMAIN main => main[number].req = q
    /\ number \in DOMAIN own => own[number].req = q

TasksTyped ==
    /\ committedTasks \in Seq(TaskRow) /\ uncommittedTasks \in Seq(TaskRow)
    /\ works \in [TaskRequest -> Work] /\ taskIds \in [TaskRequest -> Nat]
    /\ jobsCreated \in [TaskRequest -> Nat] /\ readers \in [TaskReader -> Reader]
    /\ notifications \subseteq Notification /\ taskOver \subseteq TaskRow
    /\ listener \in [note : Notification \cup {NoNotification}, calls : SUBSET TaskReader]
    /\ subscribers \subseteq Nat \X TaskReader
    /\ uncommittedTasks # <<>> => \E q \in TaskRequest : works[q].id # 0

(* Whatever names a task by a number is about the request of its row.       *)
AtWork == {"adding", "queued", "running", "worked"}
WorksKnown ==
    \A q \in TaskRequest : /\ works[q].pc \in AtWork => works[q].id # 0
                           /\ works[q].id # 0 => RowIn(committedTasks, uncommittedTasks, works[q].id, q)
IdsKnown == \A q \in TaskRequest : taskIds[q] # 0 =>
      RowIn(committedTasks, uncommittedTasks, taskIds[q], q)
NotesKnown == \A note \in notifications : RowIn(committedTasks, uncommittedTasks, note.id, note.req)
ReadersKnown ==
    \A c \in TaskReader :
        readers[c].pc \in {"look", "subscribe", "wait"} =>
              RowIn(committedTasks, uncommittedTasks, readers[c].id, readers[c].for)

(* Whom the listener calls waits for the task it is busy with.              *)
SubscribersKnown ==
    /\ \A s \in subscribers : readers[s[2]].id = s[1] /\ readers[s[2]].pc # "new"
    /\ \A c \in listener.calls :
          /\ readers[c].id = listener.note.id /\ readers[c].pc # "new"
          /\ RowIn(committedTasks, uncommittedTasks, listener.note.id, listener.note.req)
AnswersRight ==
    \A c \in TaskReader : readers[c].pc = "answered" => readers[c].answer.req = readers[c].for

(* The row of a task ends with its work, and the work creates jobs once.    *)
Told(allWorks, created, q, state) ==
    /\ allWorks[q].pc # "none"
    /\ state \in Ended => allWorks[q].pc = "ended"
    /\ q \in CreateJob /\ state = "success" => created[q] = 1
    /\ q \in CreateJob /\ state = "fail" => created[q] = 0
RowsTold ==
    /\ \A i \in DOMAIN committedTasks : Told(works, jobsCreated, committedTasks[i].req, committedTasks[i].state)
    /\ \A i \in DOMAIN uncommittedTasks : Told(works, jobsCreated, uncommittedTasks[i].req, uncommittedTasks[i].state)
JobsCounted ==
    \A q \in CreateJob :
        /\ works[q].pc \in {"none", "adding", "queued", "running"} => jobsCreated[q] = 0
        /\ works[q].pc = "worked" => jobsCreated[q] = 1

TasksTold ==
    /\ taskOver = {}
    /\ WorksKnown /\ IdsKnown /\ NotesKnown /\ ReadersKnown /\ SubscribersKnown
    /\ AnswersRight /\ RowsTold /\ JobsCounted

TasksInv == TasksTyped /\ (OneTable => TasksTold)

-----------------------------------------------------------------------------
(* Tables grow, and keep the requests of their rows.                        *)

TableGrows(old, new) ==
    /\ new \in Seq(TaskRow) /\ DOMAIN old \subseteq DOMAIN new
    /\ \A i \in DOMAIN old : new[i].req = old[i].req
TableKept(old, new, id, state) ==
    /\ TableGrows(old, new) /\ DOMAIN new = DOMAIN old
    /\ \A i \in DOMAIN old : new[i].state = old[i].state \/ (i = id /\ new[i].state = state)

LEMMA UpdatedKept ==
    ASSUME NEW table \in Seq(TaskRow), NEW id, NEW state \in TaskState
    PROVE  TableKept(table, Updated(table, id, state), id, state) /\ TableKept(table, table, id, state)
  <1>1. CASE id \in DOMAIN table
    <2> DEFINE new == [table EXCEPT ![id].state = state]
    <2>1. new \in Seq(TaskRow) /\ DOMAIN new = DOMAIN table
      <3>1. table[id] \in TaskRow /\ id \in 1 .. Len(table)
        BY <1>1
      <3>2. [table[id] EXCEPT !.state = state] \in TaskRow
        BY <3>1 DEF TaskRow
      <3> QED
        BY <3>1, <3>2, ExceptSeq
    <2>2. \A i \in DOMAIN table : new[i] = IF i = id THEN [table[id] EXCEPT !.state = state] ELSE table[i]
      BY <1>1
    <2>3. \A i \in DOMAIN table : table[i] \in TaskRow
      OBVIOUS
    <2> HIDE DEF new
    <2>4. \A i \in DOMAIN table : new[i].req = table[i].req
                                  /\ (new[i].state = table[i].state \/ (i = id /\ new[i].state = state))
      BY <2>2, <2>3 DEF TaskRow
    <2> QED
      BY <1>1, <2>1, <2>4 DEF Updated, TableKept, TableGrows, new
  <1>2. CASE id \notin DOMAIN table
    BY <1>2 DEF Updated, TableKept, TableGrows
  <1> QED
    BY <1>1, <1>2 DEF TableKept, TableGrows

LEMMA RowsAppended ==
    ASSUME NEW table \in Seq(TaskRow), NEW rows \in Seq(TaskRow)
    PROVE  /\ TableGrows(table, table \o rows)
           /\ \A i \in DOMAIN (table \o rows) :
                 \/ i \in DOMAIN table /\ (table \o rows)[i] = table[i]
                 \/ \E k \in DOMAIN rows : i = Len(table) + k /\ (table \o rows)[i] = rows[k]
  <1>1. table \o rows \in Seq(TaskRow) /\ Len(table \o rows) = Len(table) + Len(rows)
    BY ConcatProperties
  <1>2. \A i \in 1 .. Len(table) + Len(rows) :
            (table \o rows)[i] = IF i <= Len(table) THEN table[i] ELSE rows[i - Len(table)]
    BY ConcatProperties
  <1>3. ASSUME NEW i \in DOMAIN (table \o rows)
        PROVE  \/ i \in DOMAIN table /\ (table \o rows)[i] = table[i]
               \/ \E k \in DOMAIN rows : i = Len(table) + k /\ (table \o rows)[i] = rows[k]
    <2>1. i \in 1 .. Len(table) + Len(rows) /\ Len(table) \in Nat /\ Len(rows) \in Nat
      BY <1>1
    <2>2. CASE i <= Len(table)
      BY <1>2, <2>1, <2>2
    <2>3. CASE ~(i <= Len(table))
      <3>1. i - Len(table) \in 1 .. Len(rows) /\ i = Len(table) + (i - Len(table))
        BY <2>1, <2>3
      <3> QED
        BY <1>2, <2>1, <2>3, <3>1
    <2> QED
      BY <2>2, <2>3
  <1>4. DOMAIN table \subseteq DOMAIN (table \o rows) /\ \A i \in DOMAIN table : (table \o rows)[i] = table[i]
    BY <1>1, <1>2
  <1> QED
    BY <1>1, <1>3, <1>4 DEF TableGrows

(* What a number names stays, as long as one table is empty.                *)
LEMMA NumbersGrow ==
    ASSUME TasksTyped, TableGrows(committedTasks, committedTasks'),
           TableGrows(uncommittedTasks, uncommittedTasks'), OneTable'
    PROVE  OneTable /\ \A id, q : RowIn(committedTasks, uncommittedTasks, id, q) =>
                             RowIn(committedTasks', uncommittedTasks', id, q)
  <1>1. /\ committedTasks \in Seq(TaskRow) /\ uncommittedTasks \in Seq(TaskRow)
        /\ committedTasks' \in Seq(TaskRow) /\ uncommittedTasks' \in Seq(TaskRow)
    BY DEF TasksTyped, TableGrows
  <1>2. /\ committedTasks = <<>> <=> DOMAIN committedTasks = {}
        /\ uncommittedTasks = <<>> <=> DOMAIN uncommittedTasks = {}
        /\ committedTasks' = <<>> => DOMAIN committedTasks' = {}
        /\ uncommittedTasks' = <<>> => DOMAIN uncommittedTasks' = {}
    BY <1>1
  <1> QED
    BY <1>2 DEF OneTable, RowIn, TableGrows

(* The steps that write no table.                                           *)
LEMMA TablesSame ==
    ASSUME TasksTyped, UNCHANGED taskTables, NEW id, NEW state
    PROVE  /\ TableKept(committedTasks, committedTasks', id, state)
           /\ TableKept(uncommittedTasks, uncommittedTasks', id, state)
  BY DEF TasksTyped, taskTables, TableKept, TableGrows

LEMMA TaskUpdated ==
    ASSUME TasksTyped, NEW q \in TaskRequest, NEW id \in Nat, NEW state \in TaskState, UpdateTask(q, id, state)
    PROVE  /\ TableKept(committedTasks, committedTasks', id, state)
           /\ TableKept(uncommittedTasks, uncommittedTasks', id, state)
           /\ notifications' = notifications \cup {[id |-> id, req |-> q, state |-> state]}
           /\ notifications' \subseteq Notification
  <1>1. committedTasks \in Seq(TaskRow) /\ uncommittedTasks \in Seq(TaskRow) /\ notifications \subseteq Notification
    BY DEF TasksTyped
  <1>2. /\ committedTasks' = committedTasks \/ committedTasks' = Updated(committedTasks, id, state)
        /\ uncommittedTasks' = uncommittedTasks \/ uncommittedTasks' = Updated(uncommittedTasks, id, state)
    BY DEF UpdateTask, UpdateTaskState
  <1>3. notifications' = notifications \cup {[id |-> id, req |-> q, state |-> state]}
    BY DEF UpdateTask
  <1>4. [id |-> id, req |-> q, state |-> state] \in Notification
    BY DEF Notification
  <1> QED
    BY <1>1, <1>2, <1>3, <1>4, UpdatedKept

LEMMA NewTaskIsRow ==
    ASSUME NEW q \in TaskRequest
    PROVE  NewTask(q) \in TaskRow /\ NewTask(q).req = q /\ NewTask(q).state = "notStarted"
  BY DEF NewTask, TaskRow, TaskState

-----------------------------------------------------------------------------
(* The parts of the invariant that a step leaves alone.                     *)

NumbersKept == \A id, q : RowIn(committedTasks, uncommittedTasks, id, q) =>
      RowIn(committedTasks', uncommittedTasks', id, q)

LEMMA WorksSame == ASSUME NumbersKept, WorksKnown, UNCHANGED works PROVE WorksKnown'
  BY DEF NumbersKept, WorksKnown

LEMMA IdsSame == ASSUME NumbersKept, IdsKnown, UNCHANGED taskIds PROVE IdsKnown'
  BY DEF NumbersKept, IdsKnown

LEMMA NotesSame == ASSUME NumbersKept, NotesKnown, notifications' \subseteq notifications PROVE NotesKnown'
  BY DEF NumbersKept, NotesKnown

LEMMA ReadersSame ==
    ASSUME NumbersKept, ReadersKnown, AnswersRight, UNCHANGED readers
    PROVE  ReadersKnown' /\ AnswersRight'
  BY DEF NumbersKept, ReadersKnown, AnswersRight

LEMMA SubscribersSame ==
    ASSUME NumbersKept, SubscribersKnown, UNCHANGED <<readers, subscribers, listener>>
    PROVE  SubscribersKnown'
  BY DEF NumbersKept, SubscribersKnown

(* One row may get a state, if it is one that may be told of its request.   *)
LEMMA RowsToldKept ==
    ASSUME TasksTyped, RowsTold, NEW id, NEW state,
           TableKept(committedTasks, committedTasks', id, state),
           TableKept(uncommittedTasks, uncommittedTasks', id, state),
           \A q \in TaskRequest, s \in TaskState :
               Told(works, jobsCreated, q, s) => Told(works', jobsCreated', q, s),
           \A q \in TaskRequest : RowIn(committedTasks, uncommittedTasks, id, q) =>
                 Told(works', jobsCreated', q, state), OneTable
    PROVE  RowsTold'
  <1>1. ASSUME NEW i \in DOMAIN committedTasks'
        PROVE  Told(works', jobsCreated', committedTasks'[i].req, committedTasks'[i].state)
    <2>1. i \in DOMAIN committedTasks /\ committedTasks'[i].req = committedTasks[i].req
          /\ (committedTasks'[i].state = committedTasks[i].state \/ (i = id /\ committedTasks'[i].state = state))
      BY <1>1 DEF TableKept, TableGrows
    <2>2. committedTasks[i] \in TaskRow
      BY <2>1 DEF TasksTyped
    <2>3. committedTasks[i].req \in TaskRequest /\ committedTasks[i].state \in TaskState
      BY <2>2 DEF TaskRow
    <2>4. Told(works, jobsCreated, committedTasks[i].req, committedTasks[i].state)
      BY <2>1 DEF RowsTold
    <2>5. i = id => RowIn(committedTasks, uncommittedTasks, id, committedTasks[i].req)
      BY <2>1 DEF RowIn, OneTable
    <2> QED
      BY <2>1, <2>3, <2>4, <2>5
  <1>2. ASSUME NEW i \in DOMAIN uncommittedTasks'
        PROVE  Told(works', jobsCreated', uncommittedTasks'[i].req, uncommittedTasks'[i].state)
    <2>1. i \in DOMAIN uncommittedTasks /\ uncommittedTasks'[i].req = uncommittedTasks[i].req
          /\ (uncommittedTasks'[i].state = uncommittedTasks[i].state \/ (i = id /\ uncommittedTasks'[i].state = state))
      BY <1>2 DEF TableKept, TableGrows
    <2>2. uncommittedTasks[i] \in TaskRow
      BY <2>1 DEF TasksTyped
    <2>3. uncommittedTasks[i].req \in TaskRequest /\ uncommittedTasks[i].state \in TaskState
      BY <2>2 DEF TaskRow
    <2>4. Told(works, jobsCreated, uncommittedTasks[i].req, uncommittedTasks[i].state)
      BY <2>1 DEF RowsTold
    <2>5. i = id => RowIn(committedTasks, uncommittedTasks, id, uncommittedTasks[i].req)
      BY <2>1 DEF RowIn, OneTable
    <2> QED
      BY <2>1, <2>3, <2>4, <2>5
  <1> QED
    BY <1>1, <1>2 DEF RowsTold

(* Steps that write no table, no work and create no jobs.                   *)
LEMMA RowsSame ==
    ASSUME TasksTyped, RowsTold, JobsCounted, UNCHANGED <<taskTables, works, jobsCreated>>
    PROVE  RowsTold' /\ JobsCounted'
  BY DEF RowsTold, Told, JobsCounted, taskTables

LEMMA TablesUnchanged ==
    ASSUME TasksTyped, UNCHANGED taskTables
    PROVE  OneTable' = OneTable /\ NumbersKept
  BY DEF taskTables, OneTable, NumbersKept, RowIn

LEMMA NumbersAfterUpdate ==
    ASSUME TasksTyped, NEW id, NEW state, OneTable',
           TableKept(committedTasks, committedTasks', id, state),
           TableKept(uncommittedTasks, uncommittedTasks', id, state)
    PROVE  OneTable /\ NumbersKept
  BY NumbersGrow DEF TableKept, NumbersKept

-----------------------------------------------------------------------------
(* Rows are added.                                                         *)

(* Each row of the tables is an old one, or a new one that may be told.     *)
LEMMA RowsToldGrown ==
    ASSUME TasksTyped, RowsTold,
           \A q \in TaskRequest, s \in TaskState :
               Told(works, jobsCreated, q, s) => Told(works', jobsCreated', q, s),
           NEW rows \in Seq(TaskRow), NEW more \in Seq(TaskRow),
           \A k \in DOMAIN rows : Told(works', jobsCreated', rows[k].req, rows[k].state),
           \A k \in DOMAIN more : Told(works', jobsCreated', more[k].req, more[k].state),
           committedTasks' = committedTasks \o rows, uncommittedTasks' = uncommittedTasks \o more
    PROVE  RowsTold'
  <1>1. ASSUME NEW i \in DOMAIN committedTasks'
        PROVE  Told(works', jobsCreated', committedTasks'[i].req, committedTasks'[i].state)
    <2>1. \/ i \in DOMAIN committedTasks /\ committedTasks'[i] = committedTasks[i]
          \/ \E k \in DOMAIN rows : committedTasks'[i] = rows[k]
      BY <1>1, RowsAppended DEF TasksTyped
    <2>2. ASSUME i \in DOMAIN committedTasks
          PROVE  Told(works', jobsCreated', committedTasks[i].req, committedTasks[i].state)
      <3>1. committedTasks[i] \in TaskRow
        BY <2>2 DEF TasksTyped
      <3> QED
        BY <2>2, <3>1 DEF RowsTold, TaskRow
    <2> QED
      BY <2>1, <2>2
  <1>2. ASSUME NEW i \in DOMAIN uncommittedTasks'
        PROVE  Told(works', jobsCreated', uncommittedTasks'[i].req, uncommittedTasks'[i].state)
    <2>1. \/ i \in DOMAIN uncommittedTasks /\ uncommittedTasks'[i] = uncommittedTasks[i]
          \/ \E k \in DOMAIN more : uncommittedTasks'[i] = more[k]
      BY <1>2, RowsAppended DEF TasksTyped
    <2>2. ASSUME i \in DOMAIN uncommittedTasks
          PROVE  Told(works', jobsCreated', uncommittedTasks[i].req, uncommittedTasks[i].state)
      <3>1. uncommittedTasks[i] \in TaskRow
        BY <2>2 DEF TasksTyped
      <3> QED
        BY <2>2, <3>1 DEF RowsTold, TaskRow
    <2> QED
      BY <2>1, <2>2
  <1> QED
    BY <1>1, <1>2 DEF RowsTold

LEMMA EmptyAppended ==
    ASSUME NEW table \in Seq(TaskRow)
    PROVE  table \o <<>> = table /\ <<>> \in Seq(TaskRow)
  BY ConcatEmptySeq

(* A row is added to one of the tables, under the next number of it.        *)
AddsRow(table, q) == table' = table \o <<NewTask(q)>>

LEMMA RowAdded ==
    ASSUME TasksTyped, NEW q \in TaskRequest,
           \/ AddsRow(committedTasks, q) /\ UNCHANGED uncommittedTasks
           \/ AddsRow(uncommittedTasks, q) /\ UNCHANGED committedTasks
    PROVE  /\ committedTasks' \in Seq(TaskRow) /\ uncommittedTasks' \in Seq(TaskRow)
           /\ OneTable' => OneTable /\ NumbersKept
           /\ OneTable' /\ AddsRow(committedTasks, q) =>
                    RowIn(committedTasks', uncommittedTasks', NextId(committedTasks), q)
           /\ OneTable' /\ AddsRow(uncommittedTasks, q) =>
                    RowIn(committedTasks', uncommittedTasks', NextId(uncommittedTasks), q)
           /\ NextId(committedTasks) \in Nat \ {0} /\ NextId(uncommittedTasks) \in Nat \ {0}
  <1>1. committedTasks \in Seq(TaskRow) /\ uncommittedTasks \in Seq(TaskRow) /\ <<NewTask(q)>> \in Seq(TaskRow)
    BY NewTaskIsRow DEF TasksTyped
  <1>2. TableGrows(committedTasks, committedTasks') /\ TableGrows(uncommittedTasks, uncommittedTasks')
    <2>1. ASSUME NEW table \in Seq(TaskRow)
          PROVE  TableGrows(table, table) /\ TableGrows(table, table \o <<NewTask(q)>>)
      BY <1>1, RowsAppended DEF TableGrows
    <2> QED
      BY <1>1, <2>1 DEF AddsRow
  <1>3. OneTable' => OneTable /\ NumbersKept
    BY <1>2, NumbersGrow DEF NumbersKept
  <1>4. NextId(committedTasks) \in Nat \ {0} /\ NextId(uncommittedTasks) \in Nat \ {0}
    BY <1>1 DEF NextId
  <1>5. ASSUME NEW table \in Seq(TaskRow), NEW new, new = table \o <<NewTask(q)>>
        PROVE  Len(table) + 1 \in DOMAIN new /\ new[Len(table) + 1].req = q
    <2>1. Len(new) = Len(table) + 1 /\ new[Len(table) + 1] = NewTask(q) /\ new \in Seq(TaskRow)
      BY <1>1, <1>5, ConcatProperties
    <2> QED
      BY <2>1, NewTaskIsRow
  <1>6. \A table \in Seq(TaskRow) : table # <<>> <=> DOMAIN table # {}
    OBVIOUS
  <1>7. /\ AddsRow(committedTasks, q) =>
             NextId(committedTasks) \in DOMAIN committedTasks' /\ committedTasks'[NextId(committedTasks)].req = q
        /\ AddsRow(uncommittedTasks, q) =>
             NextId(uncommittedTasks) \in DOMAIN uncommittedTasks' /\ uncommittedTasks'[NextId(uncommittedTasks)].req = q
    BY <1>1, <1>5 DEF AddsRow, NextId
  <1>8. committedTasks' \in Seq(TaskRow) /\ uncommittedTasks' \in Seq(TaskRow)
    BY <1>2 DEF TableGrows
  <1>9. ASSUME NEW id, OneTable',
               \/ id \in DOMAIN committedTasks' /\ committedTasks'[id].req = q
               \/ id \in DOMAIN uncommittedTasks' /\ uncommittedTasks'[id].req = q
        PROVE  RowIn(committedTasks', uncommittedTasks', id, q)
    BY <1>6, <1>8, <1>9 DEF RowIn, OneTable
  <1> QED
    BY <1>3, <1>4, <1>7, <1>8, <1>9

LEMMA AddTasksKeeps ==
    ASSUME TasksInv, NEW q \in TaskRequest, AddTasks(q)
    PROVE  TasksInv'
  <1> DEFINE id == NextId(IF taskMode = "follower" THEN uncommittedTasks ELSE committedTasks)
  <1>1. /\ works[q].pc = "none"
        /\ works' = [works EXCEPT ![q] = [pc |-> "adding", id |-> id]]
        /\ UNCHANGED <<taskIds, subscribers, notifications, listener, taskOver, jobsCreated, readers>>
    BY DEF AddTasks, taskMemory
  <1>2. TasksTyped
    BY DEF TasksInv
  <1>3. IF taskMode = "follower" THEN AddsRow(uncommittedTasks, q) /\ UNCHANGED committedTasks
        ELSE AddsRow(committedTasks, q) /\ UNCHANGED uncommittedTasks
    BY DEF AddTasks, BatchInsert, RaftBatchInsert, AddsRow
  <1>4. /\ committedTasks' \in Seq(TaskRow) /\ uncommittedTasks' \in Seq(TaskRow)
        /\ OneTable' => OneTable /\ NumbersKept /\ RowIn(committedTasks', uncommittedTasks', id, q)
        /\ id \in Nat \ {0}
    <2>1. CASE taskMode = "follower"
      BY <1>2, <1>3, <2>1, RowAdded
    <2>2. CASE taskMode # "follower"
      BY <1>2, <1>3, <2>2, RowAdded
    <2> QED
      BY <2>1, <2>2
  <1> HIDE DEF id
  <1>5. /\ \A r \in TaskRequest : works'[r] = IF r = q THEN [pc |-> "adding", id |-> id] ELSE works[r]
        /\ works' \in [TaskRequest -> Work]
    BY <1>1, <1>2, <1>4 DEF TasksTyped, Work
  <1>6. TasksTyped'
    BY <1>1, <1>2, <1>4, <1>5 DEF TasksTyped
  <1>7. ASSUME OneTable' PROVE TasksTold'
    <2>1. TasksTold /\ NumbersKept /\ RowIn(committedTasks', uncommittedTasks', id, q)
      BY <1>4, <1>7 DEF TasksInv
    <2>2. WorksKnown'
      BY <1>4, <1>5, <2>1 DEF TasksTold, WorksKnown, NumbersKept
    <2>3. JobsCounted'
      BY <1>1, <1>5, <2>1, AsyncTasksAssumption DEF TasksTold, JobsCounted
    <2>4. RowsTold'
      <3>1. \A r \in TaskRequest, s \in TaskState :
               Told(works, jobsCreated, r, s) => Told(works', jobsCreated', r, s)
        BY <1>1, <1>5 DEF Told
      <3>2. Told(works', jobsCreated', q, "notStarted")
        BY <1>5 DEF Told, Ended
      <3> DEFINE rows == <<NewTask(q)>>
      <3>3. /\ rows \in Seq(TaskRow)
            /\ \A k \in DOMAIN rows : Told(works', jobsCreated', rows[k].req, rows[k].state)
        BY <3>2, NewTaskIsRow
      <3>4. \A k \in DOMAIN <<>> : Told(works', jobsCreated', <<>>[k].req, <<>>[k].state)
        OBVIOUS
      <3>5. committedTasks \o <<>> = committedTasks /\ uncommittedTasks \o <<>> = uncommittedTasks
            /\ <<>> \in Seq(TaskRow)
        BY <1>2, EmptyAppended DEF TasksTyped
      <3>6. \/ committedTasks' = committedTasks \o rows /\ uncommittedTasks' = uncommittedTasks \o <<>>
            \/ committedTasks' = committedTasks \o <<>> /\ uncommittedTasks' = uncommittedTasks \o rows
        BY <1>3, <3>5 DEF AddsRow
      <3> HIDE DEF rows
      <3> QED
        BY <1>2, <2>1, <3>1, <3>3, <3>4, <3>5, <3>6, RowsToldGrown DEF TasksTold
    <2>5. IdsKnown' /\ NotesKnown' /\ ReadersKnown' /\ AnswersRight' /\ SubscribersKnown'
      BY <1>1, <2>1, IdsSame, NotesSame, ReadersSame, SubscribersSame DEF TasksTold
    <2> QED
      BY <1>1, <2>1, <2>2, <2>3, <2>4, <2>5 DEF TasksTold
  <1> QED
    BY <1>6, <1>7 DEF TasksInv

LEMMA ReplicateTaskKeeps ==
    ASSUME TasksInv, NEW q \in TaskRequest, ReplicateTask(q)
    PROVE  TasksInv'
  <1>1. /\ works[q].pc = "none" /\ works' = [works EXCEPT ![q].pc = "ended"]
        /\ UNCHANGED <<uncommittedTasks, taskIds, subscribers, notifications, listener, taskOver, jobsCreated, readers>>
        /\ AddsRow(committedTasks, q)
    BY DEF ReplicateTask, taskMemory, RaftBatchInsert, AddsRow
  <1>2. TasksTyped
    BY DEF TasksInv
  <1>3. /\ committedTasks' \in Seq(TaskRow) /\ uncommittedTasks' \in Seq(TaskRow)
        /\ OneTable' => OneTable /\ NumbersKept
    BY <1>1, <1>2, RowAdded
  <1>4. /\ \A r \in TaskRequest : /\ works'[r].id = works[r].id
                                  /\ works'[r].pc = IF r = q THEN "ended" ELSE works[r].pc
        /\ works' \in [TaskRequest -> Work]
    BY <1>1, <1>2 DEF TasksTyped, Work
  <1>5. TasksTyped'
    BY <1>1, <1>2, <1>3, <1>4 DEF TasksTyped
  <1>6. ASSUME OneTable' PROVE TasksTold'
    <2>1. TasksTold /\ NumbersKept
      BY <1>3, <1>6 DEF TasksInv
    <2>2. WorksKnown'
      BY <1>4, <2>1 DEF TasksTold, WorksKnown, NumbersKept, AtWork
    <2>3. JobsCounted'
      BY <1>1, <1>4, <2>1, AsyncTasksAssumption DEF TasksTold, JobsCounted
    <2>4. RowsTold'
      <3>1. \A r \in TaskRequest, s \in TaskState :
               Told(works, jobsCreated, r, s) => Told(works', jobsCreated', r, s)
        BY <1>1, <1>4 DEF Told
      <3>2. Told(works', jobsCreated', q, "notStarted")
        BY <1>4 DEF Told, Ended
      <3> DEFINE rows == <<NewTask(q)>>
      <3>3. /\ rows \in Seq(TaskRow)
            /\ \A k \in DOMAIN rows : Told(works', jobsCreated', rows[k].req, rows[k].state)
        BY <3>2, NewTaskIsRow
      <3>4. \A k \in DOMAIN <<>> : Told(works', jobsCreated', <<>>[k].req, <<>>[k].state)
        OBVIOUS
      <3>5. uncommittedTasks \o <<>> = uncommittedTasks /\ <<>> \in Seq(TaskRow)
        BY <1>2, EmptyAppended DEF TasksTyped
      <3>6. committedTasks' = committedTasks \o rows /\ uncommittedTasks' = uncommittedTasks \o <<>>
        BY <1>1, <3>5 DEF AddsRow
      <3> HIDE DEF rows
      <3> QED
        BY <1>2, <2>1, <3>1, <3>3, <3>4, <3>5, <3>6, RowsToldGrown DEF TasksTold
    <2>5. IdsKnown' /\ NotesKnown' /\ ReadersKnown' /\ AnswersRight' /\ SubscribersKnown'
      BY <1>1, <2>1, IdsSame, NotesSame, ReadersSame, SubscribersSame DEF TasksTold
    <2> QED
      BY <1>1, <2>1, <2>2, <2>3, <2>4, <2>5 DEF TasksTold
  <1> QED
    BY <1>5, <1>6 DEF TasksInv

(* A leader that commits its tasks has rows in both tables.                 *)
LEMMA SetTaskModeKeeps ==
    ASSUME TasksInv, NEW mode, SetTaskMode(mode)
    PROVE  TasksInv'
  <1>1. UNCHANGED <<uncommittedTasks, works, taskIds, subscribers, notifications, listener, jobsCreated, readers>>
    BY DEF SetTaskMode, taskMemory, taskTables, RaftBatchInsert
  <1>2. TasksTyped
    BY DEF TasksInv
  <1>3. CASE UNCHANGED <<taskTables, taskOver>>
    <2>1. OneTable' = OneTable /\ NumbersKept /\ UNCHANGED committedTasks
      BY <1>2, <1>3, TablesUnchanged DEF taskTables
    <2>2. TasksTyped'
      BY <1>1, <1>2, <1>3, <2>1 DEF TasksTyped
    <2>3. TasksTold => TasksTold'
      BY <1>1, <1>2, <1>3, <2>1, WorksSame, IdsSame, NotesSame, ReadersSame, SubscribersSame, RowsSame
      DEF TasksTold
    <2> QED
      BY <2>1, <2>2, <2>3 DEF TasksInv
  <1>4. CASE mode = "leader"
    <2> DEFINE rows == [i \in DOMAIN uncommittedTasks |-> NewTask(uncommittedTasks[i].req)]
    <2>1. committedTasks' = committedTasks \o rows
          /\ taskOver' = {uncommittedTasks[i] : i \in DOMAIN uncommittedTasks}
      BY <1>4 DEF SetTaskMode, RaftBatchInsert
    <2>2. uncommittedTasks \in Seq(TaskRow) /\ committedTasks \in Seq(TaskRow)
      BY <1>2 DEF TasksTyped
    <2>3. rows \in Seq(TaskRow) /\ DOMAIN rows = DOMAIN uncommittedTasks
      <3>1. ASSUME NEW i \in DOMAIN uncommittedTasks PROVE NewTask(uncommittedTasks[i].req) \in TaskRow
        <4>1. uncommittedTasks[i] \in TaskRow
          BY <2>2
        <4>2. uncommittedTasks[i].req \in TaskRequest
          BY <4>1 DEF TaskRow
        <4> QED
          BY <4>2, NewTaskIsRow
      <3> QED
        BY <2>2, <3>1
    <2> HIDE DEF rows
    <2>4. committedTasks' \in Seq(TaskRow) /\ Len(committedTasks') = Len(committedTasks) + Len(rows)
      BY <2>1, <2>2, <2>3, ConcatProperties
    <2>5. taskOver' \subseteq TaskRow
      BY <2>1, <2>2
    <2>6. TasksTyped'
      BY <1>1, <1>2, <2>4, <2>5 DEF TasksTyped
    <2>7. ASSUME OneTable' PROVE TasksTold'
      <3>1. uncommittedTasks = <<>>
        <4>1. CASE committedTasks' = <<>>
          <5>1. Len(rows) = 0
            BY <2>2, <2>3, <2>4, <4>1
          <5> QED
            BY <2>2, <2>3, <5>1
        <4> QED
          BY <1>1, <2>7, <4>1 DEF OneTable
      <3>2. rows = <<>> /\ taskOver' = {}
        BY <2>1, <2>3, <3>1
      <3>3. UNCHANGED taskTables
        BY <1>1, <2>1, <2>2, <3>2, EmptyAppended DEF taskTables
      <3>4. TasksTold /\ NumbersKept
        <4>1. OneTable
          BY <3>1 DEF OneTable
        <4> QED
          BY <1>2, <3>3, <4>1, TablesUnchanged DEF TasksInv
      <3> QED
        BY <1>1, <1>2, <3>2, <3>3, <3>4, WorksSame, IdsSame, NotesSame, ReadersSame, SubscribersSame, RowsSame
        DEF TasksTold
    <2> QED
      BY <2>6, <2>7 DEF TasksInv
  <1> QED
    BY <1>3, <1>4 DEF SetTaskMode

-----------------------------------------------------------------------------
(* Work.                                                                   *)

(* The work of q moves on, and may update the row of its task.              *)
LEMMA WorkMoves ==
    ASSUME TasksInv, NEW q \in TaskRequest, works[q].pc \in AtWork, NEW state \in TaskState,
           UpdateTask(q, works[q].id, state) \/ NoUpdate,
           NEW pc \in {"queued", "running", "worked", "ended"}, works' = [works EXCEPT ![q].pc = pc],
           works[q].pc \in {"running", "worked"} \/ pc # "worked",
           \/ Inserted(q) /\ works[q].pc = "running" /\ pc = "worked"
           \/ (UNCHANGED jobsCreated) /\ pc # "worked",
           pc \in {"queued", "running"} => works[q].pc \in {"adding", "queued", "running"},
           state \in Ended => pc = "ended",
           q \in CreateJob /\ state = "success" => works[q].pc = "worked",
           q \in CreateJob /\ state = "fail" => works[q].pc # "worked",
           \/ UNCHANGED taskIds
           \/ taskIds' = [taskIds EXCEPT ![q] = works[q].id],
           UNCHANGED <<subscribers, listener, taskOver, readers>>
    PROVE  TasksInv'
  <1> DEFINE id == works[q].id
  <1>1. TasksTyped /\ id \in Nat
    BY DEF TasksInv, TasksTyped, Work
  <1>2. /\ TableKept(committedTasks, committedTasks', id, state)
        /\ TableKept(uncommittedTasks, uncommittedTasks', id, state)
        /\ notifications' \subseteq notifications \cup {[id |-> id, req |-> q, state |-> state]}
        /\ notifications' \subseteq Notification
    <2>1. CASE UpdateTask(q, id, state)
      BY <1>1, <2>1, TaskUpdated
    <2>2. CASE NoUpdate
      BY <1>1, <2>2, TablesSame DEF NoUpdate, TasksTyped
    <2> QED
      BY <2>1, <2>2
  <1> HIDE DEF id
  <1>3. /\ \A r \in TaskRequest : /\ works'[r].id = works[r].id
                                  /\ works'[r].pc = IF r = q THEN pc ELSE works[r].pc
        /\ works' \in [TaskRequest -> Work]
    BY <1>1 DEF TasksTyped, Work
  <1>4. committedTasks' \in Seq(TaskRow) /\ uncommittedTasks' \in Seq(TaskRow)
        /\ (uncommittedTasks' # <<>> => uncommittedTasks # <<>>)
    BY <1>1, <1>2 DEF TableKept, TableGrows, TasksTyped
  <1>5. /\ jobsCreated' \in [TaskRequest -> Nat] /\ taskIds' \in [TaskRequest -> Nat]
        /\ \A r \in TaskRequest : taskIds'[r] \in {taskIds[r], IF r = q THEN id ELSE taskIds[r]}
        /\ \A r \in TaskRequest : jobsCreated'[r] = IF pc = "worked" /\ r = q /\ q \in CreateJob
                                                    THEN jobsCreated[q] + 1 ELSE jobsCreated[r]
    <2>1. taskIds' \in [TaskRequest -> Nat]
          /\ \A r \in TaskRequest : taskIds'[r] \in {taskIds[r], IF r = q THEN id ELSE taskIds[r]}
      <3>1. taskIds' = taskIds \/ taskIds' = [taskIds EXCEPT ![q] = id]
        BY DEF id
      <3>2. taskIds \in [TaskRequest -> Nat]
        BY <1>1 DEF TasksTyped
      <3> QED
        BY <1>1, <3>1, <3>2
    <2>2. jobsCreated \in [TaskRequest -> Nat]
      BY <1>1 DEF TasksTyped
    <2>3. CASE Inserted(q) /\ pc = "worked"
      BY <2>1, <2>2, <2>3 DEF Inserted
    <2>4. CASE (UNCHANGED jobsCreated) /\ pc # "worked"
      BY <2>1, <2>2, <2>4
    <2> QED
      BY <2>3, <2>4
  <1>6. TasksTyped'
    BY <1>1, <1>2, <1>3, <1>4, <1>5 DEF TasksTyped
  <1>7. ASSUME OneTable' PROVE TasksTold'
    <2>1. TasksTold /\ NumbersKept /\ OneTable
      BY <1>1, <1>2, <1>7, NumbersAfterUpdate DEF TasksInv
    <2>2. /\ id # 0 /\ RowIn(committedTasks, uncommittedTasks, id, q)
          /\ RowIn(committedTasks', uncommittedTasks', id, q)
      BY <2>1 DEF TasksTold, WorksKnown, NumbersKept, id
    <2>3. WorksKnown'
      BY <1>3, <2>1, <2>2 DEF TasksTold, WorksKnown, NumbersKept, id
    <2>4. JobsCounted'
      BY <1>3, <1>5, <2>1, AsyncTasksAssumption DEF TasksTold, JobsCounted
    <2>5. RowsTold'
      <3>1. \A r \in TaskRequest, s \in TaskState :
               Told(works, jobsCreated, r, s) => Told(works', jobsCreated', r, s)
        BY <1>3, <1>5 DEF Told, AtWork, Ended
      <3>2. Told(works', jobsCreated', q, state)
        <4>1. q \in CreateJob /\ state = "success" => jobsCreated'[q] = 1
          BY <1>5, <2>1 DEF TasksTold, JobsCounted, Ended
        <4>2. q \in CreateJob /\ state = "fail" => jobsCreated'[q] = 0
          BY <1>5, <2>1 DEF TasksTold, JobsCounted, Ended, AtWork
        <4> QED
          BY <1>3, <4>1, <4>2 DEF Told
      <3>3. \A r \in TaskRequest : RowIn(committedTasks, uncommittedTasks, id, r) => r = q
        BY <2>2 DEF RowIn
      <3>4. RowsTold
        BY <2>1 DEF TasksTold
      <3> QED
        BY <1>1, <1>2, <2>1, <3>1, <3>2, <3>3, <3>4, RowsToldKept
    <2>6. NotesKnown'
      BY <1>2, <2>1, <2>2 DEF TasksTold, NotesKnown, NumbersKept
    <2>7. IdsKnown'
      BY <1>5, <2>1, <2>2 DEF TasksTold, IdsKnown, NumbersKept
    <2>8. ReadersKnown' /\ AnswersRight' /\ SubscribersKnown'
      BY <2>1, ReadersSame, SubscribersSame DEF TasksTold
    <2> QED
      BY <2>1, <2>3, <2>4, <2>5, <2>6, <2>7, <2>8 DEF TasksTold
  <1> QED
    BY <1>6, <1>7 DEF TasksInv

LEMMA WorkKeeps ==
    ASSUME TasksInv, NEW q \in TaskRequest,
           StoreTask(q) \/ WorkStarts(q) \/ WorkGoesOn(q) \/ WorkDone(q) \/ WorkEnds(q)
    PROVE  TasksInv'
  <1>1. works \in [TaskRequest -> Work]
    BY DEF TasksInv, TasksTyped
  <1>2. CASE StoreTask(q)
    <2>1. /\ works[q].pc = "adding" /\ works' = [works EXCEPT ![q].pc = "queued"] /\ NoUpdate
          /\ taskIds' = [taskIds EXCEPT ![q] = works[q].id]
          /\ UNCHANGED <<subscribers, listener, taskOver, readers, jobsCreated>>
      BY <1>2 DEF StoreTask, NoUpdate
    <2> QED
      BY <2>1, WorkMoves DEF AtWork, TaskState, Ended
  <1>3. CASE WorkStarts(q)
    <2>1. /\ works[q].pc = "queued"
          /\ \/ UpdateTask(q, works[q].id, "inProgress") /\ works' = [works EXCEPT ![q].pc = "running"]
             \/ NoUpdate /\ works' = [works EXCEPT ![q].pc = "ended"]
          /\ UNCHANGED <<taskIds, subscribers, listener, taskOver, readers, jobsCreated>>
      BY <1>3 DEF WorkStarts, taskMemory
    <2> QED
      BY <2>1, WorkMoves DEF AtWork, TaskState, Ended
  <1>4. CASE WorkGoesOn(q)
    <2>1. /\ works[q].pc = "running" /\ UpdateTask(q, works[q].id, "inProgress") /\ works' = works
          /\ UNCHANGED <<taskIds, subscribers, listener, taskOver, readers, jobsCreated>>
      BY <1>4 DEF WorkGoesOn, taskMemory
    <2>2. works' = [works EXCEPT ![q].pc = "running"]
      BY <1>1, <2>1 DEF Work
    <2> QED
      BY <2>1, <2>2, WorkMoves DEF AtWork, TaskState, Ended
  <1>5. CASE WorkDone(q)
    <2>1. /\ works[q].pc = "running" /\ NoUpdate /\ works' = [works EXCEPT ![q].pc = "worked"] /\ Inserted(q)
          /\ UNCHANGED <<taskIds, subscribers, listener, taskOver, readers>>
      BY <1>5 DEF WorkDone, taskMemory, NoUpdate
    <2> QED
      BY <2>1, WorkMoves DEF AtWork, TaskState, Ended
  <1>6. CASE WorkEnds(q)
    <2>1. /\ works[q].pc \in {"running", "worked"} /\ works' = [works EXCEPT ![q].pc = "ended"]
          /\ UpdateTask(q, works[q].id, StateOf(works[q].pc)) \/ NoUpdate
          /\ UNCHANGED <<taskIds, subscribers, listener, taskOver, readers, jobsCreated>>
      BY <1>6 DEF WorkEnds, taskMemory
    <2>2. CASE works[q].pc = "worked"
      <3>1. StateOf(works[q].pc) = "success"
        BY <2>2 DEF StateOf
      <3> QED
        BY <2>1, <2>2, <3>1, WorkMoves DEF AtWork, TaskState, Ended
    <2>3. CASE works[q].pc = "running"
      <3>1. StateOf(works[q].pc) = "fail"
        BY <2>3 DEF StateOf
      <3> QED
        BY <2>1, <2>3, <3>1, WorkMoves DEF AtWork, TaskState, Ended
    <2> QED
      BY <2>1, <2>2, <2>3
  <1> QED
    BY <1>2, <1>3, <1>4, <1>5, <1>6

(* A new leader has tasks to handle only when it had rows in both tables.   *)
LEMMA HandleUncommittedKeeps ==
    ASSUME TasksInv, NEW row \in taskOver, HandleUncommittedAsyncTask(row)
    PROVE  TasksInv'
  <1> DEFINE id == taskIds[row.req]
  <1>1. TasksTyped /\ row \in TaskRow /\ id \in Nat /\ row.req \in TaskRequest
    BY DEF TasksInv, TasksTyped, TaskRow
  <1>2. /\ UpdateTask(row.req, id, "success") \/ NoUpdate
        /\ Inserted(row.req) \/ UNCHANGED jobsCreated
        /\ taskOver' \subseteq taskOver
        /\ UNCHANGED <<taskIds, subscribers, listener, works, readers>>
    BY DEF HandleUncommittedAsyncTask, taskMemory
  <1> HIDE DEF id
  <1>3. /\ TableKept(committedTasks, committedTasks', id, "success")
        /\ TableKept(uncommittedTasks, uncommittedTasks', id, "success")
        /\ notifications' \subseteq Notification
    <2>1. CASE UpdateTask(row.req, id, "success")
      BY <1>1, <2>1, TaskUpdated DEF TaskState
    <2>2. CASE NoUpdate
      BY <1>1, <2>2, TablesSame DEF NoUpdate, TasksTyped
    <2> QED
      BY <1>2, <2>1, <2>2
  <1>4. ~OneTable'
    BY <1>1, <1>3, NumbersAfterUpdate DEF TasksInv, TasksTold
  <1>5. committedTasks' \in Seq(TaskRow) /\ uncommittedTasks' \in Seq(TaskRow)
        /\ (uncommittedTasks' # <<>> => uncommittedTasks # <<>>)
    BY <1>1, <1>3 DEF TableKept, TableGrows, TasksTyped
  <1>6. jobsCreated' \in [TaskRequest -> Nat]
    BY <1>1, <1>2 DEF TasksTyped, Inserted
  <1> QED
    BY <1>1, <1>2, <1>3, <1>4, <1>5, <1>6 DEF TasksInv, TasksTyped

-----------------------------------------------------------------------------
(* Readers.                                                                *)

LEMMA RowsNamed ==
    ASSUME TasksTyped, NEW id, NEW row \in GetTask(id)
    PROVE  /\ row \in TaskRow /\ id \in Nat
           /\ \A q : RowIn(committedTasks, uncommittedTasks, id, q) => row.req = q
           /\ OneTable => RowIn(committedTasks, uncommittedTasks, id, row.req)
  <1>1. committedTasks \in Seq(TaskRow) /\ uncommittedTasks \in Seq(TaskRow)
    BY DEF TasksTyped
  <1>2. \/ id \in DOMAIN committedTasks /\ row = committedTasks[id]
        \/ id \in DOMAIN uncommittedTasks /\ row = uncommittedTasks[id]
    BY DEF GetTask, RowsOf
  <1>3. row \in TaskRow /\ id \in Nat
    BY <1>1, <1>2
  <1>4. \A q : RowIn(committedTasks, uncommittedTasks, id, q) => row.req = q
    BY <1>2 DEF RowIn
  <1>5. ASSUME OneTable PROVE RowIn(committedTasks, uncommittedTasks, id, row.req)
    <2>1. DOMAIN committedTasks = {} \/ DOMAIN uncommittedTasks = {}
      BY <1>1, <1>5 DEF OneTable
    <2> QED
      BY <1>2, <2>1 DEF RowIn
  <1> QED
    BY <1>2, <1>3, <1>4, <1>5

(* A reader goes on: what it waits for stays, and what it is told is about  *)
(* its request. It may join or leave the subscribers of its task.           *)
LEMMA ReaderMoves ==
    ASSUME TasksInv, NEW c \in TaskReader, NEW r \in Reader, readers' = [readers EXCEPT ![c] = r],
           r.pc # "new", readers[c].pc = "new" \/ r.id = readers[c].id,
           OneTable /\ r.pc \in {"look", "subscribe", "wait"} =>
               RowIn(committedTasks, uncommittedTasks, r.id, r.for),
           OneTable /\ r.pc = "answered" => r.answer.req = r.for,
           UNCHANGED <<taskTables, works, jobsCreated, taskOver, notifications>>,
           taskIds' \in [TaskRequest -> Nat],
           OneTable => \A q \in TaskRequest :
               taskIds'[q] # 0 => RowIn(committedTasks, uncommittedTasks, taskIds'[q], q),
           subscribers' \subseteq Nat \X TaskReader,
           \A s \in subscribers' : s \in subscribers \/ s = <<r.id, c>>,
           listener' \in [note : Notification \cup {NoNotification}, calls : SUBSET TaskReader],
           listener'.note = listener.note,
           \A d \in listener'.calls : d \in listener.calls \/
               (d = c /\ r.id = listener.note.id
                /\ (OneTable =>
                       RowIn(committedTasks, uncommittedTasks, listener.note.id, listener.note.req)))
    PROVE  TasksInv'
  <1>1. TasksTyped /\ \A d \in TaskReader : readers'[d] = IF d = c THEN r ELSE readers[d]
    BY DEF TasksInv, TasksTyped
  <1>2. OneTable' = OneTable /\ NumbersKept /\ UNCHANGED <<committedTasks, uncommittedTasks>>
    BY <1>1, TablesUnchanged DEF taskTables
  <1>3. TasksTyped'
    <2>1. readers' \in [TaskReader -> Reader]
      BY <1>1 DEF TasksTyped
    <2> QED
      BY <1>1, <1>2, <2>1 DEF TasksTyped
  <1>4. ASSUME OneTable' PROVE TasksTold'
    <2>1. TasksTold /\ OneTable
      BY <1>2, <1>4 DEF TasksInv
    <2>2. WorksKnown' /\ NotesKnown' /\ RowsTold' /\ JobsCounted' /\ taskOver' = {}
      BY <1>1, <1>2, <2>1, WorksSame, NotesSame, RowsSame DEF TasksTold
    <2>3. IdsKnown'
      BY <1>2, <2>1 DEF IdsKnown
    <2>4. ReadersKnown'
      BY <1>1, <1>2, <2>1 DEF TasksTold, ReadersKnown
    <2>5. AnswersRight'
      BY <1>1, <2>1 DEF TasksTold, AnswersRight
    <2>6. SubscribersKnown'
      <3>1. SubscribersKnown
        BY <2>1 DEF TasksTold
      <3>2. ASSUME NEW s \in subscribers'
            PROVE  readers'[s[2]].id = s[1] /\ readers'[s[2]].pc # "new"
        <4>1. s[2] \in TaskReader
          BY <3>2
        <4>2. CASE s \in subscribers
          BY <1>1, <3>1, <4>1, <4>2 DEF SubscribersKnown
        <4>3. CASE s = <<r.id, c>>
          BY <1>1, <4>1, <4>3
        <4> QED
          BY <3>2, <4>2, <4>3
      <3>3. ASSUME NEW d \in listener'.calls
            PROVE  /\ readers'[d].id = listener.note.id /\ readers'[d].pc # "new"
                   /\ RowIn(committedTasks, uncommittedTasks, listener.note.id, listener.note.req)
        <4>1. d \in TaskReader
          BY <3>3
        <4>2. CASE d \in listener.calls
          BY <1>1, <3>1, <4>1, <4>2 DEF SubscribersKnown
        <4>3. CASE d \notin listener.calls
          BY <1>1, <2>1, <3>3, <4>1, <4>3
        <4> QED
          BY <4>2, <4>3
      <3> QED
        BY <1>2, <3>2, <3>3 DEF SubscribersKnown
    <2> QED
      BY <2>2, <2>3, <2>4, <2>5, <2>6 DEF TasksTold
  <1> QED
    BY <1>3, <1>4 DEF TasksInv

LEMMA ReaderTyped ==
    ASSUME NEW r \in Reader, NEW id \in Nat, NEW q \in TaskRequest, NEW row \in TaskRow
    PROVE  /\ [r EXCEPT !.for = q] \in Reader
           /\ \A pc \in ReaderPC : [r EXCEPT !.pc = pc] \in Reader
           /\ [r EXCEPT !.pc = "answered", !.answer = row] \in Reader
           /\ [r EXCEPT !.pc = "look", !.id = id] \in Reader
  BY DEF Reader, TaskRow, ReaderPC

LEMMA GetTaskNonBlockingKeeps ==
    ASSUME TasksInv, NEW c \in TaskReader, NEW q \in TaskRequest, GetTaskWithRequestIdNonBlocking(c, q)
    PROVE  TasksInv'
  <1> DEFINE asks == [readers[c] EXCEPT !.for = q]
             known == taskIds[q] # 0
             ids == IF known THEN {taskIds[q]} ELSE GetTaskByRequestId(q)
             Seen(id, row) == IF row.state \in FinalFor(c)
                              THEN [asks EXCEPT !.pc = "answered", !.answer = row]
                              ELSE [asks EXCEPT !.pc = "look", !.id = id]
  <1>1. TasksTyped /\ readers[c] \in Reader /\ readers[c].pc = "new"
    <2>1. readers[c].pc = "new"
      BY Zenon DEF GetTaskWithRequestIdNonBlocking
    <2> QED
      BY <2>1 DEF TasksInv, TasksTyped
  <1>2. UNCHANGED <<taskTables, works, jobsCreated, taskOver, notifications, subscribers, listener>>
    <2>1. UNCHANGED <<taskMode, modeChanges, taskTables, subscribers, notifications,
                      listener, works, taskOver, jobsCreated, taskPanic>>
      BY Zenon DEF GetTaskWithRequestIdNonBlocking
    <2> QED
      BY <2>1
  <1>3. asks \in Reader /\ asks.for = q
    BY <1>1 DEF Reader
  <1>4. CASE readers' = [readers EXCEPT ![c] = [asks EXCEPT !.pc = "gone"]] /\ UNCHANGED taskIds
    <2> DEFINE r == [asks EXCEPT !.pc = "gone"]
    <2>1. r \in Reader /\ r.pc = "gone"
      BY <1>3 DEF Reader, ReaderPC
    <2> HIDE DEF r
    <2>2. /\ taskIds' \in [TaskRequest -> Nat]
          /\ OneTable => \A p \in TaskRequest :
                taskIds'[p] # 0 => RowIn(committedTasks, uncommittedTasks, taskIds'[p], p)
      BY <1>1, <1>4 DEF TasksInv, TasksTyped, TasksTold, IdsKnown
    <2>3. readers' = [readers EXCEPT ![c] = r]
      BY <1>4 DEF r
    <2>4. /\ subscribers' \subseteq Nat \X TaskReader /\ subscribers' = subscribers /\ listener' = listener
          /\ listener' \in [note : Notification \cup {NoNotification}, calls : SUBSET TaskReader]
      BY <1>1, <1>2 DEF TasksTyped
    <2> HIDE DEF asks, known, ids
    <2> QED
      BY <1>1, <1>2, <2>1, <2>2, <2>3, <2>4, ReaderMoves
  <1>5. ASSUME NEW id \in ids, NEW row \in GetTask(id), taskIds' = [taskIds EXCEPT ![q] = id],
               readers' = [readers EXCEPT ![c] = Seen(id, row)]
        PROVE  TasksInv'
    <2>1. row \in TaskRow /\ id \in Nat
      BY <1>1, RowsNamed
    <2>2. ASSUME OneTable PROVE RowIn(committedTasks, uncommittedTasks, id, q) /\ row.req = q
      <3>1. CASE known
        <4>1. RowIn(committedTasks, uncommittedTasks, id, q)
          BY <2>2, <3>1 DEF TasksInv, TasksTold, IdsKnown
        <4> QED
          BY <1>1, <4>1, RowsNamed
      <3>2. CASE ~known
        <4>1. PICK other \in GetTask(id) : other.req = q
          BY <3>2 DEF GetTaskByRequestId
        <4>2. RowIn(committedTasks, uncommittedTasks, id, q)
          BY <1>1, <2>2, <4>1, RowsNamed
        <4> QED
          BY <1>1, <4>2, RowsNamed
      <3> QED
        BY <3>1, <3>2
    <2> HIDE DEF known, ids
    <2> DEFINE r == Seen(id, row)
    <2>3. /\ r \in Reader /\ r.pc # "new" /\ r.for = q
          /\ r.pc = "answered" => r.answer = row
          /\ r.pc = "look" => r.id = id
          /\ r.pc \in {"answered", "look"}
      <3> HIDE DEF asks
      <3> QED
        BY <1>3, <2>1 DEF Reader, ReaderPC, TaskRow
    <2>4. readers' = [readers EXCEPT ![c] = r]
      BY <1>5, Zenon
    <2> HIDE DEF asks, Seen, r
    <2>5. /\ taskIds' \in [TaskRequest -> Nat]
          /\ OneTable => \A p \in TaskRequest :
                taskIds'[p] # 0 => RowIn(committedTasks, uncommittedTasks, taskIds'[p], p)
      BY <1>1, <1>5, <2>1, <2>2 DEF TasksInv, TasksTyped, TasksTold, IdsKnown
    <2>6. /\ subscribers' \subseteq Nat \X TaskReader /\ subscribers' = subscribers /\ listener' = listener
          /\ listener' \in [note : Notification \cup {NoNotification}, calls : SUBSET TaskReader]
      BY <1>1, <1>2 DEF TasksTyped
    <2>7. /\ OneTable /\ r.pc \in {"look", "subscribe", "wait"} =>
               RowIn(committedTasks, uncommittedTasks, r.id, r.for)
          /\ OneTable /\ r.pc = "answered" => r.answer.req = r.for
      BY <2>2, <2>3
    <2> QED
      BY <1>1, <1>2, <2>3, <2>4, <2>5, <2>6, <2>7, ReaderMoves
  <1>6. \/ readers' = [readers EXCEPT ![c] = [asks EXCEPT !.pc = "gone"]] /\ UNCHANGED taskIds
        \/ \E id \in ids : \E row \in GetTask(id) :
              /\ taskIds' = [taskIds EXCEPT ![q] = id]
              /\ readers' = [readers EXCEPT ![c] = Seen(id, row)]
    BY Zenon DEF GetTaskWithRequestIdNonBlocking, SetReader, taskMemory
  <1> HIDE DEF asks, known, ids, Seen
  <1> QED
    BY <1>4, <1>5, <1>6

(* What a step of a reader that asks for nothing new leaves as it was.      *)
LEMMA IdsTold ==
    ASSUME TasksInv, UNCHANGED taskIds
    PROVE  /\ taskIds' \in [TaskRequest -> Nat]
           /\ OneTable => \A p \in TaskRequest :
                 taskIds'[p] # 0 => RowIn(committedTasks, uncommittedTasks, taskIds'[p], p)
  BY DEF TasksInv, TasksTyped, TasksTold, IdsKnown

LEMMA GetTaskBlockingKeeps ==
    ASSUME TasksInv, NEW c \in TaskReader, GetTaskBlocking(c)
    PROVE  TasksInv'
  <1>1. TasksTyped /\ readers[c] \in Reader
    BY DEF TasksInv, TasksTyped
  <1>2. readers[c].pc = "look"
    BY Zenon DEF GetTaskBlocking
  <1>3. UNCHANGED <<taskTables, taskIds, works, jobsCreated, taskOver, notifications, subscribers, listener>>
    <2>1. UNCHANGED <<taskMode, modeChanges, taskTables, taskMemory, subscribers,
                      notifications, listener, works, taskOver, jobsCreated, taskPanic>>
      BY Zenon DEF GetTaskBlocking
    <2> QED
      BY <2>1 DEF taskMemory
  <1>4. PICK row \in GetTask(readers[c].id) :
           readers' = [readers EXCEPT ![c] =
               CASE row.state = "success" -> [readers[c] EXCEPT !.pc = "answered", !.answer = row]
                 [] row.state = "fail" -> [readers[c] EXCEPT !.pc = "wait"]
                 [] OTHER -> [readers[c] EXCEPT !.pc = "subscribe"]]
    BY Zenon DEF GetTaskBlocking, SetReader
  <1>5. /\ row \in TaskRow
        /\ OneTable => RowIn(committedTasks, uncommittedTasks, readers[c].id, readers[c].for)
                       /\ row.req = readers[c].for
    <2>1. row \in TaskRow
      BY <1>1, RowsNamed
    <2>2. ASSUME OneTable PROVE RowIn(committedTasks, uncommittedTasks, readers[c].id, readers[c].for)
      BY <1>2, <2>2 DEF TasksInv, TasksTold, ReadersKnown
    <2> QED
      BY <1>1, <2>1, <2>2, RowsNamed
  <1> DEFINE r == CASE row.state = "success" -> [readers[c] EXCEPT !.pc = "answered", !.answer = row]
                    [] row.state = "fail" -> [readers[c] EXCEPT !.pc = "wait"]
                    [] OTHER -> [readers[c] EXCEPT !.pc = "subscribe"]
  <1>6. r \in Reader /\ r.pc \in {"answered", "wait", "subscribe"} /\ r.for = readers[c].for
        /\ r.id = readers[c].id /\ (r.pc = "answered" => r.answer = row)
    <2>1. CASE row.state = "success"
      <3>1. r = [readers[c] EXCEPT !.pc = "answered", !.answer = row]
        BY <2>1
      <3> HIDE DEF r
      <3> QED
        BY <1>1, <1>5, <3>1 DEF Reader, ReaderPC, TaskRow
    <2>2. CASE row.state = "fail"
      <3>1. r = [readers[c] EXCEPT !.pc = "wait"]
        BY <2>2
      <3> HIDE DEF r
      <3> QED
        BY <1>1, <3>1 DEF Reader, ReaderPC
    <2>3. CASE row.state \notin {"success", "fail"}
      <3>1. r = [readers[c] EXCEPT !.pc = "subscribe"]
        BY <2>3
      <3> HIDE DEF r
      <3> QED
        BY <1>1, <3>1 DEF Reader, ReaderPC
    <2> QED
      BY <2>1, <2>2, <2>3
  <1>7. readers' = [readers EXCEPT ![c] = r]
    BY <1>4, Zenon
  <1> HIDE DEF r
  <1>8. /\ subscribers' \subseteq Nat \X TaskReader /\ subscribers' = subscribers /\ listener' = listener
        /\ listener' \in [note : Notification \cup {NoNotification}, calls : SUBSET TaskReader]
    BY <1>1, <1>3 DEF TasksTyped
  <1> QED
    BY <1>1, <1>3, <1>5, <1>6, <1>7, <1>8, IdsTold, ReaderMoves

(* The listener goes on with the calls it had, or with the reader as well.  *)
LEMMA TouchKeeps ==
    ASSUME TasksInv, NEW c \in TaskReader, NEW id, NEW calls \in SUBSET TaskReader,
           calls \subseteq listener.calls \cup {c}, Touch(id, calls)
    PROVE  /\ listener' \in [note : Notification \cup {NoNotification}, calls : SUBSET TaskReader]
           /\ listener'.note = listener.note
           /\ \A d \in listener'.calls : d \in listener.calls \/
               (d = c /\ id = listener.note.id
                /\ (OneTable =>
                       RowIn(committedTasks, uncommittedTasks, listener.note.id, listener.note.req)))
  <1>1. listener \in [note : Notification \cup {NoNotification}, calls : SUBSET TaskReader]
    BY DEF TasksInv, TasksTyped
  <1>2. CASE Shared(id) /\ listener' = [listener EXCEPT !.calls = calls]
    <2>1. OneTable => RowIn(committedTasks, uncommittedTasks, listener.note.id, listener.note.req)
      BY <1>1, <1>2 DEF Shared, TasksInv, TasksTold, SubscribersKnown
    <2> QED
      BY <1>1, <1>2, <2>1 DEF Shared
  <1>3. CASE UNCHANGED listener
    BY <1>1, <1>3
  <1> QED
    BY <1>2, <1>3 DEF Touch

LEMMA AddSubscriberKeeps ==
    ASSUME TasksInv, NEW c \in TaskReader, AddSubscriber(c)
    PROVE  TasksInv'
  <1>1. TasksTyped /\ readers[c] \in Reader
    BY DEF TasksInv, TasksTyped
  <1>2. /\ readers[c].pc = "subscribe"
        /\ \/ /\ subscribers' = subscribers \cup {<<readers[c].id, c>>}
              /\ readers' = [readers EXCEPT ![c] = [readers[c] EXCEPT !.pc = "wait"]]
              /\ Touch(readers[c].id, listener.calls \cup {c})
           \/ /\ readers' = [readers EXCEPT ![c] = [readers[c] EXCEPT !.pc = "gone"]]
              /\ UNCHANGED <<subscribers, listener>>
    BY DEF AddSubscriber, SetReader, Refuse
  <1>3. UNCHANGED <<taskTables, taskIds, works, jobsCreated, taskOver, notifications>>
    BY DEF AddSubscriber, taskMemory
  <1>4. OneTable => RowIn(committedTasks, uncommittedTasks, readers[c].id, readers[c].for)
    BY <1>2 DEF TasksInv, TasksTold, ReadersKnown
  <1>5. CASE /\ subscribers' = subscribers \cup {<<readers[c].id, c>>}
             /\ readers' = [readers EXCEPT ![c] = [readers[c] EXCEPT !.pc = "wait"]]
             /\ Touch(readers[c].id, listener.calls \cup {c})
    <2> DEFINE r == [readers[c] EXCEPT !.pc = "wait"]
    <2>1. r \in Reader /\ r.pc = "wait" /\ r.for = readers[c].for /\ r.id = readers[c].id /\ r.id \in Nat
      BY <1>1 DEF Reader, ReaderPC
    <2>2. readers' = [readers EXCEPT ![c] = r]
      BY <1>5
    <2> HIDE DEF r
    <2>3. listener.calls \cup {c} \in SUBSET TaskReader
      BY <1>1 DEF TasksTyped
    <2>4. /\ listener' \in [note : Notification \cup {NoNotification}, calls : SUBSET TaskReader]
          /\ listener'.note = listener.note
          /\ \A d \in listener'.calls : d \in listener.calls \/
               (d = c /\ r.id = listener.note.id
                /\ (OneTable =>
                       RowIn(committedTasks, uncommittedTasks, listener.note.id, listener.note.req)))
      BY <1>5, <2>1, <2>3, TouchKeeps
    <2>5. /\ subscribers' \subseteq Nat \X TaskReader
          /\ \A s \in subscribers' : s \in subscribers \/ s = <<r.id, c>>
      BY <1>1, <1>5, <2>1 DEF TasksTyped
    <2> QED
      BY <1>1, <1>3, <1>4, <2>1, <2>2, <2>4, <2>5, IdsTold, ReaderMoves
  <1>6. CASE /\ readers' = [readers EXCEPT ![c] = [readers[c] EXCEPT !.pc = "gone"]]
             /\ UNCHANGED <<subscribers, listener>>
    <2> DEFINE r == [readers[c] EXCEPT !.pc = "gone"]
    <2>1. r \in Reader /\ r.pc = "gone" /\ r.id = readers[c].id
      BY <1>1 DEF Reader, ReaderPC
    <2>2. readers' = [readers EXCEPT ![c] = r]
      BY <1>6
    <2> HIDE DEF r
    <2>3. /\ subscribers' \subseteq Nat \X TaskReader /\ subscribers' = subscribers /\ listener' = listener
          /\ listener' \in [note : Notification \cup {NoNotification}, calls : SUBSET TaskReader]
      BY <1>1, <1>6 DEF TasksTyped
    <2> QED
      BY <1>1, <1>3, <2>1, <2>2, <2>3, IdsTold, ReaderMoves
  <1> QED
    BY <1>2, <1>5, <1>6

LEMMA ReaderLeavesKeeps ==
    ASSUME TasksInv, NEW c \in TaskReader, ReaderLeaves(c)
    PROVE  TasksInv'
  <1>1. TasksTyped /\ readers[c] \in Reader
    BY DEF TasksInv, TasksTyped
  <1>2. /\ readers' = [readers EXCEPT ![c] = [readers[c] EXCEPT !.pc = "gone"]]
        /\ \/ /\ subscribers' = subscribers \ {<<readers[c].id, c>>}
              /\ Touch(readers[c].id, listener.calls \ {c})
           \/ UNCHANGED <<subscribers, listener>>
    BY DEF ReaderLeaves, Refuse, SetReader
  <1>3. UNCHANGED <<taskTables, taskIds, works, jobsCreated, taskOver, notifications>>
    BY DEF ReaderLeaves, taskMemory
  <1> DEFINE r == [readers[c] EXCEPT !.pc = "gone"]
  <1>4. r \in Reader /\ r.pc = "gone" /\ r.id = readers[c].id
    BY <1>1 DEF Reader, ReaderPC
  <1>5. readers' = [readers EXCEPT ![c] = r]
    BY <1>2
  <1> HIDE DEF r
  <1>6. /\ subscribers' \subseteq Nat \X TaskReader
        /\ \A s \in subscribers' : s \in subscribers
    BY <1>1, <1>2 DEF TasksTyped
  <1>7. /\ listener' \in [note : Notification \cup {NoNotification}, calls : SUBSET TaskReader]
        /\ listener'.note = listener.note
        /\ \A d \in listener'.calls : d \in listener.calls \/
               (d = c /\ r.id = listener.note.id
                /\ (OneTable =>
                       RowIn(committedTasks, uncommittedTasks, listener.note.id, listener.note.req)))
    <2>1. CASE Touch(readers[c].id, listener.calls \ {c})
      <3>1. listener.calls \ {c} \in SUBSET TaskReader
        BY <1>1 DEF TasksTyped
      <3> QED
        BY <1>4, <2>1, <3>1, TouchKeeps
    <2>2. CASE UNCHANGED listener
      BY <1>1, <2>2 DEF TasksTyped
    <2> QED
      BY <1>2, <2>1, <2>2
  <1> QED
    BY <1>1, <1>3, <1>4, <1>5, <1>6, <1>7, IdsTold, ReaderMoves

-----------------------------------------------------------------------------
(* The listener.                                                           *)

LEMMA ListenerMoves ==
    ASSUME TasksInv, UNCHANGED <<taskTables, works, jobsCreated, taskOver, readers, taskIds>>,
           notifications' \subseteq notifications, subscribers' \subseteq subscribers,
           listener' \in [note : Notification \cup {NoNotification}, calls : SUBSET TaskReader],
           OneTable => \A d \in listener'.calls :
               /\ readers[d].id = listener'.note.id /\ readers[d].pc # "new"
               /\ RowIn(committedTasks, uncommittedTasks, listener'.note.id, listener'.note.req)
    PROVE  TasksInv'
  <1>1. TasksTyped
    BY DEF TasksInv
  <1>2. OneTable' = OneTable /\ NumbersKept /\ UNCHANGED <<committedTasks, uncommittedTasks>>
    BY <1>1, TablesUnchanged DEF taskTables
  <1>3. TasksTyped'
    BY <1>1, <1>2 DEF TasksTyped
  <1>4. ASSUME OneTable' PROVE TasksTold'
    <2>1. TasksTold /\ OneTable
      BY <1>2, <1>4 DEF TasksInv
    <2>2. WorksKnown' /\ IdsKnown' /\ NotesKnown' /\ ReadersKnown' /\ AnswersRight'
          /\ RowsTold' /\ JobsCounted' /\ taskOver' = {}
      BY <1>1, <1>2, <2>1, WorksSame, IdsSame, NotesSame, ReadersSame, RowsSame DEF TasksTold
    <2>3. SubscribersKnown'
      BY <1>2, <2>1 DEF TasksTold, SubscribersKnown
    <2> QED
      BY <2>2, <2>3 DEF TasksTold
  <1> QED
    BY <1>3, <1>4 DEF TasksInv

LEMMA ListenerReceivesKeeps ==
    ASSUME TasksInv, NEW note \in notifications, ListenerReceives(note)
    PROVE  TasksInv'
  <1>1. TasksTyped /\ note \in Notification
    BY DEF TasksInv, TasksTyped
  <1>2. /\ UNCHANGED <<taskTables, works, jobsCreated, taskOver, readers, taskIds>>
        /\ notifications' \subseteq notifications /\ subscribers' = subscribers
        /\ listener' = [note |-> note, calls |-> SubscribersOf(note.id)] \/ listener' = listener
    BY DEF ListenerReceives, taskMemory
  <1>3. CASE listener' = [note |-> note, calls |-> SubscribersOf(note.id)]
    <2>1. /\ listener' \in [note : Notification \cup {NoNotification}, calls : SUBSET TaskReader]
          /\ listener'.note = note /\ \A d \in listener'.calls : d \in TaskReader /\ <<note.id, d>> \in subscribers
      BY <1>1, <1>3 DEF SubscribersOf
    <2>2. ASSUME OneTable, NEW d \in listener'.calls
          PROVE  readers[d].id = note.id /\ readers[d].pc # "new"
                 /\ RowIn(committedTasks, uncommittedTasks, note.id, note.req)
      <3>1. SubscribersKnown /\ NotesKnown
        BY <2>2 DEF TasksInv, TasksTold
      <3>2. readers[<<note.id, d>>[2]].id = <<note.id, d>>[1] /\ readers[<<note.id, d>>[2]].pc # "new"
        BY <2>1, <2>2, <3>1 DEF SubscribersKnown
      <3> QED
        BY <3>1, <3>2 DEF NotesKnown
    <2> QED
      BY <1>2, <2>1, <2>2, ListenerMoves
  <1>4. CASE listener' = listener
    BY <1>1, <1>2, <1>4, ListenerMoves DEF TasksInv, TasksTyped, TasksTold, SubscribersKnown
  <1> QED
    BY <1>2, <1>3, <1>4

LEMMA ListenerCallsKeeps ==
    ASSUME TasksInv, NEW c \in TaskReader, ListenerCalls(c)
    PROVE  TasksInv'
  <1> DEFINE note == listener.note
             row == [req |-> note.req, state |-> note.state]
  <1>1. TasksTyped /\ readers[c] \in Reader /\ c \in listener.calls
    BY DEF TasksInv, TasksTyped, ListenerCalls
  <1>2. /\ UNCHANGED <<taskTables, works, jobsCreated, taskOver, taskIds, notifications, subscribers>>
        /\ listener' = [listener EXCEPT !.calls = @ \ {c}]
        /\ \/ readers[c].pc = "wait"
              /\ readers' = [readers EXCEPT ![c] = [readers[c] EXCEPT !.pc = "answered", !.answer = row]]
           \/ UNCHANGED readers
    BY DEF ListenerCalls, taskMemory, Answer, SetReader
  <1>3. /\ listener' \in [note : Notification \cup {NoNotification}, calls : SUBSET TaskReader]
        /\ listener'.note = note /\ listener'.calls \subseteq listener.calls
    BY <1>1, <1>2 DEF TasksTyped
  <1>4. ASSUME OneTable
        PROVE  /\ \A d \in listener.calls : readers[d].id = note.id /\ readers[d].pc # "new"
               /\ RowIn(committedTasks, uncommittedTasks, note.id, note.req)
               /\ readers[c].pc = "wait" => readers[c].for = note.req
    <2>1. SubscribersKnown /\ ReadersKnown
      BY <1>4 DEF TasksInv, TasksTold
    <2>2. RowIn(committedTasks, uncommittedTasks, note.id, note.req) /\ readers[c].id = note.id
      BY <1>1, <2>1 DEF SubscribersKnown
    <2>3. readers[c].pc = "wait" => RowIn(committedTasks, uncommittedTasks, note.id, readers[c].for)
      BY <2>1, <2>2 DEF ReadersKnown
    <2> QED
      BY <2>1, <2>2, <2>3 DEF SubscribersKnown, RowIn
  <1>5. CASE readers[c].pc = "wait"
             /\ readers' = [readers EXCEPT ![c] = [readers[c] EXCEPT !.pc = "answered", !.answer = row]]
    <2>1. row \in [req : TaskRequest \cup {NoTask}, state : TaskState] /\ row.req = note.req
      <3>1. note \in Notification \cup {NoNotification}
        BY <1>1 DEF TasksTyped
      <3> QED
        BY <3>1 DEF Notification, NoNotification, TaskState
    <2> HIDE DEF row
    <2> DEFINE r == [readers[c] EXCEPT !.pc = "answered", !.answer = row]
    <2>2. /\ r \in Reader /\ r.pc = "answered" /\ r.id = readers[c].id
          /\ r.for = readers[c].for /\ r.answer = row
      BY <1>1, <2>1 DEF Reader, ReaderPC
    <2>3. readers' = [readers EXCEPT ![c] = r]
      BY <1>5
    <2> HIDE DEF r, note
    <2>4. OneTable /\ r.pc = "answered" => r.answer.req = r.for
      BY <1>4, <1>5, <2>1, <2>2
    <2>5. subscribers' \subseteq Nat \X TaskReader /\ subscribers' = subscribers
      BY <1>1, <1>2 DEF TasksTyped
    <2>6. listener'.note = listener.note
      BY <1>3 DEF note
    <2> QED
      BY <1>1, <1>2, <1>3, <2>2, <2>3, <2>4, <2>5, <2>6, IdsTold, ReaderMoves
  <1>6. CASE UNCHANGED readers
    BY <1>1, <1>2, <1>3, <1>4, <1>6, ListenerMoves
  <1> QED
    BY <1>2, <1>5, <1>6

LEMMA ListenerForgetsKeeps ==
    ASSUME TasksInv, ListenerForgets
    PROVE  TasksInv'
  <1>1. /\ UNCHANGED <<taskTables, works, jobsCreated, taskOver, readers, taskIds, notifications>>
        /\ subscribers' \subseteq subscribers
        /\ listener' = [note |-> NoNotification, calls |-> {}]
    BY DEF ListenerForgets
  <1>2. listener' \in [note : Notification \cup {NoNotification}, calls : SUBSET TaskReader]
        /\ listener'.calls = {}
    BY <1>1
  <1> QED
    BY <1>1, <1>2, ListenerMoves

-----------------------------------------------------------------------------
(* The theorems.                                                           *)

LEMMA TasksStart == ASSUME AsyncTasksInit PROVE TasksInv
  <1>1. /\ committedTasks = <<>> /\ uncommittedTasks = <<>> /\ taskOver = {} /\ notifications = {}
        /\ subscribers = {} /\ taskIds = [q \in TaskRequest |-> 0]
        /\ listener = [note |-> NoNotification, calls |-> {}]
        /\ works = [q \in TaskRequest |-> [pc |-> "none", id |-> 0]]
        /\ jobsCreated = [q \in TaskRequest |-> 0]
        /\ \E come \in SUBSET TaskReader :
              readers = [c \in TaskReader |-> [NewReader EXCEPT !.pc = IF c \in come THEN @ ELSE "gone"]]
    BY DEF AsyncTasksInit
  <1>2. readers \in [TaskReader -> Reader] /\ \A c \in TaskReader : readers[c].pc \in {"new", "gone"}
    BY <1>1 DEF Reader, ReaderPC, NewReader, NoAnswer, TaskState
  <1>3. committedTasks \in Seq(TaskRow) /\ uncommittedTasks \in Seq(TaskRow)
        /\ DOMAIN committedTasks = {} /\ DOMAIN uncommittedTasks = {}
    BY <1>1
  <1>4. TasksTyped
    BY <1>1, <1>2, <1>3 DEF TasksTyped, Work
  <1>5. TasksTold
    BY <1>1, <1>2, <1>3, AsyncTasksAssumption
    DEF TasksTold, WorksKnown, IdsKnown, NotesKnown, ReadersKnown, SubscribersKnown,
        AnswersRight, RowsTold, JobsCounted, AtWork
  <1> QED
    BY <1>4, <1>5 DEF TasksInv

LEMMA TasksStep == ASSUME TasksInv, [AsyncTasksNext]_asyncTaskVars PROVE TasksInv'
  <1>1. ASSUME NEW q \in TaskRequest,
               \/ AddTasks(q) \/ ReplicateTask(q)
               \/ WorkProceeds(q) \/ WorkGoesOn(q) \/ WorkDone(q)
               \/ \E c \in TaskReader : GetTaskWithRequestIdNonBlocking(c, q)
        PROVE  TasksInv'
    BY <1>1, AddTasksKeeps, ReplicateTaskKeeps, WorkKeeps, GetTaskNonBlockingKeeps DEF WorkProceeds
  <1>2. ASSUME NEW mode, SetTaskMode(mode) PROVE TasksInv'
    BY <1>2, SetTaskModeKeeps
  <1>3. ASSUME NEW row \in taskOver, HandleUncommittedAsyncTask(row) PROVE TasksInv'
    BY <1>3, HandleUncommittedKeeps
  <1>4. CASE ListenerProceeds
    BY <1>4, ListenerReceivesKeeps, ListenerCallsKeeps, ListenerForgetsKeeps DEF ListenerProceeds
  <1>5. ASSUME NEW c \in TaskReader, ReaderProceeds(c) PROVE TasksInv'
    BY <1>5, GetTaskBlockingKeeps, AddSubscriberKeeps, ReaderLeavesKeeps DEF ReaderProceeds
  <1>6. CASE UNCHANGED asyncTaskVars
    BY <1>6, ListenerMoves DEF asyncTaskVars, taskMemory, TasksInv, TasksTyped, TasksTold, SubscribersKnown
  <1> QED
    BY <1>1, <1>2, <1>3, <1>4, <1>5, <1>6 DEF AsyncTasksNext

LEMMA TasksInvariant == AsyncTasksSpec => []TasksInv
  BY TasksStart, TasksStep, PTL DEF AsyncTasksSpec

LEMMA NotMixed == ASSUME TasksInv, ~Mixed PROVE TasksTold
  <1>1. CASE \E q \in TaskRequest : works[q].id # 0
    BY <1>1 DEF Mixed, TasksInv, OneTable
  <1>2. CASE ~ \E q \in TaskRequest : works[q].id # 0
    BY <1>2 DEF TasksInv, TasksTyped, OneTable
  <1> QED
    BY <1>1, <1>2

(* For any number of requests, readers and changes of mode: a reader that   *)
(* is told how its task stands is told about the task it asked for, though  *)
(* subscribers, updates and rows are found by a number alone                *)
(* (async_task.go:219-309, 359-387), as long as the rows of the node are in *)
(* the table of its mode.                                                   *)
THEOREM ReadersToldOfTheirTask == AsyncTasksSpec => []AnswersOwn
  <1>1. TasksInv => AnswersOwn
    BY NotMixed DEF AnswersOwn, TasksTold, AnswersRight
  <1> QED
    BY <1>1, TasksInvariant, PTL

(* Likewise, a task that says it succeeded has created its jobs, once, and  *)
(* one that says it failed has created none (job.go:460-523): whatever the  *)
(* order of the updates, the last one says how the work ended.              *)
THEOREM TasksTellTheTruth == AsyncTasksSpec => []JobsMatchTask
  <1>1. TasksInv => JobsMatchTask
    BY NotMixed DEF JobsMatchTask, TasksTold, RowsTold, Told
  <1> QED
    BY <1>1, TasksInvariant, PTL

-----------------------------------------------------------------------------
(* The planner of send times. What clocks show, and hours of the day.       *)
LEMMA ClockShows ==
    ASSUME NEW p \in Participant, NEW t \in Int
    PROVE  /\ Local(p, t) \in Int /\ MinuteOfDay(p, t) \in Minute
           /\ LocalDay(p, t) \in Int /\ Weekday(p, t) \in 0..6
  <1>1. Local(p, t) \in Int
    BY DEF Local, Participant
  <1>2. MinuteOfDay(p, t) \in Minute
    BY <1>1 DEF MinuteOfDay, Minute, Day
  <1>3. LocalDay(p, t) \in Int
    BY <1>1 DEF LocalDay, Day
  <1>4. Weekday(p, t) \in 0..6
    BY <1>3 DEF Weekday
  <1> QED
    BY <1>1, <1>2, <1>3, <1>4

(* Hours that cross midnight or do not are an arc of the clock.             *)
LEMMA HoursOnArc ==
    ASSUME NEW m \in Minute, NEW hours \in Minute \X Minute
    PROVE  /\ InQuiet(m, hours) <=> OnArc(m, hours)
           /\ hours[1] < hours[2] => ((m >= hours[1] /\ m < hours[2]) <=> OnArc(m, hours))
  <1> DEFINE a == hours[1]
             b == hours[2]
  <1>1. a \in Minute /\ b \in Minute
    OBVIOUS
  <1>2. InQuiet(m, hours) <=> (a # b /\ IF a < b THEN m >= a /\ m < b ELSE m >= a \/ m < b)
    BY DEF InQuiet
  <1>3. OnArc(m, hours) <=> (m - a) % 1440 < (b - a) % 1440
    BY DEF OnArc, Day
  <1> HIDE DEF a, b
  <1>4. \A x \in (-1439)..1439 : x % 1440 = IF x >= 0 THEN x ELSE x + 1440
    OBVIOUS
  <1>5. /\ a \in 0..1439 /\ b \in 0..1439 /\ m \in 0..1439
        /\ m - a \in (-1439)..1439 /\ b - a \in (-1439)..1439
    BY <1>1 DEF Minute, Day
  <1>6. /\ (m - a) % 1440 = IF m >= a THEN m - a ELSE m - a + 1440
        /\ (b - a) % 1440 = IF b >= a THEN b - a ELSE b - a + 1440
    BY <1>4, <1>5
  <1>7. (a # b /\ IF a < b THEN m >= a /\ m < b ELSE m >= a \/ m < b) <=> (m - a) % 1440 < (b - a) % 1440
    BY <1>5, <1>6
  <1>8. a < b => ((m >= a /\ m < b) <=> (m - a) % 1440 < (b - a) % 1440)
    BY <1>5, <1>6
  <1> QED
    BY <1>2, <1>3, <1>7, <1>8 DEF a, b

LEMMA QuietHours ==
    ASSUME NEW p \in Participant, NEW t \in Int
    PROVE  WithinQuiet(p, t) <=> Quiet(p, t)
  <1>1. p.quiet # <<>> => p.quiet \in Minute \X Minute
    BY DEF Participant
  <1>2. MinuteOfDay(p, t) \in Minute
    BY ClockShows
  <1> QED
    BY <1>1, <1>2, HoursOnArc DEF WithinQuiet, Quiet

LEMMA WorkingHours ==
    ASSUME NEW p \in Participant, NEW t \in Int
    PROVE  WithinWorking(p, t)
             <=> Weekday(p, t) \in p.days /\ p.work[1] < p.work[2] /\ OnArc(MinuteOfDay(p, t), p.work)
  <1>1. p.work \in Minute \X Minute /\ p.work[1] \in Minute /\ p.work[2] \in Minute
    BY DEF Participant
  <1>2. MinuteOfDay(p, t) \in Minute
    BY ClockShows
  <1>3. p.work[1] < p.work[2] =>
          ((MinuteOfDay(p, t) >= p.work[1] /\ MinuteOfDay(p, t) < p.work[2]) <=> OnArc(MinuteOfDay(p, t), p.work))
    BY <1>1, <1>2, HoursOnArc
  <1>4. MinuteOfDay(p, t) >= p.work[1] /\ MinuteOfDay(p, t) < p.work[2] => p.work[1] < p.work[2]
    <2>1. \A m, a, b \in Minute : m >= a /\ m < b => a < b
      BY DEF Minute, Day
    <2> QED
      BY <1>1, <1>2, <2>1
  <1> QED
    BY <1>3, <1>4 DEF WithinWorking

LEMMA ValidReached ==
    ASSUME NEW req, NEW p \in Participant, NEW t \in Int
    PROVE  RecipientValid(req, p, t) <=> Reaches(req, p, t)
  <1>1. Weekday(p, t) \in {0, 6} <=> Weekday(p, t) % 6 = 0
    <2>1. Weekday(p, t) \in 0..6
      BY ClockShows
    <2> QED
      BY <2>1
  <1> QED
    BY <1>1, QuietHours, WorkingHours DEF RecipientValid, Reaches

(* Enough recipients are reached when few enough are missed.                *)
LEMMA EnoughReached ==
    ASSUME NEW n \in Nat, NEW c \in 0..100, NEW reached \in Nat, NEW missed \in Nat, reached = n - missed
    PROVE  /\ 100 * reached >= c * n <=> 100 * missed <= (100 - c) * n
           /\ ~(c < 100) => (missed = 0 <=> 100 * missed <= (100 - c) * n)
  <1>1. PICK y : y = c * n
    OBVIOUS
  <1>2. y \in Int /\ (100 - c) * n = 100 * n - y
    BY <1>1
  <1>3. 100 * reached >= y <=> 100 * missed <= 100 * n - y
    BY <1>2
  <1>4. c = 100 => 100 * n - y = 0
    BY <1>1
  <1>5. ~(c < 100) => c = 100
    OBVIOUS
  <1> QED
    BY <1>1, <1>2, <1>3, <1>4, <1>5

LEMMA CoveredOrMissed ==
    ASSUME NEW req, Resolved(req), Valid(req), NEW valid, valid \subseteq Recipients(req)
    PROVE  LET missed == Recipients(req) \ valid IN
           Covers(req, valid) <=>
             CASE req.strategy = "best_effort" -> TRUE
               [] req.strategy = "primary_recipients" /\ Primaries(req) # {} -> missed \cap Primaries(req) = {}
               [] req.strategy = "primary_recipients" /\ Primaries(req) = {} -> missed = {}
               [] OTHER -> 100 * Cardinality(missed) <= (100 - req.coverage) * Len(req.recipients)
  <1> DEFINE missed == Recipients(req) \ valid
             n == Len(req.recipients)
             v == req.coverage
  <1>1. n \in Nat /\ Recipients(req) = 1..n /\ v \in 0..100 /\ req.strategy \in Strategies
    BY DEF Resolved, Valid, Recipients
  <1>2. IsFiniteSet(Recipients(req)) /\ Cardinality(Recipients(req)) = n
    <2> HIDE DEF n
    <2>1. 1 \in Int /\ n \in Int
      BY <1>1
    <2>2. IsFiniteSet(1..n) /\ Cardinality(1..n) = IF 1 > n THEN 0 ELSE n - 1 + 1
      BY <2>1, FS_Interval
    <2> QED
      BY <1>1, <2>2
  <1>3. IsFiniteSet(valid) /\ IsFiniteSet(missed) /\ Cardinality(valid) \in Nat /\ Cardinality(missed) \in Nat
    BY <1>2, FS_Subset, FS_CardinalityType
  <1>4. Cardinality(valid) = n - Cardinality(missed)
    <2>1. Recipients(req) \cap valid = valid
      OBVIOUS
    <2>2. Cardinality(missed) = Cardinality(Recipients(req)) - Cardinality(Recipients(req) \cap valid)
      BY <1>2, <1>3, FS_Difference
    <2> HIDE DEF missed, n
    <2>3. Cardinality(missed) = n - Cardinality(valid)
      BY <1>2, <2>1, <2>2
    <2> QED
      BY <1>1, <1>3, <2>3
  <1>5. missed = {} <=> Cardinality(missed) = 0
    BY <1>3, FS_EmptySet
  <1>6. valid = Recipients(req) <=> missed = {}
    OBVIOUS
  <1>7. Primaries(req) \subseteq valid <=> missed \cap Primaries(req) = {}
    BY DEF Primaries
  <1> HIDE DEF missed, n, v
  <1>8. /\ 100 * Cardinality(valid) >= v * n <=> 100 * Cardinality(missed) <= (100 - v) * n
        /\ ~(v < 100) => (missed = {} <=> 100 * Cardinality(missed) <= (100 - v) * n)
    BY <1>1, <1>3, <1>4, <1>5, EnoughReached
  <1>11. CASE req.strategy = "best_effort"
    BY <1>11 DEF Covers, missed
  <1>12. CASE req.strategy = "primary_recipients"
    <2>1. Covers(req, valid) <=> IF Primaries(req) = {} THEN missed = {} ELSE missed \cap Primaries(req) = {}
      BY <1>12, <1>6, <1>7 DEF Covers
    <2>2. CASE Primaries(req) = {}
      BY <1>12, <2>1, <2>2 DEF missed
    <2>3. CASE Primaries(req) # {}
      BY <1>12, <2>1, <2>3 DEF missed
    <2> QED
      BY <2>2, <2>3
  <1>13. CASE req.strategy = "majority"
    BY <1>13, <1>8 DEF Covers, missed, n, v
  <1>14. CASE req.strategy = "all_recipients"
    BY <1>14, <1>6, <1>8 DEF Covers, missed, n, v
  <1> QED
    BY <1>1, <1>11, <1>12, <1>13, <1>14 DEF Strategies

LEMMA AcceptsAllowed ==
    ASSUME NEW req, Resolved(req), Valid(req), NEW t \in Int, t >= WindowStart(req), t <= WindowEnd(req)
    PROVE  Accepts(req, t) <=> Allowed(req, t)
  <1> DEFINE missed == {i \in Recipients(req) : ~Reaches(req, req.recipients[i], t)}
             valid == ValidRecipients(req, t)
  <1>1. \A i \in Recipients(req) : req.recipients[i] \in Participant
    BY DEF Resolved, Recipients
  <1>2. \A i \in Recipients(req) : RecipientValid(req, req.recipients[i], t) <=> Reaches(req, req.recipients[i], t)
    BY <1>1, ValidReached
  <1>3. valid \subseteq Recipients(req) /\ missed = Recipients(req) \ valid
    BY <1>2 DEF ValidRecipients
  <1>4. \A s \in req.sender : WithinQuiet(s, t) <=> Quiet(s, t)
    BY QuietHours DEF Resolved
  <1>5. Covers(req, valid) <=>
          CASE req.strategy = "best_effort" -> TRUE
            [] req.strategy = "primary_recipients" /\ Primaries(req) # {} -> missed \cap Primaries(req) = {}
            [] req.strategy = "primary_recipients" /\ Primaries(req) = {} -> missed = {}
            [] OTHER -> 100 * Cardinality(missed) <= (100 - req.coverage) * Len(req.recipients)
    <2> HIDE DEF valid, missed
    <2> QED
      BY <1>3, CoveredOrMissed
  <1>6. Accepts(req, t) <=>
          /\ t >= req.reference
          /\ req.respectQuiet => \A s \in req.sender : ~WithinQuiet(s, t)
          /\ Covers(req, valid)
    BY DEF Accepts
  <1>7. Allowed(req, t) <=>
          /\ t >= WindowStart(req) /\ t >= req.reference /\ t <= WindowEnd(req)
          /\ ~\E s \in req.sender : req.respectQuiet /\ Quiet(s, t)
          /\ CASE req.strategy = "best_effort" -> TRUE
               [] req.strategy = "primary_recipients" /\ Primaries(req) # {} -> missed \cap Primaries(req) = {}
               [] req.strategy = "primary_recipients" /\ Primaries(req) = {} -> missed = {}
               [] OTHER -> 100 * Cardinality(missed) <= (100 - req.coverage) * Len(req.recipients)
    BY DEF Allowed
  <1> HIDE DEF valid, missed
  <1> QED
    BY <1>4, <1>5, <1>6, <1>7

-----------------------------------------------------------------------------
(* The search: its instants lie an interval apart, and those are scored     *)
(* that are accepted.                                                       *)
Step(req, k) == AlignUp(WindowStart(req), req.interval) + k * req.interval
ScoredOf(req, n) ==
    {Candidate(Step(req, k), Score(req, Step(req, k)), FALSE) : k \in {k \in 0..(n - 1) : Accepts(req, Step(req, k))}}

(* The search has looked at n instants, and is at its end if it has ended.  *)
LooksAt(req, n) == n = 0 \/ (Step(req, n - 1) <= WindowEnd(req) /\ n <= MaxCandidates)
EndsAt(req, n) == Step(req, n) > WindowEnd(req) \/ n >= MaxCandidates

SearchInv ==
    /\ search.pc \in {"idle", "searching", "answered"}
    /\ search.pc = "searching" =>
           /\ search.request \in SendTimeRequest /\ Valid(search.request)
           /\ DOMAIN search = {"pc", "request", "scored", "generated", "candidate"}
           /\ search.generated \in Nat /\ LooksAt(search.request, search.generated)
           /\ search.candidate = Step(search.request, search.generated)
           /\ search.scored = ScoredOf(search.request, search.generated)
    /\ search.pc = "answered" =>
           /\ search.request \in SendTimeRequest /\ Valid(search.request)
           /\ \E n \in Nat : /\ LooksAt(search.request, n) /\ EndsAt(search.request, n)
                             /\ search.scored = ScoredOf(search.request, n)
           /\ search.sendNow = SendNow(search.request)
           /\ search.suggestions = SelectSuggestions(search.request, Ordered(search.request, search.scored))

LEMMA WindowType ==
    ASSUME NEW req, Resolved(req)
    PROVE  WindowStart(req) \in Int /\ Horizon(req) \in Int /\ WindowEnd(req) \in Int
  <1>1. PICK x : x = req.reference + req.delay
    OBVIOUS
  <1>2. x \in Int /\ req.reference \in Int
    BY <1>1 DEF Resolved
  <1>3. WindowStart(req) = IF req.earliest # NoInstant /\ req.earliest > x THEN req.earliest ELSE x
    BY <1>1 DEF WindowStart
  <1>4. WindowStart(req) \in Int
    BY <1>2, <1>3 DEF Resolved
  <1>5. Horizon(req) \in Int
    BY DEF Resolved, Horizon, Day
  <1>6. WindowEnd(req) \in Int
    <2>1. req.reference + Horizon(req) \in Int
      BY <1>2, <1>5
    <2> QED
      BY <2>1 DEF WindowEnd, Resolved
  <1> QED
    BY <1>4, <1>5, <1>6

LEMMA StepType ==
    ASSUME NEW req, Resolved(req), Valid(req)
    PROVE  /\ req.interval \in Nat /\ req.interval > 0
           /\ AlignUp(WindowStart(req), req.interval) \in Int
           /\ AlignUp(WindowStart(req), req.interval) >= WindowStart(req)
           /\ \A k \in Int : Step(req, k) \in Int
           /\ \A k \in Int : Step(req, k + 1) = Step(req, k) + req.interval
           /\ \A j \in Int : \A k \in Int : j < k => Step(req, j) < Step(req, k)
           /\ \A k \in Nat : Step(req, k) >= WindowStart(req)
  <1>1. req.interval \in {5, 10, 15, 30, 60}
    BY DEF Valid
  <1>2. PICK w : w = WindowStart(req)
    OBVIOUS
  <1>3. PICK d : d = req.interval
    OBVIOUS
  <1>4. PICK a : a = AlignUp(w, d)
    OBVIOUS
  <1>5. w \in Int
    BY <1>2, WindowType
  <1>6. d \in {5, 10, 15, 30, 60}
    BY <1>1, <1>3
  <1>7. a \in Int /\ a >= w
    <2>1. w % d \in 0..(d - 1)
      BY <1>5, <1>6
    <2>2. a = IF w % d = 0 THEN w ELSE w - (w % d) + d
      BY <1>4 DEF AlignUp
    <2>3. PICK r : r = w % d
      OBVIOUS
    <2> QED
      BY <1>5, <1>6, <2>1, <2>2, <2>3
  <1>8. \A k : Step(req, k) = a + k * d
    BY <1>2, <1>3, <1>4 DEF Step
  <1>9. \A k \in Int : k * d \in Int /\ (k + 1) * d = k * d + d
    BY <1>6
  <1>10. \A j \in Int : \A k \in Int : j < k => j * d < k * d
    <2> SUFFICES ASSUME NEW j \in Int, NEW k \in Int, j < k PROVE j * d < k * d
      OBVIOUS
    <2>1. j * 5 < k * 5 /\ j * 10 < k * 10 /\ j * 15 < k * 15 /\ j * 30 < k * 30 /\ j * 60 < k * 60
      OBVIOUS
    <2> QED
      BY <1>6, <2>1
  <1>11. \A k \in Nat : k * d >= 0
    BY <1>6
  <1>12. \A k \in Int : Step(req, k) \in Int
    BY <1>6, <1>7, <1>8, <1>9
  <1>13. \A k \in Int : Step(req, k + 1) = Step(req, k) + d
    <2> SUFFICES ASSUME NEW k \in Int PROVE Step(req, k + 1) = Step(req, k) + d
      OBVIOUS
    <2>1. PICK x : x = k * d
      OBVIOUS
    <2> QED
      BY <1>6, <1>7, <1>8, <1>9, <2>1
  <1>14. \A j \in Int : \A k \in Int : j < k => Step(req, j) < Step(req, k)
    <2> SUFFICES ASSUME NEW j \in Int, NEW k \in Int, j < k PROVE a + j * d < a + k * d
      BY <1>8
    <2>1. PICK x : x = k * d
      OBVIOUS
    <2>2. PICK y : y = j * d
      OBVIOUS
    <2>3. x \in Int /\ y \in Int /\ y < x
      BY <1>9, <1>10, <2>1, <2>2
    <2> QED
      BY <1>7, <2>1, <2>2, <2>3
  <1>15. \A k \in Nat : Step(req, k) >= w
    <2> SUFFICES ASSUME NEW k \in Nat PROVE a + k * d >= w
      BY <1>8
    <2>1. PICK x : x = k * d
      OBVIOUS
    <2>2. x \in Int /\ x >= 0
      BY <1>9, <1>11, <2>1
    <2> QED
      BY <1>5, <1>7, <2>1, <2>2
  <1>16. d \in Nat /\ d > 0
    BY <1>6
  <1> QED
    BY <1>2, <1>3, <1>4, <1>7, <1>12, <1>13, <1>14, <1>15, <1>16

LEMMA ScoredMember ==
    ASSUME NEW req, NEW n
    PROVE  /\ \A c : c \in ScoredOf(req, n) <=>
                   \E k \in 0..(n - 1) : /\ Accepts(req, Step(req, k))
                                         /\ c = Candidate(Step(req, k), Score(req, Step(req, k)), FALSE)
           /\ \A t : t \in {c.instant : c \in ScoredOf(req, n)} <=>
                   \E k \in 0..(n - 1) : Accepts(req, Step(req, k)) /\ t = Step(req, k)
  <1>1. \A c : c \in ScoredOf(req, n) <=>
             \E k \in 0..(n - 1) : /\ Accepts(req, Step(req, k))
                                   /\ c = Candidate(Step(req, k), Score(req, Step(req, k)), FALSE)
    BY DEF ScoredOf
  <1>2. \A t, score, forced : Candidate(t, score, forced).instant = t
    BY DEF Candidate
  <1>3. ASSUME NEW t PROVE t \in {c.instant : c \in ScoredOf(req, n)} <=>
             \E k \in 0..(n - 1) : Accepts(req, Step(req, k)) /\ t = Step(req, k)
    <2>1. ASSUME NEW c \in ScoredOf(req, n), t = c.instant
          PROVE  \E k \in 0..(n - 1) : Accepts(req, Step(req, k)) /\ t = Step(req, k)
      <3>1. PICK k \in 0..(n - 1) : /\ Accepts(req, Step(req, k))
                                    /\ c = Candidate(Step(req, k), Score(req, Step(req, k)), FALSE)
        BY <1>1
      <3>2. c.instant = Step(req, k)
        BY <1>2, <3>1
      <3> QED
        BY <2>1, <3>1, <3>2
    <2>2. ASSUME NEW k \in 0..(n - 1), Accepts(req, Step(req, k)), t = Step(req, k)
          PROVE  \E c \in ScoredOf(req, n) : t = c.instant
      <3>1. PICK c : c = Candidate(Step(req, k), Score(req, Step(req, k)), FALSE)
        OBVIOUS
      <3>2. c.instant = t
        BY <1>2, <2>2, <3>1
      <3> QED
        BY <1>1, <2>2, <3>1, <3>2
    <2> QED
      BY <2>1, <2>2
  <1> QED
    BY <1>1, <1>3

LEMMA ScoredGrows ==
    ASSUME NEW req, NEW n \in Nat
    PROVE  /\ ScoredOf(req, 0) = {}
           /\ ScoredOf(req, n + 1) =
                IF Accepts(req, Step(req, n))
                THEN ScoredOf(req, n) \cup {Candidate(Step(req, n), Score(req, Step(req, n)), FALSE)}
                ELSE ScoredOf(req, n)
  <1>1. 0..(0 - 1) = {}
    OBVIOUS
  <1>2. 0..((n + 1) - 1) = 0..(n - 1) \cup {n}
    OBVIOUS
  <1> QED
    BY <1>1, <1>2 DEF ScoredOf

LEMMA SearchStep == ASSUME SearchInv, [SendTimeNext]_sendTimeVars PROVE SearchInv'
  <1>1. ASSUME NEW req \in SendTimeRequest, SendTimeSuggestions(req) PROVE SearchInv'
    <2>1. Resolved(req) /\ Valid(req)
      BY <1>1, SendTimeAssumption DEF SendTimeSuggestions
    <2>2. search' = [pc |-> "searching", request |-> req, scored |-> {}, generated |-> 0,
                     candidate |-> AlignUp(WindowStart(req), req.interval)]
      BY <1>1 DEF SendTimeSuggestions
    <2>3. Step(req, 0) = AlignUp(WindowStart(req), req.interval)
      BY <2>1, StepType DEF Step
    <2>4. LooksAt(req, 0)
      BY DEF LooksAt
    <2>5. 0 \in Nat /\ ScoredOf(req, 0) = {}
      BY ScoredGrows
    <2> QED
      BY <2>1, <2>2, <2>3, <2>4, <2>5 DEF SearchInv
  <1>2. ASSUME EvaluateCandidate PROVE SearchInv'
    <2>1. PICK req : req = search.request
      OBVIOUS
    <2>2. PICK n : n = search.generated
      OBVIOUS
    <2>3. /\ search.pc = "searching" /\ req \in SendTimeRequest /\ Valid(req) /\ n \in Nat /\ LooksAt(req, n)
          /\ DOMAIN search = {"pc", "request", "scored", "generated", "candidate"}
          /\ search.candidate = Step(req, n) /\ search.scored = ScoredOf(req, n)
      BY <1>2, <2>1, <2>2 DEF SearchInv, EvaluateCandidate
    <2>4. Resolved(req)
      BY <2>3, SendTimeAssumption
    <2>5. Step(req, n) <= WindowEnd(req) /\ n < MaxCandidates
      BY <1>2, <2>1, <2>2, <2>3 DEF EvaluateCandidate, SearchGoesOn
    <2>6. search' = [search EXCEPT !.candidate = Step(req, n) + req.interval, !.generated = @ + 1,
                         !.scored = IF Accepts(req, Step(req, n))
                                    THEN @ \cup {Candidate(Step(req, n), Score(req, Step(req, n)), FALSE)} ELSE @]
      BY <1>2, <2>1, <2>3 DEF EvaluateCandidate
    <2>7. n \in Int /\ n + 1 \in Nat /\ (n + 1) - 1 = n /\ n + 1 <= MaxCandidates
      BY <2>3, <2>5, SendTimeAssumption
    <2>8. Step(req, n + 1) = Step(req, n) + req.interval
      BY <2>3, <2>4, <2>7, StepType
    <2>9. LooksAt(req, n + 1)
      BY <2>5, <2>7 DEF LooksAt
    <2>10. PICK scored : scored = ScoredOf(req, n + 1)
      OBVIOUS
    <2>11. scored = IF Accepts(req, Step(req, n))
                    THEN search.scored \cup {Candidate(Step(req, n), Score(req, Step(req, n)), FALSE)}
                    ELSE search.scored
      BY <2>3, <2>10, ScoredGrows
    <2>12. search' = [search EXCEPT !.candidate = Step(req, n + 1), !.generated = n + 1, !.scored = scored]
      BY <2>2, <2>6, <2>8, <2>11
    <2>13. DOMAIN search' = {"pc", "request", "scored", "generated", "candidate"}
      BY <2>3, <2>12
    <2>14. search'.pc = "searching" /\ search'.request = req
      BY <2>1, <2>3, <2>12
    <2>15. search'.candidate = Step(req, n + 1) /\ search'.generated = n + 1 /\ search'.scored = scored
      BY <2>3, <2>12
    <2> QED
      BY <2>3, <2>7, <2>9, <2>10, <2>13, <2>14, <2>15 DEF SearchInv
  <1>3. ASSUME Suggest PROVE SearchInv'
    <2>1. PICK req : req = search.request
      OBVIOUS
    <2>2. PICK n : n = search.generated
      OBVIOUS
    <2>3. PICK scored : scored = search.scored
      OBVIOUS
    <2>4. /\ search.pc = "searching" /\ req \in SendTimeRequest /\ Valid(req) /\ n \in Nat /\ LooksAt(req, n)
          /\ search.candidate = Step(req, n) /\ scored = ScoredOf(req, n)
      BY <1>3, <2>1, <2>2, <2>3 DEF SearchInv, Suggest
    <2>5. Resolved(req)
      BY <2>4, SendTimeAssumption
    <2>6. EndsAt(req, n)
      <3>1. Step(req, n) \in Int /\ WindowEnd(req) \in Int /\ MaxCandidates \in Int
        BY <2>4, <2>5, StepType, WindowType, SendTimeAssumption
      <3>2. ~(Step(req, n) <= WindowEnd(req) /\ n < MaxCandidates)
        BY <1>3, <2>1, <2>2, <2>4 DEF Suggest, SearchGoesOn
      <3> QED
        BY <2>4, <3>1, <3>2 DEF EndsAt
    <2>7. PICK now : now = SendNow(req)
      OBVIOUS
    <2>8. PICK suggested : suggested = SelectSuggestions(req, Ordered(req, scored))
      OBVIOUS
    <2>9. search' = [pc |-> "answered", request |-> req, scored |-> scored, sendNow |-> now, suggestions |-> suggested]
      BY <1>3, <2>1, <2>3, <2>7, <2>8 DEF Suggest
    <2>10. \E m \in Nat : LooksAt(req, m) /\ EndsAt(req, m) /\ scored = ScoredOf(req, m)
      BY <2>4, <2>6
    <2> QED
      BY <2>4, <2>7, <2>8, <2>9, <2>10 DEF SearchInv
  <1>4. ASSUME Respond PROVE SearchInv'
    BY <1>4 DEF Respond, NotSearching, SearchInv
  <1>5. ASSUME UNCHANGED sendTimeVars PROVE SearchInv'
    <2>1. search' = search
      BY <1>5 DEF sendTimeVars
    <2> QED
      BY <2>1 DEF SearchInv
  <1> QED
    BY <1>1, <1>2, <1>3, <1>4, <1>5 DEF SendTimeNext

LEMMA SearchInvariant == SendTimeSpec => []SearchInv
  <1>1. SendTimeInit => SearchInv
    BY DEF SendTimeInit, NotSearching, SearchInv
  <1> QED
    BY <1>1, SearchStep, PTL DEF SendTimeSpec

(* At its end it has looked at every instant of the window, or as many as   *)
(* it may.                                                                  *)
LEMMA SearchedAll ==
    ASSUME NEW req, Resolved(req), Valid(req), NEW n \in Nat, LooksAt(req, n), EndsAt(req, n)
    PROVE  LET last == (WindowEnd(req) - WindowStart(req)) \div req.interval
               steps == {Step(req, k) : k \in 0..(IF last < MaxCandidates THEN last ELSE MaxCandidates - 1)} IN
           {c.instant : c \in ScoredOf(req, n)} = {t \in steps : Allowed(req, t)}
  <1> DEFINE last == (WindowEnd(req) - WindowStart(req)) \div req.interval
             m == IF last < MaxCandidates THEN last ELSE MaxCandidates - 1
             steps == {Step(req, k) : k \in 0..m}
  <1>1. /\ req.interval \in Nat /\ req.interval > 0
        /\ \A k \in Int : Step(req, k) \in Int
        /\ \A j \in Int : \A k \in Int : j < k => Step(req, j) < Step(req, k)
        /\ \A k \in Nat : Step(req, k) >= WindowStart(req)
    BY StepType
  <1>2. WindowStart(req) \in Int /\ WindowEnd(req) \in Int /\ MaxCandidates \in Nat
    BY WindowType, SendTimeAssumption
  <1>3. last \in Int
    BY <1>1, <1>2
  <1>4. ASSUME NEW k \in Nat, k < n
        PROVE  /\ Step(req, k) \in Int /\ Step(req, k) >= WindowStart(req) /\ Step(req, k) <= WindowEnd(req)
               /\ k < MaxCandidates
    <2>1. k \in Int /\ n \in Int /\ n - 1 \in Int /\ (k = n - 1 \/ k < n - 1) /\ n # 0
      BY <1>4
    <2>2. Step(req, n - 1) <= WindowEnd(req) /\ n <= MaxCandidates
      BY <2>1 DEF LooksAt
    <2>3. k < MaxCandidates
      BY <1>2, <1>4, <2>2
    <2>4. Step(req, k) = Step(req, n - 1) \/ Step(req, k) < Step(req, n - 1)
      BY <1>1, <2>1
    <2>5. Step(req, k) \in Int /\ Step(req, n - 1) \in Int /\ Step(req, k) >= WindowStart(req)
      BY <1>1, <2>1
    <2> QED
      BY <1>2, <2>2, <2>3, <2>4, <2>5
  <1>5. ASSUME NEW k \in Nat PROVE Step(req, k) <= WindowEnd(req) => k <= last
    <2>1. PICK d : d = req.interval
      OBVIOUS
    <2>2. PICK x : x = WindowEnd(req) - WindowStart(req)
      OBVIOUS
    <2>3. d \in {5, 10, 15, 30, 60} /\ x \in Int /\ last = x \div d
      BY <1>2, <2>1, <2>2 DEF Valid
    <2>4. PICK a : a = AlignUp(WindowStart(req), req.interval)
      OBVIOUS
    <2>5. a \in Int /\ a >= WindowStart(req) /\ Step(req, k) = a + k * d
      BY <2>1, <2>4, StepType DEF Step
    <2>6. k * d \in Int
      BY <2>3
    <2>7. PICK y : y = k * d
      OBVIOUS
    <2>8. y <= x => k <= x \div d
      BY <2>3, <2>7
    <2>9. Step(req, k) <= WindowEnd(req) => y <= x
      BY <1>2, <2>2, <2>5, <2>6, <2>7
    <2> QED
      BY <2>3, <2>8, <2>9
  <1>6. ASSUME NEW k \in Nat, Step(req, k) <= WindowEnd(req), k < MaxCandidates PROVE k < n
    <2> SUFFICES ASSUME ~(k < n) PROVE FALSE
      OBVIOUS
    <2>1. n \in Int /\ k \in Int /\ (n = k \/ n < k)
      OBVIOUS
    <2>2. ~(n >= MaxCandidates)
      BY <1>2, <1>6, <2>1
    <2>3. Step(req, n) > WindowEnd(req)
      BY <2>2 DEF EndsAt
    <2>4. Step(req, n) = Step(req, k) \/ Step(req, n) < Step(req, k)
      BY <1>1, <2>1
    <2>5. Step(req, n) \in Int /\ Step(req, k) \in Int
      BY <1>1, <2>1
    <2> QED
      BY <1>2, <1>6, <2>3, <2>4, <2>5
  <1> HIDE DEF last
  <1>7. \A k \in Nat : k \in 0..m <=> k <= last /\ k < MaxCandidates
    BY <1>2, <1>3
  <1> HIDE DEF m
  <1>8. \A t : t \in {c.instant : c \in ScoredOf(req, n)} <=>
               \E k \in 0..(n - 1) : Accepts(req, Step(req, k)) /\ t = Step(req, k)
    BY ScoredMember
  <1>9. ASSUME NEW k \in 0..(n - 1) PROVE Step(req, k) \in steps /\ (Accepts(req, Step(req, k)) <=> Allowed(req, Step(req, k)))
    <2>1. k \in Nat /\ k < n
      OBVIOUS
    <2>2. Step(req, k) \in Int /\ Step(req, k) >= WindowStart(req) /\ Step(req, k) <= WindowEnd(req) /\ k < MaxCandidates
      BY <1>4, <2>1
    <2>3. k <= last
      BY <1>5, <2>1, <2>2
    <2>4. k \in 0..m
      BY <1>7, <2>1, <2>2, <2>3
    <2> QED
      BY <2>2, <2>4, AcceptsAllowed
  <1>10. ASSUME NEW k \in 0..m, Allowed(req, Step(req, k)) PROVE k \in 0..(n - 1)
    <2>0. m \in Int
      BY <1>2, <1>3 DEF m
    <2>1. k \in Nat
      BY <2>0
    <2>2. Step(req, k) <= WindowEnd(req) /\ k < MaxCandidates
      BY <1>7, <1>10, <2>1 DEF Allowed
    <2>3. k < n
      BY <1>6, <2>1, <2>2
    <2> QED
      BY <2>1, <2>3
  <1>11. {c.instant : c \in ScoredOf(req, n)} = {t \in steps : Allowed(req, t)}
    <2>1. ASSUME NEW t \in {c.instant : c \in ScoredOf(req, n)} PROVE t \in steps /\ Allowed(req, t)
      <3>1. PICK k \in 0..(n - 1) : Accepts(req, Step(req, k)) /\ t = Step(req, k)
        BY <1>8, <2>1
      <3> QED
        BY <1>9, <3>1
    <2>2. ASSUME NEW t \in steps, Allowed(req, t) PROVE t \in {c.instant : c \in ScoredOf(req, n)}
      <3>1. PICK k \in 0..m : t = Step(req, k)
        OBVIOUS
      <3>2. k \in 0..(n - 1)
        BY <1>10, <2>2, <3>1
      <3>3. Accepts(req, Step(req, k))
        BY <1>9, <2>2, <3>1, <3>2
      <3> QED
        BY <1>8, <3>1, <3>2, <3>3
    <2> HIDE DEF steps
    <2> QED
      BY <2>1, <2>2
  <1> QED
    BY <1>11 DEF last, m

-----------------------------------------------------------------------------
(* Sorting: the place of a candidate tells it from every other.             *)
Scored == [instant : Int, score : Int, forced : BOOLEAN]
Below(S, c) == {d \in S : LessCandidate(d, c)}
Place(S, c) == 1 + Cardinality(Below(S, c))
Moments(S) == IsFiniteSet(S) /\ S \subseteq Scored /\ \A c, d \in S : c.instant = d.instant => c = d

LEMMA LessIsOrder ==
    ASSUME NEW S, Moments(S), NEW a \in S, NEW b \in S, NEW c \in S
    PROVE  /\ ~LessCandidate(a, a)
           /\ LessCandidate(a, b) /\ LessCandidate(b, c) => LessCandidate(a, c)
           /\ a = b \/ LessCandidate(a, b) \/ LessCandidate(b, a)
  <1>1. /\ a.score \in Int /\ b.score \in Int /\ c.score \in Int
        /\ a.instant \in Int /\ b.instant \in Int /\ c.instant \in Int
        /\ a.instant = b.instant => a = b
    BY DEF Moments, Scored
  <1> QED
    BY <1>1 DEF LessCandidate

LEMMA PlaceLess ==
    ASSUME NEW S, Moments(S), NEW a \in S, NEW b \in S, LessCandidate(a, b)
    PROVE  Place(S, a) < Place(S, b)
  <1>1. Below(S, a) \subseteq Below(S, b) /\ a \in Below(S, b) /\ a \notin Below(S, a)
    BY LessIsOrder DEF Below
  <1>2. IsFiniteSet(Below(S, b)) /\ IsFiniteSet(Below(S, a))
    BY FS_Subset DEF Below, Moments
  <1>3. Cardinality(Below(S, a)) \in Nat /\ Cardinality(Below(S, b)) \in Nat
    BY <1>2, FS_CardinalityType
  <1>4. Cardinality(Below(S, a)) <= Cardinality(Below(S, b)) /\ Cardinality(Below(S, b)) # Cardinality(Below(S, a))
    BY <1>1, <1>2, FS_Subset
  <1> QED
    BY <1>3, <1>4 DEF Place

LEMMA PlaceInRange ==
    ASSUME NEW S, Moments(S), NEW a \in S
    PROVE  Cardinality(S) \in Nat /\ Place(S, a) \in 1..Cardinality(S)
  <1>1. IsFiniteSet(S) /\ IsFiniteSet(S \ {a}) /\ Cardinality(S \ {a}) = Cardinality(S) - 1
    BY FS_RemoveElement DEF Moments
  <1>2. Below(S, a) \subseteq S \ {a}
    BY LessIsOrder DEF Below
  <1>3. IsFiniteSet(Below(S, a)) /\ Cardinality(Below(S, a)) <= Cardinality(S \ {a})
    BY <1>1, <1>2, FS_Subset
  <1>4. Cardinality(Below(S, a)) \in Nat /\ Cardinality(S) \in Nat
    BY <1>1, <1>3, FS_CardinalityType
  <1> QED
    BY <1>1, <1>3, <1>4 DEF Place

LEMMA PlacesTaken ==
    ASSUME NEW S, Moments(S)
    PROVE  \A k \in 1..Cardinality(S) : \E c \in S : Place(S, c) = k
  <1> DEFINE n == Cardinality(S)
             f == [c \in S |-> Place(S, c)]
  <1>1. n \in Nat /\ IsFiniteSet(S)
    BY FS_CardinalityType DEF Moments
  <1>2. \A c \in S : Place(S, c) \in 1..n
    BY PlaceInRange
  <1>3. ASSUME NEW c \in S, NEW d \in S, Place(S, c) = Place(S, d) PROVE c = d
    <2>1. Place(S, c) \in Int /\ Place(S, d) \in Int
      BY <1>1, <1>2
    <2>2. ~LessCandidate(c, d) /\ ~LessCandidate(d, c)
      BY <1>3, <2>1, PlaceLess
    <2> QED
      BY <2>2, LessIsOrder
  <1>4. IsFiniteSet(1..n) /\ Cardinality(1..n) = n
    <2> HIDE DEF n
    <2>1. 1 \in Int /\ n \in Int
      BY <1>1
    <2>2. IsFiniteSet(1..n) /\ Cardinality(1..n) = IF 1 > n THEN 0 ELSE n - 1 + 1
      BY <2>1, FS_Interval
    <2> QED
      BY <1>1, <2>2
  <1> HIDE DEF n
  <1>5. f \in Injection(S, 1..n)
    <2>1. f \in [S -> 1..n]
      BY <1>2
    <2>2. \A c, d \in S : f[c] = f[d] => c = d
      BY <1>3
    <2> HIDE DEF f
    <2> QED
      BY <2>1, <2>2 DEF Injection, IsInjective
  <1> HIDE DEF f
  <1>6. Cardinality(S) = Cardinality(1..n)
    BY <1>4 DEF n
  <1>7. f \in Surjection(S, 1..n)
    BY <1>4, <1>5, <1>6, FS_Injection
  <1>8. \A k \in 1..n : \E c \in S : f[c] = k
    BY <1>7 DEF Surjection
  <1> QED
    BY <1>8 DEF f, n

LEMMA SortedInOrder ==
    ASSUME NEW S, Moments(S)
    PROVE  /\ Cardinality(S) \in Nat
           /\ Sorted(S) \in [1..Cardinality(S) -> S]
           /\ \A c \in S : \E k \in 1..Cardinality(S) : Sorted(S)[k] = c
           /\ \A j, k \in 1..Cardinality(S) : j < k => ~LessCandidate(Sorted(S)[k], Sorted(S)[j]) /\ Sorted(S)[j] # Sorted(S)[k]
  <1> DEFINE n == Cardinality(S)
             At(k) == CHOOSE c \in S : Place(S, c) = k
  <1>1. n \in Nat
    BY FS_CardinalityType DEF Moments
  <1>2. Sorted(S) = [k \in 1..n |-> At(k)]
    BY DEF Sorted, Place, Below
  <1>3. \A k \in 1..n : At(k) \in S /\ Place(S, At(k)) = k
    BY PlacesTaken
  <1> HIDE DEF At
  <1>4. Sorted(S) \in [1..n -> S]
    BY <1>2, <1>3
  <1>5. \A k \in 1..n : Sorted(S)[k] \in S /\ Place(S, Sorted(S)[k]) = k
    BY <1>2, <1>3
  <1>6. ASSUME NEW c \in S PROVE \E k \in 1..n : Sorted(S)[k] = c
    <2>1. PICK k \in 1..n : k = Place(S, c)
      BY PlaceInRange
    <2>2. PICK d \in S : d = Sorted(S)[k] /\ Place(S, d) = k
      BY <1>5
    <2>3. Place(S, c) \in Int /\ Place(S, d) \in Int /\ Place(S, c) = Place(S, d)
      BY <1>1, <2>1, <2>2
    <2>4. ~LessCandidate(c, d) /\ ~LessCandidate(d, c)
      BY <2>3, PlaceLess
    <2>5. c = d
      BY <2>4, LessIsOrder
    <2> QED
      BY <2>2, <2>5
  <1>7. ASSUME NEW j \in 1..n, NEW k \in 1..n, j < k
        PROVE  ~LessCandidate(Sorted(S)[k], Sorted(S)[j]) /\ Sorted(S)[j] # Sorted(S)[k]
    <2>1. PICK c \in S : c = Sorted(S)[k] /\ Place(S, c) = k
      BY <1>5
    <2>2. PICK d \in S : d = Sorted(S)[j] /\ Place(S, d) = j
      BY <1>5
    <2>3. ~(k < j) /\ j # k
      BY <1>1, <1>7
    <2>4. ~LessCandidate(c, d)
      BY <2>1, <2>2, <2>3, PlaceLess
    <2>5. c # d
      BY <2>1, <2>2, <2>3
    <2> QED
      BY <2>1, <2>2, <2>4, <2>5
  <1> QED
    BY <1>1, <1>4, <1>6, <1>7

(* In order: nothing twice, forced first if at all, and then best first.    *)
InOrder(o) ==
    /\ o \in Seq(Scored)
    /\ \A j, k \in 1..Len(o) : j < k => /\ o[j] # o[k] /\ ~o[k].forced
                                        /\ o[j].forced \/ ~LessCandidate(o[k], o[j])

LEMMA SortedIsInOrder ==
    ASSUME NEW S, Moments(S), \A c \in S : ~c.forced
    PROVE  InOrder(Sorted(S)) /\ Range(Sorted(S)) = S
  <1> DEFINE n == Cardinality(S)
             o == Sorted(S)
  <1>1. /\ n \in Nat /\ o \in [1..n -> S] /\ \A c \in S : \E k \in 1..n : o[k] = c
        /\ \A j, k \in 1..n : j < k => ~LessCandidate(o[k], o[j]) /\ o[j] # o[k]
    BY SortedInOrder
  <1> HIDE DEF n, o
  <1>2. o \in Seq(Scored) /\ Len(o) = n /\ DOMAIN o = 1..n
    BY <1>1 DEF Moments
  <1>3. \A k \in 1..n : ~o[k].forced
    BY <1>1
  <1>4. InOrder(o)
    BY <1>1, <1>2, <1>3 DEF InOrder
  <1>5. Range(o) = S
    BY <1>1, <1>2 DEF Range
  <1> QED
    BY <1>4, <1>5 DEF o

LEMMA OrderedIsInOrder ==
    ASSUME NEW req, Resolved(req), NEW S, Moments(S), \A c \in S : ~c.forced
    PROVE  /\ InOrder(Ordered(req, S))
           /\ Range(Ordered(req, S)) \subseteq S \cup {Immediate(req)}
           /\ req.priority # "urgent" => Range(Ordered(req, S)) = S
           /\ req.priority = "urgent" => Ordered(req, S) # <<>> /\ Ordered(req, S)[1] = Immediate(req)
  <1>1. CASE req.priority # "urgent"
    BY <1>1, SortedIsInOrder DEF Ordered
  <1>2. CASE req.priority = "urgent"
    <2> DEFINE T == {c \in S : c.instant # WindowStart(req)}
               i == Immediate(req)
               o == <<i>> \o Sorted(T)
    <2>1. Moments(T) /\ (\A c \in T : ~c.forced)
      BY FS_Subset DEF Moments
    <2>2. i \in Scored /\ i.forced /\ i \notin T
      <3>1. WindowStart(req) \in Int
        BY WindowType
      <3>2. i.instant = WindowStart(req)
        BY DEF Immediate, Candidate
      <3> QED
        BY <3>1, <3>2 DEF Immediate, Candidate, Scored
    <2> HIDE DEF T, i
    <2>3. PICK s : s = Sorted(T)
      OBVIOUS
    <2>4. InOrder(s) /\ Range(s) = T
      BY <2>1, <2>3, SortedIsInOrder
    <2>5. s \in Seq(Scored) /\ Len(s) \in Nat
      BY <2>4 DEF InOrder
    <2>6. /\ o \in Seq(Scored) /\ Len(o) = Len(s) + 1 /\ o[1] = i
          /\ \A k \in 1..Len(s) : o[k + 1] = s[k]
      BY <2>2, <2>3, <2>5
    <2> HIDE DEF o
    <2>7. \A k \in 1..Len(s) : s[k] \in T
      BY <2>4, <2>5 DEF Range
    <2>8. ASSUME NEW k \in 1..Len(o), k # 1 PROVE k - 1 \in 1..Len(s) /\ o[k] = s[k - 1]
      <3>1. k - 1 \in 1..Len(s) /\ (k - 1) + 1 = k
        BY <2>5, <2>6, <2>8
      <3> QED
        BY <2>6, <3>1
    <2>9. ASSUME NEW j \in 1..Len(o), NEW k \in 1..Len(o), j < k
          PROVE  o[j] # o[k] /\ ~o[k].forced /\ (o[j].forced \/ ~LessCandidate(o[k], o[j]))
      <3>1. k # 1 /\ j - 1 < k - 1
        BY <2>9
      <3>2. k - 1 \in 1..Len(s) /\ o[k] = s[k - 1] /\ s[k - 1] \in T
        BY <2>7, <2>8, <3>1
      <3>3. CASE j = 1
        BY <2>1, <2>2, <2>6, <3>2, <3>3
      <3>4. CASE j # 1
        <4>1. j - 1 \in 1..Len(s) /\ o[j] = s[j - 1]
          BY <2>8, <3>4
        <4> QED
          BY <2>4, <3>1, <3>2, <4>1 DEF InOrder
      <3> QED
        BY <3>3, <3>4
    <2>10. InOrder(o)
      BY <2>6, <2>9 DEF InOrder
    <2>11. Range(o) \subseteq T \cup {i}
      <3>1. ASSUME NEW k \in 1..Len(o) PROVE o[k] \in T \cup {i}
        BY <2>6, <2>7, <2>8
      <3> QED
        BY <2>6, <3>1 DEF Range
    <2>12. o # <<>>
      BY <2>5, <2>6
    <2>13. Ordered(req, S) = o
      BY <1>2 DEF Ordered, o, T, i
    <2>14. T \subseteq S
      BY DEF T
    <2> QED
      BY <1>2, <2>6, <2>10, <2>11, <2>12, <2>13, <2>14 DEF i
  <1> QED
    BY <1>1, <1>2

-----------------------------------------------------------------------------
(* Induction: a set of numbers with 0 and the successors of its members.    *)
LEMMA Inductive ==
    ASSUME NEW S \in SUBSET Nat, 0 \in S, \A n \in S : n + 1 \in S
    PROVE  S = Nat
  <1> DEFINE T == Nat \ S
  <1> SUFFICES ASSUME T # {} PROVE FALSE
    OBVIOUS
  <1>1. PICK x \in T : \A y \in T : ~(<<y, x>> \in OpToRel(<, Nat))
    BY NatLessThanWellFounded, WFMin
  <1>2. x # 0 /\ x - 1 \in Nat /\ (x - 1) + 1 = x
    OBVIOUS
  <1>3. \A y \in T : ~(y < x)
    BY <1>1 DEF OpToRel
  <1>4. x - 1 \in S
    <2>1. x - 1 < x
      BY <1>2
    <2> QED
      BY <1>2, <1>3, <2>1
  <1> QED
    BY <1>2, <1>4

-----------------------------------------------------------------------------
(* Filling an answer, one candidate after the other.                        *)
Filling(req, spread, picked, ordered) ==
    CHOOSE some : some =
        [k \in Nat |-> IF k = 0 THEN picked
                       ELSE IF Fits(req, spread, some[k - 1], ordered[k]) THEN Append(some[k - 1], ordered[k])
                       ELSE some[k - 1]]

FilledNext(req, spread, before, c) == IF Fits(req, spread, before, c) THEN Append(before, c) ELSE before
FillsUpTo(req, spread, picked, ordered, n, s) ==
    s = [k \in 0..n |-> IF k = 0 THEN picked ELSE FilledNext(req, spread, s[k - 1], ordered[k])]

LEMMA FilledIsFilling ==
    ASSUME NEW req, NEW spread, NEW picked, NEW ordered
    PROVE  Filled(req, spread, picked, ordered) = Filling(req, spread, picked, ordered)[Len(ordered)]
  BY DEF Filled, Filling

LEMMA FillingsExist ==
    ASSUME NEW req, NEW spread, NEW picked, NEW ordered
    PROVE  \A n \in Nat : \E s : FillsUpTo(req, spread, picked, ordered, n, s)
  <1> DEFINE Good == {n \in Nat : \E s : FillsUpTo(req, spread, picked, ordered, n, s)}
             Then(before, k) == FilledNext(req, spread, before, ordered[k])
  <1>1. 0 \in Good
    <2> DEFINE s == [i \in 0..0 |-> picked]
    <2>1. s = [i \in 0..0 |-> IF i = 0 THEN picked ELSE Then(s[i - 1], i)]
      OBVIOUS
    <2> QED
      BY <2>1 DEF FillsUpTo
  <1>2. ASSUME NEW n \in Good PROVE n + 1 \in Good
    <2>1. PICK s : FillsUpTo(req, spread, picked, ordered, n, s)
      OBVIOUS
    <2> DEFINE t == [i \in 0..(n + 1) |-> IF i = n + 1 THEN Then(s[n], n + 1) ELSE s[i]]
    <2>2. ASSUME NEW i \in 0..(n + 1) PROVE t[i] = IF i = 0 THEN picked ELSE Then(t[i - 1], i)
      <3> HIDE DEF Then
      <3>1. CASE i = n + 1
        <4>1. n \in 0..(n + 1) /\ n # n + 1 /\ i - 1 = n /\ i # 0
          BY <3>1
        <4> QED
          BY <3>1, <4>1
      <3>2. CASE i \in 0..n
        <4>1. s[i] = IF i = 0 THEN picked ELSE Then(s[i - 1], i)
          BY <2>1, <3>2 DEF FillsUpTo, Then
        <4>2. i # 0 => i - 1 \in 0..(n + 1) /\ i - 1 # n + 1
          BY <3>2
        <4>3. i # n + 1
          BY <3>2
        <4> QED
          BY <4>1, <4>2, <4>3
      <3> QED
        BY <3>1, <3>2
    <2>3. FillsUpTo(req, spread, picked, ordered, n + 1, t)
      <3> HIDE DEF t
      <3>1. t = [i \in 0..(n + 1) |-> t[i]]
        BY DEF t
      <3> QED
        BY <2>2, <3>1 DEF FillsUpTo
    <2> QED
      BY <2>3
  <1> HIDE DEF Good
  <1>3. Good = Nat
    BY <1>1, <1>2, Inductive DEF Good
  <1> QED
    BY <1>3 DEF Good

LEMMA FillingsAgree ==
    ASSUME NEW req, NEW spread, NEW picked, NEW ordered, NEW m \in Nat, NEW n \in Nat, m <= n, NEW s, NEW t,
           FillsUpTo(req, spread, picked, ordered, m, s), FillsUpTo(req, spread, picked, ordered, n, t)
    PROVE  \A i \in 0..m : s[i] = t[i]
  <1> DEFINE Good == {i \in Nat : i <= m => s[i] = t[i]}
             Then(before, k) == FilledNext(req, spread, before, ordered[k])
  <1>0. /\ \A i \in 0..m : s[i] = IF i = 0 THEN picked ELSE Then(s[i - 1], i)
        /\ \A i \in 0..n : t[i] = IF i = 0 THEN picked ELSE Then(t[i - 1], i)
    BY DEF FillsUpTo
  <1> HIDE DEF Then
  <1>1. 0 \in Good
    BY <1>0
  <1>2. ASSUME NEW i \in Good PROVE i + 1 \in Good
    <2> SUFFICES ASSUME i + 1 <= m PROVE s[i + 1] = t[i + 1]
      OBVIOUS
    <2>1. i + 1 \in 0..m /\ i + 1 \in 0..n /\ i + 1 # 0 /\ (i + 1) - 1 = i /\ s[i] = t[i]
      OBVIOUS
    <2> QED
      BY <1>0, <2>1
  <1> HIDE DEF Good
  <1>3. Good = Nat
    BY <1>1, <1>2, Inductive DEF Good
  <1> QED
    BY <1>3 DEF Good

LEMMA FillingStep ==
    ASSUME NEW req, NEW spread, NEW picked, NEW ordered
    PROVE  LET f == Filling(req, spread, picked, ordered) IN
           f[0] = picked /\ \A i \in Nat : f[i + 1] = FilledNext(req, spread, f[i], ordered[i + 1])
  <1> DEFINE f == Filling(req, spread, picked, ordered)
             Then(before, k) == FilledNext(req, spread, before, ordered[k])
             G(n) == CHOOSE s : FillsUpTo(req, spread, picked, ordered, n, s)
             t == [i \in Nat |-> G(i)[i]]
  <1>1. \A n \in Nat : FillsUpTo(req, spread, picked, ordered, n, G(n))
    BY FillingsExist
  <1> HIDE DEF G
  <1>2. ASSUME NEW i \in Nat PROVE t[i] = IF i = 0 THEN picked ELSE Then(t[i - 1], i)
    <2>1. G(i)[i] = IF i = 0 THEN picked ELSE Then(G(i)[i - 1], i)
      BY <1>1 DEF FillsUpTo
    <2>2. i # 0 => G(i - 1)[i - 1] = G(i)[i - 1]
      <3> SUFFICES ASSUME i # 0 PROVE G(i - 1)[i - 1] = G(i)[i - 1]
        OBVIOUS
      <3>1. i - 1 \in Nat /\ i - 1 <= i /\ i - 1 \in 0..(i - 1)
        OBVIOUS
      <3> QED
        BY <1>1, <3>1, FillingsAgree
    <2> HIDE DEF Then
    <2> QED
      BY <2>1, <2>2
  <1>3. t = [i \in Nat |-> IF i = 0 THEN picked ELSE Then(t[i - 1], i)]
    <2> HIDE DEF t, Then
    <2>1. t = [i \in Nat |-> t[i]]
      BY DEF t
    <2> QED
      BY <1>2, <2>1
  <1> HIDE DEF t
  <1>4. f = [i \in Nat |-> IF i = 0 THEN picked ELSE Then(f[i - 1], i)]
    BY <1>3 DEF Filling, FilledNext
  <1> HIDE DEF f, Then
  <1>5. ASSUME NEW i \in Nat PROVE f[i] = IF i = 0 THEN picked ELSE Then(f[i - 1], i)
    BY <1>4
  <1>6. \A i \in Nat : i + 1 \in Nat /\ i + 1 # 0 /\ (i + 1) - 1 = i
    OBVIOUS
  <1> QED
    BY <1>5, <1>6 DEF f, Then

(* The first of an answer, and the candidates it has no use for (Apart).    *)
FirstOf(s, n) == {s[i] : i \in 1..n}
Settled(req, spread, has, c) == c \in has \/ (spread /\ ~c.forced /\ \E d \in has : Near(req, c, d))
Clear(req, spread, has, c) == ~spread \/ c.forced \/ \A d \in has : ~Near(req, c, d)

(* After the first k candidates, an answer s begins as it was; what it has  *)
(* taken was in order and clear; it is full or has no use for the others.   *)
WellFilled(req, spread, base, o, k, s) ==
    /\ s \in Seq(Scored) /\ Len(base) <= Len(s) /\ Len(s) <= req.count
    /\ \A i \in 1..Len(base) : s[i] = base[i]
    /\ \A i, j \in 1..Len(s) : i < j => s[i] # s[j]
    /\ \A i \in 1..Len(s) : i > Len(base) =>
           \E j \in 1..k : /\ s[i] = o[j] /\ Clear(req, spread, FirstOf(s, i - 1), o[j])
                           /\ \A h \in 1..(j - 1) : Settled(req, spread, FirstOf(s, i - 1), o[h])
    /\ Len(s) < req.count => \A j \in 1..k : Settled(req, spread, FirstOf(s, Len(s)), o[j])

LEMMA ApartIsClear ==
    ASSUME NEW req, req.spacing \in Int, NEW s \in Seq(Scored), NEW c \in Scored
    PROVE  Apart(req, s, c) <=> Clear(req, TRUE, FirstOf(s, Len(s)), c)
  <1>1. DOMAIN s = 1..Len(s) /\ Len(s) \in Nat /\ (s = <<>> <=> Len(s) = 0)
    OBVIOUS
  <1>2. \A i \in 1..Len(s) : s[i].instant \in Int
    <2>1. \A i \in 1..Len(s) : s[i] \in Scored
      BY <1>1
    <2> QED
      BY <2>1 DEF Scored
  <1>3. ASSUME NEW i \in 1..Len(s)
        PROVE  Near(req, c, s[i]) <=>
                 ~(LET d == c.instant - s[i].instant IN d >= req.spacing \/ -d >= req.spacing)
    <2>1. PICK a : a = c.instant
      OBVIOUS
    <2>2. PICK b : b = s[i].instant
      OBVIOUS
    <2>3. a \in Int /\ b \in Int /\ a - b \in Int /\ -(a - b) \in Int
      BY <1>2, <2>1, <2>2 DEF Scored
    <2>4. PICK x : x = a - b
      OBVIOUS
    <2>5. x \in Int /\ -x \in Int
      BY <2>3, <2>4
    <2>6. Near(req, c, s[i]) <=> x < req.spacing /\ -x < req.spacing
      BY <2>1, <2>2, <2>4 DEF Near
    <2> QED
      BY <2>1, <2>2, <2>4, <2>5, <2>6
  <1>4. Apart(req, s, c) <=> s = <<>> \/ c.forced \/ \A i \in 1..Len(s) : ~Near(req, c, s[i])
    BY <1>1, <1>3 DEF Apart
  <1>5. (\A d \in FirstOf(s, Len(s)) : ~Near(req, c, d)) <=> \A i \in 1..Len(s) : ~Near(req, c, s[i])
    BY DEF FirstOf
  <1>6. s = <<>> => \A i \in 1..Len(s) : ~Near(req, c, s[i])
    BY <1>1
  <1> QED
    BY <1>4, <1>5, <1>6 DEF Clear

LEMMA FirstOfAppend ==
    ASSUME NEW s \in Seq(Scored), NEW c \in Scored
    PROVE  /\ Append(s, c) \in Seq(Scored) /\ Len(Append(s, c)) = Len(s) + 1
           /\ \A i \in 1..Len(s) : Append(s, c)[i] = s[i]
           /\ Append(s, c)[Len(s) + 1] = c
           /\ \A i \in 0..Len(s) : FirstOf(Append(s, c), i) = FirstOf(s, i)
           /\ FirstOf(Append(s, c), Len(s) + 1) = FirstOf(s, Len(s)) \cup {c}
  <1> DEFINE t == Append(s, c)
  <1>1. t \in Seq(Scored) /\ Len(t) = Len(s) + 1 /\ Len(s) \in Nat
    OBVIOUS
  <1>2. (\A i \in 1..Len(s) : t[i] = s[i]) /\ t[Len(s) + 1] = c
    OBVIOUS
  <1> HIDE DEF t
  <1>3. ASSUME NEW i \in 0..Len(s) PROVE FirstOf(t, i) = FirstOf(s, i)
    <2>1. \A k \in 1..i : k \in 1..Len(s) /\ t[k] = s[k]
      BY <1>1, <1>2
    <2> QED
      BY <2>1 DEF FirstOf
  <1>4. FirstOf(t, Len(s) + 1) = FirstOf(s, Len(s)) \cup {c}
    <2>1. 1..(Len(s) + 1) = 1..Len(s) \cup {Len(s) + 1}
      BY <1>1
    <2> QED
      BY <1>2, <2>1 DEF FirstOf
  <1> QED
    BY <1>1, <1>2, <1>3, <1>4 DEF t

LEMMA FillingKeeps ==
    ASSUME NEW req, req.spacing \in Int, req.count \in Nat, NEW spread \in BOOLEAN, NEW base, Len(base) \in Nat,
           NEW o \in Seq(Scored), NEW k \in Nat, k + 1 <= Len(o), NEW s, WellFilled(req, spread, base, o, k, s)
    PROVE  WellFilled(req, spread, base, o, k + 1, FilledNext(req, spread, s, o[k + 1]))
  <1> DEFINE c == o[k + 1]
             n == Len(s)
             has == FirstOf(s, n)
             t == FilledNext(req, spread, s, c)
  <1>1. k + 1 \in 1..Len(o) /\ c \in Scored
    OBVIOUS
  <1>2. /\ s \in Seq(Scored) /\ n \in Nat /\ Len(base) <= n /\ n <= req.count
        /\ \A i \in 1..Len(base) : s[i] = base[i]
        /\ \A i, j \in 1..n : i < j => s[i] # s[j]
        /\ \A i \in 1..n : i > Len(base) =>
               \E j \in 1..k : /\ s[i] = o[j] /\ Clear(req, spread, FirstOf(s, i - 1), o[j])
                               /\ \A h \in 1..(j - 1) : Settled(req, spread, FirstOf(s, i - 1), o[h])
        /\ n < req.count => \A j \in 1..k : Settled(req, spread, has, o[j])
    <2>1. s \in Seq(Scored)
      BY DEF WellFilled
    <2>2. n \in Nat
      BY <2>1
    <2> QED
      BY <2>1, <2>2, Zenon DEF WellFilled
  <1>3. Range(s) = has /\ DOMAIN s = 1..n
    BY <1>2 DEF Range, FirstOf
  <1>4. Fits(req, spread, s, c) <=> n < req.count /\ c \notin has /\ Clear(req, spread, has, c)
    <2>1. Apart(req, s, c) <=> Clear(req, TRUE, has, c)
      BY <1>1, <1>2, ApartIsClear
    <2>2. Clear(req, spread, has, c) <=> (spread => Clear(req, TRUE, has, c))
      BY DEF Clear
    <2> HIDE DEF c, has
    <2> QED
      BY <1>3, <2>1, <2>2 DEF Fits
  <1>5. \A j \in 1..(k + 1) : j \in 1..k \/ j = k + 1
    OBVIOUS
  <1>6. 1..k \subseteq 1..(k + 1) /\ k + 1 \in 1..(k + 1) /\ 1..((k + 1) - 1) = 1..k
    OBVIOUS
  <1> HIDE DEF c, n, has
  <1>7. CASE ~Fits(req, spread, s, c)
    <2>1. t = s
      BY <1>7 DEF FilledNext
    <2>2. n < req.count => Settled(req, spread, has, c)
      BY <1>4, <1>7 DEF Settled, Clear
    <2>3. n < req.count => \A j \in 1..(k + 1) : Settled(req, spread, has, o[j])
      BY <1>2, <1>5, <2>2 DEF c
    <2> HIDE DEF t
    <2>4. ASSUME NEW i \in 1..n, i > Len(base)
          PROVE  \E j \in 1..(k + 1) : /\ s[i] = o[j] /\ Clear(req, spread, FirstOf(s, i - 1), o[j])
                                       /\ \A h \in 1..(j - 1) : Settled(req, spread, FirstOf(s, i - 1), o[h])
      BY <1>2, <1>6, <2>4
    <2>5. WellFilled(req, spread, base, o, k + 1, s)
      BY <1>2, <2>3, <2>4 DEF WellFilled, n, has
    <2> QED
      BY <2>1, <2>5 DEF c, t
  <1>8. CASE Fits(req, spread, s, c)
    <2>1. t = Append(s, c)
      BY <1>8 DEF FilledNext
    <2>2. n < req.count /\ c \notin has /\ Clear(req, spread, has, c)
      BY <1>4, <1>8
    <2> HIDE DEF t
    <2>3. /\ t \in Seq(Scored) /\ Len(t) = n + 1
          /\ \A i \in 1..n : t[i] = s[i]
          /\ t[n + 1] = c
          /\ \A i \in 0..n : FirstOf(t, i) = FirstOf(s, i)
          /\ FirstOf(t, n + 1) = has \cup {c}
      BY <1>1, <1>2, <2>1, FirstOfAppend DEF n, has
    <2>4. Len(base) <= n + 1 /\ n + 1 <= req.count
      BY <1>2, <2>2
    <2>5. \A i \in 1..Len(base) : t[i] = base[i]
      BY <1>2, <2>3
    <2>6. ASSUME NEW i \in 1..(n + 1), NEW j \in 1..(n + 1), i < j PROVE t[i] # t[j]
      <3>1. i \in 1..n /\ t[i] = s[i]
        BY <1>2, <2>3, <2>6
      <3>2. CASE j \in 1..n
        BY <1>2, <2>3, <2>6, <3>1, <3>2
      <3>3. CASE j = n + 1
        <4>1. s[i] \in has
          BY <3>1 DEF has, FirstOf
        <4> QED
          BY <2>2, <2>3, <3>1, <3>3, <4>1
      <3> QED
        BY <1>2, <3>2, <3>3
    <2>7. ASSUME NEW i \in 1..(n + 1), i > Len(base)
          PROVE  \E j \in 1..(k + 1) : /\ t[i] = o[j] /\ Clear(req, spread, FirstOf(t, i - 1), o[j])
                                       /\ \A h \in 1..(j - 1) : Settled(req, spread, FirstOf(t, i - 1), o[h])
      <3>1. CASE i \in 1..n
        <4>1. i - 1 \in 0..n /\ t[i] = s[i]
          BY <1>2, <2>3, <3>1
        <4>2. FirstOf(t, i - 1) = FirstOf(s, i - 1)
          BY <2>3, <4>1
        <4>3. \E j \in 1..k : /\ s[i] = o[j] /\ Clear(req, spread, FirstOf(s, i - 1), o[j])
                              /\ \A h \in 1..(j - 1) : Settled(req, spread, FirstOf(s, i - 1), o[h])
          BY <1>2, <2>7, <3>1
        <4> QED
          BY <1>6, <4>1, <4>2, <4>3
      <3>2. CASE i = n + 1
        <4>1. i - 1 = n /\ n \in 0..n
          BY <1>2, <3>2
        <4>2. FirstOf(t, i - 1) = has
          BY <2>3, <4>1 DEF has
        <4>3. t[i] = o[k + 1] /\ Clear(req, spread, has, o[k + 1])
          BY <2>2, <2>3, <3>2 DEF c
        <4>4. \A h \in 1..((k + 1) - 1) : Settled(req, spread, has, o[h])
          BY <1>2, <1>6, <2>2
        <4> QED
          BY <1>6, <4>2, <4>3, <4>4
      <3> QED
        BY <1>2, <3>1, <3>2
    <2>8. ASSUME NEW j \in 1..(k + 1) PROVE Settled(req, spread, has \cup {c}, o[j])
      <3>1. CASE j \in 1..k
        <4>1. Settled(req, spread, has, o[j])
          BY <1>2, <2>2, <3>1
        <4> QED
          BY <4>1 DEF Settled
      <3>2. CASE j = k + 1
        BY <3>2 DEF Settled, c
      <3> QED
        BY <1>5, <3>1, <3>2
    <2>9. WellFilled(req, spread, base, o, k + 1, t)
      BY <2>3, <2>4, <2>5, <2>6, <2>7, <2>8 DEF WellFilled
    <2> QED
      BY <2>9 DEF c, t
  <1> QED
    BY <1>7, <1>8

LEMMA FilledWell ==
    ASSUME NEW req, req.spacing \in Int, req.count \in Nat, NEW spread \in BOOLEAN, NEW o \in Seq(Scored),
           NEW base \in Seq(Scored), Len(base) <= req.count, \A i, j \in 1..Len(base) : i < j => base[i] # base[j]
    PROVE  WellFilled(req, spread, base, o, Len(o), Filled(req, spread, base, o))
  <1> DEFINE f == Filling(req, spread, base, o)
             Good == {k \in Nat : k <= Len(o) => WellFilled(req, spread, base, o, k, f[k])}
  <1>0. Len(base) \in Nat /\ Len(o) \in Nat
    OBVIOUS
  <1>1. f[0] = base /\ \A i \in Nat : f[i + 1] = FilledNext(req, spread, f[i], o[i + 1])
    BY FillingStep
  <1> HIDE DEF f
  <1>2. 0 \in Good
    <2>1. 1..0 = {}
      OBVIOUS
    <2>2. \A i \in 1..Len(base) : ~(i > Len(base))
      BY <1>0
    <2>3. WellFilled(req, spread, base, o, 0, base)
      BY <1>0, <2>1, <2>2 DEF WellFilled
    <2> QED
      BY <1>1, <2>3
  <1>3. ASSUME NEW k \in Good PROVE k + 1 \in Good
    <2> SUFFICES ASSUME k + 1 <= Len(o) PROVE WellFilled(req, spread, base, o, k + 1, f[k + 1])
      OBVIOUS
    <2>1. k <= Len(o) /\ k \in Nat
      BY <1>0
    <2>2. WellFilled(req, spread, base, o, k, f[k])
      BY <2>1
    <2>3. WellFilled(req, spread, base, o, k + 1, FilledNext(req, spread, f[k], o[k + 1]))
      BY <1>0, <2>1, <2>2, FillingKeeps
    <2> QED
      BY <1>1, <2>1, <2>3
  <1> HIDE DEF Good
  <1>4. Good = Nat
    BY <1>2, <1>3, Inductive DEF Good
  <1>5. WellFilled(req, spread, base, o, Len(o), f[Len(o)])
    BY <1>0, <1>4 DEF Good
  <1> QED
    BY <1>5, FilledIsFilling DEF f

-----------------------------------------------------------------------------
(* A score is a number of hundredths.                                       *)
LEMMA CountType ==
    ASSUME NEW req, Resolved(req), NEW T \in SUBSET Recipients(req)
    PROVE  Cardinality(T) \in Nat
  <1>1. PICK n \in Nat : Recipients(req) = 1..n
    BY DEF Resolved, Recipients
  <1>2. IsFiniteSet(1..n)
    BY FS_Interval
  <1> QED
    BY <1>1, <1>2, FS_Subset, FS_CardinalityType

LEMMA Rounded ==
    ASSUME NEW a \in Int, NEW b \in Int, b > 0
    PROVE  a \div b \in Int
  OBVIOUS

LEMMA ScoreType ==
    ASSUME NEW req, Resolved(req), Valid(req), NEW t \in Int
    PROVE  Score(req, t) \in 0..100
  <1> DEFINE working(p) == WithinWorking(p, t)
             preferred(p) == InAnyWindow(MinuteOfDay(p, t), req.preferred)
  <1>1. PICK n : n = Len(req.recipients)
    OBVIOUS
  <1>2. n \in Nat /\ n > 0 /\ \A i \in 1..n : req.recipients[i] \in Participant
    BY <1>1 DEF Resolved, Valid
  <1>3. PICK h : h = Horizon(req)
    OBVIOUS
  <1>4. h \in Int /\ h > 0
    BY <1>3 DEF Resolved, Valid, Horizon, Day
  <1>5. PICK unit : unit = n * h
    OBVIOUS
  <1>6. unit \in Int /\ unit > 0
    BY <1>2, <1>4, <1>5
  <1>7. PICK w : w = Count(req, working)
    OBVIOUS
  <1>8. PICK f : f = Count(req, preferred)
    OBVIOUS
  <1>9. w \in Int /\ f \in Int
    BY <1>7, <1>8, CountType DEF Count
  <1>10. PICK o : o = IF req.preferOverlap /\ \A s \in req.sender : WithinWorking(s, t) THEN w ELSE 0
    OBVIOUS
  <1>11. o \in Int
    BY <1>9, <1>10
  <1>12. Ratio(req, t) \in Int
    <2>1. Cardinality(ValidRecipients(req, t)) \in Nat
      BY CountType DEF ValidRecipients
    <2>2. PICK v : v = 200 * Cardinality(ValidRecipients(req, t)) + n
      OBVIOUS
    <2>3. v \in Int /\ 2 * n \in Int /\ 2 * n > 0
      BY <1>2, <2>1, <2>2
    <2> QED
      BY <1>1, <2>2, <2>3, Rounded DEF Ratio
  <1>13. PriorityPart(req) \in Int
    BY DEF PriorityPart
  <1>14. DelayPart(req, t) \in Int
    BY <1>3, <1>4 DEF DelayPart, Resolved
  <1>15. DayPart(req.recipients[1], t) \in Int
    <2>1. Weekday(req.recipients[1], t) \in 0..6
      BY <1>2, ClockShows
    <2> QED
      BY <2>1 DEF DayPart
  <1>16. Penalties(req, t) \in Int
    <2>1. \A x, y \in Int : x + y \in Int
      OBVIOUS
    <2> QED
      BY <2>1 DEF Penalties, Penalty, AnyRecipient
  <1> DEFINE sum == 20 * h * (30 * w + 20 * f + 15 * o) + 3 * unit * Ratio(req, t) + 20 * unit * PriorityPart(req)
                      + 100 * n * DelayPart(req, t) + unit * DayPart(req.recipients[1], t)
                      - 20 * unit * Penalties(req, t)
  <1>17. sum + 10 * unit \in Int
    BY <1>2, <1>4, <1>6, <1>9, <1>11, <1>12, <1>13, <1>14, <1>15, <1>16
  <1>18. PICK rounded : rounded = (sum + 10 * unit) \div (20 * unit)
    OBVIOUS
  <1>19. rounded \in Int
    <2>1. 20 * unit \in Int /\ 20 * unit > 0
      BY <1>6
    <2> HIDE DEF sum
    <2> QED
      BY <1>17, <1>18, <2>1, Rounded
  <1>20. Score(req, t) = IF rounded < 0 THEN 0 ELSE IF rounded > 100 THEN 100 ELSE rounded
    BY <1>1, <1>3, <1>5, <1>7, <1>8, <1>10, <1>18 DEF Score
  <1> QED
    BY <1>19, <1>20

-----------------------------------------------------------------------------
(* What the selection answers, of candidates in order.                      *)
Crowded(req, s, i) == req.diversify /\ \E d \in FirstOf(s, i - 1) : Near(req, s[i], d)
WellChosen(req, o, s) ==
    /\ s \in Seq(Scored) /\ Len(s) <= req.count
    /\ \A i, j \in 1..Len(s) : i < j => s[i] # s[j]
    /\ \A i \in 1..Len(s) :
           \E j \in 1..Len(o) :
               /\ s[i] = o[j]
               /\ \A h \in 1..(j - 1) :
                      \/ o[h] \in FirstOf(s, i - 1)
                      \/ req.diversify /\ ~Crowded(req, s, i) /\ \E d \in FirstOf(s, i - 1) : Near(req, o[h], d)
    /\ \A i \in 1..Len(s) : Crowded(req, s, i) =>
           \A j \in 1..Len(o) :
               o[j] \in FirstOf(s, i - 1) \/ \E d \in FirstOf(s, i - 1) : Near(req, o[j], d)
    /\ Len(s) < req.count => \A j \in 1..Len(o) : o[j] \in FirstOf(s, Len(s))

LEMMA NothingFirst == ASSUME NEW s PROVE FirstOf(s, 1 - 1) = {}
  <1>1. 1..(1 - 1) = {}
    OBVIOUS
  <1> QED
    BY <1>1 DEF FirstOf

LEMMA ChosenInOrder ==
    ASSUME NEW req, req.spacing \in Int, req.count \in Nat, NEW o, InOrder(o), ~req.diversify \/ req.spacing <= 0
    PROVE  WellChosen(req, o, Filled(req, FALSE, <<>>, o))
  <1>1. PICK s : s = Filled(req, FALSE, <<>>, o)
    OBVIOUS
  <1>2. WellFilled(req, FALSE, <<>>, o, Len(o), s)
    <2>1. <<>> \in Seq(Scored) /\ Len(<<>>) = 0 /\ 1..0 = {}
      OBVIOUS
    <2>2. \A i, j \in 1..Len(<<>>) : i < j => <<>>[i] # <<>>[j]
      BY <2>1
    <2>3. Len(<<>>) <= req.count
      BY <2>1
    <2>4. o \in Seq(Scored) /\ FALSE \in BOOLEAN
      BY DEF InOrder
    <2> QED
      BY <1>1, <2>1, <2>2, <2>3, <2>4, FilledWell
  <1>3. s \in Seq(Scored) /\ Len(s) \in Nat
    BY <1>2 DEF WellFilled
  <1>4. ASSUME NEW i \in 1..Len(s) PROVE ~Crowded(req, s, i)
    <2> SUFFICES ASSUME req.spacing <= 0, NEW d \in FirstOf(s, i - 1) PROVE ~Near(req, s[i], d)
      BY DEF Crowded
    <2>1. PICK k \in 1..(i - 1) : d = s[k]
      BY DEF FirstOf
    <2>2. k \in 1..Len(s)
      BY <1>3
    <2>3. s[i] \in Scored /\ s[k] \in Scored
      BY <1>3, <2>2
    <2>4. PICK a : a = s[i].instant
      OBVIOUS
    <2>5. PICK b : b = s[k].instant
      OBVIOUS
    <2>6. a \in Int /\ b \in Int
      BY <2>3, <2>4, <2>5 DEF Scored
    <2> QED
      BY <2>1, <2>4, <2>5, <2>6 DEF Near
  <1>5. ASSUME NEW i \in 1..Len(s)
        PROVE  \E j \in 1..Len(o) : s[i] = o[j] /\ \A h \in 1..(j - 1) : o[h] \in FirstOf(s, i - 1)
    <2>1. i > Len(<<>>)
      OBVIOUS
    <2>2. PICK j \in 1..Len(o) : /\ s[i] = o[j]
                                 /\ \A h \in 1..(j - 1) : Settled(req, FALSE, FirstOf(s, i - 1), o[h])
      BY <1>2, <2>1 DEF WellFilled
    <2> QED
      BY <2>2 DEF Settled
  <1>6. Len(s) < req.count => \A j \in 1..Len(o) : o[j] \in FirstOf(s, Len(s))
    BY <1>2 DEF WellFilled, Settled
  <1>7. Len(s) <= req.count /\ \A i, j \in 1..Len(s) : i < j => s[i] # s[j]
    BY <1>2 DEF WellFilled
  <1>8. WellChosen(req, o, s)
    BY <1>3, <1>4, <1>5, <1>6, <1>7 DEF WellChosen
  <1> QED
    BY <1>1, <1>8

(* The best are spread first, and what is missing is filled up after that.  *)
LEMMA ChosenSpread ==
    ASSUME NEW req, req.spacing \in Int, req.count \in Nat, NEW o, InOrder(o), req.diversify
    PROVE  WellChosen(req, o, Filled(req, FALSE, Filled(req, TRUE, <<>>, o), o))
  <1>1. PICK p : p = Filled(req, TRUE, <<>>, o)
    OBVIOUS
  <1>2. PICK s : s = Filled(req, FALSE, p, o)
    OBVIOUS
  <1>3. o \in Seq(Scored) /\ Len(o) \in Nat
    BY DEF InOrder
  <1>4. WellFilled(req, TRUE, <<>>, o, Len(o), p)
    <2>1. <<>> \in Seq(Scored) /\ Len(<<>>) = 0 /\ 1..0 = {}
      OBVIOUS
    <2>2. \A i, j \in 1..Len(<<>>) : i < j => <<>>[i] # <<>>[j]
      BY <2>1
    <2>3. Len(<<>>) <= req.count /\ TRUE \in BOOLEAN
      BY <2>1
    <2> QED
      BY <1>1, <1>3, <2>1, <2>2, <2>3, FilledWell
  <1>5. /\ p \in Seq(Scored) /\ Len(p) <= req.count
        /\ \A i, j \in 1..Len(p) : i < j => p[i] # p[j]
    BY <1>4 DEF WellFilled
  <1>6. WellFilled(req, FALSE, p, o, Len(o), s)
    BY <1>2, <1>3, <1>5, FilledWell
  <1>7. s \in Seq(Scored) /\ Len(s) \in Nat /\ Len(p) \in Nat /\ Len(p) <= Len(s) /\ Len(s) <= req.count
    BY <1>5, <1>6 DEF WellFilled
  <1>8. ASSUME NEW i \in 0..Len(p) PROVE FirstOf(s, i) = FirstOf(p, i)
    <2>1. \A k \in 1..i : k \in 1..Len(p)
      BY <1>7
    <2>2. \A k \in 1..i : s[k] = p[k]
      BY <1>6, <2>1 DEF WellFilled
    <2> QED
      BY <2>2 DEF FirstOf
  <1>9. ASSUME NEW i \in 1..Len(p)
        PROVE  \E j \in 1..Len(o) : /\ p[i] = o[j] /\ Clear(req, TRUE, FirstOf(p, i - 1), o[j])
                                    /\ \A h \in 1..(j - 1) : Settled(req, TRUE, FirstOf(p, i - 1), o[h])
    <2>1. i > Len(<<>>)
      OBVIOUS
    <2> QED
      BY <1>4, <2>1 DEF WellFilled
  <1>10. 1 \in 1..Len(p) => p[1] = o[1]
    <2> SUFFICES ASSUME 1 \in 1..Len(p) PROVE p[1] = o[1]
      OBVIOUS
    <2>1. PICK j \in 1..Len(o) : p[1] = o[j] /\ \A h \in 1..(j - 1) : Settled(req, TRUE, FirstOf(p, 1 - 1), o[h])
      BY <1>9
    <2>2. \A h \in 1..(j - 1) : FALSE
      BY <2>1, NothingFirst DEF Settled
    <2>3. j = 1
      BY <1>3, <2>2
    <2> QED
      BY <2>1, <2>3
  (* A place of the first pass is taken apart from those before it.         *)
  <1>11. ASSUME NEW i \in 1..Len(p)
         PROVE  /\ ~Crowded(req, s, i)
                /\ \E j \in 1..Len(o) :
                       /\ s[i] = o[j]
                       /\ \A h \in 1..(j - 1) : \/ o[h] \in FirstOf(s, i - 1)
                                                \/ \E d \in FirstOf(s, i - 1) : Near(req, o[h], d)
    <2>1. PICK j \in 1..Len(o) : /\ p[i] = o[j] /\ Clear(req, TRUE, FirstOf(p, i - 1), o[j])
                                 /\ \A h \in 1..(j - 1) : Settled(req, TRUE, FirstOf(p, i - 1), o[h])
      BY <1>9
    <2>2. FirstOf(s, i - 1) = FirstOf(p, i - 1) /\ s[i] = p[i]
      <3>1. i - 1 \in 0..Len(p)
        BY <1>7
      <3>2. s[i] = p[i]
        BY <1>6 DEF WellFilled
      <3> QED
        BY <1>8, <3>1, <3>2
    <2>3. ~Crowded(req, s, i)
      <3>1. CASE i = 1
        BY <3>1, NothingFirst DEF Crowded
      <3>2. CASE i # 1
        <4>1. 1 \in 1..Len(p) /\ 1 < i
          BY <1>7, <3>2
        <4>2. p[1] # p[i]
          BY <1>5, <4>1
        <4>3. j # 1
          BY <1>10, <2>1, <4>1, <4>2
        <4>4. 1 \in 1..Len(o) /\ 1 < j
          BY <1>3, <4>3
        <4>5. ~o[j].forced
          BY <4>4 DEF InOrder
        <4> QED
          BY <2>1, <2>2, <4>5 DEF Clear, Crowded
      <3> QED
        BY <3>1, <3>2
    <2> QED
      BY <2>1, <2>2, <2>3 DEF Settled
  (* The others are taken when all that is left is near one taken before.   *)
  <1>12. ASSUME NEW i \in 1..Len(s), i > Len(p)
         PROVE  /\ \A j \in 1..Len(o) : \/ o[j] \in FirstOf(s, i - 1)
                                        \/ \E d \in FirstOf(s, i - 1) : Near(req, o[j], d)
                /\ \E j \in 1..Len(o) : s[i] = o[j] /\ \A h \in 1..(j - 1) : o[h] \in FirstOf(s, i - 1)
    <2>1. Len(p) < req.count
      BY <1>7, <1>12
    <2>2. \A j \in 1..Len(o) : Settled(req, TRUE, FirstOf(p, Len(p)), o[j])
      BY <1>4, <2>1 DEF WellFilled
    <2>3. FirstOf(p, Len(p)) \subseteq FirstOf(s, i - 1)
      <3>1. FirstOf(s, Len(p)) = FirstOf(p, Len(p))
        BY <1>7, <1>8
      <3>2. 1..Len(p) \subseteq 1..(i - 1)
        BY <1>7, <1>12
      <3> QED
        BY <3>1, <3>2 DEF FirstOf
    <2>4. PICK j \in 1..Len(o) : s[i] = o[j] /\ \A h \in 1..(j - 1) : Settled(req, FALSE, FirstOf(s, i - 1), o[h])
      BY <1>6, <1>12 DEF WellFilled
    <2>5. \A h \in 1..(j - 1) : o[h] \in FirstOf(s, i - 1)
      BY <2>4 DEF Settled
    <2> QED
      BY <2>2, <2>3, <2>4, <2>5 DEF Settled
  <1>13. \A i \in 1..Len(s) : i \in 1..Len(p) \/ i > Len(p)
    BY <1>7
  <1>14. ASSUME NEW i \in 1..Len(s)
         PROVE  \E j \in 1..Len(o) :
                    /\ s[i] = o[j]
                    /\ \A h \in 1..(j - 1) :
                           \/ o[h] \in FirstOf(s, i - 1)
                           \/ req.diversify /\ ~Crowded(req, s, i) /\ \E d \in FirstOf(s, i - 1) : Near(req, o[h], d)
    <2>1. CASE i \in 1..Len(p)
      BY <1>11, <2>1
    <2>2. CASE i > Len(p)
      BY <1>12, <2>2
    <2> QED
      BY <1>13, <2>1, <2>2
  <1>15. ASSUME NEW i \in 1..Len(s), Crowded(req, s, i)
         PROVE  \A j \in 1..Len(o) :
                    o[j] \in FirstOf(s, i - 1) \/ \E d \in FirstOf(s, i - 1) : Near(req, o[j], d)
    BY <1>11, <1>12, <1>13, <1>15
  <1>16. Len(s) < req.count => \A j \in 1..Len(o) : o[j] \in FirstOf(s, Len(s))
    BY <1>6 DEF WellFilled, Settled
  <1>17. \A i, j \in 1..Len(s) : i < j => s[i] # s[j]
    BY <1>6 DEF WellFilled
  <1>18. WellChosen(req, o, s)
    BY <1>7, <1>14, <1>15, <1>16, <1>17 DEF WellChosen
  <1> QED
    BY <1>1, <1>2, <1>18

LEMMA SelectedWell ==
    ASSUME NEW req, req.spacing \in Int, req.count \in Nat, NEW o, InOrder(o)
    PROVE  WellChosen(req, o, SelectSuggestions(req, o))
  <1>1. CASE ~req.diversify \/ req.spacing <= 0
    BY <1>1, ChosenInOrder DEF SelectSuggestions
  <1>2. CASE ~(~req.diversify \/ req.spacing <= 0)
    BY <1>2, ChosenSpread DEF SelectSuggestions
  <1> QED
    BY <1>1, <1>2

LEMMA DistinctCounted ==
    ASSUME NEW s \in Seq(Scored), \A i, j \in 1..Len(s) : i < j => s[i] # s[j]
    PROVE  IsFiniteSet(Range(s)) /\ Cardinality(Range(s)) = Len(s) /\ Range(s) = FirstOf(s, Len(s))
  <1>1. PICK n : n = Len(s)
    OBVIOUS
  <1>2. n \in Nat /\ DOMAIN s = 1..n
    BY <1>1
  <1>3. Range(s) = {s[i] : i \in 1..n}
    BY <1>2 DEF Range
  <1>4. \A i, j \in 1..n : s[i] = s[j] => i = j
    BY <1>1, <1>2
  <1>5. s \in [1..n -> Range(s)]
    <2>1. s = [i \in 1..n |-> s[i]]
      BY <1>2
    <2> QED
      BY <1>3, <2>1
  <1>6. s \in Bijection(1..n, Range(s))
    BY <1>2, <1>3, <1>4, <1>5 DEF Bijection, Injection, Surjection, IsInjective
  <1>7. IsFiniteSet(1..n) /\ ExistsBijection(1..n, Range(s))
    <2>1. 1 \in Int /\ n \in Int
      BY <1>2
    <2> QED
      BY <1>6, <2>1, FS_Interval DEF ExistsBijection
  <1>8. Cardinality(Range(s)) = n /\ IsFiniteSet(Range(s))
    BY <1>2, <1>7, FS_CountingElements, FS_Bijection
  <1> QED
    BY <1>1, <1>3, <1>8 DEF FirstOf

-----------------------------------------------------------------------------
(* What has been scored when a search ends.                                 *)
LEMMA ScoredFinite == ASSUME NEW req PROVE \A n \in Nat : IsFiniteSet(ScoredOf(req, n))
  <1> DEFINE Good == {n \in Nat : IsFiniteSet(ScoredOf(req, n))}
  <1>1. 0 \in Good
    BY ScoredGrows, FS_EmptySet
  <1>2. ASSUME NEW n \in Good PROVE n + 1 \in Good
    <2>1. n \in Nat /\ n + 1 \in Nat /\ IsFiniteSet(ScoredOf(req, n))
      OBVIOUS
    <2>2. IsFiniteSet(ScoredOf(req, n) \cup {Candidate(Step(req, n), Score(req, Step(req, n)), FALSE)})
      BY <2>1, FS_AddElement
    <2> QED
      BY <2>1, <2>2, ScoredGrows
  <1> HIDE DEF Good
  <1>3. Good = Nat
    BY <1>1, <1>2, Inductive DEF Good
  <1> QED
    BY <1>3 DEF Good

LEMMA ScoredMoments ==
    ASSUME NEW req, Resolved(req), Valid(req), NEW n \in Nat
    PROVE  /\ Moments(ScoredOf(req, n))
           /\ \A c \in ScoredOf(req, n) : /\ ~c.forced /\ c.score \in 0..100
                                          /\ Accepts(req, c.instant) /\ c.score = Score(req, c.instant)
  <1> DEFINE S == ScoredOf(req, n)
  <1>1. ASSUME NEW c \in S
        PROVE  /\ c.instant \in Int /\ c = Candidate(c.instant, Score(req, c.instant), FALSE)
               /\ Accepts(req, c.instant)
    <2>1. PICK k \in 0..(n - 1) : /\ Accepts(req, Step(req, k))
                                  /\ c = Candidate(Step(req, k), Score(req, Step(req, k)), FALSE)
      <3>1. \A d : d \in ScoredOf(req, n) <=>
                   \E k \in 0..(n - 1) : /\ Accepts(req, Step(req, k))
                                         /\ d = Candidate(Step(req, k), Score(req, Step(req, k)), FALSE)
        BY ScoredMember
      <3> QED
        BY <3>1
    <2>2. k \in Int /\ Step(req, k) \in Int
      BY StepType
    <2>3. c.instant = Step(req, k)
      BY <2>1 DEF Candidate
    <2> QED
      BY <2>1, <2>2, <2>3
  <1>2. ASSUME NEW c \in S
        PROVE  /\ c \in Scored /\ ~c.forced /\ c.score \in 0..100
               /\ Accepts(req, c.instant) /\ c.score = Score(req, c.instant)
    <2>1. PICK t \in Int : c = Candidate(t, Score(req, t), FALSE) /\ Accepts(req, t) /\ t = c.instant
      BY <1>1
    <2>2. Score(req, t) \in 0..100
      BY ScoreType
    <2>3. c.score = Score(req, t) /\ c.forced = FALSE
      BY <2>1 DEF Candidate
    <2>4. c \in Scored
      BY <2>1, <2>2 DEF Candidate, Scored
    <2> QED
      BY <2>1, <2>2, <2>3, <2>4
  <1>3. IsFiniteSet(S)
    BY ScoredFinite
  <1>4. \A c, d \in S : c.instant = d.instant => c = d
    BY <1>1
  <1> HIDE DEF S
  <1>5. Moments(S)
    BY <1>2, <1>3, <1>4 DEF Moments
  <1> QED
    BY <1>2, <1>5 DEF S

(* The answer of a search, and what it is made of.                          *)
LEMMA Answered ==
    ASSUME SearchInv, search.pc = "answered"
    PROVE  LET req == search.request
               o == Ordered(req, search.scored) IN
           /\ req \in SendTimeRequest /\ Resolved(req) /\ Valid(req)
           /\ req.spacing \in Int /\ req.count \in Nat /\ req.count >= 1
           /\ \E n \in Nat : LooksAt(req, n) /\ EndsAt(req, n) /\ search.scored = ScoredOf(req, n)
           /\ InOrder(o) /\ WellChosen(req, o, search.suggestions)
           /\ search.sendNow = SendNow(req)
  <1>1. PICK req : req = search.request
    OBVIOUS
  <1>2. /\ req \in SendTimeRequest /\ Valid(req) /\ search.sendNow = SendNow(req)
        /\ search.suggestions = SelectSuggestions(req, Ordered(req, search.scored))
        /\ \E n \in Nat : LooksAt(req, n) /\ EndsAt(req, n) /\ search.scored = ScoredOf(req, n)
    BY <1>1 DEF SearchInv
  <1>3. Resolved(req)
    BY <1>2, SendTimeAssumption
  <1>4. req.spacing \in Int /\ req.count \in Nat /\ req.count >= 1
    BY <1>2, <1>3, SendTimeAssumption DEF Resolved, Valid
  <1>5. InOrder(Ordered(req, search.scored))
    BY <1>2, <1>3, ScoredMoments, OrderedIsInOrder
  <1>6. WellChosen(req, Ordered(req, search.scored), search.suggestions)
    BY <1>2, <1>4, <1>5, SelectedWell
  <1> QED
    BY <1>1, <1>2, <1>3, <1>4, <1>5, <1>6

LEMMA AnswersAllowed == ASSUME SearchInv PROVE SuggestionsAllowed
  <1> SUFFICES ASSUME search.pc = "answered" PROVE SuggestionsAllowed
    BY DEF SuggestionsAllowed
  <1>1. PICK req : req = search.request
    OBVIOUS
  <1>2. PICK o : o = Ordered(req, search.scored)
    OBVIOUS
  <1>3. PICK s : s = search.suggestions
    OBVIOUS
  <1>4. PICK n \in Nat : LooksAt(req, n) /\ EndsAt(req, n) /\ search.scored = ScoredOf(req, n)
    BY <1>1, Answered
  <1>5. Resolved(req) /\ Valid(req) /\ InOrder(o) /\ WellChosen(req, o, s)
    BY <1>1, <1>2, <1>3, Answered
  <1> DEFINE last == (WindowEnd(req) - WindowStart(req)) \div req.interval
             step == {AlignUp(WindowStart(req), req.interval) + k * req.interval :
                         k \in 0..(IF last < MaxCandidates THEN last ELSE MaxCandidates - 1)}
  <1>6. {c.instant : c \in search.scored} = {t \in step : Allowed(req, t)}
    BY <1>4, <1>5, SearchedAll DEF Step
  <1>7. ASSUME NEW i \in DOMAIN s PROVE s[i].forced \/ Allowed(req, s[i].instant)
    <2>1. i \in 1..Len(s)
      BY <1>5 DEF WellChosen
    <2>2. PICK j \in 1..Len(o) : s[i] = o[j]
      BY <1>5, <2>1 DEF WellChosen
    <2>3. o[j] \in Range(o)
      BY <1>5 DEF InOrder, Range
    <2>4. o[j] \in search.scored \cup {Immediate(req)}
      BY <1>2, <1>4, <1>5, <2>3, ScoredMoments, OrderedIsInOrder
    <2>5. CASE s[i] \in search.scored
      <3>1. s[i].instant \in {c.instant : c \in search.scored}
        BY <2>5
      <3> HIDE DEF step
      <3> QED
        BY <1>6, <3>1
    <2>6. CASE s[i] = Immediate(req)
      BY <2>6 DEF Immediate, Candidate
    <2> QED
      BY <2>2, <2>4, <2>5, <2>6
  <1> QED
    BY <1>1, <1>3, <1>6, <1>7 DEF SuggestionsAllowed

(* Of two scores.                                                           *)
LEMMA AtLeast == \A a, b \in 0..100 : a = b \/ ~(b > a) => a >= b
  OBVIOUS

LEMMA AnswersSpread == ASSUME SearchInv PROVE SpreadBestFirst
  <1> SUFFICES ASSUME search.pc = "answered" PROVE SpreadBestFirst
    BY DEF SpreadBestFirst
  <1>1. PICK req : req = search.request
    OBVIOUS
  <1>2. PICK o : o = Ordered(req, search.scored)
    OBVIOUS
  <1>3. PICK s : s = search.suggestions
    OBVIOUS
  <1>4. PICK n \in Nat : LooksAt(req, n) /\ EndsAt(req, n) /\ search.scored = ScoredOf(req, n)
    BY <1>1, Answered
  <1>5. /\ Resolved(req) /\ Valid(req) /\ InOrder(o) /\ WellChosen(req, o, s)
        /\ req.count \in Nat /\ req.count >= 1 /\ search.sendNow = SendNow(req)
    BY <1>1, <1>2, <1>3, Answered
  <1> DEFINE all == Range(o)
             has(i) == {s[k] : k \in 1..i}
             crowded(i) == req.diversify /\ \E d \in has(i - 1) : Near(req, s[i], d)
  <1>6. \A i : has(i) = FirstOf(s, i) /\ (crowded(i) <=> Crowded(req, s, i))
    BY DEF FirstOf, Crowded
  <1>7. o \in Seq(Scored) /\ s \in Seq(Scored) /\ DOMAIN s = 1..Len(s) /\ Len(o) \in Nat /\ Len(s) \in Nat
    BY <1>5 DEF InOrder, WellChosen
  <1>8. IsFiniteSet(all) /\ Cardinality(all) = Len(o) /\ all = FirstOf(o, Len(o))
    BY <1>5, <1>7, DistinctCounted DEF InOrder
  <1>9. IsFiniteSet(Range(s)) /\ Cardinality(Range(s)) = Len(s) /\ Range(s) = FirstOf(s, Len(s))
    BY <1>5, <1>7, DistinctCounted DEF WellChosen
  <1>10. \A c : c \in all <=> \E j \in 1..Len(o) : c = o[j]
    BY <1>8 DEF FirstOf
  <1> HIDE DEF all, has, crowded
  <1>11. Range(s) \subseteq all
    <2>1. \A i \in 1..Len(s) : s[i] \in all
      BY <1>5, <1>10 DEF WellChosen
    <2> QED
      BY <1>9, <2>1 DEF FirstOf
  <1>12. Len(s) = (IF Cardinality(all) < req.count THEN Cardinality(all) ELSE req.count)
    <2>1. Len(s) <= req.count
      BY <1>5 DEF WellChosen
    <2>2. Len(s) <= Cardinality(all)
      BY <1>8, <1>9, <1>11, FS_Subset
    <2>3. Len(s) < req.count => Cardinality(all) = Len(s)
      <3> SUFFICES ASSUME Len(s) < req.count PROVE all = Range(s)
        BY <1>9
      <3>1. \A j \in 1..Len(o) : o[j] \in FirstOf(s, Len(s))
        BY <1>5 DEF WellChosen
      <3> QED
        BY <1>9, <1>10, <1>11, <3>1
    <2> QED
      BY <1>5, <1>7, <1>8, <2>1, <2>2, <2>3
  <1>13. ASSUME NEW i \in DOMAIN s, NEW c \in all \ Range(s)
         PROVE  \/ s[i].forced \/ ~LessCandidate(c, s[i])
                \/ req.diversify /\ ~crowded(i) /\ \E d \in has(i - 1) : Near(req, c, d)
    <2>1. i \in 1..Len(s)
      BY <1>7
    <2>2. PICK j \in 1..Len(o) :
              /\ s[i] = o[j]
              /\ \A h \in 1..(j - 1) :
                     \/ o[h] \in FirstOf(s, i - 1)
                     \/ req.diversify /\ ~Crowded(req, s, i) /\ \E d \in FirstOf(s, i - 1) : Near(req, o[h], d)
      BY <1>5, <2>1 DEF WellChosen
    <2>3. PICK k \in 1..Len(o) : c = o[k]
      BY <1>10
    <2>4. FirstOf(s, i - 1) \subseteq Range(s)
      <3>1. \A m \in 1..(i - 1) : m \in 1..Len(s)
        BY <1>7, <2>1
      <3> QED
        BY <1>9, <3>1 DEF FirstOf
    <2>5. c \notin FirstOf(s, i - 1) /\ c # s[i]
      BY <1>9, <2>1, <2>4 DEF FirstOf
    <2>6. CASE k < j
      <3>1. k \in 1..(j - 1)
        BY <1>7, <2>6
      <3> QED
        BY <1>6, <2>2, <2>3, <2>5, <3>1
    <2>7. CASE j < k
      BY <1>5, <2>2, <2>3, <2>7 DEF InOrder
    <2>8. k # j
      BY <2>2, <2>3, <2>5
    <2> QED
      BY <1>7, <2>6, <2>7, <2>8
  <1>14. ASSUME NEW i \in DOMAIN s, crowded(i), NEW c \in all \ has(i - 1)
         PROVE  \E d \in has(i - 1) : Near(req, c, d)
    <2>1. i \in 1..Len(s) /\ Crowded(req, s, i)
      BY <1>6, <1>7, <1>14
    <2>2. PICK j \in 1..Len(o) : c = o[j]
      BY <1>10
    <2>3. o[j] \in FirstOf(s, i - 1) \/ \E d \in FirstOf(s, i - 1) : Near(req, o[j], d)
      BY <1>5, <2>1 DEF WellChosen
    <2> QED
      BY <1>6, <2>2, <2>3
  <1>15. ASSUME s # <<>>, search.sendNow.instant \in {c.instant : c \in search.scored}
         PROVE  s[1].score >= search.sendNow.score
    <2>1. PICK c \in search.scored : search.sendNow.instant = c.instant
      BY <1>15
    <2>2. PICK t : t = IF WindowStart(req) > req.reference THEN WindowStart(req) ELSE req.reference
      OBVIOUS
    <2>3. /\ search.sendNow.instant = t
          /\ search.sendNow.score = IF Accepts(req, t) THEN Score(req, t) ELSE 0
      BY <1>5, <2>2 DEF SendNow
    <2>4. /\ ~c.forced /\ c.score \in 0..100 /\ Accepts(req, c.instant) /\ c.score = Score(req, c.instant)
      BY <1>4, <1>5, ScoredMoments
    <2>5. search.sendNow.score = c.score
      BY <2>1, <2>3, <2>4
    <2>6. 1 \in 1..Len(s)
      BY <1>7, <1>15
    <2>7. s[1] = o[1] /\ 1 \in 1..Len(o)
      <3>1. PICK j \in 1..Len(o) :
              /\ s[1] = o[j]
              /\ \A h \in 1..(j - 1) :
                     \/ o[h] \in FirstOf(s, 1 - 1)
                     \/ req.diversify /\ ~Crowded(req, s, 1) /\ \E d \in FirstOf(s, 1 - 1) : Near(req, o[h], d)
        BY <1>5, <2>6 DEF WellChosen
      <3>2. \A h \in 1..(j - 1) : FALSE
        BY <3>1, NothingFirst
      <3>3. j = 1
        BY <1>7, <3>2
      <3> QED
        BY <3>1, <3>3
    <2>8. CASE req.priority = "urgent"
      <3>1. o[1] = Immediate(req)
        BY <1>2, <1>4, <1>5, <2>8, ScoredMoments, OrderedIsInOrder
      <3>2. s[1].score = 100
        BY <2>7, <3>1 DEF Immediate, Candidate
      <3> QED
        BY <2>4, <2>5, <3>2
    <2>9. CASE req.priority # "urgent"
      <3>1. c \in all
        <4>1. Range(o) = search.scored
          BY <1>2, <1>4, <1>5, <2>9, ScoredMoments, OrderedIsInOrder
        <4> QED
          BY <4>1 DEF all
      <3>2. PICK k \in 1..Len(o) : c = o[k]
        BY <1>10, <3>1
      <3>3. o[1] \in search.scored /\ ~o[1].forced /\ o[1].score \in 0..100
        <4>1. o[1] \in all /\ Range(o) = search.scored
          BY <1>2, <1>4, <1>5, <1>10, <2>7, <2>9, ScoredMoments, OrderedIsInOrder
        <4> QED
          BY <1>4, <1>5, <4>1, ScoredMoments DEF all
      <3>4. PICK best : best = s[1].score
        OBVIOUS
      <3>5. PICK now : now = search.sendNow.score
        OBVIOUS
      <3>6. CASE k = 1
        <4>1. best = c.score /\ now = c.score /\ c.score \in 0..100
          BY <2>4, <2>5, <2>7, <3>2, <3>4, <3>5, <3>6
        <4>2. best >= now
          BY <4>1, AtLeast
        <4> QED
          BY <3>4, <3>5, <4>2
      <3>7. CASE k # 1
        <4>1. 1 < k
          BY <1>7, <3>7
        <4>2. ~LessCandidate(c, o[1])
          BY <1>5, <2>7, <3>2, <3>3, <4>1 DEF InOrder
        <4>3. ~(c.score > o[1].score)
          BY <4>2 DEF LessCandidate
        <4>4. best = o[1].score /\ now = c.score /\ best \in 0..100 /\ now \in 0..100
          BY <2>4, <2>5, <2>7, <3>3, <3>4, <3>5
        <4>5. ~(now > best)
          BY <4>3, <4>4
        <4>6. best >= now
          BY <4>4, <4>5, AtLeast
        <4> QED
          BY <3>4, <3>5, <4>6
      <3> QED
        BY <3>6, <3>7
    <2> QED
      BY <2>8, <2>9
  <1> QED
    BY <1>1, <1>2, <1>3, <1>9, <1>11, <1>12, <1>13, <1>14, <1>15 DEF SpreadBestFirst, all, has, crowded

(* The planner scores exactly the moments of its window that the request    *)
(* allows, up to its limit of candidates, and suggests none that is not     *)
(* allowed but the immediate one of an urgent message: for any recipients,  *)
(* zones with a change of their clock, hours and windows (Suggest, evaluate,*)
(* recipientValid, inQuiet, alignUp).                                       *)
THEOREM OnlyAllowedMoments == SendTimeSpec => []SuggestionsAllowed
  <1>1. SearchInv => SuggestionsAllowed
    BY AnswersAllowed
  <1> QED
    BY <1>1, SearchInvariant, PTL

(* Its answer is of the length asked for or has all there is, holds no      *)
(* moment twice, is best first, and is spread as far as that goes: for any  *)
(* number of candidates, with any scores (sort.SliceStable, lessCandidate,  *)
(* selectSuggestions, evaluateSendNow).                                     *)
THEOREM BestAreSpread == SendTimeSpec => []SpreadBestFirst
  <1>1. SearchInv => SpreadBestFirst
    BY AnswersSpread
  <1> QED
    BY <1>1, SearchInvariant, PTL
=============================================================================
