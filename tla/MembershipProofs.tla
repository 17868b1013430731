-------------------------- MODULE MembershipProofs --------------------------
(***************************************************************************)
(* The configurations of raft in Membership, for any nodes, any number of  *)
(* starts, commands and reconciliations under way: types, leaders that are *)
(* voters, one cluster if one node may bootstrap it, and reconciliations   *)
(* that never take the raft of their own node down.                        *)
(***************************************************************************)
EXTENDS Membership, TLAPS

(* What a process holds in etcd, and its reconciliations.                  *)
ProcessOK ==
    /\ halted \subseteq up /\ up \subseteq existing /\ existing \subseteq Node
    /\ booting \subseteq up
    /\ lost \subseteq up
    /\ key \in [Node -> Node \cup {NoNode}]
    /\ svc \in [Node -> Node \cup {NoNode}]
    /\ \A p \in Node : p \in up <=> svc[p] # NoNode
    /\ watch \in [Node -> Watching]
    /\ starts \in 0..MaxStarts /\ commands \in 0..MaxCommands

(* A reconciliation of a node leaves the node itself alone.                *)
ReconcilesOK ==
    /\ reconciles \in [Node -> SUBSET Reconciliation]
    /\ \A n \in Node : \A r \in reconciles[n] : n \notin r.remove

RaftOK ==
    /\ raftOf \in [Node -> {0} \cup Cluster]
    /\ conf \in [Cluster -> [Node -> Suffrage]]
    /\ leader \in [Cluster -> Node \cup {NoNode}]
    /\ LeaderIsVoter

MembershipInv == ProcessOK /\ ReconcilesOK /\ RaftOK

(* What every step keeps: raft is shut down by commands alone; a start     *)
(* lets a node bootstrap only if its directory was not there. Every step   *)
(* but BootstrapRaftCluster gives no history its first voter.              *)
HaltsByCommand == \A n \in Node : n \in halted' \ halted => commands' = commands + 1
BootsOnce == existing \subseteq existing' /\ booting' \subseteq booting \cup (Bootstrap \ existing)
VotersKept == \A c \in Cluster : Voters(conf[c])' # {} => Voters(conf[c]) # {}

Kept == MembershipInv' /\ HaltsByCommand /\ BootsOnce /\ VotersKept

-----------------------------------------------------------------------------
(* Changes of raft.                                                        *)

LEMMA LeaderHasHistory ==
    ASSUME RaftOK, NEW n \in Node, IsLeader(n)
    PROVE  /\ raftOf[n] \in Cluster /\ leader[raftOf[n]] = n
           /\ n \in up \ halted /\ conf[raftOf[n]][n] = "voter"
  BY MembershipAssumption DEF RaftOK, IsLeader, LeaderIsVoter, RaftRuns, Cluster

LEMMA WithKeepsVoter ==
    ASSUME NEW servers \in [Node -> Suffrage], NEW m \in Node, NEW n \in Node,
           NEW suffrage \in Suffrage, servers[n] = "voter", m # n \/ suffrage # "none"
    PROVE  /\ With(servers, m, suffrage) \in [Node -> Suffrage]
           /\ With(servers, m, suffrage)[n] = "voter"
  BY DEF With, Suffrage

LEMMA WithType ==
    ASSUME NEW servers \in [Node -> Suffrage], NEW m \in Node, NEW suffrage \in Suffrage
    PROVE  With(servers, m, suffrage) \in [Node -> Suffrage]
  BY DEF With, Suffrage

(* A leader changes a configuration it is a voter of: it stays one or      *)
(* stops to lead.                                                          *)
LEMMA ChangeKeepsRaft ==
    ASSUME RaftOK, ProcessOK, NEW n \in Node, NEW m \in Node, NEW suffrage \in Suffrage,
           Change(n, m, suffrage), up' = up
    PROVE  /\ RaftOK'
           /\ halted' \subseteq up
           /\ halted' # halted => m = n /\ suffrage = "none"
           /\ VotersKept
  <1> DEFINE c == raftOf[n]
  <1>1. IsLeader(n)
    BY DEF Change, CanChange
  <1>2. /\ c \in Cluster /\ leader[c] = n /\ n \in up \ halted /\ conf[c][n] = "voter"
        /\ conf[c] \in [Node -> Suffrage]
    BY <1>1, LeaderHasHistory DEF RaftOK
  <1>3. With(conf[c], m, suffrage) \in [Node -> Suffrage]
    BY <1>2, WithType
  <1>4. conf' = [conf EXCEPT ![c] = With(conf[c], m, suffrage)] /\ raftOf' = raftOf
    BY DEF Change
  <1>5. conf' \in [Cluster -> [Node -> Suffrage]]
    BY <1>2, <1>3, <1>4 DEF RaftOK
  <1>6. \A d \in Cluster : conf'[d] = IF d = c THEN With(conf[c], m, suffrage) ELSE conf[d]
    BY <1>2, <1>4 DEF RaftOK
  <1>7. VotersKept
    BY <1>2, <1>6 DEF Voters, VotersKept
  <1>8. CASE m = n /\ suffrage = "none"
    <2>1. leader' = Deposed(n) /\ halted' = halted \cup {n}
      BY <1>8 DEF Change
    <2>2. leader' \in [Cluster -> Node \cup {NoNode}] /\ halted' \subseteq up
      BY <2>1, <1>2 DEF Deposed, RaftOK, ProcessOK
    <2>3. ASSUME NEW d \in Cluster, leader'[d] # NoNode
          PROVE  leader'[d] \in up' \ halted' /\ raftOf'[leader'[d]] = d /\ conf'[d][leader'[d]] = "voter"
      <3>1. leader[d] # n /\ leader'[d] = leader[d] /\ leader[d] \in Node
        BY <2>1, <2>3 DEF Deposed, RaftOK
      <3>2. d # c
        BY <3>1, <1>2
      <3>3. leader[d] \in up \ halted /\ raftOf[leader[d]] = d /\ conf[d][leader[d]] = "voter"
        BY <3>1, <2>3 DEF RaftOK, LeaderIsVoter, RaftRuns
      <3> QED
        BY <3>1, <3>2, <3>3, <2>1, <1>4, <1>6
    <2> QED
      BY <2>2, <2>3, <1>4, <1>5, <1>7, <1>8 DEF RaftOK, LeaderIsVoter, RaftRuns
  <1>9. CASE ~(m = n /\ suffrage = "none")
    <2>1. leader' = leader /\ halted' = halted
      BY <1>9 DEF Change
    <2>2. With(conf[c], m, suffrage)[n] = "voter"
      BY <1>2, <1>9, WithKeepsVoter
    <2>3. ASSUME NEW d \in Cluster, leader'[d] # NoNode
          PROVE  leader'[d] \in up' \ halted' /\ raftOf'[leader'[d]] = d /\ conf'[d][leader'[d]] = "voter"
      <3>1. leader[d] \in up \ halted /\ raftOf[leader[d]] = d /\ conf[d][leader[d]] = "voter"
        BY <2>1, <2>3 DEF RaftOK, LeaderIsVoter, RaftRuns
      <3> QED
        BY <3>1, <2>1, <2>2, <1>2, <1>4, <1>6
    <2> QED
      BY <2>1, <2>3, <1>4, <1>5, <1>7 DEF RaftOK, LeaderIsVoter, RaftRuns, ProcessOK
  <1> QED
    BY <1>8, <1>9

(* What keeps the leaders: nothing changes in raft, and no raft shuts down. *)
LEMMA SameRaft ==
    ASSUME RaftOK, UNCHANGED raftVars, up \subseteq up', halted' \subseteq halted \cup (up' \ up),
           halted \subseteq up
    PROVE  RaftOK' /\ VotersKept
  BY DEF RaftOK, raftVars, LeaderIsVoter, RaftRuns, VotersKept, Voters

-----------------------------------------------------------------------------
(* What the registry does to the processes.                                *)

LEMMA NotifyType ==
    ASSUME watch \in [Node -> Watching], Notify
    PROVE  watch' \in [Node -> Watching]
  BY DEF Notify, Watching

LEMMA RegisterNodeKeeps ==
    ASSUME ProcessOK, NEW p \in Node, NEW m \in Node, RegisterNode(p, m),
           up' = up \cup {p}
    PROVE  /\ key' \in [Node -> Node \cup {NoNode}]
           /\ svc' \in [Node -> Node \cup {NoNode}]
           /\ \A q \in Node : q \in up' <=> svc'[q] # NoNode
           /\ lost' \subseteq up'
           /\ watch' \in [Node -> Watching]
  <1>1. watch' \in [Node -> Watching]
    BY NotifyType DEF ProcessOK, RegisterNode
  <1> QED
    BY <1>1, MembershipAssumption DEF ProcessOK, RegisterNode

LEMMA UnregisterNodeKeeps ==
    ASSUME ProcessOK, NEW p \in up, UnregisterNode(p)
    PROVE  /\ key' \in [Node -> Node \cup {NoNode}] /\ svc' = svc
           /\ lost' \subseteq up /\ watch' \in [Node -> Watching]
  <1>1. watch' \in [Node -> Watching]
    BY NotifyType DEF ProcessOK, UnregisterNode
  <1> QED
    BY <1>1 DEF ProcessOK, UnregisterNode

LEMMA UnregisterNodeByIdKeeps ==
    ASSUME ProcessOK, NEW m \in Node, UnregisterNodeById(m)
    PROVE  /\ key' \in [Node -> Node \cup {NoNode}] /\ svc' = svc
           /\ lost' \subseteq up /\ watch' \in [Node -> Watching]
  <1>1. watch' \in [Node -> Watching]
    BY NotifyType DEF ProcessOK, UnregisterNodeById
  <1>2. \A p \in Node : svc[p] = m => p \in up
    BY MembershipAssumption DEF ProcessOK
  <1> QED
    BY <1>1, <1>2 DEF ProcessOK, UnregisterNodeById

-----------------------------------------------------------------------------
(* The actions.                                                            *)

USE DEF MembershipInv, Kept

LEMMA StartKeeps ==
    ASSUME MembershipInv, NEW n \in Node, Start(n)
    PROVE  Kept
  <1>1. RaftOK' /\ VotersKept
    BY SameRaft DEF Start, ProcessOK
  <1>2. ProcessOK'
    BY RegisterNodeKeeps, MembershipAssumption
    DEF Start, ProcessOK, MakeDirIfNotExist
  <1> QED
    BY <1>1, <1>2 DEF Start, ReconcilesOK, HaltsByCommand, BootsOnce,
                      MakeDirIfNotExist, BootstrapsAfterStart

(* A process that ends takes its leadership with it.                       *)
LEMMA StopKeeps ==
    ASSUME MembershipInv, NEW n \in Node, Stop(n),
           raftOf' = raftOf \/ raftOf' = [raftOf EXCEPT ![n] = 0],
           commands' \in 0..MaxCommands
    PROVE  Kept
  <1>1. ProcessOK'
    BY MembershipAssumption DEF Stop, ProcessOK, Watching
  <1>2. ReconcilesOK'
    BY DEF Stop, ReconcilesOK
  <1>3. RaftOK'
    <2>1. /\ raftOf' \in [Node -> {0} \cup Cluster]
          /\ \A m \in Node \ {n} : raftOf'[m] = raftOf[m]
      BY DEF RaftOK
    <2>2. leader' \in [Cluster -> Node \cup {NoNode}]
      BY DEF RaftOK, Stop, Deposed
    <2>3. \A c \in Cluster : leader'[c] # NoNode => leader'[c] = leader[c] /\ leader[c] # n
      BY DEF RaftOK, Stop, Deposed
    <2> QED
      BY <2>1, <2>2, <2>3 DEF Stop, RaftOK, LeaderIsVoter, RaftRuns
  <1> QED
    BY <1>1, <1>2, <1>3 DEF Stop, HaltsByCommand, BootsOnce, VotersKept, Voters

LEMMA LeaseExpiresKeeps ==
    ASSUME MembershipInv, NEW m \in Node, LeaseExpires(m)
    PROVE  Kept
  <1>1. RaftOK' /\ VotersKept
    BY SameRaft DEF LeaseExpires, processVars, ProcessOK
  <1>2. watch' \in [Node -> Watching]
    BY NotifyType DEF LeaseExpires, ProcessOK
  <1>3. lost' \subseteq up /\ key' \in [Node -> Node \cup {NoNode}]
    BY DEF LeaseExpires, ProcessOK
  <1> QED
    BY <1>1, <1>2, <1>3
    DEF LeaseExpires, ProcessOK, ReconcilesOK, processVars, HaltsByCommand, BootsOnce

LEMMA ElectKeeps ==
    ASSUME MembershipInv, NEW n \in Node, Elect(n)
    PROVE  Kept
  <1>1. RaftOK'
    BY MembershipAssumption DEF Elect, processVars, RaftOK, LeaderIsVoter, RaftRuns
  <1> QED
    BY <1>1 DEF Elect, ProcessOK, ReconcilesOK, processVars, etcdVars,
                HaltsByCommand, BootsOnce, VotersKept, Voters

LEMMA LoseQuorumKeeps ==
    ASSUME MembershipInv, NEW c \in Cluster, LoseQuorum(c)
    PROVE  Kept
  <1>1. RaftOK'
    BY DEF LoseQuorum, processVars, RaftOK, LeaderIsVoter, RaftRuns
  <1> QED
    BY <1>1 DEF LoseQuorum, ProcessOK, ReconcilesOK, processVars, etcdVars,
                HaltsByCommand, BootsOnce, VotersKept, Voters

LEMMA FollowKeeps ==
    ASSUME MembershipInv, NEW n \in Node, NEW c \in Cluster, Follow(n, c)
    PROVE  Kept
  <1>1. \A d \in Cluster : leader'[d] # NoNode => leader'[d] = leader[d] /\ leader[d] # n
    BY DEF RaftOK, Follow, Deposed
  <1>2. leader' \in [Cluster -> Node \cup {NoNode}] /\ raftOf' \in [Node -> {0} \cup Cluster]
    BY DEF RaftOK, Follow, Deposed
  <1>3. RaftOK'
    BY <1>1, <1>2 DEF Follow, processVars, RaftOK, LeaderIsVoter, RaftRuns
  <1> QED
    BY <1>3 DEF Follow, ProcessOK, ReconcilesOK, processVars, etcdVars,
                HaltsByCommand, BootsOnce, VotersKept, Voters

LEMMA HandleKeepAliveKeeps ==
    ASSUME MembershipInv, NEW n \in Node, HandleKeepAlive(n)
    PROVE  Kept
  <1>1. RaftOK' /\ VotersKept
    BY SameRaft DEF HandleKeepAlive, processVars, ProcessOK
  <1>2. svc[n] \in Node
    BY DEF HandleKeepAlive, ProcessOK
  <1>3. ProcessOK'
    BY <1>2, RegisterNodeKeeps DEF HandleKeepAlive, ProcessOK, processVars
  <1> QED
    BY <1>1, <1>3 DEF HandleKeepAlive, ReconcilesOK, processVars, HaltsByCommand, BootsOnce

(* The watch of etcd and the reconciliations it starts.                    *)
LEMMA DeliverKeeps ==
    ASSUME ReconcilesOK, NEW n \in Node, Deliver(n)
    PROVE  ReconcilesOK'
  <1> DEFINE r == [peers |-> Registered, started |-> FALSE, remove |-> {}, add |-> {}]
  <1>1. r \in Reconciliation /\ n \notin r.remove
    BY DEF Reconciliation, Registered
  <1>2. reconciles' = [reconciles EXCEPT ![n] = @ \cup {r}]
    BY DEF Deliver
  <1> HIDE DEF r
  <1> QED
    BY <1>1, <1>2 DEF ReconcilesOK

LEMMA ReplaceKeeps ==
    ASSUME ReconcilesOK, NEW n \in Node, NEW r \in reconciles[n],
           NEW s \in SUBSET Reconciliation, Replace(n, r, s),
           \A t \in s : n \notin t.remove
    PROVE  ReconcilesOK'
  BY DEF ReconcilesOK, Replace

LEMMA WatchKeeps ==
    ASSUME MembershipInv, NEW n \in Node,
           WatchPeers(n) \/ OpenWatch(n) \/ WatchPeersFromEtcd(n)
    PROVE  Kept
  <1>1. RaftOK' /\ VotersKept
    BY SameRaft DEF WatchPeers, OpenWatch, WatchPeersFromEtcd, processVars, ProcessOK
  <1>2. ReconcilesOK'
    BY DeliverKeeps DEF WatchPeers, OpenWatch, WatchPeersFromEtcd, ReconcilesOK
  <1>3. watch' \in [Node -> Watching]
    BY DEF WatchPeers, OpenWatch, WatchPeersFromEtcd, ProcessOK, Watching
  <1> QED
    BY <1>1, <1>2, <1>3
    DEF WatchPeers, OpenWatch, WatchPeersFromEtcd, ProcessOK, processVars, etcdVars,
        HaltsByCommand, BootsOnce

(* A call of raft on behalf of a reconciliation or a command.              *)
LEMMA CallRaftKeeps ==
    ASSUME RaftOK, ProcessOK, NEW n \in Node, NEW m \in Node, NEW suffrage \in Suffrage,
           CallRaft(n, m, suffrage), up' = up
    PROVE  /\ RaftOK' /\ VotersKept
           /\ halted' \subseteq up
           /\ halted' # halted => m = n /\ suffrage = "none"
  <1>1. CASE Change(n, m, suffrage)
    BY <1>1, ChangeKeepsRaft
  <1>2. CASE UNCHANGED <<raftVars, halted>>
    BY <1>2, SameRaft DEF ProcessOK
  <1> QED
    BY <1>1, <1>2 DEF CallRaft

(* The node itself is in no set to remove, so its raft stays up.           *)
LEMMA ReconcileKeeps ==
    ASSUME MembershipInv, NEW n \in Node, ReconcileRaftMembershipWithPeers(n)
    PROVE  Kept
  <1> PICK r \in reconciles[n] :
        \/ ReconcileStart(n, r) \/ ReconcileEnd(n, r)
        \/ \E m \in Node : ReconcileRemove(n, r, m) \/ ReconcileAdd(n, r, m)
    BY DEF ReconcileRaftMembershipWithPeers
  <1>0. r \in Reconciliation /\ n \notin r.remove
    BY DEF ReconcilesOK
  <1>1. CASE ReconcileStart(n, r)
    <2> DEFINE t == [r EXCEPT !.started = TRUE, !.remove = ToRemove(n, r.peers),
                              !.add = ToAdd(n, r.peers)]
    <2>1. t \in Reconciliation /\ n \notin t.remove
      BY <1>0 DEF Reconciliation, ToRemove, ToAdd, Servers
    <2>2. Replace(n, r, IF IsLeader(n) THEN {t} ELSE {})
      BY <1>1 DEF ReconcileStart
    <2> HIDE DEF t
    <2>3. ReconcilesOK'
      BY <2>1, <2>2, ReplaceKeeps
    <2>4. RaftOK' /\ VotersKept
      BY <1>1, SameRaft DEF ReconcileStart, processVars, ProcessOK
    <2> QED
      BY <1>1, <2>3, <2>4 DEF ReconcileStart, ProcessOK, processVars, etcdVars,
                              HaltsByCommand, BootsOnce
  <1>2. CASE ReconcileEnd(n, r)
    <2>1. ReconcilesOK'
      BY <1>2, ReplaceKeeps DEF ReconcileEnd
    <2>2. RaftOK' /\ VotersKept
      BY <1>2, SameRaft DEF ReconcileEnd, processVars, ProcessOK
    <2> QED
      BY <1>2, <2>1, <2>2 DEF ReconcileEnd, ProcessOK, processVars, etcdVars,
                              HaltsByCommand, BootsOnce
  <1>3. ASSUME NEW m \in Node, ReconcileRemove(n, r, m)
        PROVE  Kept
    <2> DEFINE t == [r EXCEPT !.remove = @ \ {m}]
    <2>1. t \in Reconciliation /\ n \notin t.remove /\ m # n
      BY <1>0, <1>3 DEF Reconciliation, ReconcileRemove
    <2>2. Replace(n, r, {t})
      BY <1>3 DEF ReconcileRemove
    <2> HIDE DEF t
    <2>3. ReconcilesOK'
      BY <2>1, <2>2, ReplaceKeeps
    <2>4. RaftOK' /\ VotersKept /\ halted' = halted
      BY <1>3, <2>1, CallRaftKeeps DEF ReconcileRemove, Suffrage
    <2> QED
      BY <1>3, <2>3, <2>4 DEF ReconcileRemove, ProcessOK, etcdVars,
                              HaltsByCommand, BootsOnce
  <1>4. ASSUME NEW m \in Node, ReconcileAdd(n, r, m)
        PROVE  Kept
    <2> DEFINE t == [r EXCEPT !.add = @ \ {m}]
    <2>1. t \in Reconciliation /\ n \notin t.remove
      BY <1>0 DEF Reconciliation
    <2>2. Replace(n, r, {t})
      BY <1>4 DEF ReconcileAdd
    <2> HIDE DEF t
    <2>3. ReconcilesOK'
      BY <2>1, <2>2, ReplaceKeeps
    <2>4. RaftOK' /\ VotersKept /\ halted' = halted
      BY <1>4, CallRaftKeeps DEF ReconcileAdd, Suffrage
    <2> QED
      BY <1>4, <2>3, <2>4 DEF ReconcileAdd, ProcessOK, etcdVars,
                              HaltsByCommand, BootsOnce
  <1> QED
    BY <1>1, <1>2, <1>3, <1>4

-----------------------------------------------------------------------------
(* The commands.                                                           *)

LEMMA CommandCounts ==
    ASSUME ProcessOK, NEW n \in Node, Command(n)
    PROVE  commands' \in 0..MaxCommands /\ commands' = commands + 1
  BY MembershipAssumption DEF Command, ProcessOK

LEMMA ChangeCommandsKeep ==
    ASSUME MembershipInv, NEW n \in Node, NEW m \in Node,
           RemoveNode(n, m) \/ AddNode(n, m) \/ PromoteNode(n, m) \/ DemoteNode(n, m)
    PROVE  Kept
  <1>1. commands' \in 0..MaxCommands /\ commands' = commands + 1 /\ n \in up
    BY CommandCounts DEF RemoveNode, AddNode, PromoteNode, DemoteNode, Command
  <1>2. PICK s \in Suffrage : Change(n, m, s)
    BY DEF RemoveNode, AddNode, PromoteNode, DemoteNode, Suffrage
  <1>3. up' = up /\ existing' = existing /\ booting' = booting
        /\ reconciles' = reconciles /\ starts' = starts
    BY DEF RemoveNode, AddNode, PromoteNode, DemoteNode
  <1>4. RaftOK' /\ VotersKept /\ halted' \subseteq up
    BY <1>2, <1>3, ChangeKeepsRaft
  <1>5. /\ key' \in [Node -> Node \cup {NoNode}]
        /\ svc' \in [Node -> Node \cup {NoNode}]
        /\ \A q \in Node : q \in up' <=> svc'[q] # NoNode
        /\ lost' \subseteq up'
        /\ watch' \in [Node -> Watching]
    <2>1. CASE RemoveNode(n, m)
      BY <2>1, <1>3, UnregisterNodeByIdKeeps DEF RemoveNode, ProcessOK
    <2>2. CASE AddNode(n, m)
      BY <2>2, <1>1, <1>3, RegisterNodeKeeps DEF AddNode
    <2>3. CASE PromoteNode(n, m) \/ DemoteNode(n, m)
      BY <2>3, <1>3 DEF PromoteNode, DemoteNode, etcdVars, ProcessOK
    <2> QED
      BY <2>1, <2>2, <2>3
  <1> QED
    BY <1>1, <1>3, <1>4, <1>5 DEF ProcessOK, ReconcilesOK, HaltsByCommand, BootsOnce

LEMMA TransferLeadershipKeeps ==
    ASSUME MembershipInv, NEW n \in Node, NEW m \in Node, TransferLeadership(n, m)
    PROVE  Kept
  <1>1. commands' \in 0..MaxCommands
    BY CommandCounts DEF TransferLeadership
  <1>2. raftOf[n] \in Cluster
    BY LeaderHasHistory DEF TransferLeadership
  <1>3. RaftOK'
    BY <1>2 DEF TransferLeadership, processVars, RaftOK, LeaderIsVoter, RaftRuns
  <1> QED
    BY <1>1, <1>3 DEF TransferLeadership, ProcessOK, ReconcilesOK, processVars, etcdVars,
                      HaltsByCommand, BootsOnce, VotersKept, Voters

LEMMA SelfCommandsKeep ==
    ASSUME MembershipInv, NEW n \in Node,
           RemoveSelfFromCluster(n) \/ AddSelfToCluster(n)
    PROVE  Kept
  <1>1. commands' \in 0..MaxCommands /\ commands' = commands + 1 /\ n \in up
    BY CommandCounts DEF RemoveSelfFromCluster, AddSelfToCluster, Command
  <1>2. CASE RemoveSelfFromCluster(n)
    <2>1. RaftOK' /\ VotersKept /\ halted' \subseteq up
      BY <1>2, CallRaftKeeps DEF RemoveSelfFromCluster, Suffrage
    <2> QED
      BY <1>1, <1>2, <2>1, UnregisterNodeKeeps
      DEF RemoveSelfFromCluster, ProcessOK, ReconcilesOK, HaltsByCommand, BootsOnce
  <1>3. CASE AddSelfToCluster(n)
    <2>1. RaftOK' /\ VotersKept
      BY <1>3, SameRaft DEF AddSelfToCluster, processVars, ProcessOK
    <2> QED
      BY <1>1, <1>3, <2>1, RegisterNodeKeeps
      DEF AddSelfToCluster, processVars, ProcessOK, ReconcilesOK, HaltsByCommand, BootsOnce
  <1> QED
    BY <1>2, <1>3

(* A rebuilt node is the non-voter of a history nobody leads.              *)
LEMMA ForceRebuildClusterKeeps ==
    ASSUME MembershipInv, NEW n \in Node, ForceRebuildCluster(n)
    PROVE  Kept
  <1>1. commands' \in 0..MaxCommands /\ n \in up
    BY CommandCounts DEF ForceRebuildCluster, Command
  <1>2. ProcessOK'
    BY <1>1, RegisterNodeKeeps DEF ForceRebuildCluster, ProcessOK
  <1>3. PICK c \in Unused : /\ conf' = [conf EXCEPT ![c][n] = "nonvoter"]
                            /\ raftOf' = [raftOf EXCEPT ![n] = c]
    BY DEF ForceRebuildCluster
  <1>4. c \in Cluster /\ \A m \in Node : conf[c][m] = "none"
    BY DEF Unused, Servers
  <1>5. VotersKept
    BY <1>3, <1>4 DEF VotersKept, Voters, RaftOK
  <1>6. /\ conf' \in [Cluster -> [Node -> Suffrage]]
        /\ \A d \in Cluster \ {c} : conf'[d] = conf[d]
    BY <1>3, <1>4 DEF RaftOK, Suffrage
  <1>7. /\ leader' \in [Cluster -> Node \cup {NoNode}]
        /\ \A d \in Cluster : leader'[d] # NoNode => leader'[d] = leader[d] /\ leader[d] # n
    BY DEF ForceRebuildCluster, Deposed, RaftOK
  <1>8. leader[c] = NoNode
    BY <1>4 DEF RaftOK, LeaderIsVoter
  <1>9. /\ raftOf' \in [Node -> {0} \cup Cluster]
        /\ \A m \in Node \ {n} : raftOf'[m] = raftOf[m]
    BY <1>3, <1>4 DEF RaftOK
  <1>10. ASSUME NEW d \in Cluster, leader'[d] # NoNode
         PROVE  /\ leader'[d] \in up' \ halted' /\ raftOf'[leader'[d]] = d
                /\ conf'[d][leader'[d]] = "voter"
    <2>1. leader'[d] = leader[d] /\ leader[d] # n /\ d # c /\ leader[d] \in Node
      BY <1>7, <1>8, <1>10 DEF RaftOK
    <2>2. leader[d] \in up \ halted /\ raftOf[leader[d]] = d /\ conf[d][leader[d]] = "voter"
      BY <2>1, <1>10 DEF RaftOK, LeaderIsVoter, RaftRuns
    <2> QED
      BY <2>1, <2>2, <1>6, <1>9 DEF ForceRebuildCluster
  <1>11. RaftOK'
    BY <1>6, <1>7, <1>9, <1>10 DEF RaftOK, LeaderIsVoter, RaftRuns
  <1> QED
    BY <1>2, <1>5, <1>11 DEF ForceRebuildCluster, ReconcilesOK, HaltsByCommand, BootsOnce

LEMMA CommandsKeep ==
    ASSUME MembershipInv, NEW n \in Node, Operate(n)
    PROVE  Kept
  <1>1. CASE ResetRaftState(n)
    BY <1>1, CommandCounts, StopKeeps DEF ResetRaftState
  <1> QED
    BY <1>1, SelfCommandsKeep, ForceRebuildClusterKeeps, ChangeCommandsKeep,
       TransferLeadershipKeeps
    DEF Operate

(* A bootstrap gives at most one history its first voter.                  *)
LEMMA BootstrapKeeps ==
    ASSUME MembershipInv, NEW n \in Node, BootstrapRaftCluster(n)
    PROVE  /\ MembershipInv' /\ HaltsByCommand /\ BootsOnce
           /\ n \in booting /\ booting' = booting \ {n} /\ existing' = existing
           /\ \E c \in Cluster : \A d \in Cluster \ {c} :
                 Voters(conf[d])' # {} => Voters(conf[d]) # {}
  <1>1. ProcessOK' /\ ReconcilesOK' /\ HaltsByCommand /\ BootsOnce
    BY DEF BootstrapRaftCluster, ProcessOK, ReconcilesOK, etcdVars, HaltsByCommand, BootsOnce
  <1>2. 1 \in Cluster
    BY MembershipAssumption DEF Cluster
  <1>3. CASE UNCHANGED raftVars
    <2>1. RaftOK' /\ VotersKept
      BY <1>3, SameRaft DEF BootstrapRaftCluster, ProcessOK
    <2> QED
      BY <1>1, <1>2, <2>1 DEF BootstrapRaftCluster, VotersKept
  <1>4. CASE ~UNCHANGED raftVars
    <2> DEFINE servers == AuthRaftConfiguration(n)
    <2>1. servers \in [Node -> Suffrage]
      BY DEF AuthRaftConfiguration, Suffrage
    <2> HIDE DEF servers
    <2>2. raftOf[n] = 0 /\ BootstrapRaftClusterWithConfig(n, servers)
      BY <1>4 DEF BootstrapRaftCluster, servers
    <2>3. PICK c \in Unused : /\ conf' = [conf EXCEPT ![c] = servers]
                              /\ raftOf' = [raftOf EXCEPT ![n] = c]
                              /\ leader' = leader
      BY <1>4, <2>2 DEF BootstrapRaftClusterWithConfig
    <2>4. c \in Cluster /\ \A m \in Node : conf[c][m] = "none"
      BY DEF Unused, Servers
    <2>5. /\ conf' \in [Cluster -> [Node -> Suffrage]]
          /\ \A d \in Cluster \ {c} : conf'[d] = conf[d]
      BY <2>1, <2>3, <2>4 DEF RaftOK
    <2>6. /\ raftOf' \in [Node -> {0} \cup Cluster]
          /\ \A m \in Node \ {n} : raftOf'[m] = raftOf[m]
      BY <2>3, <2>4 DEF RaftOK
    <2>7. \A d \in Cluster : leader[d] # NoNode => d # c /\ leader[d] # n
      BY <2>2, <2>4 DEF RaftOK, LeaderIsVoter, Cluster
    <2>8. RaftOK'
      BY <2>3, <2>5, <2>6, <2>7 DEF RaftOK, LeaderIsVoter, RaftRuns, BootstrapRaftCluster
    <2>9. \A d \in Cluster \ {c} : Voters(conf[d])' # {} => Voters(conf[d]) # {}
      BY <2>5 DEF Voters
    <2> QED
      BY <1>1, <2>4, <2>8, <2>9 DEF BootstrapRaftCluster
  <1> QED
    BY <1>3, <1>4

LEMMA NextKeeps ==
    ASSUME MembershipInv, MembershipNext
    PROVE  Kept \/ \E n \in Node : BootstrapRaftCluster(n)
  <1>1. ASSUME NEW n \in Node, Crash(n)
        PROVE  Kept
    BY <1>1, StopKeeps DEF Crash, ProcessOK
  <1>2. ASSUME NEW n \in Node, Proceed(n), ~BootstrapRaftCluster(n)
        PROVE  Kept
    BY <1>2, ElectKeeps, HandleKeepAliveKeeps, WatchKeeps, ReconcileKeeps, FollowKeeps
    DEF Proceed
  <1> QED
    BY <1>1, <1>2, StartKeeps, LeaseExpiresKeeps, CommandsKeep, LoseQuorumKeeps
    DEF MembershipNext

LEMMA StutterKeeps ==
    ASSUME MembershipInv, UNCHANGED membershipVars
    PROVE  Kept
  BY DEF membershipVars, processVars, etcdVars, raftVars, ProcessOK, ReconcilesOK, RaftOK,
         LeaderIsVoter, RaftRuns, HaltsByCommand, BootsOnce, VotersKept, Voters

LEMMA InitInv == MembershipInit => MembershipInv
  BY MembershipAssumption
  DEF MembershipInit, ProcessOK, ReconcilesOK, RaftOK, LeaderIsVoter, Watching, Suffrage

(* In every reachable state the processes, the reconciliations and the raft *)
(* of the nodes are as MembershipInv says: what the registry, the start, the *)
(* commands and the elections of raft_cluster.go rely on.                  *)
THEOREM MembershipInvariant == MembershipSpec => []MembershipInv
  <1>1. ASSUME MembershipInv, [MembershipNext]_membershipVars
        PROVE  MembershipInv'
    BY <1>1, NextKeeps, BootstrapKeeps, StutterKeeps
  <1> QED
    BY InitInv, <1>1, PTL DEF MembershipSpec

-----------------------------------------------------------------------------
(* Every step of the registry, the reconciliations and the commands keeps  *)
(* the state well typed: what runs, what is halted and what has lost its   *)
(* lease are processes, and a process stands for a node (raft_cluster.go,  *)
(* etcd.go).                                                               *)
THEOREM MembershipTypeCorrect == MembershipSpec => []MembershipTypeOK
  <1>1. MembershipInv => MembershipTypeOK
    BY DEF ProcessOK, ReconcilesOK, RaftOK, MembershipTypeOK
  <1> QED
    BY MembershipInvariant, <1>1, PTL

(* Whatever is removed, demoted, rebuilt or crashes, a leader runs, has    *)
(* the history it leads and is a voter of it (raft_cluster.go:524-559,     *)
(* 732-850).                                                               *)
THEOREM LeadersAreVoters == MembershipSpec => []LeaderIsVoter
  <1>1. MembershipInv => LeaderIsVoter
    BY DEF RaftOK
  <1> QED
    BY MembershipInvariant, <1>1, PTL

(* A reconciliation with peers of any age never shuts down the raft of its *)
(* own node: it is in no set of servers to remove (raft_cluster.go:        *)
(* 526-529).                                                               *)
THEOREM ReconciliationsSpareThemselves == MembershipSpec => OnlyCommandsHalt
  <1>1. ASSUME MembershipInv, [MembershipNext]_membershipVars
        PROVE  [\A n \in Node : n \in halted' \ halted => commands' = commands + 1]_membershipVars
    BY <1>1, NextKeeps, BootstrapKeeps, StutterKeeps DEF HaltsByCommand
  <1> QED
    BY MembershipInvariant, <1>1, PTL DEF MembershipSpec, OnlyCommandsHalt

-----------------------------------------------------------------------------
(* One cluster: whoever bootstraps has made its directory before, and no   *)
(* history has a voter until then.                                         *)
BootedOnce ==
    /\ booting \subseteq Bootstrap \cap existing
    /\ \A c \in Cluster : Voters(conf[c]) # {} => booting = {} /\ Bootstrap \subseteq existing
    /\ OneCluster

(* With at most one node configured to bootstrap, there is one history     *)
(* with voters, whatever is killed, removed, reset or rebuilt              *)
(* (raft_cluster.go:81-127).                                               *)
THEOREM AtMostOneCluster ==
    ASSUME \A m, n \in Bootstrap : m = n
    PROVE  MembershipSpec => []OneCluster
  <1>1. MembershipInit => BootedOnce
    BY DEF MembershipInit, BootedOnce, OneCluster, Voters
  <1>2. ASSUME MembershipInv, BootedOnce, Kept
        PROVE  BootedOnce'
    <2>1. booting' \subseteq booting \cup (Bootstrap \ existing) /\ existing \subseteq existing'
          /\ booting' \subseteq existing'
      BY <1>2 DEF BootsOnce, ProcessOK
    <2> QED
      BY <1>2, <2>1 DEF BootedOnce, VotersKept, OneCluster
  <1>3. ASSUME MembershipInv, BootedOnce, NEW n \in Node, BootstrapRaftCluster(n)
        PROVE  BootedOnce'
    <2>1. n \in booting /\ booting' = booting \ {n} /\ existing' = existing
      BY <1>3, BootstrapKeeps
    <2>2. booting' = {} /\ Bootstrap \subseteq existing
      BY <1>3, <2>1 DEF BootedOnce
    <2>3. \A d \in Cluster : Voters(conf[d]) = {}
      BY <1>3, <2>1 DEF BootedOnce
    <2>4. PICK c \in Cluster : \A d \in Cluster \ {c} : Voters(conf[d])' = {}
      BY <1>3, <2>3, BootstrapKeeps
    <2>5. OneCluster'
      BY <2>4 DEF OneCluster
    <2> QED
      BY <1>3, <2>1, <2>2, <2>5 DEF BootedOnce
  <1>4. ASSUME MembershipInv, BootedOnce, [MembershipNext]_membershipVars
        PROVE  BootedOnce'
    BY <1>2, <1>3, <1>4, NextKeeps, StutterKeeps
  <1>5. BootedOnce => OneCluster
    BY DEF BootedOnce
  <1> QED
    BY <1>1, <1>4, <1>5, MembershipInvariant, PTL DEF MembershipSpec

=============================================================================
