----------------------------- MODULE Membership -----------------------------
(***************************************************************************)
(* The members of a cluster: the registry in etcd (service/etcd/etcd.go),  *)
(* the configuration of raft, and what changes either: the start of a node *)
(* and the leader's reconciliation of the two (service/node/raft_cluster   *)
(* .go, peer_communication.go) and the operator's commands.                *)
(*                                                                         *)
(* etcd and raft are libraries, modelled by what the code relies on. A key *)
(* of etcd lives as long as the lease it was put with; key[m] is the       *)
(* process whose current lease holds the key of node m. A raft history is  *)
(* a number: conf[c] are the servers of history c, raftOf[n] is the one    *)
(* stored on the disk of node n (0: none). A change of conf commits if a   *)
(* majority of its voters runs.                                            *)
(*                                                                         *)
(* Bounds: MaxClusters histories, MaxStarts starts, MaxCommands commands,  *)
(* MaxReconciles reconciliations under way on a node.                      *)
(***************************************************************************)
EXTENDS Naturals, FiniteSets

CONSTANTS Node, NoNode,
          Bootstrap,       \* nodes configured to bootstrap a cluster
          MaxClusters, MaxStarts, MaxCommands, MaxReconciles,
          MembershipFaults \* what may happen: see FaultKinds

FaultKinds == {"crash",    \* a process ends
               "lease",    \* a lease expires while its process runs
               "command"}  \* operators use the cluster's commands

ASSUME MembershipAssumption ==
    /\ NoNode \notin Node
    /\ Bootstrap \subseteq Node
    /\ MaxClusters \in Nat \ {0} /\ MaxStarts \in Nat
    /\ MaxCommands \in Nat /\ MaxReconciles \in Nat
    /\ MembershipFaults \subseteq FaultKinds

VARIABLES
    up,         \* running processes
    halted,     \* running processes whose raft has shut down
    existing,   \* nodes whose raft directory was there at their last start
    booting,    \* nodes that have registered and will decide to bootstrap
    key,        \* key[m]: the process whose lease holds the key of m
    svc,        \* svc[p]: the node the etcd service of p has registered last
    lost,       \* processes whose current lease is gone
    watch,      \* watch[n]: see Watching
    reconciles, \* reconciliations started by a node and not ended
    raftOf, conf, leader,
    starts, commands

etcdVars == <<key, svc, lost>>
raftVars == <<raftOf, conf, leader>>
processVars == <<up, halted, existing, booting>>
membershipVars == <<processVars, etcdVars, watch, reconciles, raftVars,
                    starts, commands>>

Suffrage == {"none", "nonvoter", "voter"}
Cluster == 1..MaxClusters

(* WatchPeers has not read the peers yet; has read them and not opened the *)
(* watch; waits for events; has an event to deliver.                       *)
Watching == {"off", "read", "on", "event"}

(* A reconciliation: the peers it was called with; once started, the      *)
(* servers it still has to remove and to add.                              *)
Reconciliation == [peers: SUBSET Node, started: BOOLEAN,
                   remove: SUBSET Node, add: SUBSET Node]

MembershipInit ==
    /\ up = {} /\ halted = {} /\ existing = {} /\ booting = {}
    /\ key = [m \in Node |-> NoNode]
    /\ svc = [p \in Node |-> NoNode]
    /\ lost = {}
    /\ watch = [n \in Node |-> "off"]
    /\ reconciles = [n \in Node |-> {}]
    /\ raftOf = [n \in Node |-> 0]
    /\ conf = [c \in Cluster |-> [m \in Node |-> "none"]]
    /\ leader = [c \in Cluster |-> NoNode]
    /\ starts = 0 /\ commands = 0

-----------------------------------------------------------------------------
(* etcd: every change of a key is an event for the open watches. *)

Registered == {m \in Node : key[m] # NoNode}

Notify == watch' = [n \in Node |-> IF watch[n] = "on" THEN "event" ELSE watch[n]]

(* Puts the key of m with a new lease, which from now on is the lease of   *)
(* the service of p, whichever node it stood for before.                   *)
RegisterNode(p, m) ==
    /\ key' = [key EXCEPT ![m] = p]
    /\ svc' = [svc EXCEPT ![p] = m]
    /\ lost' = lost \ {p}
    /\ Notify

(* Revokes the current lease of p, and with it the key it holds; a lease   *)
(* that is gone cannot be revoked.                                         *)
UnregisterNode(p) ==
    /\ p \notin lost
    /\ key' = [m \in Node |-> IF m = svc[p] /\ key[m] = p THEN NoNode ELSE key[m]]
    /\ lost' = lost \cup {p}
    /\ Notify
    /\ UNCHANGED svc

UnregisterNodeById(m) ==
    /\ key' = [key EXCEPT ![m] = NoNode]
    /\ lost' = lost \cup {p \in Node : key[m] = p /\ svc[p] = m}
    /\ IF key[m] = NoNode THEN UNCHANGED watch ELSE Notify
    /\ UNCHANGED svc

-----------------------------------------------------------------------------
(* raft *)

RaftRuns(n) == n \in up \ halted
Servers(c) == {m \in Node : conf[c][m] # "none"}
Voters(servers) == {m \in Node : servers[m] = "voter"}
CanCommit(servers) ==
    2 * Cardinality(Voters(servers) \cap (up \ halted)) > Cardinality(Voters(servers))

IsLeader(n) == raftOf[n] # 0 /\ leader[raftOf[n]] = n
Deposed(n) == [c \in Cluster |-> IF leader[c] = n THEN NoNode ELSE leader[c]]

(* AddNonvoter leaves the suffrage of a server that is there alone.        *)
With(servers, m, suffrage) ==
    IF suffrage = "nonvoter" /\ servers[m] # "none" THEN servers
    ELSE [servers EXCEPT ![m] = suffrage]

CanChange(n, m, suffrage) ==
    LET servers == With(conf[raftOf[n]], m, suffrage)
    IN IsLeader(n) /\ Voters(servers) # {} /\ CanCommit(servers)

(* RemoveServer, AddNonvoter and AddVoter of a leader. A leader that is no *)
(* server any more shuts its raft down.                                    *)
Change(n, m, suffrage) ==
    LET c == raftOf[n]
    IN /\ CanChange(n, m, suffrage)
       /\ conf' = [conf EXCEPT ![c] = With(@, m, suffrage)]
       /\ IF m = n /\ suffrage = "none"
          THEN leader' = Deposed(n) /\ halted' = halted \cup {n}
          ELSE UNCHANGED <<leader, halted>>
       /\ UNCHANGED raftOf

(* A server of a led cluster takes over the history of its leader.         *)
Follow(n, c) ==
    /\ RaftRuns(n) /\ leader[c] # NoNode /\ conf[c][n] # "none" /\ raftOf[n] # c
    /\ raftOf' = [raftOf EXCEPT ![n] = c]
    /\ leader' = Deposed(n)
    /\ UNCHANGED <<processVars, etcdVars, watch, reconciles, conf, starts, commands>>

Elect(n) ==
    LET c == raftOf[n]
    IN /\ RaftRuns(n) /\ c # 0
       /\ leader[c] = NoNode /\ conf[c][n] = "voter" /\ CanCommit(conf[c])
       /\ leader' = [leader EXCEPT ![c] = n]
       /\ UNCHANGED <<processVars, etcdVars, watch, reconciles,
                      raftOf, conf, starts, commands>>

LoseQuorum(c) ==
    /\ leader[c] # NoNode /\ ~CanCommit(conf[c])
    /\ leader' = [leader EXCEPT ![c] = NoNode]
    /\ UNCHANGED <<processVars, etcdVars, watch, reconciles,
                   raftOf, conf, starts, commands>>

-----------------------------------------------------------------------------
(* Start of a node. The process creates the raft directory, registers and  *)
(* watches its peers, recovers if the directory was there, and bootstraps  *)
(* if it is configured to and the directory was not there.                 *)

\* Variants (see the mutants of the project): the directory is not looked at.
BootstrapsAgain(n) == n \in Bootstrap
BootstrapsAfterStart(n) == n \in Bootstrap /\ n \notin existing

\* Variant (see the mutants of the project): a node with no history makes none.
MakeDirForHistory(n) == existing' = existing \cup {m \in {n} : raftOf[m] # 0}
MakeDirIfNotExist(n) == existing' = existing \cup {n}

Start(n) ==
    /\ n \notin up /\ starts < MaxStarts
    /\ up' = up \cup {n}
    /\ MakeDirIfNotExist(n)
    /\ RegisterNode(n, n)
    /\ booting' = IF BootstrapsAfterStart(n) THEN booting \cup {n} ELSE booting
    /\ starts' = starts + 1
    /\ UNCHANGED <<halted, reconciles, raftVars, commands>>

\* Variant (see the mutants of the project): the node itself is a non-voter too.
AuthAllNonvoters(n) ==
    [m \in Node |-> IF m \in (Registered \cap up) \cup {n} THEN "nonvoter" ELSE "none"]

(* Peers answer ConnectNode if they run; they become non-voters.           *)
AuthRaftConfiguration(n) ==
    [m \in Node |-> CASE m = n -> "voter"
                      [] m # n /\ m \in Registered \cap up -> "nonvoter"
                      [] OTHER -> "none"]

Unused == {c \in Cluster : Servers(c) = {}}

(* BootstrapCluster refuses a configuration without a voter.               *)
BootstrapRaftClusterWithConfig(n, servers) ==
    IF Voters(servers) = {} THEN UNCHANGED raftVars
    ELSE \E c \in Unused :
            /\ \A d \in Unused : c <= d
            /\ conf' = [conf EXCEPT ![c] = servers]
            /\ raftOf' = [raftOf EXCEPT ![n] = c]
            /\ UNCHANGED leader

(* Detecting a cluster means finding a leader or servers in the node's own *)
(* raft: a history on its disk, or one a leader has sent it since.         *)
BootstrapRaftCluster(n) ==
    /\ n \in booting
    /\ booting' = booting \ {n}
    /\ IF raftOf[n] # 0 THEN UNCHANGED raftVars
       ELSE BootstrapRaftClusterWithConfig(n, AuthRaftConfiguration(n))
    /\ UNCHANGED <<up, halted, existing, etcdVars, watch, reconciles, starts, commands>>

(* The end of a process; its keys stay until their leases expire.          *)
Stop(n) ==
    /\ up' = up \ {n}
    /\ halted' = halted \ {n}
    /\ booting' = booting \ {n}
    /\ svc' = [svc EXCEPT ![n] = NoNode]
    /\ lost' = lost \ {n}
    /\ watch' = [watch EXCEPT ![n] = "off"]
    /\ reconciles' = [reconciles EXCEPT ![n] = {}]
    /\ leader' = Deposed(n)
    /\ UNCHANGED <<existing, key, conf, starts>>

Crash(n) ==
    /\ "crash" \in MembershipFaults /\ n \in up
    /\ Stop(n)
    /\ UNCHANGED <<raftOf, commands>>

LeaseExpires(m) ==
    /\ key[m] # NoNode
    /\ \/ key[m] \notin up /\ UNCHANGED lost
       \/ /\ "lease" \in MembershipFaults /\ key[m] \in up
          /\ lost' = lost \cup {p \in {key[m]} : svc[p] = m}
    /\ key' = [key EXCEPT ![m] = NoNode]
    /\ Notify
    /\ UNCHANGED <<processVars, svc, reconciles, raftVars, starts, commands>>

(* The keep-alive channel of a lease that is gone closes; the refresh      *)
(* fails, and the node the service stood for last is registered again.     *)
HandleKeepAlive(p) ==
    /\ p \in up /\ p \in lost
    /\ RegisterNode(p, svc[p])
    /\ UNCHANGED <<processVars, reconciles, raftVars, starts, commands>>

-----------------------------------------------------------------------------
(* The leader follows etcd: the first list of peers and every event start  *)
(* a goroutine with the peers of that moment.                              *)

Deliver(n) ==
    /\ Cardinality(reconciles[n]) < MaxReconciles
    /\ reconciles' = [reconciles EXCEPT ![n] = @ \cup
                        {[peers |-> Registered, started |-> FALSE,
                          remove |-> {}, add |-> {}]}]

WatchPeers(n) ==
    /\ n \in up /\ watch[n] = "off"
    /\ watch' = [watch EXCEPT ![n] = "read"]
    /\ Deliver(n)
    /\ UNCHANGED <<processVars, etcdVars, raftVars, starts, commands>>

OpenWatch(n) ==
    /\ watch[n] = "read"
    /\ watch' = [watch EXCEPT ![n] = "on"]
    /\ UNCHANGED <<processVars, etcdVars, reconciles, raftVars, starts, commands>>

WatchPeersFromEtcd(n) ==
    /\ watch[n] = "event"
    /\ watch' = [watch EXCEPT ![n] = "on"]
    /\ Deliver(n)
    /\ UNCHANGED <<processVars, etcdVars, raftVars, starts, commands>>

Replace(n, r, s) == reconciles' = [reconciles EXCEPT ![n] = (@ \ {r}) \cup s]

\* Variant (see the mutants of the project): the leader removes itself too.
ToRemoveAll(n, peers) == Servers(raftOf[n]) \ peers

ToRemove(n, peers) == Servers(raftOf[n]) \ (peers \cup {n})
ToAdd(n, peers) == peers \ (Servers(raftOf[n]) \cup {n})

ReconcileStart(n, r) ==
    /\ ~r.started
    /\ Replace(n, r, IF IsLeader(n)
                     THEN {[r EXCEPT !.started = TRUE,
                                     !.remove = ToRemove(n, r.peers),
                                     !.add = ToAdd(n, r.peers)]}
                     ELSE {})
    /\ UNCHANGED <<processVars, etcdVars, watch, raftVars, starts, commands>>

(* One call of raft: it succeeds or its error is logged and the next one   *)
(* is made.                                                                *)
CallRaft(n, m, suffrage) ==
    \/ Change(n, m, suffrage)
    \/ ~CanChange(n, m, suffrage) /\ UNCHANGED <<raftVars, halted>>

ReconcileRemove(n, r, m) ==
    /\ r.started /\ m \in r.remove
    /\ CallRaft(n, m, "none")
    /\ Replace(n, r, {[r EXCEPT !.remove = @ \ {m}]})
    /\ UNCHANGED <<up, existing, booting, etcdVars, watch, starts, commands>>

ReconcileAdd(n, r, m) ==
    /\ r.started /\ r.remove = {} /\ m \in r.add
    /\ CallRaft(n, m, "voter")
    /\ Replace(n, r, {[r EXCEPT !.add = @ \ {m}]})
    /\ UNCHANGED <<up, existing, booting, etcdVars, watch, starts, commands>>

ReconcileEnd(n, r) ==
    /\ r.started /\ r.remove = {} /\ r.add = {}
    /\ Replace(n, r, {})
    /\ UNCHANGED <<processVars, etcdVars, watch, raftVars, starts, commands>>

ReconcileRaftMembershipWithPeers(n) ==
    \E r \in reconciles[n] :
        \/ ReconcileStart(n, r) \/ ReconcileEnd(n, r)
        \/ \E m \in Node : ReconcileRemove(n, r, m) \/ ReconcileAdd(n, r, m)

-----------------------------------------------------------------------------
(* The operator's commands (http/server/controllers/cluster.go): every one *)
(* is a request to one node, and changes of the configuration need the     *)
(* leader. A request that fails changes nothing else.                      *)

Command(n) ==
    /\ "command" \in MembershipFaults
    /\ n \in up /\ commands < MaxCommands
    /\ commands' = commands + 1

RemoveNode(n, m) ==
    /\ Command(n)
    /\ Change(n, m, "none")
    /\ UnregisterNodeById(m)
    /\ UNCHANGED <<up, existing, booting, reconciles, starts>>

(* The node is registered through the service of the leader, which stands  *)
(* for it from now on.                                                     *)
AddNode(n, m) ==
    /\ Command(n)
    /\ IsLeader(n) /\ conf[raftOf[n]][m] = "none"
    /\ Change(n, m, "nonvoter")
    /\ RegisterNode(n, m)
    /\ UNCHANGED <<up, existing, booting, reconciles, starts>>

PromoteNode(n, m) ==
    /\ Command(n)
    /\ IsLeader(n) /\ conf[raftOf[n]][m] = "nonvoter"
    /\ Change(n, m, "voter")
    /\ UNCHANGED <<up, existing, booting, etcdVars, watch, reconciles, starts>>

DemoteNode(n, m) ==
    /\ Command(n)
    /\ IsLeader(n) /\ conf[raftOf[n]][m] = "voter"
    /\ Change(n, m, "nonvoter")
    /\ UNCHANGED <<up, existing, booting, etcdVars, watch, reconciles, starts>>

TransferLeadership(n, m) ==
    /\ Command(n)
    /\ IsLeader(n) /\ RaftRuns(m) /\ raftOf[m] = raftOf[n]
    /\ conf[raftOf[n]][m] = "voter"
    /\ leader' = [leader EXCEPT ![raftOf[n]] = m]
    /\ UNCHANGED <<processVars, etcdVars, watch, reconciles, raftOf, conf, starts>>

(* Leaves etcd first; then only a leader leaves the configuration.         *)
RemoveSelfFromCluster(n) ==
    /\ Command(n)
    /\ UnregisterNode(n)
    /\ CallRaft(n, n, "none")
    /\ UNCHANGED <<up, existing, booting, reconciles, starts>>

(* A leader is a server already, and others may not add themselves.        *)
AddSelfToCluster(n) ==
    /\ Command(n)
    /\ RegisterNode(n, n)
    /\ UNCHANGED <<processVars, raftVars, reconciles, starts>>

(* Raft is shut down, its snapshot replaced by one of the database whose   *)
(* configuration is this node as a non-voter, its log removed, and raft is *)
(* started on that. Bootstrapping it afterwards fails: it has a snapshot.  *)
ForceRebuildCluster(n) ==
    /\ Command(n)
    /\ \E c \in Unused :
          /\ \A d \in Unused : c <= d
          /\ conf' = [conf EXCEPT ![c][n] = "nonvoter"]
          /\ raftOf' = [raftOf EXCEPT ![n] = c]
    /\ leader' = Deposed(n)
    /\ halted' = halted \ {n}
    /\ RegisterNode(n, n)
    /\ UNCHANGED <<up, existing, booting, reconciles, starts>>

(* The files of raft are removed, not their directory; the process exits.  *)
ResetRaftState(n) ==
    /\ Command(n)
    /\ Stop(n)
    /\ raftOf' = [raftOf EXCEPT ![n] = 0]

-----------------------------------------------------------------------------
Proceed(n) ==
    \/ Elect(n) \/ BootstrapRaftCluster(n) \/ HandleKeepAlive(n)
    \/ WatchPeers(n) \/ OpenWatch(n) \/ WatchPeersFromEtcd(n)
    \/ ReconcileRaftMembershipWithPeers(n)
    \/ \E c \in Cluster : Follow(n, c)

Operate(n) ==
    \/ RemoveSelfFromCluster(n) \/ AddSelfToCluster(n)
    \/ ForceRebuildCluster(n) \/ ResetRaftState(n)
    \/ \E m \in Node : \/ RemoveNode(n, m) \/ AddNode(n, m)
                       \/ PromoteNode(n, m) \/ DemoteNode(n, m)
                       \/ TransferLeadership(n, m)

MembershipNext ==
    \/ \E n \in Node : Start(n) \/ Crash(n) \/ LeaseExpires(n) \/ Proceed(n) \/ Operate(n)
    \/ \E c \in Cluster : LoseQuorum(c)

MembershipSpec == MembershipInit /\ [][MembershipNext]_membershipVars

(* Raft elects a leader when it can, and every goroutine of a running node *)
(* goes on: its start, its keep-alive, its watch, its reconciliations.     *)
MembershipFairness ==
    /\ \A n \in Node :
        /\ WF_membershipVars(Elect(n))
        /\ WF_membershipVars(BootstrapRaftCluster(n))
        /\ WF_membershipVars(HandleKeepAlive(n))
        /\ WF_membershipVars(WatchPeers(n) \/ OpenWatch(n) \/ WatchPeersFromEtcd(n))
        /\ WF_membershipVars(ReconcileRaftMembershipWithPeers(n))
    /\ \A n \in Node, c \in Cluster : WF_membershipVars(Follow(n, c))
MembershipFairSpec == MembershipSpec /\ MembershipFairness

-----------------------------------------------------------------------------
MembershipTypeOK ==
    /\ halted \subseteq up /\ up \subseteq existing /\ existing \subseteq Node
    /\ booting \subseteq up
    /\ key \in [Node -> Node \cup {NoNode}]
    /\ svc \in [Node -> Node \cup {NoNode}]
    /\ lost \subseteq up
    /\ \A p \in up : svc[p] # NoNode
    /\ watch \in [Node -> Watching]
    /\ reconciles \in [Node -> SUBSET Reconciliation]
    /\ raftOf \in [Node -> {0} \cup Cluster]
    /\ conf \in [Cluster -> [Node -> Suffrage]]
    /\ leader \in [Cluster -> Node \cup {NoNode}]
    /\ starts \in 0..MaxStarts /\ commands \in 0..MaxCommands

(* At most one history can ever be led: one node bootstraps, once, however *)
(* often nodes are killed, removed, reset or rebuilt (raft_cluster.go:     *)
(* 81-127).                                                                *)
OneCluster ==
    \A c, d \in Cluster :
        Voters(conf[c]) # {} /\ Voters(conf[d]) # {} => c = d

(* The leader of a history runs, has that history and is a voter of it:    *)
(* no stale reconciliation and no command leaves a cluster with a leader   *)
(* that is not its member (raft_cluster.go:524-559, 732-850).              *)
LeaderIsVoter ==
    \A c \in Cluster :
        leader[c] # NoNode =>
            /\ RaftRuns(leader[c])
            /\ raftOf[leader[c]] = c
            /\ conf[c][leader[c]] = "voter"

(* A reconciliation, however old the peers it was called with, never takes *)
(* the raft of its own node down; only a command does                      *)
(* (raft_cluster.go:526-529).                                              *)
OnlyCommandsHalt ==
    [][\A n \in Node : n \in halted' \ halted => commands' = commands + 1]_membershipVars

(* A node that decides to bootstrap leads the cluster, unless it is killed *)
(* or an operator intervenes (raft_cluster.go:81-127, 593-622).            *)
BootstrapMakesLeader ==
    \A n \in Node :
        n \in booting ~> \/ \E c \in Cluster : leader[c] # NoNode
                         \/ n \notin up \/ commands > 0

=============================================================================
