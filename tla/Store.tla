------------------------------- MODULE Store -------------------------------
(* The database of a node: raft's finite state machine over an SQLite file  *)
(* (fsm/fsm_store.go, fsm_actions.go, fsm_snapshot.go), its recovery at a   *)
(* start, and the backup and restore of db/db.go. The raft library is       *)
(* external: a log that grows, a commit index that is learnt again after a  *)
(* start, and snapshots that are taken of the applied commands. A command   *)
(* is an SQL statement whose effect doubles when it is executed twice.      *)
EXTENDS Integers, Sequences, SequencesExt, FiniteSets

CONSTANTS
    Command,      \* SQL statements sent through raft
    Failing,      \* those SQLite refuses: they are rolled back
    Seed,         \* the contents of a database that existed before raft did
    Execution,    \* execution rows a node writes outside raft
    Task,         \* async tasks a node writes outside raft
    Cleans,       \* the rows a command lets the event handler delete
    NoBackup, NoSnapshot,
    MaxCrashes,   \* bound: crashes and forced rebuilds
    MaxRetained   \* snapshots the snapshot store keeps

LocalRow == Execution \cup Task
ASSUME StoreAssumption ==
    /\ Failing \subseteq Command /\ Seed \notin Command
    /\ Execution \cap Task = {}
    /\ Cleans \in [Command -> SUBSET LocalRow]
    /\ MaxCrashes \in Nat /\ MaxRetained \in Nat \ {0}

VARIABLES
    storeNode,    \* "bootstrapped", "running", "down", "booted", "recovering" or "persisted"
    raftLog,      \* the raft log of the node, with the entries its snapshots cover
    commitIndex, lastApplied,
    database,     \* copies of every command's effect and of every local row
    snapshots,    \* the snapshot store, newest first
    persisting,   \* index of the snapshot that raft is about to persist
    posted,       \* commands on the post-process channel
    recovered,    \* the recovery database and the log index it was built for
    backupFile,
    restoring,    \* RestoreDatabase has replaced the database, not yet persisted it
    storeCrashes,
    snapshotted,  \* history: commands the database stands for beside the log
    openRows,     \* history: rows written and not deleted by the event handler
    raced,        \* history: commands applied while an older snapshot was persisted
    rebased,      \* history: a snapshot replaced rows of the node
    restored      \* history: a backup was restored
storeVars == <<storeNode, raftLog, commitIndex, lastApplied, database, snapshots, persisting, posted, recovered,
               backupFile, restoring, storeCrashes, snapshotted, openRows, raced, rebased, restored>>
storeHistory == <<storeCrashes, snapshotted, openRows, raced, rebased, restored>>
storeFiles == <<backupFile, restoring>>

Empty == [effects |-> [c \in Command \cup {Seed} |-> 0], rows |-> [r \in LocalRow |-> 0]]

----------------------------------------------------------------------------
(* Snapshots: the store lists them by term and index, the newest first, and *)
(* reaps what lies behind the last it retains. What is persisted is the     *)
(* file, local rows included.                                               *)
NewestIndex == IF snapshots = <<>> THEN 0 ELSE Head(snapshots).index
NewestData == IF snapshots = <<>> THEN Empty ELSE Head(snapshots).data
Listed(index, data) ==
    LET newer == Cardinality({i \in DOMAIN snapshots : snapshots[i].index > index})
        all == InsertAt(snapshots, newer + 1, [index |-> index, data |-> data])
    IN SubSeq(all, 1, IF Len(all) < MaxRetained THEN Len(all) ELSE MaxRetained)

(* The commands of the log after one index and up to another. Those between *)
(* the index of a snapshot and what was applied when it was persisted are   *)
(* in its file already, and a replay from the index executes them again.    *)
Entries(index, reached) == {raftLog[i] : i \in (index + 1)..reached}

(* dbExecute: a transaction, rolled back when the statement fails.          *)
dbExecute(data, c) == IF c \in Failing THEN data ELSE [data EXCEPT !.effects[c] = @ + 1]

Alive == storeNode \in {"bootstrapped", "running", "booted", "recovering", "persisted"}

----------------------------------------------------------------------------
(* Raft, as far as the store sees it.                                       *)
AppendEntry(c) ==
    /\ Alive /\ c \notin snapshotted /\ ~Contains(raftLog, c)
    /\ raftLog' = Append(raftLog, c)
    /\ UNCHANGED <<storeNode, commitIndex, lastApplied, database, snapshots, persisting, posted, recovered>>
    /\ UNCHANGED <<storeFiles, storeHistory>>

(* A new leader replaces an entry that was never committed.                 *)
TruncateEntry ==
    /\ storeNode = "running" /\ Len(raftLog) > commitIndex
    /\ raftLog' = Front(raftLog)
    /\ UNCHANGED <<storeNode, commitIndex, lastApplied, database, snapshots, persisting, posted, recovered>>
    /\ UNCHANGED <<storeFiles, storeHistory>>

LearnCommit ==
    /\ Alive /\ commitIndex < Len(raftLog)
    /\ commitIndex' = commitIndex + 1
    /\ UNCHANGED <<storeNode, raftLog, lastApplied, database, snapshots, persisting, posted, recovered>>
    /\ UNCHANGED <<storeFiles, storeHistory>>

(* store.Apply and ApplyBatch, ApplyRaftLog: a command without error that   *)
(* asks for a post-process goes on the channel.                             *)
Posts(c) == c \notin Failing /\ Cleans[c] # {}
Apply ==
    /\ Alive /\ lastApplied < commitIndex
    /\ LET c == raftLog[lastApplied + 1] IN
       /\ database' = dbExecute(database, c)
       /\ posted' = IF Posts(c) THEN posted \cup {c} ELSE posted
    /\ lastApplied' = lastApplied + 1
    /\ UNCHANGED <<storeNode, raftLog, commitIndex, snapshots, persisting, recovered>>
    /\ UNCHANGED <<storeFiles, storeHistory>>

(* raft calls Snapshot between two applications, Persist runs beside them:  *)
(* the handle holds no contents, Persist reads the file as it then is.      *)
Snapshot ==
    /\ storeNode = "running" /\ persisting = NoSnapshot /\ lastApplied > NewestIndex
    /\ persisting' = lastApplied
    /\ UNCHANGED <<storeNode, raftLog, commitIndex, lastApplied, database, snapshots, posted, recovered>>
    /\ UNCHANGED <<storeFiles, storeHistory>>

Persist ==
    /\ storeNode = "running" /\ persisting # NoSnapshot
    /\ snapshots' = Listed(persisting, database)
    /\ raced' = raced \cup Entries(persisting, lastApplied)
    /\ persisting' = NoSnapshot
    /\ UNCHANGED <<storeNode, raftLog, commitIndex, lastApplied, database, posted, recovered>>
    /\ UNCHANGED <<storeFiles, storeCrashes, snapshotted, openRows, rebased, restored>>

(* store.Restore of a snapshot the leader sends: the file of the leader     *)
(* replaces the node's, with the commands it had then and none of its rows. *)
LeaderFile(reached) ==
    [Empty EXCEPT !.effects = [c \in Command \cup {Seed} |->
        IF c \in (snapshotted \cup Entries(0, reached)) \ Failing THEN 1 ELSE 0]]
InstallSnapshot(index, reached) ==
    /\ storeNode = "running" /\ persisting = NoSnapshot
    /\ lastApplied < index /\ index <= reached /\ reached <= commitIndex
    /\ database' = LeaderFile(reached)
    /\ snapshots' = Listed(index, LeaderFile(reached))
    /\ lastApplied' = index
    /\ raced' = raced \cup Entries(index, reached)
    /\ rebased' = TRUE
    /\ UNCHANGED <<storeNode, raftLog, commitIndex, persisting, posted, recovered>>
    /\ UNCHANGED <<storeFiles, storeCrashes, snapshotted, openRows, restored>>

----------------------------------------------------------------------------
(* Rows a node writes outside raft, and their deletion by the event handler *)
(* once the cluster has committed them. The handler listens after recovery. *)
WriteRow(r) ==
    /\ storeNode = "running" /\ r \notin openRows /\ database.rows[r] = 0
    /\ \A c \in Command : r \in Cleans[c] => ~Contains(raftLog, c) /\ c \notin snapshotted
    /\ database' = [database EXCEPT !.rows[r] = 1]
    /\ openRows' = openRows \cup {r}
    /\ UNCHANGED <<storeNode, raftLog, commitIndex, lastApplied, snapshots, persisting, posted, recovered>>
    /\ UNCHANGED <<storeFiles, storeCrashes, snapshotted, raced, rebased, restored>>

Deleted(data, rows) == [data EXCEPT !.rows = [r \in LocalRow |-> IF r \in rows THEN 0 ELSE @[r]]]
PostProcess(c) ==
    /\ storeNode = "running" /\ c \in posted
    /\ database' = Deleted(database, Cleans[c])
    /\ openRows' = openRows \ Cleans[c]
    /\ posted' = posted \ {c}
    /\ UNCHANGED <<storeNode, raftLog, commitIndex, lastApplied, snapshots, persisting, recovered>>
    /\ UNCHANGED <<storeFiles, storeCrashes, snapshotted, raced, rebased, restored>>

----------------------------------------------------------------------------
(* Start, stop and recovery.                                                *)
Crash ==
    /\ Alive /\ storeCrashes < MaxCrashes
    /\ storeNode' = "down" /\ storeCrashes' = storeCrashes + 1
    /\ persisting' = NoSnapshot /\ posted' = {} /\ recovered' = NoSnapshot /\ restoring' = FALSE
    /\ UNCHANGED <<raftLog, commitIndex, lastApplied, database, snapshots, backupFile>>
    /\ UNCHANGED <<snapshotted, openRows, raced, rebased, restored>>

(* A first start over an existing database: once the cluster is             *)
(* bootstrapped the file becomes a snapshot at index 1, before any command. *)
SnapshotExistingDb ==
    /\ storeNode = "bootstrapped"
    /\ snapshots' = Listed(0, database)
    /\ snapshotted' = {Seed}
    /\ raced' = Entries(0, lastApplied)
    /\ storeNode' = "running"
    /\ UNCHANGED <<raftLog, commitIndex, lastApplied, database, persisting, posted, recovered>>
    /\ UNCHANGED <<storeFiles, storeCrashes, openRows, rebased, restored>>

(* InitRaft: raft restores the newest snapshot and learns the commit index  *)
(* again. Without a snapshot the file stays as it is and raft starts from 0.*)
InitRaft ==
    /\ commitIndex' = NewestIndex /\ lastApplied' = NewestIndex
    /\ database' = IF snapshots = <<>> THEN database ELSE NewestData
Boot ==
    /\ storeNode = "down" /\ storeNode' = "booted"
    /\ InitRaft
    /\ rebased' = (rebased \/ snapshots # <<>>)
    /\ UNCHANGED <<raftLog, snapshots, persisting, posted, recovered>>
    /\ UNCHANGED <<storeFiles, storeCrashes, snapshotted, openRows, raced, restored>>

(* RecoverRaftState: the newest snapshot, every entry of the log past it    *)
(* whether committed or not, then the uncommitted execution logs read from  *)
(* the file of the node. GetAsyncTasksLogs returns nothing.                 *)
\* Variant: the entry the snapshot ends with is replayed.
FirstReplayedAgain(index) == index
FirstReplayed(index) == index + 1
Replayed(data) ==
    LET again == {i \in 1..Len(raftLog) : FirstReplayed(NewestIndex) <= i /\ raftLog[i] \notin Failing}
    IN [data EXCEPT !.effects =
            [c \in Command \cup {Seed} |-> @[c] + Cardinality({i \in again : raftLog[i] = c})]]

\* Variant: the tasks are read and the execution logs are not.
GetTasksInstead(data) == [r \in LocalRow |-> IF r \in Task THEN data.rows[r] ELSE 0]
GetExecutionLogs(data) == [r \in LocalRow |-> IF r \in Execution THEN data.rows[r] ELSE 0]

InsertExecutionLogs(data, rows) == [data EXCEPT !.rows = [r \in LocalRow |-> @[r] + rows[r]]]
RecoverRaftState ==
    /\ storeNode = "booted" /\ storeNode' = "recovering"
    /\ recovered' = [index |-> Len(raftLog), data |-> InsertExecutionLogs(Replayed(NewestData), GetExecutionLogs(database))]
    /\ UNCHANGED <<raftLog, commitIndex, lastApplied, database, snapshots, persisting, posted>>
    /\ UNCHANGED <<storeFiles, storeHistory>>

(* The recovery database becomes a snapshot at the last index, the log it   *)
(* covers is deleted, ...                                                   *)
PersistRecovered ==
    /\ storeNode = "recovering" /\ storeNode' = "persisted"
    /\ snapshots' = Listed(recovered.index, recovered.data)
    /\ recovered' = NoSnapshot
    /\ UNCHANGED <<raftLog, commitIndex, lastApplied, database, persisting, posted>>
    /\ UNCHANGED <<storeFiles, storeHistory>>

(* ... and raft is opened anew on what the stores now hold.                 *)
ReopenRaft ==
    /\ storeNode = "persisted" /\ storeNode' = "running"
    /\ InitRaft
    /\ UNCHANGED <<raftLog, snapshots, persisting, posted, recovered>>
    /\ UNCHANGED <<storeFiles, storeHistory>>

(* ForceRebuildCluster: raft forgets its log and starts again from the file.*)
ForceRebuildCluster ==
    /\ storeNode = "running" /\ storeCrashes < MaxCrashes
    /\ snapshots' = <<[index |-> 0, data |-> database]>>
    /\ raftLog' = <<>> /\ commitIndex' = 0 /\ lastApplied' = 0 /\ persisting' = NoSnapshot
    /\ snapshotted' = {c \in Command \cup {Seed} : database.effects[c] > 0}
    /\ storeCrashes' = storeCrashes + 1
    /\ UNCHANGED <<storeNode, database, posted, recovered, storeFiles, openRows, raced, rebased, restored>>

----------------------------------------------------------------------------
(* Backup and restore of the file. A restore persists the file as a         *)
(* snapshot at index 1, behind every other one.                             *)
Backup == backupFile' = database
BackupDatabase ==
    /\ storeNode = "running" /\ backupFile = NoBackup /\ Backup
    /\ UNCHANGED <<storeNode, raftLog, commitIndex, lastApplied, database, snapshots, persisting, posted, recovered>>
    /\ UNCHANGED <<restoring, storeHistory>>

RestoreDatabase ==
    /\ storeNode = "running" /\ backupFile # NoBackup /\ ~restored
    /\ database' = backupFile
    /\ restoring' = TRUE /\ restored' = TRUE
    /\ UNCHANGED <<storeNode, raftLog, commitIndex, lastApplied, snapshots, persisting, posted, recovered, backupFile>>
    /\ UNCHANGED <<storeCrashes, snapshotted, openRows, raced, rebased>>

SnapshotRestored ==
    /\ storeNode = "running" /\ restoring
    /\ snapshots' = Listed(0, database)
    /\ restoring' = FALSE
    /\ UNCHANGED <<storeNode, raftLog, commitIndex, lastApplied, database, persisting, posted, recovered, backupFile>>
    /\ UNCHANGED storeHistory

----------------------------------------------------------------------------
StoreInit ==
    /\ storeNode \in {"bootstrapped", "running"}
    /\ database = IF storeNode = "bootstrapped" THEN [Empty EXCEPT !.effects[Seed] = 1] ELSE Empty
    /\ raftLog = <<>> /\ commitIndex = 0 /\ lastApplied = 0
    /\ snapshots = <<>> /\ persisting = NoSnapshot /\ recovered = NoSnapshot
    /\ posted = {} /\ backupFile = NoBackup /\ restoring = FALSE
    /\ storeCrashes = 0 /\ snapshotted = {} /\ openRows = {} /\ raced = {}
    /\ rebased = FALSE /\ restored = FALSE

StoreNext ==
    \/ \E c \in Command : AppendEntry(c) \/ PostProcess(c)
    \/ TruncateEntry \/ LearnCommit \/ Apply \/ Snapshot \/ Persist
    \/ \E index, reached \in 1..commitIndex : InstallSnapshot(index, reached)
    \/ \E r \in LocalRow : WriteRow(r)
    \/ Crash \/ SnapshotExistingDb \/ Boot \/ RecoverRaftState \/ PersistRecovered \/ ReopenRaft
    \/ ForceRebuildCluster \/ BackupDatabase \/ RestoreDatabase \/ SnapshotRestored

StoreSpec == StoreInit /\ [][StoreNext]_storeVars

----------------------------------------------------------------------------
(* Through crashes in every phase of a recovery, snapshots installed and    *)
(* entries replaced, the database of a running node holds each command raft *)
(* counts as applied, none it does not, and none twice, except that a       *)
(* command applied while an older snapshot was being persisted is in it too *)
(* early and is executed again (fsm_snapshot.go:28). A restored backup      *)
(* suspends the promise.                                                    *)
DatabaseHoldsLog ==
    storeNode = "running" /\ ~restored =>
        \A c \in Command \cup {Seed} :
            LET due == c \in (snapshotted \cup Entries(0, lastApplied)) \ Failing IN
            /\ due => database.effects[c] >= 1
            /\ c \notin raced => database.effects[c] = IF due THEN 1 ELSE 0

(* Until a start finds a snapshot or one is installed, a node that crashes  *)
(* and recovers keeps the execution rows it has logged and not handed over, *)
(* each once (RecoverRaftState). Once a snapshot exists InitRaft has        *)
(* replaced the file before the rows are read.                              *)
RowsSurviveRestart ==
    storeNode = "running" /\ ~rebased /\ ~restored =>
        \A r \in Execution : database.rows[r] = IF r \in openRows THEN 1 ELSE 0
=============================================================================
