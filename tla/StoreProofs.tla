----------------------------- MODULE StoreProofs -----------------------------
(***************************************************************************)
(* The database of Store, for any commands, rows, crashes and number of     *)
(* snapshots retained: it holds each applied command once, and its rows     *)
(* survive a recovery that finds no snapshot.                               *)
(***************************************************************************)
EXTENDS Store, FiniteSetTheorems, SequenceTheorems, TLAPS

Item == Command \cup {Seed}
Data == [effects : [Item -> Nat], rows : [LocalRow -> Nat]]
File == [index : Nat, data : Data]

FilesOK ==
    /\ storeNode \in {"bootstrapped", "running", "down", "booted", "recovering", "persisted"}
    /\ database \in Data
    /\ snapshots \in Seq(File)
    /\ storeNode = "recovering" => recovered \in File
    /\ backupFile # NoBackup => backupFile \in Data
    /\ raftLog \in Seq(Command) /\ commitIndex \in Nat /\ lastApplied \in Nat
    /\ restored \in BOOLEAN /\ rebased \in BOOLEAN /\ restoring \in BOOLEAN
    /\ restoring => restored

(* A command is in the log once, or in what the log started from; an entry  *)
(* that a snapshot covers is never replaced: a running node has it below    *)
(* its commit index, and a recovery covers the whole log.                   *)
LogOK ==
    /\ lastApplied <= commitIndex /\ commitIndex <= Len(raftLog)
    /\ \A i, j \in 1..Len(raftLog) : raftLog[i] = raftLog[j] => i = j
    /\ \A i \in 1..Len(raftLog) : raftLog[i] \notin snapshotted
    /\ snapshots = <<>> => snapshotted = {}
    /\ persisting # NoSnapshot => storeNode = "running" /\ persisting \in 0..lastApplied
    /\ storeNode = "bootstrapped" => snapshots = <<>> /\ raced = {}
    /\ \A i \in 1..Len(snapshots) :
           /\ snapshots[i].index <= Len(raftLog)
           /\ storeNode = "running" => snapshots[i].index <= commitIndex
           /\ storeNode = "recovering" => snapshots[i].index <= recovered.index
           /\ storeNode = "persisted" => snapshots[i].index <= snapshots[1].index
    /\ storeNode = "recovering" => recovered.index <= Len(raftLog)
    /\ storeNode = "persisted" => snapshots # <<>>

(* What a file should hold that stands for the first k entries of a log,    *)
(* and a file that holds it, except for commands that are exempt.           *)
Due(log, base, k) == (base \cup {log[i] : i \in 1..k}) \ Failing
Sound(data, due, exempt) ==
    \A c \in Item : /\ c \in due => data.effects[c] >= 1
                    /\ c \notin exempt => data.effects[c] = IF c \in due THEN 1 ELSE 0

EffectsOK ==
    ~restored =>
        /\ storeNode = "running" => Sound(database, Due(raftLog, snapshotted, lastApplied), raced)
        /\ storeNode = "bootstrapped" => Sound(database, Due(raftLog, {Seed}, lastApplied), {})
        /\ storeNode = "recovering" =>
               Sound(recovered.data, Due(raftLog, snapshotted, recovered.index), raced)
        /\ \A i \in 1..Len(snapshots) :
               Sound(snapshots[i].data, Due(raftLog, snapshotted, snapshots[i].index), raced)

(* A file that has the open execution rows, each once.                      *)
HasRows(data, open) == \A r \in Execution : data.rows[r] = IF r \in open THEN 1 ELSE 0

RowsOK ==
    ~rebased /\ ~restored =>
        /\ HasRows(database, openRows)
        /\ storeNode = "booted" => snapshots = <<>>
        /\ storeNode = "recovering" => snapshots = <<>> /\ HasRows(recovered.data, openRows)
        /\ storeNode = "persisted" => HasRows(snapshots[1].data, openRows)

StoreInv == FilesOK /\ LogOK /\ EffectsOK /\ RowsOK
-----------------------------------------------------------------------------
(* The snapshot store.                                                      *)

LEMMA Inserted ==
    ASSUME NEW s, NEW place, NEW new
    PROVE  InsertAt(s, place, new) = (SubSeq(s, 1, place - 1) \o <<new>>) \o SubSeq(s, place, Len(s))
  BY Zenon DEF InsertAt

LEMMA ListedFiles ==
    ASSUME snapshots \in Seq(File), NEW index \in Nat, NEW data \in Data
    PROVE  /\ Listed(index, data) \in Seq(File)
           /\ Len(Listed(index, data)) >= 1
           /\ \A i \in 1..Len(Listed(index, data)) :
                  \/ Listed(index, data)[i] = [index |-> index, data |-> data]
                  \/ \E j \in 1..Len(snapshots) : Listed(index, data)[i] = snapshots[j]
           /\ (\A j \in 1..Len(snapshots) : snapshots[j].index <= index)
                  => Listed(index, data)[1] = [index |-> index, data |-> data]
  <1> DEFINE above == {i \in DOMAIN snapshots : snapshots[i].index > index}
             newer == Cardinality(above)
             new == [index |-> index, data |-> data]
             all == InsertAt(snapshots, newer + 1, new)
             kept == IF Len(all) < MaxRetained THEN Len(all) ELSE MaxRetained
  <1>0. above \subseteq 1..Len(snapshots) /\ (\A i \in above : snapshots[i].index > index)
    <2>1. DOMAIN snapshots = 1..Len(snapshots)
      OBVIOUS
    <2> QED
      BY <2>1
  <1>1. newer \in 0..Len(snapshots)
    <2>1. Len(snapshots) \in Nat
      OBVIOUS
    <2>2. IsFiniteSet(1..Len(snapshots)) /\ Cardinality(1..Len(snapshots)) = Len(snapshots)
      BY <2>1, FS_Interval
    <2> HIDE DEF above
    <2>3. IsFiniteSet(above) /\ Cardinality(above) <= Cardinality(1..Len(snapshots))
      BY <1>0, <2>2, FS_Subset
    <2>4. Cardinality(above) \in Nat
      BY <2>3, FS_CardinalityType
    <2> QED
      BY <2>1, <2>2, <2>3, <2>4
  <1>2. new \in File
    BY DEF File
  <1>3. above = {} => newer = 0
    BY FS_EmptySet
  <1> HIDE DEF newer, new
  <1>4. /\ all \in Seq(File) /\ Len(all) = Len(snapshots) + 1
        /\ \A i \in 1..Len(all) : all[i] = IF i <= newer THEN snapshots[i]
                                         ELSE IF i = newer + 1 THEN new ELSE snapshots[i - 1]
    <2> DEFINE left == SubSeq(snapshots, 1, newer)
               right == SubSeq(snapshots, newer + 1, Len(snapshots))
               middle == left \o <<new>>
    <2>1. /\ left \in Seq(File) /\ Len(left) = newer
          /\ \A i \in 1..newer : left[i] = snapshots[i]
      BY <1>1, SubSeqProperties
    <2>2. /\ right \in Seq(File) /\ Len(right) = Len(snapshots) - newer
          /\ \A i \in 1..(Len(snapshots) - newer) : right[i] = snapshots[newer + i]
      BY <1>1, SubSeqProperties
    <2>3. all = middle \o right
      <3> DEFINE place == newer + 1
      <3>1. place - 1 = newer /\ place = newer + 1
        BY <1>1
      <3>2. all = InsertAt(snapshots, place, new)
        OBVIOUS
      <3> HIDE DEF place, all
      <3>3. all = (SubSeq(snapshots, 1, place - 1) \o <<new>>) \o SubSeq(snapshots, place, Len(snapshots))
        BY <3>2, Inserted, Zenon
      <3> QED
        BY <3>1, <3>3, Zenon
    <2> HIDE DEF left, right
    <2>4. /\ middle \in Seq(File) /\ Len(middle) = newer + 1
          /\ \A i \in 1..(newer + 1) : middle[i] = IF i <= newer THEN snapshots[i] ELSE new
      BY <1>1, <1>2, <2>1
    <2> HIDE DEF middle, all
    <2>5. /\ all \in Seq(File) /\ Len(all) = Len(snapshots) + 1
          /\ \A i \in 1..(Len(snapshots) + 1) : all[i] = IF i <= newer + 1 THEN middle[i] ELSE right[i - (newer + 1)]
      <3>1. /\ all \in Seq(File) /\ Len(all) = Len(middle) + Len(right)
            /\ \A i \in 1..(Len(middle) + Len(right)) :
                   all[i] = IF i <= Len(middle) THEN middle[i] ELSE right[i - Len(middle)]
        BY <2>2, <2>3, <2>4, ConcatProperties, Zenon
      <3>2. Len(middle) + Len(right) = Len(snapshots) + 1
        BY <1>1, <2>2, <2>4
      <3> QED
        BY <2>4, <3>1, <3>2
    <2>6. ASSUME NEW i \in 1..(Len(snapshots) + 1), i > newer + 1
          PROVE  right[i - (newer + 1)] = snapshots[i - 1]
      BY <1>1, <2>2, <2>6
    <2>7. ASSUME NEW i \in 1..(Len(snapshots) + 1)
          PROVE  all[i] = IF i <= newer THEN snapshots[i]
                          ELSE IF i = newer + 1 THEN new ELSE snapshots[i - 1]
      <3>1. CASE i <= newer + 1
        BY <1>1, <2>4, <2>5, <3>1
      <3>2. CASE i > newer + 1
        BY <1>1, <2>5, <2>6, <3>2
      <3> QED
        BY <1>1, <3>1, <3>2
    <2> QED
      BY <2>5, <2>7
  <1> HIDE DEF all
  <1>5. kept \in 1..Len(all)
    BY <1>4, StoreAssumption
  <1>6. Listed(index, data) = SubSeq(all, 1, kept)
    BY DEF Listed, all, newer, new
  <1> HIDE DEF kept
  <1>7. /\ Listed(index, data) \in Seq(File) /\ Len(Listed(index, data)) = kept
        /\ \A i \in 1..kept : Listed(index, data)[i] = all[i]
    BY <1>4, <1>5, <1>6
  <1>8. ASSUME NEW i \in 1..kept
        PROVE  all[i] = new \/ \E j \in 1..Len(snapshots) : all[i] = snapshots[j]
    <2>1. i \in 1..Len(all)
      BY <1>4, <1>5
    <2>2. CASE i <= newer
      BY <1>1, <1>4, <2>1, <2>2
    <2>3. CASE i = newer + 1
      BY <1>1, <1>4, <2>1, <2>3
    <2>4. CASE i > newer + 1
      <3>1. i - 1 \in 1..Len(snapshots) /\ all[i] = snapshots[i - 1]
        BY <1>1, <1>4, <2>1, <2>4
      <3> QED
        BY <3>1
    <2> QED
      BY <1>1, <2>2, <2>3, <2>4
  <1>9. ASSUME \A j \in 1..Len(snapshots) : snapshots[j].index <= index
        PROVE  all[1] = new
    <2>1. above = {}
      <3>1. \A i \in above : FALSE
        <4> HIDE DEF above
        <4>1. \A j \in 1..Len(snapshots) : snapshots[j] \in File
          OBVIOUS
        <4> QED
          BY <1>0, <1>9, <4>1 DEF File
      <3> QED
        BY <3>1
    <2> QED
      BY <2>1, <1>3, <1>4
  <1> QED
    BY <1>5, <1>7, <1>8, <1>9 DEF new

LEMMA Listing ==
    ASSUME snapshots \in Seq(File)
    PROVE  /\ Len(snapshots) \in Nat
           /\ \A i \in 1..Len(snapshots) : snapshots[i].index \in Nat /\ snapshots[i].data \in Data
  <1>1. \A i \in 1..Len(snapshots) : snapshots[i] \in File
    OBVIOUS
  <1> QED
    BY <1>1 DEF File

LEMMA Newest ==
    ASSUME snapshots \in Seq(File)
    PROVE  /\ NewestIndex = IF snapshots = <<>> THEN 0 ELSE snapshots[1].index
           /\ NewestData = IF snapshots = <<>> THEN Empty ELSE snapshots[1].data
           /\ NewestIndex \in Nat /\ NewestData \in Data
           /\ snapshots # <<>> => 1 \in 1..Len(snapshots)
  <1>1. Empty \in Data
    BY DEF Empty, Data, Item
  <1>2. snapshots # <<>> => snapshots[1] \in File /\ Head(snapshots) = snapshots[1] /\ Len(snapshots) >= 1
    OBVIOUS
  <1> QED
    BY <1>1, <1>2 DEF NewestIndex, NewestData, File

-----------------------------------------------------------------------------
(* What a file should hold.                                                 *)

LEMMA MoreExempt ==
    ASSUME NEW data, NEW due, NEW exempt, NEW more, Sound(data, due, exempt)
    PROVE  Sound(data, due, exempt \cup more)
  BY DEF Sound

(* A file that holds more entries than its index says is sound if those are *)
(* exempt.                                                                  *)
LEMMA Ahead ==
    ASSUME NEW data, NEW log, NEW base, NEW k \in Nat, NEW l \in Nat, k <= l, NEW exempt, NEW more,
           Sound(data, Due(log, base, l), exempt),
           exempt \subseteq more, \A i \in (k + 1)..l : log[i] \in more
    PROVE  Sound(data, Due(log, base, k), more)
  <1>1. Due(log, base, k) \subseteq Due(log, base, l)
    BY DEF Due
  <1>2. Due(log, base, l) \subseteq Due(log, base, k) \cup more
    BY DEF Due
  <1> QED
    BY <1>1, <1>2 DEF Sound

LEMMA NothingDue ==
    ASSUME NEW log, NEW exempt
    PROVE  Sound(Empty, Due(log, {}, 0), exempt)
  <1>1. Due(log, {}, 0) = {}
    BY DEF Due
  <1> QED
    BY <1>1 DEF Sound, Empty, Item

-----------------------------------------------------------------------------
(* Raft's log and index. What a file should hold depends on the part of the *)
(* log that it stands for, which no step of raft changes.                   *)

LEMMA SamePrefix ==
    ASSUME FilesOK, EffectsOK, NEW m \in Nat, \A i \in 1..m : raftLog'[i] = raftLog[i],
           lastApplied <= m, \A i \in 1..Len(snapshots) : snapshots[i].index <= m,
           storeNode = "recovering" => recovered.index <= m,
           UNCHANGED <<storeNode, lastApplied, database, snapshots, snapshotted, recovered, raced, restored>>
    PROVE  EffectsOK'
  <1>1. ASSUME NEW base, NEW k \in Nat, k <= m
        PROVE  Due(raftLog', base, k) = Due(raftLog, base, k)
    BY <1>1 DEF Due
  <1>2. \A i \in 1..Len(snapshots) : snapshots[i].index \in Nat
    BY Listing DEF FilesOK
  <1>3. lastApplied \in Nat /\ (storeNode = "recovering" => recovered.index \in Nat)
    BY DEF FilesOK, File
  <1> QED
    BY <1>1, <1>2, <1>3 DEF EffectsOK

LEMMA RowsUntouched ==
    ASSUME RowsOK, UNCHANGED <<storeNode, database, snapshots, recovered, openRows, rebased, restored>>
    PROVE  RowsOK'
  BY DEF RowsOK

LEMMA AppendEntryKeeps ==
    ASSUME StoreInv, NEW c \in Command, AppendEntry(c)
    PROVE  StoreInv'
  <1> USE DEF StoreInv, AppendEntry, storeFiles, storeHistory
  <1>1. raftLog \in Seq(Command) /\ Len(raftLog) \in Nat
    BY DEF FilesOK
  <1>2. /\ raftLog' \in Seq(Command) /\ Len(raftLog') = Len(raftLog) + 1
        /\ \A i \in 1..Len(raftLog) : raftLog'[i] = raftLog[i]
        /\ raftLog'[Len(raftLog) + 1] = c
    BY <1>1, AppendProperties
  <1>3. FilesOK'
    BY <1>2 DEF FilesOK
  <1>4. LogOK'
    <2>1. \A i \in 1..Len(raftLog) : raftLog[i] # c
      BY <1>1 DEF Contains
    <2>2. ASSUME NEW i \in 1..Len(raftLog'), NEW j \in 1..Len(raftLog'), raftLog'[i] = raftLog'[j]
          PROVE  i = j
      BY <1>1, <1>2, <2>1, <2>2 DEF LogOK
    <2>3. ASSUME NEW i \in 1..Len(raftLog') PROVE raftLog'[i] \notin snapshotted'
      BY <1>1, <1>2 DEF LogOK
    <2>4. \A i \in 1..Len(snapshots) : snapshots[i].index \in Nat
      BY Listing DEF FilesOK
    <2>5. storeNode = "recovering" => recovered.index \in Nat
      BY DEF FilesOK, File
    <2> QED
      BY <1>1, <1>2, <2>2, <2>3, <2>4, <2>5 DEF LogOK, FilesOK
  <1>5. EffectsOK'
    BY <1>1, <1>2, SamePrefix DEF LogOK, FilesOK
  <1> QED
    BY <1>3, <1>4, <1>5, RowsUntouched

LEMMA TruncateEntryKeeps ==
    ASSUME StoreInv, TruncateEntry
    PROVE  StoreInv'
  <1> USE DEF StoreInv, TruncateEntry, storeFiles, storeHistory
  <1>1. raftLog \in Seq(Command) /\ Len(raftLog) \in Nat /\ commitIndex \in Nat
    BY DEF FilesOK
  <1>2. /\ raftLog' \in Seq(Command) /\ Len(raftLog') = Len(raftLog) - 1
        /\ \A i \in 1..(Len(raftLog) - 1) : raftLog'[i] = raftLog[i]
    <2> DEFINE n == Len(raftLog) - 1
    <2>1. n \in Nat /\ \A i \in 1..n : raftLog[i] \in Command
      BY <1>1
    <2>2. raftLog' = SubSeq(raftLog, 1, n)
      BY DEF Front
    <2> HIDE DEF n
    <2>3. /\ SubSeq(raftLog, 1, n) \in Seq(Command)
          /\ Len(SubSeq(raftLog, 1, n)) = n
          /\ \A i \in 1..n : SubSeq(raftLog, 1, n)[i] = raftLog[i]
      BY <2>1, SubSeqProperties
    <2> QED
      BY <2>2, <2>3 DEF n
  <1>3. FilesOK'
    BY <1>2 DEF FilesOK
  <1>4. LogOK'
    <2>1. \A i \in 1..Len(snapshots) : snapshots[i].index \in Nat
      BY Listing DEF FilesOK
    <2> QED
      BY <1>1, <1>2, <2>1 DEF LogOK, FilesOK
  <1>5. EffectsOK'
    <2>1. \A i \in 1..commitIndex : raftLog'[i] = raftLog[i]
      BY <1>1, <1>2
    <2> QED
      BY <1>1, <2>1, SamePrefix DEF LogOK, FilesOK
  <1> QED
    BY <1>3, <1>4, <1>5, RowsUntouched

LEMMA LearnCommitKeeps ==
    ASSUME StoreInv, LearnCommit
    PROVE  StoreInv'
  <1> USE DEF StoreInv, LearnCommit, storeFiles, storeHistory
  <1>1. FilesOK'
    BY DEF FilesOK
  <1>2. LogOK'
    <2>1. \A i \in 1..Len(snapshots) : snapshots[i].index \in Nat
      BY Listing DEF FilesOK
    <2> QED
      BY <2>1 DEF LogOK, FilesOK
  <1>3. EffectsOK'
    BY DEF EffectsOK
  <1> QED
    BY <1>1, <1>2, <1>3, RowsUntouched

-----------------------------------------------------------------------------
(* Commands that are applied.                                               *)

LEMMA OneMore ==
    ASSUME NEW data \in Data, NEW log, NEW base, NEW exempt, NEW k \in Nat,
           NEW c \in Command, log[k + 1] = c, c \notin base, \A i \in 1..k : log[i] # c
    PROVE  /\ dbExecute(data, c) \in Data /\ dbExecute(data, c).rows = data.rows
           /\ Sound(data, Due(log, base, k), exempt) =>
                  Sound(dbExecute(data, c), Due(log, base, k + 1), exempt)
  <1>1. Due(log, base, k + 1) = Due(log, base, k) \cup ({c} \ Failing) /\ c \notin Due(log, base, k)
    BY DEF Due
  <1>2. CASE c \in Failing
    BY <1>1, <1>2 DEF dbExecute
  <1>3. CASE c \notin Failing
    <2>1. data.effects \in [Item -> Nat] /\ data.rows \in [LocalRow -> Nat]
      BY DEF Data
    <2>2. c \in Item
      BY DEF Item
    <2>3. dbExecute(data, c) = [data EXCEPT !.effects = [data.effects EXCEPT ![c] = data.effects[c] + 1]]
      BY <1>3 DEF dbExecute, Data
    <2>4. dbExecute(data, c) \in Data /\ dbExecute(data, c).rows = data.rows
      BY <2>1, <2>2, <2>3 DEF Data
    <2>5. \A d \in Item : dbExecute(data, c).effects[d] = IF d = c THEN data.effects[c] + 1 ELSE data.effects[d]
      BY <2>1, <2>2, <2>3 DEF Data
    <2>6. \A d \in Item : data.effects[d] \in Nat
      BY <2>1
    <2>7. ASSUME Sound(data, Due(log, base, k), exempt)
          PROVE  Sound(dbExecute(data, c), Due(log, base, k + 1), exempt)
      BY <1>1, <1>3, <2>2, <2>5, <2>6, <2>7 DEF Sound
    <2> QED
      BY <2>4, <2>7
  <1> QED
    BY <1>2, <1>3

LEMMA ApplyKeeps ==
    ASSUME StoreInv, Apply
    PROVE  StoreInv'
  <1> USE DEF StoreInv
  <1> DEFINE c == raftLog[lastApplied + 1]
  <1>1. /\ raftLog \in Seq(Command) /\ Len(raftLog) \in Nat
        /\ lastApplied \in Nat /\ lastApplied + 1 \in 1..Len(raftLog) /\ database \in Data
    BY DEF FilesOK, LogOK, Apply
  <1>2. /\ c \in Command /\ c \notin snapshotted /\ c # Seed
        /\ \A i \in 1..lastApplied : raftLog[i] # c
    BY <1>1, StoreAssumption DEF LogOK
  <1>3. database' = dbExecute(database, c) /\ lastApplied' = lastApplied + 1
    BY DEF Apply
  <1>4. /\ database' \in Data /\ database'.rows = database.rows
        /\ Sound(database, Due(raftLog, snapshotted, lastApplied), raced) =>
               Sound(database', Due(raftLog, snapshotted, lastApplied'), raced)
        /\ Sound(database, Due(raftLog, {Seed}, lastApplied), {}) =>
               Sound(database', Due(raftLog, {Seed}, lastApplied'), {})
    BY <1>1, <1>2, <1>3, OneMore
  <1> HIDE DEF c
  <1>5. UNCHANGED <<storeNode, raftLog, commitIndex, snapshots, persisting, recovered, backupFile, restoring,
                    snapshotted, openRows, raced, rebased, restored>>
    BY DEF Apply, storeFiles, storeHistory
  <1>6. lastApplied + 1 <= commitIndex
    BY <1>1 DEF Apply, FilesOK
  <1>7. FilesOK'
    BY <1>1, <1>3, <1>4, <1>5 DEF FilesOK
  <1>8. LogOK'
    BY <1>1, <1>3, <1>5, <1>6 DEF LogOK
  <1>9. EffectsOK'
    BY <1>4, <1>5 DEF EffectsOK
  <1>10. RowsOK'
    BY <1>4, <1>5 DEF RowsOK, HasRows
  <1> QED
    BY <1>7, <1>8, <1>9, <1>10

-----------------------------------------------------------------------------
(* Snapshots.                                                               *)

LEMMA Added ==
    ASSUME snapshots \in Seq(File), NEW index \in Nat, NEW data \in Data,
           snapshots' = Listed(index, data)
    PROVE  /\ snapshots' \in Seq(File) /\ snapshots' # <<>>
           /\ \A i \in 1..Len(snapshots') :
                  \/ snapshots'[i].index = index /\ snapshots'[i].data = data
                  \/ \E j \in 1..Len(snapshots) : snapshots'[i] = snapshots[j]
           /\ (\A j \in 1..Len(snapshots) : snapshots[j].index <= index)
                  => snapshots'[1].index = index /\ snapshots'[1].data = data
  <1> DEFINE new == [index |-> index, data |-> data]
  <1>1. /\ snapshots' \in Seq(File) /\ Len(snapshots') >= 1
        /\ \A i \in 1..Len(snapshots') :
               \/ snapshots'[i] = new
               \/ \E j \in 1..Len(snapshots) : snapshots'[i] = snapshots[j]
        /\ (\A j \in 1..Len(snapshots) : snapshots[j].index <= index) => snapshots'[1] = new
    BY ListedFiles, Zenon
  <1>2. new.index = index /\ new.data = data
    OBVIOUS
  <1>3. snapshots' # <<>>
    BY <1>1
  <1> QED
    BY <1>1, <1>2, <1>3, Zenon

LEMMA SnapshotKeeps ==
    ASSUME StoreInv, Snapshot
    PROVE  StoreInv'
  <1> USE DEF StoreInv, Snapshot, storeFiles, storeHistory
  <1>1. FilesOK'
    BY DEF FilesOK
  <1>2. LogOK'
    BY DEF LogOK, FilesOK
  <1>3. EffectsOK'
    BY DEF EffectsOK
  <1> QED
    BY <1>1, <1>2, <1>3, RowsUntouched

LEMMA PersistKeeps ==
    ASSUME StoreInv, Persist
    PROVE  StoreInv'
  <1> USE DEF StoreInv
  <1>1. /\ persisting \in Nat /\ persisting <= lastApplied /\ lastApplied \in Nat
        /\ snapshots \in Seq(File) /\ database \in Data
    BY DEF Persist, LogOK, FilesOK
  <1>2. /\ snapshots' = Listed(persisting, database) /\ persisting' = NoSnapshot
        /\ raced' = raced \cup {raftLog[i] : i \in (persisting + 1)..lastApplied}
        /\ storeNode = "running"
        /\ UNCHANGED <<storeNode, raftLog, commitIndex, lastApplied, database, recovered, backupFile, restoring,
                       snapshotted, openRows, rebased, restored>>
    BY DEF Persist, Entries, storeFiles
  <1>3. /\ snapshots' \in Seq(File) /\ snapshots' # <<>>
        /\ \A i \in 1..Len(snapshots') :
               \/ snapshots'[i].index = persisting /\ snapshots'[i].data = database
               \/ \E j \in 1..Len(snapshots) : snapshots'[i] = snapshots[j]
    BY <1>1, <1>2, Added
  <1>4. FilesOK'
    BY <1>2, <1>3 DEF FilesOK
  <1>5. LogOK'
    BY <1>1, <1>2, <1>3, <1>4 DEF LogOK, FilesOK
  <1>6. EffectsOK'
    <2> SUFFICES ASSUME ~restored
                 PROVE  /\ Sound(database, Due(raftLog, snapshotted, lastApplied), raced')
                        /\ \A i \in 1..Len(snapshots') :
                               Sound(snapshots'[i].data, Due(raftLog, snapshotted, snapshots'[i].index), raced')
      BY <1>2 DEF EffectsOK
    <2>1. Sound(database, Due(raftLog, snapshotted, lastApplied), raced)
      BY <1>2 DEF EffectsOK
    <2>2. Sound(database, Due(raftLog, snapshotted, lastApplied), raced')
      BY <1>2, <2>1, MoreExempt
    <2>3. Sound(database, Due(raftLog, snapshotted, persisting), raced')
      <3>1. raced \subseteq raced' /\ \A i \in (persisting + 1)..lastApplied : raftLog[i] \in raced'
        BY <1>2
      <3> QED
        BY <1>1, <2>1, <3>1, Ahead
    <2>4. ASSUME NEW j \in 1..Len(snapshots)
          PROVE  Sound(snapshots[j].data, Due(raftLog, snapshotted, snapshots[j].index), raced')
      BY <1>2, MoreExempt DEF EffectsOK
    <2> QED
      BY <1>3, <2>2, <2>3, <2>4
  <1> QED
    BY <1>2, <1>4, <1>5, <1>6 DEF RowsOK, HasRows

(* The file of a leader holds what its log says.                            *)
LEMMA LeaderFileHolds ==
    ASSUME NEW reached \in Nat
    PROVE  /\ LeaderFile(reached) \in Data
           /\ \A exempt : Sound(LeaderFile(reached), Due(raftLog, snapshotted, reached), exempt)
  <1>1. \A c \in Item :
            LeaderFile(reached).effects[c] = IF c \in Due(raftLog, snapshotted, reached) THEN 1 ELSE 0
    BY DEF LeaderFile, Empty, Entries, Due, Item
  <1>2. LeaderFile(reached) \in Data
    BY DEF LeaderFile, Empty, Data, Item
  <1> QED
    BY <1>1, <1>2 DEF Sound

LEMMA InstallSnapshotKeeps ==
    ASSUME StoreInv, NEW index \in 1..commitIndex, NEW reached \in 1..commitIndex,
           InstallSnapshot(index, reached)
    PROVE  StoreInv'
  <1> USE DEF StoreInv
  <1>1. /\ commitIndex \in Nat /\ index \in Nat /\ reached \in Nat /\ index <= reached /\ index <= commitIndex
        /\ snapshots \in Seq(File)
    BY DEF FilesOK, InstallSnapshot
  <1> DEFINE file == LeaderFile(reached)
  <1>2. file \in Data /\ \A exempt : Sound(file, Due(raftLog, snapshotted, reached), exempt)
    BY <1>1, LeaderFileHolds
  <1>3. /\ snapshots' = Listed(index, file) /\ database' = file /\ lastApplied' = index
        /\ raced' = raced \cup {raftLog[i] : i \in (index + 1)..reached}
        /\ storeNode = "running" /\ rebased' = TRUE /\ persisting = NoSnapshot
        /\ UNCHANGED <<storeNode, raftLog, commitIndex, persisting, recovered, backupFile, restoring,
                       snapshotted, openRows, restored>>
    BY DEF InstallSnapshot, Entries, storeFiles
  <1> HIDE DEF file
  <1>4. /\ snapshots' \in Seq(File) /\ snapshots' # <<>>
        /\ \A i \in 1..Len(snapshots') :
               \/ snapshots'[i].index = index /\ snapshots'[i].data = file
               \/ \E j \in 1..Len(snapshots) : snapshots'[i] = snapshots[j]
    BY <1>1, <1>2, <1>3, Added
  <1>5. FilesOK'
    BY <1>1, <1>2, <1>3, <1>4 DEF FilesOK
  <1>6. LogOK'
    BY <1>1, <1>3, <1>4, <1>5 DEF LogOK, FilesOK
  <1>7. EffectsOK'
    <2> SUFFICES ASSUME ~restored
                 PROVE  /\ Sound(file, Due(raftLog, snapshotted, index), raced')
                        /\ \A i \in 1..Len(snapshots') :
                               Sound(snapshots'[i].data, Due(raftLog, snapshotted, snapshots'[i].index), raced')
      BY <1>3 DEF EffectsOK
    <2>1. Sound(file, Due(raftLog, snapshotted, index), raced')
      <3>1. Sound(file, Due(raftLog, snapshotted, reached), raced)
        BY <1>2
      <3>2. raced \subseteq raced' /\ \A i \in (index + 1)..reached : raftLog[i] \in raced'
        BY <1>3
      <3> QED
        BY <1>1, <3>1, <3>2, Ahead
    <2>2. ASSUME NEW j \in 1..Len(snapshots)
          PROVE  Sound(snapshots[j].data, Due(raftLog, snapshotted, snapshots[j].index), raced')
      BY <1>3, MoreExempt DEF EffectsOK
    <2> QED
      BY <1>4, <2>1, <2>2
  <1> QED
    BY <1>3, <1>5, <1>6, <1>7 DEF RowsOK

-----------------------------------------------------------------------------
(* Rows outside raft.                                                       *)

LEMMA SameEffects ==
    ASSUME FilesOK, EffectsOK, database' \in Data, database'.effects = database.effects,
           UNCHANGED <<storeNode, raftLog, lastApplied, snapshots, recovered, snapshotted, raced, restored>>
    PROVE  EffectsOK'
  BY DEF EffectsOK, Sound

LEMMA WriteRowKeeps ==
    ASSUME StoreInv, NEW r \in LocalRow, WriteRow(r)
    PROVE  StoreInv'
  <1> USE DEF StoreInv
  <1>1. database \in Data
    BY DEF FilesOK
  <1>2. /\ database' = [database EXCEPT !.rows = [database.rows EXCEPT ![r] = 1]]
        /\ openRows' = openRows \cup {r} /\ storeNode = "running"
        /\ UNCHANGED <<storeNode, raftLog, commitIndex, lastApplied, snapshots, persisting, recovered, backupFile,
                       restoring, snapshotted, raced, rebased, restored>>
    BY <1>1 DEF WriteRow, storeFiles, Data
  <1>3. /\ database' \in Data /\ database'.effects = database.effects
        /\ \A q \in LocalRow : database'.rows[q] = IF q = r THEN 1 ELSE database.rows[q]
    BY <1>1, <1>2 DEF Data
  <1>4. FilesOK'
    BY <1>2, <1>3 DEF FilesOK
  <1>5. LogOK'
    BY <1>2 DEF LogOK
  <1>6. EffectsOK'
    BY <1>2, <1>3, SameEffects
  <1>7. RowsOK'
    BY <1>2, <1>3 DEF RowsOK, HasRows, LocalRow
  <1> QED
    BY <1>4, <1>5, <1>6, <1>7

LEMMA PostProcessKeeps ==
    ASSUME StoreInv, NEW c \in Command, PostProcess(c)
    PROVE  StoreInv'
  <1> USE DEF StoreInv
  <1>1. database \in Data
    BY DEF FilesOK
  <1>2. /\ database' = [database EXCEPT !.rows = [r \in LocalRow |-> IF r \in Cleans[c] THEN 0 ELSE database.rows[r]]]
        /\ openRows' = openRows \ Cleans[c] /\ storeNode = "running"
        /\ UNCHANGED <<storeNode, raftLog, commitIndex, lastApplied, snapshots, persisting, recovered, backupFile,
                       restoring, snapshotted, raced, rebased, restored>>
    BY <1>1 DEF PostProcess, Deleted, storeFiles, Data
  <1>3. /\ database' \in Data /\ database'.effects = database.effects
        /\ \A q \in LocalRow : database'.rows[q] = IF q \in Cleans[c] THEN 0 ELSE database.rows[q]
    BY <1>1, <1>2 DEF Data
  <1>4. FilesOK'
    BY <1>2, <1>3 DEF FilesOK
  <1>5. LogOK'
    BY <1>2 DEF LogOK
  <1>6. EffectsOK'
    BY <1>2, <1>3, SameEffects
  <1>7. RowsOK'
    BY <1>2, <1>3 DEF RowsOK, HasRows, LocalRow
  <1> QED
    BY <1>4, <1>5, <1>6, <1>7

-----------------------------------------------------------------------------
(* Stop, start and recovery.                                                *)

LEMMA CrashKeeps ==
    ASSUME StoreInv, Crash
    PROVE  StoreInv'
  <1> USE DEF StoreInv, Crash
  <1>1. FilesOK'
    BY DEF FilesOK
  <1>2. LogOK'
    BY DEF LogOK
  <1>3. EffectsOK'
    BY DEF EffectsOK
  <1>4. RowsOK'
    BY DEF RowsOK, HasRows
  <1> QED
    BY <1>1, <1>2, <1>3, <1>4

LEMMA SnapshotExistingDbKeeps ==
    ASSUME StoreInv, SnapshotExistingDb
    PROVE  StoreInv'
  <1> USE DEF StoreInv
  <1>1. /\ snapshots \in Seq(File) /\ snapshots = <<>> /\ database \in Data /\ 0 \in Nat
        /\ lastApplied \in Nat /\ lastApplied <= commitIndex /\ commitIndex <= Len(raftLog)
        /\ raftLog \in Seq(Command) /\ commitIndex \in Nat /\ Len(raftLog) \in Nat
    BY DEF SnapshotExistingDb, FilesOK, LogOK
  <1>2. /\ snapshots' = Listed(0, database) /\ snapshotted' = {Seed} /\ storeNode' = "running"
        /\ raced' = {raftLog[i] : i \in 1..lastApplied}
        /\ UNCHANGED <<raftLog, commitIndex, lastApplied, database, persisting, recovered, backupFile,
                       restoring, openRows, rebased, restored>>
    BY DEF SnapshotExistingDb, Entries, storeFiles
  <1>3. /\ snapshots' \in Seq(File) /\ snapshots' # <<>>
        /\ \A i \in 1..Len(snapshots') : snapshots'[i].index = 0 /\ snapshots'[i].data = database
    <2>1. 1..Len(snapshots) = {}
      BY <1>1
    <2>2. /\ snapshots' \in Seq(File) /\ snapshots' # <<>>
          /\ \A i \in 1..Len(snapshots') :
                 \/ snapshots'[i].index = 0 /\ snapshots'[i].data = database
                 \/ \E j \in 1..Len(snapshots) : snapshots'[i] = snapshots[j]
      BY <1>1, <1>2, Added
    <2> QED
      BY <2>1, <2>2, Zenon
  <1>4. FilesOK'
    BY <1>2, <1>3 DEF FilesOK
  <1>5. LogOK'
    BY <1>1, <1>2, <1>3, StoreAssumption DEF LogOK, SnapshotExistingDb
  <1>6. EffectsOK'
    <2> SUFFICES ASSUME ~restored
                 PROVE  /\ Sound(database, Due(raftLog, {Seed}, lastApplied), raced')
                        /\ Sound(database, Due(raftLog, {Seed}, 0), raced')
      BY <1>2, <1>3 DEF EffectsOK
    <2>1. Sound(database, Due(raftLog, {Seed}, lastApplied), {})
      BY DEF EffectsOK, SnapshotExistingDb
    <2>2. \A i \in 1..lastApplied : raftLog[i] \in raced'
      BY <1>2
    <2>3. Sound(database, Due(raftLog, {Seed}, 0), raced')
      BY <1>1, <2>1, <2>2, Ahead
    <2>4. Sound(database, Due(raftLog, {Seed}, lastApplied), raced')
      BY <2>1 DEF Sound
    <2> QED
      BY <2>3, <2>4
  <1> QED
    BY <1>2, <1>4, <1>5, <1>6 DEF RowsOK, HasRows

LEMMA BootKeeps ==
    ASSUME StoreInv, Boot
    PROVE  StoreInv'
  <1> USE DEF StoreInv
  <1>1. /\ snapshots \in Seq(File) /\ database \in Data
        /\ NewestIndex = IF snapshots = <<>> THEN 0 ELSE snapshots[1].index
        /\ NewestIndex \in Nat /\ NewestData \in Data
        /\ snapshots # <<>> => 1 \in 1..Len(snapshots)
    BY Newest DEF FilesOK
  <1>2. /\ storeNode = "down" /\ storeNode' = "booted"
        /\ commitIndex' = NewestIndex /\ lastApplied' = NewestIndex
        /\ database' = IF snapshots = <<>> THEN database ELSE NewestData
        /\ rebased' = (rebased \/ snapshots # <<>>)
        /\ UNCHANGED <<raftLog, snapshots, persisting, recovered, backupFile, restoring,
                       snapshotted, openRows, raced, restored>>
    BY DEF Boot, InitRaft, storeFiles
  <1>3. FilesOK'
    BY <1>1, <1>2 DEF FilesOK
  <1>4. LogOK'
    <2>1. Len(raftLog) \in Nat /\ NewestIndex <= Len(raftLog)
      <3>1. raftLog \in Seq(Command) /\ Len(raftLog) \in Nat
        BY DEF FilesOK
      <3>2. snapshots # <<>> => snapshots[1].index <= Len(raftLog)
        BY <1>1 DEF LogOK
      <3> QED
        BY <1>1, <3>1, <3>2
    <2>2. persisting = NoSnapshot
      BY <1>2 DEF LogOK
    <2> QED
      BY <1>1, <1>2, <2>1, <2>2 DEF LogOK
  <1>5. EffectsOK'
    BY <1>2 DEF EffectsOK
  <1>6. RowsOK'
    BY <1>2 DEF RowsOK, HasRows, FilesOK
  <1> QED
    BY <1>3, <1>4, <1>5, <1>6

(* The log past a snapshot has each command once, and none that the         *)
(* snapshot stands for: to execute it brings the snapshot to the whole log. *)
LEMMA Replays ==
    ASSUME FilesOK, LogOK, NEW data \in Data
    PROVE  /\ Replayed(data) \in Data
           /\ Replayed(data).rows = data.rows
           /\ \A exempt : Sound(data, Due(raftLog, snapshotted, NewestIndex), exempt)
                  => Sound(Replayed(data), Due(raftLog, snapshotted, Len(raftLog)), exempt)
  <1> DEFINE copies(c) == {i \in {j \in 1..Len(raftLog) : FirstReplayed(NewestIndex) <= j /\ raftLog[j] \notin Failing} :
                               raftLog[i] = c}
  <1>1. /\ raftLog \in Seq(Command) /\ Len(raftLog) \in Nat /\ NewestIndex \in Nat
        /\ NewestIndex <= Len(raftLog)
    <2>1. raftLog \in Seq(Command) /\ Len(raftLog) \in Nat /\ snapshots \in Seq(File)
      BY DEF FilesOK
    <2>2. /\ NewestIndex = IF snapshots = <<>> THEN 0 ELSE snapshots[1].index
          /\ NewestIndex \in Nat /\ (snapshots # <<>> => 1 \in 1..Len(snapshots))
      BY <2>1, Newest
    <2>3. snapshots # <<>> => snapshots[1].index <= Len(raftLog)
      BY <2>2 DEF LogOK
    <2> QED
      BY <2>1, <2>2, <2>3
  <1>2. ASSUME NEW c \in Item, NEW i \in 1..Len(raftLog), i > NewestIndex, raftLog[i] = c, c \notin Failing
        PROVE  Cardinality(copies(c)) = 1
    <2>1. copies(c) = {i}
      BY <1>1, <1>2 DEF LogOK, FirstReplayed
    <2> HIDE DEF copies
    <2> QED
      BY <2>1, FS_Singleton
  <1>3. ASSUME NEW c \in Item,
               c \in Failing \/ \A i \in 1..Len(raftLog) : i > NewestIndex => raftLog[i] # c
        PROVE  Cardinality(copies(c)) = 0
    <2>1. copies(c) = {}
      BY <1>1, <1>3 DEF FirstReplayed
    <2> HIDE DEF copies
    <2> QED
      BY <2>1, FS_EmptySet
  <1>4. data.effects \in [Item -> Nat] /\ data.rows \in [LocalRow -> Nat]
    BY DEF Data
  <1>5. Replayed(data) = [data EXCEPT !.effects = [c \in Item |-> data.effects[c] + Cardinality(copies(c))]]
    BY DEF Replayed, Item, Data
  <1> HIDE DEF copies
  <1>6. \A c \in Item : Cardinality(copies(c)) \in {0, 1}
    BY <1>2, <1>3
  <1>7. /\ Replayed(data) \in Data /\ Replayed(data).rows = data.rows
        /\ \A c \in Item : Replayed(data).effects[c] = data.effects[c] + Cardinality(copies(c))
    BY <1>4, <1>5, <1>6 DEF Data
  <1>8. ASSUME NEW exempt, Sound(data, Due(raftLog, snapshotted, NewestIndex), exempt), NEW c \in Item
        PROVE  /\ c \in Due(raftLog, snapshotted, Len(raftLog)) => Replayed(data).effects[c] >= 1
               /\ c \notin exempt => Replayed(data).effects[c] =
                      IF c \in Due(raftLog, snapshotted, Len(raftLog)) THEN 1 ELSE 0
    <2>1. /\ data.effects[c] \in Nat
          /\ c \in Due(raftLog, snapshotted, NewestIndex) => data.effects[c] >= 1
          /\ c \notin exempt => data.effects[c] = IF c \in Due(raftLog, snapshotted, NewestIndex) THEN 1 ELSE 0
      BY <1>4, <1>8 DEF Sound
    <2>2. CASE \E i \in 1..Len(raftLog) : i > NewestIndex /\ raftLog[i] = c /\ c \notin Failing
      <3>1. Cardinality(copies(c)) = 1
        BY <1>2, <2>2
      <3>2. c \in Due(raftLog, snapshotted, Len(raftLog))
        BY <2>2 DEF Due
      <3>3. c \notin Due(raftLog, snapshotted, NewestIndex)
        BY <1>1, <2>2 DEF Due, LogOK
      <3> QED
        BY <1>7, <2>1, <3>1, <3>2, <3>3
    <2>3. CASE ~\E i \in 1..Len(raftLog) : i > NewestIndex /\ raftLog[i] = c /\ c \notin Failing
      <3>1. Cardinality(copies(c)) = 0
        BY <1>3, <2>3
      <3>2. c \in Due(raftLog, snapshotted, Len(raftLog)) <=> c \in Due(raftLog, snapshotted, NewestIndex)
        BY <1>1, <2>3 DEF Due
      <3> QED
        BY <1>7, <2>1, <3>1, <3>2
    <2> QED
      BY <2>2, <2>3
  <1> QED
    BY <1>7, <1>8 DEF Sound

LEMMA RecoverRaftStateKeeps ==
    ASSUME StoreInv, RecoverRaftState
    PROVE  StoreInv'
  <1> USE DEF StoreInv
  <1> DEFINE replayed == Replayed(NewestData)
             found == InsertExecutionLogs(replayed, GetExecutionLogs(database))
  <1>1. /\ snapshots \in Seq(File) /\ database \in Data /\ raftLog \in Seq(Command) /\ Len(raftLog) \in Nat
        /\ NewestIndex = IF snapshots = <<>> THEN 0 ELSE snapshots[1].index
        /\ NewestData = IF snapshots = <<>> THEN Empty ELSE snapshots[1].data
        /\ NewestData \in Data
        /\ snapshots # <<>> => 1 \in 1..Len(snapshots)
    BY Newest DEF FilesOK
  <1>2. /\ replayed \in Data /\ replayed.rows = NewestData.rows
        /\ \A exempt : Sound(NewestData, Due(raftLog, snapshotted, NewestIndex), exempt)
               => Sound(replayed, Due(raftLog, snapshotted, Len(raftLog)), exempt)
    BY <1>1, Replays
  <1> HIDE DEF replayed
  <1>3. /\ found \in Data /\ found.effects = replayed.effects
        /\ \A r \in Execution : found.rows[r] = replayed.rows[r] + database.rows[r]
    <2>1. /\ replayed.rows \in [LocalRow -> Nat] /\ replayed.effects \in [Item -> Nat]
          /\ database.rows \in [LocalRow -> Nat]
      BY <1>1, <1>2 DEF Data
    <2> DEFINE sum == [r \in LocalRow |-> replayed.rows[r] + GetExecutionLogs(database)[r]]
    <2>2. found = [replayed EXCEPT !.rows = sum]
      BY <1>2 DEF InsertExecutionLogs, Data
    <2>3. \A r \in LocalRow : GetExecutionLogs(database)[r] = IF r \in Execution THEN database.rows[r] ELSE 0
      BY DEF GetExecutionLogs
    <2>4. \A r \in LocalRow : GetExecutionLogs(database)[r] \in Nat
      BY <2>1, <2>3
    <2>5. sum \in [LocalRow -> Nat]
      BY <2>1, <2>4
    <2>6. \A r \in Execution : sum[r] = replayed.rows[r] + database.rows[r]
      BY <2>3 DEF LocalRow
    <2> HIDE DEF sum, found
    <2>7. found.effects = replayed.effects /\ found.rows = sum /\ found \in Data
      BY <1>2, <2>1, <2>2, <2>5 DEF Data
    <2> QED
      BY <2>6, <2>7
  <1>4. /\ storeNode = "booted" /\ storeNode' = "recovering"
        /\ recovered' = [index |-> Len(raftLog), data |-> found]
        /\ UNCHANGED <<raftLog, commitIndex, lastApplied, database, snapshots, persisting, backupFile, restoring,
                       snapshotted, openRows, raced, rebased, restored>>
    BY DEF RecoverRaftState, storeFiles, storeHistory, replayed
  <1> HIDE DEF found
  <1>5. recovered' \in File /\ recovered'.index = Len(raftLog) /\ recovered'.data = found
    BY <1>1, <1>3, <1>4 DEF File
  <1>6. FilesOK'
    BY <1>4, <1>5 DEF FilesOK
  <1>7. LogOK'
    BY <1>1, <1>4, <1>5 DEF LogOK
  <1>8. EffectsOK'
    <2>1. ~restored => Sound(NewestData, Due(raftLog, snapshotted, NewestIndex), raced)
      <3>1. CASE snapshots = <<>>
        BY <1>1, <3>1, NothingDue DEF LogOK
      <3>2. CASE snapshots # <<>>
        BY <1>1, <3>2 DEF EffectsOK
      <3> QED
        BY <3>1, <3>2
    <2>2. ~restored => Sound(replayed, Due(raftLog, snapshotted, Len(raftLog)), raced)
      BY <1>2, <2>1
    <2>3. ~restored => Sound(found, Due(raftLog, snapshotted, Len(raftLog)), raced)
      BY <1>3, <2>2 DEF Sound
    <2> QED
      BY <1>4, <1>5, <2>3 DEF EffectsOK
  <1>9. RowsOK'
    <2>1. ASSUME ~rebased, ~restored
          PROVE  snapshots = <<>> /\ HasRows(found, openRows)
      <3>1. snapshots = <<>> /\ HasRows(database, openRows)
        BY <1>4, <2>1 DEF RowsOK
      <3>2. \A r \in Execution : replayed.rows[r] = 0
        BY <1>1, <1>2, <3>1 DEF Empty, LocalRow
      <3>3. \A r \in Execution : database.rows[r] \in Nat
        BY <1>1 DEF Data, LocalRow
      <3> QED
        BY <1>3, <3>1, <3>2, <3>3 DEF HasRows
    <2> QED
      BY <1>4, <1>5, <2>1 DEF RowsOK
  <1> QED
    BY <1>6, <1>7, <1>8, <1>9

LEMMA PersistRecoveredKeeps ==
    ASSUME StoreInv, PersistRecovered
    PROVE  StoreInv'
  <1> USE DEF StoreInv
  <1>1. /\ snapshots \in Seq(File) /\ recovered \in File
        /\ recovered.index \in Nat /\ recovered.data \in Data /\ recovered.index <= Len(raftLog)
        /\ \A j \in 1..Len(snapshots) : snapshots[j].index <= recovered.index
    BY DEF PersistRecovered, FilesOK, LogOK, File
  <1>2. /\ storeNode = "recovering" /\ storeNode' = "persisted"
        /\ snapshots' = Listed(recovered.index, recovered.data)
        /\ UNCHANGED <<raftLog, commitIndex, lastApplied, database, persisting, backupFile, restoring,
                       snapshotted, openRows, raced, rebased, restored>>
    BY DEF PersistRecovered, storeFiles, storeHistory
  <1>3. /\ snapshots' \in Seq(File) /\ snapshots' # <<>>
        /\ \A i \in 1..Len(snapshots') :
               \/ snapshots'[i].index = recovered.index /\ snapshots'[i].data = recovered.data
               \/ \E j \in 1..Len(snapshots) : snapshots'[i] = snapshots[j]
        /\ snapshots'[1].index = recovered.index /\ snapshots'[1].data = recovered.data
    BY <1>1, <1>2, Added
  <1>4. FilesOK'
    BY <1>2, <1>3 DEF FilesOK
  <1>5. LogOK'
    BY <1>1, <1>2, <1>3 DEF LogOK
  <1>6. EffectsOK'
    BY <1>2, <1>3 DEF EffectsOK
  <1> QED
    BY <1>2, <1>3, <1>4, <1>5, <1>6 DEF RowsOK, HasRows

LEMMA ReopenRaftKeeps ==
    ASSUME StoreInv, ReopenRaft
    PROVE  StoreInv'
  <1> USE DEF StoreInv
  <1>1. /\ snapshots \in Seq(File) /\ snapshots # <<>> /\ Len(raftLog) \in Nat
        /\ NewestIndex = snapshots[1].index /\ NewestData = snapshots[1].data
        /\ NewestIndex \in Nat /\ NewestData \in Data /\ 1 \in 1..Len(snapshots)
    BY Newest DEF FilesOK, LogOK, ReopenRaft
  <1>2. /\ storeNode = "persisted" /\ storeNode' = "running"
        /\ commitIndex' = NewestIndex /\ lastApplied' = NewestIndex /\ database' = NewestData
        /\ UNCHANGED <<raftLog, snapshots, persisting, recovered, backupFile, restoring,
                       snapshotted, openRows, raced, rebased, restored>>
    BY <1>1 DEF ReopenRaft, InitRaft, storeFiles, storeHistory
  <1>3. FilesOK'
    BY <1>1, <1>2 DEF FilesOK
  <1>4. LogOK'
    <2>1. NewestIndex <= Len(raftLog) /\ \A i \in 1..Len(snapshots) : snapshots[i].index <= NewestIndex
      BY <1>1, <1>2 DEF LogOK
    <2>2. persisting = NoSnapshot
      BY <1>2 DEF LogOK
    <2> QED
      BY <1>1, <1>2, <2>1, <2>2 DEF LogOK
  <1>5. EffectsOK'
    BY <1>1, <1>2 DEF EffectsOK
  <1> QED
    BY <1>1, <1>2, <1>3, <1>4, <1>5 DEF RowsOK

LEMMA ForceRebuildClusterKeeps ==
    ASSUME StoreInv, ForceRebuildCluster
    PROVE  StoreInv'
  <1> USE DEF StoreInv
  <1> DEFINE file == [index |-> 0, data |-> database]
  <1>1. /\ database \in Data /\ file \in File /\ file.index = 0 /\ file.data = database
        /\ lastApplied \in Nat
    BY DEF FilesOK, File
  <1> HIDE DEF file
  <1>2. /\ snapshots' = <<file>> /\ raftLog' = <<>> /\ commitIndex' = 0 /\ lastApplied' = 0
        /\ persisting' = NoSnapshot /\ storeNode = "running"
        /\ snapshotted' = {c \in Item : database.effects[c] > 0}
        /\ UNCHANGED <<storeNode, database, recovered, backupFile, restoring, openRows, raced, rebased, restored>>
    BY DEF ForceRebuildCluster, storeFiles, file, Item
  <1>3. /\ snapshots' \in Seq(File) /\ Len(snapshots') = 1 /\ snapshots'[1] = file /\ snapshots' # <<>>
        /\ \A i \in 1..Len(snapshots') : snapshots'[i] = file
    BY <1>1, <1>2
  <1>4. raftLog' \in Seq(Command) /\ Len(raftLog') = 0 /\ 1..Len(raftLog') = {}
    BY <1>2
  <1>5. FilesOK'
    BY <1>1, <1>2, <1>3, <1>4 DEF FilesOK
  <1>6. LogOK'
    BY <1>1, <1>2, <1>3, <1>4 DEF LogOK
  <1>7. EffectsOK'
    <2>1. ~restored => Sound(database, Due(raftLog', snapshotted', 0), raced)
      <3>1. ASSUME ~restored
            PROVE  Sound(database, Due(raftLog, snapshotted, lastApplied), raced)
        BY <1>2, <3>1 DEF EffectsOK
      <3>2. \A c \in Item : database.effects[c] \in Nat
        BY <1>1 DEF Data
      <3>3. \A c \in Item : c \in Due(raftLog', snapshotted', 0) <=> c \notin Failing /\ database.effects[c] > 0
        BY <1>2 DEF Due
      <3> QED
        BY <3>1, <3>2, <3>3 DEF Sound, Due
    <2> QED
      BY <1>1, <1>2, <1>3, <2>1 DEF EffectsOK
  <1> QED
    BY <1>2, <1>5, <1>6, <1>7 DEF RowsOK, HasRows

-----------------------------------------------------------------------------
(* Backup and restore.                                                      *)

LEMMA BackupDatabaseKeeps ==
    ASSUME StoreInv, BackupDatabase
    PROVE  StoreInv'
  <1> USE DEF StoreInv, BackupDatabase, Backup, storeHistory
  <1>1. FilesOK'
    BY DEF FilesOK
  <1>2. LogOK'
    BY DEF LogOK
  <1>3. EffectsOK'
    BY DEF EffectsOK
  <1> QED
    BY <1>1, <1>2, <1>3, RowsUntouched

LEMMA RestoreDatabaseKeeps ==
    ASSUME StoreInv, RestoreDatabase
    PROVE  StoreInv'
  <1> USE DEF StoreInv, RestoreDatabase
  <1>1. FilesOK'
    BY DEF FilesOK
  <1>2. LogOK'
    BY DEF LogOK
  <1>3. EffectsOK' /\ RowsOK'
    BY DEF EffectsOK, RowsOK
  <1> QED
    BY <1>1, <1>2, <1>3

LEMMA SnapshotRestoredKeeps ==
    ASSUME StoreInv, SnapshotRestored
    PROVE  StoreInv'
  <1> USE DEF StoreInv
  <1>1. /\ snapshots \in Seq(File) /\ database \in Data /\ 0 \in Nat /\ restored = TRUE
        /\ commitIndex \in Nat /\ Len(raftLog) \in Nat
    BY DEF SnapshotRestored, FilesOK
  <1>2. /\ snapshots' = Listed(0, database) /\ storeNode = "running" /\ restoring' = FALSE
        /\ UNCHANGED <<storeNode, raftLog, commitIndex, lastApplied, database, persisting, recovered, backupFile,
                       snapshotted, openRows, raced, rebased, restored>>
    BY DEF SnapshotRestored, storeHistory
  <1>3. /\ snapshots' \in Seq(File) /\ snapshots' # <<>>
        /\ \A i \in 1..Len(snapshots') :
               \/ snapshots'[i].index = 0 /\ snapshots'[i].data = database
               \/ \E j \in 1..Len(snapshots) : snapshots'[i] = snapshots[j]
    BY <1>1, <1>2, Added
  <1>4. FilesOK'
    BY <1>1, <1>2, <1>3 DEF FilesOK
  <1>5. LogOK'
    BY <1>1, <1>2, <1>3 DEF LogOK
  <1>6. EffectsOK' /\ RowsOK'
    BY <1>1, <1>2 DEF EffectsOK, RowsOK
  <1> QED
    BY <1>4, <1>5, <1>6

-----------------------------------------------------------------------------
LEMMA InitKeeps == StoreInit => StoreInv
  <1> SUFFICES ASSUME StoreInit PROVE StoreInv
    OBVIOUS
  <1> DEFINE seeded == [Empty EXCEPT !.effects[Seed] = 1]
  <1>1. /\ Empty \in Data /\ seeded \in Data
        /\ \A r \in LocalRow : Empty.rows[r] = 0 /\ seeded.rows[r] = 0
        /\ \A c \in Item : seeded.effects[c] = IF c = Seed THEN 1 ELSE 0
    BY DEF Empty, Data, Item
  <1>2. database = IF storeNode = "bootstrapped" THEN seeded ELSE Empty
    BY DEF StoreInit
  <1> HIDE DEF seeded
  <1>3. database \in Data /\ \A r \in LocalRow : database.rows[r] = 0
    BY <1>1, <1>2
  <1>4. FilesOK
    <2>1. <<>> \in Seq(File) /\ <<>> \in Seq(Command) /\ 0 \in Nat
      OBVIOUS
    <2>2. storeNode \in {"bootstrapped", "running"} /\ restored = FALSE /\ rebased = FALSE /\ restoring = FALSE
      BY DEF StoreInit
    <2>3. /\ snapshots = <<>> /\ raftLog = <<>> /\ commitIndex = 0 /\ lastApplied = 0
          /\ backupFile = NoBackup
      BY DEF StoreInit
    <2> QED
      BY <1>3, <2>1, <2>2, <2>3 DEF FilesOK
  <1>5. LogOK
    BY DEF StoreInit, LogOK
  <1>6. EffectsOK
    <2>1. Sound(Empty, Due(<<>>, {}, 0), {})
      BY NothingDue
    <2>2. Sound(seeded, Due(<<>>, {Seed}, 0), {})
      <3> DEFINE due == Due(<<>>, {Seed}, 0)
      <3>1. Seed \in due /\ due \subseteq {Seed}
        BY StoreAssumption DEF Due
      <3> HIDE DEF due
      <3>2. Sound(seeded, due, {})
        BY <1>1, <3>1 DEF Sound
      <3> QED
        BY <3>2 DEF due
    <2> QED
      BY <1>2, <2>1, <2>2 DEF StoreInit, EffectsOK
  <1>7. RowsOK
    BY <1>3 DEF StoreInit, RowsOK, HasRows, LocalRow
  <1> QED
    BY <1>4, <1>5, <1>6, <1>7 DEF StoreInv

LEMMA NextKeeps == StoreInv /\ [StoreNext]_storeVars => StoreInv'
  <1> SUFFICES ASSUME StoreInv, [StoreNext]_storeVars PROVE StoreInv'
    OBVIOUS
  <1>1. ASSUME NEW c \in Command, AppendEntry(c) \/ PostProcess(c) PROVE StoreInv'
    BY <1>1, AppendEntryKeeps, PostProcessKeeps
  <1>2. CASE TruncateEntry \/ LearnCommit \/ Apply \/ Snapshot \/ Persist
    BY <1>2, TruncateEntryKeeps, LearnCommitKeeps, ApplyKeeps, SnapshotKeeps, PersistKeeps
  <1>3. ASSUME NEW index \in 1..commitIndex, NEW reached \in 1..commitIndex, InstallSnapshot(index, reached)
        PROVE  StoreInv'
    BY <1>3, InstallSnapshotKeeps
  <1>4. ASSUME NEW r \in LocalRow, WriteRow(r) PROVE StoreInv'
    BY <1>4, WriteRowKeeps
  <1>5. CASE Crash \/ SnapshotExistingDb \/ Boot \/ RecoverRaftState \/ PersistRecovered \/ ReopenRaft
    BY <1>5, CrashKeeps, SnapshotExistingDbKeeps, BootKeeps, RecoverRaftStateKeeps, PersistRecoveredKeeps,
       ReopenRaftKeeps
  <1>6. CASE ForceRebuildCluster \/ BackupDatabase \/ RestoreDatabase \/ SnapshotRestored
    BY <1>6, ForceRebuildClusterKeeps, BackupDatabaseKeeps, RestoreDatabaseKeeps, SnapshotRestoredKeeps
  <1>7. CASE UNCHANGED storeVars
    BY <1>7 DEF storeVars, StoreInv, FilesOK, LogOK, EffectsOK, RowsOK, HasRows
  <1> QED
    BY <1>1, <1>2, <1>3, <1>4, <1>5, <1>6, <1>7 DEF StoreNext

(* The invariant: files that are well formed, a log that no step of a       *)
(* running or recovering node contradicts below a snapshot, and databases,  *)
(* snapshots and recovery databases that hold what their index says         *)
(* (fsm_store.go, fsm_snapshot.go, fsm_actions.go).                         *)
THEOREM StoreInvariant == StoreSpec => []StoreInv
  <1>1. StoreInit => StoreInv
    BY InitKeeps
  <1>2. StoreInv /\ [StoreNext]_storeVars => StoreInv'
    BY NextKeeps
  <1> QED
    BY <1>1, <1>2, PTL DEF StoreSpec

(* A running node's database holds each command raft counts as applied,     *)
(* none it does not, and none twice but for those raced with a Persist      *)
(* (store.Apply, RecoverRaftState, fsm_snapshot.go:28).                     *)
THEOREM DatabaseAlwaysHoldsLog == StoreSpec => []DatabaseHoldsLog
  <1>1. StoreInv => DatabaseHoldsLog
    BY DEF StoreInv, EffectsOK, Sound, Due, DatabaseHoldsLog, Entries, Item
  <1> QED
    BY <1>1, StoreInvariant, PTL

(* The execution rows a node has logged survive its crashes and recoveries, *)
(* each once, as long as no snapshot has replaced its file                  *)
(* (RecoverRaftState, GetExecutionLogs).                                    *)
THEOREM RowsAlwaysSurvive == StoreSpec => []RowsSurviveRestart
  <1>1. StoreInv => RowsSurviveRestart
    BY DEF StoreInv, RowsOK, HasRows, RowsSurviveRestart
  <1> QED
    BY <1>1, StoreInvariant, PTL
=============================================================================
