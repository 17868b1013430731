---------------------------- MODULE SecretsProofs ----------------------------
(***************************************************************************)
(* The secrets and rotations of Secrets, for any rows, keys, nodes and      *)
(* requests in progress: no request changes a secret it was not given, and *)
(* a rotation that ends leaves nothing under the old key.                  *)
(***************************************************************************)
EXTENDS Secrets, TLAPS

Cipher == [value : SecretValue, key : Key]
Row == [cipher : Cipher, deleted : BOOLEAN]
Rotating == [node : SecretNode, old : Key, new : Key, table : 0..3,
             pending : UNION {[S -> Cipher] : S \in SUBSET SecretRow}]
Updating == [node : SecretNode, row : SecretRow, secret : [cipher : Cipher, carried : BOOLEAN]]

KeysOK ==
    /\ keySource \in Key /\ keyCache \in [SecretNode -> Key] /\ keyLeader \in SecretNode

TableOK == secretRows \in UNION {[S -> Row] : S \in SUBSET SecretRow}

RequestsTyped ==
    /\ rotations \in [Rotation -> {NotRotating} \cup Rotating]
    /\ updates \in [Update -> {NotUpdating} \cup Updating]

(* A row that an update has read is still what it has read, or overwritten.  *)
UpToDate(u) ==
    updates[u] # NotUpdating /\ updates[u].secret.carried /\ <<u, updates[u].row>> \notin overwritten =>
        /\ updates[u].row \in DOMAIN secretRows
        /\ secretRows[updates[u].row].cipher = updates[u].secret.cipher

(* Of the tables that a rotation has read, a row is still to be re-encrypted *)
(* and what it was, or no longer under the old key, or overwritten.          *)
Done(o, i) == i \notin DOMAIN rotations[o].pending /\ secretRows[i].cipher.key # rotations[o].old
ToDo(o, i) == i \in DOMAIN rotations[o].pending /\ rotations[o].pending[i] = secretRows[i].cipher
Follows(o) ==
    rotations[o] # NotRotating =>
        /\ rotations[o].old # rotations[o].new
        /\ \A i \in DOMAIN rotations[o].pending : i \in DOMAIN secretRows /\ TableOf(i) = rotations[o].table
        /\ \A i \in DOMAIN secretRows :
               TableOf(i) <= rotations[o].table /\ <<o, i>> \notin overwritten => Done(o, i) \/ ToDo(o, i)

SecretsInv ==
    /\ KeysOK /\ TableOK /\ RequestsTyped
    /\ \A u \in Update : UpToDate(u)
    /\ \A o \in Rotation : Follows(o)

-----------------------------------------------------------------------------
LEMMA RequestsDiffer ==
    /\ \A q \in Rotating : q # NotRotating
    /\ \A q \in Updating : q # NotUpdating
  BY DEF Rotating, Updating, NotRotating, NotUpdating

LEMMA Tables == \A i : TableOf(i) \in 1..3
  BY DEF TableOf

(* What a write does to the table.                                          *)
LEMMA StoreType ==
    ASSUME TableOK, NEW i \in SecretRow, NEW cipher \in Cipher, NEW deleted \in BOOLEAN,
           Store(i, cipher, deleted)
    PROVE  /\ TableOK' /\ DOMAIN secretRows' = DOMAIN secretRows \cup {i}
           /\ secretRows'[i].cipher = cipher
           /\ \A j \in DOMAIN secretRows \ {i} : secretRows'[j] = secretRows[j]
  <1>1. PICK S \in SUBSET SecretRow : secretRows \in [S -> Row]
    BY DEF TableOK
  <1> DEFINE row == [cipher |-> cipher, deleted |-> deleted]
  <1>2. row \in Row /\ row.cipher = cipher
    BY DEF Row
  <1>3. secretRows' = [j \in S \cup {i} |-> IF j = i THEN row ELSE secretRows[j]]
    BY <1>1 DEF Store
  <1> HIDE DEF row
  <1>4. secretRows' \in [S \cup {i} -> Row]
    BY <1>1, <1>2, <1>3
  <1>5. S \cup {i} \in SUBSET SecretRow
    OBVIOUS
  <1> QED
    BY <1>1, <1>2, <1>3, <1>4, <1>5 DEF TableOK

(* Every other request that has read the row learns that it is overwritten. *)
LEMMA WriteKeepsUpdates ==
    ASSUME SecretsInv, NEW q, NEW i \in SecretRow, NEW cipher \in Cipher, NEW deleted \in BOOLEAN,
           Store(i, cipher, deleted), Written(q, i), NEW u \in Update, u # q, updates'[u] = updates[u]
    PROVE  UpToDate(u)'
  <1>1. /\ DOMAIN secretRows' = DOMAIN secretRows \cup {i}
        /\ \A j \in DOMAIN secretRows \ {i} : secretRows'[j] = secretRows[j]
    BY StoreType DEF SecretsInv
  <1>2. u \notin Rotation
    BY SecretsAssumption
  <1>3. updates[u].row = i => <<u, i>> \in overwritten'
    BY <1>2 DEF Written, HasRead
  <1>4. \A j : <<u, j>> \in overwritten => <<u, j>> \in overwritten'
    BY DEF Written
  <1> QED
    BY <1>1, <1>3, <1>4 DEF SecretsInv, UpToDate

LEMMA WriteKeepsRotations ==
    ASSUME SecretsInv, NEW q, NEW i \in SecretRow, NEW cipher \in Cipher, NEW deleted \in BOOLEAN,
           Store(i, cipher, deleted), Written(q, i), NEW o \in Rotation, o # q, rotations'[o] = rotations[o]
    PROVE  Follows(o)'
  <1>1. /\ DOMAIN secretRows' = DOMAIN secretRows \cup {i}
        /\ \A j \in DOMAIN secretRows \ {i} : secretRows'[j] = secretRows[j]
    BY StoreType DEF SecretsInv
  <1>2. TableOf(i) <= rotations[o].table => <<o, i>> \in overwritten'
    BY DEF Written, HasRead
  <1>3. \A j : <<o, j>> \in overwritten => <<o, j>> \in overwritten'
    BY DEF Written
  <1> SUFFICES ASSUME rotations[o] # NotRotating
               PROVE  Follows(o)'
    BY DEF Follows
  <1>4. ASSUME NEW j \in DOMAIN secretRows', TableOf(j) <= rotations[o].table, <<o, j>> \notin overwritten'
        PROVE  j \in DOMAIN secretRows \ {i} /\ (Done(o, j) \/ ToDo(o, j))
    BY <1>1, <1>2, <1>3, <1>4 DEF SecretsInv, Follows
  <1> QED
    BY <1>1, <1>4 DEF SecretsInv, Follows, Done, ToDo

LEMMA SameUpdate ==
    ASSUME NEW u \in Update, UpToDate(u), updates'[u] = updates[u], UNCHANGED secretRows,
           \A j : <<u, j>> \in overwritten => <<u, j>> \in overwritten'
    PROVE  UpToDate(u)'
  BY DEF UpToDate

LEMMA SameRotation ==
    ASSUME NEW o \in Rotation, Follows(o), rotations'[o] = rotations[o], UNCHANGED secretRows,
           \A j : <<o, j>> \in overwritten => <<o, j>> \in overwritten'
    PROVE  Follows(o)'
  BY DEF Follows, Done, ToDo

LEMMA IdleUpdate ==
    ASSUME NEW u \in Update, updates'[u] = NotUpdating
    PROVE  UpToDate(u)'
  BY DEF UpToDate

LEMMA IdleRotation ==
    ASSUME NEW o \in Rotation, rotations'[o] = NotRotating
    PROVE  Follows(o)'
  BY DEF Follows

(* Steps that touch neither rows nor requests.                              *)
LEMMA KeysKeep ==
    ASSUME SecretsInv, KeysOK', UNCHANGED <<secretRows, rotations, updates, overwritten>>
    PROVE  SecretsInv'
  BY SameUpdate, SameRotation DEF SecretsInv, TableOK, RequestsTyped

LEMMA ReplaceKeyKeeps ==
    ASSUME SecretsInv, ReplaceKey
    PROVE  SecretsInv'
  <1>1. KeysOK'
    BY SecretsAssumption DEF ReplaceKey, SecretsInv, KeysOK, Key
  <1> QED
    BY <1>1, KeysKeep DEF ReplaceKey

LEMMA LeaderMovesKeeps ==
    ASSUME SecretsInv, NEW n \in SecretNode, LeaderMoves(n)
    PROVE  SecretsInv'
  <1>1. KeysOK'
    BY DEF LeaderMoves, SecretsInv, KeysOK
  <1> QED
    BY <1>1, KeysKeep DEF LeaderMoves

(* The requests at a node that restarts are lost, those of others are not.  *)
LEMMA RestartKeeps ==
    ASSUME SecretsInv, NEW n \in SecretNode, Restart(n)
    PROVE  SecretsInv'
  <1>1. KeysOK' /\ TableOK'
    BY DEF Restart, SecretsInv, KeysOK, TableOK
  <1>2. RequestsTyped'
    BY DEF Restart, SecretsInv, RequestsTyped
  <1>3. \A q, j : ~RunsAt(n, q) /\ <<q, j>> \in overwritten => <<q, j>> \in overwritten'
    BY DEF Restart
  <1>4. ASSUME NEW u \in Update
        PROVE  UpToDate(u)'
    <2>1. updates'[u] = IF RunsAt(n, u) THEN NotUpdating ELSE updates[u]
      BY DEF Restart
    <2> QED
      BY <1>3, <2>1, SameUpdate, IdleUpdate DEF Restart, SecretsInv
  <1>5. ASSUME NEW o \in Rotation
        PROVE  Follows(o)'
    <2>1. rotations'[o] = IF RunsAt(n, o) THEN NotRotating ELSE rotations[o]
      BY DEF Restart
    <2> QED
      BY <1>3, <2>1, SameRotation, IdleRotation DEF Restart, SecretsInv
  <1> QED
    BY <1>1, <1>2, <1>4, <1>5 DEF SecretsInv

-----------------------------------------------------------------------------
(* Rows.                                                                   *)

LEMMA CreateKeeps ==
    ASSUME SecretsInv, NEW n \in SecretNode, CreateNewCredential(n) \/ CreateSecretExecutor(n)
    PROVE  SecretsInv'
  <1>1. PICK i \in SecretRow, value \in SecretValue : CreateRow(n, i, value)
    BY DEF CreateNewCredential, CreateSecretExecutor, SecretRow
  <1>2. Encrypted(value, GetSecrets(n)) \in Cipher
    BY DEF Encrypted, GetSecrets, Cipher, SecretsInv, KeysOK
  <1>3. PICK cipher \in Cipher : Store(i, cipher, FALSE) /\ Written("none", i)
    BY <1>1, <1>2 DEF CreateRow
  <1>4. UNCHANGED <<keySource, keyCache, keyLeader, rotations, updates>>
    BY <1>1 DEF CreateRow
  <1>5. TableOK'
    BY <1>3, StoreType DEF SecretsInv
  <1>6. "none" \notin Rotation \cup Update
    BY SecretsAssumption
  <1>7. \A u \in Update : UpToDate(u)'
    BY <1>3, <1>4, <1>6, WriteKeepsUpdates
  <1>8. \A o \in Rotation : Follows(o)'
    BY <1>3, <1>4, <1>6, WriteKeepsRotations
  <1> QED
    BY <1>4, <1>5, <1>7, <1>8 DEF SecretsInv, KeysOK, RequestsTyped

LEMMA DeleteKeeps ==
    ASSUME SecretsInv, NEW n \in SecretNode, DeleteOneCredential(n)
    PROVE  SecretsInv'
  <1>1. PICK i \in CredentialRow \cap DOMAIN secretRows :
            Store(i, secretRows[i].cipher, TRUE) /\ UNCHANGED overwritten
    BY DEF DeleteOneCredential
  <1>2. UNCHANGED <<keySource, keyCache, keyLeader, rotations, updates>>
    BY DEF DeleteOneCredential
  <1>3. secretRows[i].cipher \in Cipher /\ i \in SecretRow
    BY DEF SecretsInv, TableOK, Row, SecretRow
  <1>4. PICK cipher \in Cipher : cipher = secretRows[i].cipher /\ Store(i, cipher, TRUE)
    BY <1>1, <1>3
  <1>5. /\ TableOK' /\ DOMAIN secretRows' = DOMAIN secretRows
        /\ \A j \in DOMAIN secretRows : secretRows'[j].cipher = secretRows[j].cipher
    BY <1>1, <1>3, <1>4, StoreType DEF SecretsInv
  <1>6. \A u \in Update : UpToDate(u)'
    BY <1>1, <1>2, <1>5 DEF SecretsInv, UpToDate
  <1>7. \A o \in Rotation : Follows(o)'
    BY <1>1, <1>2, <1>5 DEF SecretsInv, Follows, Done, ToDo
  <1> QED
    BY <1>2, <1>5, <1>6, <1>7 DEF SecretsInv, KeysOK, RequestsTyped

LEMMA ReadRowKeeps ==
    ASSUME SecretsInv, NEW u \in Update, NEW n \in SecretNode, NEW i \in SecretRow,
           NEW secret \in [cipher : Cipher, carried : BOOLEAN],
           secret.carried => i \in DOMAIN secretRows /\ secret.cipher = secretRows[i].cipher,
           ReadRow(u, n, i, secret)
    PROVE  SecretsInv'
  <1> DEFINE update == [node |-> n, row |-> i, secret |-> secret]
  <1>1. update \in Updating /\ update.row = i /\ update.secret = secret
    BY DEF Updating
  <1>2. updates' = [updates EXCEPT ![u] = update]
    BY DEF ReadRow
  <1>3. UNCHANGED <<keySource, keyCache, keyLeader, secretRows, rotations, overwritten>>
    BY DEF ReadRow
  <1> HIDE DEF update
  <1>4. RequestsTyped'
    BY <1>1, <1>2, <1>3 DEF SecretsInv, RequestsTyped
  <1>5. ASSUME NEW v \in Update
        PROVE  UpToDate(v)'
    <2>1. updates'[v] = IF v = u THEN update ELSE updates[v]
      BY <1>2 DEF SecretsInv, RequestsTyped
    <2>2. CASE v = u
      BY <1>1, <1>3, <2>1, <2>2 DEF UpToDate
    <2>3. CASE v # u
      BY <1>3, <2>1, <2>3, SameUpdate DEF SecretsInv
    <2> QED
      BY <2>2, <2>3
  <1>6. \A o \in Rotation : Follows(o)'
    BY <1>3, SameRotation DEF SecretsInv
  <1> QED
    BY <1>3, <1>4, <1>5, <1>6 DEF SecretsInv, KeysOK, TableOK

LEMMA SecretTypes ==
    ASSUME SecretsInv
    PROVE  /\ \A i \in DOMAIN secretRows :
                  /\ i \in SecretRow /\ Carried(i) \in [cipher : Cipher, carried : BOOLEAN]
                  /\ Carried(i).cipher = secretRows[i].cipher
           /\ \A n \in SecretNode, value \in SecretValue :
                  Given(n, value) \in [cipher : Cipher, carried : BOOLEAN] /\ ~Given(n, value).carried
  BY DEF SecretsInv, KeysOK, TableOK, Row, Cipher, Carried, Given, Encrypted, GetSecrets

LEMMA UpdatesKeep ==
    ASSUME SecretsInv, NEW u \in Update, NEW n \in SecretNode,
           UpdateOneCredential(u, n) \/ UpdateSecretExecutor(u, n) \/ UpsertAISettings(u, n)
    PROVE  SecretsInv'
  <1>1. CASE \E i \in DOMAIN secretRows : ReadRow(u, n, i, Carried(i))
    BY <1>1, SecretTypes, ReadRowKeeps
  <1>2. CASE \E i \in SecretRow, value \in SecretValue : ReadRow(u, n, i, Given(n, value))
    BY <1>2, SecretTypes, ReadRowKeeps
  <1> QED
    BY <1>1, <1>2 DEF UpdateOneCredential, UpdateSecretExecutor, UpsertAISettings, SecretRow

LEMMA WriteRowKeeps ==
    ASSUME SecretsInv, NEW u \in Update, WriteRow(u)
    PROVE  SecretsInv'
  <1>1. updates[u] \in Updating /\ updates' = [updates EXCEPT ![u] = NotUpdating]
    BY DEF WriteRow, SecretsInv, RequestsTyped
  <1>2. /\ UNCHANGED <<keySource, keyCache, keyLeader, rotations>>
        /\ updates'[u] = NotUpdating /\ \A v \in Update \ {u} : updates'[v] = updates[v]
        /\ RequestsTyped'
    BY <1>1 DEF WriteRow, SecretsInv, RequestsTyped
  <1>3. u \notin Rotation
    BY SecretsAssumption
  <1>4. CASE ~Takes(updates[u].node)
    <2>1. UNCHANGED secretRows /\ overwritten' = {pair \in overwritten : pair[1] # u}
      BY <1>4 DEF WriteRow, Forget
    <2>2. \A v \in Update \ {u} : UpToDate(v)'
      BY <1>2, <2>1, SameUpdate DEF SecretsInv
    <2>3. \A o \in Rotation : Follows(o)'
      BY <1>2, <1>3, <2>1, SameRotation DEF SecretsInv
    <2> QED
      BY <1>2, <2>1, <2>2, <2>3, IdleUpdate DEF SecretsInv, KeysOK, TableOK
  <1>5. CASE Takes(updates[u].node)
    <2>1. PICK i \in SecretRow, cipher \in Cipher, deleted \in BOOLEAN :
              Store(i, cipher, deleted) /\ Written(u, i)
      BY <1>1, <1>5 DEF WriteRow, Updating, SecretsInv, TableOK, Row
    <2>2. TableOK'
      BY <2>1, StoreType DEF SecretsInv
    <2>3. \A v \in Update \ {u} : UpToDate(v)'
      BY <1>2, <2>1, WriteKeepsUpdates
    <2>4. \A o \in Rotation : Follows(o)'
      BY <1>2, <1>3, <2>1, WriteKeepsRotations
    <2> QED
      BY <1>2, <2>2, <2>3, <2>4, IdleUpdate DEF SecretsInv, KeysOK
  <1> QED
    BY <1>4, <1>5

-----------------------------------------------------------------------------
(* Rotations.                                                              *)

(* One rotation moves on, and no row changes.                               *)
LEMMA OneRotation ==
    ASSUME SecretsInv, NEW o \in Rotation, NEW q \in {NotRotating} \cup Rotating,
           rotations' = [rotations EXCEPT ![o] = q], KeysOK', UNCHANGED <<secretRows, updates>>,
           \A r, j : r # o /\ <<r, j>> \in overwritten => <<r, j>> \in overwritten',
           Follows(o)'
    PROVE  SecretsInv'
  <1>1. /\ \A r \in Rotation \ {o} : rotations'[r] = rotations[r]
        /\ RequestsTyped'
    BY DEF SecretsInv, RequestsTyped
  <1>2. \A u \in Update : u # o /\ UpToDate(u)'
    BY SecretsAssumption, SameUpdate DEF SecretsInv
  <1>3. \A r \in Rotation \ {o} : Follows(r)'
    BY <1>1, SameRotation DEF SecretsInv
  <1> QED
    BY <1>1, <1>2, <1>3 DEF SecretsInv, TableOK

LEMMA RotationStops ==
    ASSUME SecretsInv, NEW o \in Rotation, RotationEnds(o) \/ RotationFails(o)
    PROVE  SecretsInv'
  <1>1. /\ rotations' = [rotations EXCEPT ![o] = NotRotating]
        /\ overwritten' = {pair \in overwritten : pair[1] # o}
        /\ UNCHANGED <<keySource, keyCache, keyLeader, secretRows, updates>>
    BY DEF RotationEnds, RotationFails, Forget
  <1>2. Follows(o)'
    BY <1>1, IdleRotation DEF SecretsInv, RequestsTyped
  <1> QED
    BY <1>1, <1>2, OneRotation DEF SecretsInv, KeysOK

LEMMA RotateSecretKeeps ==
    ASSUME SecretsInv, NEW o \in Rotation, NEW n \in SecretNode, NEW old \in Key, RotateSecret(o, n, old)
    PROVE  SecretsInv'
  <1> DEFINE q == IF old = keySource THEN NotRotating
                  ELSE [node |-> n, old |-> old, new |-> keySource, table |-> 0, pending |-> <<>>]
  <1>1. KeysOK' /\ UNCHANGED <<secretRows, updates, overwritten>>
    BY DEF RotateSecret, SecretsInv, KeysOK
  <1>2. rotations' = [rotations EXCEPT ![o] = q]
    BY DEF RotateSecret
  <1>3. <<>> \in UNION {[S -> Cipher] : S \in SUBSET SecretRow}
    <2>1. <<>> \in [{} -> Cipher]
      OBVIOUS
    <2> QED
      BY <2>1
  <1>4. CASE old = keySource
    <2>1. q = NotRotating
      BY <1>4
    <2> HIDE DEF q
    <2>2. Follows(o)'
      BY <1>2, <2>1, IdleRotation DEF SecretsInv, RequestsTyped
    <2> QED
      BY <1>1, <1>2, <2>1, <2>2, OneRotation
  <1>5. CASE old # keySource
    <2>1. q \in Rotating /\ q.old # q.new /\ q.table = 0 /\ q.pending = <<>>
      BY <1>3, <1>5 DEF Rotating, SecretsInv, KeysOK
    <2> HIDE DEF q
    <2>2. rotations'[o] = q
      BY <1>2 DEF SecretsInv, RequestsTyped
    <2>3. Follows(o)'
      BY <2>1, <2>2, Tables DEF Follows
    <2> QED
      BY <1>1, <1>2, <2>1, <2>3, OneRotation
  <1> QED
    BY <1>4, <1>5

LEMMA ReadTableKeeps ==
    ASSUME SecretsInv, NEW o \in Rotation, ReadTable(o)
    PROVE  SecretsInv'
  <1> DEFINE rotation == rotations[o]
             next == rotation.table + 1
             read == [i \in RowsOf(next) |-> secretRows[i].cipher]
             q == [rotation EXCEPT !.table = next, !.pending = read]
  <1>1. /\ rotation \in Rotating /\ rotation.table < 3 /\ rotation.pending = <<>> /\ rotation # NotRotating
        /\ rotation.old # rotation.new
    BY DEF ReadTable, SecretsInv, RequestsTyped, Follows
  <1>2. UNCHANGED <<keySource, keyCache, keyLeader, secretRows, updates, overwritten>>
        /\ rotations' = [rotations EXCEPT ![o] = q]
    BY DEF ReadTable
  <1>3. next \in 0..3
    BY <1>1 DEF Rotating
  <1>4. read \in UNION {[S -> Cipher] : S \in SUBSET SecretRow}
    <2>1. RowsOf(next) \in SUBSET SecretRow /\ \A i \in RowsOf(next) : secretRows[i].cipher \in Cipher
      BY DEF RowsOf, SecretsInv, TableOK, Row
    <2>2. read \in [RowsOf(next) -> Cipher]
      BY <2>1
    <2> QED
      BY <2>1, <2>2
  <1> HIDE DEF read
  <1>5. q \in Rotating /\ q.old = rotation.old /\ q.new = rotation.new /\ q.table = next /\ q.pending = read
    BY <1>1, <1>3, <1>4 DEF Rotating
  <1>6. rotations'[o] = q
    BY <1>2 DEF SecretsInv, RequestsTyped
  <1> HIDE DEF q
  <1>7. DOMAIN read = RowsOf(next) /\ \A i \in RowsOf(next) : read[i] = secretRows[i].cipher
    BY DEF read
  <1>8. ASSUME NEW i \in DOMAIN secretRows, TableOf(i) <= next, <<o, i>> \notin overwritten
        PROVE  i \in DOMAIN read \/ secretRows[i].cipher.key # rotation.old
    <2>1. CASE TableOf(i) = next
      BY <1>7, <2>1 DEF RowsOf
    <2>2. CASE TableOf(i) # next
      <3>1. TableOf(i) <= rotation.table
        BY <1>1, <1>8, <2>2, Tables DEF Rotating
      <3> QED
        BY <1>1, <1>8, <3>1 DEF SecretsInv, Follows, Done, ToDo
    <2> QED
      BY <2>1, <2>2
  <1>9. Follows(o)'
    BY <1>1, <1>2, <1>5, <1>6, <1>7, <1>8 DEF Follows, Done, ToDo, RowsOf
  <1> QED
    BY <1>2, <1>5, <1>9, OneRotation DEF SecretsInv, KeysOK

(* A row that is skipped is not under the old key, unless it has been       *)
(* overwritten; one that is written is under the new one.                   *)
LEMMA ReEncryptRowKeeps ==
    ASSUME SecretsInv, NEW o \in Rotation, rotations[o] # NotRotating, NEW i \in DOMAIN rotations[o].pending,
           ReEncryptRow(o, i)
    PROVE  SecretsInv'
  <1> DEFINE rotation == rotations[o]
             cipher == ReEncrypt(rotation.pending[i], rotation)
             rest == Rest(rotation, i)
             q == [rotation EXCEPT !.pending = rest]
  <1>1. /\ rotation \in Rotating /\ rotation.old # rotation.new /\ Follows(o)
        /\ i \in DOMAIN secretRows /\ i \in SecretRow /\ TableOf(i) = rotation.table
    BY DEF SecretsInv, RequestsTyped, Follows, TableOK
  <1>2. rotation.pending[i] \in Cipher /\ cipher \in Cipher
    BY <1>1 DEF Rotating, ReEncrypt, Encrypted, Cipher
  <1>3. /\ rest \in UNION {[S -> Cipher] : S \in SUBSET SecretRow}
        /\ DOMAIN rest = DOMAIN rotation.pending \ {i}
        /\ \A j \in DOMAIN rest : rest[j] = rotation.pending[j]
    <2>1. PICK S \in SUBSET SecretRow : rotation.pending \in [S -> Cipher]
      BY <1>1 DEF Rotating
    <2>2. rest \in [S \ {i} -> Cipher]
      BY <2>1 DEF Rest, Without
    <2>3. S \ {i} \in SUBSET SecretRow
      OBVIOUS
    <2> QED
      BY <2>1, <2>2, <2>3 DEF Rest, Without
  <1>4. /\ rotations' = [rotations EXCEPT ![o] = q]
        /\ UNCHANGED <<keySource, keyCache, keyLeader, updates>>
    BY DEF ReEncryptRow
  <1> HIDE DEF rest
  <1>5. /\ q \in Rotating /\ q.old = rotation.old /\ q.new = rotation.new
        /\ q.table = rotation.table /\ q.pending = rest
    BY <1>1, <1>3 DEF Rotating
  <1>6. rotations'[o] = q /\ \A r \in Rotation \ {o} : rotations'[r] = rotations[r]
    BY <1>4 DEF SecretsInv, RequestsTyped
  <1> HIDE DEF q
  <1>7. cipher = rotation.pending[i] => cipher.key # rotation.old
    BY <1>1 DEF ReEncrypt, Encrypted, Decrypts
  <1>8. cipher # rotation.pending[i] => cipher.key = rotation.new
    BY DEF ReEncrypt, Encrypted
  <1>9. CASE cipher = rotation.pending[i]
    <2>1. UNCHANGED <<secretRows, overwritten>>
      BY <1>9 DEF ReEncryptRow
    <2>2. Follows(o)'
      BY <1>1, <1>3, <1>5, <1>6, <1>7, <1>9, <2>1 DEF Follows, Done, ToDo
    <2> QED
      BY <1>4, <1>5, <2>1, <2>2, OneRotation DEF SecretsInv, KeysOK
  <1>10. CASE cipher # rotation.pending[i]
    <2>1. Store(i, cipher, secretRows[i].deleted) /\ Written(o, i)
      BY <1>10 DEF ReEncryptRow
    <2>2. PICK c \in Cipher, deleted \in BOOLEAN : c = cipher /\ Store(i, c, deleted)
      BY <1>1, <1>2, <2>1 DEF SecretsInv, TableOK, Row
    <2>3. /\ TableOK' /\ DOMAIN secretRows' = DOMAIN secretRows
          /\ secretRows'[i].cipher = cipher
          /\ \A j \in DOMAIN secretRows \ {i} : secretRows'[j] = secretRows[j]
      BY <1>1, <2>2, StoreType DEF SecretsInv
    <2>4. o \notin Update
      BY SecretsAssumption
    <2>5. \A u \in Update : UpToDate(u)'
      BY <1>1, <1>4, <2>1, <2>2, <2>4, WriteKeepsUpdates
    <2>6. \A r \in Rotation \ {o} : Follows(r)'
      BY <1>1, <1>6, <2>1, <2>2, WriteKeepsRotations
    <2>7. \A j : j # i /\ <<o, j>> \in overwritten => <<o, j>> \in overwritten'
      BY <2>1 DEF Written
    <2> HIDE DEF cipher
    <2>8. Follows(o)'
      BY <1>1, <1>3, <1>5, <1>6, <1>8, <1>10, <2>3, <2>7 DEF Follows, Done, ToDo
    <2>9. RequestsTyped'
      BY <1>4, <1>5 DEF SecretsInv, RequestsTyped
    <2> QED
      BY <1>4, <2>3, <2>5, <2>6, <2>8, <2>9 DEF SecretsInv, KeysOK
  <1> QED
    BY <1>9, <1>10

-----------------------------------------------------------------------------
LEMMA SecretsNextKeeps ==
    ASSUME SecretsInv, SecretsNext
    PROVE  SecretsInv'
  <1>1. ASSUME NEW o \in Rotation, ReEncryptSecrets(o)
        PROVE  SecretsInv'
    BY <1>1, ReEncryptRowKeeps DEF ReEncryptSecrets
  <1> QED
    BY <1>1, ReplaceKeyKeeps, LeaderMovesKeeps, RestartKeeps, CreateKeeps, DeleteKeeps, UpdatesKeep,
       WriteRowKeeps, RotateSecretKeeps, ReadTableKeeps, RotationStops
    DEF SecretsNext

LEMMA SecretsInitHolds == SecretsInit => SecretsInv
  <1> SUFFICES ASSUME SecretsInit
               PROVE  SecretsInv
    OBVIOUS
  <1>1. KeysOK
    BY SecretsAssumption DEF SecretsInit, KeysOK, Key
  <1>2. TableOK
    <2>1. <<>> \in [{} -> Row]
      OBVIOUS
    <2> QED
      BY <2>1 DEF SecretsInit, TableOK
  <1> QED
    BY <1>1, <1>2 DEF SecretsInit, SecretsInv, RequestsTyped, UpToDate, Follows

LEMMA SecretsStutter ==
    ASSUME SecretsInv, UNCHANGED secretsVars
    PROVE  SecretsInv'
  BY DEF secretsVars, SecretsInv, KeysOK, TableOK, RequestsTyped, UpToDate, Follows, Done, ToDo

(* Of the tables a rotation has read, each row is still to be written and   *)
(* as it was read, or no longer under the old key, or was overwritten by    *)
(* another request, whatever restarts, elections and updates interleave     *)
(* (secret_rotation.go:60-110, ReEncryptSecrets of the repositories).       *)
THEOREM SecretsInvariant == SecretsSpec => []SecretsInv
  <1>1. SecretsInv /\ [SecretsNext]_secretsVars => SecretsInv'
    BY SecretsNextKeeps, SecretsStutter
  <1> QED
    BY <1>1, SecretsInitHolds, PTL DEF SecretsSpec

(* A rotation that ends without an error leaves no row under the old key,   *)
(* except rows that another request wrote after the rotation had read them, *)
(* for any rows, keys and requests.                                         *)
THEOREM RotationsLeaveNothingBehind == SecretsSpec => RotationComplete
  <1>1. ASSUME SecretsInv, NEW o \in Rotation, RotationEnds(o), NEW i \in DOMAIN secretRows,
               <<o, i>> \notin overwritten
        PROVE  LeavesNothingBehind(o, i)
    <2>1. TableOf(i) <= rotations[o].table /\ DOMAIN rotations[o].pending = {}
      BY <1>1, Tables DEF RotationEnds
    <2>2. secretRows[i].cipher.key # rotations[o].old
      BY <1>1, <2>1 DEF SecretsInv, Follows, Done, ToDo, RotationEnds
    <2> QED
      BY <2>2 DEF LeavesNothingBehind, Admits, Decrypts
  <1>2. SecretsInv => \A o \in Rotation : RotationEnds(o) =>
            \A i \in DOMAIN secretRows : <<o, i>> \in overwritten \/ LeavesNothingBehind(o, i)
    BY <1>1
  <1> QED
    BY <1>2, SecretsInvariant, PTL DEF RotationComplete

-----------------------------------------------------------------------------
(* What no step does to a secret.                                           *)
UpdatesKeepSecrets ==
    \A u \in Update : CarriesOver(u) /\ <<u, updates[u].row>> \notin overwritten =>
        secretRows'[updates[u].row].cipher = secretRows[updates[u].row].cipher
RotationsKeepSecrets ==
    \A o \in Rotation, i \in DOMAIN secretRows :
        rotations'[o] # rotations[o] /\ <<o, i>> \notin overwritten =>
            secretRows'[i].cipher.value = secretRows[i].cipher.value
SecretsStay == UpdatesKeepSecrets /\ RotationsKeepSecrets

LEMMA SameRowsStay ==
    ASSUME UNCHANGED secretRows
    PROVE  SecretsStay
  BY DEF SecretsStay, UpdatesKeepSecrets, RotationsKeepSecrets

LEMMA SameRequestsStay ==
    ASSUME UNCHANGED <<rotations, updates>>
    PROVE  SecretsStay
  BY DEF SecretsStay, UpdatesKeepSecrets, RotationsKeepSecrets, CarriesOver

LEMMA WriteRowStays ==
    ASSUME SecretsInv, NEW u \in Update, WriteRow(u)
    PROVE  SecretsStay
  <1>1. /\ updates[u] \in Updating /\ UNCHANGED rotations
        /\ \A v \in Update \ {u} : updates'[v] = updates[v]
    BY DEF WriteRow, SecretsInv, RequestsTyped
  <1>2. CASE ~Takes(updates[u].node)
    BY <1>2, SameRowsStay DEF WriteRow
  <1>3. CASE Takes(updates[u].node)
    <2>1. PICK i \in SecretRow, c \in Cipher, deleted \in BOOLEAN :
              i = updates[u].row /\ c = updates[u].secret.cipher /\ Store(i, c, deleted)
      BY <1>1, <1>3 DEF WriteRow, Updating, SecretsInv, TableOK, Row
    <2>2. secretRows'[i].cipher = c
      BY <2>1 DEF Store
    <2>3. UpToDate(u) /\ updates[u] # NotUpdating
      BY DEF SecretsInv, WriteRow
    <2>4. UpdatesKeepSecrets
      BY <1>1, <2>1, <2>2, <2>3 DEF UpdatesKeepSecrets, CarriesOver, UpToDate
    <2>5. RotationsKeepSecrets
      BY <1>1 DEF RotationsKeepSecrets
    <2> QED
      BY <2>4, <2>5 DEF SecretsStay
  <1> QED
    BY <1>2, <1>3

LEMMA ReEncryptRowStays ==
    ASSUME SecretsInv, NEW o \in Rotation, rotations[o] # NotRotating, NEW i \in DOMAIN rotations[o].pending,
           ReEncryptRow(o, i)
    PROVE  SecretsStay
  <1> DEFINE rotation == rotations[o]
             cipher == ReEncrypt(rotation.pending[i], rotation)
  <1>1. /\ UNCHANGED updates /\ \A r \in Rotation \ {o} : rotations'[r] = rotations[r]
        /\ rotation \in Rotating /\ Follows(o) /\ i \in DOMAIN secretRows /\ i \in SecretRow
        /\ TableOf(i) = rotation.table
    BY DEF ReEncryptRow, SecretsInv, RequestsTyped, Follows, TableOK
  <1>2. cipher \in Cipher /\ cipher.value = rotation.pending[i].value
    BY <1>1 DEF Rotating, ReEncrypt, Encrypted, Cipher
  <1>3. CASE cipher = rotation.pending[i]
    BY <1>3, SameRowsStay DEF ReEncryptRow
  <1>4. CASE cipher # rotation.pending[i]
    <2>1. PICK c \in Cipher, deleted \in BOOLEAN : c = cipher /\ Store(i, c, deleted)
      BY <1>1, <1>2, <1>4 DEF ReEncryptRow, SecretsInv, TableOK, Row
    <2>2. /\ secretRows'[i].cipher = cipher
          /\ \A j \in DOMAIN secretRows \ {i} : secretRows'[j] = secretRows[j]
      BY <1>1, <2>1, StoreType DEF SecretsInv
    <2>3. <<o, i>> \notin overwritten => rotation.pending[i] = secretRows[i].cipher
      BY <1>1, Tables DEF Follows, Done, ToDo
    <2> HIDE DEF cipher
    <2>4. UpdatesKeepSecrets
      BY <1>1 DEF UpdatesKeepSecrets, CarriesOver
    <2>5. RotationsKeepSecrets
      BY <1>1, <1>2, <2>2, <2>3 DEF RotationsKeepSecrets
    <2> QED
      BY <2>4, <2>5 DEF SecretsStay
  <1> QED
    BY <1>3, <1>4

LEMMA SecretsNextStays ==
    ASSUME SecretsInv, SecretsNext
    PROVE  SecretsStay
  <1>1. CASE ReplaceKey
    BY <1>1, SameRowsStay DEF ReplaceKey
  <1>2. ASSUME NEW n \in SecretNode, LeaderMoves(n) \/ Restart(n)
        PROVE  SecretsStay
    BY <1>2, SameRowsStay DEF LeaderMoves, Restart
  <1>3. ASSUME NEW n \in SecretNode,
               CreateNewCredential(n) \/ CreateSecretExecutor(n) \/ DeleteOneCredential(n)
        PROVE  SecretsStay
    BY <1>3, SameRequestsStay DEF CreateNewCredential, CreateSecretExecutor, CreateRow, DeleteOneCredential
  <1>4. ASSUME NEW u \in Update, NEW n \in SecretNode,
               UpdateOneCredential(u, n) \/ UpdateSecretExecutor(u, n) \/ UpsertAISettings(u, n)
        PROVE  SecretsStay
    BY <1>4, SameRowsStay DEF UpdateOneCredential, UpdateSecretExecutor, UpsertAISettings, ReadRow
  <1>5. ASSUME NEW o \in Rotation, NEW n \in SecretNode, NEW old \in Key, RotateSecret(o, n, old)
        PROVE  SecretsStay
    BY <1>5, SameRowsStay DEF RotateSecret
  <1>6. ASSUME NEW o \in Rotation, ReadTable(o) \/ RotationEnds(o) \/ RotationFails(o)
        PROVE  SecretsStay
    BY <1>6, SameRowsStay DEF ReadTable, RotationEnds, RotationFails
  <1>7. ASSUME NEW o \in Rotation, ReEncryptSecrets(o)
        PROVE  SecretsStay
    BY <1>7, ReEncryptRowStays DEF ReEncryptSecrets
  <1> QED
    BY <1>1, <1>2, <1>3, <1>4, <1>5, <1>6, <1>7, WriteRowStays DEF SecretsNext

(* Only a request that brings a new secret changes one: an update that      *)
(* carries the stored ciphertext over, a rotation, interrupted or not, and  *)
(* a restart leave it as it is, unless another request wrote the row        *)
(* between their read and their write (utils.ReEncrypt,                     *)
(* storedExecutorSecrets, UpdateOneCredential, Upsert).                     *)
THEOREM RequestsKeepSecrets == SecretsSpec => SecretsKept
  <1>1. SecretsInv /\ [SecretsNext]_secretsVars => [SecretsStay]_secretsVars
    BY SecretsNextStays
  <1>2. SecretsStay =>
            /\ \A u \in Update : CarriesOver(u) /\ <<u, updates[u].row>> \notin overwritten =>
                  secretRows'[updates[u].row].cipher = secretRows[updates[u].row].cipher
            /\ \A o \in Rotation, i \in DOMAIN secretRows :
                  rotations'[o] # rotations[o] /\ <<o, i>> \notin overwritten =>
                      secretRows'[i].cipher.value = secretRows[i].cipher.value
    BY DEF SecretsStay, UpdatesKeepSecrets, RotationsKeepSecrets
  <1> QED
    BY <1>1, <1>2, SecretsInvariant, PTL DEF SecretsSpec, SecretsKept
=============================================================================
