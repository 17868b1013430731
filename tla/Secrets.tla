------------------------------ MODULE Secrets ------------------------------
(* The secrets the tables hold under the SecretKey of the server: those of  *)
(* credentials, of executors and of AI settings, and the rotation that      *)
(* re-encrypts them under a new key. Every node caches the key it loaded;   *)
(* only the node that rotates reloads it. A rotation reads one table after  *)
(* the other and writes its rows one by one; updates of rows carry over     *)
(* what they read before. A ciphertext is the value and the key it is under.*)
EXTENDS Integers, FiniteSets

CONSTANTS SecretNode, FirstSecretNode,
          CredentialRow, ExecutorRow, SettingRow,   \* the rows of the three tables
          Rotation, Update,                         \* requests: rotate-secret, updates of rows
          SecretValue, MaxKey

SecretRow == CredentialRow \cup ExecutorRow \cup SettingRow
Key == 1..MaxKey

ASSUME SecretsAssumption ==
    /\ FirstSecretNode \in SecretNode /\ MaxKey \in Nat \ {0} /\ SecretValue # {}
    /\ CredentialRow \cap (ExecutorRow \cup SettingRow) = {} /\ ExecutorRow \cap SettingRow = {}
    /\ Rotation \cap Update = {} /\ "none" \notin Rotation \cup Update

VARIABLES
    keySource,    \* the key in the secrets file or service
    keyCache,     \* keyCache[n]: cachedSecrets of node n
    keyLeader,    \* the node that takes writes
    secretRows,   \* the rows that exist: value, key, and whether the row is deleted
    rotations,    \* rotations[o]: the calls of RotateSecret
    updates,      \* updates[u]: an update that has read its row
    overwritten   \* pairs of a request and a row it read that another has written since

secretsVars == <<keySource, keyCache, keyLeader, secretRows, rotations, updates, overwritten>>

NotRotating == [table |-> 0]
NotUpdating == [row |-> "none"]

SecretsInit ==
    /\ keySource = 1 /\ keyCache = [n \in SecretNode |-> 1] /\ keyLeader = FirstSecretNode
    /\ secretRows = <<>>
    /\ rotations = [o \in Rotation |-> NotRotating]
    /\ updates = [u \in Update |-> NotUpdating]
    /\ overwritten = {}

-----------------------------------------------------------------------------
(* Requests that write are redirected to the leader.                        *)
Takes(n) == n = keyLeader

Encrypted(value, key) == [value |-> value, key |-> key]
Decrypts(cipher, key) == cipher.key = key

(* A credential is admitted by a node that can decrypt its secret.          *)
Admits(n, i) ==
    /\ i \in DOMAIN secretRows /\ ~secretRows[i].deleted
    /\ Decrypts(secretRows[i].cipher, keyCache[n])

TableOf(i) == IF i \in CredentialRow THEN 1 ELSE IF i \in ExecutorRow THEN 2 ELSE 3
HasRead(q, i) ==
    IF q \in Rotation THEN TableOf(i) <= rotations[q].table ELSE updates[q].row = i

(* A write of row i, by request q or by a request of one step.              *)
Written(q, i) ==
    overwritten' = (overwritten \cup {<<r, i>> : r \in {r \in Rotation \cup Update : HasRead(r, i)}})
                       \ {<<q, i>>}
Store(i, cipher, deleted) ==
    secretRows' = [j \in DOMAIN secretRows \cup {i} |->
        IF j = i THEN [cipher |-> cipher, deleted |-> deleted] ELSE secretRows[j]]
Forget(q) == overwritten' = {pair \in overwritten : pair[1] # q}

-----------------------------------------------------------------------------
(* The environment: the operator replaces the key in its source, another    *)
(* node is elected, a node is restarted and loads the key; its requests are *)
(* lost.                                                                    *)
ReplaceKey ==
    /\ keySource < MaxKey /\ keySource' = keySource + 1
    /\ UNCHANGED <<keyCache, keyLeader, secretRows, rotations, updates, overwritten>>

LeaderMoves(n) ==
    /\ n # keyLeader /\ keyLeader' = n
    /\ UNCHANGED <<keySource, keyCache, secretRows, rotations, updates, overwritten>>

GetSecrets(n) == keyCache[n]
RunsAt(n, q) == IF q \in Rotation THEN rotations[q] # NotRotating /\ rotations[q].node = n
                              ELSE updates[q] # NotUpdating /\ updates[q].node = n
Restart(n) ==
    /\ keyCache[n] # keySource
    /\ keyCache' = [keyCache EXCEPT ![n] = keySource]
    /\ rotations' = [o \in Rotation |-> IF RunsAt(n, o) THEN NotRotating ELSE rotations[o]]
    /\ updates' = [u \in Update |-> IF RunsAt(n, u) THEN NotUpdating ELSE updates[u]]
    /\ overwritten' = {pair \in overwritten : ~RunsAt(n, pair[1])}
    /\ UNCHANGED <<keySource, keyLeader, secretRows>>

-----------------------------------------------------------------------------
(* Rows are created with a secret of their own, under the key the leader    *)
(* has cached. Credentials are deleted; settings and executors keep theirs. *)
CreateRow(n, i, value) ==
    /\ Takes(n) /\ i \notin DOMAIN secretRows
    /\ Store(i, Encrypted(value, GetSecrets(n)), FALSE) /\ Written("none", i)
    /\ UNCHANGED <<keySource, keyCache, keyLeader, rotations, updates>>

CreateNewCredential(n) == \E i \in CredentialRow, value \in SecretValue : CreateRow(n, i, value)
CreateSecretExecutor(n) == \E i \in ExecutorRow, value \in SecretValue : CreateRow(n, i, value)

DeleteOneCredential(n) ==
    /\ Takes(n)
    /\ \E i \in CredentialRow \cap DOMAIN secretRows :
           /\ ~secretRows[i].deleted
           /\ Store(i, secretRows[i].cipher, TRUE) /\ UNCHANGED overwritten
    /\ UNCHANGED <<keySource, keyCache, keyLeader, rotations, updates>>

(* An update reads the row; without a new secret it will write back the     *)
(* ciphertext it has read. Credentials never get a new one.                 *)
Carried(i) == [cipher |-> secretRows[i].cipher, carried |-> TRUE]
Given(n, value) == [cipher |-> Encrypted(value, GetSecrets(n)), carried |-> FALSE]

ReadRow(u, n, i, secret) ==
    /\ Takes(n) /\ updates[u] = NotUpdating
    /\ updates' = [updates EXCEPT ![u] = [node |-> n, row |-> i, secret |-> secret]]
    /\ UNCHANGED <<keySource, keyCache, keyLeader, secretRows, rotations, overwritten>>

UpdateOneCredential(u, n) ==
    \E i \in CredentialRow \cap DOMAIN secretRows : ReadRow(u, n, i, Carried(i))
UpdateSecretExecutor(u, n) ==
    \E i \in ExecutorRow \cap DOMAIN secretRows :
        \/ ReadRow(u, n, i, Carried(i))
        \/ \E value \in SecretValue : ReadRow(u, n, i, Given(n, value))
UpsertAISettings(u, n) ==
    \E i \in SettingRow :
        \/ i \in DOMAIN secretRows /\ ReadRow(u, n, i, Carried(i))
        \/ \E value \in SecretValue : ReadRow(u, n, i, Given(n, value))

(* The write; a node that is no longer the leader cannot make it.           *)
WriteRow(u) ==
    LET update == updates[u] IN
    /\ update # NotUpdating
    /\ updates' = [updates EXCEPT ![u] = NotUpdating]
    /\ IF Takes(update.node)
       THEN /\ Store(update.row, update.secret.cipher,
                     update.row \in DOMAIN secretRows /\ secretRows[update.row].deleted)
            /\ Written(u, update.row)
       ELSE UNCHANGED secretRows /\ Forget(u)
    /\ UNCHANGED <<keySource, keyCache, keyLeader, rotations>>

-----------------------------------------------------------------------------
(* RotateSecret reloads the key and re-encrypts each table from the key the *)
(* operator names, if the two differ.                                       *)
RotateSecret(o, n, old) ==
    /\ Takes(n) /\ rotations[o] = NotRotating
    /\ keyCache' = [keyCache EXCEPT ![n] = keySource]
    /\ rotations' = [rotations EXCEPT ![o] =
           IF old = keySource THEN NotRotating
           ELSE [node |-> n, old |-> old, new |-> keySource, table |-> 0, pending |-> <<>>]]
    /\ UNCHANGED <<keySource, keyLeader, secretRows, updates, overwritten>>

(* ReEncryptSecrets of the next repository reads all its rows.              *)
RowsOf(table) == {i \in DOMAIN secretRows : TableOf(i) = table}
ReadTable(o) ==
    /\ rotations[o] # NotRotating /\ rotations[o].table < 3 /\ rotations[o].pending = <<>>
    /\ LET next == rotations[o].table + 1 IN
       rotations' = [rotations EXCEPT ![o].table = next,
                                      ![o].pending = [i \in RowsOf(next) |-> secretRows[i].cipher]]
    /\ UNCHANGED <<keySource, keyCache, keyLeader, secretRows, updates, overwritten>>

\* Variant: what the old key does not decrypt is encrypted all the same.
Garbled(cipher, rotation) == Encrypted(IF Decrypts(cipher, rotation.old) THEN cipher.value ELSE 0, rotation.new)

ReEncrypt(cipher, rotation) ==
    IF Decrypts(cipher, rotation.old) THEN Encrypted(cipher.value, rotation.new) ELSE cipher

Without(pending, i) == [j \in DOMAIN pending \ {i} |-> pending[j]]

\* Variant: a row that the old key does not decrypt ends the table.
Abandoned(rotation, i) ==
    IF Decrypts(rotation.pending[i], rotation.old) THEN Without(rotation.pending, i) ELSE <<>>
Rest(rotation, i) == Without(rotation.pending, i)

(* One row: skipped if the old key does not decrypt it. A failing write     *)
(* ends the rotation.                                                       *)
ReEncryptRow(o, i) ==
    LET rotation == rotations[o]
        cipher == ReEncrypt(rotation.pending[i], rotation) IN
    /\ rotations' = [rotations EXCEPT ![o].pending = Rest(rotation, i)]
    /\ IF cipher = rotation.pending[i] THEN UNCHANGED <<secretRows, overwritten>>
       ELSE Takes(rotation.node) /\ Store(i, cipher, secretRows[i].deleted) /\ Written(o, i)
    /\ UNCHANGED <<keySource, keyCache, keyLeader, updates>>

ReEncryptSecrets(o) == rotations[o] # NotRotating /\ \E i \in DOMAIN rotations[o].pending : ReEncryptRow(o, i)

RotationEnds(o) ==
    /\ rotations[o] # NotRotating
    /\ rotations[o].table = 3 /\ rotations[o].pending = <<>>
    /\ rotations' = [rotations EXCEPT ![o] = NotRotating] /\ Forget(o)
    /\ UNCHANGED <<keySource, keyCache, keyLeader, secretRows, updates>>

RotationFails(o) ==
    /\ rotations[o] # NotRotating /\ rotations[o].pending # <<>>
    /\ rotations' = [rotations EXCEPT ![o] = NotRotating] /\ Forget(o)
    /\ UNCHANGED <<keySource, keyCache, keyLeader, secretRows, updates>>

-----------------------------------------------------------------------------
SecretsNext ==
    \/ ReplaceKey
    \/ \E n \in SecretNode :
           LeaderMoves(n) \/ Restart(n) \/ CreateNewCredential(n) \/ CreateSecretExecutor(n) \/ DeleteOneCredential(n)
    \/ \E u \in Update, n \in SecretNode :
           UpdateOneCredential(u, n) \/ UpdateSecretExecutor(u, n) \/ UpsertAISettings(u, n)
    \/ \E u \in Update : WriteRow(u)
    \/ \E o \in Rotation, n \in SecretNode, old \in Key : RotateSecret(o, n, old)
    \/ \E o \in Rotation : ReadTable(o) \/ ReEncryptSecrets(o) \/ RotationEnds(o) \/ RotationFails(o)

SecretsSpec == SecretsInit /\ [][SecretsNext]_secretsVars
-----------------------------------------------------------------------------
(* Properties.                                                              *)

(* Only a request that brings a new secret changes one: a rotation and an   *)
(* update that carries the stored ciphertext over leave every value as it   *)
(* is, and the update leaves the key, unless another request wrote the row  *)
(* between their read and their write. A row that is half-way through an    *)
(* interrupted rotation, or was skipped by one, keeps its secret            *)
(* (utils.ReEncrypt, storedExecutorSecrets, UpdateOneCredential, Upsert).   *)
CarriesOver(u) ==
    updates[u] # NotUpdating /\ updates'[u] = NotUpdating /\ updates[u].secret.carried
SecretsKept ==
    [][/\ \A u \in Update : CarriesOver(u) /\ <<u, updates[u].row>> \notin overwritten =>
              secretRows'[updates[u].row].cipher = secretRows[updates[u].row].cipher
       /\ \A o \in Rotation, i \in DOMAIN secretRows :
              rotations'[o] # rotations[o] /\ <<o, i>> \notin overwritten =>
                  secretRows'[i].cipher.value = secretRows[i].cipher.value]_secretsVars

(* A rotation that ends without an error leaves no row under the old key,   *)
(* except rows another request wrote after the rotation had read the table: *)
(* the node admits every credential that is under the key it has loaded and *)
(* no secret depends on the key the operator is about to throw away         *)
(* (RotateSecret, ReEncryptSecrets of the three repositories).              *)
LeavesNothingBehind(o, i) ==
    /\ secretRows[i].cipher.key # rotations[o].old
    /\ LET n == rotations[o].node IN
       (i \in CredentialRow /\ ~secretRows[i].deleted
            /\ secretRows[i].cipher.key = rotations[o].new /\ keyCache[n] = rotations[o].new) => Admits(n, i)
RotationComplete ==
    [][\A o \in Rotation : RotationEnds(o) =>
           \A i \in DOMAIN secretRows : <<o, i>> \in overwritten \/ LeavesNothingBehind(o, i)]_secretsVars
=============================================================================
