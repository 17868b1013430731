----------------------------- MODULE MCCluster ------------------------------
(* The members of a cluster, and beside them the rows its leaders encrypt:  *)
(* a behaviour is one of Membership or of Secrets, the other rests.         *)
EXTENDS Membership, Secrets

CONSTANTS n1, n2, n3, MaxSecretEvents

VARIABLE focusOfCluster

(* MaxSecretEvents bounds rows, deletions, requests and moved leaders.      *)
SecretsBound ==
    Cardinality(DOMAIN secretRows') + Cardinality({i \in DOMAIN secretRows' : secretRows'[i].deleted})
      + Cardinality({u \in Update : updates'[u] # NotUpdating})
      + Cardinality({o \in Rotation : rotations'[o] # NotRotating})
      + Cardinality({keyLeader'} \ {FirstSecretNode}) <= MaxSecretEvents

ClusterInit == MembershipInit /\ SecretsInit /\ focusOfCluster \in {"members", "secrets"}

ClusterNext ==
    /\ UNCHANGED focusOfCluster
    /\ \/ focusOfCluster = "members" /\ MembershipNext /\ UNCHANGED secretsVars
       \/ focusOfCluster = "secrets" /\ SecretsNext /\ SecretsBound /\ UNCHANGED membershipVars

ClusterSpec ==
    /\ ClusterInit /\ [][ClusterNext]_<<focusOfCluster, membershipVars, secretsVars>>
    /\ MembershipFairness
=============================================================================
