---------------------------- MODULE MCJobExecutor ----------------------------
(* Constants and properties under which TLC checks JobExecutor.             *)
EXTENDS JobExecutor, TLC

CONSTANTS j1, j2, sys, acct, t1, t2

\* j1 recurs, j2 runs once; or both recur (OneTime is then empty).
OneAccount  == (j1 :> acct) @@ (j2 :> acct)
OneJob      == j1 :> acct
RetryOnce   == [j \in Jobs |-> 1]
RetryNever  == [j \in Jobs |-> 0]
RetryTwice  == [j \in Jobs |-> 2]
RetryMixed  == (j1 :> 2) @@ (j2 :> 0)

\* Effectors differ in nothing but their name.
TaskSymmetry == Permutations(Tasks)
=============================================================================
