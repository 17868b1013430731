---------------------------- MODULE QueueProofs -----------------------------
(***************************************************************************)
(* What the queue service of leaders keeps right: the executions of        *)
(* accounts (ExecutionQuota), for any nodes, accounts and limits, and the  *)
(* assignment of jobs (JobAssignment), for any nodes and accounts, batches *)
(* of any size and any number of jobs, crashes and elections.              *)
(*                                                                         *)
(* QuotaInv: the counters are unsigned and stay so under every             *)
(* interleaving of allocations, reports and executions, and the system     *)
(* account keeps its jobs. PaidInv: the tokens of an account that lie in   *)
(* the quotas of workers, in grants that have been charged and in the      *)
(* count, and those spent, are together no more than the limit; it needs   *)
(* to know that the allocation which no election has overtaken works on a  *)
(* copy of the count that is still true, and that every other one leaves a *)
(* mark when it writes a count.                                            *)
(*                                                                         *)
(* AssignmentInv: the rows of one version, those a leader has yet to       *)
(* insert included, do not share a job between nodes. It needs to know     *)
(* that the batches still to be queued are apart from each other and from  *)
(* those rows, and that a leader which starts jobs is alone, has raised    *)
(* the version before and queues no batch meanwhile.                       *)
(***************************************************************************)
EXTENDS ExecutionQuota, JobAssignment, FiniteSetTheorems, WellFoundedInduction, TLAPS

MaybeCount == Count \cup {NoCount}
Tokens == [QuotaAccount -> Count]
AllocationPC == {"idle", "read", "account", "reread", "charge"}

(* An allocation and the copies of the tables that it works on.             *)
Allocation ==
    [pc : AllocationPC, term : Nat, todo : SUBSET QuotaAccount,
     node : {<<>>} \cup [QuotaAccount -> QuotaNode],
     counts : {<<>>} \cup [QuotaAccount -> MaybeCount],
     usage : {<<>>} \cup [QuotaAccount -> Nat],
     account : QuotaAccount \cup {0}, read : MaybeCount,
     grants : [QuotaNode -> Tokens]]

(* Once it has read the tables, it has; and the account it charges has a    *)
(* count, since it has just written one and counts are never removed.       *)
Informed(al) ==
    al.pc \in {"account", "reread", "charge"} =>
        /\ al.node \in [QuotaAccount -> QuotaNode]
        /\ al.counts \in [QuotaAccount -> MaybeCount]
        /\ al.usage \in [QuotaAccount -> Nat]
Charges(al) ==
    /\ al.pc \in {"reread", "charge"} => al.account \in QuotaAccount /\ counts[al.account] \in Count
    /\ al.pc = "charge" => al.read \in Count

AllocationsOK ==
    /\ allocation \in [QuotaNode -> Allocation]
    /\ \A n \in QuotaNode : Informed(allocation[n]) /\ Charges(allocation[n])

Report == [pc : {"new", "write", "done"}, account : QuotaAccount \cup {0}, read : Count]
ReportsOK ==
    /\ reports \in [Reporter -> Report]
    /\ \A r \in Reporter : reports[r].pc = "write" => reports[r].account \in QuotaAccount

(* The tokens of a node are a function of the accounts it has received.     *)
WorkersOK ==
    /\ localQuota \in [QuotaNode -> UNION {[A -> Count] : A \in SUBSET QuotaAccount}]
    /\ taking \in [QuotaNode -> [QuotaAccount -> 0..MaxTaken]]

LeaderOK ==
    /\ quotaLeader \in QuotaNode /\ elections \in 0..MaxElections /\ handling \subseteq QuotaNode
    /\ counts \in [QuotaAccount -> MaybeCount]
    /\ jobsActive \subseteq QuotaAccount
    /\ usage \in [QuotaAccount -> 0..MaxUsage]
    /\ SystemStaysActive

QuotaInv == LeaderOK /\ AllocationsOK /\ WorkersOK /\ ReportsOK

-----------------------------------------------------------------------------
(* Arithmetic.                                                             *)

LEMMA MaxOfTwo ==
    ASSUME NEW a \in Int, NEW b \in Int
    PROVE  Max({a, b}) = IF a >= b THEN a ELSE b
  <1>1. PICK m \in {a, b} : \A y \in {a, b} : m >= y
    OBVIOUS
  <1>2. Max({a, b}) \in {a, b} /\ \A y \in {a, b} : Max({a, b}) >= y
    BY <1>1 DEF Max
  <1> QED
    BY <1>2

LEMMA MinOfTwo ==
    ASSUME NEW a \in Int, NEW b \in Int
    PROVE  Min({a, b}) = IF a <= b THEN a ELSE b
  <1>1. PICK m \in {a, b} : \A y \in {a, b} : m <= y
    OBVIOUS
  <1>2. Min({a, b}) \in {a, b} /\ \A y \in {a, b} : Min({a, b}) <= y
    BY <1>1 DEF Min
  <1> QED
    BY <1>2

LEMMA ShareOfCount ==
    ASSUME NEW x \in Nat
    PROVE  x \div Share \in 0..x
  BY ExecutionQuotaAssumption

(* A grant is no more than what is left, or one.                            *)
LEMMA AllocatedInCount ==
    ASSUME NEW x \in Count
    PROVE  Allocated(x) \in Count
  <1>1. x \in Nat /\ x \div Share \in 0..x /\ x \div Share \in Int
    BY ShareOfCount DEF Count
  <1>2. Allocated(x) = IF x \div Share >= 1 THEN x \div Share ELSE 1
    BY <1>1, MaxOfTwo DEF Allocated
  <1> QED
    BY <1>1, <1>2, ExecutionQuotaAssumption DEF Count

LEMMA ReconciledInCount ==
    ASSUME NEW al, al.counts \in [QuotaAccount -> MaybeCount], al.usage \in [QuotaAccount -> Nat],
           NEW a \in QuotaAccount
    PROVE  Reconciled(al, a) \in Count
  <1> DEFINE current == IF al.counts[a] = NoCount THEN Limit ELSE al.counts[a]
  <1>1. current \in Count /\ al.usage[a] \in Nat
    BY ExecutionQuotaAssumption DEF MaybeCount, Count
  <1>2. Remaining(al, a) = IF al.usage[a] > current THEN 0 ELSE current - al.usage[a]
    BY DEF Remaining
  <1> HIDE DEF current
  <1>3. Remaining(al, a) \in Count
    BY <1>1, <1>2, ExecutionQuotaAssumption DEF Count
  <1> QED
    BY <1>3, ExecutionQuotaAssumption DEF Reconciled, Count

LEMMA NoTokensAreTokens == NoTokens \in Tokens /\ NotAllocating \in Allocation
  <1>1. NoTokens \in Tokens
    BY ExecutionQuotaAssumption DEF NoTokens, Tokens, Count
  <1>2. 0 \in MaybeCount
    BY ExecutionQuotaAssumption DEF MaybeCount, Count
  <1> QED
    BY <1>1, <1>2 DEF NotAllocating, Allocation, AllocationPC

-----------------------------------------------------------------------------
(* What the steps leave alone.                                             *)

LEMMA SameAllocations ==
    ASSUME AllocationsOK, UNCHANGED <<allocation, counts>>
    PROVE  AllocationsOK'
  BY DEF AllocationsOK, Informed, Charges

(* A count that has been written stays one.                                 *)
CountsKept ==
    \A a \in QuotaAccount : counts[a] \in Count => counts'[a] \in Count

LEMMA ChargesKept ==
    ASSUME NEW al, Charges(al), CountsKept
    PROVE  Charges(al)'
  BY DEF Charges, CountsKept

LEMMA AllocationsKept ==
    ASSUME AllocationsOK, CountsKept, UNCHANGED allocation
    PROVE  AllocationsOK'
  BY ChargesKept DEF AllocationsOK, Informed

(* One allocation moves on.                                                *)
LEMMA OneAllocation ==
    ASSUME AllocationsOK, CountsKept, NEW n \in QuotaNode, NEW al \in Allocation,
           Step(n, al), Informed(al),
           al.pc \in {"reread", "charge"} => al.account \in QuotaAccount /\ counts'[al.account] \in Count,
           al.pc = "charge" => al.read \in Count
    PROVE  AllocationsOK'
  <1>1. \A m \in QuotaNode : allocation'[m] = IF m = n THEN al ELSE allocation[m]
    BY DEF Step, AllocationsOK
  <1>2. allocation' \in [QuotaNode -> Allocation]
    BY DEF Step, AllocationsOK
  <1>3. ASSUME NEW m \in QuotaNode
        PROVE  Informed(allocation[m])' /\ Charges(allocation[m])'
    <2>1. CASE m = n
      BY <1>1, <2>1 DEF Informed, Charges
    <2>2. CASE m # n
      <3>1. allocation'[m] = allocation[m] /\ Informed(allocation[m]) /\ Charges(allocation[m])
        BY <1>1, <2>2 DEF AllocationsOK
      <3>2. allocation[m] \in Allocation
        BY DEF AllocationsOK
      <3> QED
        BY <3>1, <3>2 DEF Informed, Charges, CountsKept
    <2> QED
      BY <2>1, <2>2
  <1> QED
    BY <1>2, <1>3 DEF AllocationsOK

LEMMA SameLeader ==
    ASSUME LeaderOK, UNCHANGED <<quotaLeader, elections, handling, countVars>>
    PROVE  LeaderOK'
  BY DEF LeaderOK, countVars, SystemStaysActive

LEMMA SameCounts ==
    ASSUME UNCHANGED counts
    PROVE  CountsKept
  BY DEF CountsKept

LEMMA SameWorkers ==
    ASSUME WorkersOK, UNCHANGED <<localQuota, taking>>
    PROVE  WorkersOK'
  BY DEF WorkersOK

LEMMA SameReports ==
    ASSUME ReportsOK, UNCHANGED reports
    PROVE  ReportsOK'
  BY DEF ReportsOK

LEMMA CountWritten ==
    ASSUME LeaderOK, NEW a \in QuotaAccount, NEW x \in Count, counts' = [counts EXCEPT ![a] = x],
           jobsActive' \subseteq jobsActive, SystemAccount \in jobsActive => SystemAccount \in jobsActive',
           UNCHANGED <<quotaLeader, elections, handling, usage>>
    PROVE  LeaderOK' /\ CountsKept /\ counts'[a] \in Count
  BY DEF LeaderOK, SystemStaysActive, CountsKept, MaybeCount

-----------------------------------------------------------------------------
(* Leadership.                                                             *)

LEMMA ElectKeeps ==
    ASSUME QuotaInv, NEW n \in QuotaNode, Elect(n)
    PROVE  QuotaInv'
  <1>1. LeaderOK'
    BY ExecutionQuotaAssumption DEF Elect, QuotaInv, LeaderOK, countVars, SystemStaysActive
  <1> QED
    BY <1>1, SameAllocations, SameWorkers, SameReports DEF Elect, QuotaInv, countVars, workerVars

LEMMA HandleChangeKeeps ==
    ASSUME QuotaInv, NEW n \in QuotaNode, HandleChange(n)
    PROVE  QuotaInv'
  <1>1. LeaderOK'
    BY DEF HandleChange, QuotaInv, LeaderOK, countVars, SystemStaysActive
  <1>2. AllocationsOK'
    <2>1. CASE n = quotaLeader
      <3> DEFINE al == [allocation[n] EXCEPT !.pc = "read"]
      <3>1. al \in Allocation /\ al.pc = "read"
        BY DEF QuotaInv, AllocationsOK, Allocation, AllocationPC
      <3>2. Step(n, al)
        BY <2>1 DEF HandleChange, Step
      <3> HIDE DEF al
      <3> QED
        BY <3>1, <3>2, SameCounts, OneAllocation DEF HandleChange, QuotaInv, Informed, countVars
    <2>2. CASE n # quotaLeader
      BY <2>2, SameAllocations DEF HandleChange, QuotaInv, countVars
    <2> QED
      BY <2>1, <2>2
  <1>3. WorkersOK'
    <2>1. <<>> \in UNION {[A -> Count] : A \in SUBSET QuotaAccount}
      <3>1. <<>> \in [{} -> Count]
        OBVIOUS
      <3> QED
        BY <3>1
    <2> QED
      BY <2>1 DEF HandleChange, QuotaInv, WorkersOK
  <1> QED
    BY <1>1, <1>2, <1>3, SameReports DEF HandleChange, QuotaInv

-----------------------------------------------------------------------------
(* Allocations.                                                            *)

LEMMA ReadAccountsKeeps ==
    ASSUME QuotaInv, NEW n \in QuotaNode, ReadAccounts(n)
    PROVE  QuotaInv'
  <1> DEFINE S == QuotaNode \ {quotaLeader}
             k == Cardinality(S)
  <1>1. k \in Nat \ {0}
    <2>1. Cardinality(QuotaNode) \in Nat \ {0, 1}
      BY FS_CardinalityType, ExecutionQuotaAssumption
    <2>2. k = Cardinality(QuotaNode) - 1
      BY FS_RemoveElement, ExecutionQuotaAssumption DEF QuotaInv, LeaderOK
    <2> QED
      BY <2>1, <2>2
  <1>2. PICK workers \in SetToSeqs(S) :
            Step(n, [allocation[n] EXCEPT !.pc = "account", !.term = elections, !.todo = QuotaAccount,
                       !.node = [a \in QuotaAccount |-> workers[(a % Len(workers)) + 1]],
                       !.counts = counts, !.usage = usage])
    BY DEF ReadAccounts
  <1>3. workers \in [1..k -> S]
    BY DEF SetToSeqs
  <1>4. Len(workers) = k
    BY <1>1, <1>3
  <1>5. ASSUME NEW a \in QuotaAccount
        PROVE  workers[(a % Len(workers)) + 1] \in QuotaNode
    <2>1. (a % k) + 1 \in 1..k
      BY <1>1, ExecutionQuotaAssumption
    <2> QED
      BY <1>3, <1>4, <2>1
  <1> DEFINE spread == [a \in QuotaAccount |-> workers[(a % Len(workers)) + 1]]
             al == [allocation[n] EXCEPT !.pc = "account", !.term = elections, !.todo = QuotaAccount,
                      !.node = spread, !.counts = counts, !.usage = usage]
  <1>6. spread \in [QuotaAccount -> QuotaNode]
    BY <1>5
  <1>7. Step(n, al)
    BY <1>2
  <1> HIDE DEF spread
  <1>8. counts \in [QuotaAccount -> MaybeCount] /\ usage \in [QuotaAccount -> Nat] /\ elections \in Nat
    BY ExecutionQuotaAssumption DEF QuotaInv, LeaderOK
  <1>9. al \in Allocation /\ Informed(al) /\ al.pc = "account"
    <2>1. allocation[n] \in Allocation
      BY DEF QuotaInv, AllocationsOK
    <2>2. /\ al.pc = "account" /\ al.node = spread /\ al.counts = counts /\ al.usage = usage
          /\ al \in Allocation
      BY <1>6, <1>8, <2>1 DEF Allocation, AllocationPC
    <2> QED
      BY <1>6, <1>8, <2>2 DEF Informed
  <1> HIDE DEF al
  <1>10. CountsKept
    BY SameCounts DEF ReadAccounts, countVars
  <1>11. AllocationsOK'
    BY <1>7, <1>9, <1>10, OneAllocation DEF QuotaInv
  <1> QED
    BY <1>11, SameLeader, SameWorkers, SameReports DEF ReadAccounts, QuotaInv, workerVars

(* A step that gives up, or goes on with the next account.                  *)
LEMMA GivesUp ==
    ASSUME QuotaInv, NEW n \in QuotaNode, CountsKept, Step(n, NotAllocating)
    PROVE  AllocationsOK'
  <1>1. NotAllocating \in Allocation /\ NotAllocating.pc = "idle"
    BY NoTokensAreTokens DEF NotAllocating
  <1> HIDE DEF NotAllocating
  <1> QED
    BY <1>1, OneAllocation DEF QuotaInv, Informed

LEMMA NextAccount ==
    ASSUME QuotaInv, NEW n \in QuotaNode, CountsKept, allocation[n].pc \in {"reread", "charge"},
           Step(n, [allocation[n] EXCEPT !.pc = "account"])
    PROVE  AllocationsOK'
  <1> DEFINE al == [allocation[n] EXCEPT !.pc = "account"]
  <1>1. allocation[n] \in Allocation /\ Informed(allocation[n])
    BY DEF QuotaInv, AllocationsOK
  <1>2. /\ al \in Allocation /\ al.pc = "account"
        /\ al.node = allocation[n].node /\ al.counts = allocation[n].counts /\ al.usage = allocation[n].usage
    BY <1>1 DEF Allocation, AllocationPC
  <1>3. Step(n, al)
    OBVIOUS
  <1> HIDE DEF al
  <1>4. Informed(al)
    BY <1>1, <1>2 DEF Informed
  <1> QED
    BY <1>2, <1>3, <1>4, OneAllocation DEF QuotaInv

LEMMA FailuresKeep ==
    ASSUME QuotaInv, NEW n \in QuotaNode, ReconcileFails(n) \/ ChargeFails(n) \/ AllocationEnds(n)
    PROVE  QuotaInv'
  <1>1. CountsKept /\ UNCHANGED <<quotaLeader, elections, handling, countVars, workerVars, reports>>
    BY SameCounts DEF ReconcileFails, ChargeFails, AllocationEnds, countVars
  <1>2. AllocationsOK'
    BY <1>1, GivesUp, NextAccount DEF ReconcileFails, ChargeFails, AllocationEnds
  <1> QED
    BY <1>1, <1>2, SameLeader, SameWorkers, SameReports DEF QuotaInv, workerVars

LEMMA RereadKeeps ==
    ASSUME QuotaInv, NEW n \in QuotaNode, Reread(n)
    PROVE  QuotaInv'
  <1> DEFINE read == counts[allocation[n].account]
             al == [allocation[n] EXCEPT !.pc = "charge", !.read = read]
  <1>1. allocation[n] \in Allocation /\ Informed(allocation[n]) /\ allocation[n].account \in QuotaAccount
        /\ read \in Count /\ allocation[n].pc = "reread"
    BY DEF QuotaInv, AllocationsOK, Charges, Reread
  <1>2. Step(n, al)
    BY DEF Reread
  <1> HIDE DEF read
  <1>3. /\ al \in Allocation /\ al.read = read /\ al.pc = "charge" /\ al.account = allocation[n].account
        /\ al.node = allocation[n].node /\ al.counts = allocation[n].counts /\ al.usage = allocation[n].usage
    BY <1>1 DEF Allocation, AllocationPC, MaybeCount
  <1> HIDE DEF al
  <1>4. Informed(al)
    BY <1>1, <1>3 DEF Informed
  <1>5. UNCHANGED <<quotaLeader, elections, handling, countVars, workerVars, reports>> /\ UNCHANGED counts
    BY DEF Reread, countVars
  <1>6. AllocationsOK'
    BY <1>1, <1>2, <1>3, <1>4, <1>5, SameCounts, OneAllocation DEF QuotaInv, read
  <1> QED
    BY <1>5, <1>6, SameLeader, SameWorkers, SameReports DEF QuotaInv, workerVars

(* The tokens of an account are subtracted from what it has, or from what   *)
(* it had when it was read again, but never more than that.                 *)
LEMMA ChargeKeeps ==
    ASSUME QuotaInv, NEW n \in QuotaNode, Charge(n)
    PROVE  QuotaInv'
  <1> DEFINE al == allocation[n]
             a == al.account
  <1>1. al \in Allocation /\ a \in QuotaAccount /\ al.read \in Count /\ Informed(al) /\ al.pc = "charge"
    BY DEF QuotaInv, AllocationsOK, Charges, Charge
  <1>2. Granted(al) \in Count
    BY <1>1 DEF Granted, Allocation, Informed, Tokens
  <1>3. Charged(al) \in Count
    <2>1. Granted(al) \in Nat /\ al.read \in Nat
      BY <1>1, <1>2 DEF Count
    <2>2. Min({Granted(al), al.read}) = IF Granted(al) <= al.read THEN Granted(al) ELSE al.read
      BY <2>1, MinOfTwo
    <2> QED
      BY <1>1, <2>1, <2>2, ExecutionQuotaAssumption DEF Charged, Count
  <1>4. counts' = [counts EXCEPT ![a] = Charged(al)] /\ Step(n, [allocation[n] EXCEPT !.pc = "account"])
        /\ UNCHANGED <<quotaLeader, elections, handling, jobsActive, usage, workerVars, reports>>
    BY DEF Charge, WriteCount
  <1>5. LeaderOK' /\ CountsKept
    BY <1>1, <1>3, <1>4, CountWritten DEF QuotaInv
  <1>6. AllocationsOK'
    BY <1>1, <1>4, <1>5, NextAccount
  <1> QED
    BY <1>4, <1>5, <1>6, SameWorkers, SameReports DEF QuotaInv, workerVars

LEMMA ReconcileKeeps ==
    ASSUME QuotaInv, NEW n \in QuotaNode, NEW a \in QuotaAccount, Reconcile(n, a)
    PROVE  QuotaInv'
  <1> DEFINE al == allocation[n]
             remaining == Reconciled(al, a)
             skipped == [al EXCEPT !.todo = @ \ {a}]
             granted == [al EXCEPT !.todo = @ \ {a}, !.account = a, !.pc = "reread",
                           !.grants[al.node[a]][a] = Allocated(remaining)]
  <1>1. al \in Allocation /\ Informed(al) /\ al.pc = "account"
    BY DEF QuotaInv, AllocationsOK, Reconcile
  <1>2. al.node \in [QuotaAccount -> QuotaNode] /\ remaining \in Count /\ al.grants \in [QuotaNode -> Tokens]
    BY <1>1, ReconciledInCount DEF Informed, Allocation
  <1>3. Allocated(remaining) \in Count
    BY <1>2, AllocatedInCount
  <1>4. /\ counts' = [counts EXCEPT ![a] = remaining]
        /\ jobsActive' \subseteq jobsActive
        /\ SystemAccount \in jobsActive => SystemAccount \in jobsActive'
        /\ UNCHANGED <<quotaLeader, elections, handling, usage, workerVars, reports>>
    BY DEF Reconcile, WriteCount, Exhausted
  <1>5. LeaderOK' /\ CountsKept /\ counts'[a] \in Count
    BY <1>2, <1>4, CountWritten DEF QuotaInv
  <1>6. Step(n, skipped) \/ Step(n, granted)
    BY DEF Reconcile
  <1>7. /\ skipped \in Allocation /\ skipped.pc = "account"
        /\ skipped.node = al.node /\ skipped.counts = al.counts /\ skipped.usage = al.usage
    BY <1>1 DEF Allocation
  <1>8. /\ granted \in Allocation /\ granted.pc = "reread" /\ granted.account = a
        /\ granted.node = al.node /\ granted.counts = al.counts /\ granted.usage = al.usage
    <2> DEFINE grants == [al.grants EXCEPT ![al.node[a]][a] = Allocated(remaining)]
    <2>1. grants \in [QuotaNode -> Tokens]
      BY <1>2, <1>3 DEF Tokens
    <2>2. granted = [al EXCEPT !.todo = al.todo \ {a}, !.account = a, !.pc = "reread", !.grants = grants]
      BY <1>1 DEF Allocation
    <2> HIDE DEF grants
    <2> QED
      BY <1>1, <2>1, <2>2 DEF Allocation, AllocationPC
  <1> HIDE DEF skipped, granted
  <1>9. Informed(skipped) /\ Informed(granted)
    BY <1>1, <1>7, <1>8 DEF Informed
  <1>10. AllocationsOK'
    BY <1>5, <1>6, <1>7, <1>8, <1>9, OneAllocation DEF QuotaInv
  <1> QED
    BY <1>4, <1>5, <1>10, SameWorkers, SameReports DEF QuotaInv, workerVars

LEMMA ReceivesType ==
    ASSUME WorkersOK, NEW m \in QuotaNode, NEW grant \in Tokens, Receives(m, grant)
    PROVE  localQuota' \in [QuotaNode -> UNION {[A -> Count] : A \in SUBSET QuotaAccount}]
  <1> DEFINE held == localQuota[m]
             B == {b \in QuotaAccount : grant[b] > 0} \cup DOMAIN held
             f == [a \in B |-> IF grant[a] > 0 THEN grant[a] ELSE held[a]]
  <1>1. PICK A \in SUBSET QuotaAccount : held \in [A -> Count]
    BY DEF WorkersOK
  <1>2. B \in SUBSET QuotaAccount
    BY <1>1
  <1>3. ASSUME NEW a \in B
        PROVE  f[a] \in Count
    BY <1>1, <1>2 DEF Tokens
  <1>4. localQuota' = [localQuota EXCEPT ![m] = f]
    BY DEF Receives
  <1>5. f \in [B -> Count]
    BY <1>3
  <1> HIDE DEF f, B
  <1>6. f \in UNION {[C -> Count] : C \in SUBSET QuotaAccount}
    BY <1>2, <1>5
  <1> QED
    BY <1>4, <1>6 DEF WorkersOK

LEMMA SendKeeps ==
    ASSUME QuotaInv, NEW n \in QuotaNode, NEW m \in QuotaNode, SendQuotaAllocation(n, m)
    PROVE  QuotaInv'
  <1> DEFINE al == allocation[n]
             sent == [al EXCEPT !.grants[m] = NoTokens]
  <1>1. al \in Allocation /\ Informed(al) /\ al.pc = "account" /\ al.grants[m] \in Tokens
    BY DEF QuotaInv, AllocationsOK, Allocation, SendQuotaAllocation
  <1>2. (Step(n, sent) \/ UNCHANGED allocation) /\ (Receives(m, al.grants[m]) \/ UNCHANGED localQuota)
    BY DEF SendQuotaAllocation
  <1>3. UNCHANGED <<quotaLeader, elections, handling, countVars, counts, taking, reports>>
    BY DEF SendQuotaAllocation, countVars
  <1>4. /\ sent \in Allocation /\ sent.pc = "account"
        /\ sent.node = al.node /\ sent.counts = al.counts /\ sent.usage = al.usage
    <2> DEFINE grants == [al.grants EXCEPT ![m] = NoTokens]
    <2>1. grants \in [QuotaNode -> Tokens]
      BY <1>1, NoTokensAreTokens DEF Allocation
    <2>2. sent = [al EXCEPT !.grants = grants]
      BY <1>1 DEF Allocation
    <2> HIDE DEF grants
    <2> QED
      BY <1>1, <2>1, <2>2 DEF Allocation
  <1> HIDE DEF sent
  <1>5. Informed(sent)
    BY <1>1, <1>4 DEF Informed
  <1>6. AllocationsOK'
    BY <1>2, <1>3, <1>4, <1>5, SameCounts, SameAllocations, OneAllocation DEF QuotaInv
  <1>7. WorkersOK'
    BY <1>1, <1>2, <1>3, ReceivesType DEF QuotaInv, WorkersOK
  <1> QED
    BY <1>3, <1>6, <1>7, SameLeader, SameReports DEF QuotaInv

-----------------------------------------------------------------------------
(* Workers and reports.                                                    *)

LEMMA GetKeeps ==
    ASSUME QuotaInv, NEW n \in QuotaNode, NEW a \in QuotaAccount, GetLocalQuotaRemaining(n, a)
    PROVE  QuotaInv'
  <1>1. WorkersOK'
    BY ExecutionQuotaAssumption DEF GetLocalQuotaRemaining, QuotaInv, WorkersOK
  <1> QED
    BY <1>1, SameLeader, SameAllocations, SameReports DEF GetLocalQuotaRemaining, QuotaInv, countVars

(* Two executions that have read the last token do not both take it.        *)
LEMMA DecrementKeeps ==
    ASSUME QuotaInv, NEW n \in QuotaNode, NEW a \in QuotaAccount, DecrementLocalQuota(n, a)
    PROVE  QuotaInv'
  <1>1. taking' \in [QuotaNode -> [QuotaAccount -> 0..MaxTaken]]
    BY ExecutionQuotaAssumption DEF DecrementLocalQuota, QuotaInv, WorkersOK
  <1>2. localQuota' \in [QuotaNode -> UNION {[A -> Count] : A \in SUBSET QuotaAccount}]
    <2>1. PICK A \in SUBSET QuotaAccount : localQuota[n] \in [A -> Count]
      BY DEF QuotaInv, WorkersOK
    <2>2. CASE HasToken(n, a)
      <3>1. localQuota[n][a] \in Count /\ localQuota[n][a] > 0
        BY <2>1, <2>2 DEF HasToken
      <3>2. localQuota[n][a] - 1 \in Count
        BY <3>1, ExecutionQuotaAssumption DEF Count
      <3> DEFINE f == [localQuota[n] EXCEPT ![a] = @ - 1]
      <3>3. f \in [A -> Count]
        BY <2>1, <3>2
      <3>4. localQuota' = [localQuota EXCEPT ![n] = f]
        BY <2>2 DEF DecrementLocalQuota, QuotaInv, WorkersOK
      <3> HIDE DEF f
      <3> QED
        BY <3>3, <3>4 DEF QuotaInv, WorkersOK
    <2>3. CASE ~HasToken(n, a)
      BY <2>3 DEF DecrementLocalQuota, QuotaInv, WorkersOK
    <2> QED
      BY <2>2, <2>3
  <1>3. WorkersOK'
    BY <1>1, <1>2 DEF WorkersOK
  <1> QED
    BY <1>3, SameLeader, SameAllocations, SameReports DEF DecrementLocalQuota, QuotaInv, countVars

LEMMA ExhaustionKeeps ==
    ASSUME QuotaInv, NEW n \in QuotaNode, NEW a \in QuotaAccount, HandleAccountExhaustion(n, a)
    PROVE  QuotaInv'
  <1>1. LeaderOK'
    BY DEF HandleAccountExhaustion, QuotaInv, LeaderOK, SystemStaysActive
  <1> QED
    BY <1>1, SameWorkers, SameAllocations, SameReports DEF HandleAccountExhaustion, QuotaInv, workerVars

LEMMA CommitExecutionsKeeps ==
    ASSUME QuotaInv, NEW a \in QuotaAccount, CommitExecutions(a)
    PROVE  QuotaInv'
  <1>1. LeaderOK'
    BY ExecutionQuotaAssumption DEF CommitExecutions, QuotaInv, LeaderOK, SystemStaysActive
  <1> QED
    BY <1>1, SameWorkers, SameAllocations, SameReports DEF CommitExecutions, QuotaInv, workerVars

LEMMA CleanupKeeps ==
    ASSUME QuotaInv, NEW a \in QuotaAccount, CleanupOldExecutionLogs(a)
    PROVE  QuotaInv'
  <1>1. LeaderOK'
    BY DEF CleanupOldExecutionLogs, ExceedsLimit, QuotaInv, LeaderOK, SystemStaysActive
  <1> QED
    BY <1>1, SameWorkers, SameAllocations, SameReports DEF CleanupOldExecutionLogs, QuotaInv, workerVars

LEMMA ReportReadKeeps ==
    ASSUME QuotaInv, NEW r \in Reporter, NEW a \in QuotaAccount, ReportRead(r, a)
    PROVE  QuotaInv'
  <1> DEFINE new == [pc |-> IF counts[a] = NoCount THEN "done" ELSE "write", account |-> a,
                     read |-> IF counts[a] = NoCount THEN 0 ELSE counts[a]]
  <1>1. new \in Report /\ new.account = a
    BY ExecutionQuotaAssumption DEF QuotaInv, LeaderOK, MaybeCount, Count, Report
  <1>2. reports' = [reports EXCEPT ![r] = new]
    BY DEF ReportRead
  <1> HIDE DEF new
  <1>3. ReportsOK'
    BY <1>1, <1>2 DEF QuotaInv, ReportsOK
  <1> QED
    BY <1>3, SameLeader, SameWorkers, SameAllocations DEF ReportRead, QuotaInv, countVars, workerVars

LEMMA ReportWriteKeeps ==
    ASSUME QuotaInv, NEW r \in Reporter, ReportWrite(r)
    PROVE  QuotaInv'
  <1> DEFINE a == reports[r].account
             x == Max({reports[r].read, 1}) - 1
  <1>1. a \in QuotaAccount /\ reports[r] \in Report
    BY DEF ReportWrite, QuotaInv, ReportsOK
  <1>2. x \in Count
    <2>1. reports[r].read \in Nat
      BY <1>1 DEF Report, Count
    <2>2. Max({reports[r].read, 1}) = IF reports[r].read >= 1 THEN reports[r].read ELSE 1
      BY <2>1, MaxOfTwo
    <2> QED
      BY <1>1, <2>1, <2>2, ExecutionQuotaAssumption DEF Report, Count
  <1>3. counts' = [counts EXCEPT ![a] = x]
    BY DEF ReportWrite
  <1> HIDE DEF x
  <1>4. LeaderOK' /\ CountsKept
    BY <1>1, <1>2, <1>3, CountWritten DEF ReportWrite, QuotaInv
  <1>5. ReportsOK'
    BY <1>1 DEF ReportWrite, QuotaInv, ReportsOK, Report
  <1> QED
    BY <1>4, <1>5, SameWorkers, AllocationsKept DEF ReportWrite, QuotaInv, workerVars

-----------------------------------------------------------------------------
LEMMA QuotaNextKeeps ==
    ASSUME QuotaInv, ExecutionQuotaNext
    PROVE  QuotaInv'
  BY ElectKeeps, HandleChangeKeeps, ReadAccountsKeeps, FailuresKeep, RereadKeeps, ChargeKeeps,
     ReconcileKeeps, SendKeeps, GetKeeps, DecrementKeeps, ExhaustionKeeps, CommitExecutionsKeeps,
     CleanupKeeps, ReportReadKeeps, ReportWriteKeeps
  DEF ExecutionQuotaNext

LEMMA QuotaInitHolds == ExecutionQuotaInit => QuotaInv
  <1> SUFFICES ASSUME ExecutionQuotaInit
               PROVE  QuotaInv
    OBVIOUS
  <1>1. AllocationsOK
    BY NoTokensAreTokens DEF ExecutionQuotaInit, AllocationsOK, Informed, Charges, NotAllocating
  <1>2. LeaderOK
    BY ExecutionQuotaAssumption
    DEF ExecutionQuotaInit, LeaderOK, MaybeCount, Count, NoTokens, SystemStaysActive
  <1>3. WorkersOK
    <2>1. <<>> \in [{} -> Count]
      OBVIOUS
    <2>2. <<>> \in UNION {[A -> Count] : A \in SUBSET QuotaAccount}
      BY <2>1
    <2>3. NoTokens \in [QuotaAccount -> 0..MaxTaken]
      BY ExecutionQuotaAssumption DEF NoTokens
    <2> QED
      BY <2>2, <2>3 DEF ExecutionQuotaInit, WorkersOK
  <1>4. ReportsOK
    BY ExecutionQuotaAssumption DEF ExecutionQuotaInit, ReportsOK, Report, NotReported, Count
  <1> QED
    BY <1>1, <1>2, <1>3, <1>4 DEF QuotaInv

(* An allocation that charges an account has written a count for it, and    *)
(* grants and reports are computed from counts that were one when they were *)
(* read, however many leaders allocate at once (queue.go:384-560).          *)
THEOREM QuotaInvariant == ExecutionQuotaSpec => []QuotaInv
  <1>1. QuotaInv /\ UNCHANGED executionQuotaVars => QuotaInv'
    BY SameLeader, SameAllocations, SameWorkers, SameReports
    DEF executionQuotaVars, countVars, workerVars, QuotaInv
  <1>2. QuotaInv /\ [ExecutionQuotaNext]_executionQuotaVars => QuotaInv'
    BY <1>1, QuotaNextKeeps
  <1> QED
    BY <1>2, QuotaInitHolds, PTL DEF ExecutionQuotaSpec

(* Counts and quotas are unsigned: whatever a report takes between the     *)
(* reset, the second reading and the charge of an allocation, and however  *)
(* many executions read the last token, nothing goes below zero            *)
(* (queue.go:528-547, executor.go:824-852).                                *)
THEOREM CountsStayUnsigned == ExecutionQuotaSpec => []ExecutionQuotaTypeOK
  <1>1. QuotaInv => ExecutionQuotaTypeOK
    <2> SUFFICES ASSUME QuotaInv, NEW n \in QuotaNode, NEW a \in DOMAIN localQuota[n]
                 PROVE  localQuota[n][a] \in Count
      BY DEF QuotaInv, LeaderOK, WorkersOK, MaybeCount, ExecutionQuotaTypeOK
    <2>1. PICK A \in SUBSET QuotaAccount : localQuota[n] \in [A -> Count]
      BY DEF QuotaInv, WorkersOK
    <2> QED
      BY <2>1
  <1> QED
    BY <1>1, QuotaInvariant, PTL

(* The jobs of the system account are never made inactive for want of      *)
(* quota (queue.go:465-485, executor.go:1118,                              *)
(* job_execution_log_service.go:122-138).                                  *)
THEOREM SystemKeepsItsJobs == ExecutionQuotaSpec => []SystemStaysActive
  <1>1. QuotaInv => SystemStaysActive
    BY DEF QuotaInv, LeaderOK
  <1> QED
    BY <1>1, QuotaInvariant, PTL

-----------------------------------------------------------------------------
(* The tokens of an account.                                               *)

(* Whether what ExecutionsPaid says of account a is claimed.                *)
Clean(a) == a \notin unpaid /\ \A r \in Reporter : reports[r].account # a

(* What an account has left: all of its limit while it has no count.        *)
Left(a) == IF counts[a] = NoCount THEN Limit ELSE counts[a]

(* A grant is outstanding once it has been charged, until it is sent.       *)
Pending(al, m, a) == /\ al.pc \in {"reread", "charge"}
                     /\ al.account = a /\ al.node[a] = m
Unsettled(al, m, a) == IF Pending(al, m, a) THEN 0 ELSE al.grants[m][a]
Held(quota, a) == IF a \in DOMAIN quota THEN quota[a] ELSE 0

(* The places tokens may lie in: <<n, 0>> is the local quota of n, <<n, m>> *)
(* what an allocation of n has granted m; and the tokens that lie in them.  *)
Places == QuotaNode \X (QuotaNode \cup {0})
Piles(allocations, quotas, a) ==
    [p \in Places |-> IF p[2] = 0 THEN Held(quotas[p[1]], a) ELSE Unsettled(allocations[p[1]], p[2], a)]
TokensOf(piles) == {t \in Places \X (1 .. Limit + SystemLimit) : t[2] <= piles[t[1]]}
Afloat(a) == Cardinality(TokensOf(Piles(allocation, localQuota, a)))

(* The allocation of the leader, while no other election has been held.     *)
Current(n) ==
    /\ n = quotaLeader /\ allocation[n].term = elections
    /\ allocation[n].pc \in {"account", "reread", "charge"}

(* It works on copies that are still true, and grants what is there.        *)
UpToDate(al, a) ==
    /\ a \in al.todo => al.counts[a] = counts[a]
    /\ al.pc \in {"reread", "charge"} /\ al.account = a =>
         /\ a \notin al.todo /\ counts[a] \in Count
         /\ Granted(al) <= counts[a]
         /\ al.pc = "charge" => al.read = counts[a]

AccountPaid(a) ==
    /\ spent[a] + Afloat(a) + Left(a) <= Limit
    /\ \A n \in QuotaNode : Current(n) => UpToDate(allocation[n], a)

PaidInv ==
    /\ spent \in [QuotaAccount -> Nat]
    /\ \A n \in QuotaNode : allocation[n].term <= elections
    /\ \A r \in Reporter : reports[r].pc = "new" => reports[r].account = 0
    /\ \A a \in QuotaAccount \ {SystemAccount} : Clean(a) => AccountPaid(a)

-----------------------------------------------------------------------------
(* Counting the tokens that lie in places.                                 *)

TokenBound == Limit + SystemLimit
PilesType == [Places -> 0 .. TokenBound]

(* The tokens in one place, and those in all others.                        *)
Pile(p, k) == {t \in {p} \X (1 .. TokenBound) : t[2] <= k}
Elsewhere(piles, p) == {t \in TokensOf(piles) : t[1] # p}

LEMMA PlacesFinite ==
    IsFiniteSet(Places) /\ IsFiniteSet(Places \X (1 .. TokenBound))
  <1>1. TokenBound \in Nat /\ IsFiniteSet(QuotaNode)
    BY ExecutionQuotaAssumption DEF TokenBound
  <1>2. IsFiniteSet(QuotaNode \cup {0}) /\ IsFiniteSet(1 .. TokenBound)
    BY <1>1, FS_AddElement, FS_Interval
  <1>3. IsFiniteSet(Places)
    BY <1>1, <1>2, FS_Product DEF Places
  <1> QED
    BY <1>2, <1>3, FS_Product

LEMMA PileSize ==
    ASSUME NEW p, NEW k \in 0 .. TokenBound
    PROVE  IsFiniteSet(Pile(p, k)) /\ Cardinality(Pile(p, k)) = k
  <1> DEFINE f == [i \in 1 .. k |-> <<p, i>>]
  <1>1. TokenBound \in Nat /\ k \in Nat /\ k <= TokenBound
    BY ExecutionQuotaAssumption DEF TokenBound
  <1>2. f \in [1 .. k -> Pile(p, k)]
    BY <1>1 DEF Pile
  <1>3. \A i, j \in 1 .. k : f[i] = f[j] => i = j
    OBVIOUS
  <1>4. ASSUME NEW t \in Pile(p, k) PROVE \E i \in 1 .. k : f[i] = t
    <2>1. t \in {p} \X (1 .. TokenBound) /\ t[2] <= k
      BY <1>4 DEF Pile
    <2>2. t = <<p, t[2]>> /\ t[2] \in 1 .. k
      BY <1>1, <2>1
    <2> QED
      BY <2>2
  <1> HIDE DEF f
  <1>5. f \in Bijection(1 .. k, Pile(p, k))
    BY <1>2, <1>3, <1>4 DEF Bijection, Injection, Surjection, IsInjective
  <1>6. IsFiniteSet(1 .. k) /\ Cardinality(1 .. k) = k
    BY <1>1, FS_Interval
  <1> QED
    BY <1>5, <1>6, FS_Bijection DEF ExistsBijection

LEMMA TokensCounted ==
    ASSUME NEW piles \in PilesType
    PROVE  IsFiniteSet(TokensOf(piles)) /\ Cardinality(TokensOf(piles)) \in Nat
  <1>1. TokensOf(piles) \in SUBSET (Places \X (1 .. TokenBound))
    BY DEF TokensOf, TokenBound
  <1> QED
    BY <1>1, PlacesFinite, FS_Subset, FS_CardinalityType

(* The tokens of all places are those of one and those elsewhere.           *)
LEMMA TokensSplit ==
    ASSUME NEW piles \in PilesType, NEW p \in Places
    PROVE  /\ Cardinality(Elsewhere(piles, p)) \in Nat
           /\ Cardinality(TokensOf(piles)) = Cardinality(Elsewhere(piles, p)) + piles[p]
  <1>1. piles[p] \in 0 .. TokenBound
    BY DEF PilesType
  <1>2. IsFiniteSet(Elsewhere(piles, p)) /\ Cardinality(Elsewhere(piles, p)) \in Nat
    <2>1. Elsewhere(piles, p) \in SUBSET TokensOf(piles)
      BY DEF Elsewhere
    <2> QED
      BY <2>1, TokensCounted, FS_Subset, FS_CardinalityType
  <1>3. IsFiniteSet(Pile(p, piles[p])) /\ Cardinality(Pile(p, piles[p])) = piles[p]
    BY <1>1, PileSize
  <1>4. TokensOf(piles) = Elsewhere(piles, p) \cup Pile(p, piles[p])
    <2>1. ASSUME NEW t PROVE t \in Pile(p, piles[p]) <=> t \in TokensOf(piles) /\ t[1] = p
      BY DEF Pile, TokensOf, TokenBound
    <2> QED
      BY <2>1 DEF Elsewhere
  <1>5. Elsewhere(piles, p) \cap Pile(p, piles[p]) = {}
    BY DEF Elsewhere, Pile
  <1> DEFINE A == Elsewhere(piles, p)
             B == Pile(p, piles[p])
  <1> HIDE DEF A, B
  <1>6. IsFiniteSet(A) /\ IsFiniteSet(B) /\ A \cap B = {}
    BY <1>2, <1>3, <1>5 DEF A, B
  <1>7. Cardinality(A \cup B) = Cardinality(A) + Cardinality(B) - Cardinality(A \cap B)
    BY <1>6, FS_Union
  <1>8. Cardinality(A \cap B) = 0
    BY <1>6, FS_EmptySet
  <1>9. Cardinality(A \cup B) = Cardinality(TokensOf(piles)) /\ Cardinality(A) = Cardinality(Elsewhere(piles, p))
        /\ Cardinality(B) = piles[p]
    BY <1>3, <1>4 DEF A, B
  <1> QED
    BY <1>1, <1>2, <1>7, <1>8, <1>9

(* Tokens that are put in one place, and taken from the others or left.     *)
LEMMA OnePile ==
    ASSUME NEW old \in PilesType, NEW new \in PilesType, NEW p \in Places,
           \A r \in Places \ {p} : new[r] <= old[r]
    PROVE  Cardinality(TokensOf(new)) <= Cardinality(TokensOf(old)) + new[p] - old[p]
  <1>1. \A r \in Places : old[r] \in Nat /\ new[r] \in Nat
    BY DEF PilesType
  <1>2. Elsewhere(new, p) \subseteq Elsewhere(old, p)
    <2>1. ASSUME NEW t \in Elsewhere(new, p) PROVE t \in Elsewhere(old, p)
      <3>1. t \in Places \X (1 .. TokenBound) /\ t[1] # p /\ t[2] <= new[t[1]]
        BY <2>1 DEF Elsewhere, TokensOf, TokenBound
      <3>2. t[1] \in Places \ {p} /\ t[2] \in Nat
        BY <3>1
      <3>3. t[2] <= old[t[1]]
        BY <1>1, <3>1, <3>2
      <3> QED
        BY <3>1, <3>3 DEF Elsewhere, TokensOf, TokenBound
    <2> QED
      BY <2>1
  <1>3. IsFiniteSet(Elsewhere(old, p))
    <2>1. Elsewhere(old, p) \in SUBSET TokensOf(old)
      BY DEF Elsewhere
    <2> QED
      BY <2>1, TokensCounted, FS_Subset
  <1>4. Cardinality(Elsewhere(new, p)) <= Cardinality(Elsewhere(old, p))
    BY <1>2, <1>3, FS_Subset
  <1> QED
    BY <1>1, <1>4, TokensSplit

LEMMA FewerTokens ==
    ASSUME NEW old \in PilesType, NEW new \in PilesType, \A p \in Places : new[p] <= old[p]
    PROVE  Cardinality(TokensOf(new)) <= Cardinality(TokensOf(old))
  <1>1. \A r \in Places : old[r] \in Nat /\ new[r] \in Nat
    BY DEF PilesType
  <1>2. ASSUME NEW t \in TokensOf(new) PROVE t \in TokensOf(old)
    <2>1. t \in Places \X (1 .. TokenBound) /\ t[2] <= new[t[1]]
      BY <1>2 DEF TokensOf, TokenBound
    <2>2. t[1] \in Places /\ t[2] \in Nat
      BY <2>1
    <2>3. t[2] <= old[t[1]]
      BY <1>1, <2>1, <2>2
    <2> QED
      BY <2>1, <2>3 DEF TokensOf, TokenBound
  <1>3. TokensOf(new) \in SUBSET TokensOf(old)
    BY <1>2
  <1> QED
    BY <1>3, TokensCounted, FS_Subset

-----------------------------------------------------------------------------
(* The tokens of one account before and after a step.                      *)

Quotas == [QuotaNode -> UNION {[A -> Count] : A \in SUBSET QuotaAccount}]

LEMMA PilesTyped ==
    ASSUME NEW allocations \in [QuotaNode -> Allocation], NEW quotas \in Quotas, NEW a \in QuotaAccount
    PROVE  /\ Piles(allocations, quotas, a) \in PilesType
           /\ \A n \in QuotaNode : Held(quotas[n], a) \in 0 .. TokenBound
           /\ \A n, m \in QuotaNode : Unsettled(allocations[n], m, a) \in 0 .. TokenBound
           /\ \A n \in QuotaNode : <<n, 0>> \in Places /\ Piles(allocations, quotas, a)[<<n, 0>>] = Held(quotas[n], a)
           /\ \A n, m \in QuotaNode :
                <<n, m>> \in Places /\ Piles(allocations, quotas, a)[<<n, m>>] = Unsettled(allocations[n], m, a)
  <1>1. 0 \in 0 .. TokenBound /\ Count = 0 .. TokenBound
    BY ExecutionQuotaAssumption DEF TokenBound, Count
  <1>2. ASSUME NEW n \in QuotaNode PROVE Held(quotas[n], a) \in 0 .. TokenBound
    <2>1. PICK A \in SUBSET QuotaAccount : quotas[n] \in [A -> Count]
      BY DEF Quotas
    <2> QED
      BY <1>1, <2>1 DEF Held
  <1>3. ASSUME NEW n \in QuotaNode, NEW m \in QuotaNode
        PROVE  Unsettled(allocations[n], m, a) \in 0 .. TokenBound
    <2>1. allocations[n].grants[m][a] \in Count
      BY DEF Allocation, Tokens
    <2> QED
      BY <1>1, <2>1 DEF Unsettled
  <1>4. \A n, m \in QuotaNode : <<n, 0>> \in Places /\ <<n, m>> \in Places /\ m # 0
    BY ExecutionQuotaAssumption DEF Places
  <1>5. ASSUME NEW p \in Places PROVE Piles(allocations, quotas, a)[p] \in 0 .. TokenBound
    <2>1. p[1] \in QuotaNode /\ (p[2] = 0 \/ p[2] \in QuotaNode)
      BY DEF Places
    <2> QED
      BY <1>2, <1>3, <2>1 DEF Piles
  <1>6. Piles(allocations, quotas, a) = [p \in Places |-> Piles(allocations, quotas, a)[p]]
    BY DEF Piles
  <1> QED
    BY <1>2, <1>3, <1>4, <1>5, <1>6 DEF Piles, PilesType

LEMMA Typed ==
    ASSUME QuotaInv
    PROVE  allocation \in [QuotaNode -> Allocation] /\ localQuota \in Quotas
  BY DEF QuotaInv, AllocationsOK, WorkersOK, Quotas

LEMMA UnsettledIsCount ==
    ASSUME QuotaInv, NEW a \in QuotaAccount, NEW n \in QuotaNode, NEW m \in QuotaNode
    PROVE  Unsettled(allocation[n], m, a) \in Nat /\ allocation[n].grants[m][a] \in Nat
  <1>1. allocation[n].grants[m][a] \in Count
    BY DEF QuotaInv, AllocationsOK, Allocation, Tokens
  <1>2. Unsettled(allocation[n], m, a) \in 0 .. TokenBound
    BY Typed, PilesTyped
  <1> QED
    BY <1>1, <1>2, ExecutionQuotaAssumption DEF TokenBound, Count

LEMMA TypedAfter ==
    ASSUME QuotaInv'
    PROVE  allocation' \in [QuotaNode -> Allocation] /\ localQuota' \in Quotas
  BY DEF QuotaInv, AllocationsOK, WorkersOK, Quotas

LEMMA FewerAfloat ==
    ASSUME QuotaInv, QuotaInv', NEW a \in QuotaAccount,
           \A n \in QuotaNode : Held(localQuota'[n], a) <= Held(localQuota[n], a),
           \A n, m \in QuotaNode : Unsettled(allocation'[n], m, a) <= Unsettled(allocation[n], m, a)
    PROVE  Afloat(a)' <= Afloat(a)
  <1> DEFINE old == Piles(allocation, localQuota, a)
             new == Piles(allocation', localQuota', a)
  <1>1. old \in PilesType /\ new \in PilesType
    BY Typed, TypedAfter, PilesTyped
  <1>2. ASSUME NEW p \in Places PROVE new[p] <= old[p]
    <2>1. p[1] \in QuotaNode /\ (p[2] = 0 \/ p[2] \in QuotaNode)
      BY DEF Places
    <2>2. new[p] = (IF p[2] = 0 THEN Held(localQuota'[p[1]], a) ELSE Unsettled(allocation'[p[1]], p[2], a))
      BY DEF Piles
    <2>3. old[p] = (IF p[2] = 0 THEN Held(localQuota[p[1]], a) ELSE Unsettled(allocation[p[1]], p[2], a))
      BY DEF Piles
    <2> QED
      BY <2>1, <2>2, <2>3
  <1> HIDE DEF old, new
  <1>3. Cardinality(TokensOf(new)) <= Cardinality(TokensOf(old))
    BY <1>1, <1>2, FewerTokens
  <1> QED
    BY <1>3 DEF Afloat, old, new

LEMMA SameAfloat ==
    ASSUME UNCHANGED <<allocation, localQuota>>, NEW a
    PROVE  Afloat(a)' = Afloat(a)
  BY DEF Afloat

(* What a step may do to an account whose claim stands.                     *)
Conserved(a) == spent'[a] + Afloat(a)' + Left(a)' <= spent[a] + Afloat(a) + Left(a)
StillUpToDate(a) == \A n \in QuotaNode : Current(n)' => UpToDate(allocation[n], a)'

LEMMA Numbers ==
    ASSUME QuotaInv, PaidInv, NEW a \in QuotaAccount
    PROVE  Afloat(a) \in Nat /\ Left(a) \in Nat /\ spent[a] \in Nat
  <1>1. Afloat(a) \in Nat
    BY Typed, PilesTyped, TokensCounted DEF Afloat
  <1>2. Left(a) \in Nat
    BY ExecutionQuotaAssumption DEF Left, QuotaInv, LeaderOK, MaybeCount, Count
  <1> QED
    BY <1>1, <1>2 DEF PaidInv

LEMMA NumbersAfter ==
    ASSUME QuotaInv', NEW a \in QuotaAccount
    PROVE  Afloat(a)' \in Nat /\ Left(a)' \in Nat
  <1>1. Cardinality(TokensOf(Piles(allocation', localQuota', a))) \in Nat
    BY TypedAfter, PilesTyped, TokensCounted
  <1>2. Left(a)' \in Nat
    BY ExecutionQuotaAssumption DEF Left, QuotaInv, LeaderOK, MaybeCount, Count
  <1> QED
    BY <1>1, <1>2 DEF Afloat

(* Nothing is spent and nothing is charged.                                 *)
LEMMA NothingSpent ==
    ASSUME QuotaInv, QuotaInv', PaidInv, NEW a \in QuotaAccount,
           Afloat(a)' <= Afloat(a), UNCHANGED spent, counts'[a] = counts[a]
    PROVE  Conserved(a)
  BY Numbers, NumbersAfter DEF Conserved, Left

(* A step of one allocation leaves the others as they are.                  *)
LEMMA OthersUpToDate ==
    ASSUME NEW a, AccountPaid(a), NEW n \in QuotaNode,
           UNCHANGED <<quotaLeader, elections>>, counts'[a] = counts[a],
           \A m \in QuotaNode \ {n} : allocation'[m] = allocation[m],
           Current(n)' => UpToDate(allocation[n], a)'
    PROVE  StillUpToDate(a)
  <1>1. ASSUME NEW m \in QuotaNode, Current(m)', m # n
        PROVE  UpToDate(allocation[m], a)'
    <2>1. Current(m) /\ allocation'[m] = allocation[m]
      BY <1>1 DEF Current
    <2>2. UpToDate(allocation[m], a)
      BY <2>1 DEF AccountPaid
    <2> QED
      BY <2>1, <2>2 DEF UpToDate
  <1> QED
    BY <1>1 DEF StillUpToDate

-----------------------------------------------------------------------------
(* Leadership, workers and reports.                                        *)

LEMMA QuietPaid ==
    ASSUME QuotaInv, QuotaInv', PaidInv, NEW a \in QuotaAccount, AccountPaid(a),
           UNCHANGED <<quotaLeader, elections, allocation, localQuota, spent>>, counts'[a] = counts[a]
    PROVE  Conserved(a) /\ StillUpToDate(a)
  <1>1. Afloat(a)' <= Afloat(a)
    BY SameAfloat, Numbers
  <1>2. ASSUME NEW n \in QuotaNode, Current(n)' PROVE UpToDate(allocation[n], a)'
    <2>1. Current(n)
      BY <1>2 DEF Current
    <2>2. UpToDate(allocation[n], a)
      BY <2>1 DEF AccountPaid
    <2> QED
      BY <2>2 DEF UpToDate
  <1> QED
    BY <1>1, <1>2, NothingSpent DEF StillUpToDate

LEMMA ElectPaid ==
    ASSUME QuotaInv, QuotaInv', PaidInv, NEW a \in QuotaAccount, AccountPaid(a),
           NEW n \in QuotaNode, Elect(n)
    PROVE  Conserved(a) /\ StillUpToDate(a)
  <1>1. /\ UNCHANGED <<allocation, localQuota, spent, counts>>
        /\ elections' = elections + 1
    BY DEF Elect, countVars, workerVars
  <1>2. Afloat(a)' <= Afloat(a)
    BY <1>1, SameAfloat, Numbers
  <1>3. ASSUME NEW m \in QuotaNode PROVE ~Current(m)'
    <2>1. allocation[m].term <= elections /\ allocation[m].term \in Int /\ elections \in Int
      BY DEF PaidInv, QuotaInv, LeaderOK, AllocationsOK, Allocation
    <2> QED
      BY <1>1, <2>1 DEF Current
  <1> QED
    BY <1>1, <1>2, <1>3, NothingSpent DEF StillUpToDate

LEMMA HandleChangePaid ==
    ASSUME QuotaInv, QuotaInv', PaidInv, NEW a \in QuotaAccount, AccountPaid(a),
           NEW n \in QuotaNode, HandleChange(n)
    PROVE  Conserved(a) /\ StillUpToDate(a)
  <1>1. /\ UNCHANGED <<quotaLeader, elections, spent, counts>>
        /\ localQuota' = [localQuota EXCEPT ![n] = <<>>]
        /\ allocation[n].pc = "idle"
        /\ allocation' = allocation \/ allocation' = [allocation EXCEPT ![n].pc = "read"]
    BY DEF HandleChange, countVars
  <1>2. allocation[n] \in Allocation /\ allocation \in [QuotaNode -> Allocation]
    BY DEF QuotaInv, AllocationsOK
  <1>3. /\ \A m \in QuotaNode \ {n} : allocation'[m] = allocation[m]
        /\ allocation'[n].pc \in {"idle", "read"} /\ allocation'[n].grants = allocation[n].grants
    BY <1>1, <1>2 DEF Allocation
  <1>4. ASSUME NEW l \in QuotaNode, NEW m \in QuotaNode
        PROVE  Unsettled(allocation'[l], m, a) <= Unsettled(allocation[l], m, a)
    <2>1. Unsettled(allocation[l], m, a) \in Nat
      BY UnsettledIsCount
    <2>2. CASE l = n
      BY <1>1, <1>3, <2>1, <2>2 DEF Unsettled, Pending
    <2>3. CASE l # n
      BY <1>3, <2>1, <2>3
    <2> QED
      BY <2>2, <2>3
  <1>5. ASSUME NEW l \in QuotaNode
        PROVE  Held(localQuota'[l], a) <= Held(localQuota[l], a)
    <2>1. Held(localQuota[l], a) \in Nat
      BY Typed, PilesTyped, ExecutionQuotaAssumption DEF TokenBound
    <2>2. localQuota'[l] = IF l = n THEN <<>> ELSE localQuota[l]
      BY <1>1 DEF QuotaInv, WorkersOK
    <2>3. Held(<<>>, a) = 0
      BY ExecutionQuotaAssumption DEF Held
    <2> QED
      BY <2>1, <2>2, <2>3
  <1>6. Afloat(a)' <= Afloat(a)
    BY <1>4, <1>5, FewerAfloat
  <1>7. ~Current(n)'
    BY <1>3 DEF Current
  <1> QED
    BY <1>1, <1>3, <1>6, <1>7, NothingSpent, OthersUpToDate

LEMMA DecrementPaid ==
    ASSUME QuotaInv, QuotaInv', PaidInv, NEW a \in QuotaAccount, AccountPaid(a),
           NEW n \in QuotaNode, NEW b \in QuotaAccount, DecrementLocalQuota(n, b)
    PROVE  Conserved(a) /\ StillUpToDate(a)
  <1>1. UNCHANGED <<quotaLeader, elections, allocation, counts>>
    BY DEF DecrementLocalQuota, countVars
  <1>2. CASE UNCHANGED <<localQuota, spent>>
    BY <1>1, <1>2, QuietPaid
  <1>3. CASE HasToken(n, b)
    <2> DEFINE old == Piles(allocation, localQuota, a)
               new == Piles(allocation', localQuota', a)
    <2>1. /\ localQuota' = [localQuota EXCEPT ![n][b] = @ - 1]
          /\ spent' = [spent EXCEPT ![b] = @ + 1]
      BY <1>3 DEF DecrementLocalQuota
    <2>2. spent \in [QuotaAccount -> Nat]
      BY DEF PaidInv
    <2>3. PICK A \in SUBSET QuotaAccount : localQuota[n] \in [A -> Count]
      BY DEF QuotaInv, WorkersOK
    <2>4. localQuota \in Quotas
      BY Typed
    <2>5. \A m \in QuotaNode : localQuota'[m] = IF m = n THEN [localQuota[n] EXCEPT ![b] = @ - 1] ELSE localQuota[m]
      BY <2>1, <2>4 DEF Quotas
    <2>6. /\ Held(localQuota'[n], a) = IF a = b THEN Held(localQuota[n], a) - 1 ELSE Held(localQuota[n], a)
          /\ \A m \in QuotaNode \ {n} : Held(localQuota'[m], a) = Held(localQuota[m], a)
      BY <1>3, <2>3, <2>5 DEF Held, HasToken
    <2>7. old \in PilesType /\ new \in PilesType /\ <<n, 0>> \in Places
      BY Typed, TypedAfter, PilesTyped
    <2>8. ASSUME NEW p \in Places \ {<<n, 0>>} PROVE new[p] = old[p]
      <3>1. p \in Places /\ p[1] \in QuotaNode /\ (p[2] = 0 => p[1] # n)
        BY DEF Places
      <3>2. new[p] = (IF p[2] = 0 THEN Held(localQuota'[p[1]], a) ELSE Unsettled(allocation'[p[1]], p[2], a))
        BY <3>1 DEF Piles
      <3>3. old[p] = (IF p[2] = 0 THEN Held(localQuota[p[1]], a) ELSE Unsettled(allocation[p[1]], p[2], a))
        BY <3>1 DEF Piles
      <3> QED
        BY <1>1, <2>6, <3>1, <3>2, <3>3
    <2>9. new[<<n, 0>>] = Held(localQuota'[n], a) /\ old[<<n, 0>>] = Held(localQuota[n], a)
      BY Typed, TypedAfter, PilesTyped
    <2>10. Afloat(a)' = Cardinality(TokensOf(new)) /\ Afloat(a) = Cardinality(TokensOf(old))
      BY DEF Afloat
    <2> HIDE DEF old, new
    <2>11. \A p \in Places \ {<<n, 0>>} : new[p] <= old[p]
      BY <2>7, <2>8 DEF PilesType
    <2>12. Afloat(a)' <= Afloat(a) + new[<<n, 0>>] - old[<<n, 0>>]
      BY <2>7, <2>10, <2>11, OnePile
    <2>13. Held(localQuota[n], a) \in Int
      BY Typed, PilesTyped
    <2>14. spent'[a] = IF a = b THEN spent[a] + 1 ELSE spent[a]
      BY <2>1, <2>2
    <2>15. Left(a)' = Left(a)
      BY <1>1 DEF Left
    <2>16. Conserved(a)
      BY <2>6, <2>9, <2>12, <2>13, <2>14, <2>15, Numbers, NumbersAfter DEF Conserved
    <2>17. Current(n)' => UpToDate(allocation[n], a)'
      BY <1>1 DEF Current, AccountPaid, UpToDate
    <2> QED
      BY <1>1, <2>16, <2>17, OthersUpToDate
  <1> QED
    BY <1>2, <1>3 DEF DecrementLocalQuota

-----------------------------------------------------------------------------
(* Allocations.                                                            *)

(* One allocation moves on, and no quota changes.                           *)
LEMMA AllocationMoves ==
    ASSUME QuotaInv, QuotaInv', NEW a \in QuotaAccount, NEW n \in QuotaNode, NEW al,
           Step(n, al), UNCHANGED localQuota,
           \A m \in QuotaNode : Unsettled(al, m, a) <= Unsettled(allocation[n], m, a)
    PROVE  /\ allocation'[n] = al /\ \A m \in QuotaNode \ {n} : allocation'[m] = allocation[m]
           /\ Afloat(a)' <= Afloat(a)
  <1>1. allocation'[n] = al /\ \A m \in QuotaNode \ {n} : allocation'[m] = allocation[m]
    BY DEF Step, QuotaInv, AllocationsOK
  <1>2. ASSUME NEW l \in QuotaNode, NEW m \in QuotaNode
        PROVE  Unsettled(allocation'[l], m, a) <= Unsettled(allocation[l], m, a)
    <2>1. Unsettled(allocation[l], m, a) \in Nat
      BY UnsettledIsCount
    <2> QED
      BY <1>1, <2>1
  <1>3. ASSUME NEW l \in QuotaNode
        PROVE  Held(localQuota'[l], a) <= Held(localQuota[l], a)
    <2>1. Held(localQuota[l], a) \in Nat
      BY Typed, PilesTyped, ExecutionQuotaAssumption DEF TokenBound
    <2> QED
      BY <2>1
  <1> QED
    BY <1>1, <1>2, <1>3, FewerAfloat

LEMMA ReadAccountsPaid ==
    ASSUME QuotaInv, QuotaInv', PaidInv, NEW c \in QuotaAccount, AccountPaid(c),
           NEW n \in QuotaNode, ReadAccounts(n)
    PROVE  Conserved(c) /\ StillUpToDate(c)
  <1>1. UNCHANGED <<quotaLeader, elections, counts, localQuota, spent>> /\ allocation[n].pc = "read"
    BY DEF ReadAccounts, countVars, workerVars
  <1>2. PICK workers \in SetToSeqs(QuotaNode \ {quotaLeader}) :
            Step(n, [allocation[n] EXCEPT !.pc = "account", !.term = elections, !.todo = QuotaAccount,
                       !.node = [a \in QuotaAccount |-> workers[(a % Len(workers)) + 1]],
                       !.counts = counts, !.usage = usage])
    BY Zenon DEF ReadAccounts
  <1> DEFINE spread == [a \in QuotaAccount |-> workers[(a % Len(workers)) + 1]]
             al == [allocation[n] EXCEPT !.pc = "account", !.term = elections, !.todo = QuotaAccount,
                      !.node = spread, !.counts = counts, !.usage = usage]
  <1>3. Step(n, al)
    BY <1>2
  <1> HIDE DEF spread
  <1>4. allocation[n] \in Allocation
    BY DEF QuotaInv, AllocationsOK
  <1>5. al.pc = "account" /\ al.counts = counts /\ al.grants = allocation[n].grants
    BY <1>4 DEF Allocation
  <1> HIDE DEF al
  <1>6. ASSUME NEW m \in QuotaNode PROVE Unsettled(al, m, c) <= Unsettled(allocation[n], m, c)
    BY <1>1, <1>5, UnsettledIsCount DEF Unsettled, Pending
  <1>7. /\ allocation'[n] = al /\ \A m \in QuotaNode \ {n} : allocation'[m] = allocation[m]
        /\ Afloat(c)' <= Afloat(c)
    BY <1>1, <1>3, <1>6, AllocationMoves
  <1>8. UpToDate(allocation[n], c)'
    BY <1>1, <1>5, <1>7 DEF UpToDate
  <1> QED
    BY <1>1, <1>7, <1>8, NothingSpent, OthersUpToDate

LEMMA GivesUpPaid ==
    ASSUME QuotaInv, QuotaInv', PaidInv, NEW a \in QuotaAccount, AccountPaid(a),
           NEW n \in QuotaNode, ReconcileFails(n) \/ AllocationEnds(n)
    PROVE  Conserved(a) /\ StillUpToDate(a)
  <1>1. UNCHANGED <<quotaLeader, elections, counts, localQuota, spent>> /\ Step(n, NotAllocating)
    BY DEF ReconcileFails, AllocationEnds, countVars, workerVars
  <1>2. NotAllocating.pc = "idle" /\ \A m \in QuotaNode : NotAllocating.grants[m][a] = 0
    BY DEF NotAllocating, NoTokens
  <1> HIDE DEF NotAllocating
  <1>3. ASSUME NEW m \in QuotaNode PROVE Unsettled(NotAllocating, m, a) <= Unsettled(allocation[n], m, a)
    BY <1>2, UnsettledIsCount DEF Unsettled
  <1>4. /\ allocation'[n] = NotAllocating /\ \A m \in QuotaNode \ {n} : allocation'[m] = allocation[m]
        /\ Afloat(a)' <= Afloat(a)
    BY <1>1, <1>3, AllocationMoves
  <1>5. ~Current(n)'
    BY <1>2, <1>4 DEF Current
  <1> QED
    BY <1>1, <1>4, <1>5, NothingSpent, OthersUpToDate

LEMMA RereadPaid ==
    ASSUME QuotaInv, QuotaInv', PaidInv, NEW a \in QuotaAccount, AccountPaid(a),
           NEW n \in QuotaNode, Reread(n)
    PROVE  Conserved(a) /\ StillUpToDate(a)
  <1> DEFINE read == counts[allocation[n].account]
             al == [allocation[n] EXCEPT !.pc = "charge", !.read = read]
  <1>1. UNCHANGED <<quotaLeader, elections, counts, localQuota, spent>> /\ allocation[n].pc = "reread" /\ Step(n, al)
    BY DEF Reread, countVars, workerVars
  <1>2. allocation[n] \in Allocation
    BY DEF QuotaInv, AllocationsOK
  <1> HIDE DEF read
  <1>3. /\ al.pc = "charge" /\ al.read = read /\ al.counts = allocation[n].counts /\ al.todo = allocation[n].todo
        /\ al.grants = allocation[n].grants /\ al.node = allocation[n].node /\ al.account = allocation[n].account
        /\ al.term = allocation[n].term
    BY <1>2 DEF Allocation
  <1> HIDE DEF al
  <1>4. ASSUME NEW m \in QuotaNode PROVE Unsettled(al, m, a) <= Unsettled(allocation[n], m, a)
    <2>1. Unsettled(al, m, a) = Unsettled(allocation[n], m, a)
      BY <1>1, <1>3 DEF Unsettled, Pending
    <2> QED
      BY <2>1, UnsettledIsCount
  <1>5. /\ allocation'[n] = al /\ \A m \in QuotaNode \ {n} : allocation'[m] = allocation[m]
        /\ Afloat(a)' <= Afloat(a)
    BY <1>1, <1>4, AllocationMoves
  <1>6. ASSUME Current(n)' PROVE UpToDate(allocation[n], a)'
    <2>1. Current(n)
      BY <1>1, <1>3, <1>5, <1>6 DEF Current
    <2>2. UpToDate(allocation[n], a)
      BY <2>1 DEF AccountPaid
    <2>3. Granted(al) = Granted(allocation[n])
      BY <1>3 DEF Granted
    <2>4. allocation[n].account = a => read = counts[a]
      BY DEF read
    <2> QED
      BY <1>1, <1>3, <1>5, <2>2, <2>3, <2>4 DEF UpToDate
  <1> QED
    BY <1>1, <1>5, <1>6, NothingSpent, OthersUpToDate

(* The count of an account is written; of another one than a, or its grant  *)
(* is given up.                                                             *)
LEMMA NextAccountPaid ==
    ASSUME QuotaInv, QuotaInv', PaidInv, NEW a \in QuotaAccount, AccountPaid(a),
           NEW n \in QuotaNode, allocation[n].pc \in {"reread", "charge"}, allocation[n].account # a,
           Step(n, [allocation[n] EXCEPT !.pc = "account"]),
           UNCHANGED <<quotaLeader, elections, localQuota, spent>>, counts'[a] = counts[a]
    PROVE  Conserved(a) /\ StillUpToDate(a)
  <1> DEFINE al == [allocation[n] EXCEPT !.pc = "account"]
  <1>1. Step(n, al)
    OBVIOUS
  <1>2. allocation[n] \in Allocation
    BY DEF QuotaInv, AllocationsOK
  <1>3. /\ al.pc = "account" /\ al.counts = allocation[n].counts /\ al.todo = allocation[n].todo
        /\ al.grants = allocation[n].grants /\ al.term = allocation[n].term
    BY <1>2 DEF Allocation
  <1> HIDE DEF al
  <1>4. ASSUME NEW m \in QuotaNode PROVE Unsettled(al, m, a) <= Unsettled(allocation[n], m, a)
    <2>1. Unsettled(al, m, a) = Unsettled(allocation[n], m, a)
      BY <1>3 DEF Unsettled, Pending
    <2> QED
      BY <2>1, UnsettledIsCount
  <1>5. /\ allocation'[n] = al /\ \A m \in QuotaNode \ {n} : allocation'[m] = allocation[m]
        /\ Afloat(a)' <= Afloat(a)
    BY <1>1, <1>4, AllocationMoves
  <1>6. ASSUME Current(n)' PROVE UpToDate(allocation[n], a)'
    <2>1. Current(n)
      BY <1>3, <1>5, <1>6 DEF Current
    <2>2. UpToDate(allocation[n], a)
      BY <2>1 DEF AccountPaid
    <2> QED
      BY <1>3, <1>5, <2>2 DEF UpToDate
  <1> QED
    BY <1>5, <1>6, NothingSpent, OthersUpToDate

LEMMA ChargeFailsPaid ==
    ASSUME QuotaInv, QuotaInv', PaidInv, NEW a \in QuotaAccount, AccountPaid(a), Clean(a)',
           NEW n \in QuotaNode, ChargeFails(n)
    PROVE  Conserved(a) /\ StillUpToDate(a)
  <1>1. allocation[n].account # a
    BY DEF ChargeFails, Clean
  <1> QED
    BY <1>1, NextAccountPaid DEF ChargeFails, countVars, workerVars

(* An allocation that no election has overtaken subtracts from the count    *)
(* what it has granted of it.                                              *)
LEMMA ChargePaid ==
    ASSUME QuotaInv, QuotaInv', PaidInv, NEW a \in QuotaAccount, AccountPaid(a), Clean(a)',
           NEW n \in QuotaNode, Charge(n)
    PROVE  Conserved(a) /\ StillUpToDate(a)
  <1> DEFINE al == allocation[n]
             next == [al EXCEPT !.pc = "account"]
  <1>1. /\ al.pc = "charge" /\ n = quotaLeader /\ Step(n, next)
        /\ counts' = [counts EXCEPT ![al.account] = Charged(al)]
        /\ unpaid' = IF al.term = elections THEN unpaid ELSE unpaid \cup {al.account}
        /\ UNCHANGED <<quotaLeader, elections, localQuota, spent>>
    BY DEF Charge, WriteCount, workerVars
  <1>2. /\ al \in Allocation /\ Informed(al) /\ al.account \in QuotaAccount /\ al.read \in Count
        /\ counts[al.account] \in Count
    BY <1>1 DEF QuotaInv, AllocationsOK, Charges
  <1>3. counts \in [QuotaAccount -> MaybeCount]
    BY DEF QuotaInv, LeaderOK
  <1>4. CASE al.account # a
    <2>1. counts'[a] = counts[a]
      BY <1>1, <1>3, <1>4
    <2> QED
      BY <1>1, <1>4, <2>1, NextAccountPaid
  <1>5. CASE al.account = a
    <2>1. al.term = elections
      BY <1>1, <1>5 DEF Clean
    <2>2. Current(n)
      BY <1>1, <2>1 DEF Current
    <2>3. a \notin al.todo /\ Granted(al) <= counts[a] /\ al.read = counts[a]
      BY <1>1, <1>5, <2>2 DEF AccountPaid, UpToDate
    <2>4. Granted(al) = al.grants[al.node[a]][a] /\ al.node[a] \in QuotaNode
      BY <1>1, <1>2, <1>5 DEF Granted, Informed
    <2>5. Granted(al) \in Nat
      BY <2>4, UnsettledIsCount
    <2>6. counts[a] \in Int
      BY <1>2, <1>5 DEF Count
    <2>7. counts'[a] = counts[a] - Granted(al)
      <3>1. Min({Granted(al), al.read}) = Granted(al)
        BY <2>3, <2>5, <2>6, MinOfTwo
      <3>2. counts'[a] = Charged(al)
        BY <1>1, <1>3, <1>5
      <3> QED
        BY <2>3, <3>1, <3>2 DEF Charged
    <2>8. Left(a) = counts[a] /\ Left(a)' = counts[a] - Granted(al)
      <3>1. counts[a] # NoCount /\ counts'[a] # NoCount
        BY <2>5, <2>6, <2>7, ExecutionQuotaAssumption
      <3> QED
        BY <2>7, <3>1 DEF Left
    <2>9. /\ next.pc = "account" /\ next.todo = al.todo /\ next.grants = al.grants
          /\ next.account = al.account
      BY <1>2 DEF Allocation
    <2> HIDE DEF next
    <2>10. /\ allocation'[n] = next
           /\ \A m \in QuotaNode \ {n} : allocation'[m] = allocation[m]
      BY <1>1 DEF Step, QuotaInv, AllocationsOK
    <2> DEFINE old == Piles(allocation, localQuota, a)
               new == Piles(allocation', localQuota', a)
               here == <<n, al.node[a]>>
    <2>11. old \in PilesType /\ new \in PilesType /\ here \in Places
      BY <2>4, Typed, TypedAfter, PilesTyped
    <2>12. old[here] = 0 /\ new[here] = Granted(al)
      <3>1. Unsettled(al, al.node[a], a) = 0
        BY <1>1, <1>5 DEF Unsettled, Pending
      <3>2. Unsettled(next, al.node[a], a) = Granted(al)
        BY <2>4, <2>9 DEF Unsettled, Pending
      <3> QED
        BY <2>4, <2>10, <3>1, <3>2, Typed, TypedAfter, PilesTyped
    <2>13. ASSUME NEW p \in Places \ {here} PROVE new[p] = old[p]
      <3>1. p \in Places /\ p[1] \in QuotaNode /\ (p[2] = 0 \/ p[2] \in QuotaNode)
            /\ (p[1] = n => p[2] # al.node[a])
        BY DEF Places
      <3>2. new[p] = (IF p[2] = 0 THEN Held(localQuota'[p[1]], a) ELSE Unsettled(allocation'[p[1]], p[2], a))
        BY <3>1 DEF Piles
      <3>3. old[p] = (IF p[2] = 0 THEN Held(localQuota[p[1]], a) ELSE Unsettled(allocation[p[1]], p[2], a))
        BY <3>1 DEF Piles
      <3>4. p[1] # n => allocation'[p[1]] = allocation[p[1]]
        BY <2>10, <3>1
      <3>5. p[1] = n => Unsettled(allocation'[p[1]], p[2], a) = Unsettled(allocation[p[1]], p[2], a)
        BY <2>9, <2>10, <3>1 DEF Unsettled, Pending
      <3> QED
        BY <1>1, <3>2, <3>3, <3>4, <3>5
    <2>14. Afloat(a)' = Cardinality(TokensOf(new)) /\ Afloat(a) = Cardinality(TokensOf(old))
      BY DEF Afloat
    <2> HIDE DEF old, new, here
    <2>15. \A p \in Places \ {here} : new[p] <= old[p]
      BY <2>11, <2>13 DEF PilesType
    <2>16. Afloat(a)' <= Afloat(a) + new[here] - old[here]
      BY <2>11, <2>14, <2>15, OnePile
    <2>17. Conserved(a)
      BY <1>1, <2>5, <2>6, <2>8, <2>12, <2>16, Numbers, NumbersAfter DEF Conserved
    <2>18. ASSUME NEW m \in QuotaNode, Current(m)' PROVE UpToDate(allocation[m], a)'
      <3>1. m = n
        BY <1>1, <2>18 DEF Current
      <3> QED
        BY <2>3, <2>9, <2>10, <3>1 DEF UpToDate
    <2> QED
      BY <2>17, <2>18 DEF StillUpToDate
  <1> QED
    BY <1>4, <1>5

(* What is reset and granted is there: usage only takes away.               *)
LEMMA RemainingIsLeft ==
    ASSUME QuotaInv, NEW a \in QuotaAccount, NEW n \in QuotaNode, Informed(allocation[n]),
           allocation[n].pc = "account", allocation[n].counts[a] = counts[a]
    PROVE  Remaining(allocation[n], a) \in Nat /\ Remaining(allocation[n], a) <= Left(a)
  <1> DEFINE al == allocation[n]
  <1>1. al.usage[a] \in Nat
    BY DEF Informed
  <1>2. Left(a) \in Nat
    BY ExecutionQuotaAssumption DEF Left, QuotaInv, LeaderOK, MaybeCount, Count
  <1>3. Remaining(al, a) = IF al.usage[a] > Left(a) THEN 0 ELSE Left(a) - al.usage[a]
    BY DEF Remaining, Left
  <1> QED
    BY <1>1, <1>2, <1>3

LEMMA AllocatedIsThere ==
    ASSUME NEW x \in Nat, x # 0
    PROVE  Allocated(x) <= x
  <1>1. x \div Share \in 0..x /\ x \div Share \in Int
    BY ShareOfCount
  <1>2. Allocated(x) = IF x \div Share >= 1 THEN x \div Share ELSE 1
    BY <1>1, MaxOfTwo DEF Allocated
  <1> QED
    BY <1>1, <1>2

LEMMA ReconcilePaid ==
    ASSUME QuotaInv, QuotaInv', PaidInv, NEW a \in QuotaAccount, a # SystemAccount, AccountPaid(a), Clean(a)',
           NEW n \in QuotaNode, NEW b \in QuotaAccount, Reconcile(n, b)
    PROVE  Conserved(a) /\ StillUpToDate(a)
  <1> DEFINE al == allocation[n]
             remaining == Reconciled(al, b)
             skipped == [al EXCEPT !.todo = @ \ {b}]
             granted == [al EXCEPT !.todo = @ \ {b}, !.account = b, !.pc = "reread",
                           !.grants[al.node[b]][b] = Allocated(remaining)]
             next == IF remaining = 0 THEN skipped ELSE granted
  <1>1. /\ al.pc = "account" /\ b \in al.todo /\ n = quotaLeader
        /\ counts' = [counts EXCEPT ![b] = remaining]
        /\ unpaid' = IF al.term = elections THEN unpaid ELSE unpaid \cup {b}
        /\ UNCHANGED <<quotaLeader, elections, localQuota, spent>>
    BY DEF Reconcile, WriteCount, workerVars
  <1>2. Step(n, next)
    BY DEF Reconcile
  <1>3. /\ al \in Allocation /\ Informed(al) /\ al.node \in [QuotaAccount -> QuotaNode]
        /\ al.counts \in [QuotaAccount -> MaybeCount] /\ al.usage \in [QuotaAccount -> Nat]
        /\ al.grants \in [QuotaNode -> Tokens]
    BY <1>1 DEF QuotaInv, AllocationsOK, Informed, Allocation
  <1>4. remaining \in Count
    BY <1>3, ReconciledInCount
  <1> HIDE DEF remaining
  <1>5. /\ next.todo = al.todo \ {b} /\ next.counts = al.counts /\ next.node = al.node /\ next.term = al.term
        /\ remaining = 0 => next.pc = "account" /\ next.grants = al.grants
        /\ remaining # 0 => /\ next.pc = "reread" /\ next.account = b
                            /\ next.grants = [al.grants EXCEPT ![al.node[b]][b] = Allocated(remaining)]
    <2> DEFINE grants == [al.grants EXCEPT ![al.node[b]][b] = Allocated(remaining)]
    <2>1. granted = [al EXCEPT !.todo = al.todo \ {b}, !.account = b, !.pc = "reread", !.grants = grants]
      BY <1>3 DEF Allocation
    <2> HIDE DEF grants, granted
    <2>2. /\ granted.todo = al.todo \ {b} /\ granted.counts = al.counts /\ granted.node = al.node
          /\ granted.term = al.term /\ granted.pc = "reread" /\ granted.account = b /\ granted.grants = grants
      BY <1>3, <2>1 DEF Allocation
    <2>3. /\ skipped.todo = al.todo \ {b} /\ skipped.counts = al.counts /\ skipped.node = al.node
          /\ skipped.term = al.term /\ skipped.pc = "account" /\ skipped.grants = al.grants
      BY <1>1, <1>3 DEF Allocation
    <2> QED
      BY <2>2, <2>3 DEF grants
  <1> HIDE DEF next, skipped, granted
  <1>6. ASSUME NEW m \in QuotaNode, NEW c \in QuotaAccount, remaining # 0
        PROVE  next.grants[m][c] = IF m = al.node[b] /\ c = b THEN Allocated(remaining) ELSE al.grants[m][c]
    BY <1>3, <1>5, <1>6 DEF Tokens
  <1>7. ASSUME NEW m \in QuotaNode PROVE Unsettled(next, m, a) <= Unsettled(al, m, a)
    <2>1. Unsettled(al, m, a) = al.grants[m][a] /\ al.grants[m][a] \in Nat
      BY <1>1, UnsettledIsCount DEF Unsettled, Pending
    <2>2. Unsettled(next, m, a) = 0 \/ Unsettled(next, m, a) = al.grants[m][a]
      BY <1>5, <1>6 DEF Unsettled, Pending
    <2> QED
      BY <2>1, <2>2
  <1>8. /\ allocation'[n] = next /\ \A m \in QuotaNode \ {n} : allocation'[m] = allocation[m]
        /\ Afloat(a)' <= Afloat(a)
    BY <1>1, <1>2, <1>7, AllocationMoves
  <1>9. counts \in [QuotaAccount -> MaybeCount]
    BY DEF QuotaInv, LeaderOK
  <1>10. CASE a # b
    <2>1. counts'[a] = counts[a]
      BY <1>1, <1>9, <1>10
    <2>2. ASSUME Current(n)' PROVE UpToDate(allocation[n], a)'
      <3>1. Current(n)
        BY <1>1, <1>5, <1>8, <2>2 DEF Current
      <3>2. UpToDate(al, a)
        BY <3>1 DEF AccountPaid
      <3> QED
        BY <1>5, <1>8, <1>10, <2>1, <3>2 DEF UpToDate
    <2> QED
      BY <1>1, <1>8, <2>1, <2>2, NothingSpent, OthersUpToDate
  <1>11. CASE a = b
    <2>1. Current(n)
      BY <1>1, <1>11 DEF Clean, Current
    <2>2. al.counts[a] = counts[a]
      BY <1>1, <1>11, <2>1 DEF AccountPaid, UpToDate
    <2>3. remaining \in Nat /\ remaining <= Left(a)
      BY <1>1, <1>3, <1>11, <2>2, RemainingIsLeft DEF remaining, Reconciled
    <2>4. counts'[a] = remaining /\ Left(a)' = remaining
      <3>1. counts'[a] = remaining
        BY <1>1, <1>9, <1>11
      <3> QED
        BY <2>3, <3>1, ExecutionQuotaAssumption DEF Left
    <2>5. Conserved(a)
      BY <1>1, <1>8, <2>3, <2>4, Numbers, NumbersAfter DEF Conserved
    <2>6. ASSUME NEW m \in QuotaNode, Current(m)' PROVE UpToDate(allocation[m], a)'
      <3>1. m = n
        BY <1>1, <2>6 DEF Current
      <3>2. remaining # 0 => Granted(next) = Allocated(remaining)
        BY <1>3, <1>5, <1>6, <1>11 DEF Granted
      <3>3. remaining # 0 => Granted(next) <= remaining
        BY <2>3, <3>2, AllocatedIsThere
      <3> QED
        BY <1>4, <1>5, <1>8, <1>11, <2>4, <3>1, <3>3 DEF UpToDate
    <2> QED
      BY <2>5, <2>6 DEF StillUpToDate
  <1> QED
    BY <1>10, <1>11

(* What a worker holds after a grant is the grant, or what it held.         *)
LEMMA HeldAfterGrant ==
    ASSUME QuotaInv, NEW m \in QuotaNode, NEW grant \in Tokens, Receives(m, grant), NEW a \in QuotaAccount
    PROVE  /\ Held(localQuota'[m], a) = IF grant[a] > 0 THEN grant[a] ELSE Held(localQuota[m], a)
           /\ \A l \in QuotaNode \ {m} : localQuota'[l] = localQuota[l]
  <1> DEFINE held == localQuota[m]
             f == [b \in {c \in QuotaAccount : grant[c] > 0} \cup DOMAIN held |->
                     IF grant[b] > 0 THEN grant[b] ELSE held[b]]
  <1>1. localQuota' = [localQuota EXCEPT ![m] = f]
    BY Zenon DEF Receives
  <1>2. localQuota \in Quotas
    BY Typed
  <1> HIDE DEF f
  <1>3. localQuota'[m] = f /\ \A l \in QuotaNode \ {m} : localQuota'[l] = localQuota[l]
    BY <1>1, <1>2 DEF Quotas
  <1>4. Held(f, a) = IF grant[a] > 0 THEN grant[a] ELSE Held(held, a)
    BY DEF f, Held
  <1> QED
    BY <1>3, <1>4

(* A grant that is sent once is lost, or replaces what its worker held.     *)
LEMMA SendPaid ==
    ASSUME QuotaInv, QuotaInv', PaidInv, NEW a \in QuotaAccount, AccountPaid(a), Clean(a)',
           NEW n \in QuotaNode, NEW m \in QuotaNode, SendQuotaAllocation(n, m)
    PROVE  Conserved(a) /\ StillUpToDate(a)
  <1> DEFINE al == allocation[n]
             grant == al.grants[m]
             sent == [al EXCEPT !.grants[m] = NoTokens]
  <1>1. /\ al.pc = "account"
        /\ UNCHANGED <<quotaLeader, elections, spent, counts>>
    BY DEF SendQuotaAllocation, countVars
  <1>2. \/ Step(n, sent) /\ UNCHANGED <<localQuota, unpaid>>
        \/ Step(n, sent) /\ Receives(m, grant) /\ UNCHANGED unpaid
        \/ /\ Receives(m, grant) /\ UNCHANGED allocation
           /\ unpaid' = unpaid \cup {b \in QuotaAccount : grant[b] > 0}
    BY DEF SendQuotaAllocation
  <1>3. al \in Allocation /\ grant \in Tokens /\ grant[a] \in Nat
    BY UnsettledIsCount DEF QuotaInv, AllocationsOK, Allocation
  <1>4. /\ sent.pc = "account" /\ sent.todo = al.todo /\ sent.counts = al.counts /\ sent.term = al.term
        /\ sent.grants = [al.grants EXCEPT ![m] = NoTokens]
    BY <1>1, <1>3 DEF Allocation
  <1> HIDE DEF sent
  <1>5. ASSUME NEW l \in QuotaNode
        PROVE  Unsettled(sent, l, a) = IF l = m THEN 0 ELSE Unsettled(al, l, a)
    BY <1>1, <1>3, <1>4 DEF Unsettled, Pending, Allocation, NoTokens
  <1>6. ASSUME NEW l \in QuotaNode PROVE Unsettled(sent, l, a) <= Unsettled(al, l, a)
    BY <1>5, UnsettledIsCount
  <1>7. ASSUME Step(n, sent)
        PROVE  /\ allocation'[n] = sent /\ \A l \in QuotaNode \ {n} : allocation'[l] = allocation[l]
               /\ StillUpToDate(a)
    <2>1. allocation'[n] = sent /\ \A l \in QuotaNode \ {n} : allocation'[l] = allocation[l]
      BY <1>7 DEF Step, QuotaInv, AllocationsOK
    <2>2. ASSUME Current(n)' PROVE UpToDate(allocation[n], a)'
      <3>1. Current(n)
        BY <1>1, <1>4, <2>1, <2>2 DEF Current
      <3>2. UpToDate(al, a)
        BY <3>1 DEF AccountPaid
      <3> QED
        BY <1>1, <1>4, <2>1, <3>2 DEF UpToDate
    <2> QED
      BY <1>1, <2>1, <2>2, OthersUpToDate
  <1>8. CASE Step(n, sent) /\ UNCHANGED <<localQuota, unpaid>>
    <2>1. Afloat(a)' <= Afloat(a)
      BY <1>6, <1>8, AllocationMoves
    <2> QED
      BY <1>1, <1>7, <1>8, <2>1, NothingSpent
  <1>9. CASE Step(n, sent) /\ Receives(m, grant)
    <2> DEFINE old == Piles(allocation, localQuota, a)
               new == Piles(allocation', localQuota', a)
               from == <<n, m>>
               to == <<m, 0>>
               between == [old EXCEPT ![from] = 0]
    <2>1. /\ Held(localQuota'[m], a) = IF grant[a] > 0 THEN grant[a] ELSE Held(localQuota[m], a)
          /\ \A l \in QuotaNode \ {m} : localQuota'[l] = localQuota[l]
      BY <1>3, <1>9, HeldAfterGrant
    <2>2. old \in PilesType /\ new \in PilesType /\ from \in Places /\ to \in Places /\ from # to
      BY Typed, TypedAfter, PilesTyped, ExecutionQuotaAssumption
    <2>3. /\ old[to] = Held(localQuota[m], a) /\ new[to] = Held(localQuota'[m], a)
          /\ old[from] = grant[a]
      <3>1. Unsettled(al, m, a) = grant[a]
        BY <1>1 DEF Unsettled, Pending
      <3> QED
        BY <3>1, Typed, TypedAfter, PilesTyped
    <2>4. ASSUME NEW p \in Places \ {to} PROVE new[p] = IF p = from THEN 0 ELSE old[p]
      <3>1. p \in Places /\ p[1] \in QuotaNode /\ (p[2] = 0 \/ p[2] \in QuotaNode)
            /\ (p[2] = 0 => p[1] # m) /\ (p = from <=> p[1] = n /\ p[2] = m)
        BY DEF Places
      <3>2. new[p] = (IF p[2] = 0 THEN Held(localQuota'[p[1]], a) ELSE Unsettled(allocation'[p[1]], p[2], a))
        BY <3>1 DEF Piles
      <3>3. old[p] = (IF p[2] = 0 THEN Held(localQuota[p[1]], a) ELSE Unsettled(allocation[p[1]], p[2], a))
        BY <3>1 DEF Piles
      <3>4. m # 0
        BY ExecutionQuotaAssumption
      <3>5. p[1] # n => allocation'[p[1]] = allocation[p[1]]
        BY <1>7, <1>9, <3>1
      <3>6. p[1] = n /\ p[2] # 0 =>
              Unsettled(allocation'[p[1]], p[2], a) = IF p[2] = m THEN 0 ELSE Unsettled(al, p[2], a)
        BY <1>5, <1>7, <1>9, <3>1
      <3>7. p[2] = 0 => localQuota'[p[1]] = localQuota[p[1]]
        BY <2>1, <3>1
      <3> QED
        BY <3>1, <3>2, <3>3, <3>4, <3>5, <3>6, <3>7
    <2>5. Afloat(a)' = Cardinality(TokensOf(new)) /\ Afloat(a) = Cardinality(TokensOf(old))
      BY DEF Afloat
    <2> HIDE DEF old, new, from, to
    <2>6. 0 \in 0 .. TokenBound
      BY ExecutionQuotaAssumption DEF TokenBound
    <2>7. /\ between \in PilesType /\ between[from] = 0
          /\ \A p \in Places \ {from} : between[p] = old[p]
      BY <2>2, <2>6 DEF PilesType
    <2> HIDE DEF between
    <2>8. \A p \in Places : old[p] \in Int /\ new[p] \in Int /\ between[p] \in Int
      BY <2>2, <2>7 DEF PilesType
    <2>9. Cardinality(TokensOf(between)) <= Cardinality(TokensOf(old)) + between[from] - old[from]
      BY <2>2, <2>7, <2>8, OnePile
    <2>10. \A p \in Places \ {to} : new[p] <= between[p]
      BY <2>2, <2>4, <2>7, <2>8
    <2>11. Cardinality(TokensOf(new)) <= Cardinality(TokensOf(between)) + new[to] - between[to]
      BY <2>2, <2>7, <2>8, <2>10, OnePile
    <2>12. between[to] = old[to]
      BY <2>2, <2>7
    <2>13. old[to] \in Nat
      BY <2>2, ExecutionQuotaAssumption DEF PilesType, TokenBound
    <2>14. Cardinality(TokensOf(between)) \in Nat /\ Afloat(a)' \in Nat
      BY <2>2, <2>5, <2>7, TokensCounted
    <2>15. Afloat(a)' <= Afloat(a)
      BY <1>3, <2>1, <2>3, <2>5, <2>7, <2>8, <2>9, <2>11, <2>12, <2>13, <2>14, Numbers
    <2> QED
      BY <1>1, <1>7, <1>9, <2>15, NothingSpent
  <1>10. CASE /\ Receives(m, grant) /\ UNCHANGED allocation
              /\ unpaid' = unpaid \cup {b \in QuotaAccount : grant[b] > 0}
    <2>1. ~(grant[a] > 0)
      BY <1>10 DEF Clean
    <2>2. ASSUME NEW l \in QuotaNode PROVE Held(localQuota'[l], a) <= Held(localQuota[l], a)
      <3>1. Held(localQuota'[l], a) = Held(localQuota[l], a)
        BY <1>3, <1>10, <2>1, HeldAfterGrant
      <3>2. Held(localQuota[l], a) \in 0 .. TokenBound
        BY Typed, PilesTyped
      <3> QED
        BY <3>1, <3>2
    <2>3. \A l, k \in QuotaNode : Unsettled(allocation'[l], k, a) <= Unsettled(allocation[l], k, a)
      BY <1>10, UnsettledIsCount
    <2>4. Afloat(a)' <= Afloat(a)
      BY <2>2, <2>3, FewerAfloat
    <2>5. Current(n)' => UpToDate(allocation[n], a)'
      BY <1>1, <1>10 DEF Current, AccountPaid, UpToDate
    <2>6. StillUpToDate(a)
      BY <1>1, <1>10, <2>5, OthersUpToDate
    <2> QED
      BY <1>1, <2>4, <2>6, NothingSpent
  <1> QED
    BY <1>2, <1>8, <1>9, <1>10

-----------------------------------------------------------------------------
(* The rest of the invariant.                                              *)

TermStep(n, al) == al.term \in {allocation[n].term, 0, elections}

LEMMA TermsKept ==
    ASSUME QuotaInv, PaidInv, ExecutionQuotaNext, NEW m \in QuotaNode
    PROVE  allocation'[m].term <= elections'
  <1>1. /\ allocation \in [QuotaNode -> Allocation]
        /\ \A n \in QuotaNode : allocation[n].term \in Nat /\ allocation[n].term <= elections
        /\ elections \in Nat
    BY DEF QuotaInv, AllocationsOK, Allocation, LeaderOK, PaidInv
  <1>2. ASSUME NEW n \in QuotaNode, NEW al, Step(n, al), TermStep(n, al), UNCHANGED elections
        PROVE  allocation'[m].term <= elections'
    <2>1. allocation'[m] = IF m = n THEN al ELSE allocation[m]
      BY <1>1, <1>2 DEF Step
    <2> QED
      BY <1>1, <1>2, <2>1 DEF TermStep
  <1>3. ASSUME UNCHANGED allocation, elections' \in {elections, elections + 1}
        PROVE  allocation'[m].term <= elections'
    BY <1>1, <1>3
  <1>4. ASSUME NEW n \in QuotaNode, HandleChange(n) PROVE allocation'[m].term <= elections'
    <2> DEFINE al == [allocation[n] EXCEPT !.pc = "read"]
    <2>1. Step(n, al) \/ UNCHANGED allocation
      BY <1>4 DEF HandleChange, Step
    <2>2. TermStep(n, al)
      BY <1>1 DEF TermStep, Allocation
    <2> HIDE DEF al
    <2> QED
      BY <1>2, <1>3, <1>4, <2>1, <2>2 DEF HandleChange
  <1>5. ASSUME NEW n \in QuotaNode, ReadAccounts(n) PROVE allocation'[m].term <= elections'
    <2>1. PICK workers \in SetToSeqs(QuotaNode \ {quotaLeader}) :
              Step(n, [allocation[n] EXCEPT !.pc = "account", !.term = elections, !.todo = QuotaAccount,
                         !.node = [a \in QuotaAccount |-> workers[(a % Len(workers)) + 1]],
                         !.counts = counts, !.usage = usage])
      BY <1>5, Zenon DEF ReadAccounts
    <2> DEFINE spread == [a \in QuotaAccount |-> workers[(a % Len(workers)) + 1]]
               al == [allocation[n] EXCEPT !.pc = "account", !.term = elections, !.todo = QuotaAccount,
                        !.node = spread, !.counts = counts, !.usage = usage]
    <2>2. Step(n, al)
      BY <2>1
    <2> HIDE DEF spread
    <2>3. TermStep(n, al)
      BY <1>1 DEF TermStep, Allocation
    <2> HIDE DEF al
    <2> QED
      BY <1>2, <1>5, <2>2, <2>3 DEF ReadAccounts
  <1>6. ASSUME NEW n \in QuotaNode, ReconcileFails(n) \/ AllocationEnds(n) PROVE allocation'[m].term <= elections'
    <2>1. Step(n, NotAllocating) /\ UNCHANGED elections
      BY <1>6 DEF ReconcileFails, AllocationEnds
    <2>2. TermStep(n, NotAllocating)
      BY DEF TermStep, NotAllocating
    <2> QED
      BY <1>2, <2>1, <2>2
  <1>7. ASSUME NEW n \in QuotaNode, Reread(n) PROVE allocation'[m].term <= elections'
    <2> DEFINE read == counts[allocation[n].account]
               al == [allocation[n] EXCEPT !.pc = "charge", !.read = read]
    <2>1. Step(n, al) /\ UNCHANGED elections
      BY <1>7 DEF Reread
    <2> HIDE DEF read
    <2>2. TermStep(n, al)
      BY <1>1 DEF TermStep, Allocation
    <2> HIDE DEF al
    <2> QED
      BY <1>2, <2>1, <2>2
  <1>8. ASSUME NEW n \in QuotaNode, Charge(n) \/ ChargeFails(n) PROVE allocation'[m].term <= elections'
    <2> DEFINE al == [allocation[n] EXCEPT !.pc = "account"]
    <2>1. Step(n, al) /\ UNCHANGED elections
      BY <1>8 DEF Charge, ChargeFails
    <2>2. TermStep(n, al)
      BY <1>1 DEF TermStep, Allocation
    <2> HIDE DEF al
    <2> QED
      BY <1>2, <2>1, <2>2
  <1>9. ASSUME NEW n \in QuotaNode, NEW k \in QuotaNode, SendQuotaAllocation(n, k)
        PROVE  allocation'[m].term <= elections'
    <2> DEFINE al == [allocation[n] EXCEPT !.grants[k] = NoTokens]
    <2>1. (Step(n, al) \/ UNCHANGED allocation) /\ UNCHANGED elections
      BY <1>9 DEF SendQuotaAllocation
    <2>2. TermStep(n, al)
      BY <1>1 DEF TermStep, Allocation
    <2> HIDE DEF al
    <2> QED
      BY <1>2, <1>3, <2>1, <2>2
  <1>10. ASSUME NEW n \in QuotaNode, NEW b \in QuotaAccount, Reconcile(n, b)
         PROVE  allocation'[m].term <= elections'
    <2> DEFINE skipped == [allocation[n] EXCEPT !.todo = @ \ {b}]
               granted == [allocation[n] EXCEPT !.todo = @ \ {b}, !.account = b, !.pc = "reread",
                             !.grants[allocation[n].node[b]][b] = Allocated(Reconciled(allocation[n], b))]
    <2>1. (Step(n, skipped) \/ Step(n, granted)) /\ UNCHANGED elections
      BY <1>10 DEF Reconcile
    <2>2. TermStep(n, skipped) /\ TermStep(n, granted)
      BY <1>1 DEF TermStep, Allocation
    <2> HIDE DEF skipped, granted
    <2> QED
      BY <1>2, <2>1, <2>2
  <1>11. ASSUME NEW n \in QuotaNode,
                Elect(n) \/ \E a \in QuotaAccount : \/ GetLocalQuotaRemaining(n, a) \/ DecrementLocalQuota(n, a)
                                                    \/ HandleAccountExhaustion(n, a)
         PROVE  UNCHANGED allocation /\ elections' \in {elections, elections + 1}
    BY <1>11 DEF Elect, GetLocalQuotaRemaining, DecrementLocalQuota, HandleAccountExhaustion
  <1>12. ASSUME \/ \E a \in QuotaAccount : CommitExecutions(a) \/ CleanupOldExecutionLogs(a)
                \/ \E r \in Reporter : ReportWrite(r) \/ \E a \in QuotaAccount : ReportRead(r, a)
         PROVE  UNCHANGED allocation /\ elections' \in {elections, elections + 1}
    BY <1>12 DEF CommitExecutions, CleanupOldExecutionLogs, ReportWrite, ReportRead
  <1> QED
    BY <1>3, <1>4, <1>5, <1>6, <1>7, <1>8, <1>9, <1>10, <1>11, <1>12 DEF ExecutionQuotaNext

LEMMA SpentKept ==
    ASSUME PaidInv, ExecutionQuotaNext
    PROVE  spent' \in [QuotaAccount -> Nat]
  <1>1. spent \in [QuotaAccount -> Nat]
    BY DEF PaidInv
  <1>2. ASSUME NEW n \in QuotaNode, NEW a \in QuotaAccount, DecrementLocalQuota(n, a)
        PROVE  spent' \in [QuotaAccount -> Nat]
    <2>1. spent' = spent \/ spent' = [spent EXCEPT ![a] = @ + 1]
      BY <1>2 DEF DecrementLocalQuota
    <2> QED
      BY <1>1, <2>1
  <1>3. ASSUME NEW n \in QuotaNode,
               \/ Elect(n) \/ HandleChange(n) \/ ReadAccounts(n) \/ ReconcileFails(n)
               \/ Reread(n) \/ Charge(n) \/ ChargeFails(n) \/ AllocationEnds(n)
        PROVE  UNCHANGED spent
    <2>1. Elect(n) => UNCHANGED spent
      BY Zenon DEF Elect, workerVars
    <2>2. HandleChange(n) => UNCHANGED spent
      BY Zenon DEF HandleChange, workerVars
    <2>3. ReadAccounts(n) => UNCHANGED spent
      BY Zenon DEF ReadAccounts, workerVars
    <2>4. ReconcileFails(n) => UNCHANGED spent
      BY Zenon DEF ReconcileFails, workerVars
    <2>5. Reread(n) => UNCHANGED spent
      BY Zenon DEF Reread, workerVars
    <2>6. Charge(n) => UNCHANGED spent
      BY Zenon DEF Charge, workerVars
    <2>7. ChargeFails(n) => UNCHANGED spent
      BY Zenon DEF ChargeFails, workerVars
    <2>8. AllocationEnds(n) => UNCHANGED spent
      BY Zenon DEF AllocationEnds, workerVars
    <2> QED
      BY <1>3, <2>1, <2>2, <2>3, <2>4, <2>5, <2>6, <2>7, <2>8
  <1>4. ASSUME NEW n \in QuotaNode, \/ \E m \in QuotaNode : SendQuotaAllocation(n, m)
                                    \/ \E a \in QuotaAccount : Reconcile(n, a) \/ GetLocalQuotaRemaining(n, a)
                                                               \/ HandleAccountExhaustion(n, a)
        PROVE  UNCHANGED spent
    <2>1. ASSUME NEW m \in QuotaNode, SendQuotaAllocation(n, m)
          PROVE  UNCHANGED spent
      BY <2>1, Zenon DEF SendQuotaAllocation, workerVars
    <2>2. ASSUME NEW a \in QuotaAccount, Reconcile(n, a)
          PROVE  UNCHANGED spent
      BY <2>2, Zenon DEF Reconcile, workerVars
    <2>3. ASSUME NEW a \in QuotaAccount, GetLocalQuotaRemaining(n, a)
          PROVE  UNCHANGED spent
      BY <2>3, Zenon DEF GetLocalQuotaRemaining, workerVars
    <2>4. ASSUME NEW a \in QuotaAccount, HandleAccountExhaustion(n, a)
          PROVE  UNCHANGED spent
      BY <2>4, Zenon DEF HandleAccountExhaustion, workerVars
    <2> QED
      BY <1>4, <2>1, <2>2, <2>3, <2>4
  <1>5. ASSUME \/ \E a \in QuotaAccount : CommitExecutions(a) \/ CleanupOldExecutionLogs(a)
               \/ \E r \in Reporter : ReportWrite(r) \/ \E a \in QuotaAccount : ReportRead(r, a)
        PROVE  UNCHANGED spent
    BY <1>5 DEF CommitExecutions, CleanupOldExecutionLogs, ReportWrite, ReportRead, workerVars
  <1> QED
    BY <1>1, <1>2, <1>3, <1>4, <1>5 DEF ExecutionQuotaNext

(* The claim of an account is never taken up again: a report keeps its      *)
(* account, and an unpaid grant is remembered.                              *)
LEMMA CleanBefore ==
    ASSUME QuotaInv, PaidInv, ExecutionQuotaNext
    PROVE  /\ \A r \in Reporter : reports'[r].pc = "new" => reports'[r].account = 0
           /\ \A a \in QuotaAccount : Clean(a)' => Clean(a)
  <1>1. \A r \in Reporter : reports[r] \in Report /\ (reports[r].pc = "new" => reports[r].account = 0)
    BY DEF QuotaInv, ReportsOK, PaidInv
  <1>2. ASSUME UNCHANGED reports, unpaid \subseteq unpaid'
        PROVE  /\ \A r \in Reporter : reports'[r].pc = "new" => reports'[r].account = 0
               /\ \A a \in QuotaAccount : Clean(a)' => Clean(a)
    BY <1>1, <1>2 DEF Clean
  <1>3. ASSUME NEW r \in Reporter, NEW new, reports' = [reports EXCEPT ![r] = new], UNCHANGED unpaid,
               new.pc # "new", reports[r].pc # "new" => new.account = reports[r].account
        PROVE  /\ \A s \in Reporter : reports'[s].pc = "new" => reports'[s].account = 0
               /\ \A a \in QuotaAccount : Clean(a)' => Clean(a)
    <2>1. \A s \in Reporter : reports'[s] = IF s = r THEN new ELSE reports[s]
      BY <1>3 DEF QuotaInv, ReportsOK
    <2>2. \A s \in Reporter, a \in QuotaAccount : reports[s].account = a => reports'[s].account = a
      BY <1>1, <1>3, <2>1, ExecutionQuotaAssumption
    <2> QED
      BY <1>1, <1>3, <2>1, <2>2 DEF Clean
  <1>4. ASSUME NEW n \in QuotaNode,
               \/ Elect(n) \/ HandleChange(n) \/ ReadAccounts(n) \/ ReconcileFails(n)
               \/ Reread(n) \/ Charge(n) \/ ChargeFails(n) \/ AllocationEnds(n)
        PROVE  UNCHANGED reports /\ unpaid \subseteq unpaid'
    <2>1. Elect(n) => UNCHANGED reports /\ unpaid \subseteq unpaid'
      BY Zenon DEF Elect
    <2>2. HandleChange(n) => UNCHANGED reports /\ unpaid \subseteq unpaid'
      BY Zenon DEF HandleChange
    <2>3. ReadAccounts(n) => UNCHANGED reports /\ unpaid \subseteq unpaid'
      BY Zenon DEF ReadAccounts
    <2>4. ReconcileFails(n) => UNCHANGED reports /\ unpaid \subseteq unpaid'
      BY Zenon DEF ReconcileFails
    <2>5. Reread(n) => UNCHANGED reports /\ unpaid \subseteq unpaid'
      BY Zenon DEF Reread
    <2>6. Charge(n) => UNCHANGED reports /\ unpaid \subseteq unpaid'
      BY Zenon DEF Charge, WriteCount
    <2>7. ChargeFails(n) => UNCHANGED reports /\ unpaid \subseteq unpaid'
      BY Zenon DEF ChargeFails
    <2>8. AllocationEnds(n) => UNCHANGED reports /\ unpaid \subseteq unpaid'
      BY Zenon DEF AllocationEnds
    <2> QED
      BY <1>4, <2>1, <2>2, <2>3, <2>4, <2>5, <2>6, <2>7, <2>8
  <1>5. ASSUME NEW n \in QuotaNode, \/ \E m \in QuotaNode : SendQuotaAllocation(n, m)
                                    \/ \E a \in QuotaAccount : Reconcile(n, a) \/ GetLocalQuotaRemaining(n, a)
                                                               \/ DecrementLocalQuota(n, a)
                                                               \/ HandleAccountExhaustion(n, a)
        PROVE  UNCHANGED reports /\ unpaid \subseteq unpaid'
    <2>1. ASSUME NEW m \in QuotaNode, SendQuotaAllocation(n, m)
          PROVE  UNCHANGED reports /\ unpaid \subseteq unpaid'
      BY <2>1, Zenon DEF SendQuotaAllocation
    <2>2. ASSUME NEW a \in QuotaAccount, Reconcile(n, a)
          PROVE  UNCHANGED reports /\ unpaid \subseteq unpaid'
      BY <2>2, Zenon DEF Reconcile, WriteCount
    <2>3. ASSUME NEW a \in QuotaAccount, GetLocalQuotaRemaining(n, a)
          PROVE  UNCHANGED reports /\ unpaid \subseteq unpaid'
      BY <2>3, Zenon DEF GetLocalQuotaRemaining
    <2>4. ASSUME NEW a \in QuotaAccount, DecrementLocalQuota(n, a)
          PROVE  UNCHANGED reports /\ unpaid \subseteq unpaid'
      BY <2>4, Zenon DEF DecrementLocalQuota
    <2>5. ASSUME NEW a \in QuotaAccount, HandleAccountExhaustion(n, a)
          PROVE  UNCHANGED reports /\ unpaid \subseteq unpaid'
      BY <2>5, Zenon DEF HandleAccountExhaustion
    <2> QED
      BY <1>5, <2>1, <2>2, <2>3, <2>4, <2>5
  <1>6. ASSUME NEW a \in QuotaAccount, CommitExecutions(a) \/ CleanupOldExecutionLogs(a)
        PROVE  UNCHANGED reports /\ unpaid \subseteq unpaid'
    BY <1>6 DEF CommitExecutions, CleanupOldExecutionLogs
  <1>7. ASSUME NEW r \in Reporter, NEW a \in QuotaAccount, ReportRead(r, a)
        PROVE  /\ \A s \in Reporter : reports'[s].pc = "new" => reports'[s].account = 0
               /\ \A b \in QuotaAccount : Clean(b)' => Clean(b)
    <2> DEFINE new == [pc |-> IF counts[a] = NoCount THEN "done" ELSE "write", account |-> a,
                       read |-> IF counts[a] = NoCount THEN 0 ELSE counts[a]]
    <2>1. reports' = [reports EXCEPT ![r] = new] /\ UNCHANGED unpaid /\ reports[r].pc = "new"
      BY <1>7 DEF ReportRead
    <2>2. new.pc # "new"
      OBVIOUS
    <2> HIDE DEF new
    <2> QED
      BY <1>3, <2>1, <2>2
  <1>8. ASSUME NEW r \in Reporter, ReportWrite(r)
        PROVE  /\ \A s \in Reporter : reports'[s].pc = "new" => reports'[s].account = 0
               /\ \A b \in QuotaAccount : Clean(b)' => Clean(b)
    <2> DEFINE new == [reports[r] EXCEPT !.pc = "done"]
    <2>1. reports' = [reports EXCEPT ![r] = new] /\ UNCHANGED unpaid
      BY <1>8 DEF ReportWrite
    <2>2. new.pc # "new" /\ new.account = reports[r].account
      BY <1>1 DEF Report
    <2> HIDE DEF new
    <2> QED
      BY <1>3, <2>1, <2>2
  <1> QED
    BY <1>2, <1>4, <1>5, <1>6, <1>7, <1>8 DEF ExecutionQuotaNext

(* Every step keeps the claim of an account that still has it.              *)
LEMMA AccountStaysPaid ==
    ASSUME QuotaInv, QuotaInv', PaidInv, ExecutionQuotaNext,
           NEW a \in QuotaAccount, a # SystemAccount, AccountPaid(a), Clean(a)'
    PROVE  Conserved(a) /\ StillUpToDate(a)
  <1>1. ASSUME NEW n \in QuotaNode, NEW b \in QuotaAccount,
               GetLocalQuotaRemaining(n, b) \/ HandleAccountExhaustion(n, b)
        PROVE  UNCHANGED <<quotaLeader, elections, allocation, localQuota, spent>> /\ counts'[a] = counts[a]
    BY <1>1 DEF GetLocalQuotaRemaining, HandleAccountExhaustion, countVars, workerVars
  <1>2. ASSUME NEW b \in QuotaAccount, CommitExecutions(b) \/ CleanupOldExecutionLogs(b)
        PROVE  UNCHANGED <<quotaLeader, elections, allocation, localQuota, spent>> /\ counts'[a] = counts[a]
    BY <1>2 DEF CommitExecutions, CleanupOldExecutionLogs, workerVars
  <1>3. ASSUME NEW r \in Reporter, NEW b \in QuotaAccount, ReportRead(r, b)
        PROVE  UNCHANGED <<quotaLeader, elections, allocation, localQuota, spent>> /\ counts'[a] = counts[a]
    BY <1>3 DEF ReportRead, countVars, workerVars
  <1>4. ASSUME NEW r \in Reporter, ReportWrite(r)
        PROVE  UNCHANGED <<quotaLeader, elections, allocation, localQuota, spent>> /\ counts'[a] = counts[a]
    <2>1. reports'[r].account = reports[r].account
      BY <1>4 DEF ReportWrite, QuotaInv, ReportsOK, Report
    <2>2. reports[r].account # a
      BY <2>1 DEF Clean
    <2>3. counts'[a] = counts[a]
      BY <1>4, <2>2 DEF ReportWrite, QuotaInv, LeaderOK
    <2> QED
      BY <1>4, <2>3 DEF ReportWrite, workerVars
  <1>5. \A n \in QuotaNode : Elect(n) => Conserved(a) /\ StillUpToDate(a)
    BY ElectPaid
  <1>6. \A n \in QuotaNode : HandleChange(n) => Conserved(a) /\ StillUpToDate(a)
    BY HandleChangePaid
  <1>7. \A n \in QuotaNode : ReadAccounts(n) => Conserved(a) /\ StillUpToDate(a)
    BY ReadAccountsPaid
  <1>8. \A n \in QuotaNode : ReconcileFails(n) \/ AllocationEnds(n) => Conserved(a) /\ StillUpToDate(a)
    BY GivesUpPaid
  <1>9. \A n \in QuotaNode : Reread(n) => Conserved(a) /\ StillUpToDate(a)
    BY RereadPaid
  <1>10. \A n \in QuotaNode : Charge(n) => Conserved(a) /\ StillUpToDate(a)
    BY ChargePaid
  <1>11. \A n \in QuotaNode : ChargeFails(n) => Conserved(a) /\ StillUpToDate(a)
    BY ChargeFailsPaid
  <1>12. \A n, m \in QuotaNode : SendQuotaAllocation(n, m) => Conserved(a) /\ StillUpToDate(a)
    BY SendPaid
  <1>13. \A n \in QuotaNode, b \in QuotaAccount :
            Reconcile(n, b) \/ DecrementLocalQuota(n, b) => Conserved(a) /\ StillUpToDate(a)
    BY ReconcilePaid, DecrementPaid
  <1> QED
    BY <1>1, <1>2, <1>3, <1>4, <1>5, <1>6, <1>7, <1>8, <1>9, <1>10, <1>11, <1>12, <1>13, QuietPaid
    DEF ExecutionQuotaNext

LEMMA PaidNextKeeps ==
    ASSUME QuotaInv, QuotaInv', PaidInv, ExecutionQuotaNext
    PROVE  PaidInv'
  <1>1. ASSUME NEW a \in QuotaAccount \ {SystemAccount}, Clean(a)' PROVE AccountPaid(a)'
    <2>1. AccountPaid(a)
      BY <1>1, CleanBefore DEF PaidInv
    <2>2. Conserved(a) /\ StillUpToDate(a)
      BY <1>1, <2>1, AccountStaysPaid
    <2>3. spent[a] + Afloat(a) + Left(a) <= Limit
      BY <2>1 DEF AccountPaid
    <2>4. spent'[a] \in Nat
      BY SpentKept
    <2>5. spent'[a] + Afloat(a)' + Left(a)' <= Limit
      BY <2>2, <2>3, <2>4, Numbers, NumbersAfter, ExecutionQuotaAssumption DEF Conserved
    <2> QED
      BY <2>2, <2>5 DEF AccountPaid, StillUpToDate
  <1> QED
    BY <1>1, SpentKept, TermsKept, CleanBefore DEF PaidInv

LEMMA PaidInitHolds ==
    ASSUME ExecutionQuotaInit
    PROVE  PaidInv
  <1>1. /\ spent = NoTokens /\ elections = 0 /\ reports = [r \in Reporter |-> NotReported]
        /\ allocation = [n \in QuotaNode |-> NotAllocating] /\ localQuota = [n \in QuotaNode |-> <<>>]
        /\ counts \in [QuotaAccount -> {NoCount, Limit}]
    BY DEF ExecutionQuotaInit
  <1>2. NotAllocating.pc = "idle" /\ NotAllocating.term = 0 /\ NotAllocating.grants = [m \in QuotaNode |-> NoTokens]
    BY DEF NotAllocating
  <1>3. NotReported.account = 0
    BY DEF NotReported
  <1>4. ASSUME NEW a \in QuotaAccount PROVE AccountPaid(a)
    <2>1. Left(a) = Limit /\ spent[a] = 0
      BY <1>1 DEF Left, NoTokens
    <2>2. ASSUME NEW p \in Places PROVE Piles(allocation, localQuota, a)[p] = 0
      <3>1. p[1] \in QuotaNode /\ (p[2] = 0 \/ p[2] \in QuotaNode)
        BY DEF Places
      <3>2. Held(<<>>, a) = 0
        BY ExecutionQuotaAssumption DEF Held
      <3>3. p[2] \in QuotaNode => Unsettled(NotAllocating, p[2], a) = 0
        BY <1>2 DEF Unsettled, Pending, NoTokens
      <3> QED
        BY <1>1, <3>1, <3>2, <3>3 DEF Piles
    <2>3. TokensOf(Piles(allocation, localQuota, a)) = {}
      <3>1. Limit + SystemLimit \in Nat
        BY ExecutionQuotaAssumption
      <3> QED
        BY <2>2, <3>1 DEF TokensOf
    <2>4. Afloat(a) = 0
      BY <2>3, FS_EmptySet DEF Afloat
    <2>5. \A n \in QuotaNode : ~Current(n)
      BY <1>1, <1>2 DEF Current
    <2> QED
      BY <2>1, <2>4, <2>5, ExecutionQuotaAssumption DEF AccountPaid
  <1>5. spent \in [QuotaAccount -> Nat]
    BY <1>1 DEF NoTokens
  <1> HIDE DEF NotAllocating, NotReported
  <1> QED
    BY <1>1, <1>2, <1>3, <1>4, <1>5 DEF PaidInv

(* What workers have executed and what is left of an account never exceed  *)
(* its limit, over all leaders, lost allocations and executions that read  *)
(* the last token together (executor.go:810-852), but for the four ways in *)
(* which the code takes tokens it has not paid for (see ExecutionsPaid).   *)
(* No token is counted twice: what lies in quotas and in grants on their   *)
(* way was taken from the count before.                                    *)
THEOREM LimitNeverExceeded == ExecutionQuotaSpec => []ExecutionsPaid
  <1>1. QuotaInv /\ QuotaInv' /\ PaidInv /\ UNCHANGED executionQuotaVars => PaidInv'
    <2> SUFFICES ASSUME QuotaInv, PaidInv, UNCHANGED executionQuotaVars
                 PROVE  PaidInv'
      OBVIOUS
    <2>1. UNCHANGED <<quotaLeader, elections, counts, allocation, localQuota, spent, reports, unpaid>>
      BY DEF executionQuotaVars, countVars, workerVars
    <2>2. ASSUME NEW a PROVE (Clean(a)' => Clean(a)) /\ (AccountPaid(a) => AccountPaid(a)')
      <3>1. Clean(a)' = Clean(a)
        BY <2>1 DEF Clean
      <3>2. Left(a)' = Left(a) /\ Afloat(a)' = Afloat(a)
        BY <2>1 DEF Left, Afloat
      <3>3. ASSUME NEW n \in QuotaNode, Current(n)', AccountPaid(a) PROVE UpToDate(allocation[n], a)'
        <4>1. UpToDate(allocation[n], a)
          BY <2>1, <3>3 DEF Current, AccountPaid
        <4> QED
          BY <2>1, <4>1 DEF UpToDate
      <3> QED
        BY <2>1, <3>1, <3>2, <3>3 DEF AccountPaid
    <2> QED
      BY <2>1, <2>2 DEF PaidInv
  <1>2. QuotaInv /\ QuotaInv' /\ PaidInv /\ [ExecutionQuotaNext]_executionQuotaVars => PaidInv'
    BY <1>1, PaidNextKeeps
  <1>3. QuotaInv /\ PaidInv => ExecutionsPaid
    <2> SUFFICES ASSUME QuotaInv, PaidInv, NEW a \in QuotaAccount \ {SystemAccount},
                        counts[a] # NoCount, Clean(a)
                 PROVE  spent[a] + counts[a] <= Limit
      BY DEF ExecutionsPaid, Clean
    <2>1. spent[a] + Afloat(a) + Left(a) <= Limit
      BY DEF PaidInv, AccountPaid
    <2>2. Left(a) = counts[a]
      BY DEF Left
    <2> QED
      BY <2>1, <2>2, Numbers, ExecutionQuotaAssumption
  <1> QED
    BY <1>2, <1>3, PaidInitHolds, QuotaInvariant, PTL DEF ExecutionQuotaSpec

-----------------------------------------------------------------------------
(* Assignment of jobs.                                                     *)

IdsOf(row) == row.lower .. row.upper

(* The rows that are inserted, and those still to be.                       *)
RowsIn(rows) == {rows[i] : i \in DOMAIN rows}
AllRows == RowsIn(jobQueues) \cup RowsIn(inserting)
CurrentRows == {row \in AllRows : row.version = queueVersion}

OwnersApart(rows) == \A r, s \in rows : r.node = s.node \/ IdsOf(r) \cap IdsOf(s) = {}

(* Batches are ranges of ids that no row of the version names.              *)
IsRange(batch) == \E lo, hi \in Nat : lo <= hi /\ batch = lo..hi
BatchesOK ==
    /\ \A b \in unqueued : IsRange(b) /\ \A row \in CurrentRows : b \cap IdsOf(row) = {}
    /\ \A b, c \in unqueued : b = c \/ b \cap c = {}

RowsOK ==
    /\ \A row \in AllRows : /\ row.lower \in DOMAIN jobAccounts /\ row.upper \in DOMAIN jobAccounts
                            /\ row.version <= queueVersion
    /\ \A row \in RowsIn(inserting) : row.version = queueVersion
    /\ OwnersApart(CurrentRows)

(* Only a leader that is alone starts jobs, with the rows of a version of   *)
(* its own, and queues no batch meanwhile.                                  *)
StartsAlone ==
    /\ starting # NotStarting => leader # 0 /\ single[leader] /\ unqueued = {}
    /\ starting.increment => inserting = <<>> /\ starting.todo = {}
    /\ starting # NotStarting /\ ~starting.increment => \A row \in CurrentRows : row.node = leader
    /\ unqueued # {} \/ inserting # <<>> => leader # 0

AssignmentInv ==
    /\ JobAssignmentTypeOK /\ Len(jobAccounts) <= MaxJobs
    /\ RowsOK /\ BatchesOK /\ StartsAlone

-----------------------------------------------------------------------------
(* Least and greatest members, and the ranges of a set of ids.              *)

LEMMA MinIn ==
    ASSUME NEW S \in SUBSET Nat, S # {}
    PROVE  Min(S) \in S /\ \A y \in S : Min(S) <= y
  <1> DEFINE R == OpToRel(<, Nat)
  <1>1. PICK x \in S : \A y \in S : ~(<<y, x>> \in R)
    <2>1. IsWellFoundedOn(R, Nat)
      BY NatLessThanWellFounded
    <2> HIDE DEF R
    <2> QED
      BY <2>1, WFMin
  <1>2. \A y \in S : x <= y
    <2> SUFFICES ASSUME NEW y \in S PROVE x <= y
      OBVIOUS
    <2>1. ~(y < x)
      BY <1>1 DEF OpToRel
    <2> QED
      BY <2>1
  <1> QED
    BY <1>2 DEF Min

LEMMA MaxIn ==
    ASSUME NEW S \in SUBSET Nat, S # {}, NEW k \in Nat, \A y \in S : y <= k
    PROVE  Max(S) \in S /\ \A y \in S : y <= Max(S)
  <1> DEFINE Below == {k - y : y \in S}
  <1>1. Below \in SUBSET Nat /\ Below # {}
    <2>1. \A y \in S : k - y \in Nat
      <3> SUFFICES ASSUME NEW y \in S PROVE k - y \in Nat
        OBVIOUS
      <3>1. y \in Nat /\ y <= k
        OBVIOUS
      <3> QED
        BY <3>1
    <2> QED
      BY <2>1
  <1>2. PICK m \in Below : \A z \in Below : m <= z
    BY <1>1, MinIn
  <1>3. PICK x \in S : m = k - x
    BY <1>2
  <1>4. \A y \in S : y <= x
    <2> SUFFICES ASSUME NEW y \in S PROVE y <= x
      OBVIOUS
    <2>1. k - y \in Below /\ x \in Nat /\ y \in Nat
      OBVIOUS
    <2>2. k - x <= k - y
      BY <1>2, <1>3, <2>1
    <2> QED
      BY <2>1, <2>2
  <1> QED
    BY <1>4 DEF Max

LEMMA MinMaxOfRange ==
    ASSUME NEW lo \in Nat, NEW hi \in Nat, lo <= hi
    PROVE  Min(lo..hi) = lo /\ Max(lo..hi) = hi
  <1>1. lo..hi \in SUBSET Nat /\ lo \in lo..hi /\ hi \in lo..hi
    OBVIOUS
  <1>2. Min(lo..hi) \in lo..hi /\ Min(lo..hi) <= lo
    BY <1>1, MinIn
  <1>3. Max(lo..hi) \in lo..hi /\ hi <= Max(lo..hi)
    <2>1. \A y \in lo..hi : y <= hi
      OBVIOUS
    <2> QED
      BY <1>1, <2>1, MaxIn
  <1> QED
    BY <1>2, <1>3

(* The ranges divide the ids.                                               *)
LEMMA RunsWithin ==
    ASSUME NEW ids \in SUBSET Nat, NEW run \in Runs(ids)
    PROVE  /\ run = <<run[1], run[2]>> /\ run[1] \in ids /\ run[2] \in ids
           /\ run[1] <= run[2] /\ run[1]..run[2] \subseteq ids
  BY DEF Runs

LEMMA RunsApart ==
    ASSUME NEW ids \in SUBSET Nat, NEW r \in Runs(ids), NEW s \in Runs(ids),
           NEW j \in r[1]..r[2], j \in s[1]..s[2]
    PROVE  r = s
  <1>1. /\ r[1] \in Nat /\ r[2] \in Nat /\ r = <<r[1], r[2]>> /\ r[1]..r[2] \subseteq ids
        /\ s[1] \in Nat /\ s[2] \in Nat /\ s = <<s[1], s[2]>> /\ s[1]..s[2] \subseteq ids
    BY RunsWithin
  <1>2. /\ r[1] - 1 \notin s[1]..s[2] /\ r[2] + 1 \notin s[1]..s[2]
        /\ s[1] - 1 \notin r[1]..r[2] /\ s[2] + 1 \notin r[1]..r[2]
    BY <1>1 DEF Runs
  <1>3. r[1] = s[1] /\ r[2] = s[2]
    BY <1>1, <1>2
  <1> QED
    BY <1>1, <1>3

LEMMA RunsCover ==
    ASSUME NEW ids \in SUBSET Nat, NEW k \in Nat, \A y \in ids : y <= k, NEW j \in ids
    PROVE  \E run \in Runs(ids) : j \in run[1]..run[2]
  <1> DEFINE Before == {x \in ids : x <= j /\ x..j \subseteq ids}
             After == {x \in ids : j <= x /\ j..x \subseteq ids}
  <1>1. j \in Before /\ j \in After /\ Before \in SUBSET Nat /\ After \in SUBSET Nat
    <2>1. j \in Nat /\ j <= j /\ j..j \subseteq ids
      OBVIOUS
    <2> QED
      BY <2>1
  <1>2. PICK lo \in Before : \A x \in Before : lo <= x
    BY <1>1, MinIn
  <1>3. PICK hi \in After : \A x \in After : x <= hi
    BY <1>1, MaxIn
  <1>4. lo..hi \subseteq ids /\ lo <= j /\ j <= hi
    <2> SUFFICES ASSUME NEW x \in lo..hi PROVE x \in ids
      OBVIOUS
    <2>1. CASE x <= j
      BY <2>1, <1>2
    <2>2. CASE j <= x
      BY <2>2, <1>3
    <2> QED
      BY <2>1, <2>2
  <1>5. lo - 1 \notin ids
    <2> SUFFICES ASSUME lo - 1 \in ids PROVE FALSE
      OBVIOUS
    <2>1. (lo - 1)..j \subseteq ids
      <3> SUFFICES ASSUME NEW x \in (lo - 1)..j PROVE x \in ids
        OBVIOUS
      <3>1. x = lo - 1 \/ x \in lo..j
        OBVIOUS
      <3> QED
        BY <3>1, <1>2
    <2> QED
      BY <2>1, <1>2
  <1>6. hi + 1 \notin ids
    <2> SUFFICES ASSUME hi + 1 \in ids PROVE FALSE
      OBVIOUS
    <2>1. j..(hi + 1) \subseteq ids
      <3> SUFFICES ASSUME NEW x \in j..(hi + 1) PROVE x \in ids
        OBVIOUS
      <3>1. x = hi + 1 \/ x \in j..hi
        OBVIOUS
      <3> QED
        BY <3>1, <1>3
    <2> QED
      BY <2>1, <1>3
  <1>7. <<lo, hi>> \in Runs(ids)
    BY <1>2, <1>3, <1>4, <1>5, <1>6 DEF Runs
  <1> QED
    BY <1>4, <1>7

-----------------------------------------------------------------------------
(* Assignment to the workers.                                              *)

(* As many workers precede one as there are places before it: an account    *)
(* has its worker.                                                          *)
LEMMA NodeOfIn ==
    ASSUME NEW S \in SUBSET Nat, IsFiniteSet(S), S # {}, NEW a \in Nat
    PROVE  NodeOf(a, S) \in S
  <1> DEFINE Before(n) == {m \in S : m < n}
             place == [n \in S |-> Cardinality(Before(n))]
             size == Cardinality(S)
  <1>1. size \in Nat /\ size # 0
    BY FS_CardinalityType, FS_EmptySet
  <1>2. \A n \in S : Before(n) \in SUBSET S /\ IsFiniteSet(Before(n)) /\ n \notin Before(n)
    BY FS_Subset
  <1>3. \A n \in S : Cardinality(Before(n)) \in 0 .. size - 1
    <2> SUFFICES ASSUME NEW n \in S PROVE Cardinality(Before(n)) \in 0 .. size - 1
      OBVIOUS
    <2>1. Cardinality(Before(n)) \in Nat
      BY <1>2, FS_CardinalityType
    <2>2. Cardinality(Before(n)) <= size /\ Before(n) # S
      BY <1>2, FS_Subset
    <2>3. Cardinality(Before(n)) # size
      BY <1>2, <2>2, FS_Subset
    <2> QED
      BY <1>1, <2>1, <2>2, <2>3
  <1>4. \A n, m \in S : n < m => Cardinality(Before(n)) # Cardinality(Before(m))
    <2> SUFFICES ASSUME NEW n \in S, NEW m \in S, n < m
                 PROVE  Cardinality(Before(n)) # Cardinality(Before(m))
      OBVIOUS
    <2>1. Before(n) \in SUBSET Before(m) /\ n \in Before(m) /\ n \notin Before(n)
      <3>1. n \in Nat /\ m \in Nat
        OBVIOUS
      <3>2. \A x \in S : x < n => x < m
        BY <3>1
      <3>3. n \in Before(m) /\ n \notin Before(n)
        BY <3>1
      <3> QED
        BY <3>2, <3>3
    <2>2. IsFiniteSet(Before(m))
      BY <1>2
    <2> HIDE DEF Before
    <2> QED
      BY <2>1, <2>2, FS_Subset
  <1>5. place \in Injection(S, 0 .. size - 1)
    <2>1. place \in [S -> 0 .. size - 1]
      BY <1>3
    <2>2. \A n, m \in S : place[n] = place[m] => n = m
      <3> SUFFICES ASSUME NEW n \in S, NEW m \in S, n # m PROVE place[n] # place[m]
        OBVIOUS
      <3>1. n < m \/ m < n
        OBVIOUS
      <3>2. Cardinality(Before(n)) # Cardinality(Before(m))
        BY <1>4, <3>1
      <3> QED
        BY <3>2
    <2> HIDE DEF place
    <2> QED
      BY <2>1, <2>2 DEF Injection, IsInjective
  <1>6. IsFiniteSet(0 .. size - 1) /\ Cardinality(0 .. size - 1) = size
    BY <1>1, FS_Interval
  <1>7. place \in Surjection(S, 0 .. size - 1)
    <2> HIDE DEF place
    <2> QED
      BY <1>5, <1>6, FS_Injection
  <1>8. a % size \in 0 .. size - 1
    BY <1>1
  <1>9. \E n \in S : place[n] = a % size
    <2> HIDE DEF place
    <2> QED
      BY <1>7, <1>8 DEF Surjection
  <1>10. \E n \in S : Cardinality({m \in S : m < n}) = a % Cardinality(S)
    BY <1>9
  <1> QED
    BY <1>10 DEF NodeOf

(* An order of a finite set is a sequence with each of its members once.    *)
LEMMA OrderOf ==
    ASSUME NEW S, IsFiniteSet(S), NEW order \in SetToSeqs(S)
    PROVE  /\ order \in Seq(S)
           /\ \A x \in S : \E i \in DOMAIN order : order[i] = x
           /\ \A i, k \in DOMAIN order : order[i] = order[k] => i = k
  <1> DEFINE places == 1 .. Cardinality(S)
  <1>1. order \in [places -> S] /\ \A i, k \in places : i # k => order[i] # order[k]
    BY DEF SetToSeqs
  <1>2. Cardinality(S) \in Nat
    BY FS_CardinalityType
  <1>3. order \in Seq(S)
    BY <1>1, <1>2
  <1>4. IsFiniteSet(places) /\ Cardinality(places) = Cardinality(S)
    BY <1>2, FS_Interval
  <1> HIDE DEF places
  <1>5. order \in Injection(places, S)
    BY <1>1 DEF Injection, IsInjective
  <1>6. order \in Surjection(places, S)
    BY <1>4, <1>5, FS_Injection
  <1>7. DOMAIN order = places /\ \A x \in S : \E i \in places : order[i] = x
    BY <1>1, <1>6 DEF Surjection
  <1> QED
    BY <1>1, <1>3, <1>7

-----------------------------------------------------------------------------
(* The rows of a batch that is assigned to workers.                         *)

JobsOf(batch, a) == {j \in batch : jobAccounts[j] = a}
AssignedRow(batch, row) ==
    \E a \in {jobAccounts[j] : j \in batch} : \E run \in Runs(JobsOf(batch, a)) :
        row = QueueRow(NodeOf(a, WorkerNodes(peers, leader)), run)
AssignedRows(batch) ==
    UNION {RowsOfAccount(JobsOf(batch, a), NodeOf(a, WorkerNodes(peers, leader))) :
              a \in {jobAccounts[j] : j \in batch}}

LEMMA AssignedRowsAre ==
    ASSUME NEW batch
    PROVE  \A row : row \in AssignedRows(batch) <=> AssignedRow(batch, row)
  BY DEF AssignedRows, AssignedRow, RowsOfAccount

LEMMA AssignedRowsFinite ==
    ASSUME NEW batch \in SUBSET Nat, IsFiniteSet(batch)
    PROVE  IsFiniteSet(AssignedRows(batch))
  <1> DEFINE row(p) == QueueRow(NodeOf(jobAccounts[p[1]], WorkerNodes(peers, leader)), p)
             rowAt == [p \in batch \X batch |-> row(p)]
             image == {rowAt[p] : p \in batch \X batch}
  <1>1. IsFiniteSet(batch \X batch)
    BY FS_Product
  <1>2. rowAt \in Surjection(batch \X batch, image)
    BY DEF Surjection
  <1>3. IsFiniteSet(image)
    <2> HIDE DEF rowAt, image
    <2> QED
      BY <1>1, <1>2, FS_Surjection
  <1>4. AssignedRows(batch) \subseteq image
    <2> SUFFICES ASSUME NEW r \in AssignedRows(batch) PROVE r \in image
      OBVIOUS
    <2>1. PICK a, run : /\ run \in Runs(JobsOf(batch, a))
                        /\ r = QueueRow(NodeOf(a, WorkerNodes(peers, leader)), run)
      BY AssignedRowsAre DEF AssignedRow
    <2>2. JobsOf(batch, a) \in SUBSET Nat /\ JobsOf(batch, a) \subseteq batch
      BY DEF JobsOf
    <2>3. run \in batch \X batch /\ jobAccounts[run[1]] = a
      <3>1. run = <<run[1], run[2]>> /\ run[1] \in JobsOf(batch, a) /\ run[2] \in JobsOf(batch, a)
        BY <2>1, <2>2, RunsWithin
      <3> QED
        BY <3>1 DEF JobsOf
    <2>4. r = rowAt[run]
      BY <2>1, <2>3
    <2> HIDE DEF rowAt
    <2> QED
      BY <2>3, <2>4
  <1> HIDE DEF image
  <1> QED
    BY <1>3, <1>4, FS_Subset

(* Each job of the batch is in the ids of one of its rows, which hold no    *)
(* other ids.                                                               *)
LEMMA AssignedRowsDivide ==
    ASSUME NEW batch \in SUBSET Nat, NEW k \in Nat, \A j \in batch : j <= k
    PROVE  /\ \A row \in AssignedRows(batch) :
                 /\ row.lower \in batch /\ row.upper \in batch
                 /\ IdsOf(row) \subseteq batch
                 /\ row.version = queueVersion
                 /\ row.node = NodeOf(jobAccounts[row.lower], WorkerNodes(peers, leader))
           /\ \A j \in batch : \E row \in AssignedRows(batch) : j \in IdsOf(row)
           /\ \A r, s \in AssignedRows(batch) : r = s \/ IdsOf(r) \cap IdsOf(s) = {}
  <1> DEFINE nodeOf(a) == NodeOf(a, WorkerNodes(peers, leader))
  <1>0. \A a : JobsOf(batch, a) \in SUBSET Nat /\ JobsOf(batch, a) \subseteq batch
    BY DEF JobsOf
  <1>1. ASSUME NEW row \in AssignedRows(batch)
        PROVE  \E a : \E run \in Runs(JobsOf(batch, a)) :
                   /\ row = [node |-> nodeOf(a), lower |-> run[1], upper |-> run[2],
                             version |-> queueVersion]
                   /\ run[1] \in JobsOf(batch, a) /\ run[2] \in JobsOf(batch, a)
                   /\ run[1]..run[2] \subseteq JobsOf(batch, a)
    <2>1. PICK a, run : run \in Runs(JobsOf(batch, a)) /\ row = QueueRow(nodeOf(a), run)
      BY AssignedRowsAre DEF AssignedRow
    <2>2. /\ run[1] \in JobsOf(batch, a) /\ run[2] \in JobsOf(batch, a)
          /\ run[1]..run[2] \subseteq JobsOf(batch, a)
      BY <1>0, <2>1, RunsWithin
    <2> QED
      BY <2>1, <2>2 DEF QueueRow
  <1>2. ASSUME NEW row \in AssignedRows(batch)
        PROVE  /\ row.lower \in batch /\ row.upper \in batch /\ IdsOf(row) \subseteq batch
               /\ row.version = queueVersion /\ row.node = nodeOf(jobAccounts[row.lower])
    <2>1. PICK a, run : /\ row = [node |-> nodeOf(a), lower |-> run[1], upper |-> run[2],
                                  version |-> queueVersion]
                        /\ run[1] \in JobsOf(batch, a) /\ run[2] \in JobsOf(batch, a)
                        /\ run[1]..run[2] \subseteq JobsOf(batch, a)
      BY <1>1
    <2>2. row.lower = run[1] /\ row.upper = run[2] /\ row.version = queueVersion /\ row.node = nodeOf(a)
      BY <2>1
    <2>3. jobAccounts[run[1]] = a
      BY <2>1 DEF JobsOf
    <2> QED
      BY <1>0, <2>1, <2>2, <2>3 DEF IdsOf
  <1>3. ASSUME NEW j \in batch
        PROVE  \E row \in AssignedRows(batch) : j \in IdsOf(row)
    <2> DEFINE a == jobAccounts[j]
    <2>1. j \in JobsOf(batch, a) /\ \A y \in JobsOf(batch, a) : y <= k
      BY DEF JobsOf
    <2>2. PICK run \in Runs(JobsOf(batch, a)) : j \in run[1]..run[2]
      BY <1>0, <2>1, RunsCover
    <2>3. QueueRow(nodeOf(a), run) \in AssignedRows(batch)
      BY AssignedRowsAre DEF AssignedRow
    <2> QED
      BY <2>2, <2>3 DEF QueueRow, IdsOf
  <1>4. ASSUME NEW r \in AssignedRows(batch), NEW s \in AssignedRows(batch),
               NEW j \in IdsOf(r), j \in IdsOf(s)
        PROVE  r = s
    <2>1. PICK a, p :
              /\ p \in Runs(JobsOf(batch, a))
              /\ r = [node |-> nodeOf(a), lower |-> p[1], upper |-> p[2], version |-> queueVersion]
              /\ p[1]..p[2] \subseteq JobsOf(batch, a)
      BY <1>1
    <2>2. PICK b, q :
              /\ q \in Runs(JobsOf(batch, b))
              /\ s = [node |-> nodeOf(b), lower |-> q[1], upper |-> q[2], version |-> queueVersion]
              /\ q[1]..q[2] \subseteq JobsOf(batch, b)
      BY <1>1
    <2>3. j \in p[1]..p[2] /\ j \in q[1]..q[2]
      BY <1>4, <2>1, <2>2 DEF IdsOf
    <2>4. a = b
      BY <2>1, <2>2, <2>3 DEF JobsOf
    <2>5. p = q
      BY <1>0, <2>1, <2>2, <2>3, <2>4, RunsApart
    <2> QED
      BY <2>1, <2>2, <2>4, <2>5
  <1> QED
    BY <1>2, <1>3, <1>4

LEMMA AssignedOrder ==
    ASSUME NEW batch \in SUBSET Nat, IsFiniteSet(batch),
           NEW order \in AssignJobsByAccountToServers(batch)
    PROVE  /\ order \in Seq(AssignedRows(batch))
           /\ RowsIn(order) = AssignedRows(batch)
           /\ \A i, k \in DOMAIN order : order[i] = order[k] => i = k
  <1>1. order \in SetToSeqs(AssignedRows(batch))
    BY DEF AssignJobsByAccountToServers, AssignedRows, JobsOf
  <1> QED
    BY <1>1, AssignedRowsFinite, OrderOf DEF RowsIn

-----------------------------------------------------------------------------
(* Types.                                                                  *)

ClusterTyped ==
    /\ servers \subseteq QueueNode /\ peers \subseteq QueueNode
    /\ leader \in peers \cup {0} /\ single \in [QueueNode -> BOOLEAN]
    /\ deposed \subseteq peers \ {leader} /\ resumed \in BOOLEAN /\ outages \in 0..MaxOutages
QueueTyped ==
    /\ jobAccounts \in Seq(Account) /\ inactive \subseteq DOMAIN jobAccounts
    /\ Len(jobAccounts) <= MaxJobs
    /\ starting \in [increment : BOOLEAN, todo : SUBSET Account]
    /\ unqueued \subseteq SUBSET DOMAIN jobAccounts
    /\ inserting \in Seq(JobQueueLog) /\ jobQueues \in Seq(JobQueueLog)
    /\ queueVersion \in Nat
ExecutorsTyped ==
    /\ posted \in [QueueNode -> SUBSET PostProcess]
    /\ scheduled \in [QueueNode -> SUBSET DOMAIN jobAccounts]

LEMMA TypeParts ==
    JobAssignmentTypeOK /\ Len(jobAccounts) <= MaxJobs
    <=> ClusterTyped /\ QueueTyped /\ ExecutorsTyped
  BY DEF JobAssignmentTypeOK, ClusterTyped, QueueTyped, ExecutorsTyped

LEMMA ClusterStep ==
    ASSUME ClusterTyped, JobAssignmentNext
    PROVE  ClusterTyped'
  <1> USE JobAssignmentAssumption
  <1>1. ASSUME NEW n \in QueueNode, Elected(n) PROVE ClusterTyped'
    <2>1. single' \in [QueueNode -> BOOLEAN]
      BY <1>1 DEF Elected, HandleLeadership, ClusterTyped
    <2>2. outages' \in 0..MaxOutages
      BY <1>1 DEF Elected, ClusterTyped
    <2>3. leader' \in peers' /\ deposed' \subseteq peers' \ {leader'}
      BY <1>1 DEF Elected, ClusterTyped
    <2> QED
      BY <1>1, <2>1, <2>2, <2>3 DEF Elected, ClusterTyped
  <1>2. ASSUME NEW n \in QueueNode, Deposed(n) PROVE ClusterTyped'
    <2>1. single' \in [QueueNode -> BOOLEAN]
      BY <1>2 DEF Deposed, HandleLeadership, ClusterTyped
    <2> QED
      BY <1>2, <2>1 DEF Deposed, ClusterTyped
  <1>3. ASSUME NEW n \in QueueNode, PeerJoins(n) \/ PeerRemoved(n) \/ NodeReturns(n) PROVE ClusterTyped'
    BY <1>3 DEF PeerJoins, PeerRemoved, NodeReturns, ClusterTyped
  <1>4. ASSUME NEW n \in QueueNode, NodeFails(n) PROVE ClusterTyped'
    <2>1. single' \in [QueueNode -> BOOLEAN] /\ outages' \in 0..MaxOutages
      BY <1>4 DEF NodeFails, ClusterTyped
    <2>2. leader' \in peers' \cup {0} /\ deposed' \subseteq peers' \ {leader'}
      <3>1. CASE leader # 0 /\ (n = leader \/ ~Quorum(peers'))
        <4>1. leader' = 0 /\ deposed' = (deposed \cup {leader}) \ {n} /\ peers' = peers \ {n}
          BY <1>4, <3>1 DEF NodeFails
        <4> QED
          BY <3>1, <4>1 DEF ClusterTyped
      <3>2. CASE ~(leader # 0 /\ (n = leader \/ ~Quorum(peers')))
        <4>1. leader' = leader /\ deposed' = deposed \ {n} /\ peers' = peers \ {n}
          BY <1>4, <3>2 DEF NodeFails
        <4> QED
          BY <1>4, <3>2, <4>1 DEF ClusterTyped
      <3> QED
        BY <3>1, <3>2
    <2> QED
      BY <1>4, <2>1, <2>2 DEF NodeFails, ClusterTyped
  <1>5. ASSUME RecoverOnWorkerNodes PROVE ClusterTyped'
    BY <1>5 DEF RecoverOnWorkerNodes, ClusterTyped
  <1>6. ASSUME UNCHANGED clusterVars PROVE ClusterTyped'
    BY <1>6 DEF clusterVars, ClusterTyped
  <1>7. ASSUME NEW n \in QueueNode, NEW call \in posted[n], QueueExecutions(n, call) PROVE ClusterTyped'
    BY <1>6, <1>7 DEF QueueExecutions
  <1>8. CASE BatchInsertJobs \/ InsertJobQueueLogs \/ IncrementQueueVersion
    BY <1>6, <1>8 DEF BatchInsertJobs, InsertJobQueueLogs, IncrementQueueVersion
  <1>9. ASSUME NEW batch, QueueJobs(batch) PROVE ClusterTyped'
    BY <1>6, <1>9 DEF QueueJobs
  <1>10. ASSUME NEW a, StartProject(a) \/ UpdateJobToInactive(a) PROVE ClusterTyped'
    BY <1>6, <1>10 DEF StartProject, UpdateJobToInactive
  <1> QED
    BY <1>1, <1>2, <1>3, <1>4, <1>5, <1>7, <1>8, <1>9, <1>10 DEF JobAssignmentNext

-----------------------------------------------------------------------------
(* What Queue leaves to insert.                                            *)

LEMMA Queued ==
    ASSUME ClusterTyped, QueueTyped, leader # 0,
           NEW batch \in SUBSET DOMAIN jobAccounts, Queue(batch)
    PROVE  /\ inserting = <<>> /\ inserting' \in Seq(JobQueueLog)
           /\ \A row \in RowsIn(inserting') :
                 /\ row.lower \in batch /\ row.upper \in batch /\ row.version = queueVersion
                 /\ single[leader] => row.node = leader
                 /\ IsRange(batch) => IdsOf(row) \subseteq batch
           /\ OwnersApart(RowsIn(inserting'))
  <1> USE JobAssignmentAssumption
  <1>1. inserting = <<>> /\ RowsIn(<<>>) = {}
    BY DEF Queue, RowsIn
  <1>2. /\ leader \in peers /\ leader \in QueueNode
        /\ batch \in SUBSET Nat /\ batch \subseteq JobId /\ \A j \in batch : j <= Len(jobAccounts)
        /\ Len(jobAccounts) \in Nat
    BY DEF ClusterTyped, QueueTyped, JobId
  <1>3. CASE batch = {}
    <2>1. inserting' = <<>>
      BY <1>1, <1>3 DEF Queue
    <2> QED
      BY <1>1, <2>1 DEF OwnersApart
  <1>4. CASE batch # {} /\ single[leader]
    <2> DEFINE row == QueueRow(leader, <<Min(batch), Max(batch)>>)
    <2>1. inserting' = <<row>>
      BY <1>4 DEF Queue
    <2>2. Min(batch) \in batch /\ Max(batch) \in batch
      BY <1>2, <1>4, MinIn, MaxIn
    <2>3. row = [node |-> leader, lower |-> Min(batch), upper |-> Max(batch), version |-> queueVersion]
      BY DEF QueueRow
    <2>4. row \in JobQueueLog
      BY <1>2, <2>2, <2>3 DEF JobQueueLog, QueueTyped
    <2>5. IsRange(batch) => Min(batch)..Max(batch) \subseteq batch
      BY MinMaxOfRange DEF IsRange
    <2> HIDE DEF row
    <2>6. RowsIn(<<row>>) = {row}
      BY DEF RowsIn
    <2> QED
      BY <1>1, <2>1, <2>2, <2>3, <2>4, <2>5, <2>6 DEF OwnersApart, IdsOf
  <1>5. CASE batch # {} /\ ~single[leader]
    <2>1. inserting' \in AssignJobsByAccountToServers(batch)
      BY <1>5 DEF Queue
    <2>2. IsFiniteSet(batch)
      BY <1>2, FS_BoundedSetOfNaturals
    <2>3. inserting' \in Seq(AssignedRows(batch)) /\ RowsIn(inserting') = AssignedRows(batch)
      BY <1>2, <2>1, <2>2, AssignedOrder
    <2>4. /\ \A row \in AssignedRows(batch) :
                 /\ row.lower \in batch /\ row.upper \in batch
                 /\ IdsOf(row) \subseteq batch /\ row.version = queueVersion
          /\ OwnersApart(AssignedRows(batch))
      BY <1>2, AssignedRowsDivide DEF OwnersApart
    <2>5. AssignedRows(batch) \subseteq JobQueueLog
      <3> DEFINE workers == WorkerNodes(peers, leader)
      <3>1. workers \in SUBSET Nat /\ IsFiniteSet(workers) /\ workers # {} /\ workers \subseteq QueueNode
        <4>1. workers \subseteq QueueNode /\ workers # {}
          BY <1>2 DEF WorkerNodes, ClusterTyped
        <4> QED
          BY <4>1, FS_Subset
      <3> HIDE DEF workers
      <3> SUFFICES ASSUME NEW r \in AssignedRows(batch) PROVE r \in JobQueueLog
        OBVIOUS
      <3>2. PICK a, run : /\ a \in {jobAccounts[j] : j \in batch} /\ run \in Runs(JobsOf(batch, a))
                          /\ r = QueueRow(NodeOf(a, workers), run)
        BY AssignedRowsAre DEF AssignedRow, workers
      <3>3. a \in Nat
        <4>1. PICK j \in DOMAIN jobAccounts : a = jobAccounts[j]
          BY <3>2
        <4>2. jobAccounts[j] \in Account
          BY DEF QueueTyped
        <4> QED
          BY <4>1, <4>2
      <3>4. NodeOf(a, workers) \in QueueNode
        BY <3>1, <3>3, NodeOfIn
      <3>5. run[1] \in JobId /\ run[2] \in JobId
        <4>1. JobsOf(batch, a) \in SUBSET Nat /\ JobsOf(batch, a) \subseteq JobId
          BY <1>2 DEF JobsOf
        <4> QED
          BY <3>2, <4>1, RunsWithin
      <3> QED
        BY <3>2, <3>4, <3>5 DEF QueueRow, JobQueueLog, QueueTyped
    <2>6. inserting' \in Seq(JobQueueLog)
      BY <2>3, <2>5
    <2> QED
      BY <1>1, <1>5, <2>3, <2>4, <2>6
  <1> QED
    BY <1>3, <1>4, <1>5

-----------------------------------------------------------------------------
(* Steps.                                                                  *)

LEMMA ChunkIs ==
    ASSUME QueueTyped, inserting # <<>>
    PROVE  LET n == Len(Chunk)
               rest == SubSeq(inserting, n + 1, Len(inserting))
           IN  /\ n \in 1..RowsPerCommand /\ Chunk \in Seq(JobQueueLog) /\ rest \in Seq(JobQueueLog)
               /\ RowsIn(jobQueues \o Chunk) \cup RowsIn(rest) = RowsIn(jobQueues) \cup RowsIn(inserting)
               /\ RowsIn(rest) \subseteq RowsIn(inserting)
               /\ RowsIn(jobQueues \o Chunk) \subseteq RowsIn(jobQueues) \cup RowsIn(inserting)
  <1> USE JobAssignmentAssumption
  <1> DEFINE len == Len(inserting)
             k == Min({RowsPerCommand, Len(inserting)})
  <1>1. len \in Nat /\ len >= 1 /\ inserting \in Seq(JobQueueLog) /\ jobQueues \in Seq(JobQueueLog)
    BY DEF QueueTyped
  <1>2. k \in 1..RowsPerCommand /\ k <= len
    <2>1. {RowsPerCommand, len} \in SUBSET Nat
      BY <1>1
    <2>2. k \in {RowsPerCommand, len} /\ k <= RowsPerCommand /\ k <= len
      BY <2>1, MinIn
    <2> QED
      BY <1>1, <2>2
  <1> HIDE DEF k
  <1>3. /\ Chunk = SubSeq(inserting, 1, k) /\ Chunk \in Seq(JobQueueLog) /\ Len(Chunk) = k
        /\ \A i \in 1..k : Chunk[i] = inserting[i]
    <2>1. Chunk = SubSeq(inserting, 1, k)
      BY DEF Chunk, k
    <2> QED
      BY <1>1, <1>2, <2>1
  <1> DEFINE rest == SubSeq(inserting, k + 1, len)
  <1>4. /\ rest \in Seq(JobQueueLog) /\ Len(rest) = len - k
        /\ \A i \in 1..(len - k) : rest[i] = inserting[k + i]
    BY <1>1, <1>2
  <1>5. RowsIn(rest) \subseteq RowsIn(inserting)
    <2> SUFFICES ASSUME NEW i \in 1..(len - k) PROVE rest[i] \in RowsIn(inserting)
      BY <1>4 DEF RowsIn
    <2>1. k + i \in DOMAIN inserting
      BY <1>1, <1>2
    <2> HIDE DEF rest
    <2> QED
      BY <1>4, <2>1 DEF RowsIn
  <1> HIDE DEF rest
  <1>6. RowsIn(Chunk) \cup RowsIn(rest) = RowsIn(inserting)
    <2>1. RowsIn(Chunk) \subseteq RowsIn(inserting)
      <3> SUFFICES ASSUME NEW i \in 1..k PROVE Chunk[i] \in RowsIn(inserting)
        BY <1>3 DEF RowsIn
      <3>1. i \in DOMAIN inserting
        BY <1>1, <1>2
      <3> QED
        BY <1>3, <3>1 DEF RowsIn
    <2>2. RowsIn(inserting) \subseteq RowsIn(Chunk) \cup RowsIn(rest)
      <3> SUFFICES ASSUME NEW i \in 1..len PROVE inserting[i] \in RowsIn(Chunk) \cup RowsIn(rest)
        BY <1>1 DEF RowsIn
      <3>1. CASE i <= k
        <4>1. i \in DOMAIN Chunk /\ Chunk[i] = inserting[i]
          BY <1>2, <1>3, <3>1
        <4> QED
          BY <4>1 DEF RowsIn
      <3>2. CASE i > k
        <4>1. i - k \in DOMAIN rest /\ rest[i - k] = inserting[i]
          BY <1>1, <1>2, <1>4, <3>2
        <4> QED
          BY <4>1 DEF RowsIn
      <3> QED
        BY <1>2, <3>1, <3>2
    <2> QED
      BY <1>5, <2>1, <2>2
  <1>7. RowsIn(jobQueues \o Chunk) = RowsIn(jobQueues) \cup RowsIn(Chunk)
    <2>1. \A row : row \in RowsIn(jobQueues \o Chunk) => row \in RowsIn(jobQueues) \cup RowsIn(Chunk)
      <3> SUFFICES ASSUME NEW i \in 1..(Len(jobQueues) + k)
                   PROVE  (jobQueues \o Chunk)[i] \in RowsIn(jobQueues) \cup RowsIn(Chunk)
        BY <1>1, <1>3 DEF RowsIn
      <3>1. CASE i <= Len(jobQueues)
        BY <1>1, <1>3, <3>1 DEF RowsIn
      <3>2. CASE i > Len(jobQueues)
        <4> DEFINE at == i - Len(jobQueues)
        <4>1. at \in DOMAIN Chunk /\ (jobQueues \o Chunk)[i] = Chunk[at]
          BY <1>1, <1>2, <1>3, <3>2
        <4> HIDE DEF at
        <4> QED
          BY <4>1 DEF RowsIn
      <3>3. i <= Len(jobQueues) \/ i > Len(jobQueues)
        <4>1. i \in Nat /\ Len(jobQueues) \in Nat
          BY <1>1, <1>2
        <4> QED
          BY <4>1
      <3> QED
        BY <3>1, <3>2, <3>3
    <2>2. \A i \in DOMAIN jobQueues : jobQueues[i] \in RowsIn(jobQueues \o Chunk)
      <3> SUFFICES ASSUME NEW i \in DOMAIN jobQueues PROVE jobQueues[i] \in RowsIn(jobQueues \o Chunk)
        OBVIOUS
      <3>1. i \in DOMAIN (jobQueues \o Chunk) /\ (jobQueues \o Chunk)[i] = jobQueues[i]
        BY <1>1, <1>2, <1>3
      <3> QED
        BY <3>1 DEF RowsIn
    <2>3. \A i \in DOMAIN Chunk : Chunk[i] \in RowsIn(jobQueues \o Chunk)
      <3> SUFFICES ASSUME NEW i \in 1..k PROVE Chunk[i] \in RowsIn(jobQueues \o Chunk)
        BY <1>3
      <3> DEFINE at == Len(jobQueues) + i
      <3>1. at \in DOMAIN (jobQueues \o Chunk) /\ (jobQueues \o Chunk)[at] = Chunk[i]
        BY <1>1, <1>2, <1>3
      <3> QED
        BY <3>1 DEF RowsIn
    <2> QED
      BY <2>1, <2>2, <2>3 DEF RowsIn
  <1> QED
    BY <1>2, <1>3, <1>4, <1>5, <1>6, <1>7 DEF rest
LEMMA RowsShrink ==
    ASSUME RowsOK, BatchesOK, jobAccounts' = jobAccounts, queueVersion' = queueVersion,
           AllRows' \subseteq AllRows, RowsIn(inserting)' \subseteq RowsIn(inserting),
           unqueued' \subseteq unqueued
    PROVE  RowsOK' /\ BatchesOK' /\ CurrentRows' \subseteq CurrentRows
  <1>1. CurrentRows' \subseteq CurrentRows
    BY DEF CurrentRows
  <1>2. RowsOK'
    BY <1>1 DEF RowsOK, OwnersApart
  <1>3. BatchesOK'
    BY <1>1 DEF BatchesOK
  <1> QED
    BY <1>1, <1>2, <1>3

(* Rows of a batch are apart from those of the version, or all are of a     *)
(* leader that starts alone.                                                *)
LEMMA RowsQueued ==
    ASSUME ClusterTyped, QueueTyped, RowsOK, BatchesOK, leader # 0,
           NEW batch \in SUBSET DOMAIN jobAccounts, Queue(batch),
           UNCHANGED <<jobAccounts, jobQueues, queueVersion>>, unqueued' \subseteq unqueued,
           \/ /\ IsRange(batch) /\ \A row \in CurrentRows : batch \cap IdsOf(row) = {}
              /\ \A b \in unqueued' : b \cap batch = {}
           \/ /\ unqueued' = {} /\ single[leader]
              /\ \A row \in CurrentRows : row.node = leader
    PROVE  /\ RowsOK' /\ BatchesOK'
           /\ single[leader] /\ (\A row \in CurrentRows : row.node = leader)
              => \A row \in CurrentRows' : row.node = leader
  <1> DEFINE new == RowsIn(inserting')
  <1>1. /\ inserting = <<>>
        /\ \A row \in new :
              /\ row.lower \in batch /\ row.upper \in batch /\ row.version = queueVersion
              /\ single[leader] => row.node = leader
              /\ IsRange(batch) => IdsOf(row) \subseteq batch
        /\ OwnersApart(new)
    BY Queued
  <1>2. AllRows = RowsIn(jobQueues) /\ AllRows' = AllRows \cup new
    BY <1>1 DEF AllRows, RowsIn
  <1>3. CurrentRows' = CurrentRows \cup new /\ queueVersion' = queueVersion
    BY <1>1, <1>2 DEF CurrentRows
  <1>4. RowsIn(inserting)' = new
    OBVIOUS
  <1> HIDE DEF new
  <1>5. OwnersApart(CurrentRows \cup new)
    <2>1. CASE IsRange(batch) /\ \A row \in CurrentRows : batch \cap IdsOf(row) = {}
      <3>1. \A r \in CurrentRows, s \in new : IdsOf(r) \cap IdsOf(s) = {} /\ IdsOf(s) \cap IdsOf(r) = {}
        BY <1>1, <2>1
      <3> QED
        BY <1>1, <3>1 DEF OwnersApart, RowsOK
    <2>2. CASE single[leader] /\ \A row \in CurrentRows : row.node = leader
      BY <1>1, <2>2 DEF OwnersApart
    <2> QED
      BY <2>1, <2>2
  <1>6. RowsOK'
    <2>1. \A row \in AllRows \cup new : /\ row.lower \in DOMAIN jobAccounts /\ row.upper \in DOMAIN jobAccounts
                                       /\ row.version <= queueVersion
      BY <1>1 DEF RowsOK, QueueTyped
    <2> QED
      BY <1>1, <1>2, <1>3, <1>4, <1>5, <2>1 DEF RowsOK
  <1>7. BatchesOK'
    <2>1. CASE unqueued' = {}
      BY <2>1 DEF BatchesOK
    <2>2. CASE /\ IsRange(batch) /\ \A b \in unqueued' : b \cap batch = {}
      <3>1. \A b \in unqueued' : \A row \in CurrentRows \cup new : b \cap IdsOf(row) = {}
        BY <1>1, <2>2 DEF BatchesOK
      <3> QED
        BY <1>3, <3>1 DEF BatchesOK
    <2> QED
      BY <2>1, <2>2
  <1> QED
    BY <1>1, <1>3, <1>6, <1>7

LEMMA QueueStep ==
    ASSUME AssignmentInv, JobAssignmentNext
    PROVE  RowsOK' /\ BatchesOK' /\ StartsAlone'
  <1>0. ClusterTyped /\ QueueTyped /\ ExecutorsTyped /\ RowsOK /\ BatchesOK /\ StartsAlone
    BY TypeParts DEF AssignmentInv
  <1>1. ASSUME UNCHANGED <<jobAccounts, queueVars, queueRowVars, leader>>,
               leader # 0 => single'[leader] = single[leader]
        PROVE  RowsOK' /\ BatchesOK' /\ StartsAlone'
    <2>1. /\ RowsOK' /\ BatchesOK' /\ CurrentRows' \subseteq CurrentRows
      BY <1>0, <1>1, RowsShrink DEF AllRows, queueVars, queueRowVars
    <2> QED
      BY <1>0, <1>1, <2>1 DEF StartsAlone, queueVars, NotStarting
  <1>2. ASSUME NEW n \in QueueNode, Elected(n) PROVE RowsOK' /\ BatchesOK' /\ StartsAlone'
    <2>1. /\ leader' = n /\ n # 0 /\ unqueued' = {} /\ inserting' = <<>>
          /\ jobQueues' = jobQueues /\ jobAccounts' = jobAccounts /\ queueVersion' = queueVersion
      BY <1>2, JobAssignmentAssumption DEF Elected, queueRowVars, jobVars
    <2>2. RowsIn(inserting)' = {} /\ AllRows' \subseteq AllRows
      BY <2>1 DEF AllRows, RowsIn
    <2>3. RowsOK' /\ BatchesOK'
      BY <1>0, <2>1, <2>2, RowsShrink
    <2>4. StartsAlone'
      <3>1. CASE Cardinality(servers) = 1
        <4>1. single'[n] /\ starting' = [increment |-> TRUE, todo |-> {}]
          BY <1>0, <1>2, <3>1 DEF Elected, HandleLeadership, ClusterTyped
        <4> QED
          BY <2>1, <4>1 DEF StartsAlone
      <3>2. CASE Cardinality(servers) # 1
        <4>1. starting' = NotStarting
          BY <1>2, <3>2 DEF Elected
        <4> QED
          BY <2>1, <4>1 DEF StartsAlone, NotStarting
      <3> QED
        BY <3>1, <3>2
    <2> QED
      BY <2>3, <2>4
  <1>3. ASSUME NEW n \in QueueNode, Deposed(n) PROVE RowsOK' /\ BatchesOK' /\ StartsAlone'
    <2>1. n # leader
      BY <1>0, <1>3 DEF Deposed, ClusterTyped
    <2>2. leader # 0 => single'[leader] = single[leader]
      BY <1>0, <1>3, <2>1 DEF Deposed, HandleLeadership, ClusterTyped
    <2> QED
      BY <1>1, <1>3, <2>2 DEF Deposed, jobVars
  <1>4. ASSUME NEW n \in QueueNode, PeerJoins(n) \/ PeerRemoved(n) \/ NodeReturns(n)
        PROVE  RowsOK' /\ BatchesOK' /\ StartsAlone'
    BY <1>1, <1>4 DEF PeerJoins, PeerRemoved, NodeReturns, jobVars
  <1>5. ASSUME NEW n \in QueueNode, NodeFails(n) PROVE RowsOK' /\ BatchesOK' /\ StartsAlone'
    <2>1. CASE leader # 0 /\ (n = leader \/ ~Quorum(peers'))
      <3>1. /\ leader' = 0 /\ unqueued' = {} /\ inserting' = <<>> /\ starting' = NotStarting
            /\ jobQueues' = jobQueues /\ jobAccounts' = jobAccounts /\ queueVersion' = queueVersion
        BY <1>5, <2>1 DEF NodeFails, queueRowVars, jobVars
      <3>2. RowsIn(inserting)' = {} /\ AllRows' \subseteq AllRows
        BY <3>1 DEF AllRows, RowsIn
      <3>3. RowsOK' /\ BatchesOK'
        BY <1>0, <3>1, <3>2, RowsShrink
      <3>4. StartsAlone'
        BY <3>1 DEF StartsAlone, NotStarting
      <3> QED
        BY <3>3, <3>4
    <2>2. CASE ~(leader # 0 /\ (n = leader \/ ~Quorum(peers')))
      <3>1. UNCHANGED <<jobAccounts, queueVars, queueRowVars, leader>>
        BY <1>5, <2>2 DEF NodeFails, jobVars
      <3>2. leader # 0 => single'[leader] = single[leader]
        BY <1>0, <1>5, <2>2 DEF NodeFails, ClusterTyped
      <3> QED
        BY <1>1, <3>1, <3>2
    <2> QED
      BY <2>1, <2>2
  <1>6. ASSUME NEW n \in QueueNode, NEW call \in posted[n], QueueExecutions(n, call)
        PROVE  RowsOK' /\ BatchesOK' /\ StartsAlone'
    BY <1>1, <1>6 DEF QueueExecutions, jobVars, clusterVars
  <1>7. ASSUME RecoverOnWorkerNodes \/ \E j \in JobId : UpdateJobToInactive(j)
        PROVE  RowsOK' /\ BatchesOK' /\ StartsAlone'
    BY <1>1, <1>7 DEF RecoverOnWorkerNodes, UpdateJobToInactive, jobVars, clusterVars
  <1>8. CASE BatchInsertJobs
    <2>1. PICK k \in 1..MaxBatch : \E batch \in [1..k -> Account] :
              /\ jobAccounts' = jobAccounts \o batch
              /\ unqueued' = unqueued \cup {(Len(jobAccounts) + 1)..(Len(jobAccounts) + k)}
      BY <1>8 DEF BatchInsertJobs
    <2>11. PICK batch \in [1..k -> Account] :
              /\ jobAccounts' = jobAccounts \o batch
              /\ unqueued' = unqueued \cup {(Len(jobAccounts) + 1)..(Len(jobAccounts) + k)}
      BY <2>1
    <2> DEFINE len == Len(jobAccounts)
               new == (len + 1)..(len + k)
    <2>2. /\ leader # 0 /\ starting = NotStarting /\ inserting = <<>>
          /\ UNCHANGED <<leader, single, starting, inserting, jobQueues, queueVersion>>
      BY <1>8 DEF BatchInsertJobs, clusterVars, queueRowVars
    <2>3. /\ len \in Nat /\ DOMAIN jobAccounts = 1..len /\ IsRange(new)
          /\ \A x \in new : x > len
      BY <1>0, JobAssignmentAssumption DEF QueueTyped, IsRange
    <2>4. DOMAIN jobAccounts \subseteq DOMAIN jobAccounts'
      <3>1. batch \in Seq(Account) /\ jobAccounts \in Seq(Account)
        BY <1>0, JobAssignmentAssumption DEF QueueTyped
      <3> QED
        BY <2>11, <3>1
    <2> HIDE DEF new
    <2>5. AllRows' = AllRows /\ CurrentRows' = CurrentRows /\ RowsIn(inserting)' = RowsIn(inserting)
      BY <2>2 DEF AllRows, CurrentRows
    <2>6. RowsOK'
      BY <1>0, <2>2, <2>4, <2>5 DEF RowsOK
    <2>7. \A row \in CurrentRows : new \cap IdsOf(row) = {}
      <3> SUFFICES ASSUME NEW row \in CurrentRows, NEW x \in new, x \in IdsOf(row) PROVE FALSE
        OBVIOUS
      <3>1. row.lower \in 1..len /\ row.upper \in 1..len
        BY <1>0, <2>3 DEF RowsOK, CurrentRows
      <3> QED
        BY <2>3, <3>1 DEF IdsOf
    <2>8. \A b \in unqueued : b \cap new = {}
      BY <1>0, <2>3 DEF QueueTyped
    <2>9. BatchesOK'
      <3>1. unqueued' = unqueued \cup {new}
        BY <2>11 DEF new
      <3> QED
        BY <1>0, <2>3, <2>5, <2>7, <2>8, <3>1 DEF BatchesOK
    <2>10. StartsAlone'
      BY <2>2 DEF StartsAlone, NotStarting
    <2> QED
      BY <2>6, <2>9, <2>10
  <1>9. ASSUME NEW batch \in unqueued, QueueJobs(batch) PROVE RowsOK' /\ BatchesOK' /\ StartsAlone'
    <2>1. /\ Queue(batch) /\ unqueued' = unqueued \ {batch}
          /\ UNCHANGED <<jobAccounts, jobQueues, queueVersion, leader, single, starting>>
      BY <1>9 DEF QueueJobs, clusterVars, queueRowVars, jobVars
    <2>2. leader # 0 /\ starting = NotStarting
      BY <1>0 DEF StartsAlone
    <2>3. batch \in SUBSET DOMAIN jobAccounts /\ IsRange(batch)
      BY <1>0 DEF QueueTyped, BatchesOK
    <2>4. /\ \A row \in CurrentRows : batch \cap IdsOf(row) = {}
          /\ \A b \in unqueued' : b \cap batch = {}
      BY <1>0, <2>1 DEF BatchesOK
    <2>5. RowsOK' /\ BatchesOK'
      BY <1>0, <2>1, <2>2, <2>3, <2>4, RowsQueued
    <2>6. StartsAlone'
      BY <2>1, <2>2 DEF StartsAlone, NotStarting
    <2> QED
      BY <2>5, <2>6
  <1>10. CASE InsertJobQueueLogs
    <2>1. /\ leader # 0 /\ inserting # <<>>
          /\ inserting' = SubSeq(inserting, Len(Chunk) + 1, Len(inserting))
          /\ jobQueues' = jobQueues \o Chunk
          /\ UNCHANGED <<jobAccounts, unqueued, queueVersion, leader, single, starting>>
      BY <1>10 DEF InsertJobQueueLogs, clusterVars, jobVars
    <2>2. /\ AllRows' = AllRows /\ RowsIn(inserting)' \subseteq RowsIn(inserting)
      BY <1>0, <2>1, ChunkIs DEF AllRows
    <2>3. RowsOK' /\ BatchesOK' /\ CurrentRows' \subseteq CurrentRows
      BY <1>0, <2>1, <2>2, RowsShrink
    <2> QED
      BY <1>0, <2>1, <2>3 DEF StartsAlone, NotStarting
  <1>11. CASE IncrementQueueVersion
    <2>1. /\ starting.increment /\ queueVersion' = queueVersion + 1
          /\ starting'.increment = FALSE
          /\ UNCHANGED <<jobAccounts, unqueued, inserting, jobQueues, leader, single>>
      BY <1>11 DEF IncrementQueueVersion, VersionAtStart, clusterVars, jobVars
    <2>2. /\ starting # NotStarting /\ inserting = <<>> /\ unqueued = {} /\ leader # 0 /\ single[leader]
      BY <1>0, <2>1 DEF StartsAlone, NotStarting
    <2>3. AllRows' = AllRows /\ RowsIn(inserting)' = {}
      BY <2>1, <2>2 DEF AllRows, RowsIn
    <2>4. queueVersion \in Nat /\ \A row \in AllRows : row.version \in Nat
      <3>1. jobQueues \in Seq(JobQueueLog) /\ inserting \in Seq(JobQueueLog) /\ queueVersion \in Nat
        BY <1>0 DEF QueueTyped
      <3>2. AllRows \subseteq JobQueueLog
        BY <3>1 DEF AllRows, RowsIn
      <3> QED
        BY <3>1, <3>2 DEF JobQueueLog
    <2>5. CurrentRows' = {}
      BY <1>0, <2>1, <2>3, <2>4 DEF CurrentRows, RowsOK
    <2>6. RowsOK'
      BY <1>0, <2>1, <2>3, <2>4, <2>5 DEF RowsOK, OwnersApart
    <2>7. BatchesOK'
      BY <2>1, <2>2 DEF BatchesOK
    <2>8. StartsAlone'
      BY <2>1, <2>2, <2>5 DEF StartsAlone
    <2> QED
      BY <2>6, <2>7, <2>8
  <1>12. ASSUME NEW a \in Account, StartProject(a) PROVE RowsOK' /\ BatchesOK' /\ StartsAlone'
    <2>1. /\ a \in starting.todo /\ Queue(ActiveOf(a))
          /\ starting' = [starting EXCEPT !.todo = @ \ {a}]
          /\ UNCHANGED <<jobAccounts, jobQueues, queueVersion, leader, single, unqueued>>
      BY <1>12 DEF StartProject, clusterVars, queueRowVars, jobVars
    <2>2. /\ starting # NotStarting /\ ~starting.increment /\ unqueued = {}
          /\ leader # 0 /\ single[leader] /\ \A row \in CurrentRows : row.node = leader
      BY <1>0, <2>1 DEF StartsAlone, NotStarting
    <2>3. ActiveOf(a) \in SUBSET DOMAIN jobAccounts
      BY DEF ActiveOf, Active
    <2>4. /\ RowsOK' /\ BatchesOK' /\ \A row \in CurrentRows' : row.node = leader
      BY <1>0, <2>1, <2>2, <2>3, RowsQueued
    <2>5. starting'.increment = FALSE
      BY <1>0, <2>1, <2>2 DEF QueueTyped
    <2>6. StartsAlone'
      BY <2>1, <2>2, <2>4, <2>5 DEF StartsAlone
    <2> QED
      BY <2>4, <2>6
  <1> QED
    BY <1>2, <1>3, <1>4, <1>5, <1>6, <1>7, <1>8, <1>9, <1>10, <1>11, <1>12 DEF JobAssignmentNext

LEMMA MineActive ==
    ASSUME NEW n, NEW rows
    PROVE  Mine(n, rows) \subseteq Active
  <1> DEFINE range == (Min({row.lower : row \in rows}) .. Max({row.upper : row \in rows})) \cap Active
  <1>1. \/ Mine(n, rows) = {} \/ Mine(n, rows) = range
        \/ Mine(n, rows) = {j \in range : NodeOf(jobAccounts[j],
                                    WorkerNodes({row.node : row \in rows}, n)) = n}
    BY DEF Mine
  <1> QED
    BY <1>1

LEMMA TypeStep ==
    ASSUME AssignmentInv, JobAssignmentNext
    PROVE  QueueTyped' /\ ExecutorsTyped'
  <1> USE JobAssignmentAssumption
  <1>0. /\ ClusterTyped /\ QueueTyped /\ ExecutorsTyped /\ StartsAlone
        /\ Active \subseteq DOMAIN jobAccounts
    BY TypeParts DEF AssignmentInv, Active
  <1>1. ASSUME UNCHANGED <<jobVars, queueVars, queueRowVars>> PROVE QueueTyped'
    BY <1>0, <1>1 DEF QueueTyped, jobVars, queueVars, queueRowVars
  <1>2. ASSUME UNCHANGED <<jobVars, queueRowVars>>, unqueued' = {}, inserting' = <<>>,
               starting' \in {NotStarting, [increment |-> TRUE, todo |-> {}]}
        PROVE  QueueTyped'
    <2>1. starting' \in [increment : BOOLEAN, todo : SUBSET Account]
      <3>1. \A b \in BOOLEAN : [increment |-> b, todo |-> {}] \in [increment : BOOLEAN, todo : SUBSET Account]
        OBVIOUS
      <3>2. starting' = [increment |-> FALSE, todo |-> {}] \/ starting' = [increment |-> TRUE, todo |-> {}]
        BY <1>2 DEF NotStarting
      <3> QED
        BY <3>1, <3>2
    <2>2. <<>> \in Seq(JobQueueLog)
      OBVIOUS
    <2> QED
      BY <1>0, <1>2, <2>1, <2>2 DEF QueueTyped, jobVars, queueRowVars
  <1>3. ASSUME NEW nodes, StopAllOn(nodes), UNCHANGED <<posted, jobAccounts>> PROVE ExecutorsTyped'
    BY <1>0, <1>3 DEF ExecutorsTyped, StopAllOn
  <1>4. ASSUME UNCHANGED <<executorVars, jobAccounts>> PROVE ExecutorsTyped'
    BY <1>0, <1>4 DEF ExecutorsTyped, executorVars
  <1>5. ASSUME NEW n \in QueueNode, Elected(n) PROVE QueueTyped' /\ ExecutorsTyped'
    <2>1. PICK nodes : StopAllOn(nodes)
      BY <1>5 DEF Elected, HandleLeadership
    <2> QED
      BY <1>2, <1>3, <1>5, <2>1 DEF Elected, jobVars
  <1>6. ASSUME NEW n \in QueueNode, Deposed(n) PROVE QueueTyped' /\ ExecutorsTyped'
    <2>1. PICK nodes : StopAllOn(nodes)
      BY <1>6 DEF Deposed, HandleLeadership
    <2> QED
      BY <1>1, <1>3, <1>6, <2>1 DEF Deposed, jobVars
  <1>7. ASSUME NEW n \in QueueNode, PeerJoins(n) \/ PeerRemoved(n) \/ NodeReturns(n)
        PROVE  QueueTyped' /\ ExecutorsTyped'
    BY <1>1, <1>4, <1>7 DEF PeerJoins, PeerRemoved, NodeReturns, jobVars
  <1>8. ASSUME NEW n \in QueueNode, NodeFails(n) PROVE QueueTyped' /\ ExecutorsTyped'
    <2>1. QueueTyped'
      BY <1>1, <1>2, <1>8 DEF NodeFails
    <2>2. ExecutorsTyped'
      BY <1>0, <1>8 DEF NodeFails, ExecutorsTyped, jobVars
    <2> QED
      BY <2>1, <2>2
  <1>9. ASSUME NEW n \in QueueNode, NEW call \in posted[n], QueueExecutions(n, call)
        PROVE  QueueTyped' /\ ExecutorsTyped'
    <2>1. QueueTyped'
      BY <1>1, <1>9 DEF QueueExecutions
    <2>2. Mine(n, QueueRowsOf(RowIds(call))) \subseteq DOMAIN jobAccounts
      BY <1>0, MineActive
    <2>3. ExecutorsTyped'
      BY <1>0, <1>9, <2>2 DEF QueueExecutions, ExecutorsTyped, jobVars
    <2> QED
      BY <2>1, <2>3
  <1>10. CASE RecoverOnWorkerNodes
    <2>1. QueueTyped'
      BY <1>1, <1>10 DEF RecoverOnWorkerNodes
    <2>2. \A n : Recovered(n) \subseteq DOMAIN jobAccounts
      BY <1>0 DEF Recovered
    <2>3. PICK reached \in SUBSET (peers \ {leader}) :
              scheduled' = [n \in QueueNode |-> scheduled[n] \cup IF n \in reached THEN Recovered(n) ELSE {}]
      BY <1>10 DEF RecoverOnWorkerNodes
    <2>4. scheduled' \in [QueueNode -> SUBSET DOMAIN jobAccounts]
      BY <1>0, <2>2, <2>3 DEF ExecutorsTyped
    <2> QED
      BY <1>0, <1>10, <2>1, <2>4 DEF RecoverOnWorkerNodes, ExecutorsTyped, jobVars
  <1>11. CASE BatchInsertJobs
    <2>1. PICK k \in 1..MaxBatch :
              /\ Len(jobAccounts) + k <= MaxJobs
              /\ \E batch \in [1..k -> Account] :
                    /\ jobAccounts' = jobAccounts \o batch
                    /\ unqueued' = unqueued \cup {(Len(jobAccounts) + 1)..(Len(jobAccounts) + k)}
      BY <1>11 DEF BatchInsertJobs
    <2>2. PICK batch \in [1..k -> Account] :
              /\ jobAccounts' = jobAccounts \o batch
              /\ unqueued' = unqueued \cup {(Len(jobAccounts) + 1)..(Len(jobAccounts) + k)}
      BY <2>1
    <2> DEFINE len == Len(jobAccounts)
    <2>3. jobAccounts \in Seq(Account) /\ batch \in Seq(Account) /\ Len(batch) = k /\ len \in Nat
      BY <1>0 DEF QueueTyped
    <2>4. /\ jobAccounts' \in Seq(Account) /\ Len(jobAccounts') = len + k
          /\ DOMAIN jobAccounts' = 1..(len + k) /\ DOMAIN jobAccounts = 1..len
      <3>1. jobAccounts \o batch \in Seq(Account) /\ Len(jobAccounts \o batch) = len + k
        BY <2>3
      <3>2. jobAccounts' \in Seq(Account) /\ Len(jobAccounts') = len + k
        BY <2>2, <3>1
      <3> QED
        BY <2>3, <3>2
    <2>5. DOMAIN jobAccounts \subseteq DOMAIN jobAccounts' /\ (len + 1)..(len + k) \subseteq DOMAIN jobAccounts'
      BY <2>3, <2>4
    <2>6. UNCHANGED <<inactive, starting, inserting, jobQueues, queueVersion, posted, scheduled>>
      BY <1>11 DEF BatchInsertJobs, queueRowVars, executorVars
    <2>7. QueueTyped'
      <3>1. unqueued' \subseteq SUBSET DOMAIN jobAccounts'
        BY <1>0, <2>2, <2>5 DEF QueueTyped
      <3> QED
        BY <1>0, <2>1, <2>4, <2>5, <2>6, <3>1 DEF QueueTyped
    <2>8. scheduled' \in [QueueNode -> SUBSET DOMAIN jobAccounts']
      BY <1>0, <2>5, <2>6 DEF ExecutorsTyped
    <2> QED
      BY <1>0, <2>6, <2>7, <2>8 DEF ExecutorsTyped
  <1>12. ASSUME NEW batch \in unqueued, QueueJobs(batch) PROVE QueueTyped' /\ ExecutorsTyped'
    <2>1. Queue(batch) /\ unqueued' = unqueued \ {batch} /\ leader # 0
      BY <1>0, <1>12 DEF QueueJobs, StartsAlone
    <2>2. batch \in SUBSET DOMAIN jobAccounts
      BY <1>0 DEF QueueTyped
    <2>3. inserting' \in Seq(JobQueueLog)
      BY <1>0, <2>1, <2>2, Queued
    <2> QED
      BY <1>0, <1>4, <1>12, <2>1, <2>3 DEF QueueJobs, QueueTyped, jobVars, queueRowVars
  <1>13. CASE InsertJobQueueLogs
    <2> DEFINE n == Len(Chunk)
               rest == SubSeq(inserting, n + 1, Len(inserting))
               call == [last |-> Len(jobQueues) + n, rows |-> n]
    <2>1. /\ inserting # <<>> /\ inserting' = rest /\ jobQueues' = jobQueues \o Chunk
          /\ UNCHANGED <<jobVars, starting, unqueued, queueVersion, scheduled>>
      BY <1>13 DEF InsertJobQueueLogs
    <2>2. n \in 1..RowsPerCommand /\ Chunk \in Seq(JobQueueLog) /\ rest \in Seq(JobQueueLog)
      BY <1>0, <2>1, ChunkIs
    <2>3. PICK targets : posted' = [m \in QueueNode |-> posted[m] \cup IF m \in targets THEN {call} ELSE {}]
      BY <1>13 DEF InsertJobQueueLogs
    <2>4. jobQueues \in Seq(JobQueueLog)
      BY <1>0 DEF QueueTyped
    <2>5. call \in PostProcess
      <3> HIDE DEF n
      <3>1. Len(jobQueues) \in Nat
        BY <2>4
      <3> QED
        BY <2>2, <3>1 DEF PostProcess
    <2>6. posted' \in [QueueNode -> SUBSET PostProcess]
      <3> HIDE DEF call
      <3> QED
        BY <1>0, <2>3, <2>5 DEF ExecutorsTyped
    <2>7. jobQueues' \in Seq(JobQueueLog) /\ inserting' \in Seq(JobQueueLog)
      BY <2>1, <2>2, <2>4
    <2> QED
      BY <1>0, <2>1, <2>6, <2>7 DEF QueueTyped, ExecutorsTyped, jobVars
  <1>14. CASE IncrementQueueVersion
    <2>1. Range(jobAccounts) \in SUBSET Account /\ queueVersion + 1 \in Nat
      BY <1>0 DEF QueueTyped, Range
    <2>2. starting' \in [increment : BOOLEAN, todo : SUBSET Account] /\ queueVersion' \in Nat
      BY <1>14, <2>1 DEF IncrementQueueVersion, VersionAtStart
    <2> QED
      BY <1>0, <1>4, <1>14, <2>2 DEF IncrementQueueVersion, QueueTyped, jobVars
  <1>15. ASSUME NEW a \in Account, StartProject(a) PROVE QueueTyped' /\ ExecutorsTyped'
    <2>1. leader # 0 /\ Queue(ActiveOf(a))
      BY <1>0, <1>15 DEF StartProject, StartsAlone, NotStarting
    <2>2. ActiveOf(a) \in SUBSET DOMAIN jobAccounts
      BY DEF ActiveOf, Active
    <2>3. inserting' \in Seq(JobQueueLog)
      BY <1>0, <2>1, <2>2, Queued
    <2>4. starting' \in [increment : BOOLEAN, todo : SUBSET Account]
      BY <1>0, <1>15 DEF StartProject, QueueTyped
    <2> QED
      BY <1>0, <1>4, <1>15, <2>3, <2>4 DEF StartProject, QueueTyped, jobVars, queueRowVars
  <1>16. ASSUME NEW j \in JobId, UpdateJobToInactive(j) PROVE QueueTyped' /\ ExecutorsTyped'
    <2>1. inactive' \subseteq DOMAIN jobAccounts /\ jobAccounts' = jobAccounts
      BY <1>0, <1>16 DEF UpdateJobToInactive, QueueTyped
    <2> QED
      BY <1>0, <1>4, <1>16, <2>1 DEF UpdateJobToInactive, QueueTyped, queueVars, queueRowVars
  <1> QED
    BY <1>5, <1>6, <1>7, <1>8, <1>9, <1>10, <1>11, <1>12, <1>13, <1>14, <1>15, <1>16 DEF JobAssignmentNext

LEMMA AssignmentInit ==
    ASSUME JobAssignmentInit
    PROVE  AssignmentInv
  <1> USE JobAssignmentAssumption DEF JobAssignmentInit
  <1>1. ClusterTyped /\ ExecutorsTyped
    <2>1. ClusterTyped
      <3>1. 0 \in 0..MaxOutages
        OBVIOUS
      <3>2. single \in [QueueNode -> BOOLEAN]
        OBVIOUS
      <3> QED
        BY <3>1, <3>2 DEF ClusterTyped
    <2>2. ExecutorsTyped
      BY DEF ExecutorsTyped
    <2> QED
      BY <2>1, <2>2
  <1>2. QueueTyped
    <2>1. <<>> \in Seq(Account) /\ <<>> \in Seq(JobQueueLog) /\ Len(<<>>) = 0
      OBVIOUS
    <2>2. NotStarting \in [increment : BOOLEAN, todo : SUBSET Account]
      BY DEF NotStarting
    <2> QED
      BY <2>1, <2>2 DEF QueueTyped
  <1>3. AllRows = {} /\ RowsIn(inserting) = {} /\ CurrentRows = {}
    BY DEF AllRows, RowsIn, CurrentRows
  <1>4. RowsOK /\ BatchesOK
    BY <1>3 DEF RowsOK, BatchesOK, OwnersApart
  <1>5. StartsAlone
    BY DEF StartsAlone, NotStarting
  <1> QED
    BY <1>1, <1>2, <1>4, <1>5, TypeParts DEF AssignmentInv

LEMMA AssignmentStutter ==
    ASSUME AssignmentInv, UNCHANGED jobAssignmentVars
    PROVE  AssignmentInv'
  <1>1. ClusterTyped' /\ QueueTyped' /\ ExecutorsTyped'
    BY TypeParts DEF AssignmentInv, ClusterTyped, QueueTyped, ExecutorsTyped, jobAssignmentVars,
                     clusterVars, jobVars, queueVars, queueRowVars, executorVars
  <1>2. AllRows' = AllRows /\ CurrentRows' = CurrentRows
    BY DEF AllRows, CurrentRows, jobAssignmentVars, queueVars, queueRowVars
  <1>3. RowsOK' /\ BatchesOK' /\ StartsAlone'
    BY <1>2 DEF AssignmentInv, RowsOK, BatchesOK, StartsAlone, jobAssignmentVars,
                clusterVars, jobVars, queueVars, queueRowVars
  <1>4. (JobAssignmentTypeOK /\ Len(jobAccounts) <= MaxJobs)'
    BY <1>1 DEF JobAssignmentTypeOK, ClusterTyped, QueueTyped, ExecutorsTyped
  <1> QED
    BY <1>3, <1>4 DEF AssignmentInv

LEMMA AssignmentInvariant == JobAssignmentSpec => []AssignmentInv
  <1>1. AssignmentInv /\ [JobAssignmentNext]_jobAssignmentVars => AssignmentInv'
    <2>1. ASSUME AssignmentInv, JobAssignmentNext PROVE AssignmentInv'
      <3>1. ClusterTyped' /\ QueueTyped' /\ ExecutorsTyped'
        BY <2>1, TypeParts, ClusterStep, TypeStep DEF AssignmentInv
      <3>2. (JobAssignmentTypeOK /\ Len(jobAccounts) <= MaxJobs)'
        BY <3>1 DEF JobAssignmentTypeOK, ClusterTyped, QueueTyped, ExecutorsTyped
      <3> QED
        BY <2>1, <3>2, QueueStep DEF AssignmentInv
    <2> QED
      BY <2>1, AssignmentStutter
  <1> QED
    BY <1>1, AssignmentInit, PTL DEF JobAssignmentSpec

(* Rows, calls and what executors hold are of the declared kinds in every   *)
(* state: the places of accounts name workers, and no call names more rows  *)
(* than a command inserts (queue.go:185-310, job_queues.go:127-179).        *)
THEOREM AssignmentTypes == JobAssignmentSpec => []JobAssignmentTypeOK
  <1>1. AssignmentInv => JobAssignmentTypeOK
    BY DEF AssignmentInv
  <1> QED
    BY <1>1, AssignmentInvariant, PTL

(* Two nodes that recover their jobs from the rows of the last version      *)
(* start no job twice, whichever leaders have written the rows              *)
(* (processor.go:135-157, queue.go:104-310).                                *)
THEOREM OneNodeRecoversAJob == JobAssignmentSpec => []OneOwnerPerVersion
  <1>1. ASSUME AssignmentInv PROVE OneOwnerPerVersion
    <2>1. \A row \in QueueRowsOf(DOMAIN jobQueues) : row.version = queueVersion => row \in CurrentRows
      BY DEF QueueRowsOf, CurrentRows, AllRows, RowsIn
    <2> QED
      BY <1>1, <2>1 DEF OneOwnerPerVersion, AssignmentInv, RowsOK, OwnersApart, IdsOf
  <1> QED
    BY <1>1, AssignmentInvariant, PTL

(* A batch that a leader divides among its workers is in the rows, each of  *)
(* its jobs once, with no other job (queue.go:254-302).                     *)
THEOREM BatchesDividedOnce == JobAssignmentSpec => AssignsBatchOnce
  <1> DEFINE Divided(batch, rows) ==
        /\ \A j \in batch : Cardinality({i \in DOMAIN rows : j \in rows[i].lower..rows[i].upper}) = 1
        /\ \A i \in DOMAIN rows : rows[i].lower..rows[i].upper \subseteq batch
  <1>1. ASSUME NEW batch \in SUBSET Nat, NEW k \in Nat, \A j \in batch : j <= k,
               NEW order \in AssignJobsByAccountToServers(batch)
        PROVE  Divided(batch, order)
    <2>1. IsFiniteSet(batch)
      BY <1>1, FS_BoundedSetOfNaturals
    <2>2. /\ RowsIn(order) = AssignedRows(batch)
          /\ \A i, l \in DOMAIN order : order[i] = order[l] => i = l
      BY <2>1, AssignedOrder
    <2>3. /\ \A row \in RowsIn(order) : IdsOf(row) \subseteq batch
          /\ \A j \in batch : \E row \in RowsIn(order) : j \in IdsOf(row)
          /\ \A r, s \in RowsIn(order) : r = s \/ IdsOf(r) \cap IdsOf(s) = {}
      BY <1>1, <2>2, AssignedRowsDivide
    <2>4. ASSUME NEW j \in batch
          PROVE  Cardinality({i \in DOMAIN order : j \in order[i].lower..order[i].upper}) = 1
      <3>1. PICK i \in DOMAIN order : j \in IdsOf(order[i])
        BY <2>3 DEF RowsIn
      <3>2. \A l \in DOMAIN order : j \in IdsOf(order[l]) => l = i
        BY <2>2, <2>3, <3>1 DEF RowsIn
      <3>3. {l \in DOMAIN order : j \in order[l].lower..order[l].upper} = {i}
        BY <3>1, <3>2 DEF IdsOf
      <3> QED
        BY <3>3, FS_Singleton
    <2>5. \A i \in DOMAIN order : order[i].lower..order[i].upper \subseteq batch
      BY <2>3 DEF RowsIn, IdsOf
    <2> QED
      BY <2>4, <2>5
  <1>2. ASSUME AssignmentInv, JobAssignmentNext, NEW batch \in unqueued \ unqueued',
               leader # 0, leader' = leader, ~single[leader]
        PROVE  Divided(batch, inserting')
    <2>1. QueueJobs(batch)
      <3>1. CASE \E n \in QueueNode : Elected(n)
        BY <1>2, <3>1 DEF Elected
      <3>2. CASE \E n \in QueueNode : NodeFails(n)
        BY <1>2, <3>2 DEF NodeFails, queueVars
      <3>3. CASE \E b \in unqueued : QueueJobs(b)
        BY <1>2, <3>3 DEF QueueJobs
      <3>4. ASSUME unqueued \subseteq unqueued' PROVE FALSE
        BY <1>2, <3>4
      <3>5. CASE \E n \in QueueNode : Deposed(n) \/ PeerJoins(n) \/ PeerRemoved(n) \/ NodeReturns(n)
        BY <3>4, <3>5 DEF Deposed, PeerJoins, PeerRemoved, NodeReturns, queueVars
      <3>6. CASE \E n \in QueueNode : \E call \in posted[n] : QueueExecutions(n, call)
        BY <3>4, <3>6 DEF QueueExecutions, queueVars
      <3>7. CASE BatchInsertJobs \/ InsertJobQueueLogs \/ IncrementQueueVersion \/ RecoverOnWorkerNodes
        BY <3>4, <3>7 DEF BatchInsertJobs, InsertJobQueueLogs, IncrementQueueVersion,
                          RecoverOnWorkerNodes, queueVars
      <3>8. CASE \/ \E a \in Account : StartProject(a)
                 \/ \E j \in JobId : UpdateJobToInactive(j)
        BY <3>4, <3>8 DEF StartProject, UpdateJobToInactive, queueVars
      <3> QED
        BY <1>2, <3>1, <3>2, <3>3, <3>5, <3>6, <3>7, <3>8 DEF JobAssignmentNext
    <2>2. QueueTyped /\ BatchesOK
      BY <1>2, TypeParts DEF AssignmentInv
    <2>3. batch \in SUBSET Nat /\ Len(jobAccounts) \in Nat /\ \A j \in batch : j <= Len(jobAccounts)
      BY <2>2 DEF QueueTyped
    <2>4. batch # {}
      BY <2>2 DEF BatchesOK, IsRange
    <2>5. inserting' \in AssignJobsByAccountToServers(batch)
      BY <1>2, <2>1, <2>4 DEF QueueJobs, Queue
    <2> QED
      BY <1>1, <2>3, <2>5
  <1> DEFINE Assigned ==
        \A batch \in unqueued \ unqueued' :
           leader # 0 /\ leader' = leader /\ ~single[leader] => Divided(batch, inserting')
  <1>3. AssignmentInv /\ [JobAssignmentNext]_jobAssignmentVars => [Assigned]_jobAssignmentVars
    BY <1>2
  <1>4. Assigned <=> \A batch \in unqueued \ unqueued' :
         leader # 0 /\ leader' = leader /\ ~single[leader] =>
            /\ \A j \in batch : Cardinality({i \in DOMAIN inserting' :
                                    j \in inserting'[i].lower..inserting'[i].upper}) = 1
            /\ \A i \in DOMAIN inserting' : inserting'[i].lower..inserting'[i].upper \subseteq batch
    OBVIOUS
  <1> HIDE DEF Assigned
  <1> QED
    BY <1>3, <1>4, AssignmentInvariant, PTL DEF JobAssignmentSpec, AssignsBatchOnce

=============================================================================
