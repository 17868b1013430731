------------------------------- MODULE Accounts -------------------------------
(***************************************************************************)
(* What one account has and uses: its executions and tokens, its AI        *)
(* credits with their ledger, its features, and the AI requests it may     *)
(* still make in its current window. All of it is read first and written   *)
(* by a raft command later, by requests that run side by side; any command *)
(* may fail, any request may die with its node. Of accounts no property    *)
(* relates two, so one is modelled; prices and amounts are small numbers.  *)
(* A window is a month since the signup, and the unit of time.             *)
(***************************************************************************)
EXTENDS Integers, Sequences, FiniteSets, SequencesExt, FiniteSetsExt

CONSTANTS Operation,              \* requests in progress at the same time
          Payment, NoPayment,     \* idempotency keys; no key
          WelcomeCredit, RunPrice,
          FreeLimit, PaidLimit,   \* AI requests of a window
          MaxWindow

ASSUME AccountsAssumption ==
    /\ IsFiniteSet(Operation) /\ Operation # {}
    /\ NoPayment \notin Payment /\ "welcome" \notin Payment
    /\ WelcomeCredit \in Nat /\ RunPrice \in Nat \ {0}
    /\ FreeLimit \in Nat \ {0} /\ PaidLimit \in Nat /\ PaidLimit > FreeLimit
    /\ MaxWindow \in Nat \ {0}

VARIABLES
    accountCreated,
    counters,        \* the counters that have a row: executions, tokens, credits
    creditLedger,    \* the rows of account_ai_credit_ledger
    features,        \* the features of the account
    quotaWindow,     \* the stored window; 0: no row
    window,          \* the window the clock is in
    successes,       \* successes[kind]: the log of successful requests, by their windows
    operations,      \* operations[o]: the request o works on
    disturbed,       \* operations whose counter was written since they read it
    unexplained,     \* the ledger need not explain the balance any more
    admittedUnder    \* admittedUnder[kind][w]: the largest limit a success of w was let in under

accountsVars == <<accountCreated, counters, creditLedger, features, quotaWindow, window,
                  successes, operations, disturbed, unexplained, admittedUnder>>
rowVars == <<accountCreated, counters, creditLedger, features, quotaWindow, successes>>

AIKind == {"prompt", "classify"}
Feature == AIKind \cup {"executions"}
AllFeatures == <<"executions", "classify", "prompt">>
Windows == 1..MaxWindow

Idle == [pc |-> "idle"]
NewOperation(pc) ==
    [pc |-> pc, kind |-> "none", counter |-> "none", delta |-> 0, key |-> NoPayment, read |-> 0,
     welcome |-> 0, then |-> "end", limit |-> 0, start |-> 0, models |-> <<>>, rest |-> <<>>]

AccountsInit ==
    /\ accountCreated = FALSE /\ counters = <<>> /\ creditLedger = <<>> /\ features = {}
    /\ quotaWindow = 0 /\ window = 1
    /\ successes = [kind \in AIKind |-> <<>>]
    /\ operations = [o \in Operation |-> Idle]
    /\ disturbed = {} /\ unexplained = FALSE
    /\ admittedUnder = [kind \in AIKind |-> [w \in Windows |-> 0]]

(* A prompt at one of its steps, with the models it has yet to try.         *)
Prompting(pc, operation, models) ==
    [NewOperation(pc) EXCEPT !.kind = "prompt", !.limit = operation.limit, !.models = models]
Answered(operation) == Prompting("answered", operation, operation.models)

-----------------------------------------------------------------------------
At(o, pc) == operations[o].pc = pc
Goes(o, operation) ==
    /\ operations' = [operations EXCEPT ![o] = operation]
    /\ disturbed' = IF operation = Idle THEN disturbed \ {o} ELSE disturbed
Begins(o, operation) ==
    /\ At(o, "idle") /\ accountCreated /\ Goes(o, operation)
    /\ UNCHANGED <<rowVars, window, unexplained, admittedUnder>>
OnlyGoes(o, operation) ==
    Goes(o, operation) /\ UNCHANGED <<rowVars, window, unexplained, admittedUnder>>

WindowEnds ==
    /\ window < MaxWindow /\ window' = window + 1
    /\ UNCHANGED <<rowVars, operations, disturbed, unexplained, admittedUnder>>

-----------------------------------------------------------------------------
(* An account is three rows: account, counts, window.                       *)
CreateAccount(o) ==
    /\ At(o, "idle") /\ ~accountCreated /\ accountCreated' = TRUE
    /\ Goes(o, NewOperation("counting"))
    /\ UNCHANGED <<counters, creditLedger, features, quotaWindow, successes, window, unexplained, admittedUnder>>

(* Rows are inserted where there are none.                                  *)
Inserted(rows) ==
    [c \in DOMAIN counters \cup DOMAIN rows |-> IF c \in DOMAIN counters THEN counters[c] ELSE rows[c]]
WithCounts(initial) == Inserted([c \in {"executions", "tokens"} |-> IF c = "executions" THEN initial ELSE 0])
CreateCounts(o) ==
    /\ At(o, "counting") /\ counters' = WithCounts(1)
    /\ Goes(o, NewOperation("opening"))
    /\ UNCHANGED <<accountCreated, creditLedger, features, quotaWindow, successes, window, unexplained, admittedUnder>>

OpenWindow(o) ==
    /\ At(o, "opening") /\ quotaWindow' = IF quotaWindow = 0 THEN window ELSE quotaWindow
    /\ Goes(o, Idle)
    /\ UNCHANGED <<accountCreated, counters, creditLedger, features, successes, window, unexplained, admittedUnder>>

-----------------------------------------------------------------------------
(* Features. Adding the feature for executions raises their count each time.*)
(* All features are added one after the other.                              *)
Adding(rest) == IF rest = <<>> THEN Idle ELSE [NewOperation("features") EXCEPT !.rest = rest]
FeatureAdded(feature, rest) ==
    IF feature = "executions"
    THEN [NewOperation("reading") EXCEPT !.kind = feature, !.counter = feature, !.delta = 2, !.rest = rest]
    ELSE Adding(rest)
FeatureChecked(feature, rest) ==
    IF feature \in features THEN FeatureAdded(feature, rest)
    ELSE [NewOperation("adding") EXCEPT !.kind = feature, !.rest = rest]

AddFeature(o) == \E feature \in Feature : Begins(o, FeatureChecked(feature, <<>>))
AddAllFeatures(o) == Begins(o, Adding(AllFeatures))
NextFeature(o) ==
    /\ At(o, "features")
    /\ OnlyGoes(o, FeatureChecked(Head(operations[o].rest), Tail(operations[o].rest)))
InsertFeature(o) ==
    /\ At(o, "adding")
    /\ LET feature == operations[o].kind IN
       IF feature \in features THEN Goes(o, Idle) /\ UNCHANGED features
       ELSE Goes(o, FeatureAdded(feature, operations[o].rest)) /\ features' = features \cup {feature}
    /\ UNCHANGED <<accountCreated, counters, creditLedger, quotaWindow, successes, window, unexplained, admittedUnder>>

RemoveFeature(feature) ==
    /\ feature \in features /\ features' = features \ {feature}
    /\ UNCHANGED <<accountCreated, counters, creditLedger, quotaWindow, successes, window, operations,
                   disturbed, unexplained, admittedUnder>>

RemoveAllFeatures(o) ==
    \E rest \in SetToSeqs(features) :
        Begins(o, IF rest = <<>> THEN Idle ELSE [NewOperation("removing") EXCEPT !.rest = rest])
RemoveNext(o) ==
    /\ At(o, "removing")
    /\ LET rest == operations[o].rest IN
       /\ features' = features \ {Head(rest)}
       /\ Goes(o, IF Tail(rest) = <<>> THEN Idle ELSE [operations[o] EXCEPT !.rest = Tail(rest)])
    /\ UNCHANGED <<accountCreated, counters, creditLedger, quotaWindow, successes, window, unexplained, admittedUnder>>

-----------------------------------------------------------------------------
(* Counts of executions and of tokens: read, then written.                  *)
Adjusting(counter, delta) == [NewOperation("reading") EXCEPT !.counter = counter, !.delta = delta]
IncreaseExecutionCount(o) == Begins(o, Adjusting("executions", 1))
AddTokens(o) == Begins(o, Adjusting("tokens", 1))
DeductTokens(o) == Begins(o, Adjusting("tokens", -2))

GetByAccountId(o) ==
    /\ At(o, "reading")
    /\ LET operation == operations[o]
           c == operation.counter IN
       OnlyGoes(o,
           IF c \notin DOMAIN counters
           THEN IF operation.kind = "executions" THEN [operation EXCEPT !.pc = "seeding"] ELSE Idle
           ELSE IF operation.delta < 0 /\ counters[c] = 0 THEN Idle
           ELSE [operation EXCEPT !.pc = "writing", !.read = counters[c]])

SeedCounts(o) ==
    /\ At(o, "seeding") /\ counters' = WithCounts(2) /\ Goes(o, Adding(operations[o].rest))
    /\ UNCHANGED <<accountCreated, creditLedger, features, quotaWindow, successes, window, unexplained, admittedUnder>>

-----------------------------------------------------------------------------
(* Credits. Ensure finds or creates their row; what follows depends on who  *)
(* asked: a credit is ensured again before it is applied, a prompt needs a  *)
(* balance, ApplyDelta keeps the balance it read.                           *)
Ensuring(welcome, then) == [NewOperation("ensuring") EXCEPT !.counter = "credits", !.welcome = welcome, !.then = then]
Ensured(operation, balance) ==
    CASE operation.then = "run" -> IF balance > 0 THEN Prompting("running", operation, operation.models) ELSE Idle
      [] operation.then = "apply" -> [operation EXCEPT !.pc = "ensuring", !.welcome = 0, !.then = "change"]
      [] operation.then = "change" ->
             [operation EXCEPT !.pc = IF operation.key = NoPayment THEN "writing" ELSE "looking", !.read = balance]
      [] OTHER -> Idle

(* A command of o fails, or o's node stops. Charging a run logs its error,  *)
(* Ensure the error of the welcome entry, and go on; every other request    *)
(* ends with the error.                                                     *)
Charging(operation) == operation.kind = "prompt" /\ operation.then = "change"
Failed(operation) ==
    IF operation.pc = "welcoming" THEN Ensured(operation, operation.welcome)
    ELSE IF Charging(operation) THEN Answered(operation) ELSE Idle
Fails(o) ==
    /\ operations[o] # Idle
    /\ \E operation \in {Idle, Failed(operations[o])} : Goes(o, operation)
    /\ unexplained' = (unexplained \/ At(o, "noting") \/ At(o, "welcoming"))
    /\ UNCHANGED <<rowVars, window, admittedUnder>>

Credit(o) ==
    \E key \in Payment : Begins(o, [Ensuring(WelcomeCredit, "apply") EXCEPT !.delta = 1, !.key = key])
UpdateAutoTopup(o) == Begins(o, Ensuring(0, "end"))

Ensure(o) ==
    /\ At(o, "ensuring")
    /\ OnlyGoes(o, IF "credits" \in DOMAIN counters THEN Ensured(operations[o], counters["credits"])
                   ELSE [operations[o] EXCEPT !.pc = "creating"])

CreateCredits(o) ==
    /\ At(o, "creating")
    /\ LET operation == operations[o] IN
       IF "credits" \in DOMAIN counters THEN Goes(o, Failed(operation)) /\ UNCHANGED counters
       ELSE /\ counters' = Inserted([c \in {"credits"} |-> operation.welcome])
            /\ Goes(o, IF operation.welcome > 0 THEN [operation EXCEPT !.pc = "welcoming"] ELSE Ensured(operation, 0))
    /\ UNCHANGED <<accountCreated, creditLedger, features, quotaWindow, successes, window, unexplained, admittedUnder>>

Entry(amount, key, after) == [amount |-> amount, key |-> key, after |-> after]
NoteWelcome(o) ==
    /\ At(o, "welcoming")
    /\ LET operation == operations[o] IN
       /\ creditLedger' = Append(creditLedger, Entry(operation.welcome, "welcome", operation.welcome))
       /\ Goes(o, Ensured(operation, operation.welcome))
    /\ UNCHANGED <<accountCreated, counters, features, quotaWindow, successes, window, unexplained, admittedUnder>>

Noted(key) == key # NoPayment /\ \E i \in DOMAIN creditLedger : creditLedger[i].key = key

\* Variant: the ledger is not asked whether the key was applied.
LooksAway(o) == At(o, "looking") /\ OnlyGoes(o, [operations[o] EXCEPT !.pc = "writing"])

LedgerKeyExists(o) ==
    /\ At(o, "looking")
    /\ OnlyGoes(o, IF Noted(operations[o].key) THEN Idle ELSE [operations[o] EXCEPT !.pc = "writing"])

(* The write of a counter; no counter goes below zero.                      *)
Changed(operation) == Max({0, operation.read + operation.delta})
Holds(o, counter) == operations[o].pc \in {"writing", "looking"} /\ operations[o].counter = counter
WriteCounter(o) ==
    /\ At(o, "writing")
    /\ LET operation == operations[o]
           c == operation.counter IN
       /\ counters' = [counters EXCEPT ![c] = Changed(operation)]
       /\ operations' = [operations EXCEPT ![o] =
              IF c = "credits" THEN [operation EXCEPT !.pc = "noting", !.read = Changed(operation)]
              ELSE Adding(operation.rest)]
       /\ disturbed' = (disturbed \cup {p \in Operation : Holds(p, c)}) \ {o}
       /\ unexplained' = (unexplained \/ (c = "credits" /\ o \in disturbed))
    /\ UNCHANGED <<accountCreated, creditLedger, features, quotaWindow, successes, window, admittedUnder>>

(* The ledger entry; the index on keys refuses a second one. A payment that *)
(* another request is applying at the same moment is applied twice.         *)
NoteLedger(o) ==
    /\ At(o, "noting")
    /\ LET operation == operations[o] IN
       /\ creditLedger' = IF Noted(operation.key) THEN creditLedger
                          ELSE Append(creditLedger, Entry(operation.delta, operation.key, operation.read))
       /\ Goes(o, IF operation.kind = "prompt" THEN Answered(operation) ELSE Idle)
       /\ unexplained' = (unexplained \/ \E p \in Operation \ {o} :
              /\ operations[p].pc \in {"writing", "noting"}
              /\ operation.key # NoPayment /\ operations[p].key = operation.key)
    /\ UNCHANGED <<accountCreated, counters, features, quotaWindow, successes, window, admittedUnder>>

-----------------------------------------------------------------------------
(* AI requests. GetAIUsage reads the limit, then the window, which it       *)
(* advances if it is over, then counts the successes since its start.       *)
LimitOf(kind) == IF kind \in features THEN PaidLimit ELSE FreeLimit

AskAI(o) ==
    \E kind \in AIKind : Begins(o, [NewOperation("window") EXCEPT !.kind = kind, !.limit = LimitOf(kind)])

EnsurePeriod(o) ==
    /\ At(o, "window")
    /\ OnlyGoes(o, IF quotaWindow = 0 THEN [operations[o] EXCEPT !.pc = "starting", !.start = window]
                   ELSE IF quotaWindow = window THEN [operations[o] EXCEPT !.pc = "counted", !.start = window]
                   ELSE [operations[o] EXCEPT !.pc = "advancing", !.start = window])

WriteWindow(o) ==
    /\ operations[o].pc \in {"starting", "advancing"}
    /\ IF At(o, "starting") /\ quotaWindow # 0 THEN Goes(o, Idle) /\ UNCHANGED quotaWindow
       ELSE Goes(o, [operations[o] EXCEPT !.pc = "counted"]) /\ quotaWindow' = operations[o].start
    /\ UNCHANGED <<accountCreated, counters, creditLedger, features, successes, window, unexplained, admittedUnder>>

SuccessesSince(kind, start) == Cardinality({i \in DOMAIN successes[kind] : successes[kind][i] >= start})

\* Variant: the request that reaches the limit is let in.
LetsIn(operation) == SuccessesSince(operation.kind, operation.start) <= operation.limit

WithinLimit(operation) == SuccessesSince(operation.kind, operation.start) < operation.limit

(* The models a prompt will try: the platform's are charged for.            *)
ModelLists == {<<>>, <<"own">>, <<"platform">>, <<"platform", "own">>, <<"own", "platform">>}
EnforceQuota(o) ==
    /\ At(o, "counted")
    /\ LET operation == operations[o] IN
       IF ~WithinLimit(operation) THEN OnlyGoes(o, Idle)
       ELSE IF operation.kind = "classify" THEN OnlyGoes(o, [operation EXCEPT !.pc = "running"])
       ELSE \E models \in ModelLists :
                OnlyGoes(o, IF models # <<>> /\ Head(models) = "platform"
                            THEN [Prompting("ensuring", operation, models) EXCEPT
                                      !.counter = "credits", !.welcome = WelcomeCredit, !.then = "run"]
                            ELSE Prompting("running", operation, models))

(* One model after the other, until an answer can be parsed. A run of the   *)
(* platform's model is charged before its answer is looked at.              *)
ExecutePrompt(o) ==
    /\ At(o, "running") /\ operations[o].kind = "prompt"
    /\ LET operation == operations[o]
           next(pc) == Prompting(pc, operation, Tail(operation.models)) IN
       \/ OnlyGoes(o, Idle)
       \/ operation.models # <<>> /\ OnlyGoes(o, next("running"))
       \/ /\ operation.models # <<>>
          /\ OnlyGoes(o, IF Head(operation.models) = "platform"
                         THEN [next("ensuring") EXCEPT !.counter = "credits", !.delta = -RunPrice, !.then = "change"]
                         ELSE next("answered"))

ParseAnswer(o) ==
    /\ At(o, "answered")
    /\ \/ OnlyGoes(o, Prompting("recording", operations[o], <<>>))
       \/ OnlyGoes(o, [operations[o] EXCEPT !.pc = "running"])

ClassifyPrompt(o) ==
    /\ At(o, "running") /\ operations[o].kind = "classify"
    /\ \/ OnlyGoes(o, Idle)
       \/ OnlyGoes(o, [operations[o] EXCEPT !.pc = "recording"])

RecordSuccess(o) ==
    /\ At(o, "recording")
    /\ LET operation == operations[o] IN
       /\ successes' = [successes EXCEPT ![operation.kind] = Append(@, window)]
       /\ admittedUnder' = [admittedUnder EXCEPT ![operation.kind][window] = Max({@, operation.limit})]
    /\ Goes(o, Idle)
    /\ UNCHANGED <<accountCreated, counters, creditLedger, features, quotaWindow, window, unexplained>>

-----------------------------------------------------------------------------
AccountsNext ==
    \/ WindowEnds
    \/ \E feature \in Feature : RemoveFeature(feature)
    \/ \E o \in Operation :
        \/ CreateAccount(o) \/ CreateCounts(o) \/ OpenWindow(o)
        \/ AddFeature(o) \/ AddAllFeatures(o) \/ NextFeature(o) \/ InsertFeature(o)
        \/ RemoveAllFeatures(o) \/ RemoveNext(o)
        \/ IncreaseExecutionCount(o) \/ AddTokens(o) \/ DeductTokens(o) \/ GetByAccountId(o) \/ SeedCounts(o)
        \/ Credit(o) \/ UpdateAutoTopup(o) \/ Ensure(o) \/ CreateCredits(o) \/ NoteWelcome(o)
        \/ LedgerKeyExists(o) \/ WriteCounter(o) \/ NoteLedger(o)
        \/ AskAI(o) \/ EnsurePeriod(o) \/ WriteWindow(o) \/ EnforceQuota(o)
        \/ ExecutePrompt(o) \/ ParseAnswer(o) \/ ClassifyPrompt(o) \/ RecordSuccess(o)
        \/ Fails(o)

AccountsSpec == AccountsInit /\ [][AccountsNext]_accountsVars
-----------------------------------------------------------------------------
(* Properties.                                                              *)

(* The ledger explains the balance: with no entry outstanding, the balance  *)
(* is the sum of the entries, or more where a charge was cut at zero,       *)
(* however credits, retried payments, welcome grants and charges overlapped.*)
(* Exempt is only what the code cannot tell: a balance written over another *)
(* write, an entry lost with its request, and a payment two requests apply  *)
(* at the same moment (Ensure, ApplyDelta, ledgerKeyExists, insertLedger).  *)
Total(amounts, n) == LET sum[i \in Nat] == IF i = 0 THEN 0 ELSE sum[i - 1] + amounts[i] IN sum[n]
LedgerSum == Total([i \in DOMAIN creditLedger |-> creditLedger[i].amount], Len(creditLedger))
Outstanding == \E o \in Operation : operations[o].pc \in {"noting", "welcoming"}
LedgerExplainsBalance ==
    unexplained \/ Outstanding \/ "credits" \notin DOMAIN counters
    \/ /\ counters["credits"] >= LedgerSum
       /\ (\A i \in DOMAIN creditLedger : creditLedger[i].after > 0) => counters["credits"] = LedgerSum

(* The limit of a window is passed by no more than the requests that were   *)
(* let in together, although each is counted only when it succeeds, windows *)
(* end in between, and features come and go (GetAIUsage, enforcePromptQuota,*)
(* enforceClassifyQuota, recordPromptRequest, recordClassifySuccess).       *)
SuccessesIn(kind, w) == Cardinality({i \in DOMAIN successes[kind] : successes[kind][i] = w})
LimitPassedByOverlapOnly ==
    \A kind \in AIKind, w \in Windows :
        SuccessesIn(kind, w) <= admittedUnder[kind][w] + Cardinality(Operation) - 1
=============================================================================
