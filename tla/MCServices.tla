----------------------------- MODULE MCServices -----------------------------
(* Components of a node that do not share state, checked side by side: each *)
(* behaviour is one of one component, the others rest in an initial state.  *)
EXTENDS FanIn, AsyncTasks, SendTime, Store

CONSTANTS k1, k2, e1

VARIABLE focus

(* Participants of four zones: one is on summer time from Sunday 6:00 UTC,  *)
(* one is far east, one works in UTC; quiet hours cross midnight or do not. *)
Always(offset) == [change |-> 0, before |-> offset, after |-> offset]
Weekdays == 1..5
Ann == [zone |-> [change |-> 7 * Day + 360, before |-> -300, after |-> -240], days |-> Weekdays,
        work |-> <<540, 1020>>, quiet |-> <<1320, 420>>, busy |-> {}, primary |-> TRUE]
Kei == [zone |-> Always(540), days |-> 0..5, work |-> <<480, 1200>>, quiet |-> <<>>, busy |-> {}, primary |-> FALSE]
Bo  == [zone |-> Always(0), days |-> Weekdays, work |-> <<540, 1020>>, quiet |-> <<0, 480>>,
        busy |-> {<<6 * Day - 480, 6 * Day - 360>>}, primary |-> FALSE]

FridayNoon == 5 * Day + 720
SaturdayNight == 6 * Day + 1320
PlainRequest ==
    [recipients |-> <<Ann>>, sender |-> {}, reference |-> FridayNoon, delay |-> 0,
     earliest |-> NoInstant, latest |-> NoInstant, horizon |-> 2, interval |-> 60, count |-> 3,
     diversify |-> TRUE, spacing |-> 120, priority |-> "normal", strategy |-> "all_recipients", coverage |-> 100,
     avoidWeekends |-> TRUE, avoidHolidays |-> FALSE, holidays |-> {}, workingHoursOnly |-> FALSE,
     respectQuiet |-> TRUE, requireCalFree |-> FALSE, preferOverlap |-> TRUE, preferred |-> {}, avoid |-> {}]

(* Who is written to, how many must be reached, and when; and beside that   *)
(* requests that differ from the plain one in one or two fields.            *)
WhoAndWhen ==
    {[PlainRequest EXCEPT !.recipients = who, !.sender = from, !.reference = when, !.strategy = strategy,
                          !.coverage = IF strategy = "majority" THEN 50 ELSE 100, !.priority = priority,
                          !.avoidWeekends = weekdays] :
        who \in {<<Ann>>, <<Ann, Kei>>, <<Bo, Kei>>}, from \in {{}, {Bo}}, when \in {FridayNoon, SaturdayNight},
        strategy \in Strategies, weekdays \in BOOLEAN, priority \in {"normal", "urgent"}}
Variations ==
    {[PlainRequest EXCEPT !.delay = d, !.priority = p] : d \in {-120, 50}, p \in {"high", "urgent"}}
    \cup {[PlainRequest EXCEPT !.latest = FridayNoon + 600, !.earliest = e, !.priority = p] :
             e \in {NoInstant, FridayNoon + 130, FridayNoon + 700}, p \in {"low", "urgent"}}
    \cup {[PlainRequest EXCEPT !.spacing = s, !.count = c, !.workingHoursOnly = w, !.diversify = s # 60] :
             s \in {0, 60, 240, 600}, c \in {1, 4}, w \in BOOLEAN}
    \cup {[PlainRequest EXCEPT !.avoidWeekends = FALSE, !.avoidHolidays = TRUE, !.holidays = h] : h \in {{}, {6}}}
    \cup {[PlainRequest EXCEPT !.recipients = <<Bo, Ann>>, !.requireCalFree = c, !.respectQuiet = q, !.coverage = v] :
             c \in BOOLEAN, q \in BOOLEAN, v \in {0, 50, 101}}
    \cup {[PlainRequest EXCEPT !.preferred = {<<840, 900>>}, !.avoid = {<<1380, 60>>, <<600, 660>>}, !.preferOverlap = o,
                               !.interval = i] : o \in BOOLEAN, i \in {30, 45}}
Requests == WhoAndWhen \cup Variations

FanInRests == members = FanNode
(* Either the mode of the node changes or there are readers.                *)
TasksChecked == modeChanges = MaxModeChanges \/ \A c \in TaskReader : readers[c].pc = "gone"
TasksRest == modeChanges = MaxModeChanges /\ \A c \in TaskReader : readers[c].pc = "gone"

(* The command k1 commits the row e1; k2 is refused, or is not.             *)
CleanedRows == [c \in Command |-> IF c = k1 THEN {e1} ELSE {}]
StoreRests == storeNode = "running"

ServicesInit ==
    /\ FanInInit /\ AsyncTasksInit /\ SendTimeInit /\ StoreInit
    /\ \/ focus = "fanIn" /\ TasksRest /\ StoreRests
       \/ focus = "tasks" /\ FanInRests /\ TasksChecked /\ StoreRests
       \/ focus = "sendTimes" /\ FanInRests /\ TasksRest /\ StoreRests
       \/ focus = "store" /\ FanInRests /\ TasksRest

ServicesNext ==
    /\ UNCHANGED focus
    /\ \/ focus = "fanIn" /\ FanInNext /\ UNCHANGED <<asyncTaskVars, sendTimeVars, storeVars>>
       \/ focus = "tasks" /\ AsyncTasksNext /\ UNCHANGED <<fanInVars, sendTimeVars, storeVars>>
       \/ focus = "sendTimes" /\ SendTimeNext /\ UNCHANGED <<fanInVars, asyncTaskVars, storeVars>>
       \/ focus = "store" /\ StoreNext /\ UNCHANGED <<fanInVars, asyncTaskVars, sendTimeVars>>

ServicesSpec ==
    /\ ServicesInit /\ [][ServicesNext]_<<focus, fanInVars, asyncTaskVars, sendTimeVars, storeVars>>
    /\ FanInFairness /\ AsyncTasksFairness
=============================================================================
