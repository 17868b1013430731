------------------------------ MODULE AsyncTasks -------------------------------
(***************************************************************************)
(* Async tasks of one node (service/async_task, repository/async_task) and *)
(* the work that is done under them: jobs that are created in the          *)
(* background (service/job), backups and restores (service/node) and the   *)
(* collection of uncommitted rows for a leader.                            *)
(*                                                                         *)
(* A task is named by the request it was made for; a reader is an HTTP or  *)
(* TCP request that asks for the task of one request. A task has a row in  *)
(* the committed or the uncommitted table, each of which numbers its rows  *)
(* separately, and an entry in memory under that number. All requests are  *)
(* of one account.                                                         *)
(*                                                                         *)
(* Bounds: MaxModeChanges changes of the flags of the service; a request   *)
(* makes one task. The flags of a new service are those of a follower.     *)
(***************************************************************************)
EXTENDS Naturals, Sequences, FiniteSets

CONSTANTS TaskRequest,   \* request ids
          CreateJob,     \* requests that create jobs (create_job)
          TaskReader,    \* requests that ask for a task
          HttpReader,    \* readers of the asyncTask controller, the others are TCP
          NoTask,
          MaxModeChanges

ASSUME AsyncTasksAssumption ==
    /\ NoTask \notin TaskRequest
    /\ CreateJob \subseteq TaskRequest /\ HttpReader \subseteq TaskReader
    /\ MaxModeChanges \in Nat

VARIABLES
    taskMode,         \* "single", "leader" or "follower": the flags of the service
    modeChanges,
    committedTasks,   \* rows of the committed table, by id
    uncommittedTasks, \* rows of the uncommitted table of this node, by id
    tasks,            \* ids that have an entry in memory
    taskIds,          \* taskIdRequestIdMap: request -> id, 0 if there is none
    subscribers,      \* pairs of an id and a reader that waits for it
    notifications,    \* updates on their way to the listener, in no order
    listener,         \* the update the listener is busy with, whom it has to call
    works,            \* works[q]: the effector that does the work of q
    taskOver,         \* rows a new leader has yet to handle
    jobsCreated,      \* jobsCreated[q]: how often the jobs of q were inserted
    readers,          \* what readers are doing
    taskPanic         \* the process has ended in a panic

taskTables == <<committedTasks, uncommittedTasks>>
taskMemory == <<tasks, taskIds>>
asyncTaskVars == <<taskMode, modeChanges, taskTables, taskMemory, subscribers,
                   notifications, listener, works, taskOver, jobsCreated,
                   readers, taskPanic>>

TaskState == {"notStarted", "inProgress", "success", "fail"}
Ended == {"success", "fail"}
TaskRow == [req: TaskRequest, state: TaskState]
Work == [pc: {"none", "adding", "queued", "running", "worked", "ended"}, id: Nat]
Notification == [id: Nat, req: TaskRequest, state: TaskState]
NoNotification == [id |-> 0, req |-> NoTask, state |-> "notStarted"]

ReaderPC == {"new", "look", "subscribe", "wait", "answered", "gone"}
Reader == [pc: ReaderPC, for: TaskRequest \cup {NoTask}, id: Nat,
           answer: [req: TaskRequest \cup {NoTask}, state: TaskState]]
NoAnswer == [req |-> NoTask, state |-> "notStarted"]
NewReader == [pc |-> "new", for |-> NoTask, id |-> 0, answer |-> NoAnswer]

AsyncTasksInit ==
    /\ taskMode = "follower" /\ modeChanges \in 0..MaxModeChanges
    /\ committedTasks = <<>> /\ uncommittedTasks = <<>>
    /\ tasks = {} /\ taskIds = [q \in TaskRequest |-> 0]
    /\ subscribers = {}
    /\ notifications = {}
    /\ listener = [note |-> NoNotification, calls |-> {}]
    /\ works = [q \in TaskRequest |-> [pc |-> "none", id |-> 0]]
    /\ taskOver = {}
    /\ jobsCreated = [q \in TaskRequest |-> 0]
    /\ \E come \in SUBSET TaskReader :
          readers = [c \in TaskReader |-> [NewReader EXCEPT !.pc = IF c \in come THEN @ ELSE "gone"]]
    /\ taskPanic = FALSE

-----------------------------------------------------------------------------
(* Rows *)

NewTask(q) == [req |-> q, state |-> "notStarted"]

\* Variant (see the mutants of the project): one half of the query has no condition.
AllRowsOf(table, id) == {table[i] : i \in DOMAIN table}
RowsOf(table, id) == IF id \in DOMAIN table THEN {table[id]} ELSE {}

(* The union of both tables in an order that does not depend on the table. *)
GetTask(id) == RowsOf(committedTasks, id) \cup RowsOf(uncommittedTasks, id)

Ids == DOMAIN committedTasks \cup DOMAIN uncommittedTasks

(* The ids of the rows of a request in either table.                       *)
GetTaskByRequestId(q) ==
    {i \in Ids : \E row \in GetTask(i) : row.req = q}

RaftBatchInsert(rows) == committedTasks' = committedTasks \o rows /\ UNCHANGED uncommittedTasks
BatchInsert(rows) == uncommittedTasks' = uncommittedTasks \o rows /\ UNCHANGED committedTasks

Updated(table, id, state) ==
    IF id \in DOMAIN table THEN [table EXCEPT ![id].state = state] ELSE table

(* A follower writes its own table, whichever table the row is in.         *)
UpdateTaskState(id, state) ==
    IF taskMode = "follower"
    THEN /\ uncommittedTasks' = Updated(uncommittedTasks, id, state)
         /\ UNCHANGED committedTasks
    ELSE /\ committedTasks' = Updated(committedTasks, id, state)
         /\ UNCHANGED uncommittedTasks

-----------------------------------------------------------------------------
(* Tasks and the work done under them *)

NextId(table) == Len(table) + 1

AddTasks(q) ==
    /\ works[q].pc = "none"
    /\ IF taskMode = "follower" THEN BatchInsert(<<NewTask(q)>>) ELSE RaftBatchInsert(<<NewTask(q)>>)
    /\ works' = [works EXCEPT ![q] = [pc |-> "adding",
                   id |-> NextId(IF taskMode = "follower" THEN uncommittedTasks ELSE committedTasks)]]
    /\ UNCHANGED <<taskMode, modeChanges, taskMemory, subscribers, notifications,
                   listener, taskOver, jobsCreated, readers, taskPanic>>

(* The row is there before the entry; then the effector is submitted.      *)
StoreTask(q) ==
    /\ works[q].pc = "adding"
    /\ tasks' = tasks \cup {works[q].id}
    /\ taskIds' = [taskIds EXCEPT ![q] = works[q].id]
    /\ works' = [works EXCEPT ![q].pc = "queued"]
    /\ UNCHANGED <<taskMode, modeChanges, taskTables, subscribers, notifications,
                   listener, taskOver, jobsCreated, readers, taskPanic>>

(* The task of q, if memory has it: its row is written, in the table of    *)
(* the day, and a goroutine takes the news to the listener.                *)
UpdateTask(q, id, state) ==
    /\ UpdateTaskState(id, state)
    /\ notifications' = notifications \cup {[id |-> id, req |-> q, state |-> state]}

NoUpdate == UNCHANGED <<taskTables, notifications>>

(* An effector whose first update finds no task ends without its work.     *)
WorkStarts(q) ==
    /\ works[q].pc = "queued"
    /\ IF works[q].id \in tasks
       THEN UpdateTask(q, works[q].id, "inProgress") /\ works' = [works EXCEPT ![q].pc = "running"]
       ELSE NoUpdate /\ works' = [works EXCEPT ![q].pc = "ended"]
    /\ UNCHANGED <<taskMode, modeChanges, taskMemory, subscribers, listener,
                   taskOver, jobsCreated, readers, taskPanic>>

(* One update of a restore in progress: the download begins.               *)
WorkGoesOn(q) ==
    /\ works[q].pc = "running" /\ q \notin CreateJob
    /\ works[q].id \in tasks
    /\ UpdateTask(q, works[q].id, "inProgress")
    /\ UNCHANGED <<taskMode, modeChanges, taskMemory, subscribers, listener, works,
                   taskOver, jobsCreated, readers, taskPanic>>

Inserted(q) ==
    jobsCreated' = [jobsCreated EXCEPT ![q] = IF q \in CreateJob THEN @ + 1 ELSE @]

WorkDone(q) ==
    /\ works[q].pc = "running"
    /\ Inserted(q)
    /\ works' = [works EXCEPT ![q].pc = "worked"]
    /\ UNCHANGED <<taskMode, modeChanges, taskTables, taskMemory, subscribers,
                   notifications, listener, taskOver, readers, taskPanic>>

\* Variant (see the mutants of the project): the error of the work is ignored.
StateAfter(pc) == "success"
StateOf(pc) == IF pc = "worked" THEN "success" ELSE "fail"

(* The last update: success after the work, fail when the work failed.     *)
WorkEnds(q) ==
    /\ works[q].pc \in {"running", "worked"}
    /\ IF works[q].id \in tasks
       THEN UpdateTask(q, works[q].id, StateOf(works[q].pc))
       ELSE NoUpdate
    /\ works' = [works EXCEPT ![q].pc = "ended"]
    /\ UNCHANGED <<taskMode, modeChanges, taskMemory, subscribers, listener,
                   taskOver, jobsCreated, readers, taskPanic>>

-----------------------------------------------------------------------------
(* The cluster *)

(* The tasks of the leader reach the committed table of its followers.     *)
ReplicateTask(q) ==
    /\ taskMode = "follower" /\ works[q].pc = "none"
    /\ RaftBatchInsert(<<NewTask(q)>>)
    /\ works' = [works EXCEPT ![q].pc = "ended"]
    /\ UNCHANGED <<taskMode, modeChanges, taskMemory, subscribers, notifications,
                   listener, taskOver, jobsCreated, readers, taskPanic>>

(* A new leader of several nodes commits its uncommitted tasks, as tasks   *)
(* not started whatever their state, and then handles the rows it read.    *)
SetTaskMode(mode) ==
    /\ taskMode # mode /\ modeChanges < MaxModeChanges
    /\ taskMode' = mode
    /\ modeChanges' = modeChanges + 1
    /\ IF mode = "leader"
       THEN /\ RaftBatchInsert([i \in DOMAIN uncommittedTasks |-> NewTask(uncommittedTasks[i].req)])
            /\ taskOver' = {uncommittedTasks[i] : i \in DOMAIN uncommittedTasks}
       ELSE UNCHANGED <<taskTables, taskOver>>
    /\ UNCHANGED <<taskMemory, subscribers, notifications, listener, works,
                   jobsCreated, readers, taskPanic>>

(* Every task that is not started passes for the creation of jobs; its     *)
(* state is set even if the jobs could not be created.                     *)
HandleUncommittedAsyncTask(row) ==
    LET creates == row.state = "notStarted" \/ (row.state = "inProgress" /\ row.req \in CreateJob)
        id == taskIds[row.req]
    IN /\ taskOver' = taskOver \ {row}
       /\ IF creates THEN Inserted(row.req) \/ UNCHANGED jobsCreated ELSE UNCHANGED jobsCreated
       /\ IF (creates \/ row.state = "inProgress") /\ id \in tasks
          THEN UpdateTask(row.req, id, "success")
          ELSE NoUpdate
       /\ UNCHANGED <<taskMode, modeChanges, taskMemory, subscribers, listener,
                      works, readers, taskPanic>>

-----------------------------------------------------------------------------
(* Readers *)

SetReader(c, r) == readers' = [readers EXCEPT ![c] = r]
Answer(c, row) == SetReader(c, [readers[c] EXCEPT !.pc = "answered", !.answer = row])
Refuse(c) == SetReader(c, [readers[c] EXCEPT !.pc = "gone"])

FinalFor(c) == IF c \in HttpReader THEN Ended ELSE {"success"}

(* The task of q, from memory or else from the tables, which then fill     *)
(* memory; without either the reader is told that there is none.           *)
GetTaskWithRequestIdNonBlocking(c, q) ==
    /\ readers[c].pc = "new"
    /\ LET known == taskIds[q] # 0
           ids   == IF known THEN {taskIds[q]} ELSE GetTaskByRequestId(q)
           asks  == [readers[c] EXCEPT !.for = q]
       IN \/ /\ ids = {}
             /\ SetReader(c, [asks EXCEPT !.pc = "gone"])
             /\ UNCHANGED taskMemory
          \/ \E id \in ids : \E row \in GetTask(id) :
                /\ tasks' = IF known THEN tasks ELSE tasks \cup {id}
                /\ taskIds' = [taskIds EXCEPT ![q] = id]
                /\ SetReader(c, IF row.state \in FinalFor(c)
                                THEN [asks EXCEPT !.pc = "answered", !.answer = row]
                                ELSE [asks EXCEPT !.pc = "look", !.id = id])
    /\ UNCHANGED <<taskMode, modeChanges, taskTables, subscribers, notifications,
                   listener, works, taskOver, jobsCreated, taskPanic>>

(* The row is read again. A failed task gives the reader a channel that    *)
(* nobody sends on.                                                        *)
GetTaskBlocking(c) ==
    /\ readers[c].pc = "look"
    /\ \E row \in GetTask(readers[c].id) :
          SetReader(c, CASE row.state = "success" -> [readers[c] EXCEPT !.pc = "answered", !.answer = row]
                         [] row.state = "fail" -> [readers[c] EXCEPT !.pc = "wait"]
                         [] OTHER -> [readers[c] EXCEPT !.pc = "subscribe"])
    /\ UNCHANGED <<taskMode, modeChanges, taskTables, taskMemory, subscribers,
                   notifications, listener, works, taskOver, jobsCreated, taskPanic>>

(* The map of the subscribers of a task is shared: a reader that joins or  *)
(* leaves while the listener goes through it is seen, is not seen, or ends *)
(* the process.                                                            *)
Shared(id) == listener.note.id = id /\ listener.calls # {}
Touch(id, calls) ==
    IF Shared(id)
    THEN \/ listener' = [listener EXCEPT !.calls = calls] /\ UNCHANGED taskPanic
         \/ UNCHANGED <<listener, taskPanic>>
         \/ taskPanic' = TRUE /\ UNCHANGED listener
    ELSE UNCHANGED <<listener, taskPanic>>

AddSubscriber(c) ==
    LET id == readers[c].id IN
    /\ readers[c].pc = "subscribe"
    /\ IF id \in tasks
       THEN /\ subscribers' = subscribers \cup {<<id, c>>}
            /\ SetReader(c, [readers[c] EXCEPT !.pc = "wait"])
            /\ Touch(id, listener.calls \cup {c})
       ELSE Refuse(c) /\ UNCHANGED <<subscribers, listener, taskPanic>>
    /\ UNCHANGED <<taskMode, modeChanges, taskTables, taskMemory, notifications,
                   works, taskOver, jobsCreated>>

(* The request of the reader ends first; its channel is closed even if it  *)
(* could not be taken from the map.                                        *)
ReaderLeaves(c) ==
    LET id == readers[c].id IN
    /\ readers[c].pc = "wait"
    /\ Refuse(c)
    /\ IF id \in tasks
       THEN /\ subscribers' = subscribers \ {<<id, c>>}
            /\ Touch(id, listener.calls \ {c})
       ELSE UNCHANGED <<subscribers, listener, taskPanic>>
    /\ UNCHANGED <<taskMode, modeChanges, taskTables, taskMemory, notifications,
                   works, taskOver, jobsCreated>>

-----------------------------------------------------------------------------
(* The listener takes the updates in any order. It forgets the subscribers *)
(* after any update, the task after the last.                              *)

\* Variant (see the mutants of the project): every update ends the task.
AnyState == TaskState
EndsTask == Ended

Idle == listener.note = NoNotification
SubscribersOf(id) == {c \in TaskReader : <<id, c>> \in subscribers}

ListenerReceives(note) ==
    /\ Idle
    /\ notifications' = notifications \ {note}
    /\ listener' = IF note.id \in tasks
                   THEN [note |-> note, calls |-> SubscribersOf(note.id)]
                   ELSE listener
    /\ UNCHANGED <<taskMode, modeChanges, taskTables, taskMemory, subscribers, works,
                   taskOver, jobsCreated, readers, taskPanic>>

(* A send on the channel of a reader that has left ends the process.       *)
ListenerCalls(c) ==
    /\ c \in listener.calls
    /\ listener' = [listener EXCEPT !.calls = @ \ {c}]
    /\ IF readers[c].pc = "wait"
       THEN Answer(c, [req |-> listener.note.req, state |-> listener.note.state]) /\ UNCHANGED taskPanic
       ELSE taskPanic' = TRUE /\ UNCHANGED readers
    /\ UNCHANGED <<taskMode, modeChanges, taskTables, taskMemory, subscribers,
                   notifications, works, taskOver, jobsCreated>>

ListenerForgets ==
    /\ ~Idle /\ listener.calls = {}
    /\ tasks' = IF listener.note.state \in EndsTask THEN tasks \ {listener.note.id} ELSE tasks
    /\ subscribers' = {s \in subscribers : s[1] # listener.note.id}
    /\ listener' = [note |-> NoNotification, calls |-> {}]
    /\ UNCHANGED <<taskMode, modeChanges, taskTables, taskIds, notifications, works,
                   taskOver, jobsCreated, readers, taskPanic>>

-----------------------------------------------------------------------------
WorkProceeds(q) == StoreTask(q) \/ WorkStarts(q) \/ WorkEnds(q)
ListenerProceeds ==
    \/ \E note \in notifications : ListenerReceives(note)
    \/ \E c \in TaskReader : ListenerCalls(c)
    \/ ListenerForgets
ReaderProceeds(c) ==
    GetTaskBlocking(c) \/ AddSubscriber(c) \/ ReaderLeaves(c)

AsyncTasksNext ==
    /\ ~taskPanic
    /\ \/ \E q \in TaskRequest :
             \/ AddTasks(q) \/ ReplicateTask(q)
             \/ WorkProceeds(q) \/ WorkGoesOn(q) \/ WorkDone(q)
             \/ \E c \in TaskReader : GetTaskWithRequestIdNonBlocking(c, q)
       \/ \E mode \in {"single", "leader", "follower"} : SetTaskMode(mode)
       \/ \E row \in taskOver : HandleUncommittedAsyncTask(row)
       \/ ListenerProceeds
       \/ \E c \in TaskReader : ReaderProceeds(c)

AsyncTasksFairness ==
    \A q \in TaskRequest : WF_asyncTaskVars(~taskPanic /\ WorkProceeds(q))

AsyncTasksSpec == AsyncTasksInit /\ [][AsyncTasksNext]_asyncTaskVars
AsyncTasksFairSpec == AsyncTasksSpec /\ AsyncTasksFairness

-----------------------------------------------------------------------------
AsyncTasksTypeOK ==
    /\ taskMode \in {"single", "leader", "follower"} /\ modeChanges \in 0..MaxModeChanges
    /\ committedTasks \in Seq(TaskRow) /\ uncommittedTasks \in Seq(TaskRow)
    /\ tasks \subseteq Nat \ {0} /\ taskIds \in [TaskRequest -> Nat]
    /\ subscribers \subseteq Nat \X TaskReader
    /\ notifications \subseteq Notification
    /\ listener.note \in Notification \cup {NoNotification}
    /\ listener.calls \subseteq TaskReader
    /\ works \in [TaskRequest -> Work] /\ taskOver \subseteq TaskRow
    /\ jobsCreated \in [TaskRequest -> Nat] /\ readers \in [TaskReader -> Reader]
    /\ taskPanic \in BOOLEAN

(* The two tables number their rows separately, and a row is looked up and *)
(* updated by its number alone. Numbers are confused as soon as the node   *)
(* that made tasks has rows in the table its mode does not write.          *)
Mixed ==
    /\ \E q \in TaskRequest : works[q].id # 0
    /\ IF taskMode = "follower" THEN committedTasks # <<>> ELSE uncommittedTasks # <<>>

(* A reader is told about the task it asked for (async_task.go:219-309,    *)
(* 359-387), as long as numbers are not confused.                          *)
AnswersOwn ==
    ~Mixed => \A c \in TaskReader :
                 readers[c].pc = "answered" => readers[c].answer.req = readers[c].for

(* A task says that it succeeded exactly if its jobs were created, once    *)
(* (job.go:460-523).                                                       *)
JobsMatchTask ==
    ~Mixed => \A table \in {committedTasks, uncommittedTasks} : \A i \in DOMAIN table :
                 LET row == table[i] IN
                 row.req \in CreateJob =>
                     /\ row.state = "success" => jobsCreated[row.req] = 1
                     /\ row.state = "fail" => jobsCreated[row.req] = 0

(* A task that was added ends, whatever the listener does with the entries *)
(* the effector looks for in memory (async_task.go:110-145, 378-382).      *)
TasksEnd ==
    \A q \in TaskRequest :
        works[q].pc = "adding" ~>
            \/ \E i \in Ids : \E row \in GetTask(i) : row.req = q /\ row.state \in Ended
            \/ Mixed \/ taskPanic

=============================================================================
