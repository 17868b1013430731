----------------------------- MODULE Dispatcher -----------------------------
(***************************************************************************)
(* The dispatcher all effectors of a node run on: pkg/utils/dispatcher.go  *)
(* and worker.go.  A producer sends its work to inputQueue; the goroutine  *)
(* dispatch moves it on to pending, one of maxWorkers assigners takes it   *)
(* from there, waits for a worker that has offered its queue to the pool,  *)
(* and hands the work over.  An effector may itself submit work.  Channels  *)
(* are FIFO; the pool is the set of the workers that wait.                 *)
(*                                                                         *)
(* The context of the service, which every goroutine here also waits for,  *)
(* is left out: it is cancelled by the memory checker, which panics next.  *)
(***************************************************************************)
EXTENDS Naturals, Sequences, FiniteSets

CONSTANTS
    Works,       \* everything that is ever submitted
    Roots,       \* what producers outside the dispatcher submit
    Submits,     \* Submits[w]: what the effector of w submits, in order
    Answering,   \* works whose effector sends on its success or error channel
    Awaited,     \* works submitted with BlockQueue, which reads those channels
    Workers,     \* workers, and as many assigners
    MaxQueue,    \* capacity of inputQueue
    PendingMin,  \* dispatcherPendingBufferMin
    None         \* no work, no worker

ASSUME DispatcherAssumption ==
    /\ Roots \subseteq Works
    /\ Submits \in [Works -> Seq(Works)]
    /\ Answering \subseteq Works
    /\ Awaited \subseteq Works
    /\ IsFiniteSet(Workers)
    /\ MaxQueue \in Nat
    /\ PendingMin \in Nat
    /\ None \notin Works \cup Workers

VARIABLES
    fresh,       \* works nobody has sent to inputQueue
    inputQueue,
    input,       \* the work the goroutine dispatch holds
    pending,
    assigner,    \* the work each assigner holds
    worker,
    ended        \* works whose effector has returned

vars == <<fresh, inputQueue, input, pending, assigner, worker, ended>>

\* Variant: the capacity of the queue is taken as it is configured.
PendingAsConfigured == MaxQueue

\* NewDispatcher: capacity of pending.
PendingBuffer == IF MaxQueue < PendingMin THEN PendingMin ELSE MaxQueue

\* Variant: one more than fits.
RoomForOneMore(channel, capacity) == Len(channel) <= capacity

Room(channel, capacity) == Len(channel) < capacity

Worker == [work : Works \cup {None},
           todo : Seq(Works)] \* what its effector has yet to submit

\* A worker without work has its queue in the pool, which has room for every
\* worker.
FreeWorker == [work |-> None, todo |-> <<>>]

TypeOK ==
    /\ fresh \subseteq Works
    /\ inputQueue \in Seq(Works) /\ Len(inputQueue) <= MaxQueue
    /\ input \in Works \cup {None}
    /\ pending \in Seq(Works) /\ Len(pending) <= PendingBuffer
    /\ assigner \in [Workers -> Works \cup {None}]
    /\ worker \in [Workers -> Worker]
    /\ ended \subseteq Works

Init ==
    /\ fresh = Works
    /\ inputQueue = <<>>
    /\ input = None
    /\ pending = <<>>
    /\ assigner = [a \in Workers |-> None]
    /\ worker = [k \in Workers |-> FreeWorker]
    /\ ended = {}

-----------------------------------------------------------------------------
\* A send on inputQueue, by BlockQueue or NoBlockQueue: it waits for room.
Send(w) ==
    /\ w \in fresh
    /\ Room(inputQueue, MaxQueue)
    /\ inputQueue' = Append(inputQueue, w)
    /\ fresh' = fresh \ {w}

\* A request, the listener of the executor or a peer submits work.
Produce(w) ==
    /\ w \in Roots
    /\ Send(w)
    /\ UNCHANGED <<input, pending, assigner, worker, ended>>

-----------------------------------------------------------------------------
(* dispatch                                                                 *)

Receive ==
    /\ input = None
    /\ inputQueue # <<>>
    /\ input' = Head(inputQueue)
    /\ inputQueue' = Tail(inputQueue)
    /\ UNCHANGED <<fresh, pending, assigner, worker, ended>>

Buffer ==
    /\ input \in Works
    /\ Room(pending, PendingBuffer)
    /\ pending' = Append(pending, input)
    /\ input' = None
    /\ UNCHANGED <<fresh, inputQueue, assigner, worker, ended>>

-----------------------------------------------------------------------------
(* assign                                                                   *)

Take(a) ==
    /\ assigner[a] = None
    /\ pending # <<>>
    /\ assigner' = [assigner EXCEPT ![a] = Head(pending)]
    /\ pending' = Tail(pending)
    /\ UNCHANGED <<fresh, inputQueue, input, worker, ended>>

\* Variant: the assigner does not let go of the work it has handed over.
KeepsWork(work) == work

LetsGo(work) == None

\* The work goes to a worker whose queue is in the pool.
Hand(a, k) ==
    /\ assigner[a] \in Works
    /\ worker[k].work = None
    /\ worker' = [worker EXCEPT ![k] = [work |-> assigner[a], todo |-> Submits[assigner[a]]]]
    /\ assigner' = [assigner EXCEPT ![a] = LetsGo(@)]
    /\ UNCHANGED <<fresh, inputQueue, input, pending, ended>>

-----------------------------------------------------------------------------
(* Worker.Start                                                             *)

\* The effector submits its next work, from the worker it runs on.
Submit(k) ==
    /\ worker[k].todo # <<>>
    /\ Send(Head(worker[k].todo))
    /\ worker' = [worker EXCEPT ![k].todo = Tail(@)]
    /\ UNCHANGED <<input, pending, assigner, ended>>

\* The channels have no buffer: an effector that sends on one waits for
\* BlockQueue to receive, and NoBlockQueue never does.
Stuck(w) == w \in Answering \ Awaited

\* The effector returns, and its caller has its answer.
Finish(k) ==
    /\ worker[k].work # None
    /\ worker[k].todo = <<>>
    /\ ~Stuck(worker[k].work)
    /\ ended' = ended \cup {worker[k].work}
    /\ worker' = [worker EXCEPT ![k] = FreeWorker]
    /\ UNCHANGED <<fresh, inputQueue, input, pending, assigner>>

-----------------------------------------------------------------------------
DispatchNext == Receive \/ Buffer
AssignNext(a) == Take(a) \/ (\E k \in Workers : Hand(a, k))
WorkerNext(k) == Submit(k) \/ Finish(k)

Next ==
    \/ \E w \in Roots : Produce(w)
    \/ DispatchNext
    \/ \E a \in Workers : AssignNext(a)
    \/ \E k \in Workers : WorkerNext(k)

Spec == Init /\ [][Next]_vars

\* Goroutines are scheduled fairly and what an effector calls returns in the
\* end: HTTP clients and database connections have timeouts.
FairSpec ==
    /\ Spec
    /\ WF_vars(DispatchNext)
    /\ \A a \in Workers : WF_vars(AssignNext(a))
    /\ \A k \in Workers : WF_vars(WorkerNext(k))

-----------------------------------------------------------------------------
(* Properties.                                                              *)

Queued(w, channel) == \E i \in DOMAIN channel : channel[i] = w

\* Where a work is between its producer and a worker.
Held(w) == \/ Queued(w, inputQueue)
           \/ w = input
           \/ Queued(w, pending)
           \/ \E a \in Workers : assigner[a] = w

Runs(k, w) == worker[k].work = w

\* Of a work that were in several places the one shows that it should have left.
Stage(w) == IF w \in fresh THEN "new"
            ELSE IF \E k, l \in Workers : k # l /\ Runs(k, w) /\ Runs(l, w) THEN "duplicated"
            ELSE IF \E k \in Workers : Runs(k, w) THEN "running"
            ELSE IF Held(w) THEN "accepted"
            ELSE IF w \in ended THEN "ended"
            ELSE "lost"

Abstract == INSTANCE WorkBag WITH stage      <- [w \in Works |-> Stage(w)],
                                  MaxRunning <- Cardinality(Workers)

\* What goes through the two queues, the assigners and the pool is executed
\* once: no work is lost, none is handed to two workers, and none is started
\* again after it has ended.
ImplementsWorkBag == Abstract!BagSpec

\* "producers (including worker effectors that re-queue work) practically never
\* block": effectors that submit work from the workers they hold never fill the
\* queues so that nobody can go on, and every work that is accepted is executed.
EveryWorkEnds == []<>(Works = fresh \cup ended)
=============================================================================
