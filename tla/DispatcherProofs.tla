-------------------------- MODULE DispatcherProofs --------------------------
(***************************************************************************)
(* Dispatcher implements WorkBag, for any works, any number of workers and *)
(* any capacity of its queues: a work is in one place at a time, and each  *)
(* step takes one work from its place to the next.                         *)
(***************************************************************************)
EXTENDS Dispatcher, FiniteSetTheorems, TLAPS

-----------------------------------------------------------------------------
(* Channels.                                                                *)

NoRepeat(channel) == \A i, j \in DOMAIN channel : channel[i] = channel[j] => i = j

LEMMA QueuedAppend ==
    ASSUME NEW q \in Seq(Works), NEW x \in Works
    PROVE  /\ Append(q, x) \in Seq(Works)
           /\ Len(Append(q, x)) = Len(q) + 1
           /\ \A w : Queued(w, Append(q, x)) <=> Queued(w, q) \/ w = x
           /\ NoRepeat(q) /\ ~Queued(x, q) => NoRepeat(Append(q, x))
  <1>1. /\ Append(q, x) \in Seq(Works)
        /\ Len(Append(q, x)) = Len(q) + 1
        /\ DOMAIN Append(q, x) = 1 .. Len(q) + 1
        /\ \A i \in 1 .. Len(q) : Append(q, x)[i] = q[i]
        /\ Append(q, x)[Len(q) + 1] = x
        /\ DOMAIN q = 1 .. Len(q)
        /\ Len(q) \in Nat
    OBVIOUS
  <1>2. ASSUME NEW w PROVE Queued(w, Append(q, x)) <=> Queued(w, q) \/ w = x
    BY <1>1 DEF Queued
  <1>3. ASSUME NoRepeat(q), ~Queued(x, q) PROVE NoRepeat(Append(q, x))
    BY <1>1, <1>3 DEF Queued, NoRepeat
  <1> QED
    BY <1>1, <1>2, <1>3

LEMMA QueuedTail ==
    ASSUME NEW q \in Seq(Works), q # <<>>
    PROVE  /\ Tail(q) \in Seq(Works)
           /\ Len(Tail(q)) = Len(q) - 1
           /\ Len(q) \in Nat \ {0}
           /\ Head(q) \in Works
           /\ \A w : Queued(w, q) <=> Queued(w, Tail(q)) \/ w = Head(q)
           /\ NoRepeat(q) => NoRepeat(Tail(q)) /\ ~Queued(Head(q), Tail(q))
  <1>1. /\ Tail(q) \in Seq(Works)
        /\ Len(Tail(q)) = Len(q) - 1
        /\ DOMAIN Tail(q) = 1 .. Len(q) - 1
        /\ \A i \in 1 .. Len(q) - 1 : Tail(q)[i] = q[i + 1]
        /\ Head(q) = q[1] /\ Head(q) \in Works
        /\ DOMAIN q = 1 .. Len(q)
        /\ Len(q) \in Nat \ {0}
    OBVIOUS
  <1>2. ASSUME NEW w PROVE Queued(w, q) <=> Queued(w, Tail(q)) \/ w = Head(q)
    <2>1. ASSUME Queued(w, q) PROVE Queued(w, Tail(q)) \/ w = Head(q)
      <3>1. PICK i \in 1 .. Len(q) : q[i] = w
        BY <1>1, <2>1 DEF Queued
      <3>2. CASE i = 1
        BY <1>1, <3>1, <3>2
      <3>3. CASE i # 1
        <4>1. i - 1 \in 1 .. Len(q) - 1 /\ Tail(q)[i - 1] = w
          BY <1>1, <3>1, <3>3
        <4> QED
          BY <1>1, <4>1 DEF Queued
      <3> QED
        BY <3>2, <3>3
    <2>2. ASSUME Queued(w, Tail(q)) \/ w = Head(q) PROVE Queued(w, q)
      BY <1>1, <2>2 DEF Queued
    <2> QED
      BY <2>1, <2>2
  <1>3. ASSUME NoRepeat(q) PROVE NoRepeat(Tail(q)) /\ ~Queued(Head(q), Tail(q))
    BY <1>1, <1>3 DEF NoRepeat, Queued
  <1> QED
    BY <1>1, <1>2, <1>3

-----------------------------------------------------------------------------
(* Types.                                                                   *)

LEMMA Assumed ==
    /\ Roots \subseteq Works
    /\ Submits \in [Works -> Seq(Works)]
    /\ IsFiniteSet(Workers)
    /\ MaxQueue \in Nat /\ PendingBuffer \in Nat
    /\ None \notin Works
  BY DispatcherAssumption DEF PendingBuffer

LEMMA InitType == Init => TypeOK
  BY Assumed DEF Init, TypeOK, Worker, FreeWorker

\* What a send on inputQueue changes.
LEMMA Sent ==
    ASSUME TypeOK, NEW w \in Works, Send(w)
    PROVE  /\ inputQueue' \in Seq(Works) /\ Len(inputQueue') <= MaxQueue
           /\ fresh' = fresh \ {w}
           /\ \A v : Queued(v, inputQueue)' <=> Queued(v, inputQueue) \/ v = w
           /\ NoRepeat(inputQueue) /\ ~Queued(w, inputQueue) => NoRepeat(inputQueue')
  <1>1. /\ inputQueue \in Seq(Works) /\ inputQueue' = Append(inputQueue, w)
        /\ Len(inputQueue) < MaxQueue
        /\ fresh' = fresh \ {w}
    BY DEF TypeOK, Send, Room
  <1>2. Len(inputQueue) \in Nat /\ Len(inputQueue') = Len(inputQueue) + 1
    BY <1>1, QueuedAppend
  <1>3. \A v : Queued(v, inputQueue)' <=> Queued(v, inputQueue')
    BY DEF Queued
  <1> QED
    BY <1>1, <1>2, <1>3, QueuedAppend, Assumed

LEMMA NextType == TypeOK /\ [Next]_vars => TypeOK'
  <1> SUFFICES ASSUME TypeOK, [Next]_vars PROVE TypeOK'
    OBVIOUS
  <1>1. ASSUME NEW w \in Roots, Produce(w) PROVE TypeOK'
    BY <1>1, Sent, Assumed DEF Produce, TypeOK
  <1>2. CASE Receive
    <2>1. inputQueue' = Tail(inputQueue) /\ input' = Head(inputQueue) /\ inputQueue # <<>>
      BY <1>2 DEF Receive
    <2>2. inputQueue' \in Seq(Works) /\ Len(inputQueue') <= MaxQueue /\ input' \in Works
      BY <2>1, QueuedTail, Assumed DEF TypeOK
    <2> QED
      BY <1>2, <2>2 DEF Receive, TypeOK
  <1>3. CASE Buffer
    <2>1. pending' = Append(pending, input) /\ input \in Works /\ Len(pending) < PendingBuffer
      BY <1>3 DEF Buffer, Room
    <2>2. pending' \in Seq(Works) /\ Len(pending) \in Nat /\ Len(pending') = Len(pending) + 1
      BY <2>1, QueuedAppend DEF TypeOK
    <2> QED
      BY <1>3, <2>1, <2>2, Assumed DEF Buffer, TypeOK
  <1>4. ASSUME NEW a \in Workers, Take(a) PROVE TypeOK'
    <2>1. pending' = Tail(pending) /\ pending # <<>> /\ assigner' = [assigner EXCEPT ![a] = Head(pending)]
      BY <1>4 DEF Take
    <2>2. pending' \in Seq(Works) /\ Len(pending') <= PendingBuffer /\ Head(pending) \in Works
      BY <2>1, QueuedTail, Assumed DEF TypeOK
    <2> QED
      BY <1>4, <2>1, <2>2 DEF Take, TypeOK
  <1>5. ASSUME NEW a \in Workers, NEW k \in Workers, Hand(a, k) PROVE TypeOK'
    <2>1. [work |-> assigner[a], todo |-> Submits[assigner[a]]] \in Worker
      BY <1>5, Assumed DEF Hand, Worker
    <2> QED
      BY <1>5, <2>1 DEF Hand, LetsGo, TypeOK
  <1>6. ASSUME NEW k \in Workers, Submit(k) PROVE TypeOK'
    <2>1. worker[k] \in Worker /\ worker[k].todo \in Seq(Works) /\ worker[k].todo # <<>>
      BY <1>6 DEF Submit, TypeOK, Worker
    <2>2. Head(worker[k].todo) \in Works /\ Tail(worker[k].todo) \in Seq(Works)
      BY <2>1, QueuedTail
    <2>3. [worker[k] EXCEPT !.todo = Tail(@)] \in Worker
      BY <2>1, <2>2 DEF Worker
    <2>4. worker' = [worker EXCEPT ![k] = [worker[k] EXCEPT !.todo = Tail(@)]]
      BY <1>6 DEF Submit
    <2>5. worker' \in [Workers -> Worker]
      BY <2>3, <2>4 DEF TypeOK
    <2>6. /\ inputQueue' \in Seq(Works) /\ Len(inputQueue') <= MaxQueue
          /\ fresh' = fresh \ {Head(worker[k].todo)}
      BY <1>6, <2>2, Sent DEF Submit
    <2> QED
      BY <1>6, <2>5, <2>6 DEF Submit, TypeOK
  <1>7. ASSUME NEW k \in Workers, Finish(k) PROVE TypeOK'
    BY <1>7 DEF Finish, TypeOK, Worker, FreeWorker
  <1>8. CASE UNCHANGED vars
    BY <1>8 DEF TypeOK, vars
  <1> QED
    BY <1>1, <1>2, <1>3, <1>4, <1>5, <1>6, <1>7, <1>8
    DEF Next, DispatchNext, AssignNext, WorkerNext

-----------------------------------------------------------------------------
(* A work is in one place at a time.                                        *)

Assigned(w) == \E a \in Workers : assigner[a] = w
Executed(w) == \E k \in Workers : Runs(k, w)

\* No two copies of a work in one place, ...
NoCopy ==
    /\ NoRepeat(inputQueue)
    /\ NoRepeat(pending)
    /\ \A a, b \in Workers : assigner[a] \in Works /\ assigner[a] = assigner[b] => a = b
    /\ \A k, l \in Workers, w \in Works : Runs(k, w) /\ Runs(l, w) => k = l

\* ... nor in two, ...
Apart ==
    \A w \in Works :
        /\ w \in fresh => /\ ~Queued(w, inputQueue) /\ w # input /\ ~Queued(w, pending)
                          /\ ~Assigned(w) /\ ~Executed(w) /\ w \notin ended
        /\ Queued(w, inputQueue) => /\ w # input /\ ~Queued(w, pending)
                                    /\ ~Assigned(w) /\ ~Executed(w) /\ w \notin ended
        /\ w = input => ~Queued(w, pending) /\ ~Assigned(w) /\ ~Executed(w) /\ w \notin ended
        /\ Queued(w, pending) => ~Assigned(w) /\ ~Executed(w) /\ w \notin ended
        /\ Assigned(w) => ~Executed(w) /\ w \notin ended
        /\ Executed(w) => w \notin ended

\* ... and none is lost.
Kept == \A w \in Works : w \in fresh \/ Held(w) \/ Executed(w) \/ w \in ended

OnePlace == NoCopy /\ Apart /\ Kept

LEMMA InitOnePlace == Init => OnePlace
  BY Assumed DEF Init, OnePlace, NoCopy, Apart, Kept, NoRepeat, Queued, Held, Runs, Assigned, Executed, FreeWorker

-----------------------------------------------------------------------------
(* The stage of a work tells its place.                                     *)

bag == [w \in Works |-> Stage(w)]

StepOfBag == [Abstract!BagNext]_bag

StagesTell ==
    \A w \in Works : /\ w \in fresh <=> Stage(w) = "new"
                     /\ Held(w) <=> Stage(w) = "accepted"
                     /\ Executed(w) <=> Stage(w) = "running"
                     /\ w \in ended <=> Stage(w) = "ended"

LEMMA StageOfPlace == OnePlace => StagesTell
  <1> SUFFICES ASSUME OnePlace, NEW w \in Works
               PROVE  /\ w \in fresh <=> Stage(w) = "new"
                      /\ Held(w) <=> Stage(w) = "accepted"
                      /\ Executed(w) <=> Stage(w) = "running"
                      /\ w \in ended <=> Stage(w) = "ended"
    BY DEF StagesTell
  <1>1. ~ \E k, l \in Workers : k # l /\ Runs(k, w) /\ Runs(l, w)
    BY DEF OnePlace, NoCopy
  <1>2. /\ w \in fresh => ~Held(w) /\ ~Executed(w) /\ w \notin ended
        /\ Held(w) => ~Executed(w) /\ w \notin ended
        /\ Executed(w) => w \notin ended
        /\ w \in fresh \/ Held(w) \/ Executed(w) \/ w \in ended
    BY DEF OnePlace, Apart, Kept, Held, Assigned
  <1>3. Executed(w) <=> \E k \in Workers : Runs(k, w)
    BY DEF Executed
  <1>4. Stage(w) = IF w \in fresh THEN "new"
                   ELSE IF Executed(w) THEN "running"
                   ELSE IF Held(w) THEN "accepted"
                   ELSE IF w \in ended THEN "ended"
                   ELSE "lost"
    BY <1>1, <1>3 DEF Stage
  <1> QED
    BY <1>2, <1>4

\* A step that moves no work from one of the four places to another.
StaysPut(w) ==
    /\ (w \in fresh)' <=> w \in fresh
    /\ Held(w)' <=> Held(w)
    /\ Executed(w)' <=> Executed(w)
    /\ (w \in ended)' <=> w \in ended

LEMMA SameStage ==
    ASSUME OnePlace, OnePlace', NEW w \in Works, StaysPut(w)
    PROVE  Stage(w)' = Stage(w)
  <1>1. \/ w \in fresh \/ Held(w) \/ Executed(w) \/ w \in ended
    BY DEF OnePlace, Kept
  <1>2. StagesTell /\ StagesTell'
    BY StageOfPlace, PTL
  <1> QED
    BY <1>1, <1>2 DEF StaysPut, StagesTell

\* A worker that waits is one that runs nothing.
LEMMA FreeSlot ==
    ASSUME TypeOK, OnePlace, NEW k \in Workers, worker[k].work = None
    PROVE  Cardinality({w \in Works : Executed(w)}) < Cardinality(Workers)
  <1> DEFINE R == {w \in Works : Executed(w)}
             others == Workers \ {k}
             f == [w \in R |-> CHOOSE l \in Workers : Runs(l, w)]
  <1>1. /\ IsFiniteSet(others) /\ Cardinality(others) = Cardinality(Workers) - 1
        /\ Cardinality(Workers) \in Nat
    BY Assumed, FS_RemoveElement, FS_CardinalityType
  <1>2. \A w \in R : f[w] \in Workers /\ Runs(f[w], w)
    BY DEF Executed
  <1>3. \A w \in R : f[w] \in others
    BY <1>2, Assumed DEF Runs
  <1>4. \A v, w \in R : f[v] = f[w] => v = w
    BY <1>2 DEF Runs
  <1>5. f \in Injection(R, others)
    BY <1>3, <1>4 DEF Injection, IsInjective
  <1>6. IsFiniteSet(R) /\ Cardinality(R) <= Cardinality(others)
    <2> HIDE DEF f, R, others
    <2> QED
      BY <1>1, <1>5, FS_Injection
  <1>7. Cardinality(R) \in Nat
    BY <1>6, FS_CardinalityType
  <1> QED
    BY <1>1, <1>6, <1>7

LEMMA Still ==
    ASSUME OnePlace, OnePlace', \A w \in Works : StaysPut(w)
    PROVE  StepOfBag
  <1>1. \A w \in Works : Stage(w)' = Stage(w)
    BY SameStage
  <1> QED
    BY <1>1 DEF StepOfBag, bag

\* A step that moves one work is a step of the bag.
LEMMA Moves ==
    ASSUME OnePlace, OnePlace', NEW x \in Works, \A w \in Works \ {x} : StaysPut(w)
    PROVE  /\ x \in fresh /\ Held(x)' => Abstract!Accept(x)
           /\ Held(x) /\ Executed(x)'
                 /\ Cardinality({w \in Works : Executed(w)}) < Cardinality(Workers)
              => Abstract!Start(x)
           /\ Executed(x) /\ (x \in ended)' => Abstract!End(x)
  <1>1. \A w \in Works \ {x} : Stage(w)' = Stage(w)
    BY SameStage
  <1>2. StagesTell /\ StagesTell'
    BY StageOfPlace, PTL
  <1>3. ASSUME NEW from, NEW to, Stage(x) = from, Stage(x)' = to
        PROVE  Abstract!Move(x, from, to)
    BY <1>1, <1>3 DEF Abstract!Move
  <1>4. Abstract!In("running") = {w \in Works : Executed(w)}
    BY <1>2 DEF Abstract!In, StagesTell
  <1>5. /\ x \in fresh /\ Held(x)' => Abstract!Accept(x)
        /\ Executed(x) /\ (x \in ended)' => Abstract!End(x)
    BY <1>2, <1>3 DEF StagesTell, Abstract!Accept, Abstract!End
  <1>6. Held(x) /\ Executed(x)' => Abstract!Move(x, "accepted", "running")
    BY <1>2, <1>3 DEF StagesTell
  <1>7. \A S : Abstract!Cardinality(S) = Cardinality(S)
    BY DEF Abstract!Cardinality, Cardinality
  <1> QED
    BY <1>4, <1>5, <1>6, <1>7 DEF Abstract!Start

\* A work that is sent leaves fresh for inputQueue.
LEMMA SentStep ==
    ASSUME TypeOK, OnePlace, NEW x \in Works, Send(x),
           UNCHANGED <<input, pending, assigner, ended>>,
           \A k \in Workers : worker'[k].work = worker[k].work
    PROVE  OnePlace' /\ StepOfBag
  <1>1. /\ fresh' = fresh \ {x} /\ x \in fresh
        /\ \A v : Queued(v, inputQueue)' <=> Queued(v, inputQueue) \/ v = x
        /\ NoRepeat(inputQueue)'
    <2>1. NoRepeat(inputQueue) /\ ~Queued(x, inputQueue)
      BY DEF OnePlace, NoCopy, Apart, Send
    <2> QED
      BY <2>1, Sent DEF Send, NoRepeat
  <1>2. \A w : /\ (Queued(w, pending)' <=> Queued(w, pending))
               /\ (Assigned(w)' <=> Assigned(w))
               /\ (Executed(w)' <=> Executed(w))
    BY DEF Queued, Assigned, Executed, Runs
  <1>3. NoCopy'
    BY <1>1 DEF OnePlace, NoCopy, NoRepeat, Runs
  <1>4. Apart'
    BY <1>1, <1>2 DEF OnePlace, Apart
  <1>5. Kept'
    BY <1>1, <1>2 DEF OnePlace, Kept, Held, Assigned
  <1>6. OnePlace'
    BY <1>3, <1>4, <1>5 DEF OnePlace
  <1>7. \A w \in Works \ {x} : StaysPut(w)
    BY <1>1, <1>2 DEF StaysPut, Held, Assigned
  <1>8. Held(x)'
    BY <1>1 DEF Held
  <1>9. Abstract!Accept(x)
    BY <1>1, <1>6, <1>7, <1>8, Moves
  <1> QED
    BY <1>6, <1>9 DEF StepOfBag, Abstract!BagNext

LEMMA NextStep == TypeOK /\ OnePlace /\ [Next]_vars => OnePlace' /\ StepOfBag
  <1> SUFFICES ASSUME TypeOK, OnePlace, [Next]_vars PROVE OnePlace' /\ StepOfBag
    OBVIOUS
  <1>1. ASSUME NEW w \in Roots, Produce(w) PROVE OnePlace' /\ StepOfBag
    BY <1>1, SentStep, Assumed DEF Produce
  <1>2. CASE Receive
    <2> DEFINE x == Head(inputQueue)
    <2>1. /\ input = None /\ input' = x /\ x \in Works
          /\ \A v : Queued(v, inputQueue) <=> Queued(v, inputQueue)' \/ v = x
          /\ NoRepeat(inputQueue)' /\ ~Queued(x, inputQueue')
      <3>1. /\ inputQueue \in Seq(Works) /\ inputQueue # <<>> /\ NoRepeat(inputQueue)
            /\ input = None /\ input' = x /\ inputQueue' = Tail(inputQueue)
        BY <1>2 DEF OnePlace, Receive, TypeOK, NoCopy
      <3>2. /\ x \in Works
            /\ \A v : Queued(v, inputQueue) <=> Queued(v, inputQueue') \/ v = x
            /\ NoRepeat(inputQueue') /\ ~Queued(x, inputQueue')
        BY <3>1, QueuedTail
      <3>3. \A v : Queued(v, inputQueue)' <=> Queued(v, inputQueue')
        BY DEF Queued
      <3>4. NoRepeat(inputQueue)'
        BY <3>2 DEF NoRepeat
      <3> QED
        BY <3>1, <3>2, <3>3, <3>4
    <2>2. UNCHANGED <<fresh, pending, assigner, worker, ended>>
      BY <1>2 DEF Receive
    <2> HIDE DEF x
    <2>3. \A w : /\ (Queued(w, pending)' <=> Queued(w, pending))
                 /\ (Assigned(w)' <=> Assigned(w))
                 /\ (Executed(w)' <=> Executed(w))
      BY <2>2 DEF Queued, Assigned, Executed, Runs
    <2>4. NoCopy'
      BY <2>1, <2>2 DEF OnePlace, NoCopy, NoRepeat, Runs
    <2>5. Apart'
      <3>1. \A v : Queued(v, inputQueue)' <=> Queued(v, inputQueue')
        BY DEF Queued
      <3> QED
        BY <2>1, <2>2, <2>3, <3>1 DEF OnePlace, Apart
    <2>6. Kept'
      BY <2>1, <2>2, <2>3, Assumed DEF OnePlace, Kept, Held, Assigned
    <2>7. OnePlace'
      BY <2>4, <2>5, <2>6 DEF OnePlace
    <2>8. \A w \in Works : StaysPut(w)
      BY <2>1, <2>2, <2>3, Assumed DEF StaysPut, Held, Assigned
    <2> QED
      BY <2>7, <2>8, Still
  <1>3. CASE Buffer
    <2>1. /\ input \in Works /\ input' = None
          /\ \A v : Queued(v, pending)' <=> Queued(v, pending) \/ v = input
          /\ NoRepeat(pending)'
      <3>1. /\ pending \in Seq(Works) /\ input \in Works /\ input' = None
            /\ pending' = Append(pending, input)
            /\ NoRepeat(pending) /\ ~Queued(input, pending)
        BY <1>3 DEF OnePlace, Buffer, TypeOK, NoCopy, Apart
      <3>2. /\ \A v : Queued(v, pending') <=> Queued(v, pending) \/ v = input
            /\ NoRepeat(pending')
        BY <3>1, QueuedAppend
      <3>3. \A v : Queued(v, pending)' <=> Queued(v, pending')
        BY DEF Queued
      <3>4. NoRepeat(pending)'
        BY <3>2 DEF NoRepeat
      <3> QED
        BY <3>1, <3>2, <3>3, <3>4
    <2>2. UNCHANGED <<fresh, inputQueue, assigner, worker, ended>>
      BY <1>3 DEF Buffer
    <2>3. \A w : /\ (Queued(w, inputQueue)' <=> Queued(w, inputQueue))
                 /\ (Assigned(w)' <=> Assigned(w))
                 /\ (Executed(w)' <=> Executed(w))
      BY <2>2 DEF Queued, Assigned, Executed, Runs
    <2>4. NoCopy'
      BY <2>1, <2>2 DEF OnePlace, NoCopy, NoRepeat, Runs
    <2>5. Apart'
      BY <2>1, <2>2, <2>3, Assumed DEF OnePlace, Apart
    <2>6. Kept'
      BY <2>1, <2>2, <2>3 DEF OnePlace, Kept, Held, Assigned
    <2>7. OnePlace'
      BY <2>4, <2>5, <2>6 DEF OnePlace
    <2>8. \A w \in Works : StaysPut(w)
      BY <2>1, <2>2, <2>3, Assumed DEF StaysPut, Held, Assigned
    <2> QED
      BY <2>7, <2>8, Still
  <1>4. ASSUME NEW a \in Workers, Take(a) PROVE OnePlace' /\ StepOfBag
    <2> DEFINE x == Head(pending)
    <2>1. /\ assigner[a] = None /\ assigner' = [assigner EXCEPT ![a] = x] /\ x \in Works
          /\ \A v : Queued(v, pending) <=> Queued(v, pending)' \/ v = x
          /\ NoRepeat(pending)' /\ ~Queued(x, pending')
      <3>1. /\ pending \in Seq(Works) /\ pending # <<>> /\ NoRepeat(pending)
            /\ assigner[a] = None /\ pending' = Tail(pending)
            /\ assigner' = [assigner EXCEPT ![a] = x]
        BY <1>4 DEF OnePlace, Take, TypeOK, NoCopy
      <3>2. /\ x \in Works
            /\ \A v : Queued(v, pending) <=> Queued(v, pending') \/ v = x
            /\ NoRepeat(pending') /\ ~Queued(x, pending')
        BY <3>1, QueuedTail
      <3>3. \A v : Queued(v, pending)' <=> Queued(v, pending')
        BY DEF Queued
      <3>4. NoRepeat(pending)'
        BY <3>2 DEF NoRepeat
      <3> QED
        BY <3>1, <3>2, <3>3, <3>4
    <2>2. UNCHANGED <<fresh, inputQueue, input, worker, ended>>
      BY <1>4 DEF Take
    <2> HIDE DEF x
    <2>3. \A w \in Works : /\ (Queued(w, inputQueue)' <=> Queued(w, inputQueue))
                           /\ (Assigned(w)' <=> Assigned(w) \/ w = x)
                           /\ (Executed(w)' <=> Executed(w))
      BY <2>1, <2>2, Assumed DEF Queued, Assigned, Executed, Runs, TypeOK
    <2>4. /\ x \notin fresh /\ ~Queued(x, inputQueue) /\ x # input
          /\ ~Assigned(x) /\ ~Executed(x) /\ x \notin ended
      BY <2>1 DEF OnePlace, Apart
    <2>5. NoCopy'
      <3>1. \A b \in Workers : assigner'[b] = IF b = a THEN x ELSE assigner[b]
        BY <2>1 DEF TypeOK
      <3>2. \A b, c \in Workers : assigner'[b] \in Works /\ assigner'[b] = assigner'[c] => b = c
        BY <2>4, <3>1 DEF OnePlace, NoCopy, Assigned
      <3> QED
        BY <2>1, <2>2, <3>2 DEF OnePlace, NoCopy, NoRepeat, Runs
    <2>6. Apart'
      <3>1. \A v : Queued(v, pending)' <=> Queued(v, pending')
        BY DEF Queued
      <3> QED
        BY <2>1, <2>2, <2>3, <2>4, <3>1 DEF OnePlace, Apart
    <2>7. Kept'
      BY <2>1, <2>2, <2>3 DEF OnePlace, Kept, Held, Assigned
    <2>8. OnePlace'
      BY <2>5, <2>6, <2>7 DEF OnePlace
    <2>9. \A w \in Works : StaysPut(w)
      BY <2>1, <2>2, <2>3 DEF StaysPut, Held, Assigned
    <2> QED
      BY <2>8, <2>9, Still
  <1>5. ASSUME NEW a \in Workers, NEW k \in Workers, Hand(a, k) PROVE OnePlace' /\ StepOfBag
    <2> PICK x \in Works : x = assigner[a]
      BY <1>5 DEF Hand
    <2>1. /\ x = assigner[a] /\ worker[k].work = None
          /\ assigner' = [assigner EXCEPT ![a] = None]
          /\ worker' = [worker EXCEPT ![k] = [work |-> x, todo |-> Submits[x]]]
          /\ UNCHANGED <<fresh, inputQueue, input, pending, ended>>
      BY <1>5 DEF Hand, LetsGo
    <2>2. /\ \A b \in Workers : assigner'[b] = IF b = a THEN None ELSE assigner[b]
          /\ \A l \in Workers : worker'[l].work = IF l = k THEN x ELSE worker[l].work
      BY <2>1 DEF TypeOK
    <2>3. Assigned(x) /\ \A b \in Workers : assigner[b] = x => b = a
      BY <2>1 DEF OnePlace, Assigned, NoCopy
    <2>4. \A w \in Works : /\ (Queued(w, inputQueue)' <=> Queued(w, inputQueue))
                           /\ (Queued(w, pending)' <=> Queued(w, pending))
                           /\ (Assigned(w)' <=> Assigned(w) /\ w # x)
                           /\ (Executed(w)' <=> Executed(w) \/ w = x)
      <3> TAKE w \in Works
      <3>1. Assigned(w)' <=> Assigned(w) /\ w # x
        BY <2>2, <2>3, Assumed DEF Assigned
      <3>2. Executed(w)' <=> Executed(w) \/ w = x
        BY <2>1, <2>2, Assumed DEF Executed, Runs
      <3> QED
        BY <2>1, <3>1, <3>2 DEF Queued
    <2>5. NoCopy'
      <3>1. ~Executed(x)
        BY <2>1, <2>3 DEF OnePlace, Apart
      <3>2. \A l, m \in Workers, w \in Works : Runs(l, w)' /\ Runs(m, w)' => l = m
        BY <2>2, <3>1 DEF OnePlace, NoCopy, Runs, Executed
      <3>3. \A b, c \in Workers : assigner'[b] \in Works /\ assigner'[b] = assigner'[c] => b = c
        BY <2>2, Assumed DEF OnePlace, NoCopy
      <3> QED
        BY <2>1, <3>2, <3>3 DEF OnePlace, NoCopy, NoRepeat
    <2>6. Apart'
      BY <2>1, <2>3, <2>4 DEF OnePlace, Apart
    <2>7. Kept'
      BY <2>1, <2>4 DEF OnePlace, Kept, Held, Assigned
    <2>8. OnePlace'
      BY <2>5, <2>6, <2>7 DEF OnePlace
    <2>9. \A w \in Works \ {x} : StaysPut(w)
      BY <2>1, <2>4 DEF StaysPut, Held, Assigned
    <2>10. Held(x) /\ Executed(x)'
      <3>1. Held(x)
        BY <2>3 DEF Held, Assigned
      <3>2. Executed(x)'
        BY <2>1, <2>4
      <3> QED
        BY <3>1, <3>2
    <2>11. Abstract!Start(x)
      <3>1. Cardinality({w \in Works : Executed(w)}) < Cardinality(Workers)
        BY <2>1, FreeSlot
      <3> QED
        BY <2>1, <2>8, <2>9, <2>10, <3>1, Moves
    <2> QED
      BY <2>1, <2>8, <2>11 DEF StepOfBag, Abstract!BagNext
  <1>6. ASSUME NEW k \in Workers, Submit(k) PROVE OnePlace' /\ StepOfBag
    <2>1. worker[k] \in Worker /\ worker[k].todo \in Seq(Works) /\ worker[k].todo # <<>>
      BY <1>6 DEF Submit, TypeOK, Worker
    <2>2. Head(worker[k].todo) \in Works
      BY <2>1, QueuedTail
    <2>3. \A l \in Workers : worker'[l].work = worker[l].work
      BY <1>6, <2>1 DEF Submit, TypeOK, Worker
    <2> QED
      BY <1>6, <2>2, <2>3, SentStep DEF Submit
  <1>7. ASSUME NEW k \in Workers, Finish(k) PROVE OnePlace' /\ StepOfBag
    <2> PICK x \in Works : x = worker[k].work
      BY <1>7 DEF Finish, TypeOK, Worker
    <2>1. /\ x = worker[k].work /\ ended' = ended \cup {x}
          /\ UNCHANGED <<fresh, inputQueue, input, pending, assigner>>
      BY <1>7 DEF Finish, TypeOK, Worker
    <2>2. \A l \in Workers : worker'[l].work = IF l = k THEN None ELSE worker[l].work
      BY <1>7 DEF Finish, FreeWorker, TypeOK
    <2>3. Executed(x) /\ \A l \in Workers : Runs(l, x) => l = k
      BY <2>1 DEF OnePlace, Executed, Runs, NoCopy
    <2>4. \A w \in Works : /\ (Queued(w, inputQueue)' <=> Queued(w, inputQueue))
                           /\ (Queued(w, pending)' <=> Queued(w, pending))
                           /\ (Assigned(w)' <=> Assigned(w))
                           /\ (Executed(w)' <=> Executed(w) /\ w # x)
      <3> TAKE w \in Works
      <3>1. Executed(w)' <=> Executed(w) /\ w # x
        BY <2>2, <2>3, Assumed DEF Executed, Runs
      <3> QED
        BY <2>1, <3>1 DEF Queued, Assigned
    <2>5. NoCopy'
      BY <2>1, <2>2, Assumed DEF OnePlace, NoCopy, NoRepeat, Runs
    <2>6. Apart'
      BY <2>1, <2>3, <2>4 DEF OnePlace, Apart
    <2>7. Kept'
      BY <2>1, <2>4 DEF OnePlace, Kept, Held, Assigned
    <2>8. OnePlace'
      BY <2>5, <2>6, <2>7 DEF OnePlace
    <2>9. \A w \in Works \ {x} : StaysPut(w)
      BY <2>1, <2>4 DEF StaysPut, Held, Assigned
    <2>10. Abstract!End(x)
      BY <2>1, <2>3, <2>8, <2>9, Moves
    <2> QED
      BY <2>1, <2>8, <2>10 DEF StepOfBag, Abstract!BagNext
  <1>8. CASE UNCHANGED vars
    <2>1. OnePlace'
      BY <1>8 DEF vars, OnePlace, NoCopy, Apart, Kept, NoRepeat, Queued, Held, Assigned, Executed, Runs
    <2>2. \A w \in Works : StaysPut(w)
      BY <1>8 DEF vars, StaysPut, Held, Queued, Assigned, Executed, Runs
    <2> QED
      BY <2>1, <2>2, Still
  <1> QED
    BY <1>1, <1>2, <1>3, <1>4, <1>5, <1>6, <1>7, <1>8
    DEF Next, DispatchNext, AssignNext, WorkerNext
-----------------------------------------------------------------------------
(* The theorems.                                                            *)

Inv == TypeOK /\ OnePlace

LEMMA InitInv == Init => Inv
  BY InitType, InitOnePlace DEF Inv

LEMMA NextInv == Inv /\ [Next]_vars => Inv' /\ StepOfBag
  BY NextType, NextStep DEF Inv

LEMMA InitBag == Init => Abstract!BagInit
  BY DEF Init, Abstract!BagInit, Stage

\* Every channel of the dispatcher stays within its capacity and holds works.
THEOREM TypeCorrect == Spec => []TypeOK
  <1>1. Inv => TypeOK
    BY DEF Inv
  <1> QED
    BY InitInv, NextInv, <1>1, PTL DEF Spec

\* No work is lost, handed to two workers or executed again on its way through
\* inputQueue, dispatch, pending, assign and the worker pool.
THEOREM DispatcherImplementsWorkBag == Spec => ImplementsWorkBag
  <1>1. Inv /\ [Next]_vars => [Abstract!BagNext]_bag
    BY NextInv DEF StepOfBag
  <1> QED
    BY InitInv, NextInv, InitBag, <1>1, PTL DEF Spec, ImplementsWorkBag, Abstract!BagSpec, bag
=============================================================================
