-------------------------- MODULE ThreadPoolProofs --------------------------
(* Theorems about ThreadPool, for every set of tasks and every bound.      *)
EXTENDS ThreadPool, SequenceTheorems, TLAPS

(* What a pop leaves in the queue.                                         *)
LEMMA RemainingProperties ==
  ASSUME NEW q \in Seq(Task), q # <<>>
  PROVE  /\ Remaining(q) \in Seq(Task)
         /\ Len(q) \in Nat \ {0}
         /\ q[Len(q)] \in Task
         /\ Len(Remaining(q)) = Len(q) - 1
         /\ \A i \in 1 .. Len(q) - 1 : Remaining(q)[i] = q[i]
<1>1. Len(q) \in Nat \ {0}
  BY EmptySeq
<1>2. \A i \in 1 .. Len(q) : q[i] \in Task
  BY <1>1, ElementOfSeq
<1> DEFINE n == Len(q) - 1
<1>3. n \in Nat /\ n = Len(q) - 1 /\ \A i \in 1 .. n : q[i] \in Task
  BY <1>1, <1>2
<1> HIDE DEF n
<1>4. SubSeq(q, 1, n) \in Seq(Task) /\ Len(SubSeq(q, 1, n)) = n
  BY <1>3
<1>5. \A i \in 1 .. n : SubSeq(q, 1, n)[i] = q[i]
  BY <1>3
<1> QED
  BY <1>1, <1>2, <1>3, <1>4, <1>5 DEF Remaining

-----------------------------------------------------------------------------
(* Type correctness.                                                       *)

WorkerState == {"none", "test", "read", "pop", "run", "fulfil", "exited"}
FutureState == {"none", "pending", "ready", "broken"}

LEMMA AddWorkerType ==
  ASSUME TypeOK, AddWorker
  PROVE  /\ size' \in 0 .. MaxWorkers
         /\ capacity' \in Nat
         /\ running' \in [Worker -> BOOLEAN]
         /\ stale' \in [Worker -> BOOLEAN]
         /\ pc' \in [Worker -> WorkerState]
<1> USE WorkersAssumption DEF TypeOK, AddWorker, WorkerState
<1>1. size' \in 0 .. MaxWorkers
  OBVIOUS
<1>2. capacity' \in Nat
  BY DEF Grown
<1>3. running' \in [Worker -> BOOLEAN]
  OBVIOUS
<1>4. stale' \in [Worker -> BOOLEAN]
  OBVIOUS
<1>5. pc' \in [Worker -> WorkerState]
  OBVIOUS
<1> QED
  BY <1>1, <1>2, <1>3, <1>4, <1>5

LEMMA WorkerStepType ==
  ASSUME TypeOK, NEW w \in Worker, WorkerStep(w)
  PROVE  TypeOK'
<1> USE DEF poolVars, workerVars, ownerVars
<1>1. CASE LoadStats(w)
  BY <1>1 DEF LoadStats, TypeOK
<1>2. CASE ReadRunning(w)
  BY <1>2 DEF ReadRunning, TypeOK
<1>3. CASE Pop(w)
  <2>1. CASE tasks = <<>>
    BY <1>3, <2>1 DEF Pop, TypeOK
  <2>2. CASE tasks # <<>>
    <3>1. tasks[Len(tasks)] \in Task /\ Remaining(tasks) \in Seq(Task)
      BY <2>2, RemainingProperties DEF TypeOK
    <3> QED
      BY <1>3, <2>2, <3>1 DEF Pop, TypeOK
  <2> QED
    BY <2>1, <2>2
<1>4. CASE RunTask(w)
  BY <1>4 DEF RunTask, TypeOK
<1>5. CASE TaskThrows(w)
  BY <1>5 DEF TaskThrows, TypeOK
<1>6. CASE Fulfil(w)
  BY <1>6 DEF Fulfil, TypeOK
<1> QED
  BY <1>1, <1>2, <1>3, <1>4, <1>5, <1>6 DEF WorkerStep

LEMMA QueueTaskType ==
  ASSUME TypeOK, NEW t \in Task, QueueTask(t)
  PROVE  TypeOK'
<1>1. tasks' \in Seq(Task)
  BY AppendProperties DEF TypeOK, QueueTask
<1>2. future' \in [Task -> FutureState]
  BY DEF TypeOK, QueueTask, FutureState
<1>3. aborted' \in BOOLEAN
  BY DEF TypeOK, QueueTask
<1> QED
  BY <1>1, <1>2, <1>3 DEF TypeOK, QueueTask, FutureState, workerVars, ownerVars

LEMMA OwnerStepType ==
  ASSUME TypeOK, OwnerStep
  PROVE  TypeOK'
<1> USE WorkersAssumption DEF poolVars, workerVars, ownerVars
<1>1. CASE Construct
  <2>1. CASE size < threadCount
    <3>1. AddWorker
      BY <1>1, <2>1 DEF Construct
    <3> QED
      BY <1>1, <2>1, <3>1, AddWorkerType DEF Construct, AddWorker, TypeOK, WorkerState
  <2>2. CASE ~(size < threadCount)
    BY <1>1, <2>2 DEF Construct, TypeOK
  <2> QED
    BY <2>1, <2>2
<1>2. CASE InsertWorker
  <2>1. AddWorker
    BY <1>2 DEF InsertWorker
  <2> QED
    BY <1>2, <2>1, AddWorkerType DEF InsertWorker, AddWorker, TypeOK, WorkerState
<1>3. CASE \E b \in BOOLEAN : BeginShutdown(b)
  BY <1>3 DEF BeginShutdown, TypeOK
<1>4. CASE StopWorker
  <2>1. running' \in [Worker -> BOOLEAN]
    BY <1>4 DEF StopWorker, TypeOK
  <2>2. cursor' \in 0 .. MaxWorkers
    BY <1>4 DEF StopWorker, MoreToStop, TypeOK
  <2>3. owner' \in {"stop", "join", "erase"}
    BY <1>4 DEF StopWorker, TypeOK
  <2> QED
    BY <1>4, <2>1, <2>2, <2>3 DEF StopWorker, TypeOK
<1>5. CASE JoinWorker
  BY <1>5 DEF JoinWorker, TypeOK
<1>6. CASE EraseThreads
  <2>1. size' \in 0 .. MaxWorkers /\ owner' \in {"erase", "idle"} /\ aborted' \in BOOLEAN
    <3>1. CASE size > 0 /\ ~wait
      BY <1>6, <3>1 DEF EraseThreads, TypeOK
    <3>2. CASE ~(size > 0 /\ ~wait)
      BY <1>6, <3>2 DEF EraseThreads, TypeOK
    <3> QED
      BY <3>1, <3>2
  <2> QED
    BY <1>6, <2>1 DEF EraseThreads, TypeOK
<1>7. CASE Destroy
  <2>1. tasks' \in Seq(Task)
    BY <1>7, EmptySeq DEF Destroy
  <2>2. future' \in [Task -> FutureState]
    BY <1>7 DEF Destroy, TypeOK, FutureState
  <2> QED
    BY <1>7, <2>1, <2>2 DEF Destroy, TypeOK, FutureState
<1> QED
  BY OwnerStep, <1>1, <1>2, <1>3, <1>4, <1>5, <1>6, <1>7 DEF OwnerStep

LEMMA TypeStep == TypeOK /\ [Next]_vars => TypeOK'
<1> SUFFICES ASSUME TypeOK, [Next]_vars PROVE TypeOK'
  OBVIOUS
<1>1. CASE UNCHANGED vars
  BY <1>1 DEF vars, poolVars, workerVars, ownerVars, TypeOK
<1> QED
  BY <1>1, WorkerStepType, QueueTaskType, OwnerStepType DEF Next, Terminated

LEMMA TypeInit == Init => TypeOK
<1> SUFFICES ASSUME Init PROVE TypeOK
  OBVIOUS
<1>1. tasks \in Seq(Task)
  BY EmptySeq DEF Init
<1>2. threadCount \in ThreadCounts /\ capacity \in Nat /\ cursor \in 0 .. MaxWorkers
  BY WorkersAssumption, CountsAssumption DEF Init, Reserved
<1> QED
  BY <1>1, <1>2, WorkersAssumption DEF Init, TypeOK

(* Type correctness of the pool: every variable keeps its type, whatever   *)
(* the workers, the clients and the owner do.                              *)
THEOREM TypeCorrect == Spec => []TypeOK
BY TypeInit, TypeStep, PTL DEF Spec

-----------------------------------------------------------------------------
(* The inductive invariant: who may be in worker_loop, what a worker holds,*)
(* how far the owner's shutdown is, and where every task is.               *)

LiveBelowSize == \A w \in Worker : Live(w) => w < size

HandMatchesPc == \A w \in Worker : hand[w] # NoTask <=> pc[w] \in {"run", "fulfil"}

ShutdownProgress ==
  /\ owner = "join" => wait /\ cursor <= size /\ \A w \in Worker : w < cursor => ~Live(w)
  /\ owner = "erase" /\ wait => \A w \in Worker : w < size => ~Live(w)
  /\ owner = "gone" => size = 0 /\ tasks = <<>>

IInv ==
  /\ TypeOK
  /\ LiveBelowSize
  /\ HandMatchesPc
  /\ ShutdownProgress
  /\ TaskInOnePlace

LEMMA IInvInit == Init => IInv
<1> SUFFICES ASSUME Init PROVE IInv
  OBVIOUS
<1>1. TypeOK
  BY TypeInit
<1>2. LiveBelowSize /\ HandMatchesPc /\ ShutdownProgress
  BY DEF Init, LiveBelowSize, HandMatchesPc, ShutdownProgress, Live
<1>3. Len(tasks) = 0
  BY EmptySeq DEF Init
<1>4. TaskInOnePlace
  BY <1>3, NoTaskAssumption DEF Init, TaskInOnePlace, Queued, Taken
<1> QED
  BY <1>1, <1>2, <1>4 DEF IInv

(* Workers and threads: a step of a worker.                                *)
LEMMA WorkerStepThreads ==
  ASSUME IInv, NEW w \in Worker, WorkerStep(w)
  PROVE  LiveBelowSize' /\ HandMatchesPc' /\ ShutdownProgress'
<1> USE DEF IInv, TypeOK, LiveBelowSize, HandMatchesPc, ShutdownProgress, Live,
            poolVars, workerVars, ownerVars
<1>1. CASE LoadStats(w)
  BY <1>1 DEF LoadStats
<1>2. CASE ReadRunning(w)
  BY <1>2 DEF ReadRunning
<1>3. CASE Pop(w)
  <2>1. CASE tasks = <<>>
    BY <1>3, <2>1 DEF Pop
  <2>2. CASE tasks # <<>>
    <3>1. tasks[Len(tasks)] # NoTask
      BY <2>2, RemainingProperties, NoTaskAssumption
    <3>2. w < size /\ owner # "gone"
      BY <1>3, <2>2 DEF Pop
    <3> QED
      BY <1>3, <2>2, <3>1, <3>2 DEF Pop
  <2> QED
    BY <2>1, <2>2
<1>4. CASE RunTask(w)
  BY <1>4 DEF RunTask
<1>5. CASE TaskThrows(w)
  BY <1>5 DEF TaskThrows
<1>6. CASE Fulfil(w)
  BY <1>6 DEF Fulfil
<1> QED
  BY <1>1, <1>2, <1>3, <1>4, <1>5, <1>6 DEF WorkerStep

(* Workers and threads: a step of the owner.                               *)
LEMMA OwnerStepThreads ==
  ASSUME IInv, OwnerStep
  PROVE  LiveBelowSize' /\ HandMatchesPc' /\ ShutdownProgress'
<1> USE DEF IInv, LiveBelowSize, HandMatchesPc, ShutdownProgress, Live
<1>1. ASSUME AddWorker, owner \in {"ctor", "idle"}, UNCHANGED ownerVars
      PROVE  LiveBelowSize' /\ HandMatchesPc' /\ ShutdownProgress'
  <2>1. size \in Worker /\ size' = size + 1
    BY <1>1, WorkersAssumption DEF AddWorker, TypeOK, Worker
  <2>2. pc' = [pc EXCEPT ![size] = "test"] /\ hand' = hand
    BY <1>1 DEF AddWorker
  <2>3. LiveBelowSize'
    BY <2>1, <2>2 DEF TypeOK, Worker
  <2>4. hand[size] = NoTask
    BY <2>1 DEF TypeOK, Worker
  <2>5. HandMatchesPc'
    BY <2>1, <2>2, <2>4 DEF TypeOK
  <2> QED
    BY <1>1, <2>3, <2>5 DEF ownerVars
<1>2. CASE Construct
  BY <1>1, <1>2 DEF Construct, ownerVars, poolVars, workerVars
<1>3. CASE InsertWorker
  BY <1>1, <1>3 DEF InsertWorker
<1>4. CASE \E b \in BOOLEAN : BeginShutdown(b)
  BY <1>4 DEF BeginShutdown, poolVars, workerVars
<1>5. CASE StopWorker
  BY <1>5 DEF StopWorker, MoreToStop, workerVars, TypeOK, Worker
<1>6. CASE JoinWorker
  BY <1>6 DEF JoinWorker, Joinable, poolVars, workerVars, TypeOK, Worker
<1>7. CASE EraseThreads
  BY <1>7 DEF EraseThreads, workerVars, TypeOK, Worker
<1>8. CASE Destroy
  BY <1>8 DEF Destroy, workerVars
<1> QED
  BY OwnerStep, <1>2, <1>3, <1>4, <1>5, <1>6, <1>7, <1>8 DEF OwnerStep

(* Tasks: they move only when they are queued, popped, fulfilled, or when  *)
(* the queue is destroyed.                                                 *)
LEMMA TasksUnmoved ==
  ASSUME TaskInOnePlace, UNCHANGED <<tasks, hand, future>>
  PROVE  TaskInOnePlace'
BY DEF TaskInOnePlace, Queued, Taken

LEMMA QueueTaskTasks ==
  ASSUME IInv, NEW t \in Task, QueueTask(t)
  PROVE  TaskInOnePlace'
<1> USE DEF IInv, TypeOK
<1>1. CASE size = 0
  BY <1>1, TasksUnmoved DEF QueueTask, workerVars
<1>2. CASE size # 0
  <2>1. /\ Len(tasks) \in Nat
        /\ Len(tasks') = Len(tasks) + 1
        /\ \A i \in 1 .. Len(tasks) : tasks'[i] = tasks[i]
        /\ tasks'[Len(tasks) + 1] = t
    <3>1. tasks' = Append(tasks, t) /\ tasks \in Seq(Task)
      BY <1>2 DEF QueueTask
    <3> HIDE DEF TypeOK
    <3> QED
      BY <3>1, AppendProperties
  <2>2. ~Queued(t) /\ ~Taken(t)
    BY DEF QueueTask, TaskInOnePlace
  <2>3. \A u \in Task : Queued(u)' <=> Queued(u) \/ u = t
    BY <2>1 DEF Queued
  <2>4. hand' = hand /\ \A u \in Task : Taken(u)' <=> Taken(u)
    BY DEF QueueTask, workerVars, Taken
  <2>5. \A u \in Task : future'[u] = "pending" <=> future[u] = "pending" \/ u = t
    BY <1>2 DEF QueueTask
  <2>6. \A i, j \in 1 .. Len(tasks') : tasks'[i] = tasks'[j] => i = j
    <3>1. \A i, j \in 1 .. Len(tasks) : tasks[i] = tasks[j] => i = j
      BY DEF TaskInOnePlace
    <3>2. \A i \in 1 .. Len(tasks) : tasks[i] # t
      BY <2>2 DEF Queued
    <3> HIDE DEF IInv, TypeOK
    <3> QED
      BY <2>1, <3>1, <3>2
  <2> QED
    BY <2>2, <2>3, <2>4, <2>5, <2>6 DEF TaskInOnePlace
<1> QED
  BY <1>1, <1>2

LEMMA PopTasks ==
  ASSUME IInv, NEW w \in Worker, Pop(w)
  PROVE  TaskInOnePlace'
<1> USE DEF IInv, TypeOK
<1>1. CASE tasks = <<>>
  BY <1>1, TasksUnmoved DEF Pop
<1>2. CASE tasks # <<>>
  <2> DEFINE t == tasks[Len(tasks)]
  <2>1. /\ t \in Task
        /\ Len(tasks) \in Nat \ {0}
        /\ Len(tasks') = Len(tasks) - 1
        /\ \A i \in 1 .. Len(tasks) - 1 : tasks'[i] = tasks[i]
    BY <1>2, RemainingProperties DEF Pop
  <2>2. Queued(t) /\ ~Taken(t)
    BY <2>1 DEF Queued, TaskInOnePlace
  <2>3. \A u \in Task : Queued(u)' <=> Queued(u) /\ u # t
    BY <2>1 DEF Queued, TaskInOnePlace
  <2>4. hand' = [hand EXCEPT ![w] = t] /\ hand[w] = NoTask /\ future' = future
    BY <1>2 DEF Pop, HandMatchesPc
  <2>5. \A u \in Task : Taken(u)' <=> Taken(u) \/ u = t
    BY <2>4, NoTaskAssumption DEF Taken
  <2>6. \A i, j \in 1 .. Len(tasks') : tasks'[i] = tasks'[j] => i = j
    BY <2>1 DEF TaskInOnePlace
  <2>7. \A u, v \in Worker : hand'[u] = hand'[v] /\ hand'[u] # NoTask => u = v
    BY <2>2, <2>4 DEF TaskInOnePlace, Taken
  <2> QED
    BY <2>2, <2>3, <2>4, <2>5, <2>6, <2>7 DEF TaskInOnePlace
<1> QED
  BY <1>1, <1>2

LEMMA FulfilTasks ==
  ASSUME IInv, NEW w \in Worker, Fulfil(w)
  PROVE  TaskInOnePlace'
<1> USE DEF IInv, TypeOK
<1> DEFINE t == hand[w]
<1>1. t \in Task /\ Taken(t) /\ ~Queued(t)
  BY DEF Fulfil, HandMatchesPc, Taken, TaskInOnePlace
<1>2. /\ hand' = [hand EXCEPT ![w] = NoTask]
      /\ future' = [future EXCEPT ![t] = "ready"]
      /\ tasks' = tasks
  BY DEF Fulfil, poolVars
<1>3. \A u \in Task : Queued(u)' <=> Queued(u)
  BY <1>2 DEF Queued
<1>4. \A u \in Task : Taken(u)' <=> Taken(u) /\ u # t
  BY <1>1, <1>2, NoTaskAssumption DEF Taken, TaskInOnePlace
<1>5. \A u, v \in Worker : hand'[u] = hand'[v] /\ hand'[u] # NoTask => u = v
  BY <1>2 DEF TaskInOnePlace
<1> QED
  BY <1>1, <1>2, <1>3, <1>4, <1>5 DEF TaskInOnePlace

LEMMA DestroyTasks ==
  ASSUME IInv, Destroy
  PROVE  TaskInOnePlace'
<1> USE DEF IInv, TypeOK
<1>1. Len(tasks') = 0 /\ hand' = hand
  BY EmptySeq DEF Destroy, workerVars
<1>2. \A w \in Worker : hand[w] = NoTask
  BY DEF Destroy, LiveBelowSize, Live, HandMatchesPc, Worker
<1>3. \A u \in Task : ~Queued(u)' /\ ~Taken(u)' /\ ~Taken(u)
  BY <1>1, <1>2, NoTaskAssumption DEF Queued, Taken
<1>4. \A u \in Task : future'[u] # "pending"
  BY <1>3 DEF Destroy, TaskInOnePlace, Queued
<1> QED
  BY <1>1, <1>2, <1>3, <1>4 DEF TaskInOnePlace

LEMMA IInvStep == IInv /\ [Next]_vars => IInv'
<1> SUFFICES ASSUME IInv, [Next]_vars PROVE IInv'
  OBVIOUS
<1>1. TypeOK'
  BY TypeStep DEF IInv
<1>2. ASSUME NEW w \in Worker, WorkerStep(w) PROVE IInv'
  <2>1. TaskInOnePlace'
    BY <1>2, PopTasks, FulfilTasks, TasksUnmoved
       DEF WorkerStep, LoadStats, ReadRunning, RunTask, TaskThrows, poolVars, workerVars, IInv
  <2> QED
    BY <1>1, <1>2, <2>1, WorkerStepThreads DEF IInv
<1>3. ASSUME NEW t \in Task, QueueTask(t) PROVE IInv'
  <2>1. LiveBelowSize' /\ HandMatchesPc' /\ ShutdownProgress'
    BY <1>3 DEF QueueTask, IInv, LiveBelowSize, HandMatchesPc, ShutdownProgress, Live,
                workerVars, ownerVars
  <2> QED
    BY <1>1, <1>3, <2>1, QueueTaskTasks DEF IInv
<1>4. ASSUME OwnerStep PROVE IInv'
  <2>1. TaskInOnePlace'
    BY <1>4, DestroyTasks, TasksUnmoved
       DEF OwnerStep, Construct, InsertWorker, AddWorker, BeginShutdown, StopWorker,
           JoinWorker, EraseThreads, poolVars, workerVars, IInv
  <2> QED
    BY <1>1, <1>4, <2>1, OwnerStepThreads DEF IInv
<1>5. CASE UNCHANGED vars
  <2>1. TaskInOnePlace'
    BY <1>5, TasksUnmoved DEF vars, poolVars, workerVars, IInv
  <2> QED
    BY <1>1, <1>5, <2>1 DEF vars, poolVars, workerVars, ownerVars, IInv, LiveBelowSize,
                            HandMatchesPc, ShutdownProgress, Live
<1> QED
  BY <1>2, <1>3, <1>4, <1>5 DEF Next, Terminated

LEMMA IInvHolds == Spec => []IInv
BY IInvInit, IInvStep, PTL DEF Spec

(* No task is lost or duplicated by the queue, for any number of workers,  *)
(* clients, shutdowns and restarts, growth of the pool included.           *)
THEOREM TasksConserved == Spec => []TaskInOnePlace
<1>1. IInv => TaskInOnePlace
  BY DEF IInv
<1> QED
  BY <1>1, IInvHolds, PTL

(* When shutdown has emptied the vectors, every worker has left its loop.  *)
THEOREM ShutdownIsComplete == Spec => []ShutdownWaits
<1>1. IInv => ShutdownWaits
  BY DEF IInv, LiveBelowSize, ShutdownWaits, Worker
<1> QED
  BY <1>1, IInvHolds, PTL

(* After the destructor no future of the pool is pending.                  *)
THEOREM DestructorResolvesFutures == Spec => []NoFutureHangs
<1>1. IInv => NoFutureHangs
  <2> SUFFICES ASSUME IInv, owner = "gone", NEW t \in Task PROVE future[t] # "pending"
    BY DEF NoFutureHangs
  <2>1. ~Queued(t)
    BY EmptySeq DEF IInv, ShutdownProgress, Queued
  <2>2. ~Taken(t)
    BY NoTaskAssumption
       DEF IInv, ShutdownProgress, LiveBelowSize, HandMatchesPc, Live, Taken, Worker
  <2> QED
    BY <2>1, <2>2 DEF IInv, TaskInOnePlace
<1> QED
  BY <1>1, IInvHolds, PTL

-----------------------------------------------------------------------------
(* A pool that is not grown while its workers run.                         *)

FlagsKnown ==
  /\ IInv
  /\ \A w \in Worker : ~stale[w]
  /\ owner = "ctor" => capacity = threadCount
  /\ NoWorkerLost

(* Unless insert_worker is called on a full, running pool, no worker leaves*)
(* its loop before shutdown tells it to.  The constructor's reserve is what*)
(* makes this true while the first workers already run.                    *)
THEOREM WorkersStay ==
  ASSUME ~GrowsLive
  PROVE  Spec => []NoWorkerLost
<1>1. Init => FlagsKnown
  BY IInvInit DEF Init, FlagsKnown, NoWorkerLost, Reserved
<1>2. FlagsKnown /\ [Next]_vars => FlagsKnown'
  <2> SUFFICES ASSUME FlagsKnown, [Next]_vars PROVE FlagsKnown'
    OBVIOUS
  <2>1. IInv'
    BY IInvStep DEF FlagsKnown
  <2> USE DEF FlagsKnown, NoWorkerLost, poolVars, workerVars, ownerVars
  <2>2. TypeOK /\ LiveBelowSize
    BY DEF IInv
  <2>3. ASSUME NEW w \in Worker, WorkerStep(w) PROVE FlagsKnown'
    BY <2>1, <2>2, <2>3
       DEF WorkerStep, LoadStats, ReadRunning, RunningRead, Pop, RunTask, TaskThrows, Fulfil,
           TypeOK
  <2>4. ASSUME NEW t \in Task, QueueTask(t) PROVE FlagsKnown'
    BY <2>1, <2>4 DEF QueueTask
  <2>5. ASSUME AddWorker, size < capacity \/ size = 0
        PROVE  /\ \A w \in Worker : ~stale'[w]
               /\ NoWorkerLost'
    <3>1. size \in Worker /\ size' = size + 1
      BY <2>2, <2>5, WorkersAssumption DEF AddWorker, TypeOK, Worker
    <3>2. \A w \in Worker : ~stale'[w]
      <4>1. CASE size < capacity
        BY <2>5, <4>1 DEF AddWorker
      <4>2. CASE ~(size < capacity)
        <5>1. \A w \in Worker : pc[w] # "read"
          BY <2>2, <2>5, <4>2 DEF LiveBelowSize, Live, Worker
        <5>2. stale' = [w \in Worker |-> stale[w] \/ pc[w] = "read"]
          BY <2>5, <4>2 DEF AddWorker
        <5> QED
          BY <5>1, <5>2
      <4> QED
        BY <4>1, <4>2
    <3>3. pc' = [pc EXCEPT ![size] = "test"] /\ running' = [running EXCEPT ![size] = TRUE]
      BY <2>5 DEF AddWorker
    <3>4. NoWorkerLost'
      BY <2>2, <3>1, <3>3 DEF TypeOK, Worker
    <3> QED
      BY <3>2, <3>4
  <2>6. ASSUME OwnerStep PROVE FlagsKnown'
    <3>1. CASE Construct
      <4>1. CASE size < threadCount
        <5>1. AddWorker /\ size < capacity
          BY <3>1, <4>1 DEF Construct
        <5> QED
          BY <2>1, <2>5, <3>1, <4>1, <5>1 DEF Construct, AddWorker
      <4>2. CASE ~(size < threadCount)
        BY <2>1, <3>1, <4>2 DEF Construct
      <4> QED
        BY <4>1, <4>2
    <3>2. CASE InsertWorker
      <4>1. AddWorker /\ (size < capacity \/ size = 0) /\ owner' = "idle"
        BY <3>2 DEF InsertWorker
      <4> QED
        BY <2>1, <2>5, <4>1
    <3>3. CASE \E b \in BOOLEAN : BeginShutdown(b)
      BY <2>1, <3>3 DEF BeginShutdown
    <3>4. CASE StopWorker
      BY <2>1, <2>2, <3>4 DEF StopWorker, TypeOK
    <3>5. CASE JoinWorker
      BY <2>1, <3>5 DEF JoinWorker
    <3>6. CASE EraseThreads
      BY <2>1, <3>6 DEF EraseThreads, Worker
    <3>7. CASE Destroy
      BY <2>1, <3>7 DEF Destroy
    <3> QED
      BY <2>6, <3>1, <3>2, <3>3, <3>4, <3>5, <3>6, <3>7 DEF OwnerStep
  <2>7. CASE UNCHANGED vars
    BY <2>1, <2>7 DEF vars
  <2> QED
    BY <2>3, <2>4, <2>6, <2>7 DEF Next, Terminated
<1>3. FlagsKnown => NoWorkerLost
  BY DEF FlagsKnown
<1> QED
  BY <1>1, <1>2, <1>3, PTL DEF Spec

-----------------------------------------------------------------------------
(* The pool implements Futures.                                            *)

Executed == {t \in Task : future[t] = "ready"} \cup InHandAt("fulfil")

LEMMA StutterWhenUnmoved ==
  ASSUME UNCHANGED <<hand, future>>,
         \A w \in Worker : \A l \in {"run", "fulfil"} : pc'[w] = l <=> pc[w] = l,
         (owner' = "gone") = (owner = "gone")
  PROVE  UNCHANGED Contract!vars
BY DEF Contract!vars, InHandAt

LEMMA ContractWorkerStep ==
  ASSUME IInv, NEW w \in Worker, WorkerStep(w)
  PROVE  [Contract!Next]_(Contract!vars)
<1> USE DEF IInv, TypeOK
<1>1. CASE LoadStats(w)
  BY <1>1, StutterWhenUnmoved DEF LoadStats, ownerVars
<1>2. CASE ReadRunning(w)
  BY <1>2, StutterWhenUnmoved DEF ReadRunning, ownerVars
<1>3. CASE TaskThrows(w)
  BY <1>3, StutterWhenUnmoved DEF TaskThrows, workerVars, ownerVars
<1>4. CASE Pop(w) /\ tasks = <<>>
  BY <1>4, StutterWhenUnmoved DEF Pop, ownerVars
<1>5. owner # "gone" \/ pc[w] \notin {"pop", "run", "fulfil"}
  BY DEF ShutdownProgress, LiveBelowSize, Live, Worker
<1>6. CASE Pop(w) /\ tasks # <<>>
  <2> DEFINE t == tasks[Len(tasks)]
  <2>1. t \in Task /\ Queued(t)
    BY <1>6, RemainingProperties DEF Queued
  <2>2. future[t] = "pending" /\ ~Taken(t)
    BY <2>1 DEF TaskInOnePlace
  <2>3. t \notin InHandAt("run") \cup Executed
    BY <2>2 DEF InHandAt, Executed, Taken
  <2>4. /\ pc[w] = "pop" /\ pc' = [pc EXCEPT ![w] = "run"]
        /\ hand' = [hand EXCEPT ![w] = t]
        /\ UNCHANGED <<future, owner>>
    BY <1>6 DEF Pop, ownerVars
  <2>5. InHandAt("run")' = InHandAt("run") \cup {t}
    BY <2>1, <2>4 DEF InHandAt
  <2>6. InHandAt("fulfil")' = InHandAt("fulfil")
    BY <2>4 DEF InHandAt
  <2>7. Contract!Start(t)
    BY <1>5, <2>2, <2>3, <2>4, <2>5, <2>6 DEF Contract!Start, Executed
  <2> QED
    BY <2>1, <2>7 DEF Contract!Next
<1>7. CASE RunTask(w)
  <2> DEFINE t == hand[w]
  <2>1. t \in Task
    BY <1>7 DEF RunTask, HandMatchesPc
  <2>2. /\ pc[w] = "run" /\ pc' = [pc EXCEPT ![w] = "fulfil"]
        /\ UNCHANGED <<hand, future, owner>>
    BY <1>7 DEF RunTask, ownerVars
  <2>3. \A v \in Worker : hand[v] = t => v = w
    BY <2>1, NoTaskAssumption DEF TaskInOnePlace
  <2>4. InHandAt("run")' = InHandAt("run") \ {t} /\ t \in InHandAt("run")
    BY <2>1, <2>2, <2>3 DEF InHandAt
  <2>5. InHandAt("fulfil")' = InHandAt("fulfil") \cup {t}
    BY <2>1, <2>2, <2>3 DEF InHandAt
  <2>6. Contract!Finish(t)
    BY <1>5, <2>2, <2>4, <2>5 DEF Contract!Finish
  <2>7. \E u \in Task : Contract!Finish(u)
    BY <2>1, <2>6 DEF Contract!Finish
  <2> QED
    BY <2>7 DEF Contract!Next
<1>8. CASE Fulfil(w)
  <2> DEFINE t == hand[w]
  <2>1. t \in Task /\ Taken(t)
    BY <1>8 DEF Fulfil, HandMatchesPc, Taken
  <2>2. future[t] = "pending"
    BY <2>1 DEF TaskInOnePlace
  <2>3. /\ pc[w] = "fulfil" /\ pc' = [pc EXCEPT ![w] = "test"]
        /\ hand' = [hand EXCEPT ![w] = NoTask]
        /\ future' = [future EXCEPT ![t] = "ready"]
        /\ UNCHANGED owner
    BY <1>8 DEF Fulfil, ownerVars
  <2>4. InHandAt("run")' = InHandAt("run")
    BY <2>3 DEF InHandAt
  <2>5. t \in InHandAt("fulfil") /\ InHandAt("fulfil")' = InHandAt("fulfil") \ {t}
    BY <2>1, <2>3, NoTaskAssumption DEF InHandAt, TaskInOnePlace
  <2>6. Executed' = Executed
    BY <2>1, <2>3, <2>5 DEF Executed
  <2>7. Contract!Resolve(t)
    BY <1>5, <2>2, <2>3, <2>4, <2>5, <2>6 DEF Contract!Resolve, Executed
  <2> QED
    BY <2>1, <2>7 DEF Contract!Next
<1> QED
  BY <1>1, <1>2, <1>3, <1>4, <1>6, <1>7, <1>8 DEF WorkerStep

LEMMA ContractQueueTask ==
  ASSUME IInv, NEW t \in Task, QueueTask(t)
  PROVE  [Contract!Next]_(Contract!vars)
<1>1. CASE size = 0
  BY <1>1, StutterWhenUnmoved DEF QueueTask, workerVars, ownerVars
<1>2. CASE size # 0
  <2>1. /\ owner # "gone" /\ future[t] \in {"none", "ready"}
        /\ future' = [future EXCEPT ![t] = "pending"]
        /\ UNCHANGED <<pc, hand, owner>>
    BY <1>2 DEF QueueTask, workerVars, ownerVars
  <2>2. \A l : InHandAt(l)' = InHandAt(l)
    BY <2>1 DEF InHandAt
  <2>3. Executed' = Executed \ {t}
    <3>1. t \notin InHandAt("fulfil")
      BY <2>1 DEF IInv, TaskInOnePlace, Taken, InHandAt
    <3> QED
      BY <2>1, <2>2, <3>1 DEF Executed, IInv, TypeOK
  <2>4. Contract!Submit(t)
    BY <2>1, <2>2, <2>3 DEF Contract!Submit, Executed
  <2> QED
    BY <2>4 DEF Contract!Next
<1> QED
  BY <1>1, <1>2

LEMMA ContractOwnerStep ==
  ASSUME IInv, OwnerStep
  PROVE  [Contract!Next]_(Contract!vars)
<1>1. ASSUME AddWorker, owner \in {"ctor", "idle"}, owner' = owner
      PROVE  UNCHANGED Contract!vars
  <2>1. size \in Worker /\ ~Live(size)
    BY <1>1, WorkersAssumption DEF AddWorker, IInv, TypeOK, LiveBelowSize, Worker
  <2> QED
    BY <1>1, <2>1, StutterWhenUnmoved DEF AddWorker, IInv, TypeOK, Live
<1>2. CASE Construct
  <2>1. CASE size < threadCount
    BY <1>1, <1>2, <2>1 DEF Construct
  <2>2. CASE ~(size < threadCount)
    BY <1>2, <2>2, StutterWhenUnmoved DEF Construct, workerVars
  <2> QED
    BY <2>1, <2>2
<1>3. CASE InsertWorker
  BY <1>1, <1>3 DEF InsertWorker, ownerVars
<1>4. CASE \E b \in BOOLEAN : BeginShutdown(b)
  BY <1>4, StutterWhenUnmoved DEF BeginShutdown, workerVars
<1>5. CASE StopWorker
  BY <1>5, StutterWhenUnmoved DEF StopWorker, workerVars
<1>6. CASE JoinWorker
  BY <1>6, StutterWhenUnmoved DEF JoinWorker, workerVars
<1>7. CASE EraseThreads
  BY <1>7, StutterWhenUnmoved DEF EraseThreads, workerVars
<1>8. CASE Destroy
  <2>1. \A w \in Worker : pc[w] \notin {"run", "fulfil"} /\ hand[w] = NoTask
    BY <1>8 DEF Destroy, IInv, LiveBelowSize, Live, HandMatchesPc, Worker
  <2>2. \A t \in Task : ~Taken(t)
    BY <2>1, NoTaskAssumption DEF Taken
  <2>3. \A t \in Task : future'[t] = IF future[t] = "pending" THEN "broken" ELSE future[t]
    BY <1>8, <2>2 DEF Destroy, IInv, TaskInOnePlace, Queued
  <2>4. future' = [t \in Task |-> IF future[t] = "pending" THEN "broken" ELSE future[t]]
    BY <1>8, <2>3 DEF Destroy
  <2>5. \A l \in {"run", "fulfil"} : InHandAt(l) = {} /\ InHandAt(l)' = {}
    BY <1>8, <2>1 DEF Destroy, workerVars, InHandAt
  <2>6. {t \in Task : future'[t] = "ready"} = {t \in Task : future[t] = "ready"}
    BY <2>3
  <2>7. Contract!Close
    BY <1>8, <2>4, <2>5, <2>6 DEF Contract!Close, Destroy
  <2> QED
    BY <2>7 DEF Contract!Next
<1> QED
  BY OwnerStep, <1>2, <1>3, <1>4, <1>5, <1>6, <1>7, <1>8 DEF OwnerStep

(* Every behaviour of the pool is one Futures allows: at most one execution*)
(* of a task, a ready future only after it, and nothing pending or running *)
(* when the pool is gone.                                                  *)
THEOREM ImplementsFutures == Spec => KeepsContract
<1>1. Init => Contract!Init
  BY DEF Init, Contract!Init, InHandAt
<1>2. IInv /\ [Next]_vars => [Contract!Next]_(Contract!vars)
  <2> SUFFICES ASSUME IInv, [Next]_vars PROVE [Contract!Next]_(Contract!vars)
    OBVIOUS
  <2>1. CASE UNCHANGED vars
    BY <2>1, StutterWhenUnmoved DEF vars, workerVars, ownerVars
  <2> QED
    BY <2>1, ContractWorkerStep, ContractQueueTask, ContractOwnerStep DEF Next, Terminated
<1> QED
  BY <1>1, <1>2, IInvHolds, PTL DEF Spec, KeepsContract, Contract!Spec
=============================================================================
