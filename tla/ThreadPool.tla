----------------------------- MODULE ThreadPool -----------------------------
(***************************************************************************)
(* lython::ThreadPool (src/utilities/pool.h, pool.cpp): a vector of worker *)
(* threads, a vector of per-worker Stat_t records and a LIFO vector of     *)
(* tasks.  Only `tasks` is protected by the mutex, so queue_task and pop   *)
(* are one step each; everything that touches `stats` runs without a lock  *)
(* and is cut into the steps at which threads can interleave.              *)
(*                                                                         *)
(* Actors: the workers, the owner (constructor, insert_worker, shutdown,   *)
(* destructor: one thread, one call at a time) and any number of clients   *)
(* that call queue_task at any moment while the pool exists.               *)
(*                                                                         *)
(* stats is indexed by n on every access.  A worker first loads the        *)
(* address of its record and then reads it; when the vector is reallocated *)
(* in between, the read goes to freed memory and may return anything.      *)
(***************************************************************************)
EXTENDS Naturals, Sequences

CONSTANTS
  Task,          \* names of tasks; bounds those in the pool at one moment, not
                 \* those queued: a name is used again once its future is ready
  NoTask,        \* an empty std::optional<Task_t>
  MaxWorkers,    \* bound on the workers inserted
  ThreadCounts,  \* constructor arguments considered; hardware_concurrency() may be 0
  GrowsLive      \* does the owner call insert_worker on a full, running pool?

ASSUME NoTaskAssumption == NoTask \notin Task
ASSUME WorkersAssumption == MaxWorkers \in Nat
ASSUME CountsAssumption == ThreadCounts \subseteq 0 .. MaxWorkers
ASSUME GrowsAssumption == GrowsLive \in BOOLEAN

Worker == 0 .. MaxWorkers - 1

VARIABLES
  tasks,        \* the queue; workers take from its end
  size,         \* threads.size() = stats.size()
  capacity,     \* stats.capacity()
  running,      \* stats[n].running
  stale,        \* the record address a worker loaded was freed by a reallocation
  pc,           \* where each worker is in worker_loop
  hand,         \* the task a worker popped and has not finished
  future,       \* state shared by a task's promise and its future
  owner,        \* the call the owner is in
  cursor,       \* loop index of that call
  wait,         \* argument of the current shutdown
  threadCount,  \* argument of the constructor
  aborted       \* std::terminate was called: the process is gone

poolVars == <<tasks, size, capacity, running, stale>>
workerVars == <<pc, hand>>
ownerVars == <<owner, cursor, wait, threadCount>>
vars == <<poolVars, workerVars, future, ownerVars, aborted>>

Live(w) == pc[w] \in {"test", "read", "pop", "run", "fulfil"}

-----------------------------------------------------------------------------
(* The constructor reserves exactly thread_count records, then inserts.    *)

NoReserve(n) == 0   \* fault: the reserve is forgotten
Reserved(n) == n

Init ==
  /\ threadCount \in ThreadCounts
  /\ tasks = <<>>
  /\ size = 0
  /\ capacity = Reserved(threadCount)
  /\ running = [w \in Worker |-> FALSE]
  /\ stale = [w \in Worker |-> FALSE]
  /\ pc = [w \in Worker |-> "none"]
  /\ hand = [w \in Worker |-> NoTask]
  /\ future = [t \in Task |-> "none"]
  /\ owner = "ctor"
  /\ cursor = 0
  /\ wait = FALSE
  /\ aborted = FALSE

-----------------------------------------------------------------------------
(* worker_loop                                                             *)

LoadStats(w) ==
  /\ ~aborted
  /\ pc[w] = "test"
  /\ pc' = [pc EXCEPT ![w] = "read"]
  /\ stale' = [stale EXCEPT ![w] = FALSE]
  /\ UNCHANGED <<tasks, size, capacity, running, hand, future, ownerVars, aborted>>

(* The values `pool->stats[n].running` can have when it is read.           *)
RunningRead(w) == IF stale[w] THEN BOOLEAN ELSE {running[w]}

ReadRunning(w) ==
  /\ ~aborted
  /\ pc[w] = "read"
  /\ \E run \in RunningRead(w) :
        pc' = [pc EXCEPT ![w] = IF run THEN "pop" ELSE "exited"]
  /\ UNCHANGED <<poolVars, hand, future, ownerVars, aborted>>

(* What is left of the queue after a pop: the newest task is the one taken.*)
Peeked(q) == q      \* fault: the task is copied and stays in the queue
Remaining(q) == SubSeq(q, 1, Len(q) - 1)

(* fault: a worker that finds the queue empty leaves its loop.             *)
PopOrLeave(w) ==
  /\ ~aborted
  /\ pc[w] = "pop"
  /\ IF tasks = <<>>
     THEN /\ pc' = [pc EXCEPT ![w] = "exited"]
          /\ UNCHANGED <<tasks, hand>>
     ELSE /\ pc' = [pc EXCEPT ![w] = "run"]
          /\ hand' = [hand EXCEPT ![w] = tasks[Len(tasks)]]
          /\ tasks' = Remaining(tasks)
  /\ UNCHANGED <<size, capacity, running, stale, future, ownerVars, aborted>>

Pop(w) ==
  /\ ~aborted
  /\ pc[w] = "pop"
  /\ IF tasks = <<>>
     THEN /\ pc' = [pc EXCEPT ![w] = "test"]
          /\ UNCHANGED <<tasks, hand>>
     ELSE /\ pc' = [pc EXCEPT ![w] = "run"]
          /\ hand' = [hand EXCEPT ![w] = tasks[Len(tasks)]]
          /\ tasks' = Remaining(tasks)
  /\ UNCHANGED <<size, capacity, running, stale, future, ownerVars, aborted>>

(* The task's function returns.                                            *)
RunTask(w) ==
  /\ ~aborted
  /\ pc[w] = "run"
  /\ pc' = [pc EXCEPT ![w] = "fulfil"]
  /\ UNCHANGED <<poolVars, hand, future, ownerVars, aborted>>

(* The task's function throws: nothing in worker_loop catches it.          *)
TaskThrows(w) ==
  /\ ~aborted
  /\ pc[w] = "run"
  /\ aborted' = TRUE
  /\ UNCHANGED <<poolVars, workerVars, future, ownerVars>>

(* prom->set_value(result), and the task object is destroyed.              *)
Fulfil(w) ==
  /\ ~aborted
  /\ pc[w] = "fulfil"
  /\ future' = [future EXCEPT ![hand[w]] = "ready"]
  /\ hand' = [hand EXCEPT ![w] = NoTask]
  /\ pc' = [pc EXCEPT ![w] = "test"]
  /\ UNCHANGED <<poolVars, ownerVars, aborted>>

WorkerStep(w) ==
  LoadStats(w) \/ ReadRunning(w) \/ Pop(w) \/ RunTask(w) \/ TaskThrows(w) \/ Fulfil(w)

-----------------------------------------------------------------------------
(* queue_task, called by a client.  `throw;` outside a handler terminates. *)

QueueTask(t) ==
  /\ ~aborted
  /\ owner \notin {"ctor", "gone"}
  /\ future[t] \in {"none", "ready"}
  /\ IF size = 0
     THEN /\ aborted' = TRUE
          /\ UNCHANGED <<tasks, future>>
     ELSE /\ tasks' = Append(tasks, t)
          /\ future' = [future EXCEPT ![t] = "pending"]
          /\ UNCHANGED aborted
  /\ UNCHANGED <<size, capacity, running, stale, workerVars, ownerVars>>

-----------------------------------------------------------------------------
(* The owner's calls.                                                      *)

Grown(c) == IF c = 0 THEN 1 ELSE 2 * c

(* stats.emplace_back(); threads.emplace_back(worker_loop, this, n): past  *)
(* the capacity the records move and every loaded address dangles.         *)
AddWorker ==
  /\ size < MaxWorkers
  /\ IF size < capacity
     THEN UNCHANGED <<capacity, stale>>
     ELSE /\ capacity' = Grown(capacity)
          /\ stale' = [w \in Worker |-> stale[w] \/ pc[w] = "read"]
  /\ size' = size + 1
  /\ running' = [running EXCEPT ![size] = TRUE]
  /\ pc' = [pc EXCEPT ![size] = "test"]
  /\ UNCHANGED <<tasks, hand, future>>

Construct ==
  /\ ~aborted
  /\ owner = "ctor"
  /\ IF size < threadCount
     THEN AddWorker /\ UNCHANGED owner
     ELSE /\ owner' = "idle"
          /\ UNCHANGED <<poolVars, workerVars, future>>
  /\ UNCHANGED <<cursor, wait, threadCount, aborted>>

InsertWorker ==
  /\ ~aborted
  /\ owner = "idle"
  /\ GrowsLive \/ size < capacity \/ size = 0
  /\ AddWorker
  /\ UNCHANGED <<ownerVars, aborted>>

(* shutdown(wait) by the owner.  The destructor is a shutdown(true) that    *)
(* is followed by Destroy.                                                 *)
BeginShutdown(w) ==
  /\ ~aborted
  /\ owner = "idle"
  /\ owner' = "stop"
  /\ cursor' = 0
  /\ wait' = w
  /\ UNCHANGED <<poolVars, workerVars, future, threadCount, aborted>>

StopsPastEnd == cursor <= size        \* fault: one record too many
StopsAllButLast == cursor + 1 < size  \* fault: the last record is skipped
MoreToStop == cursor < size

StopWorker ==
  /\ ~aborted
  /\ owner = "stop"
  /\ IF MoreToStop
     THEN /\ running' = [running EXCEPT ![cursor] = FALSE]
          /\ cursor' = cursor + 1
          /\ UNCHANGED owner
     ELSE /\ owner' = IF wait THEN "join" ELSE "erase"
          /\ cursor' = 0
          /\ UNCHANGED running
  /\ UNCHANGED <<tasks, size, capacity, stale, workerVars, future, wait, threadCount, aborted>>

(* thread.join() returns when the worker has left its loop.                *)
Detached(w) == TRUE                  \* fault: the thread is detached
Joinable(w) == pc[w] = "exited"

JoinWorker ==
  /\ ~aborted
  /\ owner = "join"
  /\ IF cursor < size
     THEN /\ Joinable(cursor)
          /\ cursor' = cursor + 1
          /\ UNCHANGED owner
     ELSE /\ owner' = "erase"
          /\ cursor' = 0
  /\ UNCHANGED <<poolVars, workerVars, future, wait, threadCount, aborted>>

(* Erasing a std::thread nobody joined terminates the process.             *)
EraseThreads ==
  /\ ~aborted
  /\ owner = "erase"
  /\ IF size > 0 /\ ~wait
     THEN aborted' = TRUE /\ UNCHANGED <<size, owner>>
     ELSE size' = 0 /\ owner' = "idle" /\ UNCHANGED aborted
  /\ UNCHANGED <<tasks, capacity, running, stale, workerVars, future, cursor, wait, threadCount>>

(* The end of the destructor: the vector of tasks dies, and with it the    *)
(* promises of the tasks nobody took.  shutdown(true) left no thread.      *)
Destroy ==
  /\ ~aborted
  /\ owner = "idle"
  /\ size = 0
  /\ owner' = "gone"
  /\ tasks' = <<>>
  /\ future' = [t \in Task |->
                  IF \E i \in 1 .. Len(tasks) : tasks[i] = t THEN "broken" ELSE future[t]]
  /\ UNCHANGED <<size, capacity, running, stale, workerVars, cursor, wait, threadCount, aborted>>

OwnerStep ==
  \/ Construct
  \/ InsertWorker
  \/ \E w \in BOOLEAN : BeginShutdown(w)
  \/ StopWorker
  \/ JoinWorker
  \/ EraseThreads
  \/ Destroy

(* The process is over, or the pool is: nothing is left to do.             *)
Terminated ==
  /\ aborted \/ (owner = "gone" /\ \A w \in Worker : ~Live(w))
  /\ UNCHANGED vars

Next ==
  \/ \E w \in Worker : WorkerStep(w)
  \/ \E t \in Task : QueueTask(t)
  \/ OwnerStep
  \/ Terminated

(* Every thread is scheduled, tasks return or throw, and the owner does    *)
(* not stop in the middle of a constructor or a shutdown.  Nobody has to   *)
(* queue, to insert a worker, or to shut down.                             *)
Fairness ==
  /\ \A w \in Worker : WF_vars(WorkerStep(w))
  /\ WF_vars(Construct \/ StopWorker \/ JoinWorker \/ EraseThreads)

Spec == Init /\ [][Next]_vars /\ Fairness

-----------------------------------------------------------------------------
(* Properties                                                              *)

TypeOK ==
  /\ tasks \in Seq(Task)
  /\ size \in 0 .. MaxWorkers
  /\ capacity \in Nat
  /\ running \in [Worker -> BOOLEAN]
  /\ stale \in [Worker -> BOOLEAN]
  /\ pc \in [Worker -> {"none", "test", "read", "pop", "run", "fulfil", "exited"}]
  /\ hand \in [Worker -> Task \cup {NoTask}]
  /\ future \in [Task -> {"none", "pending", "ready", "broken"}]
  /\ owner \in {"ctor", "idle", "stop", "join", "erase", "gone"}
  /\ cursor \in 0 .. MaxWorkers
  /\ wait \in BOOLEAN
  /\ threadCount \in ThreadCounts
  /\ aborted \in BOOLEAN

Queued(t) == \E i \in 1 .. Len(tasks) : tasks[i] = t
Taken(t) == \E w \in Worker : hand[w] = t

(* A task whose future is pending is in the queue or in the hand of one    *)
(* worker, once: pop and queue_task neither lose nor duplicate a task, even*)
(* across shutdowns and restarts of the pool.                              *)
TaskInOnePlace ==
  /\ \A i, j \in 1 .. Len(tasks) : tasks[i] = tasks[j] => i = j
  /\ \A t \in Task : ~(Queued(t) /\ Taken(t))
  /\ \A v, w \in Worker : hand[v] = hand[w] /\ hand[v] # NoTask => v = w
  /\ \A t \in Task : future[t] = "pending" <=> Queued(t) \/ Taken(t)

(* A worker leaves its loop only when it was told to: worker_loop never    *)
(* reads a `running` flag that is not its own, whatever insert_worker does *)
(* to the vector meanwhile.                                                *)
NoWorkerLost ==
  \A w \in Worker : w < size /\ pc[w] = "exited" => ~running[w]

(* Once shutdown has emptied the vectors no thread is in worker_loop, so   *)
(* nothing reads the erased records or the pool that is being destroyed.   *)
ShutdownWaits ==
  size = 0 => \A w \in Worker : ~Live(w)

(* A future obtained from queue_task never stays pending after the pool is *)
(* destroyed: the task ran, or its promise died with the queue.            *)
NoFutureHangs ==
  owner = "gone" => \A t \in Task : future[t] # "pending"

(* pop takes the newest task, so a task can wait forever under newer ones. *)
(* What the pool does promise is that once the clients stop queueing, every*)
(* task still queued is finished, as long as the pool stays open.          *)
ClientsStop == <>[][\A t \in Task : ~QueueTask(t)]_vars

TaskRuns ==
  ClientsStop =>
    \A t \in Task :
      future[t] = "pending" ~> \/ future[t] # "pending"
                              \/ owner # "idle"
                              \/ size = 0
                              \/ aborted

(* However fast the clients queue, a pool that stays open with a task to do*)
(* keeps finishing tasks: the workers never all sleep beside a full queue. *)
Unfinished ==
  owner = "idle" /\ size > 0 /\ ~aborted /\ \E t \in Task : future[t] = "pending"

PoolProgresses == <>[]Unfinished => []<><<\E w \in Worker : Fulfil(w)>>_vars

(* A call to shutdown returns (or has terminated the process): no worker   *)
(* keeps join waiting, however many tasks are queued meanwhile.            *)
ShutdownReturns ==
  owner \in {"stop", "join", "erase"} ~> owner = "idle" \/ aborted

(* The pool keeps the promises of Futures: a queued task executes at most  *)
(* once, by one worker, its future is ready only after that, and when the  *)
(* pool is gone nothing executes and nothing is pending.                   *)
InHandAt(l) == {t \in Task : \E w \in Worker : pc[w] = l /\ hand[w] = t}

Contract ==
  INSTANCE Futures WITH
    busy <- InHandAt("run"),
    executed <- {t \in Task : future[t] = "ready"} \cup InHandAt("fulfil"),
    open <- owner # "gone"

KeepsContract == Contract!Spec
=============================================================================
