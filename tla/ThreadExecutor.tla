--------------------------- MODULE ThreadExecutor ---------------------------
(***************************************************************************)
(* The thread executor (ivsr_thread_executor.cpp): a FIFO of tasks, worker *)
(* threads that run them on the engine, and a counter of completed tasks   *)
(* the application thread (the client) waits on.  _mutex guards the queue, *)
(* the counter and _isStopped; a critical section is one action.           *)
(* _queueCondVar blocks workers, _taskCondVar the client.  A worker may be *)
(* back in its loop before or after its task completes: completion is      *)
(* competition_call_back, called by the engine on a thread of its own.     *)
(*                                                                         *)
(* batch and called are history variables: the tasks enqueued and the      *)
(* tasks completed since the counter was last reset.  What the executor    *)
(* expects of its users is stated only in Next: one client, tasks that are *)
(* new, wait_all given the number of tasks enqueued, an engine that        *)
(* completes a task at most once.                                          *)
(***************************************************************************)
EXTENDS Naturals, Sequences, FiniteSets

CONSTANTS
  Workers,     \* _threads
  Tasks,       \* the InferTask objects
  NoTask

ASSUME ExecutorAssumption == NoTask \notin Tasks /\ IsFiniteSet(Workers)

VARIABLES
  taskQueue,   \* _taskQueue
  worker,      \* where each worker is in its loop, and its task
  cbCounter,   \* _cb_counter
  isStopped,   \* _isStopped
  client,      \* where the client is inside the executor
  target,      \* the size wait_all was given
  batch,
  called,
  inEngine     \* tasks the engine was given and may still complete

execVars == <<taskQueue, worker, cbCounter, isStopped, client, target, batch, called>>
vars == <<execVars, inEngine>>

\* "wait" and "asleep": at and inside _queueCondVar.wait; "take": has a task,
\* about to call _engine->run; "engine": inside it; "exit": the thread ended.
Worker == [at : {"wait", "asleep", "take", "engine", "exit"}, task : Tasks \cup {NoTask}]
Waiting == [at |-> "wait", task |-> NoTask]

\* "notify": pushed a task, notify_one to come; "sync" and "asleep": at and
\* inside _taskCondVar.wait; "reset": sync returned; "stop", "join", "gone":
\* in the destructor, before notify_all, joining, and past it.
ClientAt == {"out", "notify", "sync", "asleep", "reset", "stop", "join", "gone"}

TypeOK ==
  /\ taskQueue \in Seq(Tasks)
  /\ worker \in [Workers -> Worker]
  /\ cbCounter \in Nat
  /\ isStopped \in BOOLEAN
  /\ client \in ClientAt
  /\ target \in Nat
  /\ batch \subseteq Tasks
  /\ called \subseteq Tasks
  /\ inEngine \subseteq Tasks

Init ==
  /\ taskQueue = <<>>
  /\ worker = [w \in Workers |-> Waiting]
  /\ cbCounter = 0
  /\ isStopped = FALSE
  /\ client = "out"
  /\ target = 0
  /\ batch = {}
  /\ called = {}
  /\ inEngine = {}

-----------------------------------------------------------------------------
(* Mutated operations: slips the properties are there to catch. *)

\* Pushes the task and forgets _queueCondVar.notify_one.
EnqueueIsSilent ==
  /\ client = "notify"
  /\ client' = "out"
  /\ UNCHANGED <<taskQueue, worker, cbCounter, isStopped, target, batch, called>>

\* Returns from wait_all and forgets to reset the counter.
ResetKeepsCounter ==
  /\ client = "reset"
  /\ batch' = {}
  /\ called' = {}
  /\ client' = "out"
  /\ UNCHANGED <<taskQueue, worker, cbCounter, isStopped, target>>

\* Sets _isStopped and wakes nobody.
StopIsSilent ==
  /\ client = "stop"
  /\ client' = "join"
  /\ UNCHANGED <<taskQueue, worker, cbCounter, isStopped, target, batch, called>>

\* Reads the front of the queue and forgets to pop it.
TakeWithoutPop(w) ==
  /\ worker[w].at = "wait"
  /\ taskQueue # <<>>
  /\ worker' = [worker EXCEPT ![w] = [at |-> "take", task |-> Head(taskQueue)]]
  /\ UNCHANGED <<taskQueue, cbCounter, isStopped, client, target, batch, called>>

\* Ends as soon as _isStopped is set.
ExitsAtOnce(w) ==
  /\ worker[w].at = "wait"
  /\ isStopped
  /\ worker' = [worker EXCEPT ![w] = [at |-> "exit", task |-> NoTask]]
  /\ UNCHANGED <<taskQueue, cbCounter, isStopped, client, target, batch, called>>

-----------------------------------------------------------------------------
(* The client *)

\* Enqueue: the push, under _mutex; the notification follows outside it.
Enqueue(task) ==
  /\ client = "out"
  /\ taskQueue' = Append(taskQueue, task)
  /\ batch' = batch \cup {task}
  /\ client' = "notify"
  /\ UNCHANGED <<worker, cbCounter, isStopped, target, called>>

\* _queueCondVar.notify_one
NotifyOne ==
  IF \E w \in Workers : worker[w].at = "asleep"
    THEN \E w \in Workers :
           /\ worker[w].at = "asleep"
           /\ worker' = [worker EXCEPT ![w] = Waiting]
    ELSE UNCHANGED worker

EnqueueNotifies ==
  /\ client = "notify"
  /\ NotifyOne
  /\ client' = "out"
  /\ UNCHANGED <<taskQueue, cbCounter, isStopped, target, batch, called>>

\* wait_all(n): sync(n), then reset().
WaitAll(n) ==
  /\ client = "out"
  /\ client' = "sync"
  /\ target' = n
  /\ UNCHANGED <<taskQueue, worker, cbCounter, isStopped, batch, called>>

SyncReturns ==
  /\ client = "sync"
  /\ cbCounter = target
  /\ client' = "reset"
  /\ UNCHANGED <<taskQueue, worker, cbCounter, isStopped, target, batch, called>>

SyncBlocks ==
  /\ client = "sync"
  /\ cbCounter # target
  /\ client' = "asleep"
  /\ UNCHANGED <<taskQueue, worker, cbCounter, isStopped, target, batch, called>>

SyncWakesSpuriously ==
  /\ client = "asleep"
  /\ client' = "sync"
  /\ UNCHANGED <<taskQueue, worker, cbCounter, isStopped, target, batch, called>>

Reset ==
  /\ client = "reset"
  /\ cbCounter' = 0
  /\ batch' = {}
  /\ called' = {}
  /\ client' = "out"
  /\ UNCHANGED <<taskQueue, worker, isStopped, target>>

\* ~IVSRThreadExecutor: set _isStopped, notify_all, join every worker.
Stop ==
  /\ client = "out"
  /\ isStopped' = TRUE
  /\ client' = "stop"
  /\ UNCHANGED <<taskQueue, worker, cbCounter, target, batch, called>>

StopNotifies ==
  /\ client = "stop"
  /\ worker' = [w \in Workers |-> IF worker[w].at = "asleep" THEN Waiting ELSE worker[w]]
  /\ client' = "join"
  /\ UNCHANGED <<taskQueue, cbCounter, isStopped, target, batch, called>>

Join ==
  /\ client = "join"
  /\ \A w \in Workers : worker[w].at = "exit"
  /\ client' = "gone"
  /\ UNCHANGED <<taskQueue, worker, cbCounter, isStopped, target, batch, called>>

-----------------------------------------------------------------------------
(* The workers *)

\* The wait predicate holds for the queue: stopped is not read, even if set.
TakeTask(w) ==
  /\ worker[w].at = "wait"
  /\ taskQueue # <<>>
  /\ worker' = [worker EXCEPT ![w] = [at |-> "take", task |-> Head(taskQueue)]]
  /\ taskQueue' = Tail(taskQueue)
  /\ UNCHANGED <<cbCounter, isStopped, client, target, batch, called>>

WorkerBlocks(w) ==
  /\ worker[w].at = "wait"
  /\ taskQueue = <<>>
  /\ ~isStopped
  /\ worker' = [worker EXCEPT ![w] = [at |-> "asleep", task |-> NoTask]]
  /\ UNCHANGED <<taskQueue, cbCounter, isStopped, client, target, batch, called>>

WorkerWakesSpuriously(w) ==
  /\ worker[w].at = "asleep"
  /\ worker' = [worker EXCEPT ![w] = Waiting]
  /\ UNCHANGED <<taskQueue, cbCounter, isStopped, client, target, batch, called>>

\* Queue empty and stopped: the loop ends.
WorkerExits(w) ==
  /\ worker[w].at = "wait"
  /\ taskQueue = <<>>
  /\ isStopped
  /\ worker' = [worker EXCEPT ![w] = [at |-> "exit", task |-> NoTask]]
  /\ UNCHANGED <<taskQueue, cbCounter, isStopped, client, target, batch, called>>

\* Execute: _engine->run(task), its status ignored.
CallRun(w) ==
  /\ worker[w].at = "take"
  /\ worker' = [worker EXCEPT ![w] = [@ EXCEPT !.at = "engine"]]
  /\ UNCHANGED <<taskQueue, cbCounter, isStopped, client, target, batch, called>>

RunReturns(w) ==
  /\ worker[w].at = "engine"
  /\ worker' = [worker EXCEPT ![w] = Waiting]
  /\ UNCHANGED <<taskQueue, cbCounter, isStopped, client, target, batch, called>>

\* competition_call_back, with no user callback in the task: ivsr_process sets none.
CompetitionCallBack(task) ==
  /\ cbCounter' = cbCounter + 1
  /\ called' = called \cup {task}
  /\ client' = IF client = "asleep" THEN "sync" ELSE client
  /\ UNCHANGED <<taskQueue, worker, isStopped, target, batch>>

-----------------------------------------------------------------------------
\* The tasks the workers have taken and not yet given to the engine.
Taken == {worker[w].task : w \in {w \in Workers : worker[w].at = "take"}}
Queued == {taskQueue[k] : k \in 1 .. Len(taskQueue)}

Next ==
  \/ \E task \in Tasks \ (batch \cup inEngine) : Enqueue(task) /\ UNCHANGED inEngine
  \/ WaitAll(Cardinality(batch)) /\ UNCHANGED inEngine
  \/ /\ \/ EnqueueNotifies
        \/ Stop
        \/ SyncReturns
        \/ SyncBlocks
        \/ SyncWakesSpuriously
        \/ Reset
        \/ StopNotifies
        \/ Join
     /\ UNCHANGED inEngine
  \/ \E w \in Workers :
       /\ \/ TakeTask(w)
          \/ WorkerBlocks(w)
          \/ WorkerWakesSpuriously(w)
          \/ WorkerExits(w)
          \/ RunReturns(w)
       /\ UNCHANGED inEngine
  \/ \E w \in Workers : CallRun(w) /\ inEngine' = inEngine \cup {worker[w].task}
  \/ \E w \in Workers : CallRun(w) /\ UNCHANGED inEngine     \* run refuses the task
  \/ \E task \in inEngine : CompetitionCallBack(task) /\ inEngine' = inEngine \ {task}
  \/ \E task \in inEngine :                                  \* the inference fails
       inEngine' = inEngine \ {task} /\ UNCHANGED execVars

Spec == Init /\ [][Next]_vars

-----------------------------------------------------------------------------
(* Properties *)

(* wait_all returns only when every task enqueued since the last reset has  *)
(* completed: none is queued, in a worker's hands or in the engine, although *)
(* sync only compares a counter with a number and workers may still be      *)
(* returning from run (sync, reset, competition_call_back).                 *)
WaitAllIsABarrier ==
  client = "reset" => /\ called = batch
                      /\ taskQueue = <<>>
                      /\ Taken = {}
                      /\ inEngine = {}

(* A task is in one place: queued once, taken by one worker, in the engine  *)
(* or completed; no task is run twice (Enqueue, the worker loop).           *)
TaskInOnePlace ==
  /\ \A k, l \in 1 .. Len(taskQueue) : taskQueue[k] = taskQueue[l] => k = l
  /\ \A v, w \in Workers :
       worker[v].at = "take" /\ worker[w].at = "take" /\ worker[v].task = worker[w].task => v = w
  /\ Queued \cap Taken = {}
  /\ (Queued \cup Taken) \cap (inEngine \cup called) = {}
  /\ inEngine \cap called = {}
  /\ Queued \cup Taken \cup inEngine \cup called \subseteq batch

\* _cb_counter counts the completed tasks of the batch.
CounterIsExact == cbCounter = Cardinality(called)

(* No wake-up is lost.  A worker sleeps only while each queued task has an  *)
(* awake worker of its own on its way to it, the notification for the task  *)
(* pushed last being still to come if the client is between the push and    *)
(* notify_one, which Enqueue makes outside _mutex.  The client never sleeps *)
(* on a count that is already reached (competition_call_back, sync).        *)
NoLostWakeUp ==
  /\ (\E w \in Workers : worker[w].at = "asleep") =>
       Len(taskQueue) <= Cardinality({w \in Workers : worker[w].at = "wait"})
                         + (IF client = "notify" THEN 1 ELSE 0)
  /\ client = "asleep" => cbCounter # target

(* A worker's thread ends only after the destructor began, and never with a *)
(* task left in the queue (the worker loop's wait predicate).               *)
StoppedIsDrained == (\E w \in Workers : worker[w].at = "exit") => isStopped /\ taskQueue = <<>>
=============================================================================
