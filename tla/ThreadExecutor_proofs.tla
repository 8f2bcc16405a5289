----------------------- MODULE ThreadExecutor_proofs -----------------------
(***************************************************************************)
(* Proofs about the executor, for any set of tasks and any finite set of   *)
(* workers.  wait_all compares a counter with a number, so that it is a    *)
(* barrier rests on three facts proved together: the counter counts the    *)
(* tasks completed, a task completes at most once, and no completion is    *)
(* left over when the counter is reset.                                    *)
(***************************************************************************)
EXTENDS ThreadExecutor, FiniteSetTheorems, SequenceTheorems, TLAPS

\* The tasks worker w has taken and not yet given to the engine.
InHand(w, x) == worker[w].at = "take" /\ worker[w].task = x

QueueDistinct == \A k, l \in 1 .. Len(taskQueue) : taskQueue[k] = taskQueue[l] => k = l

LEMMA TakenFacts == \A x : x \in Taken <=> \E w \in Workers : InHand(w, x)
BY DEF Taken, InHand

(* TaskInOnePlace, task by task. *)
LEMMA OnePlace ==
  TaskInOnePlace <=>
    /\ QueueDistinct
    /\ \A v, w \in Workers : \A x : InHand(v, x) /\ InHand(w, x) => v = w
    /\ \A x \in Queued : x \notin inEngine /\ x \notin called /\ x \in batch /\ \A w \in Workers : ~InHand(w, x)
    /\ \A w \in Workers : \A x : InHand(w, x) => x \notin inEngine /\ x \notin called /\ x \in batch
    /\ \A x \in inEngine : x \notin called /\ x \in batch
    /\ called \subseteq batch
BY TakenFacts DEF TaskInOnePlace, QueueDistinct, InHand

LEMMA Pushed ==
  ASSUME taskQueue \in Seq(Tasks), NEW x \in Tasks, taskQueue' = Append(taskQueue, x)
  PROVE  /\ taskQueue' \in Seq(Tasks)
         /\ Queued' = Queued \cup {x}
         /\ QueueDistinct /\ x \notin Queued => QueueDistinct'
<1>1. /\ Len(taskQueue) \in Nat
      /\ taskQueue' \in Seq(Tasks)
      /\ Len(taskQueue') = Len(taskQueue) + 1
      /\ taskQueue'[Len(taskQueue) + 1] = x
      /\ \A k \in 1 .. Len(taskQueue) : taskQueue'[k] = taskQueue[k]
  OBVIOUS
<1>2. \A k \in 1 .. Len(taskQueue') : k \in 1 .. Len(taskQueue) \/ k = Len(taskQueue) + 1
  BY <1>1
<1>3. 1 .. Len(taskQueue) \subseteq 1 .. Len(taskQueue') /\ Len(taskQueue) + 1 \in 1 .. Len(taskQueue')
  BY <1>1
<1>4. Queued' = Queued \cup {x}
  BY <1>1, <1>2, <1>3 DEF Queued
<1>5. QueueDistinct /\ x \notin Queued => QueueDistinct'
  BY <1>1, <1>2 DEF QueueDistinct, Queued
<1> QED
  BY <1>1, <1>4, <1>5

LEMMA Popped ==
  ASSUME taskQueue \in Seq(Tasks), taskQueue # <<>>, taskQueue' = Tail(taskQueue), QueueDistinct
  PROVE  /\ taskQueue' \in Seq(Tasks)
         /\ Head(taskQueue) \in Tasks
         /\ Head(taskQueue) \in Queued
         /\ Queued' = Queued \ {Head(taskQueue)}
         /\ QueueDistinct'
         /\ Len(taskQueue') = Len(taskQueue) - 1
<1> DEFINE n == Len(taskQueue)
<1>1. /\ n \in Nat /\ n >= 1
      /\ taskQueue' \in Seq(Tasks)
      /\ Head(taskQueue) = taskQueue[1] /\ Head(taskQueue) \in Tasks
      /\ Len(taskQueue') = n - 1
      /\ \A k \in 1 .. n - 1 : taskQueue'[k] = taskQueue[k + 1]
  OBVIOUS
<1>2. \A k, l \in 1 .. n : taskQueue[k] = taskQueue[l] => k = l
  BY DEF QueueDistinct
<1>3. Queued = {taskQueue[k] : k \in 1 .. n} /\ Queued' = {taskQueue'[k] : k \in 1 .. n - 1}
  BY <1>1 DEF Queued
<1> HIDE DEF n
<1>4. 1 \in 1 .. n /\ \A k \in 1 .. n - 1 : k + 1 \in 1 .. n /\ k + 1 # 1
  BY <1>1
<1>5. \A k \in 1 .. n : k = 1 \/ (k - 1 \in 1 .. n - 1 /\ (k - 1) + 1 = k)
  BY <1>1
<1>6. Queued' = Queued \ {Head(taskQueue)}
  <2>1. ASSUME NEW x \in Queued'
        PROVE  x \in Queued \ {Head(taskQueue)}
    <3>1. PICK k \in 1 .. n - 1 : x = taskQueue[k + 1]
      BY <1>1, <1>3, <2>1
    <3> QED
      BY <1>1, <1>2, <1>3, <1>4, <3>1
  <2>2. ASSUME NEW x \in Queued, x # Head(taskQueue)
        PROVE  x \in Queued'
    <3>1. PICK k \in 1 .. n : x = taskQueue[k]
      BY <1>3, <2>2
    <3>2. k - 1 \in 1 .. n - 1 /\ taskQueue'[k - 1] = x
      BY <1>1, <1>5, <2>2, <3>1
    <3> QED
      BY <1>3, <3>2
  <2> QED
    BY <2>1, <2>2
<1>7. QueueDistinct'
  <2> SUFFICES ASSUME NEW k \in 1 .. n - 1, NEW l \in 1 .. n - 1, taskQueue'[k] = taskQueue'[l]
               PROVE  k = l
    BY <1>1 DEF QueueDistinct
  <2>1. k + 1 = l + 1
    BY <1>1, <1>2, <1>4
  <2> QED
    BY <2>1
<1> QED
  BY <1>1, <1>3, <1>4, <1>6, <1>7 DEF n

-----------------------------------------------------------------------------
(* The inductive invariant. *)

(* While the client is in wait_all its target is the size of the batch, and *)
(* once sync has returned, the count is reached.                            *)
TargetOK ==
  /\ client \in {"sync", "asleep", "reset"} => target = Cardinality(batch)
  /\ client = "reset" => cbCounter = target

ExecInv ==
  /\ TypeOK
  /\ \A w \in Workers : worker[w].at = "take" => worker[w].task \in Tasks
  /\ TaskInOnePlace
  /\ IsFiniteSet(batch)
  /\ CounterIsExact
  /\ TargetOK

LEMMA WorkerFacts ==
  ASSUME TypeOK
  PROVE  /\ worker \in [Workers -> Worker]
         /\ \A w \in Workers : worker[w] \in Worker
         /\ Waiting \in Worker /\ Waiting.at = "wait"
         /\ [at |-> "asleep", task |-> NoTask] \in Worker
         /\ [at |-> "exit", task |-> NoTask] \in Worker
         /\ \A x \in Tasks : [at |-> "take", task |-> x] \in Worker
BY DEF TypeOK, Worker, Waiting

(* The barrier: the completed tasks of the batch are among its tasks, so as *)
(* many means all, and then nothing of it is left anywhere.                 *)
LEMMA Barrier == ExecInv => WaitAllIsABarrier
<1> SUFFICES ASSUME ExecInv, client = "reset"
             PROVE  called = batch /\ taskQueue = <<>> /\ Taken = {} /\ inEngine = {}
  BY DEF WaitAllIsABarrier
<1>1. /\ called \subseteq batch
      /\ (Queued \cup Taken) \cap called = {}
      /\ inEngine \cap called = {}
      /\ Queued \cup Taken \cup inEngine \subseteq batch
  BY DEF ExecInv, TaskInOnePlace
<1>2. Cardinality(called) = Cardinality(batch) /\ IsFiniteSet(batch)
  BY DEF ExecInv, CounterIsExact, TargetOK
<1>3. called = batch
  BY <1>1, <1>2, FS_Subset
<1>4. Queued = {} /\ Taken = {} /\ inEngine = {}
  BY <1>1, <1>3
<1>5. taskQueue = <<>>
  <2>1. taskQueue \in Seq(Tasks)
    BY DEF ExecInv, TypeOK
  <2>2. ASSUME taskQueue # <<>>
        PROVE  FALSE
    <3>1. 1 \in 1 .. Len(taskQueue)
      BY <2>1, <2>2
    <3> QED
      BY <1>4, <3>1 DEF Queued
  <2> QED
    BY <2>2
<1> QED
  BY <1>3, <1>4, <1>5

(* A step that gives no task a new place, and at most takes one away. *)
LEMMA NoTaskMoves ==
  ASSUME ExecInv,
         worker' \in [Workers -> Worker],
         \A w \in Workers : worker'[w].at = "take" => worker'[w] = worker[w],
         UNCHANGED <<taskQueue, cbCounter, batch, called>>,
         inEngine' \subseteq inEngine,
         isStopped' \in BOOLEAN, client' \in ClientAt, target' \in Nat, TargetOK'
  PROVE  ExecInv'
<1>1. TypeOK' /\ \A w \in Workers : worker'[w].at = "take" => worker'[w].task \in Tasks
  BY DEF ExecInv, TypeOK
<1>2. TaskInOnePlace'
  <2>1. Taken' \subseteq Taken
    BY DEF Taken
  <2>2. Queued' = Queued
    BY DEF Queued
  <2>3. \A v, w \in Workers : worker'[v].at = "take" /\ worker'[w].at = "take" /\ worker'[v].task = worker'[w].task => v = w
    BY DEF ExecInv, TaskInOnePlace
  <2> QED
    BY <2>1, <2>2, <2>3 DEF ExecInv, TaskInOnePlace
<1> QED
  BY <1>1, <1>2 DEF ExecInv, CounterIsExact

LEMMA ExecStep == ExecInv /\ [Next]_vars => ExecInv'
<1> SUFFICES ASSUME ExecInv, [Next]_vars
             PROVE  ExecInv'
  OBVIOUS
<1>0. /\ TypeOK /\ taskQueue \in Seq(Tasks)
      /\ worker \in [Workers -> Worker]
      /\ \A w \in Workers : worker[w] \in Worker
  BY WorkerFacts DEF ExecInv, TypeOK
<1>a. /\ QueueDistinct
      /\ \A v, w \in Workers : \A x : InHand(v, x) /\ InHand(w, x) => v = w
      /\ \A x \in Queued : x \notin inEngine /\ x \notin called /\ x \in batch /\ \A w \in Workers : ~InHand(w, x)
      /\ \A w \in Workers : \A x : InHand(w, x) => x \notin inEngine /\ x \notin called /\ x \in batch
      /\ \A x \in inEngine : x \notin called /\ x \in batch
      /\ called \subseteq batch
  BY OnePlace DEF ExecInv
<1>b. IsFiniteSet(batch) /\ IsFiniteSet(called) /\ Cardinality(called) \in Nat /\ Cardinality(batch) \in Nat
  BY <1>a, FS_Subset, FS_CardinalityType DEF ExecInv
(* Every change of the places, in one form. *)
<1>c. ASSUME /\ QueueDistinct'
             /\ \A v, w \in Workers : \A x : InHand(v, x)' /\ InHand(w, x)' => v = w
             /\ \A x \in Queued' : x \notin inEngine' /\ x \notin called' /\ x \in batch' /\ \A w \in Workers : ~InHand(w, x)'
             /\ \A w \in Workers : \A x : InHand(w, x)' => x \notin inEngine' /\ x \notin called' /\ x \in batch'
             /\ \A x \in inEngine' : x \notin called' /\ x \in batch'
             /\ called' \subseteq batch'
      PROVE  TaskInOnePlace'
  <2>1. \A x : x \in Taken' <=> \E w \in Workers : InHand(w, x)'
    BY DEF Taken, InHand
  <2> QED
    BY <1>c, <2>1 DEF TaskInOnePlace, QueueDistinct, InHand
<1>1. ASSUME NEW task \in Tasks \ (batch \cup inEngine), Enqueue(task), UNCHANGED inEngine
      PROVE  ExecInv'
  <2>1. /\ taskQueue' = Append(taskQueue, task) /\ batch' = batch \cup {task}
        /\ client = "out" /\ client' = "notify"
        /\ UNCHANGED <<worker, cbCounter, isStopped, target, called, inEngine>>
    BY <1>1 DEF Enqueue
  <2>2. task \notin Queued /\ \A w \in Workers : ~InHand(w, task)
    BY <1>a
  <2>3. taskQueue' \in Seq(Tasks) /\ Queued' = Queued \cup {task} /\ QueueDistinct'
    BY <1>0, <1>a, <2>1, <2>2, Pushed
  <2>4. \A w \in Workers : \A x : InHand(w, x)' <=> InHand(w, x)
    BY <2>1 DEF InHand
  <2>5. TaskInOnePlace'
    BY <1>a, <1>c, <2>1, <2>2, <2>3, <2>4
  <2>6. TypeOK' /\ \A w \in Workers : worker'[w].at = "take" => worker'[w].task \in Tasks
    BY <2>1, <2>3 DEF ExecInv, TypeOK, ClientAt
  <2>7. IsFiniteSet(batch')
    BY <1>b, <2>1, FS_AddElement
  <2> QED
    BY <2>1, <2>5, <2>6, <2>7 DEF ExecInv, CounterIsExact, TargetOK
<1>2. ASSUME WaitAll(Cardinality(batch)), UNCHANGED inEngine
      PROVE  ExecInv'
  <2>1. TargetOK' /\ target' \in Nat /\ client' \in ClientAt
    BY <1>2, <1>b DEF WaitAll, TargetOK, ClientAt
  <2> QED
    BY <1>0, <1>2, <2>1, NoTaskMoves DEF WaitAll, TypeOK
<1>3. CASE EnqueueNotifies /\ UNCHANGED inEngine
  <2>1. worker' \in [Workers -> Worker] /\ \A w \in Workers : worker'[w].at = "take" => worker'[w] = worker[w]
    BY <1>0, <1>3, WorkerFacts DEF EnqueueNotifies, NotifyOne
  <2>2. TargetOK' /\ client' \in ClientAt
    BY <1>3 DEF EnqueueNotifies, TargetOK, ClientAt
  <2> QED
    BY <1>0, <1>3, <2>1, <2>2, NoTaskMoves DEF EnqueueNotifies, TypeOK
<1>4. ASSUME UNCHANGED <<taskQueue, worker, cbCounter, batch, called, inEngine>>,
             isStopped' \in BOOLEAN, client' \in ClientAt, target' = target, TargetOK'
      PROVE  ExecInv'
  BY <1>0, <1>4, NoTaskMoves DEF TypeOK
<1>5. CASE (Stop \/ SyncReturns \/ SyncBlocks \/ SyncWakesSpuriously \/ Join) /\ UNCHANGED inEngine
  <2>1. /\ UNCHANGED <<taskQueue, worker, cbCounter, batch, called, inEngine>>
        /\ target' = target
        /\ isStopped' \in BOOLEAN /\ client' \in ClientAt
    BY <1>0, <1>5 DEF Stop, SyncReturns, SyncBlocks, SyncWakesSpuriously, Join, ClientAt, TypeOK
  <2>2. TargetOK
    BY DEF ExecInv
  <2>3. TargetOK'
    BY <1>5, <2>1, <2>2 DEF Stop, SyncReturns, SyncBlocks, SyncWakesSpuriously, Join, TargetOK
  <2> QED
    BY <1>4, <2>1, <2>3
<1>6. CASE Reset /\ UNCHANGED inEngine
  <2>1. /\ client = "reset" /\ client' = "out" /\ cbCounter' = 0 /\ batch' = {} /\ called' = {}
        /\ UNCHANGED <<taskQueue, worker, isStopped, target, inEngine>>
    BY <1>6 DEF Reset
  <2>2. taskQueue = <<>> /\ Taken = {} /\ inEngine = {}
    BY <2>1, Barrier DEF WaitAllIsABarrier
  <2>3. /\ inEngine' = {} /\ taskQueue' = <<>>
        /\ \A w \in Workers : \A x : ~InHand(w, x)'
    BY <2>1, <2>2, TakenFacts DEF InHand
  <2>4. 1 .. Len(taskQueue') = {}
    BY <2>3
  <2>5. Queued' = {} /\ QueueDistinct'
    BY <2>4 DEF Queued, QueueDistinct
  <2>6. TaskInOnePlace'
    BY <1>c, <2>1, <2>3, <2>5
  <2>7. TypeOK' /\ IsFiniteSet(batch') /\ CounterIsExact' /\ TargetOK'
    BY <2>1, FS_EmptySet DEF ExecInv, TypeOK, ClientAt, CounterIsExact, TargetOK
  <2> QED
    BY <2>1, <2>6, <2>7 DEF ExecInv
<1>7. CASE StopNotifies /\ UNCHANGED inEngine
  <2>1. worker' \in [Workers -> Worker] /\ \A w \in Workers : worker'[w].at = "take" => worker'[w] = worker[w]
    BY <1>0, <1>7, WorkerFacts DEF StopNotifies
  <2>2. TargetOK' /\ client' \in ClientAt
    BY <1>7 DEF StopNotifies, TargetOK, ClientAt
  <2> QED
    BY <1>0, <1>7, <2>1, <2>2, NoTaskMoves DEF StopNotifies, TypeOK
<1>8. ASSUME NEW w \in Workers, TakeTask(w), UNCHANGED inEngine
      PROVE  ExecInv'
  <2> DEFINE task == Head(taskQueue)
  <2>1. /\ taskQueue # <<>> /\ taskQueue' = Tail(taskQueue)
        /\ worker' = [worker EXCEPT ![w] = [at |-> "take", task |-> task]]
        /\ worker[w].at = "wait"
        /\ UNCHANGED <<cbCounter, isStopped, client, target, batch, called, inEngine>>
    BY <1>8 DEF TakeTask
  <2>2. /\ taskQueue' \in Seq(Tasks) /\ task \in Tasks /\ task \in Queued
        /\ Queued' = Queued \ {task} /\ QueueDistinct'
    BY <1>0, <1>a, <2>1, Popped
  <2> HIDE DEF task
  <2>3. [at |-> "take", task |-> task] \in Worker
    BY <1>0, <2>2, WorkerFacts
  <2>4. /\ worker' \in [Workers -> Worker]
        /\ worker'[w].at = "take" /\ worker'[w].task = task
        /\ \A v \in Workers : v # w => worker'[v] = worker[v]
    BY <1>0, <2>1, <2>3
  <2>5. TypeOK' /\ \A v \in Workers : worker'[v].at = "take" => worker'[v].task \in Tasks
    BY <2>1, <2>2, <2>4 DEF ExecInv, TypeOK
  <2>6. \A v \in Workers : \A x : InHand(v, x)' <=> IF v = w THEN x = task ELSE InHand(v, x)
    BY <2>4 DEF InHand
  <2>7. TaskInOnePlace'
    BY <1>a, <1>c, <2>1, <2>2, <2>6
  <2> QED
    BY <2>1, <2>5, <2>7 DEF ExecInv, CounterIsExact, TargetOK
<1>9. ASSUME NEW w \in Workers, NEW r \in Worker, r.at # "take",
             worker' = [worker EXCEPT ![w] = r],
             UNCHANGED <<taskQueue, cbCounter, isStopped, client, target, batch, called, inEngine>>
      PROVE  ExecInv'
  <2>1. worker' \in [Workers -> Worker] /\ \A v \in Workers : worker'[v].at = "take" => worker'[v] = worker[v]
    BY <1>0, <1>9
  <2>2. TargetOK'
    BY <1>9 DEF ExecInv, TargetOK
  <2> QED
    BY <1>0, <1>9, <2>1, <2>2, NoTaskMoves DEF TypeOK
<1>10. ASSUME NEW w \in Workers, UNCHANGED inEngine,
              WorkerBlocks(w) \/ WorkerWakesSpuriously(w) \/ WorkerExits(w) \/ RunReturns(w)
       PROVE  ExecInv'
  BY <1>0, <1>9, <1>10, WorkerFacts DEF WorkerBlocks, WorkerWakesSpuriously, WorkerExits, RunReturns
<1>11. ASSUME NEW w \in Workers, CallRun(w),
              inEngine' = inEngine \cup {worker[w].task} \/ UNCHANGED inEngine
       PROVE  ExecInv'
  <2> DEFINE task == worker[w].task
  <2>1. /\ worker[w].at = "take"
        /\ worker' = [worker EXCEPT ![w] = [worker[w] EXCEPT !.at = "engine"]]
        /\ UNCHANGED <<taskQueue, cbCounter, isStopped, client, target, batch, called>>
    BY <1>11 DEF CallRun
  <2>2. task \in Tasks /\ InHand(w, task)
    BY <2>1 DEF ExecInv, InHand
  <2>3. [worker[w] EXCEPT !.at = "engine"] \in Worker /\ [worker[w] EXCEPT !.at = "engine"].at = "engine"
    BY <1>0 DEF Worker
  <2>4. /\ worker' \in [Workers -> Worker]
        /\ worker'[w].at = "engine"
        /\ \A v \in Workers : v # w => worker'[v] = worker[v]
    BY <1>0, <2>1, <2>3
  <2>5. inEngine' \subseteq inEngine \cup {task} /\ inEngine' \subseteq Tasks
    BY <1>0, <1>11, <2>2 DEF TypeOK
  <2> HIDE DEF task
  <2>6. TypeOK' /\ \A v \in Workers : worker'[v].at = "take" => worker'[v].task \in Tasks
    BY <2>1, <2>4, <2>5 DEF ExecInv, TypeOK
  <2>7. \A v \in Workers : \A x : InHand(v, x)' <=> v # w /\ InHand(v, x)
    BY <2>4 DEF InHand
  <2>8. Queued' = Queued /\ QueueDistinct'
    BY <1>a, <2>1 DEF Queued, QueueDistinct
  <2>9. TaskInOnePlace'
    BY <1>a, <1>c, <2>1, <2>2, <2>5, <2>7, <2>8
  <2> QED
    BY <2>1, <2>6, <2>9 DEF ExecInv, CounterIsExact, TargetOK
<1>12. ASSUME NEW task \in inEngine, CompetitionCallBack(task), inEngine' = inEngine \ {task}
       PROVE  ExecInv'
  <2>1. /\ cbCounter' = cbCounter + 1 /\ called' = called \cup {task}
        /\ client' = IF client = "asleep" THEN "sync" ELSE client
        /\ UNCHANGED <<taskQueue, worker, isStopped, target, batch>>
    BY <1>12 DEF CompetitionCallBack
  <2>2. task \notin called /\ task \in batch /\ task \in Tasks
    BY <1>0, <1>a DEF TypeOK
  <2>3. cbCounter' = Cardinality(called') /\ cbCounter' \in Nat
    <3>1. Cardinality(called \cup {task}) = Cardinality(called) + 1
      BY <1>b, <2>2, FS_AddElement
    <3>2. cbCounter = Cardinality(called)
      BY DEF ExecInv, CounterIsExact
    <3> QED
      BY <1>b, <2>1, <3>1, <3>2
  <2>4. client # "reset"
    BY <1>12, Barrier DEF WaitAllIsABarrier
  <2>5. TargetOK' /\ client' \in ClientAt
    BY <1>0, <2>1, <2>4 DEF ExecInv, TargetOK, TypeOK, ClientAt
  <2>6. TypeOK' /\ \A w \in Workers : worker'[w].at = "take" => worker'[w].task \in Tasks
    BY <1>12, <2>1, <2>2, <2>3, <2>5 DEF ExecInv, TypeOK
  <2>7. \A v \in Workers : \A x : InHand(v, x)' <=> InHand(v, x)
    BY <2>1 DEF InHand
  <2>8. Queued' = Queued /\ QueueDistinct'
    BY <1>a, <2>1 DEF Queued, QueueDistinct
  <2>9. TaskInOnePlace'
    BY <1>a, <1>c, <1>12, <2>1, <2>2, <2>7, <2>8
  <2> QED
    BY <1>b, <2>1, <2>3, <2>5, <2>6, <2>9 DEF ExecInv, CounterIsExact
<1>13. ASSUME NEW task \in inEngine, inEngine' = inEngine \ {task}, UNCHANGED execVars
       PROVE  ExecInv'
  <2>1. TargetOK' /\ worker' = worker
    BY <1>13 DEF ExecInv, TargetOK, execVars
  <2> QED
    BY <1>0, <1>13, <2>1, NoTaskMoves DEF TypeOK, execVars
<1>14. CASE UNCHANGED vars
  <2>1. TargetOK' /\ worker' = worker
    BY <1>14 DEF ExecInv, TargetOK, vars, execVars
  <2> QED
    BY <1>0, <1>14, <2>1, NoTaskMoves DEF TypeOK, vars, execVars
<1> QED
  BY <1>1, <1>2, <1>3, <1>5, <1>6, <1>7, <1>8, <1>10, <1>11, <1>12, <1>13, <1>14 DEF Next

LEMMA ExecInit == Init => ExecInv
<1> SUFFICES ASSUME Init
             PROVE  ExecInv
  OBVIOUS
<1>1. \A w \in Workers : worker[w] = Waiting /\ worker[w].at = "wait"
  BY DEF Init, Waiting
<1>2. TypeOK
  <2>1. Waiting \in Worker /\ <<>> \in Seq(Tasks)
    BY DEF Worker, Waiting
  <2> QED
    BY <2>1 DEF Init, TypeOK, ClientAt
<1>3. Queued = {} /\ Taken = {} /\ inEngine = {} /\ called = {} /\ batch = {} /\ taskQueue = <<>>
  BY <1>1 DEF Init, Queued, Taken
<1>4. TaskInOnePlace
  BY <1>1, <1>3 DEF TaskInOnePlace
<1> QED
  BY <1>1, <1>2, <1>3, <1>4, FS_EmptySet DEF ExecInv, CounterIsExact, TargetOK, Init

LEMMA ExecInvariant == Spec => []ExecInv
BY ExecInit, ExecStep, PTL DEF Spec

(* The executor's variables keep their types: no worker takes a task that   *)
(* is not one, however it was woken (the worker loop).                      *)
THEOREM ExecTypes == Spec => []TypeOK
<1>1. ExecInv => TypeOK
  BY DEF ExecInv
<1> QED
  BY <1>1, ExecInvariant, PTL

(* No task is run twice or lost between queue, worker and engine, for any   *)
(* number of workers (Enqueue, the worker loop, competition_call_back).     *)
THEOREM TasksConserved == Spec => []TaskInOnePlace
<1>1. ExecInv => TaskInOnePlace
  BY DEF ExecInv
<1> QED
  BY <1>1, ExecInvariant, PTL

(* wait_all is a barrier: when sync returns, every task enqueued since the  *)
(* last reset has completed, whatever the number of workers and tasks.      *)
THEOREM WaitAllWaits == Spec => []WaitAllIsABarrier
BY ExecInvariant, Barrier, PTL

-----------------------------------------------------------------------------
(* Wake-ups, counted. *)

Waiters == {w \in Workers : worker[w].at = "wait"}

\* The notify_one Enqueue still owes.
Owed == IF client = "notify" THEN 1 ELSE 0

WakeUpInv ==
  /\ (\E w \in Workers : worker[w].at = "asleep") => Len(taskQueue) <= Cardinality(Waiters) + Owed
  /\ client = "asleep" => cbCounter # target

LEMMA WaitersFinite ==
  /\ IsFiniteSet(Waiters) /\ Cardinality(Waiters) \in Nat
  /\ IsFiniteSet(Waiters)' /\ Cardinality(Waiters)' \in Nat
<1>1. Waiters \subseteq Workers /\ Waiters' \subseteq Workers
  BY DEF Waiters
<1> QED
  BY <1>1, ExecutorAssumption, FS_Subset, FS_CardinalityType

(* A step after which as many workers wait and as many notifications are    *)
(* owed for a queue that did not grow.                                      *)
LEMMA NoFewerWaiters ==
  ASSUME TypeOK, WakeUpInv,
         \A w \in Workers : worker'[w].at = "asleep" => worker[w].at = "asleep",
         Waiters \subseteq Waiters',
         taskQueue' = taskQueue, Owed' = Owed,
         client' = "asleep" => cbCounter' # target'
  PROVE  WakeUpInv'
<1>1. Cardinality(Waiters) <= Cardinality(Waiters)'
  BY WaitersFinite, FS_Subset
<1>2. Owed \in Nat /\ Len(taskQueue) \in Nat
  BY DEF Owed, TypeOK
<1> QED
  BY <1>1, <1>2, WaitersFinite DEF WakeUpInv

LEMMA WakeUpStep == TypeOK /\ WakeUpInv /\ [Next]_vars => WakeUpInv'
<1> SUFFICES ASSUME TypeOK, WakeUpInv, [Next]_vars
             PROVE  WakeUpInv'
  OBVIOUS
<1>0. /\ worker \in [Workers -> Worker]
      /\ \A w \in Workers : worker[w] \in Worker
      /\ Waiting.at = "wait"
      /\ Len(taskQueue) \in Nat
  BY WorkerFacts DEF TypeOK
<1>1. ASSUME NEW task \in Tasks, Enqueue(task)
      PROVE  WakeUpInv'
  <2>1. /\ client = "out" /\ client' = "notify" /\ UNCHANGED <<worker, cbCounter, target>>
        /\ Len(taskQueue') = Len(taskQueue) + 1
    BY <1>1 DEF Enqueue, TypeOK
  <2>2. Waiters' = Waiters /\ Owed = 0 /\ Owed' = 1
    BY <2>1 DEF Waiters, Owed
  <2> QED
    BY <1>0, <2>1, <2>2, WaitersFinite DEF WakeUpInv
<1>2. CASE EnqueueNotifies
  <2>1. client = "notify" /\ client' = "out" /\ NotifyOne /\ UNCHANGED <<taskQueue, cbCounter, target>>
    BY <1>2 DEF EnqueueNotifies
  <2>2. CASE \E w \in Workers : worker[w].at = "asleep"
    <3>1. PICK w \in Workers : worker[w].at = "asleep" /\ worker' = [worker EXCEPT ![w] = Waiting]
      BY <2>1, <2>2 DEF NotifyOne
    <3>2. Waiters' = Waiters \cup {w} /\ w \notin Waiters
      BY <1>0, <3>1 DEF Waiters
    <3>3. Cardinality(Waiters') = Cardinality(Waiters) + 1
      BY <3>2, WaitersFinite, FS_AddElement
    <3>4. Owed = 1 /\ Owed' = 0
      BY <2>1 DEF Owed
    <3> QED
      BY <1>0, <2>1, <2>2, <3>3, <3>4, WaitersFinite DEF WakeUpInv
  <2>3. CASE ~ \E w \in Workers : worker[w].at = "asleep"
    BY <2>1, <2>3 DEF NotifyOne, WakeUpInv
  <2> QED
    BY <2>2, <2>3
<1>3. ASSUME UNCHANGED <<worker, taskQueue>>, client' = "notify" <=> client = "notify",
             client' = "asleep" => cbCounter' # target'
      PROVE  WakeUpInv'
  BY <1>3, NoFewerWaiters DEF Waiters, Owed
<1>4. ASSUME NEW n, WaitAll(n)
      PROVE  WakeUpInv'
  BY <1>3, <1>4 DEF WaitAll
<1>5. CASE Stop \/ SyncReturns \/ SyncBlocks \/ SyncWakesSpuriously \/ Reset \/ Join
  BY <1>3, <1>5 DEF Stop, SyncReturns, SyncBlocks, SyncWakesSpuriously, Reset, Join
<1>6. CASE StopNotifies
  <2>1. client = "stop" /\ client' = "join" /\ \A w \in Workers : worker'[w].at # "asleep"
    BY <1>0, <1>6 DEF StopNotifies
  <2> QED
    BY <2>1 DEF WakeUpInv
<1>7. ASSUME NEW w \in Workers, TakeTask(w)
      PROVE  WakeUpInv'
  <2>1. /\ worker[w].at = "wait" /\ worker' = [worker EXCEPT ![w] = [at |-> "take", task |-> Head(taskQueue)]]
        /\ Len(taskQueue') = Len(taskQueue) - 1
        /\ UNCHANGED <<client, cbCounter, target>>
    BY <1>7 DEF TakeTask, TypeOK
  <2>2. /\ worker'[w].at = "take"
        /\ \A v \in Workers : v # w => worker'[v] = worker[v]
    BY <1>0, <2>1
  <2>3. Waiters' = Waiters \ {w} /\ w \in Waiters
    BY <2>1, <2>2 DEF Waiters
  <2>4. Cardinality(Waiters') = Cardinality(Waiters) - 1
    BY <2>3, WaitersFinite, FS_RemoveElement
  <2>5. Owed' = Owed /\ Owed \in Nat
    BY <2>1 DEF Owed
  <2> QED
    BY <1>0, <2>1, <2>2, <2>4, <2>5, WaitersFinite DEF WakeUpInv
<1>8. ASSUME NEW w \in Workers, WorkerBlocks(w) \/ WorkerExits(w)
      PROVE  WakeUpInv'
  <2>1. taskQueue' = <<>> /\ Len(taskQueue') = 0 /\ UNCHANGED <<client, cbCounter, target>>
    BY <1>8 DEF WorkerBlocks, WorkerExits
  <2>2. Owed' \in Nat
    BY DEF Owed
  <2> QED
    BY <2>1, <2>2, WaitersFinite DEF WakeUpInv
<1>9. ASSUME NEW w \in Workers, worker[w].at # "wait", NEW r, r.at # "asleep",
             worker' = [worker EXCEPT ![w] = r],
             UNCHANGED <<taskQueue, cbCounter, client, target>>
      PROVE  WakeUpInv'
  <2>1. worker'[w] = r /\ \A v \in Workers : v # w => worker'[v] = worker[v]
    BY <1>0, <1>9
  <2>2. Waiters \subseteq Waiters' /\ Owed' = Owed
    BY <1>9, <2>1 DEF Waiters, Owed
  <2> QED
    BY <1>9, <2>1, <2>2, NoFewerWaiters DEF WakeUpInv
<1>10. ASSUME NEW w \in Workers, WorkerWakesSpuriously(w) \/ RunReturns(w)
       PROVE  WakeUpInv'
  BY <1>0, <1>9, <1>10 DEF WorkerWakesSpuriously, RunReturns
<1>11. ASSUME NEW w \in Workers, CallRun(w)
       PROVE  WakeUpInv'
  <2>1. [worker[w] EXCEPT !.at = "engine"].at # "asleep"
    BY <1>0 DEF Worker
  <2> QED
    BY <1>9, <1>11, <2>1 DEF CallRun
<1>12. ASSUME NEW task, CompetitionCallBack(task)
       PROVE  WakeUpInv'
  BY <1>3, <1>12 DEF CompetitionCallBack
<1>13. CASE UNCHANGED execVars
  <2>1. UNCHANGED <<worker, taskQueue, client, cbCounter, target>>
    BY <1>13 DEF execVars
  <2> QED
    BY <1>3, <2>1 DEF WakeUpInv
<1> QED
  BY <1>1, <1>2, <1>4, <1>5, <1>6, <1>7, <1>8, <1>10, <1>11, <1>12, <1>13 DEF Next, vars

(* No wake-up is lost, for any number of workers: a worker sleeps only while *)
(* each queued task has a waiting worker or a notify_one still to come,      *)
(* which Enqueue makes after it has released _mutex, and wait_all never      *)
(* sleeps on a count already reached.                                        *)
THEOREM NotificationsSuffice == Spec => []NoLostWakeUp
<1>1. Init => WakeUpInv
  BY DEF Init, WakeUpInv, Waiting
<1>2. TypeOK /\ TypeOK' /\ WakeUpInv /\ [Next]_vars => WakeUpInv'
  BY WakeUpStep
<1>3. WakeUpInv => NoLostWakeUp
  BY DEF WakeUpInv, NoLostWakeUp, Waiters, Owed
<1> QED
  BY <1>1, <1>2, <1>3, ExecTypes, PTL DEF Spec

-----------------------------------------------------------------------------
(* Stopping. *)

\* The destructor's position decides _isStopped.
StopInv ==
  /\ isStopped <=> client \in {"stop", "join", "gone"}
  /\ StoppedIsDrained

(* A stopping executor drains its queue: no worker ends while a task is     *)
(* queued, and none can be queued after (~IVSRThreadExecutor, worker loop). *)
THEOREM StopDrains == Spec => []StoppedIsDrained
<1>1. Init => StopInv
  BY DEF Init, StopInv, StoppedIsDrained, Waiting
<1>2. TypeOK /\ StopInv /\ [Next]_vars => StopInv'
  <2> SUFFICES ASSUME TypeOK, StopInv, [Next]_vars
               PROVE  StopInv'
    OBVIOUS
  <2>0. /\ worker \in [Workers -> Worker] /\ \A w \in Workers : worker[w] \in Worker
        /\ Waiting.at = "wait" /\ isStopped \in BOOLEAN
    BY WorkerFacts DEF TypeOK
  <2>1. ASSUME \A w \in Workers : worker'[w].at = "exit" => worker[w].at = "exit",
               taskQueue = <<>> => taskQueue' = <<>>,
               isStopped => isStopped',
               isStopped' <=> client' \in {"stop", "join", "gone"}
        PROVE  StopInv'
    BY <2>1 DEF StopInv, StoppedIsDrained
  <2>2. ASSUME NEW task \in Tasks, Enqueue(task)
        PROVE  StopInv'
    <3>1. client = "out" /\ client' = "notify" /\ UNCHANGED <<worker, isStopped>>
      BY <2>2 DEF Enqueue
    <3>2. \A w \in Workers : worker[w].at # "exit"
      BY <3>1 DEF StopInv, StoppedIsDrained
    <3> QED
      BY <3>1, <3>2 DEF StopInv, StoppedIsDrained
  <2>3. CASE EnqueueNotifies
    <3>1. \A w \in Workers : worker'[w].at = "exit" => worker[w].at = "exit"
      BY <2>0, <2>3 DEF EnqueueNotifies, NotifyOne
    <3> QED
      BY <2>1, <2>3, <3>1 DEF EnqueueNotifies, StopInv
  <2>4. ASSUME NEW n, WaitAll(n)
        PROVE  StopInv'
    BY <2>1, <2>4 DEF WaitAll, StopInv
  <2>5. CASE Stop \/ SyncReturns \/ SyncBlocks \/ SyncWakesSpuriously \/ Reset \/ Join
    BY <2>1, <2>5 DEF Stop, SyncReturns, SyncBlocks, SyncWakesSpuriously, Reset, Join, StopInv
  <2>6. CASE StopNotifies
    <3>1. \A w \in Workers : worker'[w].at = "exit" => worker[w].at = "exit"
      BY <2>0, <2>6 DEF StopNotifies
    <3> QED
      BY <2>1, <2>6, <3>1 DEF StopNotifies, StopInv
  <2>7. ASSUME NEW w \in Workers, TakeTask(w)
        PROVE  StopInv'
    <3>1. \A v \in Workers : worker'[v].at = "exit" => worker[v].at = "exit"
      BY <2>0, <2>7 DEF TakeTask
    <3> QED
      BY <2>1, <2>7, <3>1 DEF TakeTask, StopInv
  <2>8. ASSUME NEW w \in Workers, WorkerExits(w)
        PROVE  StopInv'
    BY <2>8 DEF WorkerExits, StopInv, StoppedIsDrained
  <2>9. ASSUME NEW w \in Workers,
               WorkerBlocks(w) \/ WorkerWakesSpuriously(w) \/ RunReturns(w) \/ CallRun(w)
        PROVE  StopInv'
    <3>1. [worker[w] EXCEPT !.at = "engine"].at # "exit"
      BY <2>0 DEF Worker
    <3>2. \A v \in Workers : worker'[v].at = "exit" => worker[v].at = "exit"
      <4>1. PICK r : r.at # "exit" /\ worker' = [worker EXCEPT ![w] = r]
        <5>1. CASE WorkerBlocks(w)
          BY <5>1 DEF WorkerBlocks
        <5>2. CASE WorkerWakesSpuriously(w) \/ RunReturns(w)
          BY <2>0, <5>2 DEF WorkerWakesSpuriously, RunReturns
        <5>3. CASE CallRun(w)
          BY <3>1, <5>3 DEF CallRun
        <5> QED
          BY <2>9, <5>1, <5>2, <5>3
      <4> QED
        BY <2>0, <4>1
    <3> QED
      BY <2>1, <2>9, <3>2 DEF WorkerBlocks, WorkerWakesSpuriously, RunReturns, CallRun, StopInv
  <2>10. ASSUME NEW task, CompetitionCallBack(task)
         PROVE  StopInv'
    BY <2>1, <2>10 DEF CompetitionCallBack, StopInv
  <2>11. CASE UNCHANGED execVars
    BY <2>1, <2>11 DEF execVars, StopInv
  <2> QED
    BY <2>2, <2>3, <2>4, <2>5, <2>6, <2>7, <2>8, <2>9, <2>10, <2>11 DEF Next, vars
<1>3. StopInv => StoppedIsDrained
  BY DEF StopInv
<1> QED
  BY <1>1, <1>2, <1>3, ExecTypes, PTL DEF Spec

-----------------------------------------------------------------------------
(* What each step does to the tasks the engine has not been given yet, for  *)
(* the modules that compose the executor.                                   *)

Waits == Queued \cup Taken

(* Only Enqueue adds one. *)
LEMMA NobodyWaitsMore ==
  ASSUME \A w \in Workers : worker'[w].at = "take" => worker'[w] = worker[w],
         taskQueue' = taskQueue
  PROVE  Waits' \subseteq Waits
BY DEF Waits, Queued, Taken

LEMMA TaskComes ==
  ASSUME ExecInv, NEW x \in Tasks, Enqueue(x)
  PROVE  Waits' = Waits \cup {x}
<1>1. Queued' = Queued \cup {x}
  BY Pushed DEF ExecInv, TypeOK, Enqueue
<1>2. Taken' = Taken
  BY DEF Taken, Enqueue
<1> QED
  BY <1>1, <1>2 DEF Waits

LEMMA TaskMoves ==
  ASSUME ExecInv, NEW w \in Workers, TakeTask(w)
  PROVE  Waits' \subseteq Waits
<1>1. /\ taskQueue # <<>> /\ taskQueue' = Tail(taskQueue) /\ taskQueue \in Seq(Tasks) /\ QueueDistinct
      /\ worker' = [worker EXCEPT ![w] = [at |-> "take", task |-> Head(taskQueue)]]
      /\ worker \in [Workers -> Worker]
  BY DEF TakeTask, ExecInv, TypeOK, TaskInOnePlace, QueueDistinct
<1>2. Head(taskQueue) \in Queued /\ Queued' \subseteq Queued
  BY <1>1, Popped
<1>3. \A v \in Workers : v # w => worker'[v] = worker[v]
  BY <1>1
<1>4. worker'[w].task = Head(taskQueue)
  BY <1>1
<1>5. Taken' \subseteq Taken \cup {Head(taskQueue)}
  BY <1>3, <1>4 DEF Taken
<1> QED
  BY <1>2, <1>5 DEF Waits

LEMMA TaskGoes ==
  ASSUME ExecInv, NEW w \in Workers, CallRun(w)
  PROVE  /\ Waits' \subseteq Waits
         /\ worker[w].task \in Taken /\ worker[w].task \in Tasks
<1>1. /\ worker[w].at = "take" /\ taskQueue' = taskQueue
      /\ worker' = [worker EXCEPT ![w] = [worker[w] EXCEPT !.at = "engine"]]
      /\ worker \in [Workers -> Worker] /\ worker[w] \in Worker
  BY WorkerFacts DEF CallRun, ExecInv
<1>2. [worker[w] EXCEPT !.at = "engine"].at = "engine"
  BY <1>1 DEF Worker
<1>3. \A v \in Workers : worker'[v].at = "take" => worker'[v] = worker[v]
  BY <1>1, <1>2
<1> QED
  BY <1>1, <1>3, NobodyWaitsMore DEF Taken, ExecInv

LEMMA TasksStay ==
  ASSUME ExecInv,
         \/ EnqueueNotifies \/ StopNotifies \/ Stop \/ Join \/ Reset
         \/ SyncReturns \/ SyncBlocks \/ SyncWakesSpuriously
         \/ \E n : WaitAll(n)
         \/ \E x : CompetitionCallBack(x)
         \/ \E w \in Workers : WorkerBlocks(w) \/ WorkerWakesSpuriously(w) \/ WorkerExits(w) \/ RunReturns(w)
         \/ UNCHANGED execVars
  PROVE  Waits' \subseteq Waits
<1>0. worker \in [Workers -> Worker] /\ Waiting.at = "wait"
  BY WorkerFacts DEF ExecInv
<1>1. CASE EnqueueNotifies \/ StopNotifies
  BY <1>0, <1>1, NobodyWaitsMore DEF EnqueueNotifies, NotifyOne, StopNotifies
<1>2. CASE Stop \/ Join \/ Reset \/ SyncReturns \/ SyncBlocks \/ SyncWakesSpuriously
  BY <1>2, NobodyWaitsMore DEF Stop, Join, Reset, SyncReturns, SyncBlocks, SyncWakesSpuriously
<1>3. CASE (\E n : WaitAll(n)) \/ (\E x : CompetitionCallBack(x)) \/ UNCHANGED execVars
  BY <1>3, NobodyWaitsMore DEF WaitAll, CompetitionCallBack, execVars
<1>4. ASSUME NEW w \in Workers, WorkerBlocks(w) \/ WorkerWakesSpuriously(w) \/ WorkerExits(w) \/ RunReturns(w)
      PROVE  Waits' \subseteq Waits
  BY <1>0, <1>4, NobodyWaitsMore DEF WorkerBlocks, WorkerWakesSpuriously, WorkerExits, RunReturns
<1> QED
  BY <1>1, <1>2, <1>3, <1>4
=============================================================================
