------------------------- MODULE IvsrSession_proofs -------------------------
(***************************************************************************)
(* Proofs about the session, for any finite set of workers, any number of  *)
(* patches, requests and calls, and any faults.  The invariant is the      *)
(* engine's, the executor's, and the link between them: which jobs may be  *)
(* in either, given where the application is in the API.  With it every    *)
(* step of the session is a step of the engine and of the executor, so     *)
(* their own lemmas keep their invariants, and what is left to show is     *)
(* that the link holds.                                                    *)
(***************************************************************************)
EXTENDS IvsrSession, FiniteSetTheorems, FunctionTheorems, SequenceTheorems, TLAPS

EngineP   == INSTANCE OvEngine_proofs WITH Callers <- Workers \cup {App}
ExecutorP == INSTANCE ThreadExecutor_proofs WITH Tasks <- Jobs, NoTask <- NoJob

\* The patches of the current call enqueued so far.
Sent == {<<frame, p>> : p \in 1 .. patch}

\* Where the application is while its patches may be about.
Patching == {"enqueue", "wait", "terminated"}

Types ==
  /\ pc \in PcValues
  /\ frame \in 0 .. MaxFrames
  /\ patch \in 0 .. NPatches
  /\ inferred \subseteq Jobs
  /\ faulty \in BOOLEAN
  /\ alive \in BOOLEAN

(* The batch of the executor belongs to the current call, and is empty      *)
(* between calls.                                                           *)
BatchLink ==
  /\ batch \subseteq Sent
  /\ batch # {} => pc \in Patching
  /\ pc = "enqueue" => batch = Sent /\ client \in {"out", "notify"}
  /\ pc = "wait" => /\ patch = NPatches
                    /\ client \in {"sync", "asleep", "reset", "out"}
                    /\ batch = IF client = "out" THEN {} ELSE Sent
  /\ pc = "grow" => patch = 0
  /\ pc \in {"init", "app", "grow", "proc"} => client = "out"
  /\ pc = "deleted" => client \in {"out", "stop", "join"}
  /\ client = "gone" <=> pc = "gone"

(* The pool is there, and large enough for the call. *)
PoolLink ==
  /\ size \in 0 .. MaxRequests
  /\ alive <=> pc \notin {"deleted", "gone"}
  /\ pc = "init" => frame = 0
  /\ pc # "init" => size >= InferRequests
  /\ pc \in {"enqueue", "wait"} => size >= NPatches

(* Whom the callers in the engine work for. *)
CallerLink ==
  /\ \A w \in Workers : caller[w].at # "out" => caller[w].job[2] # 0
  /\ caller[App].at # "out" => pc = "proc" /\ caller[App].job = <<frame, 0>>

(* What became of the calls. *)
CallLink ==
  /\ accepted \cup failed \cup delivered \subseteq 1 .. frame
  /\ failed \cap (accepted \cup delivered) = {}
  /\ pc \in {"grow", "enqueue", "wait", "terminated"} =>
       frame >= 1 /\ frame \notin accepted \cup failed \cup delivered
  /\ pc = "proc" => frame >= 1 /\ NPatches = 1 /\ frame \notin accepted \cup failed
  /\ 1 .. frame - 1 \subseteq accepted \cup failed
  /\ pc \in {"init", "app", "deleted", "gone"} => 1 .. frame \subseteq accepted \cup failed
  /\ pc \in {"deleted", "gone"} => accepted \subseteq delivered

(* A whole frame in the engine is one the application still waits for. *)
WholeLink ==
  \A j \in EngineP!InEngine : j[2] = 0 =>
    /\ NPatches = 1
    /\ j[1] \notin delivered
    /\ j[1] \in accepted \/ (pc = "proc" /\ j[1] = frame)

(* What has been inferred is over, what has not is still ahead. *)
InferredLink ==
  /\ \A j \in inferred : j[2] # 0 =>
       j[1] \in delivered \/ (pc \in Patching /\ j \in Sent)
  /\ \A j \in inferred : j[2] = 0 =>
       NPatches = 1 /\ (j[1] \in accepted \/ (pc = "proc" /\ j[1] = frame))
  /\ inferred \cap (EngineP!Ahead \cup ExecutorP!Waits) = {}
  /\ EngineP!Over \cup called \subseteq inferred
  /\ pc = "wait" /\ client \in {"reset", "out"} => Sent \subseteq inferred

Link == Types /\ BatchLink /\ PoolLink /\ CallerLink /\ CallLink /\ WholeLink /\ InferredLink

SessionInv == EngineP!EngineInv /\ ExecutorP!ExecInv /\ Link

-----------------------------------------------------------------------------
(* EngineP and ExecutorP are the engine and the executor of the session,    *)
(* with the lemmas about them.                                              *)

LEMMA SameEngine ==
  /\ Engine!InEngine = EngineP!InEngine /\ Engine!Ids = EngineP!Ids
  /\ Engine!Init <=> EngineP!Init
  /\ Engine!Next <=> EngineP!Next
  /\ Engine!vars = EngineP!vars /\ engineVars = EngineP!vars /\ (EngineP!vars' = EngineP!vars <=> UNCHANGED engineVars)
  /\ Engine!vars' = Engine!vars <=> UNCHANGED engineVars
  /\ Engine!Destroy <=> EngineP!Destroy
<1>1. Engine!InEngine = EngineP!InEngine /\ Engine!Ids = EngineP!Ids
  BY DEF Engine!InEngine, EngineP!InEngine, Engine!Ids, EngineP!Ids
<1>2. Engine!Init <=> EngineP!Init
  BY DEF Engine!Init, EngineP!Init, Engine!Ids, EngineP!Ids, Engine!Absent, EngineP!Absent, Engine!Out, EngineP!Out
<1>3. Engine!Next <=> EngineP!Next
  BY DEF Engine!Next, EngineP!Next, Engine!Ids, EngineP!Ids, Engine!InEngine, EngineP!InEngine,
         Engine!Idle, EngineP!Idle, Engine!Out, EngineP!Out, Engine!Quiescent, EngineP!Quiescent,
         Engine!CreateInferRequests, EngineP!CreateInferRequests, Engine!Run, EngineP!Run,
         Engine!GetIdleRequest, EngineP!GetIdleRequest, Engine!WaitForIdle, EngineP!WaitForIdle,
         Engine!SpuriousWakeUp, EngineP!SpuriousWakeUp, Engine!StartAsync, EngineP!StartAsync,
         Engine!StartThrows, EngineP!StartThrows, Engine!InferDone, EngineP!InferDone,
         Engine!InferFailed, EngineP!InferFailed, Engine!PutIdleRequest, EngineP!PutIdleRequest,
         Engine!NotifyOne, EngineP!NotifyOne, Engine!CallBack, EngineP!CallBack, Engine!Destroy, EngineP!Destroy
<1>4. Engine!vars = EngineP!vars /\ engineVars = EngineP!vars /\ (EngineP!vars' = EngineP!vars <=> UNCHANGED engineVars)
  BY DEF Engine!vars, EngineP!vars, engineVars
<1>5. Engine!Destroy <=> EngineP!Destroy
  BY DEF Engine!Destroy, EngineP!Destroy
<1>6. Engine!vars' = Engine!vars <=> UNCHANGED engineVars
  BY DEF Engine!vars, engineVars
<1> QED
  BY <1>1, <1>2, <1>3, <1>4, <1>5, <1>6

LEMMA SameCreate == ASSUME NEW n PROVE Engine!CreateInferRequests(n) <=> EngineP!CreateInferRequests(n)
BY DEF Engine!CreateInferRequests, EngineP!CreateInferRequests, Engine!Ids, EngineP!Ids, Engine!Idle, EngineP!Idle

LEMMA SameRun == ASSUME NEW t, NEW j PROVE Engine!Run(t, j) <=> EngineP!Run(t, j)
BY DEF Engine!Run, EngineP!Run

LEMMA SameCaller ==
  ASSUME NEW t
  PROVE  /\ Engine!GetIdleRequest(t) <=> EngineP!GetIdleRequest(t)
         /\ Engine!WaitForIdle(t) <=> EngineP!WaitForIdle(t)
         /\ Engine!SpuriousWakeUp(t) <=> EngineP!SpuriousWakeUp(t)
         /\ Engine!StartAsync(t) <=> EngineP!StartAsync(t)
         /\ Engine!StartThrows(t) <=> EngineP!StartThrows(t)
<1>1. Engine!GetIdleRequest(t) <=> EngineP!GetIdleRequest(t)
  BY DEF Engine!GetIdleRequest, EngineP!GetIdleRequest
<1>2. Engine!WaitForIdle(t) <=> EngineP!WaitForIdle(t)
  BY DEF Engine!WaitForIdle, EngineP!WaitForIdle
<1>3. Engine!SpuriousWakeUp(t) <=> EngineP!SpuriousWakeUp(t)
  BY DEF Engine!SpuriousWakeUp, EngineP!SpuriousWakeUp
<1>4. Engine!StartAsync(t) <=> EngineP!StartAsync(t)
  BY DEF Engine!StartAsync, EngineP!StartAsync, Engine!Out, EngineP!Out
<1>5. Engine!StartThrows(t) <=> EngineP!StartThrows(t)
  BY DEF Engine!StartThrows, EngineP!StartThrows, Engine!Out, EngineP!Out
<1> QED
  BY <1>1, <1>2, <1>3, <1>4, <1>5

LEMMA SameInfer ==
  ASSUME NEW id
  PROVE  /\ Engine!InferDone(id) <=> EngineP!InferDone(id)
         /\ Engine!InferFailed(id) <=> EngineP!InferFailed(id)
         /\ Engine!PutIdleRequest(id) <=> EngineP!PutIdleRequest(id)
         /\ Engine!CallBack(id) <=> EngineP!CallBack(id)
<1>1. Engine!InferDone(id) <=> EngineP!InferDone(id)
  BY DEF Engine!InferDone, EngineP!InferDone
<1>2. Engine!InferFailed(id) <=> EngineP!InferFailed(id)
  BY DEF Engine!InferFailed, EngineP!InferFailed
<1>3. Engine!PutIdleRequest(id) <=> EngineP!PutIdleRequest(id)
  BY DEF Engine!PutIdleRequest, EngineP!PutIdleRequest, Engine!NotifyOne, EngineP!NotifyOne, Engine!Idle, EngineP!Idle
<1>4. Engine!CallBack(id) <=> EngineP!CallBack(id)
  BY DEF Engine!CallBack, EngineP!CallBack
<1> QED
  BY <1>1, <1>2, <1>3, <1>4

LEMMA SameExecutor ==
  /\ Executor!Init <=> ExecutorP!Init
  /\ Executor!EnqueueNotifies <=> ExecutorP!EnqueueNotifies
  /\ Executor!SyncReturns <=> ExecutorP!SyncReturns
  /\ Executor!SyncBlocks <=> ExecutorP!SyncBlocks
  /\ Executor!SyncWakesSpuriously <=> ExecutorP!SyncWakesSpuriously
  /\ Executor!Reset <=> ExecutorP!Reset
  /\ Executor!Stop <=> ExecutorP!Stop
  /\ Executor!StopNotifies <=> ExecutorP!StopNotifies
  /\ Executor!Join <=> ExecutorP!Join
  /\ Executor!vars = ExecutorP!vars /\ (UNCHANGED ExecutorP!execVars <=> UNCHANGED execVars)
  /\ ExecutorP!vars' = ExecutorP!vars <=> UNCHANGED <<execVars, inEngine>>
  /\ Executor!vars' = Executor!vars <=> UNCHANGED <<execVars, inEngine>>
<1>1. Executor!Init <=> ExecutorP!Init
  BY DEF Executor!Init, ExecutorP!Init, Executor!Waiting, ExecutorP!Waiting
<1>2. Executor!EnqueueNotifies <=> ExecutorP!EnqueueNotifies
  BY DEF Executor!EnqueueNotifies, ExecutorP!EnqueueNotifies, Executor!NotifyOne, ExecutorP!NotifyOne, Executor!Waiting, ExecutorP!Waiting
<1>3. Executor!SyncReturns <=> ExecutorP!SyncReturns
  BY DEF Executor!SyncReturns, ExecutorP!SyncReturns
<1>4. Executor!SyncBlocks <=> ExecutorP!SyncBlocks
  BY DEF Executor!SyncBlocks, ExecutorP!SyncBlocks
<1>5. Executor!SyncWakesSpuriously <=> ExecutorP!SyncWakesSpuriously
  BY DEF Executor!SyncWakesSpuriously, ExecutorP!SyncWakesSpuriously
<1>6. Executor!Reset <=> ExecutorP!Reset
  BY DEF Executor!Reset, ExecutorP!Reset
<1>7. Executor!Stop <=> ExecutorP!Stop
  BY DEF Executor!Stop, ExecutorP!Stop
<1>8. Executor!StopNotifies <=> ExecutorP!StopNotifies
  BY DEF Executor!StopNotifies, ExecutorP!StopNotifies, Executor!Waiting, ExecutorP!Waiting
<1>9. Executor!Join <=> ExecutorP!Join
  BY DEF Executor!Join, ExecutorP!Join
<1>10. Executor!vars = ExecutorP!vars /\ (UNCHANGED ExecutorP!execVars <=> UNCHANGED execVars)
  BY DEF Executor!vars, ExecutorP!vars, Executor!execVars, ExecutorP!execVars, execVars
<1>11. ExecutorP!vars' = ExecutorP!vars <=> UNCHANGED <<execVars, inEngine>>
  BY DEF ExecutorP!vars, ExecutorP!execVars, execVars
<1>12. Executor!vars' = Executor!vars <=> UNCHANGED <<execVars, inEngine>>
  BY DEF Executor!vars, Executor!execVars, execVars
<1> QED
  BY <1>1, <1>2, <1>3, <1>4, <1>5, <1>6, <1>7, <1>8, <1>9, <1>10, <1>11, <1>12

LEMMA SameCount ==
  ASSUME NEW S
  PROVE  /\ Cardinality(S) = ExecutorP!Cardinality(S) /\ (IsFiniteSet(S) <=> ExecutorP!IsFiniteSet(S))
         /\ Executor!Cardinality(S) = ExecutorP!Cardinality(S)
<1>1. Cardinality(S) = ExecutorP!Cardinality(S)
  BY DEF Cardinality, ExecutorP!Cardinality
<1>2. IsFiniteSet(S) <=> ExecutorP!IsFiniteSet(S)
  BY DEF IsFiniteSet, ExecutorP!IsFiniteSet
<1>3. Executor!Cardinality(S) = ExecutorP!Cardinality(S)
  BY DEF Executor!Cardinality, ExecutorP!Cardinality
<1> QED
  BY <1>1, <1>2, <1>3

LEMMA SameWorker ==
  ASSUME NEW w
  PROVE  /\ Executor!TakeTask(w) <=> ExecutorP!TakeTask(w)
         /\ Executor!WorkerBlocks(w) <=> ExecutorP!WorkerBlocks(w)
         /\ Executor!WorkerWakesSpuriously(w) <=> ExecutorP!WorkerWakesSpuriously(w)
         /\ Executor!WorkerExits(w) <=> ExecutorP!WorkerExits(w)
         /\ Executor!CallRun(w) <=> ExecutorP!CallRun(w)
         /\ Executor!RunReturns(w) <=> ExecutorP!RunReturns(w)
<1>1. Executor!TakeTask(w) <=> ExecutorP!TakeTask(w)
  BY DEF Executor!TakeTask, ExecutorP!TakeTask
<1>2. Executor!WorkerBlocks(w) <=> ExecutorP!WorkerBlocks(w)
  BY DEF Executor!WorkerBlocks, ExecutorP!WorkerBlocks
<1>3. Executor!WorkerWakesSpuriously(w) <=> ExecutorP!WorkerWakesSpuriously(w)
  BY DEF Executor!WorkerWakesSpuriously, ExecutorP!WorkerWakesSpuriously, Executor!Waiting, ExecutorP!Waiting
<1>4. Executor!WorkerExits(w) <=> ExecutorP!WorkerExits(w)
  BY DEF Executor!WorkerExits, ExecutorP!WorkerExits
<1>5. Executor!CallRun(w) <=> ExecutorP!CallRun(w)
  BY DEF Executor!CallRun, ExecutorP!CallRun
<1>6. Executor!RunReturns(w) <=> ExecutorP!RunReturns(w)
  BY DEF Executor!RunReturns, ExecutorP!RunReturns, Executor!Waiting, ExecutorP!Waiting
<1> QED
  BY <1>1, <1>2, <1>3, <1>4, <1>5, <1>6

LEMMA SameTask ==
  ASSUME NEW x
  PROVE  /\ Executor!Enqueue(x) <=> ExecutorP!Enqueue(x)
         /\ Executor!WaitAll(x) <=> ExecutorP!WaitAll(x)
         /\ Executor!CompetitionCallBack(x) <=> ExecutorP!CompetitionCallBack(x)
<1>1. Executor!Enqueue(x) <=> ExecutorP!Enqueue(x)
  BY DEF Executor!Enqueue, ExecutorP!Enqueue
<1>2. Executor!WaitAll(x) <=> ExecutorP!WaitAll(x)
  BY DEF Executor!WaitAll, ExecutorP!WaitAll
<1>3. Executor!CompetitionCallBack(x) <=> ExecutorP!CompetitionCallBack(x)
  BY DEF Executor!CompetitionCallBack, ExecutorP!CompetitionCallBack
<1> QED
  BY <1>1, <1>2, <1>3

-----------------------------------------------------------------------------
(* What the invariant says of the jobs. *)

LEMMA Constants ==
  /\ MaxRequests \in Nat \ {0} /\ NoJob \notin Jobs /\ IsFiniteSet(Workers)
  /\ NPatches \in 1 .. MaxRequests /\ InferRequests \in 1 .. MaxRequests /\ MaxFrames \in Nat
BY SessionAssumption DEF MaxRequests, NoJob, Jobs, Frames

LEMMA SentFacts ==
  /\ \A j \in Sent : j[1] = frame /\ j[2] \in 1 .. patch /\ j = <<frame, j[2]>>
  /\ \A p \in 1 .. patch : <<frame, p>> \in Sent
  /\ Types => \A j \in Sent : j[2] # 0 /\ j[2] \in 1 .. NPatches
BY SessionAssumption DEF Sent, Types

LEMMA JobFacts ==
  ASSUME SessionInv
  PROVE  /\ EngineP!InEngine \subseteq Jobs
         /\ EngineP!InEngine = EngineP!Ahead \cup EngineP!Over /\ EngineP!Ahead \cap EngineP!Over = {}
         /\ \A j \in EngineP!InEngine : j[2] # 0 => j \in inEngine /\ j \in batch
         /\ inEngine \subseteq batch /\ inEngine \subseteq EngineP!InEngine
         /\ ExecutorP!Waits \subseteq batch /\ called \subseteq batch
         /\ ExecutorP!Waits \cap EngineP!InEngine = {}
         /\ \A j \in batch : j[1] = frame /\ j[2] # 0 /\ j \in Sent
<1>1. /\ EngineP!InEngine \subseteq Jobs
      /\ EngineP!InEngine = EngineP!Ahead \cup EngineP!Over /\ EngineP!Ahead \cap EngineP!Over = {}
  BY Constants, EngineP!AheadOrOver DEF SessionInv, EngineP!EngineInv
<1>2. /\ inEngine \subseteq batch /\ called \subseteq batch
      /\ ExecutorP!Waits \subseteq batch
      /\ ExecutorP!Waits \cap inEngine = {}
  BY DEF SessionInv, ExecutorP!ExecInv, ExecutorP!TaskInOnePlace, ExecutorP!Waits
<1>3. inEngine = {j \in EngineP!InEngine : j[2] # 0}
  BY SameEngine DEF inEngine
<1>4. \A j \in batch : j[1] = frame /\ j[2] # 0 /\ j \in Sent
  BY SentFacts DEF SessionInv, Link, BatchLink
<1>5. ExecutorP!Waits \cap EngineP!InEngine = {}
  BY <1>2, <1>3, <1>4
<1> QED
  BY <1>1, <1>2, <1>3, <1>4, <1>5

(* Between calls, with nothing owed to the application, the engine is empty. *)
LEMMA Calm ==
  ASSUME SessionInv, pc \notin Patching \cup {"proc"},
         NPatches > 1 \/ accepted \subseteq delivered
  PROVE  EngineP!InEngine = {} /\ EngineP!Quiescent
<1>1. batch = {}
  BY DEF SessionInv, Link, BatchLink
<1>2. ASSUME NEW j \in EngineP!InEngine
      PROVE  FALSE
  <2>1. j[2] = 0
    BY <1>1, JobFacts
  <2>2. NPatches = 1 /\ j[1] \notin delivered /\ j[1] \in accepted
    BY <2>1 DEF SessionInv, Link, WholeLink
  <2> QED
    BY <2>2
<1> QED
  BY <1>2, Constants, EngineP!EmptyIsQuiet

-----------------------------------------------------------------------------
(* Every step of the session is a step of its engine. *)

\* The pool may grow only while the engine is empty.
LEMMA Grows ==
  ASSUME SessionInv, NEW n \in 1 .. MaxRequests, Engine!CreateInferRequests(n),
         pc \in {"init", "app", "grow"}, NPatches > 1 \/ accepted \subseteq delivered
  PROVE  EngineP!Next
<1>1. EngineP!Quiescent
  BY Calm DEF Patching
<1>2. alive
  BY DEF SessionInv, Link, PoolLink
<1> QED
  BY <1>1, <1>2, SameCreate DEF EngineP!Next

LEMMA GrowsWhen ==
  ASSUME SessionInv, pc = "grow", NPatches > size
  PROVE  NPatches > 1 /\ size \in 1 .. NPatches - 1
BY Constants, SessionAssumption DEF SessionInv, Link, PoolLink

LEMMA EngineStep == SessionInv /\ [Next]_vars => [EngineP!Next]_(EngineP!vars)
<1> SUFFICES ASSUME SessionInv, [Next]_vars
             PROVE  EngineP!Next \/ UNCHANGED engineVars
  BY SameEngine
<1>1. CASE IvsrInit
  <2>1. pc = "init" /\ Engine!CreateInferRequests(InferRequests)
    BY <1>1 DEF IvsrInit
  <2>2. accepted \subseteq delivered
    BY <2>1 DEF SessionInv, Link, PoolLink, CallLink
  <2> QED
    BY <2>1, <2>2, Constants, Grows
<1>2. CASE Process \/ ProcessNoInput \/ EnqueuePatch \/ WaitForPatches \/ InExecutor \/ ProcessReturns
  BY <1>2 DEF Process, ProcessNoInput, EnqueuePatch, WaitForPatches, InExecutor, ProcessReturns
<1>3. CASE GrowPool
  <2>1. CASE NPatches > size
    BY <1>3, <2>1, Constants, Grows, GrowsWhen DEF GrowPool
  <2>2. CASE ~(NPatches > size)
    BY <1>3, <2>2 DEF GrowPool
  <2> QED
    BY <2>1, <2>2
<1>4. CASE GrowThrows
  <2>1. PICK n \in size .. NPatches - 1 : Engine!CreateInferRequests(n)
    BY <1>4 DEF GrowThrows
  <2>2. pc = "grow" /\ NPatches > size
    BY <1>4, <2>1, Constants DEF GrowThrows, SessionInv, Link, PoolLink
  <2>3. NPatches > 1 /\ n \in 1 .. MaxRequests
    BY <2>2, Constants, GrowsWhen
  <2> QED
    BY <2>1, <2>2, <2>3, Grows
<1>5. CASE ProcessAsync
  <2>1. /\ pc = "app" /\ frame' = frame + 1 /\ frame < MaxFrames
        /\ Engine!Run(App, <<frame', 0>>)
    BY <1>5 DEF ProcessAsync
  <2>2. frame' \in Frames /\ <<frame', 0>> \in Jobs
    BY <2>1, Constants DEF SessionInv, Link, Types, Jobs, Frames
  <2>3. <<frame', 0>> \notin EngineP!InEngine
    <3> SUFFICES ASSUME <<frame', 0>> \in EngineP!InEngine
                 PROVE  FALSE
      OBVIOUS
    <3>1. frame' \in accepted
      BY <2>1 DEF SessionInv, Link, WholeLink
    <3>2. frame' \in 1 .. frame
      BY <3>1 DEF SessionInv, Link, CallLink
    <3> QED
      BY <2>1, <3>2 DEF SessionInv, Link, Types
  <2>4. alive
    BY <2>1 DEF SessionInv, Link, PoolLink
  <2> QED
    BY <2>1, <2>2, <2>3, <2>4, SameRun DEF EngineP!Next
<1>6. CASE ProcessAsyncNull \/ AsyncReturns \/ DeinitExecutor \/ DeinitReturns
  BY <1>6 DEF ProcessAsyncNull, AsyncReturns, DeinitExecutor, DeinitReturns
<1>7. CASE AsyncStarts \/ AsyncStartThrows
  BY <1>7, SameCaller DEF AsyncStarts, AsyncStartThrows, EngineP!Next
<1>8. CASE accepted \subseteq delivered /\ DeinitEngine
  <2>1. pc = "app" /\ EngineP!Destroy
    BY <1>8, SameEngine DEF DeinitEngine
  <2> QED
    BY <1>8, <2>1, Calm DEF Patching, EngineP!Next
<1>9. ASSUME NEW w \in Workers, WorkerLoop(w) \/ WorkerRunsNull(w) \/ WorkerReturns(w)
      PROVE  UNCHANGED engineVars
  BY <1>9 DEF WorkerLoop, WorkerRunsNull, WorkerReturns
<1>10. ASSUME NEW w \in Workers, WorkerRuns(w)
       PROVE  EngineP!Next
  <2>1. /\ worker[w].at = "take"
        /\ Engine!Run(w, worker[w].task)
    BY <1>10 DEF WorkerRuns, Executor!CallRun
  <2>2. worker[w].task \in Jobs /\ worker[w].task \in ExecutorP!Waits
    BY <2>1 DEF SessionInv, ExecutorP!ExecInv, ExecutorP!Waits, ExecutorP!Taken
  <2>3. worker[w].task \notin EngineP!InEngine
    BY <2>2, JobFacts
  <2>4. alive
    BY <2>2, JobFacts DEF SessionInv, Link, BatchLink, PoolLink, Patching
  <2> QED
    BY <2>1, <2>2, <2>3, <2>4, SameRun DEF EngineP!Next
<1>11. ASSUME NEW w \in Workers, WorkerStarts(w) \/ WorkerStartThrows(w)
       PROVE  EngineP!Next
  BY <1>11, SameCaller DEF WorkerStarts, WorkerStartThrows, EngineP!Next
<1>12. ASSUME NEW t \in Workers \cup {App}, GetsRequest(t)
       PROVE  EngineP!Next
  BY <1>12, SameCaller DEF GetsRequest, EngineP!Next
<1>13. ASSUME NEW id \in EngineP!Ids, InferDone(id) \/ InferFailed(id) \/ PutsRequestBack(id)
       PROVE  EngineP!Next
  BY <1>13, SameInfer DEF InferDone, InferFailed, PutsRequestBack, EngineP!Next
<1>14. ASSUME NEW j \in pending, Notifies(j)
       PROVE  EngineP!Next
  BY <1>14, SameInfer DEF Notifies, EngineP!Next
<1>15. CASE UNCHANGED vars
  BY <1>15 DEF vars
<1> QED
  BY <1>1, <1>2, <1>3, <1>4, <1>5, <1>6, <1>7, <1>8, <1>9, <1>10, <1>11, <1>12, <1>13, <1>14, <1>15, SameEngine
  DEF Next, AppNext, WorkerNext, OpenVinoNext

-----------------------------------------------------------------------------
(* What each step does to the jobs in the engine. *)

\* In terms of the executor, the tasks in the engine are the patches there.
LEMMA TasksInEngine ==
  /\ inEngine = {j \in EngineP!InEngine : j[2] # 0}
  /\ inEngine' = {j \in EngineP!InEngine' : j[2] # 0}
  /\ EngineP!InEngine' = EngineP!Ahead' \cup EngineP!Over'
<1>1. /\ inEngine = {j \in Engine!InEngine : j[2] # 0}
      /\ inEngine' = {j \in Engine!InEngine' : j[2] # 0}
  BY DEF inEngine
<1>2. Engine!InEngine = EngineP!InEngine /\ Engine!InEngine' = EngineP!InEngine'
  BY DEF Engine!InEngine, EngineP!InEngine, Engine!Ids, EngineP!Ids
<1>3. EngineP!InEngine' = EngineP!Ahead' \cup EngineP!Over'
  BY DEF EngineP!InEngine, EngineP!Ahead, EngineP!Over
<1> QED
  BY <1>1, <1>2, <1>3

LEMMA SameJobs ==
  ASSUME SessionInv, EngineP!Ahead' = EngineP!Ahead, EngineP!Over' = EngineP!Over
  PROVE  EngineP!InEngine' = EngineP!InEngine /\ inEngine' = inEngine
<1>1. EngineP!InEngine' = EngineP!InEngine
  BY JobFacts, TasksInEngine
<1> QED
  BY <1>1, TasksInEngine

JobsKept == EngineP!Ahead' = EngineP!Ahead /\ EngineP!Over' = EngineP!Over

LEMMA KeptByEngine ==
  ASSUME SessionInv,
         \/ UNCHANGED engineVars
         \/ Engine!Destroy
         \/ \E n \in size .. MaxRequests : Engine!CreateInferRequests(n)
         \/ \E t \in Workers \cup {App} : \/ Engine!GetIdleRequest(t) \/ Engine!WaitForIdle(t)
                                        \/ Engine!SpuriousWakeUp(t) \/ Engine!StartAsync(t)
         \/ \E id \in EngineP!Ids : Engine!PutIdleRequest(id)
  PROVE  JobsKept
<1>0. EngineP!BaseOK /\ EngineP!PoolPartition
  BY DEF SessionInv, EngineP!EngineInv
<1>1. CASE UNCHANGED engineVars \/ Engine!Destroy
  BY <1>0, <1>1, Constants, SameEngine, EngineP!JobsStay DEF JobsKept
<1>2. ASSUME NEW n \in size .. MaxRequests, Engine!CreateInferRequests(n)
      PROVE  JobsKept
  BY <1>0, <1>2, Constants, SameCreate, EngineP!JobsStay DEF JobsKept
<1>3. ASSUME NEW t \in Workers \cup {App},
             Engine!GetIdleRequest(t) \/ Engine!WaitForIdle(t) \/ Engine!SpuriousWakeUp(t)
      PROVE  JobsKept
  BY <1>0, <1>3, Constants, SameCaller, EngineP!JobsStay DEF JobsKept
<1>4. ASSUME NEW t \in Workers \cup {App}, Engine!StartAsync(t)
      PROVE  JobsKept
  BY <1>0, <1>4, Constants, SameCaller, EngineP!JobStarts DEF JobsKept
<1>5. ASSUME NEW id \in EngineP!Ids, Engine!PutIdleRequest(id)
      PROVE  JobsKept
  BY <1>0, <1>5, Constants, SameInfer, EngineP!JobPutBack DEF JobsKept
<1> QED
  BY <1>1, <1>2, <1>3, <1>4, <1>5

\* The session's steps that move no job in or out of the engine.
LEMMA Kept ==
  ASSUME SessionInv,
         \/ IvsrInit \/ Process \/ ProcessNoInput \/ GrowPool \/ GrowThrows \/ EnqueuePatch \/ WaitForPatches
         \/ InExecutor \/ ProcessReturns \/ ProcessAsyncNull \/ AsyncStarts \/ AsyncReturns
         \/ DeinitEngine \/ DeinitExecutor \/ DeinitReturns
         \/ \E w \in Workers : WorkerLoop(w) \/ WorkerRunsNull(w) \/ WorkerStarts(w) \/ WorkerReturns(w)
         \/ \E t \in Workers \cup {App} : GetsRequest(t)
         \/ \E id \in EngineP!Ids : PutsRequestBack(id)
         \/ UNCHANGED vars
  PROVE  JobsKept /\ EngineP!InEngine' = EngineP!InEngine /\ inEngine' = inEngine
<1> SUFFICES JobsKept
  BY SameJobs DEF JobsKept
<1>1. CASE IvsrInit \/ GrowPool \/ GrowThrows
  <2>1. size \in 0 .. MaxRequests
    BY DEF SessionInv, Link, PoolLink
  <2>2. CASE UNCHANGED engineVars
    BY <2>2, KeptByEngine
  <2>3. ASSUME NEW n, Engine!CreateInferRequests(n)
        PROVE  JobsKept
    <3>1. n \in size .. MaxRequests
      BY <2>3 DEF Engine!CreateInferRequests
    <3> QED
      BY <2>3, <3>1, KeptByEngine
  <2> QED
    BY <1>1, <2>2, <2>3 DEF IvsrInit, GrowPool, GrowThrows
<1>2. CASE \/ Process \/ ProcessNoInput \/ EnqueuePatch \/ WaitForPatches \/ InExecutor \/ ProcessReturns
           \/ ProcessAsyncNull \/ AsyncReturns \/ DeinitExecutor \/ DeinitReturns
  BY <1>2, KeptByEngine
  DEF Process, ProcessNoInput, EnqueuePatch, WaitForPatches, InExecutor, ProcessReturns,
      ProcessAsyncNull, AsyncReturns, DeinitExecutor, DeinitReturns
<1>3. CASE AsyncStarts \/ DeinitEngine
  BY <1>3, KeptByEngine DEF AsyncStarts, DeinitEngine
<1>4. ASSUME NEW w \in Workers, WorkerLoop(w) \/ WorkerRunsNull(w) \/ WorkerStarts(w) \/ WorkerReturns(w)
      PROVE  JobsKept
  BY <1>4, KeptByEngine DEF WorkerLoop, WorkerRunsNull, WorkerStarts, WorkerReturns
<1>5. ASSUME NEW t \in Workers \cup {App}, GetsRequest(t)
      PROVE  JobsKept
  BY <1>5, KeptByEngine DEF GetsRequest
<1>6. ASSUME NEW id \in EngineP!Ids, PutsRequestBack(id)
      PROVE  JobsKept
  BY <1>6, KeptByEngine DEF PutsRequestBack
<1>7. CASE UNCHANGED vars
  BY <1>7, KeptByEngine DEF vars
<1> QED
  BY <1>1, <1>2, <1>3, <1>4, <1>5, <1>6, <1>7

LEMMA AsyncComes ==
  ASSUME SessionInv, ProcessAsync
  PROVE  /\ EngineP!Ahead' = EngineP!Ahead \cup {<<frame', 0>>} /\ EngineP!Over' = EngineP!Over
         /\ inEngine' = inEngine
<1>1. EngineP!Run(App, <<frame', 0>>)
  BY SameRun DEF ProcessAsync
<1>2. EngineP!Ahead' = EngineP!Ahead \cup {<<frame', 0>>} /\ EngineP!Over' = EngineP!Over
  BY <1>1, Constants, EngineP!JobComes DEF SessionInv, EngineP!EngineInv
<1>3. <<frame', 0>>[2] = 0
  OBVIOUS
<1> QED
  BY <1>2, <1>3, JobFacts, TasksInEngine

LEMMA AsyncLost ==
  ASSUME SessionInv, AsyncStartThrows
  PROVE  /\ EngineP!Ahead' = EngineP!Ahead \ {<<frame, 0>>} /\ EngineP!Over' = EngineP!Over
         /\ <<frame, 0>> \in EngineP!Ahead
         /\ inEngine' = inEngine
<1>1. EngineP!StartThrows(App)
  BY SameCaller DEF AsyncStartThrows
<1>2. caller[App].job = <<frame, 0>>
  BY <1>1 DEF EngineP!StartThrows, SessionInv, Link, CallerLink
<1>3. /\ EngineP!Ahead' = EngineP!Ahead \ {<<frame, 0>>} /\ EngineP!Over' = EngineP!Over
      /\ <<frame, 0>> \in EngineP!Ahead
  BY <1>1, <1>2, Constants, EngineP!JobLost DEF SessionInv, EngineP!EngineInv
<1>4. <<frame, 0>>[2] = 0
  OBVIOUS
<1> QED
  BY <1>3, <1>4, JobFacts, TasksInEngine

LEMMA WorkerGives ==
  ASSUME SessionInv, NEW w \in Workers, WorkerRuns(w)
  PROVE  /\ EngineP!Ahead' = EngineP!Ahead \cup {worker[w].task} /\ EngineP!Over' = EngineP!Over
         /\ inEngine' = inEngine \cup {worker[w].task}
         /\ worker[w].task \in ExecutorP!Waits /\ worker[w].task[2] # 0
<1>1. EngineP!Run(w, worker[w].task) /\ ExecutorP!CallRun(w)
  BY SameRun, SameWorker DEF WorkerRuns
<1>2. EngineP!Ahead' = EngineP!Ahead \cup {worker[w].task} /\ EngineP!Over' = EngineP!Over
  BY <1>1, Constants, EngineP!JobComes DEF SessionInv, EngineP!EngineInv
<1>3. worker[w].task \in ExecutorP!Waits
  BY <1>1 DEF ExecutorP!CallRun, ExecutorP!Waits, ExecutorP!Taken
<1>4. worker[w].task[2] # 0
  BY <1>3, JobFacts
<1> QED
  BY <1>2, <1>3, <1>4, JobFacts, TasksInEngine

LEMMA WorkerLoses ==
  ASSUME SessionInv, NEW w \in Workers, WorkerStartThrows(w)
  PROVE  /\ EngineP!Ahead' = EngineP!Ahead \ {caller[w].job} /\ EngineP!Over' = EngineP!Over
         /\ inEngine' = inEngine \ {caller[w].job}
         /\ caller[w].job \in inEngine
<1>1. EngineP!StartThrows(w)
  BY SameCaller DEF WorkerStartThrows
<1>2. /\ EngineP!Ahead' = EngineP!Ahead \ {caller[w].job} /\ EngineP!Over' = EngineP!Over
      /\ caller[w].job \in EngineP!Ahead
  BY <1>1, Constants, EngineP!JobLost DEF SessionInv, EngineP!EngineInv
<1>3. caller[w].job[2] # 0
  BY <1>1 DEF EngineP!StartThrows, SessionInv, Link, CallerLink
<1> QED
  BY <1>2, <1>3, JobFacts, TasksInEngine

LEMMA InferenceEnds ==
  ASSUME SessionInv, NEW id \in EngineP!Ids, InferDone(id) \/ InferFailed(id)
  PROVE  /\ request[id].job \in EngineP!Ahead
         /\ EngineP!Ahead' = EngineP!Ahead \ {request[id].job}
         /\ InferDone(id) => EngineP!Over' = EngineP!Over \cup {request[id].job} /\ inEngine' = inEngine
         /\ InferFailed(id) => EngineP!Over' = EngineP!Over /\ inEngine' = inEngine \ {request[id].job}
<1>1. EngineP!InferDone(id) \/ EngineP!InferFailed(id)
  BY SameInfer DEF InferDone, InferFailed
<1>2. /\ request[id].job \in EngineP!Ahead
      /\ EngineP!Ahead' = EngineP!Ahead \ {request[id].job}
      /\ EngineP!InferDone(id) => EngineP!Over' = EngineP!Over \cup {request[id].job}
      /\ EngineP!InferFailed(id) => EngineP!Over' = EngineP!Over
  BY <1>1, Constants, EngineP!JobEnds DEF SessionInv, EngineP!EngineInv
<1>3. ASSUME InferDone(id)
      PROVE  EngineP!Over' = EngineP!Over \cup {request[id].job} /\ inEngine' = inEngine
  <2>1. EngineP!Over' = EngineP!Over \cup {request[id].job}
    BY <1>2, <1>3, SameInfer DEF InferDone
  <2> QED
    BY <1>2, <2>1, JobFacts, TasksInEngine
<1>4. ASSUME InferFailed(id)
      PROVE  EngineP!Over' = EngineP!Over /\ inEngine' = inEngine \ {request[id].job}
  <2>1. EngineP!Over' = EngineP!Over
    BY <1>2, <1>4, SameInfer DEF InferFailed
  <2> QED
    BY <1>2, <2>1, JobFacts, TasksInEngine
<1> QED
  BY <1>2, <1>3, <1>4

LEMMA JobReported ==
  ASSUME SessionInv, NEW j, Notifies(j)
  PROVE  /\ j \in EngineP!Over /\ j \in EngineP!InEngine
         /\ EngineP!Ahead' = EngineP!Ahead /\ EngineP!Over' = EngineP!Over \ {j}
         /\ inEngine' = inEngine \ {j}
<1>1. EngineP!CallBack(j)
  BY SameInfer DEF Notifies
<1>2. j \in EngineP!Over /\ EngineP!Ahead' = EngineP!Ahead /\ EngineP!Over' = EngineP!Over \ {j}
  BY <1>1, Constants, EngineP!JobLeaves DEF SessionInv, EngineP!EngineInv
<1> QED
  BY <1>2, JobFacts, TasksInEngine

-----------------------------------------------------------------------------
(* Every step of the session is a step of its executor. *)

LEMMA SentCount ==
  ASSUME Types
  PROVE  Cardinality(Sent) = patch /\ IsFiniteSet(Sent)
<1>1. patch \in Nat
  BY SessionAssumption DEF Types
<1> DEFINE f == [p \in 1 .. patch |-> <<frame, p>>]
<1>2. f \in Bijection(1 .. patch, Sent)
  <2>1. f \in [1 .. patch -> Sent]
    BY DEF Sent
  <2>2. \A p, q \in 1 .. patch : f[p] = f[q] => p = q
    OBVIOUS
  <2>3. \A j \in Sent : \E p \in 1 .. patch : f[p] = j
    BY DEF Sent
  <2> QED
    BY <2>1, <2>2, <2>3, Fun_IsBij
<1> HIDE DEF f
<1>3. ExistsBijection(1 .. patch, Sent)
  BY <1>2 DEF ExistsBijection
<1> QED
  BY <1>1, <1>3, FS_CountingElements, FS_NatBijection

LEMMA ExecutorStep == SessionInv /\ [Next]_vars => [ExecutorP!Next]_(ExecutorP!vars)
<1> SUFFICES ASSUME SessionInv, [Next]_vars
             PROVE  ExecutorP!Next \/ UNCHANGED <<execVars, inEngine>>
  BY SameExecutor
<1>1. CASE \/ IvsrInit \/ Process \/ ProcessNoInput \/ GrowPool \/ GrowThrows \/ ProcessReturns \/ ProcessAsyncNull
           \/ AsyncStarts \/ AsyncReturns \/ DeinitEngine
  <2>1. UNCHANGED execVars
    BY <1>1 DEF IvsrInit, Process, ProcessNoInput, GrowPool, GrowThrows, ProcessReturns, ProcessAsyncNull,
                AsyncStarts, AsyncReturns, DeinitEngine
  <2> QED
    BY <1>1, <2>1, Kept
<1>2. CASE EnqueuePatch
  <2> DEFINE x == <<frame, patch + 1>>
  <2>1. pc = "enqueue" /\ patch < NPatches /\ ExecutorP!Enqueue(x)
    BY <1>2, SameTask DEF EnqueuePatch
  <2>2. x \in Jobs
    BY <2>1, SessionAssumption DEF SessionInv, Link, Types, CallLink, Jobs, Frames
  <2>3. x \notin Sent
    BY <2>1, SessionAssumption DEF SessionInv, Link, Types, Sent
  <2>4. x \notin batch \cup inEngine
    BY <2>3, JobFacts
  <2> HIDE DEF x
  <2> QED
    BY <1>2, <2>1, <2>2, <2>4, Kept DEF ExecutorP!Next
<1>3. CASE WaitForPatches
  <2>1. pc = "enqueue" /\ patch = NPatches /\ ExecutorP!WaitAll(NPatches)
    BY <1>3, SameTask DEF WaitForPatches
  <2>2. Cardinality(batch) = NPatches
    BY <2>1, SentCount DEF SessionInv, Link, BatchLink
  <2>3. ExecutorP!WaitAll(ExecutorP!Cardinality(batch))
    BY <2>1, <2>2, SameCount DEF ExecutorP!WaitAll
  <2> QED
    BY <1>3, <2>3, Kept DEF ExecutorP!Next
<1>4. CASE InExecutor
  BY <1>4, SameExecutor, Kept DEF InExecutor, ExecutorP!Next
<1>5. CASE DeinitExecutor \/ DeinitReturns
  BY <1>5, SameExecutor, Kept DEF DeinitExecutor, DeinitReturns, ExecutorP!Next
<1>6. CASE ProcessAsync
  BY <1>6, AsyncComes DEF ProcessAsync
<1>7. CASE AsyncStartThrows
  BY <1>7, AsyncLost DEF AsyncStartThrows
<1>8. ASSUME NEW w \in Workers, WorkerLoop(w) \/ WorkerReturns(w) \/ WorkerRunsNull(w)
      PROVE  ExecutorP!Next
  BY <1>8, SameWorker, Kept DEF WorkerLoop, WorkerReturns, WorkerRunsNull, ExecutorP!Next
<1>9. ASSUME NEW w \in Workers, WorkerRuns(w)
      PROVE  ExecutorP!Next
  BY <1>9, SameWorker, WorkerGives DEF WorkerRuns, ExecutorP!Next
<1>10. ASSUME NEW w \in Workers, WorkerStarts(w)
       PROVE  UNCHANGED <<execVars, inEngine>>
  BY <1>10, Kept DEF WorkerStarts
<1>11. ASSUME NEW w \in Workers, WorkerStartThrows(w)
       PROVE  ExecutorP!Next
  BY <1>11, WorkerLoses, SameExecutor DEF WorkerStartThrows, ExecutorP!Next
<1>12. ASSUME NEW t \in Workers \cup {App}, GetsRequest(t)
       PROVE  UNCHANGED <<execVars, inEngine>>
  BY <1>12, Kept DEF GetsRequest
<1>13. ASSUME NEW id \in EngineP!Ids, PutsRequestBack(id)
       PROVE  UNCHANGED <<execVars, inEngine>>
  BY <1>13, Kept DEF PutsRequestBack
<1>14. ASSUME NEW id \in EngineP!Ids, InferDone(id)
       PROVE  UNCHANGED <<execVars, inEngine>>
  BY <1>14, InferenceEnds DEF InferDone
<1>15. ASSUME NEW id \in EngineP!Ids, InferFailed(id)
       PROVE  ExecutorP!Next \/ UNCHANGED <<execVars, inEngine>>
  <2>1. UNCHANGED execVars /\ inEngine' = inEngine \ {request[id].job}
    BY <1>15, InferenceEnds DEF InferFailed
  <2>2. CASE request[id].job \in inEngine
    BY <2>1, <2>2, SameExecutor DEF ExecutorP!Next
  <2>3. CASE request[id].job \notin inEngine
    BY <2>1, <2>3
  <2> QED
    BY <2>2, <2>3
<1>16. ASSUME NEW j \in pending, Notifies(j)
       PROVE  ExecutorP!Next \/ UNCHANGED <<execVars, inEngine>>
  <2>1. inEngine' = inEngine \ {j} /\ j \in EngineP!InEngine
    BY <1>16, JobReported
  <2>2. CASE j[2] # 0
    <3>1. j \in inEngine /\ ExecutorP!CompetitionCallBack(j)
      BY <1>16, <2>1, <2>2, JobFacts, SameTask DEF Notifies
    <3> QED
      BY <2>1, <3>1 DEF ExecutorP!Next
  <2>3. CASE j[2] = 0
    <3>1. j \notin inEngine /\ UNCHANGED execVars
      BY <1>16, <2>3, TasksInEngine DEF Notifies
    <3> QED
      BY <2>1, <3>1
  <2> QED
    BY <2>2, <2>3
<1>17. CASE UNCHANGED vars
  BY <1>17, Kept DEF vars
<1> QED
  BY <1>1, <1>2, <1>3, <1>4, <1>5, <1>6, <1>7, <1>8, <1>9, <1>10, <1>11, <1>12, <1>13, <1>14, <1>15, <1>16, <1>17,
     SameEngine
  DEF Next, AppNext, WorkerNext, OpenVinoNext

LEMMA ComponentsStep == SessionInv /\ [Next]_vars => EngineP!EngineInv' /\ ExecutorP!ExecInv'
<1> SUFFICES ASSUME SessionInv, [Next]_vars
             PROVE  EngineP!EngineInv' /\ ExecutorP!ExecInv'
  OBVIOUS
<1>1. EngineP!EngineInv'
  BY EngineStep, Constants, EngineP!BaseStep, EngineP!PartitionStep, EngineP!JobsStep
  DEF SessionInv, EngineP!EngineInv
<1>2. ExecutorP!ExecInv'
  BY ExecutorStep, Constants, SameCount, ExecutorP!ExecStep DEF SessionInv
<1> QED
  BY <1>1, <1>2

-----------------------------------------------------------------------------
(* The link, part by part. *)

LEMMA TypesStep == SessionInv /\ [Next]_vars => Types'
<1> SUFFICES ASSUME SessionInv, [Next]_vars
             PROVE  Types'
  OBVIOUS
<1>0. Types /\ alive' \in BOOLEAN
  BY ComponentsStep DEF SessionInv, Link, EngineP!EngineInv, EngineP!BaseOK
<1>1. inferred' \subseteq Jobs
  <2>1. ASSUME NEW id \in EngineP!Ids, InferDone(id)
        PROVE  inferred' \subseteq Jobs
    BY <1>0, <2>1, InferenceEnds, JobFacts DEF InferDone, Types
  <2>2. (\E id \in EngineP!Ids : InferDone(id)) \/ inferred' = inferred
    BY SameEngine
    DEF Next, AppNext, WorkerNext, OpenVinoNext, vars, sessionVars, IvsrInit, Process, ProcessNoInput, GrowPool,
        GrowThrows, EnqueuePatch, WaitForPatches, InExecutor, ProcessReturns, ProcessAsync, ProcessAsyncNull,
        AsyncStarts, AsyncStartThrows, AsyncReturns, DeinitEngine, DeinitExecutor, DeinitReturns, WorkerLoop,
        WorkerRuns, WorkerRunsNull, WorkerStarts, WorkerStartThrows, WorkerReturns, GetsRequest, InferFailed,
        PutsRequestBack, Notifies
  <2> QED
    BY <1>0, <2>1, <2>2 DEF Types
<1>2. pc' \in PcValues /\ faulty' \in BOOLEAN
  BY <1>0
  DEF Types, PcValues, Next, AppNext, WorkerNext, OpenVinoNext, vars, sessionVars, IvsrInit, Process, ProcessNoInput, GrowPool,
      GrowThrows, EnqueuePatch, WaitForPatches, InExecutor, ProcessReturns, ProcessAsync, ProcessAsyncNull,
      AsyncStarts, AsyncStartThrows, AsyncReturns, DeinitEngine, DeinitExecutor, DeinitReturns, WorkerLoop,
      WorkerRuns, WorkerRunsNull, WorkerStarts, WorkerStartThrows, WorkerReturns, GetsRequest, InferFailed,
      InferDone, PutsRequestBack, Notifies
<1>3. /\ frame' \in 0 .. MaxFrames
      /\ patch' \in 0 .. NPatches
  <2>1. frame' = frame \/ (frame < MaxFrames /\ frame' = frame + 1)
    BY DEF Next, AppNext, WorkerNext, OpenVinoNext, vars, sessionVars, IvsrInit, Process, ProcessNoInput, GrowPool,
        GrowThrows, EnqueuePatch, WaitForPatches, InExecutor, ProcessReturns, ProcessAsync, ProcessAsyncNull,
        AsyncStarts, AsyncStartThrows, AsyncReturns, DeinitEngine, DeinitExecutor, DeinitReturns, WorkerLoop,
        WorkerRuns, WorkerRunsNull, WorkerStarts, WorkerStartThrows, WorkerReturns, GetsRequest, InferFailed,
        InferDone, PutsRequestBack, Notifies
  <2>2. patch' = patch \/ patch' = 0 \/ (patch < NPatches /\ patch' = patch + 1)
    BY DEF Next, AppNext, WorkerNext, OpenVinoNext, vars, sessionVars, IvsrInit, Process, ProcessNoInput, GrowPool,
        GrowThrows, EnqueuePatch, WaitForPatches, InExecutor, ProcessReturns, ProcessAsync, ProcessAsyncNull,
        AsyncStarts, AsyncStartThrows, AsyncReturns, DeinitEngine, DeinitExecutor, DeinitReturns, WorkerLoop,
        WorkerRuns, WorkerRunsNull, WorkerStarts, WorkerStartThrows, WorkerReturns, GetsRequest, InferFailed,
        InferDone, PutsRequestBack, Notifies
  <2> QED
    BY <1>0, <2>1, <2>2, SessionAssumption DEF Types
<1> QED
  BY <1>0, <1>1, <1>2, <1>3 DEF Types

(* The steps that leave the application where it is. *)
Background ==
  \/ InExecutor \/ AsyncStarts \/ DeinitExecutor
  \/ \E w \in Workers : WorkerLoop(w) \/ WorkerRuns(w) \/ WorkerRunsNull(w) \/ WorkerStarts(w) \/ WorkerReturns(w)
  \/ \E t \in Workers \cup {App} : GetsRequest(t)
  \/ \E id \in EngineP!Ids : InferFailed(id) \/ PutsRequestBack(id)
  \/ UNCHANGED vars

LEMMA BackgroundFacts ==
  Background => UNCHANGED <<pc, frame, patch, accepted, failed, delivered, inferred>>
BY DEF Background, InExecutor, AsyncStarts, DeinitExecutor, WorkerLoop, WorkerRuns, WorkerRunsNull, WorkerStarts,
       WorkerReturns, GetsRequest, InferFailed, PutsRequestBack, vars, sessionVars

\* And those that move it, or report to it.
Foreground ==
  \/ IvsrInit \/ Process \/ ProcessNoInput \/ GrowPool \/ GrowThrows \/ EnqueuePatch \/ WaitForPatches
  \/ ProcessReturns \/ ProcessAsync \/ ProcessAsyncNull \/ AsyncStartThrows \/ AsyncReturns
  \/ (accepted \subseteq delivered /\ DeinitEngine) \/ DeinitReturns
  \/ \E w \in Workers : WorkerStartThrows(w)
  \/ \E id \in EngineP!Ids : InferDone(id)
  \/ \E j \in pending : Notifies(j)

LEMMA OneMore ==
  ASSUME Types, UNCHANGED frame, patch' = patch + 1
  PROVE  Sent' = Sent \cup {<<frame, patch + 1>>}
<1>1. patch \in Nat /\ 1 .. patch + 1 = (1 .. patch) \cup {patch + 1}
  BY SessionAssumption DEF Types
<1> QED
  BY <1>1 DEF Sent

LEMMA Cases == [Next]_vars => UNCHANGED vars \/ (pc # "terminated" /\ (Background \/ Foreground))
BY SameEngine DEF Next, AppNext, WorkerNext, OpenVinoNext, Background, Foreground

\* A worker that throws does so during a call with patches.
LEMMA Throws ==
  ASSUME SessionInv, pc # "terminated", NEW w \in Workers, WorkerStartThrows(w)
  PROVE  pc \in {"enqueue", "wait"}
BY WorkerLoses, JobFacts DEF SessionInv, Link, BatchLink, Patching

LEMMA CallStep == SessionInv /\ [Next]_vars => CallLink'
<1> SUFFICES ASSUME SessionInv, [Next]_vars
             PROVE  CallLink'
  OBVIOUS
<1>0. Types /\ CallLink /\ BatchLink /\ frame \in Nat
  BY Constants DEF SessionInv, Link, Types
<1>a. /\ frame >= 1 => 1 .. frame = (1 .. frame - 1) \cup {frame}
      /\ 1 .. frame + 1 = (1 .. frame) \cup {frame + 1}
      /\ frame + 1 \notin 1 .. frame /\ frame + 1 >= 1 /\ (frame + 1) - 1 = frame
  BY <1>0
<1>1. CASE Background
  BY <1>0, <1>1, BackgroundFacts DEF CallLink
<1>2. CASE IvsrInit \/ GrowPool \/ EnqueuePatch \/ WaitForPatches \/ (accepted \subseteq delivered /\ DeinitEngine) \/ DeinitReturns
  BY <1>0, <1>2 DEF CallLink, IvsrInit, GrowPool, EnqueuePatch, WaitForPatches, DeinitEngine, DeinitReturns
<1>3. CASE Process \/ ProcessAsync
  <2>1. /\ pc = "app" /\ frame' = frame + 1
        /\ pc' = "grow" \/ (pc' = "proc" /\ NPatches = 1)
        /\ UNCHANGED <<accepted, failed, delivered>>
    BY <1>3 DEF Process, ProcessAsync
  <2> QED
    BY <1>0, <1>a, <2>1 DEF CallLink
<1>4. CASE ProcessNoInput \/ ProcessAsyncNull
  <2>1. /\ pc = "app" /\ pc' = pc /\ frame' = frame + 1 /\ delivered' = delivered
        /\ \/ failed' = failed \cup {frame + 1} /\ accepted' = accepted
           \/ accepted' = accepted \cup {frame + 1} /\ failed' = failed
    BY <1>4 DEF ProcessNoInput, ProcessAsyncNull
  <2> QED
    BY <1>0, <1>a, <2>1 DEF CallLink
<1>5. CASE GrowThrows \/ ProcessReturns
  <2>1. /\ pc \in {"grow", "wait"} /\ pc' = "app" /\ frame' = frame
        /\ \/ failed' = failed \cup {frame} /\ UNCHANGED <<accepted, delivered>>
           \/ /\ accepted' = accepted \cup {frame}
              /\ delivered' = delivered \cup {frame}
              /\ failed' = failed
    BY <1>5 DEF GrowThrows, ProcessReturns
  <2> QED
    BY <1>0, <1>a, <2>1 DEF CallLink
<1>6. CASE AsyncReturns
  <2>1. pc = "proc" /\ pc' = "app" /\ frame' = frame /\ accepted' = accepted \cup {frame} /\ UNCHANGED <<failed, delivered>>
    BY <1>6 DEF AsyncReturns
  <2> QED
    BY <1>0, <1>a, <2>1 DEF CallLink
<1>7. CASE AsyncStartThrows
  <2>1. pc = "proc" /\ pc' = "app" /\ frame' = frame /\ failed' = failed \cup {frame} /\ UNCHANGED <<accepted, delivered>>
    BY <1>7 DEF AsyncStartThrows
  <2>2. frame \notin delivered
    <3>1. <<frame, 0>> \in EngineP!InEngine /\ <<frame, 0>>[1] = frame /\ <<frame, 0>>[2] = 0
      BY <1>7, AsyncLost, JobFacts
    <3> QED
      BY <3>1 DEF SessionInv, Link, WholeLink
  <2> QED
    BY <1>0, <1>a, <2>1, <2>2 DEF CallLink
<1>8. ASSUME pc # "terminated", NEW w \in Workers, WorkerStartThrows(w)
      PROVE  CallLink'
  <2>1. pc \in {"enqueue", "wait"}
    BY <1>8, Throws
  <2> QED
    BY <1>0, <1>8, <2>1 DEF CallLink, WorkerStartThrows
<1>9. ASSUME NEW id \in EngineP!Ids, InferDone(id)
      PROVE  CallLink'
  BY <1>0, <1>9 DEF CallLink, InferDone
<1>10. ASSUME NEW j \in pending, Notifies(j)
       PROVE  CallLink'
  <2>1. /\ UNCHANGED <<pc, frame, accepted, failed>>
        /\ j[2] # 0 => delivered' = delivered
        /\ j[2] = 0 => delivered' = delivered \cup {j[1]}
    BY <1>10 DEF Notifies
  <2>2. CASE j[2] # 0
    BY <1>0, <2>1, <2>2 DEF CallLink
  <2>3. CASE j[2] = 0
    <3>1. /\ j \in EngineP!InEngine
          /\ j[1] \in accepted \/ (pc = "proc" /\ j[1] = frame)
      BY <1>10, <2>3, JobReported DEF SessionInv, Link, WholeLink
    <3>2. j[1] \in 1 .. frame /\ j[1] \notin failed
      BY <1>0, <1>a, <3>1 DEF CallLink
    <3>3. pc \in {"grow", "enqueue", "wait", "terminated"} => j[1] # frame
      BY <1>0, <3>1 DEF CallLink
    <3> QED
      BY <1>0, <2>1, <2>3, <3>2, <3>3 DEF CallLink
  <2> QED
    BY <2>2, <2>3
<1> QED
  BY <1>1, <1>2, <1>3, <1>4, <1>5, <1>6, <1>7, <1>8, <1>9, <1>10, Cases DEF Background, Foreground

LEMMA BatchStep == SessionInv /\ [Next]_vars => BatchLink'
<1> SUFFICES ASSUME SessionInv, [Next]_vars
             PROVE  BatchLink'
  OBVIOUS
<1>0. Types /\ BatchLink
  BY DEF SessionInv, Link
<1>1. ASSUME UNCHANGED <<pc, frame, patch, batch, client>>
      PROVE  BatchLink'
  BY <1>0, <1>1 DEF BatchLink, Sent
<1>2. CASE Background
  <2>1. UNCHANGED <<pc, frame, patch>>
    BY <1>2, BackgroundFacts
  <2>2. Sent' = Sent
    BY <2>1 DEF Sent
  <2>3. CASE UNCHANGED <<batch, client>>
    BY <1>1, <2>1, <2>3
  <2>4. CASE InExecutor
    <3>1. pc # "terminated" \/ UNCHANGED <<batch, client>>
      BY Cases DEF vars, execVars
    <3>2. \/ client = "notify" /\ client' = "out" /\ batch' = batch
          \/ client = "sync" /\ client' \in {"reset", "asleep"} /\ batch' = batch
          \/ client = "asleep" /\ client' = "sync" /\ batch' = batch
          \/ client = "reset" /\ client' = "out" /\ batch' = {}
          \/ client = "stop" /\ client' = "join" /\ batch' = batch
      BY <2>4 DEF InExecutor, Executor!EnqueueNotifies, Executor!SyncReturns, Executor!SyncBlocks,
                  Executor!SyncWakesSpuriously, Executor!Reset, Executor!StopNotifies
    <3> QED
      BY <1>0, <1>1, <2>1, <2>2, <3>1, <3>2 DEF BatchLink, Types, PcValues
  <2>5. CASE DeinitExecutor
    <3>1. pc = "deleted" /\ client = "out" /\ client' = "stop" /\ batch' = batch
      BY <2>5 DEF DeinitExecutor, Executor!Stop
    <3> QED
      BY <1>0, <2>1, <2>2, <3>1 DEF BatchLink
  <2>6. InExecutor \/ DeinitExecutor \/ UNCHANGED <<batch, client>>
    BY <1>2
    DEF Background, AsyncStarts, WorkerLoop, WorkerRuns, WorkerRunsNull, WorkerStarts, WorkerReturns, GetsRequest,
        InferFailed, PutsRequestBack, vars, execVars, Executor!TakeTask, Executor!WorkerBlocks,
        Executor!WorkerWakesSpuriously, Executor!WorkerExits, Executor!CallRun, Executor!RunReturns
  <2> QED
    BY <2>3, <2>4, <2>5, <2>6
<1>3. ASSUME pc # "terminated", Foreground
      PROVE  BatchLink'
  <2>1. CASE IvsrInit \/ Process \/ ProcessNoInput \/ GrowThrows \/ ProcessAsync \/ ProcessAsyncNull \/ AsyncStartThrows
             \/ AsyncReturns
    <3>1. /\ UNCHANGED <<batch, client>>
          /\ pc \in {"init", "app", "grow", "proc"} /\ pc' \in {"app", "grow", "proc"}
          /\ pc' = "grow" => patch' = 0
      BY <2>1 DEF IvsrInit, Process, ProcessNoInput, GrowThrows, ProcessAsync, ProcessAsyncNull, AsyncStartThrows,
                  AsyncReturns, execVars
    <3>2. batch = {}
      BY <1>0, <3>1 DEF BatchLink, Patching
    <3> QED
      BY <1>0, <3>1, <3>2 DEF BatchLink, Patching
  <2>2. CASE GrowPool
    <3>1. UNCHANGED <<batch, client, frame, patch>> /\ pc = "grow" /\ pc' = "enqueue"
      BY <2>2 DEF GrowPool, execVars
    <3>2. batch = {} /\ patch = 0
      BY <1>0, <3>1 DEF BatchLink, Patching
    <3>3. Sent' = {}
      BY <3>1, <3>2 DEF Sent
    <3> QED
      BY <1>0, <3>1, <3>2, <3>3 DEF BatchLink, Patching
  <2>3. CASE EnqueuePatch
    <3>1. /\ pc = "enqueue" /\ pc' = pc /\ patch' = patch + 1 /\ frame' = frame
          /\ client' = "notify" /\ batch' = batch \cup {<<frame, patch + 1>>}
      BY <2>3 DEF EnqueuePatch, Executor!Enqueue
    <3>2. Sent' = Sent \cup {<<frame, patch + 1>>}
      BY <1>0, <3>1, OneMore
    <3> QED
      BY <1>0, <3>1, <3>2 DEF BatchLink, Patching
  <2>4. CASE WaitForPatches \/ ProcessReturns \/ DeinitEngine \/ DeinitReturns
    <3>1. Sent' = Sent /\ patch' = patch
      BY <2>4 DEF WaitForPatches, ProcessReturns, DeinitEngine, DeinitReturns, Sent
    <3>2. CASE WaitForPatches
      BY <1>0, <3>1, <3>2 DEF WaitForPatches, BatchLink, Executor!WaitAll, Patching
    <3>3. CASE ProcessReturns
      <4>1. batch = {}
        BY <1>0, <3>3 DEF ProcessReturns, BatchLink
      <4> QED
        BY <1>0, <3>1, <3>3, <4>1 DEF ProcessReturns, BatchLink, execVars
    <3>4. CASE DeinitEngine \/ DeinitReturns
      BY <1>0, <3>1, <3>4 DEF DeinitEngine, DeinitReturns, Executor!Join, BatchLink, Patching, execVars
    <3> QED
      BY <2>4, <3>2, <3>3, <3>4
  <2>5. ASSUME NEW w \in Workers, WorkerStartThrows(w)
        PROVE  BatchLink'
    <3>1. pc \in {"enqueue", "wait"} /\ pc' = "terminated" /\ UNCHANGED <<batch, client, frame, patch>>
      BY <1>3, <2>5, Throws DEF WorkerStartThrows, execVars
    <3> QED
      BY <1>0, <3>1 DEF BatchLink, Sent, Patching
  <2>6. ASSUME NEW id \in EngineP!Ids, InferDone(id)
        PROVE  BatchLink'
    BY <1>1, <2>6 DEF InferDone, execVars
  <2>7. ASSUME NEW j \in pending, Notifies(j)
        PROVE  BatchLink'
    <3>1. /\ UNCHANGED <<pc, frame, patch, batch>>
          /\ client' = client \/ (client = "asleep" /\ client' = "sync")
      BY <2>7 DEF Notifies, Executor!CompetitionCallBack, execVars
    <3> QED
      BY <1>0, <1>3, <3>1 DEF BatchLink, Sent, Types, PcValues
  <2> QED
    BY <1>3, <2>1, <2>2, <2>3, <2>4, <2>5, <2>6, <2>7 DEF Foreground
<1> QED
  BY <1>2, <1>3, Cases DEF Background

LEMMA PoolStep == SessionInv /\ [Next]_vars => PoolLink'
<1> SUFFICES ASSUME SessionInv, [Next]_vars
             PROVE  PoolLink'
  OBVIOUS
<1>0. PoolLink /\ Types
  BY DEF SessionInv, Link
<1>1. CASE Background
  <2>1. UNCHANGED <<pc, frame, size, alive>>
    BY <1>1, BackgroundFacts
    DEF Background, InExecutor, AsyncStarts, DeinitExecutor, WorkerLoop, WorkerRuns, WorkerRunsNull, WorkerStarts,
        WorkerReturns, GetsRequest, InferFailed, PutsRequestBack, vars, engineVars, Engine!StartAsync, Engine!Run,
        Engine!GetIdleRequest, Engine!WaitForIdle, Engine!SpuriousWakeUp, Engine!InferFailed, Engine!PutIdleRequest
  <2> QED
    BY <1>0, <2>1 DEF PoolLink
<1>2. CASE IvsrInit
  <2>1. size' = InferRequests /\ alive' = alive /\ pc = "init" /\ pc' = "app"
    BY <1>2 DEF IvsrInit, Engine!CreateInferRequests
  <2> QED
    BY <1>0, <2>1, Constants DEF PoolLink
<1>3. CASE GrowPool
  <2>1. /\ pc = "grow" /\ pc' = "enqueue" /\ alive' = alive /\ frame' = frame
        /\ IF NPatches > size THEN size' = NPatches ELSE size' = size
    BY <1>3 DEF GrowPool, Engine!CreateInferRequests, engineVars
  <2> QED
    BY <1>0, <2>1, Constants DEF PoolLink
<1>4. CASE GrowThrows
  <2>1. PICK n \in size .. NPatches - 1 : Engine!CreateInferRequests(n)
    BY <1>4 DEF GrowThrows
  <2>2. size' = n /\ alive' = alive /\ pc = "grow" /\ pc' = "app"
    BY <1>4, <2>1 DEF GrowThrows, Engine!CreateInferRequests
  <2> QED
    BY <1>0, <2>2, Constants DEF PoolLink
<1>5. CASE DeinitEngine \/ DeinitReturns
  <2>1. /\ pc # "init" /\ size' = size /\ pc' \in {"deleted", "gone"}
        /\ alive' = FALSE \/ (alive' = alive /\ pc = "deleted")
    BY <1>5 DEF DeinitEngine, DeinitReturns, Engine!Destroy, engineVars
  <2> QED
    BY <1>0, <2>1 DEF PoolLink
<1>6. CASE \/ Process \/ ProcessNoInput \/ EnqueuePatch \/ WaitForPatches \/ ProcessReturns \/ ProcessAsync
           \/ ProcessAsyncNull \/ AsyncStartThrows \/ AsyncReturns
  <2>1. /\ UNCHANGED <<size, alive>>
        /\ pc \in {"app", "enqueue", "wait", "proc"} /\ pc' \in {"app", "grow", "enqueue", "wait", "proc"}
        /\ pc' \in {"enqueue", "wait"} => pc = "enqueue"
    BY <1>6 DEF Process, ProcessNoInput, EnqueuePatch, WaitForPatches, ProcessReturns, ProcessAsync,
                ProcessAsyncNull, AsyncStartThrows, AsyncReturns, engineVars, Engine!Run, Engine!StartThrows
  <2> QED
    BY <1>0, <2>1 DEF PoolLink
<1>7. ASSUME NEW w \in Workers, pc # "terminated", WorkerStartThrows(w)
      PROVE  PoolLink'
  <2>1. UNCHANGED <<size, alive>> /\ pc' = "terminated" /\ pc \in {"enqueue", "wait"}
    BY <1>7, Throws DEF WorkerStartThrows, Engine!StartThrows
  <2> QED
    BY <1>0, <2>1 DEF PoolLink
<1>8. ASSUME (\E id \in EngineP!Ids : InferDone(id)) \/ (\E j \in pending : Notifies(j))
      PROVE  PoolLink'
  <2>1. UNCHANGED <<pc, frame, size, alive>>
    BY <1>8 DEF InferDone, Notifies, Engine!InferDone, Engine!CallBack
  <2> QED
    BY <1>0, <2>1 DEF PoolLink
<1> QED
  BY <1>1, <1>2, <1>3, <1>4, <1>5, <1>6, <1>7, <1>8, Cases DEF Background, Foreground

\* Callers that go on with what they have, or leave.
LEMMA CallersKept ==
  ASSUME CallerLink, UNCHANGED <<pc, frame>>,
         \A t \in Workers \cup {App} :
           caller'[t].at # "out" => caller[t].at # "out" /\ caller'[t].job = caller[t].job
  PROVE  CallerLink'
BY DEF CallerLink

LEMMA CallerStep == SessionInv /\ [Next]_vars => CallerLink'
<1> SUFFICES ASSUME SessionInv, [Next]_vars
             PROVE  CallerLink'
  OBVIOUS
<1>0. /\ CallerLink /\ App \notin Workers
      /\ caller \in [Workers \cup {App} -> EngineP!Caller]
      /\ \A t \in Workers \cup {App} : caller[t] \in EngineP!Caller
      /\ EngineP!Out.at = "out"
  BY SessionAssumption DEF SessionInv, Link, EngineP!EngineInv, EngineP!BaseOK, EngineP!Out
<1>1. ASSUME NEW t \in Workers \cup {App}, EngineP!StartAsync(t) \/ EngineP!StartThrows(t)
      PROVE  \A u \in Workers \cup {App} :
               caller'[u].at # "out" => u # t /\ caller'[u] = caller[u]
  BY <1>0, <1>1 DEF EngineP!StartAsync, EngineP!StartThrows
<1>2. ASSUME UNCHANGED caller, caller[App].at # "out" => UNCHANGED <<pc, frame>>
      PROVE  CallerLink'
  BY <1>0, <1>2 DEF CallerLink
<1>3. CASE AsyncStarts
  <2>1. UNCHANGED <<pc, frame>> /\ EngineP!StartAsync(App)
    BY <1>3, SameCaller DEF AsyncStarts, sessionVars
  <2> QED
    BY <1>0, <1>1, <2>1, CallersKept
<1>4. CASE AsyncStartThrows
  <2>1. EngineP!StartThrows(App)
    BY <1>4, SameCaller DEF AsyncStartThrows
  <2> QED
    BY <1>0, <1>1, <2>1 DEF CallerLink
<1>5. CASE ProcessAsync
  <2>1. /\ pc' = "proc"
        /\ caller' = [caller EXCEPT ![App] = [at |-> "get", job |-> <<frame', 0>>, id |-> 0]]
    BY <1>5 DEF ProcessAsync, Engine!Run
  <2> QED
    BY <1>0, <2>1 DEF CallerLink
<1>6. ASSUME NEW w \in Workers, WorkerRuns(w)
      PROVE  CallerLink'
  <2>1. /\ UNCHANGED <<pc, frame>> /\ worker[w].task[2] # 0
        /\ caller' = [caller EXCEPT ![w] = [at |-> "get", job |-> worker[w].task, id |-> 0]]
    BY <1>6, WorkerGives DEF WorkerRuns, Engine!Run, sessionVars
  <2> QED
    BY <1>0, <2>1 DEF CallerLink
<1>7. ASSUME NEW w \in Workers, WorkerStarts(w) \/ WorkerStartThrows(w)
      PROVE  CallerLink'
  <2>1. CASE WorkerStarts(w)
    <3>1. UNCHANGED <<pc, frame>> /\ EngineP!StartAsync(w)
      BY <2>1, SameCaller DEF WorkerStarts, sessionVars
    <3> QED
      BY <1>0, <1>1, <3>1, CallersKept
  <2>2. CASE WorkerStartThrows(w)
    <3>1. EngineP!StartThrows(w)
      BY <2>2, SameCaller DEF WorkerStartThrows
    <3>2. pc # "proc"
      BY <1>7, <2>2, WorkerLoses, JobFacts DEF SessionInv, Link, BatchLink, Patching
    <3> QED
      BY <1>0, <1>1, <3>1, <3>2 DEF CallerLink
  <2> QED
    BY <1>7, <2>1, <2>2
<1>8. ASSUME NEW t \in Workers \cup {App}, GetsRequest(t)
      PROVE  CallerLink'
  <2>1. UNCHANGED <<pc, frame>> /\ (EngineP!GetIdleRequest(t) \/ EngineP!WaitForIdle(t) \/ EngineP!SpuriousWakeUp(t))
    BY <1>8, SameCaller DEF GetsRequest, sessionVars
  <2>2. \A u \in Workers \cup {App} : caller'[u].at # "out" => caller[u].at # "out" /\ caller'[u].job = caller[u].job
    <3>1. /\ caller[t].at # "out"
          /\ \/ caller' = [caller EXCEPT ![t] = [caller[t] EXCEPT !.at = "start", !.id = Head(idleIds)]]
             \/ caller' = [caller EXCEPT ![t] = [caller[t] EXCEPT !.at = "asleep"]]
             \/ caller' = [caller EXCEPT ![t] = [caller[t] EXCEPT !.at = "get"]]
      BY <2>1 DEF EngineP!GetIdleRequest, EngineP!WaitForIdle, EngineP!SpuriousWakeUp
    <3>2. /\ [caller[t] EXCEPT !.at = "start", !.id = Head(idleIds)].job = caller[t].job
          /\ [caller[t] EXCEPT !.at = "asleep"].job = caller[t].job
          /\ [caller[t] EXCEPT !.at = "get"].job = caller[t].job
      BY <1>0 DEF EngineP!Caller
    <3>3. caller'[t].job = caller[t].job /\ \A u \in (Workers \cup {App}) \ {t} : caller'[u] = caller[u]
      BY <1>0, <3>1, <3>2
    <3> QED
      BY <3>1, <3>3
  <2> QED
    BY <1>0, <2>1, <2>2, CallersKept
<1>9. ASSUME NEW id \in EngineP!Ids, PutsRequestBack(id)
      PROVE  CallerLink'
  <2>1. UNCHANGED <<pc, frame>> /\ EngineP!NotifyOne
    BY <1>9, SameInfer DEF PutsRequestBack, EngineP!PutIdleRequest, sessionVars
  <2>2. \A u \in Workers \cup {App} : caller'[u].at # "out" => caller[u].at # "out" /\ caller'[u].job = caller[u].job
    BY <2>1, Constants, EngineP!NotifyFacts DEF SessionInv, EngineP!EngineInv
  <2> QED
    BY <1>0, <2>1, <2>2, CallersKept
<1>10. CASE \/ IvsrInit \/ Process \/ ProcessNoInput \/ GrowPool \/ GrowThrows \/ EnqueuePatch \/ WaitForPatches
            \/ ProcessReturns \/ ProcessAsyncNull \/ AsyncReturns \/ DeinitEngine \/ DeinitReturns
            \/ InExecutor \/ DeinitExecutor
            \/ (\E w \in Workers : WorkerLoop(w) \/ WorkerRunsNull(w) \/ WorkerReturns(w))
            \/ (\E id \in EngineP!Ids : InferDone(id) \/ InferFailed(id))
            \/ (\E j \in pending : Notifies(j))
  <2>1. /\ UNCHANGED caller
        /\ UNCHANGED <<pc, frame>> \/ pc # "proc" \/ caller[App].at = "out"
    BY <1>10
    DEF IvsrInit, Process, ProcessNoInput, GrowPool, GrowThrows, EnqueuePatch, WaitForPatches, ProcessReturns,
        ProcessAsyncNull, AsyncReturns, DeinitEngine, DeinitReturns, InExecutor, DeinitExecutor, WorkerLoop,
        WorkerRunsNull, WorkerReturns, InferDone, InferFailed, Notifies, engineVars, sessionVars, Engine!CreateInferRequests,
        Engine!Destroy, Engine!InferDone, Engine!InferFailed, Engine!CallBack
  <2> QED
    BY <1>0, <1>2, <2>1 DEF CallerLink
<1>11. CASE UNCHANGED vars
  BY <1>2, <1>11 DEF vars, engineVars, sessionVars
<1> QED
  BY <1>3, <1>4, <1>5, <1>6, <1>7, <1>8, <1>9, <1>10, <1>11, Cases DEF Background, Foreground

(* Where a call goes: its callback and its status stay, its patches stay    *)
(* until it is delivered, and a whole frame handed over is accepted.        *)
LEMMA CallsGoOn ==
  ASSUME SessionInv, [Next]_vars
  PROVE  /\ delivered \subseteq delivered' /\ accepted \subseteq accepted' /\ inferred \subseteq inferred'
         /\ pc \in Patching => (pc' \in Patching /\ Sent \subseteq Sent') \/ frame \in delivered'
         /\ pc = "proc" => (pc' = "proc" /\ frame' = frame) \/ frame \in accepted' \/ AsyncStartThrows
<1>0. Types
  BY DEF SessionInv, Link
<1>1. delivered \subseteq delivered' /\ accepted \subseteq accepted' /\ inferred \subseteq inferred'
  BY DEF Next, AppNext, WorkerNext, OpenVinoNext, vars, sessionVars, IvsrInit, Process, ProcessNoInput, GrowPool,
        GrowThrows, EnqueuePatch, WaitForPatches, InExecutor, ProcessReturns, ProcessAsync, ProcessAsyncNull,
        AsyncStarts, AsyncStartThrows, AsyncReturns, DeinitEngine, DeinitExecutor, DeinitReturns, WorkerLoop,
        WorkerRuns, WorkerRunsNull, WorkerStarts, WorkerStartThrows, WorkerReturns, GetsRequest, InferFailed,
        InferDone, PutsRequestBack, Notifies
<1>2. \/ UNCHANGED <<pc, frame, patch>>
      \/ EnqueuePatch \/ WaitForPatches \/ ProcessReturns \/ (\E w \in Workers : WorkerStartThrows(w))
      \/ AsyncStartThrows \/ AsyncReturns
      \/ pc \notin Patching \cup {"proc"}
  BY DEF Next, AppNext, WorkerNext, OpenVinoNext, vars, sessionVars, IvsrInit, Process, ProcessNoInput, GrowPool,
        GrowThrows, InExecutor, ProcessAsync, ProcessAsyncNull, AsyncStarts, DeinitEngine, DeinitExecutor,
        DeinitReturns, WorkerLoop, WorkerRuns, WorkerRunsNull, WorkerStarts, WorkerReturns, GetsRequest, InferFailed,
        InferDone, PutsRequestBack, Notifies, Patching
<1>3. CASE UNCHANGED <<pc, frame, patch>>
  BY <1>1, <1>3 DEF Sent
<1>4. CASE EnqueuePatch
  <2>1. Sent' = Sent \cup {<<frame, patch + 1>>} /\ pc = "enqueue" /\ pc' = pc
    BY <1>0, <1>4, OneMore DEF EnqueuePatch
  <2> QED
    BY <1>1, <2>1 DEF Patching
<1>5. CASE WaitForPatches \/ (\E w \in Workers : WorkerStartThrows(w))
  <2>1. UNCHANGED <<frame, patch>> /\ pc' \in Patching
    BY <1>5 DEF WaitForPatches, WorkerStartThrows, Patching
  <2>2. pc # "proc"
    BY <1>5, WorkerLoses, JobFacts DEF WaitForPatches, SessionInv, Link, BatchLink, Patching
  <2> QED
    BY <1>1, <2>1, <2>2 DEF Sent
<1>6. CASE ProcessReturns \/ AsyncStartThrows \/ AsyncReturns
  BY <1>1, <1>6 DEF ProcessReturns, AsyncStartThrows, AsyncReturns, Patching
<1> QED
  BY <1>1, <1>2, <1>3, <1>4, <1>5, <1>6

-----------------------------------------------------------------------------
(* How jobs flow: from the executor's queue and workers to the engine, from *)
(* ahead of their inference to past it, and out.                            *)
Quiet ==
  /\ EngineP!Ahead' \subseteq EngineP!Ahead \cup ExecutorP!Waits
  /\ EngineP!Over' \subseteq EngineP!Over
  /\ ExecutorP!Waits' \subseteq ExecutorP!Waits
  /\ called' \subseteq called
  /\ inferred' = inferred

LEMMA WaitsFlow ==
  ASSUME SessionInv, [Next]_vars
  PROVE  ExecutorP!Waits' \subseteq ExecutorP!Waits \/ EnqueuePatch
<1>0. ExecutorP!ExecInv
  BY DEF SessionInv
<1>1. ASSUME UNCHANGED execVars
      PROVE  ExecutorP!Waits' \subseteq ExecutorP!Waits
  BY <1>0, <1>1, Constants, SameCount, SameExecutor, ExecutorP!TasksStay
<1>2. CASE WaitForPatches \/ InExecutor \/ DeinitExecutor \/ DeinitReturns
  <2>1. \/ ExecutorP!WaitAll(NPatches) \/ ExecutorP!EnqueueNotifies \/ ExecutorP!SyncReturns \/ ExecutorP!SyncBlocks
        \/ ExecutorP!SyncWakesSpuriously \/ ExecutorP!Reset \/ ExecutorP!StopNotifies \/ ExecutorP!Stop \/ ExecutorP!Join
    BY <1>2, SameExecutor, SameTask DEF WaitForPatches, InExecutor, DeinitExecutor, DeinitReturns
  <2> QED
    BY <1>0, <2>1, Constants, SameCount, ExecutorP!TasksStay
<1>3. ASSUME NEW w \in Workers, WorkerLoop(w) \/ WorkerReturns(w)
      PROVE  ExecutorP!Waits' \subseteq ExecutorP!Waits
  <2>1. CASE ExecutorP!TakeTask(w)
    BY <1>0, <2>1, Constants, SameCount, ExecutorP!TaskMoves
  <2>2. CASE ExecutorP!WorkerBlocks(w) \/ ExecutorP!WorkerWakesSpuriously(w) \/ ExecutorP!WorkerExits(w) \/ ExecutorP!RunReturns(w)
    BY <1>0, <2>2, Constants, SameCount, ExecutorP!TasksStay
  <2> QED
    BY <1>3, <2>1, <2>2, SameWorker DEF WorkerLoop, WorkerReturns
<1>4. ASSUME NEW w \in Workers, WorkerRuns(w) \/ WorkerRunsNull(w)
      PROVE  ExecutorP!Waits' \subseteq ExecutorP!Waits
  <2>1. ExecutorP!CallRun(w)
    BY <1>4, SameWorker DEF WorkerRuns, WorkerRunsNull
  <2> QED
    BY <1>0, <2>1, Constants, SameCount, ExecutorP!TaskGoes
<1>5. ASSUME NEW j \in pending, Notifies(j)
      PROVE  ExecutorP!Waits' \subseteq ExecutorP!Waits
  <2>1. CASE j[2] # 0
    <3>1. ExecutorP!CompetitionCallBack(j)
      BY <1>5, <2>1, SameTask DEF Notifies
    <3> QED
      BY <1>0, <3>1, Constants, SameCount, ExecutorP!TasksStay
  <2>2. CASE j[2] = 0
    BY <1>1, <1>5, <2>2 DEF Notifies
  <2> QED
    BY <2>1, <2>2
<1>6. CASE \/ IvsrInit \/ Process \/ ProcessNoInput \/ GrowPool \/ GrowThrows \/ ProcessReturns \/ ProcessAsync
           \/ ProcessAsyncNull \/ AsyncStarts \/ AsyncStartThrows \/ AsyncReturns \/ DeinitEngine
           \/ (\E w \in Workers : WorkerStarts(w) \/ WorkerStartThrows(w))
           \/ (\E t \in Workers \cup {App} : GetsRequest(t))
           \/ (\E id \in EngineP!Ids : InferDone(id) \/ InferFailed(id) \/ PutsRequestBack(id))
           \/ UNCHANGED vars
  <2>1. UNCHANGED execVars
    BY <1>6 DEF IvsrInit, Process, ProcessNoInput, GrowPool, GrowThrows, ProcessReturns, ProcessAsync,
                ProcessAsyncNull, AsyncStarts, AsyncStartThrows, AsyncReturns, DeinitEngine, WorkerStarts,
                WorkerStartThrows, GetsRequest, InferDone, InferFailed, PutsRequestBack, vars
  <2> QED
    BY <1>1, <2>1
<1> QED
  BY <1>2, <1>3, <1>4, <1>5, <1>6, Cases DEF Background, Foreground

LEMMA CalledFlow ==
  ASSUME [Next]_vars
  PROVE  /\ called' \subseteq called \/ (\E j \in pending : Notifies(j))
         /\ inferred' = inferred \/ (\E id \in EngineP!Ids : InferDone(id))
<1>1. called' \subseteq called \/ (\E j \in pending : Notifies(j))
  BY DEF Next, AppNext, WorkerNext, OpenVinoNext, vars, execVars, IvsrInit, Process, ProcessNoInput, GrowPool,
        GrowThrows, EnqueuePatch, WaitForPatches, InExecutor, ProcessReturns, ProcessAsync, ProcessAsyncNull,
        AsyncStarts, AsyncStartThrows, AsyncReturns, DeinitEngine, DeinitExecutor, DeinitReturns, WorkerLoop,
        WorkerRuns, WorkerRunsNull, WorkerStarts, WorkerStartThrows, WorkerReturns, GetsRequest, InferFailed,
        InferDone, PutsRequestBack, Executor!Enqueue, Executor!WaitAll, Executor!EnqueueNotifies, Executor!SyncReturns,
        Executor!SyncBlocks, Executor!SyncWakesSpuriously, Executor!Reset, Executor!Stop, Executor!StopNotifies,
        Executor!Join, Executor!TakeTask, Executor!WorkerBlocks, Executor!WorkerWakesSpuriously, Executor!WorkerExits,
        Executor!CallRun, Executor!RunReturns
<1>2. inferred' = inferred \/ (\E id \in EngineP!Ids : InferDone(id))
  BY SameEngine
  DEF Next, AppNext, WorkerNext, OpenVinoNext, vars, sessionVars, IvsrInit, Process, ProcessNoInput, GrowPool,
        GrowThrows, EnqueuePatch, WaitForPatches, InExecutor, ProcessReturns, ProcessAsync, ProcessAsyncNull,
        AsyncStarts, AsyncStartThrows, AsyncReturns, DeinitEngine, DeinitExecutor, DeinitReturns, WorkerLoop,
        WorkerRuns, WorkerRunsNull, WorkerStarts, WorkerStartThrows, WorkerReturns, GetsRequest, InferFailed,
        PutsRequestBack, Notifies
<1> QED
  BY <1>1, <1>2

LEMMA Flow ==
  ASSUME SessionInv, [Next]_vars
  PROVE  \/ Quiet
         \/ EnqueuePatch \/ ProcessAsync
         \/ \E id \in EngineP!Ids : InferDone(id)
         \/ \E j \in pending : Notifies(j)
<1> SUFFICES ASSUME ~EnqueuePatch, ~ProcessAsync, ~(\E id \in EngineP!Ids : InferDone(id)), ~(\E j \in pending : Notifies(j))
             PROVE  EngineP!Ahead' \subseteq EngineP!Ahead \cup ExecutorP!Waits /\ EngineP!Over' \subseteq EngineP!Over
  BY WaitsFlow, CalledFlow DEF Quiet
<1>1. CASE \/ IvsrInit \/ Process \/ ProcessNoInput \/ GrowPool \/ GrowThrows \/ WaitForPatches
           \/ InExecutor \/ ProcessReturns \/ ProcessAsyncNull \/ AsyncStarts \/ AsyncReturns
           \/ DeinitEngine \/ DeinitExecutor \/ DeinitReturns
           \/ (\E w \in Workers : WorkerLoop(w) \/ WorkerRunsNull(w) \/ WorkerStarts(w) \/ WorkerReturns(w))
           \/ (\E t \in Workers \cup {App} : GetsRequest(t))
           \/ (\E id \in EngineP!Ids : PutsRequestBack(id))
           \/ UNCHANGED vars
  BY <1>1, Kept DEF JobsKept
<1>2. CASE AsyncStartThrows
  BY <1>2, AsyncLost
<1>3. ASSUME NEW w \in Workers, WorkerRuns(w) \/ WorkerStartThrows(w)
      PROVE  EngineP!Ahead' \subseteq EngineP!Ahead \cup ExecutorP!Waits /\ EngineP!Over' \subseteq EngineP!Over
  BY <1>3, WorkerGives, WorkerLoses
<1>4. ASSUME NEW id \in EngineP!Ids, InferFailed(id)
      PROVE  EngineP!Ahead' \subseteq EngineP!Ahead \cup ExecutorP!Waits /\ EngineP!Over' \subseteq EngineP!Over
  BY <1>4, InferenceEnds
<1> QED
  BY <1>1, <1>2, <1>3, <1>4, Cases DEF Background, Foreground

LEMMA WholeJobs ==
  ASSUME SessionInv, NEW j \in EngineP!InEngine, NEW k \in EngineP!InEngine, j[2] = 0, k[2] = 0, j[1] = k[1]
  PROVE  j = k
BY JobFacts DEF Jobs

(* A callback for a whole frame is made once: by the application's thread   *)
(* for patches, by OpenVINO's for a whole frame, never both.                *)
LEMMA DeliveredBy ==
  ASSUME [Next]_vars
  PROVE  \/ delivered' = delivered
         \/ ProcessReturns /\ pc = "wait" /\ delivered' = delivered \cup {frame}
         \/ \E j \in pending : Notifies(j) /\ j[2] = 0 /\ delivered' = delivered \cup {j[1]}
<1>1. ASSUME NEW j \in pending, Notifies(j)
      PROVE  delivered' = delivered \/ (j[2] = 0 /\ delivered' = delivered \cup {j[1]})
  BY <1>1 DEF Notifies
<1>2. ProcessReturns => pc = "wait" /\ delivered' = delivered \cup {frame}
  BY DEF ProcessReturns
<1>3. delivered' = delivered \/ ProcessReturns \/ (\E j \in pending : Notifies(j))
  BY DEF Next, AppNext, WorkerNext, OpenVinoNext, vars, sessionVars, IvsrInit, Process, ProcessNoInput, GrowPool,
        GrowThrows, EnqueuePatch, WaitForPatches, InExecutor, ProcessAsync, ProcessAsyncNull,
        AsyncStarts, AsyncStartThrows, AsyncReturns, DeinitEngine, DeinitExecutor, DeinitReturns, WorkerLoop,
        WorkerRuns, WorkerRunsNull, WorkerStarts, WorkerStartThrows, WorkerReturns, GetsRequest, InferFailed,
        InferDone, PutsRequestBack
<1> QED
  BY <1>1, <1>2, <1>3

LEMMA WholeStep == SessionInv /\ [Next]_vars => WholeLink'
<1> SUFFICES ASSUME SessionInv, [Next]_vars, NEW j \in EngineP!InEngine', j[2] = 0
             PROVE  NPatches = 1 /\ j[1] \notin delivered' /\ (j[1] \in accepted' \/ (pc' = "proc" /\ j[1] = frame'))
  BY DEF WholeLink
<1>0. Types /\ CallLink /\ WholeLink /\ frame \in Nat
  BY Constants DEF SessionInv, Link, Types
<1>1. CASE ProcessAsync /\ j = <<frame', 0>>
  <2>1. NPatches = 1 /\ frame' = frame + 1 /\ pc' = "proc" /\ delivered' = delivered
    BY <1>1 DEF ProcessAsync
  <2>2. frame + 1 \notin delivered
    BY <1>0 DEF CallLink
  <2> QED
    BY <1>1, <2>1, <2>2
<1>2. CASE ~(ProcessAsync /\ j = <<frame', 0>>)
  <2>1. /\ j \in EngineP!InEngine
        /\ \A k \in pending : Notifies(k) => j # k
        /\ AsyncStartThrows => j # <<frame, 0>>
    <3>1. j \in EngineP!Ahead' \/ j \in EngineP!Over'
      BY TasksInEngine
    <3>2. ASSUME Quiet \/ (ProcessAsync /\ j # <<frame', 0>>)
          PROVE  j \in EngineP!InEngine
      BY <3>1, <3>2, AsyncComes, JobFacts DEF Quiet
    <3>3. ASSUME EnqueuePatch
          PROVE  j \in EngineP!InEngine
      BY <3>3, Kept
    <3>4. ASSUME (\E id \in EngineP!Ids : InferDone(id)) \/ (\E k \in pending : Notifies(k))
          PROVE  j \in EngineP!InEngine
      BY <3>1, <3>4, InferenceEnds, JobReported, JobFacts
    <3>5. \A k \in pending : Notifies(k) => j # k
      BY <3>1, JobReported, JobFacts
    <3>6. AsyncStartThrows => j # <<frame, 0>>
      BY <3>1, AsyncLost, JobFacts
    <3> QED
      BY <1>2, <3>2, <3>3, <3>4, <3>5, <3>6, Flow
  <2>2. /\ NPatches = 1 /\ j[1] \notin delivered
        /\ j[1] \in accepted \/ (pc = "proc" /\ j[1] = frame)
    BY <1>0, <2>1 DEF WholeLink
  <2>3. j[1] \notin delivered'
    <3>1. ProcessReturns /\ pc = "wait" => j[1] # frame
      BY <1>0, <2>2 DEF CallLink
    <3>2. ASSUME NEW k \in pending, Notifies(k), k[2] = 0
          PROVE  j[1] # k[1]
      BY <2>1, <3>2, JobReported, WholeJobs
    <3> QED
      BY <2>2, <3>1, <3>2, DeliveredBy
  <2>4. j[1] \in accepted' \/ (pc' = "proc" /\ j[1] = frame')
    <3>1. CASE j[1] \in accepted
      BY <3>1, CallsGoOn
    <3>2. CASE pc = "proc" /\ j[1] = frame
      <4>1. j = <<frame, 0>>
        BY <2>1, <3>2, JobFacts DEF Jobs
      <4> QED
        BY <2>1, <3>2, <4>1, CallsGoOn
    <3> QED
      BY <2>2, <3>1, <3>2
  <2> QED
    BY <2>2, <2>3, <2>4
<1> QED
  BY <1>1, <1>2

-----------------------------------------------------------------------------
(* What has been inferred: InferredLink, conjunct by conjunct. *)

\* A job about to be inferred has not been before, and its call is still on.
LEMMA JobOfInference ==
  ASSUME SessionInv, NEW j \in EngineP!Ahead
  PROVE  /\ j \in Jobs /\ j \notin inferred /\ j \notin ExecutorP!Waits
         /\ j[2] # 0 => pc \in Patching /\ j \in Sent
         /\ j[2] = 0 => NPatches = 1 /\ (j[1] \in accepted \/ (pc = "proc" /\ j[1] = frame))
<1>1. j \in EngineP!InEngine /\ j \in Jobs /\ j \notin ExecutorP!Waits /\ j \notin inferred
  BY JobFacts DEF SessionInv, Link, InferredLink
<1>2. ASSUME j[2] # 0
      PROVE  pc \in Patching /\ j \in Sent
  BY <1>1, <1>2, JobFacts DEF SessionInv, Link, BatchLink
<1>3. ASSUME j[2] = 0
      PROVE  NPatches = 1 /\ (j[1] \in accepted \/ (pc = "proc" /\ j[1] = frame))
  BY <1>1, <1>3 DEF SessionInv, Link, WholeLink
<1> QED
  BY <1>1, <1>2, <1>3

LEMMA InferredFlow ==
  ASSUME SessionInv, [Next]_vars, NEW j \in inferred'
  PROVE  j \in inferred \/ (j \in EngineP!Ahead /\ \E id \in EngineP!Ids : InferDone(id) /\ request[id].job = j)
<1>1. ASSUME NEW id \in EngineP!Ids, InferDone(id)
      PROVE  inferred' = inferred \cup {request[id].job} /\ request[id].job \in EngineP!Ahead
  BY <1>1, InferenceEnds DEF InferDone
<1> QED
  BY <1>1, CalledFlow

LEMMA InferredStays ==
  ASSUME SessionInv, [Next]_vars, NEW j \in inferred'
  PROVE  /\ j[2] # 0 => j[1] \in delivered' \/ (pc' \in Patching /\ j \in Sent')
         /\ j[2] = 0 => NPatches = 1 /\ (j[1] \in accepted' \/ (pc' = "proc" /\ j[1] = frame'))
<1>1. /\ j[2] # 0 => j[1] \in delivered \/ (pc \in Patching /\ j \in Sent)
      /\ j[2] = 0 => NPatches = 1 /\ (j[1] \in accepted \/ (pc = "proc" /\ j[1] = frame))
  BY InferredFlow, JobOfInference DEF SessionInv, Link, InferredLink
<1>2. ASSUME j[2] # 0
      PROVE  j[1] \in delivered' \/ (pc' \in Patching /\ j \in Sent')
  <2>1. j \in Sent => j[1] = frame
    BY SentFacts
  <2> QED
    BY <1>1, <1>2, <2>1, CallsGoOn
<1>3. ASSUME j[2] = 0
      PROVE  NPatches = 1 /\ (j[1] \in accepted' \/ (pc' = "proc" /\ j[1] = frame'))
  <2>1. CASE AsyncStartThrows /\ j[1] = frame
    <3>1. <<frame, 0>> \in EngineP!Ahead /\ <<frame, 0>> \notin inferred /\ pc = "proc" /\ inferred' = inferred
      BY <2>1, AsyncLost, JobOfInference DEF AsyncStartThrows
    <3>2. j \in Jobs
      BY <3>1 DEF SessionInv, Link, Types
    <3> QED
      BY <1>3, <2>1, <3>1, <3>2 DEF Jobs
  <2> QED
    BY <1>1, <1>3, <2>1, CallsGoOn
<1> QED
  BY <1>2, <1>3

LEMMA InferredNotAhead ==
  ASSUME SessionInv, [Next]_vars
  PROVE  inferred' \cap (EngineP!Ahead' \cup ExecutorP!Waits') = {}
<1>0. /\ inferred \cap (EngineP!Ahead \cup ExecutorP!Waits) = {}
      /\ Types /\ CallLink /\ InferredLink
  BY DEF SessionInv, Link, InferredLink
<1>1. CASE Quiet
  BY <1>0, <1>1 DEF Quiet
<1>2. CASE EnqueuePatch
  <2> DEFINE x == <<frame, patch + 1>>
  <2>1. /\ pc = "enqueue" /\ patch < NPatches /\ inferred' = inferred
        /\ ExecutorP!Enqueue(x)
    BY <1>2, SameTask DEF EnqueuePatch
  <2>2. x \in Jobs /\ x[1] = frame /\ x[2] # 0 /\ x \notin Sent
    BY <1>0, <2>1, SessionAssumption DEF Types, CallLink, Jobs, Frames, Sent
  <2>3. x \notin inferred
    BY <1>0, <2>1, <2>2 DEF InferredLink, CallLink
  <2> HIDE DEF x
  <2>4. ExecutorP!Waits' = ExecutorP!Waits \cup {x}
    BY <2>1, <2>2, Constants, SameCount, ExecutorP!TaskComes DEF SessionInv
  <2>5. EngineP!Ahead' = EngineP!Ahead
    BY <1>2, Kept DEF JobsKept
  <2> QED
    BY <1>0, <2>1, <2>3, <2>4, <2>5
<1>3. CASE ProcessAsync
  <2>1. frame' = frame + 1 /\ pc = "app" /\ frame \in Nat
    BY <1>0, <1>3, Constants DEF ProcessAsync, Types
  <2>2. frame + 1 \notin accepted
    BY <1>0, <2>1 DEF CallLink
  <2>3. <<frame', 0>> \notin inferred
    BY <1>0, <2>1, <2>2 DEF InferredLink
  <2>4. inferred' = inferred /\ ~EnqueuePatch
    BY <1>3 DEF ProcessAsync, EnqueuePatch
  <2> QED
    BY <1>0, <1>3, <2>3, <2>4, AsyncComes, WaitsFlow
<1>4. ASSUME NEW id \in EngineP!Ids, InferDone(id)
      PROVE  inferred' \cap (EngineP!Ahead' \cup ExecutorP!Waits') = {}
  <2>1. /\ inferred' = inferred \cup {request[id].job} /\ request[id].job \in EngineP!Ahead
        /\ EngineP!Ahead' = EngineP!Ahead \ {request[id].job}
    BY <1>4, InferenceEnds DEF InferDone
  <2>2. request[id].job \notin ExecutorP!Waits
    BY <2>1, JobOfInference
  <2>3. UNCHANGED execVars
    BY <1>4 DEF InferDone
  <2>4. ExecutorP!Waits' \subseteq ExecutorP!Waits
    BY <2>3, Constants, SameCount, SameExecutor, ExecutorP!TasksStay DEF SessionInv
  <2> QED
    BY <1>0, <2>1, <2>2, <2>4
<1>5. ASSUME NEW j \in pending, Notifies(j)
      PROVE  inferred' \cap (EngineP!Ahead' \cup ExecutorP!Waits') = {}
  <2>1. inferred' = inferred /\ EngineP!Ahead' = EngineP!Ahead
    BY <1>5, JobReported DEF Notifies
  <2>2. ~EnqueuePatch
    BY <1>5 DEF Notifies, EnqueuePatch, Engine!CallBack, engineVars
  <2> QED
    BY <1>0, <2>1, <2>2, WaitsFlow
<1> QED
  BY <1>1, <1>2, <1>3, <1>4, <1>5, Flow

LEMMA OverIsInferred ==
  ASSUME SessionInv, [Next]_vars
  PROVE  EngineP!Over' \cup called' \subseteq inferred'
<1>0. EngineP!Over \cup called \subseteq inferred
  BY DEF SessionInv, Link, InferredLink
<1>1. CASE Quiet
  BY <1>0, <1>1 DEF Quiet
<1>2. CASE EnqueuePatch \/ ProcessAsync
  <2>1. called' = called /\ inferred' = inferred
    BY <1>2 DEF EnqueuePatch, ProcessAsync, Executor!Enqueue, execVars
  <2> QED
    BY <1>0, <1>2, <2>1, Kept, AsyncComes DEF JobsKept
<1>3. ASSUME NEW id \in EngineP!Ids, InferDone(id)
      PROVE  EngineP!Over' \cup called' \subseteq inferred'
  BY <1>0, <1>3, InferenceEnds DEF InferDone, execVars
<1>4. ASSUME NEW j \in pending, Notifies(j)
      PROVE  EngineP!Over' \cup called' \subseteq inferred'
  <2>1. called' \subseteq called \cup {j} /\ inferred' = inferred
    BY <1>4 DEF Notifies, Executor!CompetitionCallBack, execVars
  <2> QED
    BY <1>0, <1>4, <2>1, JobReported
<1> QED
  BY <1>1, <1>2, <1>3, <1>4, Flow

LEMMA BarrierNext == ExecutorP!ExecInv' => ExecutorP!WaitAllIsABarrier'
<1>1. ExecutorP!ExecInv => ExecutorP!WaitAllIsABarrier
  BY Constants, SameCount, ExecutorP!Barrier
<1> QED
  BY <1>1, PTL

(* wait_all returns with every patch of the frame inferred. *)
LEMMA WaitIsOver ==
  ASSUME SessionInv, [Next]_vars, pc' = "wait", client' \in {"reset", "out"}
  PROVE  Sent' \subseteq inferred'
<1>0. BatchLink /\ InferredLink
  BY DEF SessionInv, Link
<1>1. CASE client' = "reset"
  <2>1. ExecutorP!WaitAllIsABarrier'
    BY ComponentsStep, BarrierNext
  <2>2. called' = batch'
    BY <1>1, <2>1 DEF ExecutorP!WaitAllIsABarrier
  <2>3. batch' = Sent'
    BY <1>1, BatchStep DEF BatchLink
  <2> QED
    BY <2>2, <2>3, OverIsInferred
<1>2. CASE client' = "out"
  <2>1. pc = "wait" /\ Sent' = Sent /\ client \in {"reset", "out"}
    <3>1. pc = "wait" \/ WaitForPatches
      BY DEF Next, AppNext, WorkerNext, OpenVinoNext, vars, sessionVars, IvsrInit, Process, ProcessNoInput, GrowPool,
        GrowThrows, EnqueuePatch, InExecutor, ProcessReturns, ProcessAsync, ProcessAsyncNull,
        AsyncStarts, AsyncStartThrows, AsyncReturns, DeinitEngine, DeinitExecutor, DeinitReturns, WorkerLoop,
        WorkerRuns, WorkerRunsNull, WorkerStarts, WorkerStartThrows, WorkerReturns, GetsRequest, InferFailed,
        InferDone, PutsRequestBack, Notifies
    <3>2. ~WaitForPatches
      BY <1>2 DEF WaitForPatches, Executor!WaitAll
    <3>3. UNCHANGED <<frame, patch>>
      BY <3>1, <3>2
      DEF Next, AppNext, WorkerNext, OpenVinoNext, vars, sessionVars, IvsrInit, Process, ProcessNoInput, GrowPool,
        GrowThrows, EnqueuePatch, InExecutor, ProcessReturns, ProcessAsync, ProcessAsyncNull,
        AsyncStarts, AsyncStartThrows, AsyncReturns, DeinitEngine, DeinitExecutor, DeinitReturns, WorkerLoop,
        WorkerRuns, WorkerRunsNull, WorkerStarts, WorkerStartThrows, WorkerReturns, GetsRequest, InferFailed,
        InferDone, PutsRequestBack, Notifies
    <3>4. client' = client \/ client \in {"reset", "notify"}
      BY <1>2, <3>1, <3>2
      DEF Next, AppNext, WorkerNext, OpenVinoNext, vars, execVars, IvsrInit, Process, ProcessNoInput, GrowPool,
        GrowThrows, EnqueuePatch, InExecutor, ProcessReturns, ProcessAsync, ProcessAsyncNull,
        AsyncStarts, AsyncStartThrows, AsyncReturns, DeinitEngine, DeinitExecutor, DeinitReturns, WorkerLoop,
        WorkerRuns, WorkerRunsNull, WorkerStarts, WorkerStartThrows, WorkerReturns, GetsRequest, InferFailed,
        InferDone, PutsRequestBack, Notifies, Executor!EnqueueNotifies, Executor!SyncReturns,
        Executor!SyncBlocks, Executor!SyncWakesSpuriously, Executor!Reset, Executor!Stop, Executor!StopNotifies,
        Executor!Join, Executor!TakeTask, Executor!WorkerBlocks, Executor!WorkerWakesSpuriously, Executor!WorkerExits,
        Executor!CallRun, Executor!RunReturns, Executor!CompetitionCallBack
    <3> QED
      BY <1>0, <1>2, <3>1, <3>2, <3>3, <3>4 DEF BatchLink, Sent
  <2> QED
    BY <1>0, <2>1, CallsGoOn DEF InferredLink
<1> QED
  BY <1>1, <1>2

LEMMA InferredStep == SessionInv /\ [Next]_vars => InferredLink'
BY InferredStays, InferredNotAhead, OverIsInferred, WaitIsOver DEF InferredLink

-----------------------------------------------------------------------------
(* The invariant of the session. *)

LEMMA SessionStarts == Init => SessionInv
<1> SUFFICES ASSUME Init
             PROVE  SessionInv
  OBVIOUS
<1>1. EngineP!Init /\ ExecutorP!Init
  BY SameEngine, SameExecutor DEF Init
<1>2. inEngine = {}
  BY <1>1 DEF ExecutorP!Init
<1>3. EngineP!EngineInv /\ ExecutorP!ExecInv
  BY <1>1, Constants, SameCount, EngineP!EngineInit, ExecutorP!ExecInit
<1>4. EngineP!Ahead = {} /\ EngineP!Over = {} /\ EngineP!InEngine = {}
  BY <1>1 DEF EngineP!Init, EngineP!Ahead, EngineP!Over, EngineP!InEngine, EngineP!Absent, EngineP!Out
<1>5. Types /\ BatchLink /\ Sent = {}
  <2>1. Types
    <3>1. frame = 0 /\ patch = 0 /\ pc = "init" /\ inferred = {} /\ faulty = FALSE /\ alive = TRUE
      BY <1>1 DEF Init, EngineP!Init
    <3>2. 0 \in 0 .. MaxFrames /\ 0 \in 0 .. NPatches
      BY SessionAssumption
    <3> QED
      BY <3>1, <3>2 DEF Types, PcValues
  <2>2. Sent = {}
    BY DEF Init, Sent
  <2>3. BatchLink
    BY <1>1 DEF Init, BatchLink, ExecutorP!Init
  <2> QED
    BY <2>1, <2>2, <2>3
<1>6. PoolLink /\ CallerLink /\ CallLink
  BY <1>1, Constants DEF Init, PoolLink, CallerLink, CallLink, EngineP!Init, EngineP!Out
<1>7. WholeLink /\ InferredLink
  BY <1>1, <1>4 DEF Init, WholeLink, InferredLink, ExecutorP!Init
<1> QED
  BY <1>3, <1>5, <1>6, <1>7 DEF SessionInv, Link

LEMMA SessionStep == SessionInv /\ [Next]_vars => SessionInv'
BY ComponentsStep, TypesStep, BatchStep, PoolStep, CallerStep, CallStep, WholeStep, InferredStep DEF SessionInv, Link

LEMMA SessionInvariant == Spec => []SessionInv
BY SessionStarts, SessionStep, PTL DEF Spec

-----------------------------------------------------------------------------

(* The session's variables keep their types: a callback never reports to a  *)
(* call that was not made (ivsr_process, ivsr_process_async).               *)
THEOREM SessionTypes == Spec => []TypeOK
<1>1. SessionInv => TypeOK
  <2> SUFFICES ASSUME SessionInv
               PROVE  TypeOK
    OBVIOUS
  <2>1. Engine!TypeOK
    BY DEF SessionInv, EngineP!EngineInv, EngineP!BaseOK, EngineP!JobsInv, EngineP!JobsGiven, Engine!TypeOK,
           Engine!Ids, EngineP!Ids, Engine!Request, EngineP!Request, Engine!RequestStates, EngineP!RequestStates,
           Engine!Caller, EngineP!Caller
  <2>2. Executor!TypeOK
    BY DEF SessionInv, ExecutorP!ExecInv, ExecutorP!TypeOK, Executor!TypeOK, Executor!Worker, ExecutorP!Worker,
           Executor!ClientAt, ExecutorP!ClientAt
  <2> QED
    BY <2>1, <2>2 DEF SessionInv, Link, Types, CallLink, TypeOK
<1> QED
  BY <1>1, SessionInvariant, PTL

(* The session drives its engine as the engine expects, whatever fails: the *)
(* pool grows without mutex_, and the engine is deleted before the executor, *)
(* only while nobody is in the pool (ivsr_process, ivsr_deinit).            *)
THEOREM SessionKeepsEngine == Spec => EngineSpec
<1>1. Init => Engine!Init
  BY DEF Init
<1>2. SessionInv /\ [Next]_vars => [Engine!Next]_(Engine!vars)
  BY EngineStep, SameEngine
<1> QED
  BY <1>1, <1>2, SessionInvariant, PTL DEF Spec, EngineSpec, Engine!Spec

LEMMA SameExecutorNext == Executor!Next <=> ExecutorP!Next
BY SameExecutor, SameWorker, SameTask, SameCount DEF Executor!Next, ExecutorP!Next, Executor!execVars, ExecutorP!execVars

(* And its executor as the executor expects: wait_all is given the number   *)
(* of tasks enqueued since the last reset, every task is new, and none      *)
(* completes twice (ivsr_process, run_impl's callback).                     *)
THEOREM SessionKeepsExecutor == Spec => ExecutorSpec
<1>1. Init => Executor!Init
  BY DEF Init
<1>2. SessionInv /\ [Next]_vars => [Executor!Next]_(Executor!vars)
  BY ExecutorStep, SameExecutor, SameExecutorNext
<1> QED
  BY <1>1, <1>2, SessionInvariant, PTL DEF Spec, ExecutorSpec, Executor!Spec

\* What a busy request works on is in the engine, held or in flight.
LEMMA BusyJob ==
  ASSUME SessionInv, NEW id \in Busy
  PROVE  request[id].job \in EngineP!InEngine
<1>1. EngineP!PoolPartition /\ id \in EngineP!Ids
  BY SameEngine DEF SessionInv, EngineP!EngineInv, Busy
<1>2. CASE request[id].st = "held"
  <2>1. PICK t \in Workers \cup {App} : caller[t].at = "start" /\ caller[t].id = id
    BY <1>1, <1>2 DEF EngineP!PoolPartition, EngineP!HeldByOne
  <2>2. request[id].job = caller[t].job
    BY <1>1, <2>1, Constants, EngineP!HeldFacts
  <2> QED
    BY <2>1, <2>2 DEF EngineP!InEngine
<1>3. CASE request[id].st \in {"running", "done"}
  BY <1>1, <1>3 DEF EngineP!InEngine
<1> QED
  BY <1>2, <1>3 DEF Busy

(* No request works on the patches of a call that is over: SmartPatch frees *)
(* them when ivsr_process returns, whether it succeeded or not.             *)
THEOREM PatchesOutliveInference == Spec => []NoInferenceIntoFreedPatches
<1>1. SessionInv => NoInferenceIntoFreedPatches
  <2> SUFFICES ASSUME SessionInv, NEW id \in Busy, request[id].job[2] # 0
               PROVE  pc \in {"enqueue", "wait", "terminated"} /\ request[id].job[1] = frame
    BY DEF NoInferenceIntoFreedPatches
  <2>1. request[id].job \in batch
    BY BusyJob, JobFacts
  <2> QED
    BY <2>1, JobFacts DEF SessionInv, Link, BatchLink, Patching
<1> QED
  BY <1>1, SessionInvariant, PTL

(* Nobody is in a deleted engine, and no callback is left for a deleted     *)
(* executor, though ivsr_deinit deletes the engine first.                   *)
THEOREM NobodyUsesDeleted == Spec => []NoUseAfterDelete
<1>1. SessionInv => NoUseAfterDelete
  <2> SUFFICES ASSUME SessionInv, pc \in {"deleted", "gone"}
               PROVE  Engine!Quiescent /\ pending = {}
    BY DEF SessionInv, Link, BatchLink, PoolLink, NoUseAfterDelete, Engine!DeletedIsQuiet
  <2>1. EngineP!InEngine = {} /\ EngineP!Quiescent
    BY Calm DEF SessionInv, Link, CallLink, Patching
  <2> QED
    BY <2>1 DEF EngineP!InEngine, EngineP!Quiescent, Engine!Quiescent, EngineP!Ids, Engine!Ids
<1> QED
  BY <1>1, SessionInvariant, PTL

-----------------------------------------------------------------------------
(* The pool, counted. *)

IdleOnes == {id \in EngineP!Ids : request[id].st = "idle"}

LEMMA IdleCount ==
  ASSUME SessionInv
  PROVE  IsFiniteSet(IdleOnes) /\ Cardinality(IdleOnes) = Len(idleIds) /\ Len(idleIds) \in Nat
<1> DEFINE n == Len(idleIds)
           f == [k \in 1 .. n |-> idleIds[k]]
<1>0. EngineP!IdleIdsExact /\ EngineP!IdleIdsDistinct
  BY DEF SessionInv, EngineP!EngineInv, EngineP!PoolPartition
<1>1. idleIds \in Seq(EngineP!Ids) /\ n \in Nat /\ \A k \in 1 .. n : idleIds[k] \in EngineP!Ids
  BY DEF SessionInv, EngineP!EngineInv, EngineP!BaseOK
<1>2. f \in [1 .. n -> IdleOnes]
  BY <1>0, <1>1 DEF EngineP!IdleIdsExact, IdleOnes
<1>3. \A k, l \in 1 .. n : f[k] = f[l] => k = l
  BY <1>0 DEF EngineP!IdleIdsDistinct
<1>4. \A id \in IdleOnes : \E k \in 1 .. n : f[k] = id
  BY <1>0 DEF EngineP!IdleIdsExact, IdleOnes
<1> HIDE DEF n, f
<1>5. f \in Bijection(1 .. n, IdleOnes)
  BY <1>2, <1>3, <1>4, Fun_IsBij
<1>6. ExistsBijection(1 .. n, IdleOnes)
  BY <1>5 DEF ExistsBijection
<1>7. n \in Nat
  BY <1>1
<1>8. IsFiniteSet(IdleOnes) /\ Cardinality(IdleOnes) = n
  BY <1>6, <1>7, FS_CountingElements, FS_NatBijection
<1> QED
  BY <1>7, <1>8 DEF n

(* Between calls, with nothing owed to the application, no request has been *)
(* mislaid: each is queued or was lost to a fault, after any number of      *)
(* calls and whatever their outcome (put_idle_request before the callback). *)
THEOREM NoRequestMislaid == Spec => []PoolRestored
<1>1. SessionInv => PoolRestored
  <2> SUFFICES ASSUME SessionInv, pc = "app", accepted \subseteq delivered
               PROVE  Len(idleIds) + Cardinality(Lost) = size
    BY DEF PoolRestored
  <2>1. EngineP!Quiescent
    BY Calm DEF Patching
  <2>2. /\ EngineP!PoolPartition /\ size \in Nat /\ size <= MaxRequests
        /\ \A id \in EngineP!Ids : request[id].st \in EngineP!RequestStates
    BY Constants DEF SessionInv, EngineP!EngineInv, EngineP!BaseOK, EngineP!Request
  <2>3. \A id \in EngineP!Ids : id < size <=> request[id].st \in {"idle", "lost"}
    <3>1. \A id \in EngineP!Ids : request[id].st \notin {"held", "running", "done"}
      BY <2>1, <2>2 DEF EngineP!Quiescent, EngineP!PoolPartition, EngineP!HeldByOne
    <3>2. \A id \in EngineP!Ids : request[id].st = "absent" <=> ~(id < size)
      BY <2>2, Constants DEF EngineP!PoolPartition, EngineP!Ids
    <3> QED
      BY <2>2, <3>1, <3>2 DEF EngineP!RequestStates
  <2>4. IdleOnes \cup Lost = 0 .. size - 1
    <3>1. \A id : id \in EngineP!Ids /\ id < size <=> id \in 0 .. size - 1
      BY <2>2, Constants DEF EngineP!Ids
    <3>2. Engine!Ids = EngineP!Ids
      BY SameEngine
    <3>3. \A id : id \in IdleOnes \cup Lost <=> id \in 0 .. size - 1
      BY <2>3, <3>1, <3>2 DEF IdleOnes, Lost
    <3> QED
      BY <3>3
  <2>5. IdleOnes \cap Lost = {}
    BY DEF IdleOnes, Lost
  <2>6. IsFiniteSet(0 .. size - 1) /\ Cardinality(0 .. size - 1) = size
    BY <2>2, FS_Interval
  <2>7. IsFiniteSet(Lost) /\ Cardinality(Lost) \in Nat
    BY <2>4, <2>6, FS_Subset, FS_CardinalityType
  <2>8. Cardinality(IdleOnes \cup Lost) = Cardinality(IdleOnes) + Cardinality(Lost) - Cardinality(IdleOnes \cap Lost)
    BY <2>7, IdleCount, FS_Union
  <2>9. Cardinality(IdleOnes \cap Lost) = 0
    BY <2>5, FS_EmptySet
  <2>10. Cardinality(IdleOnes \cup Lost) = size
    BY <2>4, <2>6
  <2>11. Cardinality(IdleOnes) = Len(idleIds) /\ Len(idleIds) \in Nat
    BY IdleCount
  <2> QED
    BY <2>2, <2>7, <2>8, <2>9, <2>10, <2>11
<1> QED
  BY <1>1, SessionInvariant, PTL

\* In the patch solution every job in the engine is a patch of the call.
LEMMA PatchesOnly ==
  ASSUME SessionInv, NPatches > 1, NEW j \in EngineP!InEngine
  PROVE  j \in Sent /\ pc \in Patching
<1>1. j[2] # 0
  BY SessionAssumption DEF SessionInv, Link, WholeLink
<1> QED
  BY <1>1, JobFacts DEF SessionInv, Link, BatchLink

(* With no request lost, and a worker and all requests busy, there would be *)
(* one more patch in the engine than the frame has.                         *)
LEMMA PoolSuffices ==
  ASSUME SessionInv, pc # "terminated", NPatches > 1, Lost = {},
         NEW w \in Workers, caller[w].at = "get"
  PROVE  idleIds # <<>>
<1> SUFFICES ASSUME idleIds = <<>>
             PROVE  FALSE
  OBVIOUS
<1>0. /\ EngineP!PoolPartition /\ EngineP!JobInOnePlace
      /\ size \in Nat /\ size <= MaxRequests /\ size # MaxRequests + 1
      /\ \A id \in EngineP!Ids : request[id].st \in EngineP!RequestStates
      /\ App \notin Workers
  BY Constants, SessionAssumption
  DEF SessionInv, EngineP!EngineInv, EngineP!BaseOK, EngineP!Request, EngineP!JobsInv
<1>1. \A id \in 0 .. size - 1 : id \in EngineP!Ids /\ id \in Busy
  <2> TAKE id \in 0 .. size - 1
  <2>1. id \in EngineP!Ids /\ ~(id >= size)
    BY <1>0, Constants DEF EngineP!Ids
  <2>2. request[id].st # "absent" /\ request[id].st # "lost"
    BY <1>0, <2>1, SameEngine DEF EngineP!PoolPartition, Lost
  <2>3. request[id].st # "idle"
    BY <1>0, <2>1 DEF EngineP!PoolPartition, EngineP!IdleIdsExact
  <2> QED
    BY <1>0, <2>1, <2>2, <2>3, SameEngine DEF EngineP!RequestStates, Busy
<1> DEFINE Holds(id, t) == caller[t].at = "start" /\ caller[t].id = id /\ caller[t].job = request[id].job
<1>2. \A id \in 0 .. size - 1 :
        \/ request[id].st \in {"running", "done"}
        \/ \E t \in Workers \cup {App} : Holds(id, t)
  <2> SUFFICES ASSUME NEW id \in 0 .. size - 1, request[id].st = "held"
               PROVE  \E t \in Workers \cup {App} : Holds(id, t)
    BY <1>1 DEF Busy
  <2>1. PICK t \in Workers \cup {App} : caller[t].at = "start" /\ caller[t].id = id
    BY <1>0, <1>1 DEF EngineP!PoolPartition, EngineP!HeldByOne
  <2>2. caller[t].job = request[id].job
    BY <1>0, <2>1, Constants, EngineP!HeldFacts
  <2> QED
    BY <2>1, <2>2
<1>3. \A i, k \in 0 .. size - 1 : request[i].job = request[k].job => i = k
  BY <1>0, <1>1, <1>2 DEF EngineP!JobInOnePlace
<1>4. \A i \in 0 .. size - 1 : request[i].job # caller[w].job
  BY <1>0, <1>1, <1>2 DEF EngineP!JobInOnePlace
<1> DEFINE f == [i \in 0 .. size |-> IF i = size THEN caller[w].job ELSE request[i].job]
<1>5. f \in [0 .. size -> Sent]
  <2>1. caller[w].job \in Sent
    BY PatchesOnly DEF EngineP!InEngine
  <2>2. \A i \in 0 .. size - 1 : request[i].job \in Sent
    BY <1>1, BusyJob, PatchesOnly
  <2>3. \A i \in 0 .. size : i = size \/ i \in 0 .. size - 1
    BY <1>0
  <2> QED
    BY <2>1, <2>2, <2>3
<1>6. \A i, k \in 0 .. size : f[i] = f[k] => i = k
  <2>1. \A i \in 0 .. size : i = size \/ i \in 0 .. size - 1
    BY <1>0
  <2> QED
    BY <1>3, <1>4, <2>1
<1>7. patch <= size /\ patch \in Nat
  <2>1. pc \in {"enqueue", "wait"}
    BY PatchesOnly DEF EngineP!InEngine, Patching
  <2> QED
    BY <1>0, <2>1, SessionAssumption DEF SessionInv, Link, Types, PoolLink
<1>8. /\ IsFiniteSet(0 .. size) /\ Cardinality(0 .. size) = size + 1
      /\ IsFiniteSet(Sent) /\ Cardinality(Sent) = patch
  <2>1. IsFiniteSet(0 .. size) /\ Cardinality(0 .. size) = size + 1
    BY <1>0, FS_Interval
  <2>2. Types
    BY DEF SessionInv, Link
  <2> QED
    BY <2>1, <2>2, SentCount
<1> HIDE DEF f
<1>9. Cardinality(Sent) < Cardinality(0 .. size)
  BY <1>0, <1>7, <1>8
<1> QED
  BY <1>5, <1>6, <1>8, <1>9, FS_PigeonHole

LEMMA NeverWaitsStep ==
  ASSUME SessionInv, PatchNeverWaits, [Next]_vars
  PROVE  PatchNeverWaits'
<1> SUFFICES ASSUME NPatches > 1, Lost' = {}, NEW w \in Workers, caller'[w].at = "asleep"
             PROVE  FALSE
  BY DEF PatchNeverWaits
<1>1. [EngineP!Next]_(EngineP!vars) /\ EngineP!BaseOK /\ EngineP!PoolPartition
  BY EngineStep DEF SessionInv, EngineP!EngineInv
<1>2. Lost = {}
  <2> SUFFICES ASSUME NEW id \in EngineP!Ids, request[id].st = "lost"
               PROVE  FALSE
    BY SameEngine DEF Lost
  <2>1. request'[id].st = "lost"
    BY <1>1, Constants, EngineP!LostForGood
  <2> QED
    BY <2>1, SameEngine DEF Lost, Engine!Ids
<1>3. caller[w].at # "asleep"
  BY <1>2 DEF PatchNeverWaits
<1>4. EngineP!WaitForIdle(w)
  BY <1>1, <1>3, Constants, EngineP!SleepsOnlyWhenEmpty
<1>5. pc # "terminated"
  <2>1. caller' # caller
    BY <1>3
  <2> QED
    BY <2>1, Cases DEF vars, engineVars
<1> QED
  BY <1>2, <1>4, <1>5, PoolSuffices DEF EngineP!WaitForIdle

(* A worker with a patch never waits for a request: as long as none is      *)
(* lost, the pool ivsr_process made has one for every patch of the frame,   *)
(* whatever the number of patches, workers and earlier calls.               *)
THEOREM EveryPatchFindsARequest == Spec => []PatchNeverWaits
<1>1. Init => PatchNeverWaits
  <2> SUFFICES ASSUME Init, NEW w \in Workers
               PROVE  caller[w].at # "asleep"
    BY DEF PatchNeverWaits
  <2> QED
    BY SameEngine DEF Init, EngineP!Init, EngineP!Out
<1>2. SessionInv /\ PatchNeverWaits /\ [Next]_vars => PatchNeverWaits'
  BY NeverWaitsStep
<1> QED
  BY <1>1, <1>2, SessionInvariant, PTL DEF Spec

-----------------------------------------------------------------------------
(* The session implements the abstract service. *)

\* The service's view of the session: the part a job infers, the parts
\* inferred, and what became of each call.
PartOf(j)   == <<j[1], IF j[2] = 0 THEN 1 ELSE j[2]>>
Done        == {PartOf(j) : j \in inferred}
StatusOf(f) == IF f \in delivered THEN "delivered"
               ELSE IF f \in failed THEN "failed"
               ELSE IF f <= frame THEN "open" ELSE "new"
Status      == [f \in Frames |-> StatusOf(f)]

LEMMA ServiceView ==
  /\ Service!Init <=> Status = [f \in Frames |-> "new"] /\ Done = {} /\ alive = TRUE
  /\ Service!vars' = Service!vars <=> UNCHANGED <<Status, Done, alive>>
  /\ Service!Close <=> /\ alive /\ \A f \in Frames : Status[f] # "open"
                       /\ alive' = FALSE
                       /\ UNCHANGED <<Status, Done>>
  /\ (Service!Close \/ \E f \in Frames : Service!Submit(f) \/ Service!Refuse(f) \/ Service!Deliver(f) \/ Service!Fail(f)
                                          \/ \E q \in 1 .. NPatches : Service!Infer(f, q))
     => Service!Next
BY DEF Service!Init, Service!vars, Service!Close, Service!Next, Service!Frames, Service!Parts,
       Status, StatusOf, Done, PartOf, Frames

LEMMA ServiceSteps ==
  ASSUME NEW f
  PROVE  /\ Service!Submit(f) <=> /\ alive /\ Status[f] = "new" /\ \A e \in 1 .. f - 1 : Status[e] # "new"
                                  /\ Status' = [Status EXCEPT ![f] = "open"]
                                  /\ UNCHANGED <<Done, alive>>
         /\ Service!Refuse(f) <=> /\ alive /\ Status[f] = "new" /\ \A e \in 1 .. f - 1 : Status[e] # "new"
                                  /\ Status' = [Status EXCEPT ![f] = "failed"]
                                  /\ UNCHANGED <<Done, alive>>
         /\ Service!Deliver(f) <=> /\ Status[f] = "open" /\ {f} \X (1 .. NPatches) \subseteq Done
                                   /\ Status' = [Status EXCEPT ![f] = "delivered"]
                                   /\ UNCHANGED <<Done, alive>>
         /\ Service!Fail(f) <=> /\ Status[f] = "open" /\ ({f} \X (1 .. NPatches)) \cap Done = {}
                                /\ Status' = [Status EXCEPT ![f] = "failed"]
                                /\ UNCHANGED <<Done, alive>>
         /\ \A q : Service!Infer(f, q) <=> /\ Status[f] = "open" /\ <<f, q>> \notin Done
                                          /\ Done' = Done \cup {<<f, q>>}
                                          /\ UNCHANGED <<Status, alive>>
BY DEF Service!Submit, Service!Refuse, Service!Deliver, Service!Fail, Service!Infer, Service!Parts,
       Status, StatusOf, Done, PartOf, Frames

\* One call changes its status.
LEMMA StatusMoves ==
  ASSUME NEW f \in Frames, NEW s, StatusOf(f)' = s,
         \A e \in Frames \ {f} : StatusOf(e)' = StatusOf(e)
  PROVE  Status' = [Status EXCEPT ![f] = s]
<1>1. Status' = [e \in Frames |-> StatusOf(e)']
  BY DEF Status
<1> QED
  BY <1>1 DEF Status

LEMMA StatusStays ==
  /\ UNCHANGED <<frame, delivered, failed>> => Status' = Status
  /\ inferred' = inferred => Done' = Done
BY DEF Status, StatusOf, Done, PartOf

LEMMA StatusFacts ==
  /\ \A f \in Frames : Status[f] = StatusOf(f)
  /\ SessionInv => frame \in Nat /\ frame <= MaxFrames /\ \A f : f \in 1 .. frame => f \in Frames
<1>1. SessionInv => frame \in Nat /\ frame <= MaxFrames
  BY Constants DEF SessionInv, Link, Types
<1> QED
  BY <1>1, Constants DEF Status, Frames

\* The next call: not yet made, and all before it have been.
LEMMA NextCall ==
  ASSUME SessionInv, NEW f \in Frames, f = frame + 1
  PROVE  /\ f \notin delivered \cup failed \cup accepted
         /\ Status[f] = "new" /\ \A e \in 1 .. f - 1 : Status[e] # "new"
<1>0. frame \in Nat /\ accepted \cup failed \cup delivered \subseteq 1 .. frame
  BY StatusFacts DEF SessionInv, Link, CallLink
<1>1. f \notin delivered \cup failed \cup accepted
  BY <1>0
<1>2. Status[f] = "new"
  BY <1>0, <1>1, StatusFacts DEF StatusOf
<1>3. \A e \in 1 .. f - 1 : e \in Frames /\ e <= frame
  BY <1>0, Constants DEF Frames
<1> QED
  BY <1>1, <1>2, <1>3, StatusFacts DEF StatusOf

LEMMA Submits ==
  ASSUME SessionInv, NEW f \in Frames, f = frame + 1, frame' = frame + 1, alive,
         UNCHANGED <<delivered, inferred, alive>>
  PROVE  /\ failed' = failed => Service!Submit(f)
         /\ failed' = failed \cup {f} => Service!Refuse(f)
<1>0. frame \in Nat /\ Done' = Done
  BY StatusFacts, StatusStays
<1>1. ASSUME failed' = failed \/ failed' = failed \cup {f}
      PROVE  \A e \in Frames \ {f} : StatusOf(e)' = StatusOf(e)
  <2> TAKE e \in Frames \ {f}
  <2>1. e <= frame' <=> e <= frame
    BY <1>0, Constants DEF Frames
  <2>2. e \in failed' <=> e \in failed
    BY <1>1
  <2> QED
    BY <2>1, <2>2 DEF StatusOf
<1>2. ASSUME failed' = failed
      PROVE  Service!Submit(f)
  <2>1. StatusOf(f)' = "open"
    BY <1>0, <1>2, NextCall DEF StatusOf
  <2> QED
    BY <1>0, <1>1, <1>2, <2>1, NextCall, StatusMoves, ServiceSteps
<1>3. ASSUME failed' = failed \cup {f}
      PROVE  Service!Refuse(f)
  <2>1. StatusOf(f)' = "failed"
    BY <1>0, <1>3, NextCall DEF StatusOf
  <2> QED
    BY <1>0, <1>1, <1>3, <2>1, NextCall, StatusMoves, ServiceSteps
<1> QED
  BY <1>2, <1>3

(* A call that ends, with or without an error, was open until then. *)
LEMMA Ends ==
  ASSUME SessionInv, NEW f \in Frames, f <= frame, f \notin delivered \cup failed,
         UNCHANGED <<frame, inferred, alive>>
  PROVE  /\ /\ delivered' = delivered \cup {f} /\ failed' = failed
            /\ {f} \X (1 .. NPatches) \subseteq Done
            => Service!Deliver(f)
         /\ /\ failed' = failed \cup {f} /\ delivered' = delivered
            /\ ({f} \X (1 .. NPatches)) \cap Done = {}
            => Service!Fail(f)
<1>0. Status[f] = "open" /\ Done' = Done
  BY StatusFacts, StatusStays DEF StatusOf
<1>1. ASSUME delivered' = delivered \cup {f}, failed' = failed
      PROVE  Status' = [Status EXCEPT ![f] = "delivered"]
  <2>1. StatusOf(f)' = "delivered" /\ \A e \in Frames \ {f} : StatusOf(e)' = StatusOf(e)
    BY <1>1 DEF StatusOf
  <2> QED
    BY <2>1, StatusMoves
<1>2. ASSUME failed' = failed \cup {f}, delivered' = delivered
      PROVE  Status' = [Status EXCEPT ![f] = "failed"]
  <2>1. StatusOf(f)' = "failed" /\ \A e \in Frames \ {f} : StatusOf(e)' = StatusOf(e)
    BY <1>2 DEF StatusOf
  <2> QED
    BY <2>1, StatusMoves
<1> QED
  BY <1>0, <1>1, <1>2, ServiceSteps

LEMMA DoneFacts ==
  ASSUME SessionInv
  PROVE  /\ inferred \subseteq Jobs
         /\ \A x : x \in Done <=> \E j \in inferred : x = PartOf(j)
         /\ \A j \in Jobs : /\ j[1] \in Frames /\ j[2] \in 0 .. NPatches /\ j = <<j[1], j[2]>>
                            /\ PartOf(j)[1] = j[1] /\ PartOf(j)[2] \in 1 .. NPatches
                            /\ PartOf(j) = <<j[1], PartOf(j)[2]>>
                            /\ j[2] # 0 => PartOf(j) = j
                            /\ j[2] = 0 => PartOf(j) = <<j[1], 1>>
BY SessionAssumption DEF SessionInv, Link, Types, Done, PartOf, Jobs

\* Which parts are done of a call that is neither delivered nor accepted.
LEMMA NothingDone ==
  ASSUME SessionInv, NEW f, f \notin delivered \cup accepted, f = frame, pc \notin Patching,
         <<f, 0>> \notin inferred
  PROVE  ({f} \X (1 .. NPatches)) \cap Done = {}
<1> SUFFICES ASSUME NEW j \in inferred, PartOf(j) \in {f} \X (1 .. NPatches)
             PROVE  FALSE
  BY DoneFacts
<1>1. j \in Jobs /\ j[1] = f /\ j = <<j[1], j[2]>>
  BY DoneFacts
<1>2. CASE j[2] # 0
  BY <1>1, <1>2 DEF SessionInv, Link, InferredLink
<1>3. CASE j[2] = 0
  BY <1>1, <1>3
<1> QED
  BY <1>2, <1>3

LEMMA InferIsService ==
  ASSUME SessionInv, [Next]_vars, NEW id \in EngineP!Ids, InferDone(id)
  PROVE  Service!Next
<1> DEFINE j == request[id].job
<1>1. /\ j \in EngineP!Ahead /\ inferred' = inferred \cup {j}
      /\ UNCHANGED <<frame, delivered, failed, alive>>
  BY InferenceEnds DEF InferDone, Engine!InferDone
<1>2. PICK k \in EngineP!Ahead : k = j
  BY <1>1
<1> HIDE DEF j
<1>3. /\ k \in Jobs /\ k \notin inferred
      /\ k[2] # 0 => pc \in Patching /\ k \in Sent
      /\ k[2] = 0 => NPatches = 1 /\ (k[1] \in accepted \/ (pc = "proc" /\ k[1] = frame))
  BY <1>2, JobOfInference
<1>4. k[1] \notin delivered \cup failed /\ k[1] <= frame /\ k[1] \in Frames
  <2>0. CallLink /\ WholeLink /\ Types /\ k[1] \in Frames /\ k \in EngineP!InEngine
    BY <1>3, DoneFacts, JobFacts DEF SessionInv, Link
  <2>1. CASE k[2] # 0
    BY <1>3, <2>0, <2>1, SentFacts, StatusFacts DEF CallLink, WholeLink, BatchLink, SessionInv, Link, Patching
  <2>2. CASE k[2] = 0
    BY <1>3, <2>0, <2>2, StatusFacts DEF CallLink, WholeLink
  <2> QED
    BY <2>1, <2>2
<1>5. PartOf(k) \notin Done
  <2> SUFFICES ASSUME NEW i \in inferred, PartOf(i) = PartOf(k)
               PROVE  FALSE
    BY DoneFacts
  <2>1. i \in Jobs /\ i[1] = k[1] /\ i # k
    BY <1>3, DoneFacts
  <2>2. /\ i[2] # 0 => pc \in Patching /\ i \in Sent
        /\ i[2] = 0 => i[1] \in accepted \/ (pc = "proc" /\ i[1] = frame)
    BY <1>4, <2>1 DEF SessionInv, Link, InferredLink
  <2>3. \A x \in Sent : x[1] = frame
    BY SentFacts
  <2>4. pc \in Patching => pc # "proc"
    BY DEF Patching
  <2>5. pc \in Patching => frame \notin accepted
    BY DEF SessionInv, Link, CallLink, Patching
  <2>6. i[2] # 0 <=> k[2] # 0
    BY <1>3, <2>1, <2>2, <2>3, <2>4, <2>5
  <2> QED
    BY <1>3, <2>1, <2>6, DoneFacts
<1>6. Done' = Done \cup {PartOf(k)} /\ Status' = Status
  <2>1. inferred' = inferred \cup {k}
    BY <1>1, <1>2
  <2> QED
    BY <1>1, <2>1, StatusStays DEF Done, PartOf
<1> DEFINE f == k[1]
           q == PartOf(k)[2]
<1>7. f \in Frames /\ q \in 1 .. NPatches /\ PartOf(k) = <<f, q>> /\ Status[f] = "open"
  BY <1>3, <1>4, DoneFacts, StatusFacts DEF StatusOf
<1> HIDE DEF f, q
<1>8. Service!Infer(f, q)
  BY <1>1, <1>5, <1>6, <1>7, ServiceSteps
<1> QED
  BY <1>7, <1>8, ServiceView

LEMMA DeliverIsService ==
  ASSUME SessionInv, NEW j \in pending, Notifies(j)
  PROVE  Service!Next \/ UNCHANGED Service!vars
<1>1. UNCHANGED <<frame, failed, inferred, alive>>
  BY DEF Notifies, Engine!CallBack
<1>2. CASE j[2] # 0
  BY <1>1, <1>2, StatusStays, ServiceView DEF Notifies
<1>3. CASE j[2] = 0
  <2>1. /\ j \in inferred /\ j \in Jobs /\ j \in EngineP!InEngine
        /\ delivered' = delivered \cup {j[1]}
    BY <1>3, JobReported, JobFacts DEF Notifies, SessionInv, Link, InferredLink
  <2>2. NPatches = 1 /\ j[1] \notin delivered /\ (j[1] \in accepted \/ (pc = "proc" /\ j[1] = frame))
    BY <1>3, <2>1 DEF SessionInv, Link, WholeLink
  <2>3. PICK f \in Frames : f = j[1]
    BY <2>1, DoneFacts
  <2>4. f <= frame /\ f \notin delivered \cup failed
    BY <2>2, <2>3, StatusFacts DEF SessionInv, Link, CallLink
  <2>5. {f} \X (1 .. NPatches) \subseteq Done
    <3>1. PartOf(j) = <<f, 1>> /\ PartOf(j) \in Done
      BY <1>3, <2>1, <2>3, DoneFacts
    <3> QED
      BY <2>2, <3>1
  <2>6. Service!Deliver(f)
    BY <1>1, <2>1, <2>3, <2>4, <2>5, Ends
  <2> QED
    BY <2>6, ServiceView
<1> QED
  BY <1>2, <1>3

LEMMA ServiceStep == SessionInv /\ [Next]_vars => [Service!Next]_(Service!vars)
<1> SUFFICES ASSUME SessionInv, [Next]_vars
             PROVE  Service!Next \/ UNCHANGED Service!vars
  OBVIOUS
<1>0. frame \in Nat /\ CallLink /\ PoolLink /\ BatchLink /\ InferredLink
  BY StatusFacts DEF SessionInv, Link
<1>1. ASSUME UNCHANGED <<frame, delivered, failed, inferred, alive>>
      PROVE  UNCHANGED Service!vars
  BY <1>1, StatusStays, ServiceView
<1>2. CASE Background
  <2>1. UNCHANGED alive
    BY <1>2
    DEF Background, InExecutor, AsyncStarts, DeinitExecutor, WorkerLoop, WorkerRuns, WorkerRunsNull, WorkerStarts,
        WorkerReturns, GetsRequest, InferFailed, PutsRequestBack, vars, engineVars, Engine!StartAsync, Engine!Run,
        Engine!GetIdleRequest, Engine!WaitForIdle, Engine!SpuriousWakeUp, Engine!InferFailed, Engine!PutIdleRequest
  <2> QED
    BY <1>1, <1>2, <2>1, BackgroundFacts
<1>3. CASE \/ IvsrInit \/ GrowPool \/ EnqueuePatch \/ WaitForPatches \/ AsyncReturns \/ DeinitReturns
           \/ \E w \in Workers : WorkerStartThrows(w)
  BY <1>1, <1>3 DEF IvsrInit, GrowPool, EnqueuePatch, WaitForPatches, AsyncReturns, DeinitReturns, WorkerStartThrows,
                    Engine!CreateInferRequests, Engine!StartThrows, engineVars
<1>4. CASE Process \/ ProcessNoInput \/ ProcessAsync \/ ProcessAsyncNull
  <2>1. /\ pc = "app" /\ frame < MaxFrames /\ frame' = frame + 1
        /\ UNCHANGED <<delivered, inferred, alive>>
        /\ failed' = failed \/ failed' = failed \cup {frame + 1}
    BY <1>4 DEF Process, ProcessNoInput, ProcessAsync, ProcessAsyncNull, Engine!Run, engineVars
  <2>2. PICK f \in Frames : f = frame + 1
    BY <1>0, <2>1, Constants DEF Frames
  <2>3. alive
    BY <1>0, <2>1 DEF PoolLink
  <2>4. Service!Submit(f) \/ Service!Refuse(f)
    BY <2>1, <2>2, <2>3, Submits
  <2> QED
    BY <2>4, ServiceView
<1>5. CASE GrowThrows \/ AsyncStartThrows
  <2>1. /\ failed' = failed \cup {frame} /\ UNCHANGED <<frame, delivered, inferred>>
        /\ pc \in {"grow", "proc"} /\ frame \notin delivered \cup accepted \cup failed /\ frame >= 1
        /\ <<frame, 0>> \notin inferred
    <3>1. CASE GrowThrows
      BY <1>0, <3>1 DEF GrowThrows, CallLink, InferredLink
    <3>2. CASE AsyncStartThrows
      <4>1. <<frame, 0>> \in EngineP!Ahead /\ <<frame, 0>>[1] = frame /\ <<frame, 0>>[2] = 0
        BY <3>2, AsyncLost
      <4>2. <<frame, 0>> \notin inferred /\ frame \notin delivered
        BY <4>1, JobOfInference, JobFacts DEF SessionInv, Link, WholeLink
      <4> QED
        BY <1>0, <3>2, <4>2 DEF AsyncStartThrows, CallLink
    <3> QED
      BY <1>5, <3>1, <3>2
  <2>2. alive' = alive
    BY <1>5 DEF GrowThrows, AsyncStartThrows, Engine!CreateInferRequests, Engine!StartThrows
  <2>3. PICK f \in Frames : f = frame
    BY <1>0, <2>1, StatusFacts
  <2>4. ({f} \X (1 .. NPatches)) \cap Done = {}
    BY <2>1, <2>3, NothingDone DEF Patching
  <2>5. Service!Fail(f)
    BY <1>0, <2>1, <2>2, <2>3, <2>4, Ends
  <2> QED
    BY <2>5, ServiceView
<1>6. CASE ProcessReturns
  <2>1. /\ pc = "wait" /\ client = "out" /\ delivered' = delivered \cup {frame}
        /\ UNCHANGED <<frame, failed, inferred, alive>>
    BY <1>6 DEF ProcessReturns, engineVars
  <2>2. PICK f \in Frames : f = frame
    BY <1>0, <2>1, StatusFacts DEF CallLink
  <2>3. f \notin delivered \cup failed
    BY <1>0, <2>1, <2>2 DEF CallLink
  <2>4. {f} \X (1 .. NPatches) \subseteq Done
    <3> SUFFICES ASSUME NEW p \in 1 .. NPatches
                 PROVE  <<f, p>> \in Done
      OBVIOUS
    <3>1. <<f, p>> \in Sent /\ p # 0
      BY <1>0, <2>1, <2>2, SessionAssumption DEF BatchLink, Sent
    <3>2. <<f, p>> \in inferred
      BY <1>0, <2>1, <3>1 DEF InferredLink
    <3>3. PartOf(<<f, p>>) = <<f, p>>
      BY <3>1 DEF PartOf
    <3> QED
      BY <3>2, <3>3 DEF Done
  <2>5. Service!Deliver(f)
    BY <1>0, <2>1, <2>2, <2>3, <2>4, Ends
  <2> QED
    BY <2>5, ServiceView
<1>7. CASE accepted \subseteq delivered /\ DeinitEngine
  <2>1. pc = "app" /\ alive /\ alive' = FALSE /\ UNCHANGED <<frame, delivered, failed, inferred>>
    BY <1>7 DEF DeinitEngine, Engine!Destroy
  <2>2. ASSUME NEW f \in Frames
        PROVE  Status[f] # "open"
    <3>1. f <= frame => f \in delivered \cup failed
      BY <1>0, <1>7, <2>1, Constants DEF CallLink, Frames
    <3> QED
      BY <3>1, StatusFacts DEF StatusOf
  <2>3. Service!Close
    BY <2>1, <2>2, StatusStays, ServiceView
  <2> QED
    BY <2>3, ServiceView
<1>8. ASSUME NEW id \in EngineP!Ids, InferDone(id)
      PROVE  Service!Next
  BY <1>8, InferIsService
<1>9. ASSUME NEW j \in pending, Notifies(j)
      PROVE  Service!Next \/ UNCHANGED Service!vars
  BY <1>9, DeliverIsService
<1> QED
  BY <1>2, <1>3, <1>4, <1>5, <1>6, <1>7, <1>8, <1>9, Cases DEF Background, Foreground

(* The session implements the service the API promises, for any number of   *)
(* workers, requests, patches and calls, and whatever fails: a frame's      *)
(* callback comes once and only after all of its patches are inferred,      *)
(* nothing is inferred for a call that failed, and ivsr_deinit finds no     *)
(* frame open (ivsr_process, ivsr_process_async, ivsr_deinit).              *)
THEOREM SessionImplementsService == Spec => ServiceSpec
<1>1. Init => Service!Init
  <2> SUFFICES ASSUME Init
               PROVE  Status = [f \in Frames |-> "new"] /\ Done = {} /\ alive = TRUE
    BY ServiceView
  <2>1. alive = TRUE /\ frame = 0 /\ delivered = {} /\ failed = {} /\ inferred = {}
    BY SameEngine DEF Init, EngineP!Init
  <2> QED
    BY <2>1, Constants DEF Status, StatusOf, Done, Frames
<1>2. SessionInv /\ [Next]_vars => [Service!Next]_(Service!vars)
  BY ServiceStep
<1> QED
  BY <1>1, <1>2, SessionInvariant, PTL DEF Spec, ServiceSpec, Service!Spec
=============================================================================
