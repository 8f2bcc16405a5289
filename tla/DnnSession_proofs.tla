------------------------- MODULE DnnSession_proofs -------------------------
(***************************************************************************)
(* Proofs about the backend on the engine of its session, for any number   *)
(* of requests, every kind of model and any fault.  Each step is one of    *)
(* DnnIvsr or changes nothing of it, so what is proved there holds here;   *)
(* and the engine's own invariant is kept, because the backend gives it no *)
(* task twice.  What has to be found is how the two pools of requests are  *)
(* related: an infer request in use has a request item of the backend that *)
(* is in use for the same task, and no more infer requests are lost than   *)
(* request items.                                                          *)
(***************************************************************************)
EXTENDS DnnSession, DnnIvsr_proofs, FiniteSetTheorems

EngineP == INSTANCE OvEngine_proofs
  WITH Callers <- {FilterThread}, Jobs <- Frames, NoJob <- 0, MaxRequests <- NReq

LEMMA PoolConstants ==
  /\ NReq \in Nat \ {0} /\ 0 \notin Frames
  /\ IsFiniteSet(Requests) /\ Cardinality(Requests) = NReq
<1>1. NReq \in Nat /\ (NReq = 0 <=> Requests = {})
  BY DnnAssumption, FS_CardinalityType, FS_EmptySet DEF NReq
<1> QED
  BY <1>1, DnnAssumption DEF NReq, Frames

-----------------------------------------------------------------------------
(* EngineP is the engine of the session, with the lemmas about it. *)

LEMMA SameEngine ==
  /\ Engine!InEngine = EngineP!InEngine /\ Engine!Ids = EngineP!Ids
  /\ Engine!Init <=> EngineP!Init
  /\ Engine!Next <=> EngineP!Next
  /\ engineVars = EngineP!vars
  /\ Engine!Destroy <=> EngineP!Destroy
<1>1. Engine!InEngine = EngineP!InEngine /\ Engine!Ids = EngineP!Ids
  BY DEF Engine!InEngine, EngineP!InEngine, Engine!Ids, EngineP!Ids
<1>2. Engine!Init <=> EngineP!Init
  BY DEF Engine!Init, EngineP!Init, Engine!Ids, EngineP!Ids, Engine!Absent, EngineP!Absent, Engine!Out, EngineP!Out
<1>3. Engine!Next <=> EngineP!Next
  BY DEF Engine!Next, EngineP!Next, Engine!Ids, EngineP!Ids, Engine!InEngine, EngineP!InEngine,
         Engine!Idle, EngineP!Idle, Engine!Out, EngineP!Out, Engine!Quiescent, EngineP!Quiescent,
         Engine!CreateInferRequests, EngineP!CreateInferRequests, Engine!Run, EngineP!Run,
         Engine!GetIdleRequest, EngineP!GetIdleRequest, Engine!WaitForIdle, EngineP!WaitForIdle,
         Engine!SpuriousWakeUp, EngineP!SpuriousWakeUp, Engine!StartAsync, EngineP!StartAsync,
         Engine!StartThrows, EngineP!StartThrows, Engine!InferDone, EngineP!InferDone,
         Engine!InferFailed, EngineP!InferFailed, Engine!PutIdleRequest, EngineP!PutIdleRequest,
         Engine!NotifyOne, EngineP!NotifyOne, Engine!CallBack, EngineP!CallBack, Engine!Destroy, EngineP!Destroy
<1>4. engineVars = EngineP!vars
  BY DEF EngineP!vars, engineVars
<1>5. Engine!Destroy <=> EngineP!Destroy
  BY DEF Engine!Destroy, EngineP!Destroy
<1> QED
  BY <1>1, <1>2, <1>3, <1>4, <1>5

LEMMA SameSteps ==
  /\ \A n : Engine!CreateInferRequests(n) <=> EngineP!CreateInferRequests(n)
  /\ \A t, j : Engine!Run(t, j) <=> EngineP!Run(t, j)
  /\ \A t : Engine!GetIdleRequest(t) <=> EngineP!GetIdleRequest(t)
  /\ \A t : Engine!WaitForIdle(t) <=> EngineP!WaitForIdle(t)
  /\ \A t : Engine!SpuriousWakeUp(t) <=> EngineP!SpuriousWakeUp(t)
  /\ \A t : Engine!StartAsync(t) <=> EngineP!StartAsync(t)
  /\ \A t : Engine!StartThrows(t) <=> EngineP!StartThrows(t)
  /\ \A i : Engine!InferDone(i) <=> EngineP!InferDone(i)
  /\ \A i : Engine!InferFailed(i) <=> EngineP!InferFailed(i)
  /\ \A i : Engine!PutIdleRequest(i) <=> EngineP!PutIdleRequest(i)
  /\ \A j : Engine!CallBack(j) <=> EngineP!CallBack(j)
<1>1. \A n : Engine!CreateInferRequests(n) <=> EngineP!CreateInferRequests(n)
  BY DEF Engine!CreateInferRequests, EngineP!CreateInferRequests, Engine!Ids, EngineP!Ids, Engine!Idle, EngineP!Idle
<1>2. /\ \A t, j : Engine!Run(t, j) <=> EngineP!Run(t, j)
      /\ \A t : Engine!GetIdleRequest(t) <=> EngineP!GetIdleRequest(t)
      /\ \A t : Engine!WaitForIdle(t) <=> EngineP!WaitForIdle(t)
      /\ \A t : Engine!SpuriousWakeUp(t) <=> EngineP!SpuriousWakeUp(t)
  BY DEF Engine!Run, EngineP!Run, Engine!GetIdleRequest, EngineP!GetIdleRequest, Engine!WaitForIdle,
         EngineP!WaitForIdle, Engine!SpuriousWakeUp, EngineP!SpuriousWakeUp
<1>3. /\ \A t : Engine!StartAsync(t) <=> EngineP!StartAsync(t)
      /\ \A t : Engine!StartThrows(t) <=> EngineP!StartThrows(t)
  BY DEF Engine!StartAsync, EngineP!StartAsync, Engine!StartThrows, EngineP!StartThrows, Engine!Out, EngineP!Out
<1>4. /\ \A i : Engine!InferDone(i) <=> EngineP!InferDone(i)
      /\ \A i : Engine!InferFailed(i) <=> EngineP!InferFailed(i)
      /\ \A i : Engine!PutIdleRequest(i) <=> EngineP!PutIdleRequest(i)
      /\ \A j : Engine!CallBack(j) <=> EngineP!CallBack(j)
  BY DEF Engine!InferDone, EngineP!InferDone, Engine!InferFailed, EngineP!InferFailed, Engine!CallBack, EngineP!CallBack,
         Engine!PutIdleRequest, EngineP!PutIdleRequest, Engine!NotifyOne, EngineP!NotifyOne, Engine!Idle, EngineP!Idle
<1> QED
  BY <1>1, <1>2, <1>3, <1>4

-----------------------------------------------------------------------------
(* The steps are steps of DnnIvsr. *)

LEMMA BackendStep == [SessionNext]_allVars => [Next]_vars
<1>1. CASE ~freed /\ (Filters \/ SeesEnd \/ TornDown \/ Frees)
  BY <1>1 DEF Filters, SeesEnd, TornDown, Frees, Next, Activate
<1>2. CASE LoadsModel \/ Calls \/ GetsRequest \/ UNCHANGED allVars
  BY <1>2 DEF LoadsModel, Calls, GetsRequest, allVars
<1>3. CASE ~freed /\ (Starts \/ Fails)
  BY <1>3 DEF Starts, Fails, Next, Activate
<1>4. ASSUME ~freed, NEW i, Infers(i) \/ FailsToInfer(i) \/ PutsRequestBack(i)
      PROVE  [Next]_vars
  BY <1>4 DEF Infers, FailsToInfer, PutsRequestBack, Next
<1>5. ASSUME ~freed, NEW f, CallsBack(f)
      PROVE  [Next]_vars
  BY <1>5 DEF CallsBack, Next, Callback
<1>6. ASSUME ~freed, NEW r \in Requests, Completes(r)
      PROVE  [Next]_vars
  BY <1>6 DEF Completes, Next, Callback
<1>7. ASSUME NEW r \in Requests, TooLate(r)
      PROVE  [Next]_vars
  BY <1>7 DEF TooLate, Next
<1> QED
  BY <1>1, <1>2, <1>3, <1>4, <1>5, <1>6, <1>7 DEF SessionNext, FilterStep

(* On the engine the backend is still DnnIvsr: putting the session under it *)
(* adds no behaviour (ff_dnn_execute_model_ivsr, ivsr_process_async).       *)
THEOREM SessionImplementsBackend == SessionSpec => Spec
<1>1. SessionInit => Init
  BY DEF SessionInit
<1> QED
  BY <1>1, BackendStep, PTL DEF SessionSpec, Spec
-----------------------------------------------------------------------------
(* The two pools. *)

\* A request item of the backend is out for task f.
BeingInferred(f) == \E r \in Requests : req[r].st = "running" /\ req[r].task = f

InFlight == {i \in EngineP!Ids : request[i].st \in {"running", "done"}}
Lost     == {i \in EngineP!Ids : request[i].st = "lost"}

At == caller[FilterThread].at

PoolReady ==
  /\ size \in {0, NReq}
  /\ size = 0 => pc = "consume"
  /\ alive <=> ~freed

(* During a call the filter's thread is where it called from, and the task  *)
(* it called for is still the oldest.                                       *)
CallOngoing ==
  InCall => /\ pc \in {"execute", "flush"} /\ size > 0
            /\ lltaskq # <<>> /\ caller[FilterThread].job = Head(lltaskq)

\* The caller found a request when it called, and nobody else takes one.
NeverShort == At # "asleep" /\ (At = "get" => idleIds # <<>>)

\* What the engine has been started on has its request item.
JobsAgree ==
  /\ \A i \in InFlight : BeingInferred(request[i].job)
  /\ \A f \in pending : BeingInferred(f)

(* An infer request is lost with a request item, unless the error ended the *)
(* stream: then the item is queued again, and never used.                   *)
LostAgree == pc # "stopped" => Cardinality(Lost) <= Cardinality(InState("lost"))

SessionLink == PoolReady /\ CallOngoing /\ NeverShort /\ JobsAgree /\ LostAgree

SessionInv == EngineP!EngineInv /\ TypeInv /\ Awaited /\ SessionLink

\* Once the model is freed callbacks may still lose request items, and the
\* pools are no longer related; but nobody comes back to the engine.
AfterFree == freed /\ EngineP!EngineInv /\ TypeInv /\ Awaited /\ At # "asleep"

-----------------------------------------------------------------------------
(* What the invariant says of the engine. *)

LEMMA EngineFacts ==
  ASSUME SessionInv
  PROVE  /\ EngineP!BaseOK /\ EngineP!PoolPartition /\ EngineP!JobsInv
         /\ request \in [EngineP!Ids -> EngineP!Request] /\ idleIds \in Seq(EngineP!Ids)
         /\ caller \in [{FilterThread} -> EngineP!Caller]
         /\ EngineP!Ids = 0 .. NReq - 1
         /\ InCall <=> At \in {"get", "start"}
         /\ At = "start" => /\ caller[FilterThread].id \in EngineP!Ids
                            /\ request[caller[FilterThread].id] =
                                  [st |-> "held", job |-> caller[FilterThread].job]
         /\ IsFiniteSet(Lost) /\ Cardinality(Lost) \in Nat
<1>1. /\ EngineP!BaseOK /\ EngineP!PoolPartition /\ EngineP!JobsInv
      /\ request \in [EngineP!Ids -> EngineP!Request] /\ idleIds \in Seq(EngineP!Ids)
      /\ caller \in [{FilterThread} -> EngineP!Caller]
  BY DEF SessionInv, EngineP!EngineInv, EngineP!BaseOK
<1>2. EngineP!Ids = 0 .. NReq - 1
  BY DEF EngineP!Ids
<1>3. At \in {"out", "get", "start"} /\ caller[FilterThread].id \in EngineP!Ids
  BY <1>1 DEF EngineP!Caller, SessionInv, SessionLink, NeverShort, At
<1>4. At = "start" => request[caller[FilterThread].id] = [st |-> "held", job |-> caller[FilterThread].job]
  BY <1>1 DEF EngineP!PoolPartition, EngineP!HeldByOne, At
<1>5. IsFiniteSet(EngineP!Ids) /\ Lost \subseteq EngineP!Ids
  BY <1>2, PoolConstants, FS_Interval DEF Lost
<1>6. IsFiniteSet(Lost) /\ Cardinality(Lost) \in Nat
  BY <1>5, FS_Subset, FS_CardinalityType
<1> QED
  BY <1>1, <1>2, <1>3, <1>4, <1>6 DEF InCall, At

LEMMA SomeRequests ==
  ASSUME TypeInv, NEW s
  PROVE  /\ InState(s) \subseteq Requests /\ IsFiniteSet(InState(s)) /\ Cardinality(InState(s)) \in Nat
<1>1. InState(s) \subseteq Requests
  BY DEF InState
<1> QED
  BY <1>1, PoolConstants, FS_Subset, FS_CardinalityType

(* Different infer requests are out for different tasks, so there are no    *)
(* more of them than request items that are out.                            *)
LEMMA FewerInFlight ==
  ASSUME SessionInv
  PROVE  /\ IsFiniteSet(InFlight) /\ Cardinality(InFlight) \in Nat
         /\ Cardinality(InFlight) <= Cardinality(InState("running"))
<1> DEFINE item == [i \in InFlight |-> CHOOSE r \in Requests : req[r].st = "running" /\ req[r].task = request[i].job]
<1>1. ASSUME NEW i \in InFlight
      PROVE  item[i] \in Requests /\ req[item[i]].st = "running" /\ req[item[i]].task = request[i].job
  <2>1. \E r \in Requests : req[r].st = "running" /\ req[r].task = request[i].job
    BY DEF SessionInv, SessionLink, JobsAgree, BeingInferred
  <2> QED
    BY <2>1
<1>2. ASSUME NEW i \in InFlight, NEW k \in InFlight, item[i] = item[k]
      PROVE  i = k
  <2>1. request[i].job = request[k].job
    BY <1>1, <1>2
  <2> QED
    BY <2>1, EngineFacts DEF EngineP!JobsInv, EngineP!JobInOnePlace, InFlight
<1>3. item \in Injection(InFlight, InState("running"))
  <2>1. item \in [InFlight -> InState("running")]
    BY <1>1 DEF InState
  <2> HIDE DEF item
  <2> QED
    BY <1>2, <2>1 DEF Injection, IsInjective
<1>4. IsFiniteSet(InState("running"))
  BY SomeRequests DEF SessionInv
<1> QED
  BY <1>3, <1>4, FS_Injection, FS_CardinalityType

(* When the backend has a request item left, the engine has an infer        *)
(* request left.                                                            *)
LEMMA PoolIsNotEmpty ==
  ASSUME SessionInv, ~InCall, pc \in {"execute", "flush"}, NEW q \in InState("queued")
  PROVE  idleIds # <<>>
<1> SUFFICES ASSUME idleIds = <<>>
             PROVE  FALSE
  OBVIOUS
<1>1. size = NReq /\ At = "out"
  BY DEF SessionInv, SessionLink, PoolReady, InCall, At
<1>2. EngineP!Ids = InFlight \cup Lost /\ InFlight \cap Lost = {}
  <2> SUFFICES ASSUME NEW i \in EngineP!Ids
               PROVE  request[i].st \in {"running", "done", "lost"}
    BY DEF InFlight, Lost
  <2>1. request[i].st \in {"absent", "idle", "held", "running", "done", "lost"}
    BY EngineFacts DEF EngineP!Request, EngineP!RequestStates
  <2>2. request[i].st # "absent"
    BY <1>1, EngineFacts, PoolConstants DEF EngineP!PoolPartition
  <2>3. request[i].st # "idle"
    <3>1. ~\E k \in 1 .. Len(idleIds) : idleIds[k] = i
      OBVIOUS
    <3> QED
      BY <3>1, EngineFacts DEF EngineP!PoolPartition, EngineP!IdleIdsExact
  <2>4. request[i].st # "held"
    BY <1>1, EngineFacts DEF EngineP!PoolPartition, EngineP!HeldByOne, At
  <2> QED
    BY <2>1, <2>2, <2>3, <2>4
<1>3. Cardinality(InFlight) + Cardinality(Lost) = NReq
  <2>1. Cardinality(EngineP!Ids) = NReq
    BY EngineFacts, PoolConstants, FS_Interval
  <2>2. Cardinality(InFlight \cap Lost) = 0
    BY <1>2, FS_EmptySet
  <2>3. Cardinality(InFlight \cup Lost) = Cardinality(InFlight) + Cardinality(Lost) - Cardinality(InFlight \cap Lost)
    BY EngineFacts, FewerInFlight, FS_Union
  <2> QED
    BY <1>2, <2>1, <2>2, <2>3, EngineFacts, FewerInFlight
<1>4. Cardinality(InState("running")) + Cardinality(InState("lost")) <= NReq - 1
  <2> DEFINE Used == InState("running") \cup InState("lost")
  <2>0. TypeInv
    BY DEF SessionInv
  <2>1. InState("running") \cap InState("lost") = {} /\ Used \subseteq Requests \ {q} /\ q \in Requests
    BY DEF InState
  <2>2. IsFiniteSet(Requests \ {q}) /\ Cardinality(Requests \ {q}) = NReq - 1
    BY <2>1, PoolConstants, FS_RemoveElement
  <2>3. Cardinality(Used) <= NReq - 1
    BY <2>1, <2>2, FS_Subset
  <2>4. Cardinality(InState("running") \cap InState("lost")) = 0
    BY <2>1, FS_EmptySet
  <2>5. Cardinality(Used) = Cardinality(InState("running")) + Cardinality(InState("lost"))
                              - Cardinality(InState("running") \cap InState("lost"))
    BY <2>0, SomeRequests, FS_Union
  <2> HIDE DEF Used
  <2> QED
    BY <2>0, <2>3, <2>4, <2>5, SomeRequests, PoolConstants
<1>5. Cardinality(Lost) <= Cardinality(InState("lost"))
  BY DEF SessionInv, SessionLink, LostAgree
<1> QED
  BY <1>3, <1>4, <1>5, FewerInFlight, EngineFacts, SomeRequests, PoolConstants DEF SessionInv

-----------------------------------------------------------------------------
(* The backend keeps to what the engine expects of its users. *)

\* Steps that are the filter's own, away from the session.  A flush that finds
\* too few frames for a window loses its request item, and stops.
Quiet ==
  /\ ~InCall /\ size > 0 /\ pc # "stopped"
  /\ UNCHANGED <<engineVars, freed>>
  /\ \/ req' = req
     \/ pc' = "stopped" /\ \E r \in InState("queued") : req' = [req EXCEPT ![r].st = "lost"]

LEMMA QuietSteps == Filters \/ SeesEnd \/ TornDown => Quiet
BY DEF Filters, SeesEnd, TornDown, Quiet, FeedFrame, FeedGroup, ExecuteMoreFrames, NoFrame, SendFrame,
       SendGroup, EndDrain, ActivateReturns, FlushNothing, EndAwait, EndOfStream, Quit, streamVars

(* A model that was never loaded, and one whose stream ended on its own,    *)
(* have nothing in the pool.                                                *)
LEMMA PoolIsQuiet ==
  ASSUME SessionInv, ~InCall, size = 0 \/ pc = "closed"
  PROVE  EngineP!Quiescent
<1>1. \A t \in {FilterThread} : caller[t].at = "out"
  BY DEF InCall
<1> SUFFICES ASSUME NEW i \in InFlight
             PROVE  FALSE
  BY <1>1 DEF EngineP!Quiescent, InFlight
<1>2. i \in EngineP!Ids /\ request[i].st \in {"running", "done"}
  BY DEF InFlight
<1>3. CASE size = 0
  BY <1>2, <1>3, EngineFacts DEF EngineP!PoolPartition
<1>4. CASE pc = "closed"
  <2>1. PICK r \in Requests : req[r].st = "running"
    BY DEF SessionInv, SessionLink, JobsAgree, BeingInferred
  <2>2. taskq = <<>> /\ ToSet(taskq) = {}
    BY <1>4 DEF SessionInv, Awaited, ToSet
  <2> QED
    BY <2>1, <2>2 DEF SessionInv, Awaited, Live
<1> QED
  BY <1>3, <1>4

(* No task is given to the engine twice: the oldest task that waits for a   *)
(* request is not with the engine.                                          *)
LEMMA NewToEngine ==
  ASSUME SessionInv, ~InCall, lltaskq # <<>>
  PROVE  Head(lltaskq) \in Frames \ EngineP!InEngine
<1> DEFINE e == Head(lltaskq)
<1>1. e \in Frames /\ e \in ToSet(lltaskq)
  <2>1. lltaskq \in Seq(Frames)
    BY Types DEF SessionInv
  <2> QED
    BY <2>1, QueueFacts, Elements
<1>2. ~BeingInferred(e)
  BY <1>1 DEF BeingInferred, SessionInv, Awaited, Live
<1> HIDE DEF e
<1>3. \A t \in {FilterThread} : caller[t].at = "out"
  BY DEF InCall
<1>4. e \notin EngineP!InEngine
  BY <1>2, <1>3 DEF EngineP!InEngine, SessionInv, SessionLink, JobsAgree, InFlight
<1> QED
  BY <1>1, <1>4 DEF e

LEMMA EngineStep ==
  SessionInv /\ [SessionNext]_allVars => EngineP!Next \/ UNCHANGED engineVars \/ (Frees /\ pc = "stopped")
<1> SUFFICES ASSUME SessionInv, [SessionNext]_allVars
             PROVE  EngineP!Next \/ UNCHANGED engineVars \/ (Frees /\ pc = "stopped")
  OBVIOUS
<1>0. alive <=> ~freed
  BY DEF SessionInv, SessionLink, PoolReady
<1>1. CASE LoadsModel /\ ~freed
  <2>1. ~InCall /\ size = 0
    BY <1>1 DEF LoadsModel, SessionInv, SessionLink, CallOngoing, PoolReady
  <2>2. NReq \in 1 .. NReq /\ EngineP!CreateInferRequests(NReq)
    BY <1>1, SameSteps, PoolConstants DEF LoadsModel
  <2> QED
    BY <1>0, <1>1, <2>1, <2>2, PoolIsQuiet DEF EngineP!Next
<1>2. CASE Filters \/ SeesEnd \/ TornDown
  BY <1>2, QuietSteps DEF Quiet
<1>3. CASE Calls /\ ~freed
  <2>1. Head(lltaskq) \in Frames \ EngineP!InEngine
    BY <1>3, NewToEngine DEF Calls
  <2>2. EngineP!Run(FilterThread, Head(lltaskq))
    BY <1>3, SameSteps DEF Calls
  <2> QED
    BY <1>0, <1>3, <2>1, <2>2 DEF EngineP!Next
<1>4. CASE GetsRequest \/ Starts \/ Fails
  BY <1>4, SameSteps DEF GetsRequest, Starts, Fails, EngineP!Next
<1>5. CASE Frees
  <2>1. EngineP!Destroy /\ pc \in {"closed", "stopped"}
    BY <1>5, SameEngine DEF Frees, FreeModel
  <2>2. CASE pc = "closed"
    <3>1. ~InCall
      BY <2>2 DEF SessionInv, SessionLink, CallOngoing
    <3> QED
      BY <2>1, <2>2, <3>1, PoolIsQuiet DEF EngineP!Next
  <2> QED
    BY <1>5, <2>1, <2>2
<1>6. ASSUME NEW i \in EngineP!Ids, Infers(i) \/ FailsToInfer(i) \/ PutsRequestBack(i)
      PROVE  EngineP!Next
  BY <1>6, SameSteps DEF Infers, FailsToInfer, PutsRequestBack, EngineP!Next
<1>7. ASSUME NEW f \in pending, CallsBack(f)
      PROVE  EngineP!Next
  BY <1>7, SameSteps DEF CallsBack, EngineP!Next
<1>8. ASSUME NEW r \in Requests, Completes(r) \/ TooLate(r)
      PROVE  UNCHANGED engineVars
  BY <1>8 DEF Completes, TooLate
<1>9. CASE UNCHANGED allVars
  BY <1>9 DEF allVars
<1> QED
  BY <1>1, <1>2, <1>3, <1>4, <1>5, <1>6, <1>7, <1>8, <1>9, SameEngine DEF SessionNext, FilterStep

LEMMA EngineKept == SessionInv /\ [SessionNext]_allVars => EngineP!EngineInv'
<1> SUFFICES ASSUME SessionInv, [SessionNext]_allVars
             PROVE  EngineP!EngineInv'
  OBVIOUS
<1>1. EngineP!EngineInv
  BY DEF SessionInv
<1>2. CASE EngineP!Next \/ UNCHANGED engineVars
  <2>1. [EngineP!Next]_(EngineP!vars)
    BY <1>2 DEF EngineP!vars, engineVars
  <2> QED
    BY <1>1, <2>1, PoolConstants, EngineP!BaseStep, EngineP!PartitionStep, EngineP!JobsStep DEF EngineP!EngineInv
<1>3. CASE Frees
  <2>1. UNCHANGED <<size, request, idleIds, caller, pending>> /\ alive' \in BOOLEAN
    BY <1>3 DEF Frees, Engine!Destroy
  <2> QED
    BY <1>1, <2>1 DEF EngineP!EngineInv, EngineP!BaseOK, EngineP!PoolPartition, EngineP!JobsInv, EngineP!JobsGiven,
         EngineP!JobInOnePlace, EngineP!IdleIdsDistinct, EngineP!IdleIdsExact, EngineP!HeldByOne
<1> QED
  BY <1>2, <1>3, EngineStep

-----------------------------------------------------------------------------
(* The two pools stay together. *)

(* A request item out for task f stays so unless a step takes it away.      *)
LEMMA StillInferred ==
  ASSUME NEW f, BeingInferred(f),
         \A q \in Requests : req[q].st = "running" /\ req[q].task = f =>
                             req'[q].st = "running" /\ req'[q].task = f
  PROVE  BeingInferred(f)'
BY DEF BeingInferred

LEMMA QuietLink == SessionInv /\ Quiet => SessionLink'
<1> SUFFICES ASSUME SessionInv, Quiet
             PROVE  SessionLink'
  OBVIOUS
<1>1. PoolReady' /\ CallOngoing' /\ NeverShort'
  BY DEF Quiet, SessionInv, SessionLink, PoolReady, CallOngoing, NeverShort, InCall, At, engineVars
<1>2. JobsAgree'
  <2>1. \A f : BeingInferred(f) => BeingInferred(f)'
    <3>1. CASE req' = req
      BY <3>1 DEF BeingInferred
    <3>2. ASSUME NEW r \in InState("queued"), req' = [req EXCEPT ![r].st = "lost"]
          PROVE  \A f : BeingInferred(f) => BeingInferred(f)'
      <4>1. r \in Requests /\ req[r].st = "queued"
        BY DEF InState
      <4>2. \A q \in Requests : req'[q].task = req[q].task /\ req'[q].st = IF q = r THEN "lost" ELSE req[q].st
        BY <3>2, <4>1, MovesOn DEF SessionInv
      <4> QED
        BY <4>1, <4>2, StillInferred
    <3> QED
      BY <3>1, <3>2 DEF Quiet
  <2>2. InFlight' = InFlight /\ UNCHANGED <<request, pending>>
    BY DEF Quiet, InFlight, EngineP!Ids, engineVars
  <2> QED
    BY <2>1, <2>2 DEF SessionInv, SessionLink, JobsAgree, BeingInferred
<1>3. CASE req' = req
  <2>1. Lost' = Lost /\ InState("lost")' = InState("lost")
    BY <1>3 DEF Quiet, Lost, InState, EngineP!Ids, engineVars
  <2> QED
    BY <1>1, <1>2, <2>1 DEF Quiet, SessionInv, SessionLink, LostAgree
<1>4. CASE pc' = "stopped"
  BY <1>1, <1>2, <1>4 DEF SessionLink, LostAgree
<1> QED
  BY <1>3, <1>4 DEF Quiet

(* Steps that leave the filter's thread, outside the engine or in it, where *)
(* it is.                                                                   *)
LEMMA ThreadKept ==
  ASSUME SessionInv, UNCHANGED <<pc, lltaskq, freed, size, alive>>,
         caller' = caller, idleIds' = idleIds \/ \E i \in EngineP!Ids : idleIds' = Append(idleIds, i)
  PROVE  PoolReady' /\ CallOngoing' /\ NeverShort'
<1>1. PoolReady' /\ CallOngoing'
  BY DEF SessionInv, SessionLink, PoolReady, CallOngoing, InCall
<1>2. ASSUME NEW i \in EngineP!Ids
      PROVE  Append(idleIds, i) # <<>>
  <2>1. idleIds \in Seq(EngineP!Ids)
    BY EngineFacts
  <2>2. Len(Append(idleIds, i)) = Len(idleIds) + 1 /\ Len(idleIds) \in Nat
    BY <2>1
  <2> QED
    BY <2>2
<1>3. NeverShort'
  BY <1>2 DEF SessionInv, SessionLink, NeverShort, At
<1> QED
  BY <1>1, <1>3

LEMMA LoadsLink == SessionInv /\ ~freed /\ LoadsModel => SessionLink'
<1> SUFFICES ASSUME SessionInv, ~freed, LoadsModel
             PROVE  SessionLink'
  OBVIOUS
<1>0. EngineP!CreateInferRequests(NReq) /\ size = 0 /\ UNCHANGED vars
  BY SameSteps DEF LoadsModel
<1>1. size' = NReq /\ UNCHANGED <<pc, lltaskq, freed, alive, caller, req, pending>>
  BY <1>0 DEF EngineP!CreateInferRequests, vars, queueVars, streamVars
<1>2. At = "out" /\ ~InCall
  BY <1>0, EngineFacts DEF SessionInv, SessionLink, CallOngoing, NeverShort, InCall, At, EngineP!Caller
<1>3. PoolReady' /\ CallOngoing' /\ NeverShort'
  BY <1>1, <1>2, PoolConstants DEF SessionInv, SessionLink, PoolReady, CallOngoing, NeverShort, InCall, At
<1>4. \A i \in EngineP!Ids : request[i].st = "absent" /\ request'[i].st \in {"absent", "idle"}
  <2>1. \A i \in EngineP!Ids : request[i].st = "absent"
    BY <1>0, EngineFacts DEF EngineP!PoolPartition
  <2>2. \A i \in EngineP!Ids : request'[i] = IF i \in size .. NReq - 1 THEN EngineP!Idle ELSE request[i]
    BY <1>0 DEF EngineP!CreateInferRequests
  <2> QED
    BY <2>1, <2>2 DEF EngineP!Idle
<1>5. InFlight' = {} /\ Lost' = {} /\ Lost = {}
  BY <1>4 DEF InFlight, Lost, EngineP!Ids
<1>6. JobsAgree'
  BY <1>1, <1>5 DEF SessionInv, SessionLink, JobsAgree, BeingInferred
<1>7. LostAgree'
  BY <1>1, <1>5 DEF SessionInv, SessionLink, LostAgree, InState
<1> QED
  BY <1>3, <1>6, <1>7 DEF SessionLink

LEMMA CallsLink == SessionInv /\ Calls => SessionLink'
<1> SUFFICES ASSUME SessionInv, Calls
             PROVE  SessionLink'
  OBVIOUS
<1>1. /\ ~InCall /\ pc \in {"execute", "flush"} /\ lltaskq # <<>> /\ InState("queued") # {}
      /\ UNCHANGED vars /\ EngineP!Run(FilterThread, Head(lltaskq))
  BY SameSteps DEF Calls
<1>2. /\ UNCHANGED <<pc, lltaskq, freed, req>>
      /\ UNCHANGED <<size, request, idleIds, pending, alive>>
  BY <1>1 DEF EngineP!Run, vars, queueVars, streamVars
<1>3. caller'[FilterThread].at = "get" /\ caller'[FilterThread].job = Head(lltaskq)
  BY <1>1, EngineFacts DEF EngineP!Run
<1>4. idleIds # <<>>
  BY <1>1, PoolIsNotEmpty
<1>5. PoolReady' /\ CallOngoing' /\ NeverShort'
  BY <1>1, <1>2, <1>3, <1>4, PoolConstants DEF SessionInv, SessionLink, PoolReady, CallOngoing, NeverShort, InCall, At
<1>6. JobsAgree'
  BY <1>2 DEF SessionInv, SessionLink, JobsAgree, InFlight, BeingInferred, EngineP!Ids
<1>7. Lost' = Lost /\ InState("lost")' = InState("lost")
  BY <1>2 DEF Lost, InState, EngineP!Ids
<1>8. LostAgree'
  BY <1>2, <1>7 DEF SessionInv, SessionLink, LostAgree
<1> QED
  BY <1>5, <1>6, <1>8 DEF SessionLink

LEMMA GetsLink == SessionInv /\ GetsRequest => SessionLink'
<1> SUFFICES ASSUME SessionInv, GetsRequest
             PROVE  SessionLink'
  OBVIOUS
<1>1. EngineP!GetIdleRequest(FilterThread) /\ UNCHANGED vars
  BY SameSteps DEF GetsRequest, EngineP!WaitForIdle, EngineP!SpuriousWakeUp, SessionInv, SessionLink, NeverShort, At
<1>0. idleIds # <<>> /\ Head(idleIds) \in EngineP!Ids
  <2>1. idleIds # <<>> /\ idleIds \in Seq(EngineP!Ids)
    BY <1>1, EngineFacts DEF EngineP!GetIdleRequest
  <2> QED
    BY <2>1
<1>2. /\ At = "get"
      /\ UNCHANGED <<pc, lltaskq, freed, req>> /\ UNCHANGED <<size, pending, alive>>
      /\ request' = [request EXCEPT ![Head(idleIds)] = [st |-> "held", job |-> caller[FilterThread].job]]
  BY <1>1 DEF EngineP!GetIdleRequest, vars, queueVars, streamVars, At
<1>3. caller'[FilterThread].at = "start" /\ caller'[FilterThread].job = caller[FilterThread].job
  BY <1>0, <1>1, EngineFacts DEF EngineP!GetIdleRequest, EngineP!Caller
<1>4. PoolReady' /\ CallOngoing' /\ NeverShort'
  BY <1>2, <1>3 DEF SessionInv, SessionLink, PoolReady, CallOngoing, NeverShort, InCall, At
<1>5. request[Head(idleIds)].st = "idle"
  <2>1. 1 \in 1 .. Len(idleIds) /\ Head(idleIds) = idleIds[1]
    BY <1>0, EngineFacts
  <2> QED
    BY <1>0, <2>1, EngineFacts DEF EngineP!PoolPartition, EngineP!IdleIdsExact
<1>6. \A i \in EngineP!Ids : \/ request'[i] = request[i]
                             \/ request[i].st = "idle" /\ request'[i].st = "held"
  BY <1>0, <1>2, <1>5, EngineFacts
<1>7. \A i \in InFlight' : i \in InFlight /\ request'[i] = request[i]
  BY <1>6 DEF InFlight, EngineP!Ids
<1>8. JobsAgree'
  BY <1>2, <1>7 DEF SessionInv, SessionLink, JobsAgree, BeingInferred
<1>9. Lost' = Lost /\ InState("lost")' = InState("lost")
  BY <1>2, <1>6 DEF Lost, InState, EngineP!Ids
<1>10. LostAgree'
  BY <1>2, <1>9 DEF SessionInv, SessionLink, LostAgree
<1> QED
  BY <1>4, <1>8, <1>10 DEF SessionLink

(* Filling a request item takes no task from the others, and it was queued. *)
LEMMA FilledItem ==
  ASSUME SessionInv, NEW r \in Requests, req[r].st = "queued", NEW s, req' = Given(r, s)
  PROVE  /\ \A q \in Requests : q # r => req'[q] = req[q]
         /\ req'[r].st = s /\ req'[r].task = Head(lltaskq)
         /\ \A f : BeingInferred(f) => BeingInferred(f)'
<1>1. \A q \in Requests : req'[q] = IF q = r THEN [st |-> s, task |-> Head(lltaskq), input |-> Input] ELSE req[q]
  BY GivenFacts DEF SessionInv
<1>2. \A f : \A q \in Requests : req[q].st = "running" /\ req[q].task = f =>
                               req'[q].st = "running" /\ req'[q].task = f
  BY <1>1
<1> QED
  BY <1>1, <1>2, StillInferred

\* The call is over.
LEMMA CallOver ==
  ASSUME SessionInv, InCall, UNCHANGED <<freed, size, alive>>,
         caller' = [caller EXCEPT ![FilterThread] = EngineP!Out]
  PROVE  PoolReady' /\ CallOngoing' /\ NeverShort'
<1>1. caller'[FilterThread].at = "out"
  BY EngineFacts DEF EngineP!Out
<1>2. size > 0 /\ size # 0
  BY PoolConstants DEF SessionInv, SessionLink, CallOngoing, PoolReady
<1>3. PoolReady'
  BY <1>2 DEF SessionInv, SessionLink, PoolReady
<1> QED
  BY <1>1, <1>3 DEF CallOngoing, NeverShort, InCall, At

LEMMA StartsLink == SessionInv /\ Starts => SessionLink'
<1> SUFFICES ASSUME SessionInv, Starts
             PROVE  SessionLink'
  OBVIOUS
<1> DEFINE id == caller[FilterThread].id
<1>1. /\ EngineP!StartAsync(FilterThread)
      /\ \E r \in Requests : ExecuteStarts(r) \/ FlushStarts(r)
  BY SameSteps DEF Starts
<1>2. PICK r \in Requests : req[r].st = "queued" /\ req' = Given(r, "running") /\ freed' = freed
  BY <1>1 DEF ExecuteStarts, FlushStarts, streamVars
<1>3. /\ At = "start" /\ InCall
      /\ UNCHANGED <<size, idleIds, pending, alive>> /\ caller' = [caller EXCEPT ![FilterThread] = EngineP!Out]
      /\ request' = [request EXCEPT ![id] = [request[id] EXCEPT !.st = "running"]]
  BY <1>1 DEF EngineP!StartAsync, InCall, At
<1>4. id \in EngineP!Ids /\ request[id] = [st |-> "held", job |-> Head(lltaskq)] /\ pc \in {"execute", "flush"}
  BY <1>3, EngineFacts DEF SessionInv, SessionLink, CallOngoing
<1> HIDE DEF id
<1>5. /\ request'[id].st = "running" /\ request'[id].job = Head(lltaskq)
      /\ \A i \in EngineP!Ids : i # id => request'[i] = request[i]
  BY <1>3, <1>4, EngineFacts
<1>6. PoolReady' /\ CallOngoing' /\ NeverShort'
  BY <1>2, <1>3, CallOver
<1>7. /\ \A q \in Requests : q # r => req'[q] = req[q]
      /\ req'[r].st = "running" /\ req'[r].task = Head(lltaskq)
      /\ \A f : BeingInferred(f) => BeingInferred(f)'
  BY <1>2, FilledItem
<1>8. JobsAgree'
  <2>1. ASSUME NEW i \in InFlight'
        PROVE  BeingInferred(request[i].job)'
    <3>1. CASE i = id
      BY <1>5, <1>7, <3>1 DEF BeingInferred
    <3>2. CASE i # id
      <4>1. i \in InFlight /\ request'[i] = request[i]
        BY <1>5, <2>1, <3>2 DEF InFlight, EngineP!Ids
      <4>2. BeingInferred(request[i].job)
        BY <4>1 DEF SessionInv, SessionLink, JobsAgree
      <4> QED
        BY <1>7, <4>1, <4>2 DEF BeingInferred
    <3> QED
      BY <3>1, <3>2
  <2>2. \A f \in pending : BeingInferred(f)'
    BY <1>7 DEF SessionInv, SessionLink, JobsAgree
  <2> QED
    BY <1>3, <2>1, <2>2 DEF JobsAgree, BeingInferred
<1>9. Lost' = Lost
  BY <1>4, <1>5 DEF Lost, EngineP!Ids
<1>10. InState("lost")' = InState("lost")
  BY <1>2, <1>7 DEF InState
<1>11. LostAgree'
  BY <1>4, <1>9, <1>10 DEF SessionInv, SessionLink, LostAgree
<1> QED
  BY <1>6, <1>8, <1>11 DEF SessionLink

(* One infer request and one request item are lost together. *)
LEMMA BothLost ==
  ASSUME SessionInv, NEW i \in EngineP!Ids \ Lost, NEW r \in Requests, req[r].st # "lost",
         Lost' = Lost \cup {i}, InState("lost")' = InState("lost") \cup {r}, pc # "stopped"
  PROVE  LostAgree'
<1>1. Cardinality(Lost') = Cardinality(Lost) + 1
  BY EngineFacts, FS_AddElement
<1>2. Cardinality(InState("lost")') = Cardinality(InState("lost")) + 1
  <2>1. r \notin InState("lost") /\ IsFiniteSet(InState("lost"))
    BY SomeRequests DEF InState, SessionInv
  <2> QED
    BY <2>1, FS_AddElement
<1>3. Cardinality(Lost) <= Cardinality(InState("lost"))
  BY DEF SessionInv, SessionLink, LostAgree
<1> QED
  BY <1>1, <1>2, <1>3, EngineFacts, SomeRequests DEF LostAgree, SessionInv

LEMMA FailsLink == SessionInv /\ Fails => SessionLink'
<1> SUFFICES ASSUME SessionInv, Fails
             PROVE  SessionLink'
  OBVIOUS
<1> DEFINE id == caller[FilterThread].id
<1>1. /\ EngineP!StartThrows(FilterThread)
      /\ \E r \in Requests : ExecuteFails(r) \/ FlushFails(r)
  BY SameSteps DEF Fails
<1>2. PICK r \in Requests : /\ req[r].st = "queued" /\ freed' = freed
                           /\ \/ req' = req /\ pc' = "stopped"
                              \/ req' = Given(r, "lost")
  BY <1>1 DEF ExecuteFails, FlushFails, streamVars
<1>3. /\ At = "start" /\ InCall
      /\ UNCHANGED <<size, idleIds, pending, alive>> /\ caller' = [caller EXCEPT ![FilterThread] = EngineP!Out]
      /\ request' = [request EXCEPT ![id] = [st |-> "lost", job |-> 0]]
  BY <1>1 DEF EngineP!StartThrows, InCall, At
<1>4. id \in EngineP!Ids /\ request[id].st = "held" /\ pc \in {"execute", "flush"}
  BY <1>3, EngineFacts DEF SessionInv, SessionLink, CallOngoing
<1> HIDE DEF id
<1>5. request'[id].st = "lost" /\ \A i \in EngineP!Ids : i # id => request'[i] = request[i]
  BY <1>3, <1>4, EngineFacts
<1>6. PoolReady' /\ CallOngoing' /\ NeverShort'
  BY <1>2, <1>3, CallOver
<1>7. \A f : BeingInferred(f) => BeingInferred(f)'
  BY <1>2, FilledItem DEF BeingInferred
<1>8. JobsAgree'
  <2>1. \A i \in InFlight' : i \in InFlight /\ request'[i] = request[i]
    BY <1>5 DEF InFlight, EngineP!Ids
  <2>2. ASSUME NEW i \in InFlight'
        PROVE  BeingInferred(request[i].job)'
    <3>1. BeingInferred(request[i].job) /\ request'[i] = request[i]
      BY <2>1, <2>2 DEF SessionInv, SessionLink, JobsAgree
    <3> QED
      BY <1>7, <3>1 DEF BeingInferred
  <2>3. \A f \in pending : BeingInferred(f)'
    BY <1>7 DEF SessionInv, SessionLink, JobsAgree
  <2> QED
    BY <1>3, <2>2, <2>3 DEF JobsAgree, BeingInferred
<1>9. LostAgree'
  <2>1. CASE pc' = "stopped"
    BY <2>1 DEF LostAgree
  <2>2. CASE req' = Given(r, "lost")
    <3>1. Lost' = Lost \cup {id} /\ id \notin Lost
      BY <1>4, <1>5 DEF Lost, EngineP!Ids
    <3>2. InState("lost")' = InState("lost") \cup {r}
      BY <1>2, <2>2, FilledItem DEF InState
    <3> QED
      BY <1>2, <1>4, <3>1, <3>2, BothLost
  <2> QED
    BY <1>2, <2>1, <2>2
<1> QED
  BY <1>6, <1>8, <1>9 DEF SessionLink

LEMMA FreesLink == SessionInv /\ ~freed /\ Frees => SessionLink'
<1> SUFFICES ASSUME SessionInv, ~freed, Frees
             PROVE  SessionLink'
  OBVIOUS
<1>1. /\ pc \in {"closed", "stopped"} /\ freed' /\ ~alive'
      /\ UNCHANGED <<pc, req, lltaskq, size, request, idleIds, caller, pending>>
  BY DEF Frees, FreeModel, Engine!Destroy, queueVars
<1>2. PoolReady' /\ CallOngoing' /\ NeverShort'
  BY <1>1 DEF SessionInv, SessionLink, PoolReady, CallOngoing, NeverShort, InCall, At
<1>3. JobsAgree'
  BY <1>1 DEF SessionInv, SessionLink, JobsAgree, InFlight, BeingInferred, EngineP!Ids
<1>4. Lost' = Lost /\ InState("lost")' = InState("lost")
  BY <1>1 DEF Lost, InState, EngineP!Ids
<1>5. LostAgree'
  BY <1>1, <1>4 DEF SessionInv, SessionLink, LostAgree
<1> QED
  BY <1>2, <1>3, <1>5 DEF SessionLink

LEMMA InfersLink == ASSUME SessionInv, NEW id \in EngineP!Ids, Infers(id)
                    PROVE  SessionLink'
<1>1. EngineP!InferDone(id) /\ UNCHANGED <<pc, lltaskq, freed, req>>
  BY SameSteps DEF Infers, vars, queueVars, streamVars
<1>2. /\ UNCHANGED <<size, idleIds, caller, pending, alive>> /\ request[id].st = "running"
      /\ request'[id].st = "done" /\ request'[id].job = request[id].job
      /\ \A i \in EngineP!Ids : i # id => request'[i] = request[i]
  BY <1>1, EngineFacts DEF EngineP!InferDone, EngineP!Request
<1>3. PoolReady' /\ CallOngoing' /\ NeverShort'
  BY <1>1, <1>2, ThreadKept
<1>4. \A i \in InFlight' : i \in InFlight /\ request'[i].job = request[i].job
  BY <1>2 DEF InFlight, EngineP!Ids
<1>5. JobsAgree'
  BY <1>1, <1>2, <1>4 DEF SessionInv, SessionLink, JobsAgree, BeingInferred
<1>6. Lost' = Lost /\ InState("lost")' = InState("lost")
  BY <1>1, <1>2 DEF Lost, InState, EngineP!Ids
<1>7. LostAgree'
  BY <1>1, <1>6 DEF SessionInv, SessionLink, LostAgree
<1> QED
  BY <1>3, <1>5, <1>7 DEF SessionLink

LEMMA PutsLink == ASSUME SessionInv, NEW id \in EngineP!Ids, PutsRequestBack(id)
                  PROVE  SessionLink'
<1>1. EngineP!PutIdleRequest(id) /\ UNCHANGED <<pc, lltaskq, freed, req>>
  BY SameSteps DEF PutsRequestBack, vars, queueVars, streamVars
<1>2. /\ UNCHANGED <<size, alive>> /\ request[id].st = "done"
      /\ idleIds' = Append(idleIds, id) /\ pending' = pending \cup {request[id].job}
      /\ request' = [request EXCEPT ![id] = EngineP!Idle]
  BY <1>1 DEF EngineP!PutIdleRequest
<1>3. request'[id].st = "idle" /\ \A i \in EngineP!Ids : i # id => request'[i] = request[i]
  BY <1>2, EngineFacts DEF EngineP!Idle
<1>4. caller' = caller
  <2>1. ~\E t \in {FilterThread} : caller[t].at = "asleep"
    BY DEF SessionInv, SessionLink, NeverShort, At
  <2> QED
    BY <1>1, <2>1 DEF EngineP!PutIdleRequest, EngineP!NotifyOne
<1>5. PoolReady' /\ CallOngoing' /\ NeverShort'
  BY <1>1, <1>2, <1>4, ThreadKept
<1>6. \A i \in InFlight' : i \in InFlight /\ request'[i] = request[i]
  BY <1>3 DEF InFlight, EngineP!Ids
<1>7. id \in InFlight
  BY <1>2 DEF InFlight
<1>8. JobsAgree'
  BY <1>1, <1>2, <1>6, <1>7 DEF SessionInv, SessionLink, JobsAgree, BeingInferred
<1>9. Lost' = Lost /\ InState("lost")' = InState("lost")
  BY <1>1, <1>2, <1>3 DEF Lost, InState, EngineP!Ids
<1>10. LostAgree'
  BY <1>1, <1>9 DEF SessionInv, SessionLink, LostAgree
<1> QED
  BY <1>5, <1>8, <1>10 DEF SessionLink

LEMMA InferFailsLink == ASSUME SessionInv, NEW id \in EngineP!Ids, FailsToInfer(id)
                        PROVE  SessionLink'
<1>1. PICK r \in Requests : req[r].task = request[id].job /\ InferenceFails(r)
  BY DEF FailsToInfer
<1>2. /\ req[r].st = "running" /\ req' = [req EXCEPT ![r].st = "lost"]
      /\ UNCHANGED <<pc, lltaskq, freed>>
  BY <1>1 DEF InferenceFails, queueVars, streamVars
<1>3. \A q \in Requests : req'[q].task = req[q].task /\ req'[q].st = IF q = r THEN "lost" ELSE req[q].st
  BY <1>2, MovesOn DEF SessionInv
<1>4. /\ UNCHANGED <<size, idleIds, caller, pending, alive>> /\ request[id].st = "running"
      /\ request' = [request EXCEPT ![id] = [st |-> "lost", job |-> 0]]
  BY SameSteps DEF FailsToInfer, EngineP!InferFailed
<1>5. request'[id].st = "lost" /\ \A i \in EngineP!Ids : i # id => request'[i] = request[i]
  BY <1>4, EngineFacts
<1>6. PoolReady' /\ CallOngoing' /\ NeverShort'
  BY <1>2, <1>4, ThreadKept
<1>7. JobsAgree'
  <2>1. \A f : f # request[id].job /\ BeingInferred(f) => BeingInferred(f)'
    BY <1>1, <1>3, StillInferred
  <2>2. \A i \in InFlight' : i \in InFlight /\ i # id /\ request'[i] = request[i]
    BY <1>5 DEF InFlight, EngineP!Ids
  <2>3. id \in InFlight
    BY <1>4 DEF InFlight
  <2>4. ASSUME NEW i \in InFlight'
        PROVE  BeingInferred(request[i].job)'
    <3>1. request[i].job # request[id].job
      BY <2>2, <2>3, EngineFacts DEF EngineP!JobsInv, EngineP!JobInOnePlace, InFlight
    <3>2. BeingInferred(request[i].job) /\ request'[i] = request[i]
      BY <2>2, <2>4 DEF SessionInv, SessionLink, JobsAgree
    <3> QED
      BY <2>1, <3>1, <3>2 DEF BeingInferred
  <2>5. ASSUME NEW f \in pending
        PROVE  BeingInferred(f)'
    <3>1. f # request[id].job
      BY <2>3, EngineFacts DEF EngineP!JobsInv, EngineP!JobInOnePlace, InFlight
    <3> QED
      BY <2>1, <3>1 DEF SessionInv, SessionLink, JobsAgree
  <2> QED
    BY <1>4, <2>4, <2>5 DEF JobsAgree, BeingInferred
<1>8. LostAgree'
  <2>1. Lost' = Lost \cup {id} /\ id \notin Lost
    BY <1>4, <1>5 DEF Lost, EngineP!Ids
  <2>2. InState("lost")' = InState("lost") \cup {r}
    BY <1>3 DEF InState
  <2>3. CASE pc = "stopped"
    BY <1>2, <2>3 DEF LostAgree
  <2>4. CASE pc # "stopped"
    BY <1>2, <2>1, <2>2, <2>4, BothLost
  <2> QED
    BY <2>3, <2>4
<1> QED
  BY <1>6, <1>7, <1>8 DEF SessionLink

LEMMA CallsBackLink == ASSUME SessionInv, NEW f \in pending, CallsBack(f)
                       PROVE  SessionLink'
<1>1. PICK r \in Requests : req[r].task = f /\ CallbackWrites(r)
  BY DEF CallsBack
<1>2. /\ req[r].st = "running" /\ req' = [req EXCEPT ![r].st = "written"]
      /\ UNCHANGED <<pc, lltaskq, freed>>
  BY <1>1 DEF CallbackWrites, queueVars, streamVars
<1>3. \A q \in Requests : req'[q].task = req[q].task /\ req'[q].st = IF q = r THEN "written" ELSE req[q].st
  BY <1>2, MovesOn DEF SessionInv
<1>4. UNCHANGED <<size, request, idleIds, caller, alive>> /\ pending' = pending \ {f}
  BY SameSteps DEF CallsBack, EngineP!CallBack
<1>5. PoolReady' /\ CallOngoing' /\ NeverShort'
  BY <1>2, <1>4, ThreadKept
<1>6. JobsAgree'
  <2>1. \A g : g # f /\ BeingInferred(g) => BeingInferred(g)'
    BY <1>1, <1>3, StillInferred
  <2>2. \A i \in InFlight : request[i].job # f
    BY EngineFacts DEF EngineP!JobsInv, EngineP!JobInOnePlace, InFlight
  <2>3. InFlight' = InFlight
    BY <1>4 DEF InFlight, EngineP!Ids
  <2>4. \A i \in InFlight : BeingInferred(request[i].job)'
    <3> SUFFICES ASSUME NEW i \in InFlight
                 PROVE  BeingInferred(request[i].job)'
      OBVIOUS
    <3>1. BeingInferred(request[i].job) /\ request'[i] = request[i]
      BY <1>4 DEF SessionInv, SessionLink, JobsAgree
    <3> QED
      BY <2>1, <2>2, <3>1 DEF BeingInferred
  <2>5. \A g \in pending' : BeingInferred(g)'
    BY <1>4, <2>1 DEF SessionInv, SessionLink, JobsAgree
  <2> QED
    BY <2>3, <2>4, <2>5 DEF JobsAgree, BeingInferred
<1>7. Lost' = Lost /\ InState("lost")' = InState("lost")
  BY <1>2, <1>3, <1>4 DEF Lost, InState, EngineP!Ids
<1>8. LostAgree'
  BY <1>2, <1>7 DEF SessionInv, SessionLink, LostAgree
<1> QED
  BY <1>5, <1>6, <1>8 DEF SessionLink

LEMMA CompletesLink == ASSUME SessionInv, NEW r \in Requests, Completes(r)
                       PROVE  SessionLink'
<1>1. UNCHANGED <<pc, lltaskq, freed>> /\ UNCHANGED <<size, request, idleIds, caller, pending, alive>>
  BY DEF Completes, CallbackCounts, CallbackReturns, queueVars, streamVars, engineVars
<1>2. req[r].st \in {"written", "counted"} /\ \A q \in Requests \ {r} : req'[q] = req[q]
  BY Types DEF Completes, CallbackCounts, CallbackReturns, SessionInv
<1>3. req'[r].st \in {"counted", "queued"}
  BY Types DEF Completes, CallbackCounts, CallbackReturns, SessionInv, Idle, Request
<1>4. PoolReady' /\ CallOngoing' /\ NeverShort'
  BY <1>1, ThreadKept
<1>5. \A f : BeingInferred(f) => BeingInferred(f)'
  BY <1>2, StillInferred
<1>6. JobsAgree'
  BY <1>1, <1>5 DEF SessionInv, SessionLink, JobsAgree, InFlight, BeingInferred, EngineP!Ids
<1>7. Lost' = Lost /\ InState("lost")' = InState("lost")
  BY <1>1, <1>2, <1>3 DEF Lost, InState, EngineP!Ids
<1>8. LostAgree'
  BY <1>1, <1>7 DEF SessionInv, SessionLink, LostAgree
<1> QED
  BY <1>4, <1>6, <1>8 DEF SessionLink

LEMMA LinkStep == SessionInv /\ [SessionNext]_allVars => SessionLink' \/ \E r \in Requests : TooLate(r)
<1> SUFFICES ASSUME SessionInv, [SessionNext]_allVars
             PROVE  SessionLink' \/ \E r \in Requests : TooLate(r)
  OBVIOUS
<1>1. CASE UNCHANGED allVars
  BY <1>1 DEF allVars, engineVars, vars, queueVars, streamVars, SessionInv, SessionLink, PoolReady, CallOngoing,
      NeverShort, JobsAgree, LostAgree, InCall, At, InFlight, Lost, InState, BeingInferred, EngineP!Ids
<1> QED
  BY <1>1, QuietSteps, QuietLink, LoadsLink, CallsLink, GetsLink, StartsLink, FailsLink, FreesLink, InfersLink,
     PutsLink, InferFailsLink, CallsBackLink, CompletesLink, SameEngine DEF SessionNext, FilterStep

LEMMA LinkInit == SessionInit => SessionLink
<1> SUFFICES ASSUME SessionInit
             PROVE  SessionLink
  OBVIOUS
<1>1. /\ EngineP!Init /\ pc = "consume" /\ freed = FALSE
  BY SameEngine DEF SessionInit, Init
<1>2. /\ size = 0 /\ alive /\ pending = {} /\ caller[FilterThread] = EngineP!Out
      /\ \A i \in EngineP!Ids : request[i].st = "absent"
  BY <1>1 DEF EngineP!Init, EngineP!Absent
<1>3. At = "out"
  BY <1>2 DEF EngineP!Out, At
<1>4. PoolReady /\ CallOngoing /\ NeverShort
  BY <1>1, <1>2, <1>3 DEF PoolReady, CallOngoing, NeverShort, InCall, At
<1>5. InFlight = {} /\ Lost = {}
  BY <1>2 DEF InFlight, Lost
<1>6. LostAgree
  <2>1. TypeInv /\ Cardinality(InState("lost")) \in Nat
    BY TypeInit, SomeRequests DEF SessionInit
  <2> QED
    BY <1>5, <2>1, FS_EmptySet DEF LostAgree
<1> QED
  BY <1>2, <1>4, <1>5, <1>6 DEF SessionLink, JobsAgree

\* What holds before the model is freed, and what after.
SessionIInv == SessionInv \/ AfterFree

LEMMA SessionStep == SessionIInv /\ [SessionNext]_allVars => SessionIInv'
<1> SUFFICES ASSUME SessionIInv, [SessionNext]_allVars
             PROVE  SessionIInv'
  OBVIOUS
<1>1. TypeInv' /\ Awaited'
  BY BackendStep, TypeStep, AwaitedStep DEF SessionIInv, SessionInv, AfterFree
<1>2. CASE SessionInv /\ ~\E r \in Requests : TooLate(r)
  BY <1>1, <1>2, EngineKept, LinkStep DEF SessionIInv, SessionInv
<1>3. CASE UNCHANGED <<engineVars, freed>> /\ AfterFree
  <2>1. [EngineP!Next]_(EngineP!vars) /\ At' = At
    BY <1>3 DEF EngineP!vars, engineVars, At
  <2>2. EngineP!EngineInv'
    BY <1>3, <2>1, PoolConstants, EngineP!BaseStep, EngineP!PartitionStep, EngineP!JobsStep
       DEF EngineP!EngineInv, AfterFree
  <2> QED
    BY <1>1, <1>3, <2>1, <2>2 DEF SessionIInv, AfterFree
<1>4. CASE \E r \in Requests : TooLate(r)
  <2>1. UNCHANGED <<engineVars, freed>> /\ freed
    BY <1>4 DEF TooLate, CallbackAfterFree, streamVars
  <2>2. AfterFree
    BY <2>1 DEF SessionIInv, SessionInv, SessionLink, NeverShort, AfterFree
  <2> QED
    BY <1>3, <2>1, <2>2
<1>5. CASE AfterFree /\ ~\E r \in Requests : TooLate(r)
  <2>1. UNCHANGED allVars
    BY <1>5 DEF SessionNext, AfterFree
  <2> QED
    BY <1>3, <1>5, <2>1 DEF allVars, vars, streamVars
<1> QED
  BY <1>2, <1>4, <1>5 DEF SessionIInv

LEMMA SessionInvariant == SessionSpec => []SessionIInv
<1>1. SessionInit => SessionInv
  <2>1. SessionInit => EngineP!EngineInv
    BY SameEngine, PoolConstants, EngineP!EngineInit DEF SessionInit
  <2> QED
    BY <2>1, LinkInit, TypeInit, AwaitedInit DEF SessionInit, SessionInv
<1>2. SessionInit => SessionIInv
  BY <1>1 DEF SessionIInv
<1> QED
  BY <1>2, SessionStep, PTL DEF SessionSpec

-----------------------------------------------------------------------------
(* For any number of requests and whatever fails, the filter's thread never *)
(* sleeps in get_idle_request: ivsr_process_async finds an infer request    *)
(* whenever the backend found a request item.                               *)
THEOREM SessionNeverSleeps == SessionSpec => []FilterNeverSleeps
<1>1. SessionIInv => FilterNeverSleeps
  BY DEF SessionIInv, SessionInv, AfterFree, SessionLink, NeverShort, FilterNeverSleeps, At
<1> QED
  BY <1>1, SessionInvariant, PTL

(* No task is given to the engine twice, the pool is made once, and unless  *)
(* an error or a teardown stopped the stream the engine is deleted with     *)
(* nobody in its pool (ff_dnn_flush_ivsr, ff_dnn_free_model_ivsr).          *)
THEOREM SessionUsesEngineAsExpected == SessionSpec => EngineAsExpected
<1>1. SessionInv /\ [SessionNext]_allVars => [pc = "stopped" \/ Engine!Next]_engineVars
  BY EngineStep, SameEngine
<1>2. AfterFree /\ [SessionNext]_allVars => UNCHANGED engineVars
  BY DEF AfterFree, SessionNext, TooLate, allVars
<1>3. SessionIInv /\ [SessionNext]_allVars => [pc = "stopped" \/ Engine!Next]_engineVars
  BY <1>1, <1>2 DEF SessionIInv
<1> QED
  BY <1>3, SessionInvariant, PTL DEF SessionSpec, EngineAsExpected

(* On the engine too, a model is freed after its last inference.            *)
THEOREM SessionFreesAfterInference == SessionSpec => []FreeFindsNoInference
BY SessionImplementsBackend, DnnFreesAfterInference, PTL

(* On the engine too, frames leave in order, each once, made from the right *)
(* neighbours, and the stream is closed with none left behind.              *)
THEOREM SessionImplementsFilter ==
  ASSUME "window" \in Kinds => FrameNum = 0
  PROVE  SessionSpec => FilterSpec
BY SessionImplementsBackend, DnnImplementsFilter, PTL
=============================================================================
