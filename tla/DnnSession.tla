----------------------------- MODULE DnnSession -----------------------------
(***************************************************************************)
(* The backend of FFmpeg's filter on the engine of its session.  DnnIvsr   *)
(* keeps the requests of the backend, and takes ivsr_process_async for a   *)
(* call that returns; OvEngine keeps the infer requests of the session,    *)
(* of which ivsr_init makes nireq.  Here the filter's thread is a caller   *)
(* of the engine, a task is a job of it, and the engine's callback is what *)
(* calls infer_completion_callback.  The frame has the size of the model,  *)
(* so there is no patch, and the executor has nothing to do.               *)
(*                                                                         *)
(* What is filled in before the call is filled in here when the call       *)
(* starts the inference: only the filter's thread looks at it in between.  *)
(***************************************************************************)
EXTENDS DnnIvsr

CONSTANT FilterThread   \* the thread that runs the filter

VARIABLES size, request, idleIds, caller, pending, alive   \* of OvEngine

engineVars == <<size, request, idleIds, caller, pending, alive>>
allVars == <<vars, engineVars>>

NReq == Cardinality(Requests)

Engine == INSTANCE OvEngine
  WITH Callers <- {FilterThread}, Jobs <- Frames, NoJob <- 0, MaxRequests <- NReq

SessionInit == Init /\ Engine!Init

InCall == caller[FilterThread].at # "out"

-----------------------------------------------------------------------------
(* Mutated operations: slips the properties are there to catch. *)

\* INFER_REQ_NUMBER does not reach ivsr_init, whose default is one.
LoadsOneRequest ==
  /\ size = 0
  /\ Engine!CreateInferRequests(1)
  /\ UNCHANGED vars

-----------------------------------------------------------------------------
(* The filter's thread *)

\* ff_dnn_load_model_ivsr: ivsr_init with INFER_REQ_NUMBER.
LoadsModel ==
  /\ size = 0
  /\ Engine!CreateInferRequests(NReq)
  /\ UNCHANGED vars

\* Everything the filter does outside ivsr_process_async and ivsr_deinit.
Filters ==
  /\ size > 0 /\ ~InCall
  /\ \/ FeedFrame \/ FeedGroup \/ ExecuteMoreFrames \/ NoFrame
     \/ SendFrame \/ SendGroup \/ EndDrain \/ ActivateReturns
     \/ FlushNothing \/ EndAwait
  /\ UNCHANGED engineVars

SeesEnd ==
  /\ size > 0 /\ ~InCall
  /\ EndOfStream
  /\ UNCHANGED engineVars

TornDown ==
  /\ size > 0 /\ ~InCall
  /\ Quit
  /\ UNCHANGED engineVars

\* A request of the backend is there for the oldest task: ivsr_process_async,
\* called by execute or by flush.
Calls ==
  /\ ~InCall
  /\ pc \in {"execute", "flush"}
  /\ lltaskq # <<>> /\ ~MoreFrames
  /\ InState("queued") # {}
  /\ Engine!Run(FilterThread, Head(lltaskq))
  /\ UNCHANGED vars

\* get_idle_request.
GetsRequest ==
  /\ \/ Engine!GetIdleRequest(FilterThread)
     \/ Engine!WaitForIdle(FilterThread)
     \/ Engine!SpuriousWakeUp(FilterThread)
  /\ UNCHANGED vars

Starts ==
  /\ Engine!StartAsync(FilterThread)
  /\ \E r \in Requests : ExecuteStarts(r) \/ FlushStarts(r)

Fails ==
  /\ Engine!StartThrows(FilterThread)
  /\ \E r \in Requests : ExecuteFails(r) \/ FlushFails(r)

\* The queues are destroyed, then ivsr_deinit deletes the engine.
Frees ==
  /\ FreeModel
  /\ Engine!Destroy

-----------------------------------------------------------------------------
(* OpenVINO's threads *)

Infers(id) ==
  /\ Engine!InferDone(id)
  /\ UNCHANGED vars

FailsToInfer(id) ==
  /\ Engine!InferFailed(id)
  /\ \E r \in Requests : req[r].task = request[id].job /\ InferenceFails(r)

PutsRequestBack(id) ==
  /\ Engine!PutIdleRequest(id)
  /\ UNCHANGED vars

\* infer_completion_callback begins, with the request item it was set up with,
CallsBack(f) ==
  /\ Engine!CallBack(f)
  /\ \E r \in Requests : req[r].task = f /\ CallbackWrites(r)

\* and ends.
Completes(r) ==
  /\ CallbackCounts(r) \/ CallbackReturns(r)
  /\ UNCHANGED engineVars

\* Model and engine are gone.
TooLate(r) ==
  /\ CallbackAfterFree(r)
  /\ UNCHANGED engineVars

-----------------------------------------------------------------------------
FilterStep == LoadsModel \/ Filters \/ SeesEnd \/ Calls \/ Starts \/ Frees

SessionNext ==
  \/ /\ ~freed
     /\ \/ FilterStep \/ GetsRequest \/ TornDown \/ Fails
        \/ \E id \in Engine!Ids : Infers(id) \/ FailsToInfer(id) \/ PutsRequestBack(id)
        \/ \E f \in pending : CallsBack(f)
        \/ \E r \in Requests : Completes(r)
  \/ \E r \in Requests : TooLate(r)

SessionSpec == SessionInit /\ [][SessionNext]_allVars

(* The filter's thread and OpenVINO's keep running; the stream has an end,  *)
(* which activate sees when it looks for it often enough.  Nothing is owed  *)
(* to spurious wake-ups or to faults.                                       *)
SessionFairness ==
  /\ WF_allVars(~freed /\ (FilterStep \/ (Engine!GetIdleRequest(FilterThread) /\ UNCHANGED vars)))
  /\ SF_allVars(~freed /\ SeesEnd)
  /\ \A id \in Engine!Ids : WF_allVars(~freed /\ (Infers(id) \/ FailsToInfer(id) \/ PutsRequestBack(id)))
  /\ \A f \in Frames : WF_allVars(~freed /\ CallsBack(f))
  /\ \A r \in Requests : WF_allVars(~freed /\ Completes(r))

SessionFairSpec == SessionSpec /\ SessionFairness

-----------------------------------------------------------------------------
(* Properties *)

(* The filter's thread never sleeps in get_idle_request, where nothing      *)
(* would tell the graph that it hangs: whenever the backend has a request   *)
(* left the session has one, because the session's is put back first, and   *)
(* both lose theirs to the same faults (ivsr_process_async,                 *)
(* put_idle_request, infer_completion_callback).                            *)
FilterNeverSleeps == caller[FilterThread].at # "asleep"

(* The backend keeps to what the engine expects, other than after an error  *)
(* or a teardown: no task is given to it twice, and it is deleted only when *)
(* nobody is in the pool (ff_dnn_flush_ivsr, ff_dnn_free_model_ivsr).       *)
EngineAsExpected == [][pc = "stopped" \/ Engine!Next]_engineVars

(* On the engine the backend does what DnnIvsr says, with its fairness: a   *)
(* call of ivsr_process_async returns, and its callback comes unless the    *)
(* inference failed.                                                        *)
BackendSpec == FairSpec
=============================================================================
