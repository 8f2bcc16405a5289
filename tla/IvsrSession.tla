---------------------------- MODULE IvsrSession ----------------------------
(***************************************************************************)
(* One session of the ivsr API (ivsr.cpp) with one application thread: the *)
(* engine and the executor composed by ivsr_init, ivsr_process,            *)
(* ivsr_process_async and ivsr_deinit.  The application calls one function *)
(* at a time, as vsr_sample and the FFmpeg plugin do.  What the session     *)
(* expects of it is stated only in Next: it deinitialises only when every  *)
(* accepted call has had its callback (VsrSample shows that the sample     *)
(* client keeps to that).                                                  *)
(*                                                                         *)
(* A job is <<f, p>>: patch p of the frame of call f, or p = 0 for a whole *)
(* frame given to the engine by ivsr_process_async.                        *)
(***************************************************************************)
EXTENDS Naturals, Sequences, FiniteSets

CONSTANTS
  Workers,        \* the executor's threads (8 in ivsr_init)
  App,            \* the application thread
  NPatches,       \* patches of a frame; more than one is the patch solution
  InferRequests,  \* INFER_REQ_NUMBER
  MaxFrames,      \* bound on the number of calls
  Faults          \* which of "infer", "start", "null", "grow" may go wrong

ASSUME SessionAssumption ==
  /\ App \notin Workers /\ IsFiniteSet(Workers)
  /\ NPatches \in Nat \ {0}
  /\ InferRequests \in Nat \ {0}
  /\ MaxFrames \in Nat
  /\ Faults \subseteq {"infer", "start", "null", "grow"}

VARIABLES
  size, request, idleIds, caller, pending, alive,
  taskQueue, worker, cbCounter, isStopped, client, target, batch, called,
  pc,         \* where the application is in the API; "app" is outside it
  frame,      \* calls made
  patch,      \* patches of this call enqueued
  accepted,   \* calls of ivsr_process_async or ivsr_process that returned OK
  failed,     \* calls that returned an error
  delivered,  \* calls whose application callback was called
  inferred,   \* jobs whose inference completed
  faulty      \* history: whether something of Faults has happened

engineVars  == <<size, request, idleIds, caller, pending, alive>>
execVars    == <<taskQueue, worker, cbCounter, isStopped, client, target, batch, called>>
sessionVars == <<pc, frame, patch, accepted, failed, delivered, inferred, faulty>>
vars == <<engineVars, execVars, sessionVars>>

Frames == 1 .. MaxFrames
Jobs   == Frames \X (0 .. NPatches)
NoJob  == <<0, 0>>
MaxRequests == IF InferRequests > NPatches THEN InferRequests ELSE NPatches

Engine   == INSTANCE OvEngine WITH Callers <- Workers \cup {App}
inEngine == {j \in Engine!InEngine : j[2] # 0}
Executor == INSTANCE ThreadExecutor WITH Tasks <- Jobs, NoTask <- NoJob

PcValues == {"init", "app", "grow", "enqueue", "wait", "proc", "deleted", "gone", "terminated"}

TypeOK ==
  /\ Engine!TypeOK
  /\ Executor!TypeOK
  /\ pc \in PcValues
  /\ frame \in 0 .. MaxFrames
  /\ patch \in 0 .. NPatches
  /\ accepted \cup failed \cup delivered \subseteq 1 .. frame
  /\ inferred \subseteq Jobs
  /\ faulty \in BOOLEAN

Init ==
  /\ Engine!Init
  /\ Executor!Init
  /\ pc = "init"
  /\ frame = 0
  /\ patch = 0
  /\ accepted = {}
  /\ failed = {}
  /\ delivered = {}
  /\ inferred = {}
  /\ faulty = FALSE

-----------------------------------------------------------------------------
(* Mutated operations: slips the properties are there to catch. *)

\* Counts the patches of the frame one short when it sizes the pool.
GrowPoolShort ==
  /\ pc = "grow"
  /\ IF NPatches - 1 > size THEN Engine!CreateInferRequests(NPatches - 1) ELSE UNCHANGED engineVars
  /\ pc' = "enqueue"
  /\ UNCHANGED <<execVars, frame, patch, accepted, failed, delivered, inferred, faulty>>

\* Enqueues one patch too many.
EnqueueOneMore ==
  /\ pc = "enqueue"
  /\ patch <= NPatches
  /\ Executor!Enqueue(<<frame, patch + 1>>)
  /\ patch' = patch + 1
  /\ UNCHANGED <<engineVars, pc, frame, accepted, failed, delivered, inferred, faulty>>

\* Waits for all patches but one.
WaitForAllButOne ==
  /\ pc = "enqueue"
  /\ patch = NPatches
  /\ Executor!WaitAll(NPatches - 1)
  /\ pc' = "wait"
  /\ UNCHANGED <<engineVars, frame, patch, accepted, failed, delivered, inferred, faulty>>

-----------------------------------------------------------------------------
(* The application thread *)

\* ivsr_init, successful: the engine gets its first requests, then the
\* executor starts its threads.
IvsrInit ==
  /\ pc = "init"
  /\ Engine!CreateInferRequests(InferRequests)
  /\ pc' = "app"
  /\ UNCHANGED <<execVars, frame, patch, accepted, failed, delivered, inferred, faulty>>

(* ivsr_process, to the end of generatePatch; ivsr_process_async with the   *)
(* patch solution is the same call.                                         *)
Process ==
  /\ pc = "app"
  /\ frame < MaxFrames
  /\ frame' = frame + 1
  /\ patch' = 0
  /\ pc' = "grow"
  /\ UNCHANGED <<engineVars, execVars, accepted, failed, delivered, inferred, faulty>>

\* Either function without an input: GENERAL_ERROR at once.
ProcessNoInput ==
  /\ pc = "app"
  /\ "null" \in Faults
  /\ frame < MaxFrames
  /\ frame' = frame + 1
  /\ failed' = failed \cup {frame'}
  /\ faulty' = TRUE
  /\ UNCHANGED <<engineVars, execVars, pc, patch, accepted, delivered, inferred>>

\* One infer request for each patch, made without the engine's mutex_.
GrowPool ==
  /\ pc = "grow"
  /\ IF NPatches > size THEN Engine!CreateInferRequests(NPatches) ELSE UNCHANGED engineVars
  /\ pc' = "enqueue"
  /\ UNCHANGED <<execVars, frame, patch, accepted, failed, delivered, inferred, faulty>>

\* OpenVINO throws while making one of them; those made so far stay.
GrowThrows ==
  /\ pc = "grow"
  /\ "grow" \in Faults
  /\ \E n \in size .. NPatches - 1 : Engine!CreateInferRequests(n)
  /\ failed' = failed \cup {frame}
  /\ pc' = "app"
  /\ faulty' = TRUE
  /\ UNCHANGED <<execVars, frame, patch, accepted, delivered, inferred>>

EnqueuePatch ==
  /\ pc = "enqueue"
  /\ patch < NPatches
  /\ Executor!Enqueue(<<frame, patch + 1>>)
  /\ patch' = patch + 1
  /\ UNCHANGED <<engineVars, pc, frame, accepted, failed, delivered, inferred, faulty>>

WaitForPatches ==
  /\ pc = "enqueue"
  /\ patch = NPatches
  /\ Executor!WaitAll(NPatches)
  /\ pc' = "wait"
  /\ UNCHANGED <<engineVars, frame, patch, accepted, failed, delivered, inferred, faulty>>

\* The application's turns inside Enqueue, wait_all and the destructor.
InExecutor ==
  /\ \/ Executor!EnqueueNotifies
     \/ Executor!SyncReturns
     \/ Executor!SyncBlocks
     \/ Executor!SyncWakesSpuriously
     \/ Executor!Reset
     \/ Executor!StopNotifies
  /\ UNCHANGED <<engineVars, sessionVars>>

\* restoreImageFromPatches, the user's callback, return OK; the patches are freed.
ProcessReturns ==
  /\ pc = "wait"
  /\ client = "out"
  /\ delivered' = delivered \cup {frame}
  /\ accepted' = accepted \cup {frame}
  /\ pc' = "app"
  /\ UNCHANGED <<engineVars, execVars, frame, patch, failed, inferred, faulty>>

\* ivsr_process_async without patches: process_impl on the application's thread.
ProcessAsync ==
  /\ pc = "app"
  /\ NPatches = 1
  /\ frame < MaxFrames
  /\ frame' = frame + 1
  /\ Engine!Run(App, <<frame', 0>>)
  /\ pc' = "proc"
  /\ UNCHANGED <<execVars, patch, accepted, failed, delivered, inferred, faulty>>

\* The same with a null output: process_impl returns GENERAL_ERROR, which
\* ivsr_process_async does not look at.
ProcessAsyncNull ==
  /\ pc = "app"
  /\ NPatches = 1
  /\ "null" \in Faults
  /\ frame < MaxFrames
  /\ frame' = frame + 1
  /\ accepted' = accepted \cup {frame'}
  /\ faulty' = TRUE
  /\ UNCHANGED <<engineVars, execVars, pc, patch, failed, delivered, inferred>>

AsyncStarts ==
  /\ pc = "proc"
  /\ Engine!StartAsync(App)
  /\ UNCHANGED <<execVars, sessionVars>>

\* set_input_tensor, set_output_tensor or start_async throws: caught, UNKNOWN_ERROR.
AsyncStartThrows ==
  /\ pc = "proc"
  /\ "start" \in Faults
  /\ Engine!StartThrows(App)
  /\ failed' = failed \cup {frame}
  /\ pc' = "app"
  /\ faulty' = TRUE
  /\ UNCHANGED <<execVars, frame, patch, accepted, delivered, inferred>>

AsyncReturns ==
  /\ pc = "proc"
  /\ caller[App].at = "out"
  /\ accepted' = accepted \cup {frame}
  /\ pc' = "app"
  /\ UNCHANGED <<engineVars, execVars, frame, patch, failed, delivered, inferred, faulty>>

\* ivsr_deinit deletes the engine first,
DeinitEngine ==
  /\ pc = "app"
  /\ Engine!Destroy
  /\ pc' = "deleted"
  /\ UNCHANGED <<execVars, frame, patch, accepted, failed, delivered, inferred, faulty>>

\* then the executor, whose destructor stops and joins the workers,
DeinitExecutor ==
  /\ pc = "deleted"
  /\ Executor!Stop
  /\ UNCHANGED <<engineVars, sessionVars>>

\* and last the handle.
DeinitReturns ==
  /\ pc = "deleted"
  /\ Executor!Join
  /\ pc' = "gone"
  /\ UNCHANGED <<engineVars, frame, patch, accepted, failed, delivered, inferred, faulty>>

-----------------------------------------------------------------------------
(* The workers *)

WorkerLoop(w) ==
  /\ pc # "init"
  /\ \/ Executor!TakeTask(w)
     \/ Executor!WorkerBlocks(w)
     \/ Executor!WorkerWakesSpuriously(w)
     \/ Executor!WorkerExits(w)
  /\ UNCHANGED <<engineVars, sessionVars>>

\* run_impl with both buffers.
WorkerRuns(w) ==
  /\ Executor!CallRun(w)
  /\ Engine!Run(w, worker[w].task)
  /\ UNCHANGED sessionVars

\* run_impl without an output buffer returns at once; Execute ignores that.
WorkerRunsNull(w) ==
  /\ "null" \in Faults
  /\ NPatches = 1
  /\ Executor!CallRun(w)
  /\ faulty' = TRUE
  /\ UNCHANGED <<engineVars, pc, frame, patch, accepted, failed, delivered, inferred>>

WorkerStarts(w) ==
  /\ Engine!StartAsync(w)
  /\ UNCHANGED <<execVars, sessionVars>>

\* An exception that leaves a worker's function ends the program.
WorkerStartThrows(w) ==
  /\ "start" \in Faults
  /\ Engine!StartThrows(w)
  /\ pc' = "terminated"
  /\ faulty' = TRUE
  /\ UNCHANGED <<execVars, frame, patch, accepted, failed, delivered, inferred>>

WorkerReturns(w) ==
  /\ caller[w].at = "out"
  /\ Executor!RunReturns(w)
  /\ UNCHANGED <<engineVars, sessionVars>>

\* get_idle_request, for a worker or the application.
GetsRequest(t) ==
  /\ \/ Engine!GetIdleRequest(t)
     \/ Engine!WaitForIdle(t)
     \/ Engine!SpuriousWakeUp(t)
  /\ UNCHANGED <<execVars, sessionVars>>

-----------------------------------------------------------------------------
(* OpenVINO's threads *)

InferDone(id) ==
  /\ Engine!InferDone(id)
  /\ inferred' = inferred \cup {request[id].job}
  /\ UNCHANGED <<execVars, pc, frame, patch, accepted, failed, delivered, faulty>>

InferFailed(id) ==
  /\ "infer" \in Faults
  /\ Engine!InferFailed(id)
  /\ faulty' = TRUE
  /\ UNCHANGED <<execVars, pc, frame, patch, accepted, failed, delivered, inferred>>

PutsRequestBack(id) ==
  /\ Engine!PutIdleRequest(id)
  /\ UNCHANGED <<execVars, sessionVars>>

\* Who the callback reports to: the executor's counter, or the application.
Notifies(j) ==
  /\ Engine!CallBack(j)
  /\ IF j[2] # 0
       THEN Executor!CompetitionCallBack(j) /\ UNCHANGED delivered
       ELSE delivered' = delivered \cup {j[1]} /\ UNCHANGED execVars
  /\ UNCHANGED <<pc, frame, patch, accepted, failed, inferred, faulty>>

-----------------------------------------------------------------------------
AppNext ==
  \/ IvsrInit \/ Process \/ ProcessNoInput \/ GrowPool \/ GrowThrows \/ EnqueuePatch \/ WaitForPatches
  \/ InExecutor \/ ProcessReturns
  \/ ProcessAsync \/ ProcessAsyncNull \/ AsyncStarts \/ AsyncStartThrows \/ AsyncReturns
  \/ accepted \subseteq delivered /\ DeinitEngine
  \/ DeinitExecutor \/ DeinitReturns

WorkerNext(w) ==
  WorkerLoop(w) \/ WorkerRuns(w) \/ WorkerRunsNull(w) \/ WorkerStarts(w) \/ WorkerStartThrows(w)
  \/ WorkerReturns(w)

OpenVinoNext ==
  \/ \E id \in Engine!Ids : InferDone(id) \/ InferFailed(id) \/ PutsRequestBack(id)
  \/ \E j \in pending : Notifies(j)

Next ==
  /\ pc # "terminated"
  /\ \/ AppNext
     \/ \E w \in Workers : WorkerNext(w)
     \/ \E t \in Workers \cup {App} : GetsRequest(t)
     \/ OpenVinoNext

Spec == Init /\ [][Next]_vars

(* Every thread keeps running: the application inside a call, the workers,  *)
(* the threads of OpenVINO, which answers every inference it starts.        *)
(* Nothing obliges the application to make another call or to deinitialise, *)
(* and no wake-up may be owed to chance: the spurious ones have no fairness. *)
InCall ==
  \/ GrowPool \/ EnqueuePatch \/ WaitForPatches
  \/ (Executor!EnqueueNotifies \/ Executor!SyncReturns \/ Executor!SyncBlocks \/ Executor!Reset
        \/ Executor!StopNotifies) /\ UNCHANGED <<engineVars, sessionVars>>
  \/ (Engine!GetIdleRequest(App) \/ Engine!WaitForIdle(App)) /\ UNCHANGED <<execVars, sessionVars>>
  \/ AsyncStarts \/ AsyncReturns \/ DeinitExecutor \/ DeinitReturns

WorkerStep(w) ==
  \/ pc # "init" /\ (Executor!TakeTask(w) \/ Executor!WorkerBlocks(w) \/ Executor!WorkerExits(w))
      /\ UNCHANGED <<engineVars, sessionVars>>
  \/ (Engine!GetIdleRequest(w) \/ Engine!WaitForIdle(w)) /\ UNCHANGED <<execVars, sessionVars>>
  \/ WorkerRuns(w) \/ WorkerStarts(w) \/ WorkerReturns(w)

Fairness ==
  /\ WF_vars(IvsrInit \/ InCall \/ ProcessReturns)
  /\ \A w \in Workers : WF_vars(WorkerStep(w))
  /\ \A id \in Engine!Ids : WF_vars(InferDone(id) \/ InferFailed(id) \/ PutsRequestBack(id))
  /\ \A j \in Jobs : WF_vars(Notifies(j))

FairSpec == Spec /\ Fairness

-----------------------------------------------------------------------------
(* Properties *)

\* The requests and jobs of the engine that OpenVINO or a caller works on.
Busy == {id \in Engine!Ids : request[id].st \in {"held", "running", "done"}}
Lost == {id \in Engine!Ids : request[id].st = "lost"}

(* The session keeps to what the engine expects: the pool grows without its *)
(* mutex_, and the engine is deleted before the executor, only while nobody *)
(* else is in the pool (ivsr_process, ivsr_deinit).                         *)
EngineSpec == Engine!Spec

(* The session keeps to what the executor expects: wait_all is given the    *)
(* number of tasks enqueued since the last reset, and a task completes at   *)
(* most once (ivsr_process, run_impl's callback).                           *)
ExecutorSpec == Executor!Spec

(* Inference into the patch buffers of a call happens only during the call: *)
(* SmartPatch frees them when ivsr_process returns.                         *)
NoInferenceIntoFreedPatches ==
  \A id \in Busy : request[id].job[2] # 0 =>
    pc \in {"enqueue", "wait", "terminated"} /\ request[id].job[1] = frame

(* Between calls, with every accepted callback made, every request is back  *)
(* in the pool or lost to a fault: the next call finds the requests it      *)
(* counts on (the callback puts the id back before it notifies).            *)
PoolRestored ==
  pc = "app" /\ accepted \subseteq delivered => Len(idleIds) + Cardinality(Lost) = size

(* A worker with a patch never waits for a request: the pool has one for    *)
(* each patch of the frame (ivsr_process, lines 457-464).                   *)
PatchNeverWaits ==
  NPatches > 1 /\ Lost = {} => \A w \in Workers : caller[w].at # "asleep"

(* After ivsr_deinit deletes the engine nobody is in it, and after it joins *)
(* the workers no callback has yet to reach the executor.                   *)
NoUseAfterDelete ==
  /\ Engine!DeletedIsQuiet
  /\ client = "gone" => \A j \in pending : j[2] = 0

\* The abstract service: a frame's patches are its parts.
Service == INSTANCE VsrService WITH
  NParts   <- NPatches,
  up       <- alive,
  inferred <- {<<j[1], IF j[2] = 0 THEN 1 ELSE j[2]>> : j \in inferred},
  status   <- [f \in Frames |-> IF f \in delivered THEN "delivered"
                               ELSE IF f \in failed THEN "failed"
                               ELSE IF f <= frame THEN "open" ELSE "new"]

(* The session implements the service: a callback is made only after all    *)
(* patches of its frame are inferred, a failed call infers nothing, and the *)
(* session is closed with no frame open.                                    *)
ServiceSpec == Service!Spec

(* Without faults every frame submitted is inferred and delivered.          *)
ServiceProgress == [](~faulty) => Service!Progress

(* Without faults every call returns: ivsr_process, ivsr_process_async and  *)
(* ivsr_deinit.                                                             *)
CallsReturn ==
  [](~faulty) => /\ pc \in {"grow", "enqueue", "wait", "proc"} ~> pc = "app"
                 /\ pc = "deleted" ~> pc = "gone"

(* The README's promise for the process functions, faults or not: a call    *)
(* returns a status to say whether processing succeeded.                    *)
ProcessReturnsStatus == pc \in {"grow", "enqueue", "wait"} ~> pc \in {"app", "terminated"}
============================================================================
