------------------------------ MODULE OvEngine ------------------------------
(***************************************************************************)
(* The inference engine (ov_engine.cpp, ov_engine.hpp): a pool of OpenVINO *)
(* infer requests.  requests_ is a vector of request wrappers that only    *)
(* grows, idleIds_ a FIFO of the ids nobody uses; mutex_ guards idleIds_   *)
(* and cv_ blocks a caller that finds it empty.  A caller (a worker thread *)
(* of the executor in run_impl, the application thread in process_impl)    *)
(* takes the id at the front, sets the request's callback and tensors,     *)
(* starts it and leaves.  OpenVINO later calls the callback on a thread of *)
(* its own: it first puts the id back and then calls whoever asked for the *)
(* job.  A job stands for what the callback captured: an InferTask, or an  *)
(* ivsr_cb_t of the application.                                           *)
(*                                                                         *)
(* The operators below are the engine's own steps.  What the engine        *)
(* expects of its users (nobody inside while the pool grows or dies) is    *)
(* stated only in Next, so that a module composing the engine has to show  *)
(* that it keeps to it.                                                    *)
(***************************************************************************)
EXTENDS Naturals, Sequences

CONSTANTS
  Callers,      \* threads that call run_impl or process_impl
  Jobs,         \* what an inference is for
  NoJob,        \* the job of a request or caller that has none
  MaxRequests   \* bound on requests_.size()

ASSUME EngineAssumption == MaxRequests \in Nat \ {0} /\ NoJob \notin Jobs

VARIABLES
  size,      \* requests_.size()
  request,   \* requests_: what each infer request is doing, and for which job
  idleIds,   \* idleIds_
  caller,    \* where each caller is inside the engine
  pending,   \* jobs whose callback has put the id back and not yet notified
  alive      \* FALSE once the engine object is deleted

vars == <<size, request, idleIds, caller, pending, alive>>

Ids == 0 .. MaxRequests - 1

\* "absent" is past requests_.size(); "done" is inside the OpenVINO callback,
\* before put_idle_request; "lost" never comes back to idleIds_.
RequestStates == {"absent", "idle", "held", "running", "done", "lost"}
Request == [st : RequestStates, job : Jobs \cup {NoJob}]
Absent  == [st |-> "absent", job |-> NoJob]
Idle    == [st |-> "idle", job |-> NoJob]

\* "get" and "asleep": in get_idle_request, before and inside cv_.wait;
\* "start": holds request id, about to set it up and start it.
Caller == [at : {"out", "get", "asleep", "start"}, job : Jobs \cup {NoJob}, id : Ids]
Out    == [at |-> "out", job |-> NoJob, id |-> 0]

TypeOK ==
  /\ size \in 0 .. MaxRequests
  /\ request \in [Ids -> Request]
  /\ idleIds \in Seq(Ids)
  /\ caller \in [Callers -> Caller]
  /\ pending \subseteq Jobs
  /\ alive \in BOOLEAN

Init ==
  /\ size = 0
  /\ request = [id \in Ids |-> Absent]
  /\ idleIds = <<>>
  /\ caller = [t \in Callers |-> Out]
  /\ pending = {}
  /\ alive = TRUE

-----------------------------------------------------------------------------
(* Mutated operations: slips the properties are there to catch. *)

\* Numbers the new requests from one.
CreateFromOne(n) ==
  /\ n \in size .. MaxRequests
  /\ size' = n
  /\ request' = [id \in Ids |-> IF id \in size .. n - 1 THEN Idle ELSE request[id]]
  /\ idleIds' = idleIds \o [k \in 1 .. n - size |-> size + k]
  /\ UNCHANGED <<caller, pending, alive>>

\* Reads the front of idleIds_ and forgets to pop it.
GetWithoutPop(t) ==
  /\ caller[t].at = "get"
  /\ idleIds # <<>>
  /\ caller' = [caller EXCEPT ![t] = [@ EXCEPT !.at = "start", !.id = Head(idleIds)]]
  /\ request' = [request EXCEPT ![Head(idleIds)] = [st |-> "held", job |-> caller[t].job]]
  /\ UNCHANGED <<size, idleIds, pending, alive>>

\* Calls whoever asked for the job before it puts the id back.
NotifyFirst(id) ==
  /\ request[id].st = "running"
  /\ request' = [request EXCEPT ![id] = [@ EXCEPT !.st = "done"]]
  /\ pending' = pending \cup {request[id].job}
  /\ UNCHANGED <<size, idleIds, caller, alive>>

\* Catches the exception and goes on as if the inference had succeeded.
FailedGoesOn(id) ==
  /\ request[id].st = "running"
  /\ request' = [request EXCEPT ![id] = [@ EXCEPT !.st = "done"]]
  /\ UNCHANGED <<size, idleIds, caller, pending, alive>>

\* Puts the id back and forgets cv_.notify_one.
PutSilently(id) ==
  /\ request[id].st = "done"
  /\ idleIds' = Append(idleIds, id)
  /\ request' = [request EXCEPT ![id] = Idle]
  /\ pending' = pending \cup {request[id].job}
  /\ UNCHANGED <<size, caller, alive>>

-----------------------------------------------------------------------------
(* create_infer_requests_impl: the ids size .. n-1 are made and queued, one *)
(* after the other and without mutex_.                                      *)
CreateInferRequests(n) ==
  /\ n \in size .. MaxRequests
  /\ size' = n
  /\ request' = [id \in Ids |-> IF id \in size .. n - 1 THEN Idle ELSE request[id]]
  /\ idleIds' = idleIds \o [k \in 1 .. n - size |-> size + k - 1]
  /\ UNCHANGED <<caller, pending, alive>>

\* Entering run_impl or process_impl, both buffers being there.
Run(t, j) ==
  /\ caller[t].at = "out"
  /\ caller' = [caller EXCEPT ![t] = [at |-> "get", job |-> j, id |-> 0]]
  /\ UNCHANGED <<size, request, idleIds, pending, alive>>

\* get_idle_request: the front of idleIds_, under mutex_.
GetIdleRequest(t) ==
  /\ caller[t].at = "get"
  /\ idleIds # <<>>
  /\ LET id == Head(idleIds) IN
       /\ caller' = [caller EXCEPT ![t] = [@ EXCEPT !.at = "start", !.id = id]]
       /\ request' = [request EXCEPT ![id] = [st |-> "held", job |-> caller[t].job]]
  /\ idleIds' = Tail(idleIds)
  /\ UNCHANGED <<size, pending, alive>>

\* cv_.wait: the predicate is false, the caller blocks and releases mutex_.
WaitForIdle(t) ==
  /\ caller[t].at = "get"
  /\ idleIds = <<>>
  /\ caller' = [caller EXCEPT ![t] = [@ EXCEPT !.at = "asleep"]]
  /\ UNCHANGED <<size, request, idleIds, pending, alive>>

\* A condition variable may wake a thread nobody notified.
SpuriousWakeUp(t) ==
  /\ caller[t].at = "asleep"
  /\ caller' = [caller EXCEPT ![t] = [@ EXCEPT !.at = "get"]]
  /\ UNCHANGED <<size, request, idleIds, pending, alive>>

\* set_callback, set_input_tensor, set_output_tensor, start_async.
StartAsync(t) ==
  /\ caller[t].at = "start"
  /\ request' = [request EXCEPT ![caller[t].id] = [@ EXCEPT !.st = "running"]]
  /\ caller' = [caller EXCEPT ![t] = Out]
  /\ UNCHANGED <<size, idleIds, pending, alive>>

\* One of these calls throws.  Nothing puts the id back.
StartThrows(t) ==
  /\ caller[t].at = "start"
  /\ request' = [request EXCEPT ![caller[t].id] = [st |-> "lost", job |-> NoJob]]
  /\ caller' = [caller EXCEPT ![t] = Out]
  /\ UNCHANGED <<size, idleIds, pending, alive>>

\* OpenVINO finishes the inference and calls the callback without exception.
InferDone(id) ==
  /\ request[id].st = "running"
  /\ request' = [request EXCEPT ![id] = [@ EXCEPT !.st = "done"]]
  /\ UNCHANGED <<size, idleIds, caller, pending, alive>>

(* OpenVINO calls the callback with an exception.  "throw ex" throws the    *)
(* exception_ptr itself, which the catch of std::exception does not match:  *)
(* it leaves the callback before put_idle_request and before the            *)
(* notification, and OpenVINO swallows it.                                  *)
InferFailed(id) ==
  /\ request[id].st = "running"
  /\ request' = [request EXCEPT ![id] = [st |-> "lost", job |-> NoJob]]
  /\ UNCHANGED <<size, idleIds, caller, pending, alive>>

\* cv_.notify_one: one of the sleeping callers, if there is one, wakes.
NotifyOne ==
  IF \E t \in Callers : caller[t].at = "asleep"
    THEN \E t \in Callers :
           /\ caller[t].at = "asleep"
           /\ caller' = [caller EXCEPT ![t] = [@ EXCEPT !.at = "get"]]
    ELSE UNCHANGED caller

\* The callback's first half: request->call_back(), which is put_idle_request.
PutIdleRequest(id) ==
  /\ request[id].st = "done"
  /\ idleIds' = Append(idleIds, id)
  /\ request' = [request EXCEPT ![id] = Idle]
  /\ pending' = pending \cup {request[id].job}
  /\ NotifyOne
  /\ UNCHANGED <<size, alive>>

\* The callback's second half: _callbackFunction, or the application's ivsr_cb.
CallBack(j) ==
  /\ j \in pending
  /\ pending' = pending \ {j}
  /\ UNCHANGED <<size, request, idleIds, caller, alive>>

\* ~ov_engine.
Destroy ==
  /\ alive
  /\ alive' = FALSE
  /\ UNCHANGED <<size, request, idleIds, caller, pending>>

-----------------------------------------------------------------------------
\* No thread is in the pool or has yet to put an id back.
Quiescent ==
  /\ \A t \in Callers : caller[t].at = "out"
  /\ \A id \in Ids : request[id].st \notin {"running", "done"}

\* The jobs the engine has been given and not yet reported.
InEngine ==
  pending \cup {caller[t].job : t \in {t \in Callers : caller[t].at # "out"}}
          \cup {request[id].job : id \in {id \in Ids : request[id].st \in {"running", "done"}}}

Next ==
  \/ alive /\ Quiescent /\ \E n \in 1 .. MaxRequests : CreateInferRequests(n)
  \/ alive /\ \E t \in Callers, j \in Jobs \ InEngine : Run(t, j)
  \/ \E t \in Callers :
       \/ GetIdleRequest(t)
       \/ WaitForIdle(t)
       \/ SpuriousWakeUp(t)
       \/ StartAsync(t)
       \/ StartThrows(t)
  \/ \E id \in Ids : InferDone(id) \/ InferFailed(id) \/ PutIdleRequest(id)
  \/ \E j \in pending : CallBack(j)
  \/ Quiescent /\ Destroy

Spec == Init /\ [][Next]_vars

-----------------------------------------------------------------------------
(* Properties *)

\* idleIds_ lists each id at most once.
IdleIdsDistinct ==
  \A k, l \in 1 .. Len(idleIds) : idleIds[k] = idleIds[l] => k = l

\* An id is in idleIds_ exactly when its request is idle.
IdleIdsExact ==
  \A id \in Ids : request[id].st = "idle" <=> \E k \in 1 .. Len(idleIds) : idleIds[k] = id

\* A request is held by exactly one caller, and a caller about to start one holds it.
HeldByOne ==
  /\ \A t \in Callers : caller[t].at = "start" => request[caller[t].id] = [st |-> "held", job |-> caller[t].job]
  /\ \A id \in Ids : request[id].st = "held" =>
       \E t \in Callers : caller[t].at = "start" /\ caller[t].id = id
  /\ \A t, u \in Callers :
       caller[t].at = "start" /\ caller[u].at = "start" /\ caller[t].id = caller[u].id => t = u

(* Every infer request of the pool is in one place: queued once, held by    *)
(* one caller, in flight or lost.  So no request is started twice           *)
(* (start_async on a busy request throws) and none is queued twice          *)
(* (get_idle_request, put_idle_request, create_infer_requests_impl).        *)
PoolPartition ==
  /\ IdleIdsDistinct
  /\ IdleIdsExact
  /\ HeldByOne
  /\ \A id \in Ids : request[id].st = "absent" <=> id >= size

(* cv_.notify_one loses no wake-up: while a caller sleeps in                *)
(* get_idle_request, each queued id has an awake caller on its way to it.   *)
NoLostWakeUp ==
  (\E t \in Callers : caller[t].at = "asleep") =>
    \E f \in [1 .. Len(idleIds) -> {t \in Callers : caller[t].at = "get"}] :
      \A k, l \in 1 .. Len(idleIds) : f[k] = f[l] => k = l

(* No job is in two inferences, or reported while it still runs: a task's   *)
(* buffers are never written by two requests, nor read by whoever asked     *)
(* before the inference is over (run_impl, process_impl).                   *)
JobInOnePlace ==
  /\ \A t, u \in Callers :
       caller[t].at # "out" /\ caller[u].at # "out" /\ caller[t].job = caller[u].job => t = u
  /\ \A i, k \in Ids :
       /\ request[i].st \in {"running", "done"}
       /\ request[k].st \in {"running", "done"}
       /\ request[i].job = request[k].job
       => i = k
  /\ \A t \in Callers, i \in Ids :
       caller[t].at # "out" /\ request[i].st \in {"running", "done"} => caller[t].job # request[i].job
  /\ \A j \in pending :
       /\ \A t \in Callers : caller[t].at # "out" => caller[t].job # j
       /\ \A i \in Ids : request[i].st \in {"running", "done"} => request[i].job # j

(* Nobody uses the pool of a deleted engine: no caller is inside it and no  *)
(* callback has yet to lock its mutex_ (~ov_engine, ivsr_deinit).           *)
DeletedIsQuiet == ~alive => Quiescent
=============================================================================
