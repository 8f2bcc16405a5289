----------------------------- MODULE VsrSample -----------------------------
(***************************************************************************)
(* The sample client (vsr_sample.cpp) on the session it drives: main reads *)
(* the images, submits group after group with ivsr_process, or with        *)
(* ivsr_process_async when num_infer_req is given, polls the count of      *)
(* callbacks until it equals the number of groups and deinitialises.       *)
(*                                                                         *)
(* A group is a frame of IvsrSession; its number is also its callback_args,*)
(* an object of the loop's iteration that ends with it.                    *)
(* completion_callback runs on main's own thread inside ivsr_process, and  *)
(* on a thread of OpenVINO for ivsr_process_async.                         *)
(***************************************************************************)
EXTENDS IvsrSession

CONSTANT Nifs   \* the numbers of input frames models may have

ASSUME SampleAssumption == Nifs \subseteq Nat \ {0}

VARIABLES
  stage,       \* where main is: "failed", it returned -1; "undefined", it
               \* read beyond an image
  viaAsync,    \* process_fn is ivsr_process_async
  groups,      \* inputDataList.size()
  id,          \* groups whose iteration is over
  args,        \* the group whose callback_args exist, or 0
  inCallback,  \* groups whose callback runs and has not counted yet
  count,       \* count
  nif          \* NUM_INPUT_FRAMES of the session, 0 before it is asked for

sampleVars == <<stage, viaAsync, groups, id, args, inCallback, count, nif>>
allVars == <<vars, sampleVars>>

SampleInit ==
  /\ Init
  /\ stage = "init"
  /\ viaAsync \in BOOLEAN
  /\ groups = 0
  /\ id = 0
  /\ args = 0
  /\ inCallback = {}
  /\ count = 0
  /\ nif = 0

-----------------------------------------------------------------------------
(* Mutated operations: slips the properties are there to catch. *)

\* Deinitialises after the last call, as the synchronous function would allow.
PollNothing ==
  /\ stage = "poll"
  /\ stage' = "deinit"
  /\ UNCHANGED <<vars, viaAsync, groups, id, args, inCallback, count, nif>>

\* The iteration does not wait for the call.
EndIterationEarly ==
  /\ stage = "call"
  /\ stage' = "submit"
  /\ id' = id + 1
  /\ args' = 0
  /\ UNCHANGED <<vars, viaAsync, groups, inCallback, count, nif>>

\* Counts without _mutex: callbacks that read the same count raise it once.
CountsUnlocked(f) ==
  /\ count' = count + 1
  /\ \E g \in SUBSET inCallback : f \in g /\ inCallback' = inCallback \ g
  /\ UNCHANGED <<vars, stage, viaAsync, groups, id, args, nif>>

-----------------------------------------------------------------------------
(* main *)

InitSucceeds ==
  /\ stage = "init"
  /\ IvsrInit
  /\ stage' = "prepare"
  /\ UNCHANGED <<viaAsync, groups, id, args, inCallback, count, nif>>

\* A bad command line, no images, or ivsr_init < 0.
InitFails ==
  /\ stage = "init"
  /\ stage' = "failed"
  /\ UNCHANGED <<vars, viaAsync, groups, id, args, inCallback, count, nif>>

\* NUM_INPUT_FRAMES; fewer files than that end the program with the session up.
NotEnoughFrames ==
  /\ stage = "prepare"
  /\ \E n \in Nifs : nif' = n /\ n > 1
  /\ stage' = "failed"
  /\ UNCHANGED <<vars, viaAsync, groups, id, args, inCallback, count>>

(* With enough files, one group per nif files up to nig.  The tensor of a   *)
(* group takes nif images from the buffer of its first image, which holds   *)
(* one: with nif > 1 the copy reads past its end.                           *)
PrepareInputs ==
  /\ stage = "prepare"
  /\ nif' \in Nifs
  /\ IF nif' = 1 THEN \E n \in 0 .. MaxFrames : groups' = n /\ stage' = "submit"
                 ELSE groups' = 0 /\ stage' \in {"undefined", "submit"}
  /\ UNCHANGED <<vars, viaAsync, id, args, inCallback, count>>

\* An iteration: the callback's argument, then the call.  An image that could
\* not be read has no data.
Submit ==
  /\ stage = "submit"
  /\ id < groups
  /\ IF viaAsync /\ NPatches = 1 THEN ProcessAsync \/ ProcessNoInput
                                 ELSE Process \/ ProcessNoInput
  /\ stage' = "call"
  /\ args' = id + 1
  /\ UNCHANGED <<viaAsync, groups, id, inCallback, count, nif>>

\* ivsr_process calls completion_callback itself and returns.
ReturnsAfterCallback ==
  /\ ProcessReturns
  /\ count' = count + 1
  /\ UNCHANGED <<stage, viaAsync, groups, id, args, inCallback, nif>>

\* A call that failed is only reported on the console.
EndIteration ==
  /\ stage = "call"
  /\ pc = "app"
  /\ stage' = "submit"
  /\ id' = id + 1
  /\ args' = 0
  /\ UNCHANGED <<vars, viaAsync, groups, inCallback, count, nif>>

EndLoop ==
  /\ stage = "submit"
  /\ id = groups
  /\ stage' = "poll"
  /\ UNCHANGED <<vars, viaAsync, groups, id, args, inCallback, count, nif>>

\* while (count != id); then the outputs are saved, and main gives up with the
\* session still up when it was not told where.
PollEnds ==
  /\ stage = "poll"
  /\ count = id
  /\ stage' \in {"deinit", "failed"}
  /\ UNCHANGED <<vars, viaAsync, groups, id, args, inCallback, count, nif>>

CallDeinit ==
  /\ stage = "deinit"
  /\ DeinitEngine
  /\ UNCHANGED sampleVars

MainReturns ==
  /\ stage = "deinit"
  /\ pc = "gone"
  /\ stage' = "end"
  /\ UNCHANGED <<vars, viaAsync, groups, id, args, inCallback, count, nif>>

Main ==
  \/ InitSucceeds \/ InitFails \/ NotEnoughFrames \/ PrepareInputs
  \/ Submit \/ ReturnsAfterCallback \/ EndIteration \/ EndLoop \/ PollEnds
  \/ CallDeinit \/ MainReturns

-----------------------------------------------------------------------------
(* completion_callback on a thread of OpenVINO *)

CallbackEnters(f) ==
  /\ <<f, 0>> \in pending
  /\ Notifies(<<f, 0>>)
  /\ inCallback' = inCallback \cup {f}
  /\ UNCHANGED <<stage, viaAsync, groups, id, args, count, nif>>

\* count += 1 under _mutex.
CallbackCounts(f) ==
  /\ f \in inCallback
  /\ count' = count + 1
  /\ inCallback' = inCallback \ {f}
  /\ UNCHANGED <<vars, stage, viaAsync, groups, id, args, nif>>

-----------------------------------------------------------------------------
Library ==
  /\ \/ InCall \/ GrowThrows \/ AsyncStartThrows \/ InExecutor \/ GetsRequest(App)
     \/ \E w \in Workers :
          WorkerLoop(w) \/ WorkerRuns(w) \/ WorkerStarts(w) \/ WorkerReturns(w)
            \/ WorkerStartThrows(w) \/ GetsRequest(w)
     \/ \E i \in Engine!Ids : InferDone(i) \/ InferFailed(i) \/ PutsRequestBack(i)
     \/ \E j \in pending : j[2] # 0 /\ Notifies(j)
  /\ UNCHANGED sampleVars

SampleNext ==
  /\ stage \notin {"end", "failed", "undefined"}
  /\ pc # "terminated"
  /\ Main \/ Library \/ \E f \in Frames : CallbackEnters(f) \/ CallbackCounts(f)

(* Every thread runs, as in IvsrSession; main, unlike the application       *)
(* there, also keeps calling.                                               *)
SampleFairness ==
  /\ WF_allVars(Main \/ (InCall /\ UNCHANGED sampleVars))
  /\ \A w \in Workers : WF_allVars(WorkerStep(w) /\ UNCHANGED sampleVars)
  /\ \A i \in Engine!Ids :
       WF_allVars((InferDone(i) \/ InferFailed(i) \/ PutsRequestBack(i)) /\ UNCHANGED sampleVars)
  /\ \A j \in Jobs : WF_allVars(j[2] # 0 /\ Notifies(j) /\ UNCHANGED sampleVars)
  /\ \A f \in Frames : WF_allVars(CallbackEnters(f)) /\ WF_allVars(CallbackCounts(f))

SampleSpec == SampleInit /\ [][SampleNext]_allVars /\ SampleFairness

-----------------------------------------------------------------------------
(* Properties *)

(* The client is an application the session is made for: above all it       *)
(* deinitialises only when every accepted call has had its callback, though *)
(* all it looks at is a count that other threads raise.                     *)
SessionSpec == Spec

(* The outputs are read, and the session is closed, only when every group   *)
(* was inferred and its callback is over: a refused or failed group, which  *)
(* has no callback, keeps main in its loop (main lines 425-444).            *)
EndsOnlyComplete ==
  stage \in {"deinit", "end"} =>
    /\ inCallback = {}
    /\ delivered = 1 .. groups
    /\ \A f \in 1 .. groups : \E j \in inferred : j[1] = f

(* With ivsr_process the argument of a callback is alive and its group's   *)
(* own when the callback is made.  ivsr_process_async returns before, and   *)
(* then callback_args is gone or belongs to a later iteration.              *)
CallbackArgsInSyncMode ==
  [][~viaAsync => \A f \in delivered' \ delivered : stage = "call" /\ args = f]_allVars

(* Unless something fails the client ends: every iteration is left, the     *)
(* count reaches the number of groups, the session is closed.               *)
SampleEnds == [](~faulty) => <>(stage \in {"end", "failed", "undefined"})
=============================================================================
