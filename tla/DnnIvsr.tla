------------------------------ MODULE DnnIvsr ------------------------------
(***************************************************************************)
(* The ivsr backend of FFmpeg's dnn_processing filter, as the patches of   *)
(* ivsr_ffmpeg_plugin leave it: the filter's activate and flush_frame, the *)
(* backend's execute, flush, get_result and free, and                      *)
(* infer_completion_callback on OpenVINO's threads.                        *)
(*                                                                         *)
(* Models take one frame ("frame"), a window of three (TSENet, "window")   *)
(* or a group of nif frames (BasicVSR, "group").  Frame f of the stream is *)
(* the number f; so is its task, and a group's task is its last frame.     *)
(* The requests of the queue are alike, so it is kept as a set; the session*)
(* has as many infer requests (INFER_REQ_NUMBER is nireq), and gives one   *)
(* back before it makes the callback: ivsr_process_async never waits, as   *)
(* DnnSession shows.                                                       *)
(***************************************************************************)
EXTENDS Naturals, Sequences, FiniteSets, SequencesExt

CONSTANTS
  Requests,    \* the nireq request items
  MaxFrames,   \* bound on the frames of the stream
  GroupSize,   \* nif of a "group" model
  Kinds,       \* the kinds of models to load
  FrameNum,    \* the static frame_num when the filter starts: 0, or 1 when
               \* an earlier filter of the process has filled a window
  Faults       \* what may fail: "infer", "start", "quit"

ASSUME DnnAssumption ==
  /\ IsFiniteSet(Requests) /\ Requests # {}
  /\ MaxFrames \in Nat
  /\ GroupSize \in Nat \ {0}
  /\ Kinds \subseteq {"frame", "window", "group"}
  /\ FrameNum \in {0, 1}
  /\ Faults \subseteq {"infer", "start", "quit"}

VARIABLES
  kind,       \* ivsr_model->model_type, by the frames it takes
  pc,         \* where the filter's thread is
  fed,        \* frames consumed from the inlink
  ended,      \* the end of the stream was acknowledged
  freed,      \* ff_dnn_free_model_ivsr is over
  frameNum,   \* the static counter of fill_model_input_ivsr
  taskq,      \* task_queue
  lltaskq,    \* lltask_queue
  frameq,     \* frame_queue
  inq, outq,  \* in_queue and out_queue of the filter, for groups
  req,        \* each request: its state, its task, the frames it holds
  done,       \* tasks with inference_done = inference_todo
  made,       \* what each output frame shows, << >> until written
  out         \* what ff_filter_frame was given

queueVars == <<taskq, lltaskq, frameq, frameNum, inq, outq>>
streamVars == <<kind, fed, ended, freed>>
vars == <<pc, req, done, made, out, queueVars, streamVars>>

Frames == 1 .. MaxFrames

Idle == [st |-> "queued", task |-> 0, input |-> <<>>]

\* A request is "queued", with OpenVINO ("running"), in its callback with the
\* output "written" or the task "counted", or "lost".
InState(s) == {r \in Requests : req[r].st = s}

-----------------------------------------------------------------------------
ControlOK ==
  /\ kind \in Kinds
  /\ pc \in {"consume", "execute", "drain", "status", "flush", "await", "closed", "stopped"}
  /\ fed \in 0 .. MaxFrames
  /\ ended \in BOOLEAN /\ freed \in BOOLEAN

QueuesOK ==
  /\ frameNum \in {0, 1}
  /\ taskq \in Seq(Frames) /\ lltaskq \in Seq(Frames)
  /\ frameq \in Seq(Frames) /\ Len(frameq) < 3
  /\ inq \in Seq(Frames) /\ outq \in Seq(Frames)

Request == [st : {"queued", "running", "written", "counted", "lost"},
            task : Frames \cup {0}, input : Seq(Frames)]
Shot == [frame : Frames, of : Seq(Frames)]

ResultsOK ==
  /\ done \subseteq Frames
  /\ made \in [Frames -> Seq(Frames)]
  /\ out \in Seq(Shot)

DnnTypeOK == ControlOK /\ QueuesOK /\ req \in [Requests -> Request] /\ ResultsOK

Init ==
  /\ kind \in Kinds
  /\ pc = "consume"
  /\ fed = 0
  /\ ended = FALSE
  /\ freed = FALSE
  /\ frameNum = FrameNum
  /\ taskq = <<>> /\ lltaskq = <<>> /\ frameq = <<>>
  /\ inq = <<>> /\ outq = <<>>
  /\ req = [r \in Requests |-> Idle]
  /\ done = {}
  /\ made = [f \in Frames |-> <<>>]
  /\ out = <<>>

-----------------------------------------------------------------------------
(* fill_model_input_ivsr: what the next inference is given. *)

\* The frames a window model has cached, with the newest, which is cached
\* twice when it is the first the process ever sees.
Window ==
  LET f == Last(lltaskq) IN frameq \o (IF frameNum = 0 THEN <<f, f>> ELSE <<f>>)

MoreFrames == kind = "window" /\ Len(Window) < 3

Input == CASE kind = "window" -> Window
           [] kind = "group"  -> inq
           [] OTHER           -> <<Last(lltaskq)>>

(* Mutated operations: slips the properties are there to catch. *)

\* The oldest frame stays in the cache.
CacheKeepsOldest ==
  IF kind = "window" THEN frameNum' = 1 /\ frameq' = Window
                     ELSE UNCHANGED <<frameNum, frameq>>

\* inference_done is raised first, as before patch 0021.
CountsFirst(r) ==
  /\ req[r].st = "running"
  /\ done' = done \cup {req[r].task}
  /\ UNCHANGED <<pc, req, made, out, queueVars, streamVars>>

\* The callback ends without giving the request back.
KeepsRequest(r) ==
  /\ req[r].st = "counted"
  /\ UNCHANGED vars

(* What fill_model_input_ivsr does. *)

CacheFrame ==
  IF kind = "window"
    THEN frameNum' = 1 /\ frameq' = IF MoreFrames THEN Window ELSE Tail(Window)
    ELSE UNCHANGED <<frameNum, frameq>>

\* The oldest task, with the input, goes to the request.
FillInput ==
  /\ ~MoreFrames
  /\ CacheFrame
  /\ lltaskq' = Tail(lltaskq)
  /\ inq' = <<>>
  /\ UNCHANGED <<taskq, outq>>

Given(r, s) == [req EXCEPT ![r] = [st |-> s, task |-> Head(lltaskq), input |-> Input]]

\* DAST_SUCCESS, the oldest task being done.
Ready == taskq # <<>> /\ Head(taskq) \in done

-----------------------------------------------------------------------------
(* activate: a frame arrives. *)

\* A task for frame f is queued, with its one inference.
QueueTask(f) ==
  /\ taskq' = Append(taskq, f)
  /\ lltaskq' = Append(lltaskq, f)

FeedFrame ==
  /\ pc = "consume"
  /\ kind # "group"
  /\ fed < MaxFrames
  /\ fed' = fed + 1
  /\ QueueTask(fed')
  /\ pc' = "execute"
  /\ UNCHANGED <<req, done, made, out, frameq, frameNum, inq, outq, kind, ended, freed>>

\* Only a full group makes a task.
FeedGroup ==
  /\ pc = "consume"
  /\ kind = "group"
  /\ fed < MaxFrames
  /\ fed' = fed + 1
  /\ inq' = Append(inq, fed')
  /\ outq' = Append(outq, fed')
  /\ IF Len(inq') = GroupSize
       THEN QueueTask(fed') /\ pc' = "execute"
       ELSE UNCHANGED <<taskq, lltaskq>> /\ pc' = "status"
  /\ UNCHANGED <<req, done, made, out, frameq, frameNum, kind, ended, freed>>

(* ff_dnn_execute_model_ivsr waits for a request and fills it. *)

\* For a window model the inference starts when the next frame comes.
ExecuteMoreFrames ==
  /\ pc = "execute"
  /\ InState("queued") # {}
  /\ MoreFrames
  /\ CacheFrame
  /\ pc' = "consume"
  /\ UNCHANGED <<req, done, made, out, taskq, lltaskq, inq, outq, streamVars>>

ExecuteStarts(r) ==
  /\ pc = "execute"
  /\ req[r].st = "queued"
  /\ FillInput
  /\ req' = Given(r, "running")
  /\ pc' = IF kind = "group" THEN "drain" ELSE "consume"
  /\ UNCHANGED <<done, made, out, streamVars>>

\* ivsr_process_async fails: the request is queued again, its task is not.
ExecuteFails(r) ==
  /\ "start" \in Faults
  /\ pc = "execute"
  /\ req[r].st = "queued"
  /\ FillInput
  /\ pc' = "stopped"
  /\ UNCHANGED <<req, done, made, out, streamVars>>

(* No more input for now: results are sent on. *)

NoFrame ==
  /\ pc = "consume"
  /\ pc' = IF kind = "group" THEN "status" ELSE "drain"
  /\ UNCHANGED <<req, done, made, out, queueVars, streamVars>>

Shown(f) == [frame |-> f, of |-> made[f]]

\* get_result and ff_filter_frame.
SendFrame ==
  /\ pc \in {"drain", "await"}
  /\ kind # "group"
  /\ Ready
  /\ out' = Append(out, Shown(Head(taskq)))
  /\ taskq' = Tail(taskq)
  /\ UNCHANGED <<pc, req, done, made, lltaskq, frameq, frameNum, inq, outq, streamVars>>

\* One group per call of activate; the frames are the oldest of out_queue.
SendGroup ==
  /\ pc \in {"drain", "await"}
  /\ kind = "group"
  /\ Ready
  /\ Len(outq) >= GroupSize
  /\ out' = out \o [i \in 1 .. GroupSize |-> Shown(outq[i])]
  /\ outq' = SubSeq(outq, GroupSize + 1, Len(outq))
  /\ taskq' = Tail(taskq)
  /\ pc' = IF pc = "drain" THEN "consume" ELSE "await"
  /\ UNCHANGED <<req, done, made, lltaskq, frameq, frameNum, inq, streamVars>>

EndDrain ==
  /\ pc = "drain"
  /\ ~Ready
  /\ pc' = "status"
  /\ UNCHANGED <<req, done, made, out, queueVars, streamVars>>

\* activate returns, to be called again.
ActivateReturns ==
  /\ pc = "status"
  /\ pc' = "consume"
  /\ UNCHANGED <<req, done, made, out, queueVars, streamVars>>

EndOfStream ==
  /\ pc = "status"
  /\ ended' = TRUE
  /\ pc' = "flush"
  /\ UNCHANGED <<req, done, made, out, queueVars, kind, fed, freed>>

-----------------------------------------------------------------------------
(* flush_frame: ff_dnn_flush_ivsr, then every result. *)

\* Nothing is pending; or a request is taken and the window lacks frames, which
\* ends the flush in an error: the request is not given back.
FlushNothing ==
  /\ pc = "flush"
  /\ IF lltaskq = <<>>
       THEN pc' = "await" /\ UNCHANGED <<req, frameq, frameNum>>
       ELSE /\ MoreFrames
            /\ CacheFrame
            /\ \E r \in InState("queued") : req' = [req EXCEPT ![r].st = "lost"]
            /\ pc' = "stopped"
  /\ UNCHANGED <<done, made, out, taskq, lltaskq, inq, outq, streamVars>>

\* For the last frame the newest task is also the oldest.
FlushStarts(r) ==
  /\ pc = "flush"
  /\ lltaskq # <<>>
  /\ req[r].st = "queued"
  /\ FillInput
  /\ req' = Given(r, "running")
  /\ pc' = "await"
  /\ UNCHANGED <<done, made, out, streamVars>>

\* The failure is logged and forgotten, with the request.
FlushFails(r) ==
  /\ "start" \in Faults
  /\ pc = "flush"
  /\ lltaskq # <<>>
  /\ req[r].st = "queued"
  /\ FillInput
  /\ req' = Given(r, "lost")
  /\ pc' = "await"
  /\ UNCHANGED <<done, made, out, streamVars>>

EndAwait ==
  /\ pc = "await"
  /\ taskq = <<>>
  /\ pc' = "closed"
  /\ UNCHANGED <<req, done, made, out, queueVars, streamVars>>

\* The graph is torn down between two calls of activate.
Quit ==
  /\ "quit" \in Faults
  /\ pc = "consume"
  /\ pc' = "stopped"
  /\ UNCHANGED <<req, done, made, out, queueVars, streamVars>>

\* ff_dnn_free_model_ivsr: only queued requests are found, and nothing waits
\* for the others.
FreeModel ==
  /\ pc \in {"closed", "stopped"}
  /\ freed' = TRUE
  /\ UNCHANGED <<pc, req, done, made, out, queueVars, kind, fed, ended>>

-----------------------------------------------------------------------------
(* OpenVINO's threads: infer_completion_callback. *)

(* The result goes to the task's frame; that of a group to the oldest frames *)
(* of out_queue.                                                             *)
CallbackWrites(r) ==
  /\ req[r].st = "running"
  /\ req' = [req EXCEPT ![r].st = "written"]
  /\ made' = IF kind = "group"
       THEN [f \in Frames |->
              IF \E i \in 1 .. GroupSize : i <= Len(outq) /\ outq[i] = f
                THEN <<req[r].input[CHOOSE i \in 1 .. GroupSize : outq[i] = f]>>
                ELSE made[f]]
       ELSE [made EXCEPT ![req[r].task] = req[r].input]
  /\ UNCHANGED <<pc, done, out, queueVars, streamVars>>

CallbackCounts(r) ==
  /\ req[r].st = "written"
  /\ done' = done \cup {req[r].task}
  /\ req' = [req EXCEPT ![r].st = "counted"]
  /\ UNCHANGED <<pc, made, out, queueVars, streamVars>>

CallbackReturns(r) ==
  /\ req[r].st = "counted"
  /\ req' = [req EXCEPT ![r] = Idle]
  /\ UNCHANGED <<pc, done, made, out, queueVars, streamVars>>

\* The session makes no callback for an inference that failed.
InferenceFails(r) ==
  /\ "infer" \in Faults
  /\ req[r].st = "running"
  /\ req' = [req EXCEPT ![r].st = "lost"]
  /\ UNCHANGED <<pc, done, made, out, queueVars, streamVars>>

Callback(r) == CallbackWrites(r) \/ CallbackCounts(r) \/ CallbackReturns(r)

(* A callback that is still to write, to count or to give its request back  *)
(* when the model is freed uses tasks and queues that are gone.  What comes *)
(* of it is undefined; the request comes back to nobody.                    *)
CallbackAfterFree(r) ==
  /\ freed
  /\ req[r].st \in {"running", "written", "counted"}
  /\ req' = [req EXCEPT ![r].st = "lost"]
  /\ UNCHANGED <<pc, done, made, out, queueVars, streamVars>>

-----------------------------------------------------------------------------
Activate ==
  \/ FeedFrame \/ FeedGroup \/ ExecuteMoreFrames \/ NoFrame
  \/ SendFrame \/ SendGroup \/ EndDrain \/ ActivateReturns \/ EndOfStream
  \/ FlushNothing \/ EndAwait \/ FreeModel
  \/ \E r \in Requests : ExecuteStarts(r) \/ FlushStarts(r)

Next ==
  \/ /\ ~freed
     /\ \/ Activate \/ Quit
        \/ \E r \in Requests :
             ExecuteFails(r) \/ FlushFails(r) \/ Callback(r) \/ InferenceFails(r)
  \/ \E r \in Requests : CallbackAfterFree(r)

Spec == Init /\ [][Next]_vars

(* The filter's thread and OpenVINO's keep running; the stream has an end,  *)
(* which activate sees when it looks for it often enough.                   *)
Fairness ==
  /\ WF_vars(~freed /\ Activate)
  /\ SF_vars(~freed /\ EndOfStream)
  /\ \A r \in Requests : WF_vars(~freed /\ (Callback(r) \/ InferenceFails(r)))

FairSpec == Spec /\ Fairness

-----------------------------------------------------------------------------
(* Properties *)

\* What the filters around this one see of pc.
State == IF pc = "closed" THEN "complete" ELSE IF pc = "stopped" THEN "abandoned" ELSE "open"

Filter == INSTANCE FrameFilter WITH state <- State

(* However inferences end, frames leave in order, each once and made from   *)
(* the right neighbours, and the stream is closed with none left behind:    *)
(* task, inference and frame queues, filled by three functions, stay in     *)
(* step (activate, fill_model_input_ivsr, infer_completion_callback).       *)
FilterSpec == Filter!Spec

(* When a stream ended on its own, the model is freed with every inference  *)
(* over and its output written.  A callback may still have its request to   *)
(* give back, to a queue that is gone: the property does not rule that out, *)
(* and CallbackAfterFree does it (ff_dnn_free_model_ivsr,                   *)
(* infer_completion_callback).                                              *)
FreeFindsNoInference == freed /\ pc = "closed" => InState("running") \cup InState("written") = {}

(* Unless an inference fails or is refused, the stream ends: the filter     *)
(* never waits for good for a request (execute, flush) or a result (await). *)
StreamEnds == [](InState("lost") = {}) => <>freed

(* A frame of a group is made from the frame that was at its place when the *)
(* group was sent to the model: the README runs BasicVSR with nif=3.        *)
GroupFramesAreTheirOwn == kind = "group" => \A f \in DOMAIN out : out[f].of = <<f>>
============================================================================
