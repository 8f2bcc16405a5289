-------------------------- MODULE DnnIvsr_proofs --------------------------
(***************************************************************************)
(* Proofs about DnnIvsr, for every kind of model: the types, that a model  *)
(* is freed after its last inference, and that the backend implements      *)
(* FrameFilter; the last only where a window model starts with frame_num   *)
(* at 0, since otherwise its first window is not right.                    *)
(***************************************************************************)
EXTENDS DnnIvsr, SequenceTheorems, TLAPS

\* A request with OpenVINO or in its callback.
InUse == {"running", "written", "counted"}

\* The type invariant does not see that a window never outgrows its queue and
\* that there is something to fill: these do.
TypeInv ==
  /\ DnnTypeOK
  /\ pc = "execute" => lltaskq # <<>>
  /\ frameNum = 0 => frameq = <<>>
  /\ \A r \in Requests : req[r].st \in InUse => req[r].task \in Frames
  /\ kind = "group" =>
       /\ Len(lltaskq) = IF pc = "execute" THEN 1 ELSE 0
       /\ pc = "execute" => Len(inq) = GroupSize
       /\ \A r \in Requests : req[r].st # "queued" => Len(req[r].input) = GroupSize

(* The newest of a nonempty queue, and what is left without the oldest. *)
LEMMA QueueFacts ==
  ASSUME NEW S, NEW s \in Seq(S), s # <<>>
  PROVE  /\ Last(s) \in S /\ Head(s) \in S /\ Tail(s) \in Seq(S)
         /\ Len(s) > 0 /\ Len(Tail(s)) = Len(s) - 1
<1>1. Len(s) \in Nat /\ Len(s) > 0 /\ s[Len(s)] \in S
  OBVIOUS
<1> QED BY <1>1 DEF Last

LEMMA Types ==
  TypeInv => /\ kind \in {"frame", "window", "group"} /\ fed \in 0 .. MaxFrames
             /\ MaxFrames \in Nat /\ GroupSize \in Nat \ {0}
             /\ taskq \in Seq(Frames) /\ lltaskq \in Seq(Frames)
             /\ frameq \in Seq(Frames) /\ Len(frameq) < 3
             /\ frameNum \in {0, 1} /\ (frameNum = 0 => frameq = <<>>)
             /\ inq \in Seq(Frames) /\ outq \in Seq(Frames)
             /\ req \in [Requests -> Request]
             /\ done \subseteq Frames /\ made \in [Frames -> Seq(Frames)] /\ out \in Seq(Shot)
BY DnnAssumption DEF TypeInv, DnnTypeOK, ControlOK, QueuesOK, ResultsOK

(* A window is the cache and the newest frame, once or twice. *)
LEMMA WindowFacts ==
  ASSUME frameq \in Seq(Frames), lltaskq \in Seq(Frames), lltaskq # <<>>,
         Len(frameq) < 3, frameNum \in {0, 1}, frameNum = 0 => frameq = <<>>
  PROVE  Window \in Seq(Frames) /\ Len(Window) \in 1 .. 3
<1> DEFINE f == Last(lltaskq)
<1>1. f \in Frames
  BY QueueFacts
<1> HIDE DEF f
<1>2. /\ frameq \o <<f>> \in Seq(Frames) /\ Len(frameq \o <<f>>) = Len(frameq) + 1
      /\ frameq \o <<f, f>> \in Seq(Frames) /\ Len(frameq \o <<f, f>>) = Len(frameq) + 2
  BY <1>1
<1>3. CASE frameNum = 0
  <2>1. Len(frameq) = 0
    BY <1>3
  <2>2. Window = frameq \o <<f, f>>
    BY <1>3 DEF Window, f
  <2> QED BY <1>2, <2>1, <2>2
<1>4. CASE frameNum = 1
  <2>1. Window = frameq \o <<f>>
    BY <1>4 DEF Window, f
  <2> QED BY <1>2, <2>1
<1> QED BY <1>3, <1>4

(* Filling a request keeps the cache short and gives it frames to infer. *)
LEMMA FillFacts ==
  ASSUME TypeInv, lltaskq # <<>>
  PROVE  /\ CacheFrame => /\ frameq' \in Seq(Frames) /\ Len(frameq') < 3
                          /\ frameNum' \in {0, 1} /\ (frameNum' = 0 => frameq' = <<>>)
         /\ Input \in Seq(Frames)
         /\ \A r \in Requests : \A s \in {"running", "lost"} :
              Given(r, s) \in [Requests -> Request]
<1>0. /\ frameq \in Seq(Frames) /\ Len(frameq) < 3
      /\ frameNum \in {0, 1} /\ (frameNum = 0 => frameq = <<>>)
  BY Types
<1>1. /\ Window \in Seq(Frames) /\ Len(Window) \in 1 .. 3
  BY WindowFacts, Types
<1>2. Tail(Window) \in Seq(Frames) /\ Len(Tail(Window)) = Len(Window) - 1
  BY <1>1
<1>3. ASSUME CacheFrame
      PROVE  /\ frameq' \in Seq(Frames) /\ Len(frameq') < 3
             /\ frameNum' \in {0, 1} /\ (frameNum' = 0 => frameq' = <<>>)
  <2>1. CASE kind = "window"
    BY <1>1, <1>2, <1>3, <2>1 DEF CacheFrame, MoreFrames
  <2>2. CASE kind # "window"
    BY <1>0, <1>3, <2>2 DEF CacheFrame
  <2> QED BY <2>1, <2>2
<1>4. Last(lltaskq) \in Frames /\ Head(lltaskq) \in Frames
  BY QueueFacts, Types
<1>5. Input \in Seq(Frames)
  <2>1. kind \in {"frame", "window", "group"} /\ inq \in Seq(Frames)
    BY Types
  <2>2. <<Last(lltaskq)>> \in Seq(Frames)
    BY <1>4
  <2> QED BY <1>1, <2>1, <2>2 DEF Input
<1>6. ASSUME NEW r \in Requests, NEW s \in {"running", "lost"}
      PROVE  Given(r, s) \in [Requests -> Request]
  <2>1. req \in [Requests -> Request]
    BY Types
  <2>2. [st |-> s, task |-> Head(lltaskq), input |-> Input] \in Request
    BY <1>4, <1>5 DEF Request
  <2> QED BY <2>1, <2>2 DEF Given
<1> QED BY <1>3, <1>5, <1>6

(* A request moves on without its task and its frames changing. *)
LEMMA MovesOn ==
  ASSUME TypeInv, NEW r \in Requests, NEW s \in {"written", "counted", "lost"},
         req' = [req EXCEPT ![r].st = s]
  PROVE  /\ req' \in [Requests -> Request]
         /\ \A q \in Requests : /\ req'[q].task = req[q].task
                               /\ req'[q].input = req[q].input
                               /\ req'[q].st = IF q = r THEN s ELSE req[q].st
<1>1. req \in [Requests -> Request]
  BY Types
<1> QED BY <1>1 DEF Request

(* The group's output is SubSeq-wise in and out of out_queue. *)
LEMMA GroupFacts ==
  ASSUME TypeInv, Len(outq) >= GroupSize
  PROVE  /\ SubSeq(outq, GroupSize + 1, Len(outq)) \in Seq(Frames)
         /\ out \o [i \in 1 .. GroupSize |-> Shown(outq[i])] \in Seq(Shot)
<1>1. outq \in Seq(Frames) /\ GroupSize \in Nat /\ out \in Seq(Shot) /\ made \in [Frames -> Seq(Frames)]
  BY Types
<1>2. \A i \in 1 .. GroupSize : outq[i] \in Frames
  BY <1>1
<1>3. \A i \in 1 .. GroupSize : Shown(outq[i]) \in Shot
  BY <1>1, <1>2 DEF Shown, Shot
<1>4. [i \in 1 .. GroupSize |-> Shown(outq[i])] \in Seq(Shot)
  BY <1>1, <1>3, IsASeq
<1>5. SubSeq(outq, GroupSize + 1, Len(outq)) \in Seq(Frames)
  <2>1. GroupSize + 1 \in 1 .. Len(outq) + 1 /\ Len(outq) \in 0 .. Len(outq)
    BY <1>1
  <2> QED BY <1>1, <2>1, SubSeqProperties
<1>6. \A a, b \in Seq(Shot) : a \o b \in Seq(Shot)
  BY ConcatProperties
<1> QED BY <1>1, <1>4, <1>5, <1>6

LEMMA TypeInit == Init => TypeInv
<1> SUFFICES ASSUME Init
             PROVE  TypeInv
  OBVIOUS
<1>1. /\ fed \in 0 .. MaxFrames /\ done \subseteq Frames /\ frameNum \in {0, 1}
      /\ \A S : <<>> \in Seq(S)
  BY DnnAssumption DEF Init
<1>2. Idle \in Request
  BY <1>1 DEF Idle, Request
<1>3. req \in [Requests -> Request] /\ made \in [Frames -> Seq(Frames)]
  BY <1>1, <1>2 DEF Init
<1>4. ControlOK /\ QueuesOK
  <2>1. ControlOK
    BY <1>1 DEF Init, ControlOK
  <2>2. frameq = <<>> /\ Len(<<>>) = 0
    BY DEF Init
  <2>3. QueuesOK
    BY <1>1, <2>2 DEF Init, QueuesOK
  <2> QED BY <2>1, <2>3
<1>5. ResultsOK
  BY <1>1, <1>3 DEF Init, ResultsOK
<1>6. \A r \in Requests : req[r].st = "queued"
  BY DEF Init, Idle
<1>7. lltaskq = <<>> /\ Len(lltaskq) = 0 /\ frameq = <<>> /\ pc = "consume"
  BY DEF Init
<1> QED BY <1>3, <1>4, <1>5, <1>6, <1>7 DEF TypeInv, DnnTypeOK, InUse

Places == {"consume", "execute", "drain", "status", "flush", "await", "closed", "stopped"}

(* Steps of the filter's thread from one place to another. *)
LEMMA OnlyMoves ==
  ASSUME TypeInv, UNCHANGED <<req, done, made, out, queueVars, kind, fed>>,
         pc' \in Places, pc' = "execute" <=> pc = "execute",
         ended' \in BOOLEAN, freed' \in BOOLEAN
  PROVE  TypeInv'
<1>1. ControlOK'
  BY DEF TypeInv, DnnTypeOK, ControlOK, Places
<1>2. QueuesOK' /\ ResultsOK'
  BY DEF TypeInv, DnnTypeOK, QueuesOK, ResultsOK, queueVars
<1> QED BY <1>1, <1>2 DEF TypeInv, DnnTypeOK, queueVars

(* Steps of OpenVINO's threads. *)
LEMMA OnlyCallbacks ==
  ASSUME TypeInv, UNCHANGED <<pc, out, queueVars, streamVars>>,
         req' \in [Requests -> Request], done' \subseteq Frames,
         made' \in [Frames -> Seq(Frames)],
         \A q \in Requests : req'[q].st # "queued" =>
           /\ req[q].st # "queued"
           /\ req'[q].st \in InUse => req[q].st \in InUse
           /\ req'[q].task = req[q].task
           /\ req'[q].input = req[q].input
  PROVE  TypeInv'
<1>1. ControlOK' /\ QueuesOK' /\ ResultsOK'
  BY DEF TypeInv, DnnTypeOK, ControlOK, QueuesOK, ResultsOK, queueVars, streamVars
<1> QED BY <1>1 DEF TypeInv, DnnTypeOK, queueVars, streamVars, InUse

(* Steps that fill a request. *)
LEMMA OnlyFills ==
  ASSUME TypeInv, lltaskq # <<>>, FillInput, UNCHANGED <<done, made, out, streamVars>>,
         pc' \in Places \ {"execute"}, kind = "group" => pc = "execute",
         \/ req' = req
         \/ \E r \in Requests : \E s \in {"running", "lost"} : req' = Given(r, s)
  PROVE  TypeInv'
<1>1. /\ frameq' \in Seq(Frames) /\ Len(frameq') < 3
      /\ frameNum' \in {0, 1} /\ (frameNum' = 0 => frameq' = <<>>)
      /\ req' \in [Requests -> Request]
  BY FillFacts, Types DEF FillInput
<1>2. lltaskq' \in Seq(Frames) /\ Len(lltaskq') = Len(lltaskq) - 1
  BY QueueFacts, Types DEF FillInput
<1>3. inq' \in Seq(Frames) /\ outq' \in Seq(Frames) /\ taskq' \in Seq(Frames)
  BY Types DEF FillInput
<1>4. QueuesOK'
  BY <1>1, <1>2, <1>3 DEF QueuesOK
<1>5. ControlOK' /\ ResultsOK'
  BY DEF TypeInv, DnnTypeOK, ControlOK, ResultsOK, streamVars, Places
<1>7. \A q \in Requests : req'[q].st \in InUse => req'[q].task \in Frames
  <2>1. Head(lltaskq) \in Frames
    BY QueueFacts, Types
  <2>2. \A q \in Requests : req[q].st \in InUse => req[q].task \in Frames
    BY DEF TypeInv
  <2>3. ASSUME NEW r \in Requests, NEW s \in {"running", "lost"}, req' = Given(r, s), NEW q \in Requests
        PROVE  req'[q].task = IF q = r THEN Head(lltaskq) ELSE req[q].task
    BY <2>3, Types DEF Given
  <2>4. ASSUME NEW r \in Requests, NEW s \in {"running", "lost"}, req' = Given(r, s), NEW q \in Requests
        PROVE  q # r => req'[q] = req[q]
    BY <2>4, Types DEF Given
  <2> QED BY <2>1, <2>2, <2>3, <2>4
<1>6. ASSUME kind' = "group"
      PROVE  /\ Len(lltaskq') = 0
             /\ \A q \in Requests : req'[q].st # "queued" => Len(req'[q].input) = GroupSize
  <2>1. kind = "group" /\ pc = "execute" /\ Len(lltaskq) = 1 /\ Len(inq) = GroupSize
    BY <1>6 DEF TypeInv, streamVars
  <2>2. Input = inq
    BY <2>1 DEF Input
  <2>3. \A q \in Requests : req[q].st # "queued" => Len(req[q].input) = GroupSize
    BY <2>1 DEF TypeInv
  <2>4. ASSUME NEW r \in Requests, NEW s \in {"running", "lost"}, req' = Given(r, s), NEW q \in Requests
        PROVE  req'[q].input = IF q = r THEN inq ELSE req[q].input
    BY <2>2, <2>4, Types DEF Given
  <2>5. ASSUME NEW r \in Requests, NEW s \in {"running", "lost"}, req' = Given(r, s), NEW q \in Requests
        PROVE  q # r => req'[q] = req[q]
    BY <2>5, Types DEF Given
  <2>6. \A q \in Requests : req'[q].st # "queued" => Len(req'[q].input) = GroupSize
    BY <2>1, <2>3, <2>4, <2>5
  <2> QED BY <1>2, <2>1, <2>6
<1> QED BY <1>1, <1>4, <1>5, <1>6, <1>7 DEF TypeInv, DnnTypeOK

LEMMA TypeStep == TypeInv /\ [Next]_vars => TypeInv'
<1> SUFFICES ASSUME TypeInv, [Next]_vars
             PROVE  TypeInv'
  OBVIOUS
<1>1. CASE UNCHANGED vars
  BY <1>1, OnlyMoves DEF TypeInv, DnnTypeOK, ControlOK, Places, vars, streamVars
<1>2. CASE FeedFrame
  <2>1. fed' \in Frames /\ fed' \in 0 .. MaxFrames
    <3>1. fed < MaxFrames /\ fed' = fed + 1
      BY <1>2 DEF FeedFrame
    <3>2. fed \in 0 .. MaxFrames /\ MaxFrames \in Nat
      BY Types
    <3> QED BY <3>1, <3>2 DEF Frames
  <2>2. /\ taskq' \in Seq(Frames) /\ lltaskq' \in Seq(Frames) /\ lltaskq' # <<>>
    <3>1. taskq' = Append(taskq, fed') /\ lltaskq' = Append(lltaskq, fed')
      BY <1>2 DEF FeedFrame, QueueTask
    <3>2. taskq \in Seq(Frames) /\ lltaskq \in Seq(Frames)
      BY Types
    <3> QED BY <2>1, <3>1, <3>2
  <2>3. ControlOK' /\ QueuesOK' /\ ResultsOK'
    BY <1>2, <2>1, <2>2 DEF FeedFrame, TypeInv, DnnTypeOK, ControlOK, QueuesOK, ResultsOK
  <2> QED BY <1>2, <2>2, <2>3 DEF FeedFrame, TypeInv, DnnTypeOK
<1>3. CASE FeedGroup
  <2>1. fed' \in Frames /\ fed' \in 0 .. MaxFrames
    <3>1. fed < MaxFrames /\ fed' = fed + 1
      BY <1>3 DEF FeedGroup
    <3>2. fed \in 0 .. MaxFrames /\ MaxFrames \in Nat
      BY Types
    <3> QED BY <3>1, <3>2 DEF Frames
  <2>2. inq' \in Seq(Frames) /\ outq' \in Seq(Frames)
    BY <1>3, <2>1, Types DEF FeedGroup
  <2>3. lltaskq \in Seq(Frames) /\ Len(lltaskq) = 0 /\ lltaskq = <<>>
    BY <1>3, Types DEF FeedGroup, TypeInv
  <2>4. /\ taskq' \in Seq(Frames) /\ lltaskq' \in Seq(Frames)
        /\ pc' \in {"execute", "status"}
        /\ pc' = "execute" => lltaskq' # <<>> /\ Len(inq') = GroupSize
        /\ Len(lltaskq') = IF pc' = "execute" THEN 1 ELSE 0
    <3>1. CASE Len(inq') = GroupSize
      <4>1. taskq' = Append(taskq, fed') /\ lltaskq' = <<fed'>> /\ pc' = "execute"
        BY <1>3, <2>3, <3>1 DEF FeedGroup, QueueTask
      <4>2. taskq' \in Seq(Frames)
        BY <2>1, <4>1, Types
      <4>3. lltaskq' \in Seq(Frames) /\ lltaskq' # <<>> /\ Len(lltaskq') = 1
        BY <2>1, <4>1
      <4> QED BY <3>1, <4>1, <4>2, <4>3
    <3>2. CASE Len(inq') # GroupSize
      <4>1. taskq' = taskq /\ lltaskq' = lltaskq /\ pc' = "status"
        BY <1>3, <3>2 DEF FeedGroup
      <4> QED BY <2>3, <4>1, Types
    <3> QED BY <3>1, <3>2
  <2>5. ControlOK' /\ QueuesOK' /\ ResultsOK'
    BY <1>3, <2>1, <2>2, <2>4 DEF FeedGroup, TypeInv, DnnTypeOK, ControlOK, QueuesOK, ResultsOK
  <2> QED BY <1>3, <2>4, <2>5 DEF FeedGroup, TypeInv, DnnTypeOK
<1>4. CASE ExecuteMoreFrames
  <2>1. kind = "window" /\ lltaskq # <<>>
    BY <1>4 DEF ExecuteMoreFrames, MoreFrames, TypeInv
  <2>2. /\ frameq' \in Seq(Frames) /\ Len(frameq') < 3
        /\ frameNum' \in {0, 1} /\ (frameNum' = 0 => frameq' = <<>>)
    BY <1>4, <2>1, FillFacts DEF ExecuteMoreFrames
  <2>3. ControlOK' /\ QueuesOK' /\ ResultsOK'
    BY <1>4, <2>2 DEF ExecuteMoreFrames, TypeInv, DnnTypeOK, ControlOK, QueuesOK, ResultsOK, streamVars
  <2> QED BY <1>4, <2>1, <2>2, <2>3 DEF ExecuteMoreFrames, TypeInv, DnnTypeOK, streamVars
<1>5. ASSUME NEW r \in Requests, ExecuteStarts(r) \/ ExecuteFails(r)
      PROVE  TypeInv'
  <2>1. pc = "execute" /\ lltaskq # <<>> /\ FillInput /\ UNCHANGED <<done, made, out, streamVars>>
    BY <1>5 DEF ExecuteStarts, ExecuteFails, TypeInv
  <2>2. pc' \in Places \ {"execute"} /\ (req' = req \/ req' = Given(r, "running"))
    BY <1>5 DEF ExecuteStarts, ExecuteFails, Places
  <2> QED BY <2>1, <2>2, OnlyFills
<1>6. ASSUME NEW r \in Requests, FlushStarts(r) \/ FlushFails(r)
      PROVE  TypeInv'
  <2>1. pc = "flush" /\ lltaskq # <<>> /\ FillInput /\ UNCHANGED <<done, made, out, streamVars>>
    BY <1>6 DEF FlushStarts, FlushFails
  <2>2. pc' \in Places \ {"execute"} /\ (req' = Given(r, "lost") \/ req' = Given(r, "running"))
    BY <1>6 DEF FlushStarts, FlushFails, Places
  <2>3. kind # "group"
    BY <2>1, Types DEF TypeInv
  <2> QED BY <2>1, <2>2, <2>3, OnlyFills
<1>7. CASE SendFrame
  <2>1. taskq \in Seq(Frames) /\ taskq # <<>>
    BY <1>7, Types DEF SendFrame, Ready
  <2>2. Head(taskq) \in Frames /\ taskq' \in Seq(Frames)
    BY <1>7, <2>1, QueueFacts DEF SendFrame
  <2>3. Shown(Head(taskq)) \in Shot
    BY <2>2, Types DEF Shown, Shot
  <2>4. out' \in Seq(Shot)
    BY <1>7, <2>3, Types DEF SendFrame
  <2>5. ControlOK' /\ QueuesOK' /\ ResultsOK'
    BY <1>7, <2>2, <2>4 DEF SendFrame, TypeInv, DnnTypeOK, ControlOK, QueuesOK, ResultsOK, streamVars
  <2> QED BY <1>7, <2>5 DEF SendFrame, TypeInv, DnnTypeOK, streamVars
<1>8. CASE SendGroup
  <2>1. taskq \in Seq(Frames) /\ taskq # <<>>
    BY <1>8, Types DEF SendGroup, Ready
  <2>2. taskq' \in Seq(Frames)
    BY <1>8, <2>1, QueueFacts DEF SendGroup
  <2>3. outq' \in Seq(Frames) /\ out' \in Seq(Shot)
    BY <1>8, GroupFacts DEF SendGroup
  <2>4. pc # "execute" /\ pc' \in {"consume", "await"}
    BY <1>8 DEF SendGroup
  <2>5. ControlOK' /\ QueuesOK' /\ ResultsOK'
    BY <1>8, <2>2, <2>3, <2>4 DEF SendGroup, TypeInv, DnnTypeOK, ControlOK, QueuesOK, ResultsOK, streamVars
  <2> QED BY <1>8, <2>4, <2>5 DEF SendGroup, TypeInv, DnnTypeOK, streamVars
<1>9. CASE NoFrame \/ EndDrain \/ ActivateReturns \/ EndOfStream \/ EndAwait \/ Quit \/ FreeModel
             \/ (FlushNothing /\ lltaskq = <<>>)
  <2>1. UNCHANGED <<req, done, made, out, queueVars, kind, fed>>
    BY <1>9 DEF NoFrame, EndDrain, ActivateReturns, EndOfStream, FlushNothing, EndAwait, Quit,
                FreeModel, streamVars, queueVars
  <2>2. pc' \in Places /\ pc # "execute" /\ pc' # "execute"
    BY <1>9 DEF NoFrame, EndDrain, ActivateReturns, EndOfStream, FlushNothing, EndAwait, Quit,
                FreeModel, Places
  <2>3. ended' \in BOOLEAN /\ freed' \in BOOLEAN
    BY <1>9 DEF NoFrame, EndDrain, ActivateReturns, EndOfStream, FlushNothing, EndAwait, Quit,
                FreeModel, streamVars, TypeInv, DnnTypeOK, ControlOK
  <2> QED BY <2>1, <2>2, <2>3, OnlyMoves
<1>10. ASSUME NEW r \in Requests, CallbackWrites(r)
       PROVE  TypeInv'
  <2>1. req[r].st = "running" /\ req' = [req EXCEPT ![r].st = "written"] /\ req[r] \in Request
    BY <1>10, Types DEF CallbackWrites
  <2>2. made' \in [Frames -> Seq(Frames)]
    <3>1. CASE kind = "group"
      <4>1. GroupSize \in Nat /\ Len(req[r].input) = GroupSize /\ req[r].input \in Seq(Frames)
        BY <2>1, <3>1, Types DEF TypeInv, Request
      <4> DEFINE shown(f) == \E i \in 1 .. GroupSize : i <= Len(outq) /\ outq[i] = f
                 at(f) == CHOOSE i \in 1 .. GroupSize : outq[i] = f
      <4>2. ASSUME NEW f \in Frames, shown(f)
            PROVE  <<req[r].input[at(f)]>> \in Seq(Frames)
        <5>1. at(f) \in 1 .. GroupSize
          BY <4>2
        <5> QED BY <4>1, <5>1
      <4>3. made' = [f \in Frames |-> IF shown(f) THEN <<req[r].input[at(f)]>> ELSE made[f]]
        BY <1>10, <3>1 DEF CallbackWrites
      <4> HIDE DEF shown, at
      <4> QED BY <4>2, <4>3, Types
    <3>2. CASE kind # "group"
      BY <1>10, <2>1, <3>2, Types DEF CallbackWrites, Request
    <3> QED BY <3>1, <3>2
  <2>3. UNCHANGED <<pc, done, out, queueVars, streamVars>>
    BY <1>10 DEF CallbackWrites
  <2> QED BY <2>1, <2>2, <2>3, MovesOn, OnlyCallbacks, Types DEF InUse
<1>11. ASSUME NEW r \in Requests, CallbackCounts(r)
       PROVE  TypeInv'
  <2>1. req[r].st = "written" /\ req' = [req EXCEPT ![r].st = "counted"]
    BY <1>11 DEF CallbackCounts
  <2>2. done' \subseteq Frames
    BY <1>11, <2>1, Types DEF CallbackCounts, TypeInv, InUse
  <2>3. UNCHANGED <<pc, made, out, queueVars, streamVars>>
    BY <1>11 DEF CallbackCounts
  <2> QED BY <2>1, <2>2, <2>3, MovesOn, OnlyCallbacks, Types DEF InUse
<1>12. ASSUME NEW r \in Requests, CallbackReturns(r)
       PROVE  TypeInv'
  <2>1. req' = [req EXCEPT ![r] = Idle] /\ Idle \in Request /\ Idle.st = "queued"
    BY <1>12 DEF CallbackReturns, Idle, Request
  <2>2. /\ req' \in [Requests -> Request]
        /\ \A q \in Requests : req'[q] = IF q = r THEN Idle ELSE req[q]
    BY <2>1, Types
  <2>3. UNCHANGED <<pc, done, made, out, queueVars, streamVars>>
    BY <1>12 DEF CallbackReturns
  <2> QED BY <2>1, <2>2, <2>3, OnlyCallbacks, Types DEF InUse
<1>13. ASSUME NEW r \in Requests, InferenceFails(r)
       PROVE  TypeInv'
  <2>1. req[r].st = "running" /\ req' = [req EXCEPT ![r].st = "lost"]
    BY <1>13 DEF InferenceFails
  <2>2. UNCHANGED <<pc, done, made, out, queueVars, streamVars>>
    BY <1>13 DEF InferenceFails
  <2> QED BY <2>1, <2>2, MovesOn, OnlyCallbacks, Types DEF InUse
<1>14. ASSUME NEW r \in Requests, CallbackAfterFree(r)
       PROVE  TypeInv'
  <2>1. req[r].st \in InUse /\ req' = [req EXCEPT ![r].st = "lost"]
    BY <1>14 DEF CallbackAfterFree, InUse
  <2>2. UNCHANGED <<pc, done, made, out, queueVars, streamVars>>
    BY <1>14 DEF CallbackAfterFree
  <2> QED BY <2>1, <2>2, MovesOn, OnlyCallbacks, Types DEF InUse
<1>15. CASE FlushNothing /\ lltaskq # <<>>
  <2>1. /\ kind = "window" /\ CacheFrame /\ pc' = "stopped"
        /\ UNCHANGED <<done, made, out, taskq, lltaskq, inq, outq, streamVars>>
    BY <1>15 DEF FlushNothing, MoreFrames
  <2>2. PICK r \in Requests : req[r].st = "queued" /\ req' = [req EXCEPT ![r].st = "lost"]
    BY <1>15 DEF FlushNothing, InState
  <2>3. /\ frameq' \in Seq(Frames) /\ Len(frameq') < 3
        /\ frameNum' \in {0, 1} /\ (frameNum' = 0 => frameq' = <<>>)
    BY <1>15, <2>1, FillFacts
  <2>4. ControlOK' /\ QueuesOK' /\ ResultsOK'
    BY <2>1, <2>3 DEF TypeInv, DnnTypeOK, ControlOK, QueuesOK, ResultsOK, streamVars
  <2>5. /\ req' \in [Requests -> Request]
        /\ \A q \in Requests : req'[q].st \in InUse => req'[q].task \in Frames
    <3>1. /\ req' \in [Requests -> Request]
          /\ \A q \in Requests : /\ req'[q].task = req[q].task
                                /\ req'[q].st = IF q = r THEN "lost" ELSE req[q].st
      BY <2>2, MovesOn
    <3>2. \A q \in Requests : req[q].st \in InUse => req[q].task \in Frames
      BY DEF TypeInv
    <3> QED BY <3>1, <3>2 DEF InUse
  <2> QED BY <2>1, <2>3, <2>4, <2>5 DEF TypeInv, DnnTypeOK, streamVars
<1> QED BY <1>1, <1>2, <1>3, <1>4, <1>5, <1>6, <1>7, <1>8, <1>9, <1>10, <1>11, <1>12, <1>13, <1>14, <1>15
        DEF Next, Activate, Callback

(* Whatever arrives, ends or fails: the window cache never outgrows a window, *)
(* which fill_model_input_ivsr asserts, and every queue holds frames.          *)
THEOREM DnnTypes == Spec => []DnnTypeOK
<1>1. TypeInv => DnnTypeOK
  BY DEF TypeInv
<1> QED BY <1>1, TypeInit, TypeStep, PTL DEF Spec

-----------------------------------------------------------------------------
(* The cache of a window model after n frames. *)
Cached(n) == IF n = 0 THEN <<>> ELSE <<IF n = 1 THEN 1 ELSE n - 1, n>>

CacheIs(n) == kind = "window" => frameq = Cached(n) /\ frameNum = IF n = 0 THEN 0 ELSE 1

\* The tasks not answered yet are those of the frames not sent yet.
Order ==
  /\ kind # "group"
  /\ ended <=> pc \in {"flush", "await", "closed"}
  /\ Len(taskq) = fed - Len(out)
  /\ \A i \in 1 .. Len(taskq) : taskq[i] = Len(out) + i

\* The three queues are in step: the newest frame waits to be filled, and a
\* window model holds the one before it back.
InStep ==
  /\ pc = "execute" =>
       /\ fed > 0
       /\ lltaskq = IF kind = "window" /\ fed > 1 THEN <<fed - 1, fed>> ELSE <<fed>>
       /\ CacheIs(fed - 1)
  /\ pc \in {"consume", "drain", "status", "flush"} =>
       /\ lltaskq = IF kind = "window" /\ fed > 0 THEN <<fed>> ELSE <<>>
       /\ CacheIs(fed)

\* With n frames of kind k received, and no more to come when e: w is what task
\* t is to be made from, whatever arrives from now on.
RightFor(k, n, e, t, w) ==
  /\ t \in 1 .. n
  /\ k = "window" => t < n \/ e
  /\ w = IF k = "window" THEN <<IF t = 1 THEN 1 ELSE t - 1, t, IF t = n THEN t ELSE t + 1>>
                         ELSE <<t>>

Right(t, w) == RightFor(kind, fed, ended, t, w)

RightResults ==
  /\ \A r \in Requests :
       req[r].st \in {"running", "written", "counted"} => Right(req[r].task, req[r].input)
  /\ \A r \in Requests :
       req[r].st \in {"written", "counted"} => made[req[r].task] = req[r].input
  /\ \A t \in done : Right(t, made[t])

IInv == TypeInv /\ Order /\ InStep /\ RightResults

(* What a frame is to be made from stays the same once it is known. *)
LEMMA StaysRight ==
  ASSUME NEW k, NEW n \in Nat, NEW e \in BOOLEAN, NEW m \in Nat, NEW g \in BOOLEAN,
         \/ m = n /\ (e => g)
         \/ m = n + 1 /\ ~e
  PROVE  \A t, w : RightFor(k, n, e, t, w) => RightFor(k, m, g, t, w)
<1> SUFFICES ASSUME NEW t, NEW w, RightFor(k, n, e, t, w)
             PROVE  RightFor(k, m, g, t, w)
  OBVIOUS
<1>1. t \in 1 .. n /\ t \in 1 .. m
  BY DEF RightFor
<1>2. k = "window" => (t < m \/ g) /\ (t = n <=> t = m)
  BY <1>1 DEF RightFor
<1> QED BY <1>1, <1>2 DEF RightFor

(* Short queues, element by element. *)
LEMMA Joins ==
  ASSUME NEW a, NEW b, NEW c
  PROVE  <<a, b>> \o <<c>> = <<a, b, c>>
<1> DEFINE S == {a, b, c}
           s == <<a, b>>
           t == <<c>>
           u == <<a, b, c>>
<1>1. s \in Seq(S) /\ t \in Seq(S) /\ u \in Seq(S)
  OBVIOUS
<1>2. Len(s) = 2 /\ Len(t) = 1 /\ Len(u) = 3 /\ s[1] = a /\ s[2] = b /\ t[1] = c
      /\ u[1] = a /\ u[2] = b /\ u[3] = c
  OBVIOUS
<1> HIDE DEF s, t, u, S
<1> DEFINE v == s \o t
<1>3. /\ v \in Seq(S) /\ Len(v) = Len(s) + Len(t)
      /\ \A i \in 1 .. Len(s) + Len(t) : v[i] = IF i <= Len(s) THEN s[i] ELSE t[i - Len(s)]
  BY <1>1, ConcatProperties, Zenon
<1> HIDE DEF v
<1>4. Len(v) = Len(u) /\ \A i \in 1 .. Len(v) : v[i] = u[i]
  BY <1>2, <1>3
<1>5. v = u
  BY <1>1, <1>3, <1>4, SeqEqual, Zenon
<1> QED BY <1>5 DEF s, t, u, v

LEMMA Tuples ==
  ASSUME NEW a, NEW b, NEW c
  PROVE  /\ <<>> \o <<a, b>> = <<a, b>> /\ <<a, b>> \o <<c>> = <<a, b, c>>
         /\ Tail(<<a, b, c>>) = <<b, c>> /\ Tail(<<a, b>>) = <<b>> /\ Tail(<<a>>) = <<>>
         /\ Head(<<a, b>>) = a /\ Head(<<a>>) = a
         /\ Last(<<a, b>>) = b /\ Last(<<a>>) = a
         /\ Len(<<a, b>>) = 2 /\ Len(<<a, b, c>>) = 3
<1>1. <<>> \o <<a, b>> = <<a, b>>
  OBVIOUS
<1>2. <<a, b>> \o <<c>> = <<a, b, c>>
  BY Joins
<1>3. Tail(<<a, b, c>>) = <<b, c>>
  OBVIOUS
<1>4. Tail(<<a, b>>) = <<b>>
  OBVIOUS
<1>5. Tail(<<a>>) = <<>>
  OBVIOUS
<1>6. Head(<<a, b>>) = a /\ Head(<<a>>) = a
  OBVIOUS
<1>7. Len(<<a, b>>) = 2 /\ Len(<<a, b, c>>) = 3 /\ Len(<<a>>) = 1
  OBVIOUS
<1>8. Last(<<a, b>>) = b /\ Last(<<a>>) = a
  BY <1>7 DEF Last
<1> QED BY <1>1, <1>2, <1>3, <1>4, <1>5, <1>6, <1>7, <1>8

(* When the stream ends the cache holds two frames: the flush has a window. *)
LEMMA FlushIsFull ==
  ASSUME IInv, FlushNothing
  PROVE  pc' = "await" /\ UNCHANGED <<req, queueVars>>
<1> SUFFICES ASSUME lltaskq # <<>>, MoreFrames
             PROVE  FALSE
  BY DEF FlushNothing, queueVars
<1>1. kind = "window" /\ pc = "flush" /\ fed \in Nat
  BY Types DEF MoreFrames, FlushNothing, IInv, Order
<1>2. fed > 0 /\ lltaskq = <<fed>> /\ frameq = Cached(fed) /\ frameNum = 1
  BY <1>1 DEF IInv, InStep, CacheIs
<1> DEFINE m == IF fed = 1 THEN 1 ELSE fed - 1
<1>3. frameq = <<m, fed>>
  BY <1>1, <1>2 DEF Cached
<1>6. Last(lltaskq) = fed
  BY <1>2, Tuples
<1>4. Window = <<m, fed>> \o <<fed>>
  BY <1>2, <1>3, <1>6 DEF Window
<1>5. Len(<<m, fed>> \o <<fed>>) = 3
  <2> HIDE DEF m
  <2>1. <<m, fed>> \o <<fed>> = <<m, fed, fed>>
    BY Joins
  <2> QED BY <2>1, Tuples
<1> QED BY <1>4, <1>5 DEF MoreFrames

(* A filled request holds what its task is to be made from, and the queues  *)
(* are in step again once the newest frame is filled.                       *)
LEMMA FillsRight ==
  ASSUME IInv, lltaskq # <<>>, pc = "execute" \/ pc = "flush", FillInput
  PROVE  /\ Right(Head(lltaskq), Input)
         /\ pc = "execute" => /\ lltaskq' = IF kind = "window" THEN <<fed>> ELSE <<>>
                              /\ kind = "window" => frameq' = Cached(fed) /\ frameNum' = 1
<1>1. fed \in Nat /\ kind \in {"frame", "window"}
  BY Types DEF IInv, Order
<1>2. CASE kind = "frame"
  <2>1. pc = "execute" /\ fed > 0 /\ lltaskq = <<fed>>
    BY <1>2 DEF IInv, InStep
  <2>2. Input = <<fed>> /\ Head(lltaskq) = fed /\ lltaskq' = <<>>
    BY <1>2, <2>1, Tuples DEF Input, FillInput
  <2> QED BY <1>1, <1>2, <2>1, <2>2 DEF Right, RightFor
<1>3. CASE kind = "window"
  <2> DEFINE n == IF pc = "execute" THEN fed - 1 ELSE fed
  <2>1. /\ fed > 0 /\ frameq = Cached(n) /\ frameNum = IF n = 0 THEN 0 ELSE 1
        /\ n \in Nat
        /\ lltaskq = IF n = fed \/ fed = 1 THEN <<fed>> ELSE <<fed - 1, fed>>
    BY <1>1, <1>3 DEF IInv, InStep, CacheIs
  <2>2. Last(lltaskq) = fed
    BY <2>1, Tuples
  <2>3. Window = IF n = 0 THEN <<fed, fed>>
                 ELSE <<IF n = 1 THEN 1 ELSE n - 1, n, fed>>
    <3>1. CASE n = 0
      <4>1. frameq = <<>> /\ frameNum = 0
        BY <2>1, <3>1 DEF Cached
      <4> QED BY <2>2, <3>1, <4>1, Tuples DEF Window
    <3>2. CASE n # 0
      <4>1. frameq = <<IF n = 1 THEN 1 ELSE n - 1, n>> /\ frameNum = 1
        BY <2>1, <3>2 DEF Cached
      <4>2. Window = <<IF n = 1 THEN 1 ELSE n - 1, n>> \o <<fed>>
        BY <2>2, <4>1 DEF Window
      <4> DEFINE m == IF n = 1 THEN 1 ELSE n - 1
      <4>3. <<m, n>> \o <<fed>> = <<m, n, fed>>
        BY Joins
      <4> QED BY <3>2, <4>2, <4>3
    <3> QED BY <3>1, <3>2
  <2>4. n # 0
    BY <1>3, <2>3, Tuples DEF FillInput, MoreFrames
  <2>5. Input = <<IF n = 1 THEN 1 ELSE n - 1, n, fed>>
    BY <1>3, <2>3, <2>4 DEF Input
  <2>6. CASE pc = "execute"
    <3>1. fed > 1 /\ lltaskq = <<fed - 1, fed>>
      BY <1>1, <2>1, <2>4, <2>6
    <3>2. Head(lltaskq) = fed - 1 /\ lltaskq' = <<fed>>
      BY <3>1, Tuples DEF FillInput
    <3>3. Right(fed - 1, Input)
      <4>1. Input = <<IF fed - 1 = 1 THEN 1 ELSE fed - 1 - 1, fed - 1, fed>>
        BY <2>5, <2>6
      <4>2. fed - 1 \in 1 .. fed /\ fed - 1 < fed /\ fed - 1 # fed /\ fed - 1 + 1 = fed
        BY <1>1, <3>1
      <4> QED BY <1>3, <4>1, <4>2 DEF Right, RightFor
    <3>4. frameq' = Cached(fed) /\ frameNum' = 1
      <4>1. frameq' = Tail(Window) /\ frameNum' = 1
        BY <1>3 DEF FillInput, CacheFrame
      <4>2. Tail(Window) = <<n, fed>>
        BY <2>3, <2>4, Tuples
      <4>3. n = fed - 1 /\ fed # 1 /\ fed # 0
        BY <1>1, <2>6, <3>1
      <4> QED BY <4>1, <4>2, <4>3 DEF Cached
    <3> QED BY <1>3, <3>2, <3>3, <3>4
  <2>7. CASE pc = "flush"
    <3>1. lltaskq = <<fed>> /\ n = fed /\ ended
      BY <2>1, <2>7 DEF IInv, Order
    <3>2. Head(lltaskq) = fed /\ Input = <<IF fed = 1 THEN 1 ELSE fed - 1, fed, fed>>
      BY <2>5, <3>1, Tuples
    <3> QED BY <1>1, <1>3, <2>1, <2>7, <3>1, <3>2 DEF Right, RightFor
  <2> QED BY <2>6, <2>7
<1> QED BY <1>1, <1>2, <1>3

\* Where the end of the stream is known, and where the filter's queues are between two tasks.
AfterEnd == {"flush", "await", "closed"}
Between == {"consume", "drain", "status", "flush"}

LEMMA Initially ==
  ASSUME "window" \in Kinds => FrameNum = 0
  PROVE  Init /\ kind # "group" => IInv
<1> SUFFICES ASSUME Init, kind # "group"
             PROVE  IInv
  OBVIOUS
<1>1. /\ kind \in {"frame", "window"} /\ fed = 0 /\ pc = "consume" /\ ended = FALSE /\ taskq = <<>>
      /\ lltaskq = <<>> /\ frameq = <<>> /\ (kind = "window" => frameNum = 0) /\ out = <<>> /\ done = {}
  BY DnnAssumption DEF Init
<1>2. Order
  <2>1. Len(taskq) = 0 /\ Len(out) = 0
    BY <1>1
  <2>2. \A i \in 1 .. Len(taskq) : taskq[i] = Len(out) + i
    <3>1. \A i \in 1 .. 0 : FALSE
      OBVIOUS
    <3> QED BY <2>1, <3>1, Zenon
  <2>3. Len(taskq) = fed - Len(out)
    <3>1. fed = 0 /\ Len(taskq) = 0 /\ Len(out) = 0 /\ 0 - 0 = 0
      BY <1>1, <2>1
    <3> QED BY <3>1, Zenon
  <2>4. kind # "group" /\ (ended <=> pc \in {"flush", "await", "closed"})
    BY <1>1
  <2> QED BY <2>2, <2>3, <2>4 DEF Order
<1>3. InStep
  BY <1>1 DEF InStep, CacheIs, Cached
<1>4. \A r \in Requests : req[r].st = "queued"
  BY DEF Init, Idle
<1>5. RightResults
  BY <1>1, <1>4 DEF RightResults
<1> QED BY <1>2, <1>3, <1>5, TypeInit DEF IInv

(* What the end of a task queue looks like when a frame joins it, and the   *)
(* rest when its oldest leaves.                                             *)
LEMMA Counts ==
  ASSUME NEW s, NEW f \in Nat, NEW g \in Nat, s \in Seq(Frames), Len(s) = f - g,
         \A i \in 1 .. Len(s) : s[i] = g + i
  PROVE  /\ LET t == Append(s, f + 1)
            IN  Len(t) = f + 1 - g /\ \A i \in 1 .. Len(t) : t[i] = g + i
         /\ s # <<>> => LET t == Tail(s)
                        IN  /\ Len(t) = f - (g + 1) /\ Head(s) = g + 1
                            /\ \A i \in 1 .. Len(t) : t[i] = g + 1 + i
<1>1. Len(s) \in Nat /\ Len(Append(s, f + 1)) = Len(s) + 1
  OBVIOUS
<1>2. \A i \in 1 .. Len(s) + 1 : Append(s, f + 1)[i] = IF i <= Len(s) THEN s[i] ELSE f + 1
  OBVIOUS
<1>3. \A i \in 1 .. Len(s) + 1 : i <= Len(s) \/ i = Len(s) + 1
  BY <1>1
<1>4. ASSUME s # <<>>
      PROVE  /\ Len(Tail(s)) = Len(s) - 1 /\ Head(s) = s[1] /\ Len(s) > 0
             /\ \A i \in 1 .. Len(s) - 1 : Tail(s)[i] = s[i + 1]
  BY <1>4
<1> DEFINE t == Append(s, f + 1)
<1>5. Len(t) = f + 1 - g /\ \A i \in 1 .. Len(t) : t[i] = g + i
  <2>1. Len(t) = Len(s) + 1 /\ Len(s) = f - g
    BY <1>1
  <2>2. ASSUME NEW i \in 1 .. Len(s) + 1
        PROVE  t[i] = g + i
    <3>1. CASE i <= Len(s)
      BY <1>1, <1>2, <3>1
    <3>2. CASE i = Len(s) + 1
      BY <1>1, <1>2, <2>1, <3>2
    <3> QED BY <1>3, <3>1, <3>2
  <2> QED BY <2>1, <2>2
<1> HIDE DEF t
<1>6. ASSUME s # <<>>
      PROVE  /\ Len(Tail(s)) = f - (g + 1) /\ Head(s) = g + 1
             /\ \A i \in 1 .. Len(Tail(s)) : Tail(s)[i] = g + 1 + i
  <2>1. /\ Len(Tail(s)) = Len(s) - 1 /\ Head(s) = s[1] /\ Len(s) > 0 /\ Len(s) = f - g
        /\ \A i \in 1 .. Len(s) - 1 : Tail(s)[i] = s[i + 1]
    BY <1>4, <1>6
  <2>2. \A i \in 1 .. Len(s) - 1 : i + 1 \in 1 .. Len(s) /\ s[i + 1] = g + 1 + i
    BY <1>1
  <2> QED BY <1>1, <2>1, <2>2
<1> QED BY <1>5, <1>6 DEF t

LEMMA OrderStep == IInv /\ Next => Order'
<1> SUFFICES ASSUME IInv, Next
             PROVE  Order'
  OBVIOUS
<1>0. /\ kind # "group" /\ (ended <=> pc \in AfterEnd) /\ Len(taskq) = fed - Len(out)
      /\ \A i \in 1 .. Len(taskq) : taskq[i] = Len(out) + i
  BY DEF IInv, Order, AfterEnd
<1>t. /\ taskq \in Seq(Frames) /\ out \in Seq(Shot) /\ fed \in Nat /\ Len(out) \in Nat
  BY Types DEF IInv
<1>1. ASSUME UNCHANGED <<kind, fed, ended, out, taskq>>, pc' \in AfterEnd <=> pc \in AfterEnd
      PROVE  Order'
  BY <1>0, <1>1 DEF Order, AfterEnd
<1>2. CASE FeedFrame
  <2>1. fed' = fed + 1 /\ taskq' = Append(taskq, fed + 1)
        /\ UNCHANGED <<kind, ended, out>> /\ pc' = "execute" /\ pc = "consume"
    BY <1>2 DEF FeedFrame, QueueTask
  <2>2. Len(taskq') = fed + 1 - Len(out) /\ \A i \in 1 .. Len(taskq') : taskq'[i] = Len(out) + i
    BY <1>0, <1>t, <2>1, Counts
  <2>3. Len(taskq') = fed' - Len(out')
    BY <2>1, <2>2
  <2>4. \A i \in 1 .. Len(taskq') : taskq'[i] = Len(out') + i
    BY <2>1, <2>2
  <2>5. kind' # "group" /\ (ended' <=> pc' \in AfterEnd)
    BY <1>0, <2>1 DEF AfterEnd
  <2> QED BY <2>3, <2>4, <2>5 DEF Order, AfterEnd
<1>3. CASE SendFrame
  <2>1. /\ taskq # <<>> /\ taskq' = Tail(taskq) /\ Len(out') = Len(out) + 1
        /\ UNCHANGED <<kind, fed, ended, pc>>
    BY <1>3, <1>t DEF SendFrame, Ready, streamVars
  <2>2. /\ Len(taskq') = fed - (Len(out) + 1)
        /\ \A i \in 1 .. Len(taskq') : taskq'[i] = Len(out) + 1 + i
    BY <1>0, <1>t, <2>1, Counts
  <2>3. Len(taskq') = fed' - Len(out')
    BY <2>1, <2>2
  <2>4. \A i \in 1 .. Len(taskq') : taskq'[i] = Len(out') + i
    BY <2>1, <2>2
  <2> QED BY <1>0, <2>1, <2>3, <2>4 DEF Order, AfterEnd
<1>4. CASE EndOfStream
  BY <1>0, <1>4 DEF EndOfStream, queueVars, Order
<1>5. CASE FeedGroup \/ SendGroup
  BY <1>0, <1>5 DEF FeedGroup, SendGroup
<1>6. CASE NoFrame \/ EndDrain \/ ActivateReturns \/ FlushNothing \/ EndAwait \/ FreeModel \/ Quit
             \/ ExecuteMoreFrames
  <2>1. UNCHANGED <<kind, fed, ended, out, taskq>> /\ (pc' \in AfterEnd <=> pc \in AfterEnd)
    BY <1>0, <1>6, FlushIsFull DEF NoFrame, EndDrain, ActivateReturns, FlushNothing, EndAwait,
                FreeModel, Quit, ExecuteMoreFrames, queueVars, streamVars, AfterEnd
  <2> QED BY <1>1, <2>1
<1>7. ASSUME NEW r \in Requests,
             ExecuteStarts(r) \/ ExecuteFails(r) \/ FlushStarts(r) \/ FlushFails(r)
      PROVE  Order'
  <2>1. UNCHANGED <<kind, fed, ended, out, taskq>> /\ (pc' \in AfterEnd <=> pc \in AfterEnd)
    BY <1>0, <1>7 DEF ExecuteStarts, ExecuteFails, FlushStarts, FlushFails, FillInput, streamVars,
                AfterEnd
  <2> QED BY <1>1, <2>1
<1>8. ASSUME NEW r \in Requests, Callback(r) \/ InferenceFails(r) \/ CallbackAfterFree(r)
      PROVE  Order'
  <2>1. UNCHANGED <<kind, fed, ended, out, taskq, pc>>
    BY <1>8 DEF Callback, CallbackWrites, CallbackCounts, CallbackReturns, InferenceFails,
                CallbackAfterFree, queueVars, streamVars
  <2> QED BY <1>1, <2>1
<1> QED BY <1>2, <1>3, <1>4, <1>5, <1>6, <1>7, <1>8 DEF Next, Activate

LEMMA InStepStep == IInv /\ Next => InStep'
<1> SUFFICES ASSUME IInv, Next
             PROVE  InStep'
  OBVIOUS
<1>0. kind \in {"frame", "window"} /\ fed \in Nat /\ InStep
  BY Types DEF IInv, Order
<1>1. ASSUME pc' \in {"await", "closed", "stopped"}
      PROVE  InStep'
  BY <1>1 DEF InStep
<1>2. ASSUME UNCHANGED <<kind, fed, lltaskq, frameq, frameNum>>,
             pc' = pc \/ (pc \in Between /\ pc' \in Between)
      PROVE  InStep'
  BY <1>0, <1>2 DEF InStep, CacheIs, Between
<1>3. CASE FeedFrame
  <2>1. /\ fed' = fed + 1 /\ lltaskq' = Append(lltaskq, fed + 1) /\ pc' = "execute"
        /\ UNCHANGED <<kind, frameq, frameNum>> /\ pc = "consume"
    BY <1>3 DEF FeedFrame, QueueTask
  <2>2. lltaskq = (IF kind = "window" /\ fed > 0 THEN <<fed>> ELSE <<>>) /\ CacheIs(fed)
    BY <1>0, <2>1 DEF InStep
  <2>3. lltaskq' = IF kind = "window" /\ fed > 0 THEN <<fed, fed + 1>> ELSE <<fed + 1>>
    BY <2>1, <2>2
  <2>4. fed' - 1 = fed /\ fed' > 0 /\ (fed' > 1 <=> fed > 0)
    BY <1>0, <2>1
  <2>5. kind' = "window" => frameq' = Cached(fed' - 1) /\ frameNum' = IF fed' - 1 = 0 THEN 0 ELSE 1
    BY <2>1, <2>2, <2>4 DEF CacheIs
  <2>6. lltaskq' = IF kind' = "window" /\ fed' > 1 THEN <<fed' - 1, fed'>> ELSE <<fed'>>
    BY <2>1, <2>3, <2>4
  <2> QED BY <2>1, <2>4, <2>5, <2>6 DEF InStep, CacheIs
<1>4. CASE ExecuteMoreFrames
  <2>1. /\ pc = "execute" /\ pc' = "consume" /\ kind = "window" /\ Len(Window) < 3
        /\ frameq' = Window /\ frameNum' = 1 /\ UNCHANGED <<kind, fed, lltaskq>>
    BY <1>4 DEF ExecuteMoreFrames, MoreFrames, CacheFrame, streamVars
  <2>2. /\ fed > 0 /\ lltaskq = IF fed > 1 THEN <<fed - 1, fed>> ELSE <<fed>>
        /\ frameq = Cached(fed - 1) /\ frameNum = IF fed - 1 = 0 THEN 0 ELSE 1
    BY <1>0, <2>1 DEF InStep, CacheIs
  <2>3. Last(lltaskq) = fed
    <3>1. lltaskq = <<fed - 1, fed>> \/ lltaskq = <<fed>>
      BY <2>2
    <3>2. Last(<<fed - 1, fed>>) = fed
      BY DEF Last
    <3>3. Last(<<fed>>) = fed
      BY DEF Last
    <3> QED BY <3>1, <3>2, <3>3
  <2>4. fed = 1
    <3>1. CASE fed - 1 # 0
      <4> DEFINE m == IF fed - 1 = 1 THEN 1 ELSE fed - 1 - 1
                 n == fed - 1
      <4>1. Window = <<m, n>> \o <<fed>>
        BY <2>2, <2>3, <3>1 DEF Window, Cached
      <4>2. Len(<<m, n>> \o <<fed>>) = 3
        <5> HIDE DEF m, n
        <5> QED OBVIOUS
      <4> QED BY <2>1, <4>1, <4>2
    <3>2. CASE fed - 1 = 0
      BY <1>0, <3>2
    <3> QED BY <3>1, <3>2
  <2>5. frameq' = <<fed, fed>> /\ lltaskq' = <<fed>>
    <3>1. frameq = <<>> /\ frameNum = 0
      BY <2>2, <2>4 DEF Cached
    <3>2. Window = <<>> \o <<fed, fed>>
      BY <2>3, <3>1 DEF Window
    <3>3. <<>> \o <<fed, fed>> = <<fed, fed>>
      BY Tuples
    <3> QED BY <2>1, <2>2, <2>4, <3>2, <3>3
  <2> QED BY <2>1, <2>4, <2>5 DEF InStep, CacheIs, Cached
<1>5. ASSUME NEW r \in Requests, ExecuteStarts(r)
      PROVE  InStep'
  <2>1. pc = "execute" /\ lltaskq # <<>> /\ FillInput /\ pc' = "consume" /\ UNCHANGED <<kind, fed>>
    BY <1>0, <1>5 DEF ExecuteStarts, streamVars, IInv, TypeInv
  <2>2. /\ lltaskq' = IF kind = "window" THEN <<fed>> ELSE <<>>
        /\ kind = "window" => frameq' = Cached(fed) /\ frameNum' = 1
    BY <2>1, FillsRight
  <2>3. fed > 0
    BY <1>0, <2>1 DEF InStep
  <2>4. CacheIs(fed)'
    BY <1>0, <2>1, <2>2, <2>3 DEF CacheIs, Cached
  <2> QED BY <1>0, <2>1, <2>2, <2>3, <2>4 DEF InStep
<1>6. ASSUME NEW r \in Requests, ExecuteFails(r) \/ FlushStarts(r) \/ FlushFails(r)
      PROVE  InStep'
  BY <1>1, <1>6 DEF ExecuteFails, FlushStarts, FlushFails
<1>7. CASE FlushNothing \/ EndAwait \/ Quit
  BY <1>1, <1>7 DEF FlushNothing, EndAwait, Quit
<1>8. CASE FreeModel \/ NoFrame \/ EndDrain \/ ActivateReturns \/ EndOfStream \/ SendFrame
  <2>1. /\ UNCHANGED <<kind, fed, lltaskq, frameq, frameNum>>
        /\ pc' = pc \/ (pc \in Between /\ pc' \in Between)
    BY <1>0, <1>8 DEF FreeModel, NoFrame, EndDrain, ActivateReturns, EndOfStream, SendFrame,
                      queueVars, streamVars, Between
  <2> QED BY <1>2, <2>1
<1>9. CASE FeedGroup \/ SendGroup
  BY <1>0, <1>9 DEF FeedGroup, SendGroup
<1>10. ASSUME NEW r \in Requests, Callback(r) \/ InferenceFails(r) \/ CallbackAfterFree(r)
      PROVE  InStep'
  <2>1. UNCHANGED <<kind, fed, lltaskq, frameq, frameNum, pc>>
    BY <1>10 DEF Callback, CallbackWrites, CallbackCounts, CallbackReturns, InferenceFails,
                CallbackAfterFree, queueVars, streamVars
  <2> QED BY <1>2, <2>1
<1> QED BY <1>3, <1>4, <1>5, <1>6, <1>7, <1>8, <1>9, <1>10 DEF Next, Activate

(* What is given to a request, as a step without a fault sees it. *)
LEMMA GivenFacts ==
  ASSUME TypeInv, NEW r \in Requests, NEW s, req' = Given(r, s), NEW q \in Requests
  PROVE  req'[q] = IF q = r THEN [st |-> s, task |-> Head(lltaskq), input |-> Input] ELSE req[q]
BY Types DEF Given

LEMMA RightStep == IInv /\ Next => RightResults'
<1> SUFFICES ASSUME IInv, Next
             PROVE  RightResults'
  OBVIOUS
<1>0. /\ TypeInv /\ kind # "group" /\ RightResults /\ fed \in Nat /\ ended \in BOOLEAN
      /\ req \in [Requests -> Request] /\ made \in [Frames -> Seq(Frames)]
  <2>1. TypeInv /\ kind # "group" /\ RightResults
    BY DEF IInv, Order
  <2>2. /\ fed \in 0 .. MaxFrames /\ MaxFrames \in Nat
        /\ req \in [Requests -> Request] /\ made \in [Frames -> Seq(Frames)]
    BY <2>1, Types
  <2>3. ended \in BOOLEAN
    BY <2>1 DEF TypeInv, DnnTypeOK, ControlOK
  <2>4. fed \in Nat
    BY <2>2
  <2> QED BY <2>1, <2>2, <2>3, <2>4
<1>1. ASSUME UNCHANGED <<kind, done, made, req>>, fed' \in Nat, ended' \in BOOLEAN,
             \/ fed' = fed /\ (ended => ended')
             \/ fed' = fed + 1 /\ ~ended
      PROVE  RightResults'
  <2>1. \A t, w : RightFor(kind, fed, ended, t, w) => RightFor(kind, fed', ended', t, w)
    BY <1>0, <1>1, StaysRight
  <2> QED BY <1>0, <1>1, <2>1 DEF RightResults, Right
<1>2. CASE FeedFrame
  <2>1. pc = "consume" /\ fed' = fed + 1 /\ UNCHANGED <<kind, done, made, req, ended>> /\ ~ended
    BY <1>2 DEF FeedFrame, IInv, Order
  <2> QED BY <1>0, <1>1, <2>1
<1>3. CASE EndOfStream
  <2>1. UNCHANGED <<kind, done, made, req, fed>> /\ ended' = TRUE
    BY <1>3 DEF EndOfStream
  <2> QED BY <1>0, <1>1, <2>1
<1>4. CASE NoFrame \/ EndDrain \/ ActivateReturns \/ FlushNothing \/ EndAwait \/ FreeModel \/ Quit
             \/ ExecuteMoreFrames \/ SendFrame \/ \E r \in Requests : ExecuteFails(r)
  <2>1. UNCHANGED <<kind, done, made, req, fed, ended>>
    BY <1>4, FlushIsFull DEF NoFrame, EndDrain, ActivateReturns, FlushNothing, EndAwait, FreeModel, Quit,
                ExecuteMoreFrames, SendFrame, ExecuteFails, queueVars, streamVars
  <2> QED BY <1>0, <1>1, <2>1
<1>5. CASE FeedGroup \/ SendGroup
  BY <1>0, <1>5 DEF FeedGroup, SendGroup
<1>6. ASSUME NEW r \in Requests, ExecuteStarts(r) \/ FlushStarts(r) \/ FlushFails(r)
      PROVE  RightResults'
  <2>1. /\ pc = "execute" \/ pc = "flush"
        /\ lltaskq # <<>> /\ FillInput /\ UNCHANGED <<kind, fed, ended, done, made>>
    BY <1>0, <1>6 DEF ExecuteStarts, FlushStarts, FlushFails, streamVars, TypeInv
  <2>2. PICK s \in {"running", "lost"} : req' = Given(r, s)
    BY <1>6 DEF ExecuteStarts, FlushStarts, FlushFails
  <2>3. RightFor(kind, fed, ended, Head(lltaskq), Input)
    BY <2>1, FillsRight DEF Right
  <2>4. \A q \in Requests :
          req'[q] = IF q = r THEN [st |-> s, task |-> Head(lltaskq), input |-> Input] ELSE req[q]
    BY <1>0, <2>2, GivenFacts
  <2>5. ASSUME NEW q \in Requests, req'[q].st \in {"running", "written", "counted"}
        PROVE  /\ RightFor(kind, fed, ended, req'[q].task, req'[q].input)
               /\ req'[q].st \in {"written", "counted"} => made[req'[q].task] = req'[q].input
    <3>1. CASE q = r
      BY <2>3, <2>4, <3>1
    <3>2. CASE q # r
      BY <1>0, <2>4, <2>5, <3>2 DEF RightResults, Right
    <3> QED BY <3>1, <3>2
  <2>6. \A t \in done : RightFor(kind, fed, ended, t, made[t])
    BY <1>0 DEF RightResults, Right
  <2> QED BY <2>1, <2>5, <2>6 DEF RightResults, Right
<1>7. ASSUME NEW r \in Requests, CallbackWrites(r)
      PROVE  RightResults'
  <2>1. /\ req[r].st = "running" /\ req' = [req EXCEPT ![r].st = "written"]
        /\ made' = [made EXCEPT ![req[r].task] = req[r].input]
        /\ UNCHANGED <<kind, fed, ended, done>>
    BY <1>0, <1>7 DEF CallbackWrites, streamVars
  <2>2. \A q \in Requests : /\ req'[q].task = req[q].task
                            /\ req'[q].input = req[q].input
                            /\ req'[q].st = IF q = r THEN "written" ELSE req[q].st
    BY <1>0, <2>1, MovesOn
  <2>3. RightFor(kind, fed, ended, req[r].task, req[r].input) /\ req[r].task \in Frames
    BY <1>0, <2>1 DEF RightResults, Right, TypeInv, InUse
  <2>4. \A t \in Frames : made'[t] = IF t = req[r].task THEN req[r].input ELSE made[t]
    BY <1>0, <2>1
  <2>5. ASSUME NEW q \in Requests, req'[q].st \in {"running", "written", "counted"}
        PROVE  /\ RightFor(kind, fed, ended, req'[q].task, req'[q].input)
               /\ req'[q].st \in {"written", "counted"} => made'[req'[q].task] = req'[q].input
    <3>1. RightFor(kind, fed, ended, req[q].task, req[q].input) /\ req[q].task \in Frames
      BY <1>0, <2>1, <2>2, <2>3, <2>5 DEF RightResults, Right, TypeInv, InUse
    <3>2. CASE req[q].task = req[r].task
      BY <2>2, <2>3, <2>4, <3>1, <3>2 DEF RightFor
    <3>3. CASE req[q].task # req[r].task
      BY <1>0, <2>2, <2>4, <2>5, <3>1, <3>3 DEF RightResults
    <3> QED BY <3>2, <3>3
  <2>6. ASSUME NEW t \in done
        PROVE  RightFor(kind, fed, ended, t, made'[t])
    <3>1. RightFor(kind, fed, ended, t, made[t]) /\ t \in Frames
      BY <1>0, Types DEF RightResults, Right
    <3>2. CASE t = req[r].task
      BY <2>3, <2>4, <3>1, <3>2
    <3>3. CASE t # req[r].task
      BY <2>4, <3>1, <3>3
    <3> QED BY <3>2, <3>3
  <2> QED BY <2>1, <2>5, <2>6 DEF RightResults, Right
<1>8. ASSUME NEW r \in Requests, CallbackCounts(r)
      PROVE  RightResults'
  <2>1. /\ req[r].st = "written" /\ req' = [req EXCEPT ![r].st = "counted"]
        /\ done' = done \cup {req[r].task} /\ UNCHANGED <<kind, fed, ended, made>>
    BY <1>8 DEF CallbackCounts, streamVars
  <2>2. \A q \in Requests : /\ req'[q].task = req[q].task
                            /\ req'[q].input = req[q].input
                            /\ req'[q].st = IF q = r THEN "counted" ELSE req[q].st
    BY <1>0, <2>1, MovesOn
  <2>3. ASSUME NEW q \in Requests, req'[q].st \in {"running", "written", "counted"}
        PROVE  /\ RightFor(kind, fed, ended, req'[q].task, req'[q].input)
               /\ req'[q].st \in {"written", "counted"} => made[req'[q].task] = req'[q].input
    BY <1>0, <2>1, <2>2, <2>3 DEF RightResults, Right
  <2>4. \A t \in done' : RightFor(kind, fed, ended, t, made[t])
    BY <1>0, <2>1 DEF RightResults, Right
  <2> QED BY <2>1, <2>3, <2>4 DEF RightResults, Right
<1>9. ASSUME NEW r \in Requests, CallbackReturns(r)
      PROVE  RightResults'
  <2>1. req' = [req EXCEPT ![r] = Idle] /\ UNCHANGED <<kind, fed, ended, done, made>>
    BY <1>9 DEF CallbackReturns, streamVars
  <2>2. \A q \in Requests : req'[q] = IF q = r THEN Idle ELSE req[q]
    BY <1>0, <2>1
  <2>3. Idle.st = "queued"
    BY DEF Idle
  <2> QED BY <1>0, <2>1, <2>2, <2>3 DEF RightResults, Right
<1>10. ASSUME NEW r \in Requests, InferenceFails(r) \/ CallbackAfterFree(r)
      PROVE  RightResults'
  <2>1. req' = [req EXCEPT ![r].st = "lost"] /\ UNCHANGED <<kind, fed, ended, done, made>>
    BY <1>10 DEF InferenceFails, CallbackAfterFree, streamVars
  <2>2. \A q \in Requests : /\ req'[q].task = req[q].task
                            /\ req'[q].input = req[q].input
                            /\ req'[q].st = IF q = r THEN "lost" ELSE req[q].st
    BY <1>0, <2>1, MovesOn
  <2> QED BY <1>0, <2>1, <2>2 DEF RightResults, Right
<1> QED BY <1>2, <1>3, <1>4, <1>5, <1>6, <1>7, <1>8, <1>9, <1>10 DEF Next, Activate, Callback

LEMMA Step == IInv /\ [Next]_vars => IInv'
<1>1. ASSUME IInv, UNCHANGED vars
      PROVE  IInv'
  <2>1. TypeInv'
    BY <1>1, TypeStep DEF IInv
  <2>2. Order' /\ InStep' /\ RightResults'
    BY <1>1 DEF IInv, Order, InStep, CacheIs, RightResults, Right, vars, queueVars, streamVars
  <2> QED BY <2>1, <2>2 DEF IInv
<1>2. IInv /\ Next => IInv'
  BY TypeStep, OrderStep, InStepStep, RightStep DEF IInv
<1> QED BY <1>1, <1>2

(* Each step of the backend is one the filter promises, or none. *)
LEMMA FilterSteps == IInv /\ [Next]_vars => [Filter!Next]_(Filter!filterVars)
<1> SUFFICES ASSUME IInv, [Next]_vars
             PROVE  [Filter!Next]_(Filter!filterVars)
  OBVIOUS
<1> DEFINE Open == {"consume", "execute", "drain", "status", "flush", "await"}
<1>0. /\ TypeInv /\ kind # "group" /\ Filter!Unit = 1 /\ fed \in Nat
      /\ (ended <=> pc \in {"flush", "await", "closed"}) /\ Len(taskq) = fed - Len(out)
      /\ \A i \in 1 .. Len(taskq) : taskq[i] = Len(out) + i
      /\ taskq \in Seq(Frames) /\ out \in Seq(Shot) /\ Len(out) \in Nat
  BY Types DEF IInv, Order, Filter!Unit
<1>1. /\ pc \in Open => State = "open"
      /\ pc = "closed" => State = "complete"
      /\ pc = "stopped" => State = "abandoned"
      /\ pc' \in Open => State' = "open"
      /\ pc' = "closed" => State' = "complete"
      /\ pc' = "stopped" => State' = "abandoned"
  BY DEF State
<1>2. ASSUME UNCHANGED <<kind, fed, ended, out>>, pc' = pc \/ (pc \in Open /\ pc' \in Open)
      PROVE  UNCHANGED Filter!filterVars
  BY <1>1, <1>2 DEF Filter!filterVars, State
<1>3. CASE FeedFrame
  <2>1. pc \in Open /\ pc' \in Open /\ ~ended /\ fed' = fed + 1 /\ UNCHANGED <<kind, ended, out>>
    BY <1>0, <1>3 DEF FeedFrame
  <2> QED BY <1>1, <2>1 DEF Filter!Next, Filter!Feed
<1>4. CASE EndOfStream
  <2>1. pc \in Open /\ pc' \in Open /\ ended' = TRUE /\ UNCHANGED <<kind, fed, out>>
    BY <1>4 DEF EndOfStream
  <2> QED BY <1>1, <2>1 DEF Filter!Next, Filter!End
<1>5. CASE SendFrame
  <2> DEFINE f == Len(out) + 1
  <2>1. /\ pc \in Open /\ taskq # <<>> /\ Head(taskq) \in done /\ UNCHANGED <<kind, fed, ended, pc>>
        /\ out' = Append(out, Shown(Head(taskq)))
    BY <1>5 DEF SendFrame, Ready, streamVars
  <2>2. Head(taskq) = f /\ f <= fed
    <3>1. Len(taskq) > 0 /\ Head(taskq) = taskq[1]
      BY <1>0, <2>1
    <3> QED BY <1>0, <3>1
  <2>3. RightFor(kind, fed, ended, f, made[f])
    BY <2>1, <2>2 DEF IInv, RightResults, Right
  <2>4. Filter!Known(f) /\ made[f] = Filter!Wanted(f)
    BY <2>3 DEF RightFor, Filter!Known, Filter!Wanted
  <2>5. /\ Len(out') = f /\ out'[f] = [frame |-> f, of |-> made[f]]
        /\ \A i \in 1 .. Len(out) : out'[i] = out[i]
    <3>1. out' = Append(out, [frame |-> f, of |-> made[f]])
      BY <2>1, <2>2 DEF Shown
    <3> QED BY <1>0, <3>1
  <2>6. \A g \in Len(out) + 1 .. Len(out) + 1 : g = f
    BY <1>0
  <2>7. Filter!Answer
    <3> HIDE DEF f
    <3>1. f = Len(out) + 1
      BY DEF f
    <3>2. \A g \in Len(out) + 1 .. Len(out) + 1 :
            Filter!Known(g) /\ out'[g].frame = g /\ out'[g].of = Filter!Wanted(g)
      BY <2>4, <2>5, <2>6
    <3> QED BY <1>0, <1>1, <2>1, <2>2, <2>5, <3>1, <3>2 DEF Filter!Answer, State
  <2> QED BY <2>7 DEF Filter!Next
<1>6. CASE EndAwait
  <2>1. pc \in Open /\ pc' = "closed" /\ ended /\ fed < Len(out) + 1 /\ UNCHANGED <<kind, fed, ended, out>>
    <3>1. taskq = <<>> /\ pc = "await" /\ pc' = "closed" /\ UNCHANGED <<kind, fed, ended, out>>
      BY <1>6 DEF EndAwait, streamVars
    <3>2. Len(taskq) = 0
      BY <3>1
    <3> QED BY <1>0, <3>1, <3>2
  <2> QED BY <1>0, <1>1, <2>1 DEF Filter!Next, Filter!Close
<1>7. CASE Quit \/ \E r \in Requests : ExecuteFails(r)
  <2>1. pc \in Open /\ pc' = "stopped" /\ UNCHANGED <<kind, fed, ended, out>>
    BY <1>7 DEF Quit, ExecuteFails, streamVars
  <2> QED BY <1>1, <2>1 DEF Filter!Next, Filter!Abandon
<1>8. CASE NoFrame \/ EndDrain \/ ActivateReturns \/ FlushNothing \/ FreeModel \/ ExecuteMoreFrames
  <2>1. UNCHANGED <<kind, fed, ended, out>> /\ (pc' = pc \/ (pc \in Open /\ pc' \in Open))
    BY <1>8, FlushIsFull DEF NoFrame, EndDrain, ActivateReturns, FlushNothing, FreeModel,
                ExecuteMoreFrames, streamVars
  <2> QED BY <1>2, <2>1
<1>9. CASE FeedGroup \/ SendGroup
  BY <1>0, <1>9 DEF FeedGroup, SendGroup
<1>10. ASSUME NEW r \in Requests,
              \/ ExecuteStarts(r) \/ FlushStarts(r) \/ FlushFails(r)
              \/ Callback(r) \/ InferenceFails(r) \/ CallbackAfterFree(r)
       PROVE  UNCHANGED Filter!filterVars
  <2>1. UNCHANGED <<kind, fed, ended, out>> /\ (pc' = pc \/ (pc \in Open /\ pc' \in Open))
    BY <1>0, <1>10 DEF ExecuteStarts, FlushStarts, FlushFails, Callback, CallbackWrites,
      CallbackCounts, CallbackReturns, InferenceFails, CallbackAfterFree, streamVars
  <2> QED BY <1>2, <2>1
<1>11. CASE UNCHANGED vars
  BY <1>2, <1>11 DEF vars, streamVars
<1> QED BY <1>3, <1>4, <1>5, <1>6, <1>7, <1>8, <1>9, <1>10, <1>11 DEF Next, Activate

-----------------------------------------------------------------------------
(* Models of groups.  out_queue holds the frames not sent yet, which are    *)
(* those of the tasks not answered yet and those still gathered for a task. *)

\* The frames gathered for the next task.
Gathered == IF pc = "execute" THEN 0 ELSE Len(inq)

Groups ==
  /\ kind = "group"
  /\ ended <=> pc \in AfterEnd
  /\ Len(outq) = fed - Len(out)
  /\ \A i \in 1 .. Len(outq) : outq[i] = Len(out) + i
  /\ Len(outq) = Len(taskq) * GroupSize + Gathered
  /\ pc # "execute" => Len(inq) < GroupSize

LEMMA Multiples ==
  ASSUME NEW n \in Nat, NEW g \in Nat
  PROVE  n * g \in Nat /\ (n + 1) * g = n * g + g /\ 0 * g = 0 /\ (n > 0 => (n - 1) * g = n * g - g)
OBVIOUS

\* What a group step starts from.
LEMMA GroupTypes ==
  ASSUME TypeInv, Groups
  PROVE  /\ inq \in Seq(Frames) /\ outq \in Seq(Frames) /\ taskq \in Seq(Frames) /\ out \in Seq(Shot)
         /\ Len(inq) \in Nat /\ Len(outq) \in Nat /\ Len(taskq) \in Nat /\ Len(out) \in Nat
         /\ fed \in Nat /\ GroupSize \in Nat \ {0}
         /\ (pc = "execute" => Len(inq) = GroupSize) /\ (pc # "execute" => lltaskq = <<>>)
<1>1. /\ inq \in Seq(Frames) /\ outq \in Seq(Frames) /\ taskq \in Seq(Frames) /\ out \in Seq(Shot)
      /\ lltaskq \in Seq(Frames) /\ fed \in Nat /\ GroupSize \in Nat \ {0}
  BY Types
<1>2. pc # "execute" => Len(lltaskq) = 0
  BY DEF TypeInv, Groups
<1> QED BY <1>1, <1>2 DEF TypeInv, Groups

LEMMA GroupJoins ==
  ASSUME TypeInv, Groups, FeedGroup
  PROVE  Groups'
<1>0. /\ pc = "consume" /\ fed' = fed + 1 /\ UNCHANGED <<kind, ended, out>>
      /\ inq' = Append(inq, fed + 1) /\ outq' = Append(outq, fed + 1)
  BY DEF FeedGroup
<1>1. /\ inq \in Seq(Frames) /\ outq \in Seq(Frames) /\ taskq \in Seq(Frames)
      /\ Len(inq) \in Nat /\ Len(taskq) \in Nat /\ Len(out) \in Nat
      /\ fed \in Nat /\ GroupSize \in Nat \ {0}
  BY GroupTypes
<1>2. /\ ~ended /\ Len(outq) = fed - Len(out) /\ Len(inq) < GroupSize
      /\ Len(outq) = Len(taskq) * GroupSize + Len(inq)
      /\ \A i \in 1 .. Len(outq) : outq[i] = Len(out) + i
  BY <1>0 DEF Groups, Gathered, AfterEnd
<1>3. Len(inq') = Len(inq) + 1
  BY <1>0, <1>1
<1>4. Len(outq') = fed' - Len(out') /\ \A i \in 1 .. Len(outq') : outq'[i] = Len(out') + i
  <2>0. /\ outq \in Seq(Frames) /\ fed \in Nat /\ Len(out) \in Nat /\ outq' = Append(outq, fed + 1)
        /\ Len(outq) = fed - Len(out) /\ \A i \in 1 .. Len(outq) : outq[i] = Len(out) + i
    BY <1>0, <1>1, <1>2
  <2>1. Len(outq') = fed + 1 - Len(out) /\ \A i \in 1 .. Len(outq') : outq'[i] = Len(out) + i
    <3> DEFINE n == Len(out)
               t == Append(outq, fed + 1)
    <3>1. n \in Nat /\ Len(outq) = fed - n /\ \A i \in 1 .. Len(outq) : outq[i] = n + i
      BY <2>0
    <3> HIDE DEF n
    <3>2. Len(t) = fed + 1 - n /\ \A i \in 1 .. Len(t) : t[i] = n + i
      BY <2>0, <3>1, Counts
    <3> QED BY <2>0, <3>2 DEF n
  <2>2. Len(outq') = fed' - Len(out')
    BY <1>0, <2>1
  <2>3. \A i \in 1 .. Len(outq') : outq'[i] = Len(out') + i
    BY <1>0, <2>1
  <2> QED BY <2>2, <2>3
<1>5. Len(outq') = Len(taskq) * GroupSize + Len(inq')
  <2>1. Len(outq') = Len(outq) + 1 /\ Len(taskq) * GroupSize \in Nat
    BY <1>0, <1>1, Multiples
  <2> QED BY <1>1, <1>2, <1>3, <2>1
<1>6. kind' = "group" /\ ~ended'
  BY <1>0, <1>2 DEF Groups
<1>7. CASE Len(inq') = GroupSize
  <2>1. pc' = "execute" /\ Len(taskq') = Len(taskq) + 1
    BY <1>1, <1>7 DEF FeedGroup, QueueTask
  <2>2. Len(outq') = Len(taskq') * GroupSize + 0
    BY <1>1, <1>5, <1>7, <2>1, Multiples
  <2> QED BY <1>4, <1>6, <2>1, <2>2 DEF Groups, Gathered, AfterEnd
<1>8. CASE Len(inq') # GroupSize
  <2>1. pc' = "status" /\ taskq' = taskq
    BY <1>8 DEF FeedGroup
  <2>2. Len(inq') < GroupSize
    BY <1>1, <1>2, <1>3, <1>8
  <2> QED BY <1>4, <1>5, <1>6, <2>1, <2>2 DEF Groups, Gathered, AfterEnd
<1> QED BY <1>7, <1>8

(* The frames a group is sent as are the oldest of out_queue.               *)
LEMMA GroupLeaves ==
  ASSUME TypeInv, Groups, SendGroup
  PROVE  /\ Len(out) + GroupSize <= fed /\ Len(out') = Len(out) + GroupSize
         /\ \A i \in 1 .. Len(out) : out'[i] = out[i]
         /\ \A f \in Len(out) + 1 .. Len(out) + GroupSize : out'[f].frame = f
         /\ Groups'
<1>0. /\ pc \in {"drain", "await"} /\ pc' = (IF pc = "drain" THEN "consume" ELSE "await")
      /\ taskq # <<>> /\ taskq' = Tail(taskq) /\ Len(outq) >= GroupSize
      /\ outq' = SubSeq(outq, GroupSize + 1, Len(outq)) /\ UNCHANGED <<inq, kind, fed, ended>>
      /\ out' = out \o [i \in 1 .. GroupSize |-> Shown(outq[i])]
  BY DEF SendGroup, Ready, streamVars
<1>1. /\ outq \in Seq(Frames) /\ taskq \in Seq(Frames) /\ out \in Seq(Shot)
      /\ Len(inq) \in Nat /\ Len(outq) \in Nat /\ Len(taskq) \in Nat /\ Len(out) \in Nat
      /\ fed \in Nat /\ GroupSize \in Nat \ {0}
  BY GroupTypes
<1>2. /\ Len(outq) = fed - Len(out) /\ Len(inq) < GroupSize /\ (ended <=> pc \in AfterEnd)
      /\ Len(outq) = Len(taskq) * GroupSize + Len(inq) /\ kind = "group"
      /\ \A i \in 1 .. Len(outq) : outq[i] = Len(out) + i
  BY <1>0 DEF Groups, Gathered
<1> DEFINE sent == [i \in 1 .. GroupSize |-> Shown(outq[i])]
<1>3. sent \in Seq(Shot) /\ Len(sent) = GroupSize
  <2>1. \A i \in 1 .. GroupSize : Shown(outq[i]) \in Shot
    <3>1. \A i \in 1 .. GroupSize : outq[i] \in Frames
      BY <1>0, <1>1
    <3> QED BY <3>1, Types DEF Shown, Shot
  <2> QED BY <1>1, <2>1, IsASeq
<1>4. ASSUME NEW i \in 1 .. GroupSize
      PROVE  sent[i].frame = Len(out) + i
  <2>1. i \in 1 .. Len(outq)
    BY <1>0, <1>1
  <2>2. sent[i].frame = outq[i]
    BY DEF Shown
  <2> QED BY <1>2, <2>1, <2>2
<1> HIDE DEF sent
<1>5. /\ Len(out') = Len(out) + GroupSize
      /\ \A i \in 1 .. Len(out) + GroupSize : out'[i] = IF i <= Len(out) THEN out[i] ELSE sent[i - Len(out)]
  <2>1. out' = out \o sent
    BY <1>0 DEF sent
  <2> QED BY <1>1, <1>3, <2>1, ConcatProperties
<1>6. \A i \in 1 .. Len(out) : out'[i] = out[i]
  BY <1>1, <1>5
<1>7. ASSUME NEW f \in Len(out) + 1 .. Len(out) + GroupSize
      PROVE  out'[f].frame = f
  <2>1. f \in 1 .. Len(out) + GroupSize /\ ~(f <= Len(out)) /\ f - Len(out) \in 1 .. GroupSize
        /\ Len(out) + (f - Len(out)) = f
    BY <1>1
  <2> QED BY <1>4, <1>5, <2>1
<1>8. /\ Len(outq') = Len(outq) - GroupSize
      /\ \A i \in 1 .. Len(outq) - GroupSize : outq'[i] = outq[GroupSize + i]
  <2>1. GroupSize + 1 \in 1 .. Len(outq) + 1 /\ Len(outq) \in GroupSize .. Len(outq)
    BY <1>0, <1>1
  <2>2. outq' \in Seq(Frames) /\ Len(outq') = Len(outq) - GroupSize
    BY <1>0, <1>1, <2>1
  <2> QED BY <1>0, <1>1, <2>1, <2>2
<1>9. Len(outq') = fed' - Len(out') /\ \A i \in 1 .. Len(outq') : outq'[i] = Len(out') + i
  <2>1. Len(outq') = fed' - Len(out')
    <3>1. Len(outq) = fed - Len(out) /\ fed' = fed
      BY <1>0, <1>2
    <3>2. Len(out') = Len(out) + GroupSize /\ Len(outq') = Len(outq) - GroupSize
      BY <1>5, <1>8
    <3> QED BY <1>1, <3>1, <3>2
  <2>2. ASSUME NEW i \in 1 .. Len(outq')
        PROVE  outq'[i] = Len(out') + i
    <3>1. i \in 1 .. Len(outq) - GroupSize /\ GroupSize + i \in 1 .. Len(outq)
      BY <1>1, <1>8
    <3> QED BY <1>1, <1>2, <1>5, <1>8, <3>1
  <2> QED BY <2>1, <2>2
<1>10. Len(outq') = Len(taskq') * GroupSize + Len(inq')
  <2>1. Len(taskq) > 0 /\ Len(taskq') = Len(taskq) - 1
    BY <1>0, <1>1
  <2>2. Len(taskq') * GroupSize = Len(taskq) * GroupSize - GroupSize /\ Len(taskq) * GroupSize \in Nat
    BY <1>1, <2>1, Multiples
  <2>3. Len(inq') = Len(inq) /\ Len(outq') = Len(outq) - GroupSize
    BY <1>0, <1>8
  <2>4. Len(outq) = Len(taskq) * GroupSize + Len(inq)
    BY <1>2
  <2> DEFINE m == Len(taskq) * GroupSize
  <2>5. m \in Nat /\ Len(taskq') * GroupSize = m - GroupSize /\ Len(outq) = m + Len(inq)
    BY <2>2, <2>4
  <2> HIDE DEF m
  <2>6. Len(outq') = (m - GroupSize) + Len(inq')
    BY <1>1, <2>3, <2>5
  <2> QED BY <2>5, <2>6
<1>11. Groups'
  <2>1. pc' # "execute" /\ (ended' <=> pc' \in AfterEnd) /\ kind' = "group" /\ Len(inq') < GroupSize
    BY <1>0, <1>2 DEF AfterEnd
  <2> QED BY <1>9, <1>10, <2>1 DEF Groups, Gathered
<1>12. Len(out) + GroupSize <= fed
  BY <1>0, <1>1, <1>2
<1> QED BY <1>5, <1>6, <1>7, <1>11, <1>12

LEMMA GroupsStep == TypeInv /\ Groups /\ [Next]_vars => Groups'
<1> SUFFICES ASSUME TypeInv, Groups, [Next]_vars
             PROVE  Groups'
  OBVIOUS
<1>0. /\ kind = "group" /\ Len(inq) \in Nat /\ GroupSize \in Nat \ {0}
      /\ (pc # "execute" => lltaskq = <<>>)
  BY GroupTypes DEF Groups
<1>1. ASSUME UNCHANGED <<kind, fed, ended, out, outq, taskq, inq>>, pc' \in AfterEnd <=> pc \in AfterEnd,
             pc' = "execute" <=> pc = "execute"
      PROVE  Groups'
  BY <1>1 DEF Groups, Gathered
<1>2. CASE FeedGroup
  BY <1>2, GroupJoins
<1>3. CASE SendGroup
  BY <1>3, GroupLeaves
<1>4. CASE EndOfStream
  BY <1>4 DEF EndOfStream, queueVars, Groups, Gathered, AfterEnd
<1>5. ASSUME NEW r \in Requests, ExecuteStarts(r) \/ ExecuteFails(r)
      PROVE  Groups'
  <2>1. /\ pc = "execute" /\ pc' \in {"drain", "stopped"} /\ inq' = <<>>
        /\ UNCHANGED <<kind, fed, ended, out, outq, taskq>>
    BY <1>0, <1>5 DEF ExecuteStarts, ExecuteFails, FillInput, streamVars
  <2>2. Len(inq') = 0 /\ 0 < GroupSize
    BY <1>0, <2>1
  <2> QED BY <2>1, <2>2 DEF Groups, Gathered, AfterEnd
<1>6. CASE FeedFrame \/ SendFrame \/ ExecuteMoreFrames \/ \E r \in Requests : FlushStarts(r) \/ FlushFails(r)
  BY <1>0, <1>6 DEF FeedFrame, SendFrame, ExecuteMoreFrames, MoreFrames, FlushStarts, FlushFails
<1>7. CASE NoFrame \/ EndDrain \/ ActivateReturns \/ FlushNothing \/ EndAwait \/ FreeModel \/ Quit
             \/ UNCHANGED vars
  <2>1. /\ UNCHANGED <<kind, fed, ended, out, outq, taskq, inq>> /\ (pc' \in AfterEnd <=> pc \in AfterEnd)
        /\ (pc' = "execute" <=> pc = "execute")
    BY <1>0, <1>7 DEF NoFrame, EndDrain, ActivateReturns, FlushNothing, EndAwait, FreeModel, Quit, vars,
                queueVars, streamVars, AfterEnd
  <2> QED BY <1>1, <2>1
<1>8. ASSUME NEW r \in Requests, Callback(r) \/ InferenceFails(r) \/ CallbackAfterFree(r)
      PROVE  Groups'
  <2>1. UNCHANGED <<kind, fed, ended, out, outq, taskq, inq, pc>>
    BY <1>8 DEF Callback, CallbackWrites, CallbackCounts, CallbackReturns, InferenceFails,
                CallbackAfterFree, queueVars, streamVars
  <2> QED BY <1>1, <2>1
<1> QED BY <1>2, <1>3, <1>4, <1>5, <1>6, <1>7, <1>8 DEF Next, Activate

LEMMA GroupSteps == TypeInv /\ Groups /\ [Next]_vars => [Filter!Next]_(Filter!filterVars)
<1> SUFFICES ASSUME TypeInv, Groups, [Next]_vars
             PROVE  [Filter!Next]_(Filter!filterVars)
  OBVIOUS
<1> DEFINE Open == {"consume", "execute", "drain", "status", "flush", "await"}
<1>0. /\ kind = "group" /\ Filter!Unit = GroupSize /\ fed \in Nat /\ GroupSize \in Nat \ {0}
      /\ (ended <=> pc \in {"flush", "await", "closed"}) /\ (pc # "execute" => lltaskq = <<>>)
  BY GroupTypes DEF Groups, AfterEnd, Filter!Unit
<1>1. /\ pc \in Open => State = "open"
      /\ pc = "closed" => State = "complete"
      /\ pc = "stopped" => State = "abandoned"
      /\ pc' \in Open => State' = "open"
      /\ pc' = "closed" => State' = "complete"
      /\ pc' = "stopped" => State' = "abandoned"
  BY DEF State
<1>2. ASSUME UNCHANGED <<kind, fed, ended, out>>, pc' = pc \/ (pc \in Open /\ pc' \in Open)
      PROVE  UNCHANGED Filter!filterVars
  BY <1>1, <1>2 DEF Filter!filterVars, State
<1>3. CASE FeedGroup
  <2>1. pc \in Open /\ pc' \in Open /\ ~ended /\ fed' = fed + 1 /\ UNCHANGED <<kind, ended, out>>
    BY <1>0, <1>3 DEF FeedGroup
  <2> QED BY <1>1, <2>1 DEF Filter!Next, Filter!Feed
<1>4. CASE EndOfStream
  <2>1. pc \in Open /\ pc' \in Open /\ ended' = TRUE /\ UNCHANGED <<kind, fed, out>>
    BY <1>4 DEF EndOfStream
  <2> QED BY <1>1, <2>1 DEF Filter!Next, Filter!End
<1>5. CASE SendGroup
  <2>1. /\ Len(out) + GroupSize <= fed /\ Len(out') = Len(out) + GroupSize
        /\ \A i \in 1 .. Len(out) : out'[i] = out[i]
        /\ \A f \in Len(out) + 1 .. Len(out) + GroupSize : out'[f].frame = f
    BY <1>5, GroupLeaves
  <2>2. pc \in Open /\ pc' \in Open /\ UNCHANGED <<kind, fed, ended>>
    BY <1>5 DEF SendGroup, streamVars
  <2>3. Filter!Answer
    BY <1>0, <1>1, <2>1, <2>2 DEF Filter!Answer, Filter!Known
  <2> QED BY <2>3 DEF Filter!Next
<1>6. CASE EndAwait
  <2>1. taskq = <<>> /\ pc = "await" /\ pc' = "closed" /\ UNCHANGED <<kind, fed, ended, out>>
    BY <1>6 DEF EndAwait, streamVars
  <2>2. fed < Len(out) + GroupSize
    <3>1. Len(taskq) = 0 /\ Len(taskq) * GroupSize = 0
      BY <1>0, <2>1, Multiples
    <3>2. fed - Len(out) = Len(taskq) * GroupSize + Len(inq) /\ Len(inq) < GroupSize
      BY <2>1 DEF Groups, Gathered
    <3> QED BY <1>0, <3>1, <3>2, GroupTypes
  <2> QED BY <1>0, <1>1, <2>1, <2>2 DEF Filter!Next, Filter!Close
<1>7. CASE Quit \/ \E r \in Requests : ExecuteFails(r)
  <2>1. pc \in Open /\ pc' = "stopped" /\ UNCHANGED <<kind, fed, ended, out>>
    BY <1>7 DEF Quit, ExecuteFails, streamVars
  <2> QED BY <1>1, <2>1 DEF Filter!Next, Filter!Abandon
<1>8. CASE NoFrame \/ EndDrain \/ ActivateReturns \/ FlushNothing \/ FreeModel \/ UNCHANGED vars
  <2>1. UNCHANGED <<kind, fed, ended, out>> /\ (pc' = pc \/ (pc \in Open /\ pc' \in Open))
    BY <1>0, <1>8 DEF NoFrame, EndDrain, ActivateReturns, FlushNothing, FreeModel, vars, streamVars
  <2> QED BY <1>2, <2>1
<1>9. CASE FeedFrame \/ SendFrame \/ ExecuteMoreFrames \/ \E r \in Requests : FlushStarts(r) \/ FlushFails(r)
  BY <1>0, <1>9 DEF FeedFrame, SendFrame, ExecuteMoreFrames, MoreFrames, FlushStarts, FlushFails
<1>10. ASSUME NEW r \in Requests,
              ExecuteStarts(r) \/ Callback(r) \/ InferenceFails(r) \/ CallbackAfterFree(r)
       PROVE  UNCHANGED Filter!filterVars
  <2>1. UNCHANGED <<kind, fed, ended, out>> /\ (pc' = pc \/ (pc \in Open /\ pc' \in Open))
    BY <1>0, <1>10 DEF ExecuteStarts, Callback, CallbackWrites, CallbackCounts, CallbackReturns,
                       InferenceFails, CallbackAfterFree, streamVars
  <2> QED BY <1>2, <2>1
<1> QED BY <1>3, <1>4, <1>5, <1>6, <1>7, <1>8, <1>9, <1>10 DEF Next, Activate

LEMMA GroupsInit == Init /\ kind = "group" => Groups
<1> SUFFICES ASSUME Init, kind = "group"
             PROVE  Groups
  OBVIOUS
<1>1. /\ fed = 0 /\ pc = "consume" /\ ended = FALSE /\ taskq = <<>> /\ inq = <<>> /\ outq = <<>> /\ out = <<>>
  BY DEF Init
<1>2. Len(taskq) = 0 /\ Len(inq) = 0 /\ Len(outq) = 0 /\ Len(out) = 0 /\ GroupSize \in Nat \ {0}
  BY <1>1, DnnAssumption
<1>3. Len(outq) = Len(taskq) * GroupSize + Gathered
  <2>1. Len(taskq) * GroupSize = 0
    BY <1>2, Multiples
  <2> QED BY <1>1, <1>2, <2>1 DEF Gathered
<1>4. \A i \in 1 .. Len(outq) : outq[i] = Len(out) + i
  <2>1. \A i \in 1 .. 0 : FALSE
    OBVIOUS
  <2> QED BY <1>2, <2>1, Zenon
<1>5. Len(outq) = fed - Len(out) /\ Len(inq) < GroupSize
  <2>1. 0 - 0 = 0 /\ 0 < GroupSize
    BY <1>2
  <2> QED BY <1>1, <1>2, <2>1, Zenon
<1> QED BY <1>1, <1>3, <1>4, <1>5 DEF Groups, AfterEnd

FilterInv == TypeInv /\ (IInv \/ Groups)

(* For every kind of model, any number of requests and however inferences   *)
(* end: frames leave in order, each once, those of models of one frame and  *)
(* of windows made from the right neighbours, and the stream is closed with *)
(* none left behind but those of an incomplete group.  A window has to be   *)
(* the first of its process.                                                *)
THEOREM DnnImplementsFilter ==
  ASSUME "window" \in Kinds => FrameNum = 0
  PROVE  Spec => FilterSpec
<1>1. Init => Filter!Init
  <2> SUFFICES ASSUME Init
               PROVE  Filter!Init
    OBVIOUS
  <2>1. State = "open"
    BY DEF Init, State
  <2> QED BY <2>1 DEF Init, Filter!Init
<1>2. Init => FilterInv
  BY Initially, GroupsInit, TypeInit DEF FilterInv
<1>3. FilterInv /\ [Next]_vars => FilterInv'
  BY Step, GroupsStep, TypeStep DEF FilterInv
<1>4. FilterInv /\ [Next]_vars => [Filter!Next]_(Filter!filterVars)
  BY FilterSteps, GroupSteps DEF FilterInv
<1> QED BY <1>1, <1>2, <1>3, <1>4, PTL DEF Spec, FilterSpec, Filter!Spec

-----------------------------------------------------------------------------
\* An inference is over once its task is counted.
Live(r) == req[r].st \in {"running", "written"}

Apart(s) == \A i, j \in DOMAIN s : i # j => s[i] # s[j]

\* A task whose inference is not over is still waited for, and is nobody else's.
Awaited ==
  /\ done \subseteq 1 .. fed /\ ToSet(taskq) \subseteq 1 .. fed
  /\ ToSet(lltaskq) \subseteq ToSet(taskq) \ done
  /\ Apart(lltaskq)
  /\ \A r \in Requests : Live(r) =>
       /\ req[r].task \in ToSet(taskq) \ (done \cup ToSet(lltaskq))
       /\ \A q \in Requests : q # r /\ Live(q) => req[q].task # req[r].task
  /\ pc = "closed" => taskq = <<>>

LEMMA Elements ==
  ASSUME NEW S, NEW s \in Seq(S), NEW e
  PROVE  /\ ToSet(Append(s, e)) = ToSet(s) \cup {e}
         /\ s # <<>> => ToSet(s) = {Head(s)} \cup ToSet(Tail(s))
         /\ ToSet(s) = {} <=> s = <<>>
<1>1. DOMAIN s = 1 .. Len(s) /\ Len(s) \in Nat
  OBVIOUS
<1>2. ToSet(Append(s, e)) = ToSet(s) \cup {e}
  <2> DEFINE t == Append(s, e)
  <2>1. DOMAIN t = 1 .. Len(s) + 1 /\ \A i \in 1 .. Len(s) + 1 : t[i] = IF i <= Len(s) THEN s[i] ELSE e
    OBVIOUS
  <2> HIDE DEF t
  <2>2. ToSet(t) \subseteq ToSet(s) \cup {e}
    BY <1>1, <2>1 DEF ToSet
  <2>3. ToSet(s) \subseteq ToSet(t)
    <3> SUFFICES ASSUME NEW i \in DOMAIN s
                 PROVE  s[i] \in ToSet(t)
      BY DEF ToSet
    <3>1. i \in DOMAIN t /\ t[i] = s[i]
      BY <1>1, <2>1
    <3> QED BY <3>1 DEF ToSet
  <2>4. e \in ToSet(t)
    <3>1. Len(s) + 1 \in DOMAIN t /\ t[Len(s) + 1] = e
      BY <1>1, <2>1
    <3> QED BY <3>1 DEF ToSet
  <2> QED BY <2>2, <2>3, <2>4 DEF t
<1>3. ASSUME s # <<>>
      PROVE  ToSet(s) = {Head(s)} \cup ToSet(Tail(s))
  <2> DEFINE t == Tail(s)
  <2>1. DOMAIN t = 1 .. Len(s) - 1 /\ \A i \in 1 .. Len(s) - 1 : t[i] = s[i + 1]
    BY <1>3
  <2>2. Len(s) > 0 /\ Head(s) = s[1]
    BY <1>3
  <2> HIDE DEF t
  <2>3. ToSet(s) \subseteq {Head(s)} \cup ToSet(t)
    <3> SUFFICES ASSUME NEW i \in DOMAIN s, i # 1
                 PROVE  s[i] \in ToSet(t)
      BY <2>2 DEF ToSet
    <3>1. i - 1 \in DOMAIN t /\ t[i - 1] = s[i]
      BY <1>1, <2>1
    <3> QED BY <3>1 DEF ToSet
  <2>4. ToSet(t) \subseteq ToSet(s)
    <3> SUFFICES ASSUME NEW i \in DOMAIN t
                 PROVE  t[i] \in ToSet(s)
      BY DEF ToSet
    <3>1. i + 1 \in DOMAIN s /\ t[i] = s[i + 1]
      BY <1>1, <2>1
    <3> QED BY <3>1 DEF ToSet
  <2>5. Head(s) \in ToSet(s)
    BY <1>1, <2>2 DEF ToSet
  <2> QED BY <2>3, <2>4, <2>5 DEF t
<1>4. ToSet(s) = {} <=> s = <<>>
  <2>1. s # <<>> => s[1] \in ToSet(s)
    BY <1>1 DEF ToSet
  <2>2. s = <<>> => ToSet(s) = {}
    BY DEF ToSet
  <2> QED BY <2>1, <2>2
<1> QED BY <1>2, <1>3, <1>4

(* Distinct tasks stay so when a new one joins and when the oldest leaves,  *)
(* which is then not among the rest.                                        *)
LEMMA ApartFacts ==
  ASSUME NEW S, NEW s \in Seq(S), Apart(s), NEW e
  PROVE  /\ e \notin ToSet(s) => Apart(Append(s, e))
         /\ s # <<>> => Apart(Tail(s)) /\ Head(s) \notin ToSet(Tail(s))
<1>1. DOMAIN s = 1 .. Len(s) /\ Len(s) \in Nat
  OBVIOUS
<1>2. ASSUME e \notin ToSet(s)
      PROVE  Apart(Append(s, e))
  <2> DEFINE t == Append(s, e)
  <2>1. DOMAIN t = 1 .. Len(s) + 1 /\ \A i \in 1 .. Len(s) + 1 : t[i] = IF i <= Len(s) THEN s[i] ELSE e
    OBVIOUS
  <2>2. \A i \in 1 .. Len(s) : s[i] # e
    BY <1>1, <1>2 DEF ToSet
  <2> HIDE DEF t
  <2>3. Apart(t)
    BY <1>1, <2>1, <2>2 DEF Apart
  <2> QED BY <2>3 DEF t
<1>3. ASSUME s # <<>>
      PROVE  Apart(Tail(s)) /\ Head(s) \notin ToSet(Tail(s))
  <2> DEFINE t == Tail(s)
  <2>1. DOMAIN t = 1 .. Len(s) - 1 /\ \A i \in 1 .. Len(s) - 1 : t[i] = s[i + 1]
    BY <1>3
  <2>2. Len(s) > 0 /\ Head(s) = s[1]
    BY <1>3
  <2> HIDE DEF t
  <2>3. \A i \in DOMAIN t : i + 1 \in DOMAIN s /\ i + 1 # 1 /\ t[i] = s[i + 1]
    BY <1>1, <2>1
  <2>4. \A i, j \in DOMAIN t : i # j => i + 1 # j + 1
    BY <1>1, <2>1
  <2>5. Apart(t)
    BY <2>3, <2>4 DEF Apart
  <2>6. \A i \in DOMAIN t : t[i] # s[1]
    BY <1>1, <2>2, <2>3 DEF Apart
  <2>7. Head(s) \notin ToSet(t)
    BY <2>2, <2>6 DEF ToSet
  <2> QED BY <2>5, <2>7 DEF t
<1> QED BY <1>2, <1>3

LEMMA AwaitedInit == Init => Awaited
<1> SUFFICES ASSUME Init
             PROVE  Awaited
  OBVIOUS
<1>1. done = {} /\ taskq = <<>> /\ lltaskq = <<>>
  BY DEF Init
<1>2. ToSet(<<>>) = {} /\ Apart(<<>>)
  BY DEF ToSet, Apart
<1>3. \A r \in Requests : ~Live(r)
  BY DEF Init, Idle, Live
<1> QED BY <1>1, <1>2, <1>3 DEF Awaited

LEMMA AwaitedStep == TypeInv /\ Awaited /\ [Next]_vars => Awaited'
<1> SUFFICES ASSUME TypeInv, Awaited, [Next]_vars
             PROVE  Awaited'
  OBVIOUS
<1>0. /\ taskq \in Seq(Frames) /\ lltaskq \in Seq(Frames) /\ req \in [Requests -> Request]
      /\ fed \in Nat
  BY Types
<1>1. ASSUME UNCHANGED <<done, taskq, lltaskq, req>>, fed' = fed \/ fed' = fed + 1,
             pc' = "closed" => taskq = <<>>
      PROVE  Awaited'
  <2>1. 1 .. fed \subseteq 1 .. fed'
    BY <1>0, <1>1
  <2>2. \A r \in Requests : Live(r)' <=> Live(r)
    BY <1>1 DEF Live
  <2> QED BY <1>1, <2>1, <2>2 DEF Awaited
<1>2. ASSUME UNCHANGED <<done, req>>, fed' = fed + 1, QueueTask(fed + 1), pc' # "closed"
      PROVE  Awaited'
  <2> DEFINE e == fed + 1
  <2>1. e \in Nat /\ e \notin 1 .. fed /\ 1 .. fed' = (1 .. fed) \cup {e}
    BY <1>0, <1>2
  <2>2. taskq' = Append(taskq, e) /\ lltaskq' = Append(lltaskq, e)
    BY <1>2 DEF QueueTask
  <2> HIDE DEF e
  <2>3. ToSet(taskq)' = ToSet(taskq) \cup {e} /\ ToSet(lltaskq)' = ToSet(lltaskq) \cup {e}
    BY <1>0, <2>2, Elements
  <2>4. e \notin ToSet(taskq) /\ e \notin ToSet(lltaskq) /\ e \notin done
    BY <2>1 DEF Awaited
  <2>5. Apart(lltaskq)'
    <3>1. Apart(Append(lltaskq, e))
      BY <1>0, <2>4, ApartFacts DEF Awaited
    <3> QED BY <2>2, <3>1 DEF Apart
  <2>6. done' \subseteq 1 .. fed' /\ ToSet(taskq)' \subseteq 1 .. fed'
        /\ ToSet(lltaskq)' \subseteq ToSet(taskq)' \ done'
    BY <1>2, <2>1, <2>3, <2>4 DEF Awaited
  <2>7. \A r \in Requests : (Live(r)' <=> Live(r)) /\ req'[r].task = req[r].task
    BY <1>2 DEF Live
  <2>8. \A r \in Requests : Live(r) =>
          req[r].task \in ToSet(taskq)' \ (done' \cup ToSet(lltaskq)')
    BY <1>2, <2>3, <2>4 DEF Awaited
  <2> QED BY <1>2, <2>5, <2>6, <2>7, <2>8 DEF Awaited
<1>3. ASSUME NEW r \in Requests,
             ExecuteStarts(r) \/ ExecuteFails(r) \/ FlushStarts(r) \/ FlushFails(r)
      PROVE  Awaited'
  <2> DEFINE e == Head(lltaskq)
  <2>1. /\ lltaskq # <<>> /\ lltaskq' = Tail(lltaskq) /\ UNCHANGED <<taskq, done, fed>>
        /\ pc' # "closed"
    BY <1>3 DEF ExecuteStarts, ExecuteFails, FlushStarts, FlushFails, FillInput, TypeInv, streamVars
  <2>2. /\ ToSet(lltaskq) = {e} \cup ToSet(Tail(lltaskq)) /\ e \notin ToSet(Tail(lltaskq))
        /\ Apart(Tail(lltaskq))
    BY <1>0, <2>1, Elements, ApartFacts DEF Awaited
  <2>3. ToSet(lltaskq)' = ToSet(lltaskq) \ {e} /\ e \in ToSet(lltaskq) /\ Apart(lltaskq)'
    BY <2>1, <2>2 DEF Apart
  <2>4. req' = req \/ \E s \in {"running", "lost"} : req' = Given(r, s)
    BY <1>3 DEF ExecuteStarts, ExecuteFails, FlushStarts, FlushFails
  <2> HIDE DEF e
  <2>5. ASSUME NEW q \in Requests, Live(q)'
        PROVE  \/ q # r /\ Live(q) /\ req'[q].task = req[q].task
               \/ req' = req /\ Live(q)
               \/ q = r /\ req'[q].task = e
    <3>1. CASE req' = req
      BY <2>5, <3>1 DEF Live
    <3>2. ASSUME NEW s \in {"running", "lost"}, req' = Given(r, s)
          PROVE  \/ q # r /\ Live(q) /\ req'[q].task = req[q].task
                 \/ q = r /\ req'[q].task = e
      <4>1. req'[q] = IF q = r THEN [st |-> s, task |-> e, input |-> Input] ELSE req[q]
        BY <3>2, GivenFacts DEF e
      <4> QED BY <2>5, <4>1 DEF Live
    <3> QED BY <2>4, <3>1, <3>2
  <2>6. ASSUME NEW q \in Requests, Live(q)'
        PROVE  /\ req'[q].task \in ToSet(taskq) \ (done \cup ToSet(lltaskq)')
               /\ \A p \in Requests : p # q /\ Live(p)' => req'[p].task # req'[q].task
    BY <2>3, <2>5, <2>6 DEF Awaited
  <2> QED BY <2>1, <2>3, <2>6 DEF Awaited
<1>4. CASE SendFrame \/ SendGroup
  <2>1. /\ taskq # <<>> /\ Head(taskq) \in done /\ taskq' = Tail(taskq) /\ pc' # "closed"
        /\ UNCHANGED <<lltaskq, done, fed, req>>
    BY <1>4 DEF SendFrame, SendGroup, Ready, streamVars
  <2>2. ToSet(taskq) = {Head(taskq)} \cup ToSet(taskq)'
    BY <1>0, <2>1, Elements
  <2>3. \A r \in Requests : (Live(r)' <=> Live(r)) /\ req'[r].task = req[r].task
    BY <2>1 DEF Live
  <2> QED BY <2>1, <2>2, <2>3 DEF Awaited
<1>5. CASE FeedFrame
  BY <1>2, <1>5 DEF FeedFrame
<1>6. CASE FeedGroup
  <2>1. UNCHANGED <<done, req>> /\ fed' = fed + 1 /\ pc' # "closed"
        /\ (QueueTask(fed + 1) \/ UNCHANGED <<taskq, lltaskq>>)
    BY <1>6 DEF FeedGroup
  <2> QED BY <1>1, <1>2, <2>1
<1>7. CASE NoFrame \/ EndDrain \/ ActivateReturns \/ EndOfStream \/ EndAwait
             \/ FreeModel \/ Quit \/ ExecuteMoreFrames \/ UNCHANGED vars
  <2>1. UNCHANGED <<done, taskq, lltaskq, req, fed>> /\ (pc' = "closed" => taskq = <<>>)
    BY <1>7 DEF NoFrame, EndDrain, ActivateReturns, EndOfStream, EndAwait, FreeModel, Quit,
                ExecuteMoreFrames, vars, queueVars, streamVars, Awaited
  <2> QED BY <1>1, <2>1
<1>8. ASSUME UNCHANGED <<done, taskq, lltaskq, fed>>, pc' # "closed" \/ pc' = pc,
             \A q \in Requests : Live(q)' => Live(q) /\ req'[q].task = req[q].task
      PROVE  Awaited'
  BY <1>8 DEF Awaited
<1>10. ASSUME NEW r \in Requests, NEW s \in {"written", "lost"}, ~Live(r) => s = "lost",
              req' = [req EXCEPT ![r].st = s]
       PROVE  \A q \in Requests : Live(q)' => Live(q) /\ req'[q].task = req[q].task
  <2>1. req \in [Requests -> Request]
    BY Types
  <2>2. \A q \in Requests : req'[q] = IF q = r THEN [req[q] EXCEPT !.st = s] ELSE req[q]
    BY <1>10, <2>1
  <2>3. \A q \in Requests : req'[q].task = req[q].task /\ req'[q].st = IF q = r THEN s ELSE req[q].st
    BY <2>1, <2>2 DEF Request
  <2> QED BY <1>10, <2>3 DEF Live
<1>11. ASSUME NEW r \in Requests, CallbackWrites(r) \/ InferenceFails(r) \/ CallbackAfterFree(r)
       PROVE  Awaited'
  <2>1. UNCHANGED <<done, taskq, lltaskq, fed, pc>>
    BY <1>11 DEF CallbackWrites, InferenceFails, CallbackAfterFree, queueVars, streamVars
  <2>2. \E s \in {"written", "lost"} : (~Live(r) => s = "lost") /\ req' = [req EXCEPT ![r].st = s]
    BY <1>11 DEF CallbackWrites, InferenceFails, CallbackAfterFree, Live
  <2> QED BY <1>8, <1>10, <2>1, <2>2
<1>12. CASE FlushNothing
  <2>1. /\ UNCHANGED <<done, taskq, lltaskq, fed>> /\ pc' # "closed"
        /\ req' = req \/ \E r \in Requests : req' = [req EXCEPT ![r].st = "lost"]
    BY <1>12 DEF FlushNothing, InState, streamVars
  <2>2. \A q \in Requests : Live(q)' => Live(q) /\ req'[q].task = req[q].task
    BY <1>10, <2>1 DEF Live
  <2> QED BY <1>8, <2>1, <2>2
<1>13. ASSUME NEW r \in Requests, CallbackReturns(r)
       PROVE  Awaited'
  <2>1. UNCHANGED <<done, taskq, lltaskq, fed, pc>>
    BY <1>13 DEF CallbackReturns, queueVars, streamVars
  <2>2. \A q \in Requests : req'[q] = IF q = r THEN Idle ELSE req[q]
    BY <1>0, <1>13 DEF CallbackReturns
  <2>3. \A q \in Requests : Live(q)' => Live(q) /\ req'[q].task = req[q].task
    BY <2>2 DEF Live, Idle
  <2> QED BY <1>8, <2>1, <2>3
<1>9. ASSUME NEW r \in Requests, CallbackCounts(r)
      PROVE  Awaited'
  <2>1. /\ req[r].st = "written" /\ req' = [req EXCEPT ![r].st = "counted"]
        /\ done' = done \cup {req[r].task} /\ UNCHANGED <<taskq, lltaskq, fed, pc>>
    BY <1>9 DEF CallbackCounts, queueVars, streamVars
  <2>2. \A q \in Requests : /\ req'[q].task = req[q].task
                            /\ req'[q].st = IF q = r THEN "counted" ELSE req[q].st
    BY <2>1, MovesOn
  <2>3. Live(r) /\ \A q \in Requests : Live(q)' => q # r /\ Live(q)
    BY <2>1, <2>2 DEF Live
  <2>4. done' \subseteq 1 .. fed /\ ToSet(lltaskq) \subseteq ToSet(taskq) \ done'
    BY <2>1, <2>3 DEF Awaited
  <2>5. ASSUME NEW q \in Requests, Live(q)'
        PROVE  /\ req'[q].task \in ToSet(taskq) \ (done' \cup ToSet(lltaskq))
               /\ \A p \in Requests : p # q /\ Live(p)' => req'[p].task # req'[q].task
    BY <2>1, <2>2, <2>3, <2>5 DEF Awaited
  <2> QED BY <2>1, <2>4, <2>5 DEF Awaited
<1> QED BY <1>3, <1>4, <1>5, <1>6, <1>7, <1>9, <1>11, <1>12, <1>13 DEF Next, Activate, Callback

(* For any number of requests, every kind of model and whatever fails: when *)
(* a stream has ended on its own, every inference is over and written when  *)
(* the model is freed; what a callback may still do is give its request to  *)
(* a queue that is gone (CallbackAfterFree).                                *)
THEOREM DnnFreesAfterInference == Spec => []FreeFindsNoInference
<1>1. Awaited => FreeFindsNoInference
  <2> SUFFICES ASSUME Awaited, pc = "closed", NEW r \in Requests, Live(r)
               PROVE  FALSE
    BY DEF FreeFindsNoInference, InState, Live
  <2>1. ToSet(taskq) = {}
    BY DEF Awaited, ToSet
  <2> QED BY <2>1 DEF Awaited
<1> QED BY <1>1, AwaitedInit, AwaitedStep, TypeInit, TypeStep, PTL DEF Spec
============================================================================
