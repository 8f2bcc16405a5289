-------------------------- MODULE VsrSample_proofs --------------------------
(***************************************************************************)
(* Proofs about the sample client, for any number of groups, workers and   *)
(* requests, either process function and any fault.  The client's steps    *)
(* are steps of the session, so SessionInv holds of it as soon as it is    *)
(* seen to keep to what the session expects: that it deinitialises with no *)
(* callback owed.  It knows only its count, and the invariant says what    *)
(* the count is worth: with the callbacks that have not counted yet it is  *)
(* the number of callbacks made, of which no call has more than one.       *)
(***************************************************************************)
EXTENDS VsrSample, IvsrSession_proofs

Stages == {"init", "prepare", "submit", "call", "poll", "deinit", "end", "failed", "undefined"}

SampleTypes ==
  /\ stage \in Stages
  /\ viaAsync \in BOOLEAN
  /\ groups \in 0 .. MaxFrames
  /\ id \in 0 .. groups
  /\ count \in Nat

(* Where main is while the session is at pc: an iteration makes one call,   *)
(* and between iterations the application is outside the API.               *)
MainLink ==
  /\ stage = "init" => pc = "init"
  /\ stage \in {"init", "prepare"} => id = 0
  /\ stage \in {"prepare", "submit", "poll"} => pc = "app" /\ frame = id
  /\ stage = "call" => /\ pc \in {"app", "grow", "enqueue", "wait", "proc", "terminated"}
                       /\ frame = id + 1 /\ args = frame /\ id < groups
  /\ stage \in {"poll", "deinit", "end"} => id = groups
  /\ stage \in {"deinit", "end"} => count = id /\ frame = id
  /\ stage = "deinit" => pc \in {"app", "deleted", "gone"}
  /\ stage = "end" => pc = "gone"

(* Every callback made has counted, or is about to. *)
CountLink ==
  /\ inCallback \subseteq delivered
  /\ count + Cardinality(inCallback) = Cardinality(delivered)

(* Without ivsr_process_async the engine has no whole frame of its own. *)
ModeLink == ~viaAsync => pc # "proc" /\ \A j \in EngineP!InEngine : j[2] # 0

(* A callback is made only for what was inferred. *)
DeliveredLink == \A f \in delivered : \E j \in inferred : j[1] = f

SampleLink == SampleTypes /\ MainLink /\ CountLink /\ ModeLink /\ DeliveredLink

SampleInv == SessionInv /\ SampleLink

-----------------------------------------------------------------------------
(* What the invariant says of the calls. *)

LEMMA CallFacts ==
  ASSUME SessionInv
  PROVE  /\ frame \in Nat
         /\ accepted \subseteq 1 .. frame /\ delivered \subseteq 1 .. frame
         /\ IsFiniteSet(delivered) /\ Cardinality(delivered) \in Nat /\ Cardinality(delivered) <= frame
         /\ Cardinality(delivered) = frame => delivered = 1 .. frame
         /\ \A S \in SUBSET delivered : IsFiniteSet(S) /\ Cardinality(S) \in Nat
<1>1. frame \in Nat /\ accepted \subseteq 1 .. frame /\ delivered \subseteq 1 .. frame
  BY Constants DEF SessionInv, Link, Types, CallLink
<1>2. IsFiniteSet(1 .. frame) /\ Cardinality(1 .. frame) = frame
  BY <1>1, FS_Interval
<1>3. /\ IsFiniteSet(delivered) /\ Cardinality(delivered) <= frame
      /\ frame = Cardinality(delivered) => 1 .. frame = delivered
  BY <1>1, <1>2, FS_Subset
<1>4. \A S \in SUBSET delivered : IsFiniteSet(S)
  BY <1>3, FS_Subset
<1> QED
  BY <1>1, <1>3, <1>4, FS_CardinalityType

(* When the count is the number of calls, every call was answered and every *)
(* callback is over.                                                        *)
LEMMA AllCounted ==
  ASSUME SessionInv, SampleTypes, CountLink, count = frame
  PROVE  inCallback = {} /\ delivered = 1 .. frame /\ accepted \subseteq delivered
<1>1. IsFiniteSet(inCallback) /\ Cardinality(inCallback) \in Nat
  BY CallFacts DEF CountLink
<1>2. Cardinality(inCallback) = 0 /\ Cardinality(delivered) = frame
  BY <1>1, CallFacts DEF CountLink, SampleTypes
<1> QED
  BY <1>1, <1>2, CallFacts, FS_EmptySet

\* A callback of OpenVINO is the first of its call, which was inferred.
LEMMA FirstCallback ==
  ASSUME SessionInv, NEW f, <<f, 0>> \in pending
  PROVE  f \notin delivered /\ <<f, 0>> \in EngineP!InEngine /\ <<f, 0>> \in inferred
<1>1. <<f, 0>> \in EngineP!InEngine /\ <<f, 0>> \in EngineP!Over
  BY DEF EngineP!InEngine, EngineP!Over
<1>2. <<f, 0>>[1] = f /\ <<f, 0>>[2] = 0
  OBVIOUS
<1>3. f \notin delivered
  BY <1>1, <1>2 DEF SessionInv, Link, WholeLink
<1>4. <<f, 0>> \in inferred
  BY <1>1 DEF SessionInv, Link, InferredLink
<1> QED
  BY <1>1, <1>3, <1>4
-----------------------------------------------------------------------------
(* The client's steps are steps of the session. *)

\* What the session does on its own, in a call or between two.
OwnStep ==
  \/ GrowPool \/ GrowThrows \/ EnqueuePatch \/ WaitForPatches \/ AsyncStartThrows \/ AsyncReturns
  \/ DeinitReturns
  \/ \E w \in Workers : WorkerStartThrows(w)
  \/ \E i \in EngineP!Ids : InferDone(i)
  \/ \E j \in pending : j[2] # 0 /\ Notifies(j)
  \/ Background

LEMMA LibraryIsOwn == Library => OwnStep /\ UNCHANGED sampleVars
<1>1. InCall => OwnStep
  BY DEF InCall, OwnStep, Background, InExecutor, GetsRequest
<1>2. \A w \in Workers :
        WorkerLoop(w) \/ WorkerRuns(w) \/ WorkerStarts(w) \/ WorkerReturns(w) \/ WorkerStartThrows(w) \/ GetsRequest(w)
          => OwnStep
  BY DEF OwnStep, Background
<1>3. GetsRequest(App) \/ InExecutor \/ GrowThrows \/ AsyncStartThrows => OwnStep
  BY DEF OwnStep, Background
<1>4. \A i \in Engine!Ids : InferDone(i) \/ InferFailed(i) \/ PutsRequestBack(i) => OwnStep
  BY SameEngine DEF OwnStep, Background
<1> QED
  BY <1>1, <1>2, <1>3, <1>4 DEF Library, OwnStep

LEMMA OwnIsNext == pc # "terminated" /\ OwnStep => [Next]_vars
BY SameEngine DEF OwnStep, Background, Next, AppNext, WorkerNext, OpenVinoNext

(* It moves the application only inside a call, and makes no callback of    *)
(* the application's.                                                       *)
LEMMA OwnFacts ==
  ASSUME SessionInv, pc # "terminated", OwnStep
  PROVE  /\ UNCHANGED <<frame, delivered>> /\ inferred \subseteq inferred'
         /\ \/ pc' = pc
            \/ pc \in {"grow", "enqueue", "proc"} /\ pc' \in {"app", "enqueue", "wait"}
            \/ pc \in {"enqueue", "wait"} /\ pc' = "terminated"
            \/ pc = "deleted" /\ pc' = "gone"
<1>1. CASE GrowPool \/ GrowThrows \/ EnqueuePatch \/ WaitForPatches \/ AsyncStartThrows \/ AsyncReturns \/ DeinitReturns
  BY <1>1 DEF GrowPool, GrowThrows, EnqueuePatch, WaitForPatches, AsyncStartThrows, AsyncReturns, DeinitReturns
<1>2. ASSUME NEW w \in Workers, WorkerStartThrows(w)
      PROVE  /\ UNCHANGED <<frame, delivered, inferred>>
             /\ pc \in {"enqueue", "wait"} /\ pc' = "terminated"
  BY <1>2, Throws DEF WorkerStartThrows
<1>3. ASSUME NEW i \in EngineP!Ids, InferDone(i)
      PROVE  UNCHANGED <<frame, delivered, pc>> /\ inferred \subseteq inferred'
  BY <1>3 DEF InferDone
<1>4. ASSUME NEW j \in pending, j[2] # 0, Notifies(j)
      PROVE  UNCHANGED <<frame, delivered, pc, inferred>>
  BY <1>4 DEF Notifies
<1>5. CASE Background
  BY <1>5, BackgroundFacts
<1> QED
  BY <1>1, <1>2, <1>3, <1>4, <1>5 DEF OwnStep

LEMMA MainIsNext ==
  ASSUME SessionInv, SampleLink, pc # "terminated", Main
  PROVE  [Next]_vars
<1>1. CASE InitSucceeds
  BY <1>1 DEF InitSucceeds, Next, AppNext
<1>2. CASE InitFails \/ NotEnoughFrames \/ PrepareInputs \/ EndIteration \/ EndLoop \/ PollEnds \/ MainReturns
  BY <1>2 DEF InitFails, NotEnoughFrames, PrepareInputs, EndIteration, EndLoop, PollEnds, MainReturns
<1>3. CASE Submit
  BY <1>3 DEF Submit, Next, AppNext
<1>4. CASE ReturnsAfterCallback
  BY <1>4 DEF ReturnsAfterCallback, Next, AppNext
<1>5. CASE CallDeinit
  <2>1. stage = "deinit" /\ DeinitEngine
    BY <1>5 DEF CallDeinit
  <2>2. accepted \subseteq delivered
    BY <2>1, AllCounted DEF SampleLink, MainLink
  <2> QED
    BY <1>5, <2>1, <2>2 DEF Next, AppNext
<1> QED
  BY <1>1, <1>2, <1>3, <1>4, <1>5 DEF Main

LEMMA CallbackIsNext ==
  ASSUME pc # "terminated", NEW f, CallbackEnters(f) \/ CallbackCounts(f)
  PROVE  [Next]_vars
<1>1. CASE CallbackEnters(f)
  BY <1>1 DEF CallbackEnters, Next, OpenVinoNext
<1>2. CASE CallbackCounts(f)
  BY <1>2 DEF CallbackCounts
<1> QED
  BY <1>1, <1>2

(* The client keeps to what the session expects of an application. *)
LEMMA SampleIsNext == SampleInv /\ [SampleNext]_allVars => [Next]_vars
<1>1. SampleInv /\ SampleNext => [Next]_vars
  BY LibraryIsOwn, OwnIsNext, MainIsNext, CallbackIsNext DEF SampleNext, SampleInv
<1>2. UNCHANGED allVars => UNCHANGED vars
  BY DEF allVars
<1> QED
  BY <1>1, <1>2
-----------------------------------------------------------------------------
(* The invariant holds at first and is kept. *)

LEMMA SampleStarts == SampleInit => SampleInv
<1> SUFFICES ASSUME SampleInit
             PROVE  SampleInv
  OBVIOUS
<1>1. SessionInv
  BY SessionStarts DEF SampleInit
<1>2. /\ pc = "init" /\ delivered = {} /\ inCallback = {} /\ stage = "init"
      /\ id = 0 /\ groups = 0 /\ count = 0 /\ viaAsync \in BOOLEAN
  BY DEF SampleInit, Init
<1>3. SampleTypes /\ MainLink
  BY <1>2, Constants DEF SampleTypes, MainLink, Stages
<1>4. CountLink
  BY <1>2, FS_EmptySet DEF CountLink
<1>5. EngineP!InEngine = {}
  BY <1>1, <1>2, Calm DEF Patching, SessionInv, Link, PoolLink, CallLink
<1> QED
  BY <1>1, <1>2, <1>3, <1>4, <1>5 DEF SampleInv, SampleLink, ModeLink, DeliveredLink

LEMMA MainStep == SampleInv /\ [SampleNext]_allVars => SampleTypes' /\ MainLink'
<1> SUFFICES ASSUME SampleInv, [SampleNext]_allVars
             PROVE  SampleTypes' /\ MainLink'
  OBVIOUS
<1> USE DEF SampleTypes, MainLink, Stages
<1>0. /\ SessionInv /\ SampleTypes /\ MainLink /\ CountLink
      /\ MaxFrames \in Nat /\ groups \in Nat /\ id \in Nat /\ frame \in Nat
      /\ pc = "init" => frame = 0
  BY Constants, CallFacts DEF SampleInv, SampleLink, SessionInv, Link, PoolLink
<1>1. CASE InitSucceeds
  BY <1>0, <1>1 DEF InitSucceeds, IvsrInit
<1>2. CASE InitFails \/ NotEnoughFrames
  BY <1>0, <1>2 DEF InitFails, NotEnoughFrames
<1>3. CASE PrepareInputs
  <2>1. /\ stage = "prepare" /\ stage' \in {"submit", "undefined"} /\ groups' \in 0 .. MaxFrames
        /\ UNCHANGED <<vars, viaAsync, id, count>>
    BY <1>0, <1>3 DEF PrepareInputs
  <2> QED
    BY <1>0, <2>1 DEF vars, sessionVars
<1>4. CASE Submit
  <2>1. /\ stage = "submit" /\ id < groups /\ stage' = "call" /\ args' = id + 1
        /\ UNCHANGED <<viaAsync, groups, id, count>>
        /\ Process \/ ProcessNoInput \/ ProcessAsync
    BY <1>4 DEF Submit
  <2>2. frame' = frame + 1 /\ pc' \in {"app", "grow", "proc"}
    BY <1>0, <2>1 DEF Process, ProcessNoInput, ProcessAsync
  <2> QED
    BY <1>0, <2>1, <2>2
<1>5. CASE ReturnsAfterCallback
  <2>1. pc = "wait" /\ pc' = "app" /\ frame' = frame /\ count' = count + 1
        /\ UNCHANGED <<stage, viaAsync, groups, id, args>>
    BY <1>5 DEF ReturnsAfterCallback, ProcessReturns
  <2> QED
    BY <1>0, <2>1
<1>6. CASE EndIteration
  <2>1. pc = "app" /\ stage = "call" /\ stage' = "submit" /\ id' = id + 1
        /\ UNCHANGED <<pc, frame, viaAsync, groups, count>>
    BY <1>6 DEF EndIteration, vars, sessionVars
  <2> QED
    BY <1>0, <2>1
<1>7. CASE EndLoop \/ PollEnds \/ MainReturns
  BY <1>0, <1>7 DEF EndLoop, PollEnds, MainReturns, vars, sessionVars
<1>8. CASE CallDeinit
  BY <1>0, <1>8 DEF CallDeinit, DeinitEngine, sampleVars
<1>9. CASE Library /\ pc # "terminated"
  <2>1. UNCHANGED sampleVars /\ OwnStep
    BY <1>9, LibraryIsOwn
  <2> QED
    BY <1>0, <1>9, <2>1, OwnFacts DEF sampleVars
<1>10. ASSUME NEW f, CallbackEnters(f)
       PROVE  SampleTypes' /\ MainLink'
  BY <1>0, <1>10 DEF CallbackEnters, Notifies
<1>11. ASSUME NEW f, CallbackCounts(f)
       PROVE  SampleTypes' /\ MainLink'
  <2>1. stage \notin {"deinit", "end"}
    BY <1>0, <1>11, AllCounted DEF CallbackCounts
  <2> QED
    BY <1>0, <1>11, <2>1 DEF CallbackCounts, vars, sessionVars
<1>12. CASE UNCHANGED allVars
  BY <1>0, <1>12 DEF allVars, sampleVars, vars, sessionVars
<1> QED
  BY <1>1, <1>2, <1>3, <1>4, <1>5, <1>6, <1>7, <1>8, <1>9, <1>10, <1>11, <1>12 DEF SampleNext, Main

(* Each callback made is counted once. *)
LEMMA CountStep == SampleInv /\ [SampleNext]_allVars => CountLink'
<1> SUFFICES ASSUME SampleInv, [SampleNext]_allVars
             PROVE  CountLink'
  OBVIOUS
<1>0. /\ SessionInv /\ CountLink /\ count \in Nat
      /\ IsFiniteSet(inCallback) /\ Cardinality(inCallback) \in Nat
      /\ IsFiniteSet(delivered) /\ Cardinality(delivered) \in Nat
  BY CallFacts DEF SampleInv, SampleLink, SampleTypes, CountLink
<1>1. ASSUME UNCHANGED <<delivered, inCallback, count>>
      PROVE  CountLink'
  BY <1>0, <1>1 DEF CountLink
<1>2. CASE InitSucceeds \/ InitFails \/ NotEnoughFrames \/ PrepareInputs \/ EndIteration \/ EndLoop \/ PollEnds
           \/ CallDeinit \/ MainReturns
  BY <1>1, <1>2 DEF InitSucceeds, IvsrInit, InitFails, NotEnoughFrames, PrepareInputs, EndIteration, EndLoop,
                    PollEnds, CallDeinit, DeinitEngine, MainReturns, vars, sessionVars, sampleVars
<1>3. CASE Submit
  BY <1>1, <1>3 DEF Submit, Process, ProcessNoInput, ProcessAsync
<1>4. CASE ReturnsAfterCallback
  <2>1. /\ pc = "wait" /\ delivered' = delivered \cup {frame} /\ count' = count + 1
        /\ UNCHANGED inCallback
    BY <1>4 DEF ReturnsAfterCallback, ProcessReturns
  <2>2. frame \notin delivered
    BY <1>0, <2>1 DEF SessionInv, Link, CallLink
  <2>3. Cardinality(delivered') = Cardinality(delivered) + 1
    BY <1>0, <2>1, <2>2, FS_AddElement
  <2> QED
    BY <1>0, <2>1, <2>3 DEF CountLink
<1>5. CASE Library /\ pc # "terminated"
  BY <1>0, <1>1, <1>5, LibraryIsOwn, OwnFacts DEF sampleVars
<1>6. ASSUME NEW f, CallbackEnters(f)
      PROVE  CountLink'
  <2>1. /\ <<f, 0>> \in pending /\ delivered' = delivered \cup {f} /\ inCallback' = inCallback \cup {f}
        /\ UNCHANGED count
    BY <1>6 DEF CallbackEnters, Notifies
  <2>2. f \notin delivered /\ f \notin inCallback
    BY <1>0, <2>1, FirstCallback DEF CountLink
  <2>3. /\ Cardinality(delivered') = Cardinality(delivered) + 1
        /\ Cardinality(inCallback') = Cardinality(inCallback) + 1
    BY <1>0, <2>1, <2>2, FS_AddElement
  <2> QED
    BY <1>0, <2>1, <2>3 DEF CountLink
<1>7. ASSUME NEW f, CallbackCounts(f)
      PROVE  CountLink'
  <2>1. /\ f \in inCallback /\ count' = count + 1 /\ inCallback' = inCallback \ {f}
        /\ UNCHANGED delivered
    BY <1>7 DEF CallbackCounts, vars, sessionVars
  <2>2. Cardinality(inCallback') = Cardinality(inCallback) - 1
    BY <1>0, <2>1, FS_RemoveElement
  <2> QED
    BY <1>0, <2>1, <2>2 DEF CountLink
<1>8. CASE UNCHANGED allVars
  BY <1>1, <1>8 DEF allVars, sampleVars, vars, sessionVars
<1> QED
  BY <1>2, <1>3, <1>4, <1>5, <1>6, <1>7, <1>8 DEF SampleNext, Main
(* Only ivsr_process_async hands the engine a whole frame. *)
LEMMA WholeFramesCome ==
  ASSUME SessionInv, [Next]_vars, ~ProcessAsync, NEW j \in EngineP!InEngine', j[2] = 0
  PROVE  j \in EngineP!InEngine
<1>1. j \in EngineP!Ahead' \/ j \in EngineP!Over'
  BY TasksInEngine
<1>2. CASE Quiet
  <2>1. j \notin ExecutorP!Waits
    BY JobFacts
  <2> QED
    BY <1>1, <1>2, <2>1, JobFacts DEF Quiet
<1>3. CASE EnqueuePatch
  BY <1>3, Kept
<1>4. CASE (\E i \in EngineP!Ids : InferDone(i)) \/ (\E k \in pending : Notifies(k))
  BY <1>1, <1>4, InferenceEnds, JobReported, JobFacts
<1> QED
  BY <1>2, <1>3, <1>4, Flow

LEMMA ModeStep == SampleInv /\ [SampleNext]_allVars => ModeLink'
<1> SUFFICES ASSUME SampleInv, [SampleNext]_allVars, ~viaAsync'
             PROVE  pc' # "proc" /\ \A j \in EngineP!InEngine' : j[2] # 0
  BY DEF ModeLink
<1>0. /\ SessionInv /\ ModeLink /\ [Next]_vars /\ frame \in Nat /\ viaAsync' = viaAsync
  BY SampleIsNext, LibraryIsOwn, CallFacts
  DEF SampleInv, SampleLink, SampleNext, Main, InitSucceeds, InitFails, NotEnoughFrames, PrepareInputs, Submit,
      ReturnsAfterCallback, EndIteration, EndLoop, PollEnds, CallDeinit, MainReturns, CallbackEnters,
      CallbackCounts, allVars, sampleVars
<1>1. ~ProcessAsync /\ pc' # "proc"
  <2>1. CASE Submit
    <3>1. Process \/ ProcessNoInput
      BY <1>0, <2>1 DEF Submit
    <3> QED
      BY <1>0, <3>1 DEF Process, ProcessNoInput, ModeLink, ProcessAsync, vars, engineVars
  <2>2. CASE Library /\ pc # "terminated"
    <3>1. frame' = frame /\ pc' # "proc"
      BY <1>0, <2>2, LibraryIsOwn, OwnFacts DEF ModeLink
    <3> QED
      BY <1>0, <3>1 DEF ProcessAsync
  <2>3. CASE ~Submit /\ ~(Library /\ pc # "terminated")
    <3>1. frame' = frame /\ (pc' = pc \/ pc' \in {"app", "deleted"})
      BY <2>3 DEF SampleNext, Main, InitSucceeds, IvsrInit, InitFails, NotEnoughFrames, PrepareInputs,
        ReturnsAfterCallback, ProcessReturns, EndIteration, EndLoop, PollEnds, CallDeinit, DeinitEngine,
        MainReturns, CallbackEnters, Notifies, CallbackCounts, allVars, vars, sessionVars
    <3> QED
      BY <1>0, <3>1 DEF ModeLink, ProcessAsync
  <2> QED
    BY <2>1, <2>2, <2>3 DEF SampleNext
<1> QED
  BY <1>0, <1>1, WholeFramesCome DEF ModeLink

LEMMA DeliveredStep == SampleInv /\ [SampleNext]_allVars => DeliveredLink'
<1> SUFFICES ASSUME SampleInv, [SampleNext]_allVars, NEW f \in delivered'
             PROVE  \E j \in inferred' : j[1] = f
  BY DEF DeliveredLink
<1>0. SessionInv /\ DeliveredLink /\ [Next]_vars
  BY SampleIsNext DEF SampleInv, SampleLink
<1>1. inferred \subseteq inferred'
  BY <1>0, CalledFlow DEF InferDone
<1>2. CASE f \in delivered
  BY <1>0, <1>1, <1>2 DEF DeliveredLink
<1>3. CASE ProcessReturns /\ f = frame
  <2>1. Sent \subseteq inferred /\ patch = NPatches
    BY <1>0, <1>3 DEF ProcessReturns, SessionInv, Link, BatchLink, InferredLink
  <2>2. <<frame, 1>> \in Sent /\ <<frame, 1>>[1] = frame
    BY <2>1, SentFacts, SessionAssumption
  <2> QED
    BY <1>1, <1>3, <2>1, <2>2
<1>4. ASSUME NEW j \in pending, f = j[1]
      PROVE  \E k \in inferred' : k[1] = f
  <2>1. j \in inferred
    BY <1>0 DEF EngineP!Over, SessionInv, Link, InferredLink
  <2> QED
    BY <1>1, <1>4, <2>1
<1> QED
  BY <1>0, <1>2, <1>3, <1>4, DeliveredBy

LEMMA SampleStep == SampleInv /\ [SampleNext]_allVars => SampleInv'
<1>1. SampleInv /\ [SampleNext]_allVars => SessionInv'
  BY SampleIsNext, SessionStep DEF SampleInv
<1> QED
  BY <1>1, MainStep, CountStep, ModeStep, DeliveredStep DEF SampleInv, SampleLink

LEMMA SampleInvariant == SampleSpec => []SampleInv
BY SampleStarts, SampleStep, PTL DEF SampleSpec

-----------------------------------------------------------------------------

(* The sample client is an application the session is made for: whatever    *)
(* fails, it deinitialises only when every accepted call has had its        *)
(* callback (main, completion_callback, ivsr_deinit).  So everything proved *)
(* of the session holds of the session under this client.                   *)
THEOREM SampleKeepsSession == SampleSpec => SessionSpec
<1>1. SampleInit => Init
  BY DEF SampleInit
<1> QED
  BY <1>1, SampleIsNext, SampleInvariant, PTL DEF SampleSpec, SessionSpec, Spec

(* The outputs are read and the session closed only with every callback     *)
(* over, every group answered and every group inferred: the count alone,    *)
(* raised by other threads, tells main so (main, completion_callback).      *)
THEOREM SampleEndsComplete == SampleSpec => []EndsOnlyComplete
<1>1. SampleInv => EndsOnlyComplete
  <2> SUFFICES ASSUME SampleInv, stage \in {"deinit", "end"}
               PROVE  /\ inCallback = {} /\ delivered = 1 .. groups
                      /\ \A f \in 1 .. groups : \E j \in inferred : j[1] = f
    BY DEF EndsOnlyComplete
  <2>1. count = frame /\ frame = groups
    BY DEF SampleInv, SampleLink, MainLink
  <2>2. inCallback = {} /\ delivered = 1 .. groups
    BY <2>1, AllCounted DEF SampleInv, SampleLink
  <2> QED
    BY <2>2 DEF SampleInv, SampleLink, DeliveredLink
<1> QED
  BY <1>1, SampleInvariant, PTL

(* With ivsr_process a callback finds the argument of its own group, still  *)
(* alive on main's stack (main's loop, completion_callback).                *)
THEOREM SampleArgsLive == SampleSpec => CallbackArgsInSyncMode
<1>1. SampleInv /\ [SampleNext]_allVars =>
        [~viaAsync => \A f \in delivered' \ delivered : stage = "call" /\ args = f]_allVars
  <2> SUFFICES ASSUME SampleInv, [SampleNext]_allVars, ~viaAsync, NEW f \in delivered', f \notin delivered
               PROVE  stage = "call" /\ args = f
    OBVIOUS
  <2>1. SessionInv /\ SampleTypes /\ MainLink /\ ModeLink /\ [Next]_vars
    BY SampleIsNext DEF SampleInv, SampleLink
  <2>2. CASE pc = "wait" /\ f = frame
    <3>1. stage \notin {"init", "prepare", "submit", "poll", "deinit", "end"}
      BY <2>1, <2>2 DEF MainLink
    <3>2. stage \notin {"failed", "undefined"}
      BY DEF SampleNext, allVars, vars, sessionVars
    <3> QED
      BY <2>1, <2>2, <3>1, <3>2 DEF SampleTypes, Stages, MainLink
  <2>3. ASSUME NEW j \in pending, j[2] = 0
        PROVE  FALSE
    BY <2>1, <2>3 DEF ModeLink, EngineP!InEngine
  <2> QED
    BY <2>1, <2>2, <2>3, DeliveredBy
<1> QED
  BY <1>1, SampleInvariant, PTL DEF SampleSpec, CallbackArgsInSyncMode
=============================================================================
