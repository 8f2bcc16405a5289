# A verification of the Enhanced BasicVSR library (iVSR SDK)

TLA+ models of the iVSR SDK (`src/ivsr_sdk`), of its sample client and of the FFmpeg
backend that drives it (`src/ivsr_ffmpeg_plugin`); TLC runs on small instances; TLAPS proofs of
the central properties for every value of the constants.

## The system

| component | state it keeps | operations | talks to |
|---|---|---|---|
| **Session API** `ivsr.cpp`, `ivsr.h` | the handle: engine, executor, patch configuration, shapes | `ivsr_init`, `ivsr_process`, `ivsr_process_async`, `ivsr_reconfig`, `ivsr_get_attr`, `ivsr_deinit` | calls engine and executor, runs SmartPatch on the caller's thread |
| **Inference engine** `ov_engine.cpp/.hpp` | `requests_`, `idleIds_`, `mutex_`, `cv_` | `create_infer_requests`, `get_idle_request`, `put_idle_request`, `run` (for tasks), `proc` (for whole frames), destructor | OpenVINO calls its callbacks on other threads; a callback puts the request back, then tells the executor or the application |
| **Thread executor** `ivsr_thread_executor.cpp` | `_taskQueue`, `_threads`, `_cb_counter`, `_isStopped`, `_mutex`, two condition variables | `Enqueue`, worker loop, `CreateTask`, `wait_all` = `sync` + `reset`, `competition_call_back`, destructor | workers call `engine->run` |
| **Patch solution** `smart_patch.cpp` | input and output patch buffers, two lists of patch pointers | `generatePatch`, `restoreImageFromPatches` | none; works on the caller's buffers |
| **Session initialisation** `ivsr.cpp`, `ov_engine.cpp`, `utils.hpp` | settings collected from a linked list | `ivsr_init`, `parse_engine_config`, `check_engine_config`, `init_impl` | OpenVINO |
| **FFmpeg backend** (patches 0002 … 0026) | request queue, task and last-level-task queues, frame FIFO, in and out queues of the filter, model | `activate`, `flush_frame`, load, execute, get result, flush, free, completion callback | calls `ivsr_process_async`; is called back on OpenVINO's threads |
| **Layout, padding, bit depth** (patches 0019, 0020, 0022, 0025) | none | index maps and clamps | FFmpeg backend |
| **Sample client** `vsr_sample.cpp` | a count of callbacks, the record of each iteration's callback, image buffers | `main`, `completion_callback` | the API, from one thread; is called back on its own thread or OpenVINO's |
| thread-local helper, irguard, OpenVINO patch, build files | | | not modelled, see below |

How a frame travels. With the patch solution, `ivsr_process` cuts it into patches, makes sure the
pool has a request for each, enqueues one task per patch and blocks in `wait_all`. A worker takes a
task and calls `run_impl`: it takes a request id, possibly waiting for one, starts the inference and
returns to its loop. OpenVINO completes the inference on a thread of its own: the callback puts the
id back (`put_idle_request`) and only then notifies (`competition_call_back`), which raises the
counter `wait_all` compares with the number of tasks. `ivsr_process_async` without patches skips the
executor: `process_impl` takes the request on the application's own thread, and the callback calls
the application. `ivsr_deinit` deletes the engine first and the executor, whose workers call the
engine, second.

What is hard about it:
- *three kinds of threads* (application, workers, OpenVINO) share a pool, a queue and a counter
  under two mutexes and three condition variables; the pool also grows without its mutex;
- *ordering*: id before notification, notification outside the mutex, `sync` and `reset` in two
  critical sections, engine deleted before the executor;
- *lifetime*: patch buffers are freed when `ivsr_process` returns, the engine when `ivsr_deinit` does,
  the sample's callback record when its iteration ends, the backend's queues when the model is freed;
- *three queues in step*: the backend takes the newest frame from one end of a queue, the task from the
  other, and the older frames of a window from a third place;
- *failure*: an inference may fail, a start may throw on two kinds of threads, growth may throw
  half-way, an output may be null;
- *arithmetic*: overlaps divided with truncation, corners recomputed for the enlarged frame, sizes
  in bytes used as counts.

`PROJECT.json` lists each hazard at its line with the properties that guard it.

## The modules

`PROJECT.json` "map" gives for every definition the lines it translates.

**`OvEngine`** — the request pool. `request[id]` says what each infer request is doing (`absent`
beyond the end of the vector, `idle`, `held` by a caller, `running`, `done` inside the callback,
`lost`), `caller[t]` where a thread is inside the engine, `pending` the jobs whose callback has put
the id back and not yet notified. A critical section is one action: `GetIdleRequest` and
`WaitForIdle` are the two outcomes of the predicate of `cv_.wait`, `PutIdleRequest` pushes the id
and notifies one sleeper, `CallBack` is the callback's second half. `StartThrows` and `InferFailed`
leave the id `lost`, as the code does. *Correct when*: ids are conserved (`PoolPartition`), no
wake-up is lost (`NoLostWakeUp`), no job is in two inferences (`JobInOnePlace`).

**`ThreadExecutor`** — queue, workers, counter and client. `Enqueue` and `EnqueueNotifies` are two
actions because the code notifies after releasing the mutex; `SyncReturns` and `Reset` are two
because `sync` and `reset` are two critical sections. `batch` and `called` are history variables.
*Correct when*: `WaitAllIsABarrier`, `TaskInOnePlace`, `NoLostWakeUp`, `StoppedIsDrained`.

**`VsrService`** — what the API promises, without threads: frames are submitted in order, inferred
part by part, delivered once and only when complete, or failed with nothing inferred; the session is
closed only with no frame open.

**`IvsrSession`** — the composition. It holds the variables of both components, instantiates
`OvEngine` with the workers and the application as callers and `ThreadExecutor` with patches as
tasks, and joins their actions where one calls the other (a worker's `CallRun` with the engine's
`Run`, the callback's `CallBack` with `CompetitionCallBack`). Each component states what it expects of its
users only in its own `Next` — nobody is in the pool while it grows or is deleted; `wait_all` gets
the number of tasks enqueued; a task completes at most once. The session's actions use the
components' operators *without* those guards, so `EngineSpec` and `ExecutorSpec` (the components'
`Spec` under the session's variables) show that the session keeps to them. This is also what makes
the theorems about a component, proved under these expectations, speak about the session.
The application is one thread that calls `ivsr_deinit` only after every accepted asynchronous call
was called back; `VsrSample` shows that the sample client is one. `ServiceSpec` is the
refinement: the session implements `VsrService`, the patches being the parts.

**`VsrSample`** — `vsr_sample.cpp` on top of `IvsrSession`: `main` from `ivsr_init` over the loop and
the poll to `ivsr_deinit`, and `completion_callback`. It extends the session and joins its own
variables to the session's actions, without the guard on `ivsr_deinit`. `args` is the group whose
`callback_args` exist; `CallbackEnters` and `CallbackCounts` are the callback on a thread of OpenVINO,
which has begun but not yet raised `count`. In the synchronous mode the callback is part of
`ReturnsAfterCallback`. *Correct when*: the client is a proper application of the session
(`SessionSpec`, a refinement), it reads the outputs and closes the session only when every group was
inferred and called back (`EndsOnlyComplete`), and it ends when nothing fails (`SampleEnds`).
`CallbackArgsInSyncMode` is conditional because the other mode is wrong: an asynchronous callback writes
`flag` into, and reads the time from, the record of a later iteration or of none. With more than one
input frame per group the group's tensor is copied from the buffer of its first image, which is too
short: `PrepareInputs` lets that end in `undefined`.

**`FrameFilter`** — what the frames' neighbours in FFmpeg's graph may rely on: frames leave in order,
once each, made from the frames the model looks at, and none is left behind at the end of the stream.

**`DnnIvsr`** — the backend, as the stack of patches leaves it, with the parts of `vf_dnn_processing.c`
that drive it. `pc` is where the filter's thread is: it consumes a frame, executes, drains results,
returns; at the end it flushes, awaits every result, closes, and frees the model. The three steps of
`infer_completion_callback` (write the output, raise `inference_done`, give the request back) are
actions of their own, since patch 0021 runs them on OpenVINO's threads. Models take a frame, a window
of three frames (TSENet: the inference of frame N starts when N+1 arrives) or a group of `nif` frames
(BasicVSR). A frame is its number, so `made` and `out` tell what each frame was made from. The
requests being alike, their queue is a set. An error of `activate` and an early teardown end in
`stopped`. *Correct when*: it implements `FrameFilter` (`FilterSpec`), the model of an ended stream is
freed after its last inference (`FreeFindsNoInference`), and streams end (`StreamEnds`). The model is freed without
waiting for callbacks. After an error or a teardown any of their steps may come too late, and even after a
normal end the last one may: `inference_done` lets the await loop end before the request goes back (patch 0002, line 383
against 896-904). `CallbackAfterFree` is that use of what is gone. `FrameNum` is
the value of the function-local static `frame_num`: with 1, as for the second filter of a process,
TLC finds `FilterSpec` violated by the first frames of a window model (one frame is enough: see the hazard at
patch 0016, line 117), and `StreamEnds` by a stream of two frames: `FlushNothing` takes a request, finds that the window
lacks a frame, and gives it back to nobody. The run has 0, with which the flush always finds a full window.

**`DnnSession`** — the backend on the pool of its session: `DnnIvsr` joined with `OvEngine`, whose only
caller is the filter's thread and whose jobs are the backend's tasks. `DnnIvsr` takes
`ivsr_process_async` for one step; here it enters the engine, takes an id and starts or throws, and
the engine's `CallBack` is where `infer_completion_callback` begins. The executor is left out, as no patch
ever reaches it. *Correct when*: the filter never blocks inside the call (`FilterNeverSleeps`: the
session's pool is never emptier than the backend's), the engine is used and deleted as it expects
(`EngineAsExpected`), and all of this is still `DnnIvsr` with the fairness assumed there (`BackendSpec`).

**`PatchGeometry`** — the patches of one axis as pure operators: block count, overlap, first pixel.
**`SmartPatch`** — one frame through `generatePatch`, inference and `restoreImageFromPatches`, pixel
by pixel. A pixel's value is the position it comes from, so the output shows what each of its pixels
is made of. Batch, number and channel are cut alike, so a cell of a buffer is a pixel of all planes; `PixelsIn`
turns the constructor's floats into such pixels. A shape of two dimensions, the only one `ivsr_process` passes,
leaves the planes out of the size (`smart_patch.cpp` 158-165), while inference wraps all planes of a patch
(`ov_engine.cpp` 280-284): when these do not end in their buffer (`PatchesFit` false), `InferOverruns` ends in
`undefined`. *Correct when*: patches tile the frame (`PatchesTile`), and, for a shape `fill_patch` accepts (`Fills`), lie within
their buffers (`BuffersFit`), share no cell (`PatchBuffersDisjoint`), and come back to their place, on every pixel
(`EveryPixelWritten`, `RestoredInPlace`).

**`SessionInit`** — `ivsr_init`, one action per kind of setting and one per object made. The list is
not kept: any setting may come next, so every list in every order is covered. A device string is its
virtual device, its list and the place of its first bracket; engine properties are entries (section,
device, property). Whether the build has OpenVINO 2022.3, and whether collecting the properties of a
virtual device throws, are choices. Reading past a short vector or through a null pointer ends in
`undefined`; an exception of OpenVINO
(from the making of the engine on) or of a thread's start leaves `ivsr_init`, which has no handler; null arguments are refused first (`NullArguments`). *Correct when*: a handle
is a complete session (`NoHalfSession`), its shape passed its tests (`ReshapeHonoured`), every
device got its settings (`DevicesConfigured`). The last carries conditions the code needs: no bracket inside the list,
not both `GPU` and `GPU.n`, no exception on the way. `PRECISION` is tested against the device seen so far, so a later
`TARGET_DEVICE` escapes the test; that is in the model and no property is about it.

**`OvEngine_proofs`**, **`ThreadExecutor_proofs`**, **`SmartPatch_proofs`** (with the theorems about
`PatchGeometry`), **`IvsrSession_proofs`**, **`VsrSample_proofs`**, **`SessionInit_proofs`**,
**`DnnIvsr_proofs`**, **`DnnSession_proofs`** — the theorems. `VsrSample_proofs` and `DnnSession_proofs` extend the
proofs of the component below them, as their models extend the component.

Definitions introduced as "mutated" in a module are slips a change of the code could make; each is
listed in `PROJECT.json` "mutants" with the property that notices it.

## The runs

| run | instance | what it shows |
|---|---|---|
| `engine` | 3 callers, 3 jobs, up to 2 requests | the pool alone, with growth, failures and deletion |
| `executor` | 2 workers, 3 tasks | batches of any size up to 3, spurious wake-ups, failures, stop |
| `session_patches` | 2 workers, 2 frames of 2 patches, pool of 1 that grows to 2 | all session properties with the patch solution; failing inference, start, growth |
| `session_async` | 2 workers, 3 whole frames, pool of 2 | each frame by `ivsr_process` or `ivsr_process_async`; the application itself waits for a request; all faults |
| `session_init` | all lists over two models, seven device strings, five shapes, three resolutions | what `ivsr_init` gives and refuses |
| `smart_patch` | all frames of up to 5 × 5, all smaller patches, scales 1–3, 3 and 9 planes, shapes of two and five dimensions | tiling, buffers, restoration; where an inference may overrun |
| `process_hangs` | 1 frame, failing inference | violated: `ivsr_process` never returns |
| `patches_misplaced` | up to 5 × 5, scale 2 | violated: patches restored beside their place |
| `patches_alias` | up to 5 × 5, shapes of two dimensions | violated: all patches share one buffer |
| `vsr_sample` | 1 worker, up to 3 groups, pool of 2, one or three input frames, all faults but growth | the client keeps to the API, and what it waits for |
| `dnn_session` | 2 requests in the backend and in the pool, up to 5 frames, groups of 2, all three kinds of models, all faults | the backend implements the filter; the two pools stay in step; streams end |
| `dnn_groups` | 2 requests, 6 frames, groups of 2, no faults | violated: a group's result goes into another group's frames |

*Bounds.* Three callers and two requests are the least with a sleeper, a getter and a holder at once
while an id comes back. Two workers and three tasks give a worker that sleeps through a notification
sent for another, and a batch that outlives a worker's loop. A pool that starts smaller than the
number of patches must grow; two frames make the counter, the queue and the pool be used again after
a reset; three asynchronous frames over two requests make the application sleep in
`get_idle_request`. Three planes are one RGB frame, nine a window of three, and only the nine can overrun
the buffer of a shape without planes, which is four times too large for one; frames of up to five pixels with patches of one to four give two to five blocks,
overlaps that divide evenly and that do not, and enlarged corners that differ from the multiples.
Three groups in the sample, with two requests, give callbacks that overlap each other, the loop and
the poll. Two requests and five frames give the backend a window that lacks, has and outlives its
neighbours, two inferences that complete in either order, a filter thread that waits for a request,
and two groups with a frame left over. The settings include widths that are and are not multiples of 32, odd sizes, tokens that are no number,
vectors that are too short, a zero resolution, and device strings with MULTI, AUTO, HETERO, one or two GPUs and a bracket.
Deadlock is not checked because each of these systems ends: the engine is deleted, the executor
gone, the session closed, `ivsr_init` returned, the frame restored. That no call hangs is checked as liveness instead.

*Fairness* (`FairSpec` of `IvsrSession`). Weak fairness of each thread inside a call: the operating
system schedules it. Weak fairness of each OpenVINO request and each callback: OpenVINO answers every
inference it has started, with success or an exception. None for the application calling another function or
deinitialising, and none for spurious wake-ups, so that no progress is owed to them. Weak fairness
is enough for waiting threads because a woken thread that finds its predicate false only sleeps again,
and notifications are matched with sleepers (`NoLostWakeUp`).
`ServiceProgress` and `CallsReturn` are conditional on no fault: with one, the code does hang.

*Fairness* of `VsrSample` (`SampleSpec`) is the same, except that `main` is a program: it keeps going
between calls as well. Each callback goes on once it has begun. `SampleEnds` is conditional on no fault.

*Fairness* of `DnnIvsr` (`FairSpec`): the filter's thread keeps running as long as it can move, every
inference is completed and every callback goes on. Strong fairness of `EndOfStream` says that the stream
has an end and that `activate` is called often enough to see it: FFmpeg schedules the filter as long as its
input has frames or a status. `StreamEnds` is conditional on no inference lost: with one,
`flush_frame` polls for ever.

*Fairness* of `DnnSession` is that of the two components it joins: the filter's thread, each inference, each
callback, the end of the stream; none for a spurious wake-up or a fault. That it implies `DnnIvsr`'s is what `BackendSpec` checks.

## What is proved

For every value of the constants under the modules' named assumptions:

- **The pool** (`OvEngine_proofs`, from `EngineAssumption`: at least one request may exist). `BaseOK` (the
  types) is inductive; `PoolPartition` is inductive given the types. Its parts need each other: that
  an id popped is idle comes from `IdleIdsExact`, that it is not queued again from
  `IdleIdsDistinct`, that whoever starts a request is the only one who holds it from `HeldByOne`.
  `JobsInv` then gives the type of `pending` and `JobInOnePlace`. `NoLostWakeUp` says there is an
  injection from queued ids to awake callers; the proof changes it by one exchange when a caller takes an id.
- **The executor** (`ThreadExecutor_proofs`, from `ExecutorAssumption`: finitely many workers).
  `ExecInv` joins types, `TaskInOnePlace`, `CounterIsExact` (the counter is the number of tasks
  completed) and `TargetOK` (the client waits for the size of the batch). The barrier follows: the
  completed tasks are a subset of a finite batch with as many elements, hence all of it, hence nothing is
  queued, taken or in the engine. Conversely the barrier is needed for the induction: it is why no
  completion can arrive between `sync` and `reset`. `NoLostWakeUp` counts waiting workers;
  `StoppedIsDrained` needs that `_isStopped` is set exactly from the destructor on.
- **The session** (`IvsrSession_proofs`, from `SessionAssumption`: finitely many workers, at least one
  request and one patch), for every number of workers, patches, requests and calls and whatever fails. The
  invariant `SessionInv` is the engine's invariant, the executor's, and `Link`, which says what each
  may hold while the application is where it is: the batch is what this call has enqueued
  (`BatchLink`), the pool is grown before anything is enqueued (`PoolLink`), the application's own job is this
  call's (`CallerLink`), every call was answered one way or the other (`CallLink`), and a job goes from
  the executor's queue and workers (`Waits`) to a request that has not completed (`Ahead`) and on to one that has
  (`Over`), never back (`InferredLink`, `WholeLink`). Under `Link` every step of the session is a step of each component
  or leaves it alone (`SessionKeepsEngine`, `SessionKeepsExecutor`), so the components' lemmas, taken through
  INSTANCE, keep their invariants, and `Link` is what remains to prove. `PatchesOutliveInference`
  and `NobodyUsesDeleted` follow from the barrier of `wait_all`: when it lets go, every patch is
  called back, hence inferred. `NoRequestMislaid` counts: with nothing owed, the requests not lost are the ids queued,
  each once. `EveryPatchFindsARequest` is by the pigeonhole: whoever sleeps found no id queued, so the
  requests are all held for other jobs of the frame, of which there are fewer than requests.
  `SessionImplementsService` maps every step to one of `VsrService` or a stutter.
- **The sample client** (`VsrSample_proofs`, from these and `SampleAssumption`: a group has a frame), for every number of groups, either process
  function and whatever fails. Its steps are those of the session but for one: it deinitialises without the guard
  on callbacks owed that `IvsrSession` puts on its application. `SampleInv` adds `SampleLink` to `SessionInv`: where
  `main` is while the session is where it is (`MainLink`: between iterations it is outside the API, and
  in one it has made one call), what its count is worth (`CountLink`: with the callbacks that have begun and not
  yet counted it is the number of callbacks made), and that a callback is made only for what was inferred
  (`DeliveredLink`). When the poll ends, the count is the number of groups; there are no more callbacks made than groups, so all were
  made and none is still to count. Hence nothing is owed at `ivsr_deinit` (`SampleKeepsSession`: every
  theorem about the session holds under this client) and every group was inferred (`SampleEndsComplete`).
  `SampleArgsLive` needs `ModeLink` besides: in the synchronous mode the engine has no whole frame of its own,
  so the only callback made is that of the call `main` is in.
- **The patches** (`SmartPatch_proofs`, from `FramesAssumption`: a frame
  larger than a patch on both axes). With stride `s` and last shift `l`, `s * (b - 1) - l = n - p`
  and `0 <= l < s <= p`: so patches stay inside and leave no gap. `PatchesTile`, `BuffersFit`
  (for a shape `fill_patch` accepts: `p * b <= 2 n` on each axis, and the buffer has four times the floats of the shape,
  planes included; nothing is claimed for two dimensions), `PatchBuffersDisjoint` (patches are numbered
  injectively; it is about shapes `fill_patch` accepts, and `patches_alias` shows what happens with others)
  and `EveryPixelWritten` (induction over the patches added; enlarging does not change the number of
  patches) follow. `DataInv` says what the buffers hold: after `GeneratePatch` each cell the pixel of its
  patch, after `Infer` the enlarged pixel, in the image only such pixels; it rests on `CellsApart` (a cell
  determines patch and pixel: quotient and remainder twice) and `CellBelow`. `TypeOK` (every write of `fill_patch` in its
  buffer, and of an inference unless it is `InferOverruns`) and `RestoredInPlace` (division by the scale undoes the enlarging of aligned corners) follow.
  Where corners are not aligned, as in `patches_misplaced`, `RestoresNearby` bounds the damage: `InterScale` says the
  truncating division loses less than a pixel of the frame, the losses add up along the axis (`AxisDisplaced`; the
  last patch is back in place), so patch `i` is restored at most `i * (scale - 1)` pixels before its place, never after it.

- **The initialisation** (`SessionInit_proofs`, from `InitAssumption`). `Known` records what each stage
  has established of the settings read so far, `ReshapeTested` that the model of every later stage has the tested shape;
  `NoHalfSession` and `ReshapeHonoured` follow. `DevicesConfigured` is proved for
  proper targets (`ProperTargets`: a virtual device or none, a list of distinct devices without it) by
  following an entry from the devices' sections to the one it is read from.
- **The backend** (`DnnIvsr_proofs`, from `DnnAssumption`), for every number of requests and frames.
  `TypeInv` is inductive for all kinds of models. `DnnImplementsFilter` has one hypothesis, that a window
  model finds `frame_num` at 0: with 1 it is false (see `FrameNum` above). For frame and window models it rests on
  `IInv`: `Order` (the tasks not answered are the frames not sent), `InStep` (the last-level queue and the cache are
  determined by how many frames came, and by whether one is being executed) and `RightResults` (what a
  request holds or has written is what its task is to be made from, now and whatever arrives later).
  `InStep` is what makes the flush find a full window. For groups it rests on `Groups`: `out_queue` holds the frames not sent,
  in order, and they are those of the tasks not answered, `GroupSize` each, and those gathered for the next, fewer
  than a group; so a stream that closes leaves only an incomplete group behind. What a group is made of `FrameFilter` leaves
  open, and `dnn_groups` shows why. `DnnFreesAfterInference` rests on `Awaited`: an inference not yet counted has its task in
  `task_queue`, and no two have the same; so when the await loop ends none is left
  (a callback that has counted may be: see `CallbackAfterFree`).
- **The backend on its session** (`DnnSession_proofs`, from `DnnAssumption`), for any number of requests and any fault.
  Each step is one of `DnnIvsr` or changes nothing of it (`SessionImplementsBackend`), so `SessionImplementsFilter` and
  `SessionFreesAfterInference` carry over. The invariant `SessionIInv` is `SessionInv` until the model is freed and `AfterFree` from then
  on, when the engine no longer moves and late callbacks lose their requests (`JobsAgree` and `LostAgree` below end there). `SessionInv` is the engine's invariant, `TypeInv`, `Awaited` and `SessionLink`: an infer
  request in flight, and a job about to be reported, has a request item out for the same task (`JobsAgree`); no
  more infer requests are lost than request items, until an error ends the stream (`LostAgree`); during a call
  the filter's thread and the oldest task stay as they were (`CallOngoing`). `JobsAgree` with `Awaited` shows that
  the oldest task waiting is not with the engine, so it is never given twice, and that after the await loop
  nobody is in the pool (`SessionUsesEngineAsExpected`). `SessionNeverSleeps` is by the pigeonhole, in both pools at once: were
  there no id queued, every infer request would be in flight or lost, and the request items out or lost would be as many;
  but one is queued. `SessionLink` does not follow from `FilterNeverSleeps`, which says nothing of lost requests, and
  conversely `LostAgree` would fail without the exception for `stopped`: a refused start in `execute` queues the item again.

Only model-checked, being liveness: `ServiceProgress`, `CallsReturn`, `SampleEnds`, `StreamEnds`, and the fairness half of
`BackendSpec` (that the engine's threads are fair enough for `DnnIvsr`'s fairness to hold); its safety half is
`SessionImplementsBackend`. The runs with an expected violation are counterexamples and need no proof.

## Findings

- `process_hangs`: `run_impl`'s callback executes `throw ex` on an `exception_ptr`, which
  `catch (const std::exception&)` does not match; a failed inference is never reported and `ivsr_process` waits for ever, though
  `ivsr_sdk/README.md` promises a status.
- `patches_misplaced`: the output corners are recomputed with truncating divisions from the enlarged
  sizes and differ from the enlarged corners unless the overlap divides evenly; `RestoresNearby` says by how much.
- `patches_alias`: `ivsr_init` stores two-dimensional shapes, `fill_patch` wants five and returns at
  once, so all patches of a frame share one buffer that nobody filled.
- `dnn_groups`: `infer_completion_callback` writes a group's results into the oldest frames of
  `out_queue`; since patch 0021 two groups may be in flight, and the second's results go into the frames
  of the first.

Seen while modelling, and not the subject of a run:

- The SDK's README marks three settings of `ivsr_init` as required and does not mention the tensor
  descriptions, which `ivsr_init` reads through null pointers when they were not given (`NewSession`, `undefined`).
- Its example `--reshape_values="(1,3,720,1280)"` is read as N, H, W: the height would be 3, which is odd and refused.
- It documents `--nig` and models with several input frames; the sample reads past the end of the
  first image of a group, and past the list of files when they are no multiple of `nif`.
- The comment on `frame_num` in patch 0016 (line 120) says "For the first pic in the stream"; the
  static is initialised once per process.
- A refused or failed group leaves `vsr_sample` in `while (count != id)`; its early `return -1` after
  `ivsr_init` leaves the session up.
- After an error or an early teardown `ff_dnn_free_model_ivsr` destroys queues that callbacks still use; even after a
  normal end of the stream, a callback that has raised `inference_done` may push its request into the destroyed
  `request_queue` (`CallbackAfterFree`).
- With the two-dimensional shapes of `patches_alias` the patch buffers also lack the planes: where the planes of a patch have more
  than four times the pixels of the frame, the inference of a patch ends outside its buffer (`InferOverruns`).
  The frames of an incomplete last group never leave (the flush for BasicVSR is a TODO of patch 0016).

## Not modelled, and why

- `wait_all_impl` of the engine: nothing calls it. `Execute`/`Defer` for an executor of
  zero threads and the thread-local `Stream`: `ivsr_init` always makes eight.
- `multithread_p_5w`: compiled only with `ENABLE_THREADPROCESS`, which is off.
- `ivsr_reconfig` and `ivsr_get_attr`: the first stores strings nobody reads, the second only reads.
- A frame larger than the model on one axis only: the code divides by zero (see the hazards).
- `fill_image` adds onto the output buffer it is given; the model starts from a cleared one, as
  `vsr_sample` allocates.
- Of the backend: loading (options, allocation), running out of memory, the pixels, and the race on
  the `AVFifo`s that the callbacks of groups read without a lock. What the input of a group is made from is
  in the model, its pixels are not.
- Layout conversion, padding to multiples of 64 and bit depth: per-pixel loops in patches, whose index maps a unit
  test reaches as well as a model does.
- Two application threads on one handle: the API does not say whether that is allowed.
- irguard (a binary), OpenVINO and its patch, build and container files.
- Hidden-state inputs, layouts, colour conversion and element types in `init_impl`: they decide nothing that
  the models tell apart, other than by throwing, which `Throws` covers.

## Plan

Done: `OvEngine`, `ThreadExecutor`, `IvsrSession` over `VsrService`, `VsrSample` over `IvsrSession`,
`SmartPatch`, `SessionInit`, `DnnIvsr` over `FrameFilter`, `DnnSession` over `DnnIvsr` and `OvEngine`, and the
proofs of all of them: every invariant, every action property and the safety part of every refinement that a run
checks is a theorem. What is left to prove:

1. What the windows hold when an earlier window filter has run in the process (`FrameNum = 1`), and what the flush
   then sends.
