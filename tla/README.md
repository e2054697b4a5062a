# A verification project for Evan

Evan is a C++ rendering engine over Vulkan with two backends: a window on the
desktop (GLFW) and a headset (OpenXR).  An application owns a loop that calls
`Engine::update`, `Engine::render` and `Engine::pollEvents`; `render` is
`Renderer::drawFrame`.  The engine is single-threaded, and what makes it hard is
what goes on beside that thread: a GPU that runs the submitted work later, a
presentation engine or compositor that hands images out and takes them back, an
OpenXR runtime that moves the session through its states, and calls that fail
half-way through a frame and leave their effects behind.

The modules here model those interactions.  TLC checks them on small instances,
TLAPS proves the main invariants for all values of the constants.

## Inventory

| Component | State it keeps | Operations | Talks to | Hard part | What makes it correct |
| --- | --- | --- | --- | --- | --- |
| Renderer frame loop (`Renderer.cpp`) | `_currentFrameIndex`, `_frames` | `drawFrame`, object calls | every other part | returns at a dozen places between waits, resets and submissions | a slot's buffers are never reused under a draw; each call returns |
| Frame slots (`Frame.cpp`) | fence, semaphores per swapchain, command, uniform, instance and indirect buffers per view | creation, growth | GPU, presentation | semaphores are counted by slot, images by swapchain | a semaphore is free when it is handed over |
| Object registry (`ObjectRegistry.hpp`) | slots with generations, free list, size | `add`, `get`, `update`, `remove`, `clear` | `Renderer`, applications that keep handles | stale handles of recycled slots | a removed handle never resolves again |
| Transfer manager (`TransferManager.cpp`) | staging buffer and offset, recorded batch, pending fences | `uploadBuffer`, `uploadBufferToImage`, transitions, mipmaps, `flush`, `waitIdle` | graphics queue | host writes memory the GPU reads later | every copy reads what was staged for it |
| Desktop swapchain (`DesktopSwapchainContext.cpp`, `DesktopBackend.cpp`) | images, resize flag | acquire, present, recreate, resize callback | GLFW, `drawFrame` | a suboptimal acquire is also a success | nothing is destroyed under a draw |
| OpenXR frame (`XrDeviceBackend.cpp`) | session running, predicted time | `preprocessFrame`, `processFrame`, `postprocessFrame` | runtime, `drawFrame` | wait, begin and end must alternate, whatever fails | one frame open at a time |
| OpenXR swapchains (`XrSwapchainContext.cpp`) | swapchains, view set, projection layers | acquire, wait, recreate, update layers | runtime, `drawFrame` | some swapchains may be refused | layers name live swapchains |
| OpenXR session events (`IXrPlatform.cpp`) | `_shouldClose`, `_lastError` | `pollEvents` | runtime, application loop | each event comes once | a ready session is begun, an exit ends the loop |
| Engine (`Engine.cpp`) | views, captured events | meshes and objects, `render`, `pollEvents` | all | order of sync and upload | uploads precede the draws that read them |
| Resource manager (`RessourceManager.cpp`) | shaders, materials, textures, variants, synced version | `sync`, `createMaterialVariant`, clean-up | provider, transfer manager, renderer | two versions decide what is skipped; runs inside command recording | every edit reaches the device, nothing is left at the end |
| Materials, textures, meshes (`GPU*.cpp`, `RenderObject.cpp`) | descriptor sets, images, buffers | create, update, destroy | transfer manager, descriptor pool | destroyed while uploads name them | nothing is written after it is gone, sets are counted exactly |
| Draw list (`recordCommandBuffer`) | keys, runs, instance and indirect cursors | cull, sort, record, flush | registry, frame buffers | commands executed later than they are recorded | each draw once, with its own state, in the promised order |
| Render targets (`ASwapchainContext.cpp`, `*SwapchainImage.cpp`) | format, sample counts, attachments, layers | choices at set-up and recreation | backends, renderer | the same choice made in three places | framebuffers, render pass and pipelines agree |
| Set-up and destruction (`Engine.cpp`, `DeviceContext.cpp`, backends) | every handle | constructors, `~Engine` | machine, runtime | refused calls that are only logged; one order for two backends | children before parents, nothing left |
| Pipeline cache (`PipelineCache.cpp`) | blob on disk | `init`, `persist` | file system, driver | killed between two calls | the file is absent or whole, and fits the device |
| OpenXR negotiation (`XrExtensions.cpp`, `XrDeviceBackend.cpp`) | extensions, view configuration, blend modes | list, create, retry, query | runtime | the list is older than the instance | AR never costs VR |
| OpenXR actions (`XrManageActions.cpp`, `actions/`) | last state of each button | bind profiles, poll | runtime | inactive actions, refused bindings | no change lost, core bindings kept |
| Desktop events (`IDesktopPlatform.cpp`, `DesktopBackend.cpp`) | a queue per kind of event | callbacks, `pollEvents` | GLFW | kinds are returned one after the other | every event once, the last state right |
| Camera input (`Engine.cpp`) | captured events, button, debug ray | `update`, `setShouldCaptureViewportInput` | events, objects | capture toggled between press and release | one ray |

Not modelled: frame statistics (no effect on the frame), view and frustum
arithmetic, text and picking, the loaders of each operating system, and the
vendored code, tests and examples.  The hazards each part is exposed to, with
their lines, are in `PROJECT.json`.

## The modules

| Module | What it is |
| --- | --- |
| `DrawFrame` | `Renderer::drawFrame`, the frame slots, both kinds of swapchain, the graphics queue and the presentation engine |
| `MCDrawFrame` | the results each backend's calls can return, for TLC |
| `MCFrames` | the frame loop over one backend or the other, for TLC |
| `DrawFrameProofs` | its proofs |
| `HandleTable` | what the object registry promises: a map whose handles are not given out twice until it is cleared |
| `ObjectRegistry` | the slot map, shown to implement `HandleTable` |
| `TransferManager` | staging memory, upload batches and their fences |
| `TransferManagerProofs` | its proofs |
| `XrFrame` | the application loop, the OpenXR calls of a frame, `pollEvents` and the runtime |
| `XrFrameProofs` | its proofs |
| `DrawList` | `Renderer::recordCommandBuffer` for one view |
| `Scene`, `MCScene` | `ObjectRegistry` and `DrawList` together: objects come and go between frames; the meshes and bounds of the run |
| `SceneProofs` | proofs about `ObjectRegistry`, `DrawList` and `Scene` |
| `Resources` | `RessourceManager`, `GPUMaterial`, `GPUTexture`, `GPUMesh`, `RenderObject` over a provider and a queue |
| `ResourcesProofs` | its proofs |
| `Targets` | the choice of device, format, present mode, sample counts, attachments and layers, as operators |
| `PipelineCache` | the cache file and the processes that use it, one call of the file system at a time |
| `Lifecycle`, `MCLifecycle` | a process from `main` to exit on either backend: set-up, recreation, destruction, the cache; uses `Targets` and `PipelineCache`; the machines of the runs |
| `LifecycleProofs` | proofs about `PipelineCache` and `Lifecycle`: the cache file is whole, a process implements the cache's specification, keeps its handles in order and its targets in agreement |
| `Negotiation`, `MCNegotiation` | what is asked of an OpenXR runtime before the first frame; the runtimes and options of the run |
| `NegotiationProofs` | its proofs |
| `Input` | callbacks, queues, OpenXR polls, the application and the camera |
| `InputProofs` | its proofs |

### DrawFrame

`pc` is the place in `drawFrame`, `k` the index of the loop it is in.  One
action stands for each stretch of code between two calls that can fail:
`BeginFrame` (flush the uploads, `preprocessFrame`), `CheckResized`,
`WaitInFlightFence`, `AcquireImage` (one turn of the loop), `CollectViews` (with
the reset of the fence), `SubmitView` (fill, record and submit one view, or all
of them in multiview), `WaitRenderComplete` (OpenXR), `PresentImage` (one turn),
`EndFrame`, and `RecreateSwapchain`, which three of them go through.  `Return` is
every `return`.

The asynchronous side has `queue` (draws submitted and not complete), `presents`
(present requests still waiting for their semaphore), the fences and the two
kinds of semaphores, and `images`, which says of each image whether it is free,
acquired, waiting to be presented or displayed.  `CompleteBatch` runs the first
draw of the queue once its image is available and signals what its submission
asked for.  `SignalImageAvailable`, `DisplayImage` and `RetireImage` are the
presentation engine.

`UsesImageAvailableSemaphore` selects the backend, as the method of that name
does: TRUE is the desktop, with semaphores and `vkDeviceWaitIdle` at recreation,
FALSE is OpenXR, with a wait on the host.  What the application does between two
calls is `FramebufferSizeCallback`, `EditMaterial` and `AddMesh`.

`Progress` is what a call does when nothing goes wrong.  The waits for a fence, an image
or the rendering have no timeout that could end them (`Renderer.cpp:345-360`), so that
they end by what they wait for or not at all: every result may be an error, none has
to be one.  `AcquireRefused` is the exception: on OpenXR an acquire with every image
out is answered at once.

What the model takes for granted:

- The application stops after a fatal result, as `docs/ERROR_HANDLING.md` asks.
  The OpenXR example in `examples/` does not; after a refused submission its
  next wait on that slot would block.
- The queue executes submissions in order (the assumption the code itself makes
  at `Renderer.cpp:423`).
- `vkDeviceWaitIdle` also waits for the presents that are queued.  Vulkan
  promises less, implementations do it, and the code relies on it when it
  destroys the old swapchain.
- Acquires have no timeout (`UINT64_MAX`); a present that fails as out of date or
  suboptimal still consumes its semaphore; a fatal one does not.
- The four fatal errors are one value, `"Fatal"`.
- Exceptions out of a recreation are not modelled.
- `XrFrame` shows which results OpenXR acquires return; here they are one of Ok
  and SwapchainOutOfDate, and a release cannot ask for a recreation.
- Draws read meshes and materials, and nothing in the code keeps these alive for
  a draw in flight (`GPUMesh.cpp:132`): there is no property to state.

### ObjectRegistry and HandleTable

A handle packs generation and index in 64 bits; here it is the pair of them.
Generations count modulo `GenBound` (2^32 in the code).  `SlotFor` is `slotFor`:
the set of at most one slot a handle denotes.  Adding or storing a null object,
and any call with a handle that does not resolve, leave the state alone and are
not actions.  `dead` and `removals` are history.  The refinement maps
the occupied slots to the table's `live` map.

`clear` forgets the generations with the slots, and the next `add` gives out the handle
the first object had.  What is promised of a handle, here and in `HandleTable`, is
therefore promised until the next `clear`; the comment at `ObjectRegistry.hpp:161`
promises more, and is a finding.

### TransferManager

The staging memory is a function from bytes to contents, so that an overlap of
two uploads is visible.  An upload with room is one action (`Place`); one
without goes through `waitIdle` (`StartDrain`, `Drained`), may replace the buffer
(`Grow`), and is then placed.  A batch is the set of its copies; `ExecuteCopy`
runs them in any order.  `Flush` may also be refused by the queue, a result the
code does not look at: the batch is then tracked and never runs.

### XrFrame

The thread goes around `top`, the frame calls, `poll` and `drain`.  The middle of
`drawFrame` is the one step `Draw`.  The runtime keeps `state`, a queue of
`events`, whether a frame was `waited` for or `begun`, and per swapchain whether
an image is out and whether one was ever released to it (`shown`).  `last` and
`beginRefused` are history: what the last frame returned, and whether the last begin
was refused.  The runtime refuses what the OpenXR specification makes it refuse: a
release before the wait for the image, a layer that names a
dead or never-released swapchain.  `Failing` names the calls that may fail in
addition, `xrWaitFrame` and `xrBeginFrame` among them.  A second wait before the begin
blocks (`Blocked`) until the session is lost; a second begin before the end discards the
open frame and answers a code that `preprocessFrame` takes for an error, with the new
frame open.  `Loop` chooses between the loop of `docs/ERROR_HANDLING.md` and that of
`examples/`.  The synchronized, visible and focused states are one, `running`:
`pollEvents` ignores the events that announce them.

`XrSessionBeginInfo.next` is never initialised (`IXrPlatform.cpp:103`), so that
`xrBeginSession` may be refused by a runtime that has nothing against the
session: that is the `beginSession` member of `Failing`.

### DrawList and Scene

A draw item is what the recording looks at: shader, material, geometry, whether
it blends, its depth and its transform.  `StartRecording` stands for the culling,
the keys and the sort (`SortKey` and `KeyLess` are the comparison, `DepthBucket` the
depth bucket, `Sorted` what `std::sort` makes of a total order), with the growth of the instance buffer; `RecordRun` is one turn of the main loop
(passes, runs of equal state, `emitDraw`), `EndRecording` the last flush.
`executed` is what the GPU will do, in order, with the state bound when it does:
an indirect command takes the state of its flush, not of its recording.  `Scene`
takes the list from the registry, in the order of `forEach`, with culling on or off.

A draw that finds the indirect buffer full is recorded directly.  It comes before the
commands that wait for their flush, which have its state, since for another state they
would have been flushed.  With merging such draws are one; without, it is executed
before draws that the sort put first: `Overtakes` names these pairs, and `DrawOrder`
asks nothing of their depths.  `vkBeginCommandBuffer` and `vkEndCommandBuffer`
(`Renderer.cpp:1117`, `1654`) never fail here; the code logs such a failure and submits
what there is.

### Resources

The provider may load and edit between any two calls, and resolve a shader later
than the material that names it.  `sync` is `Sync`: skipped when the versions agree,
else shaders, then materials one at a time (`todo`), each of which may wait for the
uploads (`drain`), free and allocate its sets, and be refused them, then textures;
the version is recorded last.  An image or buffer is one of two turns of its owner, so that the
new one is told from the one it replaces.  `batch` and `submitted` are what the
transfer manager recorded and what the queue has yet to run, as sets of what they
write.  Variants copy their source when they are created and are not synced.

A frame runs `sync` while it is recorded, after the uploads of before were submitted.
`BoundCurrent` is about what the frame binds: it exists, it was made from what the
provider holds, and the uploads of its meshes are ahead of the frame in the queue.  The
uploads of an image that this very pass made are not: the draw reads it before they
run, which is what `uploads_while_recording` shows.

### Targets, PipelineCache and Lifecycle

`Lifecycle` has one action per function that the constructors call, in the order
of `DesktopEngine` and `XrEngine`.  `Attempt` is how such a function ends: the
handles it uses unchecked must exist or the behaviour is undefined; without those
it checks, and when the machine refuses, it throws (desktop) or logs and goes on
with a null handle (OpenXR and most of the rest).  `live` holds the handles that
exist, `todo` what `EngineDestroy` still has to take down.  `Targets` computes the
render pass, the framebuffers and the sample counts each function chooses, from a
host, which is a machine with its settings.  The cache is opened by
`PipelineCacheInit` and written by `PersistCache`, whose steps are those of
`PipelineCache`.  `Outlived` names what the destructors take down in the wrong order:
on a headset the device goes before the session and before the render pass (which
nothing destroys), and the OpenXR instance before the actions; when the engine holds the
last reference to its platform, the callback of a window that is gone is reset.
`ChildrenFirst` excludes every other pair, and these too until `~Engine`
starts.  `Exit` may come anywhere: a kill, or the end.

A file of the cache is a function from its pieces to the device that produced
them.  A stream keeps its file when the name is moved or removed (`at`).  `lost`
records that a close dropped data, which the code does not look at.

### Negotiation

The step `getRequiredInstanceExtensions` runs in the platform, before the backend
exists; `createXrInstance` and the retry without the AR extensions come later, and
the runtime may change in between (`RuntimeChanges`).  Then the available
extensions, the function tables, the system, the view configuration, the blend
modes, the actions and the bindings, each query with its failure.  `Losses` are the sets
of actions that may be refused together.  A profile whose bindings are refused for another
reason than a path it lacks is a profile the runtime lacks.  `createXrInstance` tries
again without the AR extensions only when an extension is not present
(`XrDeviceBackend.cpp:750`): an instance refused with any other error is `refused`, with
AR or without, and `VrKept` asks nothing of it.

### Input

On a desktop a callback appends to the queue of its kind and a poll returns the
keys held down and then the queues, kind after kind.  On OpenXR a poll compares
the state of each button with `lastState`, when the action is active.  The runtime may
refuse the synchronisation, and then nothing is reported (`XrManageActions.cpp:55`), or
the read of one button, which the code does not check and which leaves it as if it were
inactive (`XrManageButtonsActions.cpp:39`).  `told` is
what an application that only listens believes; `captured` the copy `update`
applies to the camera.

## The runs

| Run | Module, cfg | States | Shows |
| --- | --- | --- | --- |
| `frames` | `MCFrames`, `Frames.cfg` | 690 834 | slots, fences and images are safe and calls return, on the desktop with three images and on OpenXR with two views, layered or not, with swapchains missing |
| `scene` | `MCScene`, `Scene.cfg` | 311 812 | free list, dead handles, the refinement of `HandleTable`, and frames that draw every mesh once, with its own state, in order |
| `transfers` | `TransferManager`, `TransferManager.cfg` | 103 372 | staged data, tracked batches, drains that mean what they say and end |
| `openxr_session` | `XrFrame`, `XrFrame.cfg` | 54 032 | the session flag, which frame calls may be left open by what, complete layers, and events that are answered |
| `resources` | `Resources`, `Resources.cfg` | 851 189 | no upload into what is gone, exact sets, what frames bind, edits that reach the device, nothing left |
| `process` | `MCLifecycle`, `Lifecycle.cfg` | 1 280 510 | the order of handles, what is released, targets that fit, null handles, the cache file, over refusals, kills and restarts |
| `input` | `Input`, `Input.cfg` | 2 245 218 | an application that listens knows what is pressed, every event arrives once and in order, there is one debug ray |
| `negotiation` | `MCNegotiation`, `Negotiation.cfg` | 390 536 | AR never costs VR, blend modes are supported, core bindings are kept |

Four runs are expected to be violated.  Each checks a sentence the repository
says of itself and which the code does not keep:

| Run | Sentence | What happens |
| --- | --- | --- |
| `suboptimal_acquire` | `Renderer.cpp:336`: the semaphores "are free to be reused for this frame" | a suboptimal acquire returns with its semaphore signaled, and the next call acquires with it |
| `present_semaphores` | the same sentence | with three images a slot comes round before the present of its last frame has consumed `_renderFinished` |
| `uploads_while_recording` | `Renderer.cpp:297`: draws "are ordered after" the uploads | `recordCommandBuffer` synchronises, and so records uploads, after the flush |
| `format_mismatch` | `ASwapchainImage.hpp:295`: the render pass "should be compatible with the attachments" | render pass and images choose format and sample count by different rules |

Other disagreements met while modelling are findings in `PROJECT.json` without a
run of their own; a reader can see most of them by changing one line of a cfg:

| Change | What TLC shows |
| --- | --- |
| `Loop = "documented"` in `XrFrame.cfg` | the loop of `ERROR_HANDLING.md` skips `pollEvents`, so that the session is never begun (`ReadyAnswered`) |
| `BeginFindsNoOpenFrame` as an invariant of `XrFrame.cfg` | a failed acquire returns with the frame begun; the next begin is taken for a fatal error |
| `RightTracked` as an invariant of `Input.cfg` | capture toggled between press and release leaves the camera turning (`Engine.hpp:452`) |
| `StopAnswered` without `\/ Blocked` | a refused `xrBeginFrame` leaves a frame waited for; the next `xrWaitFrame` blocks, and no event is read any more (`XrDeviceBackend.cpp:124`) |
| `SceneDrawOrder` without `Overtakes` | a draw that finds the indirect buffer full runs before farther ones (`RenderSettings.hpp:176`) |
| `ChildrenFirst` without `Outlived` | the device goes before the session and the render pass (`XrDeviceBackend.cpp:81`) |
| two members in `Procs` of `PipelineCache` with `CacheSpec` | two processes share the name of the temporary file (`CacheWhole`) |

Handles that come back after `clear` (`ObjectRegistry.hpp:161`), the render pass that
OpenXR never destroys (`XrSwapchainContext.cpp:304`), material variants that keep the
textures they were created with (`RessourceManager.hpp:114`) and the two optional bindings that are dropped
together (`OpenXrOptions.hpp:94`) are modelled as they are.

### Bounds

- Two frame slots is the code's `MAX_FRAMES_IN_FLIGHT`; `MAX_SWAPCHAINS` (8) and
  `MAX_MULTIVIEW_VIEWS` (2) are the code's too.
- Three images per swapchain are what `minImageCount + 1` gives on most drivers: one
  more than there are slots, so that an acquire waits for a present and a slot can
  overtake one.  A present then may wait for a signal that another one took
  (`present_semaphores`), and is never shown; `CallReturns` is asked of the behaviours in
  which that does not happen, `[]RenderSemaphoreFree`.  The two runs for the other
  semaphore and for the uploads need two images only.
- Two views are a headset.  With two, one swapchain may be missing while the
  other is there, in either mode.
- Nothing bounds the number of frames: the state spaces of `DrawFrame` and
  `XrFrame` are finite and explored whole.
- `scene`: three slots, six kinds of mesh and two removals recycle a slot while others
  are drawn.  `GenBound` is out of their reach there; the wrap is a hazard in
  `PROJECT.json` and an assumption of the theorem.  One mesh cannot be drawn.  The opaque
  ones stand at 1, 4 and 7, the middle one half-way, so that with two buckets it falls
  on the border between them, and has a shader that is sorted after the others'.  Two
  indirect commands and one instance to begin with make both buffers too small for
  three draws.
- Upload sizes 1, 3 and 5 against an alignment of 2 and a buffer of 4: one that
  needs padding, one that fills the buffer, and one for which it must grow.  Two
  fences allow two batches in flight.
- `Resources`: two materials, two shaders (one resolved late), one texture and one
  object.  The pool is made for four materials and has samplers for one, so that it
  runs out with the second; an update, or the batch it waits for, meets objects and
  variants of the same material.  `MaxVersion` 3 allows a load and two edits.
- `process`: four desktops and three headsets, chosen for the branches of the
  choices (see `MCLifecycle`), two refused calls in each run of the process, and
  any number of runs one after the other: two pieces of a blob and two devices are
  the least that tell a torn file and a foreign one from a good one.
- `format_mismatch` has one odd desktop and one odd headset and no refusals.
- `Input`: one key, one button of each kind, two events between two polls and three
  between two updates.  Two events of each plain kind (`MaxPlain`) meet in a queue, or in
  two polls, among those of the other kinds.  `MaxRays` bounds what is only counted.
- `Negotiation`: five runtimes, four sets of options, two changes of the runtime, nine sets
  of lost actions: none, one or two of each kind, both of the menu, a mixture, all.
- Deadlock is checked for the scene, the process, input and negotiation.  The
  other systems may stop: the application after a fatal result or at the end of its
  loop, the transfer manager once destroyed or waiting for a batch the queue
  refused, the resources once the engine is closed.

### Fairness

`FairSpec` of `DrawFrame` asks weak fairness of `Progress`, of `CompleteBatch` and of
`Display`: the thread inside `drawFrame` goes on when what it waits for is there, the GPU
runs what is queued, the presentation engine shows what can be shown.  No error is
asked for, since the code has no right to one: a fence that nothing will signal
blocks the call, and `CallReturns` fails.  Nothing is asked of the application either: it
may stop calling.  `TransferManager` asks the same of the GPU and
of a call that has been made.  `XrFrame` asks only that the thread keeps running
around its loop, which has no exit but its own and one place to block, `Blocked`;
nothing is asked of the runtime, which may never announce anything and may lose the
session at any time.
`Resources` asks that a call that was made goes on, that the queue completes its
batches, and that the application goes on drawing until it closes the engine; edits
reach the device only through the passes that drawing makes.

## The proofs

All theorems are of the form `Spec => []P` (or an action property), for every
value of the constants that satisfies the named assumptions.

`DrawFrameProofs`.  `TypeCorrect` is inductive by itself, given that a view's slot
number is bounded by the number of views before it (`ViewSlot`, a cardinality).
`SlotFreeAlways` needs more: that a signaled fence means no draw of the slot is
queued.  This is not inductive alone, since a frame has several submissions and
only the last one carries the fence.  The invariant `SlotInv` adds that the
draw with the fence is the last of its slot in the queue (and the queue is served
in order), that while a call is submitting only earlier views are queued and none
carries the fence, that nobody else uses the slot meanwhile, and that a fence the
call has reset stays so until a draw that carries it is done.  `FenceOwnedAlways`
follows the fence in the other direction: whoever reset it will signal it.

`DrawTargetsLiveAlways`, for any number of slots, swapchains and images, says that
a swapchain is never destroyed under a draw.  The two backends keep it for different
reasons.  On OpenXR the call waits for the fence of its own submission before it
releases the images, so that nothing is queued when they go (`Drained`).  On the
desktop images are presented while their draw is still queued: `DesktopInv` follows
the semaphore from the draw that will signal it to the present that waits for it,
says that no two draws have one image, and that a present comes after its draw.
Both need that an image acquired by the call stays held to the end of it (`Held`).

`SceneProofs`, the registry.  `FreeListExactAlways` and `SizeExactAlways` are inductive
together with the types.  `DeadStayDeadAlways` is proved from the invariant that
the generation of every dead handle is below the present generation of its slot.
It needs `NoWrap` (fewer removals than generations, counted from the last `clear`).
Under the same assumption `ImplementsTableAlways` proves the refinement of `HandleTable`: a handle that `add`
gives is fresh, since every handle that died has a lower generation than its slot.

`SceneProofs`, the draws.  `DrawnOnceAlways`, `DrawnWithOwnStateAlways` and
`SceneDrawOrderAlways` hold of any objects, cameras, distances, capacities and
numbers of commands and buckets.  The inductive invariant `DrawInv` looks at the
draws executed followed by the commands still pending (`Work`).  `WorkTiles` says
that these share out the instances before `next`, each in exactly one draw, and do so
in the order of the list but for a draw that overtakes pending ones of its state; that is
why a flush may come at any time without changing anything (`Flushing`), and why a draw may be put
before the pending ones without being lost (`TilesWithOneMore`).  `StatesRight` and
`BoundIsLast` say that the commands pending all want what is bound, and that with
merging the next run wants something else, so that there is never a pending command
of its state.  `DrawTypes` has the buffer large enough for the list: the doubling of
`nextInstanceCapacity` reaches any request (`NextCapacityFits`, by the least step at
which it does).  The order follows from the keys (`ListInOrder`), with the bucket of a
depth bounded by the division it is computed with (`BucketsNear`).  The list itself
is any arrangement `Sorted` allows; that there is one, which is up to `std::sort`, is
not needed.  Proving the order corrected it: a mesh at the far end of the range is in the
last bucket and not past it, so that two draws of one bucket can be exactly the
width of a bucket apart, and the property says `<=`; TLC finds the stricter form
violated in `Scene.cfg`.

`TransferManagerProofs`.  `StagingInv` adds to the three properties that every
outstanding copy lies below the offset of the buffer that is mapped now, where no
later upload writes; that the batches in flight have different fences; that copies
are only ever recorded in a command buffer that is being recorded; that nothing
is left unsubmitted during a drain; and that there is room after it.

`LifecycleProofs`, the cache.  `CacheWholeAlways` and `GivenFitsAlways`, for any number of
pieces and any devices, when one process at a time uses the directory.  `IInv` adds
to them what the temporary file holds at each point of `writeBlob` (`Temporary`):
the first `next - 1` pieces while it is written, all of them from the close to the
rename.  `OneProcess` brings a step of the only process back to a record before and
a record after it.

`LifecycleProofs`, the process.  `ImplementsCache`: every step of `Lifecycle` is a step of
`PipelineCache` or leaves it alone.  What needs an invariant is that the cache is
opened on one of the machine's devices: `HostInv` says that past the fourth step
of a desktop's set-up there is a suitable one, and `PickedIsGpu` that the first of
them is what `pickPhysicalDevice` chooses.  So the two theorems about the cache
hold of whole processes, whatever is refused (`ProcessCacheWhole`,
`ProcessGivenFits`).

`ChildrenFirstAlways`, `AllReleasedAlways` and `SetUpSafeAlways`, for any machines,
are conjuncts of `HandlesInv`, with `SetUpInv` (which handles can be there after so
many steps of the set-up, whatever was refused) and, during the destruction, that
`todo` is in an order in which no handle comes before what was made from it and has
everything that is left (`InOrder`, `Covered`), but for the pairs of `Outlived`.
`TargetsFitAlways` assumes `RegularHosts`: a format that is preferred is offered in the sRGB color space, one
sample count is recommended for all views, and what Vulkan promises of every device
(one sample, FIFO presentation, a maximum of images not below the minimum).  The run
`format_mismatch` shows that the first two are needed; `MCLifecycle` asserts that the
machines of `process` are regular and those of `format_mismatch` are not.
`TargetsInv` says what the render pass, the images and the pipelines are, as functions
of the host, from the step that makes each on; a recreation makes them the same again.

`NegotiationProofs`.  `VrKeptAlways` from `InstanceInv`: what the platform asks for
beyond the baseline is among the names the retry gives up, at every step up to the
creation.  `BlendShownAlways` from `BlendInv`: the supported modes are those of the
view configuration, and the mode of the session is one of them once there are any.
`ProfileChosenAlways` from `ProfileInv`: once the engine runs, the bindings are those
that going over the candidates with this runtime gives; the profile that keeps any
is the first whose core bindings fit, as the second suggestion has no others.

`XrFrameProofs`.  `SessionAgreesAlways`, `FrameOrderAlways` and `LayersCompleteAlways`,
for any number of views, either loop and whatever is refused.  `IInv` is the first two
with the types, since a frame is left open or waited for by a call that returns an error
only (`OutcomeTyped`), and that the release loop has gone over the swapchains it has passed
(`Released`), so that when none was refused every view of the layer has been shown an
image.

`ResourcesProofs`.  `TransfersLiveAlways`, `PoolExactAlways`, `BoundCurrentAlways` and
`NothingLeftAlways`, for any materials, shaders, objects and sizes of the pool.
`IInv` says where the thread can be (`Places`, `OldPlaces`); that what is being
replaced has lost its sets (`ItemHeld`); that everything that exists has one owner
and every owner has what it names (`Owners`); that nothing is recorded during a drain
(`Pending`); which materials the current pass has brought up to date (`Passes`); that what a mesh
uploads is submitted before the frame is recorded (`MeshesSent`); and
that the shaders go last (`ShadersLast`), so that an engine without shaders has
nothing else of the manager's left.  The assumptions on names (`NamesAssumption`)
only say that identifiers of different kinds differ; that the engine loads a shader
of its own is `Engine.cpp:102`.

`InputProofs`.  `ApplicationKnowsAlways`, `DeliveredOnceAlways` and `OneRayAlways`,
for any keys and buttons, however many events there are between two polls and two
updates and however often the platform polls.  `ApplicationKnows` speaks of the moment
after a poll; what holds in between is that the queue of an input says what leads from
what the application believes to what is pressed (`QueueTold`), or, on OpenXR, that the
application believes what `_lastState` remembers (`ButtonsTold`).  `Says` is what the last
event about an input said.  A poll reports held keys first, which may come before
their own release, but never changes what all of the events say in the end
(`SaysFrom`); and although the queues of different kinds are put one behind the other,
only one of them speaks of an input, in one piece (`SaysWithin`, `QueuedSorted`).  The
same fact gives `DeliveredOnce`.  The loops over events (`After`) are functions of the
number of events already seen: `LoopExists` and `LoopUnique` show by induction over
that number that their equation determines them, which gives each of the four loops of
the model its values in turn.  `OneRay` is carried through the loop of `update` as a
part of the type of its state (`CameraStates`).  To be proved about, `Input` states
that its keys and buttons are finite sets, which the code's tables of them are.

Only model-checked: everything under fairness (`CallReturns`, `DrainEnds`,
`CloseObserved`, `ReadyAnswered`, `StopAnswered`, `EditsShown`), since liveness and ENABLED are out
of the prover's reach, as are the library's induction theorems and anything in a module with
RECURSIVE operators (none is used here).  Every safety property of a passing
run is proved.  Where an induction over numbers was needed
here it is by a least counterexample (`Least`), over a set and not a predicate.

## Not modelled

- Draws in flight against the destruction of meshes and materials: the code has no
  protection there (`GPUMesh.cpp:132`, `GPUMaterial.cpp:110`), so that a property
  would be violated by the shortest run.
- Memory barriers and image layouts of the recorded transfers.
- A command buffer that cannot be begun or ended (`Renderer.cpp:1117`, `1654`).
- Frame statistics and GPU timestamps: switched off by default, without effect on
  the frame.
- Floating-point geometry: frustum planes, poses, transforms.
- Text, picking and the application's own views.
- The loaders of each operating system; vendored code, tests, examples.

## Plan

1. One queue for `DrawFrame`, `TransferManager` and `Resources`, with barriers.
2. Views of the application (`ViewSet`) and their swapchains.

## Running the checks

    tlc -config Frames.cfg MCFrames
    tlc -config TransferManager.cfg TransferManager
    tlapm DrawFrameProofs.tla

and likewise for the other runs and proof modules.
