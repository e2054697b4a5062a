----------------------------- MODULE DrawFrame -----------------------------
(***************************************************************************)
(* One call of Renderer::drawFrame after another, against a GPU that runs  *)
(* the graphics queue in submission order and a presentation engine (the   *)
(* desktop swapchain, or the OpenXR compositor) that hands images out and  *)
(* takes them back.  The caller is the documented consumer loop: it edits  *)
(* resources and polls the window between two calls, calls again after a   *)
(* recoverable result and stops after a fatal one.                         *)
(*                                                                         *)
(* The graphics queue, the semaphore signals of an acquire and the present *)
(* requests are asynchronous: a call returns with work still outstanding,  *)
(* which is what the per-frame fence and semaphores are there to order.    *)
(***************************************************************************)
EXTENDS Naturals, Sequences, FiniteSets

CONSTANTS
  MaxFramesInFlight,            \* MAX_FRAMES_IN_FLIGHT, the frame slots
  MaxSwapchains,                \* MAX_SWAPCHAINS, per-slot semaphores and buffers
  MaxMultiviewViews,            \* MAX_MULTIVIEW_VIEWS
  NViews,                       \* views of the session (1 on desktop, one per eye)
  Images,                       \* image indices of one swapchain
  UsesImageAvailableSemaphore,  \* TRUE: desktop; FALSE: OpenXR
  MultiviewModes,               \* values of the session's multiview switch
  Outcomes                      \* results each external call may return

ASSUME ShapeAssumption ==
  /\ MaxFramesInFlight \in Nat \ {0}
  /\ MaxSwapchains \in Nat /\ MaxMultiviewViews \in Nat
  /\ NViews \in Nat \ {0}
  /\ UsesImageAvailableSemaphore \in BOOLEAN
  /\ MultiviewModes \subseteq BOOLEAN

\* Error.hpp; "Fatal" stands for the four values isFatal() accepts.
Errors == {"Ok", "Suboptimal", "SwapchainOutOfDate", "NotReady", "Fatal"}

ASSUME OutcomesAssumption ==
  /\ \A call \in DOMAIN Outcomes : "Ok" \in Outcomes[call]
  /\ Outcomes.preprocess \subseteq {"Ok", "NotReady", "Fatal"}
  /\ Outcomes.acquire \subseteq Errors \ {"NotReady"}
  /\ Outcomes.wait \subseteq {"Ok", "Fatal"}
  /\ Outcomes.submit \subseteq {"Ok", "Fatal"}
  /\ Outcomes.present \subseteq Errors
  /\ Outcomes.postprocess \subseteq {"Ok", "NotReady", "Fatal"}

Slots == 0 .. MaxFramesInFlight - 1
Views == 0 .. NViews - 1
Swapchains == 0 .. NViews - 1

VARIABLES
  pc,              \* where the drawFrame call is; "idle" between calls
  result,          \* what the call returns once the swapchain is recreated
  cur,             \* _currentFrameIndex
  k,               \* loop index of the acquire, submit and present loops
  multiview,       \* XrSwapchainContext::_multiviewEnabled, fixed per session
  count,           \* getSwapchainCount()
  resized,         \* DesktopSwapchainContext::_framebufferResized
  acquired,        \* acquiredImage[s], local to the call
  images,          \* what the presentation engine does with each image
  inFlight,        \* slot -> its _inFlight fence is signaled
  imageAvailable,  \* slot, swapchain -> its _imageAvailable semaphore
  renderFinished,  \* slot, swapchain -> its _renderFinished semaphore
  queue,           \* draws submitted to the graphics queue, not yet complete
  presents,        \* vkQueuePresentKHR requests whose wait is not yet done
  stale,           \* the resource provider is ahead of _syncedVersion
  recorded         \* uploads recorded in the TransferManager, not submitted

cpuVars == <<pc, result, cur, k, multiview, count, resized, acquired, stale, recorded>>
gpuVars == <<images, inFlight, imageAvailable, renderFinished, queue, presents>>
vars == <<cpuVars, gpuVars>>

Phases == {"idle", "resizeCheck", "fence", "acquire", "collect", "submit",
           "renderWait", "present", "recreate", "stopped"}

Batch == [slot : Slots, view : Views, swapchain : Swapchains, image : Images,
          fence : BOOLEAN, uploaded : BOOLEAN]

TypeOK ==
  /\ pc \in Phases
  /\ result \in Errors
  /\ cur \in Slots
  /\ k \in Nat
  /\ multiview \in BOOLEAN
  /\ count \in 0 .. NViews
  /\ resized \in BOOLEAN
  /\ acquired \in [Swapchains -> Images]
  /\ images \in [Swapchains -> [Images -> {"free", "acquired", "presenting", "displayed"}]]
  /\ inFlight \in [Slots -> BOOLEAN]
  /\ imageAvailable \in [Slots -> [Swapchains -> {"unsignaled", "pending", "signaled"}]]
  /\ renderFinished \in [Slots -> [Swapchains -> {"unsignaled", "signaled"}]]
  /\ queue \in Seq(Batch)
  /\ presents \in Seq([slot : Slots, swapchain : Swapchains, image : Images])
  /\ stale \in BOOLEAN
  /\ recorded \in BOOLEAN

-----------------------------------------------------------------------------
(* What a swapchain context can look like.                                 *)

\* Multiview renders every view into one layered swapchain.
MultiviewWanted == NViews >= 2 /\ NViews <= MaxMultiviewViews

\* A desktop context has one image set; an OpenXR context one per view, or one
\* for all, minus those xrCreateSwapchain refused.
SwapchainCounts(mode) ==
  IF UsesImageAvailableSemaphore THEN {1}
  ELSE IF mode THEN {0, 1} ELSE 0 .. NViews

SwapchainIndex(v) == IF multiview THEN 0 ELSE v

\* Views whose swapchain index is not past the end: the others are skipped.
RenderableViews == {v \in Views : SwapchainIndex(v) < count}

\* Mutant: the fence on the first submission.
FenceOnFirstView(v) == \A w \in RenderableViews : v <= w

\* viewOwnsInFlightFence(): only the last submission carries the fence.
ViewOwnsInFlightFence(v) == \A w \in RenderableViews : w <= v

AllFree == [s \in Swapchains |-> [i \in Images |-> "free"]]

Init ==
  /\ pc = "idle" /\ result = "Ok" /\ cur = 0 /\ k = 0
  /\ multiview \in {m \in MultiviewModes : m => MultiviewWanted}
  /\ count \in SwapchainCounts(multiview)
  /\ multiview => count = 1  \* a refused layered swapchain means no multiview
  /\ resized = FALSE
  /\ acquired \in [Swapchains -> Images]
  /\ \A s, t \in Swapchains : acquired[s] = acquired[t]
  /\ images = AllFree
  /\ inFlight = [f \in Slots |-> TRUE]
  /\ imageAvailable = [f \in Slots |-> [s \in Swapchains |-> "unsignaled"]]
  /\ renderFinished = [f \in Slots |-> [s \in Swapchains |-> "unsignaled"]]
  /\ queue = <<>> /\ presents = <<>>
  /\ stale = FALSE /\ recorded \in BOOLEAN

-----------------------------------------------------------------------------
(* Between two calls: the consumer.                                        *)

\* glfwPollEvents runs framebufferSizeCallback.
FramebufferSizeCallback ==
  /\ pc = "idle" /\ UsesImageAvailableSemaphore
  /\ resized' = TRUE
  /\ UNCHANGED <<pc, result, cur, k, multiview, count, acquired, stale, recorded, gpuVars>>

\* The application edits a material or adds one to the provider.
EditMaterial ==
  /\ pc = "idle"
  /\ stale' = TRUE
  /\ UNCHANGED <<pc, result, cur, k, multiview, count, resized, acquired, recorded, gpuVars>>

\* Engine::addMesh and the object calls synchronise the resources and record
\* the uploads of the new mesh.
AddMesh ==
  /\ pc = "idle"
  /\ stale' = FALSE /\ recorded' = TRUE
  /\ UNCHANGED <<pc, result, cur, k, multiview, count, resized, acquired, gpuVars>>

-----------------------------------------------------------------------------
(* The call.                                                               *)

\* What the consumer does with a result: a fatal one stops it.
Return(e) == pc' = IF e = "Fatal" THEN "stopped" ELSE "idle"

\* Submit the pending uploads, then let the backend prepare the frame.
BeginFrame(e) ==
  /\ pc = "idle"
  /\ recorded' = FALSE
  /\ IF e = "Ok" THEN pc' = "resizeCheck" ELSE Return(e)
  /\ UNCHANGED <<result, cur, k, multiview, count, resized, acquired, stale, gpuVars>>

\* A resized window is recreated before anything is acquired.
CheckResized ==
  /\ pc = "resizeCheck"
  /\ IF resized
     THEN pc' = "recreate" /\ result' = "SwapchainOutOfDate"
     ELSE pc' = "fence" /\ UNCHANGED result
  /\ UNCHANGED <<cur, k, multiview, count, resized, acquired, stale, recorded, gpuVars>>

\* Mutant: the desktop context does not wait for the device to be idle.
RecreateWithoutIdle ==
  /\ pc = "recreate"
  /\ count' \in SwapchainCounts(multiview)
  /\ images' = AllFree
  /\ resized' = FALSE
  /\ Return(result)
  /\ UNCHANGED <<result, cur, k, multiview, acquired, inFlight, imageAvailable,
                 renderFinished, queue, presents, stale, recorded>>

\* recreateSwapchain: the desktop context waits for the device to be idle, the
\* OpenXR one does not; both replace every image set.
RecreateSwapchain ==
  /\ pc = "recreate"
  /\ UsesImageAvailableSemaphore => queue = <<>> /\ presents = <<>>
  /\ count' \in SwapchainCounts(multiview)
  /\ images' = AllFree
  /\ resized' = FALSE
  /\ Return(result)
  /\ UNCHANGED <<result, cur, k, multiview, acquired, inFlight, imageAvailable,
                 renderFinished, queue, presents, stale, recorded>>

\* Mutant: the fence is reset as soon as it was waited for.
ResetFenceAfterWait(e) ==
  /\ pc = "fence"
  /\ e = "Ok" => inFlight[cur]
  /\ k' = 0
  /\ IF e = "Fatal" \/ count > MaxSwapchains
     THEN Return("Fatal") /\ UNCHANGED inFlight
     ELSE pc' = "acquire" /\ inFlight' = [inFlight EXCEPT ![cur] = FALSE]
  /\ UNCHANGED <<result, cur, multiview, count, resized, acquired, images, imageAvailable,
                 renderFinished, queue, presents, stale, recorded>>

\* Wait for the slot's fence, without a timeout; the wait also ends when the device
\* is lost, which nothing promises (see Fairness).  The slot's buffers may be
\* written from here on, first by ensureInstanceCapacity.
WaitInFlightFence(e) ==
  /\ pc = "fence"
  /\ e = "Ok" => inFlight[cur]
  /\ IF e = "Fatal" \/ count > MaxSwapchains THEN Return("Fatal") ELSE pc' = "acquire"
  /\ k' = 0
  /\ UNCHANGED <<result, cur, multiview, count, resized, acquired, stale, recorded, gpuVars>>

\* The states an acquire can leave the semaphore in: the presentation engine
\* will signal it.  Handing over one that is already signaled is undefined, so
\* that it may also just stay so.
SignalByAcquire(sem) == {"pending"} \cup ({sem} \ {"unsignaled"})

\* One turn of the acquire loop.  A suboptimal acquire still takes an image
\* and still signals the semaphore.
AcquireImage(e) ==
  /\ pc = "acquire" /\ k < count
  /\ IF e \in {"Ok", "Suboptimal"}
     THEN \E i \in Images :
            /\ images[k][i] = "free"
            /\ images' = [images EXCEPT ![k][i] = "acquired"]
            /\ acquired' = [acquired EXCEPT ![k] = i]
            /\ IF UsesImageAvailableSemaphore
               THEN \E sem \in SignalByAcquire(imageAvailable[cur][k]) :
                      imageAvailable' = [imageAvailable EXCEPT ![cur][k] = sem]
               ELSE UNCHANGED imageAvailable
     ELSE UNCHANGED <<images, acquired, imageAvailable>>
  /\ CASE e = "Ok" -> k' = k + 1 /\ UNCHANGED <<pc, result>>
       [] e \in {"Suboptimal", "SwapchainOutOfDate"} ->
            pc' = "recreate" /\ result' = e /\ UNCHANGED k
       [] OTHER -> Return(e) /\ UNCHANGED <<k, result>>
  /\ UNCHANGED <<cur, multiview, count, resized, inFlight, renderFinished, queue,
                 presents, stale, recorded>>

EndAcquire ==
  /\ pc = "acquire" /\ k = count
  /\ pc' = "collect"
  /\ UNCHANGED <<result, cur, k, multiview, count, resized, acquired, stale, recorded, gpuVars>>

\* Mutant: the fence is reset before it is known that there is a view to draw.
ResetBeforeCollecting ==
  /\ pc = "collect"
  /\ k' = 0
  /\ inFlight' = [inFlight EXCEPT ![cur] = FALSE]
  /\ IF RenderableViews = {} THEN pc' = "present" ELSE pc' = "submit"
  /\ UNCHANGED <<result, cur, multiview, count, resized, acquired, images, imageAvailable,
                 renderFinished, queue, presents, stale, recorded>>

\* Collect the renderable views and, only if there is one, reset the fence.
CollectViews ==
  /\ pc = "collect"
  /\ k' = 0
  /\ CASE Cardinality(RenderableViews) > MaxSwapchains ->
            Return("Fatal") /\ UNCHANGED inFlight
       [] RenderableViews = {} -> pc' = "present" /\ UNCHANGED inFlight
       [] OTHER ->
            /\ inFlight' = [inFlight EXCEPT ![cur] = FALSE]
            /\ IF multiview /\ Cardinality(RenderableViews) > MaxMultiviewViews
               THEN Return("Fatal") ELSE pc' = "submit"
  /\ UNCHANGED <<result, cur, multiview, count, resized, acquired, images, imageAvailable,
                 renderFinished, queue, presents, stale, recorded>>

\* The next view to submit: the whole set at once in multiview mode.
NextView(v) ==
  /\ v \in RenderableViews /\ v >= k
  /\ \A w \in RenderableViews : w >= k => v <= w

\* The view of the command and uniform buffers that submission uses.
ViewSlot(v) == Cardinality({w \in RenderableViews : w < v})

\* The multiview submission covers every view.
NoViewLeft(v) == multiview \/ \A w \in RenderableViews : w <= v

AfterSubmit == IF UsesImageAvailableSemaphore THEN "present" ELSE "renderWait"

\* Fill the uniform buffer, record the command buffer (which synchronises the
\* resources, and so may record uploads) and submit it.
SubmitView(e) ==
  /\ pc = "submit"
  /\ \E v \in Views :
       /\ NextView(v)
       /\ stale' = FALSE
       /\ recorded' = (recorded \/ stale)
       /\ IF e = "Ok"
          THEN /\ queue' = Append(queue,
                    [slot |-> cur, view |-> ViewSlot(v), swapchain |-> SwapchainIndex(v),
                     image |-> acquired[SwapchainIndex(v)],
                     fence |-> multiview \/ ViewOwnsInFlightFence(v), uploaded |-> ~recorded'])
               /\ pc' = IF NoViewLeft(v) THEN AfterSubmit ELSE "submit"
               /\ k' = IF NoViewLeft(v) THEN 0 ELSE v + 1
          ELSE Return(e) /\ UNCHANGED <<queue, k>>
  /\ UNCHANGED <<result, cur, multiview, count, resized, acquired, images, inFlight,
                 imageAvailable, renderFinished, presents>>

\* OpenXR takes no semaphore: one wait for the whole frame before the release.
WaitRenderComplete(e) ==
  /\ pc = "renderWait"
  /\ e = "Ok" => inFlight[cur]
  /\ IF e = "Fatal" THEN Return(e) ELSE pc' = "present"
  /\ UNCHANGED <<result, cur, k, multiview, count, resized, acquired, stale, recorded, gpuVars>>

\* One turn of the present loop.  A desktop present queues a wait on
\* renderFinished; an OpenXR release gives the image to the compositor.
PresentImage(e) ==
  /\ pc = "present" /\ k < count
  /\ LET i == acquired[k] IN
       IF UsesImageAvailableSemaphore
       THEN IF e = "Fatal"
            THEN UNCHANGED <<presents, images>>
            ELSE /\ presents' = Append(presents, [slot |-> cur, swapchain |-> k, image |-> i])
                 /\ images' = [images EXCEPT ![k][i] = "presenting"]
       ELSE /\ images' = IF e = "Ok" THEN [images EXCEPT ![k][i] = "displayed"] ELSE images
            /\ UNCHANGED presents
  /\ CASE e = "Ok" -> k' = k + 1 /\ UNCHANGED <<pc, result>>
       [] e \in {"Suboptimal", "SwapchainOutOfDate"} ->
            pc' = "recreate" /\ result' = e /\ UNCHANGED k
       [] OTHER -> Return(e) /\ UNCHANGED <<k, result>>
  /\ UNCHANGED <<cur, multiview, count, resized, acquired, inFlight, imageAvailable,
                 renderFinished, queue, stale, recorded>>

\* Mutant: the index does not wrap.
EndFrameNoWrap(e) ==
  /\ pc = "present" /\ k = count
  /\ cur' = cur + 1
  /\ Return(e)
  /\ UNCHANGED <<result, k, multiview, count, resized, acquired, stale, recorded, gpuVars>>

\* The frame index moves on before the backend ends the frame, whatever
\* postprocessFrame answers.
EndFrame(e) ==
  /\ pc = "present" /\ k = count
  /\ cur' = (cur + 1) % MaxFramesInFlight
  /\ Return(e)
  /\ UNCHANGED <<result, k, multiview, count, resized, acquired, stale, recorded, gpuVars>>

-----------------------------------------------------------------------------
(* The GPU and the presentation engine.                                    *)

\* The first batch of the queue runs once the image it draws to is there, and
\* signals what its submission asked for.
CompleteBatch ==
  /\ queue # <<>>
  /\ LET b == Head(queue) IN
       /\ IF UsesImageAvailableSemaphore
          THEN /\ imageAvailable[b.slot][b.swapchain] = "signaled"
               /\ imageAvailable' = [imageAvailable EXCEPT ![b.slot][b.swapchain] = "unsignaled"]
               /\ renderFinished' = [renderFinished EXCEPT ![b.slot][b.swapchain] = "signaled"]
          ELSE UNCHANGED <<imageAvailable, renderFinished>>
       /\ inFlight' = IF b.fence THEN [inFlight EXCEPT ![b.slot] = TRUE] ELSE inFlight
  /\ queue' = Tail(queue)
  /\ UNCHANGED <<images, presents, cpuVars>>

\* The image promised by an acquire is ready to be drawn to.
SignalImageAvailable(f, s) ==
  /\ imageAvailable[f][s] = "pending"
  /\ imageAvailable' = [imageAvailable EXCEPT ![f][s] = "signaled"]
  /\ UNCHANGED <<images, inFlight, renderFinished, queue, presents, cpuVars>>

\* The oldest present request gets its semaphore and shows its image.
DisplayImage ==
  /\ presents # <<>>
  /\ LET p == Head(presents) IN
       /\ renderFinished[p.slot][p.swapchain] = "signaled"
       /\ renderFinished' = [renderFinished EXCEPT ![p.slot][p.swapchain] = "unsignaled"]
       /\ images' = [images EXCEPT ![p.swapchain][p.image] = "displayed"]
  /\ presents' = Tail(presents)
  /\ UNCHANGED <<inFlight, imageAvailable, queue, cpuVars>>

\* The display is done with an image.
RetireImage(s, i) ==
  /\ images[s][i] = "displayed"
  /\ images' = [images EXCEPT ![s][i] = "free"]
  /\ UNCHANGED <<inFlight, imageAvailable, renderFinished, queue, presents, cpuVars>>

-----------------------------------------------------------------------------
DrawFrameStep ==
  \/ CheckResized
  \/ RecreateSwapchain
  \/ \E e \in Outcomes.wait : WaitInFlightFence(e)
  \/ \E e \in Outcomes.acquire : AcquireImage(e)
  \/ EndAcquire
  \/ CollectViews
  \/ \E e \in Outcomes.submit : SubmitView(e)
  \/ \E e \in Outcomes.wait : WaitRenderComplete(e)
  \/ \E e \in Outcomes.present : PresentImage(e)
  \/ \E e \in Outcomes.postprocess : EndFrame(e)

Consumer ==
  \/ FramebufferSizeCallback
  \/ EditMaterial
  \/ AddMesh
  \/ \E e \in Outcomes.preprocess : BeginFrame(e)

Display ==
  \/ \E f \in Slots, s \in Swapchains : SignalImageAvailable(f, s)
  \/ DisplayImage
  \/ \E s \in Swapchains, i \in Images : RetireImage(s, i)

Next == Consumer \/ DrawFrameStep \/ CompleteBatch \/ Display

Spec == Init /\ [][Next]_vars

\* xrAcquireSwapchainImage does not block: with every image of the swapchain
\* acquired it answers an error.  vkAcquireNextImageKHR waits, without a timeout.
AcquireRefused ==
  /\ AcquireImage("SwapchainOutOfDate")
  /\ ~UsesImageAvailableSemaphore
  /\ \A i \in Images : images[k][i] = "acquired"

\* What the call does when nothing goes wrong.  No error is promised to come: a
\* fence that is never signaled and an image that is never free block the call.
Progress ==
  \/ CheckResized
  \/ RecreateSwapchain
  \/ WaitInFlightFence("Ok")
  \/ AcquireImage("Ok")
  \/ AcquireRefused
  \/ EndAcquire
  \/ CollectViews
  \/ SubmitView("Ok")
  \/ WaitRenderComplete("Ok")
  \/ PresentImage("Ok")
  \/ EndFrame("Ok")

\* The thread inside drawFrame, the GPU and the presentation engine keep going.
\* Display is finite between two calls, so one fairness condition covers it.
Fairness == WF_vars(Progress) /\ WF_vars(CompleteBatch) /\ WF_vars(Display)

FairSpec == Spec /\ Fairness

-----------------------------------------------------------------------------
(* Properties.                                                             *)

BatchesOf(f) == {i \in DOMAIN queue : queue[i].slot = f}

\* Renderer.cpp:336: once the call is past the fence wait, no draw of an earlier
\* frame reads the command, uniform and instance buffers of the current slot;
\* while the views are submitted, only the draws of views already submitted by
\* this call do, each from the buffers of its own view.
SlotFree ==
  /\ pc \in {"acquire", "collect"} => BatchesOf(cur) = {}
  /\ pc = "submit" =>
       \A i \in BatchesOf(cur) : \A v \in Views : NextView(v) => queue[i].view < ViewSlot(v)

\* Renderer.cpp:339: an early return leaves the fence so that the next call does
\* not deadlock.  A fence that is not signaled is always going to be: a queued
\* draw carries it, unless the call is still submitting or ended fatally.
FenceOwned ==
  \A f \in Slots :
    \/ inFlight[f]
    \/ \E i \in BatchesOf(f) : queue[i].fence
    \/ f = cur /\ pc = "submit"
    \/ pc = "stopped"

\* Every draw the GPU has yet to run targets an image this application still
\* holds, or has handed to a present that waits for it: a swapchain is never
\* destroyed, nor an image displayed, under a draw.
DrawTargetsLive ==
  \A i \in DOMAIN queue :
    images[queue[i].swapchain][queue[i].image] \in {"acquired", "presenting"}

\* Renderer.cpp:336, "the semaphores are free to be reused for this frame": the
\* acquire is given a semaphore that is unsignaled and has no signal pending.
AcquireSemaphoreFree ==
  UsesImageAvailableSemaphore /\ pc = "acquire" /\ k < count
    => imageAvailable[cur][k] = "unsignaled"

\* Same sentence: a draw is submitted to signal a semaphore that is unsignaled
\* and that no earlier present is still waiting for.
RenderSemaphoreFree ==
  UsesImageAvailableSemaphore /\ pc = "submit" =>
    /\ \A s \in Swapchains : renderFinished[cur][s] = "unsignaled"
    /\ \A i \in DOMAIN presents : presents[i].slot # cur

\* Renderer.cpp:297, "Submit any pending uploads so the draw command buffers
\* recorded below are ordered after them on the graphics queue".
UploadsOrdered == \A i \in DOMAIN queue : queue[i].uploaded

\* Every call to drawFrame returns: the waits for the fences, for an image, for the
\* rendering and for an idle device all end, whatever results the earlier calls
\* met, as long as no signal of a renderFinished semaphore was lost.
CallReturns ==
  []RenderSemaphoreFree =>
    (pc \notin {"idle", "stopped"} ~> pc \in {"idle", "stopped"})
=============================================================================
