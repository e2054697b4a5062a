-------------------------- MODULE DrawFrameProofs --------------------------
(***************************************************************************)
(* Proofs about DrawFrame, for any number of frame slots, views, swapchain *)
(* images and any results of the external calls.                           *)
(***************************************************************************)
EXTENDS DrawFrame, FiniteSetTheorems, SequenceTheorems, TLAPS

-----------------------------------------------------------------------------
(* What the helpers return.                                                *)

\* The results the external calls return are values of Error.
LEMMA OutcomesAreErrors ==
  /\ \A e \in Outcomes.preprocess : e \in Errors
  /\ \A e \in Outcomes.acquire : e \in Errors
  /\ \A e \in Outcomes.wait : e \in {"Ok", "Fatal"}
  /\ \A e \in Outcomes.submit : e \in {"Ok", "Fatal"}
  /\ \A e \in Outcomes.present : e \in Errors
  /\ \A e \in Outcomes.postprocess : e \in Errors
BY OutcomesAssumption DEF Errors

\* A context never has more swapchains than the session has views.
LEMMA SwapchainCountsBounded ==
  ASSUME NEW mode \in BOOLEAN, NEW n \in SwapchainCounts(mode)
  PROVE  n \in 0 .. NViews
BY ShapeAssumption DEF SwapchainCounts

\* The views before v are finitely many, at most v.
LEMMA ViewsBelow ==
  ASSUME NEW v \in Views
  PROVE  /\ IsFiniteSet({w \in RenderableViews : w < v})
         /\ ViewSlot(v) \in 0 .. v
<1> DEFINE B == {w \in RenderableViews : w < v}
<1>1. v \in Nat
  BY ShapeAssumption DEF Views
<1>2. /\ IsFiniteSet(0 .. v - 1)
      /\ Cardinality(0 .. v - 1) = v
  <2>1. 0 \in Int /\ v - 1 \in Int
    BY <1>1
  <2>2. QED
    BY ONLY <1>1, <2>1, FS_Interval
<1>3. B \in SUBSET (0 .. v - 1)
  BY <1>1, ShapeAssumption DEF RenderableViews, Views
<1>4. IsFiniteSet(B) /\ Cardinality(B) <= v
  BY ONLY <1>2, <1>3, FS_Subset
<1>5. Cardinality(B) \in Nat
  BY <1>4, FS_CardinalityType
<1>6. QED
  BY <1>1, <1>4, <1>5 DEF ViewSlot

\* A view uses buffers of a view of the session.
LEMMA ViewSlotType ==
  ASSUME NEW v \in Views
  PROVE  ViewSlot(v) \in Views
<1>1. ViewSlot(v) \in 0 .. v
  BY ViewsBelow
<1>2. QED
  BY <1>1, ShapeAssumption DEF Views

\* Later views use later buffers.
LEMMA ViewSlotIncreases ==
  ASSUME NEW v \in RenderableViews, NEW u \in Views, v < u
  PROVE  ViewSlot(v) < ViewSlot(u)
<1> DEFINE B == {w \in RenderableViews : w < v}
           C == {w \in RenderableViews : w < u}
<1>1. v \in Views /\ v \in Nat /\ u \in Nat
  BY ShapeAssumption DEF Views, RenderableViews
<1>2. IsFiniteSet(B) /\ IsFiniteSet(C) /\ Cardinality(B) \in Nat
  BY <1>1, ViewsBelow, FS_CardinalityType
<1>3. v \notin B
  BY <1>1
<1>4. IsFiniteSet(B \cup {v}) /\ Cardinality(B \cup {v}) = Cardinality(B) + 1
  BY ONLY <1>2, <1>3, FS_AddElement
<1>5. B \cup {v} \in SUBSET C
  BY <1>1, ShapeAssumption DEF RenderableViews, Views
<1>6. Cardinality(B \cup {v}) <= Cardinality(C)
  BY ONLY <1>2, <1>5, FS_Subset
<1>7. Cardinality(C) \in Nat
  BY <1>2, FS_CardinalityType
<1>8. QED
  BY <1>2, <1>4, <1>6, <1>7 DEF ViewSlot

-----------------------------------------------------------------------------
(* Type correctness.                                                       *)

ImageStates == {"free", "acquired", "presenting", "displayed"}
Request == [slot : Slots, swapchain : Swapchains, image : Images]

LEMMA TypeInit == Init => TypeOK
<1> SUFFICES ASSUME Init
             PROVE  TypeOK
  OBVIOUS
<1>1. multiview \in BOOLEAN
  BY ShapeAssumption DEF Init
<1>2. count \in 0 .. NViews
  BY <1>1, SwapchainCountsBounded DEF Init
<1>3. pc \in Phases /\ result \in Errors /\ cur \in Slots /\ k \in Nat /\ resized \in BOOLEAN
  <2>1. pc = "idle" /\ result = "Ok" /\ cur = 0 /\ k = 0 /\ resized = FALSE
    BY DEF Init
  <2>2. 0 \in Slots
    BY ShapeAssumption DEF Slots
  <2>3. QED
    BY <2>1, <2>2 DEF Phases, Errors
<1>4. /\ images \in [Swapchains -> [Images -> ImageStates]]
      /\ inFlight \in [Slots -> BOOLEAN]
      /\ imageAvailable \in [Slots -> [Swapchains -> {"unsignaled", "pending", "signaled"}]]
      /\ renderFinished \in [Slots -> [Swapchains -> {"unsignaled", "signaled"}]]
  BY DEF Init, AllFree, ImageStates
<1>5. queue \in Seq(Batch) /\ presents \in Seq(Request)
  BY EmptySeq DEF Init
<1>6. QED
  BY <1>1, <1>2, <1>3, <1>4, <1>5 DEF Init, TypeOK, ImageStates, Request

LEMMA TypeStep == TypeOK /\ [Next]_vars => TypeOK'
<1> SUFFICES ASSUME TypeOK, [Next]_vars
             PROVE  TypeOK'
  OBVIOUS
<1> USE DEF Phases, Errors, ImageStates, Request
<1>1. CASE FramebufferSizeCallback
  BY <1>1 DEF TypeOK, FramebufferSizeCallback, gpuVars
<1>2. CASE EditMaterial
  BY <1>2 DEF TypeOK, EditMaterial, gpuVars
<1>3. CASE AddMesh
  BY <1>3 DEF TypeOK, AddMesh, gpuVars
<1>4. ASSUME NEW e \in Outcomes.preprocess, BeginFrame(e)
      PROVE  TypeOK'
  BY <1>4 DEF TypeOK, BeginFrame, Return, gpuVars
<1>5. CASE CheckResized
  BY <1>5 DEF TypeOK, CheckResized, gpuVars
<1>6. CASE RecreateSwapchain
  <2>1. count' \in 0 .. NViews
    BY <1>6, SwapchainCountsBounded DEF TypeOK, RecreateSwapchain
  <2>2. QED
    BY <1>6, <2>1 DEF TypeOK, RecreateSwapchain, Return, AllFree
<1>7. ASSUME NEW e \in Outcomes.wait, WaitInFlightFence(e)
      PROVE  TypeOK'
  BY <1>7 DEF TypeOK, WaitInFlightFence, Return, gpuVars
<1>8. ASSUME NEW e \in Outcomes.acquire, AcquireImage(e)
      PROVE  TypeOK'
  <2>1. k \in Nat /\ (k < count => k \in Swapchains)
    BY ShapeAssumption DEF TypeOK, Swapchains
  <2>2. acquired' \in [Swapchains -> Images]
    BY <1>8, <2>1 DEF TypeOK, AcquireImage
  <2>3. images' \in [Swapchains -> [Images -> ImageStates]]
    <3>1. CASE e \in {"Ok", "Suboptimal"}
      <4>1. PICK i \in Images : images' = [images EXCEPT ![k][i] = "acquired"]
        BY <1>8, <3>1 DEF AcquireImage
      <4>2. k \in Swapchains
        BY <1>8, <2>1 DEF AcquireImage
      <4>3. [images[k] EXCEPT ![i] = "acquired"] \in [Images -> ImageStates]
        BY <4>2 DEF TypeOK
      <4>4. QED
        BY <4>1, <4>2, <4>3 DEF TypeOK
    <3>2. CASE e \notin {"Ok", "Suboptimal"}
      BY <1>8, <3>2 DEF TypeOK, AcquireImage
    <3>3. QED
      BY <3>1, <3>2
  <2>4. imageAvailable' \in [Slots -> [Swapchains -> {"unsignaled", "pending", "signaled"}]]
    <3> DEFINE SemaphoreStates == {"unsignaled", "pending", "signaled"}
    <3>1. CASE e \in {"Ok", "Suboptimal"} /\ UsesImageAvailableSemaphore
      <4>1. PICK sem \in SignalByAcquire(imageAvailable[cur][k]) :
               imageAvailable' = [imageAvailable EXCEPT ![cur][k] = sem]
        BY <1>8, <3>1 DEF AcquireImage
      <4>2. k \in Swapchains /\ cur \in Slots
        BY <1>8, <2>1 DEF AcquireImage, TypeOK
      <4>3. sem \in SemaphoreStates
        BY <4>2 DEF TypeOK, SignalByAcquire
      <4>4. [imageAvailable[cur] EXCEPT ![k] = sem] \in [Swapchains -> SemaphoreStates]
        BY <4>2, <4>3 DEF TypeOK
      <4>5. QED
        BY <4>1, <4>2, <4>4 DEF TypeOK
    <3>2. CASE ~(e \in {"Ok", "Suboptimal"} /\ UsesImageAvailableSemaphore)
      BY <1>8, <3>2 DEF TypeOK, AcquireImage
    <3>3. QED
      BY <3>1, <3>2
  <2>5. pc' \in Phases /\ result' \in Errors /\ k' \in Nat
    BY <1>8, <2>1, OutcomesAreErrors DEF TypeOK, AcquireImage, Return
  <2>6. QED
    BY <1>8, <2>2, <2>3, <2>4, <2>5 DEF TypeOK, AcquireImage
<1>9. CASE EndAcquire
  BY <1>9 DEF TypeOK, EndAcquire, gpuVars
<1>10. CASE CollectViews
  <2>1. inFlight' \in [Slots -> BOOLEAN]
    BY <1>10 DEF TypeOK, CollectViews
  <2>2. pc' \in Phases
    BY <1>10 DEF TypeOK, CollectViews, Return
  <2>3. QED
    BY <1>10, <2>1, <2>2 DEF TypeOK, CollectViews
<1>11. ASSUME NEW e \in Outcomes.submit, SubmitView(e)
      PROVE  TypeOK'
  <2>1. PICK v \in Views :
          /\ NextView(v)
          /\ stale' = FALSE
          /\ recorded' = (recorded \/ stale)
          /\ IF e = "Ok"
             THEN /\ queue' = Append(queue,
                       [slot |-> cur, view |-> ViewSlot(v), swapchain |-> SwapchainIndex(v),
                        image |-> acquired[SwapchainIndex(v)],
                        fence |-> multiview \/ ViewOwnsInFlightFence(v),
                        uploaded |-> ~recorded'])
                  /\ pc' = IF NoViewLeft(v) THEN AfterSubmit ELSE "submit"
                  /\ k' = IF NoViewLeft(v) THEN 0 ELSE v + 1
             ELSE Return(e) /\ UNCHANGED <<queue, k>>
    BY <1>11 DEF SubmitView
  <2>2. v \in Nat /\ ViewSlot(v) \in Views /\ SwapchainIndex(v) \in Swapchains
    BY ViewSlotType, ShapeAssumption DEF Views, Swapchains, SwapchainIndex
  <2>3. pc' \in Phases /\ k' \in Nat
    BY <2>1, <2>2 DEF TypeOK, Return, AfterSubmit
  <2>4. stale' \in BOOLEAN /\ recorded' \in BOOLEAN
    BY <2>1 DEF TypeOK
  <2>5. (multiview \/ ViewOwnsInFlightFence(v)) \in BOOLEAN /\ (~recorded') \in BOOLEAN
    OBVIOUS
  <2>6. queue' \in Seq(Batch)
    <3>1. CASE e = "Ok"
      <4> DEFINE b == [slot |-> cur, view |-> ViewSlot(v), swapchain |-> SwapchainIndex(v),
                       image |-> acquired[SwapchainIndex(v)],
                       fence |-> multiview \/ ViewOwnsInFlightFence(v), uploaded |-> ~recorded']
      <4>1. b \in Batch
        BY <2>2, <2>5 DEF TypeOK, Batch
      <4>2. queue' = Append(queue, b)
        BY <2>1, <3>1
      <4>3. QED
        BY <4>1, <4>2, AppendProperties DEF TypeOK
    <3>2. CASE e # "Ok"
      BY <2>1, <3>2 DEF TypeOK
    <3>3. QED
      BY <3>1, <3>2
  <2>7. QED
    BY <1>11, <2>3, <2>4, <2>6 DEF TypeOK, SubmitView
<1>12. ASSUME NEW e \in Outcomes.wait, WaitRenderComplete(e)
      PROVE  TypeOK'
  BY <1>12 DEF TypeOK, WaitRenderComplete, Return, gpuVars
<1>13. ASSUME NEW e \in Outcomes.present, PresentImage(e)
      PROVE  TypeOK'
  <2>1. k \in Nat /\ k \in Swapchains
    BY <1>13, ShapeAssumption DEF TypeOK, Swapchains, PresentImage
  <2>2. images' \in [Swapchains -> [Images -> ImageStates]]
    <3>1. acquired[k] \in Images
      BY <2>1 DEF TypeOK
    <3>2. \A c \in ImageStates : [images[k] EXCEPT ![acquired[k]] = c] \in [Images -> ImageStates]
      BY <2>1, <3>1 DEF TypeOK
    <3>3. \A c \in ImageStates :
             [images EXCEPT ![k][acquired[k]] = c] \in [Swapchains -> [Images -> ImageStates]]
      BY <2>1, <3>2 DEF TypeOK
    <3>4. \/ images' = images
          \/ images' = [images EXCEPT ![k][acquired[k]] = "presenting"]
          \/ images' = [images EXCEPT ![k][acquired[k]] = "displayed"]
      BY <1>13 DEF PresentImage
    <3>5. QED
      BY <3>3, <3>4 DEF TypeOK
  <2>3. presents' \in Seq(Request)
    <3>1. [slot |-> cur, swapchain |-> k, image |-> acquired[k]] \in Request
      BY <2>1 DEF TypeOK
    <3>2. Append(presents, [slot |-> cur, swapchain |-> k, image |-> acquired[k]]) \in Seq(Request)
      BY <3>1, AppendProperties DEF TypeOK
    <3>3. \/ presents' = presents
          \/ presents' = Append(presents, [slot |-> cur, swapchain |-> k, image |-> acquired[k]])
      BY <1>13 DEF PresentImage
    <3>4. QED
      BY <3>2, <3>3 DEF TypeOK
  <2>4. pc' \in Phases /\ result' \in Errors /\ k' \in Nat
    BY <1>13, <2>1, OutcomesAreErrors DEF TypeOK, PresentImage, Return
  <2>5. QED
    BY <1>13, <2>2, <2>3, <2>4 DEF TypeOK, PresentImage
<1>14. ASSUME NEW e \in Outcomes.postprocess, EndFrame(e)
      PROVE  TypeOK'
  <2>1. cur' \in Slots
    BY <1>14, ShapeAssumption DEF TypeOK, EndFrame, Slots
  <2>2. QED
    BY <1>14, <2>1 DEF TypeOK, EndFrame, Return, gpuVars
<1>15. CASE CompleteBatch
  <2>1. Head(queue) \in Batch /\ Tail(queue) \in Seq(Batch)
    BY <1>15, HeadTailProperties DEF TypeOK, CompleteBatch
  <2>2. inFlight' \in [Slots -> BOOLEAN]
    BY <1>15, <2>1 DEF TypeOK, CompleteBatch, Batch
  <2>3. imageAvailable' \in [Slots -> [Swapchains -> {"unsignaled", "pending", "signaled"}]]
    <3> DEFINE b == Head(queue)
    <3>1. b.slot \in Slots /\ b.swapchain \in Swapchains
      BY <2>1 DEF Batch
    <3>2. [imageAvailable[b.slot] EXCEPT ![b.swapchain] = "unsignaled"]
             \in [Swapchains -> {"unsignaled", "pending", "signaled"}]
      BY <3>1 DEF TypeOK
    <3>3. [imageAvailable EXCEPT ![b.slot][b.swapchain] = "unsignaled"]
             \in [Slots -> [Swapchains -> {"unsignaled", "pending", "signaled"}]]
      BY <3>1, <3>2 DEF TypeOK
    <3>4. \/ imageAvailable' = imageAvailable
          \/ imageAvailable' = [imageAvailable EXCEPT ![b.slot][b.swapchain] = "unsignaled"]
      BY <1>15 DEF CompleteBatch
    <3>5. QED
      BY <3>3, <3>4 DEF TypeOK
  <2>4. renderFinished' \in [Slots -> [Swapchains -> {"unsignaled", "signaled"}]]
    <3> DEFINE b == Head(queue)
    <3>1. b.slot \in Slots /\ b.swapchain \in Swapchains
      BY <2>1 DEF Batch
    <3>2. [renderFinished[b.slot] EXCEPT ![b.swapchain] = "signaled"]
             \in [Swapchains -> {"unsignaled", "signaled"}]
      BY <3>1 DEF TypeOK
    <3>3. [renderFinished EXCEPT ![b.slot][b.swapchain] = "signaled"]
             \in [Slots -> [Swapchains -> {"unsignaled", "signaled"}]]
      BY <3>1, <3>2 DEF TypeOK
    <3>4. \/ renderFinished' = renderFinished
          \/ renderFinished' = [renderFinished EXCEPT ![b.slot][b.swapchain] = "signaled"]
      BY <1>15 DEF CompleteBatch
    <3>5. QED
      BY <3>3, <3>4 DEF TypeOK
  <2>5. QED
    BY <1>15, <2>1, <2>2, <2>3, <2>4 DEF TypeOK, CompleteBatch, cpuVars
<1>16. ASSUME NEW f \in Slots, NEW s \in Swapchains, SignalImageAvailable(f, s)
      PROVE  TypeOK'
  <2>1. imageAvailable' \in [Slots -> [Swapchains -> {"unsignaled", "pending", "signaled"}]]
    BY <1>16 DEF TypeOK, SignalImageAvailable
  <2>2. QED
    BY <1>16, <2>1 DEF TypeOK, SignalImageAvailable, cpuVars
<1>17. CASE DisplayImage
  <2>1. Head(presents) \in Request /\ Tail(presents) \in Seq(Request)
    BY <1>17, HeadTailProperties DEF TypeOK, DisplayImage
  <2>2. renderFinished' \in [Slots -> [Swapchains -> {"unsignaled", "signaled"}]]
    BY <1>17, <2>1 DEF TypeOK, DisplayImage
  <2>3. images' \in [Swapchains -> [Images -> ImageStates]]
    BY <1>17, <2>1 DEF TypeOK, DisplayImage
  <2>4. QED
    BY <1>17, <2>1, <2>2, <2>3 DEF TypeOK, DisplayImage, cpuVars
<1>18. ASSUME NEW s \in Swapchains, NEW i \in Images, RetireImage(s, i)
      PROVE  TypeOK'
  <2>1. images' \in [Swapchains -> [Images -> ImageStates]]
    BY <1>18 DEF TypeOK, RetireImage
  <2>2. QED
    BY <1>18, <2>1 DEF TypeOK, RetireImage, cpuVars
<1>19. CASE UNCHANGED vars
  BY <1>19 DEF TypeOK, vars, cpuVars, gpuVars
<1>20. QED
  BY <1>1, <1>2, <1>3, <1>4, <1>5, <1>6, <1>7, <1>8, <1>9, <1>10, <1>11, <1>12, <1>13,
     <1>14, <1>15, <1>16, <1>17, <1>18, <1>19
  DEF Next, Consumer, DrawFrameStep, Display

\* Every variable keeps its type, whatever the external calls answer.
THEOREM TypeCorrect == Spec => []TypeOK
<1>1. QED
  BY TypeInit, TypeStep, PTL DEF Spec

-----------------------------------------------------------------------------
(* The frame's fence guards the buffers of its slot.                       *)
(*                                                                         *)
(* SlotFree speaks of the current slot only, and one step later another    *)
(* slot is current.  What makes it inductive is the meaning of the fences  *)
(* of all slots: a signaled fence says that no draw of its slot is left,   *)
(* because the submission that carries the fence is the last of its slot.  *)

\* A signaled fence: the GPU holds no draw of the slot.
FenceMeansDone ==
  \A f \in Slots : inFlight[f] => \A i \in DOMAIN queue : queue[i].slot # f

\* No draw of a slot is queued behind the one that carries its fence.
FenceIsLast ==
  \A i, j \in DOMAIN queue : i < j /\ queue[i].fence => queue[j].slot # queue[i].slot

\* While the views are submitted the fence is neither signaled nor given away.
FenceReserved ==
  pc = "submit" =>
    /\ ~inFlight[cur]
    /\ \A i \in DOMAIN queue : queue[i].slot = cur => ~queue[i].fence

\* From the wait to the reset the fence stays signaled.
FenceStays == pc \in {"acquire", "collect"} => inFlight[cur]

\* Views already submitted use the buffers of earlier views.
EarlierViews ==
  pc = "submit" =>
    \A i \in DOMAIN queue : queue[i].slot = cur =>
      \A v \in Views : NextView(v) => queue[i].view < ViewSlot(v)

SlotInv == FenceMeansDone /\ FenceIsLast /\ FenceReserved /\ FenceStays /\ EarlierViews

LEMMA SlotInvImpliesSlotFree == TypeOK /\ SlotInv => SlotFree
BY DEF TypeOK, SlotInv, FenceMeansDone, FenceStays, EarlierViews, SlotFree, BatchesOf

LEMMA SlotInvInit == Init => SlotInv
BY DEF Init, SlotInv, FenceMeansDone, FenceIsLast, FenceReserved, FenceStays, EarlierViews

\* Steps that leave the queue, the fences, the slot and the views alone.
LEMMA SlotInvKept ==
  ASSUME SlotInv, UNCHANGED <<queue, inFlight, cur>>,
         pc' \in {"acquire", "collect"} => inFlight[cur],
         pc' # "submit"
  PROVE  SlotInv'
BY DEF SlotInv, FenceMeansDone, FenceIsLast, FenceReserved, FenceStays, EarlierViews

\* The invariant survives the GPU and the presentation engine: only the head of
\* the queue can go, and with its fence the last draw of the slot.
LEMMA SlotInvComplete ==
  ASSUME TypeOK, SlotInv, CompleteBatch
  PROVE  SlotInv'
<1> DEFINE b == Head(queue)
<1>1. /\ queue # <<>> /\ queue \in Seq(Batch)
      /\ inFlight \in [Slots -> BOOLEAN] /\ cur \in Slots
      /\ UNCHANGED <<pc, cur, k, multiview, count>>
  BY DEF TypeOK, CompleteBatch, cpuVars
<1>2. /\ b \in Batch /\ b = queue[1] /\ 1 \in DOMAIN queue
      /\ Len(queue) \in Nat
      /\ queue' \in Seq(Batch) /\ Len(queue') = Len(queue) - 1
      /\ \A i \in 1 .. Len(queue') : queue'[i] = queue[i + 1]
  BY <1>1, HeadTailProperties DEF CompleteBatch
<1>3. \A i \in DOMAIN queue' : i \in Nat \ {0} /\ i + 1 \in DOMAIN queue /\ queue'[i] = queue[i + 1]
  BY <1>1, <1>2
<1>4. \A f \in Slots : inFlight'[f] => inFlight[f] \/ (b.fence /\ f = b.slot)
  BY <1>1, <1>2 DEF CompleteBatch, Batch
<1>5. \A f \in Slots : inFlight[f] => inFlight'[f]
  BY <1>1, <1>2 DEF CompleteBatch, Batch
<1>6. FenceMeansDone'
  <2> SUFFICES ASSUME NEW f \in Slots, inFlight'[f], NEW i \in DOMAIN queue'
               PROVE  queue'[i].slot # f
    BY DEF FenceMeansDone
  <2>1. CASE inFlight[f]
    BY <1>3, <2>1 DEF SlotInv, FenceMeansDone
  <2>2. CASE b.fence /\ f = b.slot
    <3>1. 1 < i + 1 /\ i + 1 \in DOMAIN queue
      BY <1>3
    <3>2. QED
      BY <1>2, <1>3, <2>2, <3>1 DEF SlotInv, FenceIsLast
  <2>3. QED
    BY <1>4, <2>1, <2>2
<1>7. FenceIsLast'
  <2> SUFFICES ASSUME NEW i \in DOMAIN queue', NEW j \in DOMAIN queue', i < j, queue'[i].fence
               PROVE  queue'[j].slot # queue'[i].slot
    BY DEF FenceIsLast
  <2>1. i + 1 < j + 1
    BY <1>3
  <2>2. QED
    BY <1>3, <2>1 DEF SlotInv, FenceIsLast
<1>8. FenceReserved'
  <2> SUFFICES ASSUME pc = "submit"
               PROVE  /\ ~inFlight'[cur]
                      /\ \A i \in DOMAIN queue' : queue'[i].slot = cur => ~queue'[i].fence
    BY <1>1 DEF FenceReserved
  <2>1. ~inFlight[cur] /\ \A i \in DOMAIN queue : queue[i].slot = cur => ~queue[i].fence
    BY DEF SlotInv, FenceReserved
  <2>2. QED
    BY <1>1, <1>2, <1>3, <1>4, <2>1
<1>9. FenceStays'
  BY <1>1, <1>5 DEF SlotInv, FenceStays
<1>10. EarlierViews'
  <2>1. \A v \in Views : (NextView(v)' <=> NextView(v)) /\ ViewSlot(v)' = ViewSlot(v)
    BY <1>1 DEF NextView, ViewSlot, RenderableViews, SwapchainIndex
  <2>2. QED
    BY <1>1, <1>3, <2>1 DEF SlotInv, EarlierViews
<1>11. QED
  BY <1>6, <1>7, <1>8, <1>9, <1>10 DEF SlotInv

\* Submitting a view: the fence goes with the last one.
LEMMA SlotInvSubmit ==
  ASSUME TypeOK, SlotInv, NEW e \in Outcomes.submit, SubmitView(e)
  PROVE  SlotInv'
<1> DEFINE Sent(v) == [slot |-> cur, view |-> ViewSlot(v), swapchain |-> SwapchainIndex(v),
                       image |-> acquired[SwapchainIndex(v)],
                       fence |-> multiview \/ ViewOwnsInFlightFence(v), uploaded |-> ~recorded']
<1>1. /\ pc = "submit" /\ queue \in Seq(Batch) /\ cur \in Slots
      /\ ~inFlight[cur]
      /\ \A i \in DOMAIN queue : queue[i].slot = cur => ~queue[i].fence
      /\ UNCHANGED <<cur, multiview, count, inFlight>>
  BY DEF TypeOK, SubmitView, SlotInv, FenceReserved
<1>2. PICK v \in Views :
        /\ NextView(v)
        /\ IF e = "Ok"
           THEN /\ queue' = Append(queue, Sent(v))
                /\ pc' = IF NoViewLeft(v) THEN AfterSubmit ELSE "submit"
                /\ k' = IF NoViewLeft(v) THEN 0 ELSE v + 1
           ELSE Return(e) /\ UNCHANGED <<queue, k>>
  BY DEF SubmitView
<1>3. CASE e # "Ok"
  <2>1. pc' = "stopped" /\ UNCHANGED queue
    BY <1>2, <1>3, OutcomesAreErrors DEF Return
  <2>2. QED
    BY <1>1, <2>1, SlotInvKept
<1>4. CASE e = "Ok"
  <2>1. /\ Len(queue) \in Nat
        /\ DOMAIN queue = 1 .. Len(queue)
        /\ DOMAIN queue' = 1 .. Len(queue) + 1
        /\ \A i \in DOMAIN queue : queue'[i] = queue[i]
        /\ queue'[Len(queue) + 1] = Sent(v)
    BY <1>1, <1>2, <1>4
  <2>2. \A i \in DOMAIN queue' :
           \/ i \in DOMAIN queue /\ queue'[i] = queue[i]
           \/ i = Len(queue) + 1 /\ queue'[i] = Sent(v)
    BY <2>1
  <2>3. /\ Sent(v).slot = cur /\ Sent(v).view = ViewSlot(v)
        /\ Sent(v).fence = (multiview \/ ViewOwnsInFlightFence(v))
    OBVIOUS
  <2>4. FenceMeansDone'
    BY <1>1, <2>2, <2>3 DEF SlotInv, FenceMeansDone
  <2>5. FenceIsLast'
    <3> SUFFICES ASSUME NEW i \in DOMAIN queue', NEW j \in DOMAIN queue', i < j, queue'[i].fence
                 PROVE  queue'[j].slot # queue'[i].slot
      BY DEF FenceIsLast
    <3>1. i \in DOMAIN queue /\ queue'[i] = queue[i]
      BY <2>1, <2>2
    <3>2. CASE j \in DOMAIN queue
      BY <2>1, <3>1, <3>2 DEF SlotInv, FenceIsLast
    <3>3. CASE j = Len(queue) + 1
      BY <1>1, <2>1, <2>3, <3>1, <3>3
    <3>4. QED
      BY <2>2, <3>2, <3>3
  <2>6. pc' = "submit" => ~Sent(v).fence
    BY <1>2, <1>4, <2>3 DEF NoViewLeft, ViewOwnsInFlightFence, AfterSubmit
  <2>7. FenceReserved'
    BY <1>1, <2>2, <2>6 DEF FenceReserved
  <2>8. FenceStays'
    BY <1>2, <1>4 DEF FenceStays, AfterSubmit
  <2>9. EarlierViews'
    <3> SUFFICES ASSUME pc' = "submit", NEW i \in DOMAIN queue', queue'[i].slot = cur,
                        NEW u \in Views, NextView(u)'
                 PROVE  queue'[i].view < ViewSlot(u)
      <4>1. \A w \in Views : ViewSlot(w)' = ViewSlot(w)
        BY <1>1 DEF ViewSlot, RenderableViews, SwapchainIndex
      <4>2. QED
        BY <1>1, <4>1 DEF EarlierViews
    <3>1. k' = v + 1
      BY <1>2, <1>4 DEF AfterSubmit
    <3>2. u >= k' /\ v \in RenderableViews
      BY <1>2 DEF NextView
    <3>3. v < u
      BY <3>1, <3>2, ShapeAssumption DEF Views
    <3>4. ViewSlot(v) < ViewSlot(u)
      BY <3>2, <3>3, ViewSlotIncreases
    <3>5. CASE i \in DOMAIN queue /\ queue'[i] = queue[i]
      <4>1. queue[i].view < ViewSlot(v)
        BY <1>1, <1>2, <3>5 DEF SlotInv, EarlierViews
      <4>2. queue[i].view \in Nat /\ ViewSlot(v) \in Nat /\ ViewSlot(u) \in Nat
        <5>1. queue[i] \in Batch
          BY <1>1, <3>5, ElementOfSeq, <2>1
        <5>2. ViewSlot(v) \in Views /\ ViewSlot(u) \in Views
          BY ViewSlotType
        <5>3. QED
          BY <5>1, <5>2, ShapeAssumption DEF Batch, Views
      <4>3. QED
        BY <3>4, <3>5, <4>1, <4>2
    <3>6. CASE queue'[i] = Sent(v)
      BY <2>3, <3>4, <3>6
    <3>7. QED
      BY <2>2, <3>5, <3>6
  <2>10. QED
    BY <2>4, <2>5, <2>7, <2>8, <2>9 DEF SlotInv
<1>5. QED
  BY <1>3, <1>4

\* Collecting the views resets the fence of a slot that has no draw left.
LEMMA SlotInvCollect ==
  ASSUME TypeOK, SlotInv, CollectViews
  PROVE  SlotInv'
<1>1. /\ inFlight[cur] /\ cur \in Slots /\ inFlight \in [Slots -> BOOLEAN]
      /\ UNCHANGED <<cur, queue>>
      /\ pc' \notin {"acquire", "collect"}
  BY DEF TypeOK, CollectViews, SlotInv, FenceStays, Return
<1>2. \A i \in DOMAIN queue : queue[i].slot # cur
  BY <1>1 DEF SlotInv, FenceMeansDone
<1>3. \A f \in Slots : inFlight'[f] => inFlight[f]
  BY <1>1 DEF CollectViews
<1>4. pc' = "submit" => ~inFlight'[cur]
  BY <1>1 DEF CollectViews, Return
<1>5. QED
  BY <1>1, <1>2, <1>3, <1>4
  DEF SlotInv, FenceMeansDone, FenceIsLast, FenceReserved, FenceStays, EarlierViews

LEMMA SlotInvStep == TypeOK /\ SlotInv /\ [Next]_vars => SlotInv'
<1> SUFFICES ASSUME TypeOK, SlotInv, [Next]_vars
             PROVE  SlotInv'
  OBVIOUS
<1>1. CASE Consumer
  BY <1>1, SlotInvKept
  DEF Consumer, FramebufferSizeCallback, EditMaterial, AddMesh, BeginFrame, Return, gpuVars
<1>2. CASE CheckResized
  BY <1>2, SlotInvKept DEF CheckResized, gpuVars
<1>3. CASE RecreateSwapchain
  BY <1>3, SlotInvKept DEF RecreateSwapchain, Return
<1>4. ASSUME NEW e \in Outcomes.wait, WaitInFlightFence(e)
      PROVE  SlotInv'
  <2>1. /\ UNCHANGED <<queue, inFlight, cur>> /\ pc' # "submit"
        /\ pc' \in {"acquire", "collect"} => inFlight[cur]
    BY <1>4, OutcomesAreErrors DEF WaitInFlightFence, Return, gpuVars
  <2>2. QED
    BY <2>1, SlotInvKept
<1>5. ASSUME NEW e \in Outcomes.acquire, AcquireImage(e)
      PROVE  SlotInv'
  <2>1. inFlight[cur] /\ pc' # "submit" /\ UNCHANGED <<queue, inFlight, cur>>
    BY <1>5 DEF AcquireImage, Return, SlotInv, FenceStays
  <2>2. QED
    BY <2>1, SlotInvKept
<1>6. CASE EndAcquire
  BY <1>6, SlotInvKept DEF EndAcquire, gpuVars, SlotInv, FenceStays
<1>7. CASE CollectViews
  BY <1>7, SlotInvCollect
<1>8. ASSUME NEW e \in Outcomes.submit, SubmitView(e)
      PROVE  SlotInv'
  BY <1>8, SlotInvSubmit
<1>9. ASSUME NEW e \in Outcomes.wait, WaitRenderComplete(e)
      PROVE  SlotInv'
  BY <1>9, SlotInvKept DEF WaitRenderComplete, Return, gpuVars
<1>10. ASSUME NEW e \in Outcomes.present, PresentImage(e)
       PROVE  SlotInv'
  <2>1. pc' \notin {"submit", "acquire", "collect"} /\ UNCHANGED <<queue, inFlight, cur>>
    BY <1>10 DEF PresentImage, Return
  <2>2. QED
    BY <2>1, SlotInvKept
<1>11. ASSUME NEW e \in Outcomes.postprocess, EndFrame(e)
       PROVE  SlotInv'
  <2>1. pc' \in {"idle", "stopped"} /\ UNCHANGED <<queue, inFlight>>
    BY <1>11 DEF EndFrame, Return, gpuVars
  <2>2. QED
    BY <2>1
    DEF SlotInv, FenceMeansDone, FenceIsLast, FenceReserved, FenceStays, EarlierViews
<1>12. CASE CompleteBatch
  BY <1>12, SlotInvComplete
<1>13. CASE Display \/ UNCHANGED vars
  <2>1. UNCHANGED <<pc, cur, k, multiview, count, queue, inFlight>>
    BY <1>13
    DEF Display, SignalImageAvailable, DisplayImage, RetireImage, vars, cpuVars, gpuVars
  <2>2. \A v \in Views : (NextView(v)' <=> NextView(v)) /\ ViewSlot(v)' = ViewSlot(v)
    BY <2>1 DEF NextView, ViewSlot, RenderableViews, SwapchainIndex
  <2>3. QED
    BY <2>1, <2>2
    DEF SlotInv, FenceMeansDone, FenceIsLast, FenceReserved, FenceStays, EarlierViews
<1>14. QED
  BY <1>1, <1>2, <1>3, <1>4, <1>5, <1>6, <1>7, <1>8, <1>9, <1>10, <1>11, <1>12, <1>13
  DEF Next, DrawFrameStep

\* Renderer.cpp:336: the buffers of a slot are written only after every draw that
\* read them; and of two views of a frame, only by the later one.
THEOREM SlotFreeAlways == Spec => []SlotFree
<1>1. TypeOK /\ SlotInv /\ [Next]_vars => (TypeOK /\ SlotInv)'
  BY TypeStep, SlotInvStep
<1>2. Init => TypeOK /\ SlotInv
  BY TypeInit, SlotInvInit
<1>3. TypeOK /\ SlotInv => SlotFree
  BY SlotInvImpliesSlotFree
<1>4. QED
  BY <1>1, <1>2, <1>3, PTL DEF Spec

-----------------------------------------------------------------------------
(* A fence that is not signaled is always going to be.                     *)

\* Steps that keep the queue and the fences, and do not leave the submit loop.
LEMMA FenceOwnedKept ==
  ASSUME FenceOwned, UNCHANGED <<queue, inFlight>>,
         pc = "submit" => cur' = cur /\ pc' \in {"submit", "stopped"},
         pc # "stopped"
  PROVE  FenceOwned'
BY DEF FenceOwned, BatchesOf

\* Submitting the last view, which carries the fence, ends the loop.
LEMMA FenceOwnedSubmit ==
  ASSUME TypeOK, FenceOwned, NEW e \in Outcomes.submit, SubmitView(e)
  PROVE  FenceOwned'
<1>1. /\ pc = "submit" /\ queue \in Seq(Batch) /\ cur \in Slots
      /\ UNCHANGED <<cur, multiview, count, inFlight>>
  BY DEF TypeOK, SubmitView
<1>2. CASE e # "Ok"
  <2>1. pc' = "stopped"
    BY <1>2, OutcomesAreErrors DEF SubmitView, Return
  <2>2. QED
    BY <2>1 DEF FenceOwned
<1>3. CASE e = "Ok"
  <2>0. PICK v \in Views :
          \E b : /\ NextView(v)
                 /\ queue' = Append(queue, b)
                 /\ b.slot = cur /\ b.fence = (multiview \/ ViewOwnsInFlightFence(v))
                 /\ pc' = IF NoViewLeft(v) THEN AfterSubmit ELSE "submit"
    BY <1>3 DEF SubmitView
  <2>1. PICK b :
          /\ NextView(v)
          /\ queue' = Append(queue, b)
          /\ b.slot = cur /\ b.fence = (multiview \/ ViewOwnsInFlightFence(v))
          /\ pc' = IF NoViewLeft(v) THEN AfterSubmit ELSE "submit"
    BY <2>0
  <2>2. /\ Len(queue) \in Nat
        /\ DOMAIN queue = 1 .. Len(queue)
        /\ DOMAIN queue' = 1 .. Len(queue) + 1
        /\ \A i \in DOMAIN queue : queue'[i] = queue[i]
        /\ queue'[Len(queue) + 1] = b
    BY <1>1, <2>1
  <2>3. SUFFICES ASSUME NEW f \in Slots, ~inFlight'[f]
                 PROVE  \/ \E i \in DOMAIN queue' : queue'[i].slot = f /\ queue'[i].fence
                        \/ f = cur /\ pc' = "submit"
    BY <1>1 DEF FenceOwned, BatchesOf
  <2>4. CASE f = cur
    <3>1. pc' = "submit" \/ b.fence
      BY <2>1 DEF NoViewLeft, ViewOwnsInFlightFence
    <3>2. Len(queue) + 1 \in DOMAIN queue'
      BY <2>2
    <3>3. QED
      BY <2>1, <2>2, <2>4, <3>1, <3>2
  <2>5. CASE f # cur
    <3>1. PICK i \in DOMAIN queue : queue[i].slot = f /\ queue[i].fence
      BY <1>1, <2>3, <2>5 DEF FenceOwned, BatchesOf
    <3>2. i \in DOMAIN queue' /\ queue'[i] = queue[i]
      BY <2>2
    <3>3. QED
      BY <3>1, <3>2
  <2>6. QED
    BY <2>4, <2>5
<1>4. QED
  BY <1>2, <1>3

\* The draw that carries a fence leaves the queue only by signaling it.
LEMMA FenceOwnedComplete ==
  ASSUME TypeOK, FenceOwned, CompleteBatch
  PROVE  FenceOwned'
<1> DEFINE b == Head(queue)
<1>1. /\ queue # <<>> /\ queue \in Seq(Batch) /\ inFlight \in [Slots -> BOOLEAN]
      /\ UNCHANGED <<pc, cur>>
  BY DEF TypeOK, CompleteBatch, cpuVars
<1>2. /\ b \in Batch /\ b = queue[1]
      /\ Len(queue) \in Nat
      /\ queue' \in Seq(Batch) /\ Len(queue') = Len(queue) - 1
      /\ \A i \in 1 .. Len(queue') : queue'[i] = queue[i + 1]
  BY <1>1, HeadTailProperties DEF CompleteBatch
<1>3. SUFFICES ASSUME NEW f \in Slots, ~inFlight'[f]
               PROVE  \/ \E i \in DOMAIN queue' : queue'[i].slot = f /\ queue'[i].fence
                      \/ f = cur /\ pc = "submit"
                      \/ pc = "stopped"
  BY <1>1 DEF FenceOwned, BatchesOf
<1>4. ~inFlight[f] /\ ~(b.fence /\ b.slot = f)
  BY <1>1, <1>2, <1>3 DEF CompleteBatch, Batch
<1>5. CASE \E i \in DOMAIN queue : queue[i].slot = f /\ queue[i].fence
  <2>1. PICK i \in DOMAIN queue : queue[i].slot = f /\ queue[i].fence
    BY <1>5
  <2>2. i # 1 /\ i \in 1 .. Len(queue)
    BY <1>1, <1>2, <1>4, <2>1
  <2>3. i - 1 \in 1 .. Len(queue') /\ queue'[i - 1] = queue[i]
    BY <1>2, <2>2
  <2>4. DOMAIN queue' = 1 .. Len(queue')
    BY <1>2
  <2>5. QED
    BY <2>1, <2>3, <2>4
<1>6. CASE (f = cur /\ pc = "submit") \/ pc = "stopped"
  BY <1>6
<1>7. QED
  BY <1>4, <1>5, <1>6 DEF FenceOwned, BatchesOf

LEMMA FenceOwnedStep == TypeOK /\ FenceOwned /\ [Next]_vars => FenceOwned'
<1> SUFFICES ASSUME TypeOK, FenceOwned, [Next]_vars
             PROVE  FenceOwned'
  OBVIOUS
<1>1. CASE Consumer
  BY <1>1, FenceOwnedKept
  DEF Consumer, FramebufferSizeCallback, EditMaterial, AddMesh, BeginFrame, gpuVars
<1>2. CASE CheckResized \/ RecreateSwapchain \/ EndAcquire
  BY <1>2, FenceOwnedKept DEF CheckResized, RecreateSwapchain, EndAcquire, gpuVars
<1>11. ASSUME NEW e \in Outcomes.wait, WaitInFlightFence(e) \/ WaitRenderComplete(e)
       PROVE  FenceOwned'
  <2>1. UNCHANGED <<queue, inFlight>> /\ pc \notin {"submit", "stopped"}
    BY <1>11 DEF WaitInFlightFence, WaitRenderComplete, gpuVars
  <2>2. QED
    BY <2>1, FenceOwnedKept
<1>3. ASSUME NEW e \in Outcomes.acquire, AcquireImage(e)
      PROVE  FenceOwned'
  <2>1. pc = "acquire" /\ UNCHANGED <<queue, inFlight>>
    BY <1>3 DEF AcquireImage
  <2>2. QED
    BY <2>1, FenceOwnedKept
<1>4. CASE CollectViews
  <2>1. /\ pc = "collect" /\ UNCHANGED <<queue, cur>>
        /\ \/ UNCHANGED inFlight
           \/ /\ inFlight' = [inFlight EXCEPT ![cur] = FALSE]
              /\ pc' \in {"submit", "stopped"}
    BY <1>4 DEF CollectViews, Return
  <2>2. QED
    BY <2>1 DEF TypeOK, FenceOwned, BatchesOf
<1>5. ASSUME NEW e \in Outcomes.submit, SubmitView(e)
      PROVE  FenceOwned'
  BY <1>5, FenceOwnedSubmit
<1>6. ASSUME NEW e \in Outcomes.present, PresentImage(e)
      PROVE  FenceOwned'
  <2>1. pc = "present" /\ UNCHANGED <<queue, inFlight>>
    BY <1>6 DEF PresentImage
  <2>2. QED
    BY <2>1, FenceOwnedKept
<1>7. ASSUME NEW e \in Outcomes.postprocess, EndFrame(e)
      PROVE  FenceOwned'
  BY <1>7, FenceOwnedKept DEF EndFrame, gpuVars
<1>8. CASE CompleteBatch
  BY <1>8, FenceOwnedComplete
<1>9. CASE Display \/ UNCHANGED vars
  <2>1. UNCHANGED <<pc, cur, queue, inFlight>>
    BY <1>9
    DEF Display, SignalImageAvailable, DisplayImage, RetireImage, vars, cpuVars, gpuVars
  <2>2. QED
    BY <2>1 DEF FenceOwned, BatchesOf
<1>10. QED
  BY <1>1, <1>2, <1>3, <1>4, <1>5, <1>6, <1>7, <1>8, <1>9, <1>11
  DEF Next, DrawFrameStep

\* Renderer.cpp:339: no early return leaves a fence that nothing will signal.
THEOREM FenceOwnedAlways == Spec => []FenceOwned
<1>1. Init => FenceOwned
  BY DEF Init, FenceOwned
<1>2. TypeOK /\ FenceOwned /\ [Next]_vars => (TypeOK /\ FenceOwned)'
  BY TypeStep, FenceOwnedStep
<1>3. QED
  BY TypeInit, <1>1, <1>2, PTL DEF Spec
-----------------------------------------------------------------------------
(* The targets of the draws stay.                                          *)
(*                                                                         *)
(* The OpenXR compositor takes an image back at once, after a wait that    *)
(* leaves the queue empty.  The desktop presents without waiting: an image *)
(* is displayed when a semaphore of its slot is signaled.  The signal may  *)
(* be the one of an earlier draw of that slot, and then the present of     *)
(* that draw is still ahead in the queue of the presentation engine.       *)

\* From its acquire to the call that hands it on, the image of a swapchain is
\* the call's.
Holding(s) ==
  \/ pc = "acquire" /\ s < k
  \/ pc \in {"collect", "submit"} /\ s < count
  \/ UsesImageAvailableSemaphore /\ pc = "present" /\ k = 0 /\ s < count
Held == \A s \in Swapchains : Holding(s) => images[s][acquired[s]] = "acquired"

\* OpenXR: draws are queued only from their submission to the wait that ends
\* the frame, and belong to its slot.
Drained ==
  /\ presents = <<>> /\ ~resized
  /\ queue # <<>> => pc \in {"submit", "renderWait", "stopped"}
  /\ pc \in {"submit", "renderWait"} => \A i \in DOMAIN queue : queue[i].slot = cur

\* A desktop call submits one draw, with the fence, to its one swapchain.
OneDraw ==
  /\ count = 1 /\ pc # "renderWait"
  /\ \A i \in DOMAIN queue : queue[i].fence /\ queue[i].swapchain = 0
  /\ \A x \in DOMAIN presents : presents[x].swapchain = 0

\* The image of the call is the target of no draw but its own.
OwnDraw ==
  Holding(0) =>
    \A i \in DOMAIN queue :
      IF pc = "present" THEN queue[i].slot = cur <=> queue[i].image = acquired[0]
      ELSE queue[i].image # acquired[0]

\* Presents wait with different images.
PresentsHeld ==
  \A x \in DOMAIN presents :
    /\ images[0][presents[x].image] = "presenting"
    /\ \A y \in DOMAIN presents : presents[x].image = presents[y].image => x = y

\* A queued draw is presented by the last present of its slot.
LastPresent ==
  \A i \in DOMAIN queue, x \in DOMAIN presents :
    presents[x].image = queue[i].image =>
      /\ presents[x].slot = queue[i].slot
      /\ \A y \in DOMAIN presents : x < y => presents[y].slot # queue[i].slot

\* A semaphore signaled while a draw of its slot is queued is the one an
\* earlier present waits for.
SignalEarlier ==
  \A i \in DOMAIN queue :
    renderFinished[queue[i].slot][0] = "signaled" =>
      \E x \in DOMAIN presents :
        presents[x].slot = queue[i].slot /\ presents[x].image # queue[i].image

\* Every signaled semaphore and every queued draw has a present that waits,
\* or that the call is about to make.
Presenting(f) == f = cur /\ pc = "present" /\ k = 0
SignalPresented ==
  \A f \in Slots :
    renderFinished[f][0] = "signaled" =>
      (\E x \in DOMAIN presents : presents[x].slot = f) \/ Presenting(f) \/ pc = "stopped"
DrawPresented ==
  \A i \in DOMAIN queue :
    \/ \E x \in DOMAIN presents :
         presents[x].slot = queue[i].slot /\ presents[x].image = queue[i].image
    \/ Presenting(queue[i].slot) \/ pc = "stopped"

DesktopInv ==
  /\ OneDraw /\ OwnDraw /\ PresentsHeld /\ LastPresent /\ SignalEarlier
  /\ SignalPresented /\ DrawPresented

TargetInv ==
  /\ Held /\ DrawTargetsLive
  /\ IF UsesImageAvailableSemaphore THEN DesktopInv ELSE Drained

LEMMA TargetInit == Init => TargetInv
<1> SUFFICES ASSUME Init PROVE TargetInv
  OBVIOUS
<1>1. /\ pc = "idle" /\ queue = <<>> /\ presents = <<>> /\ resized = FALSE
      /\ \A f \in Slots : renderFinished[f][0] = "unsignaled"
      /\ UsesImageAvailableSemaphore => count = 1
  BY ShapeAssumption DEF Init, SwapchainCounts, Swapchains
<1>2. DOMAIN queue = {} /\ DOMAIN presents = {}
  BY <1>1
<1> QED
  BY <1>1, <1>2
  DEF TargetInv, Holding, Held, DrawTargetsLive, Drained, DesktopInv, OneDraw, OwnDraw,
      PresentsHeld, LastPresent, SignalEarlier, SignalPresented, DrawPresented, Presenting

\* The swapchains and what they hold.
LEMMA HoldingType ==
  ASSUME TypeOK
  PROVE  /\ k \in Nat /\ count \in Nat /\ cur \in Slots
         /\ 0 \in Swapchains /\ Swapchains \subseteq Nat
         /\ \A s \in 0 .. count - 1 : s \in Swapchains
         /\ \A s \in Swapchains : acquired[s] \in Images
BY ShapeAssumption DEF TypeOK, Swapchains

\* A queue less its head.
LEMMA TailIndices ==
  ASSUME NEW S, NEW q \in Seq(S), q # <<>>
  PROVE  /\ Head(q) = q[1] /\ 1 \in DOMAIN q /\ Head(q) \in S
         /\ \A i \in DOMAIN Tail(q) : i + 1 \in DOMAIN q /\ 1 < i + 1 /\ Tail(q)[i] = q[i + 1]
         /\ \A j \in DOMAIN q : j = 1 \/ (j - 1 \in DOMAIN Tail(q) /\ Tail(q)[j - 1] = q[j])
<1>1. /\ Len(q) \in Nat \ {0} /\ DOMAIN q = 1 .. Len(q)
      /\ Tail(q) \in Seq(S) /\ Len(Tail(q)) = Len(q) - 1
      /\ \A i \in 1 .. Len(Tail(q)) : Tail(q)[i] = q[i + 1]
      /\ Head(q) = q[1] /\ Head(q) \in S
  BY HeadTailProperties, EmptySeq
<1>2. DOMAIN Tail(q) = 1 .. Len(q) - 1
  BY <1>1
<1> QED BY <1>1, <1>2

\* A queue with one more element.
LEMMA AppendIndices ==
  ASSUME NEW S, NEW q \in Seq(S), NEW b
  PROVE  /\ Len(q) \in Nat /\ DOMAIN q = 1 .. Len(q)
         /\ DOMAIN Append(q, b) = 1 .. Len(q) + 1
         /\ \A i \in DOMAIN q : Append(q, b)[i] = q[i]
         /\ Append(q, b)[Len(q) + 1] = b
OBVIOUS

\* The draw a submission queues: for the image of its swapchain.
LEMMA Submission ==
  ASSUME TypeOK, NEW e \in Outcomes.submit, SubmitView(e)
  PROVE  \/ pc' = "stopped" /\ UNCHANGED <<queue, k>>
         \/ \E v \in RenderableViews, b \in Batch :
              /\ NextView(v) /\ queue' = Append(queue, b)
              /\ b.slot = cur /\ b.swapchain = SwapchainIndex(v)
              /\ b.image = acquired[SwapchainIndex(v)]
              /\ b.fence = (multiview \/ ViewOwnsInFlightFence(v))
              /\ pc' = IF NoViewLeft(v) THEN AfterSubmit ELSE "submit"
              /\ k' = IF NoViewLeft(v) THEN 0 ELSE v + 1
<1>1. CASE e # "Ok"
  BY <1>1, OutcomesAreErrors DEF SubmitView, Return
<1>2. CASE e = "Ok"
  <2>1. PICK v \in Views :
          /\ NextView(v)
          /\ queue' = Append(queue,
                [slot |-> cur, view |-> ViewSlot(v), swapchain |-> SwapchainIndex(v),
                 image |-> acquired[SwapchainIndex(v)],
                 fence |-> multiview \/ ViewOwnsInFlightFence(v), uploaded |-> ~recorded'])
          /\ pc' = IF NoViewLeft(v) THEN AfterSubmit ELSE "submit"
          /\ k' = IF NoViewLeft(v) THEN 0 ELSE v + 1
    BY <1>2 DEF SubmitView
  <2> DEFINE b == [slot |-> cur, view |-> ViewSlot(v), swapchain |-> SwapchainIndex(v),
                   image |-> acquired[SwapchainIndex(v)],
                   fence |-> multiview \/ ViewOwnsInFlightFence(v), uploaded |-> ~recorded']
  <2>2. ViewSlot(v) \in Views /\ SwapchainIndex(v) \in Swapchains
    BY ViewSlotType, ShapeAssumption DEF Views, Swapchains, SwapchainIndex
  <2>3. (multiview \/ ViewOwnsInFlightFence(v)) \in BOOLEAN /\ (~recorded') \in BOOLEAN
    OBVIOUS
  <2>4. b \in Batch
    BY <2>2, <2>3 DEF TypeOK, Batch
  <2>5. v \in RenderableViews
    BY <2>1 DEF NextView
  <2>6. /\ b.slot = cur /\ b.swapchain = SwapchainIndex(v)
        /\ b.image = acquired[SwapchainIndex(v)]
        /\ b.fence = (multiview \/ ViewOwnsInFlightFence(v))
    OBVIOUS
  <2> HIDE DEF b
  <2> QED BY <2>1, <2>4, <2>5, <2>6 DEF b
<1> QED BY <1>1, <1>2

\* What the call holds it has acquired, and gives away only by presenting it.
LEMMA HeldStep ==
  ASSUME TypeOK, TargetInv, [Next]_vars
  PROVE  Held'
<1> USE DEF Held
<1>0. Held /\ k \in Nat /\ count \in Nat /\ Swapchains \subseteq Nat
  BY HoldingType DEF TargetInv
<1>1. CASE Consumer
  BY <1>0, <1>1 DEF Consumer, FramebufferSizeCallback, EditMaterial, AddMesh, BeginFrame, Return, Holding
<1>2. CASE CheckResized \/ RecreateSwapchain
  BY <1>0, <1>2 DEF CheckResized, RecreateSwapchain, Return, Holding
<1>3. ASSUME NEW e \in Outcomes.wait, WaitInFlightFence(e) PROVE Held'
  BY <1>0, <1>3 DEF WaitInFlightFence, Return, Holding
<1>4. ASSUME NEW e \in Outcomes.acquire, AcquireImage(e) PROVE Held'
  <2>1. pc = "acquire" /\ k < count /\ UNCHANGED count
    BY <1>4 DEF AcquireImage
  <2>2. CASE e = "Ok"
    <3>1. PICK i \in Images : /\ images' = [images EXCEPT ![k][i] = "acquired"]
                              /\ acquired' = [acquired EXCEPT ![k] = i]
                              /\ pc' = pc /\ k' = k + 1
      BY <1>4, <2>2 DEF AcquireImage
    <3>2. k \in Swapchains /\ images \in [Swapchains -> [Images -> ImageStates]]
          /\ acquired \in [Swapchains -> Images]
      BY <2>1, HoldingType DEF TypeOK, ImageStates
    <3>3. images'[k][acquired'[k]] = "acquired"
      BY <3>1, <3>2
    <3>4. ASSUME NEW s \in Swapchains, s < k PROVE images'[s][acquired'[s]] = "acquired"
      BY <1>0, <2>1, <3>1, <3>2, <3>4 DEF Holding
    <3>5. ASSUME NEW s \in Swapchains, Holding(s)' PROVE s < k \/ s = k
      BY <1>0, <2>1, <3>1, <3>5 DEF Holding
    <3> QED BY <3>3, <3>4, <3>5
  <2>3. CASE e # "Ok"
    <3>1. pc' \notin {"acquire", "collect", "submit", "present"}
      BY <1>4, <2>3 DEF AcquireImage, Return
    <3> QED BY <3>1 DEF Holding
  <2> QED BY <2>2, <2>3
<1>5. CASE EndAcquire
  BY <1>0, <1>5 DEF EndAcquire, Holding, gpuVars
<1>6. CASE CollectViews
  BY <1>0, <1>6 DEF CollectViews, Return, Holding
<1>7. ASSUME NEW e \in Outcomes.submit, SubmitView(e) PROVE Held'
  <2>1. /\ pc = "submit" /\ UNCHANGED <<count, images, acquired>>
        /\ pc' \notin {"acquire", "collect"}
    BY <1>7 DEF SubmitView, Return, AfterSubmit
  <2> QED BY <1>0, <2>1 DEF Holding
<1>8. ASSUME NEW e \in Outcomes.wait, WaitRenderComplete(e) PROVE Held'
  BY <1>0, <1>8 DEF WaitRenderComplete, Return, Holding, TargetInv, DesktopInv, OneDraw, gpuVars
<1>9. ASSUME NEW e \in Outcomes.present, PresentImage(e) PROVE Held'
  <2>1. CASE e = "Ok"
    <3>1. pc' = "present" /\ k' = k + 1
      BY <1>9, <2>1 DEF PresentImage
    <3> QED BY <1>0, <3>1 DEF Holding
  <2>2. CASE e # "Ok"
    <3>1. pc' \notin {"acquire", "collect", "submit", "present"}
      BY <1>9, <2>2 DEF PresentImage, Return
    <3> QED BY <3>1 DEF Holding
  <2> QED BY <2>1, <2>2
<1>10. ASSUME NEW e \in Outcomes.postprocess, EndFrame(e) PROVE Held'
  BY <1>0, <1>10 DEF EndFrame, Return, Holding
<1>11. CASE CompleteBatch
  BY <1>0, <1>11 DEF CompleteBatch, Holding, cpuVars
<1>12. ASSUME NEW f \in Slots, NEW s \in Swapchains, SignalImageAvailable(f, s) PROVE Held'
  BY <1>0, <1>12 DEF SignalImageAvailable, Holding, cpuVars
<1>13. CASE DisplayImage
  <2> DEFINE p == Head(presents)
  <2>1. presents \in Seq(Request) /\ presents # <<>> /\ UNCHANGED cpuVars
    BY <1>13 DEF DisplayImage, TypeOK, Request
  <2>2. p = presents[1] /\ 1 \in DOMAIN presents /\ p \in Request
    BY <2>1, TailIndices
  <2>3. UsesImageAvailableSemaphore
    BY <2>1 DEF TargetInv, Drained
  <2>4. p.swapchain = 0 /\ images[0][p.image] = "presenting"
    BY <2>2, <2>3 DEF TargetInv, DesktopInv, OneDraw, PresentsHeld
  <2>5. images' = [images EXCEPT ![0][p.image] = "displayed"]
    BY <1>13, <2>4 DEF DisplayImage
  <2>6. ASSUME NEW s \in Swapchains, images[s][acquired[s]] = "acquired"
        PROVE  images'[s][acquired[s]] = "acquired"
    BY <2>2, <2>4, <2>5, <2>6 DEF TypeOK, Request
  <2> QED BY <1>0, <2>1, <2>6 DEF cpuVars, Holding
<1>14. ASSUME NEW t \in Swapchains, NEW i \in Images, RetireImage(t, i) PROVE Held'
  <2>1. ASSUME NEW s \in Swapchains, images[s][acquired[s]] = "acquired"
        PROVE  images'[s][acquired[s]] = "acquired"
    BY <1>14, <2>1 DEF RetireImage, TypeOK
  <2> QED BY <1>0, <1>14, <2>1 DEF RetireImage, cpuVars, Holding
<1>15. CASE UNCHANGED vars
  BY <1>0, <1>15 DEF vars, cpuVars, gpuVars, Holding
<1> QED
  BY <1>1, <1>2, <1>3, <1>4, <1>5, <1>6, <1>7, <1>8, <1>9, <1>10, <1>11, <1>12, <1>13, <1>14, <1>15
  DEF Next, DrawFrameStep, Display

\* The wait at the end of an OpenXR frame finds the fence signaled, so that no
\* draw of the slot is left, and there are no others.
LEMMA DrainedStep ==
  ASSUME TypeOK, SlotInv, TargetInv, ~UsesImageAvailableSemaphore, [Next]_vars
  PROVE  Drained'
<1>0. Drained /\ queue \in Seq(Batch) /\ cur \in Slots
  BY DEF TargetInv, TypeOK
<1>1. CASE Consumer \/ CheckResized \/ RecreateSwapchain \/ EndAcquire
  BY <1>0, <1>1
  DEF Consumer, FramebufferSizeCallback, EditMaterial, AddMesh, BeginFrame, CheckResized,
      RecreateSwapchain, EndAcquire, Return, Drained, gpuVars
<1>2. ASSUME NEW e \in Outcomes.wait, WaitInFlightFence(e) PROVE Drained'
  BY <1>0, <1>2 DEF WaitInFlightFence, Return, Drained, gpuVars
<1>3. ASSUME NEW e \in Outcomes.acquire, AcquireImage(e) PROVE Drained'
  BY <1>0, <1>3 DEF AcquireImage, Return, Drained
<1>4. CASE CollectViews
  <2>1. queue = <<>> /\ DOMAIN queue = {} /\ UNCHANGED <<queue, presents, resized>>
    BY <1>0, <1>4 DEF CollectViews, Drained
  <2> QED BY <1>0, <2>1 DEF Drained
<1>5. ASSUME NEW e \in Outcomes.submit, SubmitView(e) PROVE Drained'
  <2>1. pc = "submit" /\ UNCHANGED <<presents, resized, cur>>
    BY <1>5 DEF SubmitView
  <2>2. CASE pc' = "stopped" /\ UNCHANGED <<queue, k>>
    BY <1>0, <2>1, <2>2 DEF Drained
  <2>3. ASSUME NEW v, NEW b, queue' = Append(queue, b), b.slot = cur,
               pc' = IF NoViewLeft(v) THEN AfterSubmit ELSE "submit"
        PROVE  Drained'
    <3>1. /\ Len(queue) \in Nat /\ DOMAIN queue = 1 .. Len(queue)
          /\ DOMAIN queue' = 1 .. Len(queue) + 1
          /\ \A i \in DOMAIN queue : queue'[i] = queue[i]
          /\ queue'[Len(queue) + 1] = b
      BY <1>0, <2>3, AppendIndices
    <3>2. \A i \in DOMAIN queue' : queue'[i].slot = cur
      BY <1>0, <2>1, <2>3, <3>1 DEF Drained
    <3> QED BY <1>0, <2>1, <2>3, <3>2 DEF Drained, AfterSubmit
  <2> QED BY <1>5, <2>2, <2>3, Submission
<1>6. ASSUME NEW e \in Outcomes.wait, WaitRenderComplete(e) PROVE Drained'
  <2>1. pc = "renderWait" /\ UNCHANGED <<queue, presents, resized, cur>>
    BY <1>6 DEF WaitRenderComplete, gpuVars
  <2>2. CASE e = "Fatal"
    BY <1>0, <1>6, <2>1, <2>2 DEF WaitRenderComplete, Return, Drained
  <2>3. CASE e = "Ok"
    <3>1. inFlight[cur] /\ pc' = "present"
      BY <1>6, <2>3 DEF WaitRenderComplete
    <3>2. \A i \in DOMAIN queue : queue[i].slot # cur /\ queue[i].slot = cur
      BY <1>0, <2>1, <3>1 DEF SlotInv, FenceMeansDone, Drained
    <3>3. queue = <<>>
      BY <1>0, <3>2, TailIndices
    <3> QED BY <1>0, <2>1, <3>1, <3>3 DEF Drained
  <2> QED BY <1>6, <2>2, <2>3, OutcomesAreErrors
<1>7. ASSUME NEW e \in Outcomes.present, PresentImage(e) PROVE Drained'
  BY <1>0, <1>7 DEF PresentImage, Return, Drained
<1>8. ASSUME NEW e \in Outcomes.postprocess, EndFrame(e) PROVE Drained'
  BY <1>0, <1>8 DEF EndFrame, Return, Drained, gpuVars
<1>9. CASE CompleteBatch
  <2>1. queue # <<>> /\ queue' = Tail(queue) /\ UNCHANGED <<pc, cur, presents, resized>>
    BY <1>9 DEF CompleteBatch, cpuVars
  <2>2. \A i \in DOMAIN queue' : i + 1 \in DOMAIN queue /\ queue'[i] = queue[i + 1]
    BY <1>0, <2>1, TailIndices
  <2> QED BY <1>0, <2>1, <2>2 DEF Drained
<1>10. CASE Display \/ UNCHANGED vars
  BY <1>0, <1>10
  DEF Display, SignalImageAvailable, DisplayImage, RetireImage, Drained, vars, cpuVars, gpuVars
<1> QED
  BY <1>1, <1>2, <1>3, <1>4, <1>5, <1>6, <1>7, <1>8, <1>9, <1>10 DEF Next, DrawFrameStep

\* A step that gives an image another state, but for that of a queued draw.
LEMMA LiveKept ==
  ASSUME DrawTargetsLive, UNCHANGED queue,
         \A i \in DOMAIN queue :
           images'[queue[i].swapchain][queue[i].image]
             \in {images[queue[i].swapchain][queue[i].image], "acquired", "presenting"}
  PROVE  DrawTargetsLive'
BY DEF DrawTargetsLive

\* The present that gets its semaphore is of no queued draw: the signal would
\* be for an earlier present of the draw's slot, and this one is the first.
LEMMA DisplayedIsDrawn ==
  ASSUME TypeOK, DesktopInv, DisplayImage
  PROVE  \A i \in DOMAIN queue : queue[i].image # Head(presents).image
<1> SUFFICES ASSUME NEW i \in DOMAIN queue, queue[i].image = Head(presents).image
             PROVE  FALSE
  OBVIOUS
<1>1. presents \in Seq(Request) /\ presents # <<>>
  BY DEF TypeOK, Request, DisplayImage
<1>2. 1 \in DOMAIN presents /\ Head(presents) = presents[1] /\ DOMAIN presents = 1 .. Len(presents)
  BY <1>1, TailIndices
<1>3. presents[1].slot = queue[i].slot /\ \A y \in DOMAIN presents : 1 < y => presents[y].slot # queue[i].slot
  BY <1>2 DEF DesktopInv, LastPresent
<1>4. renderFinished[queue[i].slot][0] = "signaled"
  BY <1>2, <1>3 DEF DisplayImage, DesktopInv, OneDraw
<1>5. PICK x \in DOMAIN presents : presents[x].slot = queue[i].slot /\ presents[x].image # queue[i].image
  BY <1>4 DEF DesktopInv, SignalEarlier
<1>6. x = 1 \/ 1 < x
  BY <1>2
<1> QED BY <1>2, <1>3, <1>5, <1>6

LEMMA LiveStep ==
  ASSUME TypeOK, TargetInv, [Next]_vars
  PROVE  DrawTargetsLive'
<1>0. /\ DrawTargetsLive /\ queue \in Seq(Batch) /\ images \in [Swapchains -> [Images -> ImageStates]]
      /\ \A i \in DOMAIN queue : queue[i] \in Batch
      /\ \A i \in DOMAIN queue : queue[i].swapchain \in Swapchains /\ queue[i].image \in Images
  <2>1. /\ DrawTargetsLive /\ queue \in Seq(Batch)
        /\ images \in [Swapchains -> [Images -> ImageStates]]
    BY DEF TargetInv, TypeOK, ImageStates
  <2>2. \A i \in DOMAIN queue : queue[i] \in Batch
    BY <2>1
  <2> QED BY <2>1, <2>2 DEF Batch
<1>1. CASE Consumer \/ CheckResized \/ EndAcquire \/ CollectViews
  BY <1>0, <1>1, LiveKept
  DEF Consumer, FramebufferSizeCallback, EditMaterial, AddMesh, BeginFrame, CheckResized,
      EndAcquire, CollectViews, gpuVars
<1>2. CASE RecreateSwapchain
  <2>1. queue = <<>> /\ UNCHANGED queue
    BY <1>2 DEF RecreateSwapchain, TargetInv, Drained
  <2> QED BY <2>1 DEF DrawTargetsLive
<1>3. ASSUME NEW e \in Outcomes.wait, WaitInFlightFence(e) \/ WaitRenderComplete(e)
      PROVE  DrawTargetsLive'
  BY <1>0, <1>3, LiveKept DEF WaitInFlightFence, WaitRenderComplete, gpuVars
<1>4. ASSUME NEW e \in Outcomes.acquire, AcquireImage(e) PROVE DrawTargetsLive'
  <2>1. UNCHANGED queue
    BY <1>4 DEF AcquireImage
  <2>2. CASE e \in {"Ok", "Suboptimal"}
    <3>1. PICK i \in Images : images' = [images EXCEPT ![k][i] = "acquired"]
      BY <1>4, <2>2 DEF AcquireImage
    <3> QED BY <1>0, <2>1, <3>1, LiveKept
  <2>3. CASE e \notin {"Ok", "Suboptimal"}
    BY <1>0, <1>4, <2>1, <2>3, LiveKept DEF AcquireImage
  <2> QED BY <2>2, <2>3
<1>5. ASSUME NEW e \in Outcomes.submit, SubmitView(e) PROVE DrawTargetsLive'
  <2>1. pc = "submit" /\ UNCHANGED images
    BY <1>5 DEF SubmitView
  <2>2. CASE UNCHANGED queue
    BY <1>0, <2>1, <2>2, LiveKept
  <2>3. ASSUME NEW v \in RenderableViews, NEW b, queue' = Append(queue, b),
               b.swapchain = SwapchainIndex(v), b.image = acquired[SwapchainIndex(v)]
        PROVE  DrawTargetsLive'
    <3>1. SwapchainIndex(v) \in Swapchains /\ SwapchainIndex(v) < count
      BY ShapeAssumption DEF RenderableViews, SwapchainIndex, Views, Swapchains
    <3>2. images[b.swapchain][b.image] = "acquired"
      BY <2>1, <2>3, <3>1 DEF TargetInv, Held, Holding
    <3>3. /\ Len(queue) \in Nat /\ DOMAIN queue = 1 .. Len(queue)
          /\ DOMAIN queue' = 1 .. Len(queue) + 1
          /\ \A i \in DOMAIN queue : queue'[i] = queue[i]
          /\ queue'[Len(queue) + 1] = b
      BY <1>0, <2>3, AppendIndices
    <3> QED BY <1>0, <2>1, <3>2, <3>3 DEF DrawTargetsLive
  <2> QED BY <1>5, <2>2, <2>3, Submission
<1>6. ASSUME NEW e \in Outcomes.present, PresentImage(e) PROVE DrawTargetsLive'
  <2>1. UNCHANGED queue /\ pc = "present"
    BY <1>6 DEF PresentImage
  <2>2. CASE UsesImageAvailableSemaphore
    <3>1. images' = images \/ images' = [images EXCEPT ![k][acquired[k]] = "presenting"]
      BY <1>6, <2>2 DEF PresentImage
    <3> QED BY <1>0, <2>1, <3>1, LiveKept
  <2>3. CASE ~UsesImageAvailableSemaphore
    <3>1. queue = <<>>
      BY <2>1, <2>3 DEF TargetInv, Drained
    <3> QED BY <2>1, <3>1 DEF DrawTargetsLive
  <2> QED BY <2>2, <2>3
<1>7. ASSUME NEW e \in Outcomes.postprocess, EndFrame(e) PROVE DrawTargetsLive'
  BY <1>0, <1>7, LiveKept DEF EndFrame, gpuVars
<1>8. CASE CompleteBatch
  <2>1. queue # <<>> /\ queue' = Tail(queue) /\ UNCHANGED images
    BY <1>8 DEF CompleteBatch
  <2>2. \A i \in DOMAIN queue' : i + 1 \in DOMAIN queue /\ queue'[i] = queue[i + 1]
    BY <1>0, <2>1, TailIndices
  <2> QED BY <1>0, <2>1, <2>2 DEF DrawTargetsLive
<1>9. CASE DisplayImage
  <2> DEFINE p == Head(presents)
  <2>1. presents # <<>> /\ UNCHANGED queue
    BY <1>9 DEF DisplayImage
  <2>2. DesktopInv
    BY <2>1 DEF TargetInv, Drained
  <2>3. \A i \in DOMAIN queue : queue[i].image # p.image
    BY <1>9, <2>2, DisplayedIsDrawn
  <2>4. images' = [images EXCEPT ![p.swapchain][p.image] = "displayed"]
    BY <1>9 DEF DisplayImage
  <2> HIDE DEF p
  <2>5. ASSUME NEW i \in DOMAIN queue
        PROVE  images'[queue[i].swapchain][queue[i].image] = images[queue[i].swapchain][queue[i].image]
    BY <1>0, <2>3, <2>4
  <2> QED BY <1>0, <2>1, <2>5, LiveKept
<1>10. ASSUME NEW t \in Swapchains, NEW j \in Images, RetireImage(t, j) PROVE DrawTargetsLive'
  <2>1. images[t][j] = "displayed" /\ images' = [images EXCEPT ![t][j] = "free"] /\ UNCHANGED queue
    BY <1>10 DEF RetireImage
  <2>2. ASSUME NEW i \in DOMAIN queue
        PROVE  images'[queue[i].swapchain][queue[i].image] = images[queue[i].swapchain][queue[i].image]
    <3>1. images[queue[i].swapchain][queue[i].image] # "displayed"
      BY <1>0 DEF DrawTargetsLive
    <3> QED BY <1>0, <2>1, <3>1
  <2> QED BY <1>0, <2>1, <2>2, LiveKept
<1>11. ASSUME NEW f \in Slots, NEW s \in Swapchains, SignalImageAvailable(f, s) PROVE DrawTargetsLive'
  BY <1>0, <1>11, LiveKept DEF SignalImageAvailable
<1>12. CASE UNCHANGED vars
  BY <1>0, <1>12, LiveKept DEF vars, gpuVars
<1> QED
  BY <1>1, <1>2, <1>3, <1>4, <1>5, <1>6, <1>7, <1>8, <1>9, <1>10, <1>11, <1>12
  DEF Next, DrawFrameStep, Display

\* Steps of a desktop call that queue, complete and present nothing.
LEMMA DesktopKept ==
  ASSUME DesktopInv, UNCHANGED <<queue, presents, images, renderFinished, acquired, count>>,
         pc' # "renderWait", pc = "stopped" => pc' = "stopped",
         Holding(0)' => Holding(0) /\ cur' = cur /\ (pc' = "present" <=> pc = "present"),
         \A f \in Slots : Presenting(f) => Presenting(f)' \/ pc' = "stopped",
         \A i \in DOMAIN queue : queue[i].slot \in Slots
  PROVE  DesktopInv'
<1> USE DEF DesktopInv
<1>1. OneDraw' /\ PresentsHeld' /\ LastPresent' /\ SignalEarlier'
  BY DEF OneDraw, PresentsHeld, LastPresent, SignalEarlier
<1>2. OwnDraw'
  BY DEF OwnDraw
<1>3. SignalPresented'
  BY DEF SignalPresented
<1>4. DrawPresented'
  BY DEF DrawPresented
<1> QED BY <1>1, <1>2, <1>3, <1>4

\* The one view of a desktop call that is drawn, and its submission.
LEMMA DesktopView ==
  ASSUME TypeOK, OneDraw, UsesImageAvailableSemaphore
  PROVE  /\ RenderableViews # {}
         /\ \A v \in RenderableViews :
              SwapchainIndex(v) = 0 /\ NoViewLeft(v) /\ (multiview \/ ViewOwnsInFlightFence(v))
<1>1. 0 \in Views /\ SwapchainIndex(0) = 0 /\ count = 1
  BY ShapeAssumption DEF Views, SwapchainIndex, OneDraw
<1>2. 0 \in RenderableViews
  BY <1>1 DEF RenderableViews
<1>3. \A v \in RenderableViews : SwapchainIndex(v) = 0 /\ (multiview \/ v = 0)
  BY <1>1, ShapeAssumption DEF RenderableViews, SwapchainIndex, Views
<1>4. multiview \/ \A v, w \in RenderableViews : w <= v
  BY <1>3
<1> QED BY <1>2, <1>3, <1>4 DEF NoViewLeft, ViewOwnsInFlightFence

\* An acquired image was free: nothing draws to it and nothing presents it.
LEMMA DesktopAcquire ==
  ASSUME TypeOK, DesktopInv, DrawTargetsLive, UsesImageAvailableSemaphore,
         \A i \in DOMAIN queue : queue[i].slot \in Slots /\ queue[i].image \in Images,
         NEW e \in Outcomes.acquire, AcquireImage(e)
  PROVE  DesktopInv'
<1> USE DEF DesktopInv
<1>1. /\ pc = "acquire" /\ UNCHANGED <<queue, presents, renderFinished, cur, count>>
      /\ count = 1 /\ k = 0
  BY HoldingType DEF AcquireImage, OneDraw
<1>2. CASE e \in {"Ok", "Suboptimal"}
  <2>1. PICK i \in Images : /\ images[0][i] = "free"
                            /\ images' = [images EXCEPT ![0][i] = "acquired"]
                            /\ acquired' = [acquired EXCEPT ![0] = i]
    BY <1>1, <1>2 DEF AcquireImage
  <2>2. /\ 0 \in Swapchains /\ acquired' [0] = i
        /\ \A j \in Images : j # i => images'[0][j] = images[0][j]
    BY <2>1, HoldingType DEF TypeOK
  <2>3. \A x \in DOMAIN presents : presents[x] \in Request
    <3>1. presents \in Seq(Request)
      BY DEF TypeOK, Request
    <3> QED BY <3>1
  <2>4. \A j \in DOMAIN queue : queue[j].image # i
    BY <2>1 DEF DrawTargetsLive, OneDraw
  <2>5. \A x \in DOMAIN presents : presents[x].image # i /\ presents[x].image \in Images
    BY <2>1, <2>3 DEF PresentsHeld, Request
  <2>6. pc' # "renderWait" /\ pc' # "stopped" /\ pc' # "present"
    BY <1>1, <1>2 DEF AcquireImage
  <2>7. OneDraw' /\ LastPresent' /\ SignalEarlier'
    BY <1>1, <2>6 DEF OneDraw, LastPresent, SignalEarlier
  <2>8. PresentsHeld'
    BY <1>1, <2>2, <2>5 DEF PresentsHeld
  <2>9. OwnDraw'
    BY <1>1, <2>2, <2>4, <2>6 DEF OwnDraw
  <2>10. SignalPresented' /\ DrawPresented'
    BY <1>1 DEF SignalPresented, DrawPresented, Presenting
  <2> QED BY <2>7, <2>8, <2>9, <2>10
<1>3. CASE e \notin {"Ok", "Suboptimal"}
  <2>1. UNCHANGED <<images, acquired>> /\ pc' \in {"recreate", "idle", "stopped"}
    BY <1>1, <1>3 DEF AcquireImage, Return
  <2> QED BY <1>1, <2>1, DesktopKept DEF Holding, Presenting
<1> QED BY <1>2, <1>3

\* The draw of the call: no other of its slot is queued, since each carries
\* the fence, and a semaphore still signaled waits for an earlier present.
LEMMA DesktopSubmit ==
  ASSUME TypeOK, SlotInv, Held, DesktopInv, UsesImageAvailableSemaphore,
         \A i \in DOMAIN queue : queue[i].slot \in Slots,
         NEW e \in Outcomes.submit, SubmitView(e)
  PROVE  DesktopInv'
<1> USE DEF DesktopInv
<1>1. /\ pc = "submit" /\ count = 1 /\ queue \in Seq(Batch)
      /\ UNCHANGED <<presents, renderFinished, images, cur, count, acquired>>
  BY DEF SubmitView, OneDraw, TypeOK
<1>2. CASE pc' = "stopped" /\ UNCHANGED <<queue, k>>
  BY <1>1, <1>2, DesktopKept DEF Holding, Presenting
<1>3. ASSUME NEW v \in RenderableViews, NEW b \in Batch, queue' = Append(queue, b),
             b.slot = cur, b.swapchain = SwapchainIndex(v), b.image = acquired[SwapchainIndex(v)],
             b.fence = (multiview \/ ViewOwnsInFlightFence(v)),
             pc' = IF NoViewLeft(v) THEN AfterSubmit ELSE "submit",
             k' = IF NoViewLeft(v) THEN 0 ELSE v + 1
      PROVE  DesktopInv'
  <2>1. b.swapchain = 0 /\ b.image = acquired[0] /\ b.fence /\ pc' = "present" /\ k' = 0
    BY <1>3, DesktopView DEF AfterSubmit
  <2>2. /\ Len(queue) \in Nat /\ DOMAIN queue = 1 .. Len(queue)
        /\ DOMAIN queue' = 1 .. Len(queue) + 1
        /\ \A i \in DOMAIN queue : queue'[i] = queue[i]
        /\ queue'[Len(queue) + 1] = b
    BY <1>1, <1>3, AppendIndices
  <2>3. \A i \in DOMAIN queue' : (i \in DOMAIN queue /\ queue'[i] = queue[i]) \/ queue'[i] = b
    BY <2>2
  <2>4. Holding(0) /\ 0 \in Swapchains /\ cur \in Slots
    BY <1>1, HoldingType DEF Holding
  <2>5. \A i \in DOMAIN queue : queue[i].slot # cur /\ queue[i].image # acquired[0]
    BY <1>1, <2>4 DEF SlotInv, FenceReserved, OneDraw, OwnDraw
  <2>6. \A x \in DOMAIN presents : presents[x].image # acquired[0]
    BY <2>4 DEF Held, PresentsHeld
  <2>7. OneDraw'
    BY <1>1, <2>1, <2>3 DEF OneDraw
  <2>8. OwnDraw'
    BY <1>1, <1>3, <2>1, <2>3, <2>5 DEF OwnDraw
  <2>9. PresentsHeld'
    BY <1>1 DEF PresentsHeld
  <2>10. LastPresent'
    BY <1>1, <2>1, <2>3, <2>6 DEF LastPresent
  <2>11. SignalEarlier'
    <3>1. renderFinished[cur][0] = "signaled" => \E x \in DOMAIN presents : presents[x].slot = cur
      BY <1>1, <2>4 DEF SignalPresented, Presenting
    <3> QED BY <1>1, <1>3, <2>1, <2>3, <2>6, <3>1 DEF SignalEarlier
  <2>12. SignalPresented'
    BY <1>1 DEF SignalPresented, Presenting
  <2>13. DrawPresented'
    <3>1. Presenting(cur)'
      BY <1>1, <2>1 DEF Presenting
    <3>2. \A i \in DOMAIN queue : \E x \in DOMAIN presents :
             presents[x].slot = queue[i].slot /\ presents[x].image = queue[i].image
      BY <1>1 DEF DrawPresented, Presenting
    <3> QED BY <1>1, <1>3, <2>3, <3>1, <3>2 DEF DrawPresented
  <2> QED BY <2>7, <2>8, <2>9, <2>10, <2>11, <2>12, <2>13
<1> QED BY <1>2, <1>3, Submission

\* The present of the call is the last of its slot, and the one of its draw.
LEMMA DesktopPresent ==
  ASSUME TypeOK, Held, DesktopInv, UsesImageAvailableSemaphore,
         \A i \in DOMAIN queue : queue[i].slot \in Slots,
         NEW e \in Outcomes.present, PresentImage(e)
  PROVE  DesktopInv'
<1> USE DEF DesktopInv
<1>1. /\ pc = "present" /\ count = 1 /\ k = 0 /\ presents \in Seq(Request)
      /\ UNCHANGED <<queue, renderFinished, cur, count, acquired>>
      /\ pc' # "renderWait" /\ ~Holding(0)'
  <2>1. pc = "present" /\ count = 1 /\ k = 0
    BY HoldingType DEF PresentImage, OneDraw
  <2>2. e = "Ok" => pc' = "present" /\ k' = 1
    BY <2>1 DEF PresentImage
  <2>3. e # "Ok" => pc' \in {"idle", "stopped", "recreate"}
    BY DEF PresentImage, Return
  <2> QED BY <2>1, <2>2, <2>3 DEF PresentImage, Holding, TypeOK, Request
<1>2. CASE e = "Fatal"
  <2>1. pc' = "stopped" /\ UNCHANGED <<presents, images>>
    BY <1>2 DEF PresentImage, Return
  <2> QED BY <1>1, <2>1, DesktopKept
<1>3. CASE e # "Fatal"
  <2> DEFINE p == [slot |-> cur, swapchain |-> 0, image |-> acquired[0]]
  <2>1. presents' = Append(presents, p) /\ images' = [images EXCEPT ![0][acquired[0]] = "presenting"]
    BY <1>1, <1>3 DEF PresentImage
  <2>2. p.slot = cur /\ p.swapchain = 0 /\ p.image = acquired[0]
    OBVIOUS
  <2>3. /\ Len(presents) \in Nat /\ DOMAIN presents = 1 .. Len(presents)
        /\ DOMAIN presents' = 1 .. Len(presents) + 1
        /\ \A x \in DOMAIN presents : presents'[x] = presents[x]
        /\ presents'[Len(presents) + 1] = p
    BY <1>1, <2>1, AppendIndices
  <2> HIDE DEF p
  <2>4. \A x \in DOMAIN presents' :
          \/ x \in DOMAIN presents /\ presents'[x] = presents[x]
          \/ x = Len(presents) + 1 /\ presents'[x] = p
    BY <2>3
  <2>5. Holding(0) /\ 0 \in Swapchains /\ images \in [Swapchains -> [Images -> ImageStates]]
        /\ acquired[0] \in Images
    BY <1>1, HoldingType DEF Holding, TypeOK, ImageStates
  <2>6. \A x \in DOMAIN presents : presents[x].image # acquired[0]
    BY <2>5 DEF Held, PresentsHeld
  <2>7. \A x \in DOMAIN presents : x \in DOMAIN presents' /\ presents'[x] = presents[x]
    BY <2>3
  <2>8. \A i \in DOMAIN queue : queue[i].slot = cur <=> queue[i].image = acquired[0]
    BY <1>1, <2>5 DEF OwnDraw
  <2>9. OneDraw'
    BY <1>1, <2>2, <2>4 DEF OneDraw
  <2>10. OwnDraw'
    BY <1>1 DEF OwnDraw
  <2>11. PresentsHeld'
    <3>1. images'[0][acquired[0]] = "presenting"
      BY <2>1, <2>5
    <3>2. \A j \in Images : images[0][j] = "presenting" => images'[0][j] = "presenting"
      BY <2>1, <2>5
    <3>3. \A x \in DOMAIN presents : presents[x].image \in Images
      <4>1. \A x \in DOMAIN presents : presents[x] \in Request
        BY <1>1
      <4> QED BY <4>1 DEF Request
    <3>4. \A x \in DOMAIN presents' : images'[0][presents'[x].image] = "presenting"
      BY <2>2, <2>4, <3>1, <3>2, <3>3 DEF PresentsHeld
    <3>5. \A x, y \in DOMAIN presents' : presents'[x].image = presents'[y].image => x = y
      BY <2>2, <2>4, <2>6 DEF PresentsHeld
    <3> QED BY <3>4, <3>5 DEF PresentsHeld
  <2>12. LastPresent'
    <3> SUFFICES ASSUME NEW i \in DOMAIN queue, NEW x \in DOMAIN presents',
                        presents'[x].image = queue[i].image
                 PROVE  /\ presents'[x].slot = queue[i].slot
                        /\ \A y \in DOMAIN presents' : x < y => presents'[y].slot # queue[i].slot
      BY <1>1 DEF LastPresent
    <3>1. CASE x \in DOMAIN presents /\ presents'[x] = presents[x]
      <4>1. queue[i].slot # cur
        BY <2>6, <2>8, <3>1
      <4>2. /\ presents[x].slot = queue[i].slot
            /\ \A y \in DOMAIN presents : x < y => presents[y].slot # queue[i].slot
        BY <3>1 DEF LastPresent
      <4> QED BY <2>2, <2>4, <3>1, <4>1, <4>2
    <3>2. CASE x = Len(presents) + 1 /\ presents'[x] = p
      <4>1. queue[i].slot = cur
        BY <2>2, <2>8, <3>2
      <4>2. \A y \in DOMAIN presents' : ~(x < y)
        BY <2>3, <3>2
      <4> QED BY <2>2, <3>2, <4>1, <4>2
    <3> QED BY <2>4, <3>1, <3>2
  <2>13. SignalEarlier'
    BY <1>1, <2>7 DEF SignalEarlier
  <2>14. \E x \in DOMAIN presents' : presents'[x].slot = cur /\ presents'[x].image = acquired[0]
    <3>1. Len(presents) + 1 \in DOMAIN presents'
      BY <2>3
    <3> QED BY <2>2, <2>3, <3>1
  <2>15. SignalPresented'
    BY <1>1, <2>7, <2>14 DEF SignalPresented, Presenting
  <2>16. DrawPresented'
    <3> SUFFICES ASSUME NEW i \in DOMAIN queue
                 PROVE  \E x \in DOMAIN presents' :
                          presents'[x].slot = queue[i].slot /\ presents'[x].image = queue[i].image
      BY <1>1 DEF DrawPresented
    <3>1. CASE queue[i].slot = cur
      BY <2>8, <2>14, <3>1
    <3>2. CASE queue[i].slot # cur
      <4>1. PICK x \in DOMAIN presents :
              presents[x].slot = queue[i].slot /\ presents[x].image = queue[i].image
        BY <1>1, <3>2 DEF DrawPresented, Presenting
      <4> QED BY <2>7, <4>1
    <3> QED BY <3>1, <3>2
  <2> QED BY <2>9, <2>10, <2>11, <2>12, <2>13, <2>15, <2>16
<1> QED BY <1>2, <1>3

\* The draw that completes is the only one of its slot, and its present waits.
LEMMA DesktopComplete ==
  ASSUME TypeOK, SlotInv, DesktopInv, UsesImageAvailableSemaphore, CompleteBatch
  PROVE  DesktopInv'
<1> USE DEF DesktopInv
<1> DEFINE b == Head(queue)
<1>1. /\ queue # <<>> /\ queue \in Seq(Batch) /\ queue' = Tail(queue)
      /\ UNCHANGED <<images, presents, pc, k, cur, count, acquired>>
  BY DEF CompleteBatch, cpuVars, TypeOK
<1>2. /\ b = queue[1] /\ 1 \in DOMAIN queue /\ b \in Batch
      /\ \A i \in DOMAIN queue' : i + 1 \in DOMAIN queue /\ 1 < i + 1 /\ queue'[i] = queue[i + 1]
  BY <1>1, TailIndices
<1>3. b.slot \in Slots /\ b.swapchain = 0 /\ b.fence
  BY <1>2 DEF Batch, OneDraw
<1>4. renderFinished' = [renderFinished EXCEPT ![b.slot][0] = "signaled"]
  BY <1>3 DEF CompleteBatch
<1>5. \A f \in Slots : f # b.slot => renderFinished'[f] = renderFinished[f]
  BY <1>4 DEF TypeOK
<1>6. \A i \in DOMAIN queue' : queue'[i].slot # b.slot
  BY <1>2, <1>3 DEF SlotInv, FenceIsLast
<1>7. \A i \in DOMAIN queue' : queue'[i].slot \in Slots
  <2>1. \A i \in DOMAIN queue : queue[i] \in Batch
    BY <1>1
  <2> QED BY <1>2, <2>1 DEF Batch
<1>8. OneDraw'
  BY <1>1, <1>2 DEF OneDraw
<1>9. OwnDraw'
  BY <1>1, <1>2 DEF OwnDraw, Holding
<1>10. PresentsHeld'
  BY <1>1 DEF PresentsHeld
<1>11. LastPresent'
  BY <1>1, <1>2 DEF LastPresent
<1>12. SignalEarlier'
  BY <1>1, <1>2, <1>5, <1>6, <1>7 DEF SignalEarlier
<1>13. SignalPresented'
  <2>1. (\E x \in DOMAIN presents : presents[x].slot = b.slot) \/ Presenting(b.slot) \/ pc = "stopped"
    BY <1>2 DEF DrawPresented
  <2> QED BY <1>1, <1>5, <2>1 DEF SignalPresented, Presenting
<1>14. DrawPresented'
  BY <1>1, <1>2 DEF DrawPresented, Presenting
<1> QED BY <1>8, <1>9, <1>10, <1>11, <1>12, <1>13, <1>14

\* The present that goes is of no queued draw.
LEMMA DesktopDisplay ==
  ASSUME TypeOK, DesktopInv, UsesImageAvailableSemaphore, DisplayImage
  PROVE  DesktopInv'
<1> USE DEF DesktopInv
<1> DEFINE p == Head(presents)
<1>1. /\ presents # <<>> /\ presents \in Seq(Request) /\ presents' = Tail(presents)
      /\ UNCHANGED <<queue, pc, k, cur, count, acquired>>
      /\ queue \in Seq(Batch)
  BY DEF DisplayImage, cpuVars, TypeOK, Request
<1>2. /\ p = presents[1] /\ 1 \in DOMAIN presents /\ p \in Request
      /\ DOMAIN presents = 1 .. Len(presents)
      /\ \A x \in DOMAIN presents' :
           x \in Nat /\ x + 1 \in DOMAIN presents /\ 1 < x + 1 /\ presents'[x] = presents[x + 1]
      /\ \A y \in DOMAIN presents : y = 1 \/ (y - 1 \in DOMAIN presents' /\ presents'[y - 1] = presents[y])
  <2>1. \A x \in DOMAIN Tail(presents) : x \in Nat
    BY <1>1
  <2> QED BY <1>1, <2>1, TailIndices
<1>3. p.slot \in Slots /\ p.image \in Images /\ p.swapchain = 0 /\ 0 \in Swapchains
  BY <1>2, HoldingType DEF Request, OneDraw
<1>4. /\ renderFinished' = [renderFinished EXCEPT ![p.slot][0] = "unsignaled"]
      /\ images' = [images EXCEPT ![0][p.image] = "displayed"]
  BY <1>3 DEF DisplayImage
<1>5. \A i \in DOMAIN queue : queue[i].image # p.image
  BY DisplayedIsDrawn
<1>6. \A i \in DOMAIN queue : queue[i].slot \in Slots
  <2>1. \A i \in DOMAIN queue : queue[i] \in Batch
    BY <1>1
  <2> QED BY <2>1 DEF Batch
<1>7. \A x \in DOMAIN presents : presents[x].image \in Images
  <2>1. \A x \in DOMAIN presents : presents[x] \in Request
    BY <1>1
  <2> QED BY <2>1 DEF Request
<1>8. \A f \in Slots : renderFinished'[f][0] = "signaled" => f # p.slot /\ renderFinished[f][0] = "signaled"
  BY <1>3, <1>4 DEF TypeOK
<1>9. \A j \in Images : j # p.image => images'[0][j] = images[0][j]
  BY <1>3, <1>4 DEF TypeOK
<1> HIDE DEF p
<1>10. OneDraw'
  BY <1>1, <1>2 DEF OneDraw
<1>11. OwnDraw'
  BY <1>1 DEF OwnDraw, Holding
<1>12. PresentsHeld'
  <2>1. \A x \in DOMAIN presents' : presents'[x].image # p.image
    BY <1>2 DEF PresentsHeld
  <2>2. \A x \in DOMAIN presents' : images'[0][presents'[x].image] = "presenting"
    BY <1>2, <1>7, <1>9, <2>1 DEF PresentsHeld
  <2>3. \A x, y \in DOMAIN presents' : presents'[x].image = presents'[y].image => x = y
    <3>1. \A x, y \in DOMAIN presents' : presents'[x].image = presents'[y].image => x + 1 = y + 1
      BY <1>2 DEF PresentsHeld
    <3> QED BY <1>2, <3>1
  <2> QED BY <2>2, <2>3 DEF PresentsHeld
<1>13. LastPresent'
  <2> SUFFICES ASSUME NEW i \in DOMAIN queue, NEW x \in DOMAIN presents',
                      presents'[x].image = queue[i].image
               PROVE  /\ presents'[x].slot = queue[i].slot
                      /\ \A y \in DOMAIN presents' : x < y => presents'[y].slot # queue[i].slot
    BY <1>1 DEF LastPresent
  <2>1. x \in Nat /\ x + 1 \in DOMAIN presents /\ presents'[x] = presents[x + 1]
    BY <1>2
  <2>2. /\ presents[x + 1].slot = queue[i].slot
        /\ \A y \in DOMAIN presents : x + 1 < y => presents[y].slot # queue[i].slot
    BY <2>1 DEF LastPresent
  <2>3. ASSUME NEW y \in DOMAIN presents', x < y PROVE presents'[y].slot # queue[i].slot
    <3>1. y \in Nat /\ y + 1 \in DOMAIN presents /\ presents'[y] = presents[y + 1]
      BY <1>2
    <3>2. x + 1 < y + 1
      BY <2>1, <2>3, <3>1
    <3> QED BY <2>2, <3>1, <3>2
  <2> QED BY <2>1, <2>2, <2>3
<1>14. SignalEarlier'
  <2> SUFFICES ASSUME NEW i \in DOMAIN queue, renderFinished'[queue[i].slot][0] = "signaled"
               PROVE  \E x \in DOMAIN presents' :
                        presents'[x].slot = queue[i].slot /\ presents'[x].image # queue[i].image
    BY <1>1 DEF SignalEarlier
  <2>1. queue[i].slot # p.slot /\ renderFinished[queue[i].slot][0] = "signaled"
    BY <1>6, <1>8
  <2>2. PICK y \in DOMAIN presents :
          presents[y].slot = queue[i].slot /\ presents[y].image # queue[i].image
    BY <2>1 DEF SignalEarlier
  <2>3. y # 1
    BY <1>2, <2>1, <2>2
  <2> QED BY <1>2, <2>2, <2>3
<1>15. SignalPresented'
  <2> SUFFICES ASSUME NEW f \in Slots, renderFinished'[f][0] = "signaled",
                      ~(Presenting(f) \/ pc = "stopped")
               PROVE  \E x \in DOMAIN presents' : presents'[x].slot = f
    BY <1>1 DEF SignalPresented, Presenting
  <2>1. f # p.slot /\ renderFinished[f][0] = "signaled"
    BY <1>8
  <2>2. PICK y \in DOMAIN presents : presents[y].slot = f
    BY <2>1 DEF SignalPresented
  <2>3. y # 1
    BY <1>2, <2>1, <2>2
  <2> QED BY <1>2, <2>2, <2>3
<1>16. DrawPresented'
  <2> SUFFICES ASSUME NEW i \in DOMAIN queue, ~(Presenting(queue[i].slot) \/ pc = "stopped")
               PROVE  \E x \in DOMAIN presents' :
                        presents'[x].slot = queue[i].slot /\ presents'[x].image = queue[i].image
    BY <1>1 DEF DrawPresented, Presenting
  <2>1. PICK y \in DOMAIN presents :
          presents[y].slot = queue[i].slot /\ presents[y].image = queue[i].image
    BY DEF DrawPresented
  <2>2. y # 1
    BY <1>2, <1>5, <2>1
  <2> QED BY <1>2, <2>1, <2>2
<1> QED BY <1>10, <1>11, <1>12, <1>13, <1>14, <1>15, <1>16

LEMMA DesktopStep ==
  ASSUME TypeOK, SlotInv, TargetInv, UsesImageAvailableSemaphore, [Next]_vars
  PROVE  DesktopInv'
<1>0. /\ DesktopInv /\ Held /\ DrawTargetsLive /\ count = 1 /\ pc # "renderWait"
      /\ \A i \in DOMAIN queue : queue[i].slot \in Slots /\ queue[i].image \in Images
  <2>1. \A i \in DOMAIN queue : queue[i] \in Batch
    <3>1. queue \in Seq(Batch)
      BY DEF TypeOK
    <3> QED BY <3>1
  <2> QED BY <2>1 DEF TargetInv, DesktopInv, OneDraw, Batch
<1>1. CASE Consumer
  <2>1. /\ UNCHANGED <<queue, presents, images, renderFinished, acquired, count>>
        /\ pc = "idle" /\ pc' \in {"idle", "stopped", "resizeCheck"}
    BY <1>1
    DEF Consumer, FramebufferSizeCallback, EditMaterial, AddMesh, BeginFrame, Return, gpuVars
  <2> QED BY <1>0, <2>1, DesktopKept DEF Holding, Presenting
<1>2. CASE CheckResized
  <2>1. /\ UNCHANGED <<queue, presents, images, renderFinished, acquired, count>>
        /\ pc = "resizeCheck" /\ pc' \in {"recreate", "fence"}
    BY <1>2 DEF CheckResized, gpuVars
  <2> QED BY <1>0, <2>1, DesktopKept DEF Holding, Presenting
<1>3. CASE RecreateSwapchain
  <2>1. /\ pc = "recreate" /\ queue = <<>> /\ presents = <<>> /\ queue' = <<>> /\ presents' = <<>>
        /\ UNCHANGED renderFinished /\ count' = 1 /\ pc' \in {"idle", "stopped"}
    BY <1>3 DEF RecreateSwapchain, SwapchainCounts, Return
  <2>2. DOMAIN queue' = {} /\ DOMAIN presents = {} /\ DOMAIN presents' = {}
    BY <2>1
  <2>3. \A f \in Slots : renderFinished[f][0] # "signaled"
    BY <1>0, <2>1, <2>2 DEF DesktopInv, SignalPresented, Presenting
  <2> QED
    BY <2>1, <2>2, <2>3
    DEF DesktopInv, OneDraw, OwnDraw, PresentsHeld, LastPresent, SignalEarlier, SignalPresented,
        DrawPresented
<1>4. ASSUME NEW e \in Outcomes.wait, WaitInFlightFence(e) PROVE DesktopInv'
  <2>1. /\ UNCHANGED <<queue, presents, images, renderFinished, acquired, count>>
        /\ pc = "fence" /\ pc' \in {"acquire", "stopped"} /\ k' = 0
    BY <1>4 DEF WaitInFlightFence, Return, gpuVars
  <2> QED BY <1>0, <2>1, DesktopKept DEF Holding, Presenting
<1>5. ASSUME NEW e \in Outcomes.acquire, AcquireImage(e) PROVE DesktopInv'
  BY <1>0, <1>5, DesktopAcquire
<1>6. CASE EndAcquire
  <2>1. /\ UNCHANGED <<queue, presents, images, renderFinished, acquired, count, cur>>
        /\ pc = "acquire" /\ k = count /\ pc' = "collect"
    BY <1>6 DEF EndAcquire, gpuVars
  <2> QED BY <1>0, <2>1, DesktopKept DEF Holding, Presenting
<1>7. CASE CollectViews
  <2>1. RenderableViews # {}
    BY <1>0, DesktopView DEF DesktopInv
  <2>2. /\ UNCHANGED <<queue, presents, images, renderFinished, acquired, count, cur>>
        /\ pc = "collect" /\ pc' \in {"submit", "idle", "stopped"}
    BY <1>7, <2>1 DEF CollectViews, Return
  <2> QED BY <1>0, <2>2, DesktopKept DEF Holding, Presenting
<1>8. ASSUME NEW e \in Outcomes.submit, SubmitView(e) PROVE DesktopInv'
  BY <1>0, <1>8, DesktopSubmit
<1>9. ASSUME NEW e \in Outcomes.wait, WaitRenderComplete(e) PROVE DesktopInv'
  BY <1>0, <1>9 DEF WaitRenderComplete
<1>10. ASSUME NEW e \in Outcomes.present, PresentImage(e) PROVE DesktopInv'
  BY <1>0, <1>10, DesktopPresent
<1>11. ASSUME NEW e \in Outcomes.postprocess, EndFrame(e) PROVE DesktopInv'
  <2>1. /\ UNCHANGED <<queue, presents, images, renderFinished, acquired, count>>
        /\ pc = "present" /\ k = count /\ pc' \in {"idle", "stopped"}
    BY <1>11 DEF EndFrame, Return, gpuVars
  <2> QED BY <1>0, <2>1, DesktopKept DEF Holding, Presenting
<1>12. CASE CompleteBatch
  BY <1>0, <1>12, DesktopComplete
<1>13. CASE DisplayImage
  BY <1>0, <1>13, DesktopDisplay
<1>14. CASE (\E f \in Slots, s \in Swapchains : SignalImageAvailable(f, s)) \/ UNCHANGED vars
  <2>1. UNCHANGED <<queue, presents, images, renderFinished, acquired, count, pc, k, cur>>
    BY <1>14 DEF SignalImageAvailable, vars, cpuVars, gpuVars
  <2> QED BY <1>0, <2>1, DesktopKept DEF Holding, Presenting
<1>15. ASSUME NEW t \in Swapchains, NEW j \in Images, RetireImage(t, j) PROVE DesktopInv'
  <2>1. /\ images[t][j] = "displayed" /\ images' = [images EXCEPT ![t][j] = "free"]
        /\ UNCHANGED <<queue, presents, renderFinished, acquired, count, pc, k, cur>>
    BY <1>15 DEF RetireImage, cpuVars
  <2>2. PresentsHeld'
    <3>1. \A i \in Images : images[0][i] = "presenting" => images'[0][i] = "presenting"
      BY <2>1, HoldingType DEF TypeOK
    <3>2. \A x \in DOMAIN presents : presents[x].image \in Images
      <4>1. presents \in Seq(Request)
        BY DEF TypeOK, Request
      <4>2. \A x \in DOMAIN presents : presents[x] \in Request
        BY <4>1
      <4> QED BY <4>2 DEF Request
    <3> QED BY <1>0, <2>1, <3>1, <3>2 DEF DesktopInv, PresentsHeld
  <2> QED
    BY <1>0, <2>1, <2>2
    DEF DesktopInv, OneDraw, OwnDraw, LastPresent, SignalEarlier, SignalPresented, DrawPresented,
        Holding, Presenting
<1> QED
  BY <1>1, <1>2, <1>3, <1>4, <1>5, <1>6, <1>7, <1>8, <1>9, <1>10, <1>11, <1>12, <1>13, <1>14, <1>15
  DEF Next, DrawFrameStep, Display

\* Whatever the external calls answer, with any number of frames in flight,
\* views and images, no swapchain is destroyed and no image displayed or given
\* back under a draw that the GPU has yet to run: the wait of the desktop's
\* recreate, the semaphore of its present and the wait before an OpenXR release
\* are enough (Renderer::drawFrame, both swapchain contexts).
THEOREM DrawTargetsLiveAlways == Spec => []DrawTargetsLive
<1> DEFINE IInv == TypeOK /\ SlotInv /\ TargetInv
<1>1. Init => IInv
  BY TypeInit, SlotInvInit, TargetInit
<1>2. IInv /\ [Next]_vars => IInv'
  BY TypeStep, SlotInvStep, HeldStep, LiveStep, DrainedStep, DesktopStep DEF TargetInv
<1>3. IInv => DrawTargetsLive
  BY DEF TargetInv
<1> QED BY <1>1, <1>2, <1>3, PTL DEF Spec
=============================================================================
