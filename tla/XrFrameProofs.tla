--------------------------- MODULE XrFrameProofs ---------------------------
(***************************************************************************)
(* The session flag, the order of the frame calls and the projection       *)
(* layers, for any number of views, either loop, and whatever the runtime  *)
(* refuses.                                                                *)
(***************************************************************************)
EXTENDS XrFrame, TLAPS

\* The indices whose swapchain got its image back in this frame.
Released == IF pc = "end" THEN 0 .. count - 1 ELSE IF pc = "release" THEN 0 .. k - 1 ELSE {}

\* The release loop has gone over the swapchains it has passed.
IInv ==
  /\ TypeOK /\ SessionAgrees /\ FrameOrder
  /\ Released \subseteq shown

LEMMA Constants ==
  /\ NViews \in Nat \ {0}
  /\ \A mode \in BOOLEAN : FullCount(mode) \in 1 .. NViews
  /\ \A mode \in BOOLEAN, refused \in BOOLEAN :
       SwapchainCounts(mode, refused) \subseteq 0 .. NViews
BY ParametersAssumption DEF FullCount, SwapchainCounts

\* drawFrame is left for the poll, the next turn of the loop, or its end.
LEMMA ReturnLeaves ==
  ASSUME NEW e, Return(e)
  PROVE  pc' \in {"top", "poll", "done"} /\ last' = e
BY ParametersAssumption DEF Return, AfterRender

\* Every refusal is an error of Error.hpp.
LEMMA OutcomeTyped ==
  ASSUME NEW call, NEW failures \in SUBSET {"SwapchainOutOfDate", "NotReady", "RuntimeError"},
         NEW e \in Outcome(call, failures)
  PROVE  e \in Errors
BY DEF Outcome, Errors, Recoverable, IsFatal

LEMMA InitInv == Init => IInv
<1> SUFFICES ASSUME Init PROVE IInv
  OBVIOUS
<1>1. multiview \in BOOLEAN
  BY ParametersAssumption DEF Init
<1>2. count \in 0 .. NViews
  <2>1. CASE "create" \in Failing
    BY <1>1, <2>1, Constants DEF Init, SwapchainCounts
  <2>2. CASE "create" \notin Failing
    BY <1>1, <2>2, Constants DEF Init, SwapchainCounts
  <2> QED BY <2>1, <2>2
<1>3. layers \in [Views -> {"none", "live", "dead"}] /\ image \in [Views -> {"none", "acquired", "ready"}]
  BY DEF Init
<1>4. events \in Seq({"READY", "STOPPING", "EXITING", "LOSS_PENDING"})
  BY DEF Init
<1>5. k \in 0 .. NViews
  BY Constants DEF Init
<1>6. TypeOK
  BY <1>1, <1>2, <1>3, <1>4, <1>5 DEF Init, TypeOK, SessionStates
<1>7. SessionAgrees /\ FrameOrder
  BY DEF Init, SessionAgrees, FrameOrder, InFrame
<1>8. Released = {}
  BY DEF Init, Released
<1> QED BY <1>6, <1>7, <1>8 DEF IInv

\* A call that returns an error and leaves the frame and the runtime alone has only
\* its place and the swapchains to answer for.
LEMMA Elsewhere ==
  ASSUME IInv, UNCHANGED <<appVars, frameVars, runtimeVars, beginRefused>>,
         NEW e \in Errors \ {"Ok"}, last' = e,
         pc # "begin", pc' \in {"top", "poll", "done"}, k' \in 0 .. NViews,
         multiview' \in BOOLEAN, count' \in 0 .. NViews,
         layers' \in [Views -> {"none", "live", "dead"}],
         image' \in [Views -> {"none", "acquired", "ready"}], shown' \subseteq Views
  PROVE  IInv'
BY DEF IInv, TypeOK, SessionAgrees, FrameOrder, InFrame, Released, appVars, frameVars, runtimeVars

\* Recreating destroys images and layers, and counts what the runtime grants.
LEMMA RecreateTyped ==
  ASSUME TypeOK, RecreateSwapchain
  PROVE  /\ multiview' \in BOOLEAN /\ count' \in 0 .. NViews
         /\ layers' \in [Views -> {"none", "live", "dead"}]
         /\ image' \in [Views -> {"none", "acquired", "ready"}] /\ shown' \subseteq Views
BY Constants DEF TypeOK, RecreateSwapchain

LEMMA FrameStep == IInv /\ Frame => IInv'
<1> SUFFICES ASSUME IInv, Frame PROVE IInv'
  OBVIOUS
<1> USE DEF appVars, frameVars, runtimeVars, swapchainVars, historyVars
<1>1. CASE LoopTop
  BY <1>1 DEF LoopTop, IInv, TypeOK, SessionAgrees, FrameOrder, InFrame, Released
<1>2. CASE WaitFrame
  <2>0. pc = "wait" /\ UNCHANGED <<k, begun, beginRefused, appVars, swapchainVars, runtimeVars>>
    BY <1>2 DEF WaitFrame
  <2>1. CASE ~sessionRunning /\ Return("NotReady") /\ UNCHANGED waited
    <3>1. "NotReady" \in Errors \ {"Ok"}
      BY DEF Errors, Recoverable, IsFatal
    <3> QED BY <2>0, <2>1, <3>1, ReturnLeaves, Elsewhere DEF IInv, TypeOK
  <2>2. CASE sessionRunning
    <3>1. PICK e \in Outcome("waitFrame", {"NotReady", "RuntimeError"}) :
            \/ e = "Ok" /\ ~waited /\ waited' = TRUE /\ pc' = "begin" /\ UNCHANGED last
            \/ e # "Ok" /\ Return(e) /\ UNCHANGED waited
      BY <1>2, <2>2 DEF WaitFrame
    <3>2. CASE pc' = "begin" /\ waited' = TRUE /\ UNCHANGED last
      BY <2>0, <3>2 DEF IInv, TypeOK, SessionAgrees, FrameOrder, InFrame, Released
    <3>3. CASE e # "Ok" /\ Return(e) /\ UNCHANGED waited
      <4>1. e \in Errors \ {"Ok"}
        BY <3>3, OutcomeTyped
      <4> QED BY <2>0, <3>3, <4>1, ReturnLeaves, Elsewhere DEF IInv, TypeOK
    <3> QED BY <3>1, <3>2, <3>3
  <2> QED BY <1>2, <2>1, <2>2 DEF WaitFrame
<1>3. CASE BeginFrame
  <2>1. PICK e \in Outcome("beginFrame", {"NotReady", "RuntimeError"}), shouldRender \in BOOLEAN :
          /\ beginRefused' = (e # "Ok")
          /\ \/ e # "Ok" /\ Return(e) /\ UNCHANGED frameVars
             \/ e = "Ok" /\ begun /\ waited' = FALSE /\ Return("RuntimeError") /\ UNCHANGED begun
             \/ /\ e = "Ok" /\ ~begun /\ waited' = FALSE
                /\ \E end \in Outcome("end", {"RuntimeError"}) : begun' = (shouldRender \/ end # "Ok")
                /\ IF shouldRender THEN pc' = "locate" /\ UNCHANGED last ELSE Return("NotReady")
    BY <1>3 DEF BeginFrame
  <2>2. pc = "begin" /\ UNCHANGED <<k, appVars, swapchainVars, runtimeVars>>
    BY <1>3 DEF BeginFrame
  <2>3. CASE e # "Ok" /\ Return(e) /\ UNCHANGED frameVars
    <3>1. e \in Errors \ {"Ok"} /\ pc' \in {"top", "poll", "done"} /\ last' = e /\ beginRefused' = TRUE
      BY <2>1, <2>3, OutcomeTyped, ReturnLeaves
    <3> QED BY <2>2, <2>3, <3>1
            DEF IInv, TypeOK, SessionAgrees, FrameOrder, InFrame, Released
  <2>4. CASE e = "Ok" /\ begun /\ waited' = FALSE /\ Return("RuntimeError") /\ UNCHANGED begun
    <3>1. pc' \in {"top", "poll", "done"} /\ last' = "RuntimeError" /\ beginRefused' = FALSE
      BY <2>1, <2>4, ReturnLeaves
    <3>2. "RuntimeError" \in Errors
      BY DEF Errors, IsFatal
    <3> QED BY <2>2, <2>4, <3>1, <3>2 DEF IInv, TypeOK, SessionAgrees, FrameOrder, InFrame, Released
  <2>5. CASE /\ e = "Ok" /\ waited' = FALSE
             /\ \E end \in Outcome("end", {"RuntimeError"}) : begun' = (shouldRender \/ end # "Ok")
             /\ IF shouldRender THEN pc' = "locate" /\ UNCHANGED last ELSE Return("NotReady")
    <3>1. begun' \in BOOLEAN /\ (shouldRender => begun' = TRUE) /\ beginRefused' = FALSE
      BY <2>1, <2>5
    <3>2. IF shouldRender THEN pc' = "locate" /\ UNCHANGED last
                          ELSE pc' \in {"top", "poll", "done"} /\ last' = "NotReady"
      BY <2>5, ReturnLeaves
    <3>3. "NotReady" \in Errors
      BY DEF Errors, Recoverable
    <3> QED BY <2>2, <2>5, <3>1, <3>2, <3>3
            DEF IInv, TypeOK, SessionAgrees, FrameOrder, InFrame, Released
  <2> QED BY <2>1, <2>3, <2>4, <2>5
<1>4. CASE LocateViews
  <2>1. PICK e \in Outcome("locate", {"NotReady", "RuntimeError"}) :
          IF e = "Ok" THEN pc' = "acquire" /\ UNCHANGED last ELSE Return(e)
    BY <1>4 DEF LocateViews
  <2>2. /\ pc = "locate" /\ k' = 0
        /\ UNCHANGED <<beginRefused, appVars, swapchainVars, frameVars, runtimeVars>>
    BY <1>4 DEF LocateViews
  <2>3. CASE e = "Ok"
    BY <2>1, <2>2, <2>3, Constants DEF IInv, TypeOK, SessionAgrees, FrameOrder, InFrame, Released
  <2>4. CASE e # "Ok"
    <3>1. e \in Errors \ {"Ok"}
      BY <2>4, OutcomeTyped
    <3> QED BY <2>1, <2>2, <2>4, <3>1, Constants, ReturnLeaves, Elsewhere DEF IInv, TypeOK
  <2> QED BY <2>3, <2>4
<1>5. CASE AcquireImage
  <2>1. PICK e \in Outcome("acquire", {"SwapchainOutOfDate"}) :
          IF e = "Ok"
          THEN /\ \E w \in Outcome("wait", {"RuntimeError"}) :
                    image' = [image EXCEPT ![k] = IF w = "Ok" /\ @ = "none" THEN "ready"
                                                                            ELSE "acquired"]
               /\ k' = k + 1
               /\ UNCHANGED <<pc, last, multiview, count, layers, shown>>
          ELSE RecreateSwapchain /\ Return("SwapchainOutOfDate") /\ UNCHANGED k
    BY <1>5 DEF AcquireImage
  <2>2. pc = "acquire" /\ k < count /\ UNCHANGED <<beginRefused, appVars, frameVars, runtimeVars>>
    BY <1>5 DEF AcquireImage
  <2>3. CASE e = "Ok"
    <3>1. PICK c \in {"ready", "acquired"} : image' = [image EXCEPT ![k] = c]
      BY <2>1, <2>3
    <3>2. image' \in [Views -> {"none", "acquired", "ready"}]
      BY <3>1 DEF IInv, TypeOK
    <3>3. k' \in 0 .. NViews
      BY <2>1, <2>2, <2>3, Constants DEF IInv, TypeOK
    <3> QED BY <2>1, <2>2, <2>3, <3>2, <3>3 DEF IInv, TypeOK, SessionAgrees, FrameOrder, InFrame, Released
  <2>4. CASE e # "Ok"
    <3>1. "SwapchainOutOfDate" \in Errors \ {"Ok"}
      BY DEF Errors, Recoverable
    <3> QED BY <2>1, <2>2, <2>4, <3>1, RecreateTyped, ReturnLeaves, Elsewhere DEF IInv, TypeOK
  <2> QED BY <2>3, <2>4
<1>6. CASE EndAcquire
  BY <1>6 DEF EndAcquire, IInv, TypeOK, SessionAgrees, FrameOrder, InFrame, Released
<1>7. CASE Draw
  <2>1. /\ pc = "draw" /\ k' = 0
        /\ UNCHANGED <<beginRefused, appVars, swapchainVars, frameVars, runtimeVars>>
    BY <1>7 DEF Draw
  <2>2. CASE pc' = "release" /\ UNCHANGED last
    BY <2>1, <2>2, Constants DEF IInv, TypeOK, SessionAgrees, FrameOrder, InFrame, Released
  <2>3. CASE Return("RuntimeError")
    <3>1. "RuntimeError" \in Errors \ {"Ok"}
      BY DEF Errors, IsFatal
    <3> QED BY <2>1, <2>3, <3>1, Constants, ReturnLeaves, Elsewhere DEF IInv, TypeOK
  <2> QED BY <1>7, <2>2, <2>3 DEF Draw
<1>8. CASE ReleaseImage
  <2>1. PICK e \in Outcome("release", {"RuntimeError"}) :
          IF e = "Ok" /\ image[k] = "ready"
          THEN /\ image' = [image EXCEPT ![k] = "none"]
               /\ shown' = shown \cup {k}
               /\ k' = k + 1
               /\ UNCHANGED <<pc, last>>
          ELSE /\ Return(IF e = "Ok" THEN "RuntimeError" ELSE e)
               /\ UNCHANGED <<k, image, shown>>
    BY <1>8 DEF ReleaseImage
  <2>2. /\ pc = "release" /\ k < count
        /\ UNCHANGED <<beginRefused, multiview, count, layers, appVars, frameVars, runtimeVars>>
    BY <1>8 DEF ReleaseImage
  <2>3. CASE e = "Ok" /\ image[k] = "ready"
    <3>1. /\ image' = [image EXCEPT ![k] = "none"] /\ shown' = shown \cup {k}
          /\ k' = k + 1 /\ UNCHANGED <<pc, last>>
      BY <2>1, <2>3
    <3>2. k \in Views /\ k' \in 0 .. NViews /\ 0 .. k' - 1 = (0 .. k - 1) \cup {k}
      BY <2>2, <3>1, Constants DEF IInv, TypeOK, Views
    <3>3. image' \in [Views -> {"none", "acquired", "ready"}] /\ shown' \subseteq Views
      BY <3>1, <3>2 DEF IInv, TypeOK
    <3>4. Released' \subseteq shown'
      BY <2>2, <3>1, <3>2 DEF IInv, Released
    <3> QED BY <2>2, <3>1, <3>2, <3>3, <3>4 DEF IInv, TypeOK, SessionAgrees, FrameOrder, InFrame
  <2>4. CASE ~(e = "Ok" /\ image[k] = "ready")
    <3>1. (IF e = "Ok" THEN "RuntimeError" ELSE e) \in Errors \ {"Ok"}
      BY OutcomeTyped DEF Errors, IsFatal
    <3> QED BY <2>1, <2>2, <2>4, <3>1, ReturnLeaves, Elsewhere DEF IInv, TypeOK
  <2> QED BY <2>3, <2>4
<1>9. CASE EndRelease
  BY <1>9 DEF EndRelease, IInv, TypeOK, SessionAgrees, FrameOrder, InFrame, Released
<1>10. CASE EndFrame
  <2>1. /\ pc = "end" /\ layers' = UpdatedLayers
        /\ UNCHANGED <<k, beginRefused, multiview, count, image, shown, waited, appVars, runtimeVars>>
    BY <1>10 DEF EndFrame
  <2> DEFINE composed(e) == e = "Ok" /\ \A v \in Views : Composable(v)
  <2>2. PICK e \in Outcome("end", {"NotReady", "RuntimeError"}) :
          /\ begun' = ~composed(e)
          /\ Return(IF e = "Ok" /\ ~composed(e) THEN "RuntimeError" ELSE e)
    BY <1>10 DEF EndFrame
  <2>3. last' \in Errors /\ (begun' => last' # "Ok") /\ pc' \in {"top", "poll", "done"} /\ begun' \in BOOLEAN
    <3>1. e \in Errors /\ "RuntimeError" \in Errors
      BY OutcomeTyped DEF Errors, IsFatal
    <3>2. CASE composed(e)
      <4>1. begun' = FALSE /\ Return(e)
        BY <2>2, <3>2
      <4> QED BY <3>1, <4>1, ReturnLeaves
    <3>3. CASE ~composed(e) /\ e = "Ok"
      <4>1. begun' = TRUE /\ Return("RuntimeError")
        BY <2>2, <3>3
      <4> QED BY <3>1, <4>1, ReturnLeaves
    <3>4. CASE e # "Ok"
      <4>1. begun' = TRUE /\ Return(e)
        BY <2>2, <3>4
      <4> QED BY <3>1, <3>4, <4>1, ReturnLeaves
    <3> QED BY <3>2, <3>3, <3>4
  <2> HIDE DEF composed
  <2>4. layers' \in [Views -> {"none", "live", "dead"}]
    BY <2>1 DEF UpdatedLayers, IInv, TypeOK
  <2> QED BY <2>1, <2>3, <2>4 DEF IInv, TypeOK, SessionAgrees, FrameOrder, InFrame, Released
<1> QED BY <1>1, <1>2, <1>3, <1>4, <1>5, <1>6, <1>7, <1>8, <1>9, <1>10 DEF Frame

LEMMA PollStep == IInv /\ Poll => IInv'
<1> SUFFICES ASSUME IInv, Poll PROVE IInv'
  OBVIOUS
<1> USE DEF appVars, frameVars, runtimeVars, swapchainVars, historyVars
<1>1. CASE StartPoll
  BY <1>1 DEF StartPoll, IInv, TypeOK, SessionAgrees, FrameOrder, InFrame, Released
<1>2. CASE HandleEvent
  <2>1. /\ pc = "drain" /\ UNCHANGED <<pc, k, swapchainVars, historyVars>>
        /\ events # <<>> /\ events' = Tail(events)
    BY <1>2 DEF HandleEvent
  <2>2. events' \in Seq({"READY", "STOPPING", "EXITING", "LOSS_PENDING"})
    BY <2>1 DEF IInv, TypeOK
  <2>3. CASE HandleReady
    <3>1. /\ UNCHANGED <<shouldClose, lastError, waited, begun>>
          /\ \/ state = "ready" /\ state' = "running" /\ sessionRunning' = TRUE
             \/ UNCHANGED <<state, sessionRunning>>
      BY <2>3 DEF HandleReady
    <3>2. TypeOK'
      BY <2>1, <2>2, <3>1 DEF IInv, TypeOK, SessionStates
    <3> QED BY <2>1, <3>1, <3>2 DEF IInv, SessionAgrees, FrameOrder, InFrame, Released
  <2>4. CASE HandleStopping
    <3>1. /\ UNCHANGED <<shouldClose, lastError>>
          /\ UNCHANGED frameVars \/ (waited' = FALSE /\ begun' = FALSE)
          /\ \/ state = "stopping" /\ state' = "idle" /\ sessionRunning' = FALSE
             \/ UNCHANGED <<state, sessionRunning>>
      BY <2>4 DEF HandleStopping
    <3>2. CASE UNCHANGED frameVars
      <4>1. TypeOK'
        BY <2>1, <2>2, <3>1, <3>2 DEF IInv, TypeOK, SessionStates
      <4> QED BY <2>1, <3>1, <3>2, <4>1 DEF IInv, SessionAgrees, FrameOrder, InFrame, Released
    <3>3. CASE waited' = FALSE /\ begun' = FALSE
      <4>1. TypeOK'
        BY <2>1, <2>2, <3>1, <3>3 DEF IInv, TypeOK, SessionStates
      <4> QED BY <2>1, <3>1, <3>3, <4>1 DEF IInv, SessionAgrees, FrameOrder, InFrame, Released
    <3> QED BY <3>1, <3>2, <3>3
  <2>5. CASE HandleClose
    BY <2>1, <2>2, <2>5
       DEF HandleClose, IInv, TypeOK, SessionAgrees, FrameOrder, InFrame, Released, SessionStates
  <2> QED BY <1>2, <2>3, <2>4, <2>5 DEF HandleEvent
<1>3. CASE EndPoll
  BY <1>3 DEF EndPoll, IInv, TypeOK, SessionAgrees, FrameOrder, InFrame, Released
<1> QED BY <1>1, <1>2, <1>3 DEF Poll

\* What the runtime announces changes its state and its queue.
LEMMA AnnounceStep ==
  ASSUME IInv, NEW from, NEW to \in SessionStates,
         NEW event \in {"READY", "STOPPING", "EXITING", "LOSS_PENDING"},
         Announce(from, to, event),
         state # "lost",
         to # "lost" => (state \in {"running", "stopping"} <=> to \in {"running", "stopping"})
  PROVE  IInv'
BY DEF Announce, IInv, TypeOK, SessionAgrees, FrameOrder, InFrame, Released, appVars, swapchainVars, frameVars, historyVars

LEMMA RuntimeStep == IInv /\ Runtime => IInv'
<1> SUFFICES ASSUME IInv, Runtime PROVE IInv'
  OBVIOUS
<1>1. CASE RuntimeReady
  BY <1>1, AnnounceStep DEF RuntimeReady, SessionStates, Announce
<1>2. CASE RuntimeStops
  BY <1>2, AnnounceStep DEF RuntimeStops, SessionStates, Announce
<1>3. CASE RuntimeExits
  BY <1>3, AnnounceStep DEF RuntimeExits, SessionStates, Announce
<1>4. CASE RuntimeLosesSession
  BY <1>4, AnnounceStep DEF RuntimeLosesSession, SessionStates, Announce
<1> QED BY <1>1, <1>2, <1>3, <1>4 DEF Runtime

LEMMA StepInv == IInv /\ [Next]_vars => IInv'
<1> SUFFICES ASSUME IInv, [Next]_vars PROVE IInv'
  OBVIOUS
<1>1. CASE UNCHANGED vars
  BY <1>1 DEF vars, appVars, swapchainVars, frameVars, runtimeVars, historyVars, IInv, TypeOK,
       SessionAgrees, FrameOrder, InFrame, Released
<1> QED BY <1>1, FrameStep, PollStep, RuntimeStep DEF Next

\* With all its swapchains released, every view has one to show.
LEMMA AllComposable == IInv => LayersComplete
<1> SUFFICES ASSUME IInv, pc = "end", count = FullCount(multiview), NEW v \in Views
             PROVE  Composable(v)
  BY DEF LayersComplete
<1>1. SwapchainIndex(v) \in 0 .. count - 1
  BY Constants DEF SwapchainIndex, FullCount, Views, IInv, TypeOK
<1>2. SwapchainIndex(v) \in shown
  BY <1>1 DEF IInv, Released
<1> QED BY <1>1, <1>2, Constants DEF Composable, UpdatedLayers, IInv, TypeOK

LEMMA Invariant == Spec => []IInv
BY InitInv, StepInv, PTL DEF Spec

\* _sessionRunning is TRUE exactly while the runtime has a session that was begun
\* and not ended, although the thread learns of it by events only.
THEOREM SessionAgreesAlways == Spec => []SessionAgrees
<1>1. IInv => SessionAgrees
  BY DEF IInv
<1> QED BY <1>1, Invariant, PTL

\* Whichever of its calls the runtime refuses, drawFrame works on a frame that is
\* begun; xrWaitFrame is called on one that is not only after its xrBeginFrame was
\* refused, and xrBeginFrame with another one open only after a call that failed.
THEOREM FrameOrderAlways == Spec => []FrameOrder
<1>1. IInv => FrameOrder
  BY DEF IInv
<1> QED BY <1>1, Invariant, PTL

\* For any number of views, the layers handed to xrEndFrame name swapchains that
\* are alive and were released to, once none of them was refused.
THEOREM LayersCompleteAlways == Spec => []LayersComplete
BY Invariant, AllComposable, PTL
=============================================================================
