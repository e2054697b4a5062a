------------------------------ MODULE XrFrame ------------------------------
(***************************************************************************)
(* The OpenXR side of the frame loop: the thread that calls update, render *)
(* and pollEvents, and the runtime that moves the session through its      *)
(* states, queues events and refuses calls made in the wrong order.        *)
(*                                                                         *)
(* The middle of Renderer::drawFrame is one step here, Draw (the module    *)
(* DrawFrame has it in full); what matters is which xr* calls were made    *)
(* before the call returned.  The runtime's states between RUNNING and     *)
(* STOPPING (synchronized, visible, focused) are one state, "running":     *)
(* pollEvents ignores the events that announce them.                       *)
(***************************************************************************)
EXTENDS Naturals, Sequences, FiniteSets

CONSTANTS
  NViews,          \* views of the session, one per eye
  MultiviewModes,  \* values of _multiviewEnabled
  Loop,            \* "documented" (docs/ERROR_HANDLING.md) or "example" (examples/)
  Failing          \* calls the runtime may refuse, although the session is not lost

Calls == {"waitFrame", "beginFrame", "locate", "acquire", "wait", "submit", "release",
          "end", "beginSession", "endSession", "create"}

ASSUME ParametersAssumption ==
  /\ NViews \in Nat \ {0}
  /\ MultiviewModes \subseteq BOOLEAN
  /\ Loop \in {"documented", "example"}
  /\ Failing \subseteq Calls

Views == 0 .. NViews - 1

\* Error.hpp: what drawFrame returns here.
Recoverable == {"SwapchainOutOfDate", "NotReady"}
IsFatal == {"RuntimeLost", "RuntimeError"}
Errors == {"Ok"} \cup Recoverable \cup IsFatal

VARIABLES
  pc,              \* where the thread is
  sessionRunning,  \* XrDeviceBackend::_sessionRunning
  shouldClose,     \* IXrPlatform::_shouldClose
  lastError,       \* IXrPlatform::_lastError
  multiview,       \* XrSwapchainContext::_multiviewEnabled
  count,           \* _swapchainImages.size()
  k,               \* swapchain index of the acquire and release loops
  layers,          \* _projectionLayerViews[i].subImage.swapchain, and whether it is alive
  image,           \* runtime: what is out of each swapchain
  shown,           \* runtime: swapchains an image was ever released to
  state,           \* runtime: the session state
  events,          \* runtime: events not yet polled
  waited,          \* runtime: a frame was waited for and not begun
  begun,           \* runtime: a frame was begun and not ended
  last,            \* history: what the last call of render() returned
  beginRefused     \* history: the last xrBeginFrame was refused

appVars == <<sessionRunning, shouldClose, lastError>>
swapchainVars == <<multiview, count, layers, image, shown>>
frameVars == <<waited, begun>>
runtimeVars == <<state, events>>
historyVars == <<last, beginRefused>>
vars == <<pc, k, appVars, swapchainVars, frameVars, runtimeVars, historyVars>>

SessionStates == {"idle", "ready", "running", "stopping", "exiting", "lost"}

TypeOK ==
  /\ pc \in {"top", "wait", "begin", "locate", "acquire", "draw", "release", "end",
             "poll", "drain", "done"}
  /\ sessionRunning \in BOOLEAN /\ shouldClose \in BOOLEAN
  /\ lastError \in {"Ok", "RuntimeLost"}
  /\ multiview \in BOOLEAN
  /\ count \in 0 .. NViews /\ k \in 0 .. NViews
  /\ layers \in [Views -> {"none", "live", "dead"}]
  /\ image \in [Views -> {"none", "acquired", "ready"}]
  /\ shown \subseteq Views
  /\ state \in SessionStates
  /\ events \in Seq({"READY", "STOPPING", "EXITING", "LOSS_PENDING"})
  /\ waited \in BOOLEAN /\ begun \in BOOLEAN
  /\ last \in Errors \cup {"none"} /\ beginRefused \in BOOLEAN

-----------------------------------------------------------------------------
(* What the runtime answers.                                               *)

\* A call succeeds, fails in one of the given ways if it may, or reports a loss.
Outcome(call, failures) ==
  {"Ok"} \cup (IF call \in Failing THEN failures ELSE {})
         \cup (IF state = "lost" THEN {"RuntimeLost"} ELSE {})

\* createMultiviewSwapchain() and createPerViewSwapchains(): one swapchain or one
\* per view, minus those the runtime refuses.
FullCount(mode) == IF mode THEN 1 ELSE NViews

SwapchainCounts(mode, refused) ==
  IF refused THEN 0 .. FullCount(mode) ELSE {FullCount(mode)}

\* Mutant: every view has a swapchain of its own.
OwnSwapchain(v) == v

\* ViewSet::swapchainIndex
SwapchainIndex(v) == IF multiview THEN 0 ELSE v

Init ==
  /\ pc = "top" /\ k = 0
  /\ sessionRunning = FALSE /\ shouldClose = FALSE /\ lastError = "Ok"
  /\ multiview \in {m \in MultiviewModes : m => NViews = 2}
  /\ count \in SwapchainCounts(multiview, "create" \in Failing)
  /\ multiview => count = 1  \* a refused layered swapchain means no multiview
  /\ layers = [v \in Views |-> "none"]
  /\ image = [v \in Views |-> "none"] /\ shown = {}
  /\ state = "idle" /\ events = <<>>
  /\ waited = FALSE /\ begun = FALSE
  /\ last = "none" /\ beginRefused = FALSE

-----------------------------------------------------------------------------
(* The consumer's loop.                                                    *)

\* Mutant: events are polled only after a frame that succeeded.
PollAfterOk(e) == IF e = "Ok" THEN "poll" ELSE "top"

\* Mutant: a frame that failed fatally is retried at once.
PollUnlessFatal(e) == IF e \in IsFatal THEN "top" ELSE "poll"

\* Where the loop goes with what render() returned.  The example ignores it; the
\* documented loop retries on a recoverable error and leaves on a fatal one.
AfterRender(e) ==
  CASE Loop = "example" \/ e = "Ok" -> "poll"
    [] Loop = "documented" /\ e \in Recoverable -> "top"
    [] OTHER -> "done"

Return(e) == pc' = AfterRender(e) /\ last' = e

\* while (!platform->shouldClose()) { engine.update(); engine.render();
LoopTop ==
  /\ pc = "top"
  /\ pc' = IF shouldClose THEN "done" ELSE "wait"
  /\ UNCHANGED <<k, appVars, swapchainVars, frameVars, runtimeVars, historyVars>>

\* preprocessFrame: only a running session waits for a frame.  A wait does not
\* return before the frame that was waited for last is begun; a refused one waits
\* for nothing.
WaitFrame ==
  /\ pc = "wait"
  /\ \/ ~sessionRunning /\ Return("NotReady") /\ UNCHANGED waited
     \/ /\ sessionRunning /\ (~waited \/ state = "lost")
        /\ \E e \in Outcome("waitFrame", {"NotReady", "RuntimeError"}) :
             \/ e = "Ok" /\ ~waited /\ waited' = TRUE /\ pc' = "begin" /\ UNCHANGED last
             \/ e # "Ok" /\ Return(e) /\ UNCHANGED waited
  /\ UNCHANGED <<k, begun, beginRefused, appVars, swapchainVars, runtimeVars>>

\* Mutant: shouldRender is looked at before the frame is begun.
SkipBeforeBegin ==
  /\ pc = "begin"
  /\ \/ Return("NotReady") /\ UNCHANGED frameVars
     \/ waited' = FALSE /\ begun' = TRUE /\ pc' = "locate" /\ UNCHANGED last
  /\ UNCHANGED <<k, beginRefused, appVars, swapchainVars, runtimeVars>>

\* preprocessFrame: a refused begin leaves the frame waited for.  Beginning a frame
\* while another is open discards that one, which xrBeginFrame reports by a code
\* other than XR_SUCCESS: an error here, with the new frame open.  A frame the
\* runtime does not want rendered is ended at once, with no layer; nobody looks
\* at whether the runtime took it.
BeginFrame ==
  /\ pc = "begin"
  /\ \E e \in Outcome("beginFrame", {"NotReady", "RuntimeError"}), shouldRender \in BOOLEAN :
       /\ beginRefused' = (e # "Ok")
       /\ \/ e # "Ok" /\ Return(e) /\ UNCHANGED frameVars
          \/ e = "Ok" /\ begun /\ waited' = FALSE /\ Return("RuntimeError") /\ UNCHANGED begun
          \/ /\ e = "Ok" /\ ~begun /\ waited' = FALSE
             /\ \E end \in Outcome("end", {"RuntimeError"}) : begun' = (shouldRender \/ end # "Ok")
             /\ IF shouldRender THEN pc' = "locate" /\ UNCHANGED last ELSE Return("NotReady")
  /\ UNCHANGED <<k, appVars, swapchainVars, runtimeVars>>

\* preprocessFrame: a failure returns with the frame begun.
LocateViews ==
  /\ pc = "locate"
  /\ \E e \in Outcome("locate", {"NotReady", "RuntimeError"}) :
       IF e = "Ok" THEN pc' = "acquire" /\ UNCHANGED last ELSE Return(e)
  /\ k' = 0
  /\ UNCHANGED <<beginRefused, appVars, swapchainVars, frameVars, runtimeVars>>

\* Mutant: the images of the old swapchains are not cleared.
RecreateAppends ==
  /\ \E n \in SwapchainCounts(multiview, "create" \in Failing \/ state = "lost") :
       count' = count + n
  /\ layers' = [v \in Views |-> IF layers[v] = "live" THEN "dead" ELSE layers[v]]
  /\ image' = [v \in Views |-> "none"] /\ shown' = {}
  /\ UNCHANGED multiview

\* recreateSwapchain(): every swapchain is destroyed, so that the layers still
\* naming one name a dead handle, and new ones are created.
RecreateSwapchain ==
  /\ count' \in SwapchainCounts(multiview, "create" \in Failing \/ state = "lost")
  /\ layers' = [v \in Views |-> IF layers[v] = "live" THEN "dead" ELSE layers[v]]
  /\ image' = [v \in Views |-> "none"] /\ shown' = {}
  /\ UNCHANGED multiview

\* One turn of the acquire loop: aquireImage(), then waitForImage(), whose
\* failure is only logged.  The runtime refuses the wait while an older image
\* of the swapchain is out.  Any failed acquire recreates (a wait is made first,
\* to no effect on what follows), and returns with the frame begun.
AcquireImage ==
  /\ pc = "acquire" /\ k < count
  /\ \E e \in Outcome("acquire", {"SwapchainOutOfDate"}) :
       IF e = "Ok"
       THEN /\ \E w \in Outcome("wait", {"RuntimeError"}) :
                 image' = [image EXCEPT ![k] = IF w = "Ok" /\ @ = "none" THEN "ready"
                                                                         ELSE "acquired"]
            /\ k' = k + 1
            /\ UNCHANGED <<pc, last, multiview, count, layers, shown>>
       ELSE RecreateSwapchain /\ Return("SwapchainOutOfDate") /\ UNCHANGED k
  /\ UNCHANGED <<beginRefused, appVars, frameVars, runtimeVars>>

EndAcquire ==
  /\ pc = "acquire" /\ k = count
  /\ pc' = "draw"
  /\ UNCHANGED <<k, appVars, swapchainVars, frameVars, runtimeVars, historyVars>>

\* Record, submit and wait for the draws.
Draw ==
  /\ pc = "draw"
  /\ k' = 0
  /\ \/ pc' = "release" /\ UNCHANGED last
     \/ "submit" \in Failing /\ Return("RuntimeError")
  /\ UNCHANGED <<beginRefused, appVars, swapchainVars, frameVars, runtimeVars>>

\* processFrame(), one turn of the present loop: the runtime takes back only an
\* image that was waited for.
ReleaseImage ==
  /\ pc = "release" /\ k < count
  /\ \E e \in Outcome("release", {"RuntimeError"}) :
       IF e = "Ok" /\ image[k] = "ready"
       THEN /\ image' = [image EXCEPT ![k] = "none"]
            /\ shown' = shown \cup {k}
            /\ k' = k + 1
            /\ UNCHANGED <<pc, last>>
       ELSE /\ Return(IF e = "Ok" THEN "RuntimeError" ELSE e)
            /\ UNCHANGED <<k, image, shown>>
  /\ UNCHANGED <<beginRefused, multiview, count, layers, appVars, frameVars, runtimeVars>>

EndRelease ==
  /\ pc = "release" /\ k = count
  /\ pc' = "end"
  /\ UNCHANGED <<k, appVars, swapchainVars, frameVars, runtimeVars, historyVars>>

\* updateProjectionLayerViews(): a view without a swapchain keeps its old entry.
UpdatedLayers ==
  [v \in Views |-> IF SwapchainIndex(v) < count THEN "live" ELSE layers[v]]

\* The runtime composes live swapchains an image was released to.
Composable(v) == UpdatedLayers[v] = "live" /\ SwapchainIndex(v) \in shown

\* postprocessFrame(): a refused frame stays open.
EndFrame ==
  /\ pc = "end"
  /\ layers' = UpdatedLayers
  /\ \E e \in Outcome("end", {"NotReady", "RuntimeError"}) :
       LET composed == e = "Ok" /\ \A v \in Views : Composable(v) IN
       /\ begun' = ~composed
       /\ Return(IF e = "Ok" /\ ~composed THEN "RuntimeError" ELSE e)
  /\ UNCHANGED <<k, beginRefused, multiview, count, image, shown, waited, appVars, runtimeVars>>

-----------------------------------------------------------------------------
(* IXrPlatform::pollEvents.                                                *)

StartPoll ==
  /\ pc = "poll"
  /\ lastError' = "Ok"
  /\ pc' = "drain"
  /\ UNCHANGED <<k, sessionRunning, shouldClose, swapchainVars, frameVars, runtimeVars, historyVars>>

\* READY: begin the session.  A refusal is logged and READY does not come again.
\* The field next of the XrSessionBeginInfo is never set, so that even a runtime
\* that is ready may refuse it ("beginSession" in Failing).
HandleReady ==
  /\ Head(events) = "READY"
  /\ \/ /\ state = "ready"
        /\ state' = "running" /\ sessionRunning' = TRUE
     \/ /\ "beginSession" \in Failing \/ state # "ready"
        /\ UNCHANGED <<state, sessionRunning>>
  /\ UNCHANGED <<shouldClose, lastError, frameVars>>

\* Mutant: the session is ended but still counts as running.
StopKeepsRunning ==
  /\ Head(events) = "STOPPING"
  /\ state' = IF state = "stopping" THEN "idle" ELSE state
  /\ UNCHANGED <<sessionRunning, shouldClose, lastError, frameVars>>

\* STOPPING: end the session; whether that ends the frame that was waited for or
\* begun is the runtime's.
HandleStopping ==
  /\ Head(events) = "STOPPING"
  /\ \/ /\ state = "stopping"
        /\ state' = "idle" /\ sessionRunning' = FALSE
        /\ UNCHANGED frameVars \/ (waited' = FALSE /\ begun' = FALSE)
     \/ /\ "endSession" \in Failing \/ state # "stopping"
        /\ UNCHANGED <<state, sessionRunning, frameVars>>
  /\ UNCHANGED <<shouldClose, lastError>>

\* Mutant: a loss is recorded and does not close the platform.
CloseOnExitOnly ==
  /\ Head(events) \in {"EXITING", "LOSS_PENDING"}
  /\ shouldClose' = (shouldClose \/ Head(events) = "EXITING")
  /\ lastError' = IF Head(events) = "LOSS_PENDING" THEN "RuntimeLost" ELSE lastError
  /\ UNCHANGED <<state, sessionRunning, frameVars>>

\* EXITING, LOSS_PENDING and the loss of the instance close the platform.
HandleClose ==
  /\ Head(events) \in {"EXITING", "LOSS_PENDING"}
  /\ shouldClose' = TRUE
  /\ lastError' = IF Head(events) = "LOSS_PENDING" THEN "RuntimeLost" ELSE lastError
  /\ UNCHANGED <<state, sessionRunning, frameVars>>

HandleEvent ==
  /\ pc = "drain" /\ events # <<>>
  /\ HandleReady \/ HandleStopping \/ HandleClose
  /\ events' = Tail(events)
  /\ UNCHANGED <<pc, k, swapchainVars, historyVars>>

\* The documented loop then looks at getLastError().
EndPoll ==
  /\ pc = "drain" /\ events = <<>>
  /\ pc' = IF Loop = "documented" /\ lastError \in IsFatal THEN "done" ELSE "top"
  /\ UNCHANGED <<k, appVars, swapchainVars, frameVars, runtimeVars, historyVars>>

-----------------------------------------------------------------------------
(* The runtime.                                                            *)

Announce(from, to, event) ==
  /\ state \in from
  /\ state' = to
  /\ events' = Append(events, event)
  /\ UNCHANGED <<pc, k, appVars, swapchainVars, frameVars, historyVars>>

RuntimeReady == Announce({"idle"}, "ready", "READY")
RuntimeStops == Announce({"running"}, "stopping", "STOPPING")
RuntimeExits == Announce({"idle"}, "exiting", "EXITING")
RuntimeLosesSession == Announce(SessionStates \ {"exiting", "lost"}, "lost", "LOSS_PENDING")

Frame ==
  \/ LoopTop \/ WaitFrame \/ BeginFrame \/ LocateViews
  \/ AcquireImage \/ EndAcquire \/ Draw \/ ReleaseImage \/ EndRelease \/ EndFrame

Poll == StartPoll \/ HandleEvent \/ EndPoll

Runtime == RuntimeReady \/ RuntimeStops \/ RuntimeExits \/ RuntimeLosesSession

Next == Frame \/ Poll \/ Runtime

Spec == Init /\ [][Next]_vars

\* The thread keeps running; nothing is assumed of the runtime.
FairSpec == Spec /\ WF_vars(Frame \/ Poll)

-----------------------------------------------------------------------------
\* _sessionRunning follows the runtime although it is told by events: the thread
\* waits for frames of a session exactly from its begin to its end.
SessionAgrees == state # "lost" => (sessionRunning <=> state \in {"running", "stopping"})

InFrame == {"locate", "acquire", "draw", "release", "end"}

\* From its begin to the end of the call a frame is open, and no second one was
\* waited for.  Outside of it, a frame that was waited for and not begun, on which
\* the next xrWaitFrame blocks, is one whose xrBeginFrame was refused; and a frame
\* that is open, which the next xrBeginFrame discards with an error, was left so
\* by a call that returned one.
FrameOrder ==
  /\ pc \in InFrame => begun /\ ~waited
  /\ waited /\ pc # "begin" => beginRefused
  /\ begun /\ pc \notin InFrame => last \in Errors \ {"Ok"}

\* When no swapchain was refused, every view of the projection layer handed to
\* xrEndFrame names a swapchain that is alive and had an image released to it,
\* in whichever order frames failed and swapchains were recreated before.
LayersComplete ==
  pc = "end" /\ count = FullCount(multiview) => \A v \in Views : Composable(v)

\* An exit or a loss the runtime announces ends the loop, whichever frames fail
\* before it is seen.
CloseObserved ==
  (\E i \in DOMAIN events : events[i] \in {"EXITING", "LOSS_PENDING"}) ~> pc = "done"

Queued(event) == \E i \in DOMAIN events : events[i] = event

\* examples/*/main.cpp polls in every turn, whatever render() returned: that loop
\* answers a session that becomes ready.  The loop of docs/ERROR_HANDLING.md:34,
\* which is to "keep running", does not: it polls after a success only, and no
\* frame succeeds before the session runs.
ReadyAnswered == Queued("READY") ~> ~Queued("READY")

\* The thread is inside an xrWaitFrame that does not return, unless the session
\* is lost: FrameOrder says when.
Blocked == pc = "wait" /\ sessionRunning /\ waited /\ state # "lost"

\* A session the runtime wants stopped is answered, although its last frames fail
\* one after the other, unless a refused xrBeginFrame has blocked the thread.
StopAnswered == Queued("STOPPING") ~> ~Queued("STOPPING") \/ Blocked

\* docs/ERROR_HANDLING.md:13, "Handle (engine already recreates)": after a
\* recoverable result the next frame can begin, the one before having been ended.
BeginFindsNoOpenFrame == pc = "begin" => ~begun
=============================================================================
