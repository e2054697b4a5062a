------------------------------- MODULE Input -------------------------------
(***************************************************************************)
(* Input, from the devices to the application and to the camera.           *)
(*                                                                         *)
(* On a desktop GLFW's callbacks put what happened into one queue per kind *)
(* of event, and a poll empties the queues kind by kind, after the keys    *)
(* that are held down.  On OpenXR a poll reads the state of the actions    *)
(* and turns changes of a button into events.  The engine hands the events *)
(* to the application's callback and, while it captures viewport input,    *)
(* keeps a copy that the next update applies to the camera and to the      *)
(* debug ray.                                                              *)
(***************************************************************************)
EXTENDS Naturals, Sequences, SequencesExt, FiniteSets

CONSTANTS Keys,        \* movement keys of the keyboard
          XrButtons,   \* buttons of the controllers
          MaxQueued,   \* bound: events between two polls
          MaxCaptured, \* bound: events between two updates
          MaxPlain,    \* bound: events without a state in a run
          MaxRays      \* bound: debug rays made in a run

ASSUME InputAssumption ==
  /\ IsFiniteSet(Keys) /\ IsFiniteSet(XrButtons)
  /\ Keys \cap XrButtons = {} /\ "right" \notin Keys \cup XrButtons
  /\ MaxQueued \in Nat /\ MaxCaptured \in Nat /\ MaxPlain \in Nat /\ MaxRays \in Nat

VARIABLES platform,   \* "desktop" or "xr"
          down,       \* what is really pressed
          queues,     \* IDesktopPlatform::_keyboardEvents, ...
          sent,       \* events without a state so far, by kind
          controller, \* [running, focused, active]: session, focus, tracking
          lastState,  \* XrButtonAction::_lastState
          told,       \* what the application's callback believes is pressed
          received,   \* the events without a state it was given
          fresh,      \* the last poll read every device and nothing happened since
          capture,    \* Engine::_shouldCaptureViewportInput
          captured,   \* Engine::_capturedViewportEvents, those the properties tell apart
          right,      \* Engine::_isRightMouseButtonPressed
          ray,        \* Engine::_debugRayObjectID, 0 for none
          rays        \* [made, alive]: debug rays in the renderer

devices == <<down, queues, sent, controller>>
camera == <<right, ray, rays>>
vars == <<platform, devices, lastState, told, received, fresh, capture, captured, camera>>

Plain == {"mouseWheel", "cursorEnter", "fileDrop", "textInput"}
Kinds == {"keyboard", "mouseButton", "mouseMotion"} \cup Plain
Inputs == Keys \cup XrButtons \cup {"right"}

KeyEvent(k, isDown) == [kind |-> "keyboard", key |-> k, pressed |-> isDown]
ButtonEvent(pressed) == [kind |-> "mouseButton", key |-> "right", pressed |-> pressed]
MotionEvent(inside) == [kind |-> "mouseMotion", inside |-> inside]
PlainEvent(kind, n) == [kind |-> kind, number |-> n]
HandButtonEvent(b, pressed) == [kind |-> "handButton", key |-> b, pressed |-> pressed]
HandMotionEvent == [kind |-> "handMotion"]
HandThumbStickEvent == [kind |-> "thumbStick"]
QuitEvent == [kind |-> "quit"]

\* Plausible bug: the text is taken from the back of its queue.
QueuedTextBackFirst ==
  queues["keyboard"] \o queues["mouseButton"] \o queues["mouseMotion"] \o queues["mouseWheel"]
    \o queues["cursorEnter"] \o queues["fileDrop"] \o Reverse(queues["textInput"])

\* What a poll of the desktop returns after the held keys: queue after queue.
Queued ==
  queues["keyboard"] \o queues["mouseButton"] \o queues["mouseMotion"] \o queues["mouseWheel"]
    \o queues["cursorEnter"] \o queues["fileDrop"] \o queues["textInput"]

EventsOf(kind) ==
  CASE kind = "keyboard" -> [kind : {kind}, key : Keys, pressed : BOOLEAN]
    [] kind = "mouseButton" -> [kind : {kind}, key : {"right"}, pressed : BOOLEAN]
    [] kind = "mouseMotion" -> [kind : {kind}, inside : BOOLEAN]
    [] OTHER -> [kind : {kind}, number : Nat]
CameraEvents == EventsOf("mouseButton") \cup EventsOf("mouseMotion") \cup {HandMotionEvent}

TypeOK ==
  /\ platform \in {"desktop", "xr"} /\ down \in [Inputs -> BOOLEAN]
  /\ DOMAIN queues = Kinds /\ \A k \in Kinds : queues[k] \in Seq(EventsOf(k))
  /\ sent \in [Plain -> Nat] /\ received \in [Plain -> Seq(Nat)]
  /\ controller \in [running : BOOLEAN, focused : BOOLEAN, active : BOOLEAN]
  /\ lastState \in [XrButtons -> BOOLEAN] /\ told \in [Inputs -> BOOLEAN]
  /\ fresh \in BOOLEAN /\ capture \in BOOLEAN /\ captured \in Seq(CameraEvents)
  /\ right \in BOOLEAN /\ ray \in Nat /\ rays \in [made : Nat, alive : SUBSET Nat]

Init ==
  /\ platform \in {"desktop", "xr"}
  /\ down = [i \in Inputs |-> FALSE]
  /\ queues = [k \in Kinds |-> <<>>] /\ sent = [k \in Plain |-> 0]
  /\ controller = [running |-> FALSE, focused |-> FALSE, active |-> FALSE]
  /\ lastState = [b \in XrButtons |-> FALSE]
  /\ told = [i \in Inputs |-> FALSE] /\ received = [k \in Plain |-> <<>>] /\ fresh = FALSE
  /\ capture = TRUE /\ captured = <<>>
  /\ right = FALSE /\ ray = 0 /\ rays = [made |-> 0, alive |-> {}]

---------------------------------------------------------------------------
(* The callbacks of setupCallbackEvent, called by GLFW. *)

Happens == fresh' = FALSE /\ UNCHANGED <<platform, lastState, told, received, capture, captured, camera>>

Enqueue(event) ==
  /\ Len(Queued) < MaxQueued
  /\ queues' = [queues EXCEPT ![event.kind] = Append(@, event)]

\* Pressed, released, or repeated while it is held.
KeyCallback(k) ==
  /\ \E isDown \in BOOLEAN :
       /\ isDown \/ down[k]
       /\ Enqueue(KeyEvent(k, isDown)) /\ down' = [down EXCEPT ![k] = isDown]
  /\ UNCHANGED <<sent, controller>>

MouseButtonCallback ==
  /\ Enqueue(ButtonEvent(~down["right"])) /\ down' = [down EXCEPT !["right"] = ~@]
  /\ UNCHANGED <<sent, controller>>

\* Inside of the viewport or not.
CursorPosCallback ==
  /\ \E inside \in BOOLEAN : Enqueue(MotionEvent(inside))
  /\ UNCHANGED <<down, sent, controller>>

\* Scroll, cursor enter, file drop and character: queued as they are.
PlainCallback(kind) ==
  /\ FoldFunction(+, 0, sent) < MaxPlain
  /\ Enqueue(PlainEvent(kind, sent[kind] + 1)) /\ sent' = [sent EXCEPT ![kind] = @ + 1]
  /\ UNCHANGED <<down, controller>>

setupCallbackEvent ==
  /\ platform = "desktop"
  /\ \/ \E k \in Keys : KeyCallback(k)
     \/ MouseButtonCallback \/ CursorPosCallback
     \/ \E kind \in Plain : PlainCallback(kind)
  /\ Happens

\* What the user and the runtime do on OpenXR: nothing calls evan back.
XrDevices ==
  /\ platform = "xr"
  /\ \/ \E b \in XrButtons : down' = [down EXCEPT ![b] = ~@] /\ UNCHANGED controller
     \/ \E f \in {"running", "focused", "active"} :
          controller' = [controller EXCEPT ![f] = ~@] /\ UNCHANGED down
  /\ UNCHANGED <<queues, sent>>
  /\ Happens

---------------------------------------------------------------------------
(* Polling *)

\* Each key that is held is reported again at every poll.
getPressedMovementKeys ==
  LET held == SetToSeq({k \in Keys : down[k]})
  IN  [i \in DOMAIN held |-> KeyEvent(held[i], TRUE)]

Nothing == [k \in Kinds |-> <<>>]

\* The queues in the order of their kinds, and each is cleared.
DesktopPollEvents(events) ==
  /\ platform = "desktop"
  /\ events = getPressedMovementKeys \o Queued
  /\ queues' = Nothing /\ UNCHANGED lastState
  /\ fresh' = TRUE

\* The runtime reports an action as active, and pressed, only when it is.
IsActive == controller.focused /\ controller.active
CurrentState(b) == IsActive /\ down[b]

\* Plausible bug: the state is remembered before the action is known to be active.
ButtonStateEarly(b, read) == b \in read /\ CurrentState(b)

\* XrButtonAction::getEvent: an inactive action keeps the last state, and one
\* whose state the runtime refuses to give looks inactive.
ButtonState(b, read) == IF b \in read /\ IsActive THEN CurrentState(b) ELSE lastState[b]

ButtonEvents(read) ==
  LET changed == SetToSeq({b \in read : IsActive /\ CurrentState(b) # lastState[b]})
  IN  [i \in DOMAIN changed |-> HandButtonEvent(changed[i], CurrentState(changed[i]))]

\* A pose that is active may still not be located, or not be valid.
HandEvents == IF IsActive THEN {<<>>, <<HandMotionEvent>>} ELSE {<<>>}
ThumbStickEvents == IF IsActive THEN <<HandThumbStickEvent>> ELSE <<>>

\* XrDeviceBackend::pollActions and XrManageActions::pollActions: nothing without
\* a running session, nor when the actions cannot be synchronised, without focus
\* or because the runtime refuses; the state of each button may be refused too.
XrPollActions(events) ==
  /\ platform = "xr" /\ UNCHANGED queues
  /\ \/ /\ controller.running /\ controller.focused
        /\ \E hand \in HandEvents, read \in SUBSET XrButtons :
             /\ events = hand \o ButtonEvents(read) \o ThumbStickEvents
             /\ lastState' = [b \in XrButtons |-> ButtonState(b, read)]
             /\ fresh' = (read = XrButtons)
     \/ events = <<>> /\ UNCHANGED lastState /\ fresh' = FALSE

\* A loop over the events, from the state s on.
After(Step(_, _), s, events) ==
  LET after[n \in 0 .. Len(events)] == IF n = 0 THEN s ELSE Step(after[n - 1], events[n])
  IN  after[Len(events)]

\* The application keeps what the last event of a key or a button said.
Tell(t, event) ==
  IF event.kind \in {"keyboard", "mouseButton", "handButton"}
  THEN [t EXCEPT ![event.key] = event.pressed] ELSE t
Told(events) == After(Tell, told, events)

Receive(r, event) ==
  IF event.kind \in Plain THEN [r EXCEPT ![event.kind] = Append(@, event.number)] ELSE r
Received(events) == After(Receive, received, events)

\* What a poll can return: the candidates, of which the platform takes one.
Polled ==
  IF platform = "desktop" THEN {getPressedMovementKeys \o Queued}
  ELSE {<<>>} \cup {hand \o ButtonEvents(read) \o ThumbStickEvents :
                      hand \in HandEvents, read \in SUBSET XrButtons}

\* Keys and thumb sticks move the pose, which no property looks at.
MovesCamera(event) == event.kind \in {"mouseButton", "mouseMotion", "handMotion"}
Capture(c, event) == IF MovesCamera(event) THEN Append(c, event) ELSE c
Captured(events) == After(Capture, captured, events)

\* Engine::pollEvents; the window may have been closed.
PollEvents ==
  \E polled \in Polled, quit \in {<<>>, <<QuitEvent>>} :
    /\ DesktopPollEvents(polled) \/ XrPollActions(polled)
    /\ LET events == polled \o quit
       IN  /\ told' = Told(events) /\ received' = Received(events)
           /\ IF capture
              THEN captured' = Captured(events) /\ Len(captured') <= MaxCaptured
              ELSE UNCHANGED captured
    /\ UNCHANGED <<platform, down, sent, controller, capture, camera>>

---------------------------------------------------------------------------
(* Engine::update: the captured events move the camera. *)

\* Plausible bug: the handle of a ray made anew is not kept.
UpdateDebugRayForgets(s) ==
  IF s.ray \in s.rays.alive THEN s
  ELSE [s EXCEPT !.ray = IF s.ray = 0 THEN s.rays.made + 1 ELSE @,
                 !.rays = [made |-> @.made + 1, alive |-> @.alive \cup {@.made + 1}]]

\* One ray for ever; made again when it was removed behind the engine's back.
UpdateDebugRay(s) ==
  IF s.ray \in s.rays.alive THEN s
  ELSE [s EXCEPT !.ray = s.rays.made + 1,
                 !.rays = [made |-> @.made + 1, alive |-> @.alive \cup {@.made + 1}]]

HandleMouseButton(s, event) == [s EXCEPT !.right = event.pressed]

\* Outside of the viewport there is no ray, and nothing else happens.
HandleMouseMotion(s, event) ==
  IF event.inside THEN UpdateDebugRay(s) ELSE s

HandleEvent(s, event) ==
  CASE event.kind = "mouseButton" -> HandleMouseButton(s, event)
    [] event.kind = "mouseMotion" -> HandleMouseMotion(s, event)
    [] event.kind = "handMotion" -> UpdateDebugRay(s)
    [] OTHER -> s

HandleViewportInput(events) ==
  After(HandleEvent, [right |-> right, ray |-> ray, rays |-> rays], events)

Update ==
  LET s == HandleViewportInput(captured)
  IN  /\ capture
      /\ s.rays.made <= MaxRays
      /\ right' = s.right /\ ray' = s.ray /\ rays' = s.rays
      /\ captured' = <<>>
      /\ UNCHANGED <<platform, devices, lastState, told, received, fresh, capture>>

\* The application routes input to its user interface, and back.
SetShouldCaptureViewportInput ==
  /\ capture' = ~capture
  /\ UNCHANGED <<platform, devices, lastState, told, received, fresh, captured, camera>>

\* The application removes every object of the renderer.
RemoveObjects ==
  /\ rays.alive # {} /\ rays.made < MaxRays
  /\ rays' = [rays EXCEPT !.alive = {}]
  /\ UNCHANGED <<platform, devices, lastState, told, received, fresh, capture, captured, right,
                 ray>>

Next ==
  setupCallbackEvent \/ XrDevices \/ PollEvents \/ Update \/ SetShouldCaptureViewportInput
  \/ RemoveObjects

Spec == Init /\ [][Next]_vars

---------------------------------------------------------------------------
(* Correctness *)

\* After a poll an application that only listens to events knows what is
\* pressed: no press or release is lost, repeated out of turn or reordered,
\* over the queues of the desktop and over losses of focus, tracking and
\* session and refused reads on OpenXR (where it holds again at the first poll
\* that reads the controllers).
ApplicationKnows ==
  fresh =>
    /\ platform = "desktop" => \A i \in Keys \cup {"right"} : told[i] = down[i]
    /\ platform = "xr" /\ controller.running /\ IsActive =>
         \A b \in XrButtons : told[b] = down[b]

Numbers(queue) == [i \in DOMAIN queue |-> queue[i].number]

\* Wheel, enter, drop and text events reach the application exactly once, in
\* the order of their kind, whatever is polled and captured when.
DeliveredOnce ==
  \A k \in Plain :
    received[k] \o Numbers(queues[k]) = [i \in 1 .. sent[k] |-> i]

\* "The debug ray is created once" (Engine.hpp:629): there is never a second
\* ray in the scene, also when the application removes the first.
OneRay == rays.alive \subseteq {ray}

\* "Tracks whether the right mouse button is currently pressed"
\* (Engine.hpp:611): once the captured events are applied, the camera's button
\* is the one the application was told about.
RightTracked == capture /\ captured = <<>> => right = told["right"]
=============================================================================
