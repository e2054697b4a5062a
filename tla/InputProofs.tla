---------------------------- MODULE InputProofs ----------------------------
(***************************************************************************)
(* Proofs about Input, for any keys and buttons, and any number of events  *)
(* between two polls and between two updates.                              *)
(*                                                                         *)
(* 1. The loops.  A loop over events takes the values of a function that   *)
(*    the equation of After determines (LoopExists, LoopUnique).  A lemma  *)
(*    about every body of a loop cannot be used here, so that the four     *)
(*    loops of the model have one each (ToldInTurn, ...).                  *)
(* 2. What a sequence of events says of a key or a button (Says): what the *)
(*    last event about it said.  The application arrives there             *)
(*    (ToldIsSaid).                                                        *)
(* 3. Where the queue of a kind lies in what a poll returns (Within), which*)
(*    is what the application is given of that kind (ReceivedIs) and all   *)
(*    that is said of its keys (SaysWithin).                               *)
(* 4. The invariant InputInv: at every moment the queue of the keys says   *)
(*    what leads from what the application believes to what is pressed.    *)
(***************************************************************************)
EXTENDS Input, FiniteSetTheorems, WellFoundedInduction, NaturalsInduction, TLAPS

---------------------------------------------------------------------------
(* Loops over events *)

\* A set of numbers that is not empty has a least one.
LEMMA Least ==
  ASSUME NEW S \in SUBSET Nat, S # {}
  PROVE  \E n \in S : \A m \in S : n <= m
<1>1. PICK n \in S : \A m \in S : ~(<<m, n>> \in OpToRel(<, Nat))
  BY WFMin, NatLessThanWellFounded, Zenon
<1>2. \A m \in S : ~(m < n)
  BY <1>1 DEF OpToRel
<1> QED BY <1>2

\* Induction over the numbers up to N, of a set and not of a predicate.
LEMMA Upwards ==
  ASSUME NEW N \in Nat, NEW S, 0 \in S, \A n \in 1 .. N : n - 1 \in S => n \in S
  PROVE  \A n \in 0 .. N : n \in S
<1> DEFINE T == {n \in 0 .. N : n \notin S}
<1> SUFFICES ASSUME T # {} PROVE FALSE
  OBVIOUS
<1>1. PICK n \in T : \A m \in T : n <= m
  <2>1. T \in SUBSET Nat
    OBVIOUS
  <2> HIDE DEF T
  <2> QED BY <2>1, Least
<1>2. n \in 1 .. N /\ n - 1 \in 0 .. N /\ n - 1 \notin T
  BY <1>1
<1> QED BY <1>1, <1>2

\* g has the values of a loop of N steps that starts with s.
Turns(g, N, S, s, step) ==
  /\ g \in [0 .. N -> S] /\ g[0] = s
  /\ \A n \in 1 .. N : g[n] = step[n][g[n - 1]]

\* h does as the loop does as long as it stays within S.
Follows(h, N, S, s, step) ==
  h[0] = s /\ \A n \in 1 .. N : h[n - 1] \in S => h[n] = step[n][h[n - 1]]

\* A loop whose steps stay within S has a value after each of them.
LEMMA LoopExists ==
  ASSUME NEW N \in Nat, NEW S, NEW s \in S, NEW step \in [1 .. N -> [S -> S]]
  PROVE  \E g : Turns(g, N, S, s, step)
<1> DEFINE A == {n \in 0 .. N : \E g \in [0 .. n -> S] :
                   g[0] = s /\ \A i \in 1 .. n : g[i] = step[i][g[i - 1]]}
<1>1. 0 \in A
  <2> DEFINE h == [n \in 0 .. 0 |-> s]
  <2>1. h \in [0 .. 0 -> S] /\ h[0] = s /\ \A i \in 1 .. 0 : h[i] = step[i][h[i - 1]]
    OBVIOUS
  <2> HIDE DEF h
  <2> QED BY <2>1
<1>2. ASSUME NEW n \in 1 .. N, n - 1 \in A PROVE n \in A
  <2>1. PICK g \in [0 .. n - 1 -> S] :
          g[0] = s /\ \A i \in 1 .. n - 1 : g[i] = step[i][g[i - 1]]
    BY <1>2
  <2> DEFINE h == [i \in 0 .. n |-> IF i = n THEN step[n][g[n - 1]] ELSE g[i]]
  <2>2. h \in [0 .. n -> S]
    OBVIOUS
  <2>3. h[0] = s /\ \A i \in 1 .. n : h[i] = step[i][h[i - 1]]
    BY <2>1
  <2> HIDE DEF h
  <2> QED BY <2>2, <2>3
<1>3. N \in A
  <2> HIDE DEF A
  <2>1. \A n \in 0 .. N : n \in A
    BY <1>1, <1>2, Upwards
  <2> QED BY <2>1
<1> QED BY <1>3 DEF Turns

\* What is so found is the only function that satisfies its equation.
LEMMA LoopUnique ==
  ASSUME NEW N \in Nat, NEW S, NEW s \in S, NEW step \in [1 .. N -> [S -> S]],
         NEW g, Turns(g, N, S, s, step), NEW h, Follows(h, N, S, s, step)
  PROVE  \A n \in 0 .. N : h[n] = g[n]
<1> USE DEF Turns, Follows
<1> DEFINE A == {n \in 0 .. N : h[n] = g[n]}
<1>1. 0 \in A
  OBVIOUS
<1>2. \A n \in 1 .. N : n - 1 \in A => n \in A
  OBVIOUS
<1>3. \A n \in 0 .. N : n \in A
  <2> HIDE DEF A
  <2> QED BY <1>1, <1>2, Upwards
<1> QED BY <1>3

---------------------------------------------------------------------------
(* The four loops: what the application believes, what it was given, what is *)
(* kept for the camera, and the camera.                                      *)

Tellings == [Inputs -> BOOLEAN]
Receivings == [Plain -> Seq(Nat)]
Captures == Seq(CameraEvents)

\* With the property of OneRay, which a step of the camera keeps.
CameraStates ==
  {s \in [right : BOOLEAN, ray : Nat, rays : [made : Nat, alive : SUBSET Nat]] :
     s.rays.alive \subseteq {s.ray}}

\* The values an application believes in turn.
LEMMA ToldInTurn ==
  ASSUME NEW events, Len(events) \in Nat, NEW from \in Tellings,
         \A n \in 1 .. Len(events) : \A t \in Tellings : Tell(t, events[n]) \in Tellings
  PROVE  \E a \in [0 .. Len(events) -> Tellings] :
           /\ a[0] = from /\ After(Tell, from, events) = a[Len(events)]
           /\ \A n \in 1 .. Len(events) : a[n] = Tell(a[n - 1], events[n])
<1>1. PICK N, S, s, step :
        /\ N = Len(events) /\ S = Tellings /\ s = from
        /\ step = [n \in 1 .. N |-> [t \in S |-> Tell(t, events[n])]]
  OBVIOUS
<1>2. N \in Nat /\ s \in S /\ step \in [1 .. N -> [S -> S]]
  BY <1>1
<1>3. \A n \in 1 .. N : \A t \in S : step[n][t] = Tell(t, events[n])
  BY <1>1
<1>4. PICK g : Turns(g, N, S, s, step)
  BY <1>2, LoopExists
<1>5. /\ g \in [0 .. N -> S] /\ g[0] = s
      /\ \A n \in 1 .. N : g[n] = Tell(g[n - 1], events[n])
  BY <1>2, <1>3, <1>4 DEF Turns
<1>6. g = [n \in 0 .. N |-> IF n = 0 THEN s ELSE Tell(g[n - 1], events[n])]
  <2>1. \A n \in 0 .. N : g[n] = IF n = 0 THEN s ELSE Tell(g[n - 1], events[n])
    BY <1>2, <1>5
  <2> QED BY <1>5, <2>1
<1>7. PICK h : /\ h = [n \in 0 .. N |-> IF n = 0 THEN s ELSE Tell(h[n - 1], events[n])]
               /\ After(Tell, from, events) = h[N]
  <2> DEFINE C == CHOOSE after : after = [n \in 0 .. N |->
                    IF n = 0 THEN s ELSE Tell(after[n - 1], events[n])]
  <2>1. After(Tell, from, events) = C[N]
    BY <1>1, Zenon DEF After
  <2>2. C = [n \in 0 .. N |-> IF n = 0 THEN s ELSE Tell(C[n - 1], events[n])]
    BY <1>6, Zenon
  <2> HIDE DEF C
  <2> QED BY <2>1, <2>2
<1>8. Follows(h, N, S, s, step)
  BY <1>2, <1>3, <1>7 DEF Follows
<1>9. \A n \in 0 .. N : h[n] = g[n]
  BY <1>2, <1>4, <1>8, LoopUnique
<1>10. g[N] = After(Tell, from, events)
  BY <1>2, <1>7, <1>9
<1> QED BY <1>1, <1>5, <1>10

\* What it was given, event by event.
LEMMA ReceivedInTurn ==
  ASSUME NEW events, Len(events) \in Nat, NEW from \in Receivings,
         \A n \in 1 .. Len(events) : \A t \in Receivings : Receive(t, events[n]) \in Receivings
  PROVE  \E a \in [0 .. Len(events) -> Receivings] :
           /\ a[0] = from /\ After(Receive, from, events) = a[Len(events)]
           /\ \A n \in 1 .. Len(events) : a[n] = Receive(a[n - 1], events[n])
<1>1. PICK N, S, s, step :
        /\ N = Len(events) /\ S = Receivings /\ s = from
        /\ step = [n \in 1 .. N |-> [t \in S |-> Receive(t, events[n])]]
  OBVIOUS
<1>2. N \in Nat /\ s \in S /\ step \in [1 .. N -> [S -> S]]
  BY <1>1
<1>3. \A n \in 1 .. N : \A t \in S : step[n][t] = Receive(t, events[n])
  BY <1>1
<1>4. PICK g : Turns(g, N, S, s, step)
  BY <1>2, LoopExists
<1>5. /\ g \in [0 .. N -> S] /\ g[0] = s
      /\ \A n \in 1 .. N : g[n] = Receive(g[n - 1], events[n])
  BY <1>2, <1>3, <1>4 DEF Turns
<1>6. g = [n \in 0 .. N |-> IF n = 0 THEN s ELSE Receive(g[n - 1], events[n])]
  <2>1. \A n \in 0 .. N : g[n] = IF n = 0 THEN s ELSE Receive(g[n - 1], events[n])
    BY <1>2, <1>5
  <2> QED BY <1>5, <2>1
<1>7. PICK h : /\ h = [n \in 0 .. N |-> IF n = 0 THEN s ELSE Receive(h[n - 1], events[n])]
               /\ After(Receive, from, events) = h[N]
  <2> DEFINE C == CHOOSE after : after = [n \in 0 .. N |->
                    IF n = 0 THEN s ELSE Receive(after[n - 1], events[n])]
  <2>1. After(Receive, from, events) = C[N]
    BY <1>1, Zenon DEF After
  <2>2. C = [n \in 0 .. N |-> IF n = 0 THEN s ELSE Receive(C[n - 1], events[n])]
    BY <1>6, Zenon
  <2> HIDE DEF C
  <2> QED BY <2>1, <2>2
<1>8. Follows(h, N, S, s, step)
  BY <1>2, <1>3, <1>7 DEF Follows
<1>9. \A n \in 0 .. N : h[n] = g[n]
  BY <1>2, <1>4, <1>8, LoopUnique
<1>10. g[N] = After(Receive, from, events)
  BY <1>2, <1>7, <1>9
<1> QED BY <1>1, <1>5, <1>10

\* What is kept of the events.
LEMMA CapturedInTurn ==
  ASSUME NEW events, Len(events) \in Nat, NEW from \in Captures,
         \A n \in 1 .. Len(events) : \A t \in Captures : Capture(t, events[n]) \in Captures
  PROVE  \E a \in [0 .. Len(events) -> Captures] :
           /\ a[0] = from /\ After(Capture, from, events) = a[Len(events)]
           /\ \A n \in 1 .. Len(events) : a[n] = Capture(a[n - 1], events[n])
<1>1. PICK N, S, s, step :
        /\ N = Len(events) /\ S = Captures /\ s = from
        /\ step = [n \in 1 .. N |-> [t \in S |-> Capture(t, events[n])]]
  OBVIOUS
<1>2. N \in Nat /\ s \in S /\ step \in [1 .. N -> [S -> S]]
  BY <1>1
<1>3. \A n \in 1 .. N : \A t \in S : step[n][t] = Capture(t, events[n])
  BY <1>1
<1>4. PICK g : Turns(g, N, S, s, step)
  BY <1>2, LoopExists
<1>5. /\ g \in [0 .. N -> S] /\ g[0] = s
      /\ \A n \in 1 .. N : g[n] = Capture(g[n - 1], events[n])
  BY <1>2, <1>3, <1>4 DEF Turns
<1>6. g = [n \in 0 .. N |-> IF n = 0 THEN s ELSE Capture(g[n - 1], events[n])]
  <2>1. \A n \in 0 .. N : g[n] = IF n = 0 THEN s ELSE Capture(g[n - 1], events[n])
    BY <1>2, <1>5
  <2> QED BY <1>5, <2>1
<1>7. PICK h : /\ h = [n \in 0 .. N |-> IF n = 0 THEN s ELSE Capture(h[n - 1], events[n])]
               /\ After(Capture, from, events) = h[N]
  <2> DEFINE C == CHOOSE after : after = [n \in 0 .. N |->
                    IF n = 0 THEN s ELSE Capture(after[n - 1], events[n])]
  <2>1. After(Capture, from, events) = C[N]
    BY <1>1, Zenon DEF After
  <2>2. C = [n \in 0 .. N |-> IF n = 0 THEN s ELSE Capture(C[n - 1], events[n])]
    BY <1>6, Zenon
  <2> HIDE DEF C
  <2> QED BY <2>1, <2>2
<1>8. Follows(h, N, S, s, step)
  BY <1>2, <1>3, <1>7 DEF Follows
<1>9. \A n \in 0 .. N : h[n] = g[n]
  BY <1>2, <1>4, <1>8, LoopUnique
<1>10. g[N] = After(Capture, from, events)
  BY <1>2, <1>7, <1>9
<1> QED BY <1>1, <1>5, <1>10

\* The camera, event by event.
LEMMA CameraInTurn ==
  ASSUME NEW events, Len(events) \in Nat, NEW from \in CameraStates,
         \A n \in 1 .. Len(events) :
           \A t \in CameraStates : HandleEvent(t, events[n]) \in CameraStates
  PROVE  \E a \in [0 .. Len(events) -> CameraStates] :
           /\ a[0] = from /\ After(HandleEvent, from, events) = a[Len(events)]
           /\ \A n \in 1 .. Len(events) : a[n] = HandleEvent(a[n - 1], events[n])
<1>1. PICK N, S, s, step :
        /\ N = Len(events) /\ S = CameraStates /\ s = from
        /\ step = [n \in 1 .. N |-> [t \in S |-> HandleEvent(t, events[n])]]
  OBVIOUS
<1>2. N \in Nat /\ s \in S /\ step \in [1 .. N -> [S -> S]]
  BY <1>1
<1>3. \A n \in 1 .. N : \A t \in S : step[n][t] = HandleEvent(t, events[n])
  BY <1>1
<1>4. PICK g : Turns(g, N, S, s, step)
  BY <1>2, LoopExists
<1>5. /\ g \in [0 .. N -> S] /\ g[0] = s
      /\ \A n \in 1 .. N : g[n] = HandleEvent(g[n - 1], events[n])
  BY <1>2, <1>3, <1>4 DEF Turns
<1>6. g = [n \in 0 .. N |-> IF n = 0 THEN s ELSE HandleEvent(g[n - 1], events[n])]
  <2>1. \A n \in 0 .. N : g[n] = IF n = 0 THEN s ELSE HandleEvent(g[n - 1], events[n])
    BY <1>2, <1>5
  <2> QED BY <1>5, <2>1
<1>7. PICK h : /\ h = [n \in 0 .. N |-> IF n = 0 THEN s ELSE HandleEvent(h[n - 1], events[n])]
               /\ After(HandleEvent, from, events) = h[N]
  <2> DEFINE C == CHOOSE after : after = [n \in 0 .. N |->
                    IF n = 0 THEN s ELSE HandleEvent(after[n - 1], events[n])]
  <2>1. After(HandleEvent, from, events) = C[N]
    BY <1>1, Zenon DEF After
  <2>2. C = [n \in 0 .. N |-> IF n = 0 THEN s ELSE HandleEvent(C[n - 1], events[n])]
    BY <1>6, Zenon
  <2> HIDE DEF C
  <2> QED BY <2>1, <2>2
<1>8. Follows(h, N, S, s, step)
  BY <1>2, <1>3, <1>7 DEF Follows
<1>9. \A n \in 0 .. N : h[n] = g[n]
  BY <1>2, <1>4, <1>8, LoopUnique
<1>10. g[N] = After(HandleEvent, from, events)
  BY <1>2, <1>7, <1>9
<1> QED BY <1>1, <1>5, <1>10

---------------------------------------------------------------------------
(* One step of each loop *)

Events ==
  EventsOf("keyboard") \cup EventsOf("mouseButton") \cup EventsOf("mouseMotion")
    \cup EventsOf("mouseWheel") \cup EventsOf("cursorEnter") \cup EventsOf("fileDrop")
    \cup EventsOf("textInput") \cup [kind : {"handButton"}, key : XrButtons, pressed : BOOLEAN]
    \cup {HandMotionEvent, HandThumbStickEvent, QuitEvent}

\* What an event says of a key or a button.
About(event, i) == event.kind \in {"keyboard", "mouseButton", "handButton"} /\ event.key = i

LEMMA EventKinds ==
  /\ \A e \in Events : e.kind \in Kinds \cup {"handButton", "handMotion", "thumbStick", "quit"}
  /\ \A k \in Kinds : \A e \in EventsOf(k) : e \in Events /\ e.kind = k
  /\ \A k \in Plain : EventsOf(k) = [kind : {k}, number : Nat]
<1>1. /\ EventsOf("keyboard") = [kind : {"keyboard"}, key : Keys, pressed : BOOLEAN]
      /\ EventsOf("mouseButton") = [kind : {"mouseButton"}, key : {"right"}, pressed : BOOLEAN]
      /\ EventsOf("mouseMotion") = [kind : {"mouseMotion"}, inside : BOOLEAN]
  BY DEF EventsOf
<1>2. \A k \in Plain : EventsOf(k) = [kind : {k}, number : Nat]
  BY DEF EventsOf, Plain
<1>3. \A k \in Kinds : \A e \in EventsOf(k) : e \in Events /\ e.kind = k
  <2> SUFFICES ASSUME NEW k \in Kinds, NEW e \in EventsOf(k) PROVE e \in Events /\ e.kind = k
    OBVIOUS
  <2>1. e \in Events
    BY DEF Kinds, Plain, Events
  <2>2. e.kind = k
    <3>1. CASE k \in Plain
      <4>1. e \in [kind : {k}, number : Nat]
        BY <1>2, <3>1
      <4> QED BY <4>1
    <3>2. CASE k = "keyboard"
      <4>1. e \in [kind : {"keyboard"}, key : Keys, pressed : BOOLEAN]
        BY <1>1, <3>2
      <4> QED BY <3>2, <4>1
    <3>3. CASE k = "mouseButton"
      <4>1. e \in [kind : {"mouseButton"}, key : {"right"}, pressed : BOOLEAN]
        BY <1>1, <3>3
      <4> QED BY <3>3, <4>1
    <3>4. CASE k = "mouseMotion"
      <4>1. e \in [kind : {"mouseMotion"}, inside : BOOLEAN]
        BY <1>1, <3>4
      <4> QED BY <3>4, <4>1
    <3> QED BY <3>1, <3>2, <3>3, <3>4 DEF Kinds
  <2> QED BY <2>1, <2>2
<1>4. \A e \in Events : e.kind \in Kinds \cup {"handButton", "handMotion", "thumbStick", "quit"}
  <2> SUFFICES ASSUME NEW e \in Events
               PROVE  e.kind \in Kinds \cup {"handButton", "handMotion", "thumbStick", "quit"}
    OBVIOUS
  <2>1. CASE \E k \in Kinds : e \in EventsOf(k)
    BY <1>3, <2>1
  <2>2. CASE ~\E k \in Kinds : e \in EventsOf(k)
    BY <2>2 DEF Kinds, Plain, Events, HandMotionEvent, HandThumbStickEvent, QuitEvent
  <2> QED BY <2>1, <2>2
<1> QED BY <1>2, <1>3, <1>4

LEMMA EventFields ==
  ASSUME NEW e \in Events
  PROVE  /\ e.kind \in {"keyboard", "mouseButton", "handButton"} =>
              e.key \in Inputs /\ e.pressed \in BOOLEAN
         /\ e.kind \in Plain => e.number \in Nat
         /\ MovesCamera(e) => e \in CameraEvents
BY DEF Events, EventsOf, Inputs, Plain, MovesCamera, CameraEvents, HandMotionEvent,
       HandThumbStickEvent, QuitEvent

LEMMA TellTyped ==
  ASSUME NEW e \in Events, NEW t \in Tellings
  PROVE  Tell(t, e) \in Tellings
BY EventFields DEF Tell, Tellings

LEMMA ReceiveTyped ==
  ASSUME NEW e \in Events, NEW r \in Receivings
  PROVE  Receive(r, e) \in Receivings
<1>1. CASE e.kind \in Plain
  <2>1. Append(r[e.kind], e.number) \in Seq(Nat)
    BY <1>1, EventFields DEF Receivings
  <2> QED BY <1>1, <2>1 DEF Receive, Receivings
<1>2. CASE e.kind \notin Plain
  BY <1>2 DEF Receive
<1> QED BY <1>1, <1>2

LEMMA CaptureTyped ==
  ASSUME NEW e \in Events, NEW c \in Captures
  PROVE  Capture(c, e) \in Captures
BY EventFields DEF Capture, Captures

LEMMA RayTyped ==
  ASSUME NEW s \in CameraStates
  PROVE  UpdateDebugRay(s) \in CameraStates
<1>1. CASE s.ray \in s.rays.alive
  BY <1>1 DEF UpdateDebugRay
<1>2. CASE s.ray \notin s.rays.alive
  <2> DEFINE made == s.rays.made + 1
             rs == [made |-> made, alive |-> s.rays.alive \cup {made}]
  <2>1. made \in Nat /\ s.rays.alive = {}
    BY <1>2 DEF CameraStates
  <2>2. UpdateDebugRay(s) = [s EXCEPT !.ray = made, !.rays = rs]
    BY <1>2 DEF UpdateDebugRay
  <2>3. rs \in [made : Nat, alive : SUBSET Nat] /\ rs.alive = {made}
    BY <2>1
  <2> HIDE DEF rs, made
  <2>4. /\ [s EXCEPT !.ray = made, !.rays = rs]
              \in [right : BOOLEAN, ray : Nat, rays : [made : Nat, alive : SUBSET Nat]]
        /\ [s EXCEPT !.ray = made, !.rays = rs].rays = rs
        /\ [s EXCEPT !.ray = made, !.rays = rs].ray = made
    BY <2>1, <2>3 DEF CameraStates
  <2> QED BY <2>2, <2>3, <2>4 DEF CameraStates
<1> QED BY <1>1, <1>2

LEMMA HandleTyped ==
  ASSUME NEW e \in CameraEvents, NEW s \in CameraStates
  PROVE  HandleEvent(s, e) \in CameraStates
<1>1. e.kind = "mouseButton" => e.pressed \in BOOLEAN
  BY DEF CameraEvents, EventsOf, HandMotionEvent
<1>2. CASE e.kind = "mouseButton"
  BY <1>1, <1>2 DEF HandleEvent, HandleMouseButton, CameraStates
<1>3. CASE e.kind = "mouseMotion"
  BY <1>3, RayTyped DEF HandleEvent, HandleMouseMotion
<1>4. CASE e.kind = "handMotion"
  BY <1>4, RayTyped DEF HandleEvent
<1>5. CASE e.kind \notin {"mouseButton", "mouseMotion", "handMotion"}
  BY <1>5 DEF HandleEvent
<1> QED BY <1>2, <1>3, <1>4, <1>5

\* The types of the results, and that a loop of the camera leaves one ray.
LEMMA LoopsTyped ==
  ASSUME NEW events \in Seq(Events)
  PROVE  /\ \A t \in Tellings : After(Tell, t, events) \in Tellings
         /\ \A r \in Receivings : After(Receive, r, events) \in Receivings
         /\ \A c \in Captures : After(Capture, c, events) \in Captures
<1>1. Len(events) \in Nat /\ Len(events) \in 0 .. Len(events)
      /\ \A n \in 1 .. Len(events) : events[n] \in Events
  OBVIOUS
<1>2. ASSUME NEW t \in Tellings PROVE After(Tell, t, events) \in Tellings
  <2>1. \A n \in 1 .. Len(events) : \A u \in Tellings : Tell(u, events[n]) \in Tellings
    BY <1>1, TellTyped
  <2>2. PICK a \in [0 .. Len(events) -> Tellings] : After(Tell, t, events) = a[Len(events)]
    BY <1>1, <2>1, ToldInTurn
  <2> QED BY <1>1, <2>2
<1>3. ASSUME NEW r \in Receivings PROVE After(Receive, r, events) \in Receivings
  <2>1. \A n \in 1 .. Len(events) : \A u \in Receivings : Receive(u, events[n]) \in Receivings
    BY <1>1, ReceiveTyped
  <2>2. PICK a \in [0 .. Len(events) -> Receivings] : After(Receive, r, events) = a[Len(events)]
    BY <1>1, <2>1, ReceivedInTurn
  <2> QED BY <1>1, <2>2
<1>4. ASSUME NEW c \in Captures PROVE After(Capture, c, events) \in Captures
  <2>1. \A n \in 1 .. Len(events) : \A u \in Captures : Capture(u, events[n]) \in Captures
    BY <1>1, CaptureTyped
  <2>2. PICK a \in [0 .. Len(events) -> Captures] : After(Capture, c, events) = a[Len(events)]
    BY <1>1, <2>1, CapturedInTurn
  <2> QED BY <1>1, <2>2
<1> QED BY <1>2, <1>3, <1>4

LEMMA CameraTyped ==
  ASSUME NEW events \in Captures, NEW s \in CameraStates
  PROVE  After(HandleEvent, s, events) \in CameraStates
<1>1. Len(events) \in Nat /\ Len(events) \in 0 .. Len(events)
      /\ \A n \in 1 .. Len(events) : events[n] \in CameraEvents
  BY DEF Captures
<1>2. \A n \in 1 .. Len(events) : \A u \in CameraStates : HandleEvent(u, events[n]) \in CameraStates
  BY <1>1, HandleTyped
<1>3. PICK a \in [0 .. Len(events) -> CameraStates] : After(HandleEvent, s, events) = a[Len(events)]
  BY <1>1, <1>2, CameraInTurn
<1> QED BY <1>1, <1>3

---------------------------------------------------------------------------
(* What is said of a key or a button *)

\* After n events of e, the last one about i said what i is now; if none did,
\* it is what it was.
Says(e, n, i, old, now) ==
  \/ \E m \in 1 .. n : /\ About(e[m], i) /\ e[m].pressed = now
                       /\ \A l \in m + 1 .. n : ~About(e[l], i)
  \/ now = old /\ \A m \in 1 .. n : ~About(e[m], i)

LEMMA SaysUnique ==
  ASSUME NEW e, NEW n \in Nat, NEW i, NEW old, NEW a, NEW b,
         Says(e, n, i, old, a), Says(e, n, i, old, b)
  PROVE  a = b
<1>1. CASE \A m \in 1 .. n : ~About(e[m], i)
  BY <1>1 DEF Says
<1>2. CASE \E m \in 1 .. n : About(e[m], i)
  <2>1. PICK m \in 1 .. n : /\ About(e[m], i) /\ e[m].pressed = a
                            /\ \A l \in m + 1 .. n : ~About(e[l], i)
    BY <1>2, Zenon DEF Says
  <2>2. PICK k \in 1 .. n : /\ About(e[k], i) /\ e[k].pressed = b
                            /\ \A l \in k + 1 .. n : ~About(e[l], i)
    BY <1>2, Zenon DEF Says
  <2>3. m = k
    <3>1. ~(m < k)
      BY <2>1, <2>2
    <3>2. ~(k < m)
      BY <2>1, <2>2
    <3> QED BY <3>1, <3>2
  <2> QED BY <2>1, <2>2, <2>3
<1> QED BY <1>1, <1>2

\* What was there before does not matter when it agrees with what is said.
LEMMA SaysFrom ==
  ASSUME NEW e, NEW n \in Nat, NEW i, NEW old, NEW now, Says(e, n, i, old, now),
         NEW from \in {old, now}
  PROVE  Says(e, n, i, from, now)
BY DEF Says

\* One sequence after another.
LEMMA SaysConcat ==
  ASSUME NEW S, NEW s \in Seq(S), NEW t \in Seq(S), NEW i, NEW a, NEW b, NEW c,
         Says(s, Len(s), i, a, b), Says(t, Len(t), i, b, c)
  PROVE  Says(s \o t, Len(s \o t), i, a, c)
<1> DEFINE N == Len(s)
           M == Len(t)
           u == s \o t
<1>1. /\ N \in Nat /\ M \in Nat /\ Len(u) = N + M
      /\ \A n \in 1 .. N : u[n] = s[n]
      /\ \A n \in 1 .. M : u[N + n] = t[n]
  OBVIOUS
<1>2. \A n \in N + 1 .. N + M : n - N \in 1 .. M /\ u[n] = t[n - N]
  BY <1>1
<1> HIDE DEF N, M, u
<1>3. CASE \A m \in 1 .. M : ~About(t[m], i)
  <2>1. c = b /\ \A m \in N + 1 .. N + M : ~About(u[m], i)
    BY <1>2, <1>3 DEF Says, M
  <2>2. CASE \A m \in 1 .. N : ~About(s[m], i)
    <3>1. \A m \in 1 .. N + M : ~About(u[m], i)
      BY <1>1, <2>1, <2>2
    <3>2. b = a
      BY <2>2 DEF Says, N
    <3> QED BY <1>1, <2>1, <3>1, <3>2 DEF Says, u
  <2>3. CASE \E m \in 1 .. N : About(s[m], i)
    <3>1. PICK m \in 1 .. N : /\ About(s[m], i) /\ s[m].pressed = b
                              /\ \A l \in m + 1 .. N : ~About(s[l], i)
      BY <2>3, Zenon DEF Says, N
    <3>2. m \in 1 .. N + M /\ About(u[m], i) /\ u[m].pressed = c
      BY <1>1, <2>1, <3>1
    <3>3. \A l \in m + 1 .. N + M : ~About(u[l], i)
      BY <1>1, <2>1, <3>1
    <3> QED BY <1>1, <3>2, <3>3 DEF Says, u
  <2> QED BY <2>2, <2>3
<1>4. CASE \E m \in 1 .. M : About(t[m], i)
  <2>1. PICK m \in 1 .. M : /\ About(t[m], i) /\ t[m].pressed = c
                            /\ \A l \in m + 1 .. M : ~About(t[l], i)
    BY <1>4, Zenon DEF Says, M
  <2>2. N + m \in 1 .. N + M /\ About(u[N + m], i) /\ u[N + m].pressed = c
    <3>1. u[N + m] = t[m] /\ N + m \in 1 .. N + M
      BY <1>1
    <3> QED BY <2>1, <3>1
  <2>3. \A l \in N + m + 1 .. N + M : ~About(u[l], i)
    <3> SUFFICES ASSUME NEW l \in N + m + 1 .. N + M PROVE ~About(u[l], i)
      OBVIOUS
    <3>1. l \in N + 1 .. N + M /\ l - N \in m + 1 .. M
      BY <1>1, <2>1
    <3> QED BY <1>2, <2>1, <3>1
  <2> QED BY <1>1, <2>2, <2>3 DEF Says, u
<1> QED BY <1>3, <1>4

\* The loop of the application arrives at what is said.
LEMMA ToldIsSaid ==
  ASSUME NEW events \in Seq(Events), NEW t \in Tellings, NEW i \in Inputs
  PROVE  Says(events, Len(events), i, t[i], After(Tell, t, events)[i])
<1>1. Len(events) \in Nat /\ \A n \in 1 .. Len(events) : events[n] \in Events
  OBVIOUS
<1>2. \A n \in 1 .. Len(events) : \A u \in Tellings : Tell(u, events[n]) \in Tellings
  BY <1>1, TellTyped
<1>3. PICK a \in [0 .. Len(events) -> Tellings] :
        /\ a[0] = t /\ After(Tell, t, events) = a[Len(events)]
        /\ \A n \in 1 .. Len(events) : a[n] = Tell(a[n - 1], events[n])
  BY <1>1, <1>2, ToldInTurn
<1> DEFINE A == {n \in 0 .. Len(events) : Says(events, n, i, t[i], a[n][i])}
<1>4. 0 \in A
  BY <1>1, <1>3 DEF Says
<1>5. ASSUME NEW n \in 1 .. Len(events), n - 1 \in A PROVE n \in A
  <2>1. a[n] = Tell(a[n - 1], events[n]) /\ a[n - 1] \in Tellings /\ n - 1 \in Nat
        /\ events[n] \in Events
    BY <1>1, <1>3
  <2>2. Says(events, n - 1, i, t[i], a[n - 1][i])
    BY <1>5
  <2>3. CASE About(events[n], i)
    <3>1. a[n][i] = events[n].pressed
      BY <2>1, <2>3 DEF About, Tell, Tellings
    <3> QED BY <1>1, <2>3, <3>1 DEF Says
  <2>4. CASE ~About(events[n], i)
    <3>1. a[n][i] = a[n - 1][i]
      BY <2>1, <2>4 DEF About, Tell, Tellings
    <3>2. CASE \A m \in 1 .. n - 1 : ~About(events[m], i)
      <4>1. a[n - 1][i] = t[i]
        BY <2>2, <3>2 DEF Says
      <4>2. \A m \in 1 .. n : ~About(events[m], i)
        BY <2>1, <2>4, <3>2
      <4> QED BY <3>1, <4>1, <4>2 DEF Says
    <3>3. CASE \E m \in 1 .. n - 1 : About(events[m], i)
      <4>1. PICK m \in 1 .. n - 1 : /\ About(events[m], i) /\ events[m].pressed = a[n - 1][i]
                                    /\ \A l \in m + 1 .. n - 1 : ~About(events[l], i)
        BY <2>2, <3>3, Zenon DEF Says
      <4>2. m \in 1 .. n /\ \A l \in m + 1 .. n : ~About(events[l], i)
        BY <2>1, <2>4, <4>1
      <4> QED BY <3>1, <4>1, <4>2 DEF Says
    <3> QED BY <3>2, <3>3
  <2> QED BY <2>3, <2>4
<1>6. \A n \in 0 .. Len(events) : n \in A
  <2> HIDE DEF A
  <2> QED BY <1>1, <1>4, <1>5, Upwards
<1> QED BY <1>1, <1>3, <1>6

---------------------------------------------------------------------------
(* A queue inside of what a poll returns *)

\* The events of kind k in e are those of q, one after the other.
Within(e, k, q) ==
  \E a \in Nat :
    /\ a + Len(q) <= Len(e)
    /\ \A n \in 1 .. Len(q) : e[a + n] = q[n]
    /\ \A n \in 1 .. Len(e) : n \notin a + 1 .. a + Len(q) => e[n].kind # k

LEMMA WithinItself ==
  ASSUME NEW S, NEW q \in Seq(S), NEW k
  PROVE  Within(q, k, q)
<1>1. /\ 0 \in Nat /\ 0 + Len(q) <= Len(q)
      /\ \A n \in 1 .. Len(q) : 0 + n = n /\ n \in 0 + 1 .. 0 + Len(q)
  OBVIOUS
<1> QED BY <1>1, Zenon DEF Within

LEMMA WithinNone ==
  ASSUME NEW S, NEW e \in Seq(S), NEW k, \A n \in 1 .. Len(e) : e[n].kind # k
  PROVE  Within(e, k, <<>>)
BY DEF Within

LEMMA WithinLeft ==
  ASSUME NEW S, NEW s \in Seq(S), NEW t \in Seq(S), NEW q \in Seq(S), NEW k, Within(s, k, q),
         \A n \in 1 .. Len(t) : t[n].kind # k
  PROVE  Within(s \o t, k, q)
<1>1. PICK a \in Nat : /\ a + Len(q) <= Len(s)
                       /\ \A n \in 1 .. Len(q) : s[a + n] = q[n]
                       /\ \A n \in 1 .. Len(s) : n \notin a + 1 .. a + Len(q) => s[n].kind # k
  BY DEF Within
<1> DEFINE N == Len(s)
           M == Len(t)
           L == Len(q)
           u == s \o t
<1>2. /\ N \in Nat /\ M \in Nat /\ L \in Nat /\ Len(u) = N + M
      /\ \A n \in 1 .. N + M : u[n] = IF n <= N THEN s[n] ELSE t[n - N]
  OBVIOUS
<1>3. /\ a + L <= N /\ \A n \in 1 .. L : s[a + n] = q[n]
      /\ \A n \in 1 .. N : n \notin a + 1 .. a + L => s[n].kind # k
      /\ \A n \in 1 .. M : t[n].kind # k
  BY <1>1
<1> HIDE DEF N, M, L, u
<1>4. a + L <= N + M /\ \A n \in 1 .. L : u[a + n] = q[n]
  <2> SUFFICES ASSUME NEW n \in 1 .. L PROVE u[a + n] = q[n]
    BY <1>2, <1>3
  <2>1. a + n \in 1 .. N + M /\ a + n <= N
    BY <1>2, <1>3
  <2> QED BY <1>2, <1>3, <2>1
<1>5. ASSUME NEW n \in 1 .. N + M, n \notin a + 1 .. a + L PROVE u[n].kind # k
  <2>1. CASE n <= N
    BY <1>2, <1>3, <1>5, <2>1
  <2>2. CASE ~(n <= N)
    <3>1. n - N \in 1 .. M
      BY <1>2, <2>2
    <3> QED BY <1>2, <1>3, <2>2, <3>1
  <2> QED BY <2>1, <2>2
<1> QED BY <1>2, <1>4, <1>5 DEF Within, L, u

LEMMA WithinRight ==
  ASSUME NEW S, NEW s \in Seq(S), NEW t \in Seq(S), NEW q \in Seq(S), NEW k, Within(t, k, q),
         \A n \in 1 .. Len(s) : s[n].kind # k
  PROVE  Within(s \o t, k, q)
<1>1. PICK a \in Nat : /\ a + Len(q) <= Len(t)
                       /\ \A n \in 1 .. Len(q) : t[a + n] = q[n]
                       /\ \A n \in 1 .. Len(t) : n \notin a + 1 .. a + Len(q) => t[n].kind # k
  BY DEF Within
<1> DEFINE N == Len(s)
           M == Len(t)
           L == Len(q)
           u == s \o t
<1>2. /\ N \in Nat /\ M \in Nat /\ L \in Nat /\ Len(u) = N + M
      /\ \A n \in 1 .. N + M : u[n] = IF n <= N THEN s[n] ELSE t[n - N]
  OBVIOUS
<1>3. /\ a + L <= M /\ \A n \in 1 .. L : t[a + n] = q[n]
      /\ \A n \in 1 .. M : n \notin a + 1 .. a + L => t[n].kind # k
      /\ \A n \in 1 .. N : s[n].kind # k
  BY <1>1
<1> HIDE DEF N, M, L, u
<1>4. N + a \in Nat /\ N + a + L <= N + M /\ \A n \in 1 .. L : u[N + a + n] = q[n]
  <2>0. N + a \in Nat /\ N + a + L <= N + M
    BY <1>2, <1>3
  <2> SUFFICES ASSUME NEW n \in 1 .. L PROVE u[N + a + n] = q[n]
    BY <2>0
  <2>1. N + a + n \in 1 .. N + M /\ ~(N + a + n <= N) /\ (N + a + n) - N = a + n
    BY <1>2, <1>3
  <2> QED BY <1>2, <1>3, <2>1
<1>5. ASSUME NEW n \in 1 .. N + M, n \notin N + a + 1 .. N + a + L PROVE u[n].kind # k
  <2>1. CASE n <= N
    BY <1>2, <1>3, <2>1
  <2>2. CASE ~(n <= N)
    <3>1. n - N \in 1 .. M /\ n - N \notin a + 1 .. a + L
      BY <1>2, <1>5, <2>2
    <3> QED BY <1>2, <1>3, <2>2, <3>1
  <2> QED BY <2>1, <2>2
<1> QED BY <1>2, <1>4, <1>5 DEF Within, L, u

\* When only that kind speaks of i, all of e says what the queue says.
LEMMA SaysWithin ==
  ASSUME NEW S, NEW e \in Seq(S), NEW q \in Seq(S), NEW k, Within(e, k, q), NEW i,
         NEW old, NEW now, \A n \in 1 .. Len(e) : About(e[n], i) => e[n].kind = k,
         Says(q, Len(q), i, old, now)
  PROVE  Says(e, Len(e), i, old, now)
<1> DEFINE N == Len(e)
           L == Len(q)
<1>1. PICK a \in Nat : /\ a + L <= N /\ \A n \in 1 .. L : e[a + n] = q[n]
                       /\ \A n \in 1 .. N : n \notin a + 1 .. a + L => e[n].kind # k
  BY DEF Within
<1>2. N \in Nat /\ L \in Nat /\ \A n \in 1 .. N : About(e[n], i) => e[n].kind = k
  OBVIOUS
<1> HIDE DEF N, L
<1>3. \A n \in 1 .. N : About(e[n], i) => n - a \in 1 .. L /\ About(q[n - a], i)
  <2> SUFFICES ASSUME NEW n \in 1 .. N, About(e[n], i) PROVE n - a \in 1 .. L /\ About(q[n - a], i)
    OBVIOUS
  <2>1. n \in a + 1 .. a + L
    BY <1>1, <1>2
  <2>2. n - a \in 1 .. L /\ a + (n - a) = n
    BY <1>1, <1>2, <2>1
  <2>3. e[n] = q[n - a]
    BY <1>1, <2>2
  <2> QED BY <2>2, <2>3
<1>4. CASE \A m \in 1 .. L : ~About(q[m], i)
  <2>1. now = old /\ \A m \in 1 .. N : ~About(e[m], i)
    BY <1>3, <1>4 DEF Says, L
  <2> QED BY <2>1 DEF Says, N
<1>5. CASE \E m \in 1 .. L : About(q[m], i)
  <2>1. PICK m \in 1 .. L : /\ About(q[m], i) /\ q[m].pressed = now
                            /\ \A l \in m + 1 .. L : ~About(q[l], i)
    BY <1>5, Zenon DEF Says, L
  <2>2. a + m \in 1 .. N /\ e[a + m] = q[m]
    BY <1>1, <1>2
  <2>3. \A l \in a + m + 1 .. N : ~About(e[l], i)
    <3> SUFFICES ASSUME NEW l \in a + m + 1 .. N, About(e[l], i) PROVE FALSE
      OBVIOUS
    <3>1. l \in 1 .. N /\ l - a > m
      BY <1>1, <1>2
    <3>2. l - a \in 1 .. L /\ About(q[l - a], i)
      BY <1>3, <3>1
    <3>3. l - a \in m + 1 .. L
      BY <1>2, <3>1, <3>2
    <3> QED BY <2>1, <3>2, <3>3
  <2> QED BY <2>1, <2>2, <2>3 DEF Says, N
<1> QED BY <1>4, <1>5

---------------------------------------------------------------------------
(* What the application is given *)

LEMMA NumbersTyped ==
  ASSUME NEW k \in Plain, NEW q \in Seq(EventsOf(k))
  PROVE  /\ Numbers(q) \in Seq(Nat) /\ Len(Numbers(q)) = Len(q)
         /\ \A i \in 1 .. Len(q) : Numbers(q)[i] = q[i].number
<1>1. \A i \in 1 .. Len(q) : q[i].number \in Nat
  <2> SUFFICES ASSUME NEW i \in 1 .. Len(q) PROVE q[i].number \in Nat
    OBVIOUS
  <2>1. q[i] \in EventsOf(k)
    OBVIOUS
  <2>2. EventsOf(k) = [kind : {k}, number : Nat]
    BY EventKinds
  <2> QED BY <2>1, <2>2
<1>2. Numbers(q) = [i \in 1 .. Len(q) |-> q[i].number] /\ Len(q) \in Nat
  BY DEF Numbers
<1> QED BY <1>1, <1>2

\* The loop of the application adds the numbers of the queue of a kind.
LEMMA ReceivedIs ==
  ASSUME NEW events \in Seq(Events), NEW r \in Receivings, NEW k \in Plain,
         NEW q \in Seq(EventsOf(k)), Within(events, k, q)
  PROVE  After(Receive, r, events)[k] = r[k] \o Numbers(q)
<1> DEFINE N == Len(events)
           L == Len(q)
           B == Len(r[k])
<1>1. N \in Nat /\ L \in Nat /\ B \in Nat /\ \A n \in 1 .. N : events[n] \in Events
  BY DEF Receivings
<1>2. PICK a \in Nat : /\ a + L <= N /\ \A n \in 1 .. L : events[a + n] = q[n]
                       /\ \A n \in 1 .. N : n \notin a + 1 .. a + L => events[n].kind # k
  BY DEF Within
<1>3. \A n \in 1 .. N : \A u \in Receivings : Receive(u, events[n]) \in Receivings
  BY <1>1, ReceiveTyped
<1>4. PICK v \in [0 .. N -> Receivings] :
        /\ v[0] = r /\ After(Receive, r, events) = v[N]
        /\ \A n \in 1 .. N : v[n] = Receive(v[n - 1], events[n])
  BY <1>1, <1>3, ReceivedInTurn
<1>5. \A n \in 1 .. L : q[n].kind = k /\ q[n].number \in Nat /\ q[n] \in Events
  <2> SUFFICES ASSUME NEW n \in 1 .. L
               PROVE  q[n].kind = k /\ q[n].number \in Nat /\ q[n] \in Events
    OBVIOUS
  <2>1. q[n] \in EventsOf(k) /\ k \in Kinds
    BY DEF Kinds
  <2>2. EventsOf(k) = [kind : {k}, number : Nat]
    BY EventKinds
  <2>3. q[n] \in [kind : {k}, number : Nat]
    BY <2>1, <2>2
  <2>4. q[n] \in Events
    BY <2>1, EventKinds
  <2> QED BY <2>3, <2>4
<1> HIDE DEF N, L, B
\* How many of the queue the first n events hold.
<1> DEFINE clip(n) == IF n <= a THEN 0 ELSE IF n <= a + L THEN n - a ELSE L
           A == {n \in 0 .. N : /\ Len(v[n][k]) = B + clip(n)
                                /\ \A i \in 1 .. B : v[n][k][i] = r[k][i]
                                /\ \A i \in 1 .. clip(n) : v[n][k][B + i] = q[i].number}
<1>6. 0 \in A
  BY <1>1, <1>4 DEF B
<1>7. ASSUME NEW n \in 1 .. N, n - 1 \in A PROVE n \in A
  <2> DEFINE e == events[n]
             old == v[n - 1][k]
             new == v[n][k]
             c == clip(n - 1)
  <2>1. /\ v[n] = Receive(v[n - 1], e) /\ v[n - 1] \in Receivings
        /\ old \in Seq(Nat) /\ n - 1 \in 0 .. N
    BY <1>1, <1>4 DEF Receivings
  <2>2. /\ Len(old) = B + c /\ \A i \in 1 .. B : old[i] = r[k][i]
        /\ \A i \in 1 .. c : old[B + i] = q[i].number
    BY <1>7
  <2>3. CASE n \in a + 1 .. a + L
    <3>1. /\ n - a \in 1 .. L /\ a + (n - a) = n
          /\ clip(n) = n - a /\ c = clip(n) - 1 /\ c + 1 = n - a /\ c \in Nat
      BY <1>1, <2>3
    <3>2. e = q[n - a]
      BY <1>2, <3>1
    <3>3. e.kind = k /\ e.number \in Nat /\ e.number = q[n - a].number
      BY <1>5, <3>1, <3>2
    <3> HIDE DEF c, clip, e, old
    <3>4. new = Append(old, e.number)
      BY <2>1, <3>3 DEF Receive, Receivings, old
    <3> HIDE DEF new
    <3>5. /\ Len(new) = Len(old) + 1 /\ new[Len(old) + 1] = e.number
          /\ \A i \in 1 .. Len(old) : new[i] = old[i]
      BY <2>1, <3>3, <3>4
    <3>6. Len(new) = B + clip(n)
      BY <1>1, <2>2, <3>1, <3>5
    <3>7. \A i \in 1 .. B : new[i] = r[k][i]
      BY <1>1, <2>2, <3>1, <3>5
    <3>8. ASSUME NEW i \in 1 .. clip(n) PROVE new[B + i] = q[i].number
      <4>1. CASE i \in 1 .. c
        <5>1. B + i \in 1 .. Len(old)
          BY <1>1, <2>2, <3>1, <4>1
        <5> QED BY <2>2, <3>5, <4>1, <5>1
      <4>2. CASE i = c + 1
        <5>1. B + i = Len(old) + 1
          BY <1>1, <2>2, <3>1, <4>2
        <5> QED BY <3>1, <3>3, <3>5, <4>2, <5>1
      <4> QED BY <3>1, <4>1, <4>2
    <3> QED BY <3>6, <3>7, <3>8 DEF new
  <2>4. CASE n \notin a + 1 .. a + L
    <3>1. e.kind # k
      BY <1>2, <2>4
    <3>2. clip(n) = c
      BY <1>1, <2>4
    <3> HIDE DEF clip
    <3>3. new = old
      BY <2>1, <3>1 DEF Receive, Receivings
    <3> QED BY <2>2, <3>2, <3>3
  <2> QED BY <2>3, <2>4
<1>8. N \in A
  <2> HIDE DEF A
  <2>1. \A n \in 0 .. N : n \in A
    BY <1>1, <1>6, <1>7, Upwards
  <2> QED BY <1>1, <2>1
<1>9. clip(N) = L
  BY <1>1, <1>2
<1>10. v[N][k] \in Seq(Nat) /\ r[k] \in Seq(Nat)
  BY <1>1, <1>4 DEF Receivings
<1>11. /\ Len(v[N][k]) = B + L /\ \A i \in 1 .. B : v[N][k][i] = r[k][i]
       /\ \A i \in 1 .. L : v[N][k][B + i] = q[i].number
  BY <1>8, <1>9
<1>12. /\ Numbers(q) \in Seq(Nat) /\ Len(Numbers(q)) = L
       /\ \A i \in 1 .. L : Numbers(q)[i] = q[i].number
  BY NumbersTyped DEF L
<1> HIDE DEF clip, A
<1>13. v[N][k] = r[k] \o Numbers(q)
  <2> DEFINE w == r[k] \o Numbers(q)
  <2>1. w \in Seq(Nat) /\ Len(w) = B + L
    <3>1. r[k] \in Seq(Nat) /\ Numbers(q) \in Seq(Nat)
      BY <1>10, <1>12
    <3>2. w \in Seq(Nat)
      BY <3>1
    <3>3. Len(w) = Len(r[k]) + Len(Numbers(q))
      BY <3>1
    <3> QED BY <1>12, <3>2, <3>3 DEF B
  <2>2. ASSUME NEW i \in 1 .. B + L PROVE w[i] = v[N][k][i]
    <3>1. CASE i <= B
      BY <1>1, <1>10, <1>11, <1>12, <3>1 DEF B
    <3>2. CASE ~(i <= B)
      <4>1. i - B \in 1 .. L /\ B + (i - B) = i
        BY <1>1, <3>2
      <4>2. w[i] = Numbers(q)[i - B]
        BY <1>1, <1>10, <1>12, <3>2 DEF B
      <4>3. v[N][k][B + (i - B)] = q[i - B].number
        BY <1>11, <4>1
      <4> QED BY <1>12, <4>1, <4>2, <4>3
    <3> QED BY <3>1, <3>2
  <2> HIDE DEF w
  <2>3. w = v[N][k]
    BY <1>10, <1>11, <2>1, <2>2
  <2> QED BY <2>3 DEF w
<1> QED BY <1>4, <1>13

---------------------------------------------------------------------------
(* The events of a poll *)

Once(s, x) == \E j \in 1 .. Len(s) : s[j] = x /\ \A l \in 1 .. Len(s) : s[l] = x => l = j

\* The sequence of a set holds each of its elements once.
LEMMA SeqOfSet ==
  ASSUME NEW S, IsFiniteSet(S)
  PROVE  SetToSeq(S) \in Seq(S) /\ \A x \in S : Once(SetToSeq(S), x)
<1> DEFINE N == Cardinality(S)
<1>1. N \in Nat /\ ExistsBijection(1 .. N, S)
  BY FS_CardinalityType
<1>2. \E f \in [1 .. N -> S] : IsInjective(f)
  <2>1. PICK f : f \in Bijection(1 .. N, S)
    BY <1>1 DEF ExistsBijection
  <2> QED BY <2>1 DEF Bijection, Injection
<1> DEFINE s == SetToSeq(S)
<1>3. s \in [1 .. N -> S] /\ IsInjective(s)
  <2>1. s = CHOOSE f \in [1 .. N -> S] : IsInjective(f)
    BY DEF SetToSeq
  <2> QED BY <1>2, <2>1
<1> HIDE DEF N, s
<1>4. s \in Seq(S) /\ Len(s) = N
  BY <1>1, <1>3
<1>5. \A j, l \in 1 .. N : s[j] = s[l] => j = l
  BY <1>3 DEF IsInjective
<1>6. \A x \in S : \E j \in 1 .. N : s[j] = x
  <2>1. ExistsInjection(1 .. N, S) /\ s \in Injection(1 .. N, S)
    BY <1>3 DEF ExistsInjection, Injection
  <2>2. IsFiniteSet(1 .. N) /\ Cardinality(1 .. N) = Cardinality(S)
    BY <1>1, FS_Interval DEF N
  <2>3. s \in Surjection(1 .. N, S)
    BY <2>1, <2>2, FS_Injection
  <2> QED BY <2>3 DEF Surjection
<1> QED BY <1>4, <1>5, <1>6 DEF s, Once

\* A sequence of reports, one of each element of H.
LEMMA ReportsSay ==
  ASSUME NEW H, IsFiniteSet(H), NEW e, Len(e) = Len(SetToSeq(H)), NEW i, NEW old, NEW now,
         \A j \in 1 .. Len(e) : About(e[j], i) <=> SetToSeq(H)[j] = i,
         \A j \in 1 .. Len(e) : SetToSeq(H)[j] = i => e[j].pressed = now,
         i \in H \/ now = old
  PROVE  Says(e, Len(e), i, old, now)
<1>1. PICK s : s = SetToSeq(H)
  OBVIOUS
<1>2. s \in Seq(H) /\ Len(e) = Len(s) /\ Len(s) \in Nat
  BY <1>1, SeqOfSet
<1>3. \A j \in 1 .. Len(s) : (About(e[j], i) <=> s[j] = i) /\ (s[j] = i => e[j].pressed = now)
  BY <1>1
<1>4. CASE i \in H
  <2>1. PICK j \in 1 .. Len(s) : s[j] = i /\ \A l \in 1 .. Len(s) : s[l] = i => l = j
    BY <1>1, <1>4, SeqOfSet DEF Once
  <2>2. About(e[j], i) /\ e[j].pressed = now /\ \A l \in j + 1 .. Len(s) : ~About(e[l], i)
    BY <1>2, <1>3, <2>1
  <2> QED BY <1>2, <2>2 DEF Says
<1>5. CASE i \notin H
  <2>1. \A j \in 1 .. Len(s) : s[j] # i
    BY <1>2, <1>5
  <2> QED BY <1>2, <1>3, <1>5, <2>1 DEF Says
<1> QED BY <1>4, <1>5

\* Only one kind of event speaks of an input.
KindOf(i) == IF i = "right" THEN "mouseButton" ELSE "keyboard"

LEMMA AboutKind ==
  ASSUME NEW e \in Events, NEW i, About(e, i)
  PROVE  /\ i \in Keys \cup {"right"} => e.kind = KindOf(i)
         /\ i \in XrButtons => e.kind = "handButton"
<1>1. /\ e.kind = "keyboard" => e.key \in Keys
      /\ e.kind = "mouseButton" => e.key = "right"
      /\ e.kind = "handButton" => e.key \in XrButtons
  BY DEF Events, EventsOf, HandMotionEvent, HandThumbStickEvent, QuitEvent
<1> QED BY <1>1, InputAssumption DEF About, KindOf

LEMMA HeldKeys ==
  ASSUME TypeOK
  PROVE  /\ getPressedMovementKeys \in Seq(Events)
         /\ \A n \in 1 .. Len(getPressedMovementKeys) : getPressedMovementKeys[n].kind = "keyboard"
         /\ \A i \in Keys \cup {"right"} :
              Says(getPressedMovementKeys, Len(getPressedMovementKeys), i, told[i],
                   IF i \in Keys /\ down[i] THEN TRUE ELSE told[i])
<1> DEFINE H == {k \in Keys : down[k]}
           s == SetToSeq(H)
           e == getPressedMovementKeys
<1>1. IsFiniteSet(H)
  BY InputAssumption, FS_Subset
<1>2. s \in Seq(H) /\ Len(s) \in Nat /\ DOMAIN s = 1 .. Len(s)
  BY <1>1, SeqOfSet
<1>3. e = [j \in 1 .. Len(s) |-> KeyEvent(s[j], TRUE)]
  BY <1>2 DEF getPressedMovementKeys
<1> HIDE DEF s, e
<1>4. \A j \in 1 .. Len(s) : s[j] \in H /\ KeyEvent(s[j], TRUE) \in Events
  BY <1>2 DEF KeyEvent, Events, EventsOf
<1> HIDE DEF H
<1>5. e \in Seq(Events) /\ Len(e) = Len(s)
  <2>1. DOMAIN e = 1 .. Len(s) /\ \A j \in 1 .. Len(s) : e[j] = KeyEvent(s[j], TRUE)
    BY <1>3
  <2>2. e \in [1 .. Len(s) -> Events]
    BY <1>3, <1>4, <2>1
  <2> QED BY <1>2, <2>2
<1>6. \A n \in 1 .. Len(e) : /\ e[n].kind = "keyboard" /\ e[n].pressed = TRUE
                             /\ e[n].key = s[n]
  BY <1>3, <1>5 DEF KeyEvent
<1>7. ASSUME NEW i \in Keys \cup {"right"}
      PROVE  Says(e, Len(e), i, told[i], IF i \in Keys /\ down[i] THEN TRUE ELSE told[i])
  <2> DEFINE now == IF i \in Keys /\ down[i] THEN TRUE ELSE told[i]
  <2>1. \A j \in 1 .. Len(e) : About(e[j], i) <=> s[j] = i
    BY <1>6 DEF About
  <2>2. \A j \in 1 .. Len(e) : s[j] = i => e[j].pressed = now
    BY <1>4, <1>5, <1>6 DEF H
  <2>3. i \in H \/ now = told[i]
    BY DEF H
  <2> HIDE DEF now
  <2>4. Says(e, Len(e), i, told[i], now)
    BY <1>1, <1>5, <2>1, <2>2, <2>3, ReportsSay DEF s
  <2> QED BY <2>4 DEF now
<1> QED BY <1>5, <1>6, <1>7 DEF e

\* p holds the queues of the kinds K, each in one piece, and nothing else.
Sorted(p, K) ==
  /\ p \in Seq(Events) /\ \A n \in 1 .. Len(p) : p[n].kind \in K
  /\ \A k \in K : Within(p, k, queues[k])

LEMMA QueueTyped ==
  ASSUME TypeOK, NEW k \in Kinds
  PROVE  /\ queues[k] \in Seq(EventsOf(k)) /\ queues[k] \in Seq(Events)
         /\ \A n \in 1 .. Len(queues[k]) : queues[k][n].kind = k
<1>1. queues[k] \in Seq(EventsOf(k))
  BY DEF TypeOK
<1>2. \A e \in EventsOf(k) : e \in Events /\ e.kind = k
  BY EventKinds
<1>3. \A n \in 1 .. Len(queues[k]) : queues[k][n] \in EventsOf(k)
  BY <1>1
<1>4. queues[k] \in Seq(Events)
  BY <1>1, <1>2, <1>3
<1> QED BY <1>1, <1>2, <1>3, <1>4

LEMMA ConcatKinds ==
  ASSUME NEW S, NEW s \in Seq(S), NEW t \in Seq(S), NEW K,
         \A n \in 1 .. Len(s) : s[n].kind \in K, \A n \in 1 .. Len(t) : t[n].kind \in K
  PROVE  \A n \in 1 .. Len(s \o t) : (s \o t)[n].kind \in K
<1> DEFINE N == Len(s)
           M == Len(t)
           u == s \o t
<1>1. /\ N \in Nat /\ M \in Nat /\ Len(u) = N + M
      /\ \A n \in 1 .. N + M : u[n] = IF n <= N THEN s[n] ELSE t[n - N]
  OBVIOUS
<1>2. (\A n \in 1 .. N : s[n].kind \in K) /\ \A n \in 1 .. M : t[n].kind \in K
  OBVIOUS
<1> HIDE DEF N, M, u
<1>3. ASSUME NEW n \in 1 .. N + M PROVE u[n].kind \in K
  <2>1. CASE n <= N
    BY <1>1, <1>2, <2>1
  <2>2. CASE ~(n <= N)
    <3>1. n - N \in 1 .. M
      BY <1>1, <2>2
    <3> QED BY <1>1, <1>2, <2>2, <3>1
  <2> QED BY <2>1, <2>2
<1> QED BY <1>1, <1>3 DEF u

\* One queue more.
LEMMA SortedNext ==
  ASSUME TypeOK, NEW p, NEW K \in SUBSET Kinds, Sorted(p, K), NEW k \in Kinds \ K
  PROVE  Sorted(p \o queues[k], K \cup {k})
<1> DEFINE u == p \o queues[k]
<1>1. /\ queues[k] \in Seq(Events) /\ \A n \in 1 .. Len(queues[k]) : queues[k][n].kind = k
      /\ p \in Seq(Events) /\ \A n \in 1 .. Len(p) : p[n].kind \in K
  BY QueueTyped DEF Sorted
<1>2. u \in Seq(Events) /\ \A n \in 1 .. Len(u) : u[n].kind \in K \cup {k}
  <2>1. /\ \A n \in 1 .. Len(p) : p[n].kind \in K \cup {k}
        /\ \A n \in 1 .. Len(queues[k]) : queues[k][n].kind \in K \cup {k}
    BY <1>1
  <2>2. u \in Seq(Events)
    BY <1>1
  <2> QED BY <1>1, <2>1, <2>2, ConcatKinds
<1>3. Within(u, k, queues[k])
  <2>1. \A n \in 1 .. Len(p) : p[n].kind # k
    BY <1>1
  <2> QED BY <1>1, <2>1, WithinItself, WithinRight
<1>4. ASSUME NEW j \in K PROVE Within(u, j, queues[j])
  <2>1. Within(p, j, queues[j])
    BY DEF Sorted
  <2>2. \A n \in 1 .. Len(queues[k]) : queues[k][n].kind # j
    BY <1>1
  <2>3. queues[j] \in Seq(Events)
    BY QueueTyped
  <2> QED BY <1>1, <2>1, <2>2, <2>3, WithinLeft
<1> QED BY <1>2, <1>3, <1>4 DEF Sorted

\* The whole of the queues, one kind after the other.
LEMMA QueuedSorted ==
  ASSUME TypeOK
  PROVE  Sorted(Queued, Kinds)
<1> DEFINE p1 == queues["keyboard"]
           p2 == p1 \o queues["mouseButton"]
           p3 == p2 \o queues["mouseMotion"]
           p4 == p3 \o queues["mouseWheel"]
           p5 == p4 \o queues["cursorEnter"]
           p6 == p5 \o queues["fileDrop"]
           p7 == p6 \o queues["textInput"]
           K1 == {"keyboard"}
           K2 == K1 \cup {"mouseButton"}
           K3 == K2 \cup {"mouseMotion"}
           K4 == K3 \cup {"mouseWheel"}
           K5 == K4 \cup {"cursorEnter"}
           K6 == K5 \cup {"fileDrop"}
           K7 == K6 \cup {"textInput"}
<1>0. Kinds = {"keyboard", "mouseButton", "mouseMotion", "mouseWheel", "cursorEnter", "fileDrop",
               "textInput"}
  BY DEF Kinds, Plain
<1>1. Sorted(p1, K1)
  <2>1. "keyboard" \in Kinds
    BY DEF Kinds
  <2>2. p1 \in Seq(Events) /\ \A n \in 1 .. Len(p1) : p1[n].kind = "keyboard"
    BY <2>1, QueueTyped
  <2>3. Within(p1, "keyboard", p1)
    BY <2>2, WithinItself
  <2> QED BY <2>2, <2>3 DEF Sorted
<1> HIDE DEF p1
<1>2. Sorted(p2, K2)
  <2>1. Sorted(p1 \o queues["mouseButton"], K1 \cup {"mouseButton"})
    BY <1>0, <1>1, SortedNext
  <2> QED BY <2>1
<1> HIDE DEF p2
<1>3. Sorted(p3, K3)
  <2>1. Sorted(p2 \o queues["mouseMotion"], K2 \cup {"mouseMotion"})
    BY <1>0, <1>2, SortedNext
  <2> QED BY <2>1
<1> HIDE DEF p3
<1>4. Sorted(p4, K4)
  <2>1. Sorted(p3 \o queues["mouseWheel"], K3 \cup {"mouseWheel"})
    BY <1>0, <1>3, SortedNext
  <2> QED BY <2>1
<1> HIDE DEF p4
<1>5. Sorted(p5, K5)
  <2>1. Sorted(p4 \o queues["cursorEnter"], K4 \cup {"cursorEnter"})
    BY <1>0, <1>4, SortedNext
  <2> QED BY <2>1
<1> HIDE DEF p5
<1>6. Sorted(p6, K6)
  <2>1. Sorted(p5 \o queues["fileDrop"], K5 \cup {"fileDrop"})
    BY <1>0, <1>5, SortedNext
  <2> QED BY <2>1
<1> HIDE DEF p6
<1>7. Sorted(p7, K7)
  <2>1. Sorted(p6 \o queues["textInput"], K6 \cup {"textInput"})
    BY <1>0, <1>6, SortedNext
  <2> QED BY <2>1
<1> HIDE DEF p7
<1> QED BY <1>0, <1>7 DEF p1, p2, p3, p4, p5, p6, p7, Queued

\* What the queue of its kind says of an input leads from what the application
\* believes to what is pressed.
QueueTold ==
  platform = "desktop" => \A i \in Keys \cup {"right"} :
    LET q == queues[KindOf(i)] IN Says(q, Len(q), i, told[i], down[i])

\* On OpenXR an application believes what the backend remembers, and after a
\* poll that sees the controllers that is what is pressed.
ButtonsTold ==
  platform = "xr" =>
    /\ \A b \in XrButtons : told[b] = lastState[b]
    /\ fresh /\ controller.running /\ IsActive => \A b \in XrButtons : lastState[b] = down[b]

\* A poll leaves the queues empty.
QueuesEmptied == platform = "desktop" /\ fresh => \A k \in Kinds : queues[k] = <<>>

InputInv == TypeOK /\ QueueTold /\ ButtonsTold /\ QueuesEmptied /\ DeliveredOnce /\ OneRay

LEMMA QuitSays ==
  ASSUME NEW quit \in {<<>>, <<QuitEvent>>}
  PROVE  /\ quit \in Seq(Events) /\ \A n \in 1 .. Len(quit) : quit[n].kind = "quit"
         /\ \A i, now : Says(quit, Len(quit), i, now, now)
<1>1. QuitEvent \in Events /\ QuitEvent.kind = "quit"
  BY DEF QuitEvent, Events
<1>2. quit \in Seq(Events) /\ \A n \in 1 .. Len(quit) : quit[n] = QuitEvent
  <2>1. CASE quit = <<>>
    BY <2>1
  <2>2. CASE quit = <<QuitEvent>>
    BY <1>1, <2>2
  <2> QED BY <2>1, <2>2
<1>3. \A n \in 1 .. Len(quit) : quit[n].kind = "quit"
  BY <1>1, <1>2
<1>4. \A i : \A n \in 1 .. Len(quit) : ~About(quit[n], i)
  BY <1>3 DEF About
<1> QED BY <1>2, <1>3, <1>4 DEF Says

\* What a poll of the desktop returns.
LEMMA DesktopEvents ==
  ASSUME InputInv, platform = "desktop", NEW quit \in {<<>>, <<QuitEvent>>},
         NEW events, events = (getPressedMovementKeys \o Queued) \o quit
  PROVE  /\ events \in Seq(Events)
         /\ \A i \in Keys \cup {"right"} : Says(events, Len(events), i, told[i], down[i])
         /\ \A k \in Plain : Within(events, k, queues[k])
<1>1. PICK held, q : held = getPressedMovementKeys /\ q = Queued
  OBVIOUS
<1>2. TypeOK
  BY DEF InputInv
<1>3. /\ held \in Seq(Events) /\ \A n \in 1 .. Len(held) : held[n].kind = "keyboard"
      /\ \A i \in Keys \cup {"right"} :
           Says(held, Len(held), i, told[i], IF i \in Keys /\ down[i] THEN TRUE ELSE told[i])
  BY <1>1, <1>2, HeldKeys
<1>4. /\ q \in Seq(Events) /\ \A k \in Kinds : Within(q, k, queues[k])
  BY <1>1, <1>2, QueuedSorted DEF Sorted
<1>5. quit \in Seq(Events) /\ \A n \in 1 .. Len(quit) : quit[n].kind = "quit"
  BY QuitSays
<1>6. held \o q \in Seq(Events) /\ events = (held \o q) \o quit /\ events \in Seq(Events)
  BY <1>1, <1>3, <1>4, <1>5
<1>7. ASSUME NEW i \in Keys \cup {"right"}
      PROVE  Says(events, Len(events), i, told[i], down[i])
  <2> DEFINE kind == KindOf(i)
             mid == IF i \in Keys /\ down[i] THEN TRUE ELSE told[i]
  <2>1. kind \in Kinds
    BY DEF KindOf, Kinds
  <2>2. Says(queues[kind], Len(queues[kind]), i, told[i], down[i])
    BY DEF InputInv, QueueTold
  <2>3. mid \in {told[i], down[i]}
    <3>1. down[i] \in BOOLEAN
      BY <1>2 DEF TypeOK, Inputs
    <3> QED BY <3>1
  <2>4. \A n \in 1 .. Len(q) : About(q[n], i) => q[n].kind = kind
    <3>1. \A n \in 1 .. Len(q) : q[n] \in Events
      BY <1>4
    <3> QED BY <3>1, AboutKind
  <2>5. queues[kind] \in Seq(Events) /\ Within(q, kind, queues[kind])
    BY <1>2, <1>4, <2>1, QueueTyped
  <2> HIDE DEF kind, mid
  <2>6. Says(q, Len(q), i, told[i], down[i])
    BY <1>4, <2>2, <2>4, <2>5, SaysWithin
  <2>7. Len(q) \in Nat
    BY <1>4
  <2>8. Says(q, Len(q), i, mid, down[i])
    BY <2>3, <2>6, <2>7, SaysFrom
  <2>9. Says(held, Len(held), i, told[i], mid)
    BY <1>3 DEF mid
  <2>10. Says(held \o q, Len(held \o q), i, told[i], down[i])
    BY <1>3, <1>4, <2>8, <2>9, SaysConcat
  <2>11. Says(quit, Len(quit), i, down[i], down[i])
    BY QuitSays
  <2> QED BY <1>5, <1>6, <2>10, <2>11, SaysConcat
<1>8. ASSUME NEW k \in Plain PROVE Within(events, k, queues[k])
  <2>1. k \in Kinds /\ k # "keyboard" /\ k # "quit"
    BY DEF Plain, Kinds
  <2>2. queues[k] \in Seq(Events) /\ Within(q, k, queues[k])
    BY <1>2, <1>4, <2>1, QueueTyped
  <2>3. \A n \in 1 .. Len(held) : held[n].kind # k
    BY <1>3, <2>1
  <2>4. Within(held \o q, k, queues[k])
    BY <1>3, <1>4, <2>2, <2>3, WithinRight
  <2>5. \A n \in 1 .. Len(quit) : quit[n].kind # k
    BY <1>5, <2>1
  <2> QED BY <1>5, <1>6, <2>2, <2>4, <2>5, WithinLeft
<1> QED BY <1>6, <1>7, <1>8

\* A poll of the desktop: the application knows, and got the queues.
LEMMA DesktopPolled ==
  ASSUME InputInv, platform = "desktop", PollEvents
  PROVE  /\ \A i \in Keys \cup {"right"} : told'[i] = down[i]
         /\ \A k \in Plain : received'[k] = received[k] \o Numbers(queues[k])
         /\ queues' = Nothing /\ lastState' = lastState /\ fresh' = TRUE
<1>1. PICK polled \in Polled, quit \in {<<>>, <<QuitEvent>>} :
        /\ DesktopPollEvents(polled) \/ XrPollActions(polled)
        /\ told' = Told(polled \o quit) /\ received' = Received(polled \o quit)
  BY Zenon DEF PollEvents
<1>2. PICK events : events = polled \o quit
  OBVIOUS
<1>3. DesktopPollEvents(polled)
  BY <1>1 DEF XrPollActions
<1>4. events = (getPressedMovementKeys \o Queued) \o quit
  BY <1>2, <1>3 DEF DesktopPollEvents
<1>5. /\ events \in Seq(Events)
      /\ \A i \in Keys \cup {"right"} : Says(events, Len(events), i, told[i], down[i])
      /\ \A k \in Plain : Within(events, k, queues[k])
  BY <1>4, DesktopEvents
<1>6. told' = After(Tell, told, events) /\ received' = After(Receive, received, events)
  BY <1>1, <1>2 DEF Told, Received
<1>7. told \in Tellings /\ received \in Receivings
  BY DEF InputInv, TypeOK, Tellings, Receivings
<1>8. ASSUME NEW i \in Keys \cup {"right"} PROVE told'[i] = down[i]
  <2>1. i \in Inputs
    BY DEF Inputs
  <2>2. Says(events, Len(events), i, told[i], told'[i])
    BY <1>5, <1>6, <1>7, <2>1, ToldIsSaid
  <2>3. Says(events, Len(events), i, told[i], down[i]) /\ Len(events) \in Nat
    BY <1>5
  <2> QED BY <2>2, <2>3, SaysUnique
<1>9. ASSUME NEW k \in Plain PROVE received'[k] = received[k] \o Numbers(queues[k])
  <2>1. queues[k] \in Seq(EventsOf(k)) /\ Within(events, k, queues[k])
    BY <1>5 DEF InputInv, TypeOK, Kinds
  <2> QED BY <1>5, <1>6, <1>7, <2>1, ReceivedIs
<1> QED BY <1>3, <1>8, <1>9 DEF DesktopPollEvents

---------------------------------------------------------------------------
(* A poll on OpenXR *)

LEMMA ChangedButtons ==
  ASSUME TypeOK, NEW read \in SUBSET XrButtons
  PROVE  /\ ButtonEvents(read) \in Seq(Events)
         /\ \A n \in 1 .. Len(ButtonEvents(read)) : ButtonEvents(read)[n].kind = "handButton"
         /\ \A b \in XrButtons :
              Says(ButtonEvents(read), Len(ButtonEvents(read)), b, lastState[b], ButtonState(b, read))
<1> DEFINE H == {b \in read : IsActive /\ CurrentState(b) # lastState[b]}
           s == SetToSeq(H)
           e == ButtonEvents(read)
<1>1. IsFiniteSet(H)
  BY InputAssumption, FS_Subset
<1>2. s \in Seq(H) /\ Len(s) \in Nat /\ DOMAIN s = 1 .. Len(s)
  BY <1>1, SeqOfSet
<1>3. e = [j \in 1 .. Len(s) |-> HandButtonEvent(s[j], CurrentState(s[j]))]
  BY <1>2 DEF ButtonEvents
<1> HIDE DEF s, e
<1>4. \A j \in 1 .. Len(s) : s[j] \in H /\ CurrentState(s[j]) \in BOOLEAN
  BY <1>2 DEF CurrentState, IsActive, TypeOK, Inputs
<1>5. e \in Seq(Events) /\ Len(e) = Len(s)
  <2>1. DOMAIN e = 1 .. Len(s)
        /\ \A j \in 1 .. Len(s) : e[j] = HandButtonEvent(s[j], CurrentState(s[j]))
    BY <1>3
  <2>2. ASSUME NEW j \in 1 .. Len(s) PROVE e[j] \in Events
    <3>1. s[j] \in XrButtons /\ CurrentState(s[j]) \in BOOLEAN
      BY <1>4
    <3> QED BY <2>1, <3>1 DEF HandButtonEvent, Events
  <2>3. e \in [1 .. Len(s) -> Events]
    BY <1>3, <2>1, <2>2
  <2> QED BY <1>2, <2>3
<1>6. \A n \in 1 .. Len(e) : /\ e[n].kind = "handButton" /\ e[n].key = s[n]
                             /\ e[n].pressed = CurrentState(s[n])
  BY <1>3, <1>5 DEF HandButtonEvent
<1>7. ASSUME NEW b \in XrButtons PROVE Says(e, Len(e), b, lastState[b], ButtonState(b, read))
  <2>1. \A j \in 1 .. Len(e) : About(e[j], b) <=> s[j] = b
    BY <1>6 DEF About
  <2>2. \A j \in 1 .. Len(e) : s[j] = b => e[j].pressed = ButtonState(b, read)
    BY <1>4, <1>5, <1>6 DEF ButtonState
  <2>3. b \in H \/ ButtonState(b, read) = lastState[b]
    BY DEF ButtonState
  <2> HIDE DEF H
  <2> QED BY <1>1, <1>5, <2>1, <2>2, <2>3, ReportsSay DEF s
<1> QED BY <1>5, <1>6, <1>7 DEF e

\* Events about nothing.
LEMMA NoneSays ==
  ASSUME NEW e \in Seq(Events),
         \A n \in 1 .. Len(e) : e[n].kind \in {"handMotion", "thumbStick", "quit"},
         NEW i, NEW now
  PROVE  Says(e, Len(e), i, now, now)
BY DEF Says, About

LEMMA XrEvents ==
  ASSUME InputInv, platform = "xr", NEW polled, XrPollActions(polled),
         NEW quit \in {<<>>, <<QuitEvent>>}, NEW events, events = polled \o quit
  PROVE  /\ events \in Seq(Events) /\ \A n \in 1 .. Len(events) : events[n].kind \notin Plain
         /\ \A b \in XrButtons : Says(events, Len(events), b, told[b], lastState'[b])
<1>1. TypeOK /\ \A b \in XrButtons : told[b] = lastState[b]
  BY DEF InputInv, ButtonsTold
<1>2. quit \in Seq(Events) /\ \A n \in 1 .. Len(quit) : quit[n].kind = "quit"
  BY QuitSays
<1>3. ASSUME NEW hand \in HandEvents, NEW read \in SUBSET XrButtons,
             polled = (hand \o ButtonEvents(read)) \o ThumbStickEvents,
             lastState' = [b \in XrButtons |-> ButtonState(b, read)]
      PROVE  /\ events \in Seq(Events) /\ \A n \in 1 .. Len(events) : events[n].kind \notin Plain
             /\ \A b \in XrButtons : Says(events, Len(events), b, told[b], lastState'[b])
  <2>1. polled = (hand \o ButtonEvents(read)) \o ThumbStickEvents
    BY <1>3
  <2>2. lastState' = [b \in XrButtons |-> ButtonState(b, read)]
    BY <1>3
  <2>3. HandMotionEvent \in Events /\ HandThumbStickEvent \in Events
    BY DEF Events
  <2>4. hand \in Seq(Events) /\ \A n \in 1 .. Len(hand) : hand[n].kind = "handMotion"
    <3>1. CASE hand = <<>>
      BY <3>1
    <3>2. CASE hand = <<HandMotionEvent>>
      <4>1. hand \in Seq(Events) /\ Len(hand) = 1 /\ hand[1] = HandMotionEvent
        BY <2>3, <3>2
      <4> QED BY <4>1 DEF HandMotionEvent
    <3> QED BY <3>1, <3>2 DEF HandEvents
  <2>5. PICK stick : stick = ThumbStickEvents
    OBVIOUS
  <2>6. stick \in Seq(Events) /\ \A n \in 1 .. Len(stick) : stick[n].kind = "thumbStick"
    <3>1. CASE stick = <<>>
      BY <3>1
    <3>2. CASE stick = <<HandThumbStickEvent>>
      <4>1. stick \in Seq(Events) /\ Len(stick) = 1 /\ stick[1] = HandThumbStickEvent
        BY <2>3, <3>2
      <4> QED BY <4>1 DEF HandThumbStickEvent
    <3> QED BY <2>5, <3>1, <3>2 DEF ThumbStickEvents
  <2>7. PICK e : e = ButtonEvents(read)
    OBVIOUS
  <2>8. /\ e \in Seq(Events) /\ \A n \in 1 .. Len(e) : e[n].kind = "handButton"
        /\ \A b \in XrButtons : Says(e, Len(e), b, lastState[b], ButtonState(b, read))
    BY <1>1, <2>7, ChangedButtons
  <2>9. /\ hand \o e \in Seq(Events) /\ (hand \o e) \o stick \in Seq(Events)
        /\ events = ((hand \o e) \o stick) \o quit /\ events \in Seq(Events)
    BY <1>2, <2>1, <2>4, <2>5, <2>6, <2>7, <2>8
  <2>10. ASSUME NEW b \in XrButtons
         PROVE  Says(events, Len(events), b, told[b], lastState'[b])
    <3> DEFINE now == ButtonState(b, read)
    <3>1. Says(hand, Len(hand), b, lastState[b], lastState[b])
      BY <2>4, NoneSays
    <3>2. Says(e, Len(e), b, lastState[b], now)
      BY <2>8
    <3> HIDE DEF now
    <3>3. Says(stick, Len(stick), b, now, now) /\ Says(quit, Len(quit), b, now, now)
      BY <1>2, <2>6, NoneSays
    <3>4. Says(hand \o e, Len(hand \o e), b, lastState[b], now)
      BY <2>4, <2>8, <3>1, <3>2, SaysConcat
    <3>5. Says((hand \o e) \o stick, Len((hand \o e) \o stick), b, lastState[b], now)
      BY <2>6, <2>9, <3>3, <3>4, SaysConcat
    <3>6. Says(events, Len(events), b, lastState[b], now)
      BY <1>2, <2>9, <3>3, <3>5, SaysConcat
    <3>7. lastState'[b] = now /\ told[b] = lastState[b]
      BY <1>1, <2>2 DEF now
    <3> QED BY <3>6, <3>7
  <2>11. \A n \in 1 .. Len(events) : events[n].kind \notin Plain
    <3> DEFINE K == {"handMotion", "handButton", "thumbStick", "quit"}
    <3>1. K \cap Plain = {}
      BY DEF Plain
    <3>2. /\ \A n \in 1 .. Len(hand) : hand[n].kind \in K
          /\ \A n \in 1 .. Len(e) : e[n].kind \in K
          /\ \A n \in 1 .. Len(stick) : stick[n].kind \in K
          /\ \A n \in 1 .. Len(quit) : quit[n].kind \in K
      BY <1>2, <2>4, <2>6, <2>8
    <3> HIDE DEF K
    <3>3. \A n \in 1 .. Len(hand \o e) : (hand \o e)[n].kind \in K
      BY <2>4, <2>8, <3>2, ConcatKinds
    <3>4. \A n \in 1 .. Len((hand \o e) \o stick) : ((hand \o e) \o stick)[n].kind \in K
      BY <2>6, <2>9, <3>2, <3>3, ConcatKinds
    <3>5. \A n \in 1 .. Len(events) : events[n].kind \in K
      BY <1>2, <2>9, <3>2, <3>4, ConcatKinds
    <3> QED BY <3>1, <3>5
  <2> QED BY <2>9, <2>10, <2>11
<1>4. CASE polled = <<>> /\ UNCHANGED lastState
  <2>1. polled = <<>> /\ lastState' = lastState
    BY <1>4
  <2>2. events = quit
    BY <1>2, <2>1
  <2>3. \A b \in XrButtons : Says(events, Len(events), b, told[b], lastState'[b])
    BY <1>1, <1>2, <2>1, <2>2, NoneSays
  <2> QED BY <1>2, <2>2, <2>3 DEF Plain
<1> QED BY <1>3, <1>4, Zenon DEF XrPollActions

LEMMA NoNumbers == Numbers(<<>>) = <<>>
BY DEF Numbers

\* A poll of OpenXR: the application believes what the backend remembers.
LEMMA XrPolled ==
  ASSUME InputInv, platform = "xr", PollEvents
  PROVE  /\ \A b \in XrButtons : told'[b] = lastState'[b]
         /\ \A k \in Plain : received'[k] = received[k]
         /\ fresh' /\ IsActive => \A b \in XrButtons : lastState'[b] = down[b]
         /\ queues' = queues /\ lastState' \in [XrButtons -> BOOLEAN] /\ fresh' \in BOOLEAN
<1>1. PICK polled \in Polled, quit \in {<<>>, <<QuitEvent>>} :
        /\ DesktopPollEvents(polled) \/ XrPollActions(polled)
        /\ told' = Told(polled \o quit) /\ received' = Received(polled \o quit)
  BY Zenon DEF PollEvents
<1>2. PICK events : events = polled \o quit
  OBVIOUS
<1>3. XrPollActions(polled)
  BY <1>1 DEF DesktopPollEvents
<1>4. /\ events \in Seq(Events) /\ \A n \in 1 .. Len(events) : events[n].kind \notin Plain
      /\ \A b \in XrButtons : Says(events, Len(events), b, told[b], lastState'[b])
  BY <1>2, <1>3, XrEvents
<1>5. told' = After(Tell, told, events) /\ received' = After(Receive, received, events)
  BY <1>1, <1>2 DEF Told, Received
<1>6. told \in Tellings /\ received \in Receivings /\ lastState \in [XrButtons -> BOOLEAN]
  BY DEF InputInv, TypeOK, Tellings, Receivings
<1>7. ASSUME NEW b \in XrButtons PROVE told'[b] = lastState'[b]
  <2>1. b \in Inputs
    BY DEF Inputs
  <2>2. Says(events, Len(events), b, told[b], told'[b])
    BY <1>4, <1>5, <1>6, <2>1, ToldIsSaid
  <2>3. Says(events, Len(events), b, told[b], lastState'[b]) /\ Len(events) \in Nat
    BY <1>4
  <2> QED BY <2>2, <2>3, SaysUnique
<1>8. ASSUME NEW k \in Plain PROVE received'[k] = received[k]
  <2>1. \A n \in 1 .. Len(events) : events[n].kind # k
    BY <1>4
  <2>2. Within(events, k, <<>>) /\ <<>> \in Seq(EventsOf(k))
    BY <1>4, <2>1, WithinNone
  <2>3. received'[k] = received[k] \o Numbers(<<>>)
    BY <1>4, <1>5, <1>6, <2>2, ReceivedIs
  <2>4. received[k] \in Seq(Nat)
    BY <1>6 DEF Receivings
  <2> QED BY <2>3, <2>4, NoNumbers
<1>9. /\ lastState' \in [XrButtons -> BOOLEAN] /\ fresh' \in BOOLEAN
      /\ fresh' /\ IsActive => \A b \in XrButtons : lastState'[b] = down[b]
  <2>1. ASSUME NEW read \in SUBSET XrButtons,
               lastState' = [b \in XrButtons |-> ButtonState(b, read)], fresh' = (read = XrButtons)
        PROVE  /\ lastState' \in [XrButtons -> BOOLEAN] /\ fresh' \in BOOLEAN
               /\ fresh' /\ IsActive => \A b \in XrButtons : lastState'[b] = down[b]
    <3>1. \A b \in XrButtons : ButtonState(b, read) \in BOOLEAN
      BY <1>6 DEF ButtonState, CurrentState, IsActive, InputInv, TypeOK, Inputs
    <3>2. read = XrButtons /\ IsActive => \A b \in XrButtons : ButtonState(b, read) = down[b]
      BY DEF ButtonState, CurrentState, InputInv, TypeOK, Inputs
    <3>3. fresh' /\ IsActive => \A b \in XrButtons : lastState'[b] = down[b]
      BY <2>1, <3>2
    <3>4. lastState' \in [XrButtons -> BOOLEAN] /\ fresh' \in BOOLEAN
      BY <2>1, <3>1
    <3> QED BY <3>3, <3>4
  <2>2. CASE lastState' = lastState /\ fresh' = FALSE
    BY <1>6, <2>2
  <2> QED BY <1>3, <2>1, <2>2, Zenon DEF XrPollActions
<1> QED BY <1>3, <1>7, <1>8, <1>9 DEF XrPollActions

---------------------------------------------------------------------------
(* The invariant, action by action *)

LEMMA InitInv ==
  ASSUME Init
  PROVE  InputInv
<1>1. TypeOK
  <2>1. DOMAIN queues = Kinds /\ \A k \in Kinds : queues[k] \in Seq(EventsOf(k))
    BY DEF Init
  <2>2. received \in [Plain -> Seq(Nat)] /\ captured \in Seq(CameraEvents)
    BY DEF Init
  <2>3. rays \in [made : Nat, alive : SUBSET Nat] /\ ray \in Nat /\ right \in BOOLEAN
    BY DEF Init
  <2> QED BY <2>1, <2>2, <2>3 DEF Init, TypeOK
<1>2. QueueTold
  <2>1. ASSUME NEW i \in Keys \cup {"right"}
        PROVE  Says(queues[KindOf(i)], Len(queues[KindOf(i)]), i, told[i], down[i])
    <3>1. queues[KindOf(i)] = <<>> /\ told[i] = down[i]
      BY DEF Init, KindOf, Kinds, Inputs
    <3> QED BY <3>1 DEF Says
  <2> QED BY <2>1 DEF QueueTold
<1>3. ButtonsTold /\ QueuesEmptied
  BY DEF Init, ButtonsTold, QueuesEmptied, Inputs
<1>4. DeliveredOnce
  <2>1. ASSUME NEW k \in Plain PROVE received[k] \o Numbers(queues[k]) = [i \in 1 .. sent[k] |-> i]
    <3>1. queues[k] = <<>> /\ received[k] = <<>> /\ sent[k] = 0
      BY DEF Init, Kinds
    <3> QED BY <3>1, NoNumbers
  <2> QED BY <2>1 DEF DeliveredOnce
<1>5. OneRay
  BY DEF Init, OneRay
<1> QED BY <1>1, <1>2, <1>3, <1>4, <1>5 DEF InputInv

\* One event more.
LEMMA SaysAppend ==
  ASSUME NEW S, NEW q \in Seq(S), NEW e \in S, NEW i, NEW old, NEW was, NEW now,
         Says(q, Len(q), i, old, was), IF About(e, i) THEN now = e.pressed ELSE now = was
  PROVE  Says(Append(q, e), Len(Append(q, e)), i, old, now)
<1>1. <<e>> \in Seq(S) /\ Len(<<e>>) = 1 /\ <<e>>[1] = e /\ Append(q, e) = q \o <<e>>
  OBVIOUS
<1>2. Says(<<e>>, Len(<<e>>), i, was, now)
  BY <1>1 DEF Says
<1> QED BY <1>1, <1>2, SaysConcat

LEMMA Enqueued ==
  ASSUME TypeOK, NEW k \in Kinds, NEW e \in EventsOf(k), Enqueue(e)
  PROVE  /\ e \in Events /\ e.kind = k /\ queues'[k] = Append(queues[k], e)
         /\ \A j \in Kinds : j # k => queues'[j] = queues[j]
         /\ DOMAIN queues' = Kinds /\ \A j \in Kinds : queues'[j] \in Seq(EventsOf(j))
<1>1. e \in Events /\ e.kind = k
  BY EventKinds
<1>2. /\ DOMAIN queues' = Kinds /\ queues'[k] = Append(queues[k], e)
      /\ \A j \in Kinds : j # k => queues'[j] = queues[j]
  BY <1>1 DEF Enqueue, TypeOK
<1>3. queues[k] \in Seq(EventsOf(k)) /\ \A j \in Kinds : queues[j] \in Seq(EventsOf(j))
  BY DEF TypeOK
<1>4. Append(queues[k], e) \in Seq(EventsOf(k))
  BY <1>3
<1>5. ASSUME NEW j \in Kinds PROVE queues'[j] \in Seq(EventsOf(j))
  BY <1>2, <1>3, <1>4
<1> QED BY <1>1, <1>2, <1>5

\* What a callback does to the invariant, whatever it queues.
LEMMA CallbackKeeps ==
  ASSUME InputInv, platform = "desktop", Happens, controller' = controller,
         NEW k \in Kinds, NEW e \in EventsOf(k), Enqueue(e),
         down' \in [Inputs -> BOOLEAN], sent' \in [Plain -> Nat],
         \A i \in Keys \cup {"right"} : down'[i] = IF About(e, i) THEN e.pressed ELSE down[i],
         \A j \in Plain :
           IF j = k THEN e.number = sent[j] + 1 /\ sent'[j] = sent[j] + 1 ELSE sent'[j] = sent[j]
  PROVE  InputInv'
<1>1. TypeOK
  BY DEF InputInv
<1>2. /\ e \in Events /\ e.kind = k /\ queues'[k] = Append(queues[k], e)
      /\ \A j \in Kinds : j # k => queues'[j] = queues[j]
      /\ DOMAIN queues' = Kinds /\ \A j \in Kinds : queues'[j] \in Seq(EventsOf(j))
  BY <1>1, Enqueued
<1>3. TypeOK'
  BY <1>1, <1>2 DEF TypeOK, Happens, camera
<1>4. QueueTold'
  <2>1. ASSUME NEW i \in Keys \cup {"right"}
        PROVE  Says(queues'[KindOf(i)], Len(queues'[KindOf(i)]), i, told[i], down'[i])
    <3>1. Says(queues[KindOf(i)], Len(queues[KindOf(i)]), i, told[i], down[i]) /\ KindOf(i) \in Kinds
      BY DEF InputInv, QueueTold, KindOf, Kinds
    <3>2. CASE KindOf(i) = k
      <4>1. queues[k] \in Seq(Events)
        BY <1>1, QueueTyped
      <4>2. IF About(e, i) THEN down'[i] = e.pressed ELSE down'[i] = down[i]
        OBVIOUS
      <4>3. PICK q, now : q = queues[k] /\ now = down'[i]
        OBVIOUS
      <4>4. Says(Append(q, e), Len(Append(q, e)), i, told[i], now)
        BY <1>2, <3>1, <3>2, <4>1, <4>2, <4>3, SaysAppend
      <4> QED BY <1>2, <3>2, <4>3, <4>4
    <3>3. CASE KindOf(i) # k
      <4>1. ~About(e, i)
        BY <1>2, <3>3, AboutKind
      <4> QED BY <1>2, <3>1, <3>3, <4>1
    <3> QED BY <3>2, <3>3
  <2> QED BY <2>1 DEF QueueTold, Happens
<1>5. ButtonsTold' /\ QueuesEmptied'
  BY DEF ButtonsTold, QueuesEmptied, Happens
<1>6. DeliveredOnce'
  <2>1. ASSUME NEW j \in Plain
        PROVE  received[j] \o Numbers(queues'[j]) = [i \in 1 .. sent'[j] |-> i]
    <3>1. received[j] \o Numbers(queues[j]) = [i \in 1 .. sent[j] |-> i]
      BY DEF InputInv, DeliveredOnce
    <3>2. CASE j = k
      <4>1. PICK q, n, r : q = queues[j] /\ n = sent[j] /\ r = received[j]
        OBVIOUS
      <4>2. q \in Seq(EventsOf(k)) /\ r \in Seq(Nat) /\ n \in Nat
        BY <1>1, <3>2, <4>1 DEF TypeOK
      <4>3. Append(q, e) \in Seq(EventsOf(k)) /\ k \in Plain
        BY <3>2, <4>2
      <4>4. Numbers(Append(q, e)) = Append(Numbers(q), e.number)
        <5>1. /\ Numbers(q) \in Seq(Nat) /\ Len(Numbers(q)) = Len(q)
              /\ \A i \in 1 .. Len(q) : Numbers(q)[i] = q[i].number
          BY <4>2, <4>3, NumbersTyped
        <5>2. /\ Numbers(Append(q, e)) \in Seq(Nat)
              /\ Len(Numbers(Append(q, e))) = Len(Append(q, e))
              /\ \A i \in 1 .. Len(Append(q, e)) : Numbers(Append(q, e))[i] = Append(q, e)[i].number
          BY <4>3, NumbersTyped
        <5>3. /\ Len(Append(q, e)) = Len(q) + 1 /\ Len(q) \in Nat
              /\ Append(q, e)[Len(q) + 1] = e
              /\ \A i \in 1 .. Len(q) : Append(q, e)[i] = q[i]
          BY <4>2
        <5>4. e.number \in Nat
          BY <3>2, <4>1, <4>2
        <5>5. PICK a, b : a = Numbers(Append(q, e)) /\ b = Append(Numbers(q), e.number)
          OBVIOUS
        <5>6. a \in Seq(Nat) /\ Len(a) = Len(q) + 1
              /\ \A i \in 1 .. Len(q) + 1 : a[i] = Append(q, e)[i].number
          BY <5>2, <5>3, <5>5
        <5>7. b \in Seq(Nat) /\ Len(b) = Len(q) + 1 /\ b[Len(q) + 1] = e.number
              /\ \A i \in 1 .. Len(q) : b[i] = q[i].number
          BY <5>1, <5>3, <5>4, <5>5
        <5>8. ASSUME NEW i \in 1 .. Len(q) + 1 PROVE a[i] = b[i]
          <6>1. CASE i \in 1 .. Len(q)
            BY <5>3, <5>6, <5>7, <6>1
          <6>2. CASE i = Len(q) + 1
            BY <5>3, <5>6, <5>7, <6>2
          <6> QED BY <5>3, <6>1, <6>2
        <5>9. a = b
          BY <5>6, <5>7, <5>8
        <5> QED BY <5>5, <5>9
      <4>5. /\ r \o Numbers(q) = [i \in 1 .. n |-> i] /\ sent'[j] = n + 1 /\ e.number = n + 1
            /\ queues'[j] = Append(q, e)
        BY <1>2, <3>1, <3>2, <4>1
      <4>6. Numbers(q) \in Seq(Nat)
        BY <4>2, <4>3, NumbersTyped
      <4>7. PICK m : m = Numbers(q)
        OBVIOUS
      <4>8. r \o Append(m, n + 1) = Append(r \o m, n + 1)
        BY <4>2, <4>6, <4>7
      <4>9. Append([i \in 1 .. n |-> i], n + 1) = [i \in 1 .. n + 1 |-> i]
        BY <4>2
      <4> QED BY <4>1, <4>4, <4>5, <4>7, <4>8, <4>9
    <3>3. CASE j # k
      <4>1. j \in Kinds
        BY DEF Kinds
      <4> QED BY <1>2, <3>1, <3>3, <4>1
    <3> QED BY <3>2, <3>3
  <2> QED BY <2>1 DEF DeliveredOnce, Happens
<1>7. OneRay'
  BY DEF InputInv, OneRay, Happens, camera
<1> QED BY <1>3, <1>4, <1>5, <1>6, <1>7 DEF InputInv

LEMMA CallbackStep ==
  ASSUME InputInv, setupCallbackEvent
  PROVE  InputInv'
<1>1. platform = "desktop" /\ Happens /\ TypeOK
  BY DEF setupCallbackEvent, InputInv
<1>2. ASSUME NEW k \in Keys, KeyCallback(k) PROVE InputInv'
  <2>1. PICK isDown \in BOOLEAN : /\ Enqueue(KeyEvent(k, isDown))
                                  /\ down' = [down EXCEPT ![k] = isDown]
    BY <1>2 DEF KeyCallback
  <2>2. PICK e : e = KeyEvent(k, isDown)
    OBVIOUS
  <2>3. e \in EventsOf("keyboard") /\ "keyboard" \in Kinds
    BY <2>2 DEF KeyEvent, EventsOf, Kinds
  <2>4. \A i : About(e, i) <=> i = k
    BY <2>2 DEF About, KeyEvent
  <2>5. e.pressed = isDown
    BY <2>2 DEF KeyEvent
  <2>6. /\ down' \in [Inputs -> BOOLEAN]
        /\ \A i \in Keys \cup {"right"} : down'[i] = IF About(e, i) THEN e.pressed ELSE down[i]
    BY <1>1, <2>1, <2>4, <2>5 DEF TypeOK, Inputs
  <2>7. sent' = sent /\ controller' = controller /\ sent' \in [Plain -> Nat]
    BY <1>1, <1>2 DEF KeyCallback, TypeOK
  <2>8. \A j \in Plain : IF j = "keyboard" THEN e.number = sent[j] + 1 /\ sent'[j] = sent[j] + 1
                                           ELSE sent'[j] = sent[j]
    BY <2>7 DEF Plain
  <2>9. Enqueue(e)
    BY <2>1, <2>2
  <2> QED BY <1>1, <2>3, <2>6, <2>7, <2>8, <2>9, CallbackKeeps
<1>3. CASE MouseButtonCallback
  <2>1. PICK e : e = ButtonEvent(~down["right"])
    OBVIOUS
  <2>2. Enqueue(e) /\ down' = [down EXCEPT !["right"] = ~@]
    BY <1>3, <2>1 DEF MouseButtonCallback
  <2>3. e \in EventsOf("mouseButton") /\ "mouseButton" \in Kinds
    BY <2>1 DEF ButtonEvent, EventsOf, Kinds
  <2>4. \A i : About(e, i) <=> i = "right"
    BY <2>1 DEF About, ButtonEvent
  <2>5. e.pressed = ~down["right"]
    BY <2>1 DEF ButtonEvent
  <2>6. /\ down' \in [Inputs -> BOOLEAN]
        /\ \A i \in Keys \cup {"right"} : down'[i] = IF About(e, i) THEN e.pressed ELSE down[i]
    BY <1>1, <2>2, <2>4, <2>5 DEF TypeOK, Inputs
  <2>7. sent' = sent /\ controller' = controller /\ sent' \in [Plain -> Nat]
    BY <1>1, <1>3 DEF MouseButtonCallback, TypeOK
  <2>8. \A j \in Plain : IF j = "mouseButton" THEN e.number = sent[j] + 1 /\ sent'[j] = sent[j] + 1
                                              ELSE sent'[j] = sent[j]
    BY <2>7 DEF Plain
  <2> QED BY <1>1, <2>2, <2>3, <2>6, <2>7, <2>8, CallbackKeeps
<1>4. CASE CursorPosCallback
  <2>1. PICK inside \in BOOLEAN : Enqueue(MotionEvent(inside))
    BY <1>4 DEF CursorPosCallback
  <2>2. PICK e : e = MotionEvent(inside)
    OBVIOUS
  <2>3. e \in EventsOf("mouseMotion") /\ "mouseMotion" \in Kinds
    BY <2>2 DEF MotionEvent, EventsOf, Kinds
  <2>4. \A i : ~About(e, i)
    BY <2>2 DEF About, MotionEvent
  <2>5. Enqueue(e) /\ sent' = sent /\ controller' = controller /\ down' = down
    BY <1>4, <2>1, <2>2 DEF CursorPosCallback
  <2>6. /\ down' \in [Inputs -> BOOLEAN] /\ sent' \in [Plain -> Nat]
        /\ \A i \in Keys \cup {"right"} : down'[i] = IF About(e, i) THEN e.pressed ELSE down[i]
    BY <1>1, <2>4, <2>5 DEF TypeOK
  <2>7. \A j \in Plain : IF j = "mouseMotion" THEN e.number = sent[j] + 1 /\ sent'[j] = sent[j] + 1
                                              ELSE sent'[j] = sent[j]
    BY <2>5 DEF Plain
  <2> QED BY <1>1, <2>3, <2>5, <2>6, <2>7, CallbackKeeps
<1>5. ASSUME NEW k \in Plain, PlainCallback(k) PROVE InputInv'
  <2>1. PICK e : e = PlainEvent(k, sent[k] + 1)
    OBVIOUS
  <2>2. Enqueue(e) /\ sent' = [sent EXCEPT ![k] = @ + 1] /\ controller' = controller /\ down' = down
    BY <1>5, <2>1 DEF PlainCallback
  <2>3. e \in EventsOf(k) /\ k \in Kinds
    <3>1. EventsOf(k) = [kind : {k}, number : Nat]
      BY EventKinds
    <3>2. sent[k] + 1 \in Nat
      BY <1>1 DEF TypeOK
    <3> QED BY <2>1, <3>1, <3>2 DEF PlainEvent, Kinds
  <2>4. e.number = sent[k] + 1 /\ \A i : ~About(e, i)
    BY <2>1 DEF About, PlainEvent, Plain
  <2>5. /\ down' \in [Inputs -> BOOLEAN] /\ sent' \in [Plain -> Nat]
        /\ \A i \in Keys \cup {"right"} : down'[i] = IF About(e, i) THEN e.pressed ELSE down[i]
    BY <1>1, <2>2, <2>4 DEF TypeOK
  <2>6. \A j \in Plain : IF j = k THEN e.number = sent[j] + 1 /\ sent'[j] = sent[j] + 1
                                  ELSE sent'[j] = sent[j]
    BY <1>1, <2>2, <2>4 DEF TypeOK
  <2> QED BY <1>1, <2>2, <2>3, <2>5, <2>6, CallbackKeeps
<1> QED BY <1>2, <1>3, <1>4, <1>5 DEF setupCallbackEvent

\* What the user and the runtime do on OpenXR.
LEMMA DevicesStep ==
  ASSUME InputInv, XrDevices
  PROVE  InputInv'
<1>1. /\ platform = "xr" /\ platform' = platform /\ fresh' = FALSE
      /\ UNCHANGED <<queues, sent, lastState, told, received, capture, captured, right, ray, rays>>
  BY DEF XrDevices, Happens, camera
<1>2. /\ down' \in [Inputs -> BOOLEAN]
      /\ controller' \in [running : BOOLEAN, focused : BOOLEAN, active : BOOLEAN]
  <2>1. CASE \E b \in XrButtons : down' = [down EXCEPT ![b] = ~@] /\ UNCHANGED controller
    BY <2>1 DEF InputInv, TypeOK, Inputs
  <2>2. CASE \E f \in {"running", "focused", "active"} :
               controller' = [controller EXCEPT ![f] = ~@] /\ UNCHANGED down
    <3>1. PICK f \in {"running", "focused", "active"} :
            controller' = [controller EXCEPT ![f] = ~@] /\ UNCHANGED down
      BY <2>2
    <3>2. PICK c : c = controller
      OBVIOUS
    <3>3. c \in [running : BOOLEAN, focused : BOOLEAN, active : BOOLEAN]
      BY <3>2 DEF InputInv, TypeOK
    <3>4. [c EXCEPT ![f] = ~@] \in [running : BOOLEAN, focused : BOOLEAN, active : BOOLEAN]
      BY <3>3
    <3> QED BY <3>1, <3>2, <3>4 DEF InputInv, TypeOK
  <2> QED BY <2>1, <2>2 DEF XrDevices
<1>3. TypeOK'
  BY <1>1, <1>2 DEF InputInv, TypeOK
<1>4. QueueTold' /\ ButtonsTold' /\ QueuesEmptied' /\ DeliveredOnce' /\ OneRay'
  BY <1>1 DEF InputInv, QueueTold, ButtonsTold, QueuesEmptied, DeliveredOnce, OneRay
<1> QED BY <1>3, <1>4 DEF InputInv

LEMMA PollTyped ==
  ASSUME InputInv, PollEvents
  PROVE  /\ told' \in [Inputs -> BOOLEAN] /\ received' \in [Plain -> Seq(Nat)]
         /\ captured' \in Seq(CameraEvents)
<1>1. PICK polled \in Polled, quit \in {<<>>, <<QuitEvent>>} :
        /\ DesktopPollEvents(polled) \/ XrPollActions(polled)
        /\ told' = Told(polled \o quit) /\ received' = Received(polled \o quit)
        /\ captured' \in {captured, Captured(polled \o quit)}
  BY Zenon DEF PollEvents
<1>2. PICK events : events = polled \o quit
  OBVIOUS
<1>3. events \in Seq(Events)
  <2>1. CASE DesktopPollEvents(polled)
    <3>1. platform = "desktop" /\ events = (getPressedMovementKeys \o Queued) \o quit
      BY <1>2, <2>1 DEF DesktopPollEvents
    <3> QED BY <3>1, DesktopEvents
  <2>2. CASE XrPollActions(polled)
    <3>1. platform = "xr"
      BY <2>2 DEF XrPollActions
    <3> QED BY <1>2, <2>2, <3>1, XrEvents
  <2> QED BY <1>1, <2>1, <2>2
<1>4. told \in Tellings /\ received \in Receivings /\ captured \in Captures
  BY DEF InputInv, TypeOK, Tellings, Receivings, Captures
<1>5. /\ Told(events) \in Tellings /\ Received(events) \in Receivings
      /\ Captured(events) \in Captures
  BY <1>3, <1>4, LoopsTyped DEF Told, Received, Captured
<1> QED BY <1>1, <1>2, <1>4, <1>5 DEF Tellings, Receivings, Captures

LEMMA PollStep ==
  ASSUME InputInv, PollEvents
  PROVE  InputInv'
<1>1. UNCHANGED <<platform, down, sent, controller, capture, right, ray, rays>>
  BY DEF PollEvents, camera
<1>2. /\ told' \in [Inputs -> BOOLEAN] /\ received' \in [Plain -> Seq(Nat)]
      /\ captured' \in Seq(CameraEvents)
  BY PollTyped
<1>3. TypeOK /\ platform \in {"desktop", "xr"} /\ OneRay
  BY DEF InputInv, TypeOK
<1>4. OneRay'
  BY <1>1, <1>3 DEF OneRay
<1>5. CASE platform = "desktop"
  <2>1. /\ \A i \in Keys \cup {"right"} : told'[i] = down[i]
        /\ \A k \in Plain : received'[k] = received[k] \o Numbers(queues[k])
        /\ queues' = Nothing /\ lastState' = lastState /\ fresh' = TRUE
    BY <1>5, DesktopPolled
  <2>2. /\ DOMAIN queues' = Kinds /\ \A k \in Kinds : queues'[k] = <<>>
        /\ \A k \in Kinds : queues'[k] \in Seq(EventsOf(k))
    BY <2>1 DEF Nothing
  <2>3. TypeOK'
    BY <1>1, <1>2, <1>3, <2>1, <2>2 DEF TypeOK
  <2>4. QueueTold'
    <3>1. ASSUME NEW i \in Keys \cup {"right"}
          PROVE  Says(queues'[KindOf(i)], Len(queues'[KindOf(i)]), i, told'[i], down[i])
      <4>1. queues'[KindOf(i)] = <<>> /\ told'[i] = down[i]
        BY <2>1, <2>2 DEF KindOf, Kinds
      <4> QED BY <4>1 DEF Says
    <3> QED BY <1>1, <3>1 DEF QueueTold
  <2>5. ButtonsTold' /\ QueuesEmptied'
    BY <1>1, <1>5, <2>2 DEF ButtonsTold, QueuesEmptied
  <2>6. DeliveredOnce'
    <3>1. ASSUME NEW k \in Plain
          PROVE  received'[k] \o Numbers(queues'[k]) = [i \in 1 .. sent[k] |-> i]
      <4>1. queues'[k] = <<>> /\ received'[k] = [i \in 1 .. sent[k] |-> i]
        BY <2>1, <2>2 DEF InputInv, DeliveredOnce, Kinds
      <4>2. received'[k] \in Seq(Nat)
        BY <1>2
      <4>3. received'[k] \o Numbers(queues'[k]) = received'[k]
        <5>1. Numbers(queues'[k]) = <<>>
          BY <4>1, NoNumbers
        <5> QED BY <4>2, <5>1
      <4> QED BY <4>1, <4>3
    <3> QED BY <1>1, <3>1 DEF DeliveredOnce
  <2> QED BY <1>4, <2>3, <2>4, <2>5, <2>6 DEF InputInv
<1>6. CASE platform = "xr"
  <2>1. /\ \A b \in XrButtons : told'[b] = lastState'[b]
        /\ \A k \in Plain : received'[k] = received[k]
        /\ fresh' /\ IsActive => \A b \in XrButtons : lastState'[b] = down[b]
        /\ queues' = queues /\ lastState' \in [XrButtons -> BOOLEAN] /\ fresh' \in BOOLEAN
    BY <1>6, XrPolled
  <2>2. TypeOK'
    BY <1>1, <1>2, <1>3, <2>1 DEF TypeOK
  <2>3. QueueTold' /\ QueuesEmptied'
    BY <1>1, <1>6 DEF QueueTold, QueuesEmptied
  <2>4. ButtonsTold'
    BY <1>1, <2>1 DEF ButtonsTold, IsActive
  <2>5. DeliveredOnce'
    BY <1>1, <2>1 DEF InputInv, DeliveredOnce
  <2> QED BY <1>4, <2>2, <2>3, <2>4, <2>5 DEF InputInv
<1> QED BY <1>3, <1>5, <1>6

\* The captured events are applied, from a camera with one ray to one.
LEMMA UpdateStep ==
  ASSUME InputInv, Update
  PROVE  InputInv'
<1> DEFINE s == HandleViewportInput(captured)
<1>1. /\ right' = s.right /\ ray' = s.ray /\ rays' = s.rays /\ captured' = <<>>
      /\ UNCHANGED <<platform, down, queues, sent, controller, lastState, told, received, fresh,
                     capture>>
  BY DEF Update, devices
<1>2. [right |-> right, ray |-> ray, rays |-> rays] \in CameraStates /\ captured \in Captures
  BY DEF InputInv, TypeOK, OneRay, CameraStates, Captures
<1>3. s \in CameraStates
  BY <1>2, CameraTyped DEF HandleViewportInput
<1>4. TypeOK'
  <2>1. right' \in BOOLEAN /\ ray' \in Nat /\ rays' \in [made : Nat, alive : SUBSET Nat]
    BY <1>1, <1>3 DEF CameraStates
  <2>2. captured' \in Seq(CameraEvents)
    BY <1>1
  <2> QED BY <1>1, <2>1, <2>2 DEF InputInv, TypeOK
<1>5. OneRay'
  BY <1>1, <1>3 DEF OneRay, CameraStates
<1>6. QueueTold' /\ ButtonsTold' /\ QueuesEmptied' /\ DeliveredOnce'
  BY <1>1 DEF InputInv, QueueTold, ButtonsTold, IsActive, QueuesEmptied, DeliveredOnce
<1> QED BY <1>4, <1>5, <1>6 DEF InputInv

LEMMA OtherSteps ==
  ASSUME InputInv, SetShouldCaptureViewportInput \/ RemoveObjects \/ UNCHANGED vars
  PROVE  InputInv'
<1>1. UNCHANGED <<platform, down, queues, sent, controller, lastState, told, received, fresh,
                  captured, right, ray>>
  BY DEF SetShouldCaptureViewportInput, RemoveObjects, vars, devices, camera
<1>2. /\ capture' \in BOOLEAN /\ rays' \in [made : Nat, alive : SUBSET Nat]
      /\ rays'.alive \subseteq rays.alive
  BY DEF SetShouldCaptureViewportInput, RemoveObjects, vars, camera, InputInv, TypeOK
<1>3. TypeOK'
  BY <1>1, <1>2 DEF InputInv, TypeOK
<1>4. OneRay'
  BY <1>1, <1>2 DEF InputInv, OneRay
<1>5. QueueTold' /\ ButtonsTold' /\ QueuesEmptied' /\ DeliveredOnce'
  BY <1>1 DEF InputInv, QueueTold, ButtonsTold, IsActive, QueuesEmptied, DeliveredOnce
<1> QED BY <1>3, <1>4, <1>5 DEF InputInv

LEMMA InputInvAlways == Spec => []InputInv
<1>1. Init => InputInv
  BY InitInv
<1>2. InputInv /\ [Next]_vars => InputInv'
  BY CallbackStep, DevicesStep, PollStep, UpdateStep, OtherSteps DEF Next
<1> QED BY <1>1, <1>2, PTL DEF Spec

---------------------------------------------------------------------------
(* The theorems *)

\* Every queue holds events of its kind, and what the engine keeps and does
\* with the events has its type after any loop over any events.
THEOREM InputTyped == Spec => []TypeOK
<1>1. InputInv => TypeOK
  BY DEF InputInv
<1> QED BY <1>1, InputInvAlways, PTL

\* However many keys and buttons, and events between two polls, there are: an
\* application that only listens to events knows after a poll what is pressed
\* (DesktopPlatform::pollEvents, XrButtonAction::getEvent).
THEOREM ApplicationKnowsAlways == Spec => []ApplicationKnows
<1>1. InputInv => ApplicationKnows
  <2> SUFFICES ASSUME InputInv, fresh
               PROVE  /\ platform = "desktop" => \A i \in Keys \cup {"right"} : told[i] = down[i]
                      /\ platform = "xr" /\ controller.running /\ IsActive =>
                           \A b \in XrButtons : told[b] = down[b]
    BY DEF ApplicationKnows
  <2>1. ASSUME platform = "desktop", NEW i \in Keys \cup {"right"} PROVE told[i] = down[i]
    <3>1. queues[KindOf(i)] = <<>>
      BY <2>1 DEF InputInv, QueuesEmptied, KindOf, Kinds
    <3>2. Says(queues[KindOf(i)], Len(queues[KindOf(i)]), i, told[i], down[i])
      BY <2>1 DEF InputInv, QueueTold
    <3>3. Says(<<>>, 0, i, told[i], down[i])
      BY <3>1, <3>2
    <3> QED BY <3>3 DEF Says
  <2>2. platform = "xr" /\ controller.running /\ IsActive =>
          \A b \in XrButtons : told[b] = down[b]
    BY DEF InputInv, ButtonsTold
  <2> QED BY <2>1, <2>2
<1> QED BY <1>1, InputInvAlways, PTL

\* Wheel, enter, drop and text events reach the application exactly once and in
\* their order, over every sequence of callbacks and polls.
THEOREM DeliveredOnceAlways == Spec => []DeliveredOnce
<1>1. InputInv => DeliveredOnce
  BY DEF InputInv
<1> QED BY <1>1, InputInvAlways, PTL

\* There is never a second debug ray, whatever events an update applies
\* (Engine::updateDebugRay).
THEOREM OneRayAlways == Spec => []OneRay
<1>1. InputInv => OneRay
  BY DEF InputInv
<1> QED BY <1>1, InputInvAlways, PTL
=============================================================================
