---------------------------- MODULE HandleTable ----------------------------
(***************************************************************************)
(* What ObjectRegistry promises its callers: a map from handles to objects *)
(* whose handles are not given out twice before the map is cleared.        *)
(* Handles are opaque here; how they are made, and which slot an object    *)
(* lives in, is the business of the module ObjectRegistry, which           *)
(* implements this one.                                                    *)
(***************************************************************************)
EXTENDS Naturals, FiniteSets

CONSTANTS Handles, Objects, InvalidHandle

VARIABLES
  live,   \* handle -> object, for the handles that resolve
  dead,   \* the handles removed since the last Clear
  size    \* what size() answers

TypeOK ==
  /\ DOMAIN live \subseteq Handles
  /\ live \in [DOMAIN live -> Objects]
  /\ dead \subseteq Handles
  /\ size \in Nat

Init == live = <<>> /\ dead = {} /\ size = 0

\* A new object gets a handle that nobody held since the last Clear, and never the
\* sentinel.
Add(h, o) ==
  /\ size' = size + 1
  /\ h \in Handles \ (DOMAIN live \cup dead \cup {InvalidHandle})
  /\ live' = [g \in DOMAIN live \cup {h} |-> IF g = h THEN o ELSE live[g]]
  /\ UNCHANGED dead

Update(h, o) ==
  /\ h \in DOMAIN live
  /\ live' = [live EXCEPT ![h] = o]
  /\ UNCHANGED <<dead, size>>

Remove(h) ==
  /\ size' = size - 1
  /\ h \in DOMAIN live
  /\ live' = [g \in DOMAIN live \ {h} |-> live[g]]
  /\ dead' = dead \cup {h}

Clear ==
  /\ size' = 0
  /\ live' = <<>>
  /\ dead' = {}

Next ==
  \/ \E h \in Handles, o \in Objects : Add(h, o)
  \/ \E h \in DOMAIN live, o \in Objects : Update(h, o)
  \/ \E h \in Handles : Remove(h)
  \/ Clear

Spec == Init /\ [][Next]_<<live, dead, size>>
============================================================================
