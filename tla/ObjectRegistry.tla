--------------------------- MODULE ObjectRegistry ---------------------------
(***************************************************************************)
(* The slot map behind Renderer::addObject, updateObject, removeObject and *)
(* getObject: slots are recycled through a free list, and a handle names a *)
(* slot and the generation of its occupant.                                *)
(*                                                                         *)
(* A handle packs two 32-bit halves, which is the pair <<generation,       *)
(* index>> as long as there are fewer slots than indices.  The generation  *)
(* is an unsigned counter and wraps.  Adding or storing a null object and  *)
(* naming a handle that does not resolve change nothing.                   *)
(***************************************************************************)
EXTENDS Naturals, Sequences, FiniteSets

CONSTANTS
  Objects,        \* the objects a caller registers
  GenBound,       \* generations of a slot before the counter wraps, 2^32
  MaxSlots,       \* bound: slots ever allocated at once
  MaxRemovals     \* bound: removals between two clears

ASSUME BoundsAssumption ==
  /\ GenBound \in Nat /\ GenBound > 1
  /\ MaxSlots \in Nat /\ MaxRemovals \in Nat

CONSTANT NoObject
ASSUME NoObjectAssumption == NoObject \notin Objects

VARIABLES
  slots,     \* _slots
  freeList,  \* _freeList: positions of vacant slots, last one used first
  size,      \* _size
  dead,      \* history: handles removed since the last clear()
  removals   \* history: number of removals since the last clear()

vars == <<slots, freeList, size, dead, removals>>

Slot == [generation : 0 .. GenBound - 1, object : Objects \cup {NoObject}]
Handles == (0 .. GenBound - 1) \X (0 .. MaxSlots - 1)

kInvalidHandle == <<0, 0>>

TypeOK ==
  /\ slots \in Seq(Slot) /\ Len(slots) <= MaxSlots
  /\ freeList \in Seq(1 .. MaxSlots)
  /\ size \in Nat
  /\ dead \subseteq Handles
  /\ removals \in 0 .. MaxRemovals

\* The slot at position i (vector index i - 1) and the handle of its occupant.
HandleOf(i) == <<slots[i].generation, i - 1>>
Occupied == {i \in DOMAIN slots : slots[i].object # NoObject}
Vacant == DOMAIN slots \ Occupied

\* Mutant: the generation of the slot is not compared.
SlotForIndexOnly(h) == {i \in Occupied : i - 1 = h[2]}

\* slotFor(): the position of the slot a handle denotes, as a set of at most
\* one; a vacant slot or another generation does not resolve.
SlotFor(h) == {i \in Occupied : i - 1 = h[2] /\ slots[i].generation = h[1]}

Resolves(h) == SlotFor(h) # {}

Init ==
  /\ slots = <<>> /\ freeList = <<>> /\ size = 0
  /\ dead = {} /\ removals = 0

-----------------------------------------------------------------------------
\* A vacant slot keeps the generation its last removal left it with.
AddRecycled(o) ==
  /\ freeList # <<>>
  /\ LET i == freeList[Len(freeList)] IN
       slots' = [slots EXCEPT ![i].object = o]
  /\ freeList' = SubSeq(freeList, 1, Len(freeList) - 1)

AddAppended(o) ==
  /\ freeList = <<>> /\ Len(slots) < MaxSlots
  /\ slots' = Append(slots, [generation |-> 1, object |-> o])
  /\ UNCHANGED freeList

Add(o) ==
  /\ AddRecycled(o) \/ AddAppended(o)
  /\ size' = size + 1
  /\ UNCHANGED <<dead, removals>>

Update(h, o) ==
  /\ \E i \in SlotFor(h) : slots' = [slots EXCEPT ![i].object = o]
  /\ UNCHANGED <<freeList, size, dead, removals>>

\* Mutants: the generation stays; the slot is not put on the free list.
RemoveKeepsGeneration(h) ==
  /\ removals < MaxRemovals
  /\ \E i \in SlotFor(h) :
       /\ slots' = [slots EXCEPT ![i].object = NoObject]
       /\ freeList' = Append(freeList, i)
  /\ size' = size - 1
  /\ dead' = dead \cup {h}
  /\ removals' = removals + 1

RemoveLeaksSlot(h) ==
  /\ removals < MaxRemovals
  /\ \E i \in SlotFor(h) :
       slots' = [slots EXCEPT ![i] = [generation |-> (@.generation + 1) % GenBound,
                                      object |-> NoObject]]
  /\ size' = size - 1
  /\ dead' = dead \cup {h}
  /\ removals' = removals + 1
  /\ UNCHANGED freeList

Remove(h) ==
  /\ removals < MaxRemovals
  /\ \E i \in SlotFor(h) :
       /\ slots' = [slots EXCEPT ![i] = [generation |-> (@.generation + 1) % GenBound,
                                         object |-> NoObject]]
       /\ freeList' = Append(freeList, i)
  /\ size' = size - 1
  /\ dead' = dead \cup {h}
  /\ removals' = removals + 1

\* clear() drops the slots, and their generations with them: slot 0 is on its first
\* generation again, and a handle that was held before may be given out once more.
\* What the registry promises of a handle is therefore stated up to the next clear().
Clear ==
  /\ slots' = <<>> /\ freeList' = <<>> /\ size' = 0
  /\ dead' = {} /\ removals' = 0

Next ==
  \/ \E o \in Objects : Add(o)
  \/ \E h \in Handles, o \in Objects : Update(h, o)
  \/ \E h \in Handles : Remove(h)
  \/ Clear

Spec == Init /\ [][Next]_vars

-----------------------------------------------------------------------------
\* The free list holds every vacant slot once and no occupied one, so that two
\* live objects never share a slot and no slot is lost; size() counts the rest.
FreeListExact ==
  /\ \A i \in Vacant : \E j \in DOMAIN freeList : freeList[j] = i
  /\ \A j \in DOMAIN freeList : freeList[j] \in Vacant
  /\ \A j, l \in DOMAIN freeList : freeList[j] = freeList[l] => j = l

SizeExact == size = Cardinality(Occupied)

\* ObjectRegistry.hpp:119: a handle that was removed, and every copy of it, "stays
\* invalid", whatever is added in its place, until the registry is cleared.  The
\* comment says forever, and ObjectRegistry.hpp:161 says it of every handle handed
\* out before clear(): that is not so once something is added after it.
DeadStayDead == \A h \in dead : ~Resolves(h)

\* The registry as a table of handles.
Live ==
  [h \in {HandleOf(i) : i \in Occupied} |-> slots[h[2] + 1].object]

Table == INSTANCE HandleTable WITH live <- Live, InvalidHandle <- kInvalidHandle

\* ObjectRegistry implements HandleTable: between two clears no handle is given out
\* twice, each resolves to the object it was last given, and the sentinel never does.
ImplementsTable == Table!Spec
============================================================================
