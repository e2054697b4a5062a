----------------------------- MODULE SceneProofs -----------------------------
(***************************************************************************)
(* Proofs about Scene and its two parts.                                   *)
(*                                                                         *)
(* ObjectRegistry: for any objects and bounds, the free list is exact; and *)
(* as long as no generation wraps and nothing is added after clear(), a    *)
(* handle that stopped resolving never resolves again.                     *)
(*                                                                         *)
(* DrawList: for any objects, cameras, limits and capacities, every draw   *)
(* of the list runs exactly once, with the state of its own mesh, and in   *)
(* the order of the list.                                                  *)
(***************************************************************************)
EXTENDS Scene, FiniteSetTheorems, SequenceTheorems, WellFoundedInduction, NaturalsInduction, TLAPS

\* Storing an object in a slot gives a slot.
LEMMA SlotWithObject ==
  ASSUME NEW s \in Slot, NEW o \in Objects \cup {NoObject}
  PROVE  /\ [s EXCEPT !.object = o] \in Slot
         /\ [s EXCEPT !.object = o].object = o
         /\ [s EXCEPT !.object = o].generation = s.generation
BY DEF Slot

-----------------------------------------------------------------------------
(* The free list and the size.                                             *)

\* The invariant of the registry.
Inv == TypeOK /\ FreeListExact /\ SizeExact

\* There are finitely many occupied slots.
LEMMA OccupiedFinite ==
  ASSUME slots \in Seq(Slot)
  PROVE  IsFiniteSet(Occupied) /\ Cardinality(Occupied) \in Nat
<1>1. Len(slots) \in Nat /\ DOMAIN slots = 1 .. Len(slots)
  BY LenProperties
<1>2. IsFiniteSet(1 .. Len(slots))
  <2>1. 1 \in Int /\ Len(slots) \in Int
    BY <1>1
  <2>2. QED
    BY ONLY <2>1, FS_Interval
<1>3. Occupied \in SUBSET (1 .. Len(slots))
  BY <1>1 DEF Occupied
<1>4. IsFiniteSet(Occupied)
  BY ONLY <1>2, <1>3, FS_Subset
<1>5. QED
  BY <1>4, FS_CardinalityType

\* Filling a vacant slot counts one more.
LEMMA OccupiedGrows ==
  ASSUME slots \in Seq(Slot), NEW i, i \notin Occupied, Occupied' = Occupied \cup {i}
  PROVE  Cardinality(Occupied') = Cardinality(Occupied) + 1
<1>1. IsFiniteSet(Occupied)
  BY OccupiedFinite
<1>2. Cardinality(Occupied \cup {i}) = Cardinality(Occupied) + 1
  BY <1>1, FS_AddElement
<1>3. QED
  BY <1>2

\* Vacating one counts one less, and there was one to count.
LEMMA OccupiedShrinks ==
  ASSUME slots \in Seq(Slot), NEW i \in Occupied, Occupied' = Occupied \ {i}
  PROVE  /\ Cardinality(Occupied') = Cardinality(Occupied) - 1
         /\ Cardinality(Occupied) - 1 \in Nat
<1>1. IsFiniteSet(Occupied) /\ Cardinality(Occupied) \in Nat
  BY OccupiedFinite
<1>2. /\ IsFiniteSet(Occupied \ {i})
      /\ Cardinality(Occupied \ {i}) = Cardinality(Occupied) - 1
  BY <1>1, FS_RemoveElement
<1>3. Cardinality(Occupied \ {i}) \in Nat
  BY <1>2, FS_CardinalityType
<1>4. QED
  BY <1>2, <1>3

\* The registry starts empty.
LEMMA InvInit == Init => Inv
<1> SUFFICES ASSUME Init
             PROVE  Inv
  OBVIOUS
<1>1. slots = <<>> /\ freeList = <<>> /\ slots \in Seq(Slot) /\ freeList \in Seq(1 .. MaxSlots)
  BY EmptySeq DEF Init
<1>2. Occupied = {} /\ Vacant = {}
  BY <1>1 DEF Occupied, Vacant
<1>3. Cardinality(Occupied) = 0
  BY <1>2, FS_EmptySet
<1>4. DOMAIN freeList = {} /\ Len(slots) = 0
  BY <1>1
<1>5. FreeListExact /\ SizeExact
  BY <1>2, <1>3, <1>4 DEF Init, FreeListExact, SizeExact
<1>6. size \in Nat /\ dead \subseteq Handles /\ removals \in 0 .. MaxRemovals
  BY BoundsAssumption DEF Init
<1>7. TypeOK
  BY <1>1, <1>4, <1>6, BoundsAssumption DEF TypeOK
<1>8. QED
  BY <1>5, <1>7 DEF Inv

\* Where an addition puts the object: the last free slot, or a new one.
LEMMA AddPlaces ==
  ASSUME Inv, NEW o \in Objects, Add(o)
  PROVE  \E i \in 1 .. MaxSlots :
           /\ i \notin Occupied
           /\ slots' \in Seq(Slot) /\ Len(slots') <= MaxSlots
           /\ Occupied' = Occupied \cup {i}
           /\ Vacant' = Vacant \ {i}
           /\ freeList' \in Seq(1 .. MaxSlots)
           /\ FreeListExact'
           /\ slots'[i].object = o
           /\ \A j \in Occupied : slots'[j] = slots[j]
           /\ \/ i \in DOMAIN slots /\ slots'[i].generation = slots[i].generation
              \/ i \notin DOMAIN slots /\ slots'[i].generation = 1
<1> USE DEF Inv
<1>1. /\ slots \in Seq(Slot) /\ Len(slots) \in Nat /\ DOMAIN slots = 1 .. Len(slots)
      /\ Len(slots) <= MaxSlots
      /\ freeList \in Seq(1 .. MaxSlots) /\ Len(freeList) \in Nat
      /\ DOMAIN freeList = 1 .. Len(freeList)
      /\ o # NoObject
      /\ MaxSlots \in Nat
  BY LenProperties, NoObjectAssumption, BoundsAssumption DEF TypeOK
<1>2. CASE AddRecycled(o)
  <2> DEFINE n == Len(freeList)
             i == freeList[n]
  <2>0. freeList # <<>>
    BY <1>2 DEF AddRecycled
  <2>1. n \in 1 .. Len(freeList) /\ i \in Vacant
    <3>1. n # 0
      BY <1>1, <2>0, EmptySeq
    <3>2. n \in DOMAIN freeList
      BY <1>1, <3>1
    <3>3. QED
      BY <1>1, <3>2 DEF FreeListExact
  <2>2. i \in DOMAIN slots /\ i \in 1 .. MaxSlots /\ i \notin Occupied
    BY <1>1, <2>1 DEF Vacant
  <2>3. slots[i] \in Slot /\ [slots[i] EXCEPT !.object = o] \in Slot
    <3>1. slots[i] \in Slot
      BY <1>1, <2>2, ElementOfSeq
    <3>2. QED
      BY <3>1, SlotWithObject
  <2>4. slots' = [slots EXCEPT ![i] = [slots[i] EXCEPT !.object = o]]
    BY <1>2 DEF AddRecycled
  <2>5. /\ slots' \in Seq(Slot) /\ Len(slots') = Len(slots) /\ DOMAIN slots' = DOMAIN slots
        /\ slots'[i].object = o /\ slots'[i].generation = slots[i].generation
        /\ \A j \in DOMAIN slots : j # i => slots'[j] = slots[j]
    <3> HIDE DEF i
    <3>1. /\ slots' \in Seq(Slot) /\ Len(slots') = Len(slots) /\ DOMAIN slots' = DOMAIN slots
          /\ slots'[i] = [slots[i] EXCEPT !.object = o]
          /\ \A j \in DOMAIN slots : j # i => slots'[j] = slots[j]
      BY <1>1, <2>2, <2>3, <2>4, ExceptSeq
    <3>2. QED
      BY <2>3, <3>1, SlotWithObject
  <2>6. Occupied' = Occupied \cup {i} /\ Vacant' = Vacant \ {i}
    BY <1>1, <2>2, <2>5 DEF Occupied, Vacant
  <2>7. /\ freeList' \in Seq(1 .. MaxSlots)
        /\ DOMAIN freeList' = 1 .. n - 1
        /\ \A j \in 1 .. n - 1 : freeList'[j] = freeList[j]
    BY <1>1, <1>2, <2>1 DEF AddRecycled
  <2>8. FreeListExact'
    <3>0. \A j \in 1 .. n - 1 : j \in DOMAIN freeList /\ n \in DOMAIN freeList /\ j # n
      <4>1. n \in Nat /\ DOMAIN freeList = 1 .. n
        BY <1>1
      <4> HIDE DEF n
      <4>2. QED
        BY <4>1
    <3>1. \A l \in Vacant' : \E j \in DOMAIN freeList' : freeList'[j] = l
      <4> SUFFICES ASSUME NEW l \in Vacant, l # i
                   PROVE  \E j \in DOMAIN freeList' : freeList'[j] = l
        BY <2>6
      <4>1. PICK j \in DOMAIN freeList : freeList[j] = l
        BY DEF FreeListExact
      <4>2. j \in 1 .. n - 1
        BY <1>1, <4>1
      <4>3. QED
        BY <2>7, <4>1, <4>2
    <3>2. \A j \in DOMAIN freeList' : freeList'[j] \in Vacant'
      <4> SUFFICES ASSUME NEW j \in 1 .. n - 1
                   PROVE  freeList[j] \in Vacant /\ freeList[j] # i
        BY <2>6, <2>7
      <4>1. QED
        BY <3>0 DEF FreeListExact
    <3>3. \A j, l \in DOMAIN freeList' : freeList'[j] = freeList'[l] => j = l
      BY <2>7, <3>0 DEF FreeListExact
    <3>4. QED
      BY <3>1, <3>2, <3>3 DEF FreeListExact
  <2>9. \A j \in Occupied : slots'[j] = slots[j]
    BY <2>2, <2>5 DEF Occupied
  <2>10. QED
    BY <1>1, <2>2, <2>5, <2>6, <2>7, <2>8, <2>9
<1>3. CASE AddAppended(o)
  <2> DEFINE i == Len(slots) + 1
             new == [generation |-> 1, object |-> o]
  <2>1. new \in Slot /\ i \in 1 .. MaxSlots /\ i \notin DOMAIN slots
    BY <1>1, <1>3, BoundsAssumption DEF AddAppended, Slot
  <2>2. /\ slots' \in Seq(Slot) /\ Len(slots') = i /\ DOMAIN slots' = 1 .. i
        /\ slots'[i] = new
        /\ \A j \in DOMAIN slots : slots'[j] = slots[j]
    BY <1>1, <1>3, <2>1, AppendProperties DEF AddAppended
  <2>3. Occupied' = Occupied \cup {i} /\ Vacant' = Vacant \ {i}
    BY <1>1, <2>1, <2>2 DEF Occupied, Vacant
  <2>4. i \notin Occupied /\ Vacant' = Vacant
    BY <2>1, <2>3 DEF Occupied, Vacant
  <2>5. FreeListExact'
    BY <1>3, <2>4 DEF AddAppended, FreeListExact
  <2>6. /\ slots'[i].object = o /\ slots'[i].generation = 1
        /\ \A j \in Occupied : slots'[j] = slots[j]
    BY <2>2 DEF Occupied
  <2>7. freeList' \in Seq(1 .. MaxSlots) /\ Len(slots') <= MaxSlots
    BY <1>1, <1>3, <2>1, <2>2 DEF AddAppended
  <2> HIDE DEF i
  <2>8. QED
    BY <2>1, <2>2, <2>3, <2>4, <2>5, <2>6, <2>7
<1>4. QED
  BY <1>2, <1>3 DEF Add

\* Each operation keeps the invariant.
LEMMA InvAdd ==
  ASSUME Inv, NEW o \in Objects, Add(o)
  PROVE  Inv'
<1>1. PICK i \in 1 .. MaxSlots :
        /\ i \notin Occupied
        /\ slots' \in Seq(Slot) /\ Len(slots') <= MaxSlots
        /\ Occupied' = Occupied \cup {i}
        /\ freeList' \in Seq(1 .. MaxSlots)
        /\ FreeListExact'
  BY AddPlaces
<1>2. Cardinality(Occupied') = Cardinality(Occupied) + 1
  BY <1>1, OccupiedGrows DEF Inv, TypeOK
<1>3. SizeExact'
  BY <1>2 DEF Inv, SizeExact, Add
<1>4. QED
  BY <1>1, <1>3 DEF Inv, TypeOK, Add

\* Storing another object in an occupied slot.
LEMMA InvUpdate ==
  ASSUME Inv, NEW h \in Handles, NEW o \in Objects, Update(h, o)
  PROVE  Inv'
<1> USE DEF Inv
<1>1. PICK i \in Occupied : slots' = [slots EXCEPT ![i] = [slots[i] EXCEPT !.object = o]]
  BY DEF Update, SlotFor
<1>2. /\ slots \in Seq(Slot) /\ i \in 1 .. Len(slots) /\ DOMAIN slots = 1 .. Len(slots)
      /\ [slots[i] EXCEPT !.object = o] \in Slot
      /\ o # NoObject
  <2>1. slots \in Seq(Slot) /\ i \in 1 .. Len(slots) /\ DOMAIN slots = 1 .. Len(slots)
    BY LenProperties DEF TypeOK, Occupied
  <2>2. slots[i] \in Slot
    BY <2>1, ElementOfSeq
  <2>3. QED
    BY <2>1, <2>2, SlotWithObject, NoObjectAssumption
<1>3. /\ slots' \in Seq(Slot) /\ Len(slots') = Len(slots) /\ DOMAIN slots' = DOMAIN slots
      /\ slots'[i].object = o
      /\ \A j \in DOMAIN slots : j # i => slots'[j] = slots[j]
  BY <1>1, <1>2, ExceptSeq DEF Slot
<1>4. Occupied' = Occupied /\ Vacant' = Vacant
  BY <1>2, <1>3 DEF Occupied, Vacant
<1>5. QED
  BY <1>3, <1>4 DEF TypeOK, FreeListExact, SizeExact, Update

\* What a removal does to the slot the handle names.
LEMMA RemoveVacates ==
  ASSUME Inv, NEW h \in Handles, Remove(h)
  PROVE  \E i \in SlotFor(h) :
           /\ i \in Occupied /\ i \in 1 .. Len(slots)
           /\ slots' \in Seq(Slot) /\ Len(slots') = Len(slots) /\ DOMAIN slots' = DOMAIN slots
           /\ slots'[i].generation = (slots[i].generation + 1) % GenBound
           /\ \A j \in DOMAIN slots : j # i => slots'[j] = slots[j]
           /\ Occupied' = Occupied \ {i}
           /\ Vacant' = Vacant \cup {i}
           /\ freeList' = Append(freeList, i)
<1>1. PICK i \in SlotFor(h) :
        /\ slots' = [slots EXCEPT ![i] = [generation |-> (slots[i].generation + 1) % GenBound,
                                         object |-> NoObject]]
        /\ freeList' = Append(freeList, i)
  BY DEF Remove
<1> DEFINE s == [generation |-> (slots[i].generation + 1) % GenBound, object |-> NoObject]
<1>2. i \in Occupied /\ i \in 1 .. Len(slots) /\ slots \in Seq(Slot) /\ DOMAIN slots = 1 .. Len(slots)
  BY LenProperties DEF SlotFor, Occupied, Inv, TypeOK
<1>3. s \in Slot
  <2>1. slots[i] \in Slot
    BY <1>2, ElementOfSeq
  <2>2. slots[i].generation \in 0 .. GenBound - 1
    BY <2>1 DEF Slot
  <2>3. (slots[i].generation + 1) % GenBound \in 0 .. GenBound - 1
    BY <2>2, BoundsAssumption
  <2>4. QED
    BY <2>3 DEF Slot
<1>4. /\ slots' \in Seq(Slot) /\ Len(slots') = Len(slots) /\ DOMAIN slots' = DOMAIN slots
      /\ slots'[i] = s
      /\ \A j \in DOMAIN slots : j # i => slots'[j] = slots[j]
  BY <1>1, <1>2, <1>3, ExceptSeq
<1>5. Occupied' = Occupied \ {i} /\ Vacant' = Vacant \cup {i}
  BY <1>2, <1>4 DEF Occupied, Vacant
<1>6. QED
  BY <1>1, <1>2, <1>4, <1>5

LEMMA InvRemove ==
  ASSUME Inv, NEW h \in Handles, Remove(h)
  PROVE  Inv'
<1> USE DEF Inv
<1>1. PICK i \in SlotFor(h) :
        /\ i \in Occupied /\ i \in 1 .. Len(slots)
        /\ slots' \in Seq(Slot) /\ Len(slots') = Len(slots)
        /\ Occupied' = Occupied \ {i}
        /\ Vacant' = Vacant \cup {i}
        /\ freeList' = Append(freeList, i)
  BY RemoveVacates
<1>2. /\ Cardinality(Occupied') = Cardinality(Occupied) - 1
      /\ Cardinality(Occupied) - 1 \in Nat
  BY <1>1, OccupiedShrinks DEF TypeOK
<1>3. SizeExact' /\ size' \in Nat
  BY <1>2 DEF SizeExact, Remove
<1>4. i \in 1 .. MaxSlots /\ i \notin Vacant
  <2>1. Len(slots) \in Nat /\ Len(slots) <= MaxSlots /\ MaxSlots \in Nat
    BY LenProperties, BoundsAssumption DEF TypeOK
  <2>2. QED
    BY <1>1, <2>1 DEF Vacant
<1>5. /\ freeList' \in Seq(1 .. MaxSlots)
      /\ Len(freeList) \in Nat /\ DOMAIN freeList = 1 .. Len(freeList)
      /\ DOMAIN freeList' = 1 .. Len(freeList) + 1
      /\ \A j \in DOMAIN freeList : freeList'[j] = freeList[j]
      /\ freeList'[Len(freeList) + 1] = i
  BY <1>1, <1>4, AppendProperties, LenProperties DEF TypeOK
<1>6. \A j \in DOMAIN freeList' :
         \/ j \in DOMAIN freeList /\ freeList'[j] = freeList[j] /\ freeList[j] # i
         \/ j = Len(freeList) + 1 /\ freeList'[j] = i
  BY <1>4, <1>5 DEF FreeListExact
<1>7. FreeListExact'
  <2>1. \A l \in Vacant' : \E j \in DOMAIN freeList' : freeList'[j] = l
    <3>1. Len(freeList) + 1 \in DOMAIN freeList' /\ DOMAIN freeList \subseteq DOMAIN freeList'
      BY <1>5
    <3>2. QED
      BY <1>1, <1>5, <3>1 DEF FreeListExact
  <2>2. \A j \in DOMAIN freeList' : freeList'[j] \in Vacant'
    BY <1>1, <1>6 DEF FreeListExact
  <2>3. \A j, l \in DOMAIN freeList' : freeList'[j] = freeList'[l] => j = l
    BY <1>6 DEF FreeListExact
  <2>4. QED
    BY <2>1, <2>2, <2>3 DEF FreeListExact
<1>8. dead' \subseteq Handles /\ removals' \in 0 .. MaxRemovals
  BY BoundsAssumption DEF TypeOK, Remove
<1>9. Len(slots') <= MaxSlots
  BY <1>1 DEF TypeOK
<1>10. QED
  BY <1>1, <1>3, <1>5, <1>7, <1>8, <1>9 DEF TypeOK

LEMMA InvClear == Inv /\ Clear => Inv'
<1> SUFFICES ASSUME Inv, Clear
             PROVE  Inv'
  OBVIOUS
<1> USE DEF Inv
<1>1. slots' = <<>> /\ freeList' = <<>> /\ size' = 0
  BY DEF Clear
<1>2. /\ slots' \in Seq(Slot) /\ freeList' \in Seq(1 .. MaxSlots)
      /\ DOMAIN slots' = {} /\ DOMAIN freeList' = {} /\ Len(slots') = 0
  BY <1>1, EmptySeq
<1>3. Occupied' = {} /\ Vacant' = {}
  BY <1>2 DEF Occupied, Vacant
<1>4. FreeListExact' /\ SizeExact'
  BY <1>1, <1>2, <1>3, FS_EmptySet DEF FreeListExact, SizeExact
<1>5. dead' \subseteq Handles /\ removals' \in 0 .. MaxRemovals
  BY BoundsAssumption DEF Clear
<1>6. QED
  BY <1>1, <1>2, <1>4, <1>5, BoundsAssumption DEF TypeOK

LEMMA InvStep == Inv /\ [Next]_vars => Inv'
<1> SUFFICES ASSUME Inv, [Next]_vars
             PROVE  Inv'
  OBVIOUS
<1>1. CASE UNCHANGED vars
  BY <1>1
  DEF vars, Inv, TypeOK, FreeListExact, SizeExact, Occupied, Vacant
<1>2. QED
  BY <1>1, InvAdd, InvUpdate, InvRemove, InvClear DEF Next

\* Every variable keeps its type.
THEOREM RegistryTyped == Spec => []TypeOK
<1>1. Inv => TypeOK
  BY DEF Inv
<1>2. QED
  BY InvInit, InvStep, <1>1, PTL DEF Spec

\* The free list names every vacant slot once and no occupied one.
THEOREM FreeListExactAlways == Spec => []FreeListExact
<1>1. Inv => FreeListExact
  BY DEF Inv
<1>2. QED
  BY InvInit, InvStep, <1>1, PTL DEF Spec

\* size() counts the live objects.
THEOREM SizeExactAlways == Spec => []SizeExact
<1>1. Inv => SizeExact
  BY DEF Inv
<1>2. QED
  BY InvInit, InvStep, <1>1, PTL DEF Spec

-----------------------------------------------------------------------------
(* Dead handles.                                                           *)
(*                                                                         *)
(* A dead handle may name a slot that is occupied again; what keeps it     *)
(* from resolving is that the generation of a slot only grows until the    *)
(* next clear(), which restarts it at 1 and ends what is promised of the   *)
(* handles given out before.  It does not once the counter wraps: the      *)
(* theorem assumes that it does not happen between two clears.             *)

NoWrap == MaxRemovals + 1 < GenBound

\* A slot is on its second generation after one removal, and so on.
GenerationsBounded ==
  \A i \in DOMAIN slots : slots[i].generation \in 1 .. removals + 1

\* A dead handle is of an earlier generation than the slot it names.
DeadOlder ==
  \A h \in dead :
    \E i \in DOMAIN slots : i - 1 = h[2] /\ h[1] < slots[i].generation

DeadInv ==
  /\ NoWrap
  /\ Inv /\ GenerationsBounded /\ DeadOlder

LEMMA DeadInvImplies == DeadInv => DeadStayDead
<1> SUFFICES ASSUME DeadInv, NEW h \in dead, NEW i \in SlotFor(h)
             PROVE  FALSE
  BY DEF DeadStayDead, Resolves
<1>1. i \in DOMAIN slots /\ i - 1 = h[2] /\ slots[i].generation = h[1]
  BY DEF SlotFor, Occupied
<1>2. DOMAIN slots = 1 .. Len(slots) /\ Len(slots) \in Nat
  BY LenProperties DEF DeadInv, Inv, TypeOK
<1>3. PICK j \in DOMAIN slots : j - 1 = h[2] /\ h[1] < slots[j].generation
  BY DEF DeadInv, DeadOlder
<1>4. j = i
  BY <1>1, <1>2, <1>3
<1>5. slots[i].generation \in Nat
  BY <1>1 DEF DeadInv, GenerationsBounded, Inv, TypeOK
<1>6. QED
  BY <1>1, <1>3, <1>4, <1>5

LEMMA DeadInvInit == NoWrap /\ Init => DeadInv
<1> SUFFICES ASSUME NoWrap, Init
             PROVE  DeadInv
  OBVIOUS
<1>1. DOMAIN slots = {} /\ dead = {}
  BY DEF Init
<1>2. QED
  BY <1>1, InvInit DEF DeadInv, GenerationsBounded, DeadOlder

\* A step that changes objects only: no slot goes away or gets younger.
LEMMA DeadInvAdd ==
  ASSUME DeadInv, NEW o \in Objects, Add(o)
  PROVE  DeadInv'
<1>1. Inv /\ Inv'
  BY InvAdd DEF DeadInv
<1>2. UNCHANGED <<dead, removals>> /\ removals \in Nat
  BY <1>1, BoundsAssumption DEF Inv, TypeOK, Add
<1>3. slots \in Seq(Slot) /\ Len(slots) \in Nat /\ DOMAIN slots = 1 .. Len(slots)
  BY <1>1, LenProperties DEF Inv, TypeOK
<1>4. /\ DOMAIN slots \subseteq DOMAIN slots'
      /\ \A i \in DOMAIN slots : slots'[i].generation = slots[i].generation
      /\ \A i \in DOMAIN slots' \ DOMAIN slots : slots'[i].generation = 1
  <2>1. CASE AddRecycled(o)
    <3>1. PICK n : slots' = [slots EXCEPT ![n] = [slots[n] EXCEPT !.object = o]]
      BY <2>1 DEF AddRecycled
    <3>2. DOMAIN slots' = DOMAIN slots
      BY <3>1
    <3>3. ASSUME NEW i \in DOMAIN slots
          PROVE  slots'[i].generation = slots[i].generation
      <4>1. slots[i] \in Slot
        BY <1>3, ElementOfSeq
      <4>2. CASE i = n
        BY <3>1, <4>1, <4>2, SlotWithObject
      <4>3. CASE i # n
        BY <3>1, <4>3
      <4>4. QED
        BY <4>2, <4>3
    <3>4. QED
      BY <3>2, <3>3
  <2>2. CASE AddAppended(o)
    <3>1. slots' = Append(slots, [generation |-> 1, object |-> o])
      BY <2>2 DEF AddAppended
    <3>2. [generation |-> 1, object |-> o] \in Slot
      BY BoundsAssumption DEF Slot
    <3>3. QED
      BY <1>3, <3>1, <3>2, AppendProperties
  <2>3. QED
    BY <2>1, <2>2 DEF Add
<1>5. GenerationsBounded'
  BY <1>2, <1>4 DEF DeadInv, GenerationsBounded
<1>6. DeadOlder'
  BY <1>2, <1>4 DEF DeadInv, DeadOlder
<1>7. QED
  BY <1>1, <1>2, <1>5, <1>6 DEF DeadInv, NoWrap

LEMMA DeadInvUpdate ==
  ASSUME DeadInv, NEW h \in Handles, NEW o \in Objects, Update(h, o)
  PROVE  DeadInv'
<1>1. Inv /\ Inv'
  BY InvUpdate DEF DeadInv
<1>2. UNCHANGED <<dead, removals>>
  BY DEF Update
<1>3. slots \in Seq(Slot) /\ DOMAIN slots = 1 .. Len(slots)
  BY <1>1, LenProperties DEF Inv, TypeOK
<1>4. PICK n \in Occupied : slots' = [slots EXCEPT ![n] = [slots[n] EXCEPT !.object = o]]
  BY DEF Update, SlotFor
<1>5. DOMAIN slots' = DOMAIN slots
  BY <1>4
<1>6. ASSUME NEW i \in DOMAIN slots
      PROVE  slots'[i].generation = slots[i].generation
  <2>1. slots[i] \in Slot
    BY <1>3, ElementOfSeq
  <2>2. CASE i = n
    BY <1>4, <2>1, <2>2, SlotWithObject
  <2>3. CASE i # n
    BY <1>4, <2>3
  <2>4. QED
    BY <2>2, <2>3
<1>7. GenerationsBounded' /\ DeadOlder'
  BY <1>2, <1>5, <1>6 DEF DeadInv, GenerationsBounded, DeadOlder
<1>8. QED
  BY <1>1, <1>7 DEF DeadInv, NoWrap

\* The removed handle is now of an earlier generation than its slot.
LEMMA DeadInvRemove ==
  ASSUME DeadInv, NEW h \in Handles, Remove(h)
  PROVE  DeadInv'
<1>1. Inv /\ Inv'
  BY InvRemove DEF DeadInv
<1>2. /\ dead' = dead \cup {h}
      /\ removals \in Nat /\ removals' = removals + 1 /\ removals < MaxRemovals
  BY <1>1, BoundsAssumption DEF Remove, Inv, TypeOK
<1>3. PICK n \in SlotFor(h) :
        /\ n \in Occupied /\ n \in 1 .. Len(slots)
        /\ DOMAIN slots' = DOMAIN slots
        /\ slots'[n].generation = (slots[n].generation + 1) % GenBound
        /\ \A j \in DOMAIN slots : j # n => slots'[j] = slots[j]
  BY <1>1, RemoveVacates
<1>4. n \in DOMAIN slots /\ n - 1 = h[2] /\ slots[n].generation = h[1]
  BY <1>3 DEF SlotFor, Occupied
<1>5. slots[n].generation \in 1 .. removals + 1
  BY <1>4 DEF DeadInv, GenerationsBounded
<1>6. slots'[n].generation = slots[n].generation + 1
  <2>1. slots[n].generation + 1 \in 0 .. GenBound - 1
    BY <1>2, <1>5, BoundsAssumption DEF DeadInv, NoWrap
  <2>2. QED
    BY <1>3, <2>1, BoundsAssumption
<1>7. GenerationsBounded'
  BY <1>2, <1>3, <1>5, <1>6 DEF DeadInv, GenerationsBounded
<1>8. DeadOlder'
  <2> SUFFICES ASSUME NEW g \in dead \cup {h}
               PROVE  \E i \in DOMAIN slots' : i - 1 = g[2] /\ g[1] < slots'[i].generation
    BY <1>2 DEF DeadOlder
  <2>1. CASE g = h
    BY <1>3, <1>4, <1>5, <1>6, <2>1
  <2>2. CASE g \in dead
    <3>1. PICK i \in DOMAIN slots : i - 1 = g[2] /\ g[1] < slots[i].generation
      BY <2>2 DEF DeadInv, DeadOlder
    <3>2. CASE i # n
      BY <1>3, <3>1, <3>2
    <3>3. CASE i = n
      <4>1. g \in Handles
        BY <1>1, <2>2 DEF Inv, TypeOK
      <4>2. g[1] \in Nat
        BY <4>1, BoundsAssumption DEF Handles
      <4>3. g[1] < slots[n].generation + 1
        BY <1>5, <3>1, <3>3, <4>2
      <4>4. QED
        BY <1>3, <1>4, <1>6, <3>1, <3>3, <4>3
    <3>4. QED
      BY <3>2, <3>3
  <2>3. QED
    BY <2>1, <2>2
<1>9. QED
  BY <1>1, <1>7, <1>8 DEF DeadInv, NoWrap

LEMMA DeadInvStep == DeadInv /\ [Next]_vars => DeadInv'
<1> SUFFICES ASSUME DeadInv, [Next]_vars
             PROVE  DeadInv'
  OBVIOUS
<1>1. CASE Clear
  <2>1. dead' = {} /\ slots' = <<>>
    BY <1>1 DEF Clear
  <2>2. Inv'
    BY <1>1, InvClear DEF DeadInv
  <2>3. DOMAIN slots' = {}
    BY <2>1
  <2>4. QED
    BY <2>1, <2>2, <2>3 DEF DeadInv, NoWrap, GenerationsBounded, DeadOlder
<1>2. CASE UNCHANGED vars
  <2>1. Inv'
    BY InvStep DEF DeadInv
  <2>2. QED
    BY <1>2, <2>1
    DEF vars, DeadInv, NoWrap, GenerationsBounded, DeadOlder
<1>3. QED
  BY <1>1, <1>2, DeadInvAdd, DeadInvUpdate, DeadInvRemove DEF Next

\* ObjectRegistry.hpp:119: a removed handle does not resolve again before the next
\* clear(), as long as no generation wraps.
THEOREM DeadStayDeadAlways == NoWrap /\ Spec => []DeadStayDead
<1>1. QED
  BY DeadInvInit, DeadInvStep, DeadInvImplies, PTL DEF Spec

-----------------------------------------------------------------------------
(* The registry implements the table.  What an addition has to show is that *)
(* its handle is new: that the generation of its slot is above that of any  *)
(* dead handle, which is DeadOlder again, and never that of the sentinel.   *)

OccupiedIn(sl) == {i \in DOMAIN sl : sl[i].object # NoObject}
HandleIn(sl, i) == <<sl[i].generation, i - 1>>
LiveIn(sl) == [h \in {HandleIn(sl, i) : i \in OccupiedIn(sl)} |-> sl[h[2] + 1].object]

LEMMA LiveNow == Occupied = OccupiedIn(slots) /\ Live = LiveIn(slots)
BY DEF Live, LiveIn, HandleOf, HandleIn, Occupied, OccupiedIn

LEMMA LiveNext == Occupied' = OccupiedIn(slots') /\ Live' = LiveIn(slots')
BY DEF Live, LiveIn, HandleOf, HandleIn, Occupied, OccupiedIn

\* The map has one entry for each occupied slot.
LEMMA LiveAt ==
  ASSUME NEW sl \in Seq(Slot)
  PROVE  /\ DOMAIN LiveIn(sl) = {HandleIn(sl, i) : i \in OccupiedIn(sl)}
         /\ \A i \in OccupiedIn(sl) : LiveIn(sl)[HandleIn(sl, i)] = sl[i].object
         /\ \A i, j \in OccupiedIn(sl) : HandleIn(sl, i) = HandleIn(sl, j) => i = j
<1>1. \A i \in OccupiedIn(sl) : i \in Nat
  BY LenProperties DEF OccupiedIn
<1>2. \A i \in OccupiedIn(sl) : HandleIn(sl, i)[2] = i - 1
  BY DEF HandleIn
<1>3. \A i \in OccupiedIn(sl) : HandleIn(sl, i)[2] + 1 = i
  BY <1>1, <1>2
<1>4. \A i, j \in OccupiedIn(sl) : HandleIn(sl, i) = HandleIn(sl, j) => i = j
  BY <1>3
<1>5. QED
  BY <1>3, <1>4 DEF LiveIn

LEMMA LiveHere ==
  ASSUME slots \in Seq(Slot)
  PROVE  /\ DOMAIN Live = {HandleIn(slots, i) : i \in Occupied}
         /\ \A i \in Occupied : Live[HandleIn(slots, i)] = slots[i].object
         /\ \A i, j \in Occupied : HandleIn(slots, i) = HandleIn(slots, j) => i = j
<1>1. OccupiedIn(slots) = Occupied /\ LiveIn(slots) = Live
  BY LiveNow
<1>2. DOMAIN Live = {HandleIn(slots, i) : i \in Occupied}
  BY DEF Live, HandleOf, HandleIn
<1>3. \A i \in OccupiedIn(slots) : LiveIn(slots)[HandleIn(slots, i)] = slots[i].object
  BY LiveAt
<1>4. \A i, j \in OccupiedIn(slots) : HandleIn(slots, i) = HandleIn(slots, j) => i = j
  BY LiveAt
<1>5. QED
  BY <1>1, <1>2, <1>3, <1>4

\* And it is the only function that has.
LEMMA LiveIs ==
  ASSUME NEW sl \in Seq(Slot), NEW f, f = [h \in DOMAIN f |-> f[h]],
         DOMAIN f = {HandleIn(sl, i) : i \in OccupiedIn(sl)},
         \A i \in OccupiedIn(sl) : f[HandleIn(sl, i)] = sl[i].object
  PROVE  LiveIn(sl) = f
<1>1. LiveIn(sl) = [h \in DOMAIN LiveIn(sl) |-> LiveIn(sl)[h]]
  BY DEF LiveIn
<1>2. DOMAIN LiveIn(sl) = DOMAIN f
  BY LiveAt
<1>3. ASSUME NEW h \in DOMAIN f PROVE LiveIn(sl)[h] = f[h]
  <2>1. PICK i \in OccupiedIn(sl) : h = HandleIn(sl, i)
    OBVIOUS
  <2>2. LiveIn(sl)[HandleIn(sl, i)] = sl[i].object
    BY LiveAt
  <2>3. QED
    BY <2>1, <2>2
<1>4. QED
  BY <1>1, <1>2, <1>3

\* An empty registry is an empty map.
LEMMA LiveEmpty == LiveIn(<<>>) = <<>>
<1>1. OccupiedIn(<<>>) = {}
  BY DEF OccupiedIn
<1>2. \A f : (DOMAIN f = {} /\ f = [h \in DOMAIN f |-> f[h]]) => f = <<>>
  OBVIOUS
<1>3. QED
  BY <1>1, <1>2 DEF LiveIn

LEMMA TableInit == Init => Table!Init
BY LiveNow, LiveEmpty DEF Init, Table!Init

\* The handle of the object added was never given out, and is not the sentinel.
LEMMA TableAdd ==
  ASSUME DeadInv, NEW o \in Objects, Add(o)
  PROVE  \E h \in Handles : Table!Add(h, o)
<1>1. PICK i \in 1 .. MaxSlots :
        /\ i \notin Occupied
        /\ slots' \in Seq(Slot) /\ Len(slots') <= MaxSlots
        /\ Occupied' = Occupied \cup {i}
        /\ slots'[i].object = o
        /\ \A j \in Occupied : slots'[j] = slots[j]
        /\ \/ i \in DOMAIN slots /\ slots'[i].generation = slots[i].generation
           \/ i \notin DOMAIN slots /\ slots'[i].generation = 1
  BY AddPlaces DEF DeadInv
<1> DEFINE h == HandleIn(slots', i)
<1>2. slots \in Seq(Slot) /\ dead \subseteq Handles /\ MaxSlots \in Nat /\ GenBound \in Nat
  BY BoundsAssumption DEF DeadInv, Inv, TypeOK
<1>3. slots'[i].generation \in 1 .. GenBound - 1
  <2>1. slots'[i] \in Slot
    <3>1. i \in DOMAIN slots'
      BY <1>1 DEF Occupied
    <3>2. QED
      BY <1>1, <3>1, ElementOfSeq, LenProperties
  <2>2. slots'[i].generation \in 0 .. GenBound - 1
    BY <2>1 DEF Slot
  <2>3. slots'[i].generation >= 1
    <3>1. removals \in Nat
      BY BoundsAssumption DEF DeadInv, Inv, TypeOK
    <3>2. QED
      BY <1>1, <3>1 DEF DeadInv, GenerationsBounded
  <2>4. QED
    BY <1>2, <2>2, <2>3
<1>4. h \in Handles /\ h[1] = slots'[i].generation /\ h[2] = i - 1
  <2>1. i - 1 \in 0 .. MaxSlots - 1 /\ slots'[i].generation \in 0 .. GenBound - 1
    BY <1>2, <1>3
  <2>2. QED
    BY <2>1 DEF HandleIn, Handles
<1>5. h # kInvalidHandle
  BY <1>3, <1>4 DEF kInvalidHandle
<1>6. h \notin DOMAIN Live
  <2> SUFFICES ASSUME NEW j \in Occupied, h = HandleIn(slots, j)
               PROVE  FALSE
    BY <1>2, LiveHere
  <2>1. j \in Nat /\ j - 1 = i - 1
    BY <1>2, <1>4, LenProperties DEF Occupied, HandleIn
  <2>2. QED
    BY <1>1, <2>1
<1>7. h \notin dead
  <2> SUFFICES ASSUME h \in dead
               PROVE  FALSE
    OBVIOUS
  <2>1. PICK j \in DOMAIN slots : j - 1 = h[2] /\ h[1] < slots[j].generation
    BY DEF DeadInv, DeadOlder
  <2>2. j = i
    BY <1>2, <1>4, <2>1, LenProperties
  <2>3. QED
    BY <1>1, <1>3, <1>4, <2>1, <2>2
<1>8. Live' = [g \in DOMAIN Live \cup {h} |-> IF g = h THEN o ELSE Live[g]]
  <2> DEFINE f == [g \in DOMAIN Live \cup {h} |-> IF g = h THEN o ELSE Live[g]]
  <2>1. \A j \in Occupied : HandleIn(slots', j) = HandleIn(slots, j)
    BY <1>1 DEF HandleIn
  <2>2. DOMAIN f = {HandleIn(slots', j) : j \in OccupiedIn(slots')}
    <3>1. DOMAIN Live = {HandleIn(slots, j) : j \in Occupied}
      BY <1>2, LiveHere
    <3>2. DOMAIN f = DOMAIN Live \cup {h}
      OBVIOUS
    <3> HIDE DEF f, h
    <3>3. DOMAIN Live \cup {h} = {HandleIn(slots', j) : j \in Occupied \cup {i}}
      BY <2>1, <3>1 DEF h
    <3>4. QED
      BY <1>1, <3>2, <3>3, LiveNext
  <2>3. ASSUME NEW j \in OccupiedIn(slots') PROVE f[HandleIn(slots', j)] = slots'[j].object
    <3>1. CASE j = i
      BY <1>1, <3>1
    <3>2. CASE j # i
      <4>1. j \in Occupied
        BY <1>1, <3>2, LiveNext
      <4>2. HandleIn(slots', j) \in DOMAIN Live /\ Live[HandleIn(slots', j)] = slots[j].object
        BY <1>2, <2>1, <4>1, LiveHere
      <4>3. HandleIn(slots', j) # h
        BY <1>6, <4>2
      <4>4. QED
        BY <1>1, <4>1, <4>2, <4>3
    <3>3. QED
      BY <3>1, <3>2
  <2>4. f = [g \in DOMAIN f |-> f[g]]
    OBVIOUS
  <2> HIDE DEF f
  <2>5. Live' = f
    BY <1>1, <2>2, <2>3, <2>4, LiveIs, LiveNext
  <2>6. QED
    BY <2>5 DEF f
<1>9. QED
  BY <1>4, <1>5, <1>6, <1>7, <1>8 DEF Table!Add, Add

\* A handle that resolves is that of the slot it resolves to.
LEMMA HandleFound ==
  ASSUME NEW h \in Handles, NEW i \in SlotFor(h)
  PROVE  i \in Occupied /\ h = HandleIn(slots, i)
<1>1. i \in Occupied /\ i - 1 = h[2] /\ slots[i].generation = h[1]
  BY DEF SlotFor
<1>2. h = <<h[1], h[2]>>
  BY DEF Handles
<1>3. QED
  BY <1>1, <1>2 DEF HandleIn

LEMMA TableUpdate ==
  ASSUME Inv, NEW h \in Handles, NEW o \in Objects, Update(h, o)
  PROVE  Table!Update(h, o)
<1>1. PICK i \in SlotFor(h) : slots' = [slots EXCEPT ![i] = [slots[i] EXCEPT !.object = o]]
  BY DEF Update
<1>2. i \in Occupied /\ h = HandleIn(slots, i)
  BY HandleFound
<1>3. slots \in Seq(Slot) /\ i \in 1 .. Len(slots) /\ DOMAIN slots = 1 .. Len(slots)
  BY <1>2, LenProperties DEF Inv, TypeOK, Occupied
<1>4. /\ [slots[i] EXCEPT !.object = o] \in Slot
      /\ [slots[i] EXCEPT !.object = o].object = o
      /\ [slots[i] EXCEPT !.object = o].generation = slots[i].generation
      /\ o # NoObject
  <2>1. slots[i] \in Slot
    BY <1>3, ElementOfSeq
  <2>2. QED
    BY <2>1, SlotWithObject, NoObjectAssumption
<1>5. /\ slots' \in Seq(Slot) /\ DOMAIN slots' = DOMAIN slots
      /\ slots'[i] = [slots[i] EXCEPT !.object = o]
      /\ \A j \in DOMAIN slots : j # i => slots'[j] = slots[j]
  BY <1>1, <1>3, <1>4, ExceptSeq
<1>6. Occupied' = Occupied /\ \A j \in Occupied : HandleIn(slots', j) = HandleIn(slots, j)
  BY <1>2, <1>4, <1>5 DEF Occupied, HandleIn
<1> DEFINE f == [Live EXCEPT ![h] = o]
<1>7. DOMAIN Live = {HandleIn(slots, j) : j \in Occupied} /\ h \in DOMAIN Live
  BY <1>2, <1>3, LiveHere
<1>8. DOMAIN f = {HandleIn(slots', j) : j \in OccupiedIn(slots')}
  BY <1>6, <1>7, LiveNext
<1>9. ASSUME NEW j \in OccupiedIn(slots') PROVE f[HandleIn(slots', j)] = slots'[j].object
  <2>1. j \in Occupied /\ HandleIn(slots', j) = HandleIn(slots, j)
    BY <1>6, LiveNext
  <2>2. CASE j = i
    BY <1>2, <1>4, <1>5, <1>7, <2>1, <2>2
  <2>3. CASE j # i
    <3>1. HandleIn(slots, j) # h /\ HandleIn(slots, j) \in DOMAIN Live
      BY <1>2, <1>3, <1>7, <2>1, <2>3, LiveHere
    <3>2. Live[HandleIn(slots, j)] = slots[j].object
      BY <1>3, <2>1, LiveHere
    <3>3. slots'[j] = slots[j]
      BY <1>5, <2>1, <2>3 DEF Occupied
    <3>4. QED
      BY <2>1, <3>1, <3>2, <3>3
  <2>4. QED
    BY <2>2, <2>3
<1>10. f = [g \in DOMAIN f |-> f[g]]
  OBVIOUS
<1> HIDE DEF f
<1>11. Live' = f
  BY <1>5, <1>8, <1>9, <1>10, LiveIs, LiveNext
<1>12. QED
  BY <1>7, <1>11 DEF f, Table!Update, Update

LEMMA TableRemove ==
  ASSUME Inv, NEW h \in Handles, Remove(h)
  PROVE  Table!Remove(h)
<1>1. PICK i \in SlotFor(h) :
        /\ slots' \in Seq(Slot)
        /\ \A j \in DOMAIN slots : j # i => slots'[j] = slots[j]
        /\ Occupied' = Occupied \ {i}
  BY RemoveVacates
<1>2. i \in Occupied /\ h = HandleIn(slots, i)
  BY HandleFound
<1>3. slots \in Seq(Slot)
  BY DEF Inv, TypeOK
<1>4. \A j \in Occupied \ {i} : slots'[j] = slots[j] /\ HandleIn(slots', j) = HandleIn(slots, j)
  BY <1>1 DEF Occupied, HandleIn
<1>5. DOMAIN Live = {HandleIn(slots, j) : j \in Occupied} /\ h \in DOMAIN Live
  BY <1>2, <1>3, LiveHere
<1>6. \A j \in Occupied \ {i} : HandleIn(slots, j) # h
  BY <1>2, <1>3, LiveHere
<1> DEFINE f == [g \in DOMAIN Live \ {h} |-> Live[g]]
<1>7. DOMAIN f = {HandleIn(slots', j) : j \in OccupiedIn(slots')}
  <2>1. DOMAIN Live \ {h} = {HandleIn(slots, j) : j \in Occupied \ {i}}
    BY <1>2, <1>5, <1>6
  <2>2. {HandleIn(slots, j) : j \in Occupied \ {i}} = {HandleIn(slots', j) : j \in Occupied \ {i}}
    BY <1>4
  <2>3. QED
    BY <1>1, <2>1, <2>2, LiveNext
<1>8. ASSUME NEW j \in OccupiedIn(slots') PROVE f[HandleIn(slots', j)] = slots'[j].object
  <2>1. j \in Occupied \ {i}
    BY <1>1, LiveNext
  <2>2. HandleIn(slots, j) \in DOMAIN Live \ {h} /\ Live[HandleIn(slots, j)] = slots[j].object
    BY <1>3, <1>5, <1>6, <2>1, LiveHere
  <2>3. QED
    BY <1>4, <2>1, <2>2
<1>9. f = [g \in DOMAIN f |-> f[g]]
  OBVIOUS
<1> HIDE DEF f
<1>10. Live' = f
  BY <1>1, <1>7, <1>8, <1>9, LiveIs, LiveNext
<1>11. QED
  BY <1>5, <1>10 DEF f, Table!Remove, Remove

LEMMA TableClear == Inv /\ Clear => Table!Clear
<1> SUFFICES ASSUME Inv, Clear
             PROVE  Table!Clear
  OBVIOUS
<1>1. Live' = <<>>
  BY LiveNext, LiveEmpty DEF Clear
<1>2. QED
  BY <1>1 DEF Clear, Table!Clear

\* ObjectRegistry.hpp:119: the registry is a table whose handles are not given out
\* twice before it is cleared, as long as no generation wraps.
THEOREM ImplementsTableAlways == NoWrap /\ Spec => ImplementsTable
<1>1. ASSUME DeadInv, [Next]_vars
      PROVE  [Table!Next]_<<Live, dead, size>>
  <2>1. CASE UNCHANGED vars
    BY <2>1 DEF vars, Live, HandleOf, Occupied
  <2>2. CASE Next
    <3>1. ASSUME NEW o \in Objects, Add(o) PROVE Table!Next
      BY <1>1, <3>1, TableAdd DEF DeadInv, Table!Next
    <3>2. ASSUME NEW h \in Handles, NEW o \in Objects, Update(h, o) PROVE Table!Next
      <4>1. Table!Update(h, o)
        BY <1>1, <3>2, TableUpdate DEF DeadInv
      <4>2. h \in DOMAIN Live
        BY <4>1 DEF Table!Update
      <4> QED BY <4>1, <4>2 DEF Table!Next
    <3>3. ASSUME NEW h \in Handles, Remove(h) PROVE Table!Next
      BY <1>1, <3>3, TableRemove DEF DeadInv, Table!Next
    <3>4. ASSUME Clear PROVE Table!Next
      BY <1>1, <3>4, TableClear DEF DeadInv, Table!Next
    <3> QED BY <2>2, <3>1, <3>2, <3>3, <3>4 DEF Next
  <2>3. QED
    BY <1>1, <2>1, <2>2
<1>2. QED
  BY <1>1, TableInit, DeadInvInit, DeadInvStep, PTL DEF Spec, ImplementsTable, Table!Spec

-----------------------------------------------------------------------------
(* Numbers                                                                  *)

\* A set of natural numbers that is not empty has a least one.
LEMMA Least ==
  ASSUME NEW S \in SUBSET Nat, S # {}
  PROVE  \E n \in S : \A m \in S : n <= m
<1>1. PICK n \in S : \A m \in S : ~(<<m, n>> \in OpToRel(<, Nat))
  BY WFMin, NatLessThanWellFounded, Zenon
<1>2. \A m \in S : ~(m < n)
  BY <1>1 DEF OpToRel
<1> QED BY <1>2

\* One that is bounded has a greatest one.
LEMMA Greatest ==
  ASSUME NEW b \in Nat, NEW S \in SUBSET (0 .. b), S # {}
  PROVE  \E n \in S : \A m \in S : m <= n
<1> DEFINE T == {n \in Nat : b - n \in S}
<1>1. PICK s \in S : TRUE
  OBVIOUS
<1>2. b - s \in T
  BY <1>1
<1>3. PICK n \in T : \A m \in T : n <= m
  <2>1. T \in SUBSET Nat /\ T # {}
    BY <1>2
  <2> HIDE DEF T
  <2> QED BY <2>1, Least
<1>4. ASSUME NEW m \in S PROVE m <= b - n
  <2>1. b - m \in T
    OBVIOUS
  <2>2. n <= b - m
    BY <1>3, <2>1
  <2> QED BY <1>3, <2>2
<1> QED BY <1>3, <1>4

-----------------------------------------------------------------------------
(* Room for instances                                                       *)

\* The doubling of nextInstanceCapacity, up to its n-th step.
DoublesTo(from, n) ==
  {g \in [0 .. n -> Nat] : \A k \in 0 .. n : g[k] = IF k = 0 THEN from ELSE 2 * g[k - 1]}

\* Whether it is followed for longer does not matter.
LEMMA DoublesAgree ==
  ASSUME NEW from \in Nat, NEW n \in Nat, NEW g \in DoublesTo(from, n), NEW h \in DoublesTo(from, n + 1)
  PROVE  \A k \in 0 .. n : g[k] = h[k]
<1> DEFINE S == {k \in 0 .. n : g[k] # h[k]}
<1> SUFFICES ASSUME S # {} PROVE FALSE
  OBVIOUS
<1>1. PICK k \in S : \A j \in S : k <= j
  <2>1. S \in SUBSET Nat
    OBVIOUS
  <2> HIDE DEF S
  <2> QED BY <2>1, Least
<1>2. /\ g[k] = IF k = 0 THEN from ELSE 2 * g[k - 1]
      /\ h[k] = IF k = 0 THEN from ELSE 2 * h[k - 1]
  <2>1. k \in 0 .. n /\ k \in 0 .. n + 1
    BY <1>1
  <2>2. \A j \in 0 .. n : g[j] = IF j = 0 THEN from ELSE 2 * g[j - 1]
    BY DEF DoublesTo
  <2>3. \A j \in 0 .. n + 1 : h[j] = IF j = 0 THEN from ELSE 2 * h[j - 1]
    BY DEF DoublesTo
  <2> QED BY <2>1, <2>2, <2>3
<1>3. k # 0
  BY <1>1, <1>2
<1>4. k - 1 \in 0 .. n /\ k - 1 \notin S
  BY <1>1, <1>3
<1> QED BY <1>1, <1>2, <1>3, <1>4

\* Every step of the doubling is reached.
LEMMA DoublesExist ==
  ASSUME NEW from \in Nat
  PROVE  \A n \in Nat : DoublesTo(from, n) # {}
<1> DEFINE S == {n \in Nat : DoublesTo(from, n) = {}}
<1> SUFFICES ASSUME S # {} PROVE FALSE
  OBVIOUS
<1>1. PICK n \in S : \A j \in S : n <= j
  <2>1. S \in SUBSET Nat
    OBVIOUS
  <2> HIDE DEF S
  <2> QED BY <2>1, Least
<1>2. CASE n = 0
  <2>1. [k \in 0 .. 0 |-> from] \in DoublesTo(from, 0)
    BY DEF DoublesTo
  <2> QED BY <1>1, <1>2, <2>1
<1>3. CASE n # 0
  <2>1. n - 1 \in Nat /\ n - 1 \notin S
    BY <1>1, <1>3
  <2>2. PICK g : g \in DoublesTo(from, n - 1)
    BY <2>1
  <2> DEFINE h == [k \in 0 .. n |-> IF k = n THEN 2 * g[n - 1] ELSE g[k]]
  <2>3. g \in [0 .. n - 1 -> Nat] /\ \A k \in 0 .. n - 1 : g[k] = IF k = 0 THEN from ELSE 2 * g[k - 1]
    BY <2>2 DEF DoublesTo
  <2>4. h \in [0 .. n -> Nat]
    BY <1>1, <1>3, <2>1, <2>3
  <2>5. ASSUME NEW k \in 0 .. n PROVE h[k] = IF k = 0 THEN from ELSE 2 * h[k - 1]
    BY <1>1, <1>3, <2>1, <2>3
  <2>6. h \in DoublesTo(from, n)
    BY <2>4, <2>5 DEF DoublesTo
  <2> QED BY <1>1, <2>6
<1> QED BY <1>2, <1>3

\* So the loop computes something for every number of steps.
LEMMA Doubling ==
  ASSUME NEW from \in Nat
  PROVE  LET D == CHOOSE f : f = [n \in Nat |-> IF n = 0 THEN from ELSE 2 * f[n - 1]]
         IN  D = [n \in Nat |-> IF n = 0 THEN from ELSE 2 * D[n - 1]]
<1> DEFINE G(n) == CHOOSE g \in DoublesTo(from, n) : TRUE
           E == [n \in Nat |-> G(n)[n]]
<1>1. \A n \in Nat : G(n) \in DoublesTo(from, n)
  BY DoublesExist
<1>2. ASSUME NEW n \in Nat PROVE E[n] = IF n = 0 THEN from ELSE 2 * E[n - 1]
  <2>1. G(n)[n] = IF n = 0 THEN from ELSE 2 * G(n)[n - 1]
    <3> HIDE DEF G
    <3> QED BY <1>1 DEF DoublesTo
  <2>2. CASE n # 0
    <3>1. n - 1 \in Nat /\ (n - 1) + 1 = n
      BY <2>2
    <3>2. G(n - 1) \in DoublesTo(from, n - 1) /\ G(n) \in DoublesTo(from, (n - 1) + 1)
      BY <1>1, <3>1
    <3> HIDE DEF G
    <3>3. G(n - 1)[n - 1] = G(n)[n - 1]
      BY <3>1, <3>2, DoublesAgree
    <3>4. E[n] = G(n)[n] /\ E[n - 1] = G(n - 1)[n - 1]
      BY <3>1
    <3> QED BY <2>1, <2>2, <3>3, <3>4
  <2>3. CASE n = 0
    BY <2>1, <2>3
  <2> QED BY <2>2, <2>3
<1>3. E = [n \in Nat |-> IF n = 0 THEN from ELSE 2 * E[n - 1]]
  <2> HIDE DEF G
  <2>1. E = [n \in Nat |-> E[n]]
    OBVIOUS
  <2> HIDE DEF E
  <2> QED BY <1>2, <2>1
<1> HIDE DEF E
<1> QED BY <1>3, Zenon

\* EvanPlatform.hpp: "at least required".
LEMMA NextCapacityFits ==
  ASSUME NEW required \in Nat, NEW current \in Nat
  PROVE  NextCapacity(required, current) \in Nat /\ NextCapacity(required, current) >= required
<1> DEFINE from == IF current > MinInstances THEN current ELSE MinInstances
           D == CHOOSE f : f = [n \in Nat |-> IF n = 0 THEN from ELSE 2 * f[n - 1]]
           Enough(n) == D[n] >= required /\ \A k \in 0 .. n - 1 : D[k] < required
<1>1. NextCapacity(required, current) = D[CHOOSE n \in 0 .. required : Enough(n)]
  BY Zenon DEF NextCapacity
<1>2. from \in Nat /\ from >= 1
  BY DrawAssumption
<1> HIDE DEF from
<1>3. D = [n \in Nat |-> IF n = 0 THEN from ELSE 2 * D[n - 1]]
  BY <1>2, Doubling
<1> HIDE DEF D
<1>4. \A n \in Nat : D[n] = IF n = 0 THEN from ELSE 2 * D[n - 1]
  BY <1>3
<1>5. ASSUME NEW n \in Nat PROVE D[n] \in Nat /\ D[n] > n
  <2> DEFINE S == {k \in Nat : ~(D[k] \in Nat /\ D[k] > k)}
  <2> SUFFICES ASSUME S # {} PROVE FALSE
    OBVIOUS
  <2>1. PICK k \in S : \A j \in S : k <= j
    <3>1. S \in SUBSET Nat
      OBVIOUS
    <3> HIDE DEF S
    <3> QED BY <3>1, Least
  <2>2. CASE k = 0
    BY <1>2, <1>4, <2>1, <2>2
  <2>3. CASE k # 0
    <3>1. k - 1 \in Nat /\ k - 1 \notin S
      BY <2>1, <2>3
    <3>2. D[k - 1] \in Nat /\ D[k - 1] > k - 1 /\ D[k] = 2 * D[k - 1]
      BY <1>4, <2>1, <2>3, <3>1
    <3> QED BY <2>1, <3>1, <3>2
  <2> QED BY <2>2, <2>3
<1>6. \E n \in 0 .. required : Enough(n)
  <2> DEFINE T == {n \in Nat : D[n] >= required}
  <2>1. required \in T
    BY <1>5
  <2>2. PICK n \in T : \A j \in T : n <= j
    <3>1. T \in SUBSET Nat /\ T # {}
      BY <2>1
    <3> HIDE DEF T
    <3> QED BY <3>1, Least
  <2>3. n \in 0 .. required
    BY <2>1, <2>2
  <2>4. \A k \in 0 .. n - 1 : D[k] < required
    <3> SUFFICES ASSUME NEW k \in 0 .. n - 1 PROVE D[k] < required
      OBVIOUS
    <3>1. k \in Nat /\ k \notin T
      BY <2>2
    <3> QED BY <1>5, <3>1
  <2> QED BY <2>2, <2>3, <2>4
<1> DEFINE n == CHOOSE n \in 0 .. required : Enough(n)
<1>7. n \in 0 .. required /\ Enough(n)
  BY <1>6
<1>8. NextCapacity(required, current) = D[n]
  BY <1>1
<1> HIDE DEF n
<1> QED BY <1>5, <1>7, <1>8

\* What the slots hold, in their order: Meshes is the objects, and all of them.
LEMMA RankCounts ==
  ASSUME NEW n \in Nat, NEW O \in SUBSET (1 .. n)
  PROVE  /\ Cardinality(O) \in Nat
         /\ \A r \in 1 .. Cardinality(O) : \E i \in O : Cardinality({k \in O : k <= i}) = r
<1> DEFINE Below(i) == {k \in O : k <= i}
           c == Cardinality(O)
           rank == [i \in O |-> Cardinality(Below(i))]
<1>1. IsFiniteSet(O) /\ c \in Nat
  <2>1. IsFiniteSet(1 .. n)
    BY FS_Interval
  <2> QED BY <2>1, FS_Subset, FS_CardinalityType
<1>2. ASSUME NEW i \in O
      PROVE  IsFiniteSet(Below(i)) /\ Cardinality(Below(i)) \in 1 .. c
  <2>1. Below(i) \in SUBSET O
    OBVIOUS
  <2>2. i \in Below(i)
    OBVIOUS
  <2> HIDE DEF Below
  <2>3. IsFiniteSet(Below(i)) /\ Cardinality(Below(i)) <= c
    BY <1>1, <2>1, FS_Subset
  <2>4. Cardinality(Below(i)) \in Nat /\ Cardinality(Below(i)) # 0
    BY <2>2, <2>3, FS_CardinalityType, FS_EmptySet
  <2> QED BY <1>1, <2>3, <2>4
<1>3. ASSUME NEW i \in O, NEW j \in O, i < j
      PROVE  Cardinality(Below(i)) # Cardinality(Below(j))
  <2>1. Below(i) \in SUBSET Below(j) /\ j \in Below(j) /\ j \notin Below(i)
    <3>1. i \in Nat /\ j \in Nat /\ \A k \in O : k \in Nat
      OBVIOUS
    <3>2. (\A k \in O : k <= i => k <= j) /\ ~(j <= i) /\ j <= j
      <4> HIDE DEF Below
      <4> QED BY <1>3, <3>1
    <3> QED BY <3>2
  <2>2. IsFiniteSet(Below(j))
    BY <1>2
  <2> HIDE DEF Below
  <2> QED BY <2>1, <2>2, FS_Subset
<1>4. rank \in Injection(O, 1 .. c)
  <2>1. rank \in [O -> 1 .. c]
    BY <1>2
  <2>2. ASSUME NEW i \in O, NEW j \in O, rank[i] = rank[j] PROVE i = j
    <3>1. i \in Nat /\ j \in Nat
      OBVIOUS
    <3>2. rank[i] = Cardinality(Below(i)) /\ rank[j] = Cardinality(Below(j))
      OBVIOUS
    <3> HIDE DEF rank, Below
    <3>3. ~(i < j) /\ ~(j < i)
      BY <1>3, <2>2, <3>2
    <3> QED BY <3>1, <3>3
  <2> HIDE DEF rank, c
  <2> QED BY <2>1, <2>2 DEF Injection, IsInjective
<1>5. IsFiniteSet(1 .. c) /\ Cardinality(1 .. c) = c
  <2>1. 1 \in Int /\ c \in Int
    BY <1>1
  <2> HIDE DEF c
  <2>2. IsFiniteSet(1 .. c) /\ Cardinality(1 .. c) = IF 1 > c THEN 0 ELSE c - 1 + 1
    BY <2>1, FS_Interval
  <2> QED BY <1>1, <2>2 DEF c
<1>6. rank \in Surjection(O, 1 .. c)
  <2> HIDE DEF rank
  <2> QED BY <1>4, <1>5, FS_Injection DEF c
<1>7. \A r \in 1 .. c : \E i \in O : rank[i] = r
  <2> HIDE DEF rank, c
  <2> QED BY <1>6 DEF Surjection
<1> QED BY <1>1, <1>7

\* What forEach visits is a sequence of objects.
LEMMA MeshesTyped ==
  ASSUME Inv
  PROVE  Meshes \in Seq(Objects) /\ Len(Meshes) \in Nat
<1>1. slots \in Seq(Slot) /\ Len(slots) \in Nat /\ Occupied \in SUBSET (1 .. Len(slots))
  BY LenProperties DEF Inv, TypeOK, Occupied
<1> DEFINE c == Cardinality(Occupied)
           At(r) == CHOOSE i \in Occupied : Cardinality({k \in Occupied : k <= i}) = r
<1>2. c \in Nat /\ \A r \in 1 .. c : \E i \in Occupied : Cardinality({k \in Occupied : k <= i}) = r
  BY <1>1, RankCounts
<1>3. \A r \in 1 .. c : At(r) \in Occupied
  BY <1>2
<1>4. \A i \in Occupied : slots[i].object \in Objects
  <2> SUFFICES ASSUME NEW i \in Occupied PROVE slots[i].object \in Objects
    OBVIOUS
  <2>1. slots[i] \in Slot
    BY <1>1, ElementOfSeq
  <2> QED BY <2>1 DEF Slot, Occupied
<1> DEFINE m == [r \in 1 .. c |-> slots[At(r)].object]
<1>5. m \in [1 .. c -> Objects]
  <2> HIDE DEF At, c
  <2> QED BY <1>3, <1>4
<1>6. m \in Seq(Objects)
  <2> HIDE DEF m, c
  <2> QED BY <1>2, <1>5
<1>7. Meshes = m
  BY DEF Meshes
<1> HIDE DEF m
<1> QED BY <1>6, <1>7, LenProperties

-----------------------------------------------------------------------------
(* The draw list                                                            *)

\* An item of the draw list.
Item == [mesh : Objects, sequence : Nat, depth : 0 .. UnknownDepth, blend : BOOLEAN, bucket : Nat]

\* The ends of a set of depths, and the bucket of a depth among them.
Nearest(depths) == CHOOSE d \in depths : \A e \in depths : d <= e
Farthest(depths) ==
  CHOOSE d \in (depths \ {UnknownDepth}) \cup {0} :
    \A e \in (depths \ {UnknownDepth}) \cup {0} : e <= d
DepthSpan(depths) ==
  IF Farthest(depths) > Nearest(depths) THEN Farthest(depths) - Nearest(depths) ELSE 0
BucketAmong(d, depths) ==
  IF DepthSpan(depths) > 0 THEN DepthBucket(d, Nearest(depths), DepthSpan(depths)) ELSE 0

DepthsOf(s) == {s[n].depth : n \in DOMAIN s}

\* What a draw list is: sorted items, with their buckets if opaque draws go front
\* to back.
IsDrawList(s) ==
  /\ s \in Seq(Item)
  /\ \A i, j \in DOMAIN s : i < j => KeyLess(s[i], s[j])
  /\ FrontToBack => \A i \in DOMAIN s : s[i].bucket = BucketAmong(s[i].depth, DepthsOf(s))

\* What a division without remainder leaves.
LEMMA DivBounds ==
  ASSUME NEW n \in Nat, NEW s \in Nat \ {0}
  PROVE  /\ n \div s \in Nat /\ (n \div s) * s <= n /\ n < (n \div s + 1) * s
<1>1. n \div s \in Nat
  OBVIOUS
<1>2. (n \div s) * s <= n
  OBVIOUS
<1>3. n < (n \div s) * s + s
  OBVIOUS
<1>4. (n \div s + 1) * s = (n \div s) * s + s
  BY <1>1
<1> QED BY <1>1, <1>2, <1>3, <1>4

\* The depth of a mesh without bounds is a number like the others.
LEMMA UnknownDepthIsNumber == UnknownDepth \in Nat
BY DEF UnknownDepth

\* A greatest element, when there is one.
LEMMA GreatestChosen ==
  ASSUME NEW S, \E d \in S : \A e \in S : e <= d
  PROVE  LET c == CHOOSE d \in S : \A e \in S : e <= d
         IN  c \in S /\ \A e \in S : e <= c
OBVIOUS

\* The ends exist.
LEMMA Ends ==
  ASSUME NEW ds \in SUBSET (0 .. UnknownDepth), ds # {}
  PROVE  /\ Nearest(ds) \in ds /\ \A e \in ds : Nearest(ds) <= e
         /\ Farthest(ds) \in (ds \ {UnknownDepth}) \cup {0}
         /\ \A e \in ds \ {UnknownDepth} : e <= Farthest(ds)
         /\ DepthSpan(ds) \in Nat
<1>1. \E d \in ds : \A e \in ds : d <= e
  <2>1. ds \in SUBSET Nat
    OBVIOUS
  <2> QED BY <2>1, Least
<1>2. Nearest(ds) \in ds /\ \A e \in ds : Nearest(ds) <= e
  BY <1>1 DEF Nearest
<1> DEFINE fs == (ds \ {UnknownDepth}) \cup {0}
<1>3. \E d \in fs : \A e \in fs : e <= d
  <2>1. fs \in SUBSET (0 .. UnknownDepth) /\ fs # {} /\ UnknownDepth \in Nat
    BY DEF UnknownDepth
  <2> HIDE DEF fs
  <2> QED BY <2>1, Greatest
<1>4. Farthest(ds) \in fs /\ \A e \in fs : e <= Farthest(ds)
  <2>1. Farthest(ds) = CHOOSE d \in fs : \A e \in fs : e <= d
    BY DEF Farthest
  <2> HIDE DEF fs
  <2>2. LET c == CHOOSE d \in fs : \A e \in fs : e <= d
        IN  c \in fs /\ \A e \in fs : e <= c
    BY <1>3, GreatestChosen
  <2> QED BY <2>1, <2>2
<1>5. Nearest(ds) \in Nat /\ Farthest(ds) \in Nat
  <2>1. Nearest(ds) \in 0 .. UnknownDepth /\ Farthest(ds) \in (0 .. UnknownDepth) \cup {0}
    BY <1>2, <1>4
  <2> QED BY ONLY <2>1, UnknownDepthIsNumber
<1>6. DepthSpan(ds) \in Nat
  BY <1>5 DEF DepthSpan
<1> QED BY <1>2, <1>4, <1>6

\* A bucket is a number, also when no depth is known.
LEMMA BucketTyped ==
  ASSUME NEW d \in Nat, NEW near \in Nat, NEW span \in Nat
  PROVE  DepthBucket(d, near, span) \in Nat
<1>1. Buckets \in Nat /\ Buckets - 1 \in Nat
  BY DrawAssumption
<1>2. CASE span = 0 \/ d < near \/ d = UnknownDepth
  BY <1>1, <1>2 DEF DepthBucket
<1>3. CASE ~(span = 0 \/ d < near \/ d = UnknownDepth)
  <2>1. d - near \in Nat /\ span \in Nat \ {0}
    BY <1>3
  <2>2. (d - near) * Buckets \in Nat
    BY <1>1, <2>1
  <2>3. ((d - near) * Buckets) \div span \in Nat
    BY <2>1, <2>2, DivBounds
  <2> QED BY <1>1, <1>3, <2>3 DEF DepthBucket
<1> QED BY <1>2, <1>3

\* A draw of an earlier bucket, or of the same one, is farther by at most the
\* width of a bucket.
LEMMA BucketsNear ==
  ASSUME NEW near \in Nat, NEW span \in Nat \ {0}, NEW d \in Nat, NEW e \in Nat,
         near <= e, e < d, d - near <= span, d # UnknownDepth, e # UnknownDepth,
         DepthBucket(d, near, span) <= DepthBucket(e, near, span)
  PROVE  (d - e) * Buckets <= span
<1> DEFINE x == d - near
           y == e - near
           q == (y * Buckets) \div span
<1>1. x \in Nat /\ y \in Nat /\ y < x /\ x <= span /\ d - e = x - y /\ Buckets \in Nat \ {0}
  BY DrawAssumption
<1>2. DepthBucket(e, near, span) = q
  BY <1>1 DEF DepthBucket
<1> HIDE DEF x, y
<1>3. y * Buckets \in Nat /\ x * Buckets \in Nat
  BY <1>1
<1>4. q \in Nat /\ q * span <= y * Buckets
  BY <1>3, DivBounds
<1> HIDE DEF q
<1>5. (x - y) * Buckets = x * Buckets - y * Buckets
  BY <1>1
<1>6. CASE x = span
  <2>1. DepthBucket(d, near, span) = Buckets - 1
    BY <1>1, <1>6 DEF DepthBucket, x
  <2>2. Buckets - 1 <= q
    BY <1>2, <2>1
  <2>3. (Buckets - 1) * span <= q * span
    BY <1>1, <1>4, <2>2
  <2>4. (Buckets - 1) * span = x * Buckets - span
    BY <1>1, <1>6
  <2>5. (Buckets - 1) * span \in Int /\ q * span \in Int
    BY <1>1, <1>4
  <2> QED BY <1>1, <1>3, <1>4, <1>5, <2>3, <2>4, <2>5
<1>7. CASE x # span
  <2> DEFINE r == (x * Buckets) \div span
  <2>1. DepthBucket(d, near, span) = r
    BY <1>1, <1>7 DEF DepthBucket, x
  <2>2. r \in Nat /\ x * Buckets < (r + 1) * span
    BY <1>3, DivBounds
  <2> HIDE DEF r
  <2>3. r <= q
    BY <1>2, <2>1
  <2>4. (r + 1) * span <= (q + 1) * span
    BY <1>4, <2>2, <2>3
  <2>5. (q + 1) * span = q * span + span
    BY <1>4
  <2>6. q * span \in Int /\ (r + 1) * span \in Int
    BY <1>4, <2>2
  <2> QED BY <1>1, <1>3, <1>4, <1>5, <2>2, <2>4, <2>5, <2>6
<1> QED BY <1>6, <1>7

-----------------------------------------------------------------------------
\* What the order of keys says of two items.
LEMMA KeyOrder ==
  ASSUME NEW a \in Item, NEW b \in Item, KeyLess(a, b)
  PROVE  /\ a.blend => b.blend
         /\ a.blend => a.depth >= b.depth
         /\ ~b.blend => a.bucket <= b.bucket
<1> DEFINE p == SortKey(a)
           q == SortKey(b)
<1>1. /\ a.blend \in BOOLEAN /\ b.blend \in BOOLEAN /\ a.bucket \in Nat /\ b.bucket \in Nat
      /\ a.depth \in Nat /\ b.depth \in Nat
  BY DEF Item
<1>2. PICK i \in 1 .. 6 : p[i] < q[i] /\ \A j \in 1 .. i - 1 : p[j] = q[j]
  BY DEF KeyLess, Less, SortKey
<1>3. /\ p[1] = IF a.blend THEN 1 ELSE 0
      /\ q[1] = IF b.blend THEN 1 ELSE 0
      /\ p[2] = IF a.blend THEN UnknownDepth - a.depth ELSE a.bucket
      /\ q[2] = IF b.blend THEN UnknownDepth - b.depth ELSE b.bucket
  BY DEF SortKey
<1> HIDE DEF p, q
<1>4. UnknownDepth \in Nat
  BY DEF UnknownDepth
<1>5. CASE i = 1
  BY <1>1, <1>2, <1>3, <1>5
<1>6. CASE i = 2
  <2>1. p[1] = q[1] /\ p[2] < q[2]
    BY <1>2, <1>6
  <2> QED BY <1>1, <1>3, <1>4, <2>1
<1>7. CASE i > 2
  <2>1. p[1] = q[1] /\ p[2] = q[2]
    BY <1>2, <1>7
  <2> QED BY <1>1, <1>3, <1>4, <2>1
<1> QED BY <1>2, <1>5, <1>6, <1>7

\* No item is before itself.
LEMMA KeyIrreflexive ==
  ASSUME NEW a \in Item
  PROVE  ~KeyLess(a, a)
<1>1. a.mesh \in Objects /\ a.blend \in BOOLEAN /\ a.bucket \in Nat /\ a.sequence \in Nat /\ a.depth \in Nat
  BY DEF Item
<1>2. a.mesh.shader \in Nat /\ a.mesh.material \in Nat /\ a.mesh.geometry \in Nat /\ UnknownDepth \in Nat
  BY <1>1, SceneAssumption DEF IsMesh, UnknownDepth
<1>3. \A i \in 1 .. 6 : SortKey(a)[i] \in Int
  <2>1. UnknownDepth - a.depth \in Int
    BY <1>1, <1>2
  <2> QED BY <1>1, <1>2, <2>1 DEF SortKey
<1>4. DOMAIN SortKey(a) = 1 .. 6
  BY DEF SortKey
<1> QED BY <1>3, <1>4 DEF KeyLess, Less

\* The items of a frame: at most one for each mesh.
LEMMA ItemsTyped ==
  ASSUME NEW meshes \in Seq(Objects), NEW camera \in Cameras, NEW culling, NEW limit, NEW forced
  PROVE  LET items == Items(meshes, camera, culling, limit, forced)
         IN  /\ items \in SUBSET Item
             /\ IsFiniteSet(items) /\ Cardinality(items) <= Len(meshes)
<1> DEFINE D == {k \in DOMAIN meshes : ~Culled(meshes[k], camera, culling, limit) /\ meshes[k].drawable}
           item(i) == [mesh |-> meshes[i], sequence |-> i, depth |-> Depth(meshes[i], camera),
                       blend |-> meshes[i].blend \/ meshes[i].shader \in forced, bucket |-> 0]
           f == [i \in D |-> item(i)]
           items == Items(meshes, camera, culling, limit, forced)
<1>1. Len(meshes) \in Nat /\ D \in SUBSET (1 .. Len(meshes))
  BY LenProperties
<1>2. items = {item(i) : i \in D}
  BY DEF Items
<1>3. ASSUME NEW i \in D PROVE item(i) \in Item
  <2>1. meshes[i] \in Objects /\ i \in Nat
    BY <1>1, ElementOfSeq
  <2>2. meshes[i].place \in 0 .. UnknownDepth - 1 /\ camera \in 0 .. UnknownDepth - 1
    BY <2>1, SceneAssumption, DrawAssumption DEF IsMesh
  <2>3. Depth(meshes[i], camera) \in 0 .. UnknownDepth
    <3>1. UnknownDepth \in Nat /\ camera \in Nat /\ meshes[i].place \in Nat
      BY <2>2, UnknownDepthIsNumber
    <3>2. Distance(meshes[i], camera) \in 0 .. UnknownDepth
      BY <2>2, <3>1 DEF Distance
    <3> QED BY <3>1, <3>2 DEF Depth
  <2>4. (meshes[i].blend \/ meshes[i].shader \in forced) \in BOOLEAN
    OBVIOUS
  <2> QED BY <2>1, <2>3, <2>4 DEF Item
<1> HIDE DEF D, item, items
<1>4. items \in SUBSET Item
  BY <1>2, <1>3
<1>5. f \in Surjection(D, items)
  BY <1>2 DEF Surjection
<1>6. IsFiniteSet(1 .. Len(meshes)) /\ Cardinality(1 .. Len(meshes)) = Len(meshes)
  <2>1. 1 \in Int /\ Len(meshes) \in Int
    BY <1>1
  <2>2. IsFiniteSet(1 .. Len(meshes))
        /\ Cardinality(1 .. Len(meshes)) = IF 1 > Len(meshes) THEN 0 ELSE Len(meshes) - 1 + 1
    BY ONLY <2>1, FS_Interval
  <2> QED BY <1>1, <2>2
<1>7. IsFiniteSet(D) /\ Cardinality(D) <= Len(meshes) /\ Cardinality(D) \in Nat
  BY <1>1, <1>6, FS_Subset, FS_CardinalityType
<1>8. IsFiniteSet(items) /\ Cardinality(items) <= Cardinality(D) /\ Cardinality(items) \in Nat
  BY <1>5, <1>7, FS_Surjection, FS_CardinalityType
<1>9. Cardinality(items) <= Len(meshes)
  BY <1>1, <1>7, <1>8
<1> QED BY <1>4, <1>8, <1>9 DEF items

\* Giving them buckets makes no more of them, and leaves them where they are.
LEMMA WithBucketsTyped ==
  ASSUME NEW items \in SUBSET Item, IsFiniteSet(items)
  PROVE  LET W == WithBuckets(items, FrontToBack)
             ds == {x.depth : x \in items}
         IN  /\ W \in SUBSET Item
             /\ IsFiniteSet(W) /\ Cardinality(W) \in Nat /\ Cardinality(W) <= Cardinality(items)
             /\ {x.depth : x \in W} = ds
             /\ FrontToBack => \A x \in W : x.bucket = BucketAmong(x.depth, ds)
<1> DEFINE ds == {x.depth : x \in items}
           b(x) == IF FrontToBack /\ DepthSpan(ds) > 0
                   THEN DepthBucket(x.depth, Nearest(ds), DepthSpan(ds)) ELSE 0
           g(x) == [x EXCEPT !.bucket = b(x)]
           f == [x \in items |-> g(x)]
           W == WithBuckets(items, FrontToBack)
<1>1. W = {g(x) : x \in items}
  BY DEF WithBuckets, DepthSpan, Nearest, Farthest
<1>2. ds \in SUBSET (0 .. UnknownDepth)
  BY DEF Item
<1>3. ASSUME NEW x \in items PROVE b(x) \in Nat
  <2>1. x.depth \in ds /\ x.depth \in Nat
    BY DEF Item
  <2> HIDE DEF ds
  <2>2. Nearest(ds) \in ds /\ DepthSpan(ds) \in Nat
    BY <1>2, <2>1, Ends, Zenon
  <2>3. Nearest(ds) \in Nat
    <3>1. Nearest(ds) \in 0 .. UnknownDepth
      BY ONLY <1>2, <2>2
    <3> QED BY ONLY <3>1, UnknownDepthIsNumber
  <2>4. DepthBucket(x.depth, Nearest(ds), DepthSpan(ds)) \in Nat
    BY <2>1, <2>2, <2>3, BucketTyped
  <2> QED BY <2>4
<1> HIDE DEF b
<1>4. ASSUME NEW x \in items
      PROVE  g(x) \in Item /\ g(x).depth = x.depth /\ g(x).bucket = b(x)
  BY <1>3 DEF Item
<1> HIDE DEF g, W
<1>5. W \in SUBSET Item
  BY <1>1, <1>4
<1>6. {x.depth : x \in W} = ds
  BY <1>1, <1>4
<1>7. f \in Surjection(items, W)
  BY <1>1 DEF Surjection
<1>8. IsFiniteSet(W) /\ Cardinality(W) <= Cardinality(items) /\ Cardinality(W) \in Nat
  BY <1>7, FS_Surjection, FS_CardinalityType
<1>9. ASSUME FrontToBack, NEW x \in W PROVE x.bucket = BucketAmong(x.depth, ds)
  <2>1. PICK y \in items : x = g(y)
    BY <1>1
  <2>2. x.bucket = b(y) /\ x.depth = y.depth
    BY <1>4, <2>1
  <2> HIDE DEF ds
  <2> QED BY <1>9, <2>2 DEF b, BucketAmong
<1> QED BY <1>5, <1>6, <1>8, <1>9 DEF W

\* A sorted arrangement of items holds all of them.
LEMMA SortedIsAll ==
  ASSUME NEW W \in SUBSET Item, IsFiniteSet(W), NEW s \in Sorted(W)
  PROVE  /\ s \in Seq(Item) /\ Len(s) = Cardinality(W) /\ DOMAIN s = 1 .. Cardinality(W)
         /\ {s[n] : n \in DOMAIN s} = W
         /\ \A i, j \in DOMAIN s : i < j => KeyLess(s[i], s[j])
<1> DEFINE c == Cardinality(W)
<1>1. c \in Nat
  BY FS_CardinalityType
<1>2. s \in [1 .. c -> W] /\ \A i, j \in DOMAIN s : i < j => KeyLess(s[i], s[j])
  BY DEF Sorted
<1> HIDE DEF c
<1>3. s \in Seq(Item) /\ Len(s) = c /\ DOMAIN s = 1 .. c
  BY <1>1, <1>2
<1>4. ASSUME NEW i \in 1 .. c, NEW j \in 1 .. c, s[i] = s[j] PROVE i = j
  <2>1. s[i] \in Item /\ s[j] \in Item /\ i \in Nat /\ j \in Nat
    BY <1>2
  <2>2. ~(i < j) /\ ~(j < i)
    BY <1>2, <1>4, <2>1, KeyIrreflexive
  <2> QED BY <2>1, <2>2
<1>5. s \in Injection(1 .. c, W)
  BY <1>2, <1>4 DEF Injection, IsInjective
<1>6. IsFiniteSet(1 .. c) /\ Cardinality(1 .. c) = c
  <2>1. 1 \in Int /\ c \in Int
    BY <1>1
  <2>2. IsFiniteSet(1 .. c) /\ Cardinality(1 .. c) = IF 1 > c THEN 0 ELSE c - 1 + 1
    BY ONLY <2>1, FS_Interval
  <2> QED BY <1>1, <2>2
<1>7. s \in Surjection(1 .. c, W)
  <2>1. Cardinality(1 .. c) = Cardinality(W)
    BY <1>6 DEF c
  <2> QED BY <1>5, <2>1, FS_Injection
<1>8. {s[n] : n \in DOMAIN s} = W
  BY <1>2, <1>3, <1>7 DEF Surjection
<1> QED BY <1>2, <1>3, <1>8 DEF c

\* What StartRecording makes is a draw list with room for its instances.
LEMMA ListMade ==
  ASSUME NEW meshes \in Seq(Objects), NEW camera \in Cameras, NEW culling, NEW limit, NEW forced,
         NEW s \in Sorted(WithBuckets(Items(meshes, camera, culling, limit, forced), FrontToBack))
  PROVE  IsDrawList(s) /\ Len(s) \in Nat /\ Len(s) <= Len(meshes)
<1> DEFINE items == Items(meshes, camera, culling, limit, forced)
           ds == {x.depth : x \in items}
           W == WithBuckets(items, FrontToBack)
<1>1. items \in SUBSET Item /\ IsFiniteSet(items) /\ Cardinality(items) <= Len(meshes)
      /\ Cardinality(items) \in Nat /\ Len(meshes) \in Nat
  BY ItemsTyped, FS_CardinalityType, LenProperties
<1> HIDE DEF items
<1>2. /\ W \in SUBSET Item
      /\ IsFiniteSet(W) /\ Cardinality(W) \in Nat /\ Cardinality(W) <= Cardinality(items)
      /\ {x.depth : x \in W} = ds
      /\ FrontToBack => \A x \in W : x.bucket = BucketAmong(x.depth, ds)
  BY <1>1, WithBucketsTyped
<1>3. s \in Sorted(W)
  BY DEF items
<1> HIDE DEF W, ds
<1>4. /\ s \in Seq(Item) /\ Len(s) = Cardinality(W)
      /\ {s[n] : n \in DOMAIN s} = W
      /\ \A i, j \in DOMAIN s : i < j => KeyLess(s[i], s[j])
  BY <1>2, <1>3, SortedIsAll
<1>5. DepthsOf(s) = ds
  <2>1. DepthsOf(s) = {x.depth : x \in {s[n] : n \in DOMAIN s}}
    BY DEF DepthsOf
  <2> QED BY <1>2, <1>4, <2>1
<1>6. FrontToBack => \A i \in DOMAIN s : s[i].bucket = BucketAmong(s[i].depth, DepthsOf(s))
  <2>1. \A i \in DOMAIN s : s[i] \in W
    BY <1>4
  <2> QED BY <1>2, <1>5, <2>1
<1> QED BY <1>1, <1>2, <1>4, <1>6 DEF IsDrawList

\* Only an unknown depth is past the last bucket.
LEMMA BucketKnown ==
  ASSUME NEW near \in Nat, NEW span \in Nat \ {0}, NEW e \in Nat, near <= e, e # UnknownDepth
  PROVE  DepthBucket(e, near, span) < Buckets
<1> DEFINE y == e - near
           q == (y * Buckets) \div span
<1>1. y \in Nat /\ Buckets \in Nat \ {0}
  BY DrawAssumption
<1>2. CASE y >= span
  <2>1. DepthBucket(e, near, span) = Buckets - 1
    BY <1>1, <1>2 DEF DepthBucket
  <2> QED BY <1>1, <2>1
<1>3. CASE y < span
  <2>1. DepthBucket(e, near, span) = q
    BY <1>1, <1>3 DEF DepthBucket
  <2> HIDE DEF y
  <2>2. y * Buckets \in Nat
    BY <1>1
  <2>3. q \in Nat /\ q * span <= y * Buckets
    BY <2>2, DivBounds
  <2> HIDE DEF q
  <2>4. y * Buckets < span * Buckets
    BY <1>1, <1>3
  <2>5. q < Buckets
    <3> SUFFICES ASSUME q >= Buckets PROVE FALSE
      BY <1>1, <2>3
    <3>1. q * span >= Buckets * span
      BY <1>1, <2>3
    <3>2. Buckets * span = span * Buckets /\ q * span \in Int /\ Buckets * span \in Int
      BY <1>1, <2>3
    <3> QED BY <2>2, <2>3, <2>4, <3>1, <3>2
  <2> QED BY <2>1, <2>5
<1> QED BY <1>1, <1>2, <1>3

\* The ends among the depths that are known, as long as there is one.
LEMMA KnownEnds ==
  ASSUME NEW ds \in SUBSET (0 .. UnknownDepth), NEW b \in ds, b # UnknownDepth
  PROVE  LET known == ds \ {UnknownDepth}
         IN  /\ Farthest(ds) = CHOOSE d \in known : \A e \in known : e <= d
             /\ Nearest(ds) = CHOOSE d \in known : \A e \in known : d <= e
             /\ Farthest(ds) \in Nat /\ Nearest(ds) \in Nat
             /\ Nearest(ds) <= b /\ b <= Farthest(ds)
<1> DEFINE known == ds \ {UnknownDepth}
           far == CHOOSE d \in known : \A e \in known : e <= d
           near == CHOOSE d \in known : \A e \in known : d <= e
<1>1. known \in SUBSET (0 .. UnknownDepth) /\ b \in known /\ UnknownDepth \in Nat
  BY UnknownDepthIsNumber
<1>2. known \in SUBSET Nat
  BY ONLY <1>1
<1>3. /\ Nearest(ds) \in ds /\ \A e \in ds : Nearest(ds) <= e
      /\ Farthest(ds) \in known \cup {0} /\ \A e \in known : e <= Farthest(ds)
  BY Ends
<1>4. b <= UnknownDepth /\ b \in Nat
  BY <1>1
<1>5. Nearest(ds) \in Nat
  <2>1. Nearest(ds) \in 0 .. UnknownDepth
    BY ONLY <1>3, ds \in SUBSET (0 .. UnknownDepth)
  <2> QED BY <1>1, <2>1
<1>6. Nearest(ds) \in known
  <2>1. Nearest(ds) <= b /\ b # UnknownDepth
    BY <1>3
  <2> QED BY <1>1, <1>3, <1>4, <1>5, <2>1
<1> HIDE DEF known
<1>7. near \in known /\ \A e \in known : near <= e
  <2>1. \E d \in known : \A e \in known : d <= e
    BY <1>1, <1>2, Least
  <2> QED BY <2>1
<1>8. far \in known /\ \A e \in known : e <= far
  <2>1. \E d \in known : \A e \in known : e <= d
    BY <1>1, Greatest
  <2>2. LET c == CHOOSE d \in known : \A e \in known : e <= d
        IN  c \in known /\ \A e \in known : e <= c
    BY <2>1, GreatestChosen
  <2> QED BY <2>2
<1> HIDE DEF near, far
<1>9. near \in Nat /\ far \in Nat /\ Farthest(ds) \in Nat
  <2>1. near \in Nat /\ far \in Nat
    BY ONLY <1>2, <1>7, <1>8
  <2>2. Farthest(ds) \in Nat
    <3>1. Farthest(ds) \in known \cup {0}
      BY ONLY <1>3
    <3>2. 0 \in Nat
      OBVIOUS
    <3> QED BY ONLY <1>2, <3>1, <3>2, Zenon
  <2> QED BY <2>1, <2>2
<1>10. near = Nearest(ds)
  <2>1. near <= Nearest(ds)
    BY <1>6, <1>7
  <2>2. Nearest(ds) <= near
    BY <1>3, <1>7 DEF known
  <2> QED BY <1>5, <1>9, <2>1, <2>2
<1>11. far = Farthest(ds)
  <2>1. far <= Farthest(ds)
    BY <1>3, <1>8
  <2>2. Farthest(ds) <= far
    BY <1>3, <1>8, <1>9
  <2> QED BY <1>9, <2>1, <2>2
<1> QED BY <1>1, <1>3, <1>5, <1>9, <1>10, <1>11 DEF near, far, known

\* The order of a draw list is the one promised.
LEMMA ListInOrder ==
  ASSUME NEW s, IsDrawList(s), NEW i \in DOMAIN s, NEW j \in DOMAIN s, i < j
  PROVE  LET a == s[i] b == s[j]
             known == DepthsOf(s) \ {UnknownDepth}
             far == CHOOSE d \in known : \A e \in known : e <= d
             near == CHOOSE d \in known : \A e \in known : d <= e
         IN  /\ ~(a.blend /\ ~b.blend)
             /\ a.blend => a.depth >= b.depth
             /\ (~b.blend /\ FrontToBack /\ a.depth > b.depth) =>
                  (far = near \/ (a.depth # UnknownDepth /\ (a.depth - b.depth) * Buckets <= far - near))
<1> DEFINE a == s[i]
           b == s[j]
           ds == DepthsOf(s)
           known == ds \ {UnknownDepth}
           far == CHOOSE d \in known : \A e \in known : e <= d
           near == CHOOSE d \in known : \A e \in known : d <= e
<1>1. s \in Seq(Item) /\ KeyLess(a, b) /\ a \in Item /\ b \in Item
  BY ElementOfSeq, LenProperties DEF IsDrawList
<1>2. /\ a.blend => b.blend
      /\ a.blend => a.depth >= b.depth
      /\ ~b.blend => a.bucket <= b.bucket
  BY <1>1, KeyOrder
<1>3. ds \in SUBSET (0 .. UnknownDepth) /\ a.depth \in ds /\ b.depth \in ds
  <2>1. \A n \in DOMAIN s : s[n] \in Item
    BY <1>1, ElementOfSeq, LenProperties
  <2>2. \A n \in DOMAIN s : s[n].depth \in 0 .. UnknownDepth
    BY <2>1 DEF Item
  <2> QED BY <2>2 DEF DepthsOf
<1>4. FrontToBack => a.bucket = BucketAmong(a.depth, ds) /\ b.bucket = BucketAmong(b.depth, ds)
  BY DEF IsDrawList
<1> HIDE DEF a, b, ds
<1>5. a.depth \in Nat /\ b.depth \in Nat /\ a.depth <= UnknownDepth /\ UnknownDepth \in Nat
  <2>1. a.depth \in 0 .. UnknownDepth /\ b.depth \in 0 .. UnknownDepth
    BY ONLY <1>3
  <2> QED BY ONLY <2>1, UnknownDepthIsNumber
<1>6. ASSUME ~b.blend, FrontToBack, a.depth > b.depth, far # near
      PROVE  a.depth # UnknownDepth /\ (a.depth - b.depth) * Buckets <= far - near
  <2>1. b.depth # UnknownDepth
    BY <1>5, <1>6
  <2>2. /\ far = Farthest(ds) /\ near = Nearest(ds)
        /\ far \in Nat /\ near \in Nat
        /\ near <= b.depth /\ b.depth <= far
    <3>1. LET k == ds \ {UnknownDepth}
          IN  /\ Farthest(ds) = CHOOSE d \in k : \A e \in k : e <= d
              /\ Nearest(ds) = CHOOSE d \in k : \A e \in k : d <= e
              /\ Farthest(ds) \in Nat /\ Nearest(ds) \in Nat
              /\ Nearest(ds) <= b.depth /\ b.depth <= Farthest(ds)
      BY <1>3, <2>1, KnownEnds
    <3>2. far = Farthest(ds) /\ near = Nearest(ds)
      BY <3>1
    <3> QED BY <3>1, <3>2
  <2>3. a.depth # UnknownDepth => a.depth <= far
    <3>1. ASSUME a.depth # UnknownDepth PROVE a.depth <= Farthest(ds)
      BY <1>3, <3>1, KnownEnds
    <3> QED BY <2>2, <3>1
  <2> HIDE DEF far, near
  <2> DEFINE span == far - near
  <2>4. far > near /\ span \in Nat \ {0} /\ DepthSpan(ds) = span
    BY <1>5, <1>6, <2>2 DEF DepthSpan
  <2>5. DepthBucket(a.depth, near, span) <= DepthBucket(b.depth, near, span)
    <3>1. DepthSpan(ds) > 0
      BY <2>4
    <3>2. a.bucket = DepthBucket(a.depth, near, span) /\ b.bucket = DepthBucket(b.depth, near, span)
      BY <1>4, <1>6, <2>2, <2>4, <3>1 DEF BucketAmong
    <3> QED BY <1>2, <1>6, <3>2
  <2> HIDE DEF span
  <2>6. DepthBucket(b.depth, near, span) < Buckets
    BY <1>5, <2>1, <2>2, <2>4, BucketKnown
  <2>7. a.depth # UnknownDepth
    <3> SUFFICES ASSUME a.depth = UnknownDepth PROVE FALSE
      OBVIOUS
    <3>1. DepthBucket(a.depth, near, span) = Buckets
      BY DEF DepthBucket
    <3>2. DepthBucket(b.depth, near, span) \in Nat /\ Buckets \in Nat
      BY <1>5, <2>2, <2>4, BucketTyped, DrawAssumption
    <3> QED BY <2>5, <2>6, <3>1, <3>2
  <2>8. a.depth - near <= span
    BY <1>5, <2>2, <2>3, <2>7 DEF span
  <2>9. (a.depth - b.depth) * Buckets <= span
    BY <1>5, <1>6, <2>1, <2>2, <2>4, <2>5, <2>7, <2>8, BucketsNear
  <2> QED BY <2>7, <2>9 DEF span
<1> QED BY <1>2, <1>6 DEF a, b, ds

-----------------------------------------------------------------------------
(* Draws                                                                    *)

\* What a draw can be bound to, and the draws recorded.
States == {StateOf(x) : x \in Item}
Draw == [first : Nat \ {0}, count : Nat \ {0}, state : States]

\* Instance i is in exactly one draw of Q.
Once(i, Q) ==
  \E k \in DOMAIN Q : i \in Span(Q[k]) /\ \A l \in DOMAIN Q : i \in Span(Q[l]) => l = k

\* The draws share out the instances before n.
Tiles(Q, n) ==
  /\ \A k \in DOMAIN Q : Q[k].first + Q[k].count <= n
  /\ \A i \in 1 .. n - 1 : Once(i, Q)

\* And in order.
InOrder(Q) ==
  \A k, l \in DOMAIN Q : k < l => Q[k].first + Q[k].count <= Q[l].first

\* The command buffer is full and d, which is not in it, was drawn before e, which
\* is, from the same state.
Ahead(d, e) ==
  /\ indirect /\ ~merging /\ Len(commands) >= MaxCommands
  /\ ~Deferred(d) /\ Deferred(e)
  /\ StateOf(list[d.first]) = StateOf(list[e.first])

\* In order, but for the draws that found the command buffer full.
Ordered(Q) ==
  \A k, l \in DOMAIN Q :
    k < l => Q[k].first + Q[k].count <= Q[l].first \/ Ahead(Q[k], Q[l])

\* P and Q draw the same instances, whatever their state.
SameSpans(P, Q) ==
  /\ DOMAIN P = DOMAIN Q
  /\ \A k \in DOMAIN P : P[k].first = Q[k].first /\ P[k].count = Q[k].count

\* The fields of a draw.
LEMMA DrawTyped ==
  ASSUME NEW d \in Draw
  PROVE  d.first \in Nat \ {0} /\ d.count \in Nat \ {0} /\ d.state \in States
BY DEF Draw

\* Only the instances of draws matter to their order and to what they share out.
LEMMA SpansMatter ==
  ASSUME NEW P, NEW Q, SameSpans(P, Q)
  PROVE  /\ \A n : Tiles(P, n) => Tiles(Q, n)
         /\ Ordered(P) => Ordered(Q)
<1>1. \A k \in DOMAIN P : Span(P[k]) = Span(Q[k])
  BY DEF SameSpans, Span
<1>2. DOMAIN P = DOMAIN Q
  BY DEF SameSpans
<1>3. \A i : Once(i, P) => Once(i, Q)
  BY <1>1, <1>2 DEF Once
<1>4. ASSUME NEW n, Tiles(P, n) PROVE Tiles(Q, n)
  <2>1. \A k \in DOMAIN Q : Q[k].first + Q[k].count <= n
    BY <1>4 DEF SameSpans, Tiles
  <2>2. \A i \in 1 .. n - 1 : Once(i, Q)
    BY <1>3, <1>4 DEF Tiles
  <2> QED BY <2>1, <2>2 DEF Tiles
<1>5. Ordered(P) => Ordered(Q)
  BY DEF SameSpans, Ordered, Ahead, Deferred
<1> QED BY <1>4, <1>5

\* R is Q with d after its first m draws.
OneMore(Q, R, m, d) ==
  /\ m \in 0 .. Len(Q) /\ Len(R) = Len(Q) + 1
  /\ R[m + 1] = d
  /\ \A k \in 1 .. m : R[k] = Q[k]
  /\ \A k \in m + 1 .. Len(Q) : R[k + 1] = Q[k]

\* One more draw, wherever it is put among the others, takes the next instances.
LEMMA TilesWithOneMore ==
  ASSUME NEW Q \in Seq(Draw), NEW R \in Seq(Draw), NEW m, NEW n \in Nat \ {0},
         NEW d \in Draw, d.first = n, Tiles(Q, n), OneMore(Q, R, m, d)
  PROVE  /\ Tiles(R, n + d.count)
         /\ m = Len(Q) /\ InOrder(Q) => InOrder(R)
<1>0. /\ m \in 0 .. Len(Q) /\ Len(R) = Len(Q) + 1 /\ R[m + 1] = d
      /\ \A k \in 1 .. m : R[k] = Q[k]
      /\ \A k \in m + 1 .. Len(Q) : R[k + 1] = Q[k]
  BY DEF OneMore
<1>1. /\ Len(Q) \in Nat /\ DOMAIN Q = 1 .. Len(Q) /\ DOMAIN R = 1 .. Len(Q) + 1
      /\ d.count \in Nat \ {0} /\ m \in Nat
  BY <1>0, LenProperties, DrawTyped
<1>2. \A k \in DOMAIN Q : Q[k].first \in Nat \ {0} /\ Q[k].count \in Nat \ {0}
  BY <1>1, ElementOfSeq, DrawTyped
<1>3. \A k \in DOMAIN Q : Q[k].first + Q[k].count <= n
  BY DEF Tiles
\* Where a draw of Q is in R, and the other way round.
<1> DEFINE to(k) == IF k <= m THEN k ELSE k + 1
<1>4. \A k \in DOMAIN Q : to(k) \in DOMAIN R /\ to(k) # m + 1 /\ R[to(k)] = Q[k]
  BY <1>0, <1>1
<1>5. \A l \in DOMAIN R : l # m + 1 => \E k \in DOMAIN Q : l = to(k)
  <2> SUFFICES ASSUME NEW l \in DOMAIN R, l # m + 1 PROVE \E k \in DOMAIN Q : l = to(k)
    OBVIOUS
  <2>1. CASE l <= m
    BY <1>0, <1>1, <2>1
  <2>2. CASE ~(l <= m)
    <3>1. l - 1 \in DOMAIN Q /\ l = to(l - 1)
      BY <1>0, <1>1, <2>2
    <3> QED BY <3>1
  <2> QED BY <2>1, <2>2
<1>6. \A k, l \in DOMAIN Q : to(k) = to(l) => k = l
  BY <1>0, <1>1
<1> HIDE DEF to
<1>7. \A l \in DOMAIN R : R[l].first + R[l].count <= n + d.count
  <2> SUFFICES ASSUME NEW l \in DOMAIN R PROVE R[l].first + R[l].count <= n + d.count
    OBVIOUS
  <2>1. CASE l = m + 1
    BY <1>0, <1>1, <2>1
  <2>2. CASE l # m + 1
    <3>1. PICK k \in DOMAIN Q : R[l] = Q[k]
      BY <1>4, <1>5, <2>2
    <3> QED BY <1>0, <1>1, <1>2, <1>3, <3>1
  <2> QED BY <2>1, <2>2
<1>8. ASSUME NEW i \in 1 .. (n + d.count) - 1 PROVE Once(i, R)
  <2>1. CASE i < n
    <3>1. i \in 1 .. n - 1
      BY <2>1
    <3>2. PICK k \in DOMAIN Q : i \in Span(Q[k]) /\ \A l \in DOMAIN Q : i \in Span(Q[l]) => l = k
      BY <3>1 DEF Tiles, Once
    <3>3. i \in Span(R[to(k)])
      BY <1>4, <3>2
    <3>4. ASSUME NEW l \in DOMAIN R, i \in Span(R[l]) PROVE l = to(k)
      <4>1. l # m + 1
        BY <1>0, <1>1, <2>1, <3>4 DEF Span
      <4>2. PICK q \in DOMAIN Q : l = to(q)
        BY <1>5, <4>1
      <4> QED BY <1>4, <3>2, <3>4, <4>2
    <3> QED BY <1>4, <3>3, <3>4 DEF Once
  <2>2. CASE ~(i < n)
    <3>1. i \in Span(R[m + 1]) /\ m + 1 \in DOMAIN R
      BY <1>0, <1>1, <2>2 DEF Span
    <3>2. ASSUME NEW l \in DOMAIN R, i \in Span(R[l]) PROVE l = m + 1
      <4> SUFFICES ASSUME l # m + 1 PROVE FALSE
        OBVIOUS
      <4>1. PICK k \in DOMAIN Q : R[l] = Q[k]
        BY <1>4, <1>5
      <4>2. i <= Q[k].first + Q[k].count - 1
        BY <3>2, <4>1 DEF Span
      <4> QED BY <1>2, <1>3, <2>2, <4>2
    <3> QED BY <3>1, <3>2 DEF Once
  <2> QED BY <2>1, <2>2
<1>9. ASSUME m = Len(Q), InOrder(Q), NEW k \in DOMAIN R, NEW l \in DOMAIN R, k < l
      PROVE  R[k].first + R[k].count <= R[l].first
  <2>1. k \in DOMAIN Q /\ R[k] = Q[k]
    BY <1>0, <1>1, <1>9
  <2>2. CASE l = m + 1
    BY <1>0, <1>3, <2>1, <2>2
  <2>3. CASE l # m + 1
    <3>1. l \in DOMAIN Q /\ R[l] = Q[l]
      BY <1>0, <1>1, <1>9, <2>3
    <3> QED BY <1>9, <2>1, <3>1 DEF InOrder
  <2> QED BY <2>2, <2>3
<1>10. Tiles(R, n + d.count)
  BY <1>7, <1>8 DEF Tiles
<1>11. m = Len(Q) /\ InOrder(Q) => InOrder(R)
  BY <1>9 DEF InOrder
<1> QED BY <1>10, <1>11

\* Put anywhere it is in order after the draws before it, and may be ahead of the
\* others.
LEMMA OrderedWithOneMore ==
  ASSUME NEW Q \in Seq(Draw), NEW R \in Seq(Draw), NEW m, NEW n \in Nat \ {0},
         NEW d \in Draw, d.first = n, Tiles(Q, n), OneMore(Q, R, m, d),
         Ordered(Q), \A k \in m + 1 .. Len(Q) : Ahead(d, Q[k])
  PROVE  Ordered(R)
<1>1. /\ m \in 0 .. Len(Q) /\ Len(R) = Len(Q) + 1 /\ R[m + 1] = d
      /\ \A k \in 1 .. m : R[k] = Q[k]
      /\ \A k \in m + 1 .. Len(Q) : R[k + 1] = Q[k]
  BY DEF OneMore
<1>2. /\ Len(Q) \in Nat /\ DOMAIN Q = 1 .. Len(Q) /\ DOMAIN R = 1 .. Len(Q) + 1 /\ m \in Nat
  BY <1>1, LenProperties
<1>3. \A k \in m + 2 .. Len(Q) + 1 : k - 1 \in m + 1 .. Len(Q) /\ R[k] = Q[k - 1]
  <2> SUFFICES ASSUME NEW k \in m + 2 .. Len(Q) + 1
               PROVE  k - 1 \in m + 1 .. Len(Q) /\ R[k] = Q[k - 1]
    OBVIOUS
  <2>1. k - 1 \in m + 1 .. Len(Q) /\ (k - 1) + 1 = k
    BY <1>2
  <2> QED BY <1>1, <2>1
<1> SUFFICES ASSUME NEW k \in DOMAIN R, NEW l \in DOMAIN R, k < l
             PROVE  R[k].first + R[k].count <= R[l].first \/ Ahead(R[k], R[l])
  BY DEF Ordered
<1>4. CASE l <= m
  <2>1. k \in DOMAIN Q /\ l \in DOMAIN Q /\ R[k] = Q[k] /\ R[l] = Q[l]
    BY <1>1, <1>2, <1>4
  <2> QED BY <2>1 DEF Ordered
<1>5. CASE l = m + 1
  <2>1. k \in DOMAIN Q /\ R[k] = Q[k]
    BY <1>1, <1>2, <1>5
  <2> QED BY <1>1, <1>5, <2>1 DEF Tiles
<1>6. CASE l > m + 1
  <2>1. l - 1 \in m + 1 .. Len(Q) /\ R[l] = Q[l - 1] /\ l - 1 \in DOMAIN Q
    BY <1>2, <1>3, <1>6
  <2>2. CASE k <= m
    <3>1. k \in DOMAIN Q /\ R[k] = Q[k] /\ k < l - 1
      BY <1>1, <1>2, <1>6, <2>2
    <3> QED BY <2>1, <3>1 DEF Ordered
  <2>3. CASE k = m + 1
    BY <1>1, <2>1, <2>3
  <2>4. CASE k > m + 1
    <3>1. k - 1 \in DOMAIN Q /\ R[k] = Q[k - 1] /\ k - 1 < l - 1
      BY <1>2, <1>3, <2>4
    <3> QED BY <2>1, <3>1 DEF Ordered
  <2> QED BY <1>2, <2>2, <2>3, <2>4
<1> QED BY <1>2, <1>4, <1>5, <1>6

\* The draws executed and the last p commands, which will be.
Joined(E, C, p) == E \o [k \in 1 .. p |-> C[Len(C) - p + k]]

\* Where each of them is.
LEMMA JoinedAt ==
  ASSUME NEW E \in Seq(Draw), NEW C \in Seq(Draw), NEW p \in 0 .. Len(C)
  PROVE  /\ Joined(E, C, p) \in Seq(Draw) /\ Len(Joined(E, C, p)) = Len(E) + p
         /\ DOMAIN Joined(E, C, p) = 1 .. Len(E) + p
         /\ \A k \in 1 .. Len(E) : Joined(E, C, p)[k] = E[k]
         /\ \A k \in 1 .. p : Joined(E, C, p)[Len(E) + k] = C[Len(C) - p + k]
<1> DEFINE L == [k \in 1 .. p |-> C[Len(C) - p + k]]
<1>1. Len(E) \in Nat /\ Len(C) \in Nat /\ p \in Nat /\ DOMAIN C = 1 .. Len(C)
  BY LenProperties
<1>2. L \in Seq(Draw) /\ Len(L) = p
  <2>1. \A k \in 1 .. p : C[Len(C) - p + k] \in Draw
    <3> SUFFICES ASSUME NEW k \in 1 .. p PROVE C[Len(C) - p + k] \in Draw
      OBVIOUS
    <3>1. Len(C) - p + k \in 1 .. Len(C)
      BY <1>1
    <3> QED BY <3>1, ElementOfSeq
  <2>2. L \in [1 .. p -> Draw]
    BY <2>1
  <2> HIDE DEF L
  <2> QED BY <1>1, <2>2
<1>3. \A k \in 1 .. p : L[k] = C[Len(C) - p + k]
  OBVIOUS
<1> HIDE DEF L
<1> DEFINE J == E \o L
<1>4. /\ J \in Seq(Draw) /\ Len(J) = Len(E) + p
      /\ \A i \in 1 .. Len(E) + p : J[i] = IF i <= Len(E) THEN E[i] ELSE L[i - Len(E)]
  BY <1>2, ConcatProperties
<1> HIDE DEF J
<1>5. \A k \in 1 .. Len(E) : J[k] = E[k]
  BY <1>1, <1>4
<1>6. \A k \in 1 .. p : J[Len(E) + k] = C[Len(C) - p + k]
  <2> SUFFICES ASSUME NEW k \in 1 .. p PROVE J[Len(E) + k] = C[Len(C) - p + k]
    OBVIOUS
  <2>1. Len(E) + k \in 1 .. Len(E) + p /\ ~(Len(E) + k <= Len(E)) /\ Len(E) + k - Len(E) = k
    BY <1>1
  <2> QED BY <1>3, <1>4, <2>1
<1>7. DOMAIN J = 1 .. Len(E) + p
  BY <1>4, LenProperties
<1> QED BY <1>4, <1>5, <1>6, <1>7 DEF J, L, Joined

-----------------------------------------------------------------------------
(* The recording                                                            *)

\* The draws recorded so far, executed or yet to be.
Work == Joined(executed, commands, pending)

\* What the variables of a recording are, and how far it has come.
DrawTypes ==
  /\ recording \in BOOLEAN /\ merging \in BOOLEAN /\ indirect \in BOOLEAN
  /\ IsDrawList(list)
  /\ capacity \in Nat /\ Len(list) <= capacity
  /\ next \in 1 .. Len(list) + 1
  /\ instances \in Seq(Item) /\ Len(instances) = next - 1
  /\ \A i \in 1 .. next - 1 : instances[i] = list[i]
  /\ commands \in Seq(Draw) /\ Len(commands) < next
  /\ executed \in Seq(Draw)
  /\ pending \in 0 .. Len(commands)
  /\ ~indirect => pending = 0
  /\ ~recording => pending = 0 /\ next = Len(list) + 1

\* What is bound is what the last draw needs; with merging, the next one needs
\* something else.
BoundIsLast ==
  /\ next > 1 => bound = StateOf(list[next - 1])
  /\ merging /\ 1 < next /\ next <= Len(list) => bound # StateOf(list[next])

\* Draws executed ran with the state of their meshes, and the commands to come run
\* with what is bound.
StatesRight ==
  /\ \A k \in DOMAIN executed : \A j \in Span(executed[k]) : executed[k].state = StateOf(list[j])
  /\ \A k \in 1 .. pending : \A j \in Span(commands[Len(commands) - pending + k]) :
       bound = StateOf(list[j])

\* Every draw of the list before next is in exactly one draw recorded, and they are
\* recorded in the order of the list but for those that found the buffer full.
WorkTiles ==
  /\ Tiles(Work, next) /\ Ordered(Work)
  /\ \A n \in DOMAIN commands : commands[n].first < next

\* The inductive invariant of a recording.
DrawInv == DrawTypes /\ BoundIsLast /\ StatesRight /\ WorkTiles

\* In a draw list opaque items come before blended ones.
LEMMA ListTyped ==
  ASSUME NEW s, IsDrawList(s)
  PROVE  /\ s \in Seq(Item) /\ Len(s) \in Nat /\ DOMAIN s = 1 .. Len(s)
         /\ \A i \in 1 .. Len(s) : s[i] \in Item /\ StateOf(s[i]) \in States
         /\ \A i, j \in 1 .. Len(s) : i <= j /\ s[i].blend => s[j].blend
<1>1. s \in Seq(Item) /\ Len(s) \in Nat /\ DOMAIN s = 1 .. Len(s)
  BY LenProperties DEF IsDrawList
<1>2. \A i \in 1 .. Len(s) : s[i] \in Item /\ StateOf(s[i]) \in States
  BY <1>1, ElementOfSeq DEF States
<1>3. ASSUME NEW i \in 1 .. Len(s), NEW j \in 1 .. Len(s), i <= j, s[i].blend PROVE s[j].blend
  <2>1. CASE i = j
    BY <1>3, <2>1
  <2>2. CASE i # j
    <3>1. i < j
      BY <1>3, <2>2
    <3>2. KeyLess(s[i], s[j])
      BY <1>1, <3>1 DEF IsDrawList
    <3> QED BY <1>2, <1>3, <3>2, KeyOrder
  <2> QED BY <2>1, <2>2
<1> QED BY <1>1, <1>2, <1>3

\* A pass ends with the list, or before the first blended draw.
LEMMA PassEnds ==
  ASSUME IsDrawList(list), NEW i \in 1 .. Len(list)
  PROVE  /\ PassEnd(i) \in i .. Len(list)
         /\ \A k \in i .. PassEnd(i) : list[k].blend = list[i].blend
         /\ PassEnd(i) < Len(list) => list[PassEnd(i) + 1].blend # list[i].blend
<1>1. /\ Len(list) \in Nat /\ \A k \in 1 .. Len(list) : list[k].blend \in BOOLEAN
      /\ \A k, l \in 1 .. Len(list) : k <= l /\ list[k].blend => list[l].blend
  BY ListTyped DEF Item
<1>2. CASE list[i].blend
  <2>1. PassEnd(i) = Len(list)
    BY <1>2 DEF PassEnd
  <2>2. \A k \in i .. Len(list) : list[k].blend
    BY <1>1, <1>2
  <2>3. \A k \in i .. Len(list) : list[k].blend = list[i].blend
    <3>1. \A k \in i .. Len(list) : k \in 1 .. Len(list)
      BY <1>1
    <3> QED BY <1>1, <1>2, <2>2, <3>1
  <2>4. PassEnd(i) \in i .. Len(list) /\ ~(PassEnd(i) < Len(list))
    BY <1>1, <2>1
  <2> QED BY <2>1, <2>3, <2>4
<1>3. CASE ~list[i].blend
  <2> DEFINE Stops(n) == n = Len(list) \/ list[n + 1].blend
             T == {n \in i .. Len(list) : Stops(n)}
             P(n) == (\A k \in i .. n : ~list[k].blend) /\ Stops(n)
  <2>1. PICK n \in T : \A m \in T : n <= m
    <3>1. T \in SUBSET Nat /\ Len(list) \in T
      BY <1>1
    <3> HIDE DEF T
    <3> QED BY <3>1, Least
  <2>2. \A k \in i .. n : ~list[k].blend
    <3> SUFFICES ASSUME NEW k \in i .. n, list[k].blend PROVE FALSE
      OBVIOUS
    <3>1. k # i /\ k - 1 \in i .. Len(list) /\ (k - 1) + 1 = k
      BY <1>1, <1>3
    <3>2. k - 1 \in T
      BY <3>1
    <3>3. n <= k - 1
      BY <2>1, <3>2
    <3> QED BY <1>1, <3>3
  <2>3. n \in i .. Len(list) /\ P(n)
    BY <2>1, <2>2
  <2>4. PassEnd(i) = CHOOSE m \in i .. Len(list) : P(m)
    BY <1>3 DEF PassEnd
  <2> HIDE DEF P
  <2>5. PassEnd(i) \in i .. Len(list) /\ P(PassEnd(i))
    BY <2>3, <2>4
  <2>6. \A k \in i .. PassEnd(i) : ~list[k].blend
    BY <2>5 DEF P
  <2>7. PassEnd(i) < Len(list) => list[PassEnd(i) + 1].blend
    BY <1>1, <2>5 DEF P
  <2>8. \A k \in i .. PassEnd(i) : list[k].blend = list[i].blend
    <3>1. \A k \in i .. PassEnd(i) : k \in 1 .. Len(list)
      BY <1>1, <2>5
    <3> QED BY <1>1, <1>3, <2>6, <3>1
  <2> QED BY <1>3, <2>5, <2>7, <2>8
<1> QED BY <1>2, <1>3

\* The draws of a run have one state, and with merging the draw after it has
\* another.
LEMMA RunEnds ==
  ASSUME IsDrawList(list), NEW i \in 1 .. Len(list)
  PROVE  /\ RunEnd(i) \in i .. Len(list)
         /\ \A k \in i .. RunEnd(i) : StateOf(list[k]) = StateOf(list[i])
         /\ merging /\ RunEnd(i) < Len(list) => StateOf(list[RunEnd(i) + 1]) # StateOf(list[i])
<1> DEFINE e == PassEnd(i)
<1>1. Len(list) \in Nat
  BY ListTyped
<1>2. /\ e \in i .. Len(list)
      /\ \A k \in i .. e : list[k].blend = list[i].blend
      /\ e < Len(list) => list[e + 1].blend # list[i].blend
  BY PassEnds
<1> HIDE DEF e
<1>3. CASE ~merging
  <2>1. RunEnd(i) = i
    BY <1>3 DEF RunEnd
  <2>2. \A k \in i .. i : k = i
    OBVIOUS
  <2> QED BY <1>1, <1>3, <2>1, <2>2
<1>4. CASE merging
  <2> DEFINE Stops(n) == n = e \/ ~SameRun(list[i], list[n + 1])
             T == {n \in i .. e : Stops(n)}
             P(n) == (\A k \in i .. n : SameRun(list[i], list[k])) /\ Stops(n)
  <2>0. i \in Nat /\ e \in Nat
    BY <1>1, <1>2
  <2>1. PICK n \in T : \A m \in T : n <= m
    <3>1. T \in SUBSET Nat /\ e \in T
      BY <1>2, <2>0
    <3> HIDE DEF T
    <3> QED BY <3>1, Least
  <2>2. \A k \in i .. n : SameRun(list[i], list[k])
    <3> SUFFICES ASSUME NEW k \in i .. n, ~SameRun(list[i], list[k]) PROVE FALSE
      OBVIOUS
    <3>1. k # i
      BY DEF SameRun
    <3>2. k - 1 \in i .. e /\ (k - 1) + 1 = k
      BY <2>0, <2>1, <3>1
    <3>3. k - 1 \in T
      BY <3>2
    <3>4. n <= k - 1
      BY <2>1, <3>3
    <3> QED BY <2>0, <2>1, <3>4
  <2>3. n \in i .. e /\ P(n)
    BY <2>1, <2>2
  <2>4. RunEnd(i) = CHOOSE m \in i .. e : P(m)
    BY <1>4 DEF RunEnd, e
  <2> HIDE DEF P
  <2>5. RunEnd(i) \in i .. e /\ P(RunEnd(i))
    BY <2>3, <2>4
  <2> DEFINE r == RunEnd(i)
  <2> HIDE DEF r
  <2>6. r \in i .. e /\ (\A k \in i .. r : SameRun(list[i], list[k])) /\ Stops(r)
    BY <2>5 DEF P, r
  <2>7. r \in i .. Len(list)
    BY <1>1, <1>2, <2>0, <2>6
  <2>8. \A k \in i .. r : StateOf(list[k]) = StateOf(list[i])
    <3> SUFFICES ASSUME NEW k \in i .. r PROVE StateOf(list[k]) = StateOf(list[i])
      OBVIOUS
    <3>1. k \in i .. e
      BY <2>0, <2>6
    <3> QED BY <1>2, <2>6, <3>1 DEF SameRun, StateOf
  <2>9. r < Len(list) => StateOf(list[r + 1]) # StateOf(list[i])
    <3>1. CASE r = e
      BY <1>2, <3>1 DEF StateOf
    <3>2. CASE ~SameRun(list[i], list[r + 1])
      BY <3>2 DEF SameRun, StateOf
    <3> QED BY <2>6, <3>1, <3>2
  <2> QED BY <2>7, <2>8, <2>9 DEF r
<1> QED BY <1>3, <1>4

\* Flushing runs the commands not yet executed with what is bound: the draws stay
\* where they were among the others, and have the state they need.
LEMMA Flushing ==
  ASSUME DrawInv
  PROVE  LET E == executed \o Flushed
             Q == Joined(E, commands, 0)
         IN  /\ Flushed \in Seq(Draw) /\ Len(Flushed) = pending /\ E \in Seq(Draw)
             /\ \A k \in DOMAIN E : \A j \in Span(E[k]) : E[k].state = StateOf(list[j])
             /\ Tiles(Q, next) /\ Ordered(Q)
<1> DEFINE E == executed \o Flushed
           Q == Joined(E, commands, 0)
           c(k) == commands[Len(commands) - pending + k]
           n == Len(executed)
           f(k) == [c(k) EXCEPT !.state = bound]
           F == [k \in 1 .. pending |-> f(k)]
<1> USE DEF DrawInv
<1>1. /\ executed \in Seq(Draw) /\ n \in Nat /\ DOMAIN executed = 1 .. n
      /\ commands \in Seq(Draw) /\ Len(commands) \in Nat
      /\ pending \in Nat /\ pending \in 0 .. Len(commands) /\ indirect \in BOOLEAN
      /\ Len(list) \in Nat /\ next \in Nat /\ next \in 1 .. Len(list) + 1
      /\ Len(commands) < next
      /\ ~indirect => pending = 0
  BY ListTyped, LenProperties DEF DrawTypes
<1>2. /\ Work \in Seq(Draw) /\ Len(Work) = n + pending /\ DOMAIN Work = 1 .. n + pending
      /\ \A k \in 1 .. n : Work[k] = executed[k]
      /\ \A k \in 1 .. pending : Work[n + k] = c(k)
  BY <1>1, JoinedAt DEF Work
<1>3. \A k \in 1 .. pending : c(k) \in Draw
  <2> SUFFICES ASSUME NEW k \in 1 .. pending PROVE c(k) \in Draw
    OBVIOUS
  <2>1. Len(commands) - pending + k \in 1 .. Len(commands)
    BY <1>1
  <2> QED BY <1>1, <2>1, ElementOfSeq
<1>4. ASSUME pending > 0 PROVE bound \in States
  <2>1. next > 1 /\ next - 1 \in 1 .. Len(list)
    BY <1>1, <1>4
  <2>2. IsDrawList(list)
    BY DEF DrawTypes
  <2> QED BY <2>1, <2>2, ListTyped DEF BoundIsLast
<1>5. \A k \in 1 .. pending : f(k) \in Draw /\ f(k).first = c(k).first /\ f(k).count = c(k).count
                              /\ f(k).state = bound
  <2> SUFFICES ASSUME NEW k \in 1 .. pending
               PROVE  f(k) \in Draw /\ f(k).first = c(k).first /\ f(k).count = c(k).count
                      /\ f(k).state = bound
    OBVIOUS
  <2>1. c(k) \in Draw /\ bound \in States
    BY <1>1, <1>3, <1>4
  <2> HIDE DEF c
  <2> QED BY <2>1 DEF Draw
<1>6. Flushed = F
  <2>1. CASE indirect
    BY <2>1 DEF Flushed
  <2>2. CASE ~indirect
    <3>1. Flushed = <<>> /\ pending = 0
      BY <1>1, <2>2 DEF Flushed
    <3>2. F = <<>>
      BY <3>1
    <3> QED BY <3>1, <3>2
  <2> QED BY <1>1, <2>1, <2>2
<1>7. F \in Seq(Draw) /\ Len(F) = pending /\ DOMAIN F = 1 .. pending
  <2>1. F \in [1 .. pending -> Draw]
    BY <1>5
  <2> HIDE DEF F
  <2> QED BY <1>1, <2>1
<1>8. \A k \in 1 .. pending : F[k] = f(k)
  OBVIOUS
<1> HIDE DEF f, F
<1>9. /\ E \in Seq(Draw) /\ Len(E) = n + pending
      /\ \A i \in 1 .. n + pending : E[i] = IF i <= n THEN executed[i] ELSE F[i - n]
  BY <1>1, <1>6, <1>7, ConcatProperties
<1> HIDE DEF E, c
<1>10. DOMAIN E = 1 .. n + pending
  BY <1>9, LenProperties
<1>11. /\ Q \in Seq(Draw) /\ DOMAIN Q = 1 .. n + pending
       /\ \A k \in 1 .. n + pending : Q[k] = E[k]
  <2>1. Len(E) + 0 = n + pending /\ 0 \in 0 .. Len(commands)
    BY <1>1, <1>9
  <2>2. /\ Joined(E, commands, 0) \in Seq(Draw)
        /\ DOMAIN Joined(E, commands, 0) = 1 .. Len(E) + 0
        /\ \A k \in 1 .. Len(E) : Joined(E, commands, 0)[k] = E[k]
    BY <1>1, <1>9, <2>1, JoinedAt
  <2> QED BY <1>9, <2>1, <2>2
<1> HIDE DEF Q
<1>12. SameSpans(Work, Q)
  <2> SUFFICES ASSUME NEW k \in 1 .. n + pending
               PROVE  Work[k].first = Q[k].first /\ Work[k].count = Q[k].count
    BY <1>2, <1>11 DEF SameSpans
  <2>1. CASE k <= n
    BY <1>1, <1>2, <1>9, <1>11, <2>1
  <2>2. CASE ~(k <= n)
    <3>1. k - n \in 1 .. pending /\ n + (k - n) = k
      BY <1>1, <2>2
    <3>2. Work[k] = c(k - n) /\ Q[k] = F[k - n]
      BY <1>2, <1>9, <1>11, <2>2, <3>1
    <3> QED BY <1>5, <1>8, <3>1, <3>2
  <2> QED BY <2>1, <2>2
<1>13. \A k \in DOMAIN E : \A j \in Span(E[k]) : E[k].state = StateOf(list[j])
  <2> SUFFICES ASSUME NEW k \in 1 .. n + pending, NEW j \in Span(E[k])
               PROVE  E[k].state = StateOf(list[j])
    BY <1>10
  <2>1. CASE k <= n
    <3>1. E[k] = executed[k] /\ k \in DOMAIN executed
      BY <1>1, <1>9, <2>1
    <3> QED BY <3>1 DEF StatesRight
  <2>2. CASE ~(k <= n)
    <3>1. k - n \in 1 .. pending
      BY <1>1, <2>2
    <3>2. E[k] = f(k - n)
      BY <1>8, <1>9, <2>2, <3>1
    <3>3. Span(E[k]) = Span(c(k - n)) /\ E[k].state = bound
      BY <1>5, <3>1, <3>2 DEF Span
    <3> QED BY <3>1, <3>3 DEF StatesRight, c
  <2> QED BY <2>1, <2>2
<1>14. Tiles(Q, next) /\ Ordered(Q)
  BY <1>12, SpansMatter DEF WorkTiles
<1> QED BY <1>6, <1>7, <1>9, <1>13, <1>14 DEF E, Q

\* What comes before a run is recorded: commands run if the state is about to
\* change, and those left need the state of the run.
LEMMA BeforeRun ==
  ASSUME DrawInv, next <= Len(list)
  PROVE  LET flushed == FlushBefore(next)
             E == executed \o flushed
             left == IF flushed = <<>> THEN pending ELSE 0
             Q == Joined(E, commands, left)
             b == StateOf(list[next])
         IN  /\ flushed \in Seq(Draw) /\ E \in Seq(Draw)
             /\ left \in 0 .. pending
             /\ merging => left = 0
             /\ \A k \in DOMAIN E : \A j \in Span(E[k]) : E[k].state = StateOf(list[j])
             /\ \A k \in 1 .. left : \A j \in Span(commands[Len(commands) - left + k]) : b = StateOf(list[j])
             /\ Tiles(Q, next) /\ Ordered(Q)
<1> DEFINE flushed == FlushBefore(next)
           E == executed \o flushed
           left == IF flushed = <<>> THEN pending ELSE 0
           Q == Joined(E, commands, left)
           b == StateOf(list[next])
<1> USE DEF DrawInv
<1>1. /\ executed \in Seq(Draw) /\ pending \in Nat /\ next \in 1 .. Len(list) /\ Len(list) \in Nat
  BY ListTyped, LenProperties DEF DrawTypes
<1>2. CASE StartsPass(next) \/ bound # b
  <2> DEFINE G == executed \o Flushed
  <2>1. flushed = Flushed /\ E = G
    BY <1>2 DEF FlushBefore
  <2>2. /\ Flushed \in Seq(Draw) /\ Len(Flushed) = pending /\ G \in Seq(Draw)
        /\ \A k \in DOMAIN G : \A j \in Span(G[k]) : G[k].state = StateOf(list[j])
        /\ Tiles(Joined(G, commands, 0), next) /\ Ordered(Joined(G, commands, 0))
    BY Flushing
  <2> HIDE DEF flushed, G
  <2>3. left = 0
    <3>1. flushed = <<>> => pending = 0
      BY <2>1, <2>2
    <3> QED BY <3>1
  <2>4. Q = Joined(G, commands, 0)
    BY <2>1, <2>3
  <2>5. \A k \in 1 .. left : FALSE
    BY <2>3
  <2>6. left \in 0 .. pending
    BY <1>1, <2>3
  <2>7. \A k \in DOMAIN E : \A j \in Span(E[k]) : E[k].state = StateOf(list[j])
    BY <2>1, <2>2
  <2>8. flushed \in Seq(Draw) /\ E \in Seq(Draw) /\ Tiles(Q, next) /\ Ordered(Q)
    BY <2>1, <2>2, <2>4
  <2> HIDE DEF E, left, b, Q
  <2> QED BY <2>3, <2>5, <2>6, <2>7, <2>8 DEF E, Q, flushed, left, b
<1>3. CASE ~(StartsPass(next) \/ bound # b)
  <2>1. flushed = <<>> /\ left = pending
    BY <1>3 DEF FlushBefore
  <2>2. E = executed
    BY <1>1, <2>1, ConcatEmptySeq
  <2>3. flushed \in Seq(Draw)
    BY <2>1
  <2>4. Q = Work
    BY <2>1, <2>2 DEF Work
  <2>5. merging => left = 0
    <3>1. next # 1
      BY <1>3 DEF StartsPass
    <3>2. next > 1 /\ next <= Len(list)
      BY <1>1, <3>1
    <3>3. ~merging
      BY <1>3, <3>2 DEF BoundIsLast
    <3> QED BY <3>3
  <2>6. \A k \in 1 .. left : \A j \in Span(commands[Len(commands) - left + k]) : b = StateOf(list[j])
    BY <1>3, <2>1 DEF StatesRight
  <2>7. \A k \in DOMAIN E : \A j \in Span(E[k]) : E[k].state = StateOf(list[j])
    BY <2>2 DEF StatesRight
  <2>8. Tiles(Q, next) /\ Ordered(Q)
    BY <2>4 DEF WorkTiles
  <2>9. E \in Seq(Draw) /\ left \in 0 .. pending
    BY <1>1, <2>1, <2>2
  <2> HIDE DEF flushed, left, b, E, Q
  <2> QED BY <2>3, <2>5, <2>6, <2>7, <2>8, <2>9 DEF flushed, left, b, E, Q
<1> QED BY <1>2, <1>3

\* How a run is emitted, once the commands before it are settled: as a command, or
\* at once.
LEMMA EmitRun ==
  ASSUME NEW E \in Seq(Draw), NEW C \in Seq(Draw), NEW left \in 0 .. Len(C), NEW n \in Nat \ {0},
         Tiles(Joined(E, C, left), n), NEW d \in Draw, d.first = n
  PROVE  /\ Tiles(Joined(E, Append(C, d), left + 1), n + d.count)
         /\ InOrder(Joined(E, C, left)) => InOrder(Joined(E, Append(C, d), left + 1))
         /\ Tiles(Joined(Append(E, d), C, left), n + d.count)
         /\ Ordered(Joined(E, C, left)) /\ (\A k \in 1 .. left : Ahead(d, C[Len(C) - left + k]))
              => Ordered(Joined(Append(E, d), C, left))
<1> DEFINE Q == Joined(E, C, left)
           C2 == Append(C, d)
           E2 == Append(E, d)
           R == Joined(E, C2, left + 1)
           S == Joined(E2, C, left)
           e == Len(E)
<1>1. e \in Nat /\ Len(C) \in Nat /\ left \in Nat
  BY LenProperties
<1>2. /\ C2 \in Seq(Draw) /\ Len(C2) = Len(C) + 1
      /\ \A i \in 1 .. Len(C) : C2[i] = C[i]
      /\ C2[Len(C) + 1] = d
      /\ E2 \in Seq(Draw) /\ Len(E2) = e + 1
      /\ \A i \in 1 .. e : E2[i] = E[i]
      /\ E2[e + 1] = d
  BY AppendProperties
<1> HIDE DEF C2, E2
<1>11. C2 \in Seq(Draw) /\ E2 \in Seq(Draw)
  BY <1>2
<1>3. /\ Q \in Seq(Draw) /\ Len(Q) = e + left
      /\ \A k \in 1 .. e : Q[k] = E[k]
      /\ \A k \in 1 .. left : Q[e + k] = C[Len(C) - left + k]
  BY JoinedAt
<1>4. /\ R \in Seq(Draw) /\ Len(R) = e + (left + 1)
      /\ \A k \in 1 .. e : R[k] = E[k]
      /\ \A k \in 1 .. left + 1 : R[e + k] = C2[(Len(C) + 1) - (left + 1) + k]
  <2> DEFINE p == left + 1
  <2>1. p \in 0 .. Len(C2)
    BY <1>1, <1>2
  <2> HIDE DEF p
  <2>2. /\ Joined(E, C2, p) \in Seq(Draw) /\ Len(Joined(E, C2, p)) = Len(E) + p
        /\ \A k \in 1 .. Len(E) : Joined(E, C2, p)[k] = E[k]
        /\ \A k \in 1 .. p : Joined(E, C2, p)[Len(E) + k] = C2[Len(C2) - p + k]
    BY <1>11, <2>1, JoinedAt
  <2>3. R = Joined(E, C2, p)
    BY DEF p
  <2> HIDE DEF R
  <2>4. p = left + 1 /\ Len(C2) = Len(C) + 1
    BY <1>2 DEF p
  <2>5. \A k \in 1 .. p : R[Len(E) + k] = C2[Len(C2) - p + k]
    BY <2>2, <2>3
  <2>6. R \in Seq(Draw) /\ Len(R) = Len(E) + p /\ \A k \in 1 .. Len(E) : R[k] = E[k]
    BY <2>2, <2>3
  <2> HIDE DEF p
  <2> QED BY <2>4, <2>5, <2>6
<1>5. /\ S \in Seq(Draw) /\ Len(S) = e + 1 + left
      /\ \A k \in 1 .. e + 1 : S[k] = E2[k]
      /\ \A k \in 1 .. left : S[e + 1 + k] = C[Len(C) - left + k]
  <2>1. /\ S \in Seq(Draw) /\ Len(S) = Len(E2) + left
        /\ \A k \in 1 .. Len(E2) : S[k] = E2[k]
        /\ \A k \in 1 .. left : S[Len(E2) + k] = C[Len(C) - left + k]
    BY <1>11, JoinedAt
  <2> HIDE DEF S
  <2> QED BY <1>2, <2>1
<1>6. Tiles(Q, n)
  OBVIOUS
<1> HIDE DEF Q, R, S
<1>7. \A k \in 1 .. e + left : R[k] = Q[k]
  <2> SUFFICES ASSUME NEW k \in 1 .. e + left PROVE R[k] = Q[k]
    OBVIOUS
  <2>1. CASE k <= e
    BY <1>1, <1>3, <1>4, <2>1
  <2>2. CASE ~(k <= e)
    <3> DEFINE j == k - e
    <3>1. j \in 1 .. left /\ e + j = k /\ (Len(C) + 1) - (left + 1) + j = Len(C) - left + j
          /\ Len(C) - left + j \in 1 .. Len(C) /\ j \in 1 .. left + 1
      BY <1>1, <2>2
    <3> HIDE DEF j
    <3> QED BY <1>2, <1>3, <1>4, <3>1
  <2> QED BY <2>1, <2>2
<1>8. R[e + left + 1] = d
  <2>1. left + 1 \in 1 .. left + 1 /\ (Len(C) + 1) - (left + 1) + (left + 1) = Len(C) + 1
        /\ e + (left + 1) = e + left + 1
    BY <1>1
  <2> QED BY <1>2, <1>4, <2>1
<1>9. Tiles(R, n + d.count) /\ (InOrder(Q) => InOrder(R))
  <2> DEFINE m == e + left
  <2>1. m \in 0 .. Len(Q) /\ m = Len(Q) /\ Len(R) = Len(Q) + 1 /\ \A k \in m + 1 .. Len(Q) : R[k + 1] = Q[k]
    BY <1>1, <1>3, <1>4
  <2>2. R[m + 1] = d /\ \A k \in 1 .. m : R[k] = Q[k]
    BY <1>7, <1>8
  <2> HIDE DEF m
  <2>3. Tiles(R, n + d.count) /\ (m = Len(Q) /\ InOrder(Q) => InOrder(R))
    <3>1. Q \in Seq(Draw) /\ R \in Seq(Draw)
      BY <1>3, <1>4
    <3>2. OneMore(Q, R, m, d)
      BY <2>1, <2>2 DEF OneMore
    <3> QED BY <1>6, <3>1, <3>2, TilesWithOneMore
  <2> QED BY <2>1, <2>3
<1>10. /\ Tiles(S, n + d.count)
       /\ Ordered(Q) /\ (\A k \in 1 .. left : Ahead(d, C[Len(C) - left + k])) => Ordered(S)
  <2>1. e \in 0 .. Len(Q) /\ Len(S) = Len(Q) + 1 /\ S[e + 1] = d
    <3>1. e + 1 \in 1 .. e + 1
      BY <1>1
    <3> QED BY <1>1, <1>2, <1>3, <1>5, <3>1
  <2>2. \A k \in 1 .. e : S[k] = Q[k]
    <3>1. \A k \in 1 .. e : k \in 1 .. e + 1
      BY <1>1
    <3> QED BY <1>2, <1>3, <1>5, <3>1
  <2>3. \A k \in e + 1 .. Len(Q) : S[k + 1] = Q[k]
    <3> SUFFICES ASSUME NEW k \in e + 1 .. Len(Q) PROVE S[k + 1] = Q[k]
      OBVIOUS
    <3> DEFINE j == k - e
    <3>1. j \in 1 .. left /\ e + j = k /\ e + 1 + j = k + 1
      BY <1>1, <1>3
    <3> HIDE DEF j
    <3> QED BY <1>3, <1>5, <3>1
  <2>4. ASSUME NEW k \in e + 1 .. Len(Q) PROVE k - e \in 1 .. left /\ Q[k] = C[Len(C) - left + (k - e)]
    <3>1. k - e \in 1 .. left /\ e + (k - e) = k
      BY <1>1, <1>3
    <3> QED BY <1>3, <3>1
  <2> HIDE DEF e
  <2>5. Q \in Seq(Draw) /\ S \in Seq(Draw) /\ OneMore(Q, S, e, d)
    BY <1>3, <1>5, <2>1, <2>2, <2>3 DEF OneMore
  <2>6. Tiles(S, n + d.count)
    BY <1>6, <2>5, TilesWithOneMore
  <2>7. ASSUME Ordered(Q), \A k \in 1 .. left : Ahead(d, C[Len(C) - left + k]) PROVE Ordered(S)
    <3>1. \A k \in e + 1 .. Len(Q) : Ahead(d, Q[k])
      BY <2>4, <2>7
    <3> QED BY <1>6, <2>5, <2>7, <3>1, OrderedWithOneMore
  <2> QED BY <2>6, <2>7
<1> QED BY <1>9, <1>10 DEF Q, R, S, C2, E2

\* The draw of the next run: it fits the instance buffer.
LEMMA RunDraw ==
  ASSUME DrawInv, next <= Len(list)
  PROVE  LET r == RunEnd(next)
             taken == r - next + 1
             draw == [first |-> Len(instances) + 1, count |-> taken, state |-> StateOf(list[next])]
         IN  /\ r \in next .. Len(list) /\ taken \in Nat \ {0} /\ next + taken = r + 1
             /\ ~(Len(instances) + taken > capacity)
             /\ draw \in Draw /\ draw.first = next /\ draw.count = taken
             /\ Span(draw) = next .. r
             /\ \A j \in next .. r : StateOf(list[j]) = StateOf(list[next])
             /\ merging /\ r < Len(list) => StateOf(list[r + 1]) # StateOf(list[next])
<1> DEFINE r == RunEnd(next)
           taken == r - next + 1
           b == StateOf(list[next])
           draw == [first |-> Len(instances) + 1, count |-> taken, state |-> b]
<1>1. /\ IsDrawList(list) /\ Len(list) \in Nat /\ next \in 1 .. Len(list)
      /\ capacity \in Nat /\ Len(list) <= capacity /\ Len(instances) = next - 1
  BY ListTyped DEF DrawInv, DrawTypes
<1>2. /\ r \in next .. Len(list)
      /\ \A j \in next .. r : StateOf(list[j]) = b
      /\ merging /\ r < Len(list) => StateOf(list[r + 1]) # b
  BY <1>1, RunEnds
<1> HIDE DEF r
<1>3. b \in States
  BY <1>1, ListTyped
<1> HIDE DEF b
<1>4. taken \in Nat \ {0} /\ next + taken = r + 1 /\ ~(Len(instances) + taken > capacity)
      /\ Len(instances) + 1 = next
  BY <1>1, <1>2
<1>5. draw \in Draw
  <2>1. next \in Nat \ {0}
    BY <1>1
  <2> HIDE DEF taken
  <2> QED BY <1>3, <1>4, <2>1 DEF Draw
<1>6. draw.first = next /\ draw.count = taken
  BY <1>4
<1>7. Span(draw) = next .. r
  <2>1. next + taken - 1 = r
    BY <1>1, <1>2, <1>4
  <2> HIDE DEF draw, taken
  <2> QED BY <1>6, <2>1 DEF Span
<1> QED BY <1>2, <1>4, <1>5, <1>6, <1>7 DEF r, b

\* The instance buffer after the next n draws of the list.
Written(n) == instances \o [k \in 1 .. n |-> list[next + k - 1]]

\* The transforms of a run are written after those of the runs before it.
LEMMA RunWritten ==
  ASSUME DrawInv, next <= Len(list), NEW r \in next .. Len(list), NEW taken, taken = r - next + 1,
         NEW s, s = Written(taken)
  PROVE  s \in Seq(Item) /\ Len(s) = r /\ \A i \in 1 .. r : s[i] = list[i]
<1> DEFINE L == [k \in 1 .. taken |-> list[next + k - 1]]
<1>1. /\ IsDrawList(list) /\ Len(list) \in Nat /\ next \in 1 .. Len(list)
      /\ instances \in Seq(Item) /\ Len(instances) = next - 1
      /\ \A i \in 1 .. next - 1 : instances[i] = list[i]
  BY ListTyped DEF DrawInv, DrawTypes
<1>2. taken \in Nat /\ r \in Nat /\ (next - 1) + taken = r
  BY <1>1
<1>3. L \in [1 .. taken -> Item]
  <2>1. \A k \in 1 .. taken : list[next + k - 1] \in Item
    <3> SUFFICES ASSUME NEW k \in 1 .. taken PROVE list[next + k - 1] \in Item
      OBVIOUS
    <3>1. /\ k \in Nat /\ 1 <= k /\ k <= taken /\ next \in Nat /\ 1 <= next
          /\ r <= Len(list) /\ Len(list) \in Nat
      BY <1>1, <1>2
    <3>2. next + k - 1 \in 1 .. Len(list)
      BY <1>2, <3>1
    <3> QED BY <1>1, <3>2, ListTyped
  <2> QED BY <2>1
<1>4. \A k \in 1 .. taken : L[k] = list[next + k - 1]
  OBVIOUS
<1> HIDE DEF L
<1>5. L \in Seq(Item) /\ Len(L) = taken
  BY <1>2, <1>3
<1>6. /\ s \in Seq(Item) /\ Len(s) = (next - 1) + taken
      /\ \A i \in 1 .. (next - 1) + taken : s[i] = IF i <= next - 1 THEN instances[i] ELSE L[i - (next - 1)]
  <2>1. s = instances \o L
    BY DEF L, Written
  <2>2. /\ instances \o L \in Seq(Item) /\ Len(instances \o L) = Len(instances) + Len(L)
        /\ \A i \in 1 .. Len(instances) + Len(L) :
             (instances \o L)[i] = IF i <= Len(instances) THEN instances[i] ELSE L[i - Len(instances)]
    BY <1>1, <1>5, ConcatProperties
  <2> QED BY <1>1, <1>5, <2>1, <2>2
<1>7. ASSUME NEW i \in 1 .. r PROVE s[i] = list[i]
  <2>1. CASE i <= next - 1
    BY <1>1, <1>2, <1>6, <2>1
  <2>2. CASE ~(i <= next - 1)
    <3>1. i - (next - 1) \in 1 .. taken /\ next + (i - (next - 1)) - 1 = i
      BY <1>1, <1>2, <2>2
    <3>2. s[i] = L[i - (next - 1)]
      BY <1>2, <1>6, <2>2
    <3>3. L[i - (next - 1)] = list[next + (i - (next - 1)) - 1]
      BY <1>4, <3>1
    <3> QED BY <3>1, <3>2, <3>3
  <2> QED BY <2>1, <2>2
<1> QED BY <1>2, <1>6, <1>7

\* Recording a run.
LEMMA RecordRunKeeps ==
  ASSUME DrawInv, RecordRun
  PROVE  DrawInv'
<1> DEFINE r == RunEnd(next)
           taken == r - next + 1
           b == StateOf(list[next])
           flushed == FlushBefore(next)
           draw == [first |-> Len(instances) + 1, count |-> taken, state |-> b]
           deferred == indirect /\ Len(commands) < MaxCommands
           left == IF flushed = <<>> THEN pending ELSE 0
           E == executed \o flushed
           Q == Joined(E, commands, left)
<1>1. /\ recording /\ next <= Len(list)
      /\ bound' = b /\ next' = r + 1
      /\ UNCHANGED <<recording, merging, indirect, list, capacity>>
  BY DEF RecordRun
<1>2. /\ r \in next .. Len(list) /\ taken \in Nat \ {0} /\ next + taken = r + 1
      /\ ~(Len(instances) + taken > capacity)
      /\ draw \in Draw /\ draw.first = next /\ draw.count = taken
      /\ Span(draw) = next .. r
      /\ \A j \in next .. r : StateOf(list[j]) = b
      /\ merging /\ r < Len(list) => StateOf(list[r + 1]) # b
  BY <1>1, RunDraw
<1>3. /\ flushed \in Seq(Draw) /\ E \in Seq(Draw)
      /\ left \in 0 .. pending
      /\ merging => left = 0
      /\ \A k \in DOMAIN E : \A j \in Span(E[k]) : E[k].state = StateOf(list[j])
      /\ \A k \in 1 .. left : \A j \in Span(commands[Len(commands) - left + k]) : b = StateOf(list[j])
      /\ Tiles(Q, next) /\ Ordered(Q)
  BY <1>1, BeforeRun
<1>4. /\ instances' = instances \o [k \in 1 .. taken |-> list[next + k - 1]]
      /\ commands' = IF deferred THEN Append(commands, draw) ELSE commands
      /\ pending' = IF deferred THEN left + 1 ELSE left
      /\ executed' = executed \o flushed \o (IF deferred THEN <<>> ELSE <<draw>>)
  BY <1>2 DEF RecordRun
<1> HIDE DEF flushed, left, draw, taken, r, b
<1>5. /\ IsDrawList(list) /\ Len(list) \in Nat /\ next \in 1 .. Len(list) /\ next \in Nat \ {0} /\ r \in Nat
      /\ commands \in Seq(Draw) /\ Len(commands) \in Nat /\ Len(commands) < next
      /\ pending \in 0 .. Len(commands) /\ left \in 0 .. Len(commands) /\ left \in Nat
      /\ (~indirect => left = 0) /\ indirect \in BOOLEAN /\ MaxCommands \in Nat
      /\ capacity \in Nat /\ Len(list) <= capacity /\ recording \in BOOLEAN /\ merging \in BOOLEAN
  <2>1. /\ IsDrawList(list) /\ next \in 1 .. Len(list) + 1
        /\ commands \in Seq(Draw) /\ Len(commands) < next
        /\ pending \in 0 .. Len(commands) /\ (~indirect => pending = 0)
        /\ capacity \in Nat /\ Len(list) <= capacity /\ indirect \in BOOLEAN
        /\ recording \in BOOLEAN /\ merging \in BOOLEAN
    BY DEF DrawInv, DrawTypes
  <2>2. Len(list) \in Nat /\ Len(commands) \in Nat
    BY <2>1, ListTyped, LenProperties
  <2> QED BY <1>1, <1>2, <1>3, <2>1, <2>2, DrawAssumption
<1>6. \A j \in Span(draw) : draw.state = StateOf(list[j])
  BY <1>2 DEF draw, b
<1> DEFINE Moved ==
  /\ StatesRight' /\ WorkTiles'
  /\ commands' \in Seq(Draw) /\ executed' \in Seq(Draw)
  /\ Len(commands') <= Len(commands) + 1 /\ Len(commands') \in Nat
  /\ pending' \in 0 .. Len(commands') /\ (~indirect => pending' = 0)
<1>7. ASSUME deferred PROVE Moved
  <2> DEFINE C2 == Append(commands, draw)
  <2>1. commands' = C2 /\ pending' = left + 1 /\ executed' = E
    <3>1. executed' = E \o <<>>
      BY <1>4, <1>7
    <3> QED BY <1>3, <1>4, <1>7, <3>1, ConcatEmptySeq
  <2>2. /\ C2 \in Seq(Draw) /\ Len(C2) = Len(commands) + 1
        /\ \A k \in 1 .. Len(commands) : C2[k] = commands[k]
        /\ C2[Len(commands) + 1] = draw
    BY <1>2, <1>5, AppendProperties
  <2>3. Tiles(Joined(E, C2, left + 1), next + draw.count) /\ (InOrder(Q) => InOrder(Joined(E, C2, left + 1)))
    BY <1>2, <1>3, <1>5, EmitRun
  <2> HIDE DEF C2
  <2>4. Work' = Joined(E, C2, left + 1)
    BY <2>1 DEF Work
  <2>5. \A k \in 1 .. left + 1 : \A j \in Span(C2[(Len(commands) + 1) - (left + 1) + k]) : b = StateOf(list[j])
    <3> SUFFICES ASSUME NEW k \in 1 .. left + 1,
                        NEW j \in Span(C2[(Len(commands) + 1) - (left + 1) + k])
                 PROVE  b = StateOf(list[j])
      OBVIOUS
    <3>1. (Len(commands) + 1) - (left + 1) + k = Len(commands) - left + k
      BY <1>5
    <3>2. CASE k <= left
      <4>1. k \in 1 .. left /\ Len(commands) - left + k \in 1 .. Len(commands)
        BY <1>5, <3>2
      <4>2. C2[(Len(commands) + 1) - (left + 1) + k] = commands[Len(commands) - left + k]
        BY <2>2, <3>1, <4>1
      <4> QED BY <1>3, <4>1, <4>2
    <3>3. CASE ~(k <= left)
      <4>1. Len(commands) - left + k = Len(commands) + 1
        BY <1>5, <3>3
      <4>2. j \in Span(draw)
        BY <2>2, <3>1, <4>1
      <4> QED BY <1>2, <4>2
    <3> QED BY <3>2, <3>3
  <2>6. StatesRight'
    BY <1>1, <1>3, <2>1, <2>2, <2>5 DEF StatesRight
  <2>7. WorkTiles'
    <3>1. InOrder(Q)
      BY <1>3, <1>5, <1>7 DEF Ordered, InOrder, Ahead, deferred
    <3>2. InOrder(Work')
      BY <2>3, <2>4, <3>1
    <3>3. Ordered(Work)'
      BY <3>2 DEF Ordered, InOrder
    <3>4. Tiles(Work', next')
      BY <1>1, <1>2, <2>3, <2>4
    <3>5. ASSUME NEW q \in DOMAIN commands' PROVE commands'[q].first < next'
      <4>1. q \in 1 .. Len(commands) + 1
        BY <2>1, <2>2, <3>5, LenProperties
      <4>2. CASE q = Len(commands) + 1
        <5>1. commands'[q].first = next
          BY <1>2, <2>1, <2>2, <4>2
        <5> QED BY <1>1, <1>2, <1>5, <5>1
      <4>3. CASE q # Len(commands) + 1
        <5>1. q \in DOMAIN commands /\ commands'[q] = commands[q]
          <6>1. DOMAIN commands = 1 .. Len(commands) /\ Len(commands) \in Nat
            BY <1>5, LenProperties
          <6>2. q \in 1 .. Len(commands)
            BY <4>1, <4>3, <6>1
          <6> QED BY <2>1, <2>2, <6>1, <6>2
        <5>2. commands[q].first < next /\ commands[q].first \in Nat
          BY <1>5, <5>1, ElementOfSeq, DrawTyped DEF DrawInv, WorkTiles
        <5> QED BY <1>1, <1>2, <1>5, <5>1, <5>2
      <4> QED BY <4>2, <4>3
    <3> QED BY <3>3, <3>4, <3>5 DEF WorkTiles
  <2>8. /\ commands' \in Seq(Draw) /\ executed' \in Seq(Draw)
        /\ Len(commands') <= Len(commands) + 1 /\ Len(commands') \in Nat
        /\ pending' \in 0 .. Len(commands') /\ (~indirect => pending' = 0)
    BY <1>3, <1>5, <1>7, <2>1, <2>2
  <2> QED BY <2>6, <2>7, <2>8
<1>8. ASSUME ~deferred PROVE Moved
  <2> DEFINE E2 == Append(E, draw)
  <2>1. commands' = commands /\ pending' = left /\ executed' = E2
    <3>1. executed' = E \o <<draw>>
      BY <1>4, <1>8
    <3> QED BY <1>2, <1>3, <1>4, <1>8, <3>1, AppendIsConcat
  <2>2. /\ E2 \in Seq(Draw) /\ Len(E2) = Len(E) + 1 /\ DOMAIN E = 1 .. Len(E) /\ DOMAIN E2 = 1 .. Len(E) + 1
        /\ \A k \in 1 .. Len(E) : E2[k] = E[k]
        /\ E2[Len(E) + 1] = draw
    BY <1>2, <1>3, AppendProperties, LenProperties
  <2>3. Tiles(Joined(E2, commands, left), next + draw.count)
        /\ (Ordered(Q) /\ (\A k \in 1 .. left : Ahead(draw, commands[Len(commands) - left + k]))
              => Ordered(Joined(E2, commands, left)))
    BY <1>2, <1>3, <1>5, EmitRun
  <2> HIDE DEF E2
  <2>4. Work' = Joined(E2, commands, left)
    BY <2>1 DEF Work
  <2>5. \A k \in DOMAIN E2 : \A j \in Span(E2[k]) : E2[k].state = StateOf(list[j])
    <3> SUFFICES ASSUME NEW k \in 1 .. Len(E) + 1, NEW j \in Span(E2[k])
                 PROVE  E2[k].state = StateOf(list[j])
      BY <2>2
    <3>1. CASE k = Len(E) + 1
      BY <1>6, <2>2, <3>1
    <3>2. CASE k # Len(E) + 1
      <4>1. k \in 1 .. Len(E)
        BY <1>3, <3>2, LenProperties
      <4> QED BY <1>3, <2>2, <4>1
    <3> QED BY <3>1, <3>2
  <2>6. StatesRight'
    BY <1>1, <1>3, <2>1, <2>5 DEF StatesRight
  \* The commands left wait for the state of this run.
  <2>7. ASSUME NEW k \in 1 .. left PROVE Ahead(draw, commands[Len(commands) - left + k])
    <3> DEFINE c == Len(commands) - left + k
    <3>1. c \in DOMAIN commands /\ left # 0
      BY <1>5, LenProperties
    <3>2. indirect /\ ~merging /\ Len(commands) >= MaxCommands
      BY <1>3, <1>5, <1>8, <3>1 DEF deferred
    <3>3. Deferred(commands[c])
      BY <3>1 DEF Deferred
    <3>4. \A q \in DOMAIN commands : commands[q].first < next /\ commands[q].first \in Nat
      BY <1>5, ElementOfSeq, DrawTyped DEF DrawInv, WorkTiles
    <3>5. ~Deferred(draw)
      BY <1>2, <1>5, <3>4 DEF Deferred
    <3>6. StateOf(list[draw.first]) = StateOf(list[commands[c].first])
      <4>1. commands[c].first \in Nat \ {0} /\ commands[c].count \in Nat \ {0}
        BY <1>5, <3>1, ElementOfSeq, DrawTyped
      <4>2. commands[c].first \in Span(commands[c])
        BY <4>1 DEF Span
      <4>3. b = StateOf(list[commands[c].first])
        BY <1>3, <4>2
      <4>4. b = StateOf(list[draw.first])
        BY <1>2 DEF b
      <4> QED BY <4>3, <4>4
    <3> QED BY <3>2, <3>3, <3>5, <3>6 DEF Ahead
  <2>8. WorkTiles'
    <3>1. Ordered(Work')
      BY <1>3, <2>3, <2>4, <2>7
    <3>2. Ordered(Work)'
      BY <1>1, <2>1, <3>1 DEF Ordered, Ahead, Deferred
    <3>3. \A q \in DOMAIN commands : commands[q].first < next'
      <4>1. \A q \in DOMAIN commands : commands[q].first < next /\ commands[q].first \in Nat
        BY <1>5, ElementOfSeq, DrawTyped DEF DrawInv, WorkTiles
      <4> QED BY <1>1, <1>2, <1>5, <4>1
    <3>4. Tiles(Work', next')
      BY <1>1, <1>2, <2>3, <2>4
    <3> QED BY <2>1, <3>2, <3>3, <3>4 DEF WorkTiles
  <2>9. /\ commands' \in Seq(Draw) /\ executed' \in Seq(Draw)
        /\ Len(commands') <= Len(commands) + 1 /\ Len(commands') \in Nat
        /\ pending' \in 0 .. Len(commands') /\ (~indirect => pending' = 0)
    BY <1>3, <1>5, <2>1, <2>2
  <2> QED BY <2>6, <2>8, <2>9
<1> HIDE DEF Moved, deferred
<1>9. Moved
  BY <1>7, <1>8
<1>10. instances' \in Seq(Item) /\ Len(instances') = r /\ \A i \in 1 .. r : instances'[i] = list[i]
  <2>1. instances' = Written(taken)
    BY <1>4 DEF Written
  <2>2. taken = r - next + 1
    BY DEF taken
  <2> QED BY <1>1, <1>2, <2>1, <2>2, RunWritten
<1>11. DrawTypes'
  <2>1. /\ commands' \in Seq(Draw) /\ executed' \in Seq(Draw)
        /\ Len(commands') <= Len(commands) + 1 /\ Len(commands') \in Nat
        /\ pending' \in 0 .. Len(commands') /\ (~indirect => pending' = 0)
    BY <1>9 DEF Moved
  <2>2. /\ next' \in 1 .. Len(list) + 1 /\ next' - 1 = r /\ Len(commands') < next'
    BY <1>1, <1>2, <1>5, <2>1
  <2>3. IsDrawList(list')
    BY <1>1, <1>5
  <2> QED BY <1>1, <1>5, <1>10, <2>1, <2>2, <2>3 DEF DrawTypes
<1>12. BoundIsLast'
  <2>1. next' - 1 = r /\ StateOf(list[r]) = b
    BY <1>1, <1>2, <1>5
  <2>2. merging /\ r + 1 <= Len(list) => StateOf(list[r + 1]) # b
    BY <1>2, <1>5
  <2> QED BY <1>1, <2>1, <2>2 DEF BoundIsLast
<1> QED BY <1>9, <1>11, <1>12 DEF DrawInv, Moved

\* With no commands to come, the work is what has been executed.
LEMMA JoinedNone ==
  ASSUME NEW E \in Seq(Draw), NEW C
  PROVE  Joined(E, C, 0) = E
<1>1. [k \in 1 .. 0 |-> C[Len(C) - 0 + k]] = <<>>
  OBVIOUS
<1>2. Joined(E, C, 0) = E \o <<>>
  BY <1>1, Zenon DEF Joined
<1> QED BY <1>2, ConcatEmptySeq

\* Before anything is recorded there is nothing to share out.
LEMMA NothingDrawn ==
  /\ Tiles(Joined(<<>>, <<>>, 0), 1) /\ DOMAIN Joined(<<>>, <<>>, 0) = {}
  /\ IsDrawList(<<>>)
<1> DEFINE Q == Joined(<<>>, <<>>, 0)
<1>1. Q \in Seq(Draw) /\ DOMAIN Q = {}
  <2>1. <<>> \in Seq(Draw) /\ DOMAIN <<>> = {}
    OBVIOUS
  <2>2. Q = <<>>
    BY <2>1, JoinedNone
  <2> QED BY <2>1, <2>2
<1> HIDE DEF Q
<1>2. Tiles(Q, 1)
  BY <1>1 DEF Tiles
<1>3. IsDrawList(<<>>)
  BY DEF IsDrawList
<1> QED BY <1>1, <1>2, <1>3 DEF Q

\* Nothing is recorded at first.
LEMMA DrawInvInit == DrawInit => DrawInv
<1> SUFFICES ASSUME DrawInit PROVE DrawInv
  OBVIOUS
<1>1. /\ recording = FALSE /\ merging = FALSE /\ indirect = FALSE
      /\ list = <<>> /\ next = 1 /\ capacity = MinInstances /\ instances = <<>>
      /\ commands = <<>> /\ pending = 0 /\ executed = <<>>
  BY DEF DrawInit
<1>2. DrawTypes
  <2>1. capacity \in Nat /\ Len(<<>>) = 0 /\ 0 <= capacity
    BY <1>1, DrawAssumption
  <2>2. /\ <<>> \in Seq(Item) /\ <<>> \in Seq(Draw) /\ 0 \in 0 .. 0 /\ 1 \in 1 .. 0 + 1
        /\ 1 - 1 = 0 /\ 0 + 1 = 1 /\ 0 < 1
    OBVIOUS
  <2>3. \A i \in 1 .. 1 - 1 : FALSE
    OBVIOUS
  <2> QED BY <1>1, <2>1, <2>2, <2>3, NothingDrawn DEF DrawTypes
<1>3. BoundIsLast /\ StatesRight
  BY <1>1 DEF BoundIsLast, StatesRight
<1>4. WorkTiles
  BY <1>1, NothingDrawn DEF WorkTiles, Work, Ordered
<1> QED BY <1>2, <1>3, <1>4 DEF DrawInv

\* The recording starts with a list that fits the instance buffer.
LEMMA StartKeeps ==
  ASSUME Inv, DrawInv, StartFrame
  PROVE  DrawInv'
<1>1. PICK camera \in Cameras, limit \in Limits, forced \in ForcedShaders,
           culling \in BOOLEAN, merge \in BOOLEAN, indirectly \in BOOLEAN :
        StartRecording(Meshes, camera, culling, limit, forced, FrontToBack, merge, indirectly)
  BY DEF StartFrame
<1>2. /\ recording' = TRUE /\ merging' = merge /\ indirect' = indirectly
      /\ capacity' = NextCapacity(Len(Meshes), capacity)
      /\ list' \in Sorted(WithBuckets(Items(Meshes, camera, culling, limit, forced), FrontToBack))
      /\ next' = 1 /\ instances' = <<>> /\ commands' = <<>> /\ pending' = 0 /\ executed' = <<>>
  BY <1>1 DEF StartRecording
<1>3. Meshes \in Seq(Objects) /\ Len(Meshes) \in Nat
  BY MeshesTyped
<1>4. IsDrawList(list') /\ Len(list') \in Nat /\ Len(list') <= Len(Meshes)
  BY <1>2, <1>3, ListMade
<1>5. capacity' \in Nat /\ Len(list') <= capacity'
  <2>1. capacity \in Nat
    BY DEF DrawInv, DrawTypes
  <2>2. capacity' \in Nat /\ capacity' >= Len(Meshes)
    BY <1>2, <1>3, <2>1, NextCapacityFits
  <2> QED BY <1>3, <1>4, <2>2
<1>6. DrawTypes'
  BY <1>2, <1>4, <1>5 DEF DrawTypes
<1>7. BoundIsLast' /\ StatesRight'
  BY <1>2 DEF BoundIsLast, StatesRight
<1>8. WorkTiles'
  BY <1>2, NothingDrawn DEF WorkTiles, Work, Ordered
<1> QED BY <1>6, <1>7, <1>8 DEF DrawInv

\* The end of the list runs the commands that are left.
LEMMA EndRecordingKeeps ==
  ASSUME DrawInv, EndRecording
  PROVE  DrawInv'
<1> DEFINE E == executed \o Flushed
<1>1. /\ next > Len(list) /\ executed' = E /\ recording' = FALSE /\ pending' = 0
      /\ UNCHANGED <<merging, indirect, list, next, bound, capacity, instances, commands>>
  BY DEF EndRecording
<1>2. /\ E \in Seq(Draw)
      /\ \A k \in DOMAIN E : \A j \in Span(E[k]) : E[k].state = StateOf(list[j])
      /\ Tiles(Joined(E, commands, 0), next) /\ Ordered(Joined(E, commands, 0))
  BY Flushing
<1> HIDE DEF E
<1>3. DrawTypes /\ Len(list) \in Nat /\ Len(commands) \in Nat
  BY ListTyped, LenProperties DEF DrawInv, DrawTypes
<1>4. DrawTypes'
  <2>1. next = Len(list) + 1 /\ 0 \in 0 .. Len(commands)
    BY <1>1, <1>3 DEF DrawTypes
  <2>2. IsDrawList(list)' 
    BY <1>1, <1>3 DEF DrawTypes
  <2> QED BY <1>1, <1>2, <1>3, <2>1, <2>2 DEF DrawTypes
<1>5. BoundIsLast'
  BY <1>1 DEF DrawInv, BoundIsLast
<1>6. StatesRight'
  BY <1>1, <1>2 DEF StatesRight
<1>7. WorkTiles'
  <2>1. Ordered(Work')
    BY <1>1, <1>2 DEF Work
  <2>2. Ordered(Work)'
    BY <1>1, <2>1 DEF Ordered, Ahead, Deferred
  <2> QED BY <1>1, <1>2, <2>2 DEF DrawInv, WorkTiles, Work
<1> QED BY <1>4, <1>5, <1>6, <1>7 DEF DrawInv

\* The next frame starts from nothing.
LEMMA EndFrameKeeps ==
  ASSUME DrawInv, EndFrame
  PROVE  DrawInv'
<1>1. /\ recording' = FALSE /\ merging' = FALSE /\ indirect' = FALSE
      /\ list' = <<>> /\ next' = 1 /\ instances' = <<>>
      /\ commands' = <<>> /\ pending' = 0 /\ executed' = <<>> /\ capacity' = capacity
  BY DEF EndFrame
<1>2. capacity \in Nat
  BY DEF DrawInv, DrawTypes
<1>3. DrawTypes'
  <2>1. Len(<<>>) = 0 /\ 0 <= capacity
    BY <1>2
  <2>2. /\ <<>> \in Seq(Item) /\ <<>> \in Seq(Draw) /\ 0 \in 0 .. 0 /\ 1 \in 1 .. 0 + 1
        /\ 1 - 1 = 0 /\ 0 + 1 = 1 /\ 0 < 1
    OBVIOUS
  <2>3. \A i \in 1 .. 1 - 1 : FALSE
    OBVIOUS
  <2>4. IsDrawList(list')
    BY <1>1, NothingDrawn
  <2> QED BY <1>1, <1>2, <2>1, <2>2, <2>3, <2>4 DEF DrawTypes
<1>4. BoundIsLast' /\ StatesRight'
  BY <1>1 DEF BoundIsLast, StatesRight
<1>5. WorkTiles'
  BY <1>1, NothingDrawn DEF WorkTiles, Work, Ordered
<1> QED BY <1>3, <1>4, <1>5 DEF DrawInv

-----------------------------------------------------------------------------
(* The scene                                                                *)

\* The invariant of the scene.
SceneInv == Inv /\ DrawInv

\* It holds in every state.
LEMMA SceneInvAlways == SceneSpec => []SceneInv
<1>1. SceneInit => SceneInv
  BY InvInit, DrawInvInit DEF SceneInit, SceneInv
<1>2. SceneInv /\ [SceneNext]_sceneVars => SceneInv'
  <2> SUFFICES ASSUME SceneInv, [SceneNext]_sceneVars PROVE SceneInv'
    OBVIOUS
  <2>1. ASSUME UNCHANGED drawVars PROVE DrawInv'
    BY <2>1 DEF SceneInv, drawVars, DrawInv, DrawTypes, BoundIsLast, StatesRight, WorkTiles, Work, Ordered, Ahead, Deferred
  <2>2. ASSUME [Next]_vars PROVE Inv'
    BY <2>2, InvStep DEF SceneInv
  <2>3. CASE UNCHANGED sceneVars
    BY <2>1, <2>2, <2>3 DEF SceneInv, sceneVars
  <2>4. CASE ~recording /\ ~Recorded /\ Next /\ UNCHANGED drawVars
    BY <2>1, <2>2, <2>4 DEF SceneInv
  <2>5. CASE ~Recorded /\ StartFrame /\ UNCHANGED vars
    BY <2>2, <2>5, StartKeeps DEF SceneInv
  <2>6. CASE (RecordRun \/ EndRecording \/ EndFrame) /\ UNCHANGED vars
    BY <2>2, <2>6, RecordRunKeeps, EndRecordingKeeps, EndFrameKeeps DEF SceneInv
  <2> QED BY <2>3, <2>4, <2>5, <2>6 DEF SceneNext
<1> QED BY <1>1, <1>2, PTL DEF SceneSpec

\* When the list is recorded, the draws executed share out the instances, and each
\* instance is the draw of the list at its place.
LEMMA WhenRecorded ==
  ASSUME DrawInv, Recorded
  PROVE  /\ Len(list) \in Nat /\ next = Len(list) + 1
         /\ DOMAIN list = 1 .. Len(list) /\ DOMAIN instances = 1 .. Len(list)
         /\ Tiles(executed, Len(list) + 1) /\ Ordered(executed)
<1>1. /\ executed \in Seq(Draw) /\ commands \in Seq(Draw) /\ pending = 0 /\ next = Len(list) + 1
      /\ instances \in Seq(Item) /\ Len(instances) = next - 1 /\ IsDrawList(list)
  BY DEF DrawInv, DrawTypes, Recorded
<1>2. Len(list) \in Nat /\ DOMAIN list = 1 .. Len(list) /\ Len(executed) \in Nat
      /\ DOMAIN executed = 1 .. Len(executed) /\ Len(commands) \in Nat
  BY <1>1, ListTyped, LenProperties
<1>3. DOMAIN instances = 1 .. Len(list)
  <2>1. Len(instances) = Len(list)
    BY <1>1, <1>2
  <2> QED BY <1>1, <2>1, LenProperties
<1>4. Work = executed
  BY <1>1, JoinedNone DEF Work
<1> QED BY <1>1, <1>2, <1>3, <1>4 DEF DrawInv, WorkTiles

\* The instances of a draw are draws of the list.
LEMMA SpanInList ==
  ASSUME DrawInv, NEW k \in DOMAIN executed, NEW i \in Span(executed[k])
  PROVE  i \in 1 .. next - 1 /\ i \in DOMAIN instances /\ instances[i] = list[i]
<1>1. /\ executed \in Seq(Draw) /\ commands \in Seq(Draw) /\ pending \in 0 .. Len(commands)
      /\ instances \in Seq(Item) /\ Len(instances) = next - 1 /\ next \in Nat
      /\ \A n \in 1 .. next - 1 : instances[n] = list[n]
  BY ListTyped DEF DrawInv, DrawTypes
<1>2. /\ Len(executed) \in Nat /\ DOMAIN executed = 1 .. Len(executed) /\ Len(commands) \in Nat
      /\ DOMAIN instances = 1 .. next - 1
  BY <1>1, LenProperties
<1>3. executed[k].first \in Nat \ {0} /\ executed[k].count \in Nat \ {0}
  BY <1>1, ElementOfSeq, DrawTyped
<1>4. executed[k].first + executed[k].count <= next
  <2>1. /\ DOMAIN Work = 1 .. Len(executed) + pending
        /\ \A n \in 1 .. Len(executed) : Work[n] = executed[n]
    BY <1>1, JoinedAt DEF Work
  <2>2. k \in DOMAIN Work /\ Work[k] = executed[k]
    BY <1>1, <1>2, <2>1
  <2> QED BY <2>2 DEF DrawInv, WorkTiles, Tiles
<1>5. i \in 1 .. next - 1
  BY <1>1, <1>3, <1>4 DEF Span
<1> QED BY <1>1, <1>2, <1>5

\* EvanPlatform.hpp:329, "no mesh is ever dropped for lack of a transform slot": in
\* a recorded frame every draw of the list is in exactly one draw executed, which
\* reads its own transform, for any scene, capacity and number of commands.
THEOREM DrawnOnceAlways == SceneSpec => []DrawnOnce
<1>1. SceneInv => DrawnOnce
  <2> SUFFICES ASSUME DrawInv, Recorded
               PROVE  /\ \A k \in DOMAIN executed : \A i \in Span(executed[k]) :
                           i \in DOMAIN list /\ i \in DOMAIN instances /\ instances[i] = list[i]
                      /\ \A i \in DOMAIN list : Once(i, executed)
    BY DEF SceneInv, DrawnOnce, Once
  <2>1. /\ Len(list) \in Nat /\ next = Len(list) + 1 /\ DOMAIN list = 1 .. Len(list)
        /\ Tiles(executed, Len(list) + 1)
    BY WhenRecorded
  <2>2. (Len(list) + 1) - 1 = Len(list)
    BY <2>1
  <2>3. \A i \in DOMAIN list : Once(i, executed)
    BY <2>1, <2>2 DEF Tiles
  <2>4. \A k \in DOMAIN executed : \A i \in Span(executed[k]) :
          i \in DOMAIN list /\ i \in DOMAIN instances /\ instances[i] = list[i]
    BY <2>1, <2>2, SpanInList
  <2> QED BY <2>3, <2>4
<1> QED BY <1>1, SceneInvAlways, PTL

\* Renderer::recordCommandBuffer: a draw runs with the pipeline, material and
\* geometry of each of its meshes, drawn at once or deferred, for any scene.
THEOREM DrawnWithOwnStateAlways == SceneSpec => []DrawnWithOwnState
<1>1. SceneInv => DrawnWithOwnState
  <2> SUFFICES ASSUME DrawInv, NEW k \in DOMAIN executed, NEW j \in Span(executed[k])
               PROVE  executed[k].state = StateOf(instances[j])
    BY DEF SceneInv, DrawnWithOwnState
  <2>1. instances[j] = list[j]
    BY SpanInList
  <2>2. executed[k].state = StateOf(list[j])
    BY DEF DrawInv, StatesRight
  <2> QED BY <2>1, <2>2
<1> QED BY <1>1, SceneInvAlways, PTL

\* RenderSettings.hpp:176-178: as the GPU runs them no blended draw is before an
\* opaque one, nor before one behind it, and no opaque one is before another that is
\* nearer by more than the width of a bucket, for any scene, camera, number of
\* buckets and of commands; a draw that finds the command buffer full is only ever
\* ahead of draws of its own state.
THEOREM SceneDrawOrderAlways == SceneSpec => []SceneDrawOrder
<1>1. SceneInv => SceneDrawOrder
  <2> SUFFICES ASSUME DrawInv, Recorded,
                      NEW k \in DOMAIN executed, NEW l \in DOMAIN executed,
                      NEW i \in Span(executed[k]), NEW j \in Span(executed[l]),
                      DrawnBefore(k, i, l, j)
               PROVE  LET a == instances[i] b == instances[j]
                          known == {list[n].depth : n \in DOMAIN list} \ {UnknownDepth}
                          far == CHOOSE d \in known : \A e \in known : e <= d
                          near == CHOOSE d \in known : \A e \in known : d <= e
                      IN  /\ ~(a.blend /\ ~b.blend)
                          /\ ~Overtakes(executed[k], executed[l]) =>
                               /\ a.blend => a.depth >= b.depth
                               /\ (~b.blend /\ FrontToBack /\ a.depth > b.depth) =>
                                    far = near \/ (a.depth # UnknownDepth /\ (a.depth - b.depth) * Buckets <= far - near)
    BY DEF SceneInv, SceneDrawOrder, DrawOrder
  <2>1. /\ Len(list) \in Nat /\ next = Len(list) + 1 /\ DOMAIN list = 1 .. Len(list)
        /\ Ordered(executed)
    BY WhenRecorded
  <2>2. instances[i] = list[i] /\ instances[j] = list[j] /\ i \in 1 .. Len(list) /\ j \in 1 .. Len(list)
    <3>1. (Len(list) + 1) - 1 = Len(list)
      BY <2>1
    <3> QED BY <2>1, <3>1, SpanInList
  <2>3. IsDrawList(list)
    BY DEF DrawInv, DrawTypes
  <2>4. /\ executed[k].first \in Nat \ {0} /\ executed[k].count \in Nat \ {0}
        /\ executed[l].first \in Nat \ {0} /\ executed[l].count \in Nat \ {0}
    BY ElementOfSeq, DrawTyped DEF DrawInv, DrawTypes
  <2>5. CASE i < j
    BY <2>1, <2>2, <2>3, <2>5, ListInOrder DEF DepthsOf
  <2>6. CASE ~(i < j)
    <3>1. k < l
      BY <2>6 DEF DrawnBefore
    <3>2. ~(executed[k].first + executed[k].count <= executed[l].first)
      <4>1. i \in Nat /\ j \in Nat /\ i <= executed[k].first + executed[k].count - 1 /\ executed[l].first <= j
        BY <2>1, <2>2 DEF Span
      <4> QED BY <2>4, <2>6, <4>1
    <3>3. Ahead(executed[k], executed[l])
      BY <2>1, <3>1, <3>2 DEF Ordered
    <3>4. /\ executed[k].state = StateOf(list[executed[k].first])
          /\ executed[l].state = StateOf(list[executed[l].first])
      <4>1. executed[k].first \in Span(executed[k]) /\ executed[l].first \in Span(executed[l])
        BY <2>4 DEF Span
      <4> QED BY <4>1 DEF DrawInv, StatesRight
    <3>5. Overtakes(executed[k], executed[l])
      BY <3>3, <3>4 DEF Ahead, Overtakes
    <3>6. StateOf(list[i]) = StateOf(list[j])
      <4>1. executed[k].state = StateOf(list[i]) /\ executed[l].state = StateOf(list[j])
        BY DEF DrawInv, StatesRight
      <4> QED BY <3>5, <4>1 DEF Overtakes
    <3>7. list[i].blend = list[j].blend
      BY <3>6 DEF StateOf
    <3> QED BY <2>2, <3>5, <3>7
  <2> QED BY <2>5, <2>6
<1> QED BY <1>1, SceneInvAlways, PTL
==============================================================================
