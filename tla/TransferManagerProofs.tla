------------------------ MODULE TransferManagerProofs ------------------------
(***************************************************************************)
(* Proofs about TransferManager, for any data, sizes, alignment, staging   *)
(* size and number of fences: no byte the GPU has yet to copy is ever      *)
(* overwritten, and a wait ends only when nothing is left to copy.         *)
(***************************************************************************)
EXTENDS TransferManager, SequenceTheorems, TLAPS

SubmittedBatch == [fence : Fences, copies : SUBSET Copy]

\* The copy a staged upload records.
CopyOf(d, n) == [offset |-> offset, size |-> n, data |-> d, buffer |-> buffer]

\* Aligned sizes are no smaller.
LEMMA AlignUpBounds ==
  ASSUME NEW n \in Nat
  PROVE  AlignUp(n) \in Nat /\ n <= AlignUp(n)
<1> DEFINE a == Alignment
           m == n + a - 1
           q == m \div a
           r == m % a
<1>1. a \in Nat \ {0} /\ m \in Nat
  BY SizesAssumption
<1> HIDE DEF a, m
<1>2. q \in Nat /\ r \in 0 .. a - 1 /\ m = a * q + r
  BY <1>1
<1>3. q * a = a * q /\ q * a \in Nat
  BY <1>1, <1>2
<1> HIDE DEF q, r
<1>4. q * a = m - r
  BY <1>1, <1>2, <1>3
<1>5. n <= q * a
  BY <1>1, <1>2, <1>4 DEF m
<1>6. QED
  BY <1>3, <1>5 DEF AlignUp, a, m, q

-----------------------------------------------------------------------------
(* The inductive invariant.                                                *)
(*                                                                         *)
(* StagedDataIntact is kept by the next copy only because every copy that  *)
(* is outstanding lies below the offset, and by a rewind only because none *)
(* is outstanding then: hence the parts about the offset, the fences and   *)
(* what is recorded.                                                       *)

\* What an outstanding copy needs: its buffer, its bytes, and the offset beyond.
Staged(c) ==
  /\ c \in Copy
  /\ c.buffer = buffer
  /\ c.offset + c.size <= offset
  /\ \A b \in c.offset .. c.offset + c.size - 1 : b \in DOMAIN memory /\ memory[b] = c.data

AllStaged == \A c \in Outstanding : Staged(c)

\* Two batches the GPU has not completed have different fences.
FencesDistinct ==
  \A i, j \in DOMAIN queue : queue[i].fence = queue[j].fence => i = j

\* Copies are recorded in a command buffer that flush() will submit.
BatchRecorded == batch # {} => recording /\ dirty

\* A wait has submitted everything before it starts.
DrainFlushed == pc \in {"drain", "place"} => batch = {} /\ ~recording

\* An upload that waited has room.
PlaceHasRoom ==
  pc = "place" =>
    /\ call \in Uploads /\ AlignUp(call.size) <= size
    /\ offset = 0 /\ queue = <<>>

StagingInv ==
  /\ TypeOK
  /\ AllStaged
  /\ BatchesTracked /\ FencesDistinct
  /\ BatchRecorded /\ DrainFlushed /\ PlaceHasRoom

LEMMA StagingInvImplies == StagingInv => StagedDataIntact
BY DEF StagingInv, AllStaged, Staged, StagedDataIntact

LEMMA StagingInit == Init => StagingInv
<1> SUFFICES ASSUME Init
             PROVE  StagingInv
  OBVIOUS
<1>1. queue = <<>> /\ queue \in Seq(SubmittedBatch) /\ DOMAIN queue = {} /\ batch = {} /\ pc = "ready"
  BY EmptySeq DEF Init
<1>2. Outstanding = {}
  BY <1>1 DEF Outstanding
<1>3. memory \in [0 .. size - 1 -> Data \cup {NoData}] /\ size \in Nat /\ offset \in Nat /\ buffer \in Nat
  BY SizesAssumption DEF Init, Empty
<1>4. recording \in BOOLEAN /\ dirty \in BOOLEAN /\ pending \subseteq Fences /\ signaled \subseteq Fences
      /\ call \in Uploads \cup {WaitCall, DestroyCall}
  BY DEF Init
<1>5. TypeOK
  BY <1>1, <1>3, <1>4 DEF TypeOK, SubmittedBatch
<1>6. QED
  BY <1>1, <1>2, <1>5
  DEF StagingInv, AllStaged, BatchesTracked, FencesDistinct, BatchRecorded, DrainFlushed, PlaceHasRoom

-----------------------------------------------------------------------------
(* Submitting.                                                             *)

\* The copies of a queue with one more batch.
LEMMA CopiesOfAppend ==
  ASSUME queue \in Seq(SubmittedBatch), NEW x \in SubmittedBatch, queue' = Append(queue, x)
  PROVE  UNION {queue'[i].copies : i \in DOMAIN queue'}
           = (UNION {queue[i].copies : i \in DOMAIN queue}) \cup x.copies
<1>1. /\ Len(queue) \in Nat /\ DOMAIN queue = 1 .. Len(queue)
      /\ DOMAIN queue' = 1 .. Len(queue) + 1
      /\ \A i \in DOMAIN queue : queue'[i] = queue[i]
      /\ queue'[Len(queue) + 1] = x
  BY AppendProperties, LenProperties
<1>2. /\ DOMAIN queue' = DOMAIN queue \cup {Len(queue) + 1}
  BY <1>1
<1>3. QED
  BY <1>1, <1>2

\* flush() moves the copies from the command buffer to the queue, if it takes
\* them, under a fence that no other batch has.
LEMMA FlushKeeps ==
  ASSUME StagingInv, Flush, UNCHANGED <<size, offset, buffer, memory>>
  PROVE  /\ recording' \in BOOLEAN /\ dirty' \in BOOLEAN
         /\ pending' \subseteq Fences /\ signaled' \subseteq Fences
         /\ queue' \in Seq(SubmittedBatch)
         /\ Outstanding' \subseteq Outstanding
         /\ BatchesTracked' /\ FencesDistinct'
         /\ batch' = {} /\ ~recording'
<1>1. TypeOK /\ queue \in Seq(SubmittedBatch)
  BY DEF StagingInv, TypeOK, SubmittedBatch
<1>2. CASE recording /\ dirty
  <2>1. PICK f \in Fences \ pending :
          /\ pending' = pending \cup {f}
          /\ signaled' = signaled \ {f}
          /\ \/ queue' = Append(queue, [fence |-> f, copies |-> batch])
             \/ UNCHANGED queue
          /\ recording' = FALSE /\ dirty' = FALSE /\ batch' = {}
    BY <1>2 DEF Flush
  <2> DEFINE x == [fence |-> f, copies |-> batch]
  <2>2. x \in SubmittedBatch /\ x.fence = f /\ x.copies = batch
    BY <1>1 DEF TypeOK, SubmittedBatch
  <2>3. \A i \in DOMAIN queue : queue[i].fence \in pending \ signaled /\ queue[i].fence # f
    BY DEF StagingInv, BatchesTracked
  <2>4. CASE queue' = Append(queue, x)
    <3>1. /\ Len(queue) \in Nat /\ DOMAIN queue = 1 .. Len(queue)
          /\ queue' \in Seq(SubmittedBatch)
          /\ DOMAIN queue' = 1 .. Len(queue) + 1
          /\ \A i \in DOMAIN queue : queue'[i] = queue[i]
          /\ queue'[Len(queue) + 1] = x
      BY <1>1, <2>2, <2>4, AppendProperties, LenProperties
    <3>2. \A i \in DOMAIN queue' :
             \/ i \in DOMAIN queue /\ queue'[i] = queue[i]
             \/ i = Len(queue) + 1 /\ queue'[i] = x
      BY <3>1
    <3>3. BatchesTracked'
      BY <2>1, <2>2, <2>3, <3>2 DEF BatchesTracked
    <3>4. FencesDistinct'
      BY <2>2, <2>3, <3>2 DEF StagingInv, FencesDistinct
    <3>5. Outstanding' = Outstanding
      BY <1>1, <2>1, <2>2, <2>4, CopiesOfAppend DEF Outstanding
    <3>6. QED
      BY <1>1, <2>1, <3>1, <3>3, <3>4, <3>5 DEF TypeOK
  <2>5. CASE UNCHANGED queue
    <3>1. BatchesTracked' /\ FencesDistinct'
      BY <2>1, <2>3, <2>5 DEF StagingInv, BatchesTracked, FencesDistinct
    <3>2. Outstanding' \subseteq Outstanding
      BY <2>1, <2>5 DEF Outstanding
    <3>3. QED
      BY <1>1, <2>1, <2>5, <3>1, <3>2 DEF TypeOK
  <2>6. QED
    BY <2>1, <2>4, <2>5
<1>3. CASE ~(recording /\ dirty)
  <2>1. recording' = FALSE /\ UNCHANGED <<dirty, batch, pending, queue, signaled>>
    BY <1>3 DEF Flush
  <2>2. batch = {}
    BY <1>3 DEF StagingInv, BatchRecorded
  <2>3. BatchesTracked' /\ FencesDistinct'
    BY <2>1 DEF StagingInv, BatchesTracked, FencesDistinct
  <2>4. Outstanding' = Outstanding
    BY <2>1 DEF Outstanding
  <2>5. dirty' \in BOOLEAN /\ recording' \in BOOLEAN /\ ~recording'
    <3>1. dirty \in BOOLEAN /\ dirty' = dirty
      BY <1>1, <2>1 DEF TypeOK
    <3>2. QED
      BY <2>1, <3>1
  <2>6. pending' \subseteq Fences /\ signaled' \subseteq Fences /\ queue' \in Seq(SubmittedBatch)
    BY <1>1, <2>1 DEF TypeOK
  <2>7. QED
    BY <2>1, <2>2, <2>3, <2>4, <2>5, <2>6
<1>4. QED
  BY <1>2, <1>3

\* What a flush keeps, put together.
LEMMA StagingFlush ==
  ASSUME StagingInv, pc = "ready", Flush, UNCHANGED <<size, offset, buffer, memory>>,
         pc' \in {"ready", "drain"}, call' \in Uploads \cup {WaitCall, DestroyCall}
  PROVE  StagingInv'
<1>1. /\ recording' \in BOOLEAN /\ dirty' \in BOOLEAN
      /\ pending' \subseteq Fences /\ signaled' \subseteq Fences
      /\ queue' \in Seq(SubmittedBatch)
      /\ Outstanding' \subseteq Outstanding
      /\ BatchesTracked' /\ FencesDistinct'
      /\ batch' = {} /\ ~recording'
  BY FlushKeeps
<1>2. TypeOK'
  BY <1>1 DEF StagingInv, TypeOK, SubmittedBatch
<1>3. AllStaged'
  BY <1>1 DEF StagingInv, AllStaged, Staged
<1>4. BatchRecorded' /\ DrainFlushed' /\ PlaceHasRoom'
  BY <1>1 DEF BatchRecorded, DrainFlushed, PlaceHasRoom
<1>5. QED
  BY <1>1, <1>2, <1>3, <1>4 DEF StagingInv

-----------------------------------------------------------------------------
(* Recording.                                                              *)

\* Recycling drops only fences that signaled, and no queued batch has one.
LEMMA EnsureBeganKeeps ==
  ASSUME StagingInv, EnsureBegan, UNCHANGED <<queue, signaled>>
  PROVE  /\ pending' \subseteq Fences /\ recording' = TRUE
         /\ BatchesTracked' /\ FencesDistinct'
<1>1. pending' = pending \/ pending' = pending \ signaled
  BY DEF EnsureBegan, Recycled
<1>2. QED
  BY <1>1 DEF EnsureBegan, StagingInv, TypeOK, BatchesTracked, FencesDistinct

LEMMA StagingBarrier ==
  ASSUME StagingInv, NEW supported \in BOOLEAN, RecordBarrier(supported)
  PROVE  StagingInv'
<1>1. /\ pc = "ready" /\ EnsureBegan
      /\ dirty' = ((recording /\ dirty) \/ supported)
      /\ UNCHANGED <<pc, call, batch, size, offset, buffer, memory, queue, signaled>>
  BY DEF RecordBarrier
<1>2. /\ pending' \subseteq Fences /\ recording' = TRUE
      /\ BatchesTracked' /\ FencesDistinct'
  BY <1>1, EnsureBeganKeeps
<1>3. dirty' \in BOOLEAN
  BY <1>1
<1>4. TypeOK'
  BY <1>1, <1>2, <1>3 DEF StagingInv, TypeOK
<1>5. AllStaged'
  BY <1>1 DEF StagingInv, AllStaged, Staged, Outstanding
<1>6. BatchRecorded' /\ DrainFlushed' /\ PlaceHasRoom'
  BY <1>1, <1>2 DEF StagingInv, BatchRecorded, DrainFlushed, PlaceHasRoom
<1>7. QED
  BY <1>2, <1>4, <1>5, <1>6 DEF StagingInv

\* Staging an upload that has room: its bytes lie above those of every
\* outstanding copy and below the new offset.
LEMMA StagingPlace ==
  ASSUME StagingInv, NEW d \in Data, NEW n \in Sizes, Place(d, n),
         offset + AlignUp(n) <= size, pc' = "ready"
  PROVE  StagingInv'
<1>0. PICK c : c = CopyOf(d, n)
  OBVIOUS
<1>1. /\ EnsureBegan
      /\ memory' = [b \in DOMAIN memory |->
                      IF b >= offset /\ b < offset + n THEN d ELSE memory[b]]
      /\ batch' = batch \cup {c}
      /\ offset' = offset + AlignUp(n)
      /\ dirty' = TRUE
      /\ UNCHANGED <<call, size, buffer, queue, signaled>>
  BY <1>0 DEF Place, CopyOf
<1>2. /\ pending' \subseteq Fences /\ recording' = TRUE
      /\ BatchesTracked' /\ FencesDistinct'
  BY <1>1, EnsureBeganKeeps
<1>3. /\ n \in Nat \ {0} /\ AlignUp(n) \in Nat /\ n <= AlignUp(n)
      /\ offset \in Nat /\ size \in Nat /\ buffer \in Nat
      /\ memory \in [0 .. size - 1 -> Data \cup {NoData}]
  BY SizesAssumption, AlignUpBounds DEF StagingInv, TypeOK
<1>4. /\ c \in Copy
      /\ c.offset = offset /\ c.size = n /\ c.data = d /\ c.buffer = buffer
  BY <1>0, <1>3 DEF Copy, CopyOf
<1>5. memory' \in [0 .. size - 1 -> Data \cup {NoData}] /\ DOMAIN memory' = DOMAIN memory
  BY <1>1, <1>3
<1>6. TypeOK'
  BY <1>1, <1>2, <1>3, <1>4, <1>5 DEF StagingInv, TypeOK
<1>7. Outstanding' = Outstanding \cup {c}
  BY <1>1 DEF Outstanding
<1>8. ASSUME NEW x \in Outstanding
      PROVE  Staged(x)'
  <2>1. Staged(x)
    BY DEF StagingInv, AllStaged
  <2>2. x.offset \in Nat /\ x.size \in Nat /\ x.offset + x.size <= offset
    BY <2>1, SizesAssumption DEF Staged, Copy
  <2>3. x.offset + x.size <= offset'
    BY <1>1, <1>3, <2>2
  <2>4. ASSUME NEW b \in x.offset .. x.offset + x.size - 1
        PROVE  b \in DOMAIN memory' /\ memory'[b] = x.data
    <3>1. b \in DOMAIN memory /\ memory[b] = x.data
      BY <2>1 DEF Staged
    <3>2. b \in Nat /\ b < offset
      BY <1>3, <2>2
    <3>3. QED
      BY <1>1, <1>3, <3>1, <3>2
  <2>5. QED
    BY <1>1, <2>1, <2>3, <2>4 DEF Staged
<1>9. Staged(c)'
  <2>1. c.offset + c.size <= offset'
    BY <1>1, <1>3, <1>4
  <2>2. ASSUME NEW b \in c.offset .. c.offset + c.size - 1
        PROVE  b \in DOMAIN memory' /\ memory'[b] = c.data
    <3>1. b \in Nat /\ b >= offset /\ b < offset + n /\ b \in 0 .. size - 1
      BY <1>3, <1>4
    <3>2. QED
      BY <1>1, <1>3, <1>4, <3>1
  <2>3. QED
    BY <1>1, <1>4, <2>1, <2>2 DEF Staged
<1>10. AllStaged'
  BY <1>7, <1>8, <1>9 DEF AllStaged
<1>11. BatchRecorded' /\ DrainFlushed' /\ PlaceHasRoom'
  BY <1>1, <1>2 DEF BatchRecorded, DrainFlushed, PlaceHasRoom
<1>12. QED
  BY <1>2, <1>6, <1>10, <1>11 DEF StagingInv

-----------------------------------------------------------------------------
(* Waiting.                                                                *)

\* A batch in the queue is tracked and has not signaled, so that the wait for
\* every tracked fence leaves no batch in the queue.
LEMMA DrainedIsEmpty ==
  ASSUME StagingInv, Drained
  PROVE  queue = <<>> /\ batch = {} /\ ~recording /\ Outstanding = {}
<1>1. DOMAIN queue = {}
  BY DEF Drained, StagingInv, BatchesTracked
<1>2. queue = <<>>
  <2>1. queue \in Seq(SubmittedBatch)
    BY DEF StagingInv, TypeOK, SubmittedBatch
  <2>2. Len(queue) \in Nat /\ DOMAIN queue = 1 .. Len(queue)
    BY <2>1, LenProperties
  <2>3. QED
    BY <1>1, <2>1, <2>2, EmptySeq
<1>3. batch = {} /\ ~recording
  BY DEF Drained, StagingInv, DrainFlushed
<1>4. QED
  BY <1>1, <1>2, <1>3 DEF Outstanding

LEMMA StagingDrained ==
  ASSUME StagingInv, Drained
  PROVE  StagingInv'
<1>1. queue = <<>> /\ batch = {} /\ ~recording /\ Outstanding = {}
  BY DrainedIsEmpty
<1>2. /\ pending' = {} /\ offset' = 0 /\ pc' = AfterDrain
      /\ Grow
      /\ UNCHANGED <<call, recording, dirty, batch, queue, signaled>>
  BY DEF Drained
<1>3. call \in Uploads \cup {WaitCall, DestroyCall} /\ size \in Nat /\ buffer \in Nat
      /\ memory \in [0 .. size - 1 -> Data \cup {NoData}]
  BY DEF StagingInv, TypeOK
<1>4. /\ call.kind \in {"upload", "waitIdle", "destroy"}
      /\ call.kind = "upload" => call \in Uploads /\ call.size \in Nat /\ AlignUp(call.size) \in Nat
  <2>1. CASE call \in Uploads
    BY <2>1, SizesAssumption, AlignUpBounds DEF Uploads
  <2>2. CASE call \in {WaitCall, DestroyCall}
    BY <2>2 DEF WaitCall, DestroyCall
  <2>3. QED
    BY <1>3, <2>1, <2>2
<1>5. /\ pc' \in {"ready", "place", "destroyed"}
      /\ pc' = "place" => call.kind = "upload"
  BY <1>2, <1>4 DEF AfterDrain
<1>6. /\ size' \in Nat /\ buffer' \in Nat
      /\ memory' \in [0 .. size' - 1 -> Data \cup {NoData}]
      /\ call.kind = "upload" => AlignUp(call.size) <= size'
  BY <1>2, <1>3, <1>4 DEF Grow, Empty
<1>7. TypeOK'
  BY <1>2, <1>3, <1>5, <1>6 DEF StagingInv, TypeOK
<1>8. Outstanding' = {} /\ DOMAIN queue' = {}
  BY <1>1, <1>2 DEF Outstanding
<1>9. AllStaged' /\ BatchesTracked' /\ FencesDistinct'
  BY <1>8 DEF AllStaged, BatchesTracked, FencesDistinct
<1>10. BatchRecorded' /\ DrainFlushed'
  BY <1>1, <1>2 DEF BatchRecorded, DrainFlushed
<1>11. PlaceHasRoom'
  BY <1>1, <1>2, <1>4, <1>5, <1>6 DEF PlaceHasRoom
<1>12. QED
  BY <1>7, <1>9, <1>10, <1>11 DEF StagingInv

-----------------------------------------------------------------------------
(* The GPU.                                                                *)

LEMMA StagingExecute ==
  ASSUME StagingInv, ExecuteCopy
  PROVE  StagingInv'
<1>1. queue # <<>> /\ queue \in Seq(SubmittedBatch)
  BY DEF StagingInv, TypeOK, SubmittedBatch, ExecuteCopy
<1>2. PICK c \in Head(queue).copies :
        queue' = <<[Head(queue) EXCEPT !.copies = Head(queue).copies \ {c}]>> \o Tail(queue)
  BY DEF ExecuteCopy
<1> DEFINE x == [Head(queue) EXCEPT !.copies = Head(queue).copies \ {c}]
<1>3. /\ Head(queue) = queue[1] /\ 1 \in DOMAIN queue
      /\ Head(queue) \in SubmittedBatch
      /\ Tail(queue) \in Seq(SubmittedBatch) /\ Len(Tail(queue)) = Len(queue) - 1
      /\ \A i \in 1 .. Len(Tail(queue)) : Tail(queue)[i] = queue[i + 1]
      /\ Len(queue) \in Nat /\ DOMAIN queue = 1 .. Len(queue)
  BY <1>1, HeadTailProperties, LenProperties
<1>4. /\ x \in SubmittedBatch /\ x.fence = Head(queue).fence
      /\ x.copies \subseteq Head(queue).copies
  BY <1>3 DEF SubmittedBatch
<1> HIDE DEF x
<1>5. /\ queue' \in Seq(SubmittedBatch) /\ DOMAIN queue' = DOMAIN queue
      /\ queue'[1] = x
      /\ \A i \in DOMAIN queue : i # 1 => queue'[i] = queue[i]
  <2>1. queue' = <<x>> \o Tail(queue) /\ <<x>> \in Seq(SubmittedBatch) /\ Len(<<x>>) = 1
    BY <1>2, <1>4 DEF x
  <2>2. /\ queue' \in Seq(SubmittedBatch) /\ Len(queue') = Len(queue)
        /\ DOMAIN queue' = 1 .. Len(queue')
    BY <1>3, <2>1, ConcatProperties, LenProperties
  <2>3. QED
    BY <1>3, <2>1, <2>2
<1>6. \A i \in DOMAIN queue :
         /\ queue'[i].fence = queue[i].fence
         /\ queue'[i].copies \subseteq queue[i].copies
  BY <1>3, <1>4, <1>5
<1>7. UNCHANGED <<hostVars, signaled>>
  BY DEF ExecuteCopy
<1>8. Outstanding' \subseteq Outstanding
  BY <1>5, <1>6, <1>7 DEF Outstanding, hostVars
<1>9. TypeOK'
  BY <1>5, <1>7 DEF StagingInv, TypeOK, SubmittedBatch, hostVars
<1>10. AllStaged'
  BY <1>7, <1>8 DEF StagingInv, AllStaged, Staged, hostVars
<1>11. BatchesTracked' /\ FencesDistinct'
  BY <1>5, <1>6, <1>7 DEF StagingInv, BatchesTracked, FencesDistinct, hostVars
<1>12. BatchRecorded' /\ DrainFlushed' /\ PlaceHasRoom'
  <2>1. pc # "place"
    BY <1>1 DEF StagingInv, PlaceHasRoom
  <2>2. QED
    BY <1>7, <2>1 DEF StagingInv, BatchRecorded, DrainFlushed, PlaceHasRoom, hostVars
<1>13. QED
  BY <1>9, <1>10, <1>11, <1>12 DEF StagingInv

LEMMA StagingComplete ==
  ASSUME StagingInv, CompleteBatch
  PROVE  StagingInv'
<1>1. /\ queue # <<>> /\ queue \in Seq(SubmittedBatch)
      /\ queue' = Tail(queue) /\ signaled' = signaled \cup {Head(queue).fence}
      /\ UNCHANGED hostVars
  BY DEF StagingInv, TypeOK, SubmittedBatch, CompleteBatch
<1>2. /\ Head(queue) = queue[1] /\ 1 \in DOMAIN queue /\ Head(queue) \in SubmittedBatch
      /\ queue' \in Seq(SubmittedBatch) /\ Len(queue') = Len(queue) - 1
      /\ \A i \in 1 .. Len(queue') : queue'[i] = queue[i + 1]
      /\ Len(queue) \in Nat /\ DOMAIN queue = 1 .. Len(queue)
      /\ DOMAIN queue' = 1 .. Len(queue')
  BY <1>1, HeadTailProperties, LenProperties
<1>3. \A i \in DOMAIN queue' :
         i \in Nat /\ i + 1 \in DOMAIN queue /\ i + 1 # 1 /\ queue'[i] = queue[i + 1]
  BY <1>2
<1>4. Outstanding' \subseteq Outstanding
  BY <1>1, <1>3 DEF Outstanding, hostVars
<1>5. TypeOK'
  BY <1>1, <1>2 DEF StagingInv, TypeOK, SubmittedBatch, hostVars
<1>6. AllStaged'
  BY <1>1, <1>4 DEF StagingInv, AllStaged, Staged, hostVars
<1>7. BatchesTracked'
  <2> SUFFICES ASSUME NEW i \in DOMAIN queue'
               PROVE  queue[i + 1].fence \in pending \ (signaled \cup {queue[1].fence})
    BY <1>1, <1>2, <1>3 DEF BatchesTracked, hostVars
  <2>1. queue[i + 1].fence # queue[1].fence
    BY <1>2, <1>3 DEF StagingInv, FencesDistinct
  <2>2. QED
    BY <1>3, <2>1 DEF StagingInv, BatchesTracked
<1>8. FencesDistinct'
  <2> SUFFICES ASSUME NEW i \in DOMAIN queue', NEW j \in DOMAIN queue',
                      queue'[i].fence = queue'[j].fence
               PROVE  i = j
    BY DEF FencesDistinct
  <2>1. i + 1 = j + 1
    BY <1>3 DEF StagingInv, FencesDistinct
  <2>2. QED
    BY <1>3, <2>1
<1>9. BatchRecorded' /\ DrainFlushed' /\ PlaceHasRoom'
  <2>1. pc # "place"
    BY <1>1 DEF StagingInv, PlaceHasRoom
  <2>2. QED
    BY <1>1, <2>1 DEF StagingInv, BatchRecorded, DrainFlushed, PlaceHasRoom, hostVars
<1>10. QED
  BY <1>5, <1>6, <1>7, <1>8, <1>9 DEF StagingInv

-----------------------------------------------------------------------------
(* The theorems.                                                           *)

LEMMA StagingStep == StagingInv /\ [Next]_vars => StagingInv'
<1> SUFFICES ASSUME StagingInv, [Next]_vars
             PROVE  StagingInv'
  OBVIOUS
<1>1. CASE FlushCall
  BY <1>1, StagingFlush DEF FlushCall, StagingInv, TypeOK
<1>2. ASSUME NEW b \in BOOLEAN, RecordBarrier(b)
      PROVE  StagingInv'
  BY <1>2, StagingBarrier
<1>3. ASSUME NEW d \in Data, NEW n \in Sizes, Upload(d, n)
      PROVE  StagingInv'
  <2>1. CASE NoRoom(n)
    <3>1. [kind |-> "upload", data |-> d, size |-> n] \in Uploads
      BY DEF Uploads
    <3>2. pc = "ready" /\ StartDrain([kind |-> "upload", data |-> d, size |-> n])
      BY <1>3, <2>1 DEF Upload
    <3>3. QED
      BY <3>1, <3>2, StagingFlush DEF StartDrain
  <2>2. CASE ~NoRoom(n)
    <3>1. pc = "ready" /\ Place(d, n) /\ UNCHANGED pc
      BY <1>3, <2>2 DEF Upload
    <3>2. offset + AlignUp(n) <= size
      BY <2>2, SizesAssumption, AlignUpBounds DEF NoRoom, StagingInv, TypeOK
    <3>3. QED
      BY <3>1, <3>2, StagingPlace
  <2>3. QED
    BY <2>1, <2>2
<1>4. CASE WaitIdle \/ Destroy
  BY <1>4, StagingFlush DEF WaitIdle, Destroy, StartDrain
<1>5. CASE Drained
  BY <1>5, StagingDrained
<1>6. CASE PlaceAfterDrain
  <2>1. /\ pc = "place" /\ Place(call.data, call.size) /\ pc' = "ready"
    BY <1>6 DEF PlaceAfterDrain
  <2>2. call.data \in Data /\ call.size \in Sizes
    BY <2>1 DEF StagingInv, PlaceHasRoom, Uploads
  <2>3. offset + AlignUp(call.size) <= size
    <3>1. call.size \in Nat
      BY <2>2, SizesAssumption
    <3>2. AlignUp(call.size) \in Nat
      BY <3>1, AlignUpBounds
    <3>3. offset = 0 /\ AlignUp(call.size) <= size /\ size \in Nat
      BY <2>1 DEF StagingInv, PlaceHasRoom, TypeOK
    <3>4. QED
      BY <3>2, <3>3
  <2>4. QED
    BY <2>1, <2>2, <2>3, StagingPlace
<1>7. CASE Gpu
  BY <1>7, StagingExecute, StagingComplete DEF Gpu
<1>8. CASE UNCHANGED vars
  <2>1. UNCHANGED <<hostVars, queue, signaled>>
    BY <1>8 DEF vars
  <2>2. TypeOK' /\ AllStaged'
    BY <2>1 DEF StagingInv, TypeOK, AllStaged, Staged, Outstanding, hostVars
  <2>3. BatchesTracked' /\ FencesDistinct' /\ BatchRecorded' /\ DrainFlushed' /\ PlaceHasRoom'
    BY <2>1
    DEF StagingInv, BatchesTracked, FencesDistinct, BatchRecorded, DrainFlushed, PlaceHasRoom,
        hostVars
  <2>4. QED
    BY <2>2, <2>3 DEF StagingInv
<1>9. QED
  BY <1>1, <1>2, <1>3, <1>4, <1>5, <1>6, <1>7, <1>8 DEF Next, Host

\* Every variable keeps its type.
THEOREM TransferTyped == Spec => []TypeOK
<1>1. StagingInv => TypeOK
  BY DEF StagingInv
<1>2. QED
  BY StagingInit, StagingStep, <1>1, PTL DEF Spec

\* TransferManager.hpp:23: the staging memory is reused only once the GPU has
\* copied what was in it.
THEOREM StagedDataIntactAlways == Spec => []StagedDataIntact
<1>1. QED
  BY StagingInit, StagingStep, StagingInvImplies, PTL DEF Spec

\* A batch the GPU has not completed stays tracked.
THEOREM BatchesTrackedAlways == Spec => []BatchesTracked
<1>1. StagingInv => BatchesTracked
  BY DEF StagingInv
<1>2. QED
  BY StagingInit, StagingStep, <1>1, PTL DEF Spec

\* TransferManager.hpp:87: waitIdle returns with every batch completed.
THEOREM DrainMeansDoneAlways == Spec => DrainMeansDone
<1>1. ASSUME StagingInv, [Next]_vars
      PROVE  [pc = "drain" /\ pc' # "drain" => queue = <<>> /\ batch = {} /\ ~recording]_vars
  <2>1. CASE Drained
    BY <1>1, <2>1, DrainedIsEmpty
  <2>2. CASE ~Drained
    <3>1. pc = "drain" => pc' = "drain" \/ UNCHANGED vars
      BY <1>1, <2>2
      DEF Next, FlushCall, RecordBarrier, Upload, WaitIdle, Destroy, Host, PlaceAfterDrain, Gpu,
          ExecuteCopy, CompleteBatch, hostVars
    <3>2. QED
      BY <3>1
  <2>3. QED
    BY <2>1, <2>2
<1>2. QED
  BY StagingInit, StagingStep, <1>1, PTL DEF Spec, DrainMeansDone
=============================================================================
