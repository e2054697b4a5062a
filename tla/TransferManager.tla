--------------------------- MODULE TransferManager ---------------------------
(***************************************************************************)
(* The staging buffer of TransferManager: uploads copy host data into it   *)
(* and record a copy command that reads it later, when the GPU runs the    *)
(* batch.  Batches are submitted by flush() and tracked by a fence each;   *)
(* the buffer is filled front to back and rewound only by waitIdle().      *)
(*                                                                         *)
(* The manager runs on one thread; the GPU reads the staging memory while  *)
(* that thread goes on.  The copies of one batch run in any order, batches *)
(* in the order they were submitted.                                       *)
(***************************************************************************)
EXTENDS Naturals, Sequences, FiniteSets

CONSTANTS
  Data,         \* contents of an upload
  Sizes,        \* sizes of an upload, in bytes
  Alignment,    \* kStagingAlignment
  DefaultSize,  \* kDefaultStagingSize
  Fences,       \* bound: batches the manager tracks at once
  NoData

ASSUME SizesAssumption ==
  /\ Alignment \in Nat \ {0}
  /\ DefaultSize \in Nat
  /\ Sizes \subseteq Nat \ {0}
  /\ NoData \notin Data

VARIABLES
  pc,         \* where the manager's thread is; "ready" between two calls
  call,       \* the upload, wait or destruction it is in
  recording,  \* _recording
  dirty,      \* _dirty
  batch,      \* the copies recorded in _commandBuffer
  pending,    \* _pending: fences of submitted batches
  size,       \* _stagingSize
  offset,     \* _stagingOffset
  buffer,     \* which _stagingBuffer it is: the first, the second...
  memory,     \* what the mapped staging memory holds
  queue,      \* batches the GPU has not completed
  signaled    \* fences the GPU has signaled

hostVars == <<pc, call, recording, dirty, batch, pending, size, offset, buffer, memory>>
vars == <<hostVars, queue, signaled>>

Copy == [offset : Nat, size : Sizes, data : Data, buffer : Nat]
Uploads == [kind : {"upload"}, data : Data, size : Sizes]
WaitCall == [kind |-> "waitIdle"]
DestroyCall == [kind |-> "destroy"]

TypeOK ==
  /\ pc \in {"ready", "drain", "place", "destroyed"}
  /\ call \in Uploads \cup {WaitCall, DestroyCall}
  /\ recording \in BOOLEAN /\ dirty \in BOOLEAN
  /\ batch \subseteq Copy
  /\ pending \subseteq Fences
  /\ size \in Nat /\ offset \in Nat /\ buffer \in Nat
  /\ memory \in [0 .. size - 1 -> Data \cup {NoData}]
  /\ queue \in Seq([fence : Fences, copies : SUBSET Copy])
  /\ signaled \subseteq Fences

\* Mutant: sizes are rounded down.
AlignDown(n) == (n \div Alignment) * Alignment

\* alignUp(): to the next multiple of the alignment.
AlignUp(n) == ((n + Alignment - 1) \div Alignment) * Alignment

Empty(n) == [b \in 0 .. n - 1 |-> NoData]

Init ==
  /\ pc = "ready" /\ call = WaitCall
  /\ recording = FALSE /\ dirty = FALSE /\ batch = {} /\ pending = {}
  /\ size = DefaultSize /\ offset = 0 /\ buffer = 1 /\ memory = Empty(DefaultSize)
  /\ queue = <<>> /\ signaled = {}

-----------------------------------------------------------------------------
\* Mutant: every fence is dropped, signaled or not.
RecycleAll == {}

\* recycle(): drop the batches whose fence has signaled.
Recycled == pending \ signaled

\* ensureBegan(): start a command buffer if none is being recorded.
EnsureBegan ==
  /\ pending' = IF recording THEN pending ELSE Recycled
  /\ recording' = TRUE
  /\ recording \/ Recycled # Fences

\* flush(): submit what was recorded, under a new fence.  Whether the queue
\* took it is not looked at; a refused batch is tracked but never runs.
Flush ==
  IF recording /\ dirty
  THEN \E f \in Fences \ pending :
         /\ pending' = pending \cup {f}
         /\ signaled' = signaled \ {f}
         /\ \/ queue' = Append(queue, [fence |-> f, copies |-> batch])
            \/ UNCHANGED queue
         /\ recording' = FALSE /\ dirty' = FALSE /\ batch' = {}
  ELSE /\ recording' = FALSE
       /\ UNCHANGED <<dirty, batch, pending, queue, signaled>>

FlushCall ==
  /\ pc = "ready"
  /\ Flush
  /\ UNCHANGED <<pc, call, size, offset, buffer, memory>>

\* transitionImageLayout() and generateMipmaps() record commands that do not
\* read the staging buffer; an unsupported transition records none.
RecordBarrier(supported) ==
  /\ pc = "ready"
  /\ EnsureBegan
  /\ dirty' = ((recording /\ dirty) \/ supported)
  /\ UNCHANGED <<pc, call, batch, size, offset, buffer, memory, queue, signaled>>

NoRoom(n) == AlignUp(n) > size \/ offset + AlignUp(n) > size

\* Start waitIdle(), on its own or for an upload there is no room for.
StartDrain(c) ==
  /\ call' = c /\ pc' = "drain"
  /\ Flush
  /\ UNCHANGED <<size, offset, buffer, memory>>

\* Copy the data into the staging memory and record the copy command.
Place(d, n) ==
  /\ EnsureBegan
  /\ memory' = [b \in DOMAIN memory |-> IF b >= offset /\ b < offset + n THEN d ELSE memory[b]]
  /\ batch' = batch \cup {[offset |-> offset, size |-> n, data |-> d, buffer |-> buffer]}
  /\ offset' = offset + AlignUp(n)
  /\ dirty' = TRUE
  /\ UNCHANGED <<call, size, buffer, queue, signaled>>

\* uploadBuffer() and uploadBufferToImage() stage alike.
Upload(d, n) ==
  /\ pc = "ready"
  /\ \/ NoRoom(n) /\ StartDrain([kind |-> "upload", data |-> d, size |-> n])
     \/ ~NoRoom(n) /\ Place(d, n) /\ UNCHANGED pc

WaitIdle == pc = "ready" /\ StartDrain(WaitCall)
Destroy == pc = "ready" /\ StartDrain(DestroyCall)

AfterDrain ==
  CASE call.kind = "upload" -> "place"
    [] call.kind = "waitIdle" -> "ready"
    [] call.kind = "destroy" -> "destroyed"

\* Mutant: the larger buffer is not mapped.
GrowWithoutMap ==
  IF call.kind = "upload" /\ AlignUp(call.size) > size
  THEN size' = AlignUp(call.size) /\ buffer' = buffer + 1 /\ UNCHANGED memory
  ELSE UNCHANGED <<size, buffer, memory>>

\* createStagingBuffer(): a larger upload replaces the buffer.
Grow ==
  IF call.kind = "upload" /\ AlignUp(call.size) > size
  THEN /\ size' = AlignUp(call.size)
       /\ buffer' = buffer + 1
       /\ memory' = Empty(AlignUp(call.size))
  ELSE UNCHANGED <<size, buffer, memory>>

\* Mutants: waitIdle waits for any of the fences instead of all; it waits for a
\* fence when there is none.
DrainOne ==
  /\ pc = "drain" /\ (pending = {} \/ pending \cap signaled # {})
  /\ pending' = {} /\ offset' = 0
  /\ Grow
  /\ pc' = AfterDrain
  /\ UNCHANGED <<call, recording, dirty, batch, queue, signaled>>

DrainNeedsBatch ==
  /\ pc = "drain" /\ pending # {} /\ pending \subseteq signaled
  /\ pending' = {} /\ offset' = 0
  /\ Grow
  /\ pc' = AfterDrain
  /\ UNCHANGED <<call, recording, dirty, batch, queue, signaled>>

\* The rest of waitIdle(): every fence it tracks has signaled.
Drained ==
  /\ pc = "drain" /\ pending \subseteq signaled
  /\ pending' = {} /\ offset' = 0
  /\ Grow
  /\ pc' = AfterDrain
  /\ UNCHANGED <<call, recording, dirty, batch, queue, signaled>>

PlaceAfterDrain ==
  /\ pc = "place"
  /\ Place(call.data, call.size)
  /\ pc' = "ready"

-----------------------------------------------------------------------------
\* The GPU runs one copy of the first batch.
ExecuteCopy ==
  /\ queue # <<>>
  /\ \E c \in Head(queue).copies :
       queue' = <<[Head(queue) EXCEPT !.copies = @ \ {c}]>> \o Tail(queue)
  /\ UNCHANGED <<hostVars, signaled>>

\* All of them have run: the fence signals.
CompleteBatch ==
  /\ queue # <<>> /\ Head(queue).copies = {}
  /\ queue' = Tail(queue)
  /\ signaled' = signaled \cup {Head(queue).fence}
  /\ UNCHANGED hostVars

Gpu == ExecuteCopy \/ CompleteBatch
Host == Drained \/ PlaceAfterDrain

Next ==
  \/ FlushCall
  \/ \E b \in BOOLEAN : RecordBarrier(b)
  \/ \E d \in Data, n \in Sizes : Upload(d, n)
  \/ WaitIdle
  \/ Destroy
  \/ Host
  \/ Gpu

Spec == Init /\ [][Next]_vars
FairSpec == Spec /\ WF_vars(Gpu) /\ WF_vars(Host)

-----------------------------------------------------------------------------
\* Copies the GPU may still read the staging memory for.
Outstanding == batch \cup UNION {queue[i].copies : i \in DOMAIN queue}

\* TransferManager.hpp:23, "the staging ring is only reused once that fence has
\* signaled": whenever the GPU runs a copy, the buffer it names still exists and
\* holds, byte for byte, what the caller asked to upload.
StagedDataIntact ==
  \A c \in Outstanding :
    /\ c.buffer = buffer
    /\ \A b \in c.offset .. c.offset + c.size - 1 : b \in DOMAIN memory /\ memory[b] = c.data

\* A batch the GPU has not completed is tracked and its fence is not signaled, so
\* that neither its fence nor its command buffer is freed under it.
BatchesTracked ==
  \A i \in DOMAIN queue : queue[i].fence \in pending \ signaled

\* TransferManager.hpp:87, waitIdle "blocks until every submitted batch has
\* completed on the GPU", and no command is left behind unsubmitted.
DrainMeansDone ==
  [][pc = "drain" /\ pc' # "drain" => queue = <<>> /\ batch = {} /\ ~recording]_vars

\* A batch that the queue refused.
Refused == \E f \in pending \ signaled : \A i \in DOMAIN queue : queue[i].fence # f

\* waitIdle returns, unless the queue refused a batch.
DrainEnds == pc = "drain" ~> (pc # "drain" \/ Refused)
============================================================================
