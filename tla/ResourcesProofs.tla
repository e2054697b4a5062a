--------------------------- MODULE ResourcesProofs ---------------------------
(***************************************************************************)
(* For any materials, shaders, textures, objects and sizes of the pool:    *)
(* nothing is destroyed while an upload names it, the pool is counted      *)
(* exactly, frames bind what was made from what the provider holds, and    *)
(* nothing is left when the engine is closed.                              *)
(***************************************************************************)
EXTENDS Resources, FiniteSetTheorems, SequenceTheorems, TLAPS

\* The types, all but the count of the pool, which PoolExact gives.
Typed ==
  /\ known \subseteq Shaders /\ loaded \subseteq Textures /\ version \in Nat
  /\ boundShader \in [Materials -> Shaders \cup {NoShader}]
  /\ content \in [Materials -> Nat] /\ alpha \in [Materials -> BOOLEAN]
  /\ shaders \subseteq Shaders /\ textures \subseteq Textures
  /\ materials \in [Ids -> GPUMaterial \cup {NoGPUMaterial}]
  /\ synchronized \in BOOLEAN /\ syncedVersion \in 0 .. version
  /\ objects \in [Handles -> RenderObject \cup {NoObject}]
  /\ live \subseteq Memory /\ batch \subseteq Memory
  /\ submitted \in Seq(SUBSET Memory)
  /\ pc \in {"ready", "sync", "pass", "drain", "drop", "record", "release", "closed"}
  /\ call \in {"add", "update", "remove", "frame", "close"}
  /\ todo \subseteq Materials /\ old \subseteq Memory
  /\ item \in Ids \cup {Meshes, ProviderTextures, NoMaterial}

\* Which calls the thread can be in at each place, and what it waits for there.
Places ==
  /\ pc = "ready" => call # "close"
  /\ pc \in {"sync", "pass"} => call \in {"add", "update", "frame"}
  /\ pc = "record" => call = "frame"
  /\ pc = "drop" => call \in {"update", "remove"}
  /\ pc \in {"release", "closed"} => call = "close"
  /\ pc = "drain" =>
       /\ item # NoMaterial
       /\ item \in Materials /\ call # "close" => call \in {"add", "update", "frame"}
       /\ item \in Variants \cup {ProviderTextures} => call = "close"
       /\ item = Meshes => call \in {"update", "remove", "close"}

\* What waits to be dropped: the buffers an object call took out.
OldPlaces ==
  old # {} =>
    \/ call = "update" /\ pc \in {"sync", "pass", "drop", "drain"}
    \/ call = "remove" /\ pc \in {"drop", "drain"}
    \/ call = "close" /\ pc = "drain" /\ item = Meshes

\* An item that is being replaced or released has lost its sets already.
ItemHeld ==
  pc = "drain" /\ item \in Ids => Exists(item) /\ materials[item].sets = FALSE

\* Shaders go last, so that they tell what is still there.
ShadersLast ==
  /\ call # "close" => shaders # {}
  /\ shaders = {} => (\A id \in Ids : ~Exists(id)) /\ textures = {}
  /\ pc = "drain" /\ call = "close" /\ item # Meshes => shaders # {}
  /\ pc = "closed" => shaders = {} /\ \A h \in Handles : ~Held(h)

\* What has an owner: an image of a material, a buffer of an object or on its way
\* out, or the image of a texture.
Owned(x) ==
  \/ \E id \in Ids : Exists(id) /\ x = ImageOf(id, materials[id].turn)
  \/ \E h \in Handles : Held(h) /\ x \in BuffersOf(h, objects[h])
  \/ \E t \in textures : x = TextureImage(t)
  \/ x \in old

Owners ==
  /\ \A x \in live : Owned(x)
  /\ \A id \in Ids : Exists(id) => ImageOf(id, materials[id].turn) \in live
  /\ \A h \in Handles : Held(h) =>
       BuffersOf(h, objects[h]) \subseteq live /\ BuffersOf(h, objects[h]) \cap old = {}
  /\ \A x \in old : x.kind = "mesh"

\* Uploads name what exists, and none is pending when something is destroyed.
Pending ==
  /\ batch \subseteq live
  /\ \A i \in DOMAIN submitted : submitted[i] \subseteq live /\ submitted[i] # {}
  /\ pc = "drain" => batch = {}

UpToDate(m) == materials[m].uploaded = content[m] /\ materials[m].alpha = alpha[m]

\* A pass leaves the materials it has visited up to date.
Passes ==
  /\ \A m \in Materials : Exists(m) => IsLoaded(m)
  /\ Current => \A m \in Materials : Exists(m) => UpToDate(m)
  /\ pc = "pass" => ~Current /\ \A m \in Materials \ todo : Exists(m) => UpToDate(m)
  /\ pc = "drain" /\ call # "close" /\ item \in Materials =>
       ~Current /\ \A m \in Materials \ (todo \cup {item}) : Exists(m) => UpToDate(m)
  /\ pc = "record" => Current

\* From the start of a frame to its recording no mesh is uploaded.
MeshesSent == call = "frame" /\ pc # "ready" => \A x \in batch : x.kind # "mesh"

IInv ==
  /\ Typed /\ Places /\ OldPlaces /\ ItemHeld /\ ShadersLast /\ Owners /\ Pending
  /\ PoolExact /\ Passes /\ MeshesSent

-----------------------------------------------------------------------------
(* Names and types.                                                        *)

LEMMA Names ==
  /\ \A m \in Materials : m \in Ids /\ m \notin Variants
  /\ \A m \in Materials, s \in Shaders : <<m, s>> \in Ids /\ <<m, s>> \in Variants
  /\ \A id \in Ids : id # NoMaterial /\ id # Meshes /\ id # ProviderTextures
  /\ Meshes # ProviderTextures /\ NoMaterial # Meshes /\ NoMaterial # ProviderTextures
  /\ NoGPUMaterial \notin GPUMaterial
  /\ NoObject \notin RenderObject
BY ResourcesAssumption, NamesAssumption, NoObjectAssumption
   DEF Ids, Variants, NoGPUMaterial, GPUMaterial

\* What memory is called tells its owner.
LEMMA Memories ==
  /\ \A id \in Ids, turn \in Turns : ImageOf(id, turn) \in Memory /\ ImageOf(id, turn).kind = "material"
  /\ \A id1, id2, t1, t2 : ImageOf(id1, t1) = ImageOf(id2, t2) => id1 = id2 /\ t1 = t2
  /\ \A h \in Handles, o \in RenderObject :
       /\ BuffersOf(h, o) \subseteq Memory
       /\ \A x \in BuffersOf(h, o) : x.kind = "mesh" /\ x.owner = h /\ x.turn = o.turn
  /\ \A t \in Textures : TextureImage(t) \in Memory /\ TextureImage(t).kind = "texture"
<1>1. \A id \in Ids, turn \in Turns : ImageOf(id, turn) \in Memory /\ ImageOf(id, turn).kind = "material"
  BY DEF ImageOf, Memory
<1>2. \A id1, id2, t1, t2 : ImageOf(id1, t1) = ImageOf(id2, t2) => id1 = id2 /\ t1 = t2
  BY DEF ImageOf
<1>3. ASSUME NEW h \in Handles, NEW o \in RenderObject
      PROVE  /\ BuffersOf(h, o) \subseteq Memory
             /\ \A x \in BuffersOf(h, o) : x.kind = "mesh" /\ x.owner = h /\ x.turn = o.turn
  <2>1. o.turn \in Turns
    BY DEF RenderObject
  <2> QED BY <2>1 DEF BuffersOf, BufferOf, Memory
<1>4. \A t \in Textures : TextureImage(t) \in Memory /\ TextureImage(t).kind = "texture"
  BY DEF TextureImage, Memory, Turns
<1> QED BY <1>1, <1>2, <1>3, <1>4

\* A material that is there is a record of the device's.
LEMMA Existing ==
  ASSUME Typed, NEW id \in Ids
  PROVE  /\ Exists(id) <=> materials[id] \in GPUMaterial
         /\ Exists(id) => /\ materials[id].shader \in Shaders /\ materials[id].uploaded \in Nat
                          /\ materials[id].alpha \in BOOLEAN /\ materials[id].sets \in BOOLEAN
                          /\ materials[id].turn \in Turns /\ 1 - materials[id].turn \in Turns
<1>1. Exists(id) <=> materials[id] \in GPUMaterial
  BY Names DEF Typed, Exists
<1> QED BY <1>1 DEF GPUMaterial, Turns

LEMMA Holding ==
  ASSUME Typed, NEW h \in Handles
  PROVE  /\ Held(h) <=> objects[h] \in RenderObject
         /\ Held(h) => objects[h].turn \in Turns /\ 1 - objects[h].turn \in Turns
<1>1. Held(h) <=> objects[h] \in RenderObject
  BY Names DEF Typed, Held
<1> QED BY <1>1 DEF RenderObject, Turns

\* Flushing a batch keeps the queue a queue.
LEMMA SubmittedTyped ==
  ASSUME Typed
  PROVE  Submitted(batch) \in Seq(SUBSET Memory)
BY DEF Typed, Submitted

\* What the constructor and update() leave in _materials.
LEMMA NewTyped ==
  ASSUME Typed, NEW id \in Ids, NEW m \in Materials, NEW s \in Shaders, NEW turn \in Turns,
         NEW used, NEW uploads \in SUBSET Memory, NewMaterial(id, m, s, turn, used, uploads)
  PROVE  /\ materials' \in [Ids -> GPUMaterial \cup {NoGPUMaterial}]
         /\ batch' \subseteq Memory
         /\ materials'[id] \in GPUMaterial
         /\ materials'[id].shader = s /\ materials'[id].turn = turn
         /\ materials'[id].uploaded = content[m] /\ materials'[id].alpha = alpha[m]
         /\ materials'[id].sets = PoolHasRoom(used)
         /\ \A x \in Ids \ {id} : materials'[x] = materials[x]
<1> DEFINE new == [shader |-> s, uploaded |-> content[m], alpha |-> alpha[m],
                   sets |-> PoolHasRoom(used), turn |-> turn]
<1>1. PoolHasRoom(used) \in BOOLEAN
  BY DEF PoolHasRoom
<1>2. content[m] \in Nat /\ alpha[m] \in BOOLEAN
  BY DEF Typed
<1>3. new \in GPUMaterial
  BY <1>1, <1>2 DEF GPUMaterial
<1>4. materials' = [materials EXCEPT ![id] = new] /\ batch' = batch \cup uploads \cup {ImageOf(id, turn)}
  BY DEF NewMaterial
<1>5. batch' \subseteq Memory
  BY <1>4, Memories DEF Typed
<1>6. /\ new.shader = s /\ new.turn = turn /\ new.uploaded = content[m]
      /\ new.alpha = alpha[m] /\ new.sets = PoolHasRoom(used)
  OBVIOUS
<1> HIDE DEF new
<1>7. /\ materials' \in [Ids -> GPUMaterial \cup {NoGPUMaterial}] /\ materials'[id] = new
      /\ \A x \in Ids \ {id} : materials'[x] = materials[x]
  BY <1>3, <1>4 DEF Typed
<1> QED BY <1>3, <1>5, <1>6, <1>7

\* A material whose flags were changed, and nothing else of any material.
Flagged(id, a, sets) ==
  /\ materials' \in [Ids -> GPUMaterial \cup {NoGPUMaterial}]
  /\ materials'[id].alpha = a /\ materials'[id].sets = sets
  /\ \A x \in Ids \ {id} : materials'[x] = materials[x]
  /\ \A x \in Ids : materials'[x] # NoGPUMaterial <=> Exists(x)
  /\ \A x \in Ids : Exists(x) =>
       /\ materials'[x].turn = materials[x].turn
       /\ materials'[x].uploaded = materials[x].uploaded
       /\ materials'[x].shader = materials[x].shader

LEMMA FlagsTyped ==
  ASSUME Typed, NEW id \in Ids, Exists(id), NEW r \in GPUMaterial,
         materials' = [materials EXCEPT ![id] = r],
         r.shader = materials[id].shader, r.turn = materials[id].turn,
         r.uploaded = materials[id].uploaded
  PROVE  Flagged(id, r.alpha, r.sets)
<1>1. /\ materials' \in [Ids -> GPUMaterial \cup {NoGPUMaterial}] /\ materials'[id] = r
      /\ \A x \in Ids \ {id} : materials'[x] = materials[x]
  BY DEF Typed
<1>2. materials'[id] # NoGPUMaterial
  BY <1>1, Names
<1> QED BY <1>1, <1>2 DEF Exists, Flagged

LEMMA KeepFlags ==
  ASSUME Typed, NEW m \in Materials, KeepMaterial(m)
  PROVE  Flagged(m, alpha[m], materials[m].sets)
<1> DEFINE r == [materials[m] EXCEPT !.alpha = alpha[m]]
<1>1. Exists(m) /\ materials[m] \in GPUMaterial /\ alpha[m] \in BOOLEAN /\ m \in Ids
  BY Existing, Names DEF KeepMaterial, Typed
<1>2. /\ r \in GPUMaterial /\ r.shader = materials[m].shader
      /\ r.turn = materials[m].turn /\ r.uploaded = materials[m].uploaded
      /\ r.alpha = alpha[m] /\ r.sets = materials[m].sets
  BY <1>1 DEF GPUMaterial
<1>3. materials' = [materials EXCEPT ![m] = r]
  BY <1>1 DEF KeepMaterial, Typed
<1> HIDE DEF r
<1> QED BY <1>1, <1>2, <1>3, FlagsTyped

LEMMA UpdateFlags ==
  ASSUME Typed, NEW m \in Materials, StartUpdate(m)
  PROVE  Flagged(m, alpha[m], FALSE)
<1> DEFINE r == [materials[m] EXCEPT !.alpha = alpha[m], !.sets = FALSE]
<1>1. Exists(m) /\ materials[m] \in GPUMaterial /\ alpha[m] \in BOOLEAN /\ m \in Ids
  BY Existing, Names DEF StartUpdate, Typed
<1>2. /\ r \in GPUMaterial /\ r.shader = materials[m].shader
      /\ r.turn = materials[m].turn /\ r.uploaded = materials[m].uploaded
      /\ r.alpha = alpha[m] /\ r.sets = FALSE
  BY <1>1 DEF GPUMaterial
<1>3. materials' = [materials EXCEPT ![m] = r]
  BY <1>1 DEF StartUpdate, Typed
<1> HIDE DEF r
<1> QED BY <1>1, <1>2, <1>3, FlagsTyped

LEMMA ReleaseFlags ==
  ASSUME Typed, NEW id \in Ids, ReleaseMaterial(id)
  PROVE  Flagged(id, materials[id].alpha, FALSE)
<1> DEFINE r == [materials[id] EXCEPT !.sets = FALSE]
<1>1. Exists(id) /\ materials[id] \in GPUMaterial
  BY Existing DEF ReleaseMaterial
<1>2. /\ r \in GPUMaterial /\ r.shader = materials[id].shader
      /\ r.turn = materials[id].turn /\ r.uploaded = materials[id].uploaded
      /\ r.alpha = materials[id].alpha /\ r.sets = FALSE
  BY <1>1 DEF GPUMaterial
<1>3. materials' = [materials EXCEPT ![id] = r]
  BY <1>1 DEF ReleaseMaterial, Typed
<1> HIDE DEF r
<1> QED BY <1>1, <1>2, <1>3, FlagsTyped

\* Which material an object is drawn with, and what it is a record of.
LEMMA ToUse ==
  ASSUME Typed, NEW m \in Materials \cup {NoMaterial}, NEW s \in Shaders \cup {NoShader}
  PROVE  LET id == MaterialToUse(m, s) IN
           /\ id \in Ids \cup {NoMaterial}
           /\ id \in Variants => id \in Ids /\ m \in Materials /\ s \in Shaders
BY Names, ResourcesAssumption DEF MaterialToUse, Variants, Ids, Typed

LEMMA NewObject ==
  ASSUME NEW id \in Ids \cup {NoMaterial}, NEW empty \in BOOLEAN, NEW turn \in Turns
  PROVE  LET o == [material |-> id, empty |-> empty, turn |-> turn] IN
           /\ o \in RenderObject /\ o # NoObject
           /\ o.material = id /\ o.empty = empty /\ o.turn = turn
BY Names DEF RenderObject

LEMMA TypedInit == Init => Typed
<1> SUFFICES ASSUME Init PROVE Typed
  OBVIOUS
<1>1. /\ known \subseteq Shaders /\ loaded \subseteq Textures /\ version = 0 /\ syncedVersion = 0
      /\ shaders \subseteq Shaders /\ textures \subseteq Textures /\ synchronized \in BOOLEAN
      /\ live \subseteq Memory /\ batch \subseteq Memory /\ todo \subseteq Materials /\ old \subseteq Memory
  BY ResourcesAssumption DEF Init
<1>2. /\ boundShader \in [Materials -> Shaders \cup {NoShader}]
      /\ content \in [Materials -> Nat] /\ alpha \in [Materials -> BOOLEAN]
      /\ materials \in [Ids -> GPUMaterial \cup {NoGPUMaterial}]
      /\ objects \in [Handles -> RenderObject \cup {NoObject}]
  BY DEF Init
<1>3. submitted \in Seq(SUBSET Memory)
  BY DEF Init
<1>4. pc = "sync" /\ call = "add" /\ item = NoMaterial
  BY DEF Init
<1> QED BY <1>1, <1>2, <1>3, <1>4 DEF Typed

LEMMA TypedProvider == Typed /\ Provider => Typed'
<1> SUFFICES ASSUME Typed, Provider PROVE Typed'
  OBVIOUS
<1> USE DEF manager, device, thread
<1>1. CASE \E s \in Shaders : LoadShader(s)
  BY <1>1 DEF LoadShader, Changed, Typed
<1>2. CASE \E m \in Materials, s \in Shaders : LoadMaterial(m, s)
  BY <1>2 DEF LoadMaterial, Changed, Typed
<1>3. CASE \E t \in Textures : LoadTexture(t)
  BY <1>3 DEF LoadTexture, Changed, Typed
<1>4. CASE \E m \in Materials : EditTextures(m)
  BY <1>4 DEF EditTextures, Changed, Typed
<1>5. CASE \E m \in Materials : EditAlpha(m)
  BY <1>5 DEF EditAlpha, Changed, Typed
<1> QED BY <1>1, <1>2, <1>3, <1>4, <1>5 DEF Provider

LEMMA AfterSyncTyped == AfterSync \in {"record", "drop", "ready"}
BY DEF AfterSync

LEMMA TypedSync ==
  ASSUME Typed, ItemHeld, Sync
  PROVE  Typed'
<1> USE DEF provider, manager, device
<1>1. CASE SyncSkip
  BY <1>1, AfterSyncTyped DEF SyncSkip, Typed
<1>2. CASE SyncShaders
  BY <1>2 DEF SyncShaders, Typed
<1>3. CASE \E m \in Materials : SkipMaterial(m)
  BY <1>3 DEF SkipMaterial, Visit, Typed
<1>4. ASSUME NEW m \in Materials, CreateMaterial(m) PROVE Typed'
  <2>1. boundShader[m] \in Shaders /\ 0 \in Turns /\ m \in Ids
    BY <1>4, Names DEF CreateMaterial, Typed, Turns
  <2>2. NewMaterial(m, m, boundShader[m], 0, poolUsed, {})
    BY <1>4 DEF CreateMaterial
  <2>3. materials' \in [Ids -> GPUMaterial \cup {NoGPUMaterial}] /\ batch' \subseteq Memory
    BY <2>1, <2>2, NewTyped
  <2>4. live' \subseteq Memory
    BY <1>4, <2>1, Memories DEF CreateMaterial, Typed
  <2> QED BY <1>4, <2>3, <2>4 DEF CreateMaterial, Visit, Typed
<1>5. ASSUME NEW m \in Materials, KeepMaterial(m) PROVE Typed'
  <2>1. materials' \in [Ids -> GPUMaterial \cup {NoGPUMaterial}]
    BY <1>5, KeepFlags DEF Flagged
  <2> QED BY <1>5, <2>1 DEF KeepMaterial, Visit, Typed
<1>6. ASSUME NEW m \in Materials, StartUpdate(m) PROVE Typed'
  <2>1. materials' \in [Ids -> GPUMaterial \cup {NoGPUMaterial}] /\ m \in Ids
    BY <1>6, UpdateFlags, Names DEF Flagged
  <2> QED BY <1>6, <2>1, SubmittedTyped DEF StartUpdate, StartDrain, Visit, Typed
<1>7. CASE FinishUpdate
  <2> DEFINE turn == 1 - materials[item].turn
  <2>1. item \in Ids /\ materials[item].shader \in Shaders /\ turn \in Turns
    BY <1>7, Names, Existing DEF FinishUpdate, Drained, ItemHeld
  <2>2. NewMaterial(item, item, materials[item].shader, turn, poolUsed, {})
    BY <1>7 DEF FinishUpdate
  <2>3. materials' \in [Ids -> GPUMaterial \cup {NoGPUMaterial}] /\ batch' \subseteq Memory
    BY <1>7, <2>1, <2>2, NewTyped DEF FinishUpdate
  <2>4. live' \subseteq Memory
    BY <1>7, <2>1, Memories DEF FinishUpdate, Typed
  <2> QED BY <1>7, <2>3, <2>4 DEF FinishUpdate, Typed
<1>8. CASE SyncTextures
  <2>1. {TextureImage(t) : t \in loaded} \subseteq Memory
        /\ {TextureImage(t) : t \in loaded \ textures} \subseteq Memory
    BY Memories DEF Typed
  <2> QED BY <1>8, <2>1, AfterSyncTyped DEF SyncTextures, Typed
<1> QED BY <1>1, <1>2, <1>3, <1>4, <1>5, <1>6, <1>7, <1>8 DEF Sync

LEMMA TypedObjects ==
  ASSUME Typed, Objects
  PROVE  Typed'
<1> USE DEF provider, manager
<1>1. ASSUME NEW h \in Handles, NEW m \in Materials \cup {NoMaterial},
             NEW s \in Shaders \cup {NoShader}, NEW empty \in BOOLEAN, AddMesh(h, m, s, empty)
      PROVE  Typed'
  <2> DEFINE id == MaterialToUse(m, s)
             o == [material |-> id, empty |-> empty, turn |-> 0]
  <2>1. 0 \in Turns
    BY DEF Turns
  <2>2. o \in RenderObject /\ BuffersOf(h, o) \subseteq Memory
    BY <2>1, ToUse, NewObject, Memories
  <2>3. /\ materials' \in [Ids -> GPUMaterial \cup {NoGPUMaterial}]
        /\ batch' \subseteq Memory /\ live' \subseteq Memory
    <3>1. CASE id \in Variants /\ ~Exists(id)
      <4>1. id \in Ids /\ m \in Materials /\ s \in Shaders
        BY <3>1, ToUse
      <4>2. /\ NewMaterial(id, m, s, 0, poolUsed, BuffersOf(h, o))
            /\ live' = live \cup BuffersOf(h, o) \cup {ImageOf(id, 0)}
        BY <1>1, <3>1 DEF AddMesh
      <4> HIDE DEF id, o
      <4>3. live' \subseteq Memory
        BY <2>1, <2>2, <4>1, <4>2, Memories DEF Typed
      <4> QED BY <2>1, <2>2, <4>1, <4>2, <4>3, NewTyped
    <3>2. CASE ~(id \in Variants /\ ~Exists(id))
      <4>1. /\ live' = live \cup BuffersOf(h, o) /\ batch' = batch \cup BuffersOf(h, o)
            /\ UNCHANGED materials
        BY <1>1, <3>2 DEF AddMesh
      <4> HIDE DEF id, o
      <4> QED BY <2>2, <4>1 DEF Typed
    <3> QED BY <3>1, <3>2
  <2>4. objects' \in [Handles -> RenderObject \cup {NoObject}]
    <3>1. objects' = [objects EXCEPT ![h] = o]
      BY <1>1 DEF AddMesh
    <3> HIDE DEF o
    <3> QED BY <2>2, <3>1 DEF Typed
  <2> QED BY <1>1, <2>3, <2>4 DEF AddMesh, Typed
<1>2. ASSUME NEW h \in Handles, NEW m \in Materials \cup {NoMaterial}, NEW empty \in BOOLEAN,
             Rebuild(h, m, empty)
      PROVE  Typed'
  <2> DEFINE o == [material |-> m, empty |-> empty, turn |-> 1 - objects[h].turn]
  <2>1. objects[h] \in RenderObject /\ 1 - objects[h].turn \in Turns
    BY <1>2, Holding DEF Rebuild
  <2>2. o \in RenderObject
    BY <2>1, NewObject, Names
  <2>3. BuffersOf(h, o) \subseteq Memory /\ BuffersOf(h, objects[h]) \subseteq Memory
    BY <2>1, <2>2, Memories
  <2>4. /\ objects' = [objects EXCEPT ![h] = o] /\ live' = live \cup BuffersOf(h, o)
        /\ batch' = batch \cup BuffersOf(h, o) /\ old' = BuffersOf(h, objects[h])
    BY <1>2 DEF Rebuild
  <2> HIDE DEF o
  <2> QED BY <1>2, <2>2, <2>3, <2>4 DEF Rebuild, Typed
<1>3. ASSUME NEW h \in Handles, UpdateInPlace(h) \/ Remove(h) PROVE Typed'
  <2>1. BuffersOf(h, objects[h]) \subseteq Memory
    BY <1>3, Holding, Memories DEF UpdateInPlace, Remove
  <2> QED BY <1>3, <2>1 DEF UpdateInPlace, Remove, Typed
<1> QED BY <1>1, <1>2, <1>3 DEF Objects, CreateObject

\* The other steps of a call: waiting, dropping, frames and the close.
Others == DropOld \/ FinishDrop \/ DrawFrame \/ Record \/ Close \/ CompleteBatch

LEMMA TypedOthers ==
  ASSUME Typed, Others
  PROVE  Typed'
<1> USE DEF provider, manager, device, thread
<1>1. CASE DropOld
  BY <1>1, SubmittedTyped DEF DropOld, StartDrain, Typed
<1>2. CASE FinishDrop
  BY <1>2 DEF FinishDrop, Typed
<1>3. CASE DrawFrame
  BY <1>3, SubmittedTyped DEF DrawFrame, Typed
<1>4. CASE Record \/ Close
  BY <1>4 DEF Record, Close, Typed
<1>5. CASE CompleteBatch
  <2>1. submitted' \in Seq(SUBSET Memory)
    BY <1>5, HeadTailProperties DEF CompleteBatch, Typed
  <2> QED BY <1>5, <2>1 DEF CompleteBatch, Typed
<1> QED BY <1>1, <1>2, <1>3, <1>4, <1>5 DEF Others

LEMMA TypedTeardown ==
  ASSUME Typed, Teardown
  PROVE  Typed'
<1> USE DEF provider, manager, device, thread
<1>1. ASSUME NEW id \in Ids, ReleaseMaterial(id) PROVE Typed'
  <2>1. materials' \in [Ids -> GPUMaterial \cup {NoGPUMaterial}]
    BY <1>1, ReleaseFlags DEF Flagged
  <2> QED BY <1>1, <2>1, SubmittedTyped DEF ReleaseMaterial, StartDrain, Typed
<1>2. CASE FinishRelease
  BY <1>2 DEF FinishRelease, Typed
<1>3. CASE ReleaseTextures
  BY <1>3, SubmittedTyped DEF ReleaseTextures, StartDrain, Typed
<1>4. CASE FinishReleaseTextures
  BY <1>4 DEF FinishReleaseTextures, Typed
<1>5. CASE ReleaseShaders \/ Closed
  BY <1>5 DEF ReleaseShaders, Closed, Typed
<1>6. ASSUME NEW h \in Handles, ReleaseObject(h) PROVE Typed'
  <2>1. BuffersOf(h, objects[h]) \subseteq Memory
    BY <1>6, Holding, Memories DEF ReleaseObject
  <2> QED BY <1>6, <2>1, SubmittedTyped DEF ReleaseObject, StartDrain, Typed
<1> QED BY <1>1, <1>2, <1>3, <1>4, <1>5, <1>6 DEF Teardown

LEMMA TypedStep == IInv /\ Next => Typed'
BY TypedProvider, TypedSync, TypedObjects, TypedOthers, TypedTeardown DEF Next, Others, IInv

-----------------------------------------------------------------------------
(* Where the thread is.                                                    *)

LEMMA ProviderKeeps == Provider => UNCHANGED <<manager, device, thread>>
BY DEF Provider, LoadShader, LoadMaterial, LoadTexture, EditTextures, EditAlpha, Changed

\* An object call starts with the thread at rest, and leaves it syncing or dropping.
LEMMA ObjectsMove ==
  ASSUME Objects
  PROVE  /\ pc = "ready" /\ UNCHANGED <<provider, shaders, textures, synchronized, syncedVersion,
                                      submitted, todo, item>>
         /\ \/ pc' = "sync" /\ call' = "add" /\ UNCHANGED old
            \/ pc' = "sync" /\ call' = "update"
            \/ pc' = "drop" /\ call' = "remove"
<1>1. ASSUME NEW h, NEW m, NEW s, NEW empty, AddMesh(h, m, s, empty)
      PROVE  /\ pc = "ready" /\ UNCHANGED <<provider, shaders, textures, synchronized, syncedVersion,
                                           submitted, todo, item>>
             /\ pc' = "sync" /\ call' = "add" /\ UNCHANGED old
  BY <1>1 DEF AddMesh, provider
<1>2. ASSUME NEW h, NEW m, NEW empty, Rebuild(h, m, empty)
      PROVE  /\ pc = "ready" /\ UNCHANGED <<provider, shaders, textures, synchronized, syncedVersion,
                                           submitted, todo, item>>
             /\ pc' = "sync" /\ call' = "update"
  BY <1>2 DEF Rebuild, provider, manager
<1>3. ASSUME NEW h, UpdateInPlace(h) \/ Remove(h)
      PROVE  /\ pc = "ready" /\ UNCHANGED <<provider, shaders, textures, synchronized, syncedVersion,
                                           submitted, todo, item>>
             /\ \/ pc' = "sync" /\ call' = "add" /\ UNCHANGED old
                \/ pc' = "drop" /\ call' = "remove"
  BY <1>3 DEF UpdateInPlace, Remove, provider, manager
<1> QED BY <1>1, <1>2, <1>3 DEF Objects, CreateObject

LEMMA PlacesStep == IInv /\ Next => Places'
<1> SUFFICES ASSUME Typed, Places, OldPlaces, ShadersLast, Next PROVE Places'
  BY DEF IInv
<1> USE DEF manager, device, provider, thread
<1>1. CASE Provider
  BY <1>1, ProviderKeeps DEF Places
<1>2. CASE SyncSkip \/ SyncShaders \/ SyncTextures
  BY <1>2 DEF SyncSkip, SyncShaders, SyncTextures, AfterSync, Places
<1>3. ASSUME NEW m \in Materials, SkipMaterial(m) \/ CreateMaterial(m) \/ KeepMaterial(m) PROVE Places'
  BY <1>3 DEF SkipMaterial, CreateMaterial, KeepMaterial, Visit, Places
<1>4. ASSUME NEW m \in Materials, StartUpdate(m) PROVE Places'
  BY <1>4, Names DEF StartUpdate, StartDrain, Visit, Places
<1>5. CASE FinishUpdate
  BY <1>5 DEF FinishUpdate, Drained, Places
<1>6. CASE Objects
  <2>1. \/ pc' = "sync" /\ call' \in {"add", "update"}
        \/ pc' = "drop" /\ call' = "remove"
    BY <1>6, ObjectsMove
  <2> QED BY <2>1 DEF Places
<1>7. CASE DropOld
  <2>1. Meshes \notin Materials /\ Meshes \notin Variants \cup {ProviderTextures} /\ Meshes # NoMaterial
    BY NamesAssumption DEF Ids
  <2>2. pc' = "drain" /\ item' = Meshes /\ call' = call /\ call \in {"update", "remove"}
    BY <1>7 DEF DropOld, StartDrain, Places
  <2> QED BY <2>1, <2>2 DEF Places
<1>8. CASE FinishDrop
  BY <1>8 DEF FinishDrop, Drained, Places
<1>9. CASE DrawFrame \/ Record \/ Close \/ CompleteBatch
  BY <1>9 DEF DrawFrame, Record, Close, CompleteBatch, Places
<1>10. CASE Teardown
  <2>1. call = "close" /\ call' = "close"
    BY <1>10 DEF Teardown, ReleaseMaterial, FinishRelease, ReleaseTextures, FinishReleaseTextures,
         ReleaseShaders, ReleaseObject, Closed, Drained, Places
  <2>2. \/ pc' \in {"release", "closed"}
        \/ pc' = "drain" /\ item' \in Ids \cup {ProviderTextures, Meshes}
    BY <1>10 DEF Teardown, ReleaseMaterial, FinishRelease, ReleaseTextures, FinishReleaseTextures,
         ReleaseShaders, ReleaseObject, Closed, StartDrain
  <2>3. item' # NoMaterial \/ pc' # "drain"
    BY <2>2, Names, NamesAssumption
  <2> QED BY <2>1, <2>2, <2>3 DEF Places
<1> QED BY <1>1, <1>2, <1>3, <1>4, <1>5, <1>6, <1>7, <1>8, <1>9, <1>10 DEF Next, Sync

LEMMA OldPlacesStep == IInv /\ Next => OldPlaces'
<1> SUFFICES ASSUME Typed, Places, OldPlaces, Next PROVE OldPlaces'
  BY DEF IInv
<1> USE DEF manager, device, provider, thread
<1>1. CASE Provider
  BY <1>1, ProviderKeeps DEF OldPlaces
<1>2. CASE SyncSkip \/ SyncShaders \/ SyncTextures
  BY <1>2 DEF SyncSkip, SyncShaders, SyncTextures, AfterSync, OldPlaces
<1>3. ASSUME NEW m \in Materials,
             SkipMaterial(m) \/ CreateMaterial(m) \/ KeepMaterial(m) \/ StartUpdate(m)
      PROVE  OldPlaces'
  BY <1>3 DEF SkipMaterial, CreateMaterial, KeepMaterial, StartUpdate, StartDrain, Visit, OldPlaces
<1>4. CASE FinishUpdate
  BY <1>4 DEF FinishUpdate, Drained, Places, OldPlaces
<1>5. CASE Objects
  <2>1. pc = "ready" /\ old = {}
    BY <1>5, ObjectsMove DEF OldPlaces
  <2> QED BY <1>5, <2>1, ObjectsMove DEF OldPlaces
<1>6. CASE DropOld \/ FinishDrop
  BY <1>6 DEF DropOld, FinishDrop, StartDrain, OldPlaces, Places
<1>7. CASE DrawFrame \/ Record \/ Close \/ CompleteBatch
  BY <1>7 DEF DrawFrame, Record, Close, CompleteBatch, OldPlaces
<1>8. CASE Teardown
  <2>1. ASSUME NEW h \in Handles, ReleaseObject(h) PROVE OldPlaces'
    BY <2>1 DEF ReleaseObject, StartDrain, OldPlaces, Places
  <2>2. CASE FinishRelease \/ FinishReleaseTextures
    <3>1. item # Meshes /\ pc = "drain" /\ call = "close"
      BY <2>2, Names DEF FinishRelease, FinishReleaseTextures, Drained, Places
    <3> QED BY <2>2, <3>1 DEF FinishRelease, FinishReleaseTextures, OldPlaces
  <2>3. CASE ReleaseTextures \/ ReleaseShaders \/ Closed
    BY <2>3 DEF ReleaseTextures, ReleaseShaders, Closed, OldPlaces
  <2>4. CASE \E id \in Ids : ReleaseMaterial(id)
    BY <2>4 DEF ReleaseMaterial, OldPlaces
  <2> QED BY <1>8, <2>1, <2>2, <2>3, <2>4 DEF Teardown
<1> QED BY <1>1, <1>2, <1>3, <1>4, <1>5, <1>6, <1>7, <1>8 DEF Next, Sync

LEMMA ItemHeldStep == IInv /\ Next => ItemHeld'
<1> SUFFICES ASSUME Typed, Places, ItemHeld, Next PROVE ItemHeld'
  BY DEF IInv
<1> USE DEF manager, device, provider, thread
<1>1. ASSUME NEW m \in Materials, StartUpdate(m) PROVE ItemHeld'
  <2>1. m \in Ids /\ item' = m /\ Exists(m)
    BY <1>1, Names DEF StartUpdate
  <2>2. Flagged(m, alpha[m], FALSE)
    BY <1>1, UpdateFlags
  <2>3. materials'[m] # NoGPUMaterial /\ materials'[m].sets = FALSE
    BY <2>1, <2>2 DEF Flagged
  <2> QED BY <2>1, <2>3 DEF ItemHeld, Exists
<1>2. ASSUME NEW id \in Ids, ReleaseMaterial(id) PROVE ItemHeld'
  <2>1. item' = id /\ Exists(id)
    BY <1>2 DEF ReleaseMaterial
  <2>2. Flagged(id, materials[id].alpha, FALSE)
    BY <1>2, ReleaseFlags
  <2>3. materials'[id] # NoGPUMaterial /\ materials'[id].sets = FALSE
    BY <2>1, <2>2 DEF Flagged
  <2> QED BY <2>1, <2>3 DEF ItemHeld, Exists
<1>3. CASE CompleteBatch \/ Provider
  BY <1>3, ProviderKeeps DEF CompleteBatch, ItemHeld, Exists
<1>4. CASE pc' # "drain"
  BY <1>4 DEF ItemHeld
<1>5. CASE DropOld \/ ReleaseTextures \/ \E h \in Handles : ReleaseObject(h)
  <2>1. item' \in {Meshes, ProviderTextures}
    BY <1>5 DEF DropOld, ReleaseTextures, ReleaseObject
  <2> QED BY <2>1, Names DEF ItemHeld
<1>6. CASE SyncSkip \/ SyncShaders \/ SyncTextures \/ FinishUpdate \/ FinishDrop \/ DrawFrame \/ Record \/ Close
  <2>1. pc' # "drain"
    BY <1>6 DEF SyncSkip, SyncShaders, SyncTextures, FinishUpdate, FinishDrop, DrawFrame, Record,
         Close, AfterSync
  <2> QED BY <2>1 DEF ItemHeld
<1>7. ASSUME NEW m \in Materials, SkipMaterial(m) \/ CreateMaterial(m) \/ KeepMaterial(m)
      PROVE  pc' # "drain"
  BY <1>7 DEF SkipMaterial, CreateMaterial, KeepMaterial, Visit
<1>8. CASE Objects
  BY <1>8, ObjectsMove DEF ItemHeld
<1>9. CASE FinishRelease \/ FinishReleaseTextures \/ ReleaseShaders \/ Closed
  <2>1. pc' # "drain"
    BY <1>9 DEF FinishRelease, FinishReleaseTextures, ReleaseShaders, Closed
  <2> QED BY <2>1 DEF ItemHeld
<1> QED BY <1>1, <1>2, <1>3, <1>4, <1>5, <1>6, <1>7, <1>8, <1>9 DEF Next, Sync, Teardown

LEMMA ShadersLastStep == IInv /\ Next => ShadersLast'
<1> SUFFICES ASSUME Typed, Places, ItemHeld, ShadersLast, Next PROVE ShadersLast'
  BY DEF IInv
<1> USE DEF manager, device, provider, thread
\* Outside of the teardown there are shaders, and none goes.
<1>1. ASSUME call # "close", shaders \subseteq shaders', pc' # "closed" PROVE ShadersLast'
  <2>1. shaders' # {}
    BY <1>1 DEF ShadersLast
  <2> QED BY <1>1, <2>1 DEF ShadersLast
<1>2. CASE Provider
  <2>1. pc = "ready"
    BY <1>2 DEF Provider, LoadShader, LoadMaterial, LoadTexture, EditTextures, EditAlpha, Changed
  <2> QED BY <1>1, <1>2, <2>1, ProviderKeeps DEF Places
<1>3. CASE SyncSkip \/ SyncShaders \/ SyncTextures
  <2>1. call # "close" /\ shaders \subseteq shaders' /\ pc' # "closed"
    BY <1>3 DEF SyncSkip, SyncShaders, SyncTextures, AfterSync, Places
  <2> QED BY <1>1, <2>1
<1>4. ASSUME NEW m \in Materials,
             SkipMaterial(m) \/ CreateMaterial(m) \/ KeepMaterial(m) \/ StartUpdate(m)
      PROVE  ShadersLast'
  <2>1. call # "close" /\ shaders \subseteq shaders' /\ pc' # "closed"
    BY <1>4 DEF SkipMaterial, CreateMaterial, KeepMaterial, StartUpdate, StartDrain, Visit, Places
  <2> QED BY <1>1, <2>1
<1>5. CASE FinishUpdate
  BY <1>1, <1>5 DEF FinishUpdate
<1>6. CASE Objects
  BY <1>1, <1>6, ObjectsMove DEF Places
<1>7. CASE DropOld \/ DrawFrame \/ Record
  <2>1. call # "close" /\ shaders' = shaders /\ pc' # "closed"
    BY <1>7 DEF DropOld, StartDrain, DrawFrame, Record, Places
  <2> QED BY <1>1, <2>1
<1>8. CASE Close \/ FinishDrop
  BY <1>8 DEF Close, FinishDrop, ShadersLast, Places, Exists
<1>9. CASE CompleteBatch
  BY <1>9 DEF CompleteBatch, ShadersLast, Exists, Held
<1>10. ASSUME NEW id \in Ids, ReleaseMaterial(id) PROVE ShadersLast'
  <2>1. shaders # {}
    BY <1>10 DEF ReleaseMaterial, ShadersLast
  <2> QED BY <1>10, <2>1 DEF ReleaseMaterial, StartDrain, ShadersLast
<1>11. CASE FinishRelease \/ ReleaseTextures \/ FinishReleaseTextures
  <2>1. shaders # {}
    BY <1>11, Names DEF FinishRelease, ReleaseTextures, FinishReleaseTextures, Drained, ShadersLast, Places
  <2>2. shaders' = shaders /\ pc' # "closed"
    BY <1>11 DEF FinishRelease, ReleaseTextures, FinishReleaseTextures, StartDrain
  <2> QED BY <2>1, <2>2 DEF ShadersLast
<1>12. CASE ReleaseShaders \/ Closed
  BY <1>12 DEF ReleaseShaders, Closed, ShadersLast, Places, Exists, Held
<1>13. ASSUME NEW h \in Handles, ReleaseObject(h) PROVE ShadersLast'
  BY <1>13 DEF ReleaseObject, StartDrain, ShadersLast, Places, Exists
<1> QED BY <1>2, <1>3, <1>4, <1>5, <1>6, <1>7, <1>8, <1>9, <1>10, <1>11, <1>12, <1>13
        DEF Next, Sync, Teardown

-----------------------------------------------------------------------------
(* What exists has an owner.                                               *)

\* A step that makes and destroys nothing, and changes no owner.
LEMMA OwnersSame ==
  ASSUME Owners, UNCHANGED <<live, objects, old, textures>>,
         \A id \in Ids : /\ materials'[id] # NoGPUMaterial <=> Exists(id)
                         /\ Exists(id) => materials'[id].turn = materials[id].turn
  PROVE  Owners'
<1>1. ASSUME NEW x \in live PROVE Owned(x)'
  <2>1. Owned(x)
    BY DEF Owners
  <2> QED BY <2>1 DEF Owned, Exists, Held
<1>2. \A id \in Ids : Exists(id)' => ImageOf(id, materials'[id].turn) \in live
  BY DEF Owners, Exists
<1> QED BY <1>1, <1>2 DEF Owners, Held

\* An object is taken out, and what it had waits to be destroyed.
LEMMA OwnersTake ==
  ASSUME Typed, Owners, old = {}, NEW h \in Handles, Held(h),
         objects' = [objects EXCEPT ![h] = NoObject], old' = BuffersOf(h, objects[h]),
         UNCHANGED <<live, materials, textures>>
  PROVE  Owners'
<1>1. /\ ~Held(h)' /\ \A g \in Handles \ {h} : objects'[g] = objects[g]
  BY DEF Typed, Held
<1>2. objects[h] \in RenderObject /\ \A x \in old' : x.kind = "mesh" /\ x.owner = h
  BY Holding, Memories
<1>3. ASSUME NEW x \in live PROVE Owned(x)'
  <2>1. Owned(x)
    BY DEF Owners
  <2>2. ASSUME NEW g \in Handles, Held(g), x \in BuffersOf(g, objects[g]) PROVE Owned(x)'
    <3>1. CASE g = h
      BY <2>2, <3>1 DEF Owned
    <3>2. CASE g # h
      BY <1>1, <2>2, <3>2 DEF Owned, Held
    <3> QED BY <3>1, <3>2
  <2> QED BY <2>1, <2>2 DEF Owned, Exists
<1>4. ASSUME NEW g \in Handles, Held(g)'
      PROVE  BuffersOf(g, objects'[g]) \subseteq live /\ BuffersOf(g, objects'[g]) \cap old' = {}
  <2>1. g # h /\ objects'[g] = objects[g] /\ Held(g)
    BY <1>1, <1>4 DEF Held
  <2>2. \A x \in BuffersOf(g, objects[g]) : x.owner = g
    BY <2>1, Holding, Memories
  <2> QED BY <1>2, <2>1, <2>2 DEF Owners
<1> QED BY <1>2, <1>3, <1>4 DEF Owners, Exists

\* A new object, with a new material or not; another that had the handle leaves
\* its buffers behind.
LEMMA OwnersPut ==
  ASSUME Typed, Owners, old = {}, NEW h \in Handles, NEW o \in RenderObject, o # NoObject,
         objects' = [objects EXCEPT ![h] = o],
         IF Held(h) THEN old' = BuffersOf(h, objects[h]) /\ o.turn # objects[h].turn ELSE old' = {},
         live \cup BuffersOf(h, o) \subseteq live', UNCHANGED textures,
         \A id \in Ids : Exists(id) => materials'[id] = materials[id],
         \A id \in Ids : Exists(id)' /\ ~Exists(id) => ImageOf(id, materials'[id].turn) \in live',
         \A x \in live' : \/ x \in live \/ x \in BuffersOf(h, o)
                          \/ \E id \in Ids : Exists(id)' /\ x = ImageOf(id, materials'[id].turn)
  PROVE  Owners'
<1>1. /\ Held(h)' /\ objects'[h] = o /\ \A g \in Handles \ {h} : objects'[g] = objects[g]
  BY DEF Typed, Held
<1>2. \A x \in old' : x.kind = "mesh" /\ x.owner = h /\ Held(h) /\ x.turn = objects[h].turn
  BY Holding, Memories
<1>3. \A x \in BuffersOf(h, o) : x.kind = "mesh" /\ x.owner = h /\ x.turn = o.turn
  BY Memories
<1>4. ASSUME NEW x \in live' PROVE Owned(x)'
  <2>1. CASE x \in BuffersOf(h, o)
    BY <1>1, <2>1 DEF Owned
  <2>2. CASE x \in live
    <3>1. Owned(x)
      BY <2>2 DEF Owners
    <3>2. ASSUME NEW g \in Handles, Held(g), x \in BuffersOf(g, objects[g]) PROVE Owned(x)'
      <4>1. CASE g = h
        BY <3>2, <4>1 DEF Owned
      <4>2. CASE g # h
        BY <1>1, <3>2, <4>2 DEF Owned, Held
      <4> QED BY <4>1, <4>2
    <3> QED BY <3>1, <3>2 DEF Owned, Exists
  <2>3. CASE \E id \in Ids : Exists(id)' /\ x = ImageOf(id, materials'[id].turn)
    BY <2>3 DEF Owned
  <2> QED BY <2>1, <2>2, <2>3
<1>5. ASSUME NEW g \in Handles, Held(g)'
      PROVE  BuffersOf(g, objects'[g]) \subseteq live' /\ BuffersOf(g, objects'[g]) \cap old' = {}
  <2>1. CASE g = h
    BY <1>1, <1>2, <1>3, <2>1
  <2>2. CASE g # h
    <3>1. objects'[g] = objects[g] /\ Held(g)
      BY <1>1, <1>5, <2>2 DEF Held
    <3>2. \A x \in BuffersOf(g, objects[g]) : x.owner = g
      BY <3>1, Holding, Memories
    <3> QED BY <1>2, <2>2, <3>1, <3>2 DEF Owners
  <2> QED BY <2>1, <2>2
<1>6. \A id \in Ids : Exists(id)' => ImageOf(id, materials'[id].turn) \in live'
  BY DEF Owners
<1> QED BY <1>2, <1>4, <1>5, <1>6 DEF Owners

\* A material is made, or its image replaced by the other turn of it.
LEMMA OwnersMake ==
  ASSUME Typed, Owners, NEW m \in Ids, NEW r \in GPUMaterial,
         materials' = [materials EXCEPT ![m] = r],
         Exists(m) => r.turn # materials[m].turn,
         live' = (live \ (IF Exists(m) THEN {ImageOf(m, materials[m].turn)} ELSE {}))
                 \cup {ImageOf(m, r.turn)},
         UNCHANGED <<objects, old, textures>>
  PROVE  Owners'
<1>1. /\ materials'[m] = r /\ Exists(m)' /\ r.turn \in Turns
      /\ \A id \in Ids \ {m} : materials'[id] = materials[id]
  BY Names DEF Typed, Exists, GPUMaterial
<1>2. ASSUME NEW x \in live' PROVE Owned(x)'
  <2>1. CASE x = ImageOf(m, r.turn)
    BY <1>1, <2>1 DEF Owned
  <2>2. CASE x \in live /\ (Exists(m) => x # ImageOf(m, materials[m].turn))
    <3>1. Owned(x)
      BY <2>2 DEF Owners
    <3>2. ASSUME NEW id \in Ids, Exists(id), x = ImageOf(id, materials[id].turn) PROVE Owned(x)'
      <4>1. id # m
        BY <2>2, <3>2
      <4> QED BY <1>1, <3>2, <4>1 DEF Owned, Exists
    <3> QED BY <3>1, <3>2 DEF Owned, Held
  <2> QED BY <2>1, <2>2
<1>3. ASSUME NEW id \in Ids, Exists(id)' PROVE ImageOf(id, materials'[id].turn) \in live'
  <2>1. CASE id = m
    BY <1>1, <2>1
  <2>2. CASE id # m
    <3>1. Exists(id) /\ materials'[id] = materials[id]
      BY <1>1, <1>3, <2>2 DEF Exists
    <3>2. ImageOf(id, materials[id].turn) \in live
      BY <3>1 DEF Owners
    <3>3. ImageOf(id, materials[id].turn) # ImageOf(m, materials[m].turn)
      BY <2>2, Memories
    <3> QED BY <3>1, <3>2, <3>3
  <2> QED BY <2>1, <2>2
<1>4. ASSUME NEW h \in Handles, Held(h), NEW x \in BuffersOf(h, objects[h]) PROVE x \in live'
  <2>1. x \in live /\ x.kind = "mesh"
    BY <1>4, Holding, Memories DEF Owners
  <2>2. Exists(m) => ImageOf(m, materials[m].turn).kind = "material"
    BY Existing, Memories
  <2> QED BY <2>1, <2>2
<1> QED BY <1>2, <1>3, <1>4 DEF Owners, Held

\* Images and buffers are destroyed with what had them.
LEMMA OwnersDestroy ==
  ASSUME Typed, Owners, NEW gone, live' = live \ gone, UNCHANGED objects,
         old' \subseteq old, old \ old' \subseteq gone,
         textures' \subseteq textures, \A t \in textures \ textures' : TextureImage(t) \in gone,
         \A id \in Ids : \/ materials'[id] = materials[id] /\ (Exists(id) => ImageOf(id, materials[id].turn) \notin gone)
                         \/ materials'[id] = NoGPUMaterial /\ (Exists(id) => ImageOf(id, materials[id].turn) \in gone),
         \A h \in Handles : Held(h) => BuffersOf(h, objects[h]) \cap gone = {}
  PROVE  Owners'
<1>1. ASSUME NEW x \in live' PROVE Owned(x)'
  <2>1. Owned(x) /\ x \notin gone
    BY DEF Owners
  <2>2. ASSUME NEW id \in Ids, Exists(id), x = ImageOf(id, materials[id].turn) PROVE Owned(x)'
    <3>1. materials'[id] = materials[id]
      BY <2>1, <2>2
    <3> QED BY <2>2, <3>1 DEF Owned, Exists
  <2>3. ASSUME NEW t \in textures, x = TextureImage(t) PROVE Owned(x)'
    BY <2>1, <2>3 DEF Owned
  <2>4. CASE x \in old
    BY <2>1, <2>4 DEF Owned
  <2>5. ASSUME NEW h \in Handles, Held(h), x \in BuffersOf(h, objects[h]) PROVE Owned(x)'
    BY <2>5 DEF Owned, Held
  <2> QED BY <2>1, <2>2, <2>3, <2>4, <2>5 DEF Owned
<1>2. ASSUME NEW id \in Ids, Exists(id)' PROVE ImageOf(id, materials'[id].turn) \in live'
  BY <1>2 DEF Owners, Exists
<1>3. ASSUME NEW h \in Handles, Held(h)
      PROVE  BuffersOf(h, objects[h]) \subseteq live' /\ BuffersOf(h, objects[h]) \cap old' = {}
  BY <1>3 DEF Owners
<1> QED BY <1>1, <1>2, <1>3 DEF Owners, Held

LEMMA OwnersSync ==
  ASSUME Typed, ItemHeld, Owners, Sync
  PROVE  Owners'
<1> USE DEF provider, manager, device
<1>1. CASE SyncSkip \/ SyncShaders \/ \E m \in Materials : SkipMaterial(m)
  BY <1>1, OwnersSame DEF SyncSkip, SyncShaders, SkipMaterial, Exists
<1>2. ASSUME NEW m \in Materials, CreateMaterial(m) PROVE Owners'
  <2> DEFINE r == [shader |-> boundShader[m], uploaded |-> content[m], alpha |-> alpha[m],
                   sets |-> PoolHasRoom(poolUsed), turn |-> 0]
  <2>1. m \in Ids /\ 0 \in Turns /\ ~Exists(m) /\ UNCHANGED <<objects, old, textures>>
        /\ boundShader[m] \in Shaders
    BY <1>2, Names DEF CreateMaterial, Typed, Turns
  <2>2. NewMaterial(m, m, boundShader[m], 0, poolUsed, {}) /\ live' = live \cup {ImageOf(m, 0)}
    BY <1>2 DEF CreateMaterial
  <2>3. materials' = [materials EXCEPT ![m] = r] /\ r.turn = 0
    BY <2>2 DEF NewMaterial
  <2>4. materials'[m] \in GPUMaterial
    BY <2>1, <2>2, NewTyped
  <2>5. materials'[m] = r
    BY <2>1, <2>3 DEF Typed
  <2> HIDE DEF r
  <2> QED BY <2>1, <2>2, <2>3, <2>4, <2>5, OwnersMake
<1>3. ASSUME NEW m \in Materials, KeepMaterial(m) PROVE Owners'
  <2>1. UNCHANGED <<live, objects, old, textures>>
    BY <1>3 DEF KeepMaterial
  <2>2. Flagged(m, alpha[m], materials[m].sets)
    BY <1>3, KeepFlags
  <2> QED BY <2>1, <2>2, OwnersSame DEF Flagged
<1>4. ASSUME NEW m \in Materials, StartUpdate(m) PROVE Owners'
  <2>1. UNCHANGED <<live, objects, old, textures>>
    BY <1>4 DEF StartUpdate
  <2>2. Flagged(m, alpha[m], FALSE)
    BY <1>4, UpdateFlags
  <2> QED BY <2>1, <2>2, OwnersSame DEF Flagged
<1>5. CASE FinishUpdate
  <2> DEFINE turn == 1 - materials[item].turn
             r == [shader |-> materials[item].shader, uploaded |-> content[item],
                   alpha |-> alpha[item], sets |-> PoolHasRoom(poolUsed), turn |-> turn]
  <2>1. item \in Materials /\ item \in Ids /\ Exists(item) /\ UNCHANGED <<objects, old, textures>>
    BY <1>5, Names DEF FinishUpdate, Drained, ItemHeld
  <2>2. materials[item].shader \in Shaders /\ turn \in Turns /\ turn # materials[item].turn
    BY <2>1, Existing DEF Turns
  <2>3. /\ NewMaterial(item, item, materials[item].shader, turn, poolUsed, {})
        /\ live' = (live \ {ImageOf(item, materials[item].turn)}) \cup {ImageOf(item, turn)}
    BY <1>5 DEF FinishUpdate
  <2>4. materials' = [materials EXCEPT ![item] = r] /\ r.turn = turn
    BY <2>3 DEF NewMaterial
  <2>5. materials'[item] \in GPUMaterial
    BY <2>1, <2>2, <2>3, NewTyped
  <2>6. materials'[item] = r
    BY <2>1, <2>4 DEF Typed
  <2> HIDE DEF r, turn
  <2> QED BY <2>1, <2>2, <2>3, <2>4, <2>5, <2>6, OwnersMake
<1>6. CASE SyncTextures
  <2>1. /\ UNCHANGED <<materials, objects, old>> /\ textures' = textures \cup loaded
        /\ live' = live \cup {TextureImage(t) : t \in loaded}
    BY <1>6 DEF SyncTextures
  <2>2. ASSUME NEW x \in live' PROVE Owned(x)'
    <3>1. CASE x \in live
      <4>1. Owned(x)
        BY <3>1 DEF Owners
      <4> QED BY <2>1, <4>1 DEF Owned, Exists, Held
    <3>2. CASE \E t \in loaded : x = TextureImage(t)
      BY <2>1, <3>2 DEF Owned
    <3> QED BY <2>1, <3>1, <3>2
  <2> QED BY <2>1, <2>2 DEF Owners, Exists, Held
<1> QED BY <1>1, <1>2, <1>3, <1>4, <1>5, <1>6 DEF Sync

LEMMA OwnersObjects ==
  ASSUME Typed, OldPlaces, Owners, Objects
  PROVE  Owners'
<1> USE DEF provider, manager
<1>0. old = {}
  BY ObjectsMove DEF OldPlaces
<1>1. ASSUME NEW h \in Handles, NEW m \in Materials \cup {NoMaterial},
             NEW s \in Shaders \cup {NoShader}, NEW empty \in BOOLEAN, AddMesh(h, m, s, empty)
      PROVE  Owners'
  <2> DEFINE id == MaterialToUse(m, s)
             o == [material |-> id, empty |-> empty, turn |-> 0]
  <2>1. o \in RenderObject /\ o # NoObject
    <3>1. 0 \in Turns
      BY DEF Turns
    <3> QED BY <3>1, ToUse, NewObject
  <2>2. ~Held(h) /\ old' = {} /\ UNCHANGED textures
    BY <1>0, <1>1 DEF AddMesh
  <2>3. objects' = [objects EXCEPT ![h] = o]
    BY <1>1 DEF AddMesh
  <2>4. CASE id \in Variants /\ ~Exists(id)
    <3>1. id \in Ids /\ m \in Materials /\ s \in Shaders /\ 0 \in Turns
      BY <2>4, ToUse DEF Turns
    <3>2. /\ NewMaterial(id, m, s, 0, poolUsed, BuffersOf(h, o))
          /\ live' = live \cup BuffersOf(h, o) \cup {ImageOf(id, 0)}
      BY <1>1, <2>4 DEF AddMesh
    <3> HIDE DEF id, o
    <3>3. BuffersOf(h, o) \subseteq Memory
      BY <2>1, Memories
    <3>4. /\ materials'[id] \in GPUMaterial /\ materials'[id].turn = 0
          /\ \A x \in Ids \ {id} : materials'[x] = materials[x]
      BY <3>1, <3>2, <3>3, NewTyped
    <3>5. materials'[id] # NoGPUMaterial
      BY <3>4, Names
    <3>6. \A x \in Ids : Exists(x) => materials'[x] = materials[x]
      BY <2>4, <3>4
    <3>7. \A x \in Ids : Exists(x)' /\ ~Exists(x) => ImageOf(x, materials'[x].turn) \in live'
      BY <3>2, <3>4 DEF Exists
    <3>8. ASSUME NEW x \in live'
          PROVE  \/ x \in live \/ x \in BuffersOf(h, o)
                 \/ \E y \in Ids : Exists(y)' /\ x = ImageOf(y, materials'[y].turn)
      <4>1. x \in live \/ x \in BuffersOf(h, o) \/ x = ImageOf(id, materials'[id].turn)
        BY <3>2, <3>4
      <4> QED BY <3>1, <3>5, <4>1 DEF Exists
    <3>9. live \cup BuffersOf(h, o) \subseteq live'
      BY <3>2
    <3> QED BY <1>0, <2>1, <2>2, <2>3, <3>6, <3>7, <3>8, <3>9, OwnersPut
  <2>5. CASE ~(id \in Variants /\ ~Exists(id))
    <3>1. live' = live \cup BuffersOf(h, o) /\ UNCHANGED materials
      BY <1>1, <2>5 DEF AddMesh
    <3> HIDE DEF id, o
    <3>2. \A x \in Ids : ~(Exists(x)' /\ ~Exists(x))
      BY <3>1 DEF Exists
    <3> QED BY <1>0, <2>1, <2>2, <2>3, <3>1, <3>2, OwnersPut
  <2> QED BY <2>4, <2>5
<1>2. ASSUME NEW h \in Handles, NEW m \in Materials \cup {NoMaterial}, NEW empty \in BOOLEAN,
             Rebuild(h, m, empty)
      PROVE  Owners'
  <2> DEFINE o == [material |-> m, empty |-> empty, turn |-> 1 - objects[h].turn]
  <2>1. Held(h) /\ objects[h].turn \in Turns /\ 1 - objects[h].turn \in Turns
    BY <1>2, Holding DEF Rebuild
  <2>2. m \in Ids \cup {NoMaterial}
    BY Names
  <2>3. o \in RenderObject /\ o # NoObject
    BY <2>1, <2>2, NewObject
  <2>4. o.turn # objects[h].turn
    BY <2>1 DEF Turns
  <2>5. /\ objects' = [objects EXCEPT ![h] = o] /\ live' = live \cup BuffersOf(h, o)
        /\ old' = BuffersOf(h, objects[h]) /\ UNCHANGED <<materials, textures>>
    BY <1>2 DEF Rebuild
  <2> HIDE DEF o
  <2>6. \A x \in Ids : ~(Exists(x)' /\ ~Exists(x))
    BY <2>5 DEF Exists
  <2> QED BY <1>0, <2>1, <2>3, <2>4, <2>5, <2>6, OwnersPut
<1>3. ASSUME NEW h \in Handles, UpdateInPlace(h) PROVE Owners'
  BY <1>3, OwnersSame DEF UpdateInPlace, Exists
<1>4. ASSUME NEW h \in Handles, Remove(h) PROVE Owners'
  <2>1. /\ Held(h) /\ objects' = [objects EXCEPT ![h] = NoObject] /\ old' = BuffersOf(h, objects[h])
        /\ UNCHANGED <<live, materials, textures>>
    BY <1>4 DEF Remove
  <2> QED BY <1>0, <2>1, OwnersTake
<1> QED BY <1>1, <1>2, <1>3, <1>4 DEF Objects, CreateObject

LEMMA OwnersOthers ==
  ASSUME Typed, Owners, Others
  PROVE  Owners'
<1> USE DEF provider, manager, device, thread
<1>1. CASE DropOld \/ DrawFrame \/ Record \/ Close \/ CompleteBatch
  BY <1>1, OwnersSame DEF DropOld, DrawFrame, Record, Close, CompleteBatch, Exists
<1>2. CASE FinishDrop
  <2>1. live' = live \ old /\ old' = {} /\ UNCHANGED <<materials, objects, textures>>
    BY <1>2 DEF FinishDrop
  <2>2. \A id \in Ids : Exists(id) => ImageOf(id, materials[id].turn) \notin old
    <3>1. ASSUME NEW id \in Ids, Exists(id) PROVE ImageOf(id, materials[id].turn).kind = "material"
      BY <3>1, Existing, Memories
    <3> QED BY <3>1 DEF Owners
  <2>3. \A h \in Handles : Held(h) => BuffersOf(h, objects[h]) \cap old = {}
    BY DEF Owners
  <2> QED BY <2>1, <2>2, <2>3, OwnersDestroy
<1> QED BY <1>1, <1>2 DEF Others

LEMMA OwnersTeardown ==
  ASSUME Typed, Places, OldPlaces, ItemHeld, Owners, Teardown
  PROVE  Owners'
<1> USE DEF provider, manager, device, thread
<1>1. ASSUME NEW id \in Ids, ReleaseMaterial(id) PROVE Owners'
  <2>1. UNCHANGED <<live, objects, old, textures>>
    BY <1>1 DEF ReleaseMaterial
  <2>2. Flagged(id, materials[id].alpha, FALSE)
    BY <1>1, ReleaseFlags
  <2> QED BY <2>1, <2>2, OwnersSame DEF Flagged
<1>2. CASE FinishRelease
  <2> DEFINE image == ImageOf(item, materials[item].turn)
  <2>1. /\ item \in Ids /\ materials' = [materials EXCEPT ![item] = NoGPUMaterial]
        /\ live' = live \ {image} /\ UNCHANGED <<objects, old, textures>>
    BY <1>2 DEF FinishRelease
  <2>2. Exists(item) /\ image.kind = "material"
    BY <1>2, <2>1, Existing, Memories DEF FinishRelease, Drained, ItemHeld
  <2>3. \A id \in Ids : Exists(id) /\ id # item => ImageOf(id, materials[id].turn) # image
    BY Memories
  <2>4. \A h \in Handles : Held(h) => BuffersOf(h, objects[h]) \cap {image} = {}
    BY <2>2, Holding, Memories
  <2> HIDE DEF image
  <2>5. /\ materials'[item] = NoGPUMaterial
        /\ \A id \in Ids \ {item} : materials'[id] = materials[id]
    BY <2>1 DEF Typed
  <2>6. \A id \in Ids :
          \/ materials'[id] = materials[id] /\ (Exists(id) => ImageOf(id, materials[id].turn) \notin {image})
          \/ materials'[id] = NoGPUMaterial /\ (Exists(id) => ImageOf(id, materials[id].turn) \in {image})
    BY <2>3, <2>5 DEF image
  <2> QED BY <2>1, <2>4, <2>6, OwnersDestroy
<1>3. CASE ReleaseTextures \/ ReleaseShaders \/ Closed
  BY <1>3, OwnersSame DEF ReleaseTextures, ReleaseShaders, Closed, Exists
<1>4. CASE FinishReleaseTextures
  <2> DEFINE gone == {TextureImage(t) : t \in textures}
  <2>1. textures' = {} /\ live' = live \ gone /\ UNCHANGED <<materials, objects, old>>
    BY <1>4 DEF FinishReleaseTextures
  <2>2. \A x \in gone : x.kind = "texture"
    BY Memories DEF Typed
  <2>3. \A t \in textures : TextureImage(t) \in gone
    OBVIOUS
  <2> HIDE DEF gone
  <2>4. ASSUME NEW id \in Ids, Exists(id) PROVE ImageOf(id, materials[id].turn) \notin gone
    <3>1. ImageOf(id, materials[id].turn).kind = "material"
      BY <2>4, Existing, Memories
    <3> QED BY <2>2, <3>1
  <2>5. \A h \in Handles : Held(h) => BuffersOf(h, objects[h]) \cap gone = {}
    BY <2>2, Holding, Memories
  <2> QED BY <2>1, <2>3, <2>4, <2>5, OwnersDestroy
<1>5. ASSUME NEW h \in Handles, ReleaseObject(h) PROVE Owners'
  <2>1. /\ Held(h) /\ objects' = [objects EXCEPT ![h] = NoObject] /\ old' = BuffersOf(h, objects[h])
        /\ UNCHANGED <<live, materials, textures>>
    BY <1>5 DEF ReleaseObject
  <2>2. old = {}
    BY <1>5 DEF ReleaseObject, OldPlaces, Places
  <2> QED BY <2>1, <2>2, OwnersTake
<1> QED BY <1>1, <1>2, <1>3, <1>4, <1>5 DEF Teardown

LEMMA OwnersStep == IInv /\ Next => Owners'
<1> SUFFICES ASSUME IInv, Next PROVE Owners'
  OBVIOUS
<1>1. CASE Provider
  BY <1>1, ProviderKeeps, OwnersSame DEF IInv, manager, device, thread, Exists
<1> QED BY <1>1, OwnersSync, OwnersObjects, OwnersOthers, OwnersTeardown DEF Next, Others, IInv

-----------------------------------------------------------------------------
(* Uploads that are pending.                                               *)

\* Nothing is destroyed, and what is flushed or recorded more is there.
LEMMA PendingKeeps ==
  ASSUME Typed, Pending, live \subseteq live', batch' \subseteq live',
         submitted' \in {submitted, Submitted(batch)}, pc' = "drain" => batch' = {}
  PROVE  Pending'
<1>1. CASE submitted' = submitted
  BY <1>1 DEF Pending
<1>2. CASE submitted' = Submitted(batch) /\ batch # {}
  <2>1. submitted' = Append(submitted, batch) /\ submitted \in Seq(SUBSET Memory) /\ batch \in SUBSET Memory
    BY <1>2 DEF Submitted, Typed
  <2>2. ASSUME NEW i \in DOMAIN submitted' PROVE submitted'[i] \subseteq live' /\ submitted'[i] # {}
    <3>1. CASE i \in DOMAIN submitted
      <4>1. submitted'[i] = submitted[i]
        BY <2>1, <3>1
      <4> QED BY <3>1, <4>1 DEF Pending
    <3>2. CASE i \notin DOMAIN submitted
      <4>1. submitted'[i] = batch
        BY <2>1, <3>2
      <4> QED BY <1>2, <4>1 DEF Pending
    <3> QED BY <3>1, <3>2
  <2> QED BY <2>2 DEF Pending
<1>3. CASE batch = {} /\ submitted' = Submitted(batch)
  BY <1>1, <1>3 DEF Submitted
<1> QED BY <1>1, <1>2, <1>3

\* What waited for the transfers destroys when none is pending.
LEMMA PendingDrained ==
  ASSUME Pending, Drained, batch' \subseteq live', UNCHANGED submitted, pc' # "drain"
  PROVE  Pending'
<1>1. submitted' = <<>>
  BY DEF Drained
<1>2. DOMAIN submitted' = {}
  BY <1>1
<1> QED BY <1>2 DEF Pending

LEMMA PendingSync ==
  ASSUME Typed, ItemHeld, Owners, Pending, Sync
  PROVE  Pending'
<1> USE DEF provider, manager, device
<1>0. batch \subseteq live
  BY DEF Pending
<1>1. CASE SyncSkip \/ SyncShaders
  <2>1. pc' # "drain"
    BY <1>1 DEF SyncSkip, SyncShaders, AfterSync
  <2> QED BY <1>0, <1>1, <2>1, PendingKeeps DEF SyncSkip, SyncShaders
<1>2. ASSUME NEW m \in Materials, SkipMaterial(m) \/ KeepMaterial(m) PROVE Pending'
  BY <1>0, <1>2, PendingKeeps DEF SkipMaterial, KeepMaterial, Visit
<1>3. ASSUME NEW m \in Materials, CreateMaterial(m) PROVE Pending'
  <2>1. batch' = batch \cup {} \cup {ImageOf(m, 0)} /\ live' = live \cup {ImageOf(m, 0)}
        /\ submitted' = submitted /\ pc' = "pass"
    BY <1>3 DEF CreateMaterial, NewMaterial, Visit
  <2> QED BY <1>0, <2>1, PendingKeeps
<1>4. ASSUME NEW m \in Materials, StartUpdate(m) PROVE Pending'
  BY <1>4, PendingKeeps DEF StartUpdate, StartDrain
<1>5. CASE FinishUpdate
  <2> DEFINE turn == 1 - materials[item].turn
  <2>1. /\ batch' = batch \cup {} \cup {ImageOf(item, turn)}
        /\ live' = (live \ {ImageOf(item, materials[item].turn)}) \cup {ImageOf(item, turn)}
        /\ submitted' = submitted /\ pc' = "pass" /\ Drained
    BY <1>5 DEF FinishUpdate, NewMaterial
  <2>2. batch = {}
    BY <2>1 DEF Pending, Drained
  <2> QED BY <2>1, <2>2, PendingDrained
<1>6. CASE SyncTextures
  <2>1. /\ batch' = batch \cup {TextureImage(t) : t \in loaded \ textures}
        /\ live' = live \cup {TextureImage(t) : t \in loaded}
        /\ submitted' = submitted /\ pc' # "drain"
    BY <1>6, AfterSyncTyped DEF SyncTextures
  <2> QED BY <1>0, <2>1, PendingKeeps
<1> QED BY <1>1, <1>2, <1>3, <1>4, <1>5, <1>6 DEF Sync

LEMMA PendingObjects ==
  ASSUME Typed, Owners, Pending, Objects
  PROVE  Pending'
<1> USE DEF provider, manager
<1>0. batch \subseteq live /\ submitted' = submitted /\ pc' # "drain"
  BY ObjectsMove DEF Pending
<1>1. ASSUME NEW h \in Handles, NEW m, NEW s, NEW empty, AddMesh(h, m, s, empty)
      PROVE  Pending'
  <2> DEFINE id == MaterialToUse(m, s)
             o == [material |-> id, empty |-> empty, turn |-> 0]
  <2>1. \/ live' = live \cup BuffersOf(h, o) \cup {ImageOf(id, 0)}
           /\ batch' = batch \cup BuffersOf(h, o) \cup {ImageOf(id, 0)}
        \/ live' = live \cup BuffersOf(h, o) /\ batch' = batch \cup BuffersOf(h, o)
    BY <1>1 DEF AddMesh, NewMaterial
  <2> HIDE DEF id, o
  <2>2. live \subseteq live' /\ batch' \subseteq live'
    BY <1>0, <2>1
  <2> QED BY <1>0, <2>2, PendingKeeps
<1>2. ASSUME NEW h \in Handles, NEW m, NEW empty, Rebuild(h, m, empty) PROVE Pending'
  <2>1. live \subseteq live' /\ batch' \subseteq live'
    BY <1>0, <1>2 DEF Rebuild
  <2> QED BY <1>0, <2>1, PendingKeeps
<1>3. ASSUME NEW h \in Handles, UpdateInPlace(h) \/ Remove(h) PROVE Pending'
  <2>1. live' = live /\ batch' \subseteq live'
    BY <1>0, <1>3 DEF UpdateInPlace, Remove, Owners
  <2> QED BY <1>0, <2>1, PendingKeeps
<1> QED BY <1>1, <1>2, <1>3 DEF Objects, CreateObject

LEMMA PendingOthers ==
  ASSUME Typed, Pending, Others
  PROVE  Pending'
<1> USE DEF provider, manager, device, thread
<1>1. CASE DropOld
  BY <1>1, PendingKeeps DEF DropOld, StartDrain
<1>2. CASE DrawFrame
  BY <1>2, PendingKeeps DEF DrawFrame
<1>3. CASE Record \/ Close
  BY <1>3, PendingKeeps DEF Record, Close, Pending
<1>4. CASE FinishDrop
  <2>1. batch' = {} /\ submitted' = submitted /\ pc' # "drain" /\ Drained
    BY <1>4 DEF FinishDrop, Drained, Pending
  <2> QED BY <2>1, PendingDrained
<1>5. CASE CompleteBatch
  <2>1. submitted # <<>> /\ submitted' = Tail(submitted) /\ UNCHANGED <<live, batch, pc>>
        /\ submitted \in Seq(SUBSET Memory)
    BY <1>5 DEF CompleteBatch, Typed
  <2>2. ASSUME NEW i \in DOMAIN submitted' PROVE submitted'[i] \subseteq live /\ submitted'[i] # {}
    <3>1. i + 1 \in DOMAIN submitted /\ submitted'[i] = submitted[i + 1]
      BY <2>1
    <3> QED BY <3>1 DEF Pending
  <2> QED BY <2>1, <2>2 DEF Pending
<1> QED BY <1>1, <1>2, <1>3, <1>4, <1>5 DEF Others

LEMMA PendingTeardown ==
  ASSUME Typed, Pending, Teardown
  PROVE  Pending'
<1> USE DEF provider, manager, device, thread
<1>1. ASSUME NEW id \in Ids, ReleaseMaterial(id) PROVE Pending'
  BY <1>1, PendingKeeps DEF ReleaseMaterial, StartDrain
<1>2. CASE ReleaseTextures
  BY <1>2, PendingKeeps DEF ReleaseTextures, StartDrain
<1>3. ASSUME NEW h \in Handles, ReleaseObject(h) PROVE Pending'
  BY <1>3, PendingKeeps DEF ReleaseObject, StartDrain
<1>4. CASE FinishRelease \/ FinishReleaseTextures
  <2>1. batch' = {} /\ submitted' = submitted /\ pc' # "drain" /\ Drained
    BY <1>4 DEF FinishRelease, FinishReleaseTextures, Drained, Pending
  <2> QED BY <2>1, PendingDrained
<1>5. CASE ReleaseShaders \/ Closed
  BY <1>5, PendingKeeps DEF ReleaseShaders, Closed, Pending
<1> QED BY <1>1, <1>2, <1>3, <1>4, <1>5 DEF Teardown

LEMMA PendingStep == IInv /\ Next => Pending'
<1> SUFFICES ASSUME IInv, Next PROVE Pending'
  OBVIOUS
<1>1. CASE Provider
  BY <1>1, ProviderKeeps DEF IInv, Pending, manager, device, thread
<1> QED BY <1>1, PendingSync, PendingObjects, PendingOthers, PendingTeardown DEF Next, Others, IInv

-----------------------------------------------------------------------------
(* The count of the pool.                                                  *)

Holders == {id \in Ids : Exists(id) /\ materials[id].sets}

LEMMA HoldersFinite == IsFiniteSet(Holders)
<1>1. IsFiniteSet(Variants)
  BY ResourcesAssumption, FS_Product DEF Variants
<1>2. IsFiniteSet(Ids)
  BY <1>1, ResourcesAssumption, FS_Union DEF Ids
<1> QED BY <1>2, FS_Subset DEF Holders

LEMMA PoolSame ==
  ASSUME PoolExact, UNCHANGED poolUsed, Holders' = Holders
  PROVE  PoolExact'
BY DEF PoolExact, Holders

\* Materials that have sets where they had some keep the count.
LEMMA PoolFlags ==
  ASSUME PoolExact, UNCHANGED poolUsed,
         \A id \in Ids : /\ materials'[id] # NoGPUMaterial <=> Exists(id)
                         /\ Exists(id) => materials'[id].sets = materials[id].sets
  PROVE  PoolExact'
<1>1. Holders' = Holders
  BY DEF Holders, Exists
<1> QED BY <1>1, PoolSame

\* A material without sets asks for some.
LEMMA PoolAsk ==
  ASSUME Typed, PoolExact, NEW id \in Ids, Exists(id) => materials[id].sets = FALSE,
         NEW m \in Materials, NEW s \in Shaders, NEW turn \in Turns, NEW uploads \in SUBSET Memory,
         NewMaterial(id, m, s, turn, poolUsed, uploads)
  PROVE  PoolExact'
<1>1. /\ materials'[id] # NoGPUMaterial /\ materials'[id].sets = PoolHasRoom(poolUsed)
      /\ \A x \in Ids \ {id} : materials'[x] = materials[x]
  BY NewTyped, Names
<1>2. poolUsed' = IF PoolHasRoom(poolUsed) THEN poolUsed + 1 ELSE poolUsed
  BY DEF NewMaterial
<1>3. id \notin Holders
  BY DEF Holders
<1>4. CASE PoolHasRoom(poolUsed)
  <2>1. Holders' = Holders \cup {id}
    BY <1>1, <1>4 DEF Holders, Exists
  <2>2. Cardinality(Holders') = Cardinality(Holders) + 1
    BY <1>3, <2>1, HoldersFinite, FS_AddElement
  <2> QED BY <1>2, <1>4, <2>2 DEF PoolExact, Holders
<1>5. CASE ~PoolHasRoom(poolUsed)
  <2>1. Holders' = Holders
    BY <1>1, <1>3, <1>5 DEF Holders, Exists
  <2> QED BY <1>2, <1>5, <2>1, PoolSame
<1> QED BY <1>4, <1>5

\* A material gives its sets back, if it has any.
LEMMA PoolGive ==
  ASSUME Typed, PoolExact, NEW id \in Ids, Exists(id), NEW a, Flagged(id, a, FALSE), FreeSets(id)
  PROVE  PoolExact'
<1>1. /\ materials'[id].sets = FALSE
      /\ \A x \in Ids \ {id} : materials'[x] = materials[x]
  BY DEF Flagged
<1>2. Holders' = Holders \ {id}
  BY <1>1 DEF Holders, Exists
<1>3. poolUsed' = IF id \in Holders THEN poolUsed - 1 ELSE poolUsed
  BY DEF FreeSets, Holders
<1>4. Cardinality(Holders') = IF id \in Holders THEN Cardinality(Holders) - 1 ELSE Cardinality(Holders)
  BY <1>2, HoldersFinite, FS_RemoveElement
<1> QED BY <1>3, <1>4 DEF PoolExact, Holders

LEMMA PoolSync ==
  ASSUME Typed, ItemHeld, PoolExact, Sync
  PROVE  PoolExact'
<1> USE DEF provider, manager, device
<1>1. CASE SyncSkip \/ SyncShaders \/ SyncTextures \/ \E m \in Materials : SkipMaterial(m)
  BY <1>1, PoolFlags DEF SyncSkip, SyncShaders, SyncTextures, SkipMaterial, Exists
<1>2. ASSUME NEW m \in Materials, CreateMaterial(m) PROVE PoolExact'
  <2>1. m \in Ids /\ 0 \in Turns /\ ~Exists(m) /\ boundShader[m] \in Shaders
    BY <1>2, Names DEF CreateMaterial, Typed, Turns
  <2>2. NewMaterial(m, m, boundShader[m], 0, poolUsed, {})
    BY <1>2 DEF CreateMaterial
  <2>3. {} \in SUBSET Memory
    OBVIOUS
  <2> QED BY <2>1, <2>2, <2>3, PoolAsk
<1>3. ASSUME NEW m \in Materials, KeepMaterial(m) PROVE PoolExact'
  <2>1. Flagged(m, alpha[m], materials[m].sets)
    BY <1>3, KeepFlags
  <2>2. poolUsed' = poolUsed
    BY <1>3 DEF KeepMaterial
  <2>3. \A id \in Ids : Exists(id) => materials'[id].sets = materials[id].sets
    BY <2>1 DEF Flagged
  <2> QED BY <2>1, <2>2, <2>3, PoolFlags DEF Flagged
<1>4. ASSUME NEW m \in Materials, StartUpdate(m) PROVE PoolExact'
  <2>1. m \in Ids /\ Exists(m) /\ FreeSets(m)
    BY <1>4, Names DEF StartUpdate
  <2>2. Flagged(m, alpha[m], FALSE)
    BY <1>4, UpdateFlags
  <2> QED BY <2>1, <2>2, PoolGive
<1>5. CASE FinishUpdate
  <2> DEFINE turn == 1 - materials[item].turn
  <2>1. item \in Materials /\ item \in Ids /\ Exists(item) /\ materials[item].sets = FALSE
    BY <1>5, Names DEF FinishUpdate, Drained, ItemHeld
  <2>2. materials[item].shader \in Shaders /\ turn \in Turns
    BY <2>1, Existing
  <2>3. NewMaterial(item, item, materials[item].shader, turn, poolUsed, {})
    BY <1>5 DEF FinishUpdate
  <2>4. {} \in SUBSET Memory
    OBVIOUS
  <2> HIDE DEF turn
  <2> QED BY <2>1, <2>2, <2>3, <2>4, PoolAsk
<1> QED BY <1>1, <1>2, <1>3, <1>4, <1>5 DEF Sync

LEMMA PoolObjects ==
  ASSUME Typed, PoolExact, Objects
  PROVE  PoolExact'
<1> USE DEF provider, manager
<1>1. ASSUME NEW h \in Handles, NEW m \in Materials \cup {NoMaterial},
             NEW s \in Shaders \cup {NoShader}, NEW empty \in BOOLEAN, AddMesh(h, m, s, empty)
      PROVE  PoolExact'
  <2> DEFINE id == MaterialToUse(m, s)
             o == [material |-> id, empty |-> empty, turn |-> 0]
  <2>1. CASE id \in Variants /\ ~Exists(id)
    <3>1. id \in Ids /\ m \in Materials /\ s \in Shaders /\ 0 \in Turns
      BY <2>1, ToUse DEF Turns
    <3>2. NewMaterial(id, m, s, 0, poolUsed, BuffersOf(h, o))
      BY <1>1, <2>1 DEF AddMesh
    <3>3. BuffersOf(h, o) \in SUBSET Memory
      BY <3>1, NewObject, Memories
    <3> HIDE DEF id, o
    <3> QED BY <2>1, <3>1, <3>2, <3>3, PoolAsk
  <2>2. CASE ~(id \in Variants /\ ~Exists(id))
    <3>1. UNCHANGED <<materials, poolUsed>>
      BY <1>1, <2>2 DEF AddMesh
    <3> QED BY <3>1, PoolFlags DEF Exists
  <2> QED BY <2>1, <2>2
<1>2. ASSUME NEW h, NEW m, NEW empty, Rebuild(h, m, empty) \/ UpdateInPlace(h) \/ Remove(h)
      PROVE  PoolExact'
  BY <1>2, PoolFlags DEF Rebuild, UpdateInPlace, Remove, Exists
<1> QED BY <1>1, <1>2 DEF Objects, CreateObject

LEMMA PoolTeardown ==
  ASSUME Typed, ItemHeld, PoolExact, Teardown
  PROVE  PoolExact'
<1> USE DEF provider, manager, device, thread
<1>1. ASSUME NEW id \in Ids, ReleaseMaterial(id) PROVE PoolExact'
  <2>1. Exists(id) /\ FreeSets(id)
    BY <1>1 DEF ReleaseMaterial
  <2>2. Flagged(id, materials[id].alpha, FALSE)
    BY <1>1, ReleaseFlags
  <2> QED BY <2>1, <2>2, PoolGive
<1>2. CASE FinishRelease
  <2>1. /\ item \in Ids /\ materials' = [materials EXCEPT ![item] = NoGPUMaterial]
        /\ UNCHANGED poolUsed /\ materials[item].sets = FALSE
    BY <1>2 DEF FinishRelease, Drained, ItemHeld
  <2>2. /\ materials'[item] = NoGPUMaterial
        /\ \A id \in Ids \ {item} : materials'[id] = materials[id]
    BY <2>1 DEF Typed
  <2>3. Holders' = Holders
    BY <2>1, <2>2 DEF Holders, Exists
  <2> QED BY <2>1, <2>3, PoolSame
<1>3. CASE ReleaseTextures \/ FinishReleaseTextures \/ ReleaseShaders \/ Closed
           \/ \E h \in Handles : ReleaseObject(h)
  BY <1>3, PoolFlags DEF ReleaseTextures, FinishReleaseTextures, ReleaseShaders, Closed,
     ReleaseObject, Exists
<1> QED BY <1>1, <1>2, <1>3 DEF Teardown

LEMMA PoolStep == IInv /\ Next => PoolExact'
<1> SUFFICES ASSUME IInv, Next PROVE PoolExact'
  OBVIOUS
<1>1. CASE Provider
  BY <1>1, ProviderKeeps, PoolFlags DEF IInv, manager, device, Exists
<1>2. CASE Others
  BY <1>2, PoolFlags DEF IInv, Others, DropOld, FinishDrop, DrawFrame, Record, Close, CompleteBatch,
     manager, device, Exists
<1> QED BY <1>1, <1>2, PoolSync, PoolObjects, PoolTeardown DEF Next, Others, IInv

-----------------------------------------------------------------------------
(* What passes have brought up to date.                                    *)

\* A step that leaves the provider and what a material shows of it alone.
LEMMA PassesSame ==
  ASSUME Passes, UNCHANGED <<boundShader, content, alpha, version, synchronized, syncedVersion>>,
         \A m \in Materials : materials'[m] # NoGPUMaterial =>
           /\ Exists(m) /\ materials'[m].uploaded = materials[m].uploaded
           /\ materials'[m].alpha = materials[m].alpha,
         pc' \notin {"pass", "record"},
         pc' = "drain" => \/ pc = "drain" /\ UNCHANGED <<call, item, todo>>
                          \/ call' = "close"
                          \/ item' \notin Materials
  PROVE  Passes'
<1>1. Current' <=> Current
  BY DEF Current
<1>2. \A m \in Materials :
        /\ IsLoaded(m)' <=> IsLoaded(m)
        /\ Exists(m)' => Exists(m)
        /\ Exists(m)' /\ UpToDate(m) => UpToDate(m)'
  BY DEF IsLoaded, Exists, UpToDate
<1>3. \A m \in Materials : Exists(m)' => IsLoaded(m)'
  BY <1>2 DEF Passes
<1>4. Current' => \A m \in Materials : Exists(m)' => UpToDate(m)'
  BY <1>1, <1>2 DEF Passes
<1>5. ASSUME pc' = "drain", call' # "close", item' \in Materials
      PROVE  ~Current' /\ \A m \in Materials \ (todo' \cup {item'}) : Exists(m)' => UpToDate(m)'
  <2>1. pc = "drain" /\ call # "close" /\ item \in Materials /\ item' = item /\ todo' = todo
    BY <1>5
  <2> QED BY <1>1, <1>2, <2>1 DEF Passes
<1> QED BY <1>3, <1>4, <1>5 DEF Passes

LEMMA PassesProvider ==
  ASSUME Typed, Passes, Provider
  PROVE  Passes'
<1>1. /\ pc = "ready" /\ version' = version + 1 /\ UNCHANGED <<manager, device, thread>>
      /\ \A m \in Materials : IsLoaded(m) => boundShader'[m] # NoShader
  <2> USE DEF Changed, Typed, IsLoaded
  <2>1. ASSUME NEW m \in Materials, NEW s \in Shaders, LoadMaterial(m, s)
        PROVE  \A x \in Materials : IsLoaded(x) => boundShader'[x] # NoShader
    BY <2>1, ResourcesAssumption DEF LoadMaterial
  <2> QED BY <2>1 DEF Provider, LoadShader, LoadMaterial, LoadTexture, EditTextures, EditAlpha
<1>2. ~Current'
  BY <1>1 DEF Current, Typed, manager
<1>3. \A m \in Materials : Exists(m)' => IsLoaded(m)'
  BY <1>1 DEF Passes, Exists, IsLoaded, manager
<1>4. pc' = "ready"
  BY <1>1 DEF thread
<1> QED BY <1>2, <1>3, <1>4 DEF Passes

LEMMA PassesSync ==
  ASSUME Typed, Places, ItemHeld, Passes, Sync
  PROVE  Passes'
<1> USE DEF provider, manager, device
\* In a pass, the material that was visited is up to date and the others are as they were.
<1>0. ASSUME NEW m \in Materials,
             UNCHANGED <<boundShader, content, alpha, version, synchronized, syncedVersion>>,
             IsLoaded(m), \A x \in Materials \ {m} : materials'[x] = materials[x], ~Current,
             \/ pc' = "pass" /\ (Exists(m)' => UpToDate(m)')
             \/ pc' = "drain" /\ item' = m,
             \A x \in Materials \ (todo' \cup {m}) : Exists(x) => UpToDate(x)
      PROVE  Passes'
  <2>1. ~Current'
    BY <1>0 DEF Current
  <2>2. \A x \in Materials : Exists(x)' => IsLoaded(x)'
    BY <1>0 DEF Passes, Exists, IsLoaded
  <2>3. \A x \in Materials \ (todo' \cup {m}) : Exists(x)' => UpToDate(x)'
    BY <1>0 DEF Exists, UpToDate
  <2>4. CASE pc' = "pass" /\ (Exists(m)' => UpToDate(m)')
    <3>1. \A x \in Materials \ todo' : Exists(x)' => UpToDate(x)'
      <4>1. ASSUME NEW x \in Materials \ todo' PROVE Exists(x)' => UpToDate(x)'
        BY <2>3, <2>4
      <4> QED BY <4>1
    <3> QED BY <2>1, <2>2, <2>4, <3>1 DEF Passes
  <2>5. CASE pc' = "drain" /\ item' = m
    BY <2>1, <2>2, <2>3, <2>5 DEF Passes
  <2> QED BY <1>0, <2>4, <2>5
<1>1. CASE SyncSkip
  <2>1. pc' # "pass" /\ pc' # "drain" /\ Current
    BY <1>1, AfterSyncTyped DEF SyncSkip
  <2> QED BY <1>1, <2>1 DEF SyncSkip, Passes, Current, Exists, IsLoaded, UpToDate
<1>2. CASE SyncShaders
  <2>1. /\ ~Current /\ pc' = "pass" /\ todo' = {m \in Materials : IsLoaded(m)}
        /\ UNCHANGED <<provider, materials, synchronized, syncedVersion>>
    BY <1>2 DEF SyncShaders
  <2>2. ~Current' /\ \A m \in Materials : Exists(m)' => IsLoaded(m)'
    BY <2>1 DEF Current, Passes, Exists, IsLoaded
  <2>3. \A m \in Materials \ todo' : ~Exists(m)'
    BY <2>1 DEF Passes, Exists
  <2> QED BY <2>1, <2>2, <2>3 DEF Passes
<1>3. ASSUME NEW m \in Materials, Visit(m)
      PROVE  /\ ~Current /\ todo' = todo \ {m} /\ pc = "pass"
             /\ \A x \in Materials \ (todo' \cup {m}) : Exists(x) => UpToDate(x)
  BY <1>3 DEF Visit, Passes
<1>4. ASSUME NEW m \in Materials, SkipMaterial(m) PROVE Passes'
  <2>1. Visit(m) /\ ~Exists(m) /\ UNCHANGED <<provider, manager, pc>>
    BY <1>4 DEF SkipMaterial
  <2>2. ~Current' /\ \A x \in Materials : Exists(x)' => IsLoaded(x)'
    BY <1>3, <2>1 DEF Current, Passes, Exists, IsLoaded
  <2>3. \A x \in Materials \ todo' : Exists(x)' => UpToDate(x)'
    BY <1>3, <2>1 DEF Exists, UpToDate
  <2>4. pc' = "pass"
    BY <1>3, <2>1
  <2> QED BY <2>2, <2>3, <2>4 DEF Passes
<1>5. ASSUME NEW m \in Materials, CreateMaterial(m) PROVE Passes'
  <2>1. /\ Visit(m) /\ NewMaterial(m, m, boundShader[m], 0, poolUsed, {})
        /\ UNCHANGED <<boundShader, content, alpha, version, synchronized, syncedVersion, pc>>
        /\ boundShader[m] \in Shaders
    BY <1>5 DEF CreateMaterial, Typed
  <2>2. m \in Ids /\ 0 \in Turns /\ Materials \subseteq Ids
    BY Names DEF Turns
  <2>3. /\ materials'[m].uploaded = content[m] /\ materials'[m].alpha = alpha[m]
        /\ \A x \in Ids \ {m} : materials'[x] = materials[x]
    BY <2>1, <2>2, NewTyped
  <2>4. UpToDate(m)' /\ IsLoaded(m)
    BY <2>1, <2>3, ResourcesAssumption DEF UpToDate, IsLoaded
  <2>5. pc' = "pass"
    BY <1>3, <2>1
  <2> QED BY <1>0, <1>3, <2>1, <2>2, <2>3, <2>4, <2>5
<1>6. ASSUME NEW m \in Materials, KeepMaterial(m) PROVE Passes'
  <2>1. /\ Visit(m) /\ Exists(m) /\ materials[m].uploaded = content[m]
        /\ UNCHANGED <<boundShader, content, alpha, version, synchronized, syncedVersion, pc>>
    BY <1>6 DEF KeepMaterial
  <2>2. Flagged(m, alpha[m], materials[m].sets) /\ Materials \subseteq Ids
    BY <1>6, KeepFlags, Names
  <2>3. /\ materials'[m].uploaded = content[m] /\ materials'[m].alpha = alpha[m]
        /\ \A x \in Materials \ {m} : materials'[x] = materials[x]
    BY <2>1, <2>2 DEF Flagged
  <2>4. UpToDate(m)' /\ IsLoaded(m)
    BY <2>1, <2>3 DEF UpToDate, Passes
  <2>5. pc' = "pass"
    BY <1>3, <2>1
  <2> QED BY <1>0, <1>3, <2>1, <2>3, <2>4, <2>5
<1>7. ASSUME NEW m \in Materials, StartUpdate(m) PROVE Passes'
  <2>1. /\ Visit(m) /\ Exists(m) /\ pc' = "drain" /\ item' = m
        /\ UNCHANGED <<boundShader, content, alpha, version, synchronized, syncedVersion>>
    BY <1>7 DEF StartUpdate, StartDrain
  <2>2. Flagged(m, alpha[m], FALSE) /\ Materials \subseteq Ids
    BY <1>7, UpdateFlags, Names
  <2>3. \A x \in Materials \ {m} : materials'[x] = materials[x]
    BY <2>2 DEF Flagged
  <2>4. IsLoaded(m)
    BY <2>1 DEF Passes
  <2> QED BY <1>0, <1>3, <2>1, <2>3, <2>4
<1>8. CASE FinishUpdate
  <2> DEFINE turn == 1 - materials[item].turn
  <2>1. /\ item \in Materials /\ pc = "drain" /\ call # "close" /\ pc' = "pass" /\ todo' = todo
        /\ UNCHANGED <<boundShader, content, alpha, version, synchronized, syncedVersion>>
        /\ NewMaterial(item, item, materials[item].shader, turn, poolUsed, {})
    BY <1>8 DEF FinishUpdate, Drained
  <2>2. item \in Ids /\ Exists(item) /\ Materials \subseteq Ids
    BY <2>1, Names DEF ItemHeld
  <2>3. materials[item].shader \in Shaders /\ turn \in Turns
    BY <2>2, Existing
  <2> HIDE DEF turn
  <2>4. /\ materials'[item].uploaded = content[item] /\ materials'[item].alpha = alpha[item]
        /\ \A x \in Ids \ {item} : materials'[x] = materials[x]
    BY <2>1, <2>2, <2>3, NewTyped
  <2>5. IsLoaded(item) /\ ~Current /\ \A x \in Materials \ (todo' \cup {item}) : Exists(x) => UpToDate(x)
    BY <2>1, <2>2 DEF Passes
  <2>6. PICK m \in Materials : m = item
    BY <2>1
  <2>7. Exists(m)' => UpToDate(m)'
    BY <2>1, <2>4, <2>6 DEF UpToDate
  <2> QED BY <1>0, <2>1, <2>2, <2>4, <2>5, <2>6, <2>7
<1>9. CASE SyncTextures
  <2>1. /\ pc = "pass" /\ todo = {} /\ pc' # "pass" /\ pc' # "drain"
        /\ UNCHANGED <<provider, materials>>
    BY <1>9, AfterSyncTyped DEF SyncTextures
  <2>2. \A m \in Materials : Exists(m) => UpToDate(m) /\ IsLoaded(m)
    BY <2>1 DEF Passes
  <2>3. \A m \in Materials : Exists(m)' => UpToDate(m)' /\ IsLoaded(m)'
    BY <2>1, <2>2 DEF Exists, UpToDate, IsLoaded
  <2>4. Current'
    BY <1>9 DEF SyncTextures, Current
  <2> QED BY <2>1, <2>3, <2>4 DEF Passes
<1> QED BY <1>1, <1>2, <1>4, <1>5, <1>6, <1>7, <1>8, <1>9 DEF Sync

LEMMA PassesObjects ==
  ASSUME Typed, Passes, Objects
  PROVE  Passes'
<1> USE DEF provider, manager
<1>1. /\ UNCHANGED <<boundShader, content, alpha, version, synchronized, syncedVersion>>
      /\ pc' \notin {"pass", "record", "drain"}
  BY ObjectsMove
<1>2. \A m \in Materials : materials'[m] = materials[m]
  <2>1. ASSUME NEW h \in Handles, NEW m \in Materials \cup {NoMaterial},
               NEW s \in Shaders \cup {NoShader}, NEW empty \in BOOLEAN, AddMesh(h, m, s, empty),
               NEW x \in Materials
        PROVE  materials'[x] = materials[x]
    <3> DEFINE id == MaterialToUse(m, s)
               o == [material |-> id, empty |-> empty, turn |-> 0]
    <3>1. CASE id \in Variants /\ ~Exists(id)
      <4>1. id \in Ids /\ x # id /\ x \in Ids
        BY <3>1, Names, ToUse
      <4>2. NewMaterial(id, m, s, 0, poolUsed, BuffersOf(h, o))
        BY <2>1, <3>1 DEF AddMesh
      <4> HIDE DEF id, o
      <4> QED BY <4>1, <4>2 DEF NewMaterial, Typed
    <3>2. CASE ~(id \in Variants /\ ~Exists(id))
      BY <2>1, <3>2 DEF AddMesh
    <3> QED BY <3>1, <3>2
  <2>2. ASSUME NEW h, NEW m, NEW empty, Rebuild(h, m, empty) \/ UpdateInPlace(h) \/ Remove(h)
        PROVE  materials' = materials
    BY <2>2 DEF Rebuild, UpdateInPlace, Remove
  <2> QED BY <2>1, <2>2 DEF Objects, CreateObject
<1> QED BY <1>1, <1>2, PassesSame DEF Exists

LEMMA PassesOthers ==
  ASSUME Typed, Passes, Others
  PROVE  Passes'
<1> USE DEF provider, manager, device, thread
<1>1. CASE DropOld
  <2>1. item' \notin Materials
    BY <1>1, NamesAssumption DEF DropOld, Ids
  <2> QED BY <1>1, <2>1, PassesSame DEF DropOld, StartDrain, Exists
<1>2. CASE FinishDrop \/ DrawFrame \/ Record \/ Close
  BY <1>2, PassesSame DEF FinishDrop, DrawFrame, Record, Close, Exists
<1>3. CASE CompleteBatch
  BY <1>3 DEF CompleteBatch, Passes, Current, Exists, IsLoaded, UpToDate
<1> QED BY <1>1, <1>2, <1>3 DEF Others

LEMMA PassesTeardown ==
  ASSUME Typed, Places, Passes, Teardown
  PROVE  Passes'
<1> USE DEF provider, manager, device, thread
<1>1. ASSUME NEW id \in Ids, ReleaseMaterial(id) PROVE Passes'
  <2>1. Flagged(id, materials[id].alpha, FALSE) /\ Materials \subseteq Ids
    BY <1>1, ReleaseFlags, Names
  <2>2. \A m \in Materials : materials'[m] # NoGPUMaterial =>
           /\ Exists(m) /\ materials'[m].uploaded = materials[m].uploaded
           /\ materials'[m].alpha = materials[m].alpha
    <3>1. ASSUME NEW m \in Materials, materials'[m] # NoGPUMaterial
          PROVE  /\ Exists(m) /\ materials'[m].uploaded = materials[m].uploaded
                 /\ materials'[m].alpha = materials[m].alpha
      BY <2>1, <3>1 DEF Flagged
    <3> QED BY <3>1
  <2>3. call' = "close" /\ pc' = "drain"
    BY <1>1 DEF ReleaseMaterial, StartDrain, Places
  <2> QED BY <1>1, <2>2, <2>3, PassesSame DEF ReleaseMaterial
<1>2. CASE FinishRelease
  <2>1. /\ materials' = [materials EXCEPT ![item] = NoGPUMaterial] /\ pc' = "release"
        /\ UNCHANGED <<boundShader, content, alpha, version, synchronized, syncedVersion>>
    BY <1>2 DEF FinishRelease
  <2>2. Materials \subseteq Ids
    BY Names
  <2>3. \A m \in Materials : materials'[m] # NoGPUMaterial => materials'[m] = materials[m]
    BY <2>1, <2>2 DEF Typed
  <2> QED BY <2>1, <2>3, PassesSame DEF Exists
<1>3. CASE ReleaseTextures
  <2>1. call' = "close"
    BY <1>3 DEF ReleaseTextures, Places
  <2> QED BY <1>3, <2>1, PassesSame DEF ReleaseTextures, StartDrain, Exists
<1>4. CASE FinishReleaseTextures \/ ReleaseShaders \/ Closed
  BY <1>4, PassesSame DEF FinishReleaseTextures, ReleaseShaders, Closed, Exists
<1>5. ASSUME NEW h \in Handles, ReleaseObject(h) PROVE Passes'
  <2>1. call' = "close"
    BY <1>5 DEF ReleaseObject, Places
  <2> QED BY <1>5, <2>1, PassesSame DEF ReleaseObject, StartDrain, Exists
<1> QED BY <1>1, <1>2, <1>3, <1>4, <1>5 DEF Teardown

LEMMA PassesStep == IInv /\ Next => Passes'
BY PassesProvider, PassesSync, PassesObjects, PassesOthers, PassesTeardown DEF Next, Others, IInv

-----------------------------------------------------------------------------
(* Meshes are uploaded by the calls on objects, ahead of every frame.      *)

LEMMA MeshesSync ==
  ASSUME IInv, Sync
  PROVE  MeshesSent'
<1>1. CASE SyncSkip \/ SyncShaders
  BY <1>1 DEF SyncSkip, SyncShaders, device, IInv, MeshesSent
<1>2. CASE FinishUpdate
  <2>1. item \in Ids /\ pc = "drain" /\ call' = call
    BY <1>2, Names DEF FinishUpdate, Drained
  <2>2. Exists(item) /\ 1 - materials[item].turn \in Turns
    BY <2>1, Existing DEF IInv, ItemHeld
  <2>3. batch' = batch \cup {ImageOf(item, 1 - materials[item].turn)}
    BY <1>2 DEF FinishUpdate, NewMaterial
  <2> QED BY <2>1, <2>2, <2>3, Memories DEF IInv, MeshesSent
<1>3. CASE SyncTextures
  <2>1. \A t \in loaded : TextureImage(t).kind = "texture"
    BY Memories DEF IInv, Typed
  <2> QED BY <1>3, <2>1 DEF SyncTextures, IInv, MeshesSent
<1>4. ASSUME NEW m \in Materials, SkipMaterial(m) \/ KeepMaterial(m) PROVE MeshesSent'
  BY <1>4 DEF SkipMaterial, KeepMaterial, device, IInv, MeshesSent
<1>5. ASSUME NEW m \in Materials, CreateMaterial(m) PROVE MeshesSent'
  <2>1. batch' = batch \cup {ImageOf(m, 0)} /\ pc' = pc /\ call' = call
    BY <1>5 DEF CreateMaterial, NewMaterial
  <2>2. ImageOf(m, 0).kind = "material"
    BY DEF ImageOf
  <2> QED BY <2>1, <2>2 DEF IInv, MeshesSent
<1>6. ASSUME NEW m \in Materials, StartUpdate(m) PROVE MeshesSent'
  BY <1>6 DEF StartUpdate, StartDrain, MeshesSent
<1> QED BY <1>1, <1>2, <1>3, <1>4, <1>5, <1>6 DEF Sync

LEMMA MeshesStep == IInv /\ Next => MeshesSent'
<1> SUFFICES ASSUME IInv, Next PROVE MeshesSent'
  OBVIOUS
<1>1. CASE Provider
  BY <1>1, ProviderKeeps DEF device, thread, IInv, MeshesSent
<1>2. CASE Sync
  BY <1>2, MeshesSync
<1>3. CASE Objects
  <2>1. call' # "frame"
    BY <1>3, ObjectsMove
  <2> QED BY <2>1 DEF MeshesSent
<1>4. CASE DropOld \/ DrawFrame
  BY <1>4 DEF DropOld, DrawFrame, StartDrain, MeshesSent
<1>5. CASE FinishDrop \/ Record \/ CompleteBatch
  BY <1>5 DEF FinishDrop, Record, CompleteBatch, Drained, device, thread, IInv, MeshesSent
<1>6. CASE Close
  BY <1>6 DEF Close, MeshesSent
<1>7. CASE Teardown
  <2>1. call' = call
    BY <1>7 DEF Teardown, ReleaseMaterial, FinishRelease, ReleaseTextures, FinishReleaseTextures,
       ReleaseShaders, ReleaseObject, Closed, thread
  <2>2. call = "close"
    BY <1>7 DEF Teardown, ReleaseMaterial, FinishRelease, ReleaseTextures, FinishReleaseTextures,
       ReleaseShaders, ReleaseObject, Closed, Drained, IInv, Places
  <2> QED BY <2>1, <2>2 DEF MeshesSent
<1> QED BY <1>1, <1>2, <1>3, <1>4, <1>5, <1>6, <1>7 DEF Next

-----------------------------------------------------------------------------
LEMMA InvariantInit == Init => IInv
<1> SUFFICES ASSUME Init PROVE IInv
  OBVIOUS
<1>1. /\ pc = "sync" /\ call = "add" /\ old = {} /\ live = {} /\ batch = {} /\ submitted = <<>>
      /\ textures = {} /\ shaders # {} /\ poolUsed = 0
  BY ResourcesAssumption DEF Init
<1>2. \A id \in Ids : ~Exists(id)
  BY DEF Init, Exists
<1>3. \A h \in Handles : ~Held(h)
  BY DEF Init, Held
<1>4. Typed /\ Places /\ OldPlaces /\ ItemHeld /\ ShadersLast
  BY <1>1, <1>2, TypedInit DEF Places, OldPlaces, ItemHeld, ShadersLast
<1>5. Owners /\ Pending
  BY <1>1, <1>2, <1>3 DEF Owners, Pending
<1>6. PoolExact
  <2>1. Holders = {}
    BY <1>2 DEF Holders
  <2> QED BY <1>1, <2>1, FS_EmptySet DEF PoolExact, Holders
<1>7. Passes
  <2>1. \A m \in Materials : ~Exists(m)
    BY <1>2, Names
  <2> QED BY <1>1, <2>1 DEF Passes
<1>8. MeshesSent
  BY <1>1 DEF MeshesSent
<1> QED BY <1>4, <1>5, <1>6, <1>7, <1>8 DEF IInv

LEMMA Stutter == IInv /\ UNCHANGED vars => IInv'
<1> SUFFICES ASSUME IInv, UNCHANGED vars PROVE IInv'
  OBVIOUS
<1> USE DEF vars, provider, manager, device, thread
<1>1. Typed' /\ Places' /\ OldPlaces' /\ ItemHeld'
  BY DEF IInv, Typed, Places, OldPlaces, ItemHeld, Exists
<1>2. ShadersLast' /\ Pending'
  BY DEF IInv, ShadersLast, Pending, Exists, Held
<1>3. Owners'
  BY OwnersSame DEF IInv, Exists
<1>4. PoolExact'
  BY PoolFlags DEF IInv, Exists
<1>5. Passes'
  BY DEF IInv, Passes, Current, Exists, IsLoaded, UpToDate
<1>6. MeshesSent'
  BY DEF IInv, MeshesSent
<1> QED BY <1>1, <1>2, <1>3, <1>4, <1>5, <1>6 DEF IInv

LEMMA Invariant == Spec => []IInv
<1>1. IInv /\ [Next]_vars => IInv'
  <2>1. IInv /\ Next => IInv'
    BY TypedStep, PlacesStep, OldPlacesStep, ItemHeldStep, ShadersLastStep, OwnersStep,
       PendingStep, PoolStep, PassesStep, MeshesStep DEF IInv
  <2> QED BY <2>1, Stutter
<1> QED BY InvariantInit, <1>1, PTL DEF Spec

\* The state is well typed; that poolUsed stays a count, whatever frees sets and
\* however often, needs PoolExact.
THEOREM TypeOKAlways == Spec => []TypeOK
<1>1. IInv => TypeOK
  <2> SUFFICES ASSUME IInv PROVE TypeOK
    OBVIOUS
  <2>1. poolUsed \in Nat
    BY HoldersFinite, FS_CardinalityType DEF IInv, PoolExact, Holders
  <2> QED BY <2>1 DEF IInv, Typed, TypeOK
<1> QED BY <1>1, Invariant, PTL

\* No image or buffer is destroyed while an upload that is recorded or queued
\* names it: every destructor drains the transfers first, and between the drain
\* and the destruction nothing is recorded.
THEOREM TransfersLiveAlways == Spec => []TransfersLive
<1>1. IInv => TransfersLive
  BY DEF IInv, Pending, TransfersLive
<1> QED BY <1>1, Invariant, PTL

\* Through updates, refused allocations, variants and teardown the pool has
\* given sets to exactly the materials that hold some.
THEOREM PoolExactAlways == Spec => []PoolExact
<1>1. IInv => PoolExact
  BY DEF IInv
<1> QED BY <1>1, Invariant, PTL

\* A frame binds images and buffers that exist, materials made from the textures
\* and the blend mode the provider holds when it is recorded, and meshes whose
\* uploads are submitted.  Those of an image that its own pass made are not.
THEOREM BoundCurrentAlways == Spec => []BoundCurrent
<1>1. IInv => BoundCurrent
  <2> SUFFICES ASSUME IInv, pc = "record", NEW h \in Handles, Drawn(h)
               PROVE  LET id == objects[h].material IN
                        /\ BuffersOf(h, objects[h]) \cup {ImageOf(id, materials[id].turn)} \subseteq live
                        /\ BuffersOf(h, objects[h]) \cap batch = {}
                        /\ id \in Materials =>
                             materials[id].uploaded = content[id] /\ materials[id].alpha = alpha[id]
    BY DEF BoundCurrent
  <2> DEFINE id == objects[h].material
  <2>1. Held(h) /\ id # NoMaterial /\ Exists(id) /\ objects[h] \in RenderObject
    BY Holding DEF Drawn, IInv
  <2>2. id \in Ids
    BY <2>1 DEF RenderObject
  <2>3. BuffersOf(h, objects[h]) \subseteq live /\ ImageOf(id, materials[id].turn) \in live
    BY <2>1, <2>2 DEF IInv, Owners
  <2>4. id \in Materials => UpToDate(id)
    BY <2>1 DEF IInv, Passes
  <2>5. BuffersOf(h, objects[h]) \cap batch = {}
    <3>1. \A x \in BuffersOf(h, objects[h]) : x.kind = "mesh"
      BY <2>1, Memories
    <3>2. call = "frame"
      BY DEF IInv, Places
    <3> QED BY <3>1, <3>2 DEF IInv, MeshesSent
  <2> QED BY <2>3, <2>4, <2>5 DEF UpToDate
<1> QED BY <1>1, Invariant, PTL

\* Once the renderer is gone the device holds none of its images, buffers and
\* sets, and the transfer manager names none.
THEOREM NothingLeftAlways == Spec => []NothingLeft
<1>1. IInv => NothingLeft
  <2> SUFFICES ASSUME IInv, pc = "closed"
               PROVE  live = {} /\ poolUsed = 0 /\ batch = {} /\ submitted = <<>>
    BY DEF NothingLeft
  <2>1. (\A id \in Ids : ~Exists(id)) /\ textures = {} /\ \A h \in Handles : ~Held(h)
    BY DEF IInv, ShadersLast
  <2>2. old = {}
    BY DEF IInv, OldPlaces, Places
  <2>3. live = {}
    BY <2>1, <2>2 DEF IInv, Owners, Owned
  <2>4. batch = {} /\ \A i \in DOMAIN submitted : FALSE
    BY <2>3 DEF IInv, Pending
  <2>5. submitted = <<>>
    <3>1. submitted \in Seq(SUBSET Memory)
      BY DEF IInv, Typed
    <3>2. Len(submitted) \in Nat /\ (Len(submitted) > 0 => 1 \in DOMAIN submitted)
      BY <3>1, LenProperties
    <3> QED BY <2>4, <3>1, <3>2, EmptySeq
  <2>6. Holders = {}
    BY <2>1 DEF Holders
  <2>7. poolUsed = 0
    BY <2>6, FS_EmptySet DEF IInv, PoolExact, Holders
  <2> QED BY <2>3, <2>4, <2>5, <2>7
<1> QED BY <1>1, Invariant, PTL
==============================================================================
