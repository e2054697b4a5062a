------------------------------ MODULE Resources ------------------------------
(***************************************************************************)
(* What the engine keeps on the device for what the application loaded:    *)
(* shaders, materials with their descriptor sets and images, the meshes of *)
(* render objects, and the passes that bring them up to date.              *)
(*                                                                         *)
(* The resource provider belongs to the application.  RessourceManager     *)
(* compares its version with that of the last pass and does nothing when   *)
(* they agree; GPUMaterial compares the version of its material the same   *)
(* way.  A pass runs from Engine's object calls and from the recording of  *)
(* every frame.  Uploads are recorded into a batch of the transfer manager *)
(* and the graphics queue writes the images and buffers later, so nothing  *)
(* may be destroyed before the batches that name it are done.              *)
(*                                                                         *)
(* An image or a buffer is named by its owner and by which of two turns of *)
(* that owner it is, so that the new one differs from the one it replaces. *)
(* Nobody passes refresh = true to sync(), and nobody does here.           *)
(***************************************************************************)
EXTENDS Naturals, Sequences, FiniteSets

CONSTANTS
  Materials,       \* materials of the provider
  Shaders,         \* shaders the provider can resolve by name, in time
  EngineShaders,   \* those the engine has it load before the renderer exists
  Textures,        \* textures of the provider
  Handles,         \* handles of render objects
  MaterialCount,   \* materials createDescriptorPool is asked to make room for
  SamplersPerSet,  \* combined image samplers in the layout of a set
  MaxVersion,      \* bound: changes of the provider
  MaxBatches,      \* bound: batches the queue has not completed when a frame starts
  NoShader, NoMaterial, NoObject,
  Meshes, ProviderTextures \* what is being destroyed, when it is not a material

ASSUME ResourcesAssumption ==
  /\ EngineShaders \subseteq Shaders /\ EngineShaders # {}
  /\ NoShader \notin Shaders
  /\ IsFiniteSet(Materials) /\ IsFiniteSet(Shaders)
  /\ MaterialCount \in Nat /\ SamplersPerSet \in Nat /\ MaxVersion \in Nat
  /\ MaxBatches \in Nat

MaxFramesInFlight == 2

\* A variant is named by the key it is cached under.
Variants == Materials \X Shaders
Ids == Materials \cup Variants

ASSUME NamesAssumption ==
  /\ Materials \cap Variants = {}
  /\ Ids \cap {NoMaterial, Meshes, ProviderTextures} = {}
  /\ NoMaterial \notin {Meshes, ProviderTextures} /\ Meshes # ProviderTextures

\* Which of the two turns of its owner an image or a buffer is.
Turns == {0, 1}
Memory == [kind : {"material"}, owner : Ids, turn : Turns]
          \cup [kind : {"mesh"}, owner : Handles, turn : Turns]
          \cup [kind : {"texture"}, owner : Textures, turn : {0}]

ImageOf(id, turn) == [kind |-> "material", owner |-> id, turn |-> turn]
BufferOf(h, turn) == [kind |-> "mesh", owner |-> h, turn |-> turn]
TextureImage(t) == [kind |-> "texture", owner |-> t, turn |-> 0]

VARIABLES
  \* the provider
  known,         \* shaders it resolves
  boundShader,   \* the shader a loaded material names
  content,       \* version of the textures of a material
  alpha,         \* whether a material blends
  loaded,        \* textures it holds
  version,       \* its own version
  \* RessourceManager
  shaders,       \* _shaders
  materials,     \* _materials: GPUMaterial by id, variants among them
  textures,      \* _textures
  synchronized,  \* _synchronized
  syncedVersion, \* _syncedVersion
  \* Renderer and TransferManager
  objects,       \* _objects: the material and the buffers of each render object
  poolUsed,      \* materials that the descriptor pool has given sets to
  live,          \* images and buffers that exist
  batch,         \* those the batch being recorded writes
  submitted,     \* those each batch the queue has not completed writes
  \* the thread
  pc, call, todo,
  item,          \* what is being replaced or destroyed
  old            \* buffers of a render object on its way out

provider == <<known, boundShader, content, alpha, loaded, version>>
manager == <<shaders, materials, textures, synchronized, syncedVersion>>
device == <<objects, poolUsed, live, batch, submitted>>
thread == <<pc, call, todo, item, old>>
vars == <<provider, manager, device, thread>>

NoGPUMaterial == [shader |-> NoShader]
GPUMaterial ==
  [shader : Shaders, uploaded : Nat, alpha : BOOLEAN, sets : BOOLEAN, turn : Turns]
RenderObject == [material : Ids \cup {NoMaterial}, empty : BOOLEAN, turn : Turns]

ASSUME NoObjectAssumption == NoObject \notin RenderObject

TypeOK ==
  /\ known \subseteq Shaders /\ loaded \subseteq Textures /\ version \in Nat
  /\ boundShader \in [Materials -> Shaders \cup {NoShader}]
  /\ content \in [Materials -> Nat] /\ alpha \in [Materials -> BOOLEAN]
  /\ shaders \subseteq Shaders /\ textures \subseteq Textures
  /\ materials \in [Ids -> GPUMaterial \cup {NoGPUMaterial}]
  /\ synchronized \in BOOLEAN /\ syncedVersion \in Nat
  /\ objects \in [Handles -> RenderObject \cup {NoObject}]
  /\ poolUsed \in Nat
  /\ live \subseteq Memory /\ batch \subseteq Memory
  /\ submitted \in Seq(SUBSET Memory)
  /\ pc \in {"ready", "sync", "pass", "drain", "drop", "record", "release", "closed"}
  /\ call \in {"add", "update", "remove", "frame", "close"}
  /\ todo \subseteq Materials /\ old \subseteq Memory
  /\ item \in Ids \cup {Meshes, ProviderTextures, NoMaterial}

Exists(id) == materials[id] # NoGPUMaterial
Held(h) == objects[h] # NoObject
IsLoaded(m) == boundShader[m] # NoShader

Init ==
  /\ known = EngineShaders /\ loaded = {} /\ version = 0
  /\ boundShader = [m \in Materials |-> NoShader]
  /\ content = [m \in Materials |-> 0] /\ alpha = [m \in Materials |-> FALSE]
  /\ shaders = EngineShaders /\ textures = {}
  /\ materials = [id \in Ids |-> NoGPUMaterial]
  /\ synchronized = FALSE /\ syncedVersion = 0
  /\ objects = [h \in Handles |-> NoObject]
  /\ poolUsed = 0 /\ live = {} /\ batch = {} /\ submitted = <<>>
  /\ pc = "sync" /\ call = "add" /\ todo = {} /\ item = NoMaterial /\ old = {}

-----------------------------------------------------------------------------
(* The provider, between two calls of the engine. *)

Changed ==
  /\ pc = "ready" /\ version < MaxVersion
  /\ version' = version + 1
  /\ UNCHANGED <<manager, device, thread>>

LoadShader(s) ==
  /\ Changed /\ known' = known \cup {s}
  /\ UNCHANGED <<boundShader, content, alpha, loaded>>

LoadMaterial(m, s) ==
  /\ Changed /\ ~IsLoaded(m)
  /\ boundShader' = [boundShader EXCEPT ![m] = s]
  /\ UNCHANGED <<known, content, alpha, loaded>>

LoadTexture(t) ==
  /\ Changed /\ t \notin loaded
  /\ loaded' = loaded \cup {t}
  /\ UNCHANGED <<known, boundShader, content, alpha>>

EditTextures(m) ==
  /\ Changed /\ IsLoaded(m)
  /\ content' = [content EXCEPT ![m] = @ + 1]
  /\ UNCHANGED <<known, boundShader, alpha, loaded>>

\* The version of the material is that of its textures.
EditAlpha(m) ==
  /\ Changed /\ IsLoaded(m)
  /\ alpha' = [alpha EXCEPT ![m] = ~@]
  /\ UNCHANGED <<known, boundShader, content, loaded>>

Provider ==
  \/ \E s \in Shaders : LoadShader(s)
  \/ \E m \in Materials, s \in Shaders : LoadMaterial(m, s)
  \/ \E t \in Textures : LoadTexture(t)
  \/ \E m \in Materials : EditTextures(m) \/ EditAlpha(m)

-----------------------------------------------------------------------------
(* The transfer manager, as its callers see it. *)

\* flush(): an empty batch is not submitted.
Submitted(b) == IF b = {} THEN submitted ELSE Append(submitted, b)

\* waitIdle(): flush, then wait for every batch.
StartDrain ==
  /\ submitted' = Submitted(batch)
  /\ batch' = {}
  /\ pc' = "drain"

\* Mutant: the batches are submitted and not waited for.
NotDrained == pc = "drain"

Drained == pc = "drain" /\ submitted = <<>>

-----------------------------------------------------------------------------
(* GPUMaterial *)

\* createDescriptorPool: sets for every material and every frame slot, and as
\* many samplers.
PoolSets == MaterialCount * MaxFramesInFlight
PoolSamplers == MaterialCount * MaxFramesInFlight

\* vkAllocateDescriptorSets, for one material more than the pool serves.
PoolHasRoom(used) ==
  /\ (used + 1) * MaxFramesInFlight <= PoolSets
  /\ (used + 1) * MaxFramesInFlight * SamplersPerSet <= PoolSamplers

\* The constructor and update() both make the images, record their uploads and
\* ask the pool for sets; without sets the material is kept and cannot be drawn.
NewMaterial(id, m, s, turn, used, uploads) ==
  /\ materials' = [materials EXCEPT ![id] =
       [shader |-> s, uploaded |-> content[m], alpha |-> alpha[m],
        sets |-> PoolHasRoom(used), turn |-> turn]]
  /\ poolUsed' = IF PoolHasRoom(used) THEN used + 1 ELSE used
  /\ batch' = batch \cup uploads \cup {ImageOf(id, turn)}

-----------------------------------------------------------------------------
(* RessourceManager::sync, from an engine call or from a frame. *)

AfterSync ==
  CASE call = "frame" -> "record" [] call = "update" -> "drop" [] OTHER -> "ready"

Current == synchronized /\ version = syncedVersion

SyncSkip ==
  /\ pc = "sync" /\ Current
  /\ pc' = AfterSync
  /\ UNCHANGED <<provider, manager, device, call, todo, item, old>>

SyncShaders ==
  /\ pc = "sync" /\ ~Current
  /\ shaders' = shaders \cup known
  /\ todo' = {m \in Materials : IsLoaded(m)}
  /\ pc' = "pass"
  /\ UNCHANGED <<provider, materials, textures, synchronized, syncedVersion, device, call, item, old>>

Visit(m) == pc = "pass" /\ m \in todo /\ todo' = todo \ {m}

\* A material whose shader is not known is left for a later pass.
SkipMaterial(m) ==
  /\ Visit(m) /\ ~Exists(m) /\ boundShader[m] \notin known
  /\ UNCHANGED <<provider, manager, device, pc, call, item, old>>

CreateMaterial(m) ==
  /\ Visit(m) /\ ~Exists(m) /\ boundShader[m] \in known
  /\ NewMaterial(m, m, boundShader[m], 0, poolUsed, {})
  /\ live' = live \cup {ImageOf(m, 0)}
  /\ UNCHANGED <<provider, shaders, textures, synchronized, syncedVersion,
                 objects, submitted, pc, call, item, old>>

\* Mutant: the blend mode is refreshed with the textures only.
KeepMaterialWhole(m) ==
  /\ Visit(m) /\ Exists(m) /\ materials[m].uploaded = content[m]
  /\ UNCHANGED <<provider, manager, device, pc, call, item, old>>

\* update(): the textures are those uploaded; the blend mode is refreshed.
KeepMaterial(m) ==
  /\ Visit(m) /\ Exists(m) /\ materials[m].uploaded = content[m]
  /\ materials' = [materials EXCEPT ![m].alpha = alpha[m]]
  /\ UNCHANGED <<provider, shaders, textures, synchronized, syncedVersion,
                 device, pc, call, item, old>>

\* Mutants: the sets are not given back to the pool; they are given back whether
\* or not there are any.
FreeSetsLeaks(id) == UNCHANGED poolUsed
FreeSetsAlways(id) == poolUsed' = poolUsed - 1

\* freeDescriptorSets()
FreeSets(id) ==
  poolUsed' = IF materials[id].sets THEN poolUsed - 1 ELSE poolUsed

\* update(): the sets are freed, then every texture waits for the transfers
\* before it is destroyed.
StartUpdate(m) ==
  /\ Visit(m) /\ Exists(m) /\ materials[m].uploaded # content[m]
  /\ materials' = [materials EXCEPT ![m].alpha = alpha[m], ![m].sets = FALSE]
  /\ FreeSets(m)
  /\ item' = m
  /\ StartDrain
  /\ UNCHANGED <<provider, shaders, textures, synchronized, syncedVersion, objects, live, call, old>>

FinishUpdate ==
  /\ Drained /\ item \in Materials /\ call # "close"
  /\ LET turn == 1 - materials[item].turn IN
       /\ NewMaterial(item, item, materials[item].shader, turn, poolUsed, {})
       /\ live' = (live \ {ImageOf(item, materials[item].turn)}) \cup {ImageOf(item, turn)}
  /\ pc' = "pass" /\ item' = NoMaterial
  /\ UNCHANGED <<provider, shaders, textures, synchronized, syncedVersion, objects, submitted, call, todo, old>>

\* Mutant: the pass counts as done for the next version too.
SyncTexturesAhead ==
  /\ pc = "pass" /\ todo = {}
  /\ textures' = textures \cup loaded
  /\ live' = live \cup {TextureImage(t) : t \in loaded}
  /\ batch' = batch \cup {TextureImage(t) : t \in loaded \ textures}
  /\ synchronized' = TRUE /\ syncedVersion' = version + 1
  /\ pc' = AfterSync
  /\ UNCHANGED <<provider, shaders, materials, objects, poolUsed, submitted, call, todo, item, old>>

\* The textures of the provider come last; then the version is recorded.
SyncTextures ==
  /\ pc = "pass" /\ todo = {}
  /\ textures' = textures \cup loaded
  /\ live' = live \cup {TextureImage(t) : t \in loaded}
  /\ batch' = batch \cup {TextureImage(t) : t \in loaded \ textures}
  /\ synchronized' = TRUE /\ syncedVersion' = version
  /\ pc' = AfterSync
  /\ UNCHANGED <<provider, shaders, materials, objects, poolUsed, submitted, call, todo, item, old>>

Sync ==
  \/ SyncSkip \/ SyncShaders \/ FinishUpdate \/ SyncTextures
  \/ \E m \in Materials :
       SkipMaterial(m) \/ CreateMaterial(m) \/ KeepMaterial(m) \/ StartUpdate(m)

-----------------------------------------------------------------------------
(* Engine's object calls. *)

\* GPUMesh: without vertices there are no buffers and nothing is uploaded.
BuffersOf(h, o) == IF o.empty THEN {} ELSE {BufferOf(h, o.turn)}

\* addMesh: a shader that is not the one of the material asks for a variant; one
\* the provider does not know is not used.
MaterialToUse(m, s) ==
  IF m \in Materials /\ s \notin {NoShader, boundShader[m]} /\ s \in known THEN <<m, s>> ELSE m

\* createMaterialVariant: a variant is made once per material and shader, from
\* what the provider holds at that time, and no pass visits it later.
\* addMesh goes on to upload the mesh, to register the object and to sync.
AddMesh(h, m, s, empty) ==
  /\ pc = "ready" /\ ~Held(h)
  /\ m \in Materials => IsLoaded(m)
  /\ LET id == MaterialToUse(m, s)
         o == [material |-> id, empty |-> empty, turn |-> 0] IN
       /\ objects' = [objects EXCEPT ![h] = o]
       /\ IF id \in Variants /\ ~Exists(id)
          THEN /\ NewMaterial(id, m, s, 0, poolUsed, BuffersOf(h, o))
               /\ live' = live \cup BuffersOf(h, o) \cup {ImageOf(id, 0)}
          ELSE /\ live' = live \cup BuffersOf(h, o)
               /\ batch' = batch \cup BuffersOf(h, o)
               /\ UNCHANGED <<materials, poolUsed>>
  /\ pc' = "sync" /\ call' = "add"
  /\ UNCHANGED <<provider, shaders, textures, synchronized, syncedVersion,
                 submitted, todo, item, old>>

\* createObject: a variant is never used.
CreateObject(h, m, empty) == AddMesh(h, m, NoShader, empty)

\* updateObject with as many vertices and indices: the vertices are uploaded
\* into the same buffer; the material and the indices of the object stay.
UpdateInPlace(h) ==
  /\ pc = "ready" /\ Held(h)
  /\ batch' = batch \cup BuffersOf(h, objects[h])
  /\ pc' = "sync" /\ call' = "add"
  /\ UNCHANGED <<provider, manager, objects, poolUsed, live, submitted, todo, item, old>>

\* updateObject with another mesh: a new object takes the handle; the caller
\* holds the old one until it has synced, and then it is destroyed.
Rebuild(h, m, empty) ==
  /\ pc = "ready" /\ Held(h)
  /\ m \in Materials => IsLoaded(m)
  /\ LET o == [material |-> m, empty |-> empty, turn |-> 1 - objects[h].turn] IN
       /\ objects' = [objects EXCEPT ![h] = o]
       /\ live' = live \cup BuffersOf(h, o)
       /\ batch' = batch \cup BuffersOf(h, o)
  /\ old' = BuffersOf(h, objects[h])
  /\ pc' = "sync" /\ call' = "update"
  /\ UNCHANGED <<provider, manager, poolUsed, submitted, todo, item>>

\* GPUMesh::cleanup: wait for the transfers, then destroy the buffers.
DropOld ==
  /\ pc = "drop"
  /\ item' = Meshes
  /\ StartDrain
  /\ UNCHANGED <<provider, manager, objects, poolUsed, live, call, todo, old>>

\* removeObject: the handle is free at once; the meshes wait, then go.
Remove(h) ==
  /\ pc = "ready" /\ Held(h)
  /\ objects' = [objects EXCEPT ![h] = NoObject]
  /\ old' = BuffersOf(h, objects[h])
  /\ pc' = "drop" /\ call' = "remove"
  /\ UNCHANGED <<provider, manager, poolUsed, live, batch, submitted, todo, item>>

\* Mutant: the buffers are dropped and not destroyed.
FinishDropLeaks ==
  /\ Drained /\ item = Meshes
  /\ old' = {}
  /\ pc' = (IF call = "close" THEN "release" ELSE "ready") /\ item' = NoMaterial
  /\ UNCHANGED <<provider, manager, objects, poolUsed, live, batch, submitted, call, todo>>

FinishDrop ==
  /\ Drained /\ item = Meshes
  /\ live' = live \ old /\ old' = {}
  /\ pc' = (IF call = "close" THEN "release" ELSE "ready") /\ item' = NoMaterial
  /\ UNCHANGED <<provider, manager, objects, poolUsed, batch, submitted, call, todo>>

Objects ==
  \/ \E h \in Handles, m \in Materials \cup {NoMaterial}, e \in BOOLEAN :
       \/ CreateObject(h, m, e)
       \/ Rebuild(h, m, e)
       \/ \E s \in Shaders : AddMesh(h, m, s, e)
  \/ \E h \in Handles : UpdateInPlace(h) \/ Remove(h)

-----------------------------------------------------------------------------
(* Frames, teardown and the queue. *)

\* drawFrame flushes the batch; the recording starts with a pass.
DrawFrame ==
  /\ pc = "ready" /\ Len(submitted) < MaxBatches
  /\ submitted' = Submitted(batch) /\ batch' = {}
  /\ pc' = "sync" /\ call' = "frame"
  /\ UNCHANGED <<provider, manager, objects, poolUsed, live, todo, item, old>>

\* recordCommandBuffer: pipelines exist for the shaders of the engine only.
Drawn(h) ==
  /\ Held(h) /\ ~objects[h].empty
  /\ objects[h].material # NoMaterial /\ Exists(objects[h].material)
  /\ materials[objects[h].material].shader \in EngineShaders
  /\ materials[objects[h].material].sets

Record ==
  /\ pc = "record" /\ pc' = "ready"
  /\ UNCHANGED <<provider, manager, device, call, todo, item, old>>

\* ~Engine: the device is idle, so what was submitted is done.
Close ==
  /\ pc = "ready" /\ submitted = <<>>
  /\ pc' = "release" /\ call' = "close"
  /\ UNCHANGED <<provider, manager, device, todo, item, old>>

\* RessourceManager::cleanup: every material, variants among them, frees its
\* sets and then its images, which wait for the transfers.
ReleaseMaterial(id) ==
  /\ pc = "release" /\ Exists(id)
  /\ FreeSets(id)
  /\ materials' = [materials EXCEPT ![id].sets = FALSE]
  /\ item' = id
  /\ StartDrain
  /\ UNCHANGED <<provider, shaders, textures, synchronized, syncedVersion,
                 objects, live, call, todo, old>>

FinishRelease ==
  /\ Drained /\ call = "close" /\ item \in Ids
  /\ materials' = [materials EXCEPT ![item] = NoGPUMaterial]
  /\ live' = live \ {ImageOf(item, materials[item].turn)}
  /\ pc' = "release" /\ item' = NoMaterial
  /\ UNCHANGED <<provider, shaders, textures, synchronized, syncedVersion,
                 objects, poolUsed, batch, submitted, call, todo, old>>

\* The textures of the manager follow, and its shaders.
ReleaseTextures ==
  /\ pc = "release" /\ (\A id \in Ids : ~Exists(id)) /\ textures # {}
  /\ item' = ProviderTextures
  /\ StartDrain
  /\ UNCHANGED <<provider, manager, objects, poolUsed, live, call, todo, old>>

FinishReleaseTextures ==
  /\ Drained /\ item = ProviderTextures
  /\ textures' = {} /\ live' = live \ {TextureImage(t) : t \in textures}
  /\ pc' = "release" /\ item' = NoMaterial
  /\ UNCHANGED <<provider, shaders, materials, synchronized, syncedVersion,
                 objects, poolUsed, batch, submitted, call, todo, old>>

ReleaseShaders ==
  /\ pc = "release" /\ (\A id \in Ids : ~Exists(id)) /\ textures = {} /\ shaders # {}
  /\ shaders' = {}
  /\ UNCHANGED <<provider, materials, textures, synchronized, syncedVersion, device, thread>>

\* Renderer::destroy: the objects, then the pool.
ReleaseObject(h) ==
  /\ pc = "release" /\ shaders = {} /\ Held(h)
  /\ objects' = [objects EXCEPT ![h] = NoObject]
  /\ old' = BuffersOf(h, objects[h])
  /\ item' = Meshes
  /\ StartDrain
  /\ UNCHANGED <<provider, manager, poolUsed, live, call, todo>>

Closed ==
  /\ pc = "release" /\ shaders = {} /\ \A h \in Handles : ~Held(h)
  /\ pc' = "closed"
  /\ UNCHANGED <<provider, manager, device, call, todo, item, old>>

Teardown ==
  \/ \E id \in Ids : ReleaseMaterial(id)
  \/ FinishRelease \/ ReleaseTextures \/ FinishReleaseTextures \/ ReleaseShaders
  \/ \E h \in Handles : ReleaseObject(h)
  \/ Closed

CompleteBatch ==
  /\ submitted # <<>>
  /\ submitted' = Tail(submitted)
  /\ UNCHANGED <<provider, manager, objects, poolUsed, live, batch, thread>>

Next ==
  \/ Provider \/ Sync \/ Objects \/ DropOld \/ FinishDrop
  \/ DrawFrame \/ Record \/ Close \/ Teardown
  \/ CompleteBatch

Spec == Init /\ [][Next]_vars

\* The application goes on drawing until it closes the engine.
FairSpec ==
  /\ Spec
  /\ WF_vars(Sync) /\ WF_vars(Record) /\ WF_vars(DropOld \/ FinishDrop)
  /\ WF_vars(DrawFrame \/ Close) /\ WF_vars(Teardown) /\ WF_vars(CompleteBatch)

-----------------------------------------------------------------------------
\* GPUTexture.cpp and GPUMesh.cpp, "block until pending uploads referencing
\* these buffers have completed": no image or buffer is destroyed while the
\* batch being recorded, or one the queue has not completed, still writes it.
TransfersLive ==
  batch \cup UNION {submitted[i] : i \in DOMAIN submitted} \subseteq live

\* Sets are neither leaked nor freed twice: the pool has given sets to exactly
\* the materials that hold some, whatever was updated, refused or released.
PoolExact == poolUsed = Cardinality({id \in Ids : Exists(id) /\ materials[id].sets})

\* RessourceManager.hpp:102, "to ensure that the GPU resources are up to date":
\* whatever a frame binds exists and was made from the textures and the blend
\* mode that the provider holds when the frame is recorded, and the uploads of
\* its meshes are ahead of the frame in the queue.  Those of an image are only
\* when no pass of this frame made it: the copies of an image that the pass of a
\* frame refreshes stay in batch until the next frame submits them, and the
\* frame reads it before they run (UploadsOrdered of DrawFrame).
BoundCurrent ==
  pc = "record" =>
    \A h \in Handles : Drawn(h) =>
      LET id == objects[h].material IN
        /\ BuffersOf(h, objects[h]) \cup {ImageOf(id, materials[id].turn)} \subseteq live
        /\ BuffersOf(h, objects[h]) \cap batch = {}
        /\ id \in Materials =>
             materials[id].uploaded = content[id] /\ materials[id].alpha = alpha[id]

\* A material the provider can bind and whose images or blend mode on the device
\* are not the provider's.  One that the pool has no sets for is not drawn at
\* all and is not stale here (PoolHasRoom).
Stale(m) ==
  /\ boundShader[m] \in known
  /\ Exists(m) => materials[m].uploaded # content[m] \/ materials[m].alpha # alpha[m]

\* An edit reaches the device, unless the engine is closed first.
EditsShown == \A m \in Materials : Stale(m) ~> ~Stale(m) \/ call = "close"

\* When the renderer is gone no image, buffer or set is left, and nothing that
\* is recorded or submitted names one.
NothingLeft == pc = "closed" => live = {} /\ poolUsed = 0 /\ batch = {} /\ submitted = <<>>
============================================================================
