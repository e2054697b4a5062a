------------------------------- MODULE Scene -------------------------------
(***************************************************************************)
(* The renderer's scene: the registry of render objects and the frames     *)
(* drawn from it.  Objects are added, updated and removed between frames,  *)
(* never while one is recorded: the engine runs on one thread.             *)
(***************************************************************************)
EXTENDS ObjectRegistry, DrawList

CONSTANT FrontToBack  \* _opaqueSortMode, set once by the engine

ASSUME SceneAssumption == FrontToBack \in BOOLEAN /\ \A o \in Objects : IsMesh(o)

sceneVars == <<vars, drawVars>>

SceneInit == Init /\ DrawInit

\* forEach: the meshes of the objects, in the order of their slots.
Meshes ==
  LET Rank(i) == Cardinality({k \in Occupied : k <= i})
  IN [n \in 1 .. Cardinality(Occupied) |-> slots[CHOOSE i \in Occupied : Rank(i) = n].object]

\* What setCullingEnabled, setMaxDrawDistance, setShaderBlendMode,
\* setInstancingEnabled and setIndirectDrawingEnabled left is any of the inputs.
StartFrame ==
  \E camera \in Cameras, forced \in ForcedShaders, culling, merge, indirectly \in BOOLEAN :
    \E limit \in {l \in Limits : culling \/ l = 0} :  \* without culling none is looked at
      StartRecording(Meshes, camera, culling, limit, forced, FrontToBack, merge, indirectly)

\* The command buffer is submitted and the scratch lists are reused.
EndFrame ==
  /\ Recorded
  /\ recording' = FALSE /\ merging' = FALSE /\ indirect' = FALSE
  /\ list' = <<>> /\ next' = 1 /\ bound' = Unbound
  /\ instances' = <<>> /\ commands' = <<>> /\ pending' = 0 /\ executed' = <<>>
  /\ UNCHANGED capacity

SceneNext ==
  \/ ~recording /\ ~Recorded /\ Next /\ UNCHANGED drawVars
  \/ ~Recorded /\ StartFrame /\ UNCHANGED vars
  \/ (RecordRun \/ EndRecording \/ EndFrame) /\ UNCHANGED vars

SceneSpec == SceneInit /\ [][SceneNext]_sceneVars

-----------------------------------------------------------------------------
\* DrawOrder, for the order the engine chose.
SceneDrawOrder == DrawOrder(FrontToBack)
============================================================================
