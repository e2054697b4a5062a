------------------------------ MODULE DrawList ------------------------------
(***************************************************************************)
(* Renderer::recordCommandBuffer for one view: the draws of a frame are    *)
(* culled, keyed, sorted and recorded.  Consecutive draws with the same    *)
(* state may be merged into one instanced draw; with indirect drawing a    *)
(* draw becomes a command in a buffer and is executed later, when the      *)
(* bound state is about to change or the list ends.                        *)
(*                                                                         *)
(* A mesh is a record of what the recording looks at: its shader, material *)
(* and geometry, whether the material blends, whether it has what a draw   *)
(* needs (material, pipeline, buffers, descriptor set), whether it has     *)
(* bounds, and its place on a line.  The camera looks up the line.         *)
(***************************************************************************)
EXTENDS Naturals, Sequences, FiniteSets

CONSTANTS
  Cameras,       \* places of the camera
  Limits,        \* values of _maxDrawDistance, 0 for none
  ForcedShaders, \* sets of shaders that setShaderBlendMode makes blend
  MinInstances,  \* MAX_INSTANCES_PER_VIEW
  MaxCommands,   \* MAX_INDIRECT_COMMANDS_PER_VIEW
  Buckets,       \* kOpaqueDepthBucketCount
  Unbound        \* no pipeline, descriptor set or buffer

UnknownDepth == 1000  \* kUnknownDepth, past every distance

ASSUME DrawAssumption ==
  /\ MinInstances \in Nat \ {0} /\ MaxCommands \in Nat /\ Buckets \in Nat \ {0}
  /\ Cameras \subseteq 0 .. UnknownDepth - 1

\* Identifiers are numbers, and places are nearer than kUnknownDepth.
IsMesh(mesh) ==
  /\ {mesh.shader, mesh.material, mesh.geometry} \subseteq Nat
  /\ mesh.place \in 0 .. UnknownDepth - 1
  /\ {mesh.blend, mesh.bounds, mesh.drawable} \subseteq BOOLEAN

VARIABLES
  recording,  \* a command buffer is being recorded
  merging,    \* _mergeIdenticalRuns
  indirect,   \* _indirectDrawingEnabled
  list,       \* the sorted draw list
  next,       \* position of the next draw of the list
  bound,      \* what the command buffer has bound last
  capacity,   \* _instanceCapacity of the frame
  instances,  \* transforms written, in slots 1, 2...
  commands,   \* indirect commands written
  pending,    \* how many of them no vkCmdDrawIndexedIndirect covers yet
  executed    \* the draws in the order the GPU runs them

drawVars == <<recording, merging, indirect, list, next, bound, capacity, instances,
              commands, pending, executed>>

DrawInit ==
  /\ recording = FALSE /\ merging = FALSE /\ indirect = FALSE
  /\ list = <<>> /\ next = 1 /\ bound = Unbound
  /\ capacity = MinInstances /\ instances = <<>>
  /\ commands = <<>> /\ pending = 0 /\ executed = <<>>

-----------------------------------------------------------------------------
(* EvanPlatform.hpp and RenderSettings.hpp *)

\* Mutant: one doubling is enough.
NextCapacityOnce(required, current) ==
  LET from == IF current > MinInstances THEN current ELSE MinInstances IN
    IF from >= required THEN from ELSE 2 * from

\* nextInstanceCapacity: double until the request fits.
NextCapacity(required, current) ==
  LET from == IF current > MinInstances THEN current ELSE MinInstances
      Doubled[n \in Nat] == IF n = 0 THEN from ELSE 2 * Doubled[n - 1] IN
    Doubled[CHOOSE n \in 0 .. required :
              Doubled[n] >= required /\ \A k \in 0 .. n - 1 : Doubled[k] < required]

\* opaqueDepthBucket: unknown depths go past the last bucket; the far end of the
\* range is in the last one.
DepthBucket(depth, nearest, span) ==
  IF span = 0 \/ depth < nearest \/ depth = UnknownDepth THEN Buckets
  ELSE IF depth - nearest >= span THEN Buckets - 1
  ELSE ((depth - nearest) * Buckets) \div span

\* The lexicographic order of keys.
Less(p, q) ==
  \E i \in DOMAIN p : p[i] < q[i] /\ \A j \in 1 .. i - 1 : p[j] = q[j]

\* Mutant: blended draws are grouped by state before they are ordered by depth.
SortKeyByState(x) ==
  <<IF x.blend THEN 1 ELSE 0, IF x.blend THEN 0 ELSE x.bucket,
    x.mesh.shader, x.mesh.material, x.mesh.geometry, x.sequence>>

\* DrawSortKey and drawSortKeyLess: blended draws last and from far to near, opaque
\* ones by bucket; then by state, and by position in the end.
SortKey(x) ==
  <<IF x.blend THEN 1 ELSE 0, IF x.blend THEN UnknownDepth - x.depth ELSE x.bucket,
    x.mesh.shader, x.mesh.material, x.mesh.geometry, x.sequence>>

KeyLess(a, b) ==
  LET p == SortKey(a)
      q == SortKey(b)
  IN Less(p, q)

-----------------------------------------------------------------------------
(* The draw list *)

Distance(mesh, camera) ==
  IF mesh.place > camera THEN mesh.place - camera ELSE camera - mesh.place

\* A mesh without bounds is never culled, and none is when culling is off.
Culled(mesh, camera, culling, limit) ==
  /\ culling /\ mesh.bounds
  /\ \/ limit > 0 /\ Distance(mesh, camera) > limit
     \/ mesh.place < camera

Depth(mesh, camera) == IF mesh.bounds THEN Distance(mesh, camera) ELSE UnknownDepth

\* The items of the list before they have buckets; the sequence number is the
\* position of the mesh in the scene.
Items(meshes, camera, culling, limit, forced) ==
  {[mesh |-> meshes[i], sequence |-> i, depth |-> Depth(meshes[i], camera),
    blend |-> meshes[i].blend \/ meshes[i].shader \in forced, bucket |-> 0] :
     i \in {k \in DOMAIN meshes : ~Culled(meshes[k], camera, culling, limit) /\ meshes[k].drawable}}

\* The bucket is relative to the range of the depths in the list.
WithBuckets(items, frontToBack) ==
  LET depths == {x.depth : x \in items}
      nearest == CHOOSE d \in depths : \A e \in depths : d <= e
      finite == (depths \ {UnknownDepth}) \cup {0}
      farthest == CHOOSE d \in finite : \A e \in finite : e <= d
      span == IF farthest > nearest THEN farthest - nearest ELSE 0
  IN {[x EXCEPT !.bucket =
         IF frontToBack /\ span > 0 THEN DepthBucket(x.depth, nearest, span) ELSE 0] : x \in items}

\* What std::sort makes of the items: the arrangement in which each one is less
\* than those after it.
Sorted(items) ==
  {s \in [1 .. Cardinality(items) -> items] : \A i, j \in DOMAIN s : i < j => KeyLess(s[i], s[j])}

\* drawFrame makes room for every registered mesh, then the list is built.
StartRecording(meshes, camera, culling, limit, forced, frontToBack, merge, indirectly) ==
  /\ ~recording /\ recording' = TRUE
  /\ merging' = merge /\ indirect' = indirectly
  /\ capacity' = NextCapacity(Len(meshes), capacity)
  /\ list' \in Sorted(WithBuckets(Items(meshes, camera, culling, limit, forced), frontToBack))
  /\ next' = 1 /\ bound' = Unbound
  /\ instances' = <<>> /\ commands' = <<>> /\ pending' = 0 /\ executed' = <<>>

-----------------------------------------------------------------------------
(* The recording *)

\* The pipeline follows from the shader and the blend mode, the descriptor set
\* from the material.
StateOf(x) ==
  [shader |-> x.mesh.shader, blend |-> x.blend, material |-> x.mesh.material,
   geometry |-> x.mesh.geometry]

\* Opaque and blended draws are two passes; each starts from unbound state.
PassEnd(i) ==
  IF list[i].blend THEN Len(list)
  ELSE CHOOSE n \in i .. Len(list) :
         /\ \A k \in i .. n : ~list[k].blend
         /\ n = Len(list) \/ list[n + 1].blend

SameRun(x, y) ==
  x.mesh.shader = y.mesh.shader /\ x.mesh.material = y.mesh.material /\ x.mesh.geometry = y.mesh.geometry

\* A run: consecutive draws of one pass with the same state.
RunEnd(i) ==
  IF ~merging THEN i
  ELSE CHOOSE n \in i .. PassEnd(i) :
         /\ \A k \in i .. n : SameRun(list[i], list[k])
         /\ n = PassEnd(i) \/ ~SameRun(list[i], list[n + 1])

StartsPass(i) == i = 1 \/ list[i - 1].blend # list[i].blend

\* flushIndirect(): the commands not yet executed run with what is bound now.
Flushed ==
  IF ~indirect THEN <<>>
  ELSE [k \in 1 .. pending |->
          [commands[Len(commands) - pending + k] EXCEPT !.state = bound]]

\* Mutant: the commands are not flushed before the state changes.
FlushAtEndOnly(i) == <<>>

\* They are flushed when the next draw changes the state.
FlushBefore(i) ==
  IF StartsPass(i) \/ bound # StateOf(list[i]) THEN Flushed ELSE <<>>

\* emitDraw(): a command while there is room for one, else a draw at once.
RecordRun ==
  /\ recording /\ next <= Len(list)
  /\ LET n == RunEnd(next)
         size == n - next + 1
         flushed == FlushBefore(next)
         draw == [first |-> Len(instances) + 1, count |-> size, state |-> StateOf(list[next])]
         deferred == indirect /\ Len(commands) < MaxCommands
         left == IF flushed = <<>> THEN pending ELSE 0
     IN /\ bound' = StateOf(list[next])
        /\ next' = n + 1
        /\ IF Len(instances) + size > capacity
           THEN /\ executed' = executed \o flushed /\ pending' = left
                /\ UNCHANGED <<instances, commands>>
           ELSE /\ instances' = instances \o [k \in 1 .. size |-> list[next + k - 1]]
                /\ commands' = IF deferred THEN Append(commands, draw) ELSE commands
                /\ pending' = IF deferred THEN left + 1 ELSE left
                /\ executed' = executed \o flushed \o (IF deferred THEN <<>> ELSE <<draw>>)
  /\ UNCHANGED <<recording, merging, indirect, list, capacity>>

\* The end of the list: the last commands, then the end of the render pass.
EndRecording ==
  /\ recording /\ next > Len(list)
  /\ executed' = executed \o Flushed
  /\ recording' = FALSE /\ pending' = 0
  /\ UNCHANGED <<merging, indirect, list, next, bound, capacity, instances, commands>>

-----------------------------------------------------------------------------
\* A finished frame.
Recorded == ~recording /\ next > 1

\* The instances a draw of the GPU covers, by their slots.
Span(draw) == draw.first .. draw.first + draw.count - 1

\* Instance i of the draw at position k is drawn before instance j of the one at l.
DrawnBefore(k, i, l, j) == k < l \/ (k = l /\ i < j)

\* EvanPlatform.hpp:329, "no mesh is ever dropped for lack of a transform slot":
\* every draw of the list runs exactly once and reads its own transform, however
\* runs are merged, commands deferred and the instance buffer grown.
DrawnOnce ==
  Recorded =>
    /\ \A k \in DOMAIN executed : \A i \in Span(executed[k]) :
         i \in DOMAIN list /\ i \in DOMAIN instances /\ instances[i] = list[i]
    /\ \A i \in DOMAIN list : \E k \in DOMAIN executed :
         /\ i \in Span(executed[k])
         /\ \A l \in DOMAIN executed : i \in Span(executed[l]) => l = k

\* A draw runs with the pipeline, material and geometry of each of its meshes,
\* deferred or not: nothing else is bound between a command and its execution.
DrawnWithOwnState ==
  \A k \in DOMAIN executed :
    \A j \in Span(executed[k]) : executed[k].state = StateOf(instances[j])

\* The draw became a command.
Deferred(d) == \E n \in DOMAIN commands : commands[n].first = d.first

\* A draw that finds the command buffer full is made at once, ahead of the commands
\* not yet executed, which have its state: for another one they would have run.
Overtakes(d, e) ==
  /\ indirect /\ ~merging /\ Len(commands) >= MaxCommands
  /\ d.state = e.state /\ ~Deferred(d) /\ Deferred(e)

\* RenderSettings.hpp:176-178, "opaque draws come first [...] front-to-back by depth
\* bucket. Blended draws follow [...] back-to-front by exact distance": whatever
\* is deferred, no blended draw runs before an opaque one; nor before one behind
\* it, and no opaque draw before one that is nearer by more than a bucket is wide,
\* but for a draw that overtakes deferred ones of its own state.
DrawOrder(frontToBack) ==
  Recorded =>
    \A k, l \in DOMAIN executed :
      \A i \in Span(executed[k]), j \in Span(executed[l]) :
        DrawnBefore(k, i, l, j) =>
          LET a == instances[i] b == instances[j] IN
            /\ ~(a.blend /\ ~b.blend)
            /\ ~Overtakes(executed[k], executed[l]) =>
                 /\ a.blend => a.depth >= b.depth
                 /\ (~b.blend /\ frontToBack /\ a.depth > b.depth) =>
                      LET known == {list[n].depth : n \in DOMAIN list} \ {UnknownDepth}
                          far == CHOOSE d \in known : \A e \in known : e <= d
                          near == CHOOSE d \in known : \A e \in known : d <= e
                      IN far = near \/ (a.depth # UnknownDepth /\ (a.depth - b.depth) * Buckets <= far - near)
============================================================================
