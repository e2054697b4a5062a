------------------------------ MODULE MCScene ------------------------------
(* Scene on render objects that differ where the recording looks. *)
EXTENDS Scene

Mesh(shader, material, geometry, blend, bounds, place, drawable) ==
  [shader |-> shader, material |-> material, geometry |-> geometry, blend |-> blend,
   bounds |-> bounds, place |-> place, drawable |-> drawable]

\* Two opaque meshes with one state at two places, one with another shader half
\* way between them, a blended one with the first shader and geometry, one without
\* bounds, and one that has no buffers.
SceneObjects ==
  {Mesh(1, 1, 1, FALSE, TRUE, 1, TRUE), Mesh(1, 1, 1, FALSE, TRUE, 7, TRUE),
   Mesh(2, 1, 1, FALSE, TRUE, 4, TRUE), Mesh(1, 2, 1, TRUE, TRUE, 4, TRUE),
   Mesh(1, 1, 0, FALSE, FALSE, 0, TRUE), Mesh(2, 2, 2, FALSE, TRUE, 4, FALSE)}

SceneForced == {{}, {1, 2}}
============================================================================
