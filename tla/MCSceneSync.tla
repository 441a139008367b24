----------------------------- MODULE MCSceneSync -----------------------------
(* Small instances of SceneSync: a box with up to three collision geometries, a tool. *)
EXTENDS SceneSync

CONSTANTS box, tool, box_link, tool_link, box_hull, box_peg, box_cone, tool_hull

OnlyBox == [f \in {box_link} |-> box]
BoxAndTool == [f \in {box_link, tool_link} |-> IF f = box_link THEN box ELSE tool]
Hulls == [m \in Meshes |-> IF m = tool_hull THEN tool_link ELSE box_link]
=============================================================================
