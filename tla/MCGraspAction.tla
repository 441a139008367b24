---------------------------- MODULE MCGraspAction ----------------------------
(* Small instances of GraspAction: a box known by its entities, a tray known by its name. *)
EXTENDS GraspAction

CONSTANTS box, tray, box_whole, box_lid, tray_rim, g1, g2

(* tray_rim stands for "tray/rim": it matches "tray" by its prefix only. *)
Known ==
  [n \in Names |->
     CASE n = box -> <<{}, {}, {box_whole} \cap Ids, {box_whole, box_lid} \cap Ids>>
       [] n = tray -> <<{tray} \cap Ids, {tray} \cap Ids, {}, {tray_rim} \cap Ids>>
       [] OTHER -> <<{}, {}, {}, {}>>]
Wholes == [t \in Targets |-> IF t = box THEN box_whole ELSE NoId]

(* One goal for both objects, the others for the tray alone. *)
PoolAndTray == [g \in Goals |-> IF g = g1 THEN <<box, tray>> ELSE <<tray>>]

TwoGrasps == [g \in Goals |-> 2]
=============================================================================
