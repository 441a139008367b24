---------------------------- MODULE MCMotionSkill ----------------------------
(* Instances of MotionSkill: every way to start the node. *)
EXTENDS MotionSkill

AllConfigs ==
  {c \in [mock : BOOLEAN, expect : BOOLEAN, synchronizer : BOOLEAN] : c.mock => ~c.synchronizer}
=============================================================================
