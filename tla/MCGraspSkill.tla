----------------------------- MODULE MCGraspSkill -----------------------------
EXTENDS GraspSkill, TLC

CONSTANTS e1, e2, e3, e4, f1, f2, f3

(***************************************************************************)
(* e1 moves a pair of frames, e2 is begun after e1 and given the same      *)
(* pair, e3 is begun after both and given their grasp frame with another   *)
(* approach.  e4 is begun after e1, at the same time as the others, and    *)
(* its only frame is the approach of e3.                                   *)
(***************************************************************************)
MCGraspFrame == (e1 :> f1) @@ (e2 :> f1) @@ (e3 :> f1) @@ (e4 :> f3)
MCPregraspFrame == (e1 :> f2) @@ (e2 :> f2) @@ (e3 :> f3) @@ (e4 :> NoFrame)
MCEarlier == (e1 :> {}) @@ (e2 :> {e1}) @@ (e3 :> {e1, e2}) @@ (e4 :> {e1})
MCLimit == [e \in Executions |-> 1]
=============================================================================
