---------------------------- MODULE GoalLifecycle ----------------------------
(***************************************************************************)
(* What a client of the PlanGrasps action may rely on, whatever the server *)
(* does inside: a goal is rejected at once or runs, it ends exactly once,  *)
(* "canceled" only follows a cancel request, a goal that succeeds brings   *)
(* between one and Limit[g] grasps, and every goal that runs ends.         *)
(***************************************************************************)
EXTENDS Naturals

CONSTANTS
  Goals,
  Limit            \* how many grasps a goal may bring at most, one or more

VARIABLES
  status,          \* of each goal
  size             \* number of grasps a succeeded goal brought

Ended == {"succeeded", "aborted", "canceled"}

Init ==
  /\ status = [g \in Goals |-> "unsent"]
  /\ size = [g \in Goals |-> 0]

Step(g, from, to) ==
  /\ status[g] \in from
  /\ status' = [status EXCEPT ![g] = to]

Answer(g) == Step(g, {"unsent"}, "executing") \/ Step(g, {"unsent"}, "rejected")
AcceptCancel(g) == Step(g, {"executing"}, "canceling")

Succeed(g) ==
  /\ Step(g, {"executing", "canceling"}, "succeeded")
  /\ \E n \in 1 .. Limit[g] : size' = [size EXCEPT ![g] = n]

GiveUp(g) ==
  /\ Step(g, {"executing", "canceling"}, "aborted") \/ Step(g, {"canceling"}, "canceled")
  /\ UNCHANGED size

End(g) == Succeed(g) \/ GiveUp(g)

Next ==
  \E g \in Goals : \/ (Answer(g) \/ AcceptCancel(g)) /\ UNCHANGED size
                   \/ End(g)

Spec == Init /\ [][Next]_<<status, size>> /\ \A g \in Goals : WF_<<status, size>>(End(g))
=============================================================================
