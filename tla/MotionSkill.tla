------------------------------ MODULE MotionSkill ------------------------------
(***************************************************************************)
(* Executions of the plan_motion skill against the node of SceneReadiness. *)
(* An Execute makes a ROS node and a client of its own, calls              *)
(* motion_planning/get_motion_plan once and gives up after its timeout.    *)
(* The node takes the request when its only executor thread is free, which *)
(* may be after the skill has gone; other clients call it as well.         *)
(*                                                                         *)
(* What the conversion of the timeout to int makes of a value that int     *)
(* cannot hold is not modelled: every wait may give up, and does.          *)
(***************************************************************************)
EXTENDS SceneReadiness

CONSTANT Executions

VARIABLES
  skill,           \* where an execution is
  request,         \* its request in the node, and what was answered
  success          \* what it has told its caller: none, error, no or yes

skillVars == <<skill, request, success>>

MotionInit ==
  /\ Init
  /\ skill = [e \in Executions |-> "idle"]
  /\ request = [e \in Executions |-> "unsent"]
  /\ success = [e \in Executions |-> "none"]

-----------------------------------------------------------------------------
(* The node's side. *)

TakeRequest(e) ==
  /\ request[e] = "queued"
  /\ MotionRequest
  /\ request' = [request EXCEPT ![e] = "taken"]
  /\ UNCHANGED <<skill, success>>

(* The answer is that of the gate, whether or not somebody waits for it. *)
AnswerRequest(e) ==
  /\ request[e] = "taken"
  /\ MotionAnswer
  /\ request' = [request EXCEPT ![e] = answer']
  /\ UNCHANGED <<skill, success>>

(* Another client's request. *)
OtherRequest ==
  /\ \/ MotionRequest
     \/ MotionAnswer /\ \A e \in Executions : request[e] # "taken"
  /\ UNCHANGED skillVars

-----------------------------------------------------------------------------
(* Execute. *)

SkillStep(e, at, next) ==
  /\ skill[e] = at
  /\ skill' = [skill EXCEPT ![e] = next]
  /\ UNCHANGED vars

Tells(e, what) == success' = [success EXCEPT ![e] = what]

(* The group must have a name, the timeout be greater than zero. *)
Execute(e) ==
  \/ SkillStep(e, "idle", "connect") /\ UNCHANGED <<request, success>>
  \/ SkillStep(e, "idle", "returned") /\ Tells(e, "error") /\ UNCHANGED request

(* The service is found as long as the node is there; its executor may have returned. *)
SendRequest(e) ==
  /\ main # "done"
  /\ SkillStep(e, "connect", "await")
  /\ request' = [request EXCEPT ![e] = "queued"]
  /\ UNCHANGED success

(* Mutation: that the service is not there is only logged. *)
ConnectIgnored(e) ==
  /\ SkillStep(e, "connect", "await")
  /\ UNCHANGED <<request, success>>

ConnectTimesOut(e) ==
  /\ SkillStep(e, "connect", "returned")
  /\ Tells(e, "error")
  /\ UNCHANGED request

(* Mutation: that there is an answer is taken for a plan. *)
ResponseUnchecked(e) ==
  /\ request[e] \in {"accepted", "rejected"}
  /\ SkillStep(e, "await", "returned")
  /\ Tells(e, "yes")
  /\ UNCHANGED request

(* The result's success is whether the answer's error code says so. *)
ResponseReturns(e) ==
  /\ request[e] \in {"accepted", "rejected"}
  /\ SkillStep(e, "await", "returned")
  /\ Tells(e, IF request[e] = "accepted" THEN "yes" ELSE "no")
  /\ UNCHANGED request

(* Mutation: the wait for the answer has no time limit. *)
ResponseAwaited(e) == FALSE

(* The request stays where it is; with the client its answer goes to nobody. *)
ResponseTimesOut(e) ==
  /\ SkillStep(e, "await", "returned")
  /\ Tells(e, "error")
  /\ UNCHANGED request

CallGetMotionPlan(e) ==
  SendRequest(e) \/ ConnectTimesOut(e) \/ ResponseReturns(e) \/ ResponseTimesOut(e)

-----------------------------------------------------------------------------
(* What the node does besides. *)
NodeStep ==
  /\ \/ MoveIt \/ Deliver \/ MoveItAnswers \/ ReadinessThread
     \/ GoalRequest \/ Interrupt \/ Main
  /\ UNCHANGED skillVars

MotionNext ==
  \/ NodeStep
  \/ OtherRequest
  \/ \E e \in Executions :
       \/ TakeRequest(e) \/ AnswerRequest(e)
       \/ Execute(e) \/ CallGetMotionPlan(e)

MotionSpec == MotionInit /\ [][MotionNext]_<<vars, skillVars>>

(***************************************************************************)
(* That of SceneReadiness; an Execute that has begun goes on, and the      *)
(* executor takes its events in the order in which they came, so that no   *)
(* request waits behind new ones for ever.                                 *)
(***************************************************************************)
MotionFairSpec ==
  /\ MotionSpec
  /\ Fairness
  /\ \A e \in Executions :
       /\ WF_<<vars, skillVars>>(CallGetMotionPlan(e))
       /\ SF_<<vars, skillVars>>(TakeRequest(e))

-----------------------------------------------------------------------------
(***************************************************************************)
(* Every variable stays in its set; the executor is in the handler of the  *)
(* request it has taken, and in no other; who has not sent one has none.   *)
(***************************************************************************)
MotionTypeOK ==
  /\ skill \in [Executions -> {"idle", "connect", "await", "returned"}]
  /\ request \in [Executions -> {"unsent", "queued", "taken", "accepted", "rejected"}]
  /\ success \in [Executions -> {"none", "error", "no", "yes"}]
  /\ \A e \in Executions :
       /\ request[e] = "taken" => executor = "motion"
       /\ skill[e] = "await" => request[e] # "unsent"
       /\ success[e] = "none" <=> skill[e] # "returned"
  /\ \A d, e \in Executions : request[d] = "taken" /\ request[e] = "taken" => d = e

(***************************************************************************)
(* A skill tells its caller of a plan only after MoveIt has had a          *)
(* populated scene, although the handler ignores a synchronization that    *)
(* fails and a shutdown raises scene_ready while requests are queued.      *)
(***************************************************************************)
PlannedIsPopulated ==
  \A e \in Executions :
    success[e] = "yes" /\ config.expect /\ ~config.mock => populated

(***************************************************************************)
(* A request that has come to the node is answered unless the node stops:  *)
(* no handler waits on the executor's only thread for what needs that      *)
(* thread, or for a scene that may never be there.                         *)
(***************************************************************************)
RequestsAreAnswered ==
  \A e \in Executions :
    request[e] = "queued" ~> request[e] \in {"accepted", "rejected"} \/ ~rosOk

(* Execute returns, although the node may stop with its request in the queue. *)
ExecuteReturns == \A e \in Executions : [](skill[e] = "connect" => <>(skill[e] = "returned"))
=============================================================================
