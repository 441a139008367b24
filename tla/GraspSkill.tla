------------------------------ MODULE GraspSkill ------------------------------
(***************************************************************************)
(* Executions of the plan_grasps skill, each a client of the PlanGrasps    *)
(* action of its own.  An Execute sends one goal, waits for its result     *)
(* and moves the frames it was given in the World to the best grasp.       *)
(* Every wait may give up: the goal, its answer and the cancel request are *)
(* then still on their way, and the server does as it likes with them.     *)
(*                                                                         *)
(* Of the server only what GoalLifecycle promises is used; GraspAction is  *)
(* shown to keep that promise.  A server that dies is one whose answers    *)
(* never arrive in time.                                                   *)
(***************************************************************************)
EXTENDS Naturals

CONSTANTS
  Executions,      \* each is also the goal it sends
  Limit,           \* max_num_grasps of the goals
  Frames,          \* frames in the World
  NoFrame,
  GraspFrame,      \* output_grasp_frame of an execution, or NoFrame
  PregraspFrame,   \* output_pregrasp_frame
  Earlier,         \* executions whose end the client waits for before it begins this one
  NoOne

ASSUME ExecutionsAssumption ==
  /\ Limit \in [Executions -> Nat \ {0}]
  /\ GraspFrame \in [Executions -> Frames \cup {NoFrame}]
  /\ PregraspFrame \in [Executions -> Frames \cup {NoFrame}]
  /\ Earlier \in [Executions -> SUBSET Executions]
  /\ NoFrame \notin Frames
  /\ NoOne \notin Executions

VARIABLES
  status, size,    \* the goals in the server
  net,             \* requests on their way to the server
  frames,          \* whose grasp a frame of the World was moved to
  pc,
  code             \* what Execute returns

serverVars == <<status, size>>
vars == <<serverVars, net, frames, pc, code>>

Server == INSTANCE GoalLifecycle WITH Goals <- Executions

Requests == [kind : {"goal", "cancel"}, goal : Executions]
Goal(e) == [kind |-> "goal", goal |-> e]
Cancel(e) == [kind |-> "cancel", goal |-> e]

Init ==
  /\ Server!Init
  /\ net = {}
  /\ frames = [f \in Frames |-> [of |-> NoOne, pose |-> "before"]]
  /\ pc = [e \in Executions |-> "idle"]
  /\ code = [e \in Executions |-> "NONE"]

-----------------------------------------------------------------------------
(* The server, and the way to it. *)

HandleGoal(e) ==
  /\ Goal(e) \in net
  /\ net' = net \ {Goal(e)}
  /\ Server!Answer(e)
  /\ UNCHANGED <<size, frames, pc, code>>

(* rclcpp_action refuses to cancel what has ended or was never accepted. *)
HandleCancel(e) ==
  /\ Cancel(e) \in net
  /\ net' = net \ {Cancel(e)}
  /\ IF status[e] = "executing" THEN Server!AcceptCancel(e) ELSE UNCHANGED status
  /\ UNCHANGED <<size, frames, pc, code>>

GoalEnds(e) ==
  /\ Server!End(e)
  /\ UNCHANGED <<net, frames, pc, code>>

Lose ==
  /\ \E r \in net : net' = net \ {r}
  /\ UNCHANGED <<serverVars, frames, pc, code>>

-----------------------------------------------------------------------------
(* Execute. *)

At(e, place) == pc[e] = place /\ UNCHANGED serverVars

Go(e, next) == pc' = [pc EXCEPT ![e] = next] /\ UNCHANGED code

Return(e, c) ==
  /\ pc' = [pc EXCEPT ![e] = "returned"]
  /\ code' = [code EXCEPT ![e] = c]

(* Without candidates there is no call. *)
Execute(e) ==
  /\ At(e, "idle")
  /\ \A d \in Earlier[e] : pc[d] = "returned"
  /\ Go(e, "connect") \/ Return(e, "INVALID_ARGUMENT")
  /\ UNCHANGED <<net, frames>>

Connect(e) ==
  /\ At(e, "connect")
  /\ Go(e, "send")
  /\ net' = net \cup {Goal(e)}
  /\ UNCHANGED frames

ConnectTimesOut(e) ==
  /\ At(e, "connect")
  /\ Return(e, "UNAVAILABLE")
  /\ UNCHANGED <<net, frames>>

(* The goal's answer arrives. *)
SendReturns(e) ==
  /\ At(e, "send")
  /\ status[e] # "unsent"
  /\ IF status[e] = "rejected" THEN Return(e, "FAILED_PRECONDITION") ELSE Go(e, "result")
  /\ UNCHANGED <<net, frames>>

(* Mutation: the wait for the goal's answer has no time limit. *)
SendWaits(e) == FALSE

(* It does not: the goal may be accepted later, and nobody cancels it. *)
SendTimesOut(e) ==
  /\ At(e, "send")
  /\ Return(e, "DEADLINE_EXCEEDED")
  /\ UNCHANGED <<net, frames>>

UpdatesFrames(e) == GraspFrame[e] # NoFrame \/ PregraspFrame[e] # NoFrame

(* Mutation: whether there is a pregrasp frame is not asked. *)
AfterGraspBoth(e) == Go(e, "pregraspNode")

(* What is to be done once the first of the frames is, or need not be, updated. *)
AfterGrasp(e) == IF PregraspFrame[e] # NoFrame THEN Go(e, "pregraspNode") ELSE Return(e, "OK")

(* Mutation: the error code is not asked; an aborted goal may bring grasps, too. *)
AbortedUnchecked(e) ==
  /\ status[e] = "aborted"
  /\ IF UpdatesFrames(e) THEN Go(e, "object") ELSE Return(e, "OK")

(***************************************************************************)
(* The goal ended.  An aborted goal has an error code of MoveIt; a         *)
(* succeeded one has grasps, whose joint solutions are checked.            *)
(***************************************************************************)
Aborted(e) ==
  /\ status[e] = "aborted"
  /\ \E c \in {"INTERNAL", "NOT_FOUND"} : Return(e, c)

ResultReturns(e) ==
  /\ At(e, "result")
  /\ \/ Aborted(e)
     \/ status[e] = "canceled" /\ Return(e, "CANCELLED")
     \/ status[e] = "succeeded" /\ Return(e, "INTERNAL")
     \/ status[e] = "succeeded" /\ IF UpdatesFrames(e) THEN Go(e, "object") ELSE Return(e, "OK")
  /\ UNCHANGED <<net, frames>>

(* Mutation: whatever goals the server has are to be canceled. *)
ResultTimesOutCancelsAll(e) ==
  /\ At(e, "result")
  /\ net' = net \cup {Cancel(d) : d \in Executions}
  /\ Return(e, "DEADLINE_EXCEEDED")
  /\ UNCHANGED frames

(* A cancel request is sent, whose answer nobody waits for. *)
ResultTimesOut(e) ==
  /\ At(e, "result")
  /\ net' = net \cup {Cancel(e)}
  /\ Return(e, "DEADLINE_EXCEEDED")
  /\ UNCHANGED frames

(* GetObject and GetTransformNode: what the client names may be gone from the World. *)
ResolveObject(e) ==
  /\ At(e, "object")
  /\ Go(e, IF GraspFrame[e] # NoFrame THEN "graspNode" ELSE "pregraspNode")
     \/ Return(e, "NOT_FOUND")
  /\ UNCHANGED <<net, frames>>

ResolveFrame(e, node, update) ==
  /\ At(e, node)
  /\ Go(e, update) \/ Return(e, "NOT_FOUND")
  /\ UNCHANGED <<net, frames>>

Moved(frame, e, pose) == [frames EXCEPT ![frame] = [of |-> e, pose |-> pose]]

(* The call fails, before or after the World has done what it asks for. *)
UpdateFails(e, frame, pose) ==
  /\ frames' \in {frames, Moved(frame, e, pose)}
  /\ Return(e, "INTERNAL")

(* Mutation: a failed update is only logged. *)
UpdateGraspFrameGoesOn(e) ==
  /\ At(e, "graspUpdate")
  /\ frames' \in {frames, Moved(GraspFrame[e], e, "grasp")}
  /\ AfterGrasp(e)
  /\ UNCHANGED net

(* UpdateTransform of the output grasp frame. *)
UpdateGraspFrame(e) ==
  /\ At(e, "graspUpdate")
  /\ \/ frames' = Moved(GraspFrame[e], e, "grasp") /\ AfterGrasp(e)
     \/ UpdateFails(e, GraspFrame[e], "grasp")
  /\ UNCHANGED net

(* Mutation: the status of the second update is only logged. *)
UpdatePregraspUnchecked(e) ==
  /\ At(e, "pregraspUpdate")
  /\ frames' \in {frames, Moved(PregraspFrame[e], e, "pregrasp")}
  /\ Return(e, "OK")
  /\ UNCHANGED net

UpdatePregraspFrame(e) ==
  /\ At(e, "pregraspUpdate")
  /\ \/ frames' = Moved(PregraspFrame[e], e, "pregrasp") /\ Return(e, "OK")
     \/ UpdateFails(e, PregraspFrame[e], "pregrasp")
  /\ UNCHANGED net

CallGraspPlanningAction(e) ==
  \/ Connect(e) \/ ConnectTimesOut(e)
  \/ SendReturns(e) \/ SendTimesOut(e)
  \/ ResultReturns(e) \/ ResultTimesOut(e)

UpdateWorld(e) ==
  \/ ResolveObject(e)
  \/ ResolveFrame(e, "graspNode", "graspUpdate") \/ UpdateGraspFrame(e)
  \/ ResolveFrame(e, "pregraspNode", "pregraspUpdate") \/ UpdatePregraspFrame(e)

-----------------------------------------------------------------------------
Next ==
  \/ Lose
  \/ \E e \in Executions :
       \/ HandleGoal(e) \/ HandleCancel(e) \/ GoalEnds(e)
       \/ Execute(e) \/ CallGraspPlanningAction(e) \/ UpdateWorld(e)

Spec == Init /\ [][Next]_vars

(* An execution that has begun goes on; the server need not answer. *)
FairSpec ==
  Spec /\ \A e \in Executions : WF_vars(CallGraspPlanningAction(e) \/ UpdateWorld(e))

-----------------------------------------------------------------------------
Codes ==
  {"NONE", "OK", "INVALID_ARGUMENT", "UNAVAILABLE", "DEADLINE_EXCEEDED",
   "FAILED_PRECONDITION", "CANCELLED", "INTERNAL", "NOT_FOUND"}

Waiting == {"idle", "connect", "send", "result"}
Updating == {"object", "graspNode", "graspUpdate", "pregraspNode", "pregraspUpdate"}

(***************************************************************************)
(* Every variable stays in its set, a frame the client did not name is     *)
(* never asked for, and a code is returned by who has returned.            *)
(***************************************************************************)
TypeOK ==
  /\ status \in [Executions -> {"unsent", "rejected", "executing", "canceling",
                                "succeeded", "aborted", "canceled"}]
  /\ size \in [Executions -> Nat]
  /\ net \subseteq Requests
  /\ frames \in [Frames -> [of : Executions \cup {NoOne}, pose : {"before", "grasp", "pregrasp"}]]
  /\ pc \in [Executions -> Waiting \cup Updating \cup {"returned"}]
  /\ code \in [Executions -> Codes]
  /\ \A e \in Executions :
       /\ pc[e] = "object" => UpdatesFrames(e)
       /\ pc[e] \in {"graspNode", "graspUpdate"} => GraspFrame[e] # NoFrame
       /\ pc[e] \in {"pregraspNode", "pregraspUpdate"} => PregraspFrame[e] # NoFrame
       /\ code[e] = "NONE" <=> pc[e] # "returned"

(***************************************************************************)
(* Frames of the World are only ever moved to grasps of a goal that        *)
(* succeeded: not to what an aborted goal had found, nor by an execution   *)
(* that has given its goal up.                                             *)
(***************************************************************************)
FramesFromSucceededPlans ==
  \A f \in Frames : frames[f].of # NoOne =>
    status[frames[f].of] = "succeeded" /\ code[frames[f].of] # "DEADLINE_EXCEEDED"

(***************************************************************************)
(* Frames may be used again: by executions that come after one another,    *)
(* or at the same time.                                                    *)
(***************************************************************************)
Targets(e) == {GraspFrame[e], PregraspFrame[e]} \ {NoFrame}

Sharing(e) == {d \in Executions \ {e} : Targets(d) \cap Targets(e) # {}}

(* e has its frames to itself as long as it runs. *)
Exclusive(e) ==
  /\ GraspFrame[e] = NoFrame \/ GraspFrame[e] # PregraspFrame[e]
  /\ \A d \in Sharing(e) : d \in Earlier[e] \/ e \in Earlier[d]

Has(frame, e, pose) == frame # NoFrame => frames[frame] = [of |-> e, pose |-> pose]

(* No later execution has come to update the frames of e. *)
NotUsedAgain(e) ==
  \A d \in Sharing(e) : e \in Earlier[d] => pc[d] \in Waiting \/ status[d] # "succeeded"

(***************************************************************************)
(* When Execute says OK, each of its frames stands where its best grasp    *)
(* wants it, whatever earlier executions left there, until the plan of a   *)
(* later one with these frames has succeeded.                              *)
(***************************************************************************)
OkMeansBothFrames ==
  \A e \in Executions :
    /\ Exclusive(e)
    /\ code[e] = "OK"
    /\ NotUsedAgain(e)
    => Has(GraspFrame[e], e, "grasp") /\ Has(PregraspFrame[e], e, "pregrasp")

SamePair(d, e) == GraspFrame[d] = GraspFrame[e] /\ PregraspFrame[d] = PregraspFrame[e]

(* d is about to move its approach, too, or has said that it failed. *)
NotSettled(d) ==
  pc[d] \in {"pregraspNode", "pregraspUpdate"} \/ code[d] \in {"NOT_FOUND", "INTERNAL"}

(* A later execution has moved the grasp frame of e, and nobody says that the pair is done. *)
MovedAway(e) ==
  \E d \in Sharing(e) :
    /\ d = frames[GraspFrame[e]].of
    /\ e \in Earlier[d]
    /\ SamePair(d, e) => NotSettled(d)

(***************************************************************************)
(* The approach that e left may come to lead to the pose of another grasp: *)
(* when a later execution moves the grasp frame, and then fails or is      *)
(* given another frame for its own approach.  Given the same pair it does  *)
(* not say OK: an old approach beside a new grasp goes with an error.  And *)
(* the grasp is the newer half; no approach is moved before its grasp.     *)
(***************************************************************************)
OldApproachIsReported ==
  \A e \in Executions :
    /\ Exclusive(e)
    /\ PregraspFrame[e] # NoFrame
    /\ frames[PregraspFrame[e]].of = e
    => Has(GraspFrame[e], e, "grasp") \/ MovedAway(e)

(***************************************************************************)
(* A goal is canceled only after its own execution has given it up:        *)
(* executions that run side by side never cancel each other's goals, and   *)
(* none is told that its goal was canceled.                                *)
(***************************************************************************)
NoStrayCancel ==
  \A e \in Executions :
    /\ status[e] \in {"canceling", "canceled"} => code[e] = "DEADLINE_EXCEEDED"
    /\ code[e] # "CANCELLED"

(* Execute returns, whether or not the server ever answers. *)
ExecuteReturns == \A e \in Executions : []<>(pc[e] \in {"idle", "returned"})
=============================================================================
