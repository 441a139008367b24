----------------------------- MODULE GraspAction -----------------------------
(***************************************************************************)
(* The PlanGrasps action server of moveit_planning_node.  The executor     *)
(* answers goal and cancel requests; every accepted goal gets a detached   *)
(* thread that synchronizes the scene, plans its candidates one after the  *)
(* other through the shared GraspPlanningPipeline and ranks what it found. *)
(* Goals run at the same time: they share the pipeline's robot model and   *)
(* MoveIt's planning scene, which changes under them.                      *)
(*                                                                         *)
(* One call of MoveIt (a scene query, a planning run) is one action; so is *)
(* each access to robot_model_, which is read without its lock.            *)
(***************************************************************************)
EXTENDS Integers, SequencesExt

CONSTANTS
  Goals,
  Names,           \* target ids as the clients write them
  Ids,             \* ids of collision objects in MoveIt's planning scene
  NoName,          \* the empty target id
  NoId,
  NoGoal,          \* the robot model's lock is free
  Candidates,      \* the target names of a goal's candidates
  MaxNumGrasps,    \* max_num_grasps of a goal
  Matches,         \* the ids a name may stand for, a sequence of sets, best first
  WholeOf,         \* a name's or id's "<...>/whole", NoId when no object is called so
  Sized,           \* names whose candidates come with obj_dims_in_meters
  Boxless,         \* objects without a usable bounding box
  Groupless,       \* goals with an empty group_name
  Unfit,           \* goals whose groups, states or frames the robot model lacks
  Qualities,       \* grasp qualities, 1/(1+cost)
  MaxSolutions     \* bound on the solutions MTC returns for a candidate

Targets == Names \cup Ids

ASSUME RequestsAssumption ==
  /\ Candidates \in [Goals -> Seq(Names)]
  /\ MaxNumGrasps \in [Goals -> Int]
  /\ Groupless \subseteq Goals
  /\ Unfit \subseteq Goals
  /\ NoGoal \notin Goals
  /\ NoName \in Names

ASSUME ObjectsAssumption ==
  /\ Matches \in [Names -> Seq(SUBSET Ids)]
  /\ WholeOf \in [Targets -> Ids \cup {NoId}]
  /\ NoId \notin Targets
  /\ Sized \subseteq Names
  /\ Boxless \subseteq Ids

(* The first match tried is the exact one, and it compares whole ids. *)
ASSUME ExactMatchAssumption ==
  \A n \in Names : Matches[n] # <<>> /\ Matches[n][1] = {n} \cap Ids

ASSUME PlannerAssumption == Qualities \subseteq Nat /\ MaxSolutions \in Nat

VARIABLES
  scene,           \* ids in MoveIt's planning scene (external)
  ready,           \* scene_ready
  robotModel,      \* robot_model_: "null", "writing" while it is assigned, "loaded"
  modelLock,       \* the goal whose thread holds robot_model_mutex_
  goal,            \* the goal's status in rclcpp_action
  pc,              \* where the goal's thread is
  completed,       \* completed_candidates, the feedback
  target,          \* candidate.target.id, resolved
  kept,            \* result->ranked_grasps while the goal runs
  found,           \* every grasp MTC found for the goal's candidates
  result           \* the result delivered

sharedVars == <<scene, ready>>
modelVars == <<robotModel, modelLock>>
vars == <<sharedVars, modelVars, goal, pc, completed, target, kept, found, result>>

-----------------------------------------------------------------------------
Least(m, n) == IF m < n THEN m ELSE n
Limit == [g \in Goals |-> IF MaxNumGrasps[g] > 0 THEN MaxNumGrasps[g] ELSE 1]
Candidate(g) == Candidates[g][completed[g] + 1]
NoResult == [code |-> "NONE", grasps |-> <<>>]

Grasps ==
  [candidate : Nat, target : Targets, num : Nat, quality : Qualities]

Better(x, y) == x.quality >= y.quality

(* Mutation: an object the scene does not have gets an empty id. *)
ResolveOrNothing(name, ids) ==
  LET hits == {i \in DOMAIN Matches[name] : Matches[name][i] \cap ids # {}}
      best == {i \in hits : \A j \in hits : i <= j}
  IN IF hits = {} THEN {NoId} ELSE UNION {Matches[name][i] \cap ids : i \in best}

(* Mutation: the prefix match is tried before the exact one. *)
ResolveLastFirst(name, ids) ==
  LET hits == {i \in DOMAIN Matches[name] : Matches[name][i] \cap ids # {}}
      best == {i \in hits : \A j \in hits : j <= i}
  IN IF hits = {} THEN {name} ELSE UNION {Matches[name][i] \cap ids : i \in best}

(***************************************************************************)
(* ResolveTargetObjectId: the first kind of match the scene has an object  *)
(* for; among several of a kind, the one MoveIt happens to list first.     *)
(***************************************************************************)
ResolveTargetObjectId(name, ids) ==
  LET hits == {i \in DOMAIN Matches[name] : Matches[name][i] \cap ids # {}}
      best == {i \in hits : \A j \in hits : i <= j}
  IN IF hits = {} THEN {name} ELSE UNION {Matches[name][i] \cap ids : i \in best}

(* The grasp poses of an object are given in its frame, which the scene must have. *)
HasFrame(t) == t \in scene \/ WholeOf[t] \in scene

(* The solutions MTC returns that a grasp can be extracted from, the cheapest first. *)
Solutions ==
  {q \in BoundedSeq(Qualities, MaxSolutions) :
     /\ q # <<>>
     /\ \A i, j \in DOMAIN q : i <= j => q[i] >= q[j]}

-----------------------------------------------------------------------------
Init ==
  /\ scene \in SUBSET Ids
  /\ ready = FALSE
  /\ robotModel \in {"null", "loaded"}
  /\ modelLock = NoGoal
  /\ goal = [g \in Goals |-> "unsent"]
  /\ pc = [g \in Goals |-> "none"]
  /\ completed = [g \in Goals |-> 0]
  /\ target = [g \in Goals |-> NoName]
  /\ kept = [g \in Goals |-> <<>>]
  /\ found = [g \in Goals |-> {}]
  /\ result = [g \in Goals |-> NoResult]

(* MoveIt's scene changes: objects of the World come and go. *)
SceneChanges(S) ==
  /\ scene' = S
  /\ UNCHANGED <<ready, modelVars, goal, pc, completed, target, kept, found, result>>

(* The readiness thread has verified the scene. *)
BecomesReady ==
  /\ ~ready
  /\ ready' = TRUE
  /\ UNCHANGED <<scene, modelVars, goal, pc, completed, target, kept, found, result>>

-----------------------------------------------------------------------------
(* The executor's callbacks. *)

Acceptable(g) ==
  /\ ready
  /\ Candidates[g] # <<>>
  /\ NoName \notin ToSet(Candidates[g])

(* handle_plan_grasps_goal, and handle_plan_grasps_accepted, which starts the thread. *)
GoalRequest(g) ==
  /\ goal[g] = "unsent"
  /\ IF Acceptable(g)
     THEN /\ goal' = [goal EXCEPT ![g] = "executing"]
          /\ pc' = [pc EXCEPT ![g] = "sync"]
     ELSE /\ goal' = [goal EXCEPT ![g] = "rejected"]
          /\ UNCHANGED pc
  /\ UNCHANGED <<sharedVars, modelVars, completed, target, kept, found, result>>

(* handle_plan_grasps_cancel accepts whatever rclcpp_action lets through. *)
CancelRequest(g) ==
  /\ goal[g] = "executing"
  /\ goal' = [goal EXCEPT ![g] = "canceling"]
  /\ UNCHANGED <<sharedVars, modelVars, pc, completed, target, kept, found, result>>

-----------------------------------------------------------------------------
(* The goal's thread. *)

(* The goal ends and its thread with it. *)
Finish(g, status, code, grasps) ==
  /\ goal' = [goal EXCEPT ![g] = status]
  /\ result' = [result EXCEPT ![g] = [code |-> code, grasps |-> grasps]]
  /\ pc' = [pc EXCEPT ![g] = "done"]
  /\ UNCHANGED <<completed, target, kept, found>>

(* Whatever the candidate's own error code is, the goal is aborted with FAILURE. *)
CandidateFails(g) == Finish(g, "aborted", "FAILURE", kept[g])

Go(g, next) ==
  /\ pc' = [pc EXCEPT ![g] = next]
  /\ UNCHANGED <<goal, completed, target, kept, found, result>>

(* fetchAndSynchronizeCollisionObjects; a failure is only logged. *)
Synchronize(g) ==
  /\ pc[g] = "sync"
  /\ Go(g, "poll")
  /\ UNCHANGED <<sharedVars, modelVars>>

(* Mutation: the cancel request is not asked for. *)
StopUnasked(g) ==
  /\ pc[g] = "poll"
  /\ completed[g] < Len(Candidates[g])
  /\ Finish(g, "canceled", "PREEMPTED", kept[g])
  /\ UNCHANGED <<sharedVars, modelVars>>

(* is_canceling() is polled between two candidates. *)
StopCanceled(g) ==
  /\ pc[g] = "poll"
  /\ completed[g] < Len(Candidates[g])
  /\ goal[g] = "canceling"
  /\ Finish(g, "canceled", "PREEMPTED", kept[g])
  /\ UNCHANGED <<sharedVars, modelVars>>

NextCandidate(g) ==
  /\ pc[g] = "poll"
  /\ completed[g] < Len(Candidates[g])
  /\ goal[g] # "canceling"
  /\ Go(g, "ids")
  /\ UNCHANGED <<sharedVars, modelVars>>

(* Mutation: when MoveIt does not answer, the target is left alone. *)
ResolveTargetOrKeep(g) ==
  /\ pc[g] = "ids"
  /\ \E t \in ResolveTargetObjectId(Candidate(g), scene) \cup {target[g]} :
       target' = [target EXCEPT ![g] = t]
  /\ pc' = [pc EXCEPT ![g] = "measure"]
  /\ UNCHANGED <<sharedVars, modelVars, goal, completed, kept, found, result>>

(***************************************************************************)
(* GetPlanningSceneObjectIds, whose answer names the target for the rest   *)
(* of the candidate.  When MoveIt does not answer in time, the name stays  *)
(* as the client wrote it.                                                 *)
(***************************************************************************)
ResolveTarget(g) ==
  /\ pc[g] = "ids"
  /\ \E t \in ResolveTargetObjectId(Candidate(g), scene) \cup {Candidate(g)} :
       target' = [target EXCEPT ![g] = t]
  /\ pc' = [pc EXCEPT ![g] = "measure"]
  /\ UNCHANGED <<sharedVars, modelVars, goal, completed, kept, found, result>>

(* The dimensions come with the request or from the object, if it is still there. *)
MeasureObject(g) ==
  /\ pc[g] = "measure"
  /\ Candidate(g) \in Sized \/ target[g] \in scene \ Boxless
  /\ g \notin Groupless
  /\ Go(g, "model")
  /\ UNCHANGED <<sharedVars, modelVars>>

(* The object is gone, MoveIt does not answer, there is no box, or no group was given. *)
MeasureFails(g) ==
  /\ pc[g] = "measure"
  /\ Candidate(g) \notin Sized \/ g \in Groupless
  /\ CandidateFails(g)
  /\ UNCHANGED <<sharedVars, modelVars>>

(***************************************************************************)
(* GetRobotModel.  robot_model_ is read outside its lock: a read that      *)
(* coincides with the assignment may see either value.                     *)
(***************************************************************************)
ModelSeen == IF robotModel = "writing" THEN {"null", "loaded"} ELSE {robotModel}

CheckModel(g) ==
  /\ pc[g] = "model"
  /\ \E seen \in ModelSeen : Go(g, IF seen = "loaded" THEN "plan" ELSE "lock")
  /\ UNCHANGED <<sharedVars, modelVars>>

(* Mutation: the second check, under the lock, is missing. *)
LockModelUnchecked(g) ==
  /\ pc[g] = "lock"
  /\ modelLock = NoGoal
  /\ modelLock' = g
  /\ Go(g, "load")
  /\ UNCHANGED <<sharedVars, robotModel>>

(* The lock is taken and the model checked again. *)
LockModel(g) ==
  /\ pc[g] = "lock"
  /\ modelLock = NoGoal
  /\ IF robotModel = "null"
     THEN modelLock' = g /\ Go(g, "load")
     ELSE UNCHANGED modelLock /\ Go(g, "return")
  /\ UNCHANGED <<sharedVars, robotModel>>

(* The model is loaded and its assignment begins. *)
LoadModel(g) ==
  /\ pc[g] = "load"
  /\ robotModel' = "writing"
  /\ Go(g, "assign")
  /\ UNCHANGED <<sharedVars, modelLock>>

(* RobotModelLoader throws or has no model. *)
LoadModelFails(g) ==
  /\ pc[g] = "load"
  /\ modelLock' = NoGoal
  /\ Go(g, "return")
  /\ UNCHANGED <<sharedVars, robotModel>>

(* The assignment is over and the lock released. *)
AssignModel(g) ==
  /\ pc[g] = "assign"
  /\ robotModel' = "loaded"
  /\ modelLock' = NoGoal
  /\ Go(g, "return")
  /\ UNCHANGED sharedVars

(* The value returned is read once more, outside the lock; no model, no plan. *)
ReturnModel(g) ==
  /\ pc[g] = "return"
  /\ \E seen \in ModelSeen :
       IF seen = "loaded" THEN Go(g, "plan") ELSE CandidateFails(g)
  /\ UNCHANGED <<sharedVars, modelVars>>

(* Mutation: the ids are not numbered. *)
GraspUnnumbered(g, q, j) ==
  [candidate |-> completed[g] + 1, target |-> target[g], num |-> 1, quality |-> q[j]]

(* The id of a grasp is its number among the grasps of its candidate. *)
GraspOf(g, q, j) ==
  [candidate |-> completed[g] + 1, target |-> target[g], num |-> j, quality |-> q[j]]

(* Mutation: each candidate may bring one grasp only. *)
KeptOne(g, q) == 1

(* How many of a candidate's solutions the extraction loop takes. *)
Kept(g, q) == Least(Limit[g], Len(q))

(***************************************************************************)
(* The MTC task: it plans on the scene as it is now, the extraction takes  *)
(* at most max_num_grasps solutions, and the candidate counts as complete. *)
(***************************************************************************)
PlanCandidate(g) ==
  /\ pc[g] = "plan"
  /\ g \notin Unfit
  /\ HasFrame(target[g])
  /\ \E q \in Solutions :
       /\ kept' = [kept EXCEPT ![g] = @ \o [j \in 1 .. Kept(g, q) |-> GraspOf(g, q, j)]]
       /\ found' = [found EXCEPT ![g] = @ \cup {GraspOf(g, q, j) : j \in DOMAIN q}]
  /\ completed' = [completed EXCEPT ![g] = @ + 1]
  /\ pc' = [pc EXCEPT ![g] = "poll"]
  /\ UNCHANGED <<sharedVars, modelVars, goal, target, result>>

(* Mutation: a candidate that yields no grasp is passed over. *)
PlanFailsSkips(g) ==
  /\ pc[g] = "plan"
  /\ completed' = [completed EXCEPT ![g] = @ + 1]
  /\ pc' = [pc EXCEPT ![g] = "poll"]
  /\ UNCHANGED <<sharedVars, modelVars, goal, target, kept, found, result>>

(* No plan, no extractable solution, a missing group or state, an exception. *)
PlanFails(g) ==
  /\ pc[g] = "plan"
  /\ CandidateFails(g)
  /\ UNCHANGED <<sharedVars, modelVars>>

(* Mutation: the worst grasp first. *)
RankingsWorstFirst(s) ==
  {r \in SetToSeqs(ToSet(s)) : \A i, j \in DOMAIN r : i <= j => Better(r[j], r[i])}

(* std::sort by falling quality leaves equal grasps in any order. *)
Rankings(s) ==
  {r \in SetToSeqs(ToSet(s)) : \A i, j \in DOMAIN r : i <= j => Better(r[i], r[j])}

(* Every candidate is complete: the grasps are ranked, cut to size and delivered. *)
Rank(g) ==
  /\ pc[g] = "poll"
  /\ completed[g] = Len(Candidates[g])
  /\ \E r \in Rankings(kept[g]) :
       IF r = <<>> THEN Finish(g, "aborted", "PLANNING_FAILED", r)
       ELSE Finish(g, "succeeded", "SUCCESS", SubSeq(r, 1, Least(Limit[g], Len(r))))
  /\ UNCHANGED <<sharedVars, modelVars>>

GetRobotModel(g) ==
  \/ CheckModel(g)
  \/ LockModel(g)
  \/ LoadModel(g)
  \/ LoadModelFails(g)
  \/ AssignModel(g)
  \/ ReturnModel(g)

Thread(g) ==
  \/ Synchronize(g)
  \/ StopCanceled(g)
  \/ NextCandidate(g)
  \/ ResolveTarget(g)
  \/ MeasureObject(g)
  \/ MeasureFails(g)
  \/ GetRobotModel(g)
  \/ PlanCandidate(g)
  \/ PlanFails(g)
  \/ Rank(g)

-----------------------------------------------------------------------------
Next ==
  \/ \E S \in SUBSET Ids \ {scene} : SceneChanges(S)
  \/ BecomesReady
  \/ \E g \in Goals : GoalRequest(g) \/ CancelRequest(g) \/ Thread(g)

Spec == Init /\ [][Next]_vars

(***************************************************************************)
(* A goal's thread keeps running: every call it makes returns, because it  *)
(* has a timeout.  Nobody has to send or cancel a goal.                    *)
(***************************************************************************)
FairSpec == Spec /\ \A g \in Goals : WF_vars(Thread(g))

-----------------------------------------------------------------------------
(* Properties. *)

Codes == {"NONE", "SUCCESS", "FAILURE", "PREEMPTED", "PLANNING_FAILED"}

(* Every variable stays in its set. *)
TypeOK ==
  /\ scene \subseteq Ids
  /\ ready \in BOOLEAN
  /\ robotModel \in {"null", "writing", "loaded"}
  /\ modelLock \in Goals \cup {NoGoal}
  /\ goal \in [Goals -> {"unsent", "rejected", "executing", "canceling",
                         "succeeded", "aborted", "canceled"}]
  /\ pc \in [Goals -> {"none", "sync", "poll", "ids", "measure", "model", "lock", "load",
                       "assign", "return", "plan", "done"}]
  /\ completed \in [Goals -> Nat]
  /\ target \in [Goals -> Targets]
  /\ kept \in [Goals -> Seq(Grasps)]
  /\ found \in [Goals -> SUBSET Grasps]
  /\ result \in [Goals -> [code : Codes, grasps : Seq(Grasps)]]

(***************************************************************************)
(* The robot model is assigned once, by the holder of its lock, although   *)
(* any number of threads find it missing at the same time: a model other   *)
(* threads already plan with is never replaced under them.                 *)
(***************************************************************************)
ModelAssignedOnce == [][robotModel = "loaded" => robotModel' = "loaded"]_vars

(* Each step of the feedback stands for a candidate that has grasps in the pool. *)
CompletedHaveGrasps ==
  \A g \in Goals :
    {x.candidate : x \in ToSet(kept[g])} = 1 .. completed[g]

(***************************************************************************)
(* candidate_index and target_id agree: the object a grasp is for is one   *)
(* the client's name at that index stands for.  The skill looks the object *)
(* up by the index alone, whatever the ranking did to the order.           *)
(***************************************************************************)
GraspsNameTheirCandidate ==
  \A g \in Goals : \A x \in ToSet(kept[g]) \cup ToSet(result[g].grasps) :
    /\ x.candidate \in DOMAIN Candidates[g]
    /\ LET name == Candidates[g][x.candidate]
       IN x.target \in {name} \cup UNION ToSet(Matches[name])

(***************************************************************************)
(* A goal that succeeds brings the best grasps of the whole pool, best     *)
(* first: capping each candidate before ranking the pool loses none of     *)
(* them, and no more are cut off than max_num_grasps asks for.             *)
(***************************************************************************)
BestOfPool ==
  \A g \in Goals :
    goal[g] = "succeeded" =>
      LET ranked == result[g].grasps
      IN /\ \A i, j \in DOMAIN ranked : i < j => ranked[i] # ranked[j] /\ Better(ranked[i], ranked[j])
         /\ Len(ranked) = Least(Limit[g], Cardinality(found[g]))
         /\ \A x \in found[g] \ ToSet(ranked), y \in ToSet(ranked) : Better(y, x)

(***************************************************************************)
(* Every candidate's grasps are numbered from the start, so a pool has     *)
(* several grasps of the same id.  The skill calls the frames of a grasp   *)
(* by its object's name and its id: no two grasps of a result get the same *)
(* frame, provided that the client names each object once.                 *)
(***************************************************************************)
GraspFramesAreDistinct ==
  \A g \in Goals :
    goal[g] = "succeeded" /\ IsInjective(Candidates[g]) =>
      LET ranked == result[g].grasps
          frame(x) == <<Candidates[g][x.candidate], x.num>>
      IN IsInjective([i \in DOMAIN ranked |-> frame(ranked[i])])

(***************************************************************************)
(* An object the scene has under the very name the client wrote is never   *)
(* taken for another one, whatever prefix it shares with others.           *)
(***************************************************************************)
ExactNameWins ==
  [][\A g \in Goals : pc[g] = "ids" /\ pc'[g] = "measure" /\ Candidate(g) \in scene
       => target'[g] = Candidate(g)]_vars

(* Cancel requests, failures and rankings keep to the protocol, and every goal ends. *)
Protocol == INSTANCE GoalLifecycle WITH
  status <- goal,
  size <- [g \in Goals |-> IF goal[g] = "succeeded" THEN Len(result[g].grasps) ELSE 0]
KeepsProtocol == Protocol!Spec

(***************************************************************************)
(* "All objects in the pool are evaluated": a goal nobody canceled has     *)
(* tried its last candidate before it is aborted.                          *)
(***************************************************************************)
PoolIsEvaluated ==
  \A g \in Goals : goal[g] = "aborted" => completed[g] + 1 >= Len(Candidates[g])
=============================================================================
