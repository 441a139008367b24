---------------------------- MODULE SceneReadiness ----------------------------
(***************************************************************************)
(* The life of moveit_planning_node as a process: main starts the          *)
(* readiness thread (orchestrate_scene_synchronization), which gates the   *)
(* planning endpoints with scene_ready, spins the executor that answers    *)
(* them, and after SIGINT stops and joins everything.                      *)
(*                                                                         *)
(* The readiness thread loops: wait for MoveIt, synchronize the World's    *)
(* objects into its scene, ask MoveIt whether the scene is populated, try  *)
(* again later.  MoveIt may restart and lose its scene, messages on their  *)
(* way to it are lost while it is down, and answers may come too late.     *)
(* MoveIt and the World are external.                                      *)
(***************************************************************************)
EXTENDS Integers

CONSTANTS
  Configs,         \* node parameters: [mock, expect, synchronizer : BOOLEAN]
  MaxRestarts      \* bound on the times MoveIt goes down

(* In mock mode there is no World and no synchronizer. *)
ASSUME ConfigsAssumption ==
  /\ Configs \subseteq [mock : BOOLEAN, expect : BOOLEAN, synchronizer : BOOLEAN]
  /\ \A c \in Configs : c.mock => ~c.synchronizer
  /\ MaxRestarts \in Nat

VARIABLES
  config,          \* the parameters this process was started with
  \* MoveIt (external)
  moveit,          \* move_group and its /get_planning_scene are up
  objects,         \* its scene has collision objects
  joints,          \* its robot state has joints
  restarts,
  populated,       \* history: once its scene had objects and joints at the same time
  published,       \* ADD messages of a synchronization are on their way to it
  \* the readiness thread
  ready,           \* scene_ready
  pc,
  future,          \* the answer to the present query
  pending,         \* entries of the client's table of pending requests
  \* the executors and main
  executor,        \* the node's executor: idle, in the motion handler, or returned
  answer,          \* what the last motion request or goal was told
  spinning,        \* the executor of /get_planning_scene spins
  main,            \* where main is
  rosOk            \* rclcpp::ok()

moveitVars == <<moveit, objects, joints, restarts, populated>>
threadVars == <<pc, future, pending>>
mainVars   == <<spinning, main, rosOk>>
vars == <<config, moveitVars, published, ready, threadVars, executor, answer, mainVars>>

-----------------------------------------------------------------------------
NoAnswer == "none"
Waiting == "waiting"
Answers == [objects : BOOLEAN, joints : BOOLEAN]

Init ==
  /\ config \in Configs
  /\ moveit = FALSE
  /\ objects = FALSE
  /\ joints = FALSE
  /\ restarts = 0
  /\ populated = FALSE
  /\ published = FALSE
  /\ ready = FALSE
  /\ pc = "start"
  /\ future = [is |-> NoAnswer]
  /\ pending = 0
  /\ executor = "spin"
  /\ answer = "none"
  /\ spinning = TRUE
  /\ main = "spin"
  /\ rosOk = TRUE

-----------------------------------------------------------------------------
(* MoveIt. *)

MoveItStarts ==
  /\ ~moveit
  /\ moveit' = TRUE
  /\ UNCHANGED <<objects, joints, restarts, populated>>

(* move_group goes down and loses its scene. *)
MoveItStops ==
  /\ moveit
  /\ restarts < MaxRestarts
  /\ moveit' = FALSE
  /\ objects' = FALSE
  /\ joints' = FALSE
  /\ restarts' = restarts + 1
  /\ UNCHANGED populated

JointsArrive ==
  /\ moveit
  /\ joints' = TRUE
  /\ populated' = (populated \/ objects)
  /\ UNCHANGED <<moveit, objects, restarts>>

(* A client calls /apply_planning_scene. *)
ClientAddsObject ==
  /\ moveit
  /\ objects' = TRUE
  /\ populated' = (populated \/ joints)
  /\ UNCHANGED <<moveit, joints, restarts>>

(* The published objects arrive at MoveIt, or at nobody. *)
Deliver ==
  /\ published
  /\ published' = FALSE
  /\ IF moveit THEN ClientAddsObject ELSE UNCHANGED moveitVars
  /\ UNCHANGED <<config, ready, threadVars, executor, answer, mainVars>>

MoveIt ==
  /\ MoveItStarts \/ MoveItStops \/ JointsArrive \/ ClientAddsObject
  /\ UNCHANGED <<config, published, ready, threadVars, executor, answer, mainVars>>

(* MoveIt's answer reaches the pending request, if the client still has it. *)
MoveItAnswers ==
  /\ moveit
  /\ spinning
  /\ rosOk
  /\ future = [is |-> Waiting]
  /\ future' = [objects |-> objects, joints |-> joints]
  /\ pending' = pending - 1
  /\ UNCHANGED <<config, moveitVars, published, ready, pc, executor, answer, mainVars>>

-----------------------------------------------------------------------------
(* The readiness thread. *)

Go(next) ==
  /\ pc' = next
  /\ UNCHANGED <<config, moveitVars, executor, answer, mainVars>>

SetReady == ready' = TRUE /\ Go("exited")

(* Mock mode does not wait for anything. *)
Start ==
  /\ pc = "start"
  /\ IF config.mock THEN SetReady ELSE UNCHANGED ready /\ Go("head")
  /\ UNCHANGED <<published, future, pending>>

LoopHead ==
  /\ pc = "head"
  /\ Go(IF rosOk /\ ~ready THEN "wait" ELSE "exited")
  /\ UNCHANGED <<published, ready, future, pending>>

(* wait_for_service: it returns when MoveIt is there, or else after the retry interval. *)
WaitForService ==
  /\ pc = "wait"
  /\ Go(IF moveit /\ rosOk THEN "sync" ELSE "head")
  /\ UNCHANGED <<published, ready, future, pending>>

(* After the synchronization, failed or not: verify, or be ready if nothing is expected. *)
Synchronized ==
  /\ IF config.expect THEN UNCHANGED ready /\ Go("query") ELSE SetReady
  /\ UNCHANGED <<future, pending>>

(* fetchAndSynchronizeCollisionObjects publishes what the World has. *)
Synchronize ==
  /\ pc = "sync"
  /\ config.synchronizer
  /\ published' = rosOk
  /\ Synchronized

(* There is no synchronizer, or it fails, which is only logged. *)
SkipSynchronize ==
  /\ pc = "sync"
  /\ UNCHANGED published
  /\ Synchronized

SendQuery ==
  /\ pc = "query"
  /\ future' = [is |-> Waiting]
  /\ pending' = pending + 1
  /\ Go("await")
  /\ UNCHANGED <<published, ready>>

(* Mutation: one of the two conditions is enough. *)
SceneOkEither(a) == a.objects \/ a.joints

(* collision_ok and robot_state_ok. *)
SceneOk(a) == a.objects /\ a.joints

(* The answer has come in time. *)
Verify ==
  /\ pc = "await"
  /\ future \in Answers
  /\ IF SceneOk(future) THEN SetReady ELSE UNCHANGED ready /\ Go("sleep")
  /\ future' = [is |-> NoAnswer]
  /\ UNCHANGED <<published, pending>>

(* Mutation: the wait has no time limit. *)
AwaitForever == FALSE

AwaitTimesOut ==
  /\ pc = "await"
  /\ future = [is |-> Waiting]
  /\ Go("remove")
  /\ UNCHANGED <<published, ready, future, pending>>

(* Mutation: a late answer counts as one more removal. *)
RemovePendingTwice ==
  /\ pc = "remove"
  /\ pending' = pending - 1
  /\ future' = [is |-> NoAnswer]
  /\ Go("sleep")
  /\ UNCHANGED <<published, ready>>

(* Mutation: the request that timed out stays in the client's table. *)
RemoveNothing ==
  /\ pc = "remove"
  /\ future' = [is |-> NoAnswer]
  /\ Go("sleep")
  /\ UNCHANGED <<published, ready, pending>>

(* remove_pending_request: the answer may have come since the wait gave up. *)
RemovePending ==
  /\ pc = "remove"
  /\ pending' = IF future = [is |-> Waiting] THEN pending - 1 ELSE pending
  /\ future' = [is |-> NoAnswer]
  /\ Go("sleep")
  /\ UNCHANGED <<published, ready>>

(* Mutation: a retry asks again, but does not synchronize again. *)
RetryQuery ==
  /\ pc = "sleep"
  /\ Go(IF rosOk /\ ~ready THEN "query" ELSE "exited")
  /\ UNCHANGED <<published, ready, future, pending>>

(* The retry interval passes. *)
Retry ==
  /\ pc = "sleep"
  /\ Go("head")
  /\ UNCHANGED <<published, ready, future, pending>>

ReadinessThread ==
  \/ Start
  \/ LoopHead
  \/ WaitForService
  \/ Synchronize
  \/ SkipSynchronize
  \/ SendQuery
  \/ Verify
  \/ AwaitTimesOut
  \/ RemovePending
  \/ Retry

-----------------------------------------------------------------------------
(* The executor's handlers: none is started once the context is shut down. *)

Tell(next) ==
  /\ executor' = next
  /\ UNCHANGED <<config, moveitVars, ready, threadVars, mainVars>>

Gate == answer' = IF ready THEN "accepted" ELSE "rejected"

(* handle_plan_grasps_goal; what the goal says does not matter here. *)
GoalRequest ==
  /\ executor = "spin"
  /\ rosOk
  /\ Gate
  /\ Tell("spin")
  /\ UNCHANGED published

(* The motion handler synchronizes first, on the executor's only thread... *)
MotionRequest ==
  /\ executor = "spin"
  /\ rosOk
  /\ published' = (published \/ config.synchronizer)
  /\ Tell("motion")
  /\ UNCHANGED answer

(* Mutation: the handler waits for the scene instead of refusing. *)
MotionAnswerWaits ==
  /\ executor = "motion"
  /\ ready
  /\ Gate
  /\ Tell("spin")
  /\ UNCHANGED published

(* ... and only then asks whether the scene is ready. *)
MotionAnswer ==
  /\ executor = "motion"
  /\ Gate
  /\ Tell("spin")
  /\ UNCHANGED published

-----------------------------------------------------------------------------
(* main. *)

GoMain(next) ==
  /\ main' = next
  /\ UNCHANGED <<config, moveitVars, published, threadVars, answer>>

(* SIGINT: rclcpp's handler shuts the context down. *)
Interrupt ==
  /\ rosOk
  /\ rosOk' = FALSE
  /\ GoMain(main)
  /\ UNCHANGED <<ready, executor, spinning>>

(* executor.spin() returns when the handler it is in has returned. *)
SpinReturns ==
  /\ main = "spin"
  /\ ~rosOk
  /\ executor = "spin"
  /\ executor' = "returned"
  /\ GoMain("signal")
  /\ UNCHANGED <<ready, spinning, rosOk>>

(* Mutation: the signal does not wait for the executor. *)
SignalFirst ==
  /\ main \in {"spin", "signal"}
  /\ ~rosOk
  /\ ready' = TRUE
  /\ GoMain(IF main = "signal" THEN "cancel" ELSE main)
  /\ UNCHANGED <<executor, spinning, rosOk>>

(* scene_ready doubles as the signal that ends the readiness thread. *)
SignalShutdown ==
  /\ main = "signal"
  /\ ready' = TRUE
  /\ GoMain("cancel")
  /\ UNCHANGED <<executor, spinning, rosOk>>

CancelExecutor ==
  /\ main = "cancel"
  /\ spinning' = FALSE
  /\ GoMain("join")
  /\ UNCHANGED <<ready, executor, rosOk>>

(* Both threads are joined; a spin that was canceled has returned. *)
JoinThreads ==
  /\ main = "join"
  /\ pc = "exited"
  /\ GoMain("done")
  /\ UNCHANGED <<ready, executor, spinning, rosOk>>

Main == SpinReturns \/ SignalShutdown \/ CancelExecutor \/ JoinThreads

-----------------------------------------------------------------------------
Next ==
  \/ MoveIt
  \/ Deliver
  \/ MoveItAnswers
  \/ ReadinessThread
  \/ GoalRequest
  \/ MotionRequest
  \/ MotionAnswer
  \/ Interrupt
  \/ Main

Spec == Init /\ [][Next]_vars

(***************************************************************************)
(* Threads run and their waits time out; MoveIt is started again, hears    *)
(* of the joints and receives what is published to it.  Synchronizations   *)
(* may fail and answers come late, but neither each and every time.        *)
(***************************************************************************)
Fairness ==
  /\ WF_vars(ReadinessThread)
  /\ WF_vars(MotionAnswer)
  /\ WF_vars(Main)
  /\ WF_vars(Deliver)
  /\ WF_vars(MoveIt /\ ~moveit /\ moveit')
  /\ WF_vars(MoveIt /\ joints' /\ ~joints)
  /\ SF_vars(Synchronize)
  /\ SF_vars(MoveItAnswers /\ pc = "await")
  /\ SF_vars(Verify)

FairSpec == Spec /\ Fairness

-----------------------------------------------------------------------------
(* Properties. *)

(* Every variable stays in its set. *)
TypeOK ==
  /\ config \in Configs
  /\ {moveit, objects, joints, populated, published, ready, spinning, rosOk} \subseteq BOOLEAN
  /\ restarts \in 0 .. MaxRestarts
  /\ pc \in {"start", "head", "wait", "sync", "query", "await", "remove", "sleep", "exited"}
  /\ future \in Answers \cup [is : {NoAnswer, Waiting}]
  /\ pending \in Nat
  /\ executor \in {"spin", "motion", "returned"}
  /\ answer \in {"none", "accepted", "rejected"}
  /\ main \in {"spin", "signal", "cancel", "join", "done"}

(***************************************************************************)
(* No planning request is accepted before MoveIt has had both collision    *)
(* objects and a robot state, although scene_ready is also raised to end   *)
(* the readiness thread, whatever restarts, late answers and shutdowns     *)
(* come in between.                                                        *)
(***************************************************************************)
AcceptedIsPopulated ==
  config.expect /\ ~config.mock /\ answer = "accepted" => populated

(***************************************************************************)
(* Retrying leaks no request: the client remembers one pending query at    *)
(* most, and exactly while the thread waits for it, however late answers   *)
(* race with the timeout that removes them.                                *)
(***************************************************************************)
OneQueryPending ==
  pending = IF future = [is |-> Waiting] THEN 1 ELSE 0

(***************************************************************************)
(* Whatever restarts of MoveIt, lost messages, failed synchronizations and *)
(* late answers there were, planning becomes possible in the end.          *)
(***************************************************************************)
EventuallyReady == config.synchronizer \/ config.mock => <>(ready \/ ~rosOk)

(***************************************************************************)
(* After SIGINT main returns: no thread it joins waits for something that  *)
(* cannot come any more.                                                   *)
(***************************************************************************)
ShutdownCompletes == ~rosOk ~> main = "done"
=============================================================================
