# A TLA+ verification of intrinsic-moveit

The modules in this directory model the planning service of this repository: how it mirrors the
Intrinsic World into MoveIt's planning scene, how it plans grasps for a pool of objects, how
the node becomes ready and stops, the two skills that call it and the monitor that watches it.
TLC checks them on small instances, TLAPS proves theorems about them for every instance.

## The system

`moveit_planning_node` is one process with many threads; `moveit_status_monitor` and the
skills are processes of their own. The parts, the state they keep and what makes them correct:

| Part | State | Operations | What must hold |
| :--- | :--- | :--- | :--- |
| Scene synchronizer (`moveit_scene_synchronizer.cpp`) | `Data`: caches of meshes and primitives, meshes per TF frame, queued object names, last published poses, all under `mutex_`; `tf_frame_names_`, used by the TF callback only | TF callback (remove, queue names, publish poses), sync thread, trigger service, `fetchAndSynchronizeCollisionObjects`, destructor | the scene follows the World; no mesh without data; no queued name is lost; deadband and throttle never hide a lasting change; the destructor returns |
| PlanGrasps action (`moveit_planning_node.cpp`) | the goal, its result and feedback, one detached thread per goal | goal, cancel and accepted handlers, `execute_plan_grasps_action` | the action protocol; the ranking is that of the whole pool; every grasp names its object |
| Grasp planning pipeline (`grasp_planning_pipeline.cpp`) | `robot_model_`, loaded lazily under a mutex but read without it | id resolution, two scene queries and an MTC plan per candidate | the model is not replaced under its users; an exact id wins |
| Readiness and main (`moveit_planning_node.cpp`) | `scene_ready`, a pending query, two executors | `orchestrate_scene_synchronization`, the gates of the two endpoints, `main` | nothing is accepted before the scene was populated; readiness comes; main returns |
| Grasp skill (`moveit_plan_grasp_skill.cpp`) | an action client per `Execute`, the frames it moves in the World | `Execute`, send goal, wait, cancel, update frames | frames follow succeeded goals only and in order; no goal of somebody else is canceled; `Execute` returns |
| Motion skill (`moveit_plan_motion_skill.cpp`) | a service client per `Execute` | `Execute`, call, give up | a plan is told only if the node's gate was open; `Execute` returns |
| Status monitor (`status_monitor.cpp`) | `is_disabled_`, joint states, two clients' pending requests | `GetState`, `Enable`, `Disable`, `check_health`, `trigger_scene_synchronization`, `main` | a healthy verdict rests on this check's own observations; calls are atomic for the platform; no request leaks; `Enable` repairs a lost scene |

They meet in MoveIt: the synchronizer publishes `ADD`, `MOVE` and `REMOVE` on
`/collision_object`; the readiness thread and the pipeline ask `/get_planning_scene`; MTC plans
on whatever the scene is at that moment. `scene_ready` gates goals and motion requests. Each
accepted goal, each motion request, the readiness thread and the trigger service call the
synchronizer; the status monitor calls the trigger service. Concurrency is everywhere (TF
callback, sync thread, executor, goal threads, readiness thread, gRPC threads, skills);
failures are World calls that fail, MoveIt that restarts or answers too late, messages lost by
a bounded history, a process that ends. `PROJECT.json` lists each hazard with its line and the
properties meant to catch it.

## The modules

| Module | Models |
| :--- | :--- |
| `SceneSync` | the synchronizer, the World, the topic and MoveIt's scene |
| `MCSceneSync`, `SceneSync_*.cfg` | its instances |
| `SceneSyncProofs`, `SceneFetchProofs` | its theorems: caches and deadband; fetch and destructor |
| `GoalLifecycle` | what a client of the action may rely on: the abstract specification |
| `GraspAction` | the action server, the goal threads, the pipeline and its robot model |
| `MCGraspAction`, `GraspAction_*.cfg` | its instances |
| `GraspActionProofs`, `GraspRankingProofs` | its theorems |
| `GraspSkill` | executions of the grasp skill, composed with `GoalLifecycle` as their server |
| `MCGraspSkill`, `GraspSkill_*.cfg`, `GraspSkillProofs` | its instance, its theorems |
| `SceneReadiness` | the readiness thread, the gates, MoveIt's restarts, main's shutdown |
| `MotionSkill` | executions of the motion skill, composed with `SceneReadiness` |
| `MCMotionSkill`, `MotionSkill_*.cfg` | the instances of both |
| `SceneReadinessProofs`, `MotionSkillProofs` | their theorems |
| `ServiceState` | what the platform may rely on when it calls the monitor: the abstract specification |
| `StatusMonitor` | the monitor, the servers it asks, its main |
| `MCStatusMonitor`, `StatusMonitor_*.cfg`, `StatusMonitorProofs` | its instance, its theorems |

Every section the code runs under `mutex_` is one action, every call outside is an action of
its own. Definitions marked "Mutation" are plausible bugs; no specification uses them.

How they compose: `GraspAction` is shown to implement `GoalLifecycle`, and `GraspSkill` takes
the steps of `GoalLifecycle` for its server, so that what is proved of the skill holds with
the real server, which only does less. `MotionSkill` extends `SceneReadiness`: its requests are
taken and answered by the node's own actions. `StatusMonitor` implements `ServiceState`.

### SceneSync

State and code: `renderables`, `primitives`, `relPose`, `frameMeshes`, `pendingNames`,
`syncNew`, `shutdown`, `lastPose` are the members of `Data` (`renderables_collision_`,
`primitives_collision_`, `relative_mesh_pose_`, `collision_tf_frame_to_mesh_ids_`,
`sync_object_names_`, `sync_new_objects_`, `shutdown_`, `last_published_collision_pose_`);
`recent` abstracts `last_published_collision_time_` to the frames still within their minimum
period. `tfPc`, `gone`, `moves`, `tfMsg` are the TF callback's locals, `pc`, `names`, `todo`,
`cur`, `batch` those of each thread in fetch-then-add. Geometry is a version number, a pose a
point on a line, the deadband a distance; a mesh is a geo_ref (its glTF is fetched), an
inline primitive, or neither (skipped).

Assumed of what is outside `src/`: MoveIt refuses an `ADD` without shapes, ignores `MOVE` and
`REMOVE` of an object it does not have, and places an `ADD` given at the identity of a frame
that bears the object's own name either at that TF frame or at the object's present pose; the
publisher keeps the last `QueueDepth` messages; publishing after the ROS context has gone
does nothing. Not modelled: changing a live object's geometry in place or
recreating it with fewer meshes, the conversion of glTF and TF data, prefix stripping, and
object names in slashes (the short name is what the code uses).

Runs:

- `sync_cache`: one frame with a geo_ref, a primitive and an unsupported geometry; the sync
  thread, a request thread and the TF callback; one change of the World, one failing call.
  One frame is enough: the maps are keyed by frame and mesh and no step reads across frames.
  Checks `TypeOK`, `TrackedMeshesComplete`, `InFlightMeshesStored`, `QueuedNamesWakeSync`.
  Every mesh is in one of three classes, and two threads that fetch are enough for each pair
  of locked sections to interleave.
- `sync_updates`: a box with a primitive and a glTF that cannot be decoded moves, or vanishes
  and returns with another shape (two changes, two versions, three poses, a deadband of two),
  under rate limit and period, while a call fails and the topic holds one message, so that
  messages are overwritten. Checks `DeadbandForgetsRemoved`, `DeadbandIsAgainstPublished` and
  the liveness `UpdatesConverge` and `MirrorsWorld`: what was published ends up within the
  deadband, and MoveIt with the World's present shapes.
- `sync_wakeup`: no period, so only notifications wake the sync thread; one of two objects is
  excluded; the process may end. `QueuedNamesAreFetched`, `DestructorReturns`.
- `sync_zombie`, `sync_refresh`, `sync_onlynames`, `sync_missedmove` find the four
  disagreements under "Findings".

Fairness: every thread keeps running (`WF` of its steps), the World keeps streaming TF and
time passes (`WF` of `TfMessage` and `MinPeriodElapses`), and a frame whose messages are
offered again and again is not starved by the bounded history for ever (`SF` of `Deliver` per
frame). Nobody has to request, to stop, to change the World or to fail.

### GraspAction

`goal` is the goal's status in `rclcpp_action`, `pc` where its thread is, `completed` the
feedback, `kept` the `ranked_grasps` collected so far, `target` the resolved `target.id`,
`robotModel` and `modelLock` are `robot_model_` and its mutex. `found` is a history variable:
every grasp that could have been extracted. Each query to MoveIt and each planning run is one
action, and the scene changes in any way between them. `GetRobotModel` is split into its
unlocked check, the lock with its second check, the load, the assignment (during which an
unlocked read may see either value) and the unlocked read it returns. A target name stands
for a sequence of sets of ids, from an exact to a prefix match (`Matches`). MTC and the
extraction are the choice of a sequence of qualities, best first; a solution no grasp can be
extracted from is not part of it. Which timeouts a candidate gets is left out.

- `grasp_goals`: a goal for two objects, two grasps wanted, pools of up to four, and a goal
  for a group the robot model lacks, at the same time; objects come and go, both goals race
  for the model, are canceled and fail. `CompletedHaveGrasps`, `GraspsNameTheirCandidate`,
  `BestOfPool`, `GraspFramesAreDistinct` (ids are numbered per candidate; the skill names a
  grasp's frame by object and id, which tells the grasps of a result apart as long as the
  client names each object once), `ExactNameWins`, `ModelAssignedOnce`, and
  `KeepsProtocol`: `GraspAction` implements `GoalLifecycle`, its liveness included. Two
  candidates are the least that are ranked against each other, two goals the least that race.
- `grasp_aborted` finds the disagreement under "Findings".

Fairness: a goal's thread keeps running, since each of its calls has a timeout.

### GraspSkill

`status` and `size` are the goals in the server, `net` the goal and cancel requests on their
way to it, which may be late or lost; `frames` says whose grasp a frame of the World was moved
to and whether as grasp or pregrasp; `pc` and `code` are where an execution is and what it
returned. Each wait (server, acceptance, result) may give up at any moment; each call to the
World (`GetObject`, `GetTransformNode`, `UpdateTransform`) is an action and may fail, an update
before or after it has taken effect. Each `Execute` makes an action client of its own, so an
execution never sees another's answers.

Output frames are there to be used again. Which executions a client begins only after which
others have returned is the constant `Earlier` (external: nothing in the code orders them);
`Exclusive(e)` says that whoever shares a frame with `e` comes before or after it. For such
executions `OkMeansBothFrames` says what an OK is worth, also on frames that others have used,
and `OldApproachIsReported` what a failure leaves behind: when a later execution is given the
same pair, moves the grasp frame and fails, the old approach does stay beside the new grasp,
and what the code guarantees is that this execution does not say OK. A failed `UpdateTransform`
is assumed to have its effect, if any, before it returns. Two executions that move the same
pair at the same time may both say OK and leave one half each; no property forbids it
(`PROJECT.json`, hazards).

- `grasp_skill`: four executions: the second is given the frames of the first after that has
  returned, the third, after both, their grasp frame with another approach, and the fourth
  runs beside them and moves the approach of the third. `FramesFromSucceededPlans`,
  `OkMeansBothFrames`, `OldApproachIsReported`, `NoStrayCancel`, `ExecuteReturns`. An old
  approach takes one execution that succeeds and a later one that fails, or that does not
  touch it; the fourth gives a frame that two use at once.

Fairness: an execution that has begun goes on, since each wait of it has a timeout. The server
need not answer, the network need not deliver.

### SceneReadiness

`config` holds the parameters the process was started with; `future` and `pending` are the
present query and the client's table of pending requests; `executor` is the thread that runs
goal and motion handlers, `main` where main is. MoveIt restarts up to `MaxRestarts` times and
loses its scene; what is published while it is down is lost. The history variable `populated`
says whether its scene once had objects and joints together. After SIGINT every wait times
out. Goal threads, detached in the code, are not part of it.

`MotionSkill` adds executions of the motion skill: `skill` is where one is, `request` its
request in the node (queued, taken by the handler, answered), `success` what it told its
caller. The handler's two actions are those of `SceneReadiness`; other clients use them, too.
A skill that gives up leaves its request where it is.

- `readiness_start_stop`: every configuration, a restart of MoveIt, late answers, lost
  messages, SIGINT at any moment, one execution of the skill and any number of other requests.
  Of the process: `AcceptedIsPopulated`, `OneQueryPending`, `EventuallyReady`,
  `ShutdownCompletes`. Of the composition: `PlannedIsPopulated`, `RequestsAreAnswered` (the only
  executor thread never waits for what needs that thread), `ExecuteReturns`. One execution is
  enough: executions meet in the executor only, and there another client is as good as a
  second one. So is one restart, which may come between any two steps: liveness is about what
  follows the last one, and the theorems hold for any number.

Fairness: threads run and waits time out; MoveIt is started again, hears of the joints and
receives what is published; synchronizations fail and answers come late, but not each and
every time (`SF`). Mock mode raises `scene_ready` whatever `expect_collision_objects` says,
while `moveit_planning_service/README.md:18` describes that argument without exception:
`AcceptedIsPopulated` is stated for the other modes. An `Execute` that has begun goes on, and the
executor takes events in the order in which they came (`SF` of `TakeRequest`).

### StatusMonitor

`disabled`, `jointState`, `queries` and `triggers` are the members of `MoveItStatusClient`:
`is_disabled_`, the last joint state (too old or none, without the expected joints, complete),
and who has a pending request in the clients of `/get_planning_scene` and of the node's trigger
service. `method`, `pc`, `outcome`, `verdict` are the calls' own; gRPC runs each on a thread.
Outside, move_group and the node go down and come back, and with them the requests they had
(`lost`); move_group's scene fills from what the node publishes and from the joint states, of
which it hears the same messages as the monitor; a request given up is still run by the node
(`abandoned`, `NodeSynchronizesLate`). `seen` is a history variable: which conditions held at
some moment of a call's check, and whether its synchronization succeeded. The World is assumed
to have objects. Texts, and which of two failed checks is reported, are left out.

- `status_calls`: one caller enables and disables while the other asks for the state, with and
  without mock hardware; one fault (`MaxFaults`) of any kind at any moment: a restart, a late
  answer, a failed synchronization, bad joint states. `HealthyWasObserved`,
  `EnableSynchronized`, `NoForgottenRequests`; `AnswersLinearizable`: `StatusMonitor`
  implements `ServiceState`, each call takes effect at one moment between its start and its
  end, and returns; `EnableRepairs`: whatever was lost, an `Enable` brings it back;
  `MainReturns`. Two callers are what the shared flag and tables need; each property is about
  the first thing that goes wrong, and the theorems hold for any number.

Fairness: calls go on, since each wait in them has a timeout, and servers that are up answer
(one `WF` per caller); the platform keeps asking for an `Enable` (`SF`, since a call is only
possible when none is under way); what went down is started again, what is sent arrives, main
goes on. A fault need not happen, and only `MaxFaults` do.

## Findings

Where the code does not do what its documents or comments say, a run shows how:

1. `sync_zombie`: a fetch that took its snapshot before a deletion adds the object after the
   TF callback's only removal of it; it stays in MoveIt's scene.
2. `sync_refresh`: a cached glTF is never replaced or dropped (its key is made of names), so
   an object that returns with another shape keeps the old one.
3. `sync_onlynames`: the names queued from TF are object names, but the add looks them up
   among frames; without the periodic synchronization new objects never appear.
4. `sync_missedmove`: a pose published before the object's `ADD` is applied is lost in MoveIt
   and remembered as published: the object stays at a wrong pose while it stands still.
5. `grasp_aborted`: one candidate without a grasp aborts the goal before the candidates after
   it are tried, though "all objects in the pool are evaluated".

## Proofs

`SceneSyncProofs` proves for every number of objects, frames, meshes, request threads and
every bound, from the assumptions on the constants in `SceneSync` alone:

- `TypeCorrect`: `[]TypeOK`. One lemma per part that an action leaves alone
  (`UnchangedTypes`), one for publishing (`PublishType`, the history depth), one step per
  action.
- `CacheCorrect`, `InFlightCorrect`: `[](TrackedMeshesComplete /\ InFlightMeshesStored)`. The
  first is not inductive: between looking a renderable up and listing it the lock is free. The
  second is what carries the fact across.
- `WakeCorrect`: `[]QueuedNamesWakeSync`.
- `DeadbandCorrect`, `ForgettingCorrect`: `[](DeadbandForgetsRemoved /\
  DeadbandIsAgainstPublished)`, with the TF callback's locals as strengthening: a removed
  frame's last pose message is the removal, or is about to be.

`SceneFetchProofs` proves of the same specification, with the same generality:

- `FetchCorrect`: under `[][Keeps(f)]_vars`, `[](Accounted(f) /\ CompleteAtRest(f))`. From the
  TF callback that announces a frame on, its name is queued, or its object is about to be asked
  for, or each of its meshes is cached or in the sync thread's hands; when that thread rests
  with nothing queued, all are cached. `Keeps(f)` says that `f` is not deleted and that the
  World answers the sync thread's own calls. Both are needed: a call that fails drops the names
  it was made for, and only the next periodic synchronization makes up for it (liveness,
  `MirrorsWorld`); a deletion races with the fetch (finding 1). The theorem is about the cache:
  who looks names up in it on the way to MoveIt is finding 3.
- `ShownCorrect`: `[]ShownIsOwned`, with `NoneExcluded`: whatever is collected, sent or in
  MoveIt's scene shows a frame only meshes of its own, and none of an excluded object.
- `DestructorCorrect`, `NothingAfterDestructor`: when `~SceneSynchronizer` has returned no call
  is under way, and none starts. Both rest on the guard of `Destroy`, which is the order in
  which main stops its executors; goal threads that outlive main are not modelled.

`GraspActionProofs` and `GraspRankingProofs` prove for any goals, names, objects, candidates
and caps, from `RequestsAssumption`, `ObjectsAssumption` and `PlannerAssumption`;
`ExactCorrect` also from `ExactMatchAssumption`, that the first match the code tries compares
whole ids:

- `TypeCorrect`: `[]TypeOK`, which needs `PlanningInPool` (a thread that plans has a candidate
  left), or `candidates[i]` would have no type.
- `ModelOnce`: `ModelAssignedOnce`, from `ModelLocked`: only the holder of the lock loads, and
  only while there is no model. What was read outside the lock plays no part in it.
  `ModelIsSafe`: hence nobody plans without a model, and whoever waits for the lock waits for
  another thread that is loading and waits for nothing itself.
- `ExactCorrect`: `ExactNameWins`, from `ExactResolves` on `ResolveTargetObjectId`.
- `FeedbackCorrect`, `TargetsCorrect`: `[]CompletedHaveGrasps`, `[]GraspsNameTheirCandidate`,
  with `TargetMeant` for the candidate that is being planned.
- `ServerKeepsProtocol`: the safety part of `KeepsProtocol`, from `ThreadMatchesStatus`, which
  ties where a thread is to its goal's status. Every step is a step of `GoalLifecycle`, or
  leaves its variables alone.
- `OutcomeCorrect`: a goal that planned all its candidates succeeds: the code's branch for an
  empty ranking is never taken (`CompletedHaveGrasps`, and an accepted goal has candidates).
  `FinalCorrect`: `ResultIsFinal`, each goal is answered once, from `ThreadMatchesStatus`.
- `ResultsAreBest`: `[]BestOfPool`. The invariant is `NothingLost`: a grasp the extraction left
  behind is outranked by grasps numbered 1 to `Limit[g]`. By the pigeonhole principle
  (`FirstAreBetter`) these fill the first `Limit[g]` places of a ranking, or better ones do.
- `FramesAreDistinct`: `[]GraspFramesAreDistinct`, from `NumbersDiffer` for the pool that is
  being collected: numbers of one candidate differ, and those of two carry another index.

`GraspSkillProofs` proves for any executions, frames, who names which and who waits for whom, from
`ExecutionsAssumption`, that is for a server of which `GoalLifecycle` is all that is known:

- `TypeCorrect`: `[]TypeOK`, and `FramesCorrect`, `CancelsCorrect`, `OkCorrect`,
  `ApproachCorrect` for the four properties. Their invariant has four parts: `GoalsOK` (a
  cancel request, on its way or heeded, is of an execution that has given up; who updates has
  a succeeded goal), `MovedFramesOK` (a moved frame is of an execution past its waits whose
  goal succeeded), `OrderOK` (who has begun has waited for those before it) and `PairsOK`
  (where the two frames of an `Exclusive` execution stand, and who moved them away since).
  `PairsOK` is kept for a different reason by each kind of execution: one without a common
  frame (`PairKeptByStranger`), one before it, which finds it not begun (`PairKeptByEarlier`),
  one after it (`PairKeptByLater`, from `UpdatesGoOn`), and itself (`PairKeptByItself`).
- `GoalsKeepProtocol`: whatever the skill, the network and their timeouts do, the goals in the
  server behave as `GoalLifecycle` says, which is what `ServerKeepsProtocol` gives.
- `BestGraspCorrect`: the first grasp of the result exists when a frame is moved to it
  (`SizesOK`). `SentCorrect`: the server never gets a goal twice, nor one whose execution
  has not connected, and no request to cancel is on its way for a goal it does not know
  (`SentInv`).

`StatusMonitorProofs` proves for any callers, parameters and number of faults:

- `TypeCorrect`, `RequestsCorrect`: `[]TypeOK`, `[]NoForgottenRequests`; the first needs the
  second, or an answer could come to a caller that no longer waits for it.
- `VerdictCorrect`, `EnableCorrect`: from `Knows(c)`, which says for each line of the check
  which conditions are in `seen[c]` and, past the trigger, that the synchronization is.
- `CallsLinearizable`: the safety part of `AnswersLinearizable`, with `MethodsOK` (which method
  may be at which line). Each handler step maps to the effect of the call, to the decision for
  one answer, to its return, or to nothing.
- `WaitsCorrect`: what is safety behind `EnableRepairs` and `MainReturns`. A request that is not
  lost is with a server that is up, a call whose request is lost can give up, and when main
  returns no call is under way and no answer is expected.

`SceneReadinessProofs` proves for any parameters and any number of restarts:

- `TypeCorrect`: `[]TypeOK`, and `PendingCorrect`: `[]OneQueryPending`, with `FutureInUse`: an
  answer is only there to be waited for or thrown away.
- `GateCorrect`: `[]AcceptedIsPopulated`, from `ReadyMeansPopulated`: `scene_ready` is raised
  for a populated scene, or when the executor has returned and nobody asks any more.
- `MainIsLast`, `NothingAfterMain`: what is safety behind `ShutdownCompletes`. Main's steps keep
  their order; when it returns the thread has exited with no query pending, and from then on
  nothing changes the node. Detached goal threads are not part of this module.

`MotionSkillProofs` proves for any number of executions besides:

- `ProcessIsUnaware`: the composition implements `SceneReadiness`, so that the theorems above
  hold of it; `MotionTypeCorrect`: `[]MotionTypeOK`.
- `PlannedCorrect`: `[]PlannedIsPopulated`, from `GateCorrect` by way of `ProcessIsUnaware`, and
  from `populated` never being taken back.
- `OwnCorrect`: an execution is told what its own request was answered, and no handler is cut
  off by the shutdown. `AnswersAreFinal`: a request is answered once, waited for or not. Both
  use `MainIsLast` by way of `ProcessIsUnaware`.

Some theorems state no property of a run (`FetchCorrect`, `MainIsLast`, `WaitsCorrect`,
`OutcomeCorrect` and the like): what they say was checked by TLC on the runs' instances first.

Only model-checked: everything under fairness (`MirrorsWorld`, `UpdatesConverge`,
`QueuedNamesAreFetched`, `DestructorReturns`, `EventuallyReady`, `ShutdownCompletes`,
`RequestsAreAnswered`, `EnableRepairs`, `MainReturns`, `ExecuteReturns` of both skills, the
liveness in `KeepsProtocol` and `AnswersLinearizable`), which is out of the prover's reach.

## Not modelled, and why

- Numbers and geometry: grasp and pregrasp poses, bounding boxes, quaternions, and durations
  with their conversions. Timeouts are events that may happen at any moment, whatever their
  length; the hazards list the conversions that lose something.
- Strings: `StripTfPrefixes`, and the spelling of target ids and object names, of which the
  models keep what the code compares (sets of matches, from exact to prefix).
- A live object whose geometry is edited in place; glTF decoding; MTC's search, which is the
  choice of a list of qualities.
- Goal threads that outlive main: they are detached, and what becomes of them when main returns
  is decided by rclcpp and the C++ runtime.
- The fields the grasp skill copies into its goal and the annotations of its response.
- `publish_static_transforms.cpp` (two latched messages sent once), launch files, robot
  description, assets, build scripts and the benchmark script: no behaviour of their own.

What would come next: in-place edits of geometry in `SceneSync`, and which pose an object has
when its `ADD` and a `MOVE` cross; box grasps in quarter turns against a reference definition.
