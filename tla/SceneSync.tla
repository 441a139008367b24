------------------------------ MODULE SceneSync ------------------------------
(***************************************************************************)
(* MoveitSceneSynchronizer: it mirrors the collision geometry of the World *)
(* into MoveIt's planning scene.  Three kinds of thread share its Data:    *)
(*   - the TF callback removes frames that left the World, queues the      *)
(*     names of new objects and publishes pose updates;                    *)
(*   - the sync thread wakes on queued names (or on a period) and runs     *)
(*     fetch-then-add;                                                     *)
(*   - request threads (goal threads, the motion service, the readiness    *)
(*     thread, the trigger service) run the same fetch-then-add.           *)
(* Every section the code runs under mutex_ is one action; everything it   *)
(* does outside (a World call, one publish) is an action of its own, so    *)
(* the threads interleave exactly where the code lets them.  The World,    *)
(* the /collision_object topic and MoveIt's scene are external.            *)
(***************************************************************************)
EXTENDS Integers, Sequences, FiniteSets

CONSTANTS
  Objects,         \* World object names (short names, no '/')
  Frames,          \* TF frames "object/entity": the keys of the collision maps
  Meshes,          \* mesh ids; a primitive of a multi-primitive set has its own
  ObjectOf,        \* the object a frame belongs to
  FrameOf,         \* the frame a mesh id belongs to
  RefMeshes,       \* meshes given as a geo_ref, whose glTF must be fetched
  PrimMeshes,      \* meshes given as inline primitives
  Excluded,        \* objects in excluded_collision_namespaces_
  Undecodable,     \* geo_ref meshes whose glTF createMeshFromBinary rejects
  Sync,            \* the sync thread
  Requesters,      \* the threads that call in from outside
  Nullopt,         \* std::nullopt, for an optional list of names
  MayStop,         \* whether the process ends in this instance
  Periodic,        \* world_sync_interval_sec_ > 0
  RateLimited,     \* collision_object_update_rate_hz_ > 0
  MinDelta,        \* the deadband: collision_object_min_position_delta_
  MaxPose,         \* poses are 0..MaxPose, on a line
  MaxVersion,      \* geometry versions are 1..MaxVersion; 0 is "none"
  MaxChanges,      \* bound on the changes the World makes
  MaxFailures,     \* bound on the World calls that fail
  QueueDepth       \* history depth of /collision_object (keep last)

Threads == {Sync} \cup Requesters

(***************************************************************************)
(* A collision key always contains a '/', an object name taken from a TF   *)
(* frame never does: no object name is ever a key of the collision maps.   *)
(***************************************************************************)
ASSUME NamesAssumption ==
  /\ ObjectOf \in [Frames -> Objects]
  /\ FrameOf \in [Meshes -> Frames]
  /\ Objects \cap Frames = {}
  /\ RefMeshes \subseteq Meshes
  /\ PrimMeshes \subseteq Meshes
  /\ RefMeshes \cap PrimMeshes = {}
  /\ Undecodable \subseteq RefMeshes
  /\ Excluded \subseteq Objects

ASSUME ThreadsAssumption ==
  /\ Sync \notin Requesters
  /\ \A S \in SUBSET Objects : Nullopt # S
  /\ Periodic \in BOOLEAN
  /\ RateLimited \in BOOLEAN
  /\ MayStop \in BOOLEAN

ASSUME BoundsAssumption ==
  /\ MinDelta \in Nat
  /\ MaxPose \in Nat
  /\ MaxVersion \in Nat
  /\ MaxChanges \in Nat
  /\ MaxFailures \in Nat
  /\ QueueDepth \in Nat \ {0}

VARIABLES
  \* the World (external)
  geom,            \* version of a frame's geometry, 0 when it does not exist
  pose,            \* a frame's pose; a deleted frame keeps its last one
  changes,         \* changes made so far
  failures,        \* World calls failed so far
  \* Data, under mutex_
  renderables,     \* renderables_collision_: version of the cached glTF
  primitives,      \* primitives_collision_
  relPose,         \* relative_mesh_pose_
  frameMeshes,     \* collision_tf_frame_to_mesh_ids_
  pendingNames,    \* sync_object_names_
  syncNew,         \* sync_new_objects_
  shutdown,        \* shutdown_
  lastPose,        \* last_published_collision_pose_
  recent,          \* frames last_published_collision_time_ says are too recent
  \* the TF callback
  tfPc, tfNames, tfMsg, gone, removing, moves,
  \* the threads that run fetch-then-add
  pc, names, todo, cur, batch,
  \* /collision_object and MoveIt's planning scene (external)
  topic, sceneShape, scenePose,
  \* the process
  rosOk,           \* rclcpp::ok()
  destroyed        \* the destructor has returned

worldVars == <<geom, pose, changes>>
dataVars  == <<renderables, primitives, relPose, frameMeshes, lastPose, recent>>
wakeVars  == <<pendingNames, syncNew>>
tfVars    == <<tfPc, tfNames, tfMsg, gone, removing, moves>>
fetchVars == <<pc, names, todo, cur, batch>>
sceneVars == <<topic, sceneShape, scenePose>>
lifeVars  == <<rosOk, shutdown, destroyed>>
vars == <<worldVars, failures, dataVars, wakeVars, tfVars, fetchVars, sceneVars, lifeVars>>

-----------------------------------------------------------------------------
NoPose == -1
Poses == 0 .. MaxPose
Versions == 0 .. MaxVersion
Shapes == [Meshes -> Versions]
NoShape == [m \in Meshes |-> 0]
Names == {Nullopt} \cup (SUBSET Objects)
Geometry == [mesh : Meshes, ver : Versions]

AddMsgs == [op : {"ADD"}, frame : Frames, shape : Shapes]
MoveMsgs == [op : {"MOVE"}, frame : Frames, pose : Poses]
RemoveMsgs == [op : {"REMOVE"}, frame : Frames]
Messages == AddMsgs \cup MoveMsgs \cup RemoveMsgs

Exists(f) == geom[f] # 0
Tracked == {f \in Frames : frameMeshes[f] # {}}
Dist(p, q) == IF p > q THEN p - q ELSE q - p

(* What a complete ADD of the frame's present geometry would carry. *)
Shown == (RefMeshes \ Undecodable) \cup PrimMeshes
WorldShape(f) ==
  [m \in Meshes |-> IF FrameOf[m] = f /\ m \in Shown THEN geom[f] ELSE 0]

-----------------------------------------------------------------------------
Init ==
  /\ geom \in [Frames -> {0, 1} \cap Versions]
  /\ pose = [f \in Frames |-> 0]
  /\ changes = 0
  /\ failures = 0
  /\ renderables = NoShape
  /\ primitives = NoShape
  /\ relPose = NoShape
  /\ frameMeshes = [f \in Frames |-> {}]
  /\ pendingNames = Nullopt
  /\ syncNew = TRUE
  /\ shutdown = FALSE
  /\ lastPose = [f \in Frames |-> NoPose]
  /\ recent = {}
  /\ tfPc = "idle"
  /\ tfNames = {}
  /\ tfMsg = [f \in Frames |-> NoPose]
  /\ gone = {}
  /\ removing = {}
  /\ moves = {}
  /\ pc = [t \in Threads |-> IF t = Sync THEN "wait" ELSE "idle"]
  /\ names = [t \in Threads |-> Nullopt]
  /\ todo = [t \in Threads |-> {}]
  /\ cur = [t \in Threads |-> {}]
  /\ batch = [t \in Threads |-> {}]
  /\ topic = <<>>
  /\ sceneShape = [f \in Frames |-> NoShape]
  /\ scenePose = [f \in Frames |-> NoPose]
  /\ rosOk = TRUE
  /\ destroyed = FALSE

(* Mutation: an unbounded history. *)
PublishKeepsAll(msg) ==
  /\ topic' = IF rosOk THEN Append(topic, msg) ELSE topic
  /\ UNCHANGED <<sceneShape, scenePose>>

(***************************************************************************)
(* publish(): the publisher keeps the last QueueDepth messages MoveIt has  *)
(* not taken; once the ROS context is shut down a publish does nothing.    *)
(***************************************************************************)
Publish(msg) ==
  /\ topic' = IF ~rosOk THEN topic
              ELSE IF Len(topic) < QueueDepth THEN Append(topic, msg)
              ELSE Append(Tail(topic), msg)
  /\ UNCHANGED <<sceneShape, scenePose>>

-----------------------------------------------------------------------------
(* The World. *)

WorldCreate(f, v) ==
  /\ changes < MaxChanges
  /\ ~Exists(f)
  /\ geom' = [geom EXCEPT ![f] = v]
  /\ changes' = changes + 1
  /\ UNCHANGED <<pose, failures, dataVars, wakeVars, tfVars, fetchVars, sceneVars, lifeVars>>

WorldDelete(f) ==
  /\ changes < MaxChanges
  /\ Exists(f)
  /\ geom' = [geom EXCEPT ![f] = 0]
  /\ changes' = changes + 1
  /\ UNCHANGED <<pose, failures, dataVars, wakeVars, tfVars, fetchVars, sceneVars, lifeVars>>

WorldMove(f, p) ==
  /\ changes < MaxChanges
  /\ Exists(f)
  /\ pose[f] # p
  /\ pose' = [pose EXCEPT ![f] = p]
  /\ changes' = changes + 1
  /\ UNCHANGED <<geom, failures, dataVars, wakeVars, tfVars, fetchVars, sceneVars, lifeVars>>

-----------------------------------------------------------------------------
(* The TF callback. *)

(* A TF message arrives: the frames that exist, each with its pose. *)
TfMessage ==
  /\ tfPc = "idle"
  /\ ~destroyed
  /\ tfPc' = "remove"
  /\ tfMsg' = [f \in Frames |-> IF Exists(f) THEN pose[f] ELSE NoPose]
  /\ gone' = {f \in tfNames : ~Exists(f)}
  /\ UNCHANGED <<tfNames, removing, moves, worldVars, failures, dataVars, wakeVars,
                 fetchVars, sceneVars, lifeVars>>

(* Mutation: the removal drops the frame's cached data as well. *)
EraseFrameAndMeshes(f) ==
  /\ tfPc = "remove"
  /\ f \in gone
  /\ tfPc' = "publishRemove"
  /\ removing' = {f}
  /\ renderables' = [m \in Meshes |-> IF FrameOf[m] = f THEN 0 ELSE renderables[m]]
  /\ frameMeshes' = [frameMeshes EXCEPT ![f] = {}]
  /\ lastPose' = [lastPose EXCEPT ![f] = NoPose]
  /\ recent' = recent \ {f}
  /\ UNCHANGED <<primitives, relPose, tfNames, tfMsg, gone, moves,
                 worldVars, failures, wakeVars, fetchVars, sceneVars, lifeVars>>

(* Mutation: the removal leaves the deadband's reference behind. *)
EraseFrameOnly(f) ==
  /\ tfPc = "remove"
  /\ f \in gone
  /\ tfPc' = "publishRemove"
  /\ removing' = {f}
  /\ frameMeshes' = [frameMeshes EXCEPT ![f] = {}]
  /\ UNCHANGED <<renderables, primitives, relPose, lastPose, recent, tfNames, tfMsg, gone,
                 moves, worldVars, failures, wakeVars, fetchVars, sceneVars, lifeVars>>

(* removeCollisionObject, its locked section: the cached meshes stay. *)
EraseFrame(f) ==
  /\ tfPc = "remove"
  /\ f \in gone
  /\ tfPc' = "publishRemove"
  /\ removing' = {f}
  /\ frameMeshes' = [frameMeshes EXCEPT ![f] = {}]
  /\ lastPose' = [lastPose EXCEPT ![f] = NoPose]
  /\ recent' = recent \ {f}
  /\ UNCHANGED <<renderables, primitives, relPose, tfNames, tfMsg, gone, moves,
                 worldVars, failures, wakeVars, fetchVars, sceneVars, lifeVars>>

(* removeCollisionObject, after the lock. *)
PublishRemove(f) ==
  /\ tfPc = "publishRemove"
  /\ f \in removing
  /\ Publish([op |-> "REMOVE", frame |-> f])
  /\ tfPc' = "remove"
  /\ removing' = {}
  /\ gone' = gone \ {f}
  /\ UNCHANGED <<tfNames, tfMsg, moves, worldVars, failures, dataVars, wakeVars,
                 fetchVars, lifeVars>>

FramesInMsg == {f \in Frames : tfMsg[f] # NoPose}
NewObjectNames == {ObjectOf[f] : f \in FramesInMsg \ tfNames}

(* The names of newly discovered objects are handed to the sync thread. *)
QueueNewObjects ==
  /\ tfPc = "remove"
  /\ gone = {}
  /\ IF NewObjectNames # {}
     THEN /\ pendingNames' = IF pendingNames = Nullopt THEN NewObjectNames
                             ELSE pendingNames \cup NewObjectNames
          /\ syncNew' = TRUE
     ELSE UNCHANGED wakeVars
  /\ tfNames' = FramesInMsg
  /\ tfPc' = "update"
  /\ UNCHANGED <<tfMsg, gone, removing, moves, worldVars, failures, dataVars,
                 fetchVars, sceneVars, lifeVars>>

(* Mutation: the deadband is inclusive. *)
MoveDueBeyond(f) ==
  /\ f \in Tracked
  /\ tfMsg[f] # NoPose
  /\ ~(RateLimited /\ f \in recent)
  /\ lastPose[f] # NoPose => Dist(lastPose[f], tfMsg[f]) > MinDelta

(* A tracked frame of the message that neither throttling nor deadband holds back. *)
MoveDue(f) ==
  /\ f \in Tracked
  /\ tfMsg[f] # NoPose
  /\ ~(RateLimited /\ f \in recent)
  /\ lastPose[f] # NoPose => Dist(lastPose[f], tfMsg[f]) >= MinDelta

(* Mutation: suppressed updates move the deadband's reference too. *)
RememberedAll(f) == f \in Tracked /\ tfMsg[f] # NoPose

(* The frames whose last published pose is overwritten. *)
Remembered(f) == MoveDue(f)

(* updateCollisionObjects, its locked section. *)
UpdateCollisionObjects ==
  LET due == {f \in Frames : MoveDue(f)}
  IN /\ tfPc = "update"
     /\ moves' = {[op |-> "MOVE", frame |-> f, pose |-> tfMsg[f]] : f \in due}
     /\ lastPose' = [f \in Frames |-> IF Remembered(f) THEN tfMsg[f] ELSE lastPose[f]]
     /\ recent' = IF RateLimited THEN recent \cup due ELSE recent
     /\ tfMsg' = [f \in Frames |-> NoPose]
     /\ tfPc' = "publishMoves"
     /\ UNCHANGED <<renderables, primitives, relPose, frameMeshes, tfNames, gone, removing,
                    worldVars, failures, wakeVars, fetchVars, sceneVars, lifeVars>>

PublishMove(msg) ==
  /\ tfPc = "publishMoves"
  /\ msg \in moves
  /\ Publish(msg)
  /\ moves' = moves \ {msg}
  /\ UNCHANGED <<tfPc, tfNames, tfMsg, gone, removing, worldVars, failures, dataVars, wakeVars,
                 fetchVars, lifeVars>>

TfCallbackReturns ==
  /\ tfPc = "publishMoves"
  /\ moves = {}
  /\ tfPc' = "idle"
  /\ UNCHANGED <<tfNames, tfMsg, gone, removing, moves, worldVars, failures, dataVars, wakeVars,
                 fetchVars, sceneVars, lifeVars>>

(* min_period passes since the frame's last published update. *)
MinPeriodElapses(f) ==
  /\ f \in recent
  /\ recent' = recent \ {f}
  /\ UNCHANGED <<renderables, primitives, relPose, frameMeshes, lastPose, worldVars, failures,
                 wakeVars, tfVars, fetchVars, sceneVars, lifeVars>>

TfCallback ==
  \/ \E f \in Frames : EraseFrame(f) \/ PublishRemove(f)
  \/ QueueNewObjects
  \/ UpdateCollisionObjects
  \/ \E msg \in moves : PublishMove(msg)
  \/ TfCallbackReturns

-----------------------------------------------------------------------------
(* The sync thread and the request threads. *)

(* Where a thread goes when its fetch-then-add is over. *)
LoopHead(t) == IF t # Sync THEN "idle" ELSE IF rosOk THEN "wait" ELSE "exited"

(* Mutation: the condition forgets shutdown_. *)
WakeConditionNoShutdown == syncNew

(* What the sync thread awaits. *)
WakeCondition == syncNew \/ shutdown

(* Mutation: the moved-from optional is left engaged. *)
SyncWakesKeepsNames ==
  /\ pc[Sync] = "wait"
  /\ Periodic \/ WakeCondition
  /\ ~shutdown
  /\ pc' = [pc EXCEPT ![Sync] = "getObjects"]
  /\ names' = [names EXCEPT ![Sync] = pendingNames]
  /\ pendingNames' = IF pendingNames = Nullopt THEN Nullopt ELSE {}
  /\ syncNew' = FALSE
  /\ UNCHANGED <<todo, cur, batch, worldVars, failures, dataVars, tfVars,
                 sceneVars, lifeVars>>

(* The sync thread's wait ends: woken, timed out or shut down. *)
SyncWakes ==
  /\ pc[Sync] = "wait"
  /\ Periodic \/ WakeCondition
  /\ IF shutdown
     THEN /\ pc' = [pc EXCEPT ![Sync] = "exited"]
          /\ UNCHANGED <<names, wakeVars>>
     ELSE /\ pc' = [pc EXCEPT ![Sync] = "getObjects"]
          /\ names' = [names EXCEPT ![Sync] = pendingNames]
          /\ pendingNames' = Nullopt
          /\ syncNew' = FALSE
  /\ UNCHANGED <<todo, cur, batch, worldVars, failures, dataVars, tfVars,
                 sceneVars, lifeVars>>

(* A node thread asks for a full synchronization; every caller passes nullopt. *)
Request(t) ==
  /\ ~shutdown
  /\ pc[t] = "idle"
  /\ pc' = [pc EXCEPT ![t] = "getObjects"]
  /\ UNCHANGED <<names, todo, cur, batch, worldVars, failures, dataVars,
                 wakeVars, tfVars, sceneVars, lifeVars>>

(* World::GetObjects: the collision geometry of the wanted objects, as it is now. *)
Wanted(t) == IF names[t] \in {Nullopt, {}} THEN Objects ELSE names[t]
Snapshot(t) ==
  {[mesh |-> m, ver |-> geom[FrameOf[m]]] :
     m \in {n \in Meshes : /\ Exists(FrameOf[n])
                           /\ ObjectOf[FrameOf[n]] \in Wanted(t) \ Excluded}}

GetObjects(t) ==
  /\ pc[t] = "getObjects"
  /\ todo' = [todo EXCEPT ![t] = Snapshot(t)]
  /\ pc' = [pc EXCEPT ![t] = "geometry"]
  /\ UNCHANGED <<names, cur, batch, worldVars, failures, dataVars, wakeVars, tfVars,
                 sceneVars, lifeVars>>

(***************************************************************************)
(* GetObjects fails.  The sync thread and fetchAndSynchronize give up; the *)
(* trigger service goes on and adds what is tracked.                       *)
(***************************************************************************)
GetObjectsFails(t) ==
  /\ pc[t] = "getObjects"
  /\ failures < MaxFailures
  /\ failures' = failures + 1
  /\ \E next \in {LoopHead(t)} \cup (IF t = Sync THEN {} ELSE {"geometry"}) :
       pc' = [pc EXCEPT ![t] = next]
  /\ names' = [names EXCEPT ![t] = Nullopt]
  /\ UNCHANGED <<todo, cur, batch, worldVars, dataVars, wakeVars, tfVars,
                 sceneVars, lifeVars>>

(* Mutation: emplace, which keeps the shape stored first. *)
StorePrimitiveOnce(t, g) ==
  /\ pc[t] = "geometry"
  /\ g \in todo[t]
  /\ g.mesh \in PrimMeshes
  /\ primitives' = [primitives EXCEPT ![g.mesh] = IF @ = 0 THEN g.ver ELSE @]
  /\ relPose' = [relPose EXCEPT ![g.mesh] = g.ver]
  /\ frameMeshes' = [frameMeshes EXCEPT ![FrameOf[g.mesh]] = @ \cup {g.mesh}]
  /\ todo' = [todo EXCEPT ![t] = @ \ {g}]
  /\ UNCHANGED <<renderables, lastPose, recent, pc, names, cur, batch,
                 worldVars, failures, wakeVars, tfVars, sceneVars, lifeVars>>

(* One inline primitive: data, pose and frame in a single locked section. *)
StorePrimitive(t, g) ==
  /\ pc[t] = "geometry"
  /\ g \in todo[t]
  /\ g.mesh \in PrimMeshes
  /\ primitives' = [primitives EXCEPT ![g.mesh] = g.ver]
  /\ relPose' = [relPose EXCEPT ![g.mesh] = g.ver]
  /\ frameMeshes' = [frameMeshes EXCEPT ![FrameOf[g.mesh]] = @ \cup {g.mesh}]
  /\ todo' = [todo EXCEPT ![t] = @ \ {g}]
  /\ UNCHANGED <<renderables, lastPose, recent, pc, names, cur, batch,
                 worldVars, failures, wakeVars, tfVars, sceneVars, lifeVars>>

(* Neither a geo_ref nor a supported primitive: logged and skipped. *)
SkipGeometry(t, g) ==
  /\ pc[t] = "geometry"
  /\ g \in todo[t]
  /\ g.mesh \notin RefMeshes \cup PrimMeshes
  /\ todo' = [todo EXCEPT ![t] = @ \ {g}]
  /\ UNCHANGED <<pc, names, cur, batch, worldVars, failures, dataVars,
                 wakeVars, tfVars, sceneVars, lifeVars>>

(* A geo_ref: is its glTF cached?  The answer is used after the lock is released. *)
CheckRenderable(t, g) ==
  /\ pc[t] = "geometry"
  /\ g \in todo[t]
  /\ g.mesh \in RefMeshes
  /\ pc' = [pc EXCEPT ![t] = IF renderables[g.mesh] = 0 THEN "gltf" ELSE "track"]
  /\ cur' = [cur EXCEPT ![t] = {g}]
  /\ todo' = [todo EXCEPT ![t] = @ \ {g}]
  /\ UNCHANGED <<names, batch, worldVars, failures, dataVars, wakeVars,
                 tfVars, sceneVars, lifeVars>>

(* GetGltf answers; emplace keeps what another thread stored meanwhile. *)
StoreRenderable(t, g) ==
  /\ pc[t] = "gltf"
  /\ g \in cur[t]
  /\ renderables' = [renderables EXCEPT ![g.mesh] = IF @ = 0 THEN g.ver ELSE @]
  /\ pc' = [pc EXCEPT ![t] = "track"]
  /\ UNCHANGED <<primitives, relPose, frameMeshes, lastPose, recent, names, todo,
                 cur, batch, worldVars, failures, wakeVars, tfVars, sceneVars,
                 lifeVars>>

(* GetGltf fails: this mesh is skipped, the fetch still ends with Ok. *)
GetGltfFails(t) ==
  /\ pc[t] = "gltf"
  /\ failures < MaxFailures
  /\ failures' = failures + 1
  /\ pc' = [pc EXCEPT ![t] = "geometry"]
  /\ cur' = [cur EXCEPT ![t] = {}]
  /\ UNCHANGED <<names, todo, batch, worldVars, dataVars, wakeVars,
                 tfVars, sceneVars, lifeVars>>

(* The mesh's pose and its entry under the frame, in a locked section of their own. *)
TrackRenderable(t, g) ==
  /\ pc[t] = "track"
  /\ g \in cur[t]
  /\ relPose' = [relPose EXCEPT ![g.mesh] = g.ver]
  /\ frameMeshes' = [frameMeshes EXCEPT ![FrameOf[g.mesh]] = @ \cup {g.mesh}]
  /\ pc' = [pc EXCEPT ![t] = "geometry"]
  /\ cur' = [cur EXCEPT ![t] = {}]
  /\ UNCHANGED <<renderables, primitives, lastPose, recent, names, todo, batch, worldVars, failures, wakeVars, tfVars, sceneVars, lifeVars>>

(* What an ADD of the frame carries, from the maps as they are. *)
CachedShape(f) ==
  [m \in Meshes |->
     IF m \notin frameMeshes[f] \/ relPose[m] = 0 \/ m \in Undecodable THEN 0
     ELSE IF renderables[m] # 0 THEN renderables[m]
     ELSE primitives[m]]

(* The list given is looked up among the frames, although it holds object names. *)
FramesToAdd(t) == IF names[t] = Nullopt THEN Tracked ELSE names[t] \cap Tracked

(* addCollisionObjectsToScene, its locked section. *)
AddCollisionObjects(t) ==
  /\ pc[t] = "geometry"
  /\ todo[t] = {}
  /\ batch' = [batch EXCEPT ![t] =
       {[op |-> "ADD", frame |-> f, shape |-> CachedShape(f)] : f \in FramesToAdd(t)}]
  /\ pc' = [pc EXCEPT ![t] = "publish"]
  /\ UNCHANGED <<names, todo, cur, worldVars, failures, dataVars, wakeVars,
                 tfVars, sceneVars, lifeVars>>

(* addCollisionObjectsToScene publishes its messages outside the lock. *)
PublishAdd(t, msg) ==
  /\ pc[t] = "publish"
  /\ msg \in batch[t]
  /\ Publish(msg)
  /\ batch' = [batch EXCEPT ![t] = @ \ {msg}]
  /\ UNCHANGED <<pc, names, todo, cur, worldVars, failures, dataVars,
                 wakeVars, tfVars, lifeVars>>

(* Mutation: sync_new_objects_ is reset when the round is over. *)
AddReturnsResets(t) ==
  /\ pc[t] = "publish"
  /\ batch[t] = {}
  /\ pc' = [pc EXCEPT ![t] = LoopHead(t)]
  /\ names' = [names EXCEPT ![t] = Nullopt]
  /\ syncNew' = IF t = Sync THEN FALSE ELSE syncNew
  /\ UNCHANGED <<todo, cur, batch, pendingNames, worldVars, failures, dataVars,
                 tfVars, sceneVars, lifeVars>>

(* fetch-then-add is over; the sync thread is back at the head of its loop. *)
AddReturns(t) ==
  /\ pc[t] = "publish"
  /\ batch[t] = {}
  /\ pc' = [pc EXCEPT ![t] = LoopHead(t)]
  /\ names' = [names EXCEPT ![t] = Nullopt]
  /\ UNCHANGED <<todo, cur, batch, worldVars, failures, dataVars, wakeVars, tfVars,
                 sceneVars, lifeVars>>

FetchAndAdd(t) ==
  \/ GetObjects(t)
  \/ GetObjectsFails(t)
  \/ \E g \in todo[t] : StorePrimitive(t, g) \/ SkipGeometry(t, g) \/ CheckRenderable(t, g)
  \/ \E g \in cur[t] : StoreRenderable(t, g) \/ TrackRenderable(t, g)
  \/ GetGltfFails(t)
  \/ AddCollisionObjects(t)
  \/ \E msg \in batch[t] : PublishAdd(t, msg)
  \/ AddReturns(t)

-----------------------------------------------------------------------------
(***************************************************************************)
(* MoveIt applies one message.  An ADD without shapes is refused, a MOVE   *)
(* or REMOVE of an unknown object does nothing.  The code adds an object   *)
(* at the identity of a frame that bears the object's own name: MoveIt     *)
(* finds that frame in TF or, once it shows the object, at the object.     *)
(***************************************************************************)
ApplyAdd(f, shape) ==
  IF shape = NoShape THEN UNCHANGED <<sceneShape, scenePose>>
  ELSE /\ sceneShape' = [sceneShape EXCEPT ![f] = shape]
       /\ \E p \in {pose[f]} \cup ({scenePose[f]} \ {NoPose}) :
            scenePose' = [scenePose EXCEPT ![f] = p]

ApplyMove(f, p) ==
  /\ scenePose' = IF sceneShape[f] = NoShape THEN scenePose
                  ELSE [scenePose EXCEPT ![f] = p]
  /\ UNCHANGED sceneShape

ApplyRemove(f) ==
  /\ sceneShape' = [sceneShape EXCEPT ![f] = NoShape]
  /\ scenePose' = [scenePose EXCEPT ![f] = NoPose]

Deliver(f) ==
  /\ topic # <<>>
  /\ LET msg == Head(topic)
     IN /\ msg.frame = f
        /\ CASE msg.op = "ADD" -> ApplyAdd(f, msg.shape)
             [] msg.op = "MOVE" -> ApplyMove(f, msg.pose)
             [] msg.op = "REMOVE" -> ApplyRemove(f)
  /\ topic' = Tail(topic)
  /\ UNCHANGED <<worldVars, failures, dataVars, wakeVars, tfVars, fetchVars, lifeVars>>

-----------------------------------------------------------------------------
(* The process ends: rclcpp shuts down, then the synchronizer is destroyed. *)

RosShutdown ==
  /\ MayStop
  /\ rosOk
  /\ rosOk' = FALSE
  /\ UNCHANGED <<shutdown, destroyed, worldVars, failures, dataVars, wakeVars, tfVars,
                 fetchVars, sceneVars>>

(* The destructor's locked section; no request thread holds the synchronizer. *)
Destroy ==
  /\ ~rosOk
  /\ ~shutdown
  /\ \A t \in Requesters : pc[t] = "idle"
  /\ shutdown' = TRUE
  /\ UNCHANGED <<rosOk, destroyed, worldVars, failures, dataVars, wakeVars, tfVars,
                 fetchVars, sceneVars>>

(* sync_thread_->join() returns. *)
Join ==
  /\ shutdown
  /\ ~destroyed
  /\ pc[Sync] = "exited"
  /\ destroyed' = TRUE
  /\ UNCHANGED <<rosOk, shutdown, worldVars, failures, dataVars, wakeVars, tfVars,
                 fetchVars, sceneVars>>

Next ==
  \/ \E f \in Frames : \/ \E v \in 1 .. MaxVersion : WorldCreate(f, v)
                       \/ WorldDelete(f)
                       \/ \E p \in Poses : WorldMove(f, p)
  \/ TfMessage
  \/ TfCallback
  \/ \E f \in Frames : MinPeriodElapses(f)
  \/ SyncWakes
  \/ \E t \in Requesters : Request(t)
  \/ \E t \in Threads : FetchAndAdd(t)
  \/ \E f \in Frames : Deliver(f)
  \/ RosShutdown
  \/ Destroy
  \/ Join

Spec == Init /\ [][Next]_vars

(***************************************************************************)
(* Every thread keeps running, the World keeps streaming TF, time passes,  *)
(* and the network does not starve a frame.  Nobody has to shut down, to   *)
(* request a synchronization, to change the World or to fail.              *)
(***************************************************************************)
Fairness ==
  /\ WF_vars(TfMessage)
  /\ WF_vars(TfCallback)
  /\ WF_vars(SyncWakes)
  /\ \A t \in Threads : WF_vars(FetchAndAdd(t))
  /\ \A f \in Frames : WF_vars(MinPeriodElapses(f)) /\ SF_vars(Deliver(f))
  /\ WF_vars(Join)

FairSpec == Spec /\ Fairness

-----------------------------------------------------------------------------
(* Properties. *)

WorldTypeOK ==
  /\ geom \in [Frames -> Versions]
  /\ pose \in [Frames -> Poses]
  /\ changes \in 0 .. MaxChanges
  /\ failures \in 0 .. MaxFailures

DataTypeOK ==
  /\ renderables \in Shapes
  /\ primitives \in Shapes
  /\ relPose \in Shapes
  /\ frameMeshes \in [Frames -> SUBSET Meshes]
  /\ pendingNames \in Names
  /\ syncNew \in BOOLEAN
  /\ lastPose \in [Frames -> Poses \cup {NoPose}]
  /\ recent \subseteq Frames

TfTypeOK ==
  /\ tfPc \in {"idle", "remove", "publishRemove", "update", "publishMoves"}
  /\ tfNames \subseteq Frames
  /\ gone \subseteq Frames
  /\ removing \subseteq Frames
  /\ tfMsg \in [Frames -> Poses \cup {NoPose}]
  /\ moves \subseteq MoveMsgs

FetchTypeOK ==
  /\ pc \in [Threads -> {"idle", "wait", "exited", "getObjects", "geometry", "gltf", "track",
                         "publish"}]
  /\ names \in [Threads -> Names]
  /\ todo \in [Threads -> SUBSET Geometry]
  /\ cur \in [Threads -> SUBSET Geometry]
  /\ batch \in [Threads -> SUBSET AddMsgs]

SceneTypeOK ==
  /\ topic \in Seq(Messages)
  /\ Len(topic) <= QueueDepth
  /\ sceneShape \in [Frames -> Shapes]
  /\ scenePose \in [Frames -> Poses \cup {NoPose}]

LifeTypeOK ==
  /\ rosOk \in BOOLEAN
  /\ shutdown \in BOOLEAN
  /\ destroyed \in BOOLEAN

(* Every variable stays in its set; the topic never holds more than its history depth. *)
TypeOK ==
  /\ WorldTypeOK
  /\ DataTypeOK
  /\ TfTypeOK
  /\ FetchTypeOK
  /\ SceneTypeOK
  /\ LifeTypeOK

(***************************************************************************)
(* A mesh listed under a tracked frame always has its pose and its data,   *)
(* although a renderable is checked, fetched, stored and tracked in four   *)
(* separate steps that other threads and the TF removal interleave with:   *)
(* an ADD never silently lacks a mesh the frame is known to have.          *)
(***************************************************************************)
TrackedMeshesComplete ==
  \A f \in Frames : \A m \in frameMeshes[f] :
    /\ FrameOf[m] = f
    /\ relPose[m] # 0
    /\ IF m \in RefMeshes THEN renderables[m] # 0 ELSE primitives[m] # 0

(***************************************************************************)
(* A thread that found a mesh in the cache, or put it there, still finds   *)
(* it when it comes to list the mesh under its frame: nothing another      *)
(* thread does in between takes cached data away.                          *)
(***************************************************************************)
InFlightMeshesStored ==
  \A t \in Threads :
    /\ \A g \in todo[t] \cup cur[t] : g.ver # 0
    /\ \A g \in cur[t] : /\ g.mesh \in RefMeshes
                         /\ pc[t] = "track" => renderables[g.mesh] # 0
                         /\ cur[t] = {g}

(***************************************************************************)
(* A queued object name is never forgotten by the wakeup: while names are  *)
(* queued sync_new_objects_ is set, whatever the sync thread was doing     *)
(* when the TF callback queued them.                                       *)
(***************************************************************************)
QueuedNamesWakeSync == pendingNames # Nullopt => syncNew /\ pendingNames # {}

(***************************************************************************)
(* The deadband and the throttle remember nothing of a removed frame: a    *)
(* frame that is removed and comes back gets its first pose update.        *)
(***************************************************************************)
DeadbandForgetsRemoved ==
  \A f \in Frames : frameMeshes[f] = {} => lastPose[f] = NoPose /\ f \notin recent

(***************************************************************************)
(* The deadband compares with what MoveIt was last told: the latest pose   *)
(* update of a frame still on its way, unless a removal came after it, is  *)
(* the pose the next update is measured against.  Suppressed updates never *)
(* move the reference, so a slow drift cannot hide below the deadband.     *)
(***************************************************************************)
LatestPoseMsg(f, i) ==
  /\ topic[i].frame = f
  /\ topic[i].op # "ADD"
  /\ \A j \in i + 1 .. Len(topic) : topic[j].frame = f => topic[j].op = "ADD"

DeadbandIsAgainstPublished ==
  /\ \A msg \in moves : msg.pose = lastPose[msg.frame]
  /\ rosOk =>
       \A f \in Frames \ (removing \cup {msg.frame : msg \in moves}) :
         \A i \in 1 .. Len(topic) :
           LatestPoseMsg(f, i) /\ topic[i].op = "MOVE" => topic[i].pose = lastPose[f]

(***************************************************************************)
(* Whatever races happened on the way, a World that stops changing and     *)
(* whose calls stop failing is mirrored in the end, while the process      *)
(* runs: each of its objects is in MoveIt's scene with the complete shape  *)
(* of its present geometry.                                                *)
(***************************************************************************)
MirrorsWorld ==
  \A f \in Frames :
    ObjectOf[f] \notin Excluded =>
      <>[](Exists(f) => sceneShape[f] = WorldShape(f))

(* The names the TF callback queues are asked of the World, or everything is. *)
QueuedNamesAreFetched ==
  \A o \in Objects :
    (pendingNames # Nullopt /\ o \in pendingNames)
      ~> (~rosOk \/ (pc[Sync] = "getObjects" /\ o \in Wanted(Sync)))

(***************************************************************************)
(* However throttling and deadband suppress updates, removals forget them  *)
(* and frames come back: when the World stops moving, the last pose        *)
(* published for a tracked frame is within the deadband of its real one.   *)
(***************************************************************************)
UpdatesConverge ==
  \A f \in Frames :
    <>[](Exists(f) /\ f \in Tracked =>
           lastPose[f] # NoPose /\ Dist(lastPose[f], pose[f]) < MinDelta)

(* The destructor's join returns: the sync thread never sleeps through a shutdown. *)
DestructorReturns == shutdown ~> destroyed

(***************************************************************************)
(* "Updates tracked collision object poses in MoveIt based on new TF       *)
(* transforms": the object MoveIt shows ends up within the deadband of     *)
(* where the World has it, when updates never stop arriving.               *)
(***************************************************************************)
PosesConverge ==
  \A f \in Frames :
    <>[](Exists(f) /\ sceneShape[f] # NoShape => Dist(scenePose[f], pose[f]) < MinDelta)

(* "Remove deleted collision frames": a frame the World deleted leaves the scene. *)
DeletedFramesLeaveScene ==
  \A f \in Frames : <>[](~Exists(f) => sceneShape[f] = NoShape)
=============================================================================
