--------------------------- MODULE SceneSyncProofs ---------------------------
(***************************************************************************)
(* The safety invariants of SceneSync, for every World, any number of      *)
(* request threads and every bound.                                        *)
(***************************************************************************)
EXTENDS SceneSync, SequenceTheorems, TLAPS

(* Publishing keeps the topic within its type and its history depth. *)
LEMMA PublishType ==
  ASSUME SceneTypeOK, NEW msg \in Messages, Publish(msg)
  PROVE  SceneTypeOK'
<1>1. QueueDepth \in Nat \ {0}
  BY BoundsAssumption
<1>2. topic' \in Seq(Messages) /\ Len(topic') <= QueueDepth
  <2>1. CASE ~rosOk
    BY <2>1 DEF Publish, SceneTypeOK
  <2>2. CASE rosOk /\ Len(topic) < QueueDepth
    BY <1>1, <2>2, AppendProperties DEF Publish, SceneTypeOK
  <2>3. CASE rosOk /\ ~(Len(topic) < QueueDepth)
    <3>1. topic # <<>> /\ topic \in Seq(Messages) /\ Len(topic) = QueueDepth
      BY <1>1, <2>3, EmptySeq, LenProperties DEF SceneTypeOK
    <3>2. Tail(topic) \in Seq(Messages) /\ Len(Tail(topic)) = Len(topic) - 1
      BY <3>1, HeadTailProperties
    <3>3. topic' = Append(Tail(topic), msg)
      BY <2>3 DEF Publish
    <3> QED
      BY <1>1, <3>1, <3>2, <3>3, AppendProperties
  <2> QED
    BY <2>1, <2>2, <2>3
<1> QED
  BY <1>2 DEF Publish, SceneTypeOK

LEMMA InitType == Init => TypeOK
<1> SUFFICES ASSUME Init PROVE TypeOK
  OBVIOUS
<1> USE DEF Init, Shapes, NoShape, Names, Versions, Poses, NoPose
<1>1. WorldTypeOK
  BY BoundsAssumption DEF WorldTypeOK
<1>2. DataTypeOK
  BY BoundsAssumption DEF DataTypeOK
<1>3. TfTypeOK
  BY DEF TfTypeOK
<1>4. FetchTypeOK
  BY DEF FetchTypeOK
<1>5. SceneTypeOK
  BY BoundsAssumption DEF SceneTypeOK
<1>6. LifeTypeOK
  BY DEF LifeTypeOK
<1> QED
  BY <1>1, <1>2, <1>3, <1>4, <1>5, <1>6 DEF TypeOK

(* What an action leaves alone keeps its type. *)
LEMMA UnchangedTypes ==
  /\ WorldTypeOK /\ UNCHANGED worldVars /\ UNCHANGED failures => WorldTypeOK'
  /\ DataTypeOK /\ UNCHANGED dataVars /\ UNCHANGED wakeVars => DataTypeOK'
  /\ TfTypeOK /\ UNCHANGED tfVars => TfTypeOK'
  /\ FetchTypeOK /\ UNCHANGED fetchVars => FetchTypeOK'
  /\ SceneTypeOK /\ UNCHANGED sceneVars => SceneTypeOK'
  /\ LifeTypeOK /\ UNCHANGED lifeVars => LifeTypeOK'
BY DEF worldVars, dataVars, wakeVars, tfVars, fetchVars, sceneVars, lifeVars,
       WorldTypeOK, DataTypeOK, TfTypeOK, FetchTypeOK, SceneTypeOK, LifeTypeOK

(* Every action keeps every part of the type invariant. *)
LEMMA NextType == TypeOK /\ [Next]_vars => TypeOK'
<1> SUFFICES ASSUME TypeOK, [Next]_vars PROVE TypeOK'
  OBVIOUS
<1> USE BoundsAssumption, NamesAssumption, ThreadsAssumption
<1>1. ASSUME NEW f \in Frames, NEW v \in 1 .. MaxVersion, WorldCreate(f, v) PROVE TypeOK'
  <2>1. WorldTypeOK'
    BY <1>1 DEF TypeOK, WorldCreate, WorldTypeOK, Versions
  <2>2. DataTypeOK' /\ TfTypeOK' /\ FetchTypeOK' /\ SceneTypeOK' /\ LifeTypeOK'
    BY <1>1, UnchangedTypes DEF TypeOK, WorldCreate
  <2> QED
    BY <2>1, <2>2 DEF TypeOK
<1>2. ASSUME NEW f \in Frames, WorldDelete(f) PROVE TypeOK'
  <2>1. WorldTypeOK'
    BY <1>2 DEF TypeOK, WorldDelete, WorldTypeOK, Versions
  <2>2. DataTypeOK' /\ TfTypeOK' /\ FetchTypeOK' /\ SceneTypeOK' /\ LifeTypeOK'
    BY <1>2, UnchangedTypes DEF TypeOK, WorldDelete
  <2> QED
    BY <2>1, <2>2 DEF TypeOK
<1>3. ASSUME NEW f \in Frames, NEW p \in Poses, WorldMove(f, p) PROVE TypeOK'
  <2>1. WorldTypeOK'
    BY <1>3 DEF TypeOK, WorldMove, WorldTypeOK
  <2>2. DataTypeOK' /\ TfTypeOK' /\ FetchTypeOK' /\ SceneTypeOK' /\ LifeTypeOK'
    BY <1>3, UnchangedTypes DEF TypeOK, WorldMove
  <2> QED
    BY <2>1, <2>2 DEF TypeOK
<1>4. CASE TfMessage
  <2>1. TfTypeOK'
    BY <1>4 DEF TypeOK, TfMessage, TfTypeOK, WorldTypeOK
  <2>2. WorldTypeOK' /\ DataTypeOK' /\ FetchTypeOK' /\ SceneTypeOK' /\ LifeTypeOK'
    BY <1>4, UnchangedTypes DEF TypeOK, TfMessage
  <2> QED
    BY <2>1, <2>2 DEF TypeOK
<1>5. ASSUME NEW f \in Frames, EraseFrame(f) PROVE TypeOK'
  <2>1. DataTypeOK'
    BY <1>5 DEF TypeOK, EraseFrame, DataTypeOK, wakeVars
  <2>2. TfTypeOK'
    BY <1>5 DEF TypeOK, EraseFrame, TfTypeOK
  <2>3. WorldTypeOK' /\ FetchTypeOK' /\ SceneTypeOK' /\ LifeTypeOK'
    BY <1>5, UnchangedTypes DEF TypeOK, EraseFrame
  <2> QED
    BY <2>1, <2>2, <2>3 DEF TypeOK
<1>6. ASSUME NEW f \in Frames, PublishRemove(f) PROVE TypeOK'
  <2>1. TfTypeOK'
    BY <1>6 DEF TypeOK, PublishRemove, TfTypeOK
  <2>2. SceneTypeOK'
    BY <1>6, PublishType DEF TypeOK, PublishRemove, Messages, RemoveMsgs
  <2>3. WorldTypeOK' /\ DataTypeOK' /\ FetchTypeOK' /\ LifeTypeOK'
    BY <1>6, UnchangedTypes DEF TypeOK, PublishRemove
  <2> QED
    BY <2>1, <2>2, <2>3 DEF TypeOK
<1>7. CASE QueueNewObjects
  <2>1. DataTypeOK'
    <3>1. NewObjectNames \in SUBSET Objects
      BY DEF NewObjectNames, FramesInMsg
    <3>2. pendingNames' \in Names /\ syncNew' \in BOOLEAN
      BY <1>7, <3>1 DEF TypeOK, QueueNewObjects, DataTypeOK, wakeVars, Names
    <3> QED
      BY <1>7, <3>2 DEF TypeOK, QueueNewObjects, DataTypeOK, dataVars
  <2>2. TfTypeOK'
    BY <1>7 DEF TypeOK, QueueNewObjects, FramesInMsg, TfTypeOK
  <2>3. WorldTypeOK' /\ FetchTypeOK' /\ SceneTypeOK' /\ LifeTypeOK'
    BY <1>7, UnchangedTypes DEF TypeOK, QueueNewObjects
  <2> QED
    BY <2>1, <2>2, <2>3 DEF TypeOK
<1>8. CASE UpdateCollisionObjects
  <2>1. DataTypeOK'
    BY <1>8 DEF TypeOK, UpdateCollisionObjects, Remembered, MoveDue, DataTypeOK, TfTypeOK, wakeVars
  <2>2. TfTypeOK'
    BY <1>8 DEF TypeOK, UpdateCollisionObjects, MoveDue, TfTypeOK, MoveMsgs, NoPose
  <2>3. WorldTypeOK' /\ FetchTypeOK' /\ SceneTypeOK' /\ LifeTypeOK'
    BY <1>8, UnchangedTypes DEF TypeOK, UpdateCollisionObjects
  <2> QED
    BY <2>1, <2>2, <2>3 DEF TypeOK
<1>9. ASSUME NEW msg \in moves, PublishMove(msg) PROVE TypeOK'
  <2>1. TfTypeOK'
    BY <1>9 DEF TypeOK, PublishMove, TfTypeOK
  <2>2. SceneTypeOK'
    BY <1>9, PublishType DEF TypeOK, PublishMove, TfTypeOK, Messages
  <2>3. WorldTypeOK' /\ DataTypeOK' /\ FetchTypeOK' /\ LifeTypeOK'
    BY <1>9, UnchangedTypes DEF TypeOK, PublishMove
  <2> QED
    BY <2>1, <2>2, <2>3 DEF TypeOK
<1>10. CASE TfCallbackReturns
  <2>1. TfTypeOK'
    BY <1>10 DEF TypeOK, TfCallbackReturns, TfTypeOK
  <2>2. WorldTypeOK' /\ DataTypeOK' /\ FetchTypeOK' /\ SceneTypeOK' /\ LifeTypeOK'
    BY <1>10, UnchangedTypes DEF TypeOK, TfCallbackReturns
  <2> QED
    BY <2>1, <2>2 DEF TypeOK
<1>11. ASSUME NEW f \in Frames, MinPeriodElapses(f) PROVE TypeOK'
  <2>1. DataTypeOK'
    BY <1>11 DEF TypeOK, MinPeriodElapses, DataTypeOK, wakeVars
  <2>2. WorldTypeOK' /\ TfTypeOK' /\ FetchTypeOK' /\ SceneTypeOK' /\ LifeTypeOK'
    BY <1>11, UnchangedTypes DEF TypeOK, MinPeriodElapses
  <2> QED
    BY <2>1, <2>2 DEF TypeOK
<1>12. CASE SyncWakes
  <2>1. DataTypeOK'
    BY <1>12 DEF TypeOK, SyncWakes, DataTypeOK, dataVars, wakeVars, Names
  <2>2. FetchTypeOK'
    BY <1>12 DEF TypeOK, SyncWakes, FetchTypeOK, DataTypeOK, Threads
  <2>3. WorldTypeOK' /\ TfTypeOK' /\ SceneTypeOK' /\ LifeTypeOK'
    BY <1>12, UnchangedTypes DEF TypeOK, SyncWakes
  <2> QED
    BY <2>1, <2>2, <2>3 DEF TypeOK
<1>13. ASSUME NEW t \in Requesters, Request(t) PROVE TypeOK'
  <2>1. FetchTypeOK'
    BY <1>13 DEF TypeOK, Request, FetchTypeOK, Threads
  <2>2. WorldTypeOK' /\ DataTypeOK' /\ TfTypeOK' /\ SceneTypeOK' /\ LifeTypeOK'
    BY <1>13, UnchangedTypes DEF TypeOK, Request
  <2> QED
    BY <2>1, <2>2 DEF TypeOK
<1>14. ASSUME NEW t \in Threads, GetObjects(t) PROVE TypeOK'
  <2>1. FetchTypeOK'
    BY <1>14 DEF TypeOK, GetObjects, Snapshot, Exists, FetchTypeOK, WorldTypeOK, Geometry
  <2>2. WorldTypeOK' /\ DataTypeOK' /\ TfTypeOK' /\ SceneTypeOK' /\ LifeTypeOK'
    BY <1>14, UnchangedTypes DEF TypeOK, GetObjects
  <2> QED
    BY <2>1, <2>2 DEF TypeOK
<1>15. ASSUME NEW t \in Threads, GetObjectsFails(t) PROVE TypeOK'
  <2>1. WorldTypeOK'
    BY <1>15 DEF TypeOK, GetObjectsFails, WorldTypeOK, worldVars
  <2>2. FetchTypeOK'
    BY <1>15 DEF TypeOK, GetObjectsFails, LoopHead, FetchTypeOK, Names
  <2>3. DataTypeOK' /\ TfTypeOK' /\ SceneTypeOK' /\ LifeTypeOK'
    BY <1>15, UnchangedTypes DEF TypeOK, GetObjectsFails
  <2> QED
    BY <2>1, <2>2, <2>3 DEF TypeOK
<1>16. ASSUME NEW t \in Threads, NEW g \in todo[t], StorePrimitive(t, g) PROVE TypeOK'
  <2>1. DataTypeOK'
    BY <1>16 DEF TypeOK, StorePrimitive, DataTypeOK, FetchTypeOK, Shapes, Geometry, wakeVars
  <2>2. FetchTypeOK'
    BY <1>16 DEF TypeOK, StorePrimitive, FetchTypeOK
  <2>3. WorldTypeOK' /\ TfTypeOK' /\ SceneTypeOK' /\ LifeTypeOK'
    BY <1>16, UnchangedTypes DEF TypeOK, StorePrimitive
  <2> QED
    BY <2>1, <2>2, <2>3 DEF TypeOK
<1>17. ASSUME NEW t \in Threads, NEW g \in todo[t], SkipGeometry(t, g) PROVE TypeOK'
  <2>1. FetchTypeOK'
    BY <1>17 DEF TypeOK, SkipGeometry, FetchTypeOK
  <2>2. WorldTypeOK' /\ DataTypeOK' /\ TfTypeOK' /\ SceneTypeOK' /\ LifeTypeOK'
    BY <1>17, UnchangedTypes DEF TypeOK, SkipGeometry
  <2> QED
    BY <2>1, <2>2 DEF TypeOK
<1>18. ASSUME NEW t \in Threads, NEW g \in todo[t], CheckRenderable(t, g) PROVE TypeOK'
  <2>1. FetchTypeOK'
    BY <1>18 DEF TypeOK, CheckRenderable, FetchTypeOK
  <2>2. WorldTypeOK' /\ DataTypeOK' /\ TfTypeOK' /\ SceneTypeOK' /\ LifeTypeOK'
    BY <1>18, UnchangedTypes DEF TypeOK, CheckRenderable
  <2> QED
    BY <2>1, <2>2 DEF TypeOK
<1>19. ASSUME NEW t \in Threads, NEW g \in cur[t], StoreRenderable(t, g) PROVE TypeOK'
  <2>1. DataTypeOK'
    BY <1>19 DEF TypeOK, StoreRenderable, DataTypeOK, FetchTypeOK, Shapes, Geometry, wakeVars
  <2>2. FetchTypeOK'
    BY <1>19 DEF TypeOK, StoreRenderable, FetchTypeOK
  <2>3. WorldTypeOK' /\ TfTypeOK' /\ SceneTypeOK' /\ LifeTypeOK'
    BY <1>19, UnchangedTypes DEF TypeOK, StoreRenderable
  <2> QED
    BY <2>1, <2>2, <2>3 DEF TypeOK
<1>20. ASSUME NEW t \in Threads, NEW g \in cur[t], TrackRenderable(t, g) PROVE TypeOK'
  <2>1. DataTypeOK'
    BY <1>20 DEF TypeOK, TrackRenderable, DataTypeOK, FetchTypeOK, Shapes, Geometry, wakeVars
  <2>2. FetchTypeOK'
    BY <1>20 DEF TypeOK, TrackRenderable, FetchTypeOK
  <2>3. WorldTypeOK' /\ TfTypeOK' /\ SceneTypeOK' /\ LifeTypeOK'
    BY <1>20, UnchangedTypes DEF TypeOK, TrackRenderable
  <2> QED
    BY <2>1, <2>2, <2>3 DEF TypeOK
<1>21. ASSUME NEW t \in Threads, GetGltfFails(t) PROVE TypeOK'
  <2>1. WorldTypeOK'
    BY <1>21 DEF TypeOK, GetGltfFails, WorldTypeOK, worldVars
  <2>2. FetchTypeOK'
    BY <1>21 DEF TypeOK, GetGltfFails, FetchTypeOK
  <2>3. DataTypeOK' /\ TfTypeOK' /\ SceneTypeOK' /\ LifeTypeOK'
    BY <1>21, UnchangedTypes DEF TypeOK, GetGltfFails
  <2> QED
    BY <2>1, <2>2, <2>3 DEF TypeOK
<1>22. ASSUME NEW t \in Threads, AddCollisionObjects(t) PROVE TypeOK'
  <2>1. FetchTypeOK'
    BY <1>22 DEF TypeOK, AddCollisionObjects, FramesToAdd, Tracked, CachedShape, FetchTypeOK,
                 DataTypeOK, AddMsgs, Shapes, Versions
  <2>2. WorldTypeOK' /\ DataTypeOK' /\ TfTypeOK' /\ SceneTypeOK' /\ LifeTypeOK'
    BY <1>22, UnchangedTypes DEF TypeOK, AddCollisionObjects
  <2> QED
    BY <2>1, <2>2 DEF TypeOK
<1>23. ASSUME NEW t \in Threads, NEW msg \in batch[t], PublishAdd(t, msg) PROVE TypeOK'
  <2>1. FetchTypeOK'
    BY <1>23 DEF TypeOK, PublishAdd, FetchTypeOK
  <2>2. SceneTypeOK'
    BY <1>23, PublishType DEF TypeOK, PublishAdd, FetchTypeOK, Messages
  <2>3. WorldTypeOK' /\ DataTypeOK' /\ TfTypeOK' /\ LifeTypeOK'
    BY <1>23, UnchangedTypes DEF TypeOK, PublishAdd
  <2> QED
    BY <2>1, <2>2, <2>3 DEF TypeOK
<1>24. ASSUME NEW t \in Threads, AddReturns(t) PROVE TypeOK'
  <2>1. FetchTypeOK'
    BY <1>24 DEF TypeOK, AddReturns, LoopHead, FetchTypeOK, Names
  <2>2. WorldTypeOK' /\ DataTypeOK' /\ TfTypeOK' /\ SceneTypeOK' /\ LifeTypeOK'
    BY <1>24, UnchangedTypes DEF TypeOK, AddReturns
  <2> QED
    BY <2>1, <2>2 DEF TypeOK
<1>25. ASSUME NEW f \in Frames, Deliver(f) PROVE TypeOK'
  <2>1. SceneTypeOK'
    <3> DEFINE msg == Head(topic)
    <3>1. topic # <<>> /\ topic' = Tail(topic) /\ topic \in Seq(Messages)
      BY <1>25 DEF TypeOK, Deliver, SceneTypeOK
    <3>2. msg \in Messages /\ topic' \in Seq(Messages) /\ Len(topic') <= QueueDepth
      <4>1. msg \in Messages /\ Tail(topic) \in Seq(Messages) /\ Len(Tail(topic)) = Len(topic) - 1
        BY <3>1, HeadTailProperties
      <4>2. Len(topic) \in Nat /\ Len(topic) <= QueueDepth
        BY <3>1, LenProperties DEF TypeOK, SceneTypeOK
      <4> QED
        BY <3>1, <4>1, <4>2
    <3>3. NoShape \in Shapes
      BY DEF NoShape, Shapes, Versions
    <3> HIDE DEF msg
    <3>4. CASE msg.op = "ADD"
      <4>1. msg.shape \in Shapes /\ ApplyAdd(f, msg.shape)
        BY <1>25, <3>2, <3>4 DEF Deliver, msg, Messages, AddMsgs, MoveMsgs, RemoveMsgs
      <4> QED
        BY <1>25, <3>2, <4>1 DEF TypeOK, ApplyAdd, SceneTypeOK, WorldTypeOK
    <3>5. CASE msg.op = "MOVE"
      <4>1. msg.pose \in Poses /\ ApplyMove(f, msg.pose)
        BY <1>25, <3>2, <3>5 DEF Deliver, msg, Messages, AddMsgs, MoveMsgs, RemoveMsgs
      <4> QED
        BY <1>25, <3>2, <4>1 DEF TypeOK, ApplyMove, SceneTypeOK
    <3>6. CASE msg.op = "REMOVE"
      <4>1. ApplyRemove(f)
        BY <1>25, <3>6 DEF Deliver, msg
      <4> QED
        BY <1>25, <3>2, <3>3, <4>1 DEF TypeOK, ApplyRemove, SceneTypeOK
    <3> QED
      BY <3>2, <3>4, <3>5, <3>6 DEF Messages, AddMsgs, MoveMsgs, RemoveMsgs
  <2>2. WorldTypeOK' /\ DataTypeOK' /\ TfTypeOK' /\ FetchTypeOK' /\ LifeTypeOK'
    BY <1>25, UnchangedTypes DEF TypeOK, Deliver
  <2> QED
    BY <2>1, <2>2 DEF TypeOK
<1>26. CASE RosShutdown
  <2>1. LifeTypeOK'
    BY <1>26 DEF TypeOK, RosShutdown, LifeTypeOK
  <2>2. WorldTypeOK' /\ DataTypeOK' /\ TfTypeOK' /\ FetchTypeOK' /\ SceneTypeOK'
    BY <1>26, UnchangedTypes DEF TypeOK, RosShutdown
  <2> QED
    BY <2>1, <2>2 DEF TypeOK
<1>27. CASE Destroy
  <2>1. LifeTypeOK'
    BY <1>27 DEF TypeOK, Destroy, LifeTypeOK
  <2>2. WorldTypeOK' /\ DataTypeOK' /\ TfTypeOK' /\ FetchTypeOK' /\ SceneTypeOK'
    BY <1>27, UnchangedTypes DEF TypeOK, Destroy
  <2> QED
    BY <2>1, <2>2 DEF TypeOK
<1>28. CASE Join
  <2>1. LifeTypeOK'
    BY <1>28 DEF TypeOK, Join, LifeTypeOK
  <2>2. WorldTypeOK' /\ DataTypeOK' /\ TfTypeOK' /\ FetchTypeOK' /\ SceneTypeOK'
    BY <1>28, UnchangedTypes DEF TypeOK, Join
  <2> QED
    BY <2>1, <2>2 DEF TypeOK
<1>29. CASE TfCallback
  BY <1>29, <1>5, <1>6, <1>7, <1>8, <1>9, <1>10 DEF TfCallback
<1>30. ASSUME NEW t \in Threads, FetchAndAdd(t) PROVE TypeOK'
  BY <1>30, <1>14, <1>15, <1>16, <1>17, <1>18, <1>19, <1>20, <1>21, <1>22, <1>23, <1>24
     DEF FetchAndAdd
<1>31. CASE UNCHANGED vars
  BY <1>31, UnchangedTypes DEF TypeOK, vars
<1> QED
  BY <1>1, <1>2, <1>3, <1>4, <1>11, <1>12, <1>13, <1>25, <1>26, <1>27, <1>28, <1>29, <1>30,
     <1>31 DEF Next

(***************************************************************************)
(* Type correctness: the maps, the threads' locals and the topic stay in   *)
(* their sets, and /collision_object never exceeds its history depth.      *)
(***************************************************************************)
THEOREM TypeCorrect == Spec => []TypeOK
<1>1. Init => TypeOK
  BY InitType
<1>2. TypeOK /\ [Next]_vars => TypeOK'
  BY NextType
<1> QED
  BY <1>1, <1>2, PTL DEF Spec

-----------------------------------------------------------------------------
(***************************************************************************)
(* The cache.  TrackedMeshesComplete is not inductive: TrackRenderable     *)
(* lists a mesh on the strength of a check another step made.              *)
(* InFlightMeshesStored carries that check over the steps in between.      *)
(***************************************************************************)
CacheInv == TypeOK /\ InFlightMeshesStored /\ TrackedMeshesComplete

CacheStep == InFlightMeshesStored' /\ TrackedMeshesComplete'

LEMMA InitCache == Init => CacheInv
BY InitType, BoundsAssumption
   DEF Init, CacheInv, InFlightMeshesStored, TrackedMeshesComplete, NoShape

(* Steps that touch neither the maps nor the geometry in flight. *)
LEMMA CacheUntouched ==
  ASSUME CacheInv, UNCHANGED <<renderables, primitives, relPose, frameMeshes>>,
         \/ UNCHANGED <<pc, todo, cur>>
         \/ UNCHANGED <<todo, cur>> /\ \A t \in Threads : pc'[t] = "track" => pc[t] = "track"
  PROVE  CacheStep
BY DEF CacheInv, CacheStep, InFlightMeshesStored, TrackedMeshesComplete

LEMMA NextCache == CacheInv /\ [Next]_vars => CacheStep
<1> SUFFICES ASSUME CacheInv, [Next]_vars PROVE CacheStep
  OBVIOUS
<1> USE NamesAssumption
<1>1. ASSUME NEW f \in Frames, EraseFrame(f) PROVE CacheStep
  BY <1>1 DEF EraseFrame, CacheInv, CacheStep, InFlightMeshesStored, TrackedMeshesComplete,
              fetchVars, TypeOK, DataTypeOK
<1>2. CASE SyncWakes
  BY <1>2, CacheUntouched DEF SyncWakes, CacheInv, TypeOK, FetchTypeOK, Threads, dataVars
<1>3. ASSUME NEW t \in Requesters, Request(t) PROVE CacheStep
  BY <1>3, CacheUntouched DEF Request, CacheInv, TypeOK, FetchTypeOK, Threads, dataVars
<1>4. ASSUME NEW t \in Threads, GetObjects(t) PROVE CacheStep
  <2>1. \A g \in Snapshot(t) : g.ver # 0
    BY DEF Snapshot, Exists
  <2> QED
    BY <1>4, <2>1 DEF GetObjects, CacheInv, CacheStep, InFlightMeshesStored,
       TrackedMeshesComplete, TypeOK, FetchTypeOK, dataVars
<1>5. ASSUME NEW t \in Threads, GetObjectsFails(t) PROVE CacheStep
  BY <1>5, CacheUntouched DEF GetObjectsFails, LoopHead, CacheInv, TypeOK, FetchTypeOK, dataVars
<1>6. ASSUME NEW t \in Threads, NEW g \in todo[t], StorePrimitive(t, g) PROVE CacheStep
  <2>1. g \in Geometry /\ g.ver # 0 /\ g.mesh \in PrimMeshes /\ g.mesh \notin RefMeshes
    BY <1>6 DEF StorePrimitive, CacheInv, InFlightMeshesStored, TypeOK, FetchTypeOK
  <2>2. InFlightMeshesStored'
    BY <1>6 DEF StorePrimitive, CacheInv, InFlightMeshesStored, TypeOK, FetchTypeOK
  <2>3. TrackedMeshesComplete'
    BY <1>6, <2>1 DEF StorePrimitive, CacheInv, TrackedMeshesComplete, TypeOK, DataTypeOK,
                      Geometry, Shapes
  <2> QED
    BY <2>2, <2>3 DEF CacheStep
<1>7. ASSUME NEW t \in Threads, NEW g \in todo[t], SkipGeometry(t, g) PROVE CacheStep
  BY <1>7 DEF SkipGeometry, CacheInv, CacheStep, InFlightMeshesStored, TrackedMeshesComplete,
              TypeOK, FetchTypeOK, dataVars
<1>8. ASSUME NEW t \in Threads, NEW g \in todo[t], CheckRenderable(t, g) PROVE CacheStep
  BY <1>8 DEF CheckRenderable, CacheInv, CacheStep, InFlightMeshesStored,
              TrackedMeshesComplete, TypeOK, FetchTypeOK, dataVars
<1>9. ASSUME NEW t \in Threads, NEW g \in cur[t], StoreRenderable(t, g) PROVE CacheStep
  <2>1. g \in Geometry /\ g.ver # 0
    BY DEF CacheInv, InFlightMeshesStored, TypeOK, FetchTypeOK
  <2>2. \A m \in Meshes : renderables[m] # 0 => renderables'[m] # 0
    BY <1>9, <2>1 DEF StoreRenderable, CacheInv, TypeOK, DataTypeOK, Shapes
  <2>3. cur' = cur /\ todo' = todo
    BY <1>9 DEF StoreRenderable
  <2>4. InFlightMeshesStored'
    BY <1>9, <2>1, <2>2, <2>3 DEF StoreRenderable, CacheInv, InFlightMeshesStored, TypeOK,
       FetchTypeOK, DataTypeOK, Geometry, Shapes
  <2>5. TrackedMeshesComplete'
    BY <1>9, <2>2 DEF StoreRenderable, CacheInv, TrackedMeshesComplete, TypeOK, DataTypeOK
  <2> QED
    BY <2>4, <2>5 DEF CacheStep
<1>10. ASSUME NEW t \in Threads, NEW g \in cur[t], TrackRenderable(t, g) PROVE CacheStep
  <2>1. g \in Geometry /\ g.ver # 0 /\ g.mesh \in RefMeshes /\ renderables[g.mesh] # 0
    BY <1>10 DEF TrackRenderable, CacheInv, InFlightMeshesStored, TypeOK, FetchTypeOK
  <2>2. InFlightMeshesStored'
    BY <1>10 DEF TrackRenderable, CacheInv, InFlightMeshesStored, TypeOK, FetchTypeOK
  <2>3. TrackedMeshesComplete'
    BY <1>10, <2>1 DEF TrackRenderable, CacheInv, TrackedMeshesComplete, TypeOK, DataTypeOK,
                       Geometry, Shapes
  <2> QED
    BY <2>2, <2>3 DEF CacheStep
<1>11. ASSUME NEW t \in Threads, GetGltfFails(t) PROVE CacheStep
  BY <1>11 DEF GetGltfFails, CacheInv, CacheStep, InFlightMeshesStored, TrackedMeshesComplete,
               TypeOK, FetchTypeOK, dataVars
<1>12. ASSUME NEW t \in Threads, AddCollisionObjects(t) PROVE CacheStep
  BY <1>12, CacheUntouched DEF AddCollisionObjects, CacheInv, TypeOK, FetchTypeOK, dataVars
<1>13. ASSUME NEW t \in Threads, NEW msg \in batch[t], PublishAdd(t, msg) PROVE CacheStep
  BY <1>13, CacheUntouched DEF PublishAdd, dataVars
<1>14. ASSUME NEW t \in Threads, AddReturns(t) PROVE CacheStep
  BY <1>14, CacheUntouched DEF AddReturns, LoopHead, CacheInv, TypeOK, FetchTypeOK, dataVars
<1>15. ASSUME NEW t \in Threads, FetchAndAdd(t) PROVE CacheStep
  BY <1>15, <1>4, <1>5, <1>6, <1>7, <1>8, <1>9, <1>10, <1>11, <1>12, <1>13, <1>14
     DEF FetchAndAdd
<1>16. CASE TfCallback
  <2>1. ASSUME NEW f \in Frames, PublishRemove(f) PROVE CacheStep
    BY <2>1, CacheUntouched DEF PublishRemove, dataVars, fetchVars
  <2>2. CASE QueueNewObjects
    BY <2>2, CacheUntouched DEF QueueNewObjects, dataVars, fetchVars
  <2>3. CASE UpdateCollisionObjects
    BY <2>3, CacheUntouched DEF UpdateCollisionObjects, fetchVars
  <2>4. ASSUME NEW msg \in moves, PublishMove(msg) PROVE CacheStep
    BY <2>4, CacheUntouched DEF PublishMove, dataVars, fetchVars
  <2>5. CASE TfCallbackReturns
    BY <2>5, CacheUntouched DEF TfCallbackReturns, dataVars, fetchVars
  <2> QED
    BY <1>16, <1>1, <2>1, <2>2, <2>3, <2>4, <2>5 DEF TfCallback
<1>17. ASSUME NEW f \in Frames, MinPeriodElapses(f) PROVE CacheStep
  BY <1>17, CacheUntouched DEF MinPeriodElapses, fetchVars
<1>18. ASSUME NEW f \in Frames, Deliver(f) PROVE CacheStep
  BY <1>18, CacheUntouched DEF Deliver, dataVars, fetchVars
<1>19. CASE \E f \in Frames : \/ \E v \in 1 .. MaxVersion : WorldCreate(f, v)
                            \/ WorldDelete(f)
                            \/ \E p \in Poses : WorldMove(f, p)
  BY <1>19, CacheUntouched DEF WorldCreate, WorldDelete, WorldMove, dataVars, fetchVars
<1>20. CASE TfMessage \/ RosShutdown \/ Destroy \/ Join
  BY <1>20, CacheUntouched DEF TfMessage, RosShutdown, Destroy, Join, dataVars, fetchVars
<1>21. CASE UNCHANGED vars
  BY <1>21, CacheUntouched DEF vars, dataVars, fetchVars
<1> QED
  BY <1>2, <1>3, <1>15, <1>16, <1>17, <1>18, <1>19, <1>20, <1>21 DEF Next

(***************************************************************************)
(* No ADD ever lacks a mesh its frame is known to have: every mesh listed  *)
(* under a tracked frame has its pose and its data, however the fetches of *)
(* any number of threads interleave with each other and with removals.     *)
(***************************************************************************)
THEOREM CacheCorrect == Spec => [](TrackedMeshesComplete /\ InFlightMeshesStored)
<1>1. Init => CacheInv
  BY InitCache
<1>2. CacheInv /\ [Next]_vars => CacheInv'
  BY NextType, NextCache DEF CacheInv, CacheStep
<1>3. CacheInv => TrackedMeshesComplete /\ InFlightMeshesStored
  BY DEF CacheInv
<1> QED
  BY <1>1, <1>2, <1>3, PTL DEF Spec

(* A mesh between the check for it and its listing is not thrown away by another thread. *)
COROLLARY InFlightCorrect == Spec => []InFlightMeshesStored
BY CacheCorrect, PTL

-----------------------------------------------------------------------------
(* The wakeup. *)

WakeInv == TypeOK /\ QueuedNamesWakeSync

LEMMA NextWake == WakeInv /\ [Next]_vars => QueuedNamesWakeSync'
<1> SUFFICES ASSUME WakeInv, [Next]_vars PROVE QueuedNamesWakeSync'
  OBVIOUS
<1>1. CASE UNCHANGED wakeVars
  BY <1>1 DEF WakeInv, QueuedNamesWakeSync, wakeVars
<1>2. CASE QueueNewObjects
  BY <1>2, <1>1 DEF QueueNewObjects, WakeInv, QueuedNamesWakeSync
<1>3. CASE SyncWakes
  BY <1>3, <1>1 DEF SyncWakes, QueuedNamesWakeSync
<1>4. ASSUME NEW t \in Threads, FetchAndAdd(t) PROVE QueuedNamesWakeSync'
  BY <1>4, <1>1 DEF FetchAndAdd, GetObjects, GetObjectsFails, StorePrimitive, SkipGeometry,
     CheckRenderable, StoreRenderable, TrackRenderable, GetGltfFails, AddCollisionObjects,
     PublishAdd, AddReturns
<1>5. CASE TfCallback
  BY <1>5, <1>1, <1>2 DEF TfCallback, EraseFrame, PublishRemove, UpdateCollisionObjects,
     PublishMove, TfCallbackReturns
<1> QED
  BY <1>1, <1>3, <1>4, <1>5 DEF Next, vars, WorldCreate, WorldDelete, WorldMove, TfMessage,
     MinPeriodElapses, Request, Deliver, RosShutdown, Destroy, Join

(***************************************************************************)
(* No lost wakeup: the sync thread cannot be left asleep with object names *)
(* queued for it, whichever of its steps the TF callback interrupted.      *)
(***************************************************************************)
THEOREM WakeCorrect == Spec => []QueuedNamesWakeSync
<1>1. Init => WakeInv
  BY InitType DEF Init, WakeInv, QueuedNamesWakeSync
<1>2. WakeInv /\ [Next]_vars => WakeInv'
  BY NextType, NextWake DEF WakeInv
<1>3. WakeInv => QueuedNamesWakeSync
  BY DEF WakeInv
<1> QED
  BY <1>1, <1>2, <1>3, PTL DEF Spec

-----------------------------------------------------------------------------
(***************************************************************************)
(* The deadband.  What the TF callback is in the middle of has to be part  *)
(* of the invariant: between its locked section and its publish, the       *)
(* deadband's reference is ahead of the topic.                             *)
(***************************************************************************)
TfLocalsInv ==
  /\ tfPc # "publishMoves" => moves = {}
  /\ tfPc # "publishRemove" => removing = {}
  /\ \A f \in removing : removing = {f}

DeadbandInv ==
  /\ TypeOK
  /\ TfLocalsInv
  /\ DeadbandForgetsRemoved
  /\ DeadbandIsAgainstPublished

DeadbandStep == TfLocalsInv' /\ DeadbandForgetsRemoved' /\ DeadbandIsAgainstPublished'

(* After a publish, a frame's latest pose message is the new one or the one it was. *)
LEMMA PublishLatest ==
  ASSUME SceneTypeOK, rosOk, NEW msg \in Messages, Publish(msg),
         NEW f \in Frames, NEW i \in 1 .. Len(topic'), LatestPoseMsg(f, i)'
  PROVE  \/ topic'[i] = msg /\ msg.frame = f
         \/ /\ msg.frame = f => msg.op = "ADD"
            /\ \E k \in 1 .. Len(topic) : LatestPoseMsg(f, k) /\ topic[k] = topic'[i]
<1>1. PICK s \in Seq(Messages), d \in {0, 1} :
        /\ topic' = Append(s, msg)
        /\ Len(s) = Len(topic) - d
        /\ \A j \in 1 .. Len(s) : s[j] = topic[j + d]
  <2>1. CASE Len(topic) < QueueDepth
    <3>1. topic' = Append(topic, msg) /\ topic \in Seq(Messages) /\ Len(topic) \in Nat
      BY <2>1, LenProperties DEF Publish, SceneTypeOK
    <3> QED
      BY <3>1
  <2>2. CASE ~(Len(topic) < QueueDepth)
    <3>1. topic' = Append(Tail(topic), msg) /\ topic \in Seq(Messages) /\ topic # <<>>
      BY <2>2, BoundsAssumption, EmptySeq DEF Publish, SceneTypeOK
    <3>2. /\ Tail(topic) \in Seq(Messages)
          /\ Len(Tail(topic)) = Len(topic) - 1
          /\ \A j \in 1 .. Len(Tail(topic)) : Tail(topic)[j] = topic[j + 1]
      BY <3>1, HeadTailProperties
    <3> QED
      BY <3>1, <3>2
  <2> QED
    BY <2>1, <2>2
<1>2. /\ Len(s) \in Nat
      /\ Len(topic) \in Nat
      /\ Len(topic') = Len(s) + 1
      /\ topic'[Len(s) + 1] = msg
      /\ \A j \in 1 .. Len(s) : topic'[j] = s[j]
  BY <1>1, AppendProperties, LenProperties DEF SceneTypeOK
<1>3. CASE i = Len(s) + 1
  BY <1>2, <1>3 DEF LatestPoseMsg
<1>4. CASE i # Len(s) + 1
  <2>1. i \in 1 .. Len(s) /\ i + d \in 1 .. Len(topic) /\ topic[i + d] = topic'[i]
    BY <1>1, <1>2, <1>4
  <2>2. msg.frame = f => msg.op = "ADD"
    BY <1>2, <2>1 DEF LatestPoseMsg
  <2>3. ASSUME NEW j \in i + d + 1 .. Len(topic), topic[j].frame = f
        PROVE  topic[j].op = "ADD"
    <3>1. j - d \in i + 1 .. Len(topic') /\ topic'[j - d] = topic[j]
      BY <1>1, <1>2, <2>1
    <3> QED
      BY <2>3, <3>1 DEF LatestPoseMsg
  <2> QED
    BY <2>1, <2>2, <2>3 DEF LatestPoseMsg
<1> QED
  BY <1>3, <1>4

(* Steps that change neither the deadband, nor the topic, nor the TF callback's locals. *)
LEMMA DeadbandUntouched ==
  ASSUME DeadbandInv, UNCHANGED <<tfPc, removing, moves, lastPose, topic>>,
         rosOk' => rosOk,
         recent' \subseteq recent,
         \A f \in Frames : frameMeshes[f] \subseteq frameMeshes'[f]
  PROVE  DeadbandStep
BY DEF DeadbandInv, DeadbandStep, TfLocalsInv, DeadbandForgetsRemoved,
       DeadbandIsAgainstPublished, LatestPoseMsg

LEMMA NextDeadband == DeadbandInv /\ [Next]_vars => DeadbandStep
<1> SUFFICES ASSUME DeadbandInv, [Next]_vars PROVE DeadbandStep
  OBVIOUS
<1> USE DEF DeadbandInv
<1>1. ASSUME NEW f \in Frames, EraseFrame(f) PROVE DeadbandStep
  <2>1. moves = {} /\ removing = {} /\ tfPc' = "publishRemove" /\ moves' = {} /\ removing' = {f}
    BY <1>1 DEF EraseFrame, TfLocalsInv
  <2>2. lastPose' = [lastPose EXCEPT ![f] = NoPose] /\ UNCHANGED <<topic, rosOk>>
    BY <1>1 DEF EraseFrame, sceneVars, lifeVars
  <2>3. DeadbandForgetsRemoved'
    BY <1>1 DEF EraseFrame, DeadbandForgetsRemoved, TypeOK, DataTypeOK
  <2>4. DeadbandIsAgainstPublished'
    BY <2>1, <2>2 DEF DeadbandIsAgainstPublished, LatestPoseMsg, TypeOK, DataTypeOK
  <2> QED
    BY <2>1, <2>3, <2>4 DEF DeadbandStep, TfLocalsInv
<1>2. ASSUME NEW f \in Frames, PublishRemove(f) PROVE DeadbandStep
  <2> DEFINE msg == [op |-> "REMOVE", frame |-> f]
  <2>1. /\ tfPc' = "remove" /\ removing = {f} /\ removing' = {} /\ moves = {} /\ moves' = {}
        /\ msg \in Messages /\ Publish(msg)
        /\ UNCHANGED <<lastPose, recent, frameMeshes, rosOk>>
    BY <1>2 DEF PublishRemove, TfLocalsInv, Messages, RemoveMsgs, dataVars, lifeVars
  <2>2. DeadbandIsAgainstPublished'
    <3> SUFFICES ASSUME rosOk, NEW h \in Frames, NEW i \in 1 .. Len(topic'),
                        LatestPoseMsg(h, i)', topic'[i].op = "MOVE"
                 PROVE  topic'[i].pose = lastPose[h]
      BY <2>1 DEF DeadbandIsAgainstPublished
    <3>1. h # f /\ \E k \in 1 .. Len(topic) : LatestPoseMsg(h, k) /\ topic[k] = topic'[i]
      BY <2>1, PublishLatest DEF TypeOK
    <3> QED
      BY <2>1, <3>1 DEF DeadbandIsAgainstPublished
  <2> QED
    BY <2>1, <2>2 DEF DeadbandStep, TfLocalsInv, DeadbandForgetsRemoved
<1>3. CASE UpdateCollisionObjects
  <2>1. moves = {} /\ removing = {} /\ tfPc' = "publishMoves" /\ removing' = {}
        /\ UNCHANGED <<topic, rosOk, frameMeshes>>
    BY <1>3 DEF UpdateCollisionObjects, TfLocalsInv, sceneVars, lifeVars
  <2>2. /\ moves' = {[op |-> "MOVE", frame |-> h, pose |-> tfMsg[h]] :
                        h \in {h \in Frames : MoveDue(h)}}
        /\ \A h \in Frames : lastPose'[h] = IF MoveDue(h) THEN tfMsg[h] ELSE lastPose[h]
        /\ \A h \in recent' : h \in recent \/ MoveDue(h)
    BY <1>3 DEF UpdateCollisionObjects, Remembered
  <2>3. DeadbandForgetsRemoved'
    BY <2>1, <2>2 DEF DeadbandForgetsRemoved, MoveDue, Tracked
  <2>4. \A h \in Frames : MoveDue(h) => h \in {m.frame : m \in moves'}
    <3>1. ASSUME NEW h \in Frames, MoveDue(h) PROVE h \in {m.frame : m \in moves'}
      <4> DEFINE m == [op |-> "MOVE", frame |-> h, pose |-> tfMsg[h]]
      <4>1. m \in moves'
        BY <2>2, <3>1
      <4>2. m.frame = h
        OBVIOUS
      <4> QED
        BY <4>1, <4>2
    <3> QED
      BY <3>1
  <2>5. DeadbandIsAgainstPublished'
    BY <2>1, <2>2, <2>4 DEF DeadbandIsAgainstPublished, LatestPoseMsg
  <2> QED
    BY <2>1, <2>3, <2>5 DEF DeadbandStep, TfLocalsInv
<1>4. ASSUME NEW msg \in moves, PublishMove(msg) PROVE DeadbandStep
  <2>1. /\ tfPc' = "publishMoves" /\ removing = {} /\ removing' = {} /\ moves' = moves \ {msg}
        /\ msg \in Messages /\ Publish(msg) /\ msg.op = "MOVE"
        /\ msg.pose = lastPose[msg.frame]
        /\ UNCHANGED <<lastPose, recent, frameMeshes, rosOk>>
    BY <1>4 DEF PublishMove, TfLocalsInv, Messages, MoveMsgs, dataVars, lifeVars, TypeOK,
       TfTypeOK, DeadbandIsAgainstPublished
  <2>2. DeadbandIsAgainstPublished'
    <3> SUFFICES ASSUME rosOk, NEW h \in Frames \ {m.frame : m \in moves'},
                        NEW i \in 1 .. Len(topic'), LatestPoseMsg(h, i)',
                        topic'[i].op = "MOVE"
                 PROVE  topic'[i].pose = lastPose[h]
      BY <2>1 DEF DeadbandIsAgainstPublished
    <3>1. CASE topic'[i] = msg /\ msg.frame = h
      BY <2>1, <3>1
    <3>2. CASE /\ msg.frame # h
               /\ \E k \in 1 .. Len(topic) : LatestPoseMsg(h, k) /\ topic[k] = topic'[i]
      <4>1. h \notin {m.frame : m \in moves}
        BY <2>1, <3>2
      <4> QED
        BY <2>1, <3>2, <4>1 DEF DeadbandIsAgainstPublished
    <3> QED
      BY <2>1, <3>1, <3>2, PublishLatest DEF TypeOK
  <2> QED
    BY <2>1, <2>2 DEF DeadbandStep, TfLocalsInv, DeadbandForgetsRemoved
<1>5. ASSUME NEW t \in Threads, NEW msg \in batch[t], PublishAdd(t, msg) PROVE DeadbandStep
  <2>1. /\ msg \in Messages /\ Publish(msg) /\ msg.op = "ADD"
        /\ UNCHANGED <<tfPc, removing, moves, lastPose, recent, frameMeshes, rosOk>>
    BY <1>5 DEF PublishAdd, Messages, AddMsgs, dataVars, tfVars, lifeVars, TypeOK, FetchTypeOK
  <2>2. DeadbandIsAgainstPublished'
    <3> SUFFICES ASSUME rosOk, NEW h \in Frames \ (removing \cup {m.frame : m \in moves}),
                        NEW i \in 1 .. Len(topic'), LatestPoseMsg(h, i)',
                        topic'[i].op = "MOVE"
                 PROVE  topic'[i].pose = lastPose[h]
      BY <2>1 DEF DeadbandIsAgainstPublished
    <3>1. \E k \in 1 .. Len(topic) : LatestPoseMsg(h, k) /\ topic[k] = topic'[i]
      BY <2>1, PublishLatest DEF TypeOK
    <3> QED
      BY <3>1 DEF DeadbandIsAgainstPublished
  <2> QED
    BY <2>1, <2>2 DEF DeadbandStep, TfLocalsInv, DeadbandForgetsRemoved
<1>6. ASSUME NEW f \in Frames, Deliver(f) PROVE DeadbandStep
  <2>1. /\ topic # <<>> /\ topic \in Seq(Messages) /\ topic' = Tail(topic)
        /\ UNCHANGED <<tfPc, removing, moves, lastPose, recent, frameMeshes, rosOk>>
    BY <1>6 DEF Deliver, dataVars, tfVars, lifeVars, TypeOK, SceneTypeOK
  <2>2. /\ Len(topic) \in Nat /\ Len(topic') = Len(topic) - 1
        /\ \A j \in 1 .. Len(topic') : topic'[j] = topic[j + 1]
    BY <2>1, HeadTailProperties, LenProperties
  <2>3. ASSUME NEW h \in Frames, NEW i \in 1 .. Len(topic'), LatestPoseMsg(h, i)'
        PROVE  i + 1 \in 1 .. Len(topic) /\ LatestPoseMsg(h, i + 1) /\ topic'[i] = topic[i + 1]
    <3>1. ASSUME NEW j \in i + 2 .. Len(topic), topic[j].frame = h PROVE topic[j].op = "ADD"
      <4>1. j - 1 \in i + 1 .. Len(topic') /\ topic'[j - 1] = topic[j]
        BY <2>2
      <4> QED
        BY <2>3, <3>1, <4>1 DEF LatestPoseMsg
    <3> QED
      BY <2>2, <2>3, <3>1 DEF LatestPoseMsg
  <2> QED
    BY <2>1, <2>3 DEF DeadbandStep, TfLocalsInv, DeadbandForgetsRemoved,
       DeadbandIsAgainstPublished
<1>7. CASE QueueNewObjects \/ TfCallbackReturns
  BY <1>7 DEF QueueNewObjects, TfCallbackReturns, DeadbandStep, TfLocalsInv,
     DeadbandForgetsRemoved, DeadbandIsAgainstPublished, LatestPoseMsg, dataVars, sceneVars,
     lifeVars
<1>8. CASE TfMessage
  BY <1>8 DEF TfMessage, DeadbandStep, TfLocalsInv, DeadbandForgetsRemoved,
     DeadbandIsAgainstPublished, LatestPoseMsg, dataVars, sceneVars, lifeVars
<1>9. CASE TfCallback
  BY <1>9, <1>1, <1>2, <1>3, <1>4, <1>7 DEF TfCallback
<1>10. ASSUME NEW t \in Threads, NEW g \in todo[t], StorePrimitive(t, g) PROVE DeadbandStep
  BY <1>10, DeadbandUntouched DEF StorePrimitive, TypeOK, DataTypeOK, tfVars, sceneVars, lifeVars
<1>11. ASSUME NEW t \in Threads, NEW g \in cur[t], TrackRenderable(t, g) PROVE DeadbandStep
  BY <1>11, DeadbandUntouched DEF TrackRenderable, TypeOK, DataTypeOK, tfVars, sceneVars, lifeVars
<1>12. ASSUME NEW t \in Threads, FetchAndAdd(t) PROVE DeadbandStep
  <2>1. CASE \/ GetObjects(t) \/ GetObjectsFails(t) \/ GetGltfFails(t) \/ AddCollisionObjects(t)
             \/ AddReturns(t)
             \/ \E g \in todo[t] : SkipGeometry(t, g) \/ CheckRenderable(t, g)
             \/ \E g \in cur[t] : StoreRenderable(t, g)
    BY <2>1, DeadbandUntouched DEF GetObjects, GetObjectsFails, GetGltfFails,
       AddCollisionObjects, AddReturns, SkipGeometry, CheckRenderable, StoreRenderable,
       dataVars, tfVars, sceneVars, lifeVars
  <2> QED
    BY <1>12, <2>1, <1>5, <1>10, <1>11 DEF FetchAndAdd
<1>13. ASSUME NEW f \in Frames, MinPeriodElapses(f) PROVE DeadbandStep
  BY <1>13, DeadbandUntouched DEF MinPeriodElapses, tfVars, sceneVars, lifeVars
<1>14. CASE \/ \E f \in Frames : \/ \E v \in 1 .. MaxVersion : WorldCreate(f, v)
                               \/ WorldDelete(f)
                               \/ \E p \in Poses : WorldMove(f, p)
            \/ SyncWakes \/ (\E t \in Requesters : Request(t))
  BY <1>14, DeadbandUntouched DEF WorldCreate, WorldDelete, WorldMove, SyncWakes, Request,
     dataVars, tfVars, sceneVars, lifeVars
<1>15. CASE RosShutdown \/ Destroy \/ Join \/ UNCHANGED vars
  BY <1>15, DeadbandUntouched DEF RosShutdown, Destroy, Join, vars, dataVars, tfVars,
     sceneVars, lifeVars
<1> QED
  BY <1>6, <1>8, <1>9, <1>12, <1>13, <1>14, <1>15 DEF Next

(***************************************************************************)
(* The deadband measures every update against the pose MoveIt was told     *)
(* last, and remembers nothing of a frame that was removed.                *)
(***************************************************************************)
THEOREM DeadbandCorrect == Spec => [](DeadbandForgetsRemoved /\ DeadbandIsAgainstPublished)
<1>1. Init => DeadbandInv
  BY InitType DEF Init, DeadbandInv, TfLocalsInv, DeadbandForgetsRemoved,
     DeadbandIsAgainstPublished
<1>2. DeadbandInv /\ [Next]_vars => DeadbandInv'
  BY NextType, NextDeadband DEF DeadbandInv, DeadbandStep
<1>3. DeadbandInv => DeadbandForgetsRemoved /\ DeadbandIsAgainstPublished
  BY DEF DeadbandInv
<1> QED
  BY <1>1, <1>2, <1>3, PTL DEF Spec

(* A frame that comes back starts afresh: nothing of its earlier poses holds its updates up. *)
COROLLARY ForgettingCorrect == Spec => []DeadbandForgetsRemoved
BY DeadbandCorrect, PTL
=============================================================================
