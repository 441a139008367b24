--------------------------- MODULE SceneFetchProofs ---------------------------
(***************************************************************************)
(* What SceneSync promises about an object that TF announces: it is        *)
(* fetched, and nothing else is shown to MoveIt.  That the fetch comes to  *)
(* an end is a matter of fairness and stays with TLC (MirrorsWorld); that  *)
(* no interleaving drops a step of it is proved here, for any number of    *)
(* objects, frames, meshes and threads.                                    *)
(***************************************************************************)
EXTENDS SceneSyncProofs

(***************************************************************************)
(* What a thread works on is empty outside the part of fetch-then-add that *)
(* uses it: a fetch never starts on the leftovers of the one before.       *)
(***************************************************************************)
FetchShape ==
  \A t \in Threads :
    /\ pc[t] \notin {"geometry", "gltf", "track"} => todo[t] = {}
    /\ pc[t] \notin {"gltf", "track"} => cur[t] = {}

ShapeInv == CacheInv /\ FetchShape

LEMMA InitShape == Init => ShapeInv
BY InitCache DEF Init, ShapeInv, FetchShape

(* Steps of no thread that fetches, and those after the fetch. *)
LEMMA ShapeUntouched ==
  ASSUME FetchShape, UNCHANGED <<pc, todo, cur>>
  PROVE  FetchShape'
BY DEF FetchShape

LEMMA NextShape == ShapeInv /\ [Next]_vars => FetchShape'
<1> SUFFICES ASSUME ShapeInv, [Next]_vars PROVE FetchShape'
  OBVIOUS
<1>1. pc \in [Threads -> {"idle", "wait", "exited", "getObjects", "geometry", "gltf", "track",
                          "publish"}]
      /\ todo \in [Threads -> SUBSET Geometry]
      /\ cur \in [Threads -> SUBSET Geometry]
      /\ Requesters \subseteq Threads /\ Sync \in Threads
  BY DEF ShapeInv, CacheInv, TypeOK, FetchTypeOK, Threads
<1>2. ASSUME NEW t \in Threads, FetchAndAdd(t) PROVE FetchShape'
  <2>1. CASE GetObjects(t)
    BY <1>1, <2>1 DEF GetObjects, ShapeInv, FetchShape
  <2>2. CASE GetObjectsFails(t)
    BY <1>1, <2>2 DEF GetObjectsFails, LoopHead, ShapeInv, FetchShape
  <2>3. ASSUME NEW g \in todo[t], StorePrimitive(t, g) \/ SkipGeometry(t, g) PROVE FetchShape'
    BY <1>1, <2>3 DEF StorePrimitive, SkipGeometry, ShapeInv, FetchShape
  <2>4. ASSUME NEW g \in todo[t], CheckRenderable(t, g) PROVE FetchShape'
    BY <1>1, <2>4 DEF CheckRenderable, ShapeInv, FetchShape
  <2>5. ASSUME NEW g \in cur[t], StoreRenderable(t, g) \/ TrackRenderable(t, g) PROVE FetchShape'
    BY <1>1, <2>5 DEF StoreRenderable, TrackRenderable, ShapeInv, FetchShape
  <2>6. CASE GetGltfFails(t)
    BY <1>1, <2>6 DEF GetGltfFails, ShapeInv, FetchShape
  <2>7. CASE AddCollisionObjects(t)
    BY <1>1, <2>7 DEF AddCollisionObjects, ShapeInv, FetchShape
  <2>8. ASSUME NEW msg \in batch[t], PublishAdd(t, msg) PROVE FetchShape'
    BY <2>8, ShapeUntouched DEF PublishAdd, ShapeInv
  <2>9. CASE AddReturns(t)
    BY <1>1, <2>9 DEF AddReturns, LoopHead, ShapeInv, FetchShape
  <2> QED
    BY <1>2, <2>1, <2>2, <2>3, <2>4, <2>5, <2>6, <2>7, <2>8, <2>9 DEF FetchAndAdd
<1>3. CASE SyncWakes
  BY <1>1, <1>3 DEF SyncWakes, ShapeInv, FetchShape
<1>4. ASSUME NEW t \in Requesters, Request(t) PROVE FetchShape'
  BY <1>1, <1>4 DEF Request, ShapeInv, FetchShape
<1>5. CASE TfCallback
  BY <1>5, ShapeUntouched DEF TfCallback, EraseFrame, PublishRemove, QueueNewObjects,
     UpdateCollisionObjects, PublishMove, TfCallbackReturns, fetchVars, ShapeInv
<1>6. CASE \/ \E f \in Frames : \/ \E v \in 1 .. MaxVersion : WorldCreate(f, v)
                               \/ WorldDelete(f)
                               \/ \E p \in Poses : WorldMove(f, p)
           \/ TfMessage
           \/ \E f \in Frames : MinPeriodElapses(f)
           \/ \E f \in Frames : Deliver(f)
           \/ RosShutdown \/ Destroy \/ Join \/ UNCHANGED vars
  BY <1>6, ShapeUntouched DEF WorldCreate, WorldDelete, WorldMove, TfMessage, MinPeriodElapses,
     Deliver, RosShutdown, Destroy, Join, vars, fetchVars, ShapeInv
<1> QED
  BY <1>2, <1>3, <1>4, <1>5, <1>6 DEF Next

-----------------------------------------------------------------------------
(***************************************************************************)
(* A frame TF has announced, whose object is not excluded, is accounted    *)
(* for: its object's name is queued; or the sync thread is about to ask    *)
(* the World for it; or each of its meshes is listed or in that thread's   *)
(* hands.  The step that takes the names, the fetch and the listing of     *)
(* each mesh are different steps, and TF callbacks queue more names and    *)
(* request threads run fetches of their own between them.                  *)
(***************************************************************************)
Queued(f) == pendingNames # Nullopt /\ ObjectOf[f] \in pendingNames
AskedFor(f) == pc[Sync] = "getObjects" /\ ObjectOf[f] \in Wanted(Sync)
InHand(m) == \E g \in todo[Sync] \cup cur[Sync] : g.mesh = m
MeshesOf(f) == {m \in RefMeshes \cup PrimMeshes : FrameOf[m] = f}

Accounted(f) ==
  f \in tfNames /\ ObjectOf[f] \notin Excluded =>
    \/ Queued(f)
    \/ AskedFor(f)
    \/ \A m \in MeshesOf(f) : m \in frameMeshes[f] \/ InHand(m)

(* Once the sync thread rests with no name queued, every mesh of the frame is cached. *)
CompleteAtRest(f) ==
  /\ f \in tfNames
  /\ ObjectOf[f] \notin Excluded
  /\ pendingNames = Nullopt
  /\ pc[Sync] \in {"wait", "exited"}
  => \A m \in MeshesOf(f) :
       /\ m \in frameMeshes[f]
       /\ relPose[m] # 0
       /\ IF m \in RefMeshes THEN renderables[m] # 0 ELSE primitives[m] # 0

(***************************************************************************)
(* What a fetch may rely on: the frame, once there, is not deleted, and    *)
(* the calls of the sync thread are answered.  Those of request threads    *)
(* may fail, and everything else in the World may change.                  *)
(***************************************************************************)
Keeps(f) ==
  /\ Exists(f) => geom'[f] # 0
  /\ ~GetObjectsFails(Sync)
  /\ ~GetGltfFails(Sync)

(* TF never reports a kept frame as gone. *)
KeptInv(f) ==
  /\ f \in tfNames \/ tfMsg[f] # NoPose => Exists(f)
  /\ f \notin gone

LEMMA NextKept ==
  ASSUME NEW f \in Frames, TypeOK, KeptInv(f), [Next]_vars, [Keeps(f)]_vars
  PROVE  KeptInv(f)'
<1>1. Exists(f) => Exists(f)'
  BY DEF Exists, Keeps, vars, worldVars
<1>2. CASE UNCHANGED <<tfNames, tfMsg, gone>>
  BY <1>1, <1>2 DEF KeptInv
<1>3. CASE TfMessage
  BY <1>1, <1>3 DEF TfMessage, KeptInv, Exists, worldVars
<1>4. ASSUME NEW h \in Frames, PublishRemove(h) PROVE KeptInv(f)'
  BY <1>1, <1>4 DEF PublishRemove, KeptInv
<1>5. CASE QueueNewObjects
  BY <1>1, <1>5 DEF QueueNewObjects, FramesInMsg, KeptInv
<1>6. CASE UpdateCollisionObjects
  BY <1>1, <1>6 DEF UpdateCollisionObjects, KeptInv
<1>7. CASE TfCallback
  BY <1>7, <1>2, <1>4, <1>5, <1>6 DEF TfCallback, EraseFrame, PublishMove, TfCallbackReturns
<1>8. ASSUME NEW t \in Threads, FetchAndAdd(t) PROVE KeptInv(f)'
  BY <1>8, <1>2 DEF FetchAndAdd, GetObjects, GetObjectsFails, StorePrimitive, SkipGeometry,
     CheckRenderable, StoreRenderable, TrackRenderable, GetGltfFails, AddCollisionObjects,
     PublishAdd, AddReturns, tfVars
<1> QED
  BY <1>2, <1>3, <1>7, <1>8 DEF Next, vars, WorldCreate, WorldDelete, WorldMove,
     MinPeriodElapses, SyncWakes, Request, Deliver, RosShutdown, Destroy, Join, tfVars

(* Steps that take nothing away that accounts for the frame. *)
LEMMA AccountedUntouched ==
  ASSUME NEW f \in Frames, Accounted(f), UNCHANGED <<pendingNames, tfNames>>,
         frameMeshes[f] \subseteq frameMeshes'[f],
         UNCHANGED <<pc[Sync], names[Sync], todo[Sync], cur[Sync]>>
  PROVE  Accounted(f)'
<1>1. Queued(f)' = Queued(f)
  BY DEF Queued
<1>2. AskedFor(f) => AskedFor(f)'
  BY DEF AskedFor, Wanted
<1>3. \A m \in MeshesOf(f) : InHand(m) => InHand(m)'
  BY DEF InHand
<1> QED
  BY <1>1, <1>2, <1>3 DEF Accounted

(* The sync thread's own steps. *)
LEMMA FetchAccounts ==
  ASSUME NEW f \in Frames, ShapeInv, Accounted(f), FetchAndAdd(Sync),
         ~GetObjectsFails(Sync), ~GetGltfFails(Sync), KeptInv(f)
  PROVE  Accounted(f)'
<1> SUFFICES ASSUME f \in tfNames', ObjectOf[f] \notin Excluded, ~Queued(f)'
             PROVE  \/ AskedFor(f)'
                    \/ \A m \in MeshesOf(f) : m \in frameMeshes'[f] \/ InHand(m)'
  BY DEF Accounted
<1>1. UNCHANGED <<tfNames, pendingNames>>
  BY DEF FetchAndAdd, GetObjects, StorePrimitive, SkipGeometry,
     CheckRenderable, StoreRenderable, TrackRenderable, AddCollisionObjects,
     PublishAdd, AddReturns, tfVars, wakeVars
<1>2. \/ AskedFor(f)
      \/ \A m \in MeshesOf(f) : m \in frameMeshes[f] \/ InHand(m)
  BY <1>1 DEF Accounted, Queued
<1>3. Exists(f)
  BY <1>1 DEF KeptInv
<1>4. /\ Sync \in Threads
      /\ pc \in [Threads -> {"idle", "wait", "exited", "getObjects", "geometry", "gltf", "track",
                             "publish"}]
      /\ todo \in [Threads -> SUBSET Geometry]
      /\ cur \in [Threads -> SUBSET Geometry]
      /\ frameMeshes \in [Frames -> SUBSET Meshes]
  BY DEF ShapeInv, CacheInv, TypeOK, FetchTypeOK, DataTypeOK, Threads
<1>5. CASE GetObjects(Sync)
  <2>1. CASE AskedFor(f)
    <3> SUFFICES ASSUME NEW m \in MeshesOf(f) PROVE InHand(m)'
      OBVIOUS
    <3>1. [mesh |-> m, ver |-> geom[f]] \in Snapshot(Sync)
      BY <1>3, <2>1, NamesAssumption DEF AskedFor, Snapshot, MeshesOf
    <3> QED
      BY <1>4, <1>5, <3>1 DEF GetObjects, InHand
  <2>2. CASE \A m \in MeshesOf(f) : m \in frameMeshes[f] \/ InHand(m)
    BY <1>5, <2>2, <1>4 DEF GetObjects, InHand, ShapeInv, FetchShape, dataVars
  <2> QED
    BY <1>2, <2>1, <2>2
<1>6. ASSUME ~GetObjects(Sync)
      PROVE  \A m \in MeshesOf(f) : m \in frameMeshes'[f] \/ InHand(m)'
  <2>1. pc[Sync] # "getObjects"
    BY <1>6 DEF FetchAndAdd, GetObjects, StorePrimitive, SkipGeometry,
       CheckRenderable, StoreRenderable, TrackRenderable, AddCollisionObjects, PublishAdd,
       AddReturns
  <2>2. \A m \in MeshesOf(f) : m \in frameMeshes[f] \/ InHand(m)
    BY <1>2, <2>1 DEF AskedFor
  <2> SUFFICES ASSUME NEW m \in MeshesOf(f) PROVE m \in frameMeshes'[f] \/ InHand(m)'
    OBVIOUS
  <2>3. m \in RefMeshes \cup PrimMeshes /\ FrameOf[m] = f
    BY DEF MeshesOf
  <2>4. CASE m \in frameMeshes[f]
    BY <1>4, <1>6, <2>4 DEF FetchAndAdd, StorePrimitive, SkipGeometry,
       CheckRenderable, StoreRenderable, TrackRenderable, AddCollisionObjects, PublishAdd,
       AddReturns, dataVars
  <2>5. ASSUME NEW h \in todo[Sync] \cup cur[Sync], h.mesh = m
        PROVE  m \in frameMeshes'[f] \/ InHand(m)'
    <3>1. ASSUME NEW g \in todo[Sync], StorePrimitive(Sync, g)
          PROVE  m \in frameMeshes'[f] \/ InHand(m)'
      <4>1. CASE g = h
        BY <1>4, <2>3, <2>5, <3>1, <4>1 DEF StorePrimitive
      <4>2. CASE g # h
        BY <1>4, <2>5, <3>1, <4>2 DEF StorePrimitive, InHand
      <4> QED
        BY <4>1, <4>2
    <3>2. ASSUME NEW g \in todo[Sync], SkipGeometry(Sync, g) PROVE InHand(m)'
      <4>1. g # h
        BY <2>3, <2>5, <3>2 DEF SkipGeometry
      <4> QED
        BY <1>4, <2>5, <3>2, <4>1 DEF SkipGeometry, InHand
    <3>3. ASSUME NEW g \in todo[Sync], CheckRenderable(Sync, g) PROVE InHand(m)'
      <4>1. cur[Sync] = {}
        BY <1>4, <3>3 DEF CheckRenderable, ShapeInv, FetchShape
      <4>2. todo'[Sync] = todo[Sync] \ {g} /\ cur'[Sync] = {g}
        BY <1>4, <3>3 DEF CheckRenderable
      <4> QED
        BY <2>5, <4>1, <4>2 DEF InHand
    <3>4. ASSUME NEW g \in cur[Sync], StoreRenderable(Sync, g) PROVE InHand(m)'
      BY <2>5, <3>4 DEF StoreRenderable, InHand
    <3>5. ASSUME NEW g \in cur[Sync], TrackRenderable(Sync, g)
          PROVE  m \in frameMeshes'[f] \/ InHand(m)'
      <4>1. cur[Sync] = {g}
        BY <1>4 DEF ShapeInv, CacheInv, InFlightMeshesStored
      <4>2. CASE h = g
        BY <1>4, <2>3, <2>5, <3>5, <4>2 DEF TrackRenderable
      <4>3. CASE h # g
        BY <2>5, <3>5, <4>1, <4>3 DEF TrackRenderable, InHand
      <4> QED
        BY <4>2, <4>3
    <3>6. CASE \/ AddCollisionObjects(Sync) \/ AddReturns(Sync)
               \/ \E msg \in batch[Sync] : PublishAdd(Sync, msg)
      BY <2>5, <3>6 DEF AddCollisionObjects, AddReturns, PublishAdd, InHand
    <3> QED
      BY <1>6, <3>1, <3>2, <3>3, <3>4, <3>5, <3>6 DEF FetchAndAdd
  <2> QED
    BY <2>2, <2>4, <2>5 DEF InHand
<1> QED
  BY <1>5, <1>6

LEMMA NextAccounted ==
  ASSUME NEW f \in Frames, ShapeInv, Accounted(f), KeptInv(f), [Next]_vars, [Keeps(f)]_vars
  PROVE  Accounted(f)'
<1>1. /\ Sync \in Threads
      /\ pc \in [Threads -> {"idle", "wait", "exited", "getObjects", "geometry", "gltf", "track",
                             "publish"}]
      /\ names \in [Threads -> Names]
      /\ todo \in [Threads -> SUBSET Geometry]
      /\ cur \in [Threads -> SUBSET Geometry]
      /\ frameMeshes \in [Frames -> SUBSET Meshes]
      /\ pendingNames \in Names
  BY DEF ShapeInv, CacheInv, TypeOK, FetchTypeOK, DataTypeOK, Threads
<1>2. CASE UNCHANGED vars
  BY <1>2, AccountedUntouched DEF vars, wakeVars, tfVars, dataVars, fetchVars
<1>3. CASE FetchAndAdd(Sync)
  <2>1. ~UNCHANGED vars => Keeps(f)
    OBVIOUS
  <2> QED
    BY <1>2, <1>3, <2>1, FetchAccounts DEF Keeps
<1>4. ASSUME NEW t \in Requesters, FetchAndAdd(t) PROVE Accounted(f)'
  <2>1. t # Sync /\ t \in Threads
    BY ThreadsAssumption DEF Threads
  <2>2. UNCHANGED <<pendingNames, tfNames>>
    BY <1>4 DEF FetchAndAdd, GetObjects, GetObjectsFails, StorePrimitive, SkipGeometry,
       CheckRenderable, StoreRenderable, TrackRenderable, GetGltfFails, AddCollisionObjects,
       PublishAdd, AddReturns, tfVars, wakeVars
  <2>3. UNCHANGED <<pc[Sync], names[Sync], todo[Sync], cur[Sync]>>
    BY <1>1, <1>4, <2>1 DEF FetchAndAdd, GetObjects, GetObjectsFails, StorePrimitive,
       SkipGeometry, CheckRenderable, StoreRenderable, TrackRenderable, GetGltfFails,
       AddCollisionObjects, PublishAdd, AddReturns
  <2>4. frameMeshes[f] \subseteq frameMeshes'[f]
    BY <1>1, <1>4 DEF FetchAndAdd, GetObjects, GetObjectsFails, StorePrimitive, SkipGeometry,
       CheckRenderable, StoreRenderable, TrackRenderable, GetGltfFails, AddCollisionObjects,
       PublishAdd, AddReturns, dataVars
  <2> QED
    BY <2>2, <2>3, <2>4, AccountedUntouched
<1>5. ASSUME NEW t \in Requesters, Request(t) PROVE Accounted(f)'
  <2>1. t # Sync
    BY ThreadsAssumption
  <2> QED
    BY <1>1, <1>5, <2>1, AccountedUntouched DEF Request, wakeVars, tfVars, dataVars
<1>6. CASE SyncWakes
  <2>1. CASE shutdown
    BY <1>1, <1>6, <2>1 DEF SyncWakes, Accounted, Queued, AskedFor, InHand, wakeVars, tfVars,
       dataVars
  <2>2. CASE ~shutdown
    <3>1. /\ pc'[Sync] = "getObjects" /\ names'[Sync] = pendingNames
          /\ UNCHANGED <<todo, cur, frameMeshes, tfNames>>
      BY <1>1, <1>6, <2>2 DEF SyncWakes, tfVars, dataVars
    <3>2. Queued(f) => AskedFor(f)'
      BY <3>1, NamesAssumption DEF Queued, AskedFor, Wanted
    <3>3. ~AskedFor(f)
      BY <1>6 DEF SyncWakes, AskedFor
    <3> QED
      BY <3>1, <3>2, <3>3 DEF Accounted, InHand
  <2> QED
    BY <2>1, <2>2
<1>7. CASE QueueNewObjects
  <2>1. UNCHANGED <<pc, names, todo, cur, frameMeshes>> /\ tfNames' = FramesInMsg
    BY <1>7 DEF QueueNewObjects, fetchVars, dataVars
  <2>2. NewObjectNames \in SUBSET Objects
    BY NamesAssumption DEF NewObjectNames, FramesInMsg
  <2>3. ASSUME Queued(f) PROVE Queued(f)'
    <3>1. pendingNames \in SUBSET Objects
      BY <1>1, <2>3 DEF Queued, Names
    <3>2. pendingNames' \in {pendingNames, pendingNames \cup NewObjectNames}
      BY <1>7, <2>3 DEF QueueNewObjects, Queued, wakeVars
    <3>3. pendingNames' \in SUBSET Objects /\ ObjectOf[f] \in pendingNames'
      BY <2>2, <2>3, <3>1, <3>2 DEF Queued
    <3> QED
      BY <3>3, ThreadsAssumption DEF Queued
  <2>4. CASE f \in tfNames
    BY <2>1, <2>3, <2>4 DEF Accounted, AskedFor, Wanted, InHand
  <2>5. CASE f \in FramesInMsg \ tfNames
    <3>1. ObjectOf[f] \in NewObjectNames
      BY <2>5 DEF NewObjectNames, FramesInMsg
    <3>2. ObjectOf[f] \in pendingNames' /\ pendingNames' \in SUBSET Objects
      BY <1>1, <1>7, <2>2, <3>1 DEF QueueNewObjects, Names
    <3> QED
      BY <3>2, ThreadsAssumption DEF Accounted, Queued
  <2> QED
    BY <2>1, <2>4, <2>5 DEF Accounted
<1>8. CASE TfCallback
  <2>1. ASSUME NEW h \in Frames, EraseFrame(h) PROVE Accounted(f)'
    <3>1. h # f
      BY <2>1 DEF EraseFrame, KeptInv
    <3> QED
      BY <1>1, <2>1, <3>1, AccountedUntouched DEF EraseFrame, wakeVars, fetchVars
  <2>2. CASE \/ \E h \in Frames : PublishRemove(h)
             \/ UpdateCollisionObjects
             \/ \E msg \in moves : PublishMove(msg)
             \/ TfCallbackReturns
    BY <2>2, AccountedUntouched DEF PublishRemove, UpdateCollisionObjects, PublishMove,
       TfCallbackReturns, wakeVars, fetchVars, dataVars
  <2> QED
    BY <1>7, <1>8, <2>1, <2>2 DEF TfCallback
<1>9. CASE \/ \E h \in Frames : \/ \E v \in 1 .. MaxVersion : WorldCreate(h, v)
                               \/ WorldDelete(h)
                               \/ \E p \in Poses : WorldMove(h, p)
           \/ TfMessage
           \/ \E h \in Frames : MinPeriodElapses(h)
           \/ \E h \in Frames : Deliver(h)
           \/ RosShutdown \/ Destroy \/ Join
  BY <1>9, AccountedUntouched DEF WorldCreate, WorldDelete, WorldMove, TfMessage,
     MinPeriodElapses, Deliver, RosShutdown, Destroy, Join, wakeVars, tfVars, dataVars, fetchVars
<1> QED
  BY <1>2, <1>3, <1>4, <1>5, <1>6, <1>8, <1>9 DEF Next, Threads

LEMMA RestIsComplete ==
  ASSUME NEW f \in Frames, ShapeInv, Accounted(f)
  PROVE  CompleteAtRest(f)
<1> SUFFICES ASSUME f \in tfNames, ObjectOf[f] \notin Excluded, pendingNames = Nullopt,
                    pc[Sync] \in {"wait", "exited"}, NEW m \in MeshesOf(f)
             PROVE  /\ m \in frameMeshes[f]
                    /\ relPose[m] # 0
                    /\ IF m \in RefMeshes THEN renderables[m] # 0 ELSE primitives[m] # 0
  BY DEF CompleteAtRest
<1>1. todo[Sync] = {} /\ cur[Sync] = {}
  BY DEF ShapeInv, FetchShape, Threads
<1>2. m \in frameMeshes[f]
  BY <1>1 DEF Accounted, Queued, AskedFor, InHand
<1> QED
  BY <1>2 DEF ShapeInv, CacheInv, TrackedMeshesComplete

(***************************************************************************)
(* No announced object is dropped between the TF callback that queues its  *)
(* name and the listing of its last mesh: while its frame is not deleted   *)
(* and the sync thread's calls are answered, it stays accounted for, and   *)
(* whenever that thread rests with no name queued the frame is complete in *)
(* the cache, whatever the other objects and threads do.                   *)
(***************************************************************************)
THEOREM FetchCorrect ==
  ASSUME NEW f \in Frames
  PROVE  Spec /\ [][Keeps(f)]_vars => [](Accounted(f) /\ CompleteAtRest(f))
<1> DEFINE Inv == ShapeInv /\ KeptInv(f) /\ Accounted(f)
<1>1. Init => Inv
  BY InitShape DEF Init, KeptInv, Accounted, NoPose
<1>2. Inv /\ [Next]_vars /\ [Keeps(f)]_vars => Inv'
  <2> SUFFICES ASSUME Inv, [Next]_vars, [Keeps(f)]_vars PROVE Inv'
    OBVIOUS
  <2>1. ShapeInv'
    BY NextType, NextCache, NextShape DEF ShapeInv, CacheInv, CacheStep
  <2>2. KeptInv(f)'
    BY NextKept DEF ShapeInv, CacheInv
  <2>3. Accounted(f)'
    BY NextAccounted
  <2> QED
    BY <2>1, <2>2, <2>3
<1>3. Inv => Accounted(f) /\ CompleteAtRest(f)
  BY RestIsComplete
<1> QED
  BY <1>1, <1>2, <1>3, PTL DEF Spec

-----------------------------------------------------------------------------
(***************************************************************************)
(* What MoveIt is shown under a frame's name is made of that frame's own   *)
(* meshes, of no object that is excluded, and is never empty unless a mesh *)
(* cannot be decoded: in the batches of all threads, on its way, and in    *)
(* the scene.  Excluded objects are left out where the World is asked, and *)
(* nowhere after that.                                                     *)
(***************************************************************************)
Own(f, shape) ==
  /\ ObjectOf[f] \notin Excluded
  /\ \A m \in Meshes : shape[m] # 0 => FrameOf[m] = f /\ m \in Shown

OwnAdd(msg) ==
  msg.op = "ADD" =>
    /\ Own(msg.frame, msg.shape)
    /\ msg.shape = NoShape => \E m \in Undecodable : FrameOf[m] = msg.frame

ShownIsOwned ==
  /\ \A t \in Threads : \A msg \in batch[t] : OwnAdd(msg)
  /\ \A i \in 1 .. Len(topic) : OwnAdd(topic[i])
  /\ \A f \in Frames : sceneShape[f] # NoShape => Own(f, sceneShape[f])

(* What is fetched and listed: no mesh of an excluded object, none of an unsupported kind. *)
NoneExcluded ==
  /\ \A t \in Threads : \A g \in todo[t] \cup cur[t] : ObjectOf[FrameOf[g.mesh]] \notin Excluded
  /\ \A f \in Frames : \A m \in frameMeshes[f] :
       m \in RefMeshes \cup PrimMeshes /\ ObjectOf[f] \notin Excluded

LEMMA NextNoneExcluded == CacheInv /\ NoneExcluded /\ [Next]_vars => NoneExcluded'
<1> SUFFICES ASSUME CacheInv, NoneExcluded, [Next]_vars PROVE NoneExcluded'
  OBVIOUS
<1>1. /\ todo \in [Threads -> SUBSET Geometry]
      /\ cur \in [Threads -> SUBSET Geometry]
      /\ frameMeshes \in [Frames -> SUBSET Meshes]
  BY DEF CacheInv, TypeOK, FetchTypeOK, DataTypeOK
<1>2. CASE UNCHANGED <<todo, cur, frameMeshes>>
  BY <1>2 DEF NoneExcluded
<1>3. ASSUME NEW t \in Threads, FetchAndAdd(t) PROVE NoneExcluded'
  <2>1. CASE GetObjects(t)
    <3>1. \A g \in Snapshot(t) : ObjectOf[FrameOf[g.mesh]] \notin Excluded
      BY DEF Snapshot
    <3> QED
      BY <1>1, <2>1, <3>1 DEF GetObjects, NoneExcluded, dataVars
  <2>2. ASSUME NEW g \in todo[t], StorePrimitive(t, g) PROVE NoneExcluded'
    BY <1>1, <2>2 DEF StorePrimitive, NoneExcluded
  <2>3. ASSUME NEW g \in todo[t], SkipGeometry(t, g) \/ CheckRenderable(t, g)
        PROVE  NoneExcluded'
    BY <1>1, <2>3 DEF SkipGeometry, CheckRenderable, NoneExcluded, dataVars
  <2>4. ASSUME NEW g \in cur[t], TrackRenderable(t, g) PROVE NoneExcluded'
    <3>1. g.mesh \in RefMeshes
      BY DEF CacheInv, InFlightMeshesStored
    <3> QED
      BY <1>1, <2>4, <3>1 DEF TrackRenderable, NoneExcluded
  <2>5. CASE GetGltfFails(t)
    BY <1>1, <2>5 DEF GetGltfFails, NoneExcluded, dataVars
  <2>6. CASE \/ GetObjectsFails(t) \/ AddCollisionObjects(t) \/ AddReturns(t)
             \/ \E g \in cur[t] : StoreRenderable(t, g)
             \/ \E msg \in batch[t] : PublishAdd(t, msg)
    BY <1>2, <2>6 DEF GetObjectsFails, AddCollisionObjects, AddReturns, StoreRenderable,
       PublishAdd, dataVars
  <2> QED
    BY <1>3, <2>1, <2>2, <2>3, <2>4, <2>5, <2>6 DEF FetchAndAdd
<1>4. ASSUME NEW f \in Frames, EraseFrame(f) PROVE NoneExcluded'
  BY <1>1, <1>4 DEF EraseFrame, NoneExcluded, fetchVars
<1>5. CASE TfCallback
  BY <1>5, <1>2, <1>4 DEF TfCallback, PublishRemove, QueueNewObjects, UpdateCollisionObjects,
     PublishMove, TfCallbackReturns, fetchVars, dataVars
<1> QED
  BY <1>2, <1>3, <1>5 DEF Next, vars, WorldCreate, WorldDelete, WorldMove, TfMessage,
     MinPeriodElapses, SyncWakes, Request, Deliver, RosShutdown, Destroy, Join, fetchVars,
     dataVars

(* After a publish, what is on its way was, or is the message published. *)
LEMMA PublishAdds ==
  ASSUME SceneTypeOK, NEW msg \in Messages, Publish(msg), NEW i \in 1 .. Len(topic')
  PROVE  topic'[i] = msg \/ \E k \in 1 .. Len(topic) : topic'[i] = topic[k]
<1>1. topic \in Seq(Messages) /\ Len(topic) \in Nat /\ QueueDepth \in Nat \ {0}
  BY BoundsAssumption, LenProperties DEF SceneTypeOK
<1>2. CASE topic' = topic
  BY <1>2
<1>3. CASE topic' = Append(topic, msg)
  BY <1>1, <1>3
<1>4. CASE topic' = Append(Tail(topic), msg) /\ topic # <<>>
  <2>1. /\ Len(Tail(topic)) = Len(topic) - 1
        /\ \A j \in 1 .. Len(Tail(topic)) : Tail(topic)[j] = topic[j + 1]
        /\ Tail(topic) \in Seq(Messages)
    BY <1>1, <1>4, HeadTailProperties
  <2>2. /\ Len(topic') = Len(topic)
        /\ topic'[Len(topic)] = msg
        /\ \A j \in 1 .. Len(topic) - 1 : topic'[j] = Tail(topic)[j]
    BY <1>1, <1>4, <2>1, AppendProperties
  <2>3. CASE i = Len(topic)
    BY <2>2, <2>3
  <2>4. CASE i \in 1 .. Len(topic) - 1
    BY <1>1, <2>1, <2>2, <2>4
  <2> QED
    BY <1>1, <2>2, <2>3, <2>4
<1> QED
  BY <1>1, <1>2, <1>3, <1>4, EmptySeq DEF Publish

(* An ADD is made of what is listed under its frame. *)
LEMMA CachedIsOwn ==
  ASSUME CacheInv, NoneExcluded, NEW f \in Tracked
  PROVE  OwnAdd([op |-> "ADD", frame |-> f, shape |-> CachedShape(f)])
<1>1. \A m \in frameMeshes[f] :
        /\ m \in Meshes /\ m \in RefMeshes \cup PrimMeshes
        /\ FrameOf[m] = f /\ relPose[m] # 0
        /\ IF m \in RefMeshes THEN renderables[m] # 0 ELSE primitives[m] # 0
  BY DEF CacheInv, TrackedMeshesComplete, NoneExcluded, Tracked, TypeOK, DataTypeOK
<1>2. PICK n \in frameMeshes[f] : TRUE
  BY DEF Tracked
<1>3. Own(f, CachedShape(f))
  BY <1>1, <1>2 DEF Own, CachedShape, NoneExcluded, Shown, Tracked
<1>4. ASSUME CachedShape(f) = NoShape PROVE n \in Undecodable
  <2>1. CachedShape(f)[n] = 0
    BY <1>1, <1>4 DEF NoShape
  <2> QED
    BY <1>1, <2>1 DEF CachedShape
<1> QED
  BY <1>1, <1>3, <1>4 DEF OwnAdd

ShownInv == CacheInv /\ NoneExcluded /\ ShownIsOwned

LEMMA NextShown == ShownInv /\ [Next]_vars => ShownIsOwned'
<1> SUFFICES ASSUME ShownInv, [Next]_vars PROVE ShownIsOwned'
  OBVIOUS
<1>1. /\ batch \in [Threads -> SUBSET AddMsgs]
      /\ SceneTypeOK
      /\ topic \in Seq(Messages)
      /\ sceneShape \in [Frames -> Shapes]
  BY DEF ShownInv, CacheInv, TypeOK, FetchTypeOK, SceneTypeOK
<1>2. CASE UNCHANGED <<batch, topic, sceneShape>>
  BY <1>2 DEF ShownInv, ShownIsOwned
<1>3. ASSUME NEW t \in Threads, AddCollisionObjects(t) PROVE ShownIsOwned'
  <2>1. FramesToAdd(t) \subseteq Tracked
    BY DEF FramesToAdd
  <2>2. \A msg \in batch'[t] : OwnAdd(msg)
    BY <1>1, <1>3, <2>1, CachedIsOwn DEF AddCollisionObjects, ShownInv
  <2>3. \A u \in Threads \ {t} : batch'[u] = batch[u]
    BY <1>1, <1>3 DEF AddCollisionObjects
  <2> QED
    BY <1>3, <2>2, <2>3 DEF AddCollisionObjects, ShownInv, ShownIsOwned, sceneVars
<1>4. ASSUME NEW msg \in Messages, Publish(msg), OwnAdd(msg),
             \A t \in Threads : batch'[t] \subseteq batch[t]
      PROVE  ShownIsOwned'
  BY <1>1, <1>4, PublishAdds DEF Publish, ShownInv, ShownIsOwned
<1>5. ASSUME NEW t \in Threads, NEW msg \in batch[t], PublishAdd(t, msg) PROVE ShownIsOwned'
  BY <1>1, <1>4, <1>5 DEF PublishAdd, ShownInv, ShownIsOwned, Messages
<1>6. ASSUME NEW f \in Frames, PublishRemove(f) PROVE ShownIsOwned'
  BY <1>4, <1>6 DEF PublishRemove, OwnAdd, fetchVars, Messages, RemoveMsgs
<1>7. ASSUME NEW msg \in moves, PublishMove(msg) PROVE ShownIsOwned'
  BY <1>4, <1>7 DEF PublishMove, OwnAdd, fetchVars, ShownInv, CacheInv, TypeOK, TfTypeOK,
     Messages, MoveMsgs
<1>8. ASSUME NEW f \in Frames, Deliver(f) PROVE ShownIsOwned'
  <2> DEFINE msg == Head(topic)
  <2>1. /\ topic # <<>> /\ topic' = Tail(topic) /\ msg.frame = f /\ batch' = batch
        /\ msg = topic[1] /\ Len(topic) \in Nat /\ Len(topic) # 0
    BY <1>1, <1>8, EmptySeq, LenProperties, HeadTailProperties DEF Deliver, fetchVars
  <2>2. \A i \in 1 .. Len(topic') : topic'[i] = topic[i + 1] /\ i + 1 \in 1 .. Len(topic)
    BY <1>1, <2>1, HeadTailProperties
  <2>3. OwnAdd(msg) /\ msg \in Messages
    BY <1>1, <2>1 DEF ShownInv, ShownIsOwned
  <2>4. \A h \in Frames : sceneShape'[h] # NoShape => Own(h, sceneShape'[h])
    <3>1. CASE msg.op = "ADD"
      <4>1. ApplyAdd(f, msg.shape)
        BY <1>8, <3>1 DEF Deliver
      <4> QED
        BY <1>1, <2>1, <2>3, <3>1, <4>1 DEF ApplyAdd, OwnAdd, ShownInv, ShownIsOwned
    <3>2. CASE msg.op = "MOVE"
      BY <1>8, <3>2 DEF Deliver, ApplyMove, ShownInv, ShownIsOwned
    <3>3. CASE msg.op = "REMOVE"
      BY <1>1, <1>8, <3>3 DEF Deliver, ApplyRemove, ShownInv, ShownIsOwned
    <3> QED
      BY <2>3, <3>1, <3>2, <3>3 DEF Messages, AddMsgs, MoveMsgs, RemoveMsgs
  <2> QED
    BY <2>1, <2>2, <2>4 DEF ShownInv, ShownIsOwned
<1>9. ASSUME NEW t \in Threads, FetchAndAdd(t) PROVE ShownIsOwned'
  BY <1>9, <1>2, <1>3, <1>5 DEF FetchAndAdd, GetObjects, GetObjectsFails, StorePrimitive,
     SkipGeometry, CheckRenderable, StoreRenderable, TrackRenderable, GetGltfFails, AddReturns,
     sceneVars
<1>10. CASE TfCallback
  BY <1>10, <1>2, <1>6, <1>7 DEF TfCallback, EraseFrame, QueueNewObjects,
     UpdateCollisionObjects, TfCallbackReturns, fetchVars, sceneVars
<1> QED
  BY <1>2, <1>8, <1>9, <1>10 DEF Next, vars, WorldCreate, WorldDelete, WorldMove, TfMessage,
     MinPeriodElapses, SyncWakes, Request, RosShutdown, Destroy, Join, fetchVars, sceneVars

(***************************************************************************)
(* MoveIt is never shown an excluded object, nor a mesh under the name of  *)
(* a frame it does not belong to; and an ADD is refused for being empty    *)
(* only when its frame has a mesh that cannot be decoded.                  *)
(***************************************************************************)
THEOREM ShownCorrect == Spec => []ShownIsOwned
<1>1. Init => ShownInv
  BY InitCache, EmptySeq DEF Init, ShownInv, NoneExcluded, ShownIsOwned
<1>2. ShownInv /\ [Next]_vars => ShownInv'
  BY NextType, NextCache, NextNoneExcluded, NextShown DEF ShownInv, CacheInv, CacheStep
<1>3. ShownInv => ShownIsOwned
  BY DEF ShownInv
<1> QED
  BY <1>1, <1>2, <1>3, PTL DEF Spec

-----------------------------------------------------------------------------
(***************************************************************************)
(* The destructor.  The sync thread, which alone wakes for the names TF    *)
(* queues, ends with the process only, never on a failed call; once the    *)
(* destructor has set shutdown_ no request is under way any more, and when *)
(* it returns the sync thread has exited.                                  *)
(***************************************************************************)
DestructorIsLast ==
  /\ pc[Sync] = "exited" => rosOk = FALSE
  /\ shutdown = TRUE => rosOk = FALSE /\ \A t \in Requesters : pc[t] = "idle"
  /\ destroyed = TRUE => shutdown = TRUE /\ pc[Sync] = "exited"

LifeInv == TypeOK /\ DestructorIsLast

(* Fetch-then-add is never at rest, and leaves other threads alone. *)
LEMMA FetchMoves ==
  ASSUME LifeInv, NEW t \in Threads, FetchAndAdd(t)
  PROVE  /\ pc[t] \notin {"idle", "wait", "exited"}
         /\ \A u \in Threads \ {t} : pc'[u] = pc[u]
         /\ pc'[t] = "exited" => rosOk = FALSE
         /\ UNCHANGED lifeVars
<1> USE DEF LoopHead, LifeInv, TypeOK, FetchTypeOK, LifeTypeOK
<1>1. CASE GetObjects(t) \/ GetGltfFails(t) \/ AddCollisionObjects(t) \/ AddReturns(t)
  BY <1>1 DEF GetObjects, GetGltfFails, AddCollisionObjects, AddReturns
<1>2. CASE GetObjectsFails(t)
  BY <1>2 DEF GetObjectsFails
<1>3. ASSUME NEW g \in todo[t], StorePrimitive(t, g) \/ SkipGeometry(t, g) \/ CheckRenderable(t, g)
      PROVE  /\ pc[t] = "geometry" /\ pc'[t] # "exited"
             /\ \A u \in Threads \ {t} : pc'[u] = pc[u]
             /\ UNCHANGED lifeVars
  BY <1>3 DEF StorePrimitive, SkipGeometry, CheckRenderable
<1>4. ASSUME NEW g \in cur[t], StoreRenderable(t, g) \/ TrackRenderable(t, g)
      PROVE  /\ pc[t] \in {"gltf", "track"} /\ pc'[t] # "exited"
             /\ \A u \in Threads \ {t} : pc'[u] = pc[u]
             /\ UNCHANGED lifeVars
  BY <1>4 DEF StoreRenderable, TrackRenderable
<1>5. ASSUME NEW msg \in batch[t], PublishAdd(t, msg)
      PROVE  pc[t] = "publish" /\ UNCHANGED pc /\ UNCHANGED lifeVars
  BY <1>5 DEF PublishAdd
<1> QED
  BY <1>1, <1>2, <1>3, <1>4, <1>5 DEF FetchAndAdd

LEMMA NextLife == LifeInv /\ [Next]_vars => DestructorIsLast'
<1> SUFFICES ASSUME LifeInv, [Next]_vars PROVE DestructorIsLast'
  OBVIOUS
<1>1. /\ Sync \in Threads /\ Sync \notin Requesters /\ Requesters \subseteq Threads
      /\ DestructorIsLast
  BY ThreadsAssumption DEF Threads, LifeInv
<1> USE DEF lifeVars
<1>2. CASE UNCHANGED <<pc, lifeVars>>
  BY <1>1, <1>2 DEF DestructorIsLast
<1>3. ASSUME NEW t \in Threads, FetchAndAdd(t) PROVE DestructorIsLast'
  BY <1>1, <1>3, FetchMoves DEF DestructorIsLast
<1>4. CASE SyncWakes
  BY <1>1, <1>4 DEF SyncWakes, DestructorIsLast, LifeInv, TypeOK, FetchTypeOK, LifeTypeOK
<1>5. ASSUME NEW t \in Requesters, Request(t) PROVE DestructorIsLast'
  BY <1>1, <1>5 DEF Request, DestructorIsLast, LifeInv, TypeOK, FetchTypeOK, LifeTypeOK
<1>6. CASE RosShutdown
  BY <1>1, <1>6 DEF RosShutdown, DestructorIsLast, fetchVars
<1>7. CASE Destroy
  BY <1>1, <1>7 DEF Destroy, DestructorIsLast, fetchVars, LifeInv, TypeOK, LifeTypeOK
<1>8. CASE Join
  BY <1>1, <1>8 DEF Join, DestructorIsLast, fetchVars, LifeInv, TypeOK, LifeTypeOK
<1>9. CASE TfCallback
  BY <1>2, <1>9 DEF TfCallback, EraseFrame, PublishRemove, QueueNewObjects,
     UpdateCollisionObjects, PublishMove, TfCallbackReturns, fetchVars
<1> QED
  BY <1>2, <1>3, <1>4, <1>5, <1>6, <1>7, <1>8, <1>9 DEF Next, vars, WorldCreate, WorldDelete,
     WorldMove, TfMessage, MinPeriodElapses, Deliver, fetchVars

LEMMA LifeInvCorrect == Spec => []LifeInv
<1>1. Init => LifeInv
  BY InitType, ThreadsAssumption DEF Init, LifeInv, DestructorIsLast, Threads
<1>2. LifeInv /\ [Next]_vars => LifeInv'
  BY NextType, NextLife DEF LifeInv
<1> QED
  BY <1>1, <1>2, PTL DEF Spec

(* The destructor returns when every thread that fetches has left the synchronizer. *)
THEOREM DestructorCorrect == Spec => []DestructorIsLast
<1>1. LifeInv => DestructorIsLast
  BY DEF LifeInv
<1> QED
  BY <1>1, LifeInvCorrect, PTL

LEMMA NothingFetched == LifeInv /\ [Next]_vars /\ destroyed = TRUE => UNCHANGED fetchVars
<1> SUFFICES ASSUME LifeInv, [Next]_vars, destroyed = TRUE PROVE UNCHANGED fetchVars
  OBVIOUS
<1>1. \A t \in Threads : pc[t] \in {"idle", "exited"}
  BY DEF LifeInv, DestructorIsLast, Threads
<1>2. shutdown = TRUE /\ pc[Sync] = "exited"
  BY DEF LifeInv, DestructorIsLast
<1>3. \A t \in Threads : ~FetchAndAdd(t)
  BY <1>1, FetchMoves
<1>4. ~SyncWakes /\ \A t \in Requesters : ~Request(t)
  BY <1>2 DEF SyncWakes, Request
<1>5. CASE TfCallback
  BY <1>5 DEF TfCallback, EraseFrame, PublishRemove, QueueNewObjects,
     UpdateCollisionObjects, PublishMove, TfCallbackReturns
<1> QED
  BY <1>3, <1>4, <1>5 DEF Next, vars, WorldCreate, WorldDelete, WorldMove, TfMessage,
     MinPeriodElapses, Deliver, RosShutdown, Destroy, Join

(* No thread fetches or adds on what the destructor has destroyed. *)
THEOREM NothingAfterDestructor == Spec => [][destroyed = TRUE => UNCHANGED fetchVars]_vars
  BY LifeInvCorrect, NothingFetched, PTL DEF Spec
=============================================================================
