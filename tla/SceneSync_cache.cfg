\* The cache under races: a request thread, a failing World call, three geometries in
\* a frame (a geo_ref, a primitive and one of an unsupported shape).
CONSTANTS
  box = box
  tool = tool
  box_link = box_link
  tool_link = tool_link
  box_hull = box_hull
  box_peg = box_peg
  box_cone = box_cone
  tool_hull = tool_hull
  Sync = sync
  Nullopt = Nullopt
  Objects = {box}
  Frames = {box_link}
  Meshes = {box_hull, box_peg, box_cone}
  ObjectOf <- OnlyBox
  FrameOf <- Hulls
  RefMeshes = {box_hull}
  PrimMeshes = {box_peg}
  Excluded = {}
  Undecodable = {}
  Requesters = {r1}
  MayStop = FALSE
  Periodic = TRUE
  RateLimited = FALSE
  MinDelta = 1
  MaxPose = 0
  MaxVersion = 1
  MaxChanges = 1
  MaxFailures = 1
  QueueDepth = 1
SPECIFICATION Spec
INVARIANTS
  TypeOK
  TrackedMeshesComplete
  InFlightMeshesStored
  QueuedNamesWakeSync
CHECK_DEADLOCK FALSE
