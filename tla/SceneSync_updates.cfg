\* A box with a primitive and a glTF MoveIt cannot decode, under throttling and deadband:
\* it moves, or vanishes and returns with another shape, while a call fails.
CONSTANTS
  box = box
  tool = tool
  box_link = box_link
  tool_link = tool_link
  box_hull = box_hull
  box_peg = box_peg
  box_cone = box_cone
  tool_hull = tool_hull
  Sync = sync
  Nullopt = Nullopt
  Objects = {box}
  Frames = {box_link}
  Meshes = {box_peg, box_hull}
  ObjectOf <- OnlyBox
  FrameOf <- Hulls
  RefMeshes = {box_hull}
  PrimMeshes = {box_peg}
  Excluded = {}
  Undecodable = {box_hull}
  Requesters = {}
  MayStop = FALSE
  Periodic = TRUE
  RateLimited = TRUE
  MinDelta = 2
  MaxPose = 2
  MaxVersion = 2
  MaxChanges = 2
  MaxFailures = 1
  QueueDepth = 1
SPECIFICATION FairSpec
INVARIANTS
  DeadbandForgetsRemoved
  DeadbandIsAgainstPublished
PROPERTIES
  UpdatesConverge
  MirrorsWorld
CHECK_DEADLOCK FALSE
