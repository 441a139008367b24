\* A deleted frame that stays in the scene.
CONSTANTS
  box = box
  tool = tool
  box_link = box_link
  tool_link = tool_link
  box_hull = box_hull
  box_peg = box_peg
  box_cone = box_cone
  tool_hull = tool_hull
  Sync = sync
  Nullopt = Nullopt
  Objects = {box}
  Frames = {box_link}
  Meshes = {box_hull}
  ObjectOf <- OnlyBox
  FrameOf <- Hulls
  RefMeshes = {box_hull}
  PrimMeshes = {}
  Excluded = {}
  Undecodable = {}
  Requesters = {}
  MayStop = FALSE
  Periodic = TRUE
  RateLimited = FALSE
  MinDelta = 1
  MaxPose = 0
  MaxVersion = 1
  MaxChanges = 1
  MaxFailures = 0
  QueueDepth = 2
SPECIFICATION FairSpec
PROPERTIES
  DeletedFramesLeaveScene
CHECK_DEADLOCK FALSE
