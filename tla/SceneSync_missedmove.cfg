\* A box that moves away and back around its ADD.
CONSTANTS
  box = box
  tool = tool
  box_link = box_link
  tool_link = tool_link
  box_hull = box_hull
  box_peg = box_peg
  box_cone = box_cone
  tool_hull = tool_hull
  Sync = sync
  Nullopt = Nullopt
  Objects = {box}
  Frames = {box_link}
  Meshes = {box_hull}
  ObjectOf <- OnlyBox
  FrameOf <- Hulls
  RefMeshes = {box_hull}
  PrimMeshes = {}
  Excluded = {}
  Undecodable = {}
  Requesters = {}
  MayStop = FALSE
  Periodic = FALSE
  RateLimited = FALSE
  MinDelta = 1
  MaxPose = 1
  MaxVersion = 1
  MaxChanges = 2
  MaxFailures = 0
  QueueDepth = 4
SPECIFICATION FairSpec
PROPERTIES
  PosesConverge
CHECK_DEADLOCK FALSE
