\* Wakeups and shutdown when no period wakes the sync thread.
CONSTANTS
  box = box
  tool = tool
  box_link = box_link
  tool_link = tool_link
  box_hull = box_hull
  box_peg = box_peg
  box_cone = box_cone
  tool_hull = tool_hull
  Sync = sync
  Nullopt = Nullopt
  Objects = {box, tool}
  Frames = {box_link, tool_link}
  Meshes = {box_hull, tool_hull}
  ObjectOf <- BoxAndTool
  FrameOf <- Hulls
  RefMeshes = {box_hull, tool_hull}
  PrimMeshes = {}
  Excluded = {tool}
  Undecodable = {}
  Requesters = {}
  MayStop = TRUE
  Periodic = FALSE
  RateLimited = FALSE
  MinDelta = 1
  MaxPose = 0
  MaxVersion = 1
  MaxChanges = 1
  MaxFailures = 0
  QueueDepth = 1
SPECIFICATION FairSpec
PROPERTIES
  QueuedNamesAreFetched
  DestructorReturns
CHECK_DEADLOCK FALSE
