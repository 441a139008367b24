\* One goal for two objects, of which the first yields no grasp.
CONSTANTS
  box = box
  tray = tray
  box_whole = box_whole
  box_lid = box_lid
  tray_rim = tray_rim
  g1 = g1
  g2 = g2
  Goals = {g1}
  Names = {box, tray, NoName}
  Ids = {tray, box_whole, tray_rim}
  NoName = NoName
  NoId = NoId
  NoGoal = NoGoal
  Candidates <- PoolAndTray
  MaxNumGrasps <- TwoGrasps
  Matches <- Known
  WholeOf <- Wholes
  Sized = {tray}
  Boxless = {}
  Groupless = {}
  Unfit = {}
  Qualities = {1}
  MaxSolutions = 1
SPECIFICATION Spec
INVARIANTS
  PoolIsEvaluated
CHECK_DEADLOCK FALSE
