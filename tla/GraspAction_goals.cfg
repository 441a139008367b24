\* A goal for two objects, whose pool is larger than what is asked for, and one for a group the
\* robot model lacks, at the same time: they race for the model, are canceled and fail.
CONSTANTS
  box = box
  tray = tray
  box_whole = box_whole
  box_lid = box_lid
  tray_rim = tray_rim
  g1 = g1
  g2 = g2
  Goals = {g1, g2}
  Names = {box, tray, NoName}
  Ids = {tray, box_whole, tray_rim}
  NoName = NoName
  NoId = NoId
  NoGoal = NoGoal
  Candidates <- PoolAndTray
  MaxNumGrasps <- TwoGrasps
  Matches <- Known
  WholeOf <- Wholes
  Sized = {tray}
  Boxless = {}
  Groupless = {}
  Unfit = {g2}
  Qualities = {1, 2}
  MaxSolutions = 2
SPECIFICATION FairSpec
INVARIANTS
  TypeOK
  CompletedHaveGrasps
  GraspsNameTheirCandidate
  BestOfPool
  GraspFramesAreDistinct
PROPERTIES
  ExactNameWins
  ModelAssignedOnce
  KeepsProtocol
CHECK_DEADLOCK FALSE
