\* Four executions: two of them are begun after the first and use its frames again, one is
\* independent of the order.  When all have returned and their goals have ended, the system stops.
CONSTANTS
  e1 = e1
  e2 = e2
  e3 = e3
  e4 = e4
  f1 = f1
  f2 = f2
  f3 = f3
  NoFrame = NoFrame
  NoOne = NoOne
  Executions = {e1, e2, e3, e4}
  Frames = {f1, f2, f3}
  GraspFrame <- MCGraspFrame
  PregraspFrame <- MCPregraspFrame
  Earlier <- MCEarlier
  Limit <- MCLimit
SPECIFICATION FairSpec
INVARIANTS
  TypeOK
  FramesFromSucceededPlans
  OkMeansBothFrames
  OldApproachIsReported
  NoStrayCancel
PROPERTIES
  ExecuteReturns
CHECK_DEADLOCK FALSE
