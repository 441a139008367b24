\* Somebody enables and disables the service while the platform asks for its state; one thing
\* goes wrong.  After main has returned the system may stop.
CONSTANTS
  user = user
  platform = platform
  Callers = {user, platform}
  MayCall <- MCMayCall
  Configs <- MCConfigs
  MaxFaults = 1
SPECIFICATION FairSpec
INVARIANTS
  TypeOK
  HealthyWasObserved
  EnableSynchronized
  NoForgottenRequests
PROPERTIES
  AnswersLinearizable
  EnableRepairs
  MainReturns
CHECK_DEADLOCK FALSE
