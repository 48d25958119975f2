SPECIFICATION FairSpec
CONSTANTS
  token = token
  NoConfig = NoConfig
  NoObject = NoObject
  NoPass = NoPass
  NoTemplate = NoTemplate
  Namespaces <- OneNamespace
  DefaultNamespace <- Default
  Workloads = {w1}
  ConfigData <- NoUserData
  UserActions = {"create", "delete"}
  MaxUserActions = 2
  Faults = {}
  MaxFaults = 0
  ForeignFinalizers <- OwnFinalizerOnly
  ReleaseAtOnce = FALSE
PROPERTIES
  DeletionEnds
CHECK_DEADLOCK FALSE
