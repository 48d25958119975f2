SPECIFICATION Spec
CONSTANTS
  token = token
  NoConfig = NoConfig
  NoObject = NoObject
  NoPass = NoPass
  NoTemplate = NoTemplate
  Namespaces <- OneNamespace
  DefaultNamespace <- Default
  Workloads = {w1, w2}
  ConfigData <- NoUserData
  UserActions = {"create", "edit"}
  MaxUserActions = 2
  Faults = {}
  MaxFaults = 0
  ForeignFinalizers <- OwnFinalizerOnly
  ReleaseAtOnce = TRUE
PROPERTIES
  ReadyMeansRolledOut
CHECK_DEADLOCK FALSE
