SPECIFICATION Spec
CONSTANTS
  token = token
  NoConfig = NoConfig
  NoObject = NoObject
  NoPass = NoPass
  NoTemplate = NoTemplate
  Namespaces <- OneNamespace
  DefaultNamespace <- Default
  Workloads = {w1}
  ConfigData <- NoUserData
  UserActions = {"create", "delete"}
  MaxUserActions = 2
  Faults = {"access"}
  MaxFaults = 1
  ForeignFinalizers <- OwnFinalizerOnly
  ReleaseAtOnce = TRUE
INVARIANTS
  NoOrphans
CHECK_DEADLOCK FALSE
