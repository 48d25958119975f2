SPECIFICATION Spec
CONSTANTS
  token = token
  NoConfig = NoConfig
  NoObject = NoObject
  NoPass = NoPass
  NoTemplate = NoTemplate
  Namespaces <- TwoNamespaces
  DefaultNamespace <- Default
  Workloads = {w1}
  ConfigData <- NoUserData
  UserActions = {"create", "renamespace", "delete"}
  MaxUserActions = 3
  Faults = {}
  MaxFaults = 0
  ForeignFinalizers <- OwnFinalizerOnly
  ReleaseAtOnce = TRUE
INVARIANTS
  NoOrphans
CHECK_DEADLOCK FALSE
