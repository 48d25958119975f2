SPECIFICATION FairSpec
CONSTANTS
  token = token
  NoConfig = NoConfig
  NoObject = NoObject
  NoPass = NoPass
  NoTemplate = NoTemplate
  Namespaces <- TwoNamespaces
  DefaultNamespace <- Default
  Workloads = {w1}
  ConfigData <- OneConfig
  UserActions = {"create", "renamespace", "delete", "config", "drift"}
  MaxUserActions = 3
  Faults = {"onboarding", "access", "mcp", "pod", "crash"}
  MaxFaults = 1
  ForeignFinalizers <- OwnFinalizerOnly
  ReleaseAtOnce = FALSE
INVARIANTS
  AccessHeldOnlyUnderFinalizer
  NeverForgotten
PROPERTIES
  Converges
  DeletionCompletes
CHECK_DEADLOCK FALSE
