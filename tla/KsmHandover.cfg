SPECIFICATION FairSpec
CONSTANTS
  NoConfig = NoConfig
  NoObject = NoObject
  NoPass = NoPass
  NoTemplate = NoTemplate
  Namespaces = {"observability"}
  DefaultNamespace = "observability"
  Workloads = {w1}
  ConfigData = {}
  UserActions = {"create", "delete"}
  MaxUserActions = 3
  Faults = {}
  MaxFaults = 0
  ForeignFinalizers = {FALSE}
  ReleaseAtOnce = FALSE
  MaxOldPasses = 1
PROPERTIES
  Converges
  DeletionCompletes
CHECK_DEADLOCK FALSE
