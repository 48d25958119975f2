SPECIFICATION Spec
CONSTANTS
  token = token
  NoConfig = NoConfig
  NoObject = NoObject
  NoPass = NoPass
  NoTemplate = NoTemplate
  Namespaces <- OneNamespace
  DefaultNamespace <- Default
  Workloads = {w1, w2}
  ConfigData <- OneConfig
  UserActions = {"create", "edit", "delete", "config"}
  MaxUserActions = 4
  Faults = {"onboarding", "mcp", "crash"}
  MaxFaults = 2
  ForeignFinalizers <- EitherFinalizer
  ReleaseAtOnce = FALSE
SYMMETRY AnyWorkload
INVARIANTS
  TypeOK
  NoOrphans
  AccessOutlivesObjects
  RbacCoversWorkload
PROPERTIES
  ImplementsLifecycle
  ReadyDescribesDeployment
CHECK_DEADLOCK FALSE
