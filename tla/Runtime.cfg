SPECIFICATION FairSpec
CONSTANTS
  NoProviderConfig = NoProviderConfig
  NoObject = NoObject
  NoPass = NoPass
  Nothing = Nothing
  ProviderConfigs = {c1, c2}
  Polling = {c1}
  Clusters <- MCPAndWorkload
  ForeignFinalizers <- EitherFinalizer
  ReleaseAtOnce = FALSE
  MaxUserActions = 2
  MaxConfigWrites = 2
  MaxFaults = 1
  Capacity = 1
INVARIANTS
  TypeOK
  SettledConfigIsCurrent
  ServiceIsOwned
  AccessIsOwned
PROPERTIES
  DeletionNeverRenewsAccess
  ImplementsLifecycle
  ConfigReachesService
  DeletionCompletes
CHECK_DEADLOCK FALSE
