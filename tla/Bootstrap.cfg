SPECIFICATION FairSpec
CONSTANTS
  MaxFaults = 3
INVARIANTS
  TypeOK
  RegisteredMeansInstalled
  ServersAsConfigured
PROPERTIES
  InitCompletes
  RunServes
CHECK_DEADLOCK FALSE
