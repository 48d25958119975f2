SPECIFICATION Spec
CONSTANTS
  NoConfig = NoConfig
  Namespaces = {"observability"}
  DefaultNamespace = "observability"
  Workloads <- SomeWorkloads
  ConfigData <- SomeConfigs
  Tags = {"v2.17.0", "v2.18.0"}
  MaxChanges = 1
INVARIANTS
  ArgsFollowScenario
  VersionOfTaggedImage
PROPERTIES
  RestartsOnConfigChange
  PodsDependOnTemplate
