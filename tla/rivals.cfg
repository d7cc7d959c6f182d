SPECIFICATION HistorySpec
CONSTANTS
  Kinds = {"ipam", "as"}
  RegisterNames = {"a", "b"}
  Strategies = {"default", "custom"}
  DefaultStrategy = "default"
  Namespaces = {"ns1", "ns2"}
  OrganizationNames <- OneOrganization
  DeploymentNames <- OneDeployment
  UserKeys <- Rivals
  Specs <- RivalSpecs
  Reconciler = "deployment"
  MaxConcurrentReconciles = 1
  MaxGen <- Edits11
  MaxFaults = 0
CHECK_DEADLOCK FALSE
PROPERTIES ImplementsPublish
