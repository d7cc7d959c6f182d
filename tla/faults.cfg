SPECIFICATION HistorySpec
CONSTANTS
  Kinds = {"ipam"}
  RegisterNames = {"a", "b"}
  Strategies = {"default", "custom"}
  DefaultStrategy = "default"
  Namespaces = {"ns1"}
  OrganizationNames <- OneOrganization
  DeploymentNames <- OneDeployment
  UserKeys <- Together
  Specs <- WithNil
  Reconciler = "deployment2"
  MaxConcurrentReconciles = 1
  MaxGen <- Edits12
  MaxFaults = 1
CHECK_DEADLOCK FALSE
INVARIANTS TypeOK NeverForgotten ReadyIsHeld
PROPERTIES ImplementsPublish RightStaysRight
