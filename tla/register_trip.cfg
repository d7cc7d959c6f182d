SPECIFICATION Spec
CONSTANTS
  Kinds = {"ipam", "as", "vlan"}
  RegisterNames = {"a", "b"}
  Strategies = {"default"}
  DefaultStrategy = "default"
  CriticalKinds = {"ipam", "as"}
  MaxEntries = 2
CHECK_DEADLOCK FALSE
INVARIANTS AnswerIsChosen CriticalOrError LoopsAreOperators
