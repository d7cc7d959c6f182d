SPECIFICATION Spec
CONSTANTS
  Deployments = {"d1", "d2"}
  Workers = {"w1", "w2"}
  MaxVersion = 1
  MaxRestarts = 0
CHECK_DEADLOCK FALSE
INVARIANTS MapIsGuarded
