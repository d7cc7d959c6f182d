SPECIFICATION Spec
CONSTANTS
  d1 = d1 d2 = d2 w1 = w1 w2 = w2
  Deployments = {d1, d2}
  Workers = {w1}
  MaxVersion = 2
  MaxRestarts = 1
SYMMETRY Symmetry
CHECK_DEADLOCK FALSE
INVARIANTS TypeOK StaleIsQueued
