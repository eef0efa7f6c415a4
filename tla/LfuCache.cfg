CONSTANTS
  Keys = {k1, k2, k3}
  Values = {v1, v2}
  None = None
  PriorityLimit = 8
  Capacities = {1, 2}
  MaxAccesses = 5
SPECIFICATION Spec
INVARIANTS
  ContainersAgree
  HitsAccountForPriorities
PROPERTY
  ImplementsLfuPolicy
