SPECIFICATION Spec
CONSTANTS
  NENV = 4
  Policy = "PR"
  ENV_PRIORITY_MAX = 2
  AGING_THRESHOLD = 3
  BasePriorities <- AllPriorities
  MayBlock = {0, 1, 2, 3}
INVARIANTS
  BoundedWait
PROPERTIES
  NoInversion
