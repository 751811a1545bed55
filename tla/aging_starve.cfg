SPECIFICATION Spec
CONSTANTS
  NENV = 7
  Policy = "PR"
  ENV_PRIORITY_MAX = 15
  AGING_THRESHOLD = 4
  BasePriorities <- OneLow
  MayBlock = {}
PROPERTIES
  NoStarvation
