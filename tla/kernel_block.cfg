SPECIFICATION Spec
CHECK_DEADLOCK FALSE
CONSTANTS
  CPUs = {c1, c2}
  BSP = c1
  Pages = {p1, p2, p3}
  KernPgdir = kern
  NENV = 3
  NBoot = 2
  Policy = "PR"
  ENV_PRIORITY_MAX = 1
  ENV_PRIORITY_DEFAULT = 0
  AGING_THRESHOLD = 2
  SleepArgs = {0, 1, 2}
  TickMod = 8
  LastTick = 3
  MaxGen = 9
  LastGen = 2
  Calls = {"sleep", "ipc", "fork", "destroy", "priority", "thread"}
  RawCalls = {}
SYMMETRY PagePermutations
INVARIANTS
  TypeOK
  BlockedForOneReason
  SleepersNotOverdue
PROPERTIES
  NotWokenEarly
