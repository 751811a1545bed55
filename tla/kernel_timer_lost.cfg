SPECIFICATION Spec
CONSTANTS
  CPUs = {c1, c2}
  BSP = c1
  Pages = {p1, p2, p3}
  KernPgdir = kern
  NENV = 3
  NBoot = 1
  Policy = "RR"
  ENV_PRIORITY_MAX = 1
  ENV_PRIORITY_DEFAULT = 0
  AGING_THRESHOLD = 1
  SleepArgs = {}
  TickMod = 2
  LastTick = 0
  MaxGen = 9
  LastGen = 2
  Calls = {"fork", "destroy"}
  RawCalls = {}
INVARIANT
  TimerAcknowledged
