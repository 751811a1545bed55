SPECIFICATION LiveSpec
CONSTANTS
  CPUs = {c1, c2}
  BSP = c1
  Pages = {p1, p2, p3, p4}
  KernPgdir = kern
  NENV = 4
  NBoot = 4
  Policy = "RR"
  ENV_PRIORITY_MAX = 1
  ENV_PRIORITY_DEFAULT = 0
  AGING_THRESHOLD = 1
  SleepArgs = {2}
  TickMod = 8
  LastTick = 2
  MaxGen = 9
  LastGen = 1
  Calls = {"sleep", "yield"}
  RawCalls = {"set_status", "recv_invalid"}
PROPERTIES
  SleepersWakeUp
  ReadyRuns
