SPECIFICATION LockSpec
CHECK_DEADLOCK FALSE
CONSTANTS
  CPUs = {c1, c2, c3}
  BSP = c1
  Pages = {p1, p2}
  KernPgdir = kern
  NENV = 2
  NBoot = 1
  Policy = "RR"
  ENV_PRIORITY_MAX = 0
  ENV_PRIORITY_DEFAULT = 0
  AGING_THRESHOLD = 1
  SleepArgs = {}
  TickMod = 8
  LastTick = 0
  MaxGen = 9
  LastGen = 1
  Calls = {"fork", "destroy", "exit"}
  RawCalls = {}
INVARIANTS
  MutualExclusion
  NeverPanics
  StacksDistinct
  CpunumRight
  MonitorAlone
  NothingPending
PROPERTIES
  ImplementsKernel
  LockComesBack
