SPECIFICATION Spec
CONSTANTS
  NENV = 2
  NPRIORITIES = 2
  SCHED_HISTORY_LEN = 2
  MaxDecisions = 4
  MaxTicks = 3
  MaxGen = 2
INVARIANTS
  TablesAgree
  HistoryIsRecent
  OverchargedOnlyIdleTicks
