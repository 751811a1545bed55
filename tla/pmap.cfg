SPECIFICATION Spec
CONSTANTS
  Envs = {e1, e2}
  Pages = {p1, p2, p3, p4, p5}
  VAs = {1, 2, 3}
  NPTENTRIES = 2
  PermAddrs = {}
  NULL = NULL
SYMMETRY PmapSymmetry
CHECK_DEADLOCK FALSE
INVARIANTS
  PagesAccountedFor
  KernelPagesPrivate
PROPERTIES
  WriteIsNotGranted
  ThreadExitKeepsMemory
