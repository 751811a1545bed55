SPECIFICATION Spec
CHECK_DEADLOCK FALSE
SYMMETRY PageSymmetry
CONSTANTS
  Procs = {a, b}
  First = a
  Pages = {p1, p2, p3, p4, p5}
  NData = 1
  Values = {0, 1}
  NULL = NULL
  BadWrites = FALSE
INVARIANTS
  NoWritableSharing
  ExceptionStackPrivate
  OneFaultPerWrite
PROPERTIES
  ForkCopies
