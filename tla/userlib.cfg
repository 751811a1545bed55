SPECIFICATION Spec
CHECK_DEADLOCK FALSE
CONSTANTS
  Main = main
  Threads = {t1, t2}
  Peers = {p}
  NENV = 3
  Values = {1}
  Receivers = {main}
  PgArgs = {TRUE}
  NULL = NULL
INVARIANTS
  StacksPrivate
  NoStackLeft
  RecvReturnsSent
PROPERTIES
  ReceiverServed
