SPECIFICATION Spec
CONSTANTS
  Peer = {client, server}
  QpTypes = {"RC", "UD"}
  RxDepth = 1
  Iters = 3
  RqSizes = {1, 2}
  Timely = FALSE
  Faults = TRUE
INVARIANTS TypeOK CountsExact QueuesBounded NoSleepOnCompletion BothOrNone NeverStuck
PROPERTY Returns
CHECK_DEADLOCK FALSE
