SPECIFICATION Spec
CONSTANTS
  Peer = {client, server}
  QpTypes = {"UD"}
  RxDepth = 2
  Iters = 2
  RqSizes = {3}
  Timely = TRUE
  Faults = FALSE
PROPERTY Exchanges
CHECK_DEADLOCK FALSE
