CONSTANTS
  b1 = b1
  b2 = b2
  p1 = p1
  p2 = p2
  p3 = p3
  Procs = {p1, p2, p3}
  Ends <- TwoReaders
  Byte = {b1, b2}
  PIPESIZE = 2
  W = 4
  Reqs = {1, 3}
  Killable = {p1, p2}
  None = None
  EOF = EOF
SPECIFICATION LiveSpec
INVARIANTS PageOwned SleepersBlocked
PROPERTIES ImplementsFifo TransfersEnd
CHECK_DEADLOCK FALSE
