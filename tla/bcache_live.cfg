CONSTANTS
  Procs = {p1, p2}
  Bufs = {b1, b2}
  Sectors = {1, 2, 3}
  Data = {v0}
  ReadErrors = TRUE
  None = None
SPECIFICATION LiveSpec
PROPERTIES CallsReturn
CHECK_DEADLOCK FALSE
