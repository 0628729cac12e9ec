CONSTANTS
  Procs = {p1, p2}
  Bufs = {b1, b2}
  Sectors = {1, 2, 3}
  Data = {v0, v1}
  ReadErrors = FALSE
  None = None
SPECIFICATION Spec
SYMMETRY Symm
INVARIANTS TypeOK OneBufferPerSector BusyIsALock DriverSound Coherence PanicsExplained
PROPERTIES ImplementsSectorStore
CHECK_DEADLOCK FALSE
