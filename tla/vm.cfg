SPECIFICATION Spec
CONSTANTS
  NPROC = 3
  PGSIZE = 2
  Word = 2
  USERTOP = 12
  AddrSpace = 16
  Memory = 13
  KvmPages = 2
  Increments <- MCIncrements
  Segments <- MCSegments
  MaxSegments = 2
INVARIANTS
  MemoryKept
  SpaceKept
CHECK_DEADLOCK FALSE
