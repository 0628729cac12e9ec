SPECIFICATION Spec
CONSTANTS
  Procs = {p1, p2}
  NINODES = 6
  NINODE = 3
  NBLOCKS = 6
  Names = {"a", "b"}
  Calls <- MCCalls
  NFILE = 2
  NOFILE = 2
  MaxCalls = 5
  MaxCrashes = 1
  None = None
SYMMETRY Symmetry
INVARIANTS
  RefsCounted
  TreeSound
  NothingLeaks
  NoInodeDeadlock
CHECK_DEADLOCK FALSE
