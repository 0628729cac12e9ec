CONSTANTS
  NPROC = 4
  MaxPid = 4
  KillArgs = {0, 3}
SPECIFICATION ProcLiveSpec
INVARIANTS TableSound ParentAlive WaiterHasWork
PROPERTIES ZombiesReaped
