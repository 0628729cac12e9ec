CONSTANTS
  CPUs = {0, 1}
  NPROC = 2
  Sleep = 1
  None = None
SPECIFICATION LiveSpec
INVARIANTS LockDiscipline OneCpuPerProcess NoLostWakeup InterruptsRestored
PROPERTIES SleepersWoken
