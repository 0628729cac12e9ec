CONSTANTS
  NDIRECT = 3
  NINDIRECT = 5
  BSIZE = 2
  Val = {1}
  Junk = {2}
  Lens = {2}
  MaxSize = 2
  MaxMishaps = 1
  Overrun = {FALSE}
SPECIFICATION Spec
INVARIANTS ReadCorrect
