CONSTANTS
  NDIRECT = 3
  NINDIRECT = 5
  BSIZE = 2
  Val = {0, 1}
  Junk = {2}
  Lens = {1, 2, 3}
  MaxSize = 4
  MaxMishaps = 1
  Overrun = {TRUE, FALSE}
SPECIFICATION Spec
INVARIANTS MajorityKept MishapSurvived SizeCovered
