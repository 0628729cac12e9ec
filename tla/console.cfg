CONSTANTS
  Readers = {p1, p2}
  INPUT_BUF = 3
  W = 6
  Text = {"x"}
  Reqs = {1, 3}
  None = None
SPECIFICATION LiveSpec
INVARIANTS ReadersAwake
PROPERTIES ImplementsTerminal KilledReaderLeaves
