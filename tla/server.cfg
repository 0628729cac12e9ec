CONSTANTS
  small = small
  big = big
  cgi = cgi
  missing = missing
  Main = main
  Eof = Eof
  Garbage = Garbage
  None = None
  Answer <- Answers
  Sends <- Clients
  StatSize <- Sizes
  Threads = {t1, t2}
  MaxConns = 5
  Request = {cgi, missing}
  buffer_sz = 2
  MaxSpurious = 1
  HangUp = TRUE
SPECIFICATION LiveSpec
INVARIANTS NothingLost NobodyStuck OwnRequest
PROPERTIES SmallestFirst EveryConnectionServed
CHECK_DEADLOCK FALSE
