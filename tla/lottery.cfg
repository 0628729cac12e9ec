CONSTANTS
  Schedulers = {c1}
  NPROC = 3
  Full = 5
  Percents = {2}
  Bids = {1, 3}
  Scale = 2
  Fee = 1
  Cap = 2
  MaxTotal = 6
  MaxBill = 3
  NoProc = NoProc
SPECIFICATION LotterySpec
INVARIANTS DrawsHonest AccountsKept
CHECK_DEADLOCK FALSE
