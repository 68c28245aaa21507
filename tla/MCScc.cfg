CONSTANTS
  InBufSize = 2
  QueueSize = 2
  MaxRecv = 1
  Guest = {0}
  Wr1Values <- BothOrNone
  Wr14Values <- OneOrNone
SPECIFICATION FairSpec
INVARIANTS IrqDelivered EventBooked
PROPERTIES StalledByReset RxComes
