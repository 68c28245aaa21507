CONSTANTS
  Byte = 2
  Highs = {0}
  Skews = {3}
  MaxStep = 2
  MaxAgo = 4
  Programs <- GuestPrograms
SPECIFICATION Spec
INVARIANTS ExpiryBooked CountsEveryMicrosecond
