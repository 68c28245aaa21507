CONSTANTS
  PortNo = 0
  Modes = {0, 1, 2}
  AllowIncoming = TRUE
  NumRings = 2
  AnswerRings = 1
  MaxOut = 1
  MaxIn = 2
SPECIFICATION FairSpec
INVARIANT SocketsMatch
PROPERTY RingEnds
