CONSTANTS
  scc = scc
  EV_60HZ = EV_60HZ
  Devs = {scc}
  ResetDevs = {scc}
  Evs = {scc, EV_60HZ}
  Args = {0}
  MaxEvents = 3
  MaxAhead = 8
  BadDelay = 1
  Costs = {2}
  FrameLen = 4
  Delays <- MCDelays
  HaltOnIrq = FALSE
SPECIFICATION FairSpec
INVARIANTS EventsOnTime EngineHeeds
PROPERTIES FramesGoOn IrqTaken
