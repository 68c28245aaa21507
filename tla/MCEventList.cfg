CONSTANTS
  e1 = e1
  Evs = {e1}
  Args = {0, 1}
  MaxEvents = 3
  MaxAhead = 2
  BadDelay = 1
  MaxTime = 4
SPECIFICATION Spec
INVARIANT QueueSorted
PROPERTIES EarlierEventRecalcs ImplementsQueue
