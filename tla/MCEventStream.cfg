SPECIFICATION FairSpec
CONSTANTS
  t1 = t1
  Writer = {w1, w2}
  Tab = {t1}
  Streams = 2
  None = None
  Page = 2
  MaxEvents = 3
  MaxFaults = 2
CHECK_DEADLOCK FALSE
INVARIANTS
  NoEventSkipped
  SlotsCounted
PROPERTIES
  LogoutEndsStreams
  T1GetsLast
