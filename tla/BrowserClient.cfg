CONSTANTS
  Room = {ra}
  Listener = {l1, l2}
  StopInSleep = FALSE
  LeaveInFirst = FALSE
  MaxObj = 2
  MaxSeq = 1
SPECIFICATION FairSpec
INVARIANTS
  InSync
  ListenersAttached
PROPERTIES
  UnneededCloses
  Enters
CHECK_DEADLOCK FALSE
