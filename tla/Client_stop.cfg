\* A stop while a dial is in progress.
CONSTANTS
  Room = {r1}
  NoRoom = NoRoom
  Caller = {a}
  MaxListener = 1
  OnDenyFn = {FALSE}
SPECIFICATION FairSpec
PROPERTY StopEndsLoop
CHECK_DEADLOCK FALSE
