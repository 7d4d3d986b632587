\* A denied client whose last room is left.
CONSTANTS
  Room = {r1}
  NoRoom = NoRoom
  Caller = {a}
  MaxListener = 1
  OnDenyFn = {TRUE}
SPECIFICATION Spec
INVARIANT DenialIsTakenBack
CHECK_DEADLOCK FALSE
