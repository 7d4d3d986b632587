CONSTANTS
  Room = {r1, r2}
  NoRoom = NoRoom
  Caller = {a, b}
  MaxListener = 1
  OnDenyFn = {TRUE, FALSE}
SPECIFICATION MCSpec
INVARIANT Subscribed
INVARIANT NeedHasLoop
PROPERTY EventuallySubscribed
PROPERTY IdleConnectionCloses
CHECK_DEADLOCK FALSE
