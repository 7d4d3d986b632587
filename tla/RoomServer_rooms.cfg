\* Two rooms that are created, emptied, cleaned up and created again while
\* handlers of closing connections still run; two concurrent FireChange
\* callers in one of them.
CONSTANTS
  c1 = c1
  c2 = c2
  ra = ra
  rb = rb
  f1 = f1
  f2 = f2
  NoRoom = NoRoom
  Conn = {c1, c2}
  Room = {ra, rb}
  Firer = {f1, f2}
  RoomEnterMaxPerConn = 2
  MaxEpoch = 2
  MaxSeq = 2
SPECIFICATION MCSpec
INVARIANTS
  TypeOK
  MembershipAgrees
  EmptyTimeMarksEmptyRooms
  NoLostChange
SYMMETRY Symmetric
CHECK_DEADLOCK FALSE
