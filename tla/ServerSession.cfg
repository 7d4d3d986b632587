\* One connection after all choices of its peer and of the application.
CONSTANTS
  Conn = {c1}
  CmdChLen = 2
  MaxCmd = 3
SPECIFICATION FairSpec
INVARIANTS
  BanReachesAll
  RoomsAreGuarded
  ForgottenUnlessLate
PROPERTIES
  AskedIsClosed
  UndecidedIsClosed
  ClosedEnds
CHECK_DEADLOCK FALSE
