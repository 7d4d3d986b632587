\* An interval above half the read timeout (9) and the defaults (0).
CONSTANTS
  IdleDur = {5}
  ReadDur = {12}
  UiDur = {12}
  ServerDur = {12}
  DefaultIdle = 2
  DefaultRead = 5
  DefaultUi = 6
  DefaultServer = 5
  MinDur = 1
  FirstConnection = TRUE
  Delay = 1
  MaxFlight = 1
SPECIFICATION FairSpec
INVARIANTS
  StaysOpen
CHECK_DEADLOCK FALSE
