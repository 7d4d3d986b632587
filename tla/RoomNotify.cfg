\* Two instances of the room and three connections, with all that may be late.
\* Groups are cut in the first instance.
CONSTANTS
  MaxEpoch = 2
  MaxSeq = 2
  MaxConn = 3
  MaxCutEpoch = 1
SPECIFICATION FairSpec
INVARIANTS
  QuietIsCurrent
  LiveDataIntact
PROPERTIES
  NeverGoesBack
  Converges
CHECK_DEADLOCK FALSE
