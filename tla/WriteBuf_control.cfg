\* The two sides of mu and the closing of the connection; no header space.
CONSTANTS
  Frame = {1, 2, 3, 4, 7}
  Total <- MCTotal
  MaxCap = 12
  Prefix = 0
  Suffix = 0
  MaxFramePayload = 8
  InitCap = 3
  Writer = {w1, w2}
  Group <- MCGroup
SPECIFICATION FairSpec
INVARIANT OneWriter
INVARIANT NoLostWakeup
INVARIANT BrokenGroupCloses
PROPERTY BatchKept
PROPERTY EventuallySent
CHECK_DEADLOCK FALSE
