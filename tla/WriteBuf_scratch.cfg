\* A header of two cells, written without mu.
CONSTANTS
  Frame = {1, 2, 3, 4, 5, 6}
  Total <- MCTotal
  MaxCap = 14
  Prefix = 2
  Suffix = 0
  MaxFramePayload = 0
  InitCap = 3
  Writer = {w1, w2}
  Group <- MCGroup
SPECIFICATION Spec
INVARIANT BatchIntact
CHECK_DEADLOCK FALSE
