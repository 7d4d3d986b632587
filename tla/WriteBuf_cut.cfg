\* A group that passes the check of FreeForAlloc and is cut all the same.
CONSTANTS
  Frame = {1, 2, 3, 4, 5, 6}
  Total <- MCTotal
  MaxCap = 14
  Prefix = 0
  Suffix = 0
  MaxFramePayload = 0
  InitCap = 3
  Writer = {w1, w2}
  Group <- MCGroup
SPECIFICATION Spec
INVARIANT GroupsUnbroken
CHECK_DEADLOCK FALSE
