CONSTANTS
  Thread = {t1, t2}
  MaxEv = 8
\* A header of four cells and a frame of three, as on the server: a header
\* reaches into a stored frame.  The payload limit cuts batches in two.
  Frame = {1, 2, 3, 4, 5, 6}
  Total <- MCTotal
  MaxCap = 17
  Prefix = 4
  Suffix = 1
  MaxFramePayload = 6
  InitCap = 3
  User = {u1, u2, u3}
  Caller = {k1, k2}
  Dur = {0, 2}
  StopPending = FALSE
  MaxNow = 4
  MaxRuns = 3
\* Bytes of three bits; an identity that just fits into a message.
  DigitBits = 2
  KvFields = 2
  MaxUvarintLen = 3
  WsPrefix = 2
  ReadMsgMaxBytes = 200
  RoomIds = {0, 9}
  Shorts = {0, 7}
  Identities = {0, 59}
  Lives = {0, 40, 50, 62, 100}
  ChangeSeqs = {0, 3, 4, 63}
\* An interval above half the read timeout (9) and the defaults (0).
  IdleDur = {0, 9}
  ReadDur = {6}
  UiDur = {0}
  ServerDur = {0}
  DefaultIdle = 2
  DefaultRead = 5
  DefaultUi = 6
  DefaultServer = 5
  MinDur = 1
  FirstConnection = FALSE
  Delay = 1
  MaxFlight = 1
\* Two connections, one room, one caller of FireChange.
  Conn = {c1, c2}
  Room = {ra}
  NoRoom = NoRoom
  Firer = {f1}
  RoomEnterMaxPerConn = 1
  MaxEpoch = 1
  MaxSeq = 2
SPECIFICATION MCSpec
INVARIANTS
  OneAtATime
  NoLostEvent
  CursorsOK
  BatchFits
  EachCalledOnce
  LiveIsWhole
  ReadAsWritten
  StaysOpen
PROPERTIES
  TellsLatest
  IsFifo
  IsOneShot
  DeadIsNoticed
  EveryMemberIsTold
CHECK_DEADLOCK FALSE
