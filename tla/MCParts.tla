------------------------------- MODULE MCParts -------------------------------
(***************************************************************************)
(* Seven parts that share nothing, in one model: part is chosen at the     *)
(* start, that part runs, and the others stay as they begin.               *)
(***************************************************************************)
EXTENDS Parts

CONSTANTS
  DigitBits, KvFields, MaxUvarintLen, WsPrefix, ReadMsgMaxBytes,
  RoomIds, Shorts, Identities, Lives, ChangeSeqs,         \* Wire
  Conn, Room, NoRoom, Firer, RoomEnterMaxPerConn, MaxEpoch, MaxSeq  \* RoomServer

(* Frames 1, 3, 5, ... take three cells, the others four.                  *)
MCTotal == [f \in Frame |-> IF f % 2 = 1 THEN 3 ELSE 4]

VARIABLES
  part,
  wireSent, fanout, peer, frames, data, got, buf, live, closed,
  roomMap, lastEpoch, roomOf, connSet, changeSeq, isEmptyTimeSet, connRoomMap,
  isStopRoomEnter, closer, worker, fan, pushed

wireVars == <<wireSent, fanout, peer, frames, data, got, buf, live, closed>>
roomServerVars == <<roomMap, lastEpoch, roomOf, connSet, changeSeq, isEmptyTimeSet,
                    connRoomMap, isStopRoomEnter, closer, worker, fan, pushed>>
allVars == <<part, listenerVars, vars, closerVars, timerVars, wireVars, aliveVars,
             roomServerVars>>

W == INSTANCE Wire WITH sent <- wireSent, Prefix <- WsPrefix
R == INSTANCE RoomServer

ASSUME PartsAssumption ==
  L!ConstantsOK /\ C!ConstantsOK /\ T!ConstantsOK /\ W!ConstantsOK /\ K!ConstantsOK

MCInit ==
  /\ part \in {"listener", "bipBuf", "closer", "timer", "wire", "keepAlive", "roomServer"}
  /\ L!Init /\ R!Init /\ C!Init /\ T!Init
  /\ Init /\ (part # "bipBuf" => reader = "take")
  /\ K!Init /\ (part # "keepAlive" => serverCfg = CHOOSE c \in K!Cfgs : TRUE)
  /\ IF part = "wire" THEN W!Init
     ELSE /\ wireSent = <<>> /\ fanout = W!NoFanout /\ peer = "same" /\ frames = <<>>
          /\ data = <<>> /\ got = <<>> /\ buf = <<>> /\ live = <<>> /\ closed = FALSE

MCNext ==
  \/ /\ part = "listener" /\ L!Next
     /\ UNCHANGED <<part, vars, closerVars, timerVars, wireVars,
                    aliveVars, roomServerVars>>
  \/ /\ part = "bipBuf" /\ Next
     /\ UNCHANGED <<part, listenerVars, closerVars, timerVars, wireVars,
                    aliveVars, roomServerVars>>
  \/ /\ part = "closer" /\ C!Next
     /\ UNCHANGED <<part, listenerVars, vars, timerVars, wireVars,
                    aliveVars, roomServerVars>>
  \/ /\ part = "timer" /\ T!Next
     /\ UNCHANGED <<part, listenerVars, vars, closerVars, wireVars,
                    aliveVars, roomServerVars>>
  \/ /\ part = "wire" /\ W!Next
     /\ UNCHANGED <<part, listenerVars, vars, closerVars, timerVars,
                    aliveVars, roomServerVars>>
  \/ /\ part = "keepAlive" /\ K!Next
     /\ UNCHANGED <<part, listenerVars, vars, closerVars, timerVars,
                    wireVars, roomServerVars>>
  \/ /\ part = "roomServer" /\ R!Next
     /\ UNCHANGED <<part, listenerVars, vars, closerVars, timerVars,
                    wireVars, aliveVars>>

(* The fairness of each part that has one, asked only of the part that     *)
(* runs.                                                                   *)
Fairness ==
  /\ WF_listenerVars(part = "listener" /\ L!Do)
  /\ \A x \in Thread : WF_listenerVars(part = "listener" /\ L!ThreadStep(x))
  /\ WF_aliveVars(part = "keepAlive" /\ K!Prompt)
  /\ SF_aliveVars(part = "keepAlive" /\ K!WritePing)
  /\ SF_aliveVars(part = "keepAlive" /\ K!Tick)
  /\ \A g \in K!Goroutine : WF_aliveVars(part = "keepAlive" /\ K!SetIdleTimer(g))
  /\ WF_aliveVars(part = "keepAlive" /\ K!IdleTimerFires)
  /\ WF_aliveVars(part = "keepAlive" /\ K!ReadTimerFires)
  /\ WF_aliveVars(part = "keepAlive" /\ K!ServerTimerFires)
  /\ \A c \in Conn :
       /\ WF_roomServerVars(part = "roomServer" /\ R!HandlerStep(c))
       /\ WF_roomServerVars(part = "roomServer" /\ R!CallbackStep(c))
  /\ \A f \in Firer, c \in Conn :
       WF_roomServerVars(part = "roomServer" /\ R!FanOut(f, c))

MCSpec == MCInit /\ [][MCNext]_allVars /\ Fairness

-----------------------------------------------------------------------------
(* The properties of the two parts that are not in Parts.                  *)
LiveIsWhole == W!LiveIsWhole
ReadAsWritten == W!ReadAsWritten
EveryMemberIsTold == R!EveryMemberIsTold

=============================================================================
