---------------------------- MODULE ClientProofs ----------------------------
(***************************************************************************)
(* Proofs about Client for any rooms, callers and number of listeners: a   *)
(* wanted room has a loop that works for it, and what the loop wrote on a  *)
(* connection adds up to the wanted rooms.                                 *)
(***************************************************************************)
EXTENDS Client, FiniteSetTheorems, TLAPS

-----------------------------------------------------------------------------
(* The loop: what connSingleUnd remembers of calls it did not start for.   *)
Calling == \E a \in Caller : caller[a].op \in {"stopTimer", "do", "restart"}
Wanted == HasNeed /\ ~isStopListen /\ ~authDenyFatal

(* A loop that decided to end, before a need it did not see, is called     *)
(* again: by somebody on his way, or by hasMoreCall.                       *)
EndIsCalledBack ==
  Wanted /\ loop \in {"off", "end"} => Calling \/ (loop = "end" /\ hasMoreCall)

MoreCallHasLoop == hasMoreCall => loop # "off"

-----------------------------------------------------------------------------
(* The rooms: where every room stands between roomMap and the server.      *)
OneMessageEach == \A m, n \in todo : m.room = n.room => m = n
WritesInWrite == todo # {} => loop = "write"
WaitsForNothing == loop = "wait" => roomIdReqSet = {}

NothingSentYet ==
  conn = "open" /\ loop \in {"auth", "denied", "snapshot"} => sent = {}

(* A room whose membership the server does not have as it is now, and will *)
(* not have from what is about to be written, is requested.                *)
Right(m) == m.op = "enter" <=> m.room \in roomMap

Accounted ==
  conn = "open" /\ loop \in {"write", "serve", "wait"} =>
    \A r \in Room \ roomIdReqSet :
      \/ \E m \in todo : m.room = r /\ Right(m)
      \/ (\A m \in todo : m.room # r) /\ (r \in sent <=> r \in roomMap)

RoomsInv ==
  /\ OneMessageEach /\ WritesInWrite /\ WaitsForNothing /\ NothingSentYet
  /\ Accounted

ClientInv == TypeOK /\ EndIsCalledBack /\ MoreCallHasLoop /\ RoomsInv

-----------------------------------------------------------------------------
USE DEF roomVars, stopVars, denyVars, connVars

(* What becomes of a call.                                                 *)
LEMMA CallEffect ==
  ASSUME TypeOK, NEW a \in Caller
  PROVE  /\ Return(a) => caller' \in [Caller -> Call]
         /\ \A op \in {"closeConn", "cancelSleep", "restart", "do"} :
              Proceed(a, op) => caller' \in [Caller -> Call]
         /\ \A r \in Room : [op |-> "stopTimer", room |-> r] \in Call
<1>1. caller[a] \in Call /\ caller \in [Caller -> Call]
  BY DEF TypeOK
<1>2. Idle \in Call
  BY DEF Idle, Call
<1>3. ASSUME NEW op \in {"closeConn", "cancelSleep", "restart", "do"}
      PROVE  [caller[a] EXCEPT !.op = op] \in Call
  BY <1>1 DEF Call
<1>4. \A r \in Room : [op |-> "stopTimer", room |-> r] \in Call
  BY DEF Call
<1> QED
  BY <1>1, <1>2, <1>3, <1>4 DEF Return, Proceed

(* Only the last listener's leaving takes a room from roomMap.             *)
LEMMA LeavableHasListener ==
  ASSUME TypeOK, NEW r \in Room, Leavable(r)
  PROVE  listenerSet[r] \in 1 .. MaxListener
<1> DEFINE S == {a \in Caller : caller[a].room = r}
<1>1. IsFiniteSet(S)
  BY ClientAssumption, FS_Subset
<1>2. Cardinality(S) \in Nat
  BY <1>1, FS_CardinalityType
<1>3. listenerSet[r] \in 0 .. MaxListener /\ listenerSet[r] > Cardinality(S)
  BY DEF TypeOK, Leavable
<1> QED
  BY <1>2, <1>3, ClientAssumption

(* A waiting loop is woken, and no other is disturbed.                     *)
LEMMA NotifyAllEffect ==
  /\ loop \in LoopPc => NotifyAll(loop) \in LoopPc
  /\ NotifyAll(loop) # "wait"
  /\ NotifyAll(loop) = loop \/ (loop = "wait" /\ NotifyAll(loop) = "serve")
  BY DEF NotifyAll, LoopPc

LEMMA InitType == Init => TypeOK
<1> SUFFICES ASSUME Init PROVE TypeOK
  OBVIOUS
<1>1. listenerSet \in [Room -> 0 .. MaxListener]
  BY ClientAssumption DEF Init
<1>2. caller \in [Caller -> Call]
  BY DEF Init, Idle, Call
<1>3. hasOnDenyFn \in BOOLEAN
  BY ClientAssumption DEF Init
<1>4. loop \in LoopPc /\ roomIdReqSet = {} /\ idleTimer = {} /\ todo = {} /\ sent = {}
  BY DEF Init, LoopPc
<1> QED
  BY <1>1, <1>2, <1>3, <1>4 DEF Init, TypeOK

LEMMA TypePreserved == TypeOK /\ [Next]_vars => TypeOK'
<1> SUFFICES ASSUME TypeOK, [Next]_vars PROVE TypeOK'
  OBVIOUS
<1>1. ASSUME NEW a \in Caller, NEW r \in Room, RoomEnter(a, r) PROVE TypeOK'
  <2>1. listenerSet' \in [Room -> 0 .. MaxListener]
    BY <1>1, ClientAssumption DEF RoomEnter, TypeOK
  <2>2. caller' \in [Caller -> Call]
    BY <1>1, CallEffect DEF RoomEnter, TypeOK
  <2>3. roomIdReqSet' \subseteq Room /\ loop' \in LoopPc
    BY <1>1, NotifyAllEffect DEF RoomEnter, Request, TypeOK
  <2> QED
    BY <1>1, <2>1, <2>2, <2>3 DEF RoomEnter, TypeOK
<1>2. ASSUME NEW a \in Caller, NEW r \in Room, Leave(a, r) PROVE TypeOK'
  <2>1. listenerSet' \in [Room -> 0 .. MaxListener]
    BY <1>2, LeavableHasListener, ClientAssumption DEF Leave, TypeOK
  <2>2. idleTimer' \subseteq {"set", "close"}
    BY <1>2 DEF Leave, AfterLeave, TypeOK
  <2>3. roomIdReqSet' \subseteq Room /\ loop' \in LoopPc
    BY <1>2, NotifyAllEffect DEF Leave, Request, TypeOK
  <2> QED
    BY <1>2, <2>1, <2>2, <2>3 DEF Leave, TypeOK
<1>3. ASSUME NEW a \in Caller, NEW b \in BOOLEAN, SetIsStopListen(a, b) PROVE TypeOK'
  <2>1. caller' \in [Caller -> Call]
    BY <1>3, CallEffect DEF SetIsStopListen, TypeOK
  <2> QED
    BY <1>3, <2>1 DEF SetIsStopListen, TypeOK
<1>4. ASSUME NEW a \in Caller, StopTimer(a) PROVE TypeOK'
  <2>1. caller' \in [Caller -> Call]
    BY <1>4, CallEffect DEF StopTimer, TypeOK
  <2> QED
    BY <1>4, <2>1 DEF StopTimer, TypeOK
<1>5. ASSUME NEW a \in Caller, Do(a) PROVE TypeOK'
  <2>1. caller' \in [Caller -> Call]
    BY <1>5, CallEffect DEF Do, TypeOK
  <2> QED
    BY <1>5, <2>1 DEF Do, TypeOK, QueueDo, LoopPc
<1>6. ASSUME NEW a \in Caller, StopCloses(a) PROVE TypeOK'
  <2>1. caller' \in [Caller -> Call]
    BY <1>6, CallEffect DEF StopCloses, TypeOK
  <2> QED
    BY <1>6, <2>1 DEF StopCloses, TypeOK
<1>7. ASSUME NEW a \in Caller, StopCancelsSleep(a) PROVE TypeOK'
  <2>1. caller' \in [Caller -> Call]
    BY <1>7, CallEffect DEF StopCancelsSleep, TypeOK
  <2> QED
    BY <1>7, <2>1 DEF StopCancelsSleep, TypeOK
<1>8. CASE LoopInit
  BY <1>8 DEF LoopInit, Rest, GoTo, TypeOK, LoopPc
<1>9. CASE LoopStop1
  BY <1>9 DEF LoopStop1, Rest, GoTo, TypeOK, LoopPc
<1>10. CASE LoopNeed1
  BY <1>10 DEF LoopNeed1, Rest, GoTo, TypeOK, LoopPc
<1>11. CASE LoopPause
  BY <1>11 DEF LoopPause, Rest, GoTo, TypeOK, LoopPc
<1>12. CASE LoopWake
  BY <1>12 DEF LoopWake, Rest, GoTo, TypeOK, LoopPc
<1>13. CASE LoopNeed2
  BY <1>13 DEF LoopNeed2, Rest, GoTo, TypeOK, LoopPc
<1>14. CASE LoopStop2
  BY <1>14 DEF LoopStop2, Rest, GoTo, TypeOK, LoopPc
<1>15. CASE DialFails
  BY <1>15 DEF DialFails, Rest, GoTo, TypeOK, LoopPc
<1>16. CASE DialSucceeds
  BY <1>16 DEF DialSucceeds, Rest, GoTo, TypeOK, LoopPc
<1>17. CASE LoopAuth
  BY <1>17 DEF LoopAuth, Rest, GoTo, TypeOK, LoopPc
<1>18. CASE LoopDenied
  BY <1>18 DEF LoopDenied, Rest, GoTo, TypeOK, LoopPc
<1>19. CASE LoopSnapshot
  <2>1. todo' \subseteq Msg
    BY <1>19 DEF LoopSnapshot, roomMap, Msg
  <2> QED
    BY <1>19, <2>1 DEF LoopSnapshot, GoTo, Rest, TypeOK, LoopPc
<1>20. CASE LoopWrite
  <2>1. todo' \subseteq Msg /\ sent' \subseteq Room
    BY <1>20 DEF LoopWrite, TypeOK, Msg
  <2> QED
    BY <1>20, <2>1 DEF LoopWrite, Rest, TypeOK
<1>21. CASE LoopWritten
  BY <1>21 DEF LoopWritten, AfterWrite, Rest, GoTo, TypeOK, LoopPc
<1>22. CASE LoopServe
  <2>1. todo' \subseteq Msg
    BY <1>22 DEF LoopServe, TypeOK, Msg
  <2>2. roomIdReqSet' \subseteq Room /\ loop' \in LoopPc
    BY <1>22 DEF LoopServe, TypeOK, GoTo, LoopPc
  <2> QED
    BY <1>22, <2>1, <2>2 DEF LoopServe, Rest, TypeOK
<1>23. CASE LoopEnd
  <2>1. loop' \in LoopPc /\ hasMoreCall' \in BOOLEAN
    BY <1>23 DEF LoopEnd, GoTo, LoopPc
  <2> QED
    BY <1>23, <2>1 DEF LoopEnd, Rest, TypeOK
<1>24. CASE TimerFires
  <2>1. idleTimer' \subseteq {"set", "close"}
    BY <1>24 DEF TimerFires, TypeOK
  <2> QED
    BY <1>24, <2>1 DEF TimerFires, TypeOK
<1>25. CASE TimerCloses
  BY <1>25 DEF TimerCloses, NotifyAll, TypeOK, LoopPc
<1>26. CASE ServerAllows
  <2>1. connDenyLocal' \in BOOLEAN
    BY <1>26 DEF ServerAllows
  <2> QED
    BY <1>26, <2>1 DEF ServerAllows, TypeOK
<1>27. CASE ServerDenies
  <2>1. connDenyLocal' \in BOOLEAN /\ authDenyFatal' \in BOOLEAN
    BY <1>27 DEF ServerDenies, TypeOK
  <2>2. auth' \in {"denied", "refused"}
    BY <1>27 DEF ServerDenies
  <2> QED
    BY <1>27, <2>1, <2>2 DEF ServerDenies, TypeOK
<1>28. CASE DenialCloses
  BY <1>28 DEF DenialCloses, TypeOK, LoopPc
<1>29. CASE ConnBreaks
  BY <1>29 DEF ConnBreaks, TypeOK, LoopPc
<1>30. CASE CloseCallback
  BY <1>30 DEF CloseCallback, AfterClose, NotifyAll, TypeOK, LoopPc
<1>31. CASE CalmDown
  BY <1>31 DEF CalmDown, TypeOK, LoopPc
<1>32. CASE UNCHANGED vars
  BY <1>32 DEF TypeOK, vars
<1> QED
  BY <1>1, <1>2, <1>3, <1>4, <1>5, <1>6, <1>7, <1>8, <1>9, <1>10, <1>11, <1>12, <1>13,
       <1>14, <1>15, <1>16, <1>17, <1>18, <1>19, <1>20, <1>21, <1>22, <1>23, <1>24,
       <1>25, <1>26, <1>27, <1>28, <1>29, <1>30, <1>31, <1>32
     DEF Next, CallerNext, CallerStep, LoopNext
-----------------------------------------------------------------------------
LEMMA Unchanged ==
  /\ UNCHANGED listenerSet => roomMap' = roomMap /\ (HasNeed' <=> HasNeed)
  /\ UNCHANGED caller => (Calling' <=> Calling)
  BY DEF roomMap, HasNeed, Calling

(* A call that only goes on, or begins, leaves the others on their way.    *)
LEMMA CallingKept ==
  ASSUME TypeOK, NEW a \in Caller, NEW op \in {"closeConn", "cancelSleep", "restart", "do"}
  PROVE  /\ Proceed(a, op) /\ op \in {"restart", "do"} => Calling'
         /\ (Proceed(a, op) \/ Return(a))
              /\ caller[a].op \notin {"stopTimer", "do", "restart"} /\ Calling => Calling'
<1>1. caller \in [Caller -> Call]
  BY DEF TypeOK
<1>2. ASSUME Proceed(a, op), op \in {"restart", "do"} PROVE Calling'
  <2>1. caller'[a].op \in {"restart", "do"}
    BY <1>1, <1>2 DEF Proceed, Call
  <2> QED
    BY <2>1 DEF Calling
<1>3. ASSUME Proceed(a, op) \/ Return(a), Calling,
             caller[a].op \notin {"stopTimer", "do", "restart"}
      PROVE  Calling'
  <2>1. PICK b \in Caller : caller[b].op \in {"stopTimer", "do", "restart"}
    BY <1>3 DEF Calling
  <2>2. caller'[b] = caller[b]
    BY <1>1, <1>3, <2>1 DEF Proceed, Return
  <2> QED
    BY <2>1, <2>2 DEF Calling
<1> QED
  BY <1>2, <1>3

LEMMA CalledBackPreserved ==
  TypeOK /\ EndIsCalledBack /\ MoreCallHasLoop /\ [Next]_vars
    => EndIsCalledBack' /\ MoreCallHasLoop'
<1> SUFFICES ASSUME TypeOK, EndIsCalledBack, MoreCallHasLoop, [Next]_vars
             PROVE  EndIsCalledBack' /\ MoreCallHasLoop'
  OBVIOUS
<1>1. ASSUME NEW a \in Caller, NEW r \in Room, RoomEnter(a, r) PROVE EndIsCalledBack'
     /\ MoreCallHasLoop'
  <2>1. caller'[a].op = "stopTimer"
    BY <1>1 DEF RoomEnter, TypeOK
  <2>2. Calling'
    BY <2>1 DEF Calling
  <2>3. loop' = "off" => loop = "off"
    BY <1>1, NotifyAllEffect DEF RoomEnter, Request
  <2> QED
    BY <1>1, <2>2, <2>3 DEF RoomEnter, EndIsCalledBack, MoreCallHasLoop
<1>2. ASSUME NEW a \in Caller, NEW r \in Room, Leave(a, r) PROVE EndIsCalledBack' /\
     MoreCallHasLoop'
  <2>1. HasNeed' => HasNeed
    BY <1>2 DEF Leave, HasNeed, roomMap, TypeOK
  <2>2. loop' \in {"off", "end"} => loop' = loop
    BY <1>2, NotifyAllEffect DEF Leave, Request
  <2>3. loop' = "off" <=> loop = "off"
    BY <1>2, NotifyAllEffect DEF Leave, Request
  <2> QED
    BY <1>2, <2>1, <2>2, <2>3, Unchanged
    DEF Leave, EndIsCalledBack, MoreCallHasLoop, Wanted
<1>3. ASSUME NEW a \in Caller, NEW b \in BOOLEAN, SetIsStopListen(a, b) PROVE
     EndIsCalledBack' /\ MoreCallHasLoop'
  <2>1. CASE b
    BY <1>3, <2>1 DEF SetIsStopListen, EndIsCalledBack, MoreCallHasLoop, Wanted
  <2>2. CASE ~b
    <3>1. Calling'
      BY <1>3, <2>2, CallingKept DEF SetIsStopListen
    <3> QED
      BY <1>3, <3>1 DEF SetIsStopListen, EndIsCalledBack, MoreCallHasLoop
  <2> QED
    BY <2>1, <2>2
<1>4. ASSUME NEW a \in Caller, StopTimer(a) PROVE EndIsCalledBack' /\ MoreCallHasLoop'
  <2>1. Calling'
    BY <1>4, CallingKept DEF StopTimer
  <2> QED
    BY <1>4, <2>1 DEF StopTimer, EndIsCalledBack, MoreCallHasLoop
<1>5. ASSUME NEW a \in Caller, Do(a) PROVE EndIsCalledBack' /\ MoreCallHasLoop'
  BY <1>5, Unchanged, NotifyAllEffect DEF Do, Return, QueueDo, EndIsCalledBack,
       MoreCallHasLoop, Wanted
<1>6. ASSUME NEW a \in Caller, StopCloses(a) PROVE EndIsCalledBack' /\ MoreCallHasLoop'
  <2>1. Calling => Calling'
    BY <1>6, CallingKept DEF StopCloses
  <2> QED
    BY <1>6, <2>1, Unchanged DEF StopCloses, EndIsCalledBack, MoreCallHasLoop, Wanted
<1>7. ASSUME NEW a \in Caller, StopCancelsSleep(a) PROVE EndIsCalledBack' /\
     MoreCallHasLoop'
  <2>1. Calling => Calling'
    BY <1>7, CallingKept DEF StopCancelsSleep
  <2> QED
    BY <1>7, <2>1, Unchanged DEF StopCancelsSleep, EndIsCalledBack, MoreCallHasLoop,
         Wanted
<1>8. CASE LoopInit
  BY <1>8, Unchanged, NotifyAllEffect DEF LoopInit, Rest, GoTo, EndIsCalledBack,
       MoreCallHasLoop, Wanted
<1>9. CASE LoopStop1
  BY <1>9, Unchanged, NotifyAllEffect DEF LoopStop1, Rest, GoTo, EndIsCalledBack,
       MoreCallHasLoop, Wanted
<1>10. CASE LoopNeed1
  BY <1>10, Unchanged, NotifyAllEffect DEF LoopNeed1, Rest, GoTo, EndIsCalledBack,
       MoreCallHasLoop, Wanted
<1>11. CASE LoopPause
  BY <1>11, Unchanged, NotifyAllEffect DEF LoopPause, Rest, GoTo, EndIsCalledBack,
       MoreCallHasLoop, Wanted
<1>12. CASE LoopWake
  BY <1>12, Unchanged, NotifyAllEffect DEF LoopWake, Rest, GoTo, EndIsCalledBack,
       MoreCallHasLoop, Wanted
<1>13. CASE LoopNeed2
  BY <1>13, Unchanged, NotifyAllEffect DEF LoopNeed2, Rest, GoTo, EndIsCalledBack,
       MoreCallHasLoop, Wanted
<1>14. CASE LoopStop2
  BY <1>14, Unchanged, NotifyAllEffect DEF LoopStop2, Rest, GoTo, EndIsCalledBack,
       MoreCallHasLoop, Wanted
<1>15. CASE DialFails
  BY <1>15, Unchanged, NotifyAllEffect DEF DialFails, Rest, GoTo, EndIsCalledBack,
       MoreCallHasLoop, Wanted
<1>16. CASE DialSucceeds
  BY <1>16, Unchanged, NotifyAllEffect DEF DialSucceeds, Rest, GoTo, EndIsCalledBack,
       MoreCallHasLoop, Wanted
<1>17. CASE LoopAuth
  BY <1>17, Unchanged, NotifyAllEffect DEF LoopAuth, Rest, GoTo, EndIsCalledBack,
       MoreCallHasLoop, Wanted
<1>18. CASE LoopDenied
  BY <1>18, Unchanged, NotifyAllEffect DEF LoopDenied, Rest, GoTo, EndIsCalledBack,
       MoreCallHasLoop, Wanted
<1>19. CASE LoopSnapshot
  BY <1>19, Unchanged, NotifyAllEffect DEF LoopSnapshot, Rest, GoTo, EndIsCalledBack,
       MoreCallHasLoop, Wanted
<1>20. CASE LoopWrite
  BY <1>20, Unchanged, NotifyAllEffect DEF LoopWrite, Rest, EndIsCalledBack,
       MoreCallHasLoop, Wanted
<1>21. CASE LoopWritten
  BY <1>21, Unchanged, NotifyAllEffect DEF LoopWritten, AfterWrite, Rest, GoTo,
       EndIsCalledBack, MoreCallHasLoop,
       Wanted
<1>22. CASE LoopServe
  BY <1>22, Unchanged, NotifyAllEffect DEF LoopServe, Rest, GoTo, EndIsCalledBack,
       MoreCallHasLoop, Wanted
<1>23. CASE LoopEnd
  BY <1>23, Unchanged, NotifyAllEffect DEF LoopEnd, Rest, GoTo, EndIsCalledBack,
       MoreCallHasLoop, Wanted
<1>24. CASE TimerFires
  BY <1>24, Unchanged, NotifyAllEffect DEF TimerFires, EndIsCalledBack,
       MoreCallHasLoop, Wanted
<1>25. CASE TimerCloses
  BY <1>25, Unchanged, NotifyAllEffect DEF TimerCloses, NotifyAll, EndIsCalledBack,
       MoreCallHasLoop, Wanted
<1>26. CASE ServerAllows
  BY <1>26, Unchanged, NotifyAllEffect DEF ServerAllows, EndIsCalledBack,
       MoreCallHasLoop, Wanted
<1>27. CASE ServerDenies
  BY <1>27, Unchanged, NotifyAllEffect DEF ServerDenies, EndIsCalledBack,
       MoreCallHasLoop, Wanted
<1>28. CASE DenialCloses
  BY <1>28, Unchanged, NotifyAllEffect DEF DenialCloses, EndIsCalledBack,
       MoreCallHasLoop, Wanted
<1>29. CASE ConnBreaks
  BY <1>29, Unchanged, NotifyAllEffect DEF ConnBreaks, EndIsCalledBack,
       MoreCallHasLoop, Wanted
<1>30. CASE CloseCallback
  BY <1>30, Unchanged, NotifyAllEffect DEF CloseCallback, AfterClose, NotifyAll,
       EndIsCalledBack, MoreCallHasLoop,
       Wanted
<1>31. CASE CalmDown
  BY <1>31, Unchanged, NotifyAllEffect DEF CalmDown, EndIsCalledBack, MoreCallHasLoop,
       Wanted
<1>32. CASE UNCHANGED vars
  BY <1>32, Unchanged DEF vars, EndIsCalledBack, MoreCallHasLoop, Wanted
<1> QED
  BY <1>1, <1>2, <1>3, <1>4, <1>5, <1>6, <1>7, <1>8, <1>9, <1>10, <1>11, <1>12, <1>13,
       <1>14, <1>15, <1>16, <1>17, <1>18, <1>19, <1>20, <1>21, <1>22, <1>23, <1>24,
       <1>25, <1>26, <1>27, <1>28, <1>29, <1>30, <1>31, <1>32
     DEF Next, CallerNext, CallerStep, LoopNext
-----------------------------------------------------------------------------
(* A step that only wakes the loop, lets it give up this connection, or    *)
(* closes the connection.                                                  *)
LEMMA RoomsKept ==
  ASSUME RoomsInv, UNCHANGED <<roomVars, todo, sent>>, conn' = "open" => conn = "open",
         \/ loop' = loop
         \/ loop = "wait" /\ loop' = "serve"
         \/ loop # "write" /\ loop' \notin {"auth", "denied", "snapshot", "write", "serve", "wait"}
  PROVE  RoomsInv'
<1>1. OneMessageEach' /\ WritesInWrite' /\ WaitsForNothing' /\ NothingSentYet'
  BY DEF RoomsInv, OneMessageEach, WritesInWrite, WaitsForNothing, NothingSentYet
<1>2. roomMap' = roomMap
  BY Unchanged
<1>3. Accounted'
  BY <1>2 DEF RoomsInv, Accounted, Right
<1> QED
  BY <1>1, <1>3 DEF RoomsInv

(* The listeners of a room change, which is requested when that adds it to *)
(* roomMap or takes it from there.                                         *)
LEMMA MembershipChanges ==
  ASSUME RoomsInv, NEW r \in Room, UNCHANGED <<todo, sent, conn>>,
         \/ roomMap' = roomMap /\ UNCHANGED <<roomIdReqSet, loop>>
         \/ Request(r) /\ \A q \in Room \ {r} : q \in roomMap' <=> q \in roomMap
  PROVE  RoomsInv'
<1>1. CASE roomMap' = roomMap /\ UNCHANGED <<roomIdReqSet, loop>>
  <2>1. OneMessageEach' /\ WritesInWrite' /\ WaitsForNothing' /\ NothingSentYet'
    BY <1>1 DEF RoomsInv, OneMessageEach, WritesInWrite, WaitsForNothing, NothingSentYet
  <2>2. Accounted'
    BY <1>1 DEF RoomsInv, Accounted, Right
  <2> QED
    BY <2>1, <2>2 DEF RoomsInv
<1>2. CASE Request(r) /\ \A q \in Room \ {r} : q \in roomMap' <=> q \in roomMap
  <2>1. loop' # "wait" /\ (loop' = loop \/ (loop = "wait" /\ loop' = "serve"))
    BY <1>2, NotifyAllEffect DEF Request
  <2>2. OneMessageEach' /\ WritesInWrite' /\ WaitsForNothing' /\ NothingSentYet'
    BY <2>1 DEF RoomsInv, OneMessageEach, WritesInWrite, WaitsForNothing, NothingSentYet
  <2>3. ASSUME NEW q \in Room \ roomIdReqSet'
        PROVE  q \in Room \ roomIdReqSet /\ (q \in roomMap' <=> q \in roomMap)
    BY <1>2 DEF Request
  <2>4. Accounted'
    BY <2>1, <2>3 DEF RoomsInv, Accounted, Right
  <2> QED
    BY <2>2, <2>4 DEF RoomsInv
<1> QED
  BY <1>1, <1>2

LEMMA WritePreserves ==
  ASSUME TypeOK, RoomsInv, LoopWrite
  PROVE  RoomsInv'
<1>1. PICK msg \in todo :
        /\ todo' = todo \ {msg}
        /\ sent' = IF conn # "open" THEN sent
                   ELSE IF msg.op = "enter" THEN sent \cup {msg.room}
                   ELSE sent \ {msg.room}
  BY DEF LoopWrite
<1>2. UNCHANGED <<roomVars, loop, conn>> /\ loop = "write" /\ roomMap' = roomMap
  BY Unchanged DEF LoopWrite
<1>3. OneMessageEach' /\ WritesInWrite' /\ WaitsForNothing' /\ NothingSentYet'
  BY <1>1, <1>2 DEF RoomsInv, OneMessageEach, WritesInWrite, WaitsForNothing, NothingSentYet
<1>4. ASSUME conn = "open", NEW r \in Room \ roomIdReqSet
      PROVE  \/ \E m \in todo' : m.room = r /\ Right(m)
             \/ (\A m \in todo' : m.room # r) /\ (r \in sent' <=> r \in roomMap)
  <2>1. CASE msg.room = r
    <3>1. \A m \in todo' : m.room # r
      BY <1>1, <2>1 DEF RoomsInv, OneMessageEach
    <3>2. Right(msg)
      BY <1>2, <1>4, <1>1, <2>1 DEF RoomsInv, Accounted, OneMessageEach
    <3> QED
      BY <1>1, <1>4, <2>1, <3>1, <3>2 DEF Right
  <2>2. CASE msg.room # r
    <3>1. r \in sent' <=> r \in sent
      BY <1>1, <2>2
    <3>2. \A m \in todo : m.room = r => m \in todo'
      BY <1>1, <2>2
    <3> QED
      BY <1>1, <1>2, <1>4, <3>1, <3>2 DEF RoomsInv, Accounted
  <2> QED
    BY <2>1, <2>2
<1>5. Accounted'
  BY <1>2, <1>4 DEF Accounted, Right
<1> QED
  BY <1>3, <1>5 DEF RoomsInv

(* What a loop takes up to write, either for all rooms or for the ones     *)
(* that were requested, makes up for what the server does not have yet.    *)
LEMMA TakeUpPreserves ==
  ASSUME TypeOK, RoomsInv, LoopSnapshot \/ (LoopServe /\ loop' = "write")
  PROVE  RoomsInv'
<1> DEFINE Taken == IF loop = "snapshot" THEN roomMap ELSE roomIdReqSet
<1>1. /\ loop' = "write" /\ roomIdReqSet' = {} /\ UNCHANGED <<listenerSet, conn, sent>>
      /\ todo' = {[op |-> IF r \in roomMap THEN "enter" ELSE "leave", room |-> r] : r \in Taken}
  <2>1. CASE LoopSnapshot
    <3>1. todo' = {[op |-> IF r \in roomMap THEN "enter" ELSE "leave", room |-> r] :
                     r \in roomMap}
      BY <2>1 DEF LoopSnapshot
    <3> QED
      BY <2>1, <3>1 DEF LoopSnapshot, GoTo
  <2>2. CASE LoopServe /\ loop' = "write"
    BY <2>2 DEF LoopServe, GoTo
  <2> QED
    BY <2>1, <2>2
<1>2. roomMap' = roomMap /\ todo = {} /\ loop \in {"snapshot", "serve"}
  BY Unchanged, <1>1 DEF LoopSnapshot, LoopServe, RoomsInv, WritesInWrite
<1>3. \A m \in todo' : m.room \in Taken /\ Right(m)
  BY <1>1 DEF Right
<1>4. \A r \in Taken : \E m \in todo' : m.room = r
  <2> TAKE r \in Taken
  <2> DEFINE m == [op |-> IF r \in roomMap THEN "enter" ELSE "leave", room |-> r]
  <2>1. m \in todo' /\ m.room = r
    BY <1>1
  <2> QED
    BY <2>1
<1>5. OneMessageEach'
  BY <1>1 DEF OneMessageEach
<1>6. ASSUME conn = "open", NEW r \in Room \ Taken PROVE r \in sent <=> r \in roomMap
  <2>1. CASE loop = "snapshot"
    BY <1>6, <2>1 DEF RoomsInv, NothingSentYet
  <2>2. CASE loop = "serve"
    BY <1>2, <1>6, <2>2 DEF RoomsInv, Accounted
  <2> QED
    BY <1>2, <2>1, <2>2
<1>7. Accounted'
  BY <1>1, <1>2, <1>3, <1>4, <1>6 DEF Accounted, Right
<1>8. WritesInWrite' /\ WaitsForNothing' /\ NothingSentYet'
  BY <1>1 DEF WritesInWrite, WaitsForNothing, NothingSentYet
<1> QED
  BY <1>5, <1>7, <1>8 DEF RoomsInv

LEMMA RoomsPreserved == TypeOK /\ RoomsInv /\ [Next]_vars => RoomsInv'
<1> SUFFICES ASSUME TypeOK, RoomsInv, [Next]_vars PROVE RoomsInv'
  OBVIOUS
<1>1. ASSUME NEW a \in Caller, NEW r \in Room, RoomEnter(a, r) PROVE RoomsInv'
  <2>1. /\ \A q \in Room \ {r} : listenerSet'[q] = listenerSet[q]
        /\ r \in roomMap => listenerSet'[r] > 0
    BY <1>1, ClientAssumption DEF RoomEnter, TypeOK, roomMap
  <2>2. \A q \in Room \ {r} : q \in roomMap' <=> q \in roomMap
    BY <2>1 DEF roomMap
  <2>3. r \in roomMap => roomMap' = roomMap
    BY <2>1 DEF roomMap
  <2> QED
    BY <1>1, <2>2, <2>3, MembershipChanges DEF RoomEnter
<1>2. ASSUME NEW a \in Caller, NEW r \in Room, Leave(a, r) PROVE RoomsInv'
  <2>1. /\ \A q \in Room \ {r} : listenerSet'[q] = listenerSet[q]
        /\ listenerSet[r] \in 1 .. MaxListener /\ listenerSet'[r] = listenerSet[r] - 1
    BY <1>2, LeavableHasListener DEF Leave, TypeOK
  <2>2. \A q \in Room \ {r} : q \in roomMap' <=> q \in roomMap
    BY <2>1 DEF roomMap
  <2>3. listenerSet[r] # 1 => roomMap' = roomMap
    BY <2>1, ClientAssumption DEF roomMap
  <2> QED
    BY <1>2, <2>2, <2>3, MembershipChanges DEF Leave
<1>3. ASSUME NEW a \in Caller, NEW b \in BOOLEAN, SetIsStopListen(a, b) PROVE RoomsInv'
  BY <1>3, RoomsKept, NotifyAllEffect DEF SetIsStopListen, Proceed
<1>4. ASSUME NEW a \in Caller, StopTimer(a) PROVE RoomsInv'
  BY <1>4, RoomsKept, NotifyAllEffect DEF StopTimer, Proceed
<1>5. ASSUME NEW a \in Caller, Do(a) PROVE RoomsInv'
  BY <1>5, RoomsKept, NotifyAllEffect DEF Do, Return, QueueDo
<1>6. ASSUME NEW a \in Caller, StopCloses(a) PROVE RoomsInv'
  BY <1>6, RoomsKept, NotifyAllEffect DEF StopCloses, Proceed
<1>7. ASSUME NEW a \in Caller, StopCancelsSleep(a) PROVE RoomsInv'
  BY <1>7, RoomsKept, NotifyAllEffect DEF StopCancelsSleep, Return
<1>8. CASE LoopInit
  BY <1>8, RoomsKept, NotifyAllEffect DEF LoopInit, Rest, GoTo
<1>9. CASE LoopStop1
  BY <1>9 DEF LoopStop1, Rest, GoTo, RoomsInv, OneMessageEach, WritesInWrite,
       WaitsForNothing, NothingSentYet, Accounted
<1>10. CASE LoopNeed1
  BY <1>10, RoomsKept, NotifyAllEffect DEF LoopNeed1, Rest, GoTo
<1>11. CASE LoopPause
  BY <1>11, RoomsKept, NotifyAllEffect DEF LoopPause, Rest, GoTo
<1>12. CASE LoopWake
  BY <1>12, RoomsKept, NotifyAllEffect DEF LoopWake, Rest, GoTo
<1>13. CASE LoopNeed2
  BY <1>13, RoomsKept, NotifyAllEffect DEF LoopNeed2, Rest, GoTo
<1>14. CASE LoopStop2
  BY <1>14, RoomsKept, NotifyAllEffect DEF LoopStop2, Rest, GoTo
<1>15. CASE DialFails
  BY <1>15, RoomsKept, NotifyAllEffect DEF DialFails, Rest, GoTo
<1>16. CASE DialSucceeds
  BY <1>16 DEF DialSucceeds, Rest, GoTo, RoomsInv, OneMessageEach, WritesInWrite,
       WaitsForNothing, NothingSentYet, Accounted
<1>17. CASE LoopAuth
  BY <1>17 DEF LoopAuth, Rest, GoTo, RoomsInv, OneMessageEach, WritesInWrite,
       WaitsForNothing, NothingSentYet, Accounted
<1>18. CASE LoopDenied
  BY <1>18, RoomsKept, NotifyAllEffect DEF LoopDenied, Rest, GoTo
<1>19. CASE LoopSnapshot
  BY <1>19, TakeUpPreserves
<1>20. CASE LoopWrite
  BY <1>20, WritePreserves
<1>21. CASE LoopWritten
  <2>1. /\ loop = "write" /\ loop' = "serve" /\ roomMap' = roomMap /\ todo = {}
        /\ UNCHANGED <<roomVars, todo, connVars>>
    BY <1>21, Unchanged DEF LoopWritten, GoTo, AfterWrite
  <2>2. OneMessageEach' /\ WritesInWrite' /\ WaitsForNothing' /\ NothingSentYet'
    BY <2>1 DEF RoomsInv, OneMessageEach, WritesInWrite, WaitsForNothing, NothingSentYet
  <2>3. Accounted'
    BY <2>1 DEF RoomsInv, Accounted, Right
  <2> QED
    BY <2>2, <2>3 DEF RoomsInv
<1>22. CASE LoopServe
  <2>1. CASE loop' = "write"
    BY <1>22, <2>1, TakeUpPreserves
  <2>2. CASE loop' = "stop1"
    BY <1>22, <2>2, RoomsKept DEF LoopServe, GoTo
  <2>3. CASE loop' = "wait"
    <3>1. /\ loop = "serve" /\ roomIdReqSet = {} /\ roomMap' = roomMap
          /\ UNCHANGED <<roomVars, todo, connVars>>
      BY <1>22, <2>3, Unchanged DEF LoopServe, GoTo
    <3>2. OneMessageEach' /\ WritesInWrite' /\ WaitsForNothing' /\ NothingSentYet'
      BY <2>3, <3>1 DEF RoomsInv, OneMessageEach, WritesInWrite, WaitsForNothing,
           NothingSentYet
    <3>3. Accounted'
      BY <2>3, <3>1 DEF RoomsInv, Accounted, Right
    <3> QED
      BY <3>2, <3>3 DEF RoomsInv
  <2> QED
    BY <1>22, <2>1, <2>2, <2>3 DEF LoopServe, GoTo
<1>23. CASE LoopEnd
  BY <1>23, RoomsKept, NotifyAllEffect DEF LoopEnd, Rest, GoTo
<1>24. CASE TimerFires
  BY <1>24, RoomsKept, NotifyAllEffect DEF TimerFires
<1>25. CASE TimerCloses
  BY <1>25, RoomsKept, NotifyAllEffect DEF TimerCloses, NotifyAll
<1>26. CASE ServerAllows
  BY <1>26, RoomsKept, NotifyAllEffect DEF ServerAllows
<1>27. CASE ServerDenies
  BY <1>27, RoomsKept, NotifyAllEffect DEF ServerDenies
<1>28. CASE DenialCloses
  BY <1>28, RoomsKept, NotifyAllEffect DEF DenialCloses
<1>29. CASE ConnBreaks
  BY <1>29, RoomsKept, NotifyAllEffect DEF ConnBreaks
<1>30. CASE CloseCallback
  BY <1>30, RoomsKept, NotifyAllEffect DEF CloseCallback, AfterClose, NotifyAll
<1>31. CASE CalmDown
  BY <1>31, RoomsKept, NotifyAllEffect DEF CalmDown
<1>32. CASE UNCHANGED vars
  BY <1>32, RoomsKept DEF vars
<1> QED
  BY <1>1, <1>2, <1>3, <1>4, <1>5, <1>6, <1>7, <1>8, <1>9, <1>10, <1>11, <1>12, <1>13,
       <1>14, <1>15, <1>16, <1>17, <1>18, <1>19, <1>20, <1>21, <1>22, <1>23, <1>24,
       <1>25, <1>26, <1>27, <1>28, <1>29, <1>30, <1>31, <1>32
     DEF Next, CallerNext, CallerStep, LoopNext

LEMMA ClientInvCorrect == Spec => []ClientInv
<1>1. Init => ClientInv
  <2> SUFFICES ASSUME Init PROVE ClientInv
    OBVIOUS
  <2>1. ~HasNeed /\ todo = {} /\ conn = "none" /\ loop = "off" /\ ~hasMoreCall
    BY DEF Init, HasNeed, roomMap
  <2>2. EndIsCalledBack /\ MoreCallHasLoop
    BY <2>1 DEF EndIsCalledBack, MoreCallHasLoop, Wanted
  <2>3. RoomsInv
    BY <2>1 DEF RoomsInv, OneMessageEach, WritesInWrite, WaitsForNothing, NothingSentYet,
                Accounted
  <2> QED
    BY <2>2, <2>3, InitType DEF ClientInv
<1>2. ClientInv /\ [Next]_vars => ClientInv'
  BY TypePreserved, CalledBackPreserved, RoomsPreserved DEF ClientInv
<1> QED
  BY <1>1, <1>2, PTL DEF Spec

-----------------------------------------------------------------------------
(* The client's variables keep their types: no room has fewer than no      *)
(* listeners, whatever RoomEnter and its leaveFn are called for at once.   *)
THEOREM TypeCorrect == Spec => []TypeOK
<1>1. ClientInv => TypeOK
  BY DEF ClientInv
<1> QED
  BY <1>1, ClientInvCorrect, PTL

(* While the loop sleeps on an open connection, what it wrote on it adds   *)
(* up to the wanted rooms: _roomIdReq_NOLOCK wakes a loop that would sleep *)
(* over a request, and a request made while it writes is not forgotten.    *)
THEOREM SubscribedCorrect == Spec => []Subscribed
<1>1. ClientInv => Subscribed
  <2> SUFFICES ASSUME ClientInv, loop = "wait", conn = "open" PROVE sent = roomMap
    BY DEF Subscribed
  <2>1. roomIdReqSet = {} /\ todo = {}
    BY DEF ClientInv, RoomsInv, WaitsForNothing, WritesInWrite
  <2>2. \A r \in Room : r \in sent <=> r \in roomMap
    BY <2>1 DEF ClientInv, RoomsInv, Accounted
  <2>3. sent \subseteq Room /\ roomMap \subseteq Room
    BY DEF ClientInv, TypeOK, roomMap
  <2> QED
    BY <2>2, <2>3
<1> QED
  BY <1>1, ClientInvCorrect, PTL

(* A wanted room has a loop, or a call on its way to connSingleUnd.Do: a   *)
(* loop that decided to end is called back by hasMoreCall.                 *)
THEOREM NeedHasLoopCorrect == Spec => []NeedHasLoop
<1>1. ClientInv => NeedHasLoop
  BY DEF ClientInv, EndIsCalledBack, NeedHasLoop, Wanted, Calling
<1> QED
  BY <1>1, ClientInvCorrect, PTL

=============================================================================
