------------------------------- MODULE Client -------------------------------
(***************************************************************************)
(* The connection loop of the Go client (tryConnOnceSync), the callers of  *)
(* RoomEnter, its leaveFn and SetIsStopListen, the idle timer, and the     *)
(* answers of a server to the identity.  A step is one critical section of *)
(* roomLock, one atomic load or store, or one message written.             *)
(*                                                                         *)
(* A listener only matters here as one of those that keep a room in        *)
(* roomMap.  Of the server's side there is `sent', the rooms it will have  *)
(* subscribed for this connection once it read what was written.  Network  *)
(* failures, denials and new calls happen until `calm', a variable of the  *)
(* model that liveness properties start from.                              *)
(***************************************************************************)
EXTENDS Naturals, FiniteSets

CONSTANTS Room, NoRoom,
          Caller,          \* goroutines that call the client's methods
          MaxListener,     \* bound: listeners of a room
          OnDenyFn         \* whether the application handles denials: one of
                           \* these, for good, before the first call

ASSUME ClientAssumption ==
  /\ NoRoom \notin Room
  /\ MaxListener \in Nat \ {0}
  /\ OnDenyFn \subseteq BOOLEAN
  /\ IsFiniteSet(Caller)

VARIABLES
  listenerSet,      \* how many listeners every room has; roomMap's keys
  roomIdReqSet,
  isStopListen,
  connDenyLocal,
  authDenyFatal,    \* authDenyFatalMsg is not empty
  hasOnDenyFn,
  idleTimer,        \* noNeedIdleCloseTimer: "set", and "close" in its function
  caller,           \* what every caller still has to do in its call
  loop,             \* the loop goroutine of connSingleUnd
  hasMoreCall,      \* connSingleUnd.hasMoreCall
  cancelCh,         \* reconnectSleepCancelCh is not nil
  sleepCh,          \* the sleeping loop's channel: "nil", "open", "closed"
  todo,             \* messages the loop is about to write
  conn,             \* thisConn.conn.closer, and "none" for a nil thisConn
  auth,             \* thisConn's answer to the identity
  sent,             \* rooms subscribed by what was written on thisConn
  calm

roomVars == <<listenerSet, roomIdReqSet>>
stopVars == <<isStopListen, cancelCh, sleepCh>>
denyVars == <<connDenyLocal, authDenyFatal, hasOnDenyFn>>
connVars == <<conn, auth, sent>>
vars == <<roomVars, stopVars, denyVars, idleTimer, caller, loop, hasMoreCall,
          todo, connVars, calm>>

Idle == [op |-> "idle", room |-> NoRoom]

LoopPc == {"off", "init", "stop1", "need1", "pause", "sleep", "need2", "stop2",
           "dial", "auth", "denied", "snapshot", "write", "serve", "wait", "end"}

Call == [op : {"idle", "stopTimer", "do", "closeConn", "cancelSleep", "restart"},
         room : Room \cup {NoRoom}]
Msg == [op : {"enter", "leave"}, room : Room]

TypeOK ==
  /\ listenerSet \in [Room -> 0 .. MaxListener]
  /\ roomIdReqSet \subseteq Room
  /\ isStopListen \in BOOLEAN /\ connDenyLocal \in BOOLEAN
  /\ authDenyFatal \in BOOLEAN /\ hasOnDenyFn \in BOOLEAN
  /\ hasMoreCall \in BOOLEAN /\ cancelCh \in BOOLEAN /\ calm \in BOOLEAN
  /\ idleTimer \subseteq {"set", "close"}
  /\ caller \in [Caller -> Call]
  /\ loop \in LoopPc
  /\ sleepCh \in {"nil", "open", "closed"}
  /\ todo \subseteq Msg
  /\ conn \in {"none", "open", "closing", "closed"}
  /\ auth \in {"none", "waiting", "approved", "denied", "refused"}
  /\ sent \subseteq Room

Init ==
  /\ listenerSet = [r \in Room |-> 0]
  /\ roomIdReqSet = {}
  /\ isStopListen = FALSE
  /\ connDenyLocal = FALSE
  /\ authDenyFatal = FALSE
  /\ hasOnDenyFn \in OnDenyFn
  /\ idleTimer = {}
  /\ caller = [a \in Caller |-> Idle]
  /\ loop = "off"
  /\ hasMoreCall = FALSE
  /\ cancelCh = FALSE
  /\ sleepCh = "nil"
  /\ todo = {}
  /\ conn = "none"
  /\ auth = "none"
  /\ sent = {}
  /\ calm = FALSE

-----------------------------------------------------------------------------
roomMap == {r \in Room : listenerSet[r] > 0}
HasNeed == roomMap # {}
IsClose == conn \in {"closing", "closed"}

(* roomNl.NotifyAll, with roomLock held: a waiting loop looks again.       *)
NotifyAll(pc) == IF pc = "wait" THEN "serve" ELSE pc

(* _roomIdReq_NOLOCK                                                       *)
Request(r) ==
  /\ roomIdReqSet' = roomIdReqSet \cup {r}
  /\ loop' = NotifyAll(loop)

Proceed(a, op) == caller' = [caller EXCEPT ![a].op = op]
Return(a) == caller' = [caller EXCEPT ![a] = Idle]

(* Some listener's RoomEnter has returned, and its leaveFn was not called. *)
Leavable(r) ==
  listenerSet[r] > Cardinality({a \in Caller : caller[a].room = r})

(* RoomEnter up to the unlock; without effect for a client that was denied.*)
RoomEnter(a, r) ==
  /\ ~calm
  /\ caller[a] = Idle
  /\ ~authDenyFatal /\ ~connDenyLocal
  /\ listenerSet[r] < MaxListener
  /\ listenerSet' = [listenerSet EXCEPT ![r] = @ + 1]
  /\ IF r \in roomMap THEN UNCHANGED <<roomIdReqSet, loop>> ELSE Request(r)
  /\ caller' = [caller EXCEPT ![a] = [op |-> "stopTimer", room |-> r]]
  /\ UNCHANGED <<stopVars, denyVars, idleTimer, hasMoreCall, todo, connVars, calm>>

StopTimer(a) ==
  /\ caller[a].op = "stopTimer"
  /\ idleTimer' = idleTimer \ {"set"}
  /\ Proceed(a, "do")
  /\ UNCHANGED <<roomVars, stopVars, denyVars, loop, hasMoreCall, todo, connVars, calm>>

(* _init_afterEnter: connSingleUnd.Do                                      *)
StartIfIdle == hasMoreCall                                       \* fault
QueueDo == loop # "off" \/ hasMoreCall

Do(a) ==
  /\ caller[a].op \in {"do", "restart"}
  /\ hasMoreCall' = QueueDo
  /\ loop' = IF loop = "off" THEN "init" ELSE loop
  /\ Return(a)
  /\ UNCHANGED <<roomVars, stopVars, denyVars, idleTimer, todo, connVars, calm>>

(* The function RoomEnter returns.                                         *)
NeverIdle == idleTimer                                           \* fault
AfterLeave == idleTimer \cup {t \in {"set"} : \A q \in Room : listenerSet'[q] = 0}

Leave(a, r) ==
  /\ ~calm
  /\ caller[a] = Idle
  /\ Leavable(r)
  /\ listenerSet' = [listenerSet EXCEPT ![r] = @ - 1]
  /\ IF listenerSet[r] = 1 THEN Request(r) ELSE UNCHANGED <<roomIdReqSet, loop>>
  /\ idleTimer' = AfterLeave
  /\ UNCHANGED <<stopVars, denyVars, caller, hasMoreCall, todo, connVars, calm>>

(* noNeedIdleCloseTimer fires.  A dial the loop began for a room that was  *)
(* then left ends long before that: its limit is ClientWsDialTimeoutDur    *)
(* (5s), the timer's ClientNoNeedIdleDur (20s).                            *)
TimerFires ==
  /\ "set" \in idleTimer
  /\ loop \notin {"stop2", "dial"}
  /\ idleTimer' = IF HasNeed THEN idleTimer \ {"set"} ELSE {"close"}
  /\ UNCHANGED <<roomVars, stopVars, denyVars, caller, loop, hasMoreCall, todo,
                 connVars, calm>>

TimerCloses ==
  /\ "close" \in idleTimer
  /\ idleTimer' = idleTimer \ {"close"}
  /\ conn' = IF conn = "open" THEN "closing" ELSE conn
  /\ loop' = NotifyAll(loop)
  /\ UNCHANGED <<roomVars, stopVars, denyVars, caller, hasMoreCall, todo, auth,
                 sent, calm>>

-----------------------------------------------------------------------------
(* SetIsStopListen, by the application or for a permanent closeConn.       *)
SetIsStopListen(a, isStop) ==
  /\ ~calm
  /\ caller[a] = Idle
  /\ isStopListen # isStop
  /\ isStopListen' = isStop
  /\ Proceed(a, IF isStop THEN "closeConn" ELSE "restart")
  /\ UNCHANGED <<roomVars, cancelCh, sleepCh, denyVars, idleTimer, loop,
                 hasMoreCall, todo, connVars, calm>>

StopCloses(a) ==
  /\ caller[a].op = "closeConn"
  /\ conn' = IF conn = "open" THEN "closing" ELSE conn
  /\ Proceed(a, "cancelSleep")
  /\ UNCHANGED <<roomVars, stopVars, denyVars, idleTimer, loop, hasMoreCall, todo,
                 auth, sent, calm>>

StopCancelsSleep(a) ==
  /\ caller[a].op = "cancelSleep"
  /\ cancelCh' = FALSE
  /\ sleepCh' = IF cancelCh /\ sleepCh = "open" THEN "closed" ELSE sleepCh
  /\ Return(a)
  /\ UNCHANGED <<roomVars, isStopListen, denyVars, idleTimer, loop, hasMoreCall,
                 todo, connVars, calm>>

-----------------------------------------------------------------------------
(* The loop.                                                               *)
GoTo(pc) == loop' = pc
Rest == <<denyVars, idleTimer, caller, calm>>

LoopInit ==
  /\ loop = "init"
  /\ cancelCh' = TRUE
  /\ GoTo("stop1")
  /\ UNCHANGED <<Rest, roomVars, isStopListen, sleepCh, hasMoreCall, todo, connVars>>

(* tryConnOnceSync forgets the last connection and looks whether it is     *)
(* wanted at all.                                                          *)
LoopStop1 ==
  /\ loop = "stop1"
  /\ conn' = "none" /\ auth' = "none" /\ sent' = {}
  /\ GoTo(IF isStopListen THEN "end" ELSE "need1")
  /\ UNCHANGED <<Rest, roomVars, stopVars, hasMoreCall, todo>>

LoopNeed1 ==
  /\ loop = "need1"
  /\ IF authDenyFatal \/ ~HasNeed THEN GoTo("end")
     ELSE \E pc \in {"pause", "dial"} : GoTo(pc)      \* the last attempt is young
  /\ UNCHANGED <<Rest, roomVars, stopVars, hasMoreCall, todo, connVars>>

LoopPause ==
  /\ loop = "pause"
  /\ sleepCh' = IF cancelCh THEN "open" ELSE "nil"
  /\ GoTo("sleep")
  /\ UNCHANGED <<Rest, roomVars, isStopListen, cancelCh, hasMoreCall, todo, connVars>>

(* The timer fires, or the channel was closed.                             *)
LoopWake ==
  /\ loop = "sleep"
  /\ sleepCh' = "nil"
  /\ GoTo("need2")
  /\ UNCHANGED <<Rest, roomVars, isStopListen, cancelCh, hasMoreCall, todo, connVars>>

LoopNeed2 ==
  /\ loop = "need2"
  /\ GoTo(IF HasNeed THEN "stop2" ELSE "end")
  /\ UNCHANGED <<Rest, roomVars, stopVars, hasMoreCall, todo, connVars>>

LoopStop2 ==
  /\ loop = "stop2"
  /\ GoTo(IF isStopListen THEN "end" ELSE "dial")
  /\ UNCHANGED <<Rest, roomVars, stopVars, hasMoreCall, todo, connVars>>

DialFails ==
  /\ loop = "dial"
  /\ ~calm
  /\ GoTo("stop1")
  /\ UNCHANGED <<Rest, roomVars, stopVars, hasMoreCall, todo, connVars>>

DialSucceeds ==
  /\ loop = "dial"
  /\ conn' = "open" /\ auth' = "waiting" /\ sent' = {}
  /\ GoTo("auth")
  /\ UNCHANGED <<Rest, roomVars, stopVars, hasMoreCall, todo>>

LoopAuth ==
  /\ loop = "auth"
  /\ IsClose \/ auth \in {"approved", "denied", "refused"}
  /\ GoTo(IF IsClose THEN "stop1" ELSE IF auth = "denied" THEN "denied"
          ELSE "snapshot")
  /\ UNCHANGED <<Rest, roomVars, stopVars, hasMoreCall, todo, connVars>>

LoopDenied ==
  /\ loop = "denied"
  /\ IsClose
  /\ GoTo("stop1")
  /\ UNCHANGED <<Rest, roomVars, stopVars, hasMoreCall, todo, connVars>>

(* All rooms are entered on a new connection.                              *)
LoopSnapshot ==
  /\ loop = "snapshot"
  /\ todo' = {[op |-> "enter", room |-> r] : r \in roomMap}
  /\ roomIdReqSet' = {}
  /\ GoTo("write")
  /\ UNCHANGED <<Rest, listenerSet, stopVars, hasMoreCall, connVars>>

(* One writeMsg; on a closed connection it does nothing.                   *)
LoopWrite ==
  /\ loop = "write"
  /\ \E msg \in todo :
       /\ todo' = todo \ {msg}
       /\ sent' = IF conn # "open" THEN sent
                  ELSE IF msg.op = "enter" THEN sent \cup {msg.room}
                  ELSE sent \ {msg.room}
  /\ UNCHANGED <<Rest, roomVars, stopVars, loop, hasMoreCall, conn, auth>>

AfterWriteWait == "wait"                                         \* fault
AfterWrite == "serve"

LoopWritten ==
  /\ loop = "write"
  /\ todo = {}
  /\ GoTo(AfterWrite)
  /\ UNCHANGED <<Rest, roomVars, stopVars, hasMoreCall, todo, connVars>>

(* The rooms whose membership changed are sent as they are now.            *)
LoopServe ==
  /\ loop = "serve"
  /\ IF IsClose
     THEN GoTo("stop1") /\ UNCHANGED <<roomIdReqSet, todo>>
     ELSE IF roomIdReqSet = {}
     THEN GoTo("wait") /\ UNCHANGED <<roomIdReqSet, todo>>
     ELSE /\ todo' = {[op |-> IF r \in roomMap THEN "enter" ELSE "leave", room |-> r] :
                        r \in roomIdReqSet}
          /\ roomIdReqSet' = {}
          /\ GoTo("write")
  /\ UNCHANGED <<Rest, listenerSet, stopVars, hasMoreCall, connVars>>

(* runBgThread after the loop returned.                                    *)
LoopEnd ==
  /\ loop = "end"
  /\ hasMoreCall' = FALSE
  /\ GoTo(IF hasMoreCall THEN "init" ELSE "off")
  /\ UNCHANGED <<Rest, roomVars, stopVars, todo, connVars>>

-----------------------------------------------------------------------------
(* The connection: its peer's answers, its end, and the close callback.    *)
ServerAllows ==
  /\ conn = "open" /\ auth = "waiting"
  /\ auth' = "approved"
  /\ connDenyLocal' = FALSE
  /\ UNCHANGED <<roomVars, stopVars, authDenyFatal, hasOnDenyFn, idleTimer, caller, loop,
                 hasMoreCall, todo, conn, sent, calm>>

(* Without OnDenyFn a denial, of the connection or later of a room, is     *)
(* fatal: the loop is woken first and the connection closed after that.    *)
ServerDenies ==
  /\ ~calm
  /\ conn = "open"
  /\ \/ /\ hasOnDenyFn /\ auth = "waiting"
        /\ auth' = "denied"
        /\ connDenyLocal' = TRUE
        /\ UNCHANGED authDenyFatal
     \/ /\ ~hasOnDenyFn /\ auth \in {"waiting", "approved"}
        /\ auth' = "refused"
        /\ authDenyFatal' = TRUE
        /\ UNCHANGED connDenyLocal
  /\ UNCHANGED <<roomVars, stopVars, hasOnDenyFn, idleTimer, caller, loop, hasMoreCall, todo,
                 conn, sent, calm>>

DenialCloses ==
  /\ auth = "refused" /\ conn = "open"
  /\ conn' = "closing"
  /\ UNCHANGED <<roomVars, stopVars, denyVars, idleTimer, caller, loop,
                 hasMoreCall, todo, auth, sent, calm>>

(* A read or write failure, a time-out, a temporary closeConn.             *)
ConnBreaks ==
  /\ ~calm
  /\ conn = "open"
  /\ conn' = "closing"
  /\ UNCHANGED <<roomVars, stopVars, denyVars, idleTimer, caller, loop,
                 hasMoreCall, todo, auth, sent, calm>>

QuietClose == loop                                               \* fault
AfterClose == NotifyAll(loop)

CloseCallback ==
  /\ conn = "closing"
  /\ conn' = "closed"
  /\ loop' = AfterClose
  /\ UNCHANGED <<roomVars, stopVars, denyVars, idleTimer, caller, hasMoreCall,
                 todo, auth, sent, calm>>

CalmDown ==
  /\ ~calm
  /\ calm' = TRUE
  /\ UNCHANGED <<roomVars, stopVars, denyVars, idleTimer, caller, loop,
                 hasMoreCall, todo, connVars>>

-----------------------------------------------------------------------------
CallerStep(a) == StopTimer(a) \/ Do(a) \/ StopCloses(a) \/ StopCancelsSleep(a)

CallerNext(a) ==
  \/ \E r \in Room : RoomEnter(a, r) \/ Leave(a, r)
  \/ \E b \in BOOLEAN : SetIsStopListen(a, b)
  \/ CallerStep(a)

LoopNext ==
  \/ LoopInit \/ LoopStop1 \/ LoopNeed1 \/ LoopPause \/ LoopWake
  \/ LoopNeed2 \/ LoopStop2 \/ DialFails \/ DialSucceeds \/ LoopAuth
  \/ LoopDenied \/ LoopSnapshot \/ LoopWrite \/ LoopWritten \/ LoopServe
  \/ LoopEnd

Next ==
  \/ \E a \in Caller : CallerNext(a)
  \/ LoopNext
  \/ TimerFires \/ TimerCloses
  \/ ServerAllows \/ ServerDenies \/ DenialCloses \/ ConnBreaks \/ CloseCallback
  \/ CalmDown

Spec == Init /\ [][Next]_vars

(* Goroutines run on, timers fire, and a server that is reached answers.   *)
Fairness ==
  /\ \A a \in Caller : WF_vars(CallerStep(a))
  /\ WF_vars(LoopNext)
  /\ WF_vars(TimerFires) /\ WF_vars(TimerCloses)
  /\ WF_vars(ServerAllows) /\ WF_vars(DenialCloses) /\ WF_vars(CloseCallback)
  /\ WF_vars(CalmDown)

FairSpec == Spec /\ Fairness

-----------------------------------------------------------------------------
(* While the loop sleeps on an open connection, what it wrote on it adds   *)
(* up to the rooms that are wanted: no request was overtaken by the entry  *)
(* of all rooms, by another request or by the loop's going to sleep.       *)
Subscribed == loop = "wait" /\ conn = "open" => sent = roomMap

(* A wanted room has a loop that works for it, or a call on its way to     *)
(* start one: a loop that just decided to end does not miss a new need.    *)
NeedHasLoop ==
  HasNeed /\ ~isStopListen /\ ~authDenyFatal =>
    loop # "off" \/ \E a \in Caller : caller[a].op \in {"stopTimer", "do", "restart"}

(* Once failures and calls end, wanted rooms become subscribed and stay    *)
(* so, unless the client was stopped or denied.                            *)
Settled == loop = "wait" /\ conn = "open" /\ sent = roomMap
EventuallySubscribed ==
  <>[](HasNeed => Settled \/ isStopListen \/ authDenyFatal \/ auth = "denied")

(* A connection that no room needs any more is closed in the end           *)
(* (doc/config.md:44), wherever the loop was when the last room was left.  *)
IdleConnectionCloses == <>[](~HasNeed => conn # "open")

(* client.go:148 says of the loop that it ends when the client was told to *)
(* stop listening.                                                         *)
StopEndsLoop == <>[](isStopListen => loop = "off")

(* client.go:43 says of a denied connection that the client keeps it or    *)
(* reconnects, and that the refusal of RoomEnter is taken back when it     *)
(* reconnects: somebody is there to do so.                                 *)
DenialIsTakenBack == connDenyLocal /\ ~isStopListen => loop # "off"

=============================================================================
