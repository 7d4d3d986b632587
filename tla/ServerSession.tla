---------------------------- MODULE ServerSession ----------------------------
(***************************************************************************)
(* The life of a server connection with OnAllowFn set: ServeHTTP up to the *)
(* read loop, cmdLoop with the two kinds of OnAllowFn calls, the timers,   *)
(* the close callback, and CloseConnBySessionId, which finds connections   *)
(* through sessionIdToConnListMap at any moment of their life.             *)
(*                                                                         *)
(* The application bans a key, then calls CloseConnBySessionId, and its    *)
(* OnAllowFn denies what is banned when it looks; that is the use the      *)
(* comments of both describe.  Every connection has the same network       *)
(* session id and announces the same identity.  Rooms are one room here,   *)
(* and what is pushed to a connection is only remembered as far as it      *)
(* matters (RoomServer and WriteBuf have the rest).                        *)
(***************************************************************************)
EXTENDS Integers, Sequences, FiniteSets

CONSTANTS Conn,           \* connections, each lives once
          CmdChLen,       \* capacity of cmdCh, RoomEnterMaxPerConn + 2
          MaxCmd          \* bound: messages a peer sends

ASSUME ServerSessionAssumption == CmdChLen \in Nat \ {0} /\ MaxCmd \in Nat

Key == {"sessionIdNet", "identity"}
Cmd == {"identity", "roomEnter", "roomLeave"}
NoKick == [key |-> "none", todo |-> {}]

VARIABLES
  pc,               \* ServeHTTP
  isClosed,         \* closer.isClosed
  onClose,          \* the close callback: "absent", "added", then its parts
  registry,         \* sessionIdToConnListMap
  registeredKeys,
  connCount,
  cmdCh, cmds,      \* cmdCh, and how many messages were read
  worker,           \* cmdLoop
  verdict,          \* connDenied, connApproved
  inRoom,           \* the room is in server_conn_t.roomMap
  isStopRoomEnter,
  authTimer, askTimer,      \* timerAuthTimeout, timerAskStopListenTimeout
  asked,            \* hasSendAskClientStop
  lateKeys,         \* keys registered after the callback cleaned up
  banned,           \* the application's own
  kick              \* a call of CloseConnBySessionId

tableVars == <<registry, registeredKeys, lateKeys>>
cmdVars == <<cmdCh, cmds, worker, verdict, inRoom, isStopRoomEnter>>
timerVars == <<authTimer, askTimer>>
askVars == <<asked, banned, kick>>
vars == <<pc, isClosed, onClose, tableVars, connCount, cmdVars, timerVars, askVars>>

TypeOK ==
  /\ pc \in [Conn -> {"none", "register", "wire", "hook", "callback", "count",
                      "start", "read", "end"}]
  /\ onClose \in [Conn -> {"absent", "added", "break", "rooms", "keys", "count",
                           "done"}]
  /\ registry \in [Key -> SUBSET Conn]
  /\ registeredKeys \in [Conn -> SUBSET Key] /\ lateKeys \in [Conn -> SUBSET Key]
  /\ connCount \in Int
  /\ cmdCh \in [Conn -> Seq(Cmd)]
  /\ cmds \in [Conn -> 0 .. MaxCmd]
  /\ worker \in [Conn -> {"off", "select", "allowConn", "allow", "deny",
                          "allowRoom", "enter", "denyRoom", "end"}]
  /\ verdict \in [Conn -> {"none", "approved", "denied"}]
  /\ inRoom \in [Conn -> BOOLEAN] /\ isStopRoomEnter \in [Conn -> BOOLEAN]
  /\ isClosed \in [Conn -> BOOLEAN] /\ asked \in [Conn -> BOOLEAN]
  /\ authTimer \in [Conn -> BOOLEAN] /\ askTimer \in [Conn -> BOOLEAN]
  /\ banned \subseteq Key
  /\ kick \in [key : Key \cup {"none"}, todo : SUBSET (Conn \X {"ask", "send"})]

Init ==
  /\ pc = [c \in Conn |-> "none"]
  /\ isClosed = [c \in Conn |-> FALSE] /\ onClose = [c \in Conn |-> "absent"]
  /\ registry = [k \in Key |-> {}]
  /\ registeredKeys = [c \in Conn |-> {}] /\ lateKeys = [c \in Conn |-> {}]
  /\ connCount = 0
  /\ cmdCh = [c \in Conn |-> <<>>] /\ cmds = [c \in Conn |-> 0]
  /\ worker = [c \in Conn |-> "off"] /\ verdict = [c \in Conn |-> "none"]
  /\ inRoom = [c \in Conn |-> FALSE] /\ isStopRoomEnter = [c \in Conn |-> FALSE]
  /\ authTimer = [c \in Conn |-> FALSE] /\ askTimer = [c \in Conn |-> FALSE]
  /\ asked = [c \in Conn |-> FALSE] /\ banned = {} /\ kick = NoKick

-----------------------------------------------------------------------------
Set(f, c, x) == f' = [f EXCEPT ![c] = x]

(* closer.Close2: the first call runs the callback, if there is one yet.   *)
Close(c) ==
  /\ Set(isClosed, c, TRUE)
  /\ Set(onClose, c, IF onClose[c] = "added" THEN "break" ELSE onClose[c])

(* registerSessionKey                                                      *)
RegisterSessionKey(c, k) ==
  /\ registry' = [registry EXCEPT ![k] = @ \cup {c}]
  /\ Set(registeredKeys, c, registeredKeys[c] \cup {k})
  /\ Set(lateKeys, c, lateKeys[c] \cup {x \in {k} : onClose[c] \in {"count", "done"}})

-----------------------------------------------------------------------------
(* ServeHTTP.  OnAcceptFn let the request pass before.                     *)
Accept(c) ==
  /\ pc[c] = "none"
  /\ Set(pc, c, "register")
  /\ UNCHANGED <<isClosed, onClose, tableVars, connCount, cmdVars, timerVars, askVars>>

Register(c) ==
  /\ pc[c] = "register"
  /\ RegisterSessionKey(c, "sessionIdNet")
  /\ Set(pc, c, "wire")
  /\ UNCHANGED <<isClosed, onClose, connCount, cmdVars, timerVars, askVars>>

TimerLater(c) == FALSE                                           \* fault
TimerNow(c) == TRUE

Wire(c) ==
  /\ pc[c] = "wire"
  /\ Set(authTimer, c, TimerNow(c))
  /\ Set(pc, c, "hook")
  /\ UNCHANGED <<isClosed, onClose, tableVars, connCount, cmdVars, askTimer, askVars>>

(* closer.AddOnClose: on a closed connection the callback runs at once, in *)
(* this goroutine.                                                         *)
AddedLate(c) == "added"                                          \* fault
Added(c) == IF isClosed[c] THEN "break" ELSE "added"

Hook(c) ==
  /\ pc[c] = "hook"
  /\ Set(onClose, c, Added(c))
  /\ Set(pc, c, IF isClosed[c] THEN "callback" ELSE "count")
  /\ UNCHANGED <<isClosed, tableVars, connCount, cmdVars, timerVars, askVars>>

Count(c) ==
  /\ pc[c] = "count" \/ (pc[c] = "callback" /\ onClose[c] = "done")
  /\ connCount' = connCount + 1
  /\ Set(pc, c, "start")
  /\ UNCHANGED <<isClosed, onClose, tableVars, cmdVars, timerVars, askVars>>

Start(c) ==
  /\ pc[c] = "start"
  /\ Set(worker, c, "select")
  /\ Set(pc, c, "read")
  /\ UNCHANGED <<isClosed, onClose, tableVars, connCount, cmdCh, cmds, verdict,
                 inRoom, isStopRoomEnter, timerVars, askVars>>

(* A message of the peer goes to pushCmd, which closes the connection when *)
(* the queue is full.                                                      *)
PushCmd(c, cmd) ==
  /\ pc[c] = "read"
  /\ ~isClosed[c]
  /\ cmds[c] < MaxCmd
  /\ Set(cmds, c, cmds[c] + 1)
  /\ IF Len(cmdCh[c]) < CmdChLen
     THEN Set(cmdCh, c, Append(cmdCh[c], cmd)) /\ UNCHANGED <<isClosed, onClose>>
     ELSE Close(c) /\ UNCHANGED cmdCh
  /\ UNCHANGED <<pc, tableVars, connCount, worker, verdict, inRoom,
                 isStopRoomEnter, timerVars, askVars>>

(* The peer goes away, is silent too long or breaks the protocol; a peer   *)
(* that was asked to close does so, or not.  Before the read loop it is    *)
(* the write of what was sent that fails (the read timer runs from Hook).  *)
ConnFails(c) ==
  /\ pc[c] \in {"count", "start", "read"} \/ (askTimer[c] /\ pc[c] = "hook")
  /\ ~isClosed[c]
  /\ Close(c)
  /\ UNCHANGED <<pc, tableVars, connCount, cmdVars, timerVars, askVars>>

ReadEnds(c) ==
  /\ pc[c] = "read"
  /\ isClosed[c]
  /\ Set(pc, c, "end")
  /\ UNCHANGED <<isClosed, onClose, tableVars, connCount, cmdVars, timerVars, askVars>>

-----------------------------------------------------------------------------
(* cmdLoop.                                                                *)
workerRest == <<pc, registry, registeredKeys, lateKeys, connCount, cmds, askTimer,
                asked, banned, kick>>

LoopEnds(c) ==
  /\ worker[c] = "select"
  /\ isClosed[c]
  /\ Set(worker, c, "end")
  /\ UNCHANGED <<workerRest, isClosed, onClose, cmdCh, verdict, inRoom,
                 isStopRoomEnter, authTimer>>

(* What the loop does about a message before it calls OnAllowFn.           *)
MayAskForRoom(c) == verdict[c] = "approved"

After(c, cmd) ==
  CASE cmd = "identity" -> IF verdict[c] = "none" THEN "allowConn" ELSE "select"
    [] cmd = "roomEnter" -> IF MayAskForRoom(c) THEN "allowRoom" ELSE "select"
    [] cmd = "roomLeave" -> "select"

RegisterNever(c, k) == UNCHANGED tableVars                       \* fault
RegisterIdentity(c, k) == RegisterSessionKey(c, k)

Receive(c) ==
  /\ worker[c] = "select"
  /\ cmdCh[c] # <<>>
  /\ LET cmd == Head(cmdCh[c])
     IN /\ Set(worker, c, After(c, cmd))
        /\ Set(inRoom, c, inRoom[c] /\ cmd # "roomLeave")
        /\ IF After(c, cmd) = "allowConn"
           THEN RegisterIdentity(c, "identity")
           ELSE UNCHANGED tableVars
  /\ Set(cmdCh, c, Tail(cmdCh[c]))
  /\ UNCHANGED <<pc, connCount, cmds, askTimer, askVars, isClosed, onClose,
                 verdict, isStopRoomEnter, authTimer>>

(* OnAllowFn looks at the application's data; it may take any time.        *)
OnAllowFn(c) ==
  /\ worker[c] \in {"allowConn", "allowRoom"}
  /\ Set(worker, c, IF worker[c] = "allowConn"
                    THEN IF banned = {} THEN "allow" ELSE "deny"
                    ELSE IF banned = {} THEN "enter" ELSE "denyRoom")
  /\ UNCHANGED <<workerRest, isClosed, onClose, cmdCh, verdict, inRoom,
                 isStopRoomEnter, authTimer>>

Decide(c) ==
  /\ worker[c] \in {"allow", "deny"}
  /\ Set(authTimer, c, FALSE)
  /\ Set(verdict, c, IF worker[c] = "allow" THEN "approved" ELSE "denied")
  /\ Set(worker, c, "select")
  /\ UNCHANGED <<workerRest, isClosed, onClose, cmdCh, inRoom, isStopRoomEnter>>

(* doRoomEnter, or the denial of a room.                                   *)
JoinAnyway(c) == TRUE                                            \* fault
MayJoin(c) == ~isStopRoomEnter[c]

Join(c) ==
  /\ worker[c] \in {"enter", "denyRoom"}
  /\ Set(inRoom, c, inRoom[c] \/ (worker[c] = "enter" /\ MayJoin(c)))
  /\ Set(worker, c, "select")
  /\ UNCHANGED <<workerRest, isClosed, onClose, cmdCh, verdict,
                 isStopRoomEnter, authTimer>>

-----------------------------------------------------------------------------
(* The timers.  One that was stopped in time does nothing.                 *)
AuthTimerFires(c) ==
  /\ authTimer[c]
  /\ Set(authTimer, c, FALSE)
  /\ Close(c)
  /\ UNCHANGED <<pc, tableVars, connCount, cmdVars, askTimer, askVars>>

AskTimerFires(c) ==
  /\ askTimer[c]
  /\ Set(askTimer, c, FALSE)
  /\ Close(c)
  /\ UNCHANGED <<pc, tableVars, connCount, cmdVars, authTimer, askVars>>

(* The close callback.                                                     *)
callbackRest == <<pc, isClosed, cmdCh, cmds, worker, verdict, asked, banned, kick,
                  lateKeys>>

BreakBuf(c) ==
  /\ onClose[c] = "break"
  /\ Set(authTimer, c, FALSE) /\ Set(askTimer, c, FALSE)
  /\ Set(onClose, c, "rooms")
  /\ UNCHANGED <<callbackRest, registry, registeredKeys, connCount, inRoom,
                 isStopRoomEnter>>

LeaveRooms(c) ==
  /\ onClose[c] = "rooms"
  /\ Set(isStopRoomEnter, c, TRUE) /\ Set(inRoom, c, FALSE)
  /\ Set(onClose, c, "keys")
  /\ UNCHANGED <<callbackRest, registry, registeredKeys, connCount, timerVars>>

FirstKey(c) == registeredKeys[c] \cap {"sessionIdNet"}           \* fault
AllKeys(c) == registeredKeys[c]

Unregister(c) ==
  /\ onClose[c] = "keys"
  /\ registry' = [k \in Key |-> IF k \in AllKeys(c) THEN registry[k] \ {c}
                                ELSE registry[k]]
  /\ Set(onClose, c, "count")
  /\ UNCHANGED <<callbackRest, registeredKeys, connCount, inRoom,
                 isStopRoomEnter, timerVars>>

CountDown(c) ==
  /\ onClose[c] = "count"
  /\ connCount' = connCount - 1
  /\ Set(onClose, c, "done")
  /\ UNCHANGED <<callbackRest, registry, registeredKeys, inRoom,
                 isStopRoomEnter, timerVars>>

-----------------------------------------------------------------------------
(* The application bans a key (or only kicks it), then calls               *)
(* CloseConnBySessionId, which takes the list and goes through it.         *)
Ban(k, isBan) ==
  /\ kick = NoKick
  /\ k \notin banned
  /\ banned' = IF isBan THEN banned \cup {k} ELSE banned
  /\ kick' = [key |-> k, todo |-> {}]
  /\ UNCHANGED <<pc, isClosed, onClose, tableVars, connCount, cmdVars, timerVars, asked>>

CloseConnBySessionId ==
  /\ kick.key \in Key
  /\ kick' = [key |-> "none", todo |-> registry[kick.key] \X {"ask"}]
  /\ UNCHANGED <<pc, isClosed, onClose, tableVars, connCount, cmdVars, timerVars,
                 asked, banned>>

(* closeConn: only the first call goes on after roomMapLock.               *)
CloseConn(c) ==
  /\ <<c, "ask">> \in kick.todo
  /\ kick' = [kick EXCEPT !.todo = (@ \ {<<c, "ask">>}) \cup
                ({c} \X {x \in {"send"} : ~asked[c]})]
  /\ Set(asked, c, TRUE)
  /\ UNCHANGED <<pc, isClosed, onClose, tableVars, connCount, cmdVars, timerVars, banned>>

NoTimer(c) == askTimer[c]                                        \* fault
WithTimer(c) == TRUE

SendCloseConn(c) ==
  /\ <<c, "send">> \in kick.todo
  /\ kick' = [kick EXCEPT !.todo = @ \ {<<c, "send">>}]
  /\ Set(askTimer, c, WithTimer(c))
  /\ UNCHANGED <<pc, isClosed, onClose, tableVars, connCount, cmdVars, authTimer,
                 asked, banned>>

-----------------------------------------------------------------------------
ServeStep(c) ==
  Register(c) \/ Wire(c) \/ Hook(c) \/ Count(c) \/ Start(c) \/ ReadEnds(c)

WorkerStep(c) == LoopEnds(c) \/ Receive(c) \/ OnAllowFn(c) \/ Decide(c) \/ Join(c)
CallbackStep(c) == BreakBuf(c) \/ LeaveRooms(c) \/ Unregister(c) \/ CountDown(c)
KickStep == CloseConnBySessionId \/ \E c \in Conn : CloseConn(c) \/ SendCloseConn(c)

Next ==
  \/ \E c \in Conn :
       \/ Accept(c) \/ ServeStep(c) \/ WorkerStep(c) \/ CallbackStep(c)
       \/ \E cmd \in Cmd : PushCmd(c, cmd)
       \/ ConnFails(c) \/ AuthTimerFires(c) \/ AskTimerFires(c)
  \/ \E k \in Key, isBan \in BOOLEAN : Ban(k, isBan)
  \/ KickStep

Spec == Init /\ [][Next]_vars

(* Goroutines run on, OnAllowFn returns, and timers fire.                  *)
Fairness ==
  /\ \A c \in Conn :
       /\ WF_vars(ServeStep(c)) /\ WF_vars(WorkerStep(c)) /\ WF_vars(CallbackStep(c))
       /\ WF_vars(AuthTimerFires(c)) /\ WF_vars(AskTimerFires(c))
  /\ WF_vars(KickStep)

FairSpec == Spec /\ Fairness

-----------------------------------------------------------------------------
(* After a ban and its CloseConnBySessionId, every connection that was     *)
(* approved, or is about to be, has been asked to close: none can pass     *)
(* OnAllowFn before the ban and be registered after the list was taken.    *)
Approving(c) == verdict[c] = "approved" \/ worker[c] = "allow"

BanReachesAll ==
  banned # {} /\ kick = NoKick =>
    \A c \in Conn : Approving(c) /\ ~isClosed[c] => asked[c]

(* A connection whose callback left the rooms stays out of them, whatever  *)
(* handler was still running, and only approved ones were ever in.         *)
RoomsAreGuarded ==
  \A c \in Conn : inRoom[c] =>
    verdict[c] = "approved" /\ onClose[c] \notin {"keys", "count", "done"}

(* The registry forgets a connection when it closes, but for an identity   *)
(* that cmdLoop registered after the callback was through.                 *)
ForgottenUnlessLate ==
  \A c \in Conn : onClose[c] \in {"count", "done"} =>
    \A k \in Key : c \in registry[k] => k \in lateKeys[c]

(* A connection that was asked to close is closed in the end, even if its  *)
(* peer ignores that.                                                      *)
AskedIsClosed == \A c \in Conn : asked[c] ~> isClosed[c]

(* No connection stays undecided.                                          *)
UndecidedIsClosed ==
  \A c \in Conn : pc[c] = "hook" ~> verdict[c] # "none" \/ isClosed[c]

(* A closed connection leaves no goroutine behind, whenever in its life    *)
(* the close came, and connCount counts the open ones in the end.          *)
ClosedEnds ==
  \A c \in Conn : isClosed[c] ~>
    /\ pc[c] = "end" /\ worker[c] = "end" /\ onClose[c] = "done"
    /\ connCount = Cardinality({d \in Conn : onClose[d] = "added"})

=============================================================================
