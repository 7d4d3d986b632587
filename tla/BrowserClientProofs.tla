------------------------ MODULE BrowserClientProofs ------------------------
(***************************************************************************)
(* Proofs about BrowserClient for any rooms, listeners and changes: on an  *)
(* approved connection the server knows the page's rooms, and a listener   *)
(* that entered stays attached, whatever callbacks and old leave functions *)
(* do.                                                                     *)
(***************************************************************************)
EXTENDS BrowserClient, FiniteSetTheorems, SequenceTheorems, TLAPS

-----------------------------------------------------------------------------
(* The page has one WebSocket at a time, and the loop waits for its close; *)
(* this.socket is dropped when it is closed, and it only is approved once  *)
(* it was answered.                                                        *)
OneSocket ==
  /\ ws # "none" <=> loop = "wait"
  /\ socket <=> ws \in {"connecting", "open"}
  /\ Sends /\ connApproved => answered

(* A message event is handled before the loop's next turn.                 *)
FrameOfSocket == frame # <<>> => ws \in {"open", "closing"}

Message ==
  [cmd : {"closeConn"}, isTemp : BOOLEAN] \cup [cmd : {"connAllow", "denyConn"}]
    \cup [cmd : {"denyRoom"}, room : Room]
    \cup [cmd : {"roomValue"}, room : Room, seq : 0 .. MaxSeq]

IsVerdict(m) == m.cmd \in {"connAllow", "denyConn"}

(* The server answers an identity once: a connAllow that is about to be    *)
(* processed is the first of its connection.                               *)
OneVerdict ==
  /\ frame \in Seq(Message)
  /\ \A i, j \in DOMAIN frame : IsVerdict(frame[i]) /\ IsVerdict(frame[j]) => i = j
  /\ \A i \in DOMAIN frame :
       IsVerdict(frame[i]) => answered /\ ~(Sends /\ connApproved)

(* Nothing is entered before the connection is approved.                   *)
NothingBeforeApproval ==
  ws = "connecting" \/ (Sends /\ ~connApproved) => \A r \in Room : sent[r] = 0

AddingType == adding # None => adding \in [l : Listener, o : Obj]

PageInv ==
  /\ TypeOK /\ AddingType /\ OneSocket /\ FrameOfSocket /\ OneVerdict
  /\ NothingBeforeApproval /\ InSync

(* The room of a listener that roomEnter is calling first is still there.  *)
AddsToCurrent == adding # None => current[adding.o[1]] = adding.o[2]

-----------------------------------------------------------------------------
USE DEF roomVars, connVars, authVars, stackVars, serverVars

(* The event of a frame of one or two messages.                            *)
NewMessages ==
  \/ \E m \in Messages : MessageEvent(<<m>>)
  \/ \E m \in Messages : \E n \in Messages : MessageEvent(<<m, n>>)

LEMMA MessagesType ==
  ASSUME TypeOK, NEW m \in Messages
  PROVE  m \in Message /\ (IsVerdict(m) => ~answered)
<1>1. CASE m \in [cmd : {"closeConn"}, isTemp : BOOLEAN]
  BY <1>1 DEF Message, IsVerdict
<1>2. CASE m \in [cmd : {c \in {"connAllow", "denyConn"} : ~answered}]
  BY <1>2 DEF Message, IsVerdict
<1>3. CASE m \in [cmd : {"denyRoom"}, room : {r \in Room : sent[r] > 0}]
  BY <1>3 DEF Message, IsVerdict
<1>4. CASE m \in {[cmd |-> "roomValue", room |-> r, seq |-> serverSeq[r]] :
                    r \in {x \in Room : sent[x] > 0}}
  <2>1. PICK r \in Room : m = [cmd |-> "roomValue", room |-> r, seq |-> serverSeq[r]]
    BY <1>4
  <2>2. serverSeq[r] \in 0 .. MaxSeq
    BY DEF TypeOK
  <2> QED
    BY <2>1, <2>2 DEF Message, IsVerdict
<1> QED
  BY <1>1, <1>2, <1>3, <1>4 DEF Messages

LEMMA MessageCmd ==
  ASSUME NEW m \in Message
  PROVE  /\ m.cmd \in {"closeConn", "connAllow", "denyConn", "denyRoom", "roomValue"}
         /\ m.cmd = "closeConn" => m.isTemp \in BOOLEAN
         /\ m.cmd = "roomValue" => m.room \in Room /\ m.seq \in 0 .. MaxSeq
  BY DEF Message

(* The first message of a frame, and the frame without it.                 *)
LEMMA FrameTail ==
  ASSUME OneVerdict, frame # <<>>, frame' = Tail(frame)
  PROVE  /\ Head(frame) \in Message /\ frame' \in Seq(Message)
         /\ 1 \in DOMAIN frame /\ Head(frame) = frame[1]
         /\ \A i \in DOMAIN frame' : i + 1 \in DOMAIN frame /\ frame'[i] = frame[i + 1]
         /\ \A i, j \in DOMAIN frame' :
              IsVerdict(frame'[i]) /\ IsVerdict(frame'[j]) => i = j
         /\ IsVerdict(Head(frame)) => \A i \in DOMAIN frame' : ~IsVerdict(frame'[i])
<1>1. frame \in Seq(Message) /\ Len(frame) \in Nat \ {0}
  BY DEF OneVerdict
<1>2. /\ Head(frame) \in Message /\ frame' \in Seq(Message)
      /\ 1 \in DOMAIN frame /\ Head(frame) = frame[1]
      /\ DOMAIN frame = 1 .. Len(frame) /\ DOMAIN frame' = 1 .. Len(frame) - 1
      /\ \A i \in DOMAIN frame' : frame'[i] = frame[i + 1]
  BY <1>1
<1>3. \A i \in DOMAIN frame' : i + 1 \in DOMAIN frame /\ i + 1 # 1 /\ i \in Int
  BY <1>1, <1>2
<1>4. \A i, j \in DOMAIN frame' : IsVerdict(frame'[i]) /\ IsVerdict(frame'[j]) => i = j
  BY <1>2, <1>3 DEF OneVerdict
<1>5. IsVerdict(Head(frame)) => \A i \in DOMAIN frame' : ~IsVerdict(frame'[i])
  BY <1>2, <1>3 DEF OneVerdict
<1> QED
  BY <1>2, <1>3, <1>4, <1>5

(* A frame of at most one verdict has no two of them.                      *)
LEMMA OneVerdictOfTwo ==
  ASSUME NEW m, NEW n, Verdicts(<<m, n>>) <= 1
  PROVE  ~(IsVerdict(m) /\ IsVerdict(n))
<1> SUFFICES ASSUME IsVerdict(m), IsVerdict(n) PROVE FALSE
  OBVIOUS
<1> DEFINE f == <<m, n>>
           S == {i \in DOMAIN f : f[i].cmd \in {"connAllow", "denyConn"}}
<1>1. S = 1 .. 2
  BY DEF IsVerdict
<1>2. Cardinality(1 .. 2) = 2
  <2>1. 1 \in Int /\ 2 \in Int /\ ~(1 > 2) /\ 2 - 1 + 1 = 2
    OBVIOUS
  <2> QED
    BY <2>1, FS_Interval, Zenon
<1> QED
  BY <1>1, <1>2 DEF Verdicts

(* What leaving does: the object of the listener, if it is the current one *)
(* and nobody else is in it, is forgotten.                                 *)
Gone(l, o) == onChangeSet[o] \ {l} = {} /\ current[o[1]] # 0 /\ SameObject(o)

LEMMA LeaveFnEffect ==
  ASSUME TypeOK, NEW l \in Listener, NEW o \in Obj, LeaveFn(l, o)
  PROVE  /\ onChangeSet' = [onChangeSet EXCEPT ![o] = @ \ {l}]
         /\ onChangeSet' \in [Obj -> SUBSET Listener]
         /\ IF Gone(l, o)
            THEN /\ current' = [current EXCEPT ![o[1]] = 0]
                 /\ sent' = IF Sends THEN [sent EXCEPT ![o[1]] = 0] ELSE sent
            ELSE UNCHANGED <<current, sent>>
         /\ current' \in [Room -> 0 .. MaxObj] /\ sent' \in [Room -> Nat]
         /\ noNeedIdleCloseTimer' \in BOOLEAN /\ called' \in BOOLEAN
         /\ o[1] \in Room
<1>1. o[1] \in Room /\ 0 \in 0 .. MaxObj
  BY BrowserClientAssumption DEF Obj
<1>2. /\ onChangeSet' = [onChangeSet EXCEPT ![o] = @ \ {l}]
      /\ onChangeSet' \in [Obj -> SUBSET Listener]
  BY DEF LeaveFn, TypeOK
<1>3. IF Gone(l, o)
      THEN /\ current' = [current EXCEPT ![o[1]] = 0]
           /\ sent' = IF Sends THEN [sent EXCEPT ![o[1]] = 0] ELSE sent
      ELSE UNCHANGED <<current, sent>>
  BY DEF LeaveFn, Gone
<1>4. current' \in [Room -> 0 .. MaxObj] /\ sent' \in [Room -> Nat]
  BY <1>1, <1>3 DEF TypeOK
<1>5. noNeedIdleCloseTimer' \in BOOLEAN /\ called' \in BOOLEAN
  BY DEF LeaveFn, TypeOK, InCallback, NoRoomIsLeft
<1> QED
  BY <1>1, <1>2, <1>3, <1>4, <1>5

(* A room that is not there gets an object nobody has been in.             *)
LEMMA NewObject ==
  ASSUME TypeOK, NEW r \in Room, made[r] < MaxObj
  PROVE  made[r] + 1 \in 1 .. MaxObj /\ <<r, made[r] + 1>> \in Obj
         /\ made[r] + 1 \in 0 .. MaxObj
  BY BrowserClientAssumption DEF TypeOK, Obj

LEMMA CurrentObject ==
  ASSUME TypeOK, NEW r \in Room, current[r] # 0
  PROVE  <<r, current[r]>> \in Obj
  BY BrowserClientAssumption DEF TypeOK, Obj

LEMMA InitType == Init => TypeOK
<1> SUFFICES ASSUME Init PROVE TypeOK
  OBVIOUS
<1>1. 0 \in 0 .. MaxObj /\ 0 \in 0 .. MaxSeq /\ -1 \in -1 .. MaxSeq
  BY BrowserClientAssumption
<1>2. /\ current \in [Room -> 0 .. MaxObj] /\ made \in [Room -> 0 .. MaxObj]
      /\ sent \in [Room -> Nat] /\ serverSeq \in [Room -> 0 .. MaxSeq]
      /\ seq \in [Obj -> -1 .. MaxSeq] /\ onChangeSet \in [Obj -> SUBSET Listener]
      /\ joined \in [Listener -> Obj \cup {None}] /\ left \in [Listener -> Obj \cup {None}]
  BY <1>1 DEF Init
<1> QED
  BY <1>2 DEF Init, TypeOK

LEMMA TypePreserved ==
  TypeOK /\ AddingType /\ OneVerdict /\ [Next]_vars => TypeOK'
<1> SUFFICES ASSUME TypeOK, AddingType, OneVerdict, [Next]_vars PROVE TypeOK'
  OBVIOUS
<1> USE DEF TypeOK
<1>1. CASE FirstCallbackReturns
  <2>1. adding.l \in Listener /\ adding.o \in Obj
    BY <1>1 DEF FirstCallbackReturns, AddingType
  <2>2. /\ onChangeSet' \in [Obj -> SUBSET Listener]
        /\ joined' \in [Listener -> Obj \cup {None}]
    BY <1>1, <2>1 DEF FirstCallbackReturns
  <2>3. called' \in BOOLEAN
    BY <1>1 DEF FirstCallbackReturns
  <2> QED
    BY <1>1, <2>2, <2>3 DEF FirstCallbackReturns, InitAfterEnter
<1>2. CASE CallbackReturns
  <2>1. called' \in BOOLEAN
    BY <1>2 DEF CallbackReturns
  <2>2. UNCHANGED <<current, made, onChangeSet, seq, joined, left, loop, ws, socket,
                    answered, isStopListen, connApproved, connDenyLocal,
                    authDenyFatal, hasOnDenyFn, noNeedIdleCloseTimer, sent,
                    serverSeq>>
    BY <1>2 DEF CallbackReturns
  <2> QED
    BY <2>1, <2>2
<1>3. CASE ProcessOneMsg
  <2> DEFINE m == Head(frame)
  <2>1. m \in Message
    BY <1>3, FrameTail DEF ProcessOneMsg
  <2>2. CASE OnConnAllow
    <3>1. sent' \in [Room -> Nat]
      BY <2>2 DEF OnConnAllow
    <3>2. connApproved' \in BOOLEAN /\ connDenyLocal' \in BOOLEAN
      BY <2>2 DEF OnConnAllow
    <3>3. UNCHANGED <<current, made, onChangeSet, seq, joined, left, loop, ws,
                      socket, answered, isStopListen, authDenyFatal,
                      hasOnDenyFn, noNeedIdleCloseTimer, called,
                      serverSeq>>
      BY <1>3, <2>2 DEF ProcessOneMsg, OnConnAllow
    <3> QED
      BY <3>1, <3>2, <3>3
  <2>3. CASE OnDeny(m.cmd = "denyConn")
    <3>1. connDenyLocal' \in BOOLEAN /\ authDenyFatal' \in BOOLEAN
      BY <2>3 DEF OnDeny
    <3>2. ws' \in {"none", "connecting", "open", "closing"} /\ socket' \in BOOLEAN
            /\ answered' \in BOOLEAN /\ isStopListen' \in BOOLEAN
      BY <2>3 DEF OnDeny, Stop, CloseThisSocket
    <3>3. UNCHANGED <<current, made, onChangeSet, seq, joined, left, loop,
                      connApproved, hasOnDenyFn, noNeedIdleCloseTimer,
                      called, sent, serverSeq>>
      BY <1>3, <2>3 DEF ProcessOneMsg, OnDeny
    <3> QED
      BY <3>1, <3>2, <3>3
  <2>4. CASE OnCloseConn(m.isTemp)
    <3>1. /\ isStopListen' \in BOOLEAN /\ socket' \in BOOLEAN
          /\ ws' \in {"none", "connecting", "open", "closing"}
      BY <2>4 DEF OnCloseConn, Stop, CloseThisSocket
    <3>2. UNCHANGED <<current, made, onChangeSet, seq, joined, left, loop, answered,
                      connApproved, connDenyLocal, authDenyFatal,
                      hasOnDenyFn, noNeedIdleCloseTimer, called, sent,
                      serverSeq>>
      BY <1>3, <2>4 DEF ProcessOneMsg, OnCloseConn, Stop, CloseThisSocket
    <3> QED
      BY <3>1, <3>2
  <2>5. CASE m.cmd = "roomValue" /\ OnRoomValue(m)
    <3>1. m.room \in Room /\ m.seq \in -1 .. MaxSeq
      BY <2>1, <2>5, MessageCmd, BrowserClientAssumption
    <3>2. seq' \in [Obj -> -1 .. MaxSeq]
      BY <2>5, <3>1 DEF OnRoomValue
    <3> QED
      BY <1>3, <2>5, <3>2 DEF ProcessOneMsg, OnRoomValue
  <2> QED
    BY <1>3, <2>2, <2>3, <2>4, <2>5 DEF ProcessOneMsg
<1>4. CASE Turn
  <2>1. sent' \in [Room -> Nat]
    BY <1>4 DEF Turn, Dial
  <2>2. /\ ws' \in {"none", "connecting", "open", "closing"} /\ socket' \in BOOLEAN
        /\ answered' \in BOOLEAN /\ loop' \in {"off", "turn", "sleep", "wait"}
    BY <1>4 DEF Turn, Dial
  <2>3. UNCHANGED <<current, made, onChangeSet, seq, joined, left, isStopListen,
                    connApproved, connDenyLocal, authDenyFatal, hasOnDenyFn,
                    noNeedIdleCloseTimer, called, serverSeq>>
    BY <1>4 DEF Turn, LoopRest
  <2> QED
    BY <2>1, <2>2, <2>3
<1>5. CASE WakeUp
  <2>1. sent' \in [Room -> Nat]
    BY <1>5 DEF WakeUp, Dial
  <2>2. /\ ws' \in {"none", "connecting", "open", "closing"} /\ socket' \in BOOLEAN
        /\ answered' \in BOOLEAN /\ loop' \in {"off", "turn", "sleep", "wait"}
    BY <1>5 DEF WakeUp, Dial
  <2>3. UNCHANGED <<current, made, onChangeSet, seq, joined, left, isStopListen,
                    connApproved, connDenyLocal, authDenyFatal, hasOnDenyFn,
                    noNeedIdleCloseTimer, called, serverSeq>>
    BY <1>5 DEF WakeUp, LoopRest
  <2> QED
    BY <2>1, <2>2, <2>3
<1>6. CASE Open
  BY <1>6 DEF Open
<1>7. CASE CloseEvent
  BY <1>7 DEF CloseEvent
<1>8. CASE NoNeedTimerFires
  BY <1>8 DEF NoNeedTimerFires, CloseThisSocket
<1>9. CASE DialOrReadTimeout
  BY <1>9 DEF DialOrReadTimeout, CloseThisSocket
<1>10. ASSUME NEW l \in Listener, NEW r \in Room, RoomEnterNew(l, r) PROVE TypeOK'
  <2>1. current' \in [Room -> 0 .. MaxObj] /\ made' \in [Room -> 0 .. MaxObj]
    BY <1>10, NewObject DEF RoomEnterNew
  <2>2. /\ onChangeSet' \in [Obj -> SUBSET Listener]
        /\ joined' \in [Listener -> Obj \cup {None}]
    BY <1>10, NewObject DEF RoomEnterNew
  <2>3. sent' \in [Room -> Nat] /\ called' \in BOOLEAN
    BY <1>10 DEF RoomEnterNew, InCallback
  <2> QED
    BY <1>10, <2>1, <2>2, <2>3 DEF RoomEnterNew, InitAfterEnter
<1>11. ASSUME NEW l \in Listener, NEW r \in Room, RoomEnterKnown(l, r) PROVE TypeOK'
  BY <1>11 DEF RoomEnterKnown
<1>12. ASSUME NEW l \in Listener, Leave(l) PROVE TypeOK'
  <2>1. joined[l] \in Obj
    BY <1>12 DEF Leave
  <2>2. left' \in [Listener -> Obj \cup {None}] /\ joined' \in [Listener -> Obj \cup
       {None}]
    BY <1>12 DEF Leave
  <2>3. LeaveFn(l, joined[l])
    BY <1>12 DEF Leave
  <2>4. /\ onChangeSet' \in [Obj -> SUBSET Listener]
        /\ current' \in [Room -> 0 .. MaxObj] /\ sent' \in [Room -> Nat]
        /\ noNeedIdleCloseTimer' \in BOOLEAN /\ called' \in BOOLEAN
    BY <2>1, <2>3, LeaveFnEffect
  <2>5. UNCHANGED <<made, seq, loop, ws, socket, answered, isStopListen,
                    connApproved, connDenyLocal, authDenyFatal, hasOnDenyFn,
                    serverSeq>>
    BY <2>3 DEF LeaveFn
  <2> QED
    BY <2>2, <2>4, <2>5
<1>13. ASSUME NEW l \in Listener, LeaveAgain(l) PROVE TypeOK'
  <2>1. left[l] \in Obj /\ LeaveFn(l, left[l])
    BY <1>13 DEF LeaveAgain
  <2>2. /\ onChangeSet' \in [Obj -> SUBSET Listener]
        /\ current' \in [Room -> 0 .. MaxObj] /\ sent' \in [Room -> Nat]
        /\ noNeedIdleCloseTimer' \in BOOLEAN /\ called' \in BOOLEAN
    BY <2>1, LeaveFnEffect
  <2>3. UNCHANGED <<made, seq, joined, left, loop, ws, socket, answered,
                    isStopListen, connApproved, connDenyLocal,
                    authDenyFatal, hasOnDenyFn, serverSeq>>
    BY <1>13, <2>1 DEF LeaveFn, LeaveAgain
  <2> QED
    BY <2>2, <2>3
<1>14. ASSUME NEW b \in BOOLEAN, SetIsStopListen(b) PROVE TypeOK'
  <2>1. called' \in BOOLEAN
    BY <1>14 DEF SetIsStopListen, InCallback
  <2>2. /\ ws' \in {"none", "connecting", "open", "closing"} /\ socket' \in BOOLEAN
        /\ isStopListen' \in BOOLEAN /\ loop' \in {"off", "turn", "sleep", "wait"}
        /\ noNeedIdleCloseTimer' \in BOOLEAN
    BY <1>14 DEF SetIsStopListen, Stop, CloseThisSocket, InitAfterEnter
  <2>3. UNCHANGED <<current, made, onChangeSet, seq, joined, left, answered,
                    connApproved, connDenyLocal, authDenyFatal, hasOnDenyFn,
                    sent, serverSeq>>
    BY <1>14 DEF SetIsStopListen, Stop, CloseThisSocket
  <2> QED
    BY <2>1, <2>2, <2>3
<1>15. CASE NewMessages
  <2>1. PICK f : MessageEvent(f)
    BY <1>15 DEF NewMessages
  <2>2. answered' \in BOOLEAN
    BY <2>1 DEF MessageEvent
  <2> QED
    BY <2>1, <2>2 DEF MessageEvent
<1>16. ASSUME NEW r \in Room, ServerChange(r) PROVE TypeOK'
  <2>1. serverSeq' \in [Room -> 0 .. MaxSeq]
    BY <1>16, BrowserClientAssumption DEF ServerChange
  <2> QED
    BY <1>16, <2>1 DEF ServerChange
<1>17. CASE UNCHANGED vars
  BY <1>17 DEF vars
<1> QED
  BY <1>1, <1>2, <1>3, <1>4, <1>5, <1>6, <1>7, <1>8, <1>9, <1>10, <1>11, <1>12, <1>13,
       <1>14, <1>15, <1>16, <1>17
     DEF Next, StackStep, NewMessages

-----------------------------------------------------------------------------
SocketInv == OneSocket /\ FrameOfSocket /\ OneVerdict

(* A step that has nothing to do with the socket, and does not move the    *)
(* loop to or from its wait.                                               *)
LEMMA SocketKept ==
  ASSUME SocketInv, UNCHANGED <<ws, socket, answered, connApproved, frame>>,
         loop' = loop \/ (loop # "wait" /\ loop' # "wait")
  PROVE  SocketInv'
<1>1. Sends' <=> Sends
  BY DEF Sends
<1>2. OneSocket' /\ FrameOfSocket'
  BY <1>1 DEF SocketInv, OneSocket, FrameOfSocket
<1>3. OneVerdict'
  BY <1>1 DEF SocketInv, OneVerdict
<1> QED
  BY <1>2, <1>3 DEF SocketInv

(* _init_afterEnter starts a loop only when there is none.                 *)
LEMMA InitAfterEnterEffect ==
  ASSUME NEW stopped, InitAfterEnter(stopped)
  PROVE  loop' = loop \/ (loop # "wait" /\ loop' # "wait")
  BY DEF InitAfterEnter, Running

LEMMA CloseEffect ==
  ASSUME CloseThisSocket, OneSocket
  PROVE  /\ UNCHANGED answered /\ ~Sends' /\ ~socket' /\ ws' \notin {"connecting", "open"}
         /\ ws' # "none" <=> ws # "none"
         /\ ws \in {"open", "closing"} => ws' \in {"open", "closing"}
  BY DEF CloseThisSocket, OneSocket, Sends

LEMMA SocketCloses ==
  ASSUME SocketInv, CloseThisSocket, UNCHANGED <<loop, frame>>
  PROVE  SocketInv'
<1>1. OneSocket' /\ FrameOfSocket'
  BY CloseEffect DEF SocketInv, OneSocket, FrameOfSocket
<1>2. OneVerdict'
  BY CloseEffect DEF SocketInv, OneVerdict
<1> QED
  BY <1>1, <1>2 DEF SocketInv

LEMMA DialPreserves ==
  ASSUME SocketInv, Dial, frame' = <<>>
  PROVE  SocketInv'
  BY DEF SocketInv, Dial, OneSocket, FrameOfSocket, OneVerdict, Sends

LEMMA ProcessPreserves ==
  ASSUME SocketInv, ProcessOneMsg
  PROVE  SocketInv'
<1> DEFINE m == Head(frame)
<1>1. frame # <<>> /\ frame' = Tail(frame) /\ loop' = loop /\ loop = "wait"
  BY DEF ProcessOneMsg, SocketInv, OneSocket, FrameOfSocket
<1>2. \/ m.cmd = "connAllow" /\ OnConnAllow
      \/ OnDeny(m.cmd = "denyConn") \/ OnCloseConn(m.isTemp) \/ OnRoomValue(m)
  BY DEF ProcessOneMsg
<1>3. CASE m.cmd = "connAllow" /\ OnConnAllow
  <2>1. UNCHANGED <<ws, socket, answered>> /\ (Sends' <=> Sends) /\ IsVerdict(m)
    BY <1>3 DEF OnConnAllow, Sends, IsVerdict
  <2>2. answered
    BY <1>1, <2>1, FrameTail DEF SocketInv, OneVerdict
  <2>3. OneSocket' /\ FrameOfSocket'
    BY <1>1, <2>1, <2>2 DEF SocketInv, OneSocket, FrameOfSocket
  <2>4. OneVerdict'
    BY <1>1, <2>1, FrameTail DEF SocketInv, OneVerdict
  <2> QED
    BY <2>3, <2>4 DEF SocketInv
<1>4. CASE OnDeny(m.cmd = "denyConn") \/ OnCloseConn(m.isTemp) \/ OnRoomValue(m)
  <2>1. connApproved' = connApproved
          /\ (CloseThisSocket \/ UNCHANGED <<ws, socket, answered>>)
    BY <1>4 DEF OnDeny, OnCloseConn, OnRoomValue, Stop
  <2>2. /\ UNCHANGED answered /\ (Sends' => Sends)
        /\ ws' \in {"open", "closing"} /\ (socket' <=> ws' \in {"connecting", "open"})
    <3>1. CASE CloseThisSocket
      BY <1>1, <3>1, CloseEffect DEF SocketInv, FrameOfSocket
    <3>2. CASE UNCHANGED <<ws, socket, answered>>
      BY <1>1, <3>2 DEF SocketInv, OneSocket, FrameOfSocket, Sends
    <3> QED
      BY <2>1, <3>1, <3>2
  <2>3. OneSocket' /\ FrameOfSocket'
    BY <1>1, <2>1, <2>2 DEF SocketInv, OneSocket, FrameOfSocket
  <2>4. OneVerdict'
    BY <1>1, <2>1, <2>2, FrameTail DEF SocketInv, OneVerdict
  <2> QED
    BY <2>3, <2>4 DEF SocketInv
<1> QED
  BY <1>2, <1>3, <1>4

LEMMA MessageEventPreserves ==
  ASSUME TypeOK, SocketInv, NewMessages
  PROVE  SocketInv'
<1>1. PICK f : /\ MessageEvent(f) /\ f \in Seq(Message)
               /\ \A i, j \in DOMAIN f : IsVerdict(f[i]) /\ IsVerdict(f[j]) => i = j
               /\ \A i \in DOMAIN f : IsVerdict(f[i]) => ~answered
  <2>1. CASE \E m \in Messages : MessageEvent(<<m>>)
    <3>1. PICK m \in Messages : MessageEvent(<<m>>)
      BY <2>1
    <3>2. m \in Message /\ (IsVerdict(m) => ~answered)
      BY MessagesType
    <3> QED
      BY <3>1, <3>2
  <2>2. CASE \E m \in Messages : \E n \in Messages : MessageEvent(<<m, n>>)
    <3>1. PICK m \in Messages, n \in Messages : MessageEvent(<<m, n>>)
      BY <2>2
    <3>2. /\ m \in Message /\ (IsVerdict(m) => ~answered)
          /\ n \in Message /\ (IsVerdict(n) => ~answered)
      BY MessagesType
    <3>3. ~(IsVerdict(m) /\ IsVerdict(n))
      BY <3>1, OneVerdictOfTwo DEF MessageEvent
    <3> DEFINE f == <<m, n>>
    <3>4. f \in Seq(Message) /\ DOMAIN f = {1, 2} /\ f[1] = m /\ f[2] = n
      BY <3>2
    <3> HIDE DEF f
    <3>5. MessageEvent(f)
      BY <3>1 DEF f
    <3> QED
      BY <3>2, <3>3, <3>4, <3>5
  <2> QED
    BY <2>1, <2>2 DEF NewMessages
<1>2. /\ ws = "open" /\ frame' = f /\ UNCHANGED <<ws, socket, loop, connApproved>>
      /\ answered' = (answered \/ Verdicts(f) > 0)
  BY <1>1 DEF MessageEvent
<1>3. Sends' <=> Sends
  BY <1>2 DEF Sends
<1>4. OneSocket' /\ FrameOfSocket'
  BY <1>2, <1>3 DEF SocketInv, OneSocket, FrameOfSocket
<1>5. ASSUME NEW i \in DOMAIN f, IsVerdict(f[i]) PROVE Verdicts(f) > 0
  <2> DEFINE S == {j \in DOMAIN f : f[j].cmd \in {"connAllow", "denyConn"}}
  <2>1. i \in S
    BY <1>5 DEF IsVerdict
  <2>2. IsFiniteSet(DOMAIN f)
    BY <1>1, FS_Interval
  <2>3. IsFiniteSet(S)
    BY <2>2, FS_Subset
  <2>4. Cardinality(S) \in Nat /\ Cardinality(S) # 0
    BY <2>1, <2>3, FS_CardinalityType, FS_EmptySet
  <2> QED
    BY <2>4 DEF Verdicts
<1>6. OneVerdict'
  BY <1>1, <1>2, <1>3, <1>5 DEF SocketInv, OneSocket, OneVerdict
<1> QED
  BY <1>4, <1>6 DEF SocketInv

LEMMA SocketPreserved == TypeOK /\ SocketInv /\ [Next]_vars => SocketInv'
<1> SUFFICES ASSUME TypeOK, SocketInv, [Next]_vars PROVE SocketInv'
  OBVIOUS
<1>1. CASE FirstCallbackReturns
  BY <1>1, SocketKept, InitAfterEnterEffect DEF FirstCallbackReturns
<1>2. CASE CallbackReturns
  BY <1>2, SocketKept DEF CallbackReturns
<1>3. CASE ProcessOneMsg
  BY <1>3, ProcessPreserves
<1>4. CASE Turn
  <2>1. loop = "turn" /\ frame' = frame /\ frame = <<>>
    BY <1>4 DEF Turn, LoopRest, SocketInv, OneSocket, FrameOfSocket
  <2>2. CASE Dial
    BY <2>1, <2>2, DialPreserves
  <2>3. CASE ~Dial
    <3>1. loop' \in {"off", "sleep"} /\ UNCHANGED <<ws, socket, answered, connApproved>>
      BY <1>4, <2>3 DEF Turn, LoopRest
    <3> QED
      BY <2>1, <3>1, SocketKept
  <2> QED
    BY <2>2, <2>3
<1>5. CASE WakeUp
  <2>1. loop = "sleep" /\ frame' = frame /\ frame = <<>>
    BY <1>5 DEF WakeUp, LoopRest, Busy
  <2>2. CASE HasNeed
    BY <1>5, <2>1, <2>2, DialPreserves DEF WakeUp
  <2>3. CASE ~HasNeed
    BY <1>5, <2>1, <2>3, SocketKept DEF WakeUp, LoopRest
  <2> QED
    BY <2>2, <2>3
<1>6. CASE Open
  BY <1>6 DEF Open, SocketInv, OneSocket, FrameOfSocket, OneVerdict, Busy, Sends
<1>7. CASE CloseEvent
  BY <1>7 DEF CloseEvent, SocketInv, OneSocket, FrameOfSocket, OneVerdict, Busy, Sends
<1>8. CASE NoNeedTimerFires
  BY <1>8, SocketCloses DEF NoNeedTimerFires
<1>9. CASE DialOrReadTimeout
  BY <1>9, SocketCloses DEF DialOrReadTimeout
<1>10. ASSUME NEW l \in Listener, NEW r \in Room, RoomEnterNew(l, r) PROVE SocketInv'
  BY <1>10, SocketKept, InitAfterEnterEffect DEF RoomEnterNew
<1>11. ASSUME NEW l \in Listener, NEW r \in Room, RoomEnterKnown(l, r) PROVE SocketInv'
  BY <1>11, SocketKept DEF RoomEnterKnown
<1>12. ASSUME NEW l \in Listener, Leave(l) PROVE SocketInv'
  BY <1>12, SocketKept DEF Leave, LeaveFn
<1>13. ASSUME NEW l \in Listener, LeaveAgain(l) PROVE SocketInv'
  BY <1>13, SocketKept DEF LeaveAgain, LeaveFn
<1>14. ASSUME NEW b \in BOOLEAN, SetIsStopListen(b) PROVE SocketInv'
  <2>1. UNCHANGED <<frame, connApproved>>
    BY <1>14 DEF SetIsStopListen
  <2>2. CASE Stop /\ UNCHANGED loop
    BY <2>1, <2>2, SocketCloses DEF Stop
  <2>3. CASE InitAfterEnter(FALSE) /\ UNCHANGED connVars
    BY <2>1, <2>3, SocketKept, InitAfterEnterEffect
  <2> QED
    BY <1>14, <2>2, <2>3 DEF SetIsStopListen
<1>15. CASE NewMessages
  BY <1>15, MessageEventPreserves
<1>16. ASSUME NEW r \in Room, ServerChange(r) PROVE SocketInv'
  BY <1>16, SocketKept DEF ServerChange
<1>17. CASE UNCHANGED vars
  BY <1>17, SocketKept DEF vars
<1> QED
  BY <1>1, <1>2, <1>3, <1>4, <1>5, <1>6, <1>7, <1>8, <1>9, <1>10, <1>11, <1>12, <1>13,
       <1>14, <1>15, <1>16, <1>17
     DEF Next, StackStep, NewMessages

-----------------------------------------------------------------------------
SyncInv == NothingBeforeApproval /\ InSync

(* A step that neither enters nor leaves a room and does not touch the     *)
(* connection but to close it.                                             *)
LEMMA SyncKept ==
  ASSUME SyncInv, UNCHANGED <<current, sent, connApproved>>,
         Sends' => Sends, ws' = "connecting" => ws = "connecting"
  PROVE  SyncInv'
  BY DEF SyncInv, NothingBeforeApproval, InSync

LEMMA LeaveSync ==
  ASSUME TypeOK, SyncInv, NEW l \in Listener, NEW o \in Obj, LeaveFn(l, o)
  PROVE  SyncInv'
<1>1. UNCHANGED <<ws, socket, connApproved>> /\ (Sends' <=> Sends)
  BY DEF LeaveFn, Sends
<1>2. CASE Gone(l, o)
  <2>1. /\ current' = [current EXCEPT ![o[1]] = 0] /\ o[1] \in Room
        /\ sent' = IF Sends THEN [sent EXCEPT ![o[1]] = 0] ELSE sent
    BY <1>2, LeaveFnEffect
  <2>2. current \in [Room -> 0 .. MaxObj] /\ sent \in [Room -> Nat]
    BY DEF TypeOK
  <2>3. NothingBeforeApproval'
    BY <1>1, <2>1, <2>2 DEF SyncInv, NothingBeforeApproval
  <2>4. InSync'
    BY <1>1, <2>1, <2>2 DEF SyncInv, InSync
  <2> QED
    BY <2>3, <2>4 DEF SyncInv
<1>3. CASE ~Gone(l, o)
  BY <1>1, <1>3, LeaveFnEffect, SyncKept
<1> QED
  BY <1>2, <1>3

LEMMA EnterSync ==
  ASSUME TypeOK, SyncInv, OneSocket, NEW l \in Listener, NEW r \in Room, RoomEnterNew(l, r)
  PROVE  SyncInv'
<1>1. /\ current[r] = 0 /\ current' = [current EXCEPT ![r] = made[r] + 1]
      /\ sent' = IF SendsEnter THEN [sent EXCEPT ![r] = @ + 1] ELSE sent
      /\ UNCHANGED <<ws, socket, connApproved>> /\ (Sends' <=> Sends)
  BY DEF RoomEnterNew, Sends
<1>2. current \in [Room -> 0 .. MaxObj] /\ sent \in [Room -> Nat] /\ made[r] + 1 # 0
  BY NewObject DEF TypeOK, RoomEnterNew
<1>3. NothingBeforeApproval'
  BY <1>1, <1>2 DEF SyncInv, NothingBeforeApproval, SendsEnter, Sends
<1>4. ASSUME Sends, connApproved, NEW q \in Room
      PROVE  sent'[q] = IF current'[q] # 0 THEN 1 ELSE 0
  BY <1>1, <1>2, <1>4 DEF SyncInv, InSync, SendsEnter
<1>5. InSync'
  BY <1>1, <1>4 DEF InSync
<1> QED
  BY <1>3, <1>5 DEF SyncInv

LEMMA ProcessSync ==
  ASSUME TypeOK, SocketInv, SyncInv, ProcessOneMsg
  PROVE  SyncInv'
<1> DEFINE m == Head(frame)
<1>1. frame # <<>> /\ frame' = Tail(frame) /\ ws \in {"open", "closing"} /\ current' = current
  BY DEF ProcessOneMsg, SocketInv, FrameOfSocket
<1>2. \/ m.cmd = "connAllow" /\ OnConnAllow
      \/ OnDeny(m.cmd = "denyConn") \/ OnCloseConn(m.isTemp) \/ OnRoomValue(m)
  BY DEF ProcessOneMsg
<1>3. CASE m.cmd = "connAllow" /\ OnConnAllow
  <2>1. /\ connApproved' = TRUE /\ UNCHANGED <<ws, socket>> /\ (Sends' <=> Sends)
        /\ sent' = [r \in Room |-> sent[r] + IF Sends /\ r \in AllRooms THEN 1 ELSE 0]
    BY <1>3 DEF OnConnAllow, Sends
  <2>2. Sends => ~connApproved
    BY <1>1, <1>3, FrameTail DEF SocketInv, OneVerdict, IsVerdict
  <2>3. ASSUME Sends, NEW r \in Room
        PROVE  sent'[r] = IF current'[r] # 0 THEN 1 ELSE 0
    <3>1. sent[r] = 0
      BY <2>2, <2>3 DEF SyncInv, NothingBeforeApproval
    <3> QED
      BY <1>1, <2>1, <2>3, <3>1 DEF AllRooms
  <2> QED
    BY <1>1, <2>1, <2>3 DEF SyncInv, NothingBeforeApproval, InSync
<1>4. CASE OnDeny(m.cmd = "denyConn") \/ OnCloseConn(m.isTemp) \/ OnRoomValue(m)
  <2>1. UNCHANGED <<connApproved, sent>>
          /\ (CloseThisSocket \/ UNCHANGED <<ws, socket, answered>>)
    BY <1>4 DEF OnDeny, OnCloseConn, OnRoomValue, Stop
  <2>2. CASE CloseThisSocket
    BY <1>1, <2>1, <2>2, CloseEffect, SyncKept DEF SocketInv
  <2>3. CASE UNCHANGED <<ws, socket, answered>>
    BY <1>1, <2>1, <2>3, SyncKept DEF Sends
  <2> QED
    BY <2>1, <2>2, <2>3
<1> QED
  BY <1>2, <1>3, <1>4

LEMMA DialSync ==
  ASSUME Dial
  PROVE  SyncInv'
  BY DEF Dial, SyncInv, NothingBeforeApproval, InSync, Sends

LEMMA SyncPreserved == TypeOK /\ SocketInv /\ SyncInv /\ [Next]_vars => SyncInv'
<1> SUFFICES ASSUME TypeOK, SocketInv, SyncInv, [Next]_vars PROVE SyncInv'
  OBVIOUS
<1>1. CASE FirstCallbackReturns
  BY <1>1, SyncKept DEF FirstCallbackReturns, Sends
<1>2. CASE CallbackReturns
  BY <1>2, SyncKept DEF CallbackReturns, Sends
<1>3. CASE ProcessOneMsg
  BY <1>3, ProcessSync
<1>4. CASE Turn
  <2>1. CASE Dial
    BY <2>1, DialSync
  <2>2. CASE ~Dial
    BY <1>4, <2>2, SyncKept DEF Turn, LoopRest, Sends
  <2> QED
    BY <2>1, <2>2
<1>5. CASE WakeUp
  <2>1. CASE HasNeed
    BY <1>5, <2>1, DialSync DEF WakeUp
  <2>2. CASE ~HasNeed
    BY <1>5, <2>2, SyncKept DEF WakeUp, LoopRest, Sends
  <2> QED
    BY <2>1, <2>2
<1>6. CASE Open
  BY <1>6 DEF Open, SyncInv, NothingBeforeApproval, InSync
<1>7. CASE CloseEvent
  BY <1>7, SyncKept DEF CloseEvent, Sends
<1>8. CASE NoNeedTimerFires
  BY <1>8, SyncKept, CloseEffect DEF NoNeedTimerFires, SocketInv
<1>9. CASE DialOrReadTimeout
  BY <1>9, SyncKept, CloseEffect DEF DialOrReadTimeout, SocketInv
<1>10. ASSUME NEW l \in Listener, NEW r \in Room, RoomEnterNew(l, r) PROVE SyncInv'
  BY <1>10, EnterSync DEF SocketInv
<1>11. ASSUME NEW l \in Listener, NEW r \in Room, RoomEnterKnown(l, r) PROVE SyncInv'
  BY <1>11, SyncKept DEF RoomEnterKnown, Sends
<1>12. ASSUME NEW l \in Listener, Leave(l) PROVE SyncInv'
  BY <1>12, LeaveSync DEF Leave, TypeOK
<1>13. ASSUME NEW l \in Listener, LeaveAgain(l) PROVE SyncInv'
  BY <1>13, LeaveSync DEF LeaveAgain, TypeOK
<1>14. ASSUME NEW b \in BOOLEAN, SetIsStopListen(b) PROVE SyncInv'
  <2>1. UNCHANGED <<current, sent, connApproved>>
    BY <1>14 DEF SetIsStopListen
  <2>2. CASE Stop
    BY <2>1, <2>2, SyncKept, CloseEffect DEF Stop, SocketInv
  <2>3. CASE UNCHANGED connVars
    BY <2>1, <2>3, SyncKept DEF Sends
  <2> QED
    BY <1>14, <2>2, <2>3 DEF SetIsStopListen
<1>15. CASE NewMessages
  <2>1. PICK f : MessageEvent(f)
    BY <1>15 DEF NewMessages
  <2> QED
    BY <2>1, SyncKept DEF MessageEvent, Sends
<1>16. ASSUME NEW r \in Room, ServerChange(r) PROVE SyncInv'
  BY <1>16, SyncKept DEF ServerChange, Sends
<1>17. CASE UNCHANGED vars
  BY <1>17, SyncKept DEF vars, Sends
<1> QED
  BY <1>1, <1>2, <1>3, <1>4, <1>5, <1>6, <1>7, <1>8, <1>9, <1>10, <1>11, <1>12, <1>13,
       <1>14, <1>15, <1>16, <1>17
     DEF Next, StackStep, NewMessages

-----------------------------------------------------------------------------
AttachedInv == AddsToCurrent /\ ListenersAttached

LEMMA AddingTypePreserved == TypeOK /\ AddingType /\ [Next]_vars => AddingType'
<1> SUFFICES ASSUME TypeOK, AddingType, [Next]_vars PROVE AddingType'
  OBVIOUS
<1>1. CASE adding' = adding
  BY <1>1 DEF AddingType
<1>2. CASE adding' = None
  BY <1>2 DEF AddingType
<1>3. ASSUME NEW l \in Listener, NEW r \in Room, RoomEnterKnown(l, r) PROVE AddingType'
  <2>1. <<r, current[r]>> \in Obj /\ adding' = [l |-> l, o |-> <<r, current[r]>>]
    BY <1>3, CurrentObject DEF RoomEnterKnown
  <2> QED
    BY <2>1 DEF AddingType
<1>4. CASE ~\E l \in Listener, r \in Room : RoomEnterKnown(l, r)
  <2>1. adding' = adding \/ adding' = None
    BY <1>4 DEF Next, vars, StackStep, FirstCallbackReturns, CallbackReturns, ProcessOneMsg,
                Turn, LoopRest, WakeUp, Open, CloseEvent, NoNeedTimerFires,
                DialOrReadTimeout, RoomEnterNew, Leave, LeaveAgain, LeaveFn,
                SetIsStopListen, MessageEvent, ServerChange
  <2> QED
    BY <1>1, <1>2, <2>1
<1> QED
  BY <1>3, <1>4

LEMMA AttachedKept ==
  ASSUME AttachedInv, UNCHANGED <<current, joined, onChangeSet, adding>>
  PROVE  AttachedInv'
  BY DEF AttachedInv, AddsToCurrent, ListenersAttached

(* Leaving an object, with a leave function that may be an old one, only   *)
(* detaches the listener it is about.                                      *)
LEMMA LeaveAttached ==
  ASSUME TypeOK, ListenersAttached, NEW l \in Listener, NEW o \in Obj, LeaveFn(l, o),
         NEW k \in Listener, joined[k] # None, k # l \/ joined[k] # o
  PROVE  current'[joined[k][1]] = joined[k][2] /\ k \in onChangeSet'[joined[k]]
<1> DEFINE p == joined[k]
<1>1. p \in Obj /\ current[p[1]] = p[2] /\ k \in onChangeSet[p] /\ p[1] \in Room
  BY DEF TypeOK, ListenersAttached, Obj
<1>2. onChangeSet' = [onChangeSet EXCEPT ![o] = @ \ {l}]
  BY LeaveFnEffect
<1>3. k \in onChangeSet'[p]
  BY <1>1, <1>2 DEF TypeOK
<1>4. CASE ~Gone(l, o)
  BY <1>1, <1>3, <1>4, LeaveFnEffect
<1>5. CASE Gone(l, o)
  <2>1. onChangeSet[o] \ {l} = {} /\ current[o[1]] = o[2]
    BY <1>5 DEF Gone, SameObject
  <2>2. p # o
    BY <1>1, <2>1
  <2>3. p[1] # o[1]
    BY <1>1, <2>1, <2>2 DEF Obj
  <2>4. current' = [current EXCEPT ![o[1]] = 0]
    BY <1>5, LeaveFnEffect
  <2>5. current'[p[1]] = current[p[1]]
    BY <1>1, <2>3, <2>4 DEF TypeOK
  <2> QED
    BY <1>1, <1>3, <2>5
<1> QED
  BY <1>4, <1>5

LEMMA EnterAttached ==
  ASSUME TypeOK, AddingType, AttachedInv, NEW l \in Listener, NEW r \in Room,
         RoomEnterNew(l, r)
  PROVE  AttachedInv'
<1> DEFINE o == <<r, made[r] + 1>>
<1>1. /\ current[r] = 0 /\ o \in Obj /\ adding' = adding
      /\ current' = [current EXCEPT ![r] = o[2]]
      /\ onChangeSet' = [onChangeSet EXCEPT ![o] = {l}]
      /\ joined' = [joined EXCEPT ![l] = o]
  BY NewObject DEF RoomEnterNew
<1> HIDE DEF o
<1>t. /\ current \in [Room -> 0 .. MaxObj] /\ onChangeSet \in [Obj -> SUBSET Listener]
      /\ joined \in [Listener -> Obj \cup {None}]
  BY DEF TypeOK
<1>0. o[1] = r
  BY DEF o
<1>2. ASSUME NEW p \in Obj, current[p[1]] = p[2]
      PROVE  p[1] # r /\ p # o /\ p[1] \in Room /\ current'[p[1]] = p[2]
  <2>1. p[1] \in Room /\ p[2] # 0
    BY DEF Obj
  <2>2. p[1] # r
    BY <1>1, <1>2, <2>1
  <2> QED
    BY <1>0, <1>1, <1>t, <1>2, <2>1, <2>2
<1>3. AddsToCurrent'
  BY <1>1, <1>2 DEF AttachedInv, AddsToCurrent, AddingType
<1>4. ASSUME NEW k \in Listener, joined'[k] # None
      PROVE  current'[joined'[k][1]] = joined'[k][2] /\ k \in onChangeSet'[joined'[k]]
  <2>1. CASE k = l
    BY <1>0, <1>1, <1>t, <2>1
  <2>2. CASE k # l
    <3>1. joined'[k] = joined[k] /\ joined[k] \in Obj
      BY <1>1, <1>t, <1>4, <2>2
    <3>2. current[joined[k][1]] = joined[k][2] /\ k \in onChangeSet[joined[k]]
      BY <1>4, <3>1 DEF AttachedInv, ListenersAttached
    <3>3. joined[k] # o /\ current'[joined[k][1]] = joined[k][2]
      BY <1>2, <3>1, <3>2
    <3> QED
      BY <1>1, <1>t, <3>1, <3>2, <3>3
  <2> QED
    BY <2>1, <2>2
<1>5. ListenersAttached'
  BY <1>4 DEF ListenersAttached
<1> QED
  BY <1>3, <1>5 DEF AttachedInv

LEMMA AddAttached ==
  ASSUME TypeOK, AddingType, AttachedInv, FirstCallbackReturns
  PROVE  AttachedInv'
<1> DEFINE l == adding.l
           o == adding.o
<1>1. /\ l \in Listener /\ o \in Obj /\ current[o[1]] = o[2]
      /\ current' = current /\ adding' = None
      /\ onChangeSet' = [onChangeSet EXCEPT ![o] = @ \cup {l}]
      /\ joined' = [joined EXCEPT ![l] = o]
  BY DEF FirstCallbackReturns, AddingType, AttachedInv, AddsToCurrent
<1> HIDE DEF l, o
<1>2. ASSUME NEW k \in Listener, joined'[k] # None
      PROVE  current'[joined'[k][1]] = joined'[k][2] /\ k \in onChangeSet'[joined'[k]]
  <2>1. CASE k = l
    BY <1>1, <2>1 DEF TypeOK
  <2>2. CASE k # l
    <3>1. joined'[k] = joined[k] /\ joined[k] \in Obj
      BY <1>1, <1>2, <2>2 DEF TypeOK
    <3> QED
      BY <1>1, <1>2, <3>1 DEF TypeOK, AttachedInv, ListenersAttached
  <2> QED
    BY <2>1, <2>2
<1> QED
  BY <1>1, <1>2 DEF AttachedInv, AddsToCurrent, ListenersAttached

LEMMA AttachedPreserved ==
  ASSUME ~LeaveInFirst
  PROVE  TypeOK /\ AddingType /\ AttachedInv /\ [Next]_vars => AttachedInv'
<1> SUFFICES ASSUME TypeOK, AddingType, AttachedInv, [Next]_vars PROVE AttachedInv'
  OBVIOUS
<1>1. CASE FirstCallbackReturns
  BY <1>1, AddAttached
<1>2. CASE CallbackReturns
  BY <1>2, AttachedKept DEF CallbackReturns
<1>3. CASE ProcessOneMsg
  BY <1>3, AttachedKept DEF ProcessOneMsg
<1>4. CASE Turn
  BY <1>4, AttachedKept DEF Turn, LoopRest
<1>5. CASE WakeUp
  BY <1>5, AttachedKept DEF WakeUp, LoopRest
<1>6. CASE Open
  BY <1>6, AttachedKept DEF Open
<1>7. CASE CloseEvent
  BY <1>7, AttachedKept DEF CloseEvent
<1>8. CASE NoNeedTimerFires
  BY <1>8, AttachedKept DEF NoNeedTimerFires
<1>9. CASE DialOrReadTimeout
  BY <1>9, AttachedKept DEF DialOrReadTimeout
<1>10. ASSUME NEW l \in Listener, NEW r \in Room, RoomEnterNew(l, r) PROVE AttachedInv'
  BY <1>10, EnterAttached
<1>11. ASSUME NEW l \in Listener, NEW r \in Room, RoomEnterKnown(l, r) PROVE
     AttachedInv'
  <2>1. adding' = [l |-> l, o |-> <<r, current[r]>>]
    BY <1>11 DEF RoomEnterKnown
  <2>2. current[adding'.o[1]] = adding'.o[2]
    BY <2>1
  <2> QED
    BY <1>11, <2>2 DEF RoomEnterKnown, AttachedInv, AddsToCurrent, ListenersAttached
<1>12. ASSUME NEW l \in Listener, Leave(l) PROVE AttachedInv'
  <2>1. joined[l] \in Obj /\ LeaveFn(l, joined[l]) /\ adding = None /\ adding' = None
    BY <1>12 DEF Leave, LeaveFn, TypeOK
  <2>2. joined' = [joined EXCEPT ![l] = None]
    BY <1>12 DEF Leave
  <2>3. \A k \in Listener : joined'[k] # None => k # l /\ joined'[k] = joined[k]
    BY <2>2 DEF TypeOK
  <2> QED
    BY <2>1, <2>3, LeaveAttached DEF AttachedInv, AddsToCurrent, ListenersAttached
<1>13. ASSUME NEW l \in Listener, LeaveAgain(l) PROVE AttachedInv'
  <2>1. /\ left[l] \in Obj /\ left[l] # joined[l] /\ LeaveFn(l, left[l])
        /\ adding = None /\ adding' = None /\ joined' = joined
    BY <1>13 DEF LeaveAgain, LeaveFn, TypeOK
  <2> QED
    BY <2>1, LeaveAttached DEF AttachedInv, AddsToCurrent, ListenersAttached
<1>14. ASSUME NEW b \in BOOLEAN, SetIsStopListen(b) PROVE AttachedInv'
  BY <1>14, AttachedKept DEF SetIsStopListen
<1>15. CASE NewMessages
  <2>1. PICK f : MessageEvent(f)
    BY <1>15 DEF NewMessages
  <2> QED
    BY <2>1, AttachedKept DEF MessageEvent
<1>16. ASSUME NEW r \in Room, ServerChange(r) PROVE AttachedInv'
  BY <1>16, AttachedKept DEF ServerChange
<1>17. CASE UNCHANGED vars
  BY <1>17, AttachedKept DEF vars
<1> QED
  BY <1>1, <1>2, <1>3, <1>4, <1>5, <1>6, <1>7, <1>8, <1>9, <1>10, <1>11, <1>12, <1>13,
       <1>14, <1>15, <1>16, <1>17
     DEF Next, StackStep, NewMessages

LEMMA PageInvCorrect == Spec => []PageInv
<1>1. Init => PageInv
  <2> SUFFICES ASSUME Init PROVE PageInv
    OBVIOUS
  <2>1. /\ ws = "none" /\ loop = "off" /\ ~socket /\ ~Sends /\ frame = <<>> /\ adding = None
    BY DEF Init, Sends
  <2>2. SocketInv
    BY <2>1 DEF SocketInv, OneSocket, FrameOfSocket, OneVerdict
  <2>3. SyncInv /\ AddingType
    BY <2>1 DEF SyncInv, NothingBeforeApproval, InSync, AddingType
  <2> QED
    BY <2>2, <2>3, InitType DEF PageInv, SocketInv, SyncInv
<1>2. PageInv /\ [Next]_vars => PageInv'
  BY TypePreserved, AddingTypePreserved, SocketPreserved, SyncPreserved
  DEF PageInv, SocketInv, SyncInv
<1> QED
  BY <1>1, <1>2, PTL DEF Spec

-----------------------------------------------------------------------------
(* The page's variables keep their types, whatever a server puts into a    *)
(* frame.                                                                  *)
THEOREM TypeCorrect == Spec => []TypeOK
<1>1. PageInv => TypeOK
  BY DEF PageInv
<1> QED
  BY <1>1, PageInvCorrect, PTL

(* On an approved connection the server has been told, once each, of the   *)
(* rooms the page is in and of no other: roomEnter, leave and connAllow    *)
(* tell it between them, also from callbacks inside a frame.               *)
THEOREM InSyncCorrect == Spec => []InSync
<1>1. PageInv => InSync
  BY DEF PageInv
<1> QED
  BY <1>1, PageInvCorrect, PTL

(* A listener that entered and did not leave is in the room's object, also *)
(* when leave functions of objects long gone are called, unless the page   *)
(* leaves inside the callback that roomEnter itself makes.                 *)
THEOREM ListenersAttachedCorrect ==
  ASSUME ~LeaveInFirst
  PROVE  Spec => []ListenersAttached
<1>1. Init => AttachedInv
  BY DEF Init, AttachedInv, AddsToCurrent, ListenersAttached
<1>2. PageInv /\ AttachedInv /\ [Next]_vars => AttachedInv'
  BY AttachedPreserved DEF PageInv
<1>3. AttachedInv => ListenersAttached
  BY DEF AttachedInv
<1> QED
  BY <1>1, <1>2, <1>3, PageInvCorrect, PTL DEF Spec

=============================================================================
