---------------------------- MODULE BrowserClient ----------------------------
(***************************************************************************)
(* hgmRn_Client of the browser: rooms and listeners, the connection loop,  *)
(* the events of its WebSocket, the messages of a frame, and callbacks     *)
(* that call the client again.  There is one JavaScript thread: an action  *)
(* is what runs between two awaits, or between two calls of a listener,    *)
(* and nothing else runs while the stack is Busy.  After close() a         *)
(* WebSocket delivers no message, and its close event comes later; but the *)
(* messages that share a frame with the one that closed are processed.     *)
(*                                                                         *)
(* KeepAlive has the timers of the Go client, which this one copies; here  *)
(* a dial or read timeout may come at any time.  A room has one epoch, not *)
(* the empty one (RoomNotify has the rest), and LiveData is left out.      *)
(***************************************************************************)
EXTENDS Integers, Sequences, FiniteSets, SequencesExt

CONSTANTS
  Room, Listener,     \* a listener is one onChangeFn
  StopInSleep,        \* the page may call SetIsStopListen(true) in a sleep
  LeaveInFirst,       \* and leave in the callback roomEnter itself makes
  MaxObj, MaxSeq      \* bounds: hgmRn_room_t objects and changes of a room

ASSUME BrowserClientAssumption ==
  {StopInSleep, LeaveInFirst} \subseteq BOOLEAN /\ MaxObj \in Nat
  /\ MaxSeq \in Nat

Obj == Room \X (1 .. MaxObj)
None == <<>>

VARIABLES
  current,        \* roomMap: the number of the room's object, 0 for none
  made,           \* objects made
  onChangeSet, seq,     \* of an object; seq -1: no value came yet
  joined,         \* the object roomEnter put a listener into
  left,           \* and the one its old leave function is about
  loop,           \* "off", "turn" (runs now), "sleep", "wait" (for close)
  ws, socket,     \* the WebSocket, and whether this.socket is it
  isStopListen, connApproved, connDenyLocal, authDenyFatal,
  noNeedIdleCloseTimer,
  frame,          \* messages of the event being handled
  calls,          \* listeners still to be called with the value
  adding,         \* roomEnter in its first callback: [l, o]
  called,         \* the running callback has called the client
  sent,           \* what the server was told about a room on this ws
  answered,       \* the server answered the identity
  serverSeq,
  hasOnDenyFn     \* OnDenyFn is registered; the page decides at the start

roomVars == <<current, made, onChangeSet, joined, left>>
connVars == <<ws, socket, answered>>
authVars == <<connApproved, connDenyLocal, authDenyFatal>>
stackVars == <<frame, calls, adding, called>>
serverVars == <<seq, serverSeq, hasOnDenyFn>>
vars == <<roomVars, loop, connVars, isStopListen, authVars, noNeedIdleCloseTimer,
          stackVars, sent, serverVars>>

TypeOK ==
  /\ current \in [Room -> 0 .. MaxObj] /\ made \in [Room -> 0 .. MaxObj]
  /\ onChangeSet \in [Obj -> SUBSET Listener] /\ seq \in [Obj -> -1 .. MaxSeq]
  /\ joined \in [Listener -> Obj \cup {None}] /\ left \in [Listener -> Obj \cup {None}]
  /\ loop \in {"off", "turn", "sleep", "wait"}
  /\ ws \in {"none", "connecting", "open", "closing"}
  /\ socket \in BOOLEAN /\ answered \in BOOLEAN /\ isStopListen \in BOOLEAN
  /\ connApproved \in BOOLEAN /\ connDenyLocal \in BOOLEAN
  /\ authDenyFatal \in BOOLEAN /\ hasOnDenyFn \in BOOLEAN
  /\ noNeedIdleCloseTimer \in BOOLEAN /\ called \in BOOLEAN
  /\ sent \in [Room -> Nat] /\ serverSeq \in [Room -> 0 .. MaxSeq]

Init ==
  /\ current = [r \in Room |-> 0] /\ made = current /\ sent = current
  /\ onChangeSet = [o \in Obj |-> {}] /\ seq = [o \in Obj |-> -1]
  /\ joined = [l \in Listener |-> None] /\ left = joined
  /\ loop = "off" /\ ws = "none" /\ socket = FALSE /\ answered = FALSE
  /\ isStopListen = FALSE /\ connApproved = FALSE /\ connDenyLocal = FALSE
  /\ authDenyFatal = FALSE /\ noNeedIdleCloseTimer = FALSE
  /\ frame = <<>> /\ calls = <<>> /\ adding = None /\ called = FALSE
  /\ serverSeq = [r \in Room |-> 0] /\ hasOnDenyFn \in BOOLEAN

-----------------------------------------------------------------------------
HasNeed == \E r \in Room : current[r] # 0
InCallback == calls # <<>> \/ adding # None
Busy == frame # <<>> \/ InCallback \/ loop = "turn"
MayCall == loop # "turn" /\ (~Busy \/ (InCallback /\ ~called))
Sends == socket /\ ws = "open"                      \* _sendBinaryMsg

CloseThisSocket ==
  /\ socket' = FALSE
  /\ ws' = IF socket THEN "closing" ELSE ws
  /\ UNCHANGED answered

(* _init_afterEnter; the loop runs to its first await at once.             *)
Running == loop # "off"
InitAfterEnter(stopped) ==
  /\ noNeedIdleCloseTimer' = FALSE
  /\ loop' = IF Running \/ stopped THEN loop ELSE "turn"

(* roomEnter of a room that is not there.                                  *)
EnterUnapproved == Sends                                         \* fault
SendsEnter == Sends /\ connApproved

RoomEnterNew(l, r) ==
  /\ MayCall /\ joined[l] = None
  /\ ~authDenyFatal /\ ~connDenyLocal
  /\ current[r] = 0 /\ made[r] < MaxObj
  /\ LET o == <<r, made[r] + 1>>
     IN /\ current' = [current EXCEPT ![r] = o[2]]
        /\ made' = [made EXCEPT ![r] = o[2]]
        /\ onChangeSet' = [onChangeSet EXCEPT ![o] = {l}]
        /\ joined' = [joined EXCEPT ![l] = o]
  /\ sent' = IF SendsEnter THEN [sent EXCEPT ![r] = @ + 1] ELSE sent
  /\ InitAfterEnter(isStopListen)
  /\ called' = InCallback
  /\ UNCHANGED <<left, connVars, isStopListen, authVars, frame, calls, adding, serverVars>>

(* And of one that is there: the listener is called first, added later.    *)
RoomEnterKnown(l, r) ==
  /\ MayCall /\ joined[l] = None /\ adding = None
  /\ ~authDenyFatal /\ ~connDenyLocal
  /\ current[r] # 0
  /\ adding' = [l |-> l, o |-> <<r, current[r]>>]
  /\ called' = FALSE
  /\ UNCHANGED <<roomVars, loop, connVars, isStopListen, authVars,
                 noNeedIdleCloseTimer, frame, calls, sent, serverVars>>

FirstCallbackReturns ==
  /\ adding # None /\ loop # "turn"
  /\ onChangeSet' = [onChangeSet EXCEPT ![adding.o] = @ \cup {adding.l}]
  /\ joined' = [joined EXCEPT ![adding.l] = adding.o]
  /\ InitAfterEnter(isStopListen)
  /\ adding' = None
  /\ called' = (calls # <<>>)
  /\ UNCHANGED <<current, made, left, connVars, isStopListen, authVars, frame,
                 calls, sent, serverVars>>

(* The function roomEnter returned; it may be called again.                *)
AnyObject(o) == TRUE                                             \* fault
SameObject(o) == current[o[1]] = o[2]

NoRoomWasThere == ~HasNeed                                       \* fault
NoRoomIsLeft == \A r \in Room : current'[r] = 0

LeaveFn(l, o) ==
  /\ MayCall /\ (adding = None \/ LeaveInFirst)
  /\ LET rest == onChangeSet[o] \ {l}
         gone == rest = {} /\ current[o[1]] # 0 /\ SameObject(o)
     IN /\ onChangeSet' = [onChangeSet EXCEPT ![o] = rest]
        /\ current' = IF gone THEN [current EXCEPT ![o[1]] = 0] ELSE current
        /\ sent' = IF gone /\ Sends THEN [sent EXCEPT ![o[1]] = 0] ELSE sent
  /\ noNeedIdleCloseTimer' = (noNeedIdleCloseTimer \/ NoRoomIsLeft)
  /\ called' = InCallback
  /\ UNCHANGED <<made, loop, connVars, isStopListen, authVars, frame, calls, adding, serverVars>>

Leave(l) ==
  /\ joined[l] # None
  /\ LeaveFn(l, joined[l])
  /\ joined' = [joined EXCEPT ![l] = None]
  /\ left' = [left EXCEPT ![l] = joined[l]]

LeaveAgain(l) ==
  /\ left[l] \notin {None, joined[l]}
  /\ LeaveFn(l, left[l])
  /\ UNCHANGED <<joined, left>>

(* SetIsStopListen.                                                        *)
Stop == isStopListen' = TRUE /\ CloseThisSocket

SetIsStopListen(isStop) ==
  /\ MayCall /\ isStopListen # isStop
  /\ isStop /\ loop = "sleep" => StopInSleep
  /\ \/ isStop /\ Stop /\ UNCHANGED <<loop, noNeedIdleCloseTimer>>
     \/ /\ ~isStop /\ isStopListen' = FALSE
        /\ InitAfterEnter(FALSE) /\ UNCHANGED connVars
  /\ called' = InCallback
  /\ UNCHANGED <<roomVars, authVars, frame, calls, adding, sent, serverVars>>

-----------------------------------------------------------------------------
(* The loop up to its next await: the sleep, or the dial.                  *)
Dial ==
  /\ loop' = "wait"
  /\ ws' = "connecting" /\ socket' = TRUE /\ answered' = FALSE
  /\ sent' = [r \in Room |-> 0]

LoopRest == <<current, made, onChangeSet, joined, left, isStopListen, connApproved,
              connDenyLocal, authDenyFatal, noNeedIdleCloseTimer, frame, calls,
              adding, called, seq, serverSeq, hasOnDenyFn>>

StopsOrNoNeed == isStopListen \/ ~HasNeed

Turn ==
  /\ loop = "turn"
  /\ \/ StopsOrNoNeed /\ loop' = "off" /\ UNCHANGED <<connVars, sent>>
     \/ ~StopsOrNoNeed /\ loop' = "sleep" /\ UNCHANGED <<connVars, sent>>
     \/ ~StopsOrNoNeed /\ HasNeed /\ Dial
  /\ UNCHANGED LoopRest

WakeUp ==
  /\ loop = "sleep" /\ ~Busy
  /\ IF HasNeed THEN Dial ELSE loop' = "turn" /\ UNCHANGED <<connVars, sent>>
  /\ UNCHANGED LoopRest

(* The events of the WebSocket.                                            *)
Open ==
  /\ ws = "connecting" /\ ~Busy
  /\ ws' = "open"
  /\ connApproved' = FALSE
  /\ UNCHANGED <<roomVars, loop, socket, answered, isStopListen, connDenyLocal,
                 authDenyFatal, noNeedIdleCloseTimer, stackVars, sent, serverVars>>

CloseEvent ==
  /\ ws # "none" /\ ~Busy
  /\ ws' = "none" /\ socket' = FALSE
  /\ noNeedIdleCloseTimer' = FALSE
  /\ loop' = "turn"
  /\ UNCHANGED <<roomVars, answered, isStopListen, authVars, stackVars, sent, serverVars>>

(* What the server may put into a frame.                                   *)
Messages ==
  [cmd : {"closeConn"}, isTemp : BOOLEAN]
  \cup [cmd : {m \in {"connAllow", "denyConn"} : ~answered}]
  \cup [cmd : {"denyRoom"}, room : {r \in Room : sent[r] > 0}]
  \cup {[cmd |-> "roomValue", room |-> r, seq |-> serverSeq[r]] :
          r \in {x \in Room : sent[x] > 0}}

Verdicts(f) == Cardinality({i \in DOMAIN f : f[i].cmd \in {"connAllow", "denyConn"}})

MessageEvent(f) ==
  /\ ws = "open" /\ ~Busy
  /\ Verdicts(f) <= 1
  /\ frame' = f
  /\ answered' = (answered \/ Verdicts(f) > 0)
  /\ UNCHANGED <<roomVars, loop, ws, socket, isStopListen, authVars,
                 noNeedIdleCloseTimer, calls, adding, called, sent, serverVars>>

NewRooms == {r \in Room : current[r] > 1}                        \* fault
AllRooms == {r \in Room : current[r] # 0}

OnConnAllow ==
  /\ connApproved' = TRUE /\ connDenyLocal' = FALSE
  /\ sent' = [r \in Room |-> sent[r] + IF Sends /\ r \in AllRooms THEN 1 ELSE 0]
  /\ UNCHANGED <<authDenyFatal, isStopListen, connVars, calls, seq>>

(* A denial of the connection, or of a room.                               *)
OnDeny(isConn) ==
  /\ IF hasOnDenyFn
     THEN /\ connDenyLocal' = (connDenyLocal \/ isConn)
          /\ UNCHANGED <<authDenyFatal, isStopListen, connVars>>
     ELSE authDenyFatal' = TRUE /\ Stop /\ UNCHANGED connDenyLocal
  /\ UNCHANGED <<connApproved, sent, calls, seq>>

OnCloseConn(isTemp) ==
  /\ IF isTemp THEN CloseThisSocket /\ UNCHANGED isStopListen ELSE Stop
  /\ UNCHANGED <<authVars, sent, calls, seq>>

OnRoomValue(m) ==
  /\ LET o == <<m.room, current[m.room]>>
     IN IF current[m.room] # 0 /\ m.seq > seq[o]
        THEN /\ seq' = [seq EXCEPT ![o] = m.seq]
             /\ calls' \in SetToSeqs(onChangeSet[o])
        ELSE UNCHANGED <<seq, calls>>
  /\ UNCHANGED <<authVars, isStopListen, connVars, sent>>

ProcessOneMsg ==
  /\ frame # <<>> /\ ~InCallback /\ loop # "turn"
  /\ LET m == Head(frame)
     IN \/ m.cmd = "connAllow" /\ OnConnAllow
        \/ m.cmd \in {"denyConn", "denyRoom"} /\ OnDeny(m.cmd = "denyConn")
        \/ m.cmd = "closeConn" /\ OnCloseConn(m.isTemp)
        \/ m.cmd = "roomValue" /\ OnRoomValue(m)
  /\ frame' = Tail(frame)
  /\ UNCHANGED <<roomVars, loop, noNeedIdleCloseTimer, adding, called, serverSeq,
                 hasOnDenyFn>>

CallbackReturns ==
  /\ calls # <<>> /\ adding = None /\ loop # "turn"
  /\ calls' = Tail(calls)
  /\ called' = FALSE
  /\ UNCHANGED <<roomVars, loop, connVars, isStopListen, authVars,
                 noNeedIdleCloseTimer, frame, adding, sent, serverVars>>

(* Timers.                                                                 *)
NoNeedTimerFires ==
  /\ noNeedIdleCloseTimer /\ ~Busy
  /\ noNeedIdleCloseTimer' = FALSE
  /\ CloseThisSocket
  /\ UNCHANGED <<roomVars, loop, isStopListen, authVars, stackVars, sent, serverVars>>

DialOrReadTimeout ==
  /\ socket /\ ~Busy
  /\ CloseThisSocket
  /\ UNCHANGED <<roomVars, loop, isStopListen, authVars, noNeedIdleCloseTimer,
                 stackVars, sent, serverVars>>

ServerChange(r) ==
  /\ serverSeq[r] < MaxSeq
  /\ serverSeq' = [serverSeq EXCEPT ![r] = @ + 1]
  /\ UNCHANGED <<roomVars, loop, connVars, isStopListen, authVars,
                 noNeedIdleCloseTimer, stackVars, sent, seq, hasOnDenyFn>>

-----------------------------------------------------------------------------
StackStep == FirstCallbackReturns \/ CallbackReturns \/ ProcessOneMsg \/ Turn
LoopStep == WakeUp \/ (ws = "closing" /\ CloseEvent)
Allow == MessageEvent(<<[cmd |-> "connAllow"]>>) /\ ~answered

Next ==
  \/ StackStep \/ WakeUp \/ Open \/ CloseEvent \/ NoNeedTimerFires \/ DialOrReadTimeout
  \/ \E l \in Listener, r \in Room : RoomEnterNew(l, r) \/ RoomEnterKnown(l, r)
  \/ \E l \in Listener : Leave(l) \/ LeaveAgain(l)
  \/ \E b \in BOOLEAN : SetIsStopListen(b)
  \/ \E m \in Messages : MessageEvent(<<m>>) \/ \E n \in Messages : MessageEvent(<<m, n>>)
  \/ \E r \in Room : ServerChange(r)

Spec == Init /\ [][Next]_vars

(* The event loop runs; dials, and servers that allow, succeed now and     *)
(* then.  (A callback calls the client at most once, and so returns.)      *)
Fairness ==
  /\ WF_vars(StackStep) /\ SF_vars(LoopStep) /\ SF_vars(NoNeedTimerFires)
  /\ SF_vars(Open) /\ SF_vars(Allow)

FairSpec == Spec /\ Fairness

-----------------------------------------------------------------------------
(* On an approved connection the server has been told, once each, of the   *)
(* rooms the page is in, and of no other: a second roomEnter could close   *)
(* the connection at the room limit.                                       *)
InSync ==
  Sends /\ connApproved =>
    \A r \in Room : sent[r] = IF current[r] # 0 THEN 1 ELSE 0

(* A listener that entered and did not leave is in the object that gets    *)
(* the room's values, even if old leave functions are called again.        *)
ListenersAttached ==
  \A l \in Listener : joined[l] # None =>
    current[joined[l][1]] = joined[l][2] /\ l \in onChangeSet[joined[l]]

(* A page that has no rooms, or was stopped, does not keep its connection. *)
Needed == HasNeed /\ ~isStopListen
UnneededCloses == ~Needed ~> ws = "none" \/ Needed

(* Every room the page stays in is entered, if nothing denies it.          *)
Enters ==
  \A r \in Room : current[r] # 0 ~>
    sent[r] > 0 \/ current[r] = 0 \/ isStopListen \/ connDenyLocal

=============================================================================
