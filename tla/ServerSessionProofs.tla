------------------------ MODULE ServerSessionProofs ------------------------
(***************************************************************************)
(* Proofs about ServerSession for any set of connections, any capacity of  *)
(* cmdCh and any number of messages: a ban reaches every connection, rooms *)
(* are guarded, and the registry forgets what closed.                      *)
(***************************************************************************)
EXTENDS ServerSession, TLAPS

(* The close callback runs on closed connections only.                     *)
ClosedFirst ==
  \A c \in Conn : onClose[c] \notin {"absent", "added"} => isClosed[c]

(* Once the callback has left the rooms, none can be entered.              *)
StoppedRooms ==
  \A c \in Conn : onClose[c] \in {"keys", "count", "done"} => isStopRoomEnter[c]

Deciding(c) == worker[c] \in {"allowConn", "allow", "deny"}

(* The loop asks for rooms after the approval and decides only once.       *)
WorkerKnows ==
  \A c \in Conn :
    /\ worker[c] \in {"allowRoom", "enter", "denyRoom"} => verdict[c] = "approved"
    /\ Deciding(c) => verdict[c] = "none"

(* cmdLoop starts after the connection was registered.                     *)
NotStarted ==
  \A c \in Conn : pc[c] \notin {"read", "end"} =>
    worker[c] = "off" /\ verdict[c] = "none"

(* registeredKeys knows every entry of the registry.                       *)
Listed ==
  \A c \in Conn, k \in Key : c \in registry[k] => k \in registeredKeys[c]

(* An open connection is in the registry under its network session id from *)
(* the start, and under its identity before OnAllowFn is asked about it.   *)
NetRegistered ==
  \A c \in Conn : ~isClosed[c] /\ pc[c] \notin {"none", "register"} =>
    c \in registry["sessionIdNet"]

IdentityRegistered ==
  \A c \in Conn :
    ~isClosed[c] /\ (Deciding(c) \/ verdict[c] = "approved") =>
      c \in registry["identity"]

(* A connection that passed OnAllowFn before the ban was asked to close,   *)
(* or the call that follows the ban still has it before it.                *)
BanPursues ==
  banned # {} =>
    \A c \in Conn : Approving(c) /\ ~isClosed[c] =>
      asked[c] \/ kick.key \in Key \/ <<c, "ask">> \in kick.todo

SessionInv ==
  /\ TypeOK
  /\ ClosedFirst /\ StoppedRooms /\ WorkerKnows /\ NotStarted
  /\ Listed /\ NetRegistered /\ IdentityRegistered /\ BanPursues
  /\ RoomsAreGuarded /\ ForgottenUnlessLate

-----------------------------------------------------------------------------
(* Abbreviations of the module, expanded in every proof.                   *)
USE DEF Set, tableVars, cmdVars, timerVars, askVars, Key

(* An update keeps the type of a function.                                 *)
LEMMA ExceptType ==
  ASSUME NEW D, NEW R, NEW f \in [D -> R], NEW d \in D, NEW x \in R
  PROVE  [f EXCEPT ![d] = x] \in [D -> R]
  OBVIOUS

(* What registering a key changes.                                         *)
Registering(c, k) ==
  /\ registry' \in [Key -> SUBSET Conn]
  /\ registeredKeys' \in [Conn -> SUBSET Key]
  /\ lateKeys' \in [Conn -> SUBSET Key]
  /\ \A d \in Conn, j \in Key :
       d \in registry'[j] <=> d \in registry[j] \/ (d = c /\ j = k)
  /\ k \in registeredKeys'[c]
  /\ \A d \in Conn : registeredKeys[d] \subseteq registeredKeys'[d]
  /\ onClose[c] \in {"count", "done"} => k \in lateKeys'[c]
  /\ \A d \in Conn : lateKeys[d] \subseteq lateKeys'[d]

LEMMA RegisterEffect ==
  ASSUME SessionInv, NEW c \in Conn, NEW k \in Key, RegisterSessionKey(c, k)
  PROVE  Registering(c, k)
<1>1. /\ registry \in [Key -> SUBSET Conn]
      /\ registeredKeys \in [Conn -> SUBSET Key]
      /\ lateKeys \in [Conn -> SUBSET Key]
  BY DEF SessionInv, TypeOK
<1> DEFINE late == {x \in {k} : onClose[c] \in {"count", "done"}}
<1>2. registry' = [registry EXCEPT ![k] = registry[k] \cup {c}]
  BY DEF RegisterSessionKey
<1>3. registeredKeys' = [registeredKeys EXCEPT ![c] = registeredKeys[c] \cup {k}]
  BY DEF RegisterSessionKey
<1>4. lateKeys' = [lateKeys EXCEPT ![c] = lateKeys[c] \cup late]
  BY DEF RegisterSessionKey
<1>5. late \in SUBSET Key /\ (onClose[c] \in {"count", "done"} => k \in late)
  OBVIOUS
<1> HIDE DEF late, Key
<1>6. registry' \in [Key -> SUBSET Conn] /\ registeredKeys' \in [Conn -> SUBSET Key]
        /\ lateKeys' \in [Conn -> SUBSET Key]
  BY <1>1, <1>2, <1>3, <1>4, <1>5
<1>7. \A d \in Conn, j \in Key :
        d \in registry'[j] <=> d \in registry[j] \/ (d = c /\ j = k)
  BY <1>1, <1>2
<1>8. k \in registeredKeys'[c]
        /\ \A d \in Conn : registeredKeys[d] \subseteq registeredKeys'[d]
  BY <1>1, <1>3
<1>9. (onClose[c] \in {"count", "done"} => k \in lateKeys'[c])
        /\ \A d \in Conn : lateKeys[d] \subseteq lateKeys'[d]
  BY <1>1, <1>4, <1>5
<1> QED
  BY <1>6, <1>7, <1>8, <1>9 DEF Registering

-----------------------------------------------------------------------------
(* ServeHTTP.                                                              *)
LEMMA AcceptPreserves ==
  ASSUME SessionInv, NEW c \in Conn, Accept(c)
  PROVE  SessionInv'
<1>1. TypeOK'
  BY DEF SessionInv, TypeOK, Accept
<1>2. NotStarted'
  BY DEF SessionInv, TypeOK, NotStarted, Accept
<1>3. NetRegistered'
  BY DEF SessionInv, TypeOK, NetRegistered, Accept
<1>4. (ClosedFirst /\ StoppedRooms /\ WorkerKnows /\ Listed
        /\ IdentityRegistered /\ BanPursues /\ RoomsAreGuarded /\ ForgottenUnlessLate)'
  BY DEF SessionInv, ClosedFirst, StoppedRooms, WorkerKnows, Deciding, Listed,
         IdentityRegistered, BanPursues, RoomsAreGuarded, ForgottenUnlessLate,
         Accept, Approving
<1> QED
  BY <1>1, <1>2, <1>3, <1>4 DEF SessionInv

LEMMA RegisterPreserves ==
  ASSUME SessionInv, NEW c \in Conn, Register(c)
  PROVE  SessionInv'
<1>1. Registering(c, "sessionIdNet")
  BY RegisterEffect DEF Register
<1>2. pc[c] = "register" /\ pc' = [pc EXCEPT ![c] = "wire"]
  BY DEF Register
<1>3. TypeOK'
  BY <1>1, <1>2 DEF SessionInv, TypeOK, Register, Registering
<1>4. (NotStarted /\ NetRegistered)'
  BY <1>1, <1>2 DEF SessionInv, TypeOK, NotStarted, NetRegistered, Register,
                    Registering
<1>5. (Listed /\ ForgottenUnlessLate)'
  BY <1>1 DEF SessionInv, Listed, ForgottenUnlessLate, Register, Registering
<1>6. (ClosedFirst /\ StoppedRooms /\ WorkerKnows /\ RoomsAreGuarded)'
  BY DEF SessionInv, ClosedFirst, StoppedRooms, WorkerKnows, Deciding, RoomsAreGuarded,
         Register
<1>7. (IdentityRegistered /\ BanPursues)'
  BY <1>1 DEF SessionInv, IdentityRegistered, Deciding, BanPursues, Approving, Register,
              Registering
<1> QED
  BY <1>3, <1>4, <1>5, <1>6, <1>7 DEF SessionInv

LEMMA WirePreserves ==
  ASSUME SessionInv, NEW c \in Conn, Wire(c)
  PROVE  SessionInv'
<1>1. TypeOK'
  BY DEF SessionInv, TypeOK, Wire, TimerNow
<1>2. NotStarted'
  BY DEF SessionInv, TypeOK, NotStarted, Wire, TimerNow
<1>3. NetRegistered'
  BY DEF SessionInv, TypeOK, NetRegistered, Wire, TimerNow
<1>4. (ClosedFirst /\ StoppedRooms /\ WorkerKnows /\ Listed
        /\ IdentityRegistered /\ BanPursues /\ RoomsAreGuarded /\ ForgottenUnlessLate)'
  BY DEF SessionInv, ClosedFirst, StoppedRooms, WorkerKnows, Deciding, Listed,
         IdentityRegistered, BanPursues, RoomsAreGuarded, ForgottenUnlessLate,
         Wire, TimerNow, Approving
<1> QED
  BY <1>1, <1>2, <1>3, <1>4 DEF SessionInv

LEMMA HookPreserves ==
  ASSUME SessionInv, NEW c \in Conn, Hook(c)
  PROVE  SessionInv'
<1>1. TypeOK'
  <2>1. CASE isClosed[c]
    BY <2>1 DEF SessionInv, TypeOK, Hook, Added
  <2>2. CASE ~isClosed[c]
    BY <2>2 DEF SessionInv, TypeOK, Hook, Added
  <2> QED
    BY <2>1, <2>2
<1>2. ClosedFirst'
  BY DEF SessionInv, TypeOK, ClosedFirst, Hook, Added
<1>3. StoppedRooms'
  BY DEF SessionInv, TypeOK, StoppedRooms, Hook, Added
<1>4. NotStarted'
  BY DEF SessionInv, TypeOK, NotStarted, Hook, Added
<1>5. NetRegistered'
  BY DEF SessionInv, TypeOK, NetRegistered, Hook, Added
<1>6. RoomsAreGuarded'
  BY DEF SessionInv, TypeOK, RoomsAreGuarded, Hook, Added
<1>7. ForgottenUnlessLate'
  BY DEF SessionInv, TypeOK, ForgottenUnlessLate, Hook, Added
<1>8. (WorkerKnows /\ Listed /\ IdentityRegistered /\ BanPursues)'
  BY DEF SessionInv, WorkerKnows, Deciding, Listed, IdentityRegistered, BanPursues,
         Hook, Added, Approving
<1> QED
  BY <1>1, <1>2, <1>3, <1>4, <1>5, <1>6, <1>7, <1>8 DEF SessionInv

LEMMA CountPreserves ==
  ASSUME SessionInv, NEW c \in Conn, Count(c)
  PROVE  SessionInv'
<1>1. TypeOK'
  BY DEF SessionInv, TypeOK, Count
<1>2. NotStarted'
  BY DEF SessionInv, TypeOK, NotStarted, Count
<1>3. NetRegistered'
  BY DEF SessionInv, TypeOK, NetRegistered, Count
<1>4. (ClosedFirst /\ StoppedRooms /\ WorkerKnows /\ Listed
        /\ IdentityRegistered /\ BanPursues /\ RoomsAreGuarded /\ ForgottenUnlessLate)'
  BY DEF SessionInv, ClosedFirst, StoppedRooms, WorkerKnows, Deciding, Listed,
         IdentityRegistered, BanPursues, RoomsAreGuarded, ForgottenUnlessLate,
         Count, Approving
<1> QED
  BY <1>1, <1>2, <1>3, <1>4 DEF SessionInv

LEMMA StartPreserves ==
  ASSUME SessionInv, NEW c \in Conn, Start(c)
  PROVE  SessionInv'
<1>1. TypeOK'
  BY DEF SessionInv, TypeOK, Start
<1>2. WorkerKnows'
  BY DEF SessionInv, TypeOK, WorkerKnows, Deciding, Start
<1>3. NotStarted'
  BY DEF SessionInv, TypeOK, NotStarted, Start
<1>4. NetRegistered'
  BY DEF SessionInv, TypeOK, NetRegistered, Start
<1>5. IdentityRegistered'
  BY DEF SessionInv, TypeOK, IdentityRegistered, Deciding, Start
<1>6. BanPursues'
  BY DEF SessionInv, TypeOK, BanPursues, Start, Approving
<1>7. (ClosedFirst /\ StoppedRooms /\ Listed
        /\ RoomsAreGuarded /\ ForgottenUnlessLate)'
  BY DEF SessionInv, ClosedFirst, StoppedRooms, Listed, RoomsAreGuarded,
         ForgottenUnlessLate, Start
<1> QED
  BY <1>1, <1>2, <1>3, <1>4, <1>5, <1>6, <1>7 DEF SessionInv

LEMMA ReadEndsPreserves ==
  ASSUME SessionInv, NEW c \in Conn, ReadEnds(c)
  PROVE  SessionInv'
<1>1. TypeOK'
  BY DEF SessionInv, TypeOK, ReadEnds
<1>2. NotStarted'
  BY DEF SessionInv, TypeOK, NotStarted, ReadEnds
<1>3. NetRegistered'
  BY DEF SessionInv, TypeOK, NetRegistered, ReadEnds
<1>4. (ClosedFirst /\ StoppedRooms /\ WorkerKnows /\ Listed
        /\ IdentityRegistered /\ BanPursues /\ RoomsAreGuarded /\ ForgottenUnlessLate)'
  BY DEF SessionInv, ClosedFirst, StoppedRooms, WorkerKnows, Deciding, Listed,
         IdentityRegistered, BanPursues, RoomsAreGuarded, ForgottenUnlessLate,
         ReadEnds, Approving
<1> QED
  BY <1>1, <1>2, <1>3, <1>4 DEF SessionInv

-----------------------------------------------------------------------------
(* What a close by the peer, a timer or pushCmd can change: Close has an   *)
(* effect once, and it only starts the callback.                           *)
Closing ==
  /\ isClosed' \in [Conn -> BOOLEAN]
  /\ onClose' \in [Conn -> {"absent", "added", "break", "rooms", "keys", "count",
                            "done"}]
  /\ \A d \in Conn : isClosed[d] => isClosed'[d]
  /\ \A d \in Conn : onClose'[d] # onClose[d] => isClosed'[d] /\ onClose'[d] = "break"

LEMMA CloseEffect ==
  ASSUME SessionInv, NEW c \in Conn, Close(c)
  PROVE  Closing
  BY DEF SessionInv, TypeOK, Close, Closing

LEMMA ClosingKeeps ==
  ASSUME SessionInv, Closing,
         UNCHANGED <<pc, tableVars, worker, verdict, inRoom, isStopRoomEnter, askVars>>
  PROVE  (ClosedFirst /\ StoppedRooms /\ WorkerKnows /\ NotStarted /\ Listed
           /\ NetRegistered /\ IdentityRegistered /\ BanPursues
           /\ RoomsAreGuarded /\ ForgottenUnlessLate)'
<1>1. ClosedFirst'
  BY DEF SessionInv, ClosedFirst, Closing
<1>2. (StoppedRooms /\ RoomsAreGuarded /\ ForgottenUnlessLate)'
  BY DEF SessionInv, StoppedRooms, RoomsAreGuarded, ForgottenUnlessLate, Closing
<1>3. (WorkerKnows /\ NotStarted /\ Listed)'
  BY DEF SessionInv, WorkerKnows, Deciding, NotStarted, Listed
<1>4. (NetRegistered /\ IdentityRegistered)'
  BY DEF SessionInv, NetRegistered, IdentityRegistered, Deciding, Closing
<1>5. BanPursues'
  BY DEF SessionInv, BanPursues, Approving, Closing
<1> QED
  BY <1>1, <1>2, <1>3, <1>4, <1>5

LEMMA PushCmdPreserves ==
  ASSUME SessionInv, NEW c \in Conn,
         NEW cmd \in Cmd, PushCmd(c, cmd)
  PROVE  SessionInv'
<1>1. Closing
  BY CloseEffect DEF PushCmd, Closing, SessionInv, TypeOK
<1>2. cmdCh' \in [Conn -> Seq(Cmd)]
  <2>1. Append(cmdCh[c], cmd) \in Seq(Cmd)
    BY DEF SessionInv, TypeOK
  <2>2. cmdCh' = [cmdCh EXCEPT ![c] = Append(cmdCh[c], cmd)] \/ cmdCh' = cmdCh
    BY DEF PushCmd
  <2>3. cmdCh \in [Conn -> Seq(Cmd)]
    BY DEF SessionInv, TypeOK
  <2> QED
    BY <2>1, <2>2, <2>3, ExceptType
<1>3. cmds' \in [Conn -> 0 .. MaxCmd]
  <2>1. cmds' = [cmds EXCEPT ![c] = cmds[c] + 1] /\ cmds[c] < MaxCmd
    BY DEF PushCmd
  <2> QED
    BY <2>1, ServerSessionAssumption DEF SessionInv, TypeOK
<1>4. TypeOK'
  BY <1>1, <1>2, <1>3 DEF SessionInv, TypeOK, PushCmd, Closing
<1> QED
  BY <1>1, <1>4, ClosingKeeps DEF SessionInv, PushCmd

LEMMA ConnFailsPreserves ==
  ASSUME SessionInv, NEW c \in Conn, ConnFails(c)
  PROVE  SessionInv'
<1>1. Closing
  BY CloseEffect DEF ConnFails
<1>2. TypeOK'
  BY <1>1 DEF SessionInv, TypeOK, ConnFails, Closing
<1> QED
  BY <1>1, <1>2, ClosingKeeps DEF SessionInv, ConnFails

-----------------------------------------------------------------------------
(* cmdLoop.                                                                *)
LEMMA LoopEndsPreserves ==
  ASSUME SessionInv, NEW c \in Conn, LoopEnds(c)
  PROVE  SessionInv'
<1>1. TypeOK'
  BY DEF SessionInv, TypeOK, LoopEnds, workerRest
<1>2. WorkerKnows'
  BY DEF SessionInv, TypeOK, WorkerKnows, Deciding, LoopEnds, workerRest
<1>3. NotStarted'
  BY DEF SessionInv, TypeOK, NotStarted, LoopEnds, workerRest
<1>4. IdentityRegistered'
  BY DEF SessionInv, TypeOK, IdentityRegistered, Deciding, LoopEnds, workerRest
<1>5. BanPursues'
  BY DEF SessionInv, TypeOK, BanPursues, LoopEnds, workerRest, Approving
<1>6. (ClosedFirst /\ StoppedRooms /\ Listed
        /\ NetRegistered /\ RoomsAreGuarded /\ ForgottenUnlessLate)'
  BY DEF SessionInv, ClosedFirst, StoppedRooms, Listed, NetRegistered,
         RoomsAreGuarded, ForgottenUnlessLate, LoopEnds, workerRest
<1> QED
  BY <1>1, <1>2, <1>3, <1>4, <1>5, <1>6 DEF SessionInv

LEMMA ReceivePreserves ==
  ASSUME SessionInv, NEW c \in Conn, Receive(c)
  PROVE  SessionInv'
<1> DEFINE asks == After(c, Head(cmdCh[c])) = "allowConn"
<1>b. /\ Head(cmdCh[c]) \in Cmd
      /\ Tail(cmdCh[c]) \in Seq(Cmd)
  BY DEF SessionInv, TypeOK, Receive
<1>a. /\ asks => verdict[c] = "none" /\ RegisterSessionKey(c, "identity")
      /\ ~asks => UNCHANGED tableVars
  BY <1>b DEF Cmd, Receive, After, RegisterIdentity
<1>c. /\ worker' = [worker EXCEPT ![c] = After(c, Head(cmdCh[c]))]
      /\ After(c, Head(cmdCh[c])) \in {"allowConn", "allowRoom", "select"}
      /\ After(c, Head(cmdCh[c])) = "allowRoom" => verdict[c] = "approved"
  BY <1>b DEF Cmd, Receive, After, MayAskForRoom
<1>d. worker[c] = "select" /\ verdict' = verdict
  BY DEF Receive
<1>e. /\ inRoom' \in [Conn -> BOOLEAN]
      /\ \A d \in Conn : inRoom'[d] => inRoom[d]
  BY DEF SessionInv, TypeOK, Receive
<1> HIDE DEF asks
<1>f. asks => Registering(c, "identity")
  BY <1>a, RegisterEffect
<1>1. TypeOK'
  <2>1. registry' \in [Key -> SUBSET Conn] /\ registeredKeys' \in [Conn -> SUBSET Key]
          /\ lateKeys' \in [Conn -> SUBSET Key]
    BY <1>a, <1>f DEF SessionInv, TypeOK, Registering
  <2>2. worker' \in [Conn -> {"off", "select", "allowConn", "allow", "deny",
                              "allowRoom", "enter", "denyRoom", "end"}]
    BY <1>c DEF SessionInv, TypeOK
  <2>3. cmdCh' \in [Conn -> Seq(Cmd)]
    <3>1. cmdCh' = [cmdCh EXCEPT ![c] = Tail(cmdCh[c])] /\ cmdCh \in [Conn -> Seq(Cmd)]
      BY DEF SessionInv, TypeOK, Receive
    <3> QED
      BY <1>b, <3>1, ExceptType
  <2> QED
    BY <1>d, <1>e, <2>1, <2>2, <2>3 DEF SessionInv, TypeOK, Receive
<1>2. (ClosedFirst /\ StoppedRooms)'
  BY DEF SessionInv, ClosedFirst, StoppedRooms, Receive
<1>3. (WorkerKnows /\ NotStarted)'
  <2>1. pc[c] \in {"read", "end"}
    BY <1>d DEF SessionInv, NotStarted
  <2>2. After(c, Head(cmdCh[c])) = "allowConn" => verdict[c] = "none"
    BY <1>a DEF asks
  <2> QED
    BY <1>c, <1>d, <2>1, <2>2 DEF SessionInv, TypeOK, WorkerKnows, Deciding, NotStarted,
             Receive
<1>4. (Listed /\ ForgottenUnlessLate)'
  <2>1. CASE asks
    BY <1>f, <2>1 DEF SessionInv, Listed, ForgottenUnlessLate, Receive, Registering
  <2>2. CASE ~asks
    BY <1>a, <2>2 DEF SessionInv, Listed, ForgottenUnlessLate, Receive
  <2> QED
    BY <2>1, <2>2
<1>5. NetRegistered'
  BY <1>a, <1>f DEF SessionInv, NetRegistered, Receive, Registering
<1>8. IdentityRegistered'
  <2>1. asks <=> After(c, Head(cmdCh[c])) = "allowConn"
    BY DEF asks
  <2>2. ASSUME NEW d \in Conn, Deciding(d)', ~Deciding(d)
        PROVE  d = c /\ asks
    BY <1>c, <2>1, <2>2 DEF SessionInv, TypeOK, Deciding
  <2>3. \A d \in Conn : d \in registry["identity"] => d \in registry'["identity"]
    BY <1>a, <1>f DEF Registering
  <2>4. asks => c \in registry'["identity"]
    BY <1>f DEF Registering
  <2> QED
    BY <1>d, <2>2, <2>3, <2>4 DEF SessionInv, IdentityRegistered, Receive
<1>6. BanPursues'
  <2>1. \A d \in Conn : Approving(d)' => Approving(d)
    BY <1>c, <1>d DEF SessionInv, TypeOK, Approving
  <2> QED
    BY <2>1 DEF SessionInv, BanPursues, Receive
<1>7. RoomsAreGuarded'
  BY <1>d, <1>e DEF SessionInv, RoomsAreGuarded, Receive
<1> QED
  BY <1>1, <1>2, <1>3, <1>4, <1>5, <1>6, <1>7, <1>8 DEF SessionInv

LEMMA OnAllowFnPreserves ==
  ASSUME SessionInv, NEW c \in Conn, OnAllowFn(c)
  PROVE  SessionInv'
<1>1. TypeOK'
  BY DEF SessionInv, TypeOK, OnAllowFn, workerRest
<1>2. WorkerKnows'
  BY DEF SessionInv, TypeOK, WorkerKnows, Deciding, OnAllowFn, workerRest
<1>3. NotStarted'
  BY DEF SessionInv, TypeOK, NotStarted, OnAllowFn, workerRest
<1>4. IdentityRegistered'
  BY DEF SessionInv, TypeOK, IdentityRegistered, Deciding, OnAllowFn, workerRest
<1>5. BanPursues'
  <2>1. ASSUME NEW d \in Conn, worker'[d] = "allow", worker[d] # "allow"
        PROVE  banned = {}
    BY <2>1 DEF SessionInv, TypeOK, OnAllowFn
  <2> QED
    BY <2>1 DEF SessionInv, BanPursues, Approving, OnAllowFn, workerRest
<1>6. (ClosedFirst /\ StoppedRooms /\ Listed
        /\ NetRegistered /\ RoomsAreGuarded /\ ForgottenUnlessLate)'
  BY DEF SessionInv, ClosedFirst, StoppedRooms, Listed, NetRegistered,
         RoomsAreGuarded, ForgottenUnlessLate, OnAllowFn, workerRest
<1> QED
  BY <1>1, <1>2, <1>3, <1>4, <1>5, <1>6 DEF SessionInv

LEMMA DecidePreserves ==
  ASSUME SessionInv, NEW c \in Conn, Decide(c)
  PROVE  SessionInv'
<1>1. TypeOK'
  BY DEF SessionInv, TypeOK, Decide, workerRest
<1>2. WorkerKnows'
  BY DEF SessionInv, TypeOK, WorkerKnows, Deciding, Decide, workerRest
<1>3. NotStarted'
  BY DEF SessionInv, TypeOK, NotStarted, Decide, workerRest
<1>4. IdentityRegistered'
  BY DEF SessionInv, TypeOK, IdentityRegistered, Deciding, Decide, workerRest
<1>5. BanPursues'
  BY DEF SessionInv, TypeOK, BanPursues, Decide, workerRest, Approving
<1>6. RoomsAreGuarded'
  <2>1. \A d \in Conn : verdict'[d] # verdict[d] => ~inRoom[d]
    BY DEF SessionInv, TypeOK, RoomsAreGuarded, WorkerKnows, Deciding, Decide
  <2> QED
    BY <2>1 DEF SessionInv, RoomsAreGuarded, Decide, workerRest
<1>7. (ClosedFirst /\ StoppedRooms /\ Listed
        /\ NetRegistered /\ ForgottenUnlessLate)'
  BY DEF SessionInv, ClosedFirst, StoppedRooms, Listed, NetRegistered,
         ForgottenUnlessLate, Decide, workerRest
<1> QED
  BY <1>1, <1>2, <1>3, <1>4, <1>5, <1>6, <1>7 DEF SessionInv

LEMMA JoinPreserves ==
  ASSUME SessionInv, NEW c \in Conn, Join(c)
  PROVE  SessionInv'
<1>1. TypeOK'
  BY DEF SessionInv, TypeOK, Join, workerRest, MayJoin
<1>2. WorkerKnows'
  BY DEF SessionInv, TypeOK, WorkerKnows, Deciding, Join, workerRest, MayJoin
<1>3. NotStarted'
  BY DEF SessionInv, TypeOK, NotStarted, Join, workerRest, MayJoin
<1>4. IdentityRegistered'
  BY DEF SessionInv, TypeOK, IdentityRegistered, Deciding, Join, workerRest, MayJoin
<1>5. BanPursues'
  BY DEF SessionInv, TypeOK, BanPursues, Join, workerRest, MayJoin, Approving
<1>6. RoomsAreGuarded'
  <2>1. ASSUME NEW d \in Conn, inRoom'[d], ~inRoom[d]
        PROVE  d = c /\ worker[c] = "enter" /\ ~isStopRoomEnter[c]
    BY <2>1 DEF SessionInv, TypeOK, Join, MayJoin
  <2> QED
    BY <2>1 DEF SessionInv, RoomsAreGuarded, WorkerKnows, StoppedRooms, Join, workerRest
<1>7. (ClosedFirst /\ StoppedRooms /\ Listed
        /\ NetRegistered /\ ForgottenUnlessLate)'
  BY DEF SessionInv, ClosedFirst, StoppedRooms, Listed, NetRegistered,
         ForgottenUnlessLate, Join, workerRest, MayJoin
<1> QED
  BY <1>1, <1>2, <1>3, <1>4, <1>5, <1>6, <1>7 DEF SessionInv

-----------------------------------------------------------------------------
(* The close callback.                                                     *)
LEMMA BreakBufPreserves ==
  ASSUME SessionInv, NEW c \in Conn, BreakBuf(c)
  PROVE  SessionInv'
<1>1. TypeOK'
  BY DEF SessionInv, TypeOK, BreakBuf, callbackRest
<1>2. ClosedFirst'
  BY DEF SessionInv, TypeOK, ClosedFirst, BreakBuf, callbackRest
<1>3. StoppedRooms'
  BY DEF SessionInv, TypeOK, StoppedRooms, BreakBuf, callbackRest
<1>4. RoomsAreGuarded'
  BY DEF SessionInv, TypeOK, RoomsAreGuarded, BreakBuf, callbackRest
<1>5. ForgottenUnlessLate'
  BY DEF SessionInv, TypeOK, ForgottenUnlessLate, BreakBuf, callbackRest
<1>6. (WorkerKnows /\ NotStarted /\ Listed
        /\ NetRegistered /\ IdentityRegistered /\ BanPursues)'
  BY DEF SessionInv, WorkerKnows, Deciding, NotStarted, Listed, NetRegistered,
         IdentityRegistered, BanPursues, BreakBuf, callbackRest, Approving
<1> QED
  BY <1>1, <1>2, <1>3, <1>4, <1>5, <1>6 DEF SessionInv

LEMMA LeaveRoomsPreserves ==
  ASSUME SessionInv, NEW c \in Conn, LeaveRooms(c)
  PROVE  SessionInv'
<1>1. TypeOK'
  BY DEF SessionInv, TypeOK, LeaveRooms, callbackRest
<1>2. ClosedFirst'
  BY DEF SessionInv, TypeOK, ClosedFirst, LeaveRooms, callbackRest
<1>3. StoppedRooms'
  BY DEF SessionInv, TypeOK, StoppedRooms, LeaveRooms, callbackRest
<1>4. RoomsAreGuarded'
  BY DEF SessionInv, TypeOK, RoomsAreGuarded, LeaveRooms, callbackRest
<1>5. ForgottenUnlessLate'
  BY DEF SessionInv, TypeOK, ForgottenUnlessLate, LeaveRooms, callbackRest
<1>6. (WorkerKnows /\ NotStarted /\ Listed
        /\ NetRegistered /\ IdentityRegistered /\ BanPursues)'
  BY DEF SessionInv, WorkerKnows, Deciding, NotStarted, Listed, NetRegistered,
         IdentityRegistered, BanPursues, LeaveRooms, callbackRest, Approving
<1> QED
  BY <1>1, <1>2, <1>3, <1>4, <1>5, <1>6 DEF SessionInv

LEMMA UnregisterPreserves ==
  ASSUME SessionInv, NEW c \in Conn, Unregister(c)
  PROVE  SessionInv'
<1>1. TypeOK'
  BY DEF SessionInv, TypeOK, Unregister, callbackRest, AllKeys
<1>2. ClosedFirst'
  BY DEF SessionInv, TypeOK, ClosedFirst, Unregister, callbackRest, AllKeys
<1>3. StoppedRooms'
  BY DEF SessionInv, TypeOK, StoppedRooms, Unregister, callbackRest, AllKeys
<1>4. Listed'
  BY DEF SessionInv, TypeOK, Listed, Unregister, callbackRest, AllKeys
<1>5. NetRegistered'
  BY DEF SessionInv, TypeOK, NetRegistered, ClosedFirst, Unregister,
         callbackRest, AllKeys
<1>6. IdentityRegistered'
  BY DEF SessionInv, TypeOK, IdentityRegistered, Deciding, ClosedFirst, Unregister,
         callbackRest, AllKeys
<1>7. RoomsAreGuarded'
  BY DEF SessionInv, TypeOK, RoomsAreGuarded, Unregister, callbackRest,
         AllKeys
<1>8. ForgottenUnlessLate'
  BY DEF SessionInv, TypeOK, ForgottenUnlessLate, Listed, Unregister,
         callbackRest, AllKeys
<1>9. (WorkerKnows /\ NotStarted /\ BanPursues)'
  BY DEF SessionInv, WorkerKnows, Deciding, NotStarted, BanPursues, Unregister,
         callbackRest, AllKeys, Approving
<1> QED
  BY <1>1, <1>2, <1>3, <1>4, <1>5, <1>6, <1>7, <1>8, <1>9 DEF SessionInv

LEMMA CountDownPreserves ==
  ASSUME SessionInv, NEW c \in Conn, CountDown(c)
  PROVE  SessionInv'
<1>1. TypeOK'
  BY DEF SessionInv, TypeOK, CountDown, callbackRest
<1>2. ClosedFirst'
  BY DEF SessionInv, TypeOK, ClosedFirst, CountDown, callbackRest
<1>3. StoppedRooms'
  BY DEF SessionInv, TypeOK, StoppedRooms, CountDown, callbackRest
<1>4. RoomsAreGuarded'
  BY DEF SessionInv, TypeOK, RoomsAreGuarded, CountDown, callbackRest
<1>5. ForgottenUnlessLate'
  BY DEF SessionInv, TypeOK, ForgottenUnlessLate, CountDown, callbackRest
<1>6. (WorkerKnows /\ NotStarted /\ Listed
        /\ NetRegistered /\ IdentityRegistered /\ BanPursues)'
  BY DEF SessionInv, WorkerKnows, Deciding, NotStarted, Listed, NetRegistered,
         IdentityRegistered, BanPursues, CountDown, callbackRest, Approving
<1> QED
  BY <1>1, <1>2, <1>3, <1>4, <1>5, <1>6 DEF SessionInv

LEMMA AuthTimerFiresPreserves ==
  ASSUME SessionInv, NEW c \in Conn, AuthTimerFires(c)
  PROVE  SessionInv'
<1>1. Closing
  BY CloseEffect DEF AuthTimerFires
<1>2. TypeOK'
  BY <1>1 DEF SessionInv, TypeOK, AuthTimerFires, Closing
<1> QED
  BY <1>1, <1>2, ClosingKeeps DEF SessionInv, AuthTimerFires

LEMMA AskTimerFiresPreserves ==
  ASSUME SessionInv, NEW c \in Conn, AskTimerFires(c)
  PROVE  SessionInv'
<1>1. Closing
  BY CloseEffect DEF AskTimerFires
<1>2. TypeOK'
  BY <1>1 DEF SessionInv, TypeOK, AskTimerFires, Closing
<1> QED
  BY <1>1, <1>2, ClosingKeeps DEF SessionInv, AskTimerFires

-----------------------------------------------------------------------------
(* The ban and the call of CloseConnBySessionId.                           *)
LEMMA BanPreserves ==
  ASSUME SessionInv, NEW k \in Key, NEW isBan \in BOOLEAN, Ban(k, isBan)
  PROVE  SessionInv'
<1>1. TypeOK'
  BY DEF SessionInv, TypeOK, Ban, NoKick
<1>2. BanPursues'
  BY DEF SessionInv, TypeOK, BanPursues, Ban, NoKick, Approving
<1>3. (ClosedFirst /\ StoppedRooms /\ WorkerKnows /\ NotStarted /\ Listed
        /\ NetRegistered /\ IdentityRegistered /\ RoomsAreGuarded /\ ForgottenUnlessLate)'
  BY DEF SessionInv, ClosedFirst, StoppedRooms, WorkerKnows, Deciding, NotStarted,
         Listed, NetRegistered, IdentityRegistered, RoomsAreGuarded,
         ForgottenUnlessLate, Ban, NoKick
<1> QED
  BY <1>1, <1>2, <1>3 DEF SessionInv

LEMMA CloseConnBySessionIdPreserves ==
  ASSUME SessionInv, CloseConnBySessionId
  PROVE  SessionInv'
<1>1. TypeOK'
  BY DEF SessionInv, TypeOK, CloseConnBySessionId
<1>2. BanPursues'
  BY DEF SessionInv, TypeOK, BanPursues, NotStarted, NetRegistered,
         IdentityRegistered, Deciding, CloseConnBySessionId, Approving
<1>3. (ClosedFirst /\ StoppedRooms /\ WorkerKnows /\ NotStarted /\ Listed
        /\ NetRegistered /\ IdentityRegistered /\ RoomsAreGuarded /\ ForgottenUnlessLate)'
  BY DEF SessionInv, ClosedFirst, StoppedRooms, WorkerKnows, Deciding, NotStarted,
         Listed, NetRegistered, IdentityRegistered, RoomsAreGuarded,
         ForgottenUnlessLate, CloseConnBySessionId
<1> QED
  BY <1>1, <1>2, <1>3 DEF SessionInv

LEMMA CloseConnPreserves ==
  ASSUME SessionInv, NEW c \in Conn, CloseConn(c)
  PROVE  SessionInv'
<1>1. TypeOK'
  BY DEF SessionInv, TypeOK, CloseConn
<1>2. BanPursues'
  BY DEF SessionInv, TypeOK, BanPursues, CloseConn, Approving
<1>3. (ClosedFirst /\ StoppedRooms /\ WorkerKnows /\ NotStarted /\ Listed
        /\ NetRegistered /\ IdentityRegistered /\ RoomsAreGuarded /\ ForgottenUnlessLate)'
  BY DEF SessionInv, ClosedFirst, StoppedRooms, WorkerKnows, Deciding, NotStarted,
         Listed, NetRegistered, IdentityRegistered, RoomsAreGuarded,
         ForgottenUnlessLate, CloseConn
<1> QED
  BY <1>1, <1>2, <1>3 DEF SessionInv

LEMMA SendCloseConnPreserves ==
  ASSUME SessionInv, NEW c \in Conn, SendCloseConn(c)
  PROVE  SessionInv'
<1>1. TypeOK'
  BY DEF SessionInv, TypeOK, SendCloseConn, WithTimer
<1>2. BanPursues'
  BY DEF SessionInv, TypeOK, BanPursues, SendCloseConn, WithTimer, Approving
<1>3. (ClosedFirst /\ StoppedRooms /\ WorkerKnows /\ NotStarted /\ Listed
        /\ NetRegistered /\ IdentityRegistered /\ RoomsAreGuarded /\ ForgottenUnlessLate)'
  BY DEF SessionInv, ClosedFirst, StoppedRooms, WorkerKnows, Deciding, NotStarted,
         Listed, NetRegistered, IdentityRegistered, RoomsAreGuarded,
         ForgottenUnlessLate, SendCloseConn, WithTimer
<1> QED
  BY <1>1, <1>2, <1>3 DEF SessionInv

-----------------------------------------------------------------------------
LEMMA InitSession == Init => SessionInv
<1> SUFFICES ASSUME Init PROVE SessionInv
  OBVIOUS
<1>1. TypeOK
  BY ServerSessionAssumption DEF Init, TypeOK, NoKick
<1>2. ClosedFirst /\ StoppedRooms /\ WorkerKnows /\ NotStarted
  BY DEF Init, ClosedFirst, StoppedRooms, WorkerKnows, Deciding, NotStarted
<1>3. Listed /\ NetRegistered /\ IdentityRegistered /\ BanPursues
  BY DEF Init, Listed, NetRegistered, IdentityRegistered, Deciding, BanPursues
<1>4. RoomsAreGuarded /\ ForgottenUnlessLate
  BY DEF Init, RoomsAreGuarded, ForgottenUnlessLate
<1> QED
  BY <1>1, <1>2, <1>3, <1>4 DEF SessionInv

LEMMA NextSession ==
  ASSUME SessionInv, [Next]_vars
  PROVE  SessionInv'
<1>1. ASSUME NEW c \in Conn, Accept(c) \/ ServeStep(c) PROVE SessionInv'
  BY <1>1, AcceptPreserves, RegisterPreserves, WirePreserves, HookPreserves,
     CountPreserves, StartPreserves, ReadEndsPreserves DEF ServeStep
<1>2. ASSUME NEW c \in Conn, WorkerStep(c) PROVE SessionInv'
  BY <1>2, LoopEndsPreserves, ReceivePreserves, OnAllowFnPreserves, DecidePreserves,
     JoinPreserves DEF WorkerStep
<1>3. ASSUME NEW c \in Conn, CallbackStep(c) PROVE SessionInv'
  BY <1>3, BreakBufPreserves, LeaveRoomsPreserves, UnregisterPreserves,
     CountDownPreserves DEF CallbackStep
<1>4. ASSUME NEW c \in Conn, NEW cmd \in Cmd, PushCmd(c, cmd) PROVE SessionInv'
  BY <1>4, PushCmdPreserves
<1>5. ASSUME NEW c \in Conn, ConnFails(c) \/ AuthTimerFires(c) \/ AskTimerFires(c)
      PROVE  SessionInv'
  BY <1>5, ConnFailsPreserves, AuthTimerFiresPreserves, AskTimerFiresPreserves
<1>6. ASSUME NEW k \in Key, NEW isBan \in BOOLEAN, Ban(k, isBan) PROVE SessionInv'
  BY <1>6, BanPreserves
<1>7. CASE KickStep
  BY <1>7, CloseConnBySessionIdPreserves, CloseConnPreserves, SendCloseConnPreserves
  DEF KickStep
<1>8. CASE UNCHANGED vars
  <2>1. TypeOK'
    BY <1>8 DEF SessionInv, TypeOK, vars
  <2>2. (ClosedFirst /\ StoppedRooms /\ WorkerKnows /\ NotStarted /\ Listed)'
    BY <1>8 DEF SessionInv, ClosedFirst, StoppedRooms, WorkerKnows, Deciding, NotStarted,
                Listed, vars
  <2>3. (NetRegistered /\ IdentityRegistered /\ BanPursues)'
    BY <1>8 DEF SessionInv, NetRegistered, IdentityRegistered, Deciding, BanPursues,
                Approving, vars
  <2>4. (RoomsAreGuarded /\ ForgottenUnlessLate)'
    BY <1>8 DEF SessionInv, RoomsAreGuarded, ForgottenUnlessLate, vars
  <2> QED
    BY <2>1, <2>2, <2>3, <2>4 DEF SessionInv
<1> QED
  BY <1>1, <1>2, <1>3, <1>4, <1>5, <1>6, <1>7, <1>8 DEF Next

-----------------------------------------------------------------------------
LEMMA SessionInvCorrect == Spec => []SessionInv
<1>1. SessionInv /\ [Next]_vars => SessionInv'
  BY NextSession
<1> QED
  BY InitSession, <1>1, PTL DEF Spec

(* The state keeps its types, whatever closes in the middle of whatever.   *)
THEOREM TypeCorrect == Spec => []TypeOK
<1>1. SessionInv => TypeOK
  BY DEF SessionInv
<1> QED
  BY <1>1, SessionInvCorrect, PTL

(* A ban with its CloseConnBySessionId misses no connection: one that      *)
(* OnAllowFn let through before the ban is in the registry by then.        *)
THEOREM BanReachesAllCorrect == Spec => []BanReachesAll
<1>1. SessionInv => BanReachesAll
  BY DEF SessionInv, BanPursues, BanReachesAll, NoKick
<1> QED
  BY <1>1, SessionInvCorrect, PTL

(* Only an approved connection is in a room, and none once its close       *)
(* callback has left the rooms, even if a doRoomEnter was on its way.      *)
THEOREM RoomsAreGuardedCorrect == Spec => []RoomsAreGuarded
<1>1. SessionInv => RoomsAreGuarded
  BY DEF SessionInv
<1> QED
  BY <1>1, SessionInvCorrect, PTL

(* After the close callback the registry holds a connection only under     *)
(* keys that cmdLoop registered later.                                     *)
THEOREM ForgottenUnlessLateCorrect == Spec => []ForgottenUnlessLate
<1>1. SessionInv => ForgottenUnlessLate
  BY DEF SessionInv
<1> QED
  BY <1>1, SessionInvCorrect, PTL

=============================================================================
