----------------------------- MODULE RoomServer -----------------------------
(***************************************************************************)
(* The room table of ServerManager: which connection is a member of which  *)
(* room, the change counter of every room, and the fan-out of changes.     *)
(*                                                                         *)
(* A step is one critical section of roomMapLock, or one push into one     *)
(* connection's write buffer: FireChange and doRoomEnter both take their   *)
(* snapshot under the lock and send after releasing it, so everything else *)
(* may run in between.  A room_t is identified by its RoomEpoch, which is  *)
(* drawn fresh whenever the room is created; a connection keeps pointers   *)
(* to room_t values, not room names.                                       *)
(*                                                                         *)
(* Abstracted: the write buffer keeps only the highest ChangeSeq pushed    *)
(* for every room instance (the client keeps the maximum as well), and     *)
(* whether a push finds it full is nondeterministic; the age of an empty   *)
(* room is nondeterministic; CVersionId is overwritten together with       *)
(* ChangeSeq under the lock and so is determined by it; LiveData is        *)
(* payload; RoomEpoch values are the numbers of the room instances.        *)
(***************************************************************************)
EXTENDS Integers, FiniteSets

CONSTANTS Conn,                 \* connections, each lives once
          Room,                 \* room ids
          NoRoom,
          Firer,                \* goroutines that call FireChange
          RoomEnterMaxPerConn,  \* ServerManager.RoomEnterMaxPerConn
          MaxEpoch,             \* bound: room instances created in a run
          MaxSeq                \* bound: ChangeSeq of an instance

ASSUME RoomServerAssumption ==
  /\ NoRoom \notin Room
  /\ RoomEnterMaxPerConn \in Nat \ {0}
  /\ MaxEpoch \in Nat
  /\ MaxSeq \in Nat

Epoch == 1..MaxEpoch
NoEpoch == 0          \* a nil *room_t
NotPushed == -1

VARIABLES
  roomMap,          \* ServerManager.roomMap: the live instance of a room
  lastEpoch,        \* number of instances created so far
  roomOf,           \* room_t.id
  connSet,          \* room_t.connSet
  changeSeq,        \* room_t.ChangeSeq
  isEmptyTimeSet,   \* room_t.emptyTime is not the zero time
  connRoomMap,      \* server_conn_t.roomMap
  isStopRoomEnter,  \* server_conn_t.isStopRoomEnter
  closer,           \* how far closing the connection has come
  worker,           \* the goroutine that handles the connection's messages
  fan,              \* what a FireChange call still has to send
  pushed            \* highest ChangeSeq pushed to a connection per instance

roomVars == <<roomMap, lastEpoch, roomOf, connSet, changeSeq, isEmptyTimeSet>>
connVars == <<connRoomMap, isStopRoomEnter>>
vars == <<roomVars, connVars, closer, worker, fan, pushed>>

Idle == [op |-> "idle", room |-> NoRoom, epoch |-> NoEpoch, seq |-> 0]
NoFan == [epoch |-> NoEpoch, seq |-> 0, todo |-> {}]

TypeOK ==
  /\ roomMap \in [Room -> Epoch \cup {NoEpoch}]
  /\ lastEpoch \in 0..MaxEpoch
  /\ roomOf \in [Epoch -> Room \cup {NoRoom}]
  /\ connSet \in [Epoch -> SUBSET Conn]
  /\ changeSeq \in [Epoch -> 0..MaxSeq]
  /\ isEmptyTimeSet \in [Epoch -> BOOLEAN]
  /\ connRoomMap \in [Conn -> [Room -> Epoch \cup {NoEpoch}]]
  /\ isStopRoomEnter \in [Conn -> BOOLEAN]
  /\ closer \in [Conn -> {"new", "open", "closing", "broken", "detached"}]
  /\ worker \in [Conn -> [op : {"idle", "enter", "leave", "send"},
                          room : Room \cup {NoRoom},
                          epoch : Epoch \cup {NoEpoch}, seq : 0..MaxSeq]]
  /\ fan \in [Firer -> [epoch : Epoch \cup {NoEpoch}, seq : 0..MaxSeq,
                        todo : SUBSET Conn]]
  /\ pushed \in [Conn -> [Epoch -> {NotPushed} \cup 0..MaxSeq]]

Init ==
  /\ roomMap = [r \in Room |-> NoEpoch]
  /\ lastEpoch = 0
  /\ roomOf = [e \in Epoch |-> NoRoom]
  /\ connSet = [e \in Epoch |-> {}]
  /\ changeSeq = [e \in Epoch |-> 0]
  /\ isEmptyTimeSet = [e \in Epoch |-> FALSE]
  /\ connRoomMap = [c \in Conn |-> [r \in Room |-> NoEpoch]]
  /\ isStopRoomEnter = [c \in Conn |-> FALSE]
  /\ closer = [c \in Conn |-> "new"]
  /\ worker = [c \in Conn |-> Idle]
  /\ fan = [f \in Firer |-> NoFan]
  /\ pushed = [c \in Conn |-> [e \in Epoch |-> NotPushed]]

-----------------------------------------------------------------------------
JoinedRooms(c) == {r \in Room : connRoomMap[c][r] # NoEpoch}

IsBroken(c) == closer[c] \in {"broken", "detached"}

(* The instance a critical section works on: the one in the table, or a    *)
(* new one.                                                                *)
Target(r) == IF roomMap[r] = NoEpoch THEN lastEpoch + 1 ELSE roomMap[r]

LookupOrCreate(r, e) ==
  /\ e = Target(r)
  /\ e \in Epoch
  /\ roomMap' = [roomMap EXCEPT ![r] = e]
  /\ lastEpoch' = IF e > lastEpoch THEN e ELSE lastEpoch
  /\ roomOf' = [roomOf EXCEPT ![e] = r]

(* What FireChange does to the counter, and to whom it sends.              *)
OncePerMember(e) == changeSeq[e] + Cardinality(connSet[e])        \* fault
NextSeq(e) == changeSeq[e] + 1

SkipBusy(e) == {c \in connSet[e] : worker[c].op # "send"}       \* fault
Members(e) == connSet[e]

(* doRoomEnter is refused once the close callback emptied the connection.  *)
EnterAlways(c) == c \in Conn                                    \* fault
MayEnter(c) == ~isStopRoomEnter[c]

(* Whether emptyTime is set on e after c is removed from its members.      *)
NeverStamp(e, c) == isEmptyTimeSet[e]                           \* fault
EmptyAfter(e, c) == isEmptyTimeSet[e] \/ connSet[e] \ {c} = {}

(* Closer.Close: only the first call has an effect.                        *)
StartClose(c) ==
  closer' = [closer EXCEPT ![c] = IF @ = "open" THEN "closing" ELSE @]

(* sendMsgNoBlock/sendRoomValue with the result of the push: stored,       *)
(* dropped because markBroken already ran, or too much for the buffer,     *)
(* which closes the connection.                                            *)
Push(c, e, seq) ==
  \/ /\ ~IsBroken(c)
     /\ pushed' = [pushed EXCEPT ![c][e] = IF seq > @ THEN seq ELSE @]
     /\ UNCHANGED closer
  \/ /\ ~IsBroken(c)
     /\ StartClose(c)
     /\ UNCHANGED pushed
  \/ /\ IsBroken(c)
     /\ UNCHANGED <<closer, pushed>>

-----------------------------------------------------------------------------
(* ServeHTTP up to the read loop.                                          *)
Accept(c) ==
  /\ closer[c] = "new"
  /\ closer' = [closer EXCEPT ![c] = "open"]
  /\ UNCHANGED <<roomVars, connVars, worker, fan, pushed>>

(* The worker goroutine takes a roomEnter or roomLeave of the peer while   *)
(* the connection is not closed; the handler runs later.                   *)
ReadMsg(c, op, r) ==
  /\ closer[c] = "open"
  /\ worker[c].op = "idle"
  /\ worker' = [worker EXCEPT ![c] = [op |-> op, room |-> r,
                                      epoch |-> NoEpoch, seq |-> 0]]
  /\ UNCHANGED <<roomVars, connVars, closer, fan, pushed>>

(* doRoomEnter, first critical section: subscribe and snapshot in one.     *)
DoRoomEnterJoin(c) ==
  /\ worker[c].op = "enter"
  /\ MayEnter(c)
  /\ Cardinality(JoinedRooms(c)) < RoomEnterMaxPerConn
  /\ LET r == worker[c].room
         e == Target(r)
     IN /\ LookupOrCreate(r, e)
        /\ connSet' = [connSet EXCEPT ![e] = @ \cup {c}]
        /\ isEmptyTimeSet' = [isEmptyTimeSet EXCEPT ![e] = FALSE]
        /\ connRoomMap' = [connRoomMap EXCEPT ![c][r] = e]
        /\ worker' = [worker EXCEPT ![c] = [op |-> "send", room |-> r,
                                            epoch |-> e, seq |-> changeSeq[e]]]
  /\ UNCHANGED <<changeSeq, isStopRoomEnter, closer, fan, pushed>>

DoRoomEnterStopped(c) ==
  /\ worker[c].op = "enter"
  /\ ~MayEnter(c)
  /\ worker' = [worker EXCEPT ![c] = Idle]
  /\ UNCHANGED <<roomVars, connVars, closer, fan, pushed>>

DoRoomEnterOverLimit(c) ==
  /\ worker[c].op = "enter"
  /\ MayEnter(c)
  /\ Cardinality(JoinedRooms(c)) >= RoomEnterMaxPerConn
  /\ StartClose(c)
  /\ worker' = [worker EXCEPT ![c] = Idle]
  /\ UNCHANGED <<roomVars, connVars, fan, pushed>>

(* doRoomEnter, after the lock: answer with the snapshot.                  *)
SendEntered(c) ==
  /\ worker[c].op = "send"
  /\ Push(c, worker[c].epoch, worker[c].seq)
  /\ worker' = [worker EXCEPT ![c] = Idle]
  /\ UNCHANGED <<roomVars, connVars, fan>>

DoRoomLeave(c) ==
  /\ worker[c].op = "leave"
  /\ worker' = [worker EXCEPT ![c] = Idle]
  /\ LET r == worker[c].room
         e == connRoomMap[c][r]
     IN IF e = NoEpoch
        THEN UNCHANGED <<connSet, connRoomMap, isEmptyTimeSet>>
        ELSE /\ connSet' = [connSet EXCEPT ![e] = @ \ {c}]
             /\ connRoomMap' = [connRoomMap EXCEPT ![c][r] = NoEpoch]
             /\ isEmptyTimeSet' = [isEmptyTimeSet EXCEPT ![e] = EmptyAfter(e, c)]
  /\ UNCHANGED <<roomMap, lastEpoch, roomOf, changeSeq, isStopRoomEnter,
                 closer, fan, pushed>>

-----------------------------------------------------------------------------
(* FireChange under the lock: bump the counter, copy the member list.      *)
FireChange(f, r) ==
  /\ fan[f] = NoFan
  /\ LET e == Target(r)
     IN /\ LookupOrCreate(r, e)
        /\ changeSeq[e] < MaxSeq
        /\ changeSeq' = [changeSeq EXCEPT ![e] = NextSeq(e)]
        /\ isEmptyTimeSet' = [isEmptyTimeSet EXCEPT
                                ![e] = @ \/ roomMap[r] = NoEpoch]
        /\ fan' = [fan EXCEPT ![f] =
                     IF Members(e) = {} THEN NoFan
                     ELSE [epoch |-> e, seq |-> NextSeq(e), todo |-> Members(e)]]
  /\ UNCHANGED <<connSet, connVars, closer, worker, pushed>>

(* The rest of the loop after c; the fault ends it at a broken connection. *)
RestUntilBroken(f, c) ==                                        \* fault
  IF IsBroken(c) \/ fan[f].todo = {c} THEN NoFan
  ELSE [fan[f] EXCEPT !.todo = @ \ {c}]
Rest(f, c) ==
  IF fan[f].todo = {c} THEN NoFan
  ELSE [fan[f] EXCEPT !.todo = @ \ {c}]

(* FireChange after the lock: one sendRoomValue of its loop.               *)
FanOut(f, c) ==
  /\ c \in fan[f].todo
  /\ Push(c, fan[f].epoch, fan[f].seq)
  /\ fan' = [fan EXCEPT ![f] = Rest(f, c)]
  /\ UNCHANGED <<roomVars, connVars, worker>>

-----------------------------------------------------------------------------
(* The connection is closed by its peer, a timeout or a protocol error.    *)
Close(c) ==
  /\ closer[c] = "open"
  /\ StartClose(c)
  /\ UNCHANGED <<roomVars, connVars, worker, fan, pushed>>

(* The close callback, first part: writeBuf.markBroken.                    *)
MarkBroken(c) ==
  /\ closer[c] = "closing"
  /\ closer' = [closer EXCEPT ![c] = "broken"]
  /\ UNCHANGED <<roomVars, connVars, worker, fan, pushed>>

(* The close callback, second part: deleteAllFromAllRoom__NOLOCK.  The     *)
(* buffer of the connection is never read again.                           *)
Detach(c) ==
  /\ closer[c] = "broken"
  /\ closer' = [closer EXCEPT ![c] = "detached"]
  /\ isStopRoomEnter' = [isStopRoomEnter EXCEPT ![c] = TRUE]
  /\ LET mine == {connRoomMap[c][r] : r \in JoinedRooms(c)}
     IN /\ connSet' = [e \in Epoch |-> IF e \in mine THEN connSet[e] \ {c}
                                       ELSE connSet[e]]
        /\ isEmptyTimeSet' = [e \in Epoch |-> IF e \in mine THEN EmptyAfter(e, c)
                                              ELSE isEmptyTimeSet[e]]
  /\ connRoomMap' = [connRoomMap EXCEPT ![c] = [r \in Room |-> NoEpoch]]
  /\ pushed' = [pushed EXCEPT ![c] = [e \in Epoch |-> NotPushed]]
  /\ UNCHANGED <<roomMap, lastEpoch, roomOf, changeSeq, worker, fan>>

(* The hourly timer drops the rooms that have been empty for an hour.      *)
Cleanable == {r \in Room : /\ roomMap[r] # NoEpoch
                           /\ connSet[roomMap[r]] = {}
                           /\ isEmptyTimeSet[roomMap[r]]}

CleanEmptyRooms ==
  \E old \in (SUBSET Cleanable) \ {{}} :
    /\ roomMap' = [r \in Room |-> IF r \in old THEN NoEpoch ELSE roomMap[r]]
    /\ UNCHANGED <<lastEpoch, roomOf, connSet, changeSeq, isEmptyTimeSet,
                   connVars, closer, worker, fan, pushed>>

-----------------------------------------------------------------------------
ConnNext(c) ==
  \/ Accept(c)
  \/ \E op \in {"enter", "leave"}, r \in Room : ReadMsg(c, op, r)
  \/ DoRoomEnterJoin(c)
  \/ DoRoomEnterStopped(c)
  \/ DoRoomEnterOverLimit(c)
  \/ SendEntered(c)
  \/ DoRoomLeave(c)
  \/ Close(c)
  \/ MarkBroken(c)
  \/ Detach(c)

FirerNext(f) ==
  \/ \E r \in Room : FireChange(f, r)
  \/ \E c \in Conn : FanOut(f, c)

Next ==
  \/ \E c \in Conn : ConnNext(c)
  \/ \E f \in Firer : FirerNext(f)
  \/ CleanEmptyRooms

Spec == Init /\ [][Next]_vars

(* A goroutine that has started a handler, a fan-out or a close callback   *)
(* finishes it: none of them waits for anything but a mutex.  What peers,  *)
(* callers and the clean-up timer do is not forced to happen.              *)
HandlerStep(c) ==
  \/ DoRoomEnterJoin(c)
  \/ DoRoomEnterStopped(c)
  \/ DoRoomEnterOverLimit(c)
  \/ SendEntered(c)
  \/ DoRoomLeave(c)
CallbackStep(c) == MarkBroken(c) \/ Detach(c)

Fairness ==
  /\ \A c \in Conn : WF_vars(HandlerStep(c)) /\ WF_vars(CallbackStep(c))
  /\ \A f \in Firer, c \in Conn : WF_vars(FanOut(f, c))

FairSpec == Spec /\ Fairness

-----------------------------------------------------------------------------
(* Both sides of the membership relation agree, through enter, leave,      *)
(* close and clean-up: the pointer a connection holds is the instance in   *)
(* the table (never one that was cleaned up and replaced), that instance   *)
(* lists the connection, it lists no other, and a connection whose close   *)
(* callback ran is nowhere, whatever handler was still running for it.     *)
MembershipAgrees ==
  /\ \A c \in Conn : \A r \in JoinedRooms(c) :
       /\ connRoomMap[c][r] = roomMap[r]
       /\ c \in connSet[roomMap[r]]
  /\ \A e \in Epoch : \A c \in connSet[e] :
       /\ roomOf[e] \in Room
       /\ connRoomMap[c][roomOf[e]] = e
  /\ \A c \in Conn : isStopRoomEnter[c] => JoinedRooms(c) = {}

(* The subscription snapshot and the fan-out leave no gap: the latest      *)
(* ChangeSeq of a room was pushed to every member whose connection is      *)
(* open, or a goroutine is already committed to pushing exactly it (the    *)
(* member's own doRoomEnter, or the FireChange that produced it).          *)
WillPush(c, e, seq) ==
  \/ worker[c].op = "send" /\ worker[c].epoch = e /\ worker[c].seq = seq
  \/ \E f \in Firer : c \in fan[f].todo /\ fan[f].epoch = e /\ fan[f].seq = seq

NoLostChange ==
  \A e \in Epoch : \A c \in connSet[e] :
    closer[c] = "open" =>
      pushed[c][e] = changeSeq[e] \/ WillPush(c, e, changeSeq[e])

(* The clean-up timer can tell every empty room of the table from the      *)
(* rooms in use: emptyTime is the zero time exactly while the room has     *)
(* members, so no room is lost to the clean-up and none is taken early.    *)
EmptyTimeMarksEmptyRooms ==
  \A r \in Room : roomMap[r] # NoEpoch =>
    (isEmptyTimeSet[roomMap[r]] <=> connSet[roomMap[r]] = {})

(* Every change of a room reaches the buffer of each of its members, late  *)
(* joiners included, unless the member leaves or its connection closes.    *)
EveryMemberIsTold ==
  \A c \in Conn, e \in Epoch, n \in 1..MaxSeq :
    (c \in connSet[e] /\ changeSeq[e] >= n)
      ~> (pushed[c][e] >= n \/ c \notin connSet[e])

=============================================================================
