-------------------------- MODULE RoomServerProofs --------------------------
(***************************************************************************)
(* Proofs about RoomServer for any set of connections, rooms and firing    *)
(* goroutines and any bounds.  The inductive invariant adds to the three   *)
(* safety properties what they silently rely on: where room instances come *)
(* from (TableOK), what a goroutine holds between its critical section and *)
(* its send (HandlerOK), and that nobody announces a change that has not   *)
(* happened (NothingInvented).                                             *)
(***************************************************************************)
EXTENDS RoomServer, TLAPS

(* The table maps a room to an instance of that room, instances are        *)
(* numbered in the order of creation, and a number not yet used has no     *)
(* members.                                                                *)
TableOK ==
  /\ \A r \in Room : roomMap[r] # NoEpoch =>
       roomOf[roomMap[r]] = r /\ roomMap[r] <= lastEpoch
  /\ \A e \in Epoch : e > lastEpoch => connSet[e] = {}

(* A handler in progress knows its room, and a send its instance.          *)
HandlerOK ==
  /\ \A c \in Conn : worker[c].op \in {"enter", "leave"} => worker[c].room \in Room
  /\ \A c \in Conn : worker[c].op = "send" => worker[c].epoch \in Epoch
  /\ \A f \in Firer : fan[f].todo # {} => fan[f].epoch \in Epoch

(* What was pushed, or is about to be, is not ahead of the room's counter. *)
NothingInvented ==
  /\ \A c \in Conn, e \in Epoch : pushed[c][e] <= changeSeq[e]
  /\ \A c \in Conn : worker[c].op = "send" =>
       worker[c].seq <= changeSeq[worker[c].epoch]
  /\ \A f \in Firer : fan[f].todo # {} =>
       fan[f].seq <= changeSeq[fan[f].epoch]

-----------------------------------------------------------------------------
(* What a push can do: it raises at most one counter of one connection and *)
(* can only start a close.                                                 *)
LEMMA PushEffect ==
  ASSUME TypeOK, NEW c \in Conn, NEW e \in Epoch, NEW seq \in 0..MaxSeq,
         Push(c, e, seq)
  PROVE  /\ pushed' \in [Conn -> [Epoch -> {NotPushed} \cup 0..MaxSeq]]
         /\ closer' \in [Conn -> {"new", "open", "closing", "broken", "detached"}]
         /\ \A d \in Conn, g \in Epoch :
              (d # c \/ g # e) => pushed'[d][g] = pushed[d][g]
         /\ \A d \in Conn : closer'[d] = "open" => closer[d] = "open"
         /\ closer'[c] = "open" =>
              pushed'[c][e] = IF seq > pushed[c][e] THEN seq ELSE pushed[c][e]
         /\ pushed'[c][e] \in {seq, pushed[c][e]}
         /\ pushed'[c][e] >= pushed[c][e]
<1> DEFINE old == pushed[c][e]
           new == IF seq > old THEN seq ELSE old
<1>t. /\ pushed \in [Conn -> [Epoch -> {NotPushed} \cup 0..MaxSeq]]
      /\ closer \in [Conn -> {"new", "open", "closing", "broken", "detached"}]
  BY DEF TypeOK
<1>o. old \in {NotPushed} \cup 0..MaxSeq /\ old \in Int /\ seq \in Int
  BY <1>t DEF NotPushed
<1>1. CASE pushed' = [pushed EXCEPT ![c][e] = new] /\ UNCHANGED closer
  <2>1. new \in {NotPushed} \cup 0..MaxSeq /\ new \in {seq, old} /\ new >= old
    BY <1>o
  <2> HIDE DEF new
  <2>2. pushed'[c][e] = new
    BY <1>1, <1>t
  <2>3. \A d \in Conn, g \in Epoch :
          (d # c \/ g # e) => pushed'[d][g] = pushed[d][g]
    BY <1>1, <1>t
  <2>4. pushed' \in [Conn -> [Epoch -> {NotPushed} \cup 0..MaxSeq]]
    BY <1>1, <1>t, <2>1
  <2> QED BY <1>1, <1>t, <2>1, <2>2, <2>3, <2>4 DEF new
<1>2. CASE ~IsBroken(c) /\ StartClose(c) /\ UNCHANGED pushed
  <2>1. closer' \in [Conn -> {"new", "open", "closing", "broken", "detached"}]
    BY <1>2, <1>t DEF StartClose
  <2>2. closer'[c] # "open" /\ \A d \in Conn : closer'[d] = "open" => closer[d] = "open"
    BY <1>2, <1>t DEF StartClose
  <2> QED BY <1>2, <1>t, <1>o, <2>1, <2>2
<1>3. CASE IsBroken(c) /\ UNCHANGED <<closer, pushed>>
  BY <1>3, <1>t, <1>o DEF IsBroken
<1> QED BY <1>1, <1>2, <1>3 DEF Push

(* What is left of a fan-out after one send.                               *)
LEMMA RestFacts ==
  ASSUME TypeOK, NEW f \in Firer, NEW c \in Conn
  PROVE  /\ Rest(f, c) \in [epoch : Epoch \cup {NoEpoch}, seq : 0..MaxSeq,
                            todo : SUBSET Conn]
         /\ Rest(f, c).todo = fan[f].todo \ {c} \/ Rest(f, c).todo = {}
         /\ fan[f].todo # {} => Rest(f, c).todo = fan[f].todo \ {c}
         /\ Rest(f, c).todo # {} =>
              Rest(f, c).epoch = fan[f].epoch /\ Rest(f, c).seq = fan[f].seq
<1> DEFINE P == [epoch : Epoch \cup {NoEpoch}, seq : 0..MaxSeq, todo : SUBSET Conn]
<1>1. fan[f] \in P
  BY DEF TypeOK
<1>2. NoFan \in P /\ NoFan.todo = {}
  BY RoomServerAssumption DEF NoFan, NoEpoch
<1>3. CASE fan[f].todo = {c}
  BY <1>2, <1>3 DEF Rest
<1>4. CASE fan[f].todo # {c}
  <2> DEFINE left == [fan[f] EXCEPT !.todo = @ \ {c}]
  <2>1. left \in P /\ left.todo = fan[f].todo \ {c}
        /\ left.epoch = fan[f].epoch /\ left.seq = fan[f].seq
    BY <1>1
  <2>2. Rest(f, c) = left
    BY <1>4 DEF Rest
  <2> QED BY <2>1, <2>2
<1> QED BY <1>3, <1>4

(* The instance a critical section works on is one of the table's room, or *)
(* the next unused number.                                                 *)
LEMMA TargetFacts ==
  ASSUME TypeOK, TableOK, NEW r \in Room, NEW e, LookupOrCreate(r, e)
  PROVE  /\ e \in Epoch
         /\ roomMap[r] # NoEpoch => e = roomMap[r] /\ roomOf[e] = r /\ e <= lastEpoch
         /\ roomMap[r] = NoEpoch => e = lastEpoch + 1 /\ connSet[e] = {}
         /\ roomMap' \in [Room -> Epoch \cup {NoEpoch}]
         /\ lastEpoch' \in 0..MaxEpoch
         /\ lastEpoch' >= lastEpoch /\ e <= lastEpoch'
         /\ roomOf' \in [Epoch -> Room \cup {NoRoom}]
         /\ roomMap'[r] = e /\ roomOf'[e] = r
         /\ \A s \in Room : s # r => roomMap'[s] = roomMap[s]
         /\ \A g \in Epoch : g # e => roomOf'[g] = roomOf[g]
BY RoomServerAssumption DEF LookupOrCreate, Target, TypeOK, TableOK, Epoch, NoEpoch

-----------------------------------------------------------------------------
(* One statement per way the room table, the handlers and the fan-outs can *)
(* move; TypeOK and the two helper invariants are proved together, because *)
(* a send is only well typed if its instance exists.                       *)
Base == TypeOK /\ TableOK /\ HandlerOK

LEMMA BaseInit == Init => Base
BY RoomServerAssumption
   DEF Init, Base, TypeOK, TableOK, HandlerOK, Idle, NoFan, NoEpoch, NotPushed, Epoch

LEMMA BaseStep == Base /\ [Next]_vars => Base'
<1> SUFFICES ASSUME Base, [Next]_vars PROVE Base'
  OBVIOUS
<1> USE RoomServerAssumption DEF Base
<1>1. ASSUME NEW c \in Conn, Accept(c) PROVE Base'
  BY <1>1 DEF Accept, roomVars, connVars, TypeOK, TableOK, HandlerOK
<1>2. ASSUME NEW c \in Conn, NEW op \in {"enter", "leave"}, NEW r \in Room,
             ReadMsg(c, op, r)
      PROVE  Base'
  <2>1. TypeOK'
    BY <1>2 DEF ReadMsg, NoEpoch, roomVars, connVars, TypeOK
  <2>2. TableOK' /\ HandlerOK'
    BY <1>2 DEF ReadMsg, roomVars, connVars, TypeOK, TableOK, HandlerOK
  <2> QED BY <2>1, <2>2
<1>3. ASSUME NEW c \in Conn, DoRoomEnterJoin(c) PROVE Base'
  <2> DEFINE r == worker[c].room
             e == Target(r)
  <2>1. r \in Room
    BY <1>3 DEF DoRoomEnterJoin, HandlerOK
  <2>2. LookupOrCreate(r, e)
    BY <1>3 DEF DoRoomEnterJoin
  <2> HIDE DEF r, e
  <2>3. /\ e \in Epoch
        /\ roomMap[r] # NoEpoch => e = roomMap[r] /\ roomOf[e] = r /\ e <= lastEpoch
        /\ roomMap[r] = NoEpoch => e = lastEpoch + 1 /\ connSet[e] = {}
        /\ roomMap' \in [Room -> Epoch \cup {NoEpoch}]
        /\ lastEpoch' \in 0..MaxEpoch
        /\ lastEpoch' >= lastEpoch /\ e <= lastEpoch'
        /\ roomOf' \in [Epoch -> Room \cup {NoRoom}]
        /\ roomMap'[r] = e /\ roomOf'[e] = r
        /\ \A s \in Room : s # r => roomMap'[s] = roomMap[s]
        /\ \A g \in Epoch : g # e => roomOf'[g] = roomOf[g]
    BY <2>1, <2>2, TargetFacts
  <2>4. /\ connSet' = [connSet EXCEPT ![e] = @ \cup {c}]
        /\ isEmptyTimeSet' = [isEmptyTimeSet EXCEPT ![e] = FALSE]
        /\ connRoomMap' = [connRoomMap EXCEPT ![c][r] = e]
        /\ worker' = [worker EXCEPT ![c] = [op |-> "send", room |-> r,
                                            epoch |-> e, seq |-> changeSeq[e]]]
        /\ UNCHANGED <<changeSeq, isStopRoomEnter, closer, fan, pushed>>
    BY <1>3 DEF DoRoomEnterJoin, r, e
  <2>5. TypeOK'
    BY <2>1, <2>3, <2>4 DEF TypeOK
  <2>6. TableOK'
    <3>1. lastEpoch \in Int /\ lastEpoch' \in Int /\ Epoch \subseteq Int
      BY <2>3 DEF TypeOK, Epoch
    <3>2. ASSUME NEW s \in Room, roomMap'[s] # NoEpoch
          PROVE  roomOf'[roomMap'[s]] = s /\ roomMap'[s] <= lastEpoch'
      <4>1. CASE s = r
        BY <4>1, <2>3
      <4>2. CASE s # r
        <5>1. roomMap[s] \in Epoch /\ roomOf[roomMap[s]] = s /\ roomMap[s] <= lastEpoch
          BY <4>2, <3>2, <2>3 DEF TypeOK, TableOK
        <5>2. roomMap[s] # e
          BY <4>2, <5>1, <3>1, <2>3
        <5>3. roomMap'[s] = roomMap[s] /\ roomOf'[roomMap[s]] = roomOf[roomMap[s]]
          BY <4>2, <5>1, <5>2, <2>3
        <5>4. roomMap[s] <= lastEpoch'
          <6>1. roomMap[s] \in Int /\ roomMap[s] <= lastEpoch
            BY <5>1, <3>1
          <6>2. lastEpoch' >= lastEpoch
            BY <2>3
          <6> QED BY <6>1, <6>2, <3>1
        <5> QED BY <5>1, <5>3, <5>4
      <4> QED BY <4>1, <4>2
    <3>3. ASSUME NEW g \in Epoch, g > lastEpoch'
          PROVE  connSet'[g] = {}
      BY <3>3, <3>1, <2>3, <2>4 DEF TypeOK, TableOK
    <3> QED BY <3>2, <3>3 DEF TableOK
  <2>7. HandlerOK'
    BY <2>1, <2>3, <2>4 DEF TypeOK, HandlerOK
  <2> QED BY <2>5, <2>6, <2>7
<1>4. ASSUME NEW c \in Conn, DoRoomEnterStopped(c) PROVE Base'
  BY <1>4 DEF DoRoomEnterStopped, Idle, NoEpoch, roomVars, connVars, TypeOK, TableOK, HandlerOK
<1>5. ASSUME NEW c \in Conn, DoRoomEnterOverLimit(c) PROVE Base'
  BY <1>5 DEF DoRoomEnterOverLimit, StartClose, Idle, NoEpoch, roomVars, connVars,
              TypeOK, TableOK, HandlerOK
<1>6. ASSUME NEW c \in Conn, SendEntered(c) PROVE Base'
  <2>1. worker[c].epoch \in Epoch /\ worker[c].seq \in 0..MaxSeq
    BY <1>6 DEF SendEntered, TypeOK, HandlerOK
  <2>2. /\ pushed' \in [Conn -> [Epoch -> {NotPushed} \cup 0..MaxSeq]]
        /\ closer' \in [Conn -> {"new", "open", "closing", "broken", "detached"}]
    BY <1>6, <2>1, PushEffect DEF SendEntered
  <2>3. TypeOK'
    <3>1. worker' \in [Conn -> [op : {"idle", "enter", "leave", "send"},
                                room : Room \cup {NoRoom},
                                epoch : Epoch \cup {NoEpoch}, seq : 0..MaxSeq]]
      BY <1>6 DEF SendEntered, Idle, NoEpoch, TypeOK
    <3> QED BY <1>6, <2>2, <3>1 DEF SendEntered, roomVars, connVars, TypeOK
  <2>4. TableOK' /\ HandlerOK'
    BY <1>6 DEF SendEntered, Idle, roomVars, connVars, TypeOK, TableOK, HandlerOK
  <2> QED BY <2>3, <2>4
<1>7. ASSUME NEW c \in Conn, DoRoomLeave(c) PROVE Base'
  <2> DEFINE r == worker[c].room
             e == connRoomMap[c][r]
  <2>1. r \in Room /\ e \in Epoch \cup {NoEpoch}
    BY <1>7 DEF DoRoomLeave, HandlerOK, TypeOK
  <2>2. /\ worker' = [worker EXCEPT ![c] = Idle]
        /\ UNCHANGED <<roomMap, lastEpoch, roomOf, changeSeq, isStopRoomEnter,
                       closer, fan, pushed>>
    BY <1>7 DEF DoRoomLeave
  <2>3. CASE UNCHANGED <<connSet, connRoomMap, isEmptyTimeSet>>
    BY <2>2, <2>3 DEF Idle, NoEpoch, TypeOK, TableOK, HandlerOK
  <2>4. CASE /\ e # NoEpoch
             /\ connSet' = [connSet EXCEPT ![e] = @ \ {c}]
             /\ connRoomMap' = [connRoomMap EXCEPT ![c][r] = NoEpoch]
             /\ isEmptyTimeSet' = [isEmptyTimeSet EXCEPT ![e] = EmptyAfter(e, c)]
    <3> HIDE DEF r, e
    <3>1. EmptyAfter(e, c) \in BOOLEAN
      BY <2>1, <2>4 DEF EmptyAfter, TypeOK
    <3>2. TypeOK'
      BY <2>1, <2>2, <2>4, <3>1 DEF Idle, NoEpoch, TypeOK
    <3>3. TableOK' /\ HandlerOK'
      BY <2>1, <2>2, <2>4 DEF Idle, NoEpoch, TypeOK, TableOK, HandlerOK
    <3> QED BY <3>2, <3>3
  <2> QED BY <1>7, <2>3, <2>4 DEF DoRoomLeave
<1>8. ASSUME NEW c \in Conn, Close(c) PROVE Base'
  BY <1>8 DEF Close, StartClose, roomVars, connVars, TypeOK, TableOK, HandlerOK
<1>9. ASSUME NEW c \in Conn, MarkBroken(c) PROVE Base'
  BY <1>9 DEF MarkBroken, roomVars, connVars, TypeOK, TableOK, HandlerOK
<1>10. ASSUME NEW c \in Conn, Detach(c) PROVE Base'
  BY <1>10 DEF Detach, EmptyAfter, NotPushed, NoEpoch, TypeOK, TableOK, HandlerOK
<1>11. ASSUME NEW f \in Firer, NEW r \in Room, FireChange(f, r) PROVE Base'
  <2> DEFINE e == Target(r)
  <2>1. LookupOrCreate(r, e)
    BY <1>11 DEF FireChange
  <2> HIDE DEF e
  <2>2. /\ e \in Epoch
        /\ roomMap[r] # NoEpoch => e = roomMap[r] /\ roomOf[e] = r /\ e <= lastEpoch
        /\ roomMap[r] = NoEpoch => e = lastEpoch + 1 /\ connSet[e] = {}
        /\ roomMap' \in [Room -> Epoch \cup {NoEpoch}]
        /\ lastEpoch' \in 0..MaxEpoch
        /\ lastEpoch' >= lastEpoch /\ e <= lastEpoch'
        /\ roomOf' \in [Epoch -> Room \cup {NoRoom}]
        /\ roomMap'[r] = e /\ roomOf'[e] = r
        /\ \A s \in Room : s # r => roomMap'[s] = roomMap[s]
        /\ \A g \in Epoch : g # e => roomOf'[g] = roomOf[g]
    BY <2>1, TargetFacts
  <2>3. /\ changeSeq[e] < MaxSeq
        /\ changeSeq' = [changeSeq EXCEPT ![e] = changeSeq[e] + 1]
        /\ isEmptyTimeSet' = [isEmptyTimeSet EXCEPT
                                ![e] = @ \/ roomMap[r] = NoEpoch]
        /\ fan' = [fan EXCEPT ![f] =
                     IF connSet[e] = {} THEN NoFan
                     ELSE [epoch |-> e, seq |-> changeSeq[e] + 1,
                           todo |-> connSet[e]]]
        /\ UNCHANGED <<connSet, connVars, closer, worker, pushed>>
    BY <1>11, <2>2 DEF FireChange, NextSeq, Members, TypeOK, e
  <2>4. changeSeq[e] + 1 \in 0..MaxSeq
    BY <2>2, <2>3 DEF TypeOK
  <2>5. TypeOK'
    BY <2>2, <2>3, <2>4 DEF TypeOK, connVars, NoFan, NoEpoch
  <2>6. TableOK'
    <3>1. lastEpoch \in Int /\ lastEpoch' \in Int /\ Epoch \subseteq Int
      BY <2>2 DEF TypeOK, Epoch
    <3>2. ASSUME NEW s \in Room, roomMap'[s] # NoEpoch
          PROVE  roomOf'[roomMap'[s]] = s /\ roomMap'[s] <= lastEpoch'
      <4>1. CASE s = r
        BY <4>1, <2>2
      <4>2. CASE s # r
        <5>1. roomMap[s] \in Epoch /\ roomOf[roomMap[s]] = s /\ roomMap[s] <= lastEpoch
          BY <4>2, <3>2, <2>2 DEF TypeOK, TableOK
        <5>2. roomMap[s] # e
          BY <4>2, <5>1, <3>1, <2>2
        <5>3. roomMap'[s] = roomMap[s] /\ roomOf'[roomMap[s]] = roomOf[roomMap[s]]
          BY <4>2, <5>1, <5>2, <2>2
        <5>4. roomMap[s] <= lastEpoch'
          <6>1. roomMap[s] \in Int /\ roomMap[s] <= lastEpoch
            BY <5>1, <3>1
          <6>2. lastEpoch' >= lastEpoch
            BY <2>2
          <6> QED BY <6>1, <6>2, <3>1
        <5> QED BY <5>1, <5>3, <5>4
      <4> QED BY <4>1, <4>2
    <3>3. ASSUME NEW g \in Epoch, g > lastEpoch'
          PROVE  connSet'[g] = {}
      <4>1. g > lastEpoch /\ connSet' = connSet
        BY <3>3, <3>1, <2>2, <2>3
      <4> QED BY <4>1 DEF TableOK
    <3> QED BY <3>2, <3>3 DEF TableOK
  <2>7. HandlerOK'
    BY <2>2, <2>3 DEF TypeOK, HandlerOK, connVars, NoFan
  <2> QED BY <2>5, <2>6, <2>7
<1>12. ASSUME NEW f \in Firer, NEW c \in Conn, FanOut(f, c) PROVE Base'
  <2>1. fan[f].epoch \in Epoch /\ fan[f].seq \in 0..MaxSeq
    BY <1>12 DEF FanOut, TypeOK, HandlerOK
  <2>2. /\ pushed' \in [Conn -> [Epoch -> {NotPushed} \cup 0..MaxSeq]]
        /\ closer' \in [Conn -> {"new", "open", "closing", "broken", "detached"}]
    BY <1>12, <2>1, PushEffect DEF FanOut
  <2>3. fan' = [fan EXCEPT ![f] = Rest(f, c)]
        /\ UNCHANGED <<roomVars, connVars, worker>>
    BY <1>12 DEF FanOut
  <2>4. TypeOK'
    BY <2>2, <2>3, RestFacts DEF roomVars, connVars, TypeOK
  <2>5. TableOK'
    BY <2>3 DEF roomVars, TableOK
  <2>6. HandlerOK'
    <3>1. Rest(f, c).todo # {} => Rest(f, c).epoch \in Epoch
      BY <2>1, RestFacts
    <3>2. \A g \in Firer : fan'[g] = IF g = f THEN Rest(f, c) ELSE fan[g]
      BY <2>3 DEF TypeOK
    <3>3. \A g \in Firer : fan'[g].todo # {} => fan'[g].epoch \in Epoch
      BY <3>1, <3>2 DEF HandlerOK
    <3> QED BY <2>3, <3>3 DEF HandlerOK
  <2> QED BY <2>4, <2>5, <2>6
<1>13. CASE CleanEmptyRooms
  BY <1>13 DEF CleanEmptyRooms, NoEpoch, connVars, TypeOK, TableOK, HandlerOK
<1>14. CASE UNCHANGED vars
  BY <1>14 DEF vars, roomVars, connVars, TypeOK, TableOK, HandlerOK
<1> QED
  BY <1>1, <1>2, <1>3, <1>4, <1>5, <1>6, <1>7, <1>8, <1>9, <1>10, <1>11, <1>12,
     <1>13, <1>14 DEF Next, ConnNext, FirerNext

(* Every variable keeps its type, for any number of connections and rooms. *)
THEOREM TypeCorrect == Spec => []TypeOK
<1>1. Base => TypeOK
  BY DEF Base
<1> QED BY <1>1, BaseInit, BaseStep, PTL DEF Spec

-----------------------------------------------------------------------------
(* The steps that touch neither the table nor the membership.              *)
RoomsUntouched == UNCHANGED <<roomVars, connVars>>

LEMMA StepKinds ==
  ASSUME [Next]_vars
  PROVE  \/ RoomsUntouched
         \/ \E c \in Conn : DoRoomEnterJoin(c) \/ DoRoomLeave(c) \/ Detach(c)
         \/ \E f \in Firer, r \in Room : FireChange(f, r)
         \/ CleanEmptyRooms
<1>1. CASE Next
  BY <1>1 DEF Next, ConnNext, FirerNext, RoomsUntouched, Accept, ReadMsg,
     DoRoomEnterStopped, DoRoomEnterOverLimit, SendEntered, Close, MarkBroken, FanOut
<1>2. CASE UNCHANGED vars
  BY <1>2 DEF vars, RoomsUntouched
<1> QED BY <1>1, <1>2

LEMMA MembershipStep ==
  ASSUME Base, MembershipAgrees, [Next]_vars
  PROVE  MembershipAgrees'
<1> USE DEF Base
<1>1. CASE RoomsUntouched
  BY <1>1 DEF RoomsUntouched, roomVars, connVars, MembershipAgrees, JoinedRooms
<1>2. ASSUME NEW c \in Conn, DoRoomEnterJoin(c) PROVE MembershipAgrees'
  <2> DEFINE r == worker[c].room
             e == Target(r)
  <2>1. r \in Room
    BY <1>2 DEF DoRoomEnterJoin, HandlerOK
  <2>2. LookupOrCreate(r, e)
    BY <1>2 DEF DoRoomEnterJoin
  <2>4. /\ connSet' = [connSet EXCEPT ![e] = @ \cup {c}]
        /\ connRoomMap' = [connRoomMap EXCEPT ![c][r] = e]
        /\ UNCHANGED isStopRoomEnter /\ ~isStopRoomEnter[c]
    BY <1>2 DEF DoRoomEnterJoin, MayEnter
  <2> HIDE DEF r, e
  <2>3. /\ e \in Epoch
        /\ roomMap[r] # NoEpoch => e = roomMap[r] /\ roomOf[e] = r
        /\ roomMap[r] = NoEpoch => connSet[e] = {}
        /\ roomMap'[r] = e /\ roomOf'[e] = r
        /\ \A s \in Room : s # r => roomMap'[s] = roomMap[s]
        /\ \A g \in Epoch : g # e => roomOf'[g] = roomOf[g]
    BY <2>1, <2>2, TargetFacts
  <2>5. /\ connRoomMap'[c][r] = e /\ e # NoEpoch
        /\ \A d \in Conn, s \in Room :
             (d # c \/ s # r) => connRoomMap'[d][s] = connRoomMap[d][s]
    BY <2>1, <2>3, <2>4 DEF TypeOK, NoEpoch, Epoch
  <2>6. /\ connSet'[e] = connSet[e] \cup {c}
        /\ \A g \in Epoch : g # e => connSet'[g] = connSet[g]
    BY <2>3, <2>4 DEF TypeOK
  <2>7. ASSUME NEW d \in Conn, NEW s \in Room, connRoomMap'[d][s] # NoEpoch
        PROVE  connRoomMap'[d][s] = roomMap'[s] /\ d \in connSet'[roomMap'[s]]
    <3>1. CASE d = c /\ s = r
      BY <3>1, <2>3, <2>5, <2>6
    <3>2. CASE d # c \/ s # r
      <4>1. connRoomMap[d][s] = roomMap[s] /\ d \in connSet[roomMap[s]] /\ roomMap[s] # NoEpoch
        BY <3>2, <2>7, <2>5 DEF MembershipAgrees, JoinedRooms
      <4>2. roomMap'[s] = roomMap[s]
        BY <4>1, <2>3
      <4>3. roomMap[s] \in Epoch
        BY <4>1 DEF TypeOK
      <4> QED BY <3>2, <4>1, <4>2, <4>3, <2>5, <2>6
    <3> QED BY <3>1, <3>2
  <2>8. ASSUME NEW g \in Epoch, NEW d \in connSet'[g]
        PROVE  roomOf'[g] \in Room /\ connRoomMap'[d][roomOf'[g]] = g
    <3>1. CASE g = e /\ d = c
      BY <3>1, <2>1, <2>3, <2>5
    <3>2. CASE g = e /\ d # c
      <4>1. d \in connSet[e] /\ d \in Conn
        BY <3>2, <2>6, <2>3, <2>8 DEF TypeOK
      <4>2. roomOf[e] = r /\ connRoomMap[d][r] = e
        BY <4>1, <2>3 DEF MembershipAgrees
      <4> QED BY <3>2, <4>1, <4>2, <2>1, <2>3, <2>5
    <3>3. CASE g # e
      <4>1. d \in connSet[g] /\ d \in Conn
        BY <3>3, <2>6, <2>8 DEF TypeOK
      <4>2. roomOf[g] \in Room /\ connRoomMap[d][roomOf[g]] = g
        BY <4>1 DEF MembershipAgrees
      <4>3. g # NoEpoch
        BY DEF Epoch, NoEpoch
      <4>4. g = roomMap[roomOf[g]]
        BY <4>1, <4>2, <4>3 DEF MembershipAgrees, JoinedRooms
      <4>5. roomOf[g] # r
        BY <4>3, <4>4, <3>3, <2>3
      <4> QED BY <3>3, <4>1, <4>2, <4>5, <2>3, <2>5
    <3> QED BY <3>1, <3>2, <3>3
  <2>9. ASSUME NEW d \in Conn, isStopRoomEnter'[d]
        PROVE  \A s \in Room : connRoomMap'[d][s] = NoEpoch
    BY <2>9, <2>4, <2>5 DEF MembershipAgrees, JoinedRooms
  <2> QED BY <2>7, <2>8, <2>9 DEF MembershipAgrees, JoinedRooms
<1>3. ASSUME NEW c \in Conn, DoRoomLeave(c) PROVE MembershipAgrees'
  <2> DEFINE r == worker[c].room
             e == connRoomMap[c][r]
  <2>1. r \in Room /\ UNCHANGED <<roomMap, roomOf, isStopRoomEnter>>
    BY <1>3 DEF DoRoomLeave, HandlerOK
  <2>2. CASE UNCHANGED <<connSet, connRoomMap, isEmptyTimeSet>>
    BY <2>1, <2>2 DEF MembershipAgrees, JoinedRooms
  <2>3. CASE /\ e # NoEpoch
             /\ connSet' = [connSet EXCEPT ![e] = @ \ {c}]
             /\ connRoomMap' = [connRoomMap EXCEPT ![c][r] = NoEpoch]
    <3>1. e \in Epoch /\ e = roomMap[r] /\ roomOf[e] = r
      BY <2>1, <2>3 DEF TypeOK, MembershipAgrees, JoinedRooms, TableOK
    <3> HIDE DEF r, e
    <3>2. /\ connSet'[e] = connSet[e] \ {c}
          /\ \A g \in Epoch : g # e => connSet'[g] = connSet[g]
          /\ connRoomMap'[c][r] = NoEpoch
          /\ \A d \in Conn, s \in Room :
               (d # c \/ s # r) => connRoomMap'[d][s] = connRoomMap[d][s]
      BY <2>1, <2>3, <3>1 DEF TypeOK
    <3>3. ASSUME NEW d \in Conn, NEW s \in Room, connRoomMap'[d][s] # NoEpoch
          PROVE  connRoomMap'[d][s] = roomMap'[s] /\ d \in connSet'[roomMap'[s]]
      <4>1. (d # c \/ s # r) /\ connRoomMap[d][s] = roomMap[s] /\ d \in connSet[roomMap[s]]
            /\ roomMap[s] # NoEpoch
        BY <3>2, <3>3 DEF MembershipAgrees, JoinedRooms
      <4>2. roomMap[s] \in Epoch /\ (s # r => roomMap[s] # e)
        BY <4>1, <3>1, <2>1 DEF TypeOK, TableOK
      <4> QED BY <4>1, <4>2, <3>1, <3>2, <2>1
    <3>4. ASSUME NEW g \in Epoch, NEW d \in connSet'[g]
          PROVE  roomOf'[g] \in Room /\ connRoomMap'[d][roomOf'[g]] = g
      <4>1. d \in connSet[g] /\ d \in Conn /\ (g # e \/ d # c)
        BY <3>2, <3>4 DEF TypeOK
      <4>2. roomOf[g] \in Room /\ connRoomMap[d][roomOf[g]] = g
        BY <4>1 DEF MembershipAgrees
      <4>3. d # c \/ roomOf[g] # r
        BY <4>1, <4>2 DEF e
      <4> QED BY <4>1, <4>2, <4>3, <3>2, <2>1
    <3>5. ASSUME NEW d \in Conn, isStopRoomEnter'[d]
          PROVE  \A s \in Room : connRoomMap'[d][s] = NoEpoch
      BY <3>5, <3>2, <2>1 DEF MembershipAgrees, JoinedRooms
    <3> QED BY <3>3, <3>4, <3>5 DEF MembershipAgrees, JoinedRooms
  <2> QED BY <1>3, <2>2, <2>3 DEF DoRoomLeave
<1>4. ASSUME NEW c \in Conn, Detach(c) PROVE MembershipAgrees'
  <2> DEFINE mine == {connRoomMap[c][s] : s \in JoinedRooms(c)}
  <2>1. /\ UNCHANGED <<roomMap, roomOf>>
        /\ \A s \in Room : connRoomMap'[c][s] = NoEpoch
        /\ \A d \in Conn : d # c => connRoomMap'[d] = connRoomMap[d]
        /\ \A d \in Conn : d # c => isStopRoomEnter'[d] = isStopRoomEnter[d]
        /\ \A g \in Epoch : connSet'[g] = IF g \in mine THEN connSet[g] \ {c}
                                          ELSE connSet[g]
    BY <1>4 DEF Detach, TypeOK
  <2>2. ASSUME NEW g \in Epoch, NEW d \in connSet'[g]
        PROVE  d \in connSet[g] /\ d \in Conn /\ d # c
    <3>1. d \in connSet[g] /\ d \in Conn /\ (g \in mine => d # c)
      BY <2>1, <2>2 DEF TypeOK
    <3>2. ASSUME d = c PROVE g \in mine
      <4>1. roomOf[g] \in Room /\ connRoomMap[c][roomOf[g]] = g /\ g # NoEpoch
        BY <3>1, <3>2 DEF MembershipAgrees, Epoch, NoEpoch
      <4> QED BY <4>1 DEF JoinedRooms
    <3> QED BY <3>1, <3>2
  <2>3. ASSUME NEW d \in Conn, NEW s \in Room, connRoomMap'[d][s] # NoEpoch
        PROVE  connRoomMap'[d][s] = roomMap'[s] /\ d \in connSet'[roomMap'[s]]
    <3>1. d # c /\ connRoomMap[d][s] = roomMap[s] /\ d \in connSet[roomMap[s]]
          /\ roomMap[s] \in Epoch
      BY <2>1, <2>3 DEF MembershipAgrees, JoinedRooms, TypeOK
    <3>2. d \in connSet'[roomMap[s]]
      BY <2>1, <3>1
    <3> QED BY <2>1, <3>1, <3>2
  <2>4. ASSUME NEW g \in Epoch, NEW d \in connSet'[g]
        PROVE  roomOf'[g] \in Room /\ connRoomMap'[d][roomOf'[g]] = g
    BY <2>1, <2>2, <2>4 DEF MembershipAgrees
  <2>5. ASSUME NEW d \in Conn, isStopRoomEnter'[d]
        PROVE  \A s \in Room : connRoomMap'[d][s] = NoEpoch
    BY <2>1, <2>5 DEF MembershipAgrees, JoinedRooms
  <2> QED BY <2>3, <2>4, <2>5 DEF MembershipAgrees, JoinedRooms
<1>5. ASSUME NEW f \in Firer, NEW r \in Room, FireChange(f, r) PROVE MembershipAgrees'
  <2> DEFINE e == Target(r)
  <2>1. LookupOrCreate(r, e) /\ UNCHANGED <<connSet, connRoomMap, isStopRoomEnter>>
    BY <1>5 DEF FireChange, connVars
  <2> HIDE DEF e
  <2>2. /\ e \in Epoch
        /\ roomMap[r] # NoEpoch => e = roomMap[r] /\ roomOf[e] = r
        /\ roomMap[r] = NoEpoch => connSet[e] = {}
        /\ roomMap'[r] = e /\ roomOf'[e] = r
        /\ \A s \in Room : s # r => roomMap'[s] = roomMap[s]
        /\ \A g \in Epoch : g # e => roomOf'[g] = roomOf[g]
    BY <2>1, TargetFacts
  <2>3. \A s \in Room : roomMap[s] # NoEpoch => roomMap'[s] = roomMap[s]
    BY <2>2
  <2>4. \A g \in Epoch : connSet[g] # {} => roomOf'[g] = roomOf[g]
    BY <2>2
  <2> QED BY <2>1, <2>3, <2>4 DEF MembershipAgrees, JoinedRooms
<1>6. CASE CleanEmptyRooms
  <2>1. /\ UNCHANGED <<roomOf, connSet, connRoomMap, isStopRoomEnter>>
        /\ \A s \in Room : roomMap'[s] = roomMap[s]
             \/ (roomMap[s] # NoEpoch /\ connSet[roomMap[s]] = {})
    BY <1>6 DEF CleanEmptyRooms, Cleanable, connVars
  <2> QED BY <2>1 DEF MembershipAgrees, JoinedRooms
<1> QED BY <1>1, <1>2, <1>3, <1>4, <1>5, <1>6, StepKinds

(* The table and the connections agree about membership in every reachable *)
(* state: enter, leave, close and clean-up in any order, on any number of  *)
(* connections and rooms, leave no ghost member and no orphaned room.      *)
THEOREM MembershipCorrect == Spec => []MembershipAgrees
<1>1. Init => MembershipAgrees
  BY DEF Init, MembershipAgrees, JoinedRooms
<1>2. Base /\ MembershipAgrees /\ [Next]_vars => MembershipAgrees'
  BY MembershipStep
<1> QED BY <1>1, <1>2, BaseInit, BaseStep, PTL DEF Spec

-----------------------------------------------------------------------------
LEMMA EmptyTimeStep ==
  ASSUME Base, MembershipAgrees, EmptyTimeMarksEmptyRooms, [Next]_vars
  PROVE  EmptyTimeMarksEmptyRooms'
<1> USE DEF Base
<1>1. CASE RoomsUntouched
  BY <1>1 DEF RoomsUntouched, roomVars, connVars, EmptyTimeMarksEmptyRooms
<1>2. ASSUME NEW c \in Conn, DoRoomEnterJoin(c) PROVE EmptyTimeMarksEmptyRooms'
  <2> DEFINE r == worker[c].room
             e == Target(r)
  <2>1. r \in Room
    BY <1>2 DEF DoRoomEnterJoin, HandlerOK
  <2>2. LookupOrCreate(r, e)
    BY <1>2 DEF DoRoomEnterJoin
  <2>3. /\ connSet' = [connSet EXCEPT ![e] = @ \cup {c}]
        /\ isEmptyTimeSet' = [isEmptyTimeSet EXCEPT ![e] = FALSE]
    BY <1>2 DEF DoRoomEnterJoin
  <2> HIDE DEF r, e
  <2>4. /\ e \in Epoch
        /\ roomMap'[r] = e
        /\ \A s \in Room : s # r => roomMap'[s] = roomMap[s]
    BY <2>1, <2>2, TargetFacts
  <2>5. ASSUME NEW s \in Room, roomMap'[s] # NoEpoch
        PROVE  isEmptyTimeSet'[roomMap'[s]] <=> connSet'[roomMap'[s]] = {}
    <3>1. CASE roomMap'[s] = e
      BY <3>1, <2>3, <2>4 DEF TypeOK
    <3>2. CASE roomMap'[s] # e
      <4>1. roomMap'[s] = roomMap[s] /\ roomMap[s] \in Epoch
        BY <3>2, <2>4, <2>5 DEF TypeOK
      <4> QED BY <4>1, <3>2, <2>3, <2>5 DEF TypeOK, EmptyTimeMarksEmptyRooms
    <3> QED BY <3>1, <3>2
  <2> QED BY <2>5 DEF EmptyTimeMarksEmptyRooms
<1>3. ASSUME NEW c \in Conn, DoRoomLeave(c) PROVE EmptyTimeMarksEmptyRooms'
  <2> DEFINE r == worker[c].room
             e == connRoomMap[c][r]
  <2>1. r \in Room /\ UNCHANGED roomMap
    BY <1>3 DEF DoRoomLeave, HandlerOK
  <2>2. CASE UNCHANGED <<connSet, connRoomMap, isEmptyTimeSet>>
    BY <2>1, <2>2 DEF EmptyTimeMarksEmptyRooms
  <2>3. CASE /\ e # NoEpoch
             /\ connSet' = [connSet EXCEPT ![e] = @ \ {c}]
             /\ isEmptyTimeSet' = [isEmptyTimeSet EXCEPT ![e] = EmptyAfter(e, c)]
    <3>1. e \in Epoch /\ e = roomMap[r] /\ c \in connSet[e]
      BY <2>1, <2>3 DEF TypeOK, MembershipAgrees, JoinedRooms
    <3> HIDE DEF r, e
    <3>2. ~isEmptyTimeSet[e]
      BY <2>1, <2>3, <3>1 DEF EmptyTimeMarksEmptyRooms
    <3>3. isEmptyTimeSet'[e] <=> connSet'[e] = {}
      BY <2>3, <3>1, <3>2 DEF TypeOK, EmptyAfter
    <3>4. \A g \in Epoch : g # e => /\ connSet'[g] = connSet[g]
                                    /\ isEmptyTimeSet'[g] = isEmptyTimeSet[g]
      BY <2>3, <3>1 DEF TypeOK
    <3> QED BY <2>1, <3>3, <3>4 DEF EmptyTimeMarksEmptyRooms, TypeOK
  <2> QED BY <1>3, <2>2, <2>3 DEF DoRoomLeave
<1>4. ASSUME NEW c \in Conn, Detach(c) PROVE EmptyTimeMarksEmptyRooms'
  <2> DEFINE mine == {connRoomMap[c][s] : s \in JoinedRooms(c)}
  <2>1. /\ UNCHANGED roomMap
        /\ \A g \in Epoch : connSet'[g] = IF g \in mine THEN connSet[g] \ {c}
                                          ELSE connSet[g]
        /\ \A g \in Epoch : isEmptyTimeSet'[g] = IF g \in mine THEN EmptyAfter(g, c)
                                                 ELSE isEmptyTimeSet[g]
    BY <1>4 DEF Detach, TypeOK
  <2>2. ASSUME NEW s \in Room, roomMap[s] # NoEpoch
        PROVE  isEmptyTimeSet'[roomMap[s]] <=> connSet'[roomMap[s]] = {}
    <3> DEFINE g == roomMap[s]
    <3>1. g \in Epoch /\ (isEmptyTimeSet[g] <=> connSet[g] = {})
          /\ isEmptyTimeSet[g] \in BOOLEAN
      BY <2>2 DEF TypeOK, EmptyTimeMarksEmptyRooms
    <3>2. g \in mine => c \in connSet[g]
      BY DEF MembershipAgrees
    <3> HIDE DEF mine, g
    <3>3. CASE g \in mine
      <4>1. ~isEmptyTimeSet[g]
        BY <3>1, <3>2, <3>3
      <4> QED BY <2>1, <3>1, <3>3, <4>1 DEF EmptyAfter, g
    <3>4. CASE g \notin mine
      BY <2>1, <3>1, <3>4 DEF g
    <3> QED BY <3>3, <3>4
  <2> QED BY <2>1, <2>2 DEF EmptyTimeMarksEmptyRooms
<1>5. ASSUME NEW f \in Firer, NEW r \in Room, FireChange(f, r)
      PROVE  EmptyTimeMarksEmptyRooms'
  <2> DEFINE e == Target(r)
  <2>1. /\ LookupOrCreate(r, e) /\ UNCHANGED connSet
        /\ isEmptyTimeSet' = [isEmptyTimeSet EXCEPT
                                ![e] = isEmptyTimeSet[e] \/ roomMap[r] = NoEpoch]
    BY <1>5 DEF FireChange
  <2> HIDE DEF e
  <2>2. /\ e \in Epoch
        /\ roomMap[r] # NoEpoch => e = roomMap[r]
        /\ roomMap[r] = NoEpoch => connSet[e] = {}
        /\ roomMap'[r] = e
        /\ \A s \in Room : s # r => roomMap'[s] = roomMap[s]
    BY <2>1, TargetFacts
  <2>3. isEmptyTimeSet'[e] <=> connSet'[e] = {}
    BY <2>1, <2>2 DEF TypeOK, EmptyTimeMarksEmptyRooms
  <2>4. \A g \in Epoch : g # e => isEmptyTimeSet'[g] = isEmptyTimeSet[g]
    BY <2>1, <2>2 DEF TypeOK
  <2>5. \A s \in Room : roomMap'[s] = e \/ (roomMap'[s] = roomMap[s] /\ roomMap[s] # e)
    BY <2>2
  <2> QED BY <2>1, <2>3, <2>4, <2>5 DEF EmptyTimeMarksEmptyRooms, TypeOK
<1>6. CASE CleanEmptyRooms
  <2>1. /\ UNCHANGED <<connSet, isEmptyTimeSet>>
        /\ \A s \in Room : roomMap'[s] \in {roomMap[s], NoEpoch}
    BY <1>6 DEF CleanEmptyRooms
  <2> QED BY <2>1 DEF EmptyTimeMarksEmptyRooms
<1> QED BY <1>1, <1>2, <1>3, <1>4, <1>5, <1>6, StepKinds

(* Every empty room of the table can be recognised by the clean-up, and no *)
(* room with members can.                                                  *)
THEOREM EmptyTimeCorrect == Spec => []EmptyTimeMarksEmptyRooms
<1>1. Init => MembershipAgrees /\ EmptyTimeMarksEmptyRooms
  BY DEF Init, MembershipAgrees, JoinedRooms, EmptyTimeMarksEmptyRooms
<1>2. Base /\ MembershipAgrees /\ EmptyTimeMarksEmptyRooms /\ [Next]_vars
        => MembershipAgrees' /\ EmptyTimeMarksEmptyRooms'
  BY MembershipStep, EmptyTimeStep
<1> QED BY <1>1, <1>2, BaseInit, BaseStep, PTL DEF Spec

-----------------------------------------------------------------------------
(* A connection not yet accepted handles nothing and is in no room.        *)
NewIsIdle ==
  \A c \in Conn : closer[c] = "new" =>
    /\ worker[c].op = "idle"
    /\ \A e \in Epoch : c \notin connSet[e]
    /\ \A f \in Firer : c \notin fan[f].todo

FanInv == NewIsIdle /\ NothingInvented /\ NoLostChange

(* What the two sending steps do, in the terms FanInv speaks of.           *)
LEMMA SendKeepsFanInv ==
  ASSUME Base, FanInv, NEW c \in Conn, NEW e \in Epoch, NEW seq \in 0..MaxSeq,
         Push(c, e, seq), seq <= changeSeq[e], closer[c] # "new",
         UNCHANGED roomVars,
         \A d \in Conn : worker'[d].op # "idle" => worker'[d] = worker[d],
         \A f \in Firer : fan'[f].todo # {} =>
            /\ fan'[f].epoch = fan[f].epoch /\ fan'[f].seq = fan[f].seq
            /\ fan[f].todo # {} /\ fan'[f].todo \subseteq fan[f].todo,
         \A d \in Conn, g \in Epoch, n \in 0..MaxSeq :
            WillPush(d, g, n) => WillPush(d, g, n)' \/ (d = c /\ g = e /\ n = seq)
  PROVE  FanInv'
<1> USE DEF Base
<1>1. /\ \A d \in Conn, g \in Epoch :
              (d # c \/ g # e) => pushed'[d][g] = pushed[d][g]
      /\ \A d \in Conn : closer'[d] = "open" => closer[d] = "open"
      /\ closer'[c] = "open" =>
              pushed'[c][e] = IF seq > pushed[c][e] THEN seq ELSE pushed[c][e]
      /\ pushed'[c][e] \in {seq, pushed[c][e]}
  BY PushEffect
<1>2. /\ \A g \in Epoch : changeSeq[g] \in 0..MaxSeq
      /\ \A d \in Conn, g \in Epoch : pushed[d][g] \in Int
      /\ UNCHANGED <<changeSeq, connSet>>
  BY DEF TypeOK, NotPushed, roomVars
<1>3. NothingInvented'
  <2>1. ASSUME NEW d \in Conn, NEW g \in Epoch PROVE pushed'[d][g] <= changeSeq'[g]
    BY <1>1, <1>2 DEF FanInv, NothingInvented
  <2>2. ASSUME NEW d \in Conn, worker'[d].op = "send"
        PROVE  worker'[d].seq <= changeSeq'[worker'[d].epoch]
    BY <2>2, <1>2 DEF FanInv, NothingInvented
  <2>3. ASSUME NEW f \in Firer, fan'[f].todo # {}
        PROVE  fan'[f].seq <= changeSeq'[fan'[f].epoch]
    BY <2>3, <1>2 DEF FanInv, NothingInvented
  <2> QED BY <2>1, <2>2, <2>3 DEF NothingInvented
<1>4. NoLostChange'
  <2> SUFFICES ASSUME NEW g \in Epoch, NEW d \in connSet'[g], closer'[d] = "open"
               PROVE  pushed'[d][g] = changeSeq'[g] \/ WillPush(d, g, changeSeq[g])'
    BY DEF NoLostChange
  <2>1. d \in Conn /\ d \in connSet[g] /\ closer[d] = "open"
    BY <1>1, <1>2 DEF TypeOK
  <2>2. CASE pushed[d][g] = changeSeq[g]
    BY <2>1, <2>2, <1>1, <1>2
  <2>3. CASE WillPush(d, g, changeSeq[g])
    <3>1. CASE d = c /\ g = e /\ changeSeq[g] = seq
      <4>1. pushed[c][e] <= changeSeq[e]
        BY DEF FanInv, NothingInvented
      <4> QED BY <3>1, <4>1, <1>1, <1>2
    <3>2. CASE WillPush(d, g, changeSeq[g])'
      BY <3>2
    <3> QED BY <2>1, <2>3, <3>1, <3>2, <1>2
  <2> QED BY <2>1, <2>2, <2>3 DEF FanInv, NoLostChange
<1>5. NewIsIdle'
  <2> SUFFICES ASSUME NEW d \in Conn, closer'[d] = "new"
               PROVE  /\ worker'[d].op = "idle"
                      /\ \A g \in Epoch : d \notin connSet'[g]
                      /\ \A f \in Firer : d \notin fan'[f].todo
    BY DEF NewIsIdle
  <2>1. closer[d] = "new"
    BY DEF Push, StartClose, TypeOK
  <2> QED BY <2>1, <1>2 DEF FanInv, NewIsIdle
<1> QED BY <1>3, <1>4, <1>5 DEF FanInv

(* The steps that push nothing, leave the counters alone, commit nobody to *)
(* a send and take no commitment back.                                     *)
LEMMA QuietKeepsFanInv ==
  ASSUME Base, FanInv, UNCHANGED <<changeSeq, fan>>,
         \A g \in Epoch : connSet'[g] \subseteq connSet[g],
         \A d \in Conn : worker'[d] = worker[d]
            \/ (worker[d].op # "send" /\ worker'[d].op # "send" /\ closer'[d] # "new"),
         \A d \in Conn : closer'[d] = "open" => closer[d] \in {"new", "open"},
         \A d \in Conn : closer'[d] = "new" => closer[d] = "new",
         \A d \in Conn : pushed'[d] = pushed[d]
            \/ (closer'[d] # "open" /\ pushed'[d] = [g \in Epoch |-> NotPushed])
  PROVE  FanInv'
<1> USE DEF Base
<1>1. \A g \in Epoch : changeSeq[g] \in 0..MaxSeq
  BY DEF TypeOK
<1>2. NewIsIdle'
  BY DEF FanInv, NewIsIdle, TypeOK
<1>3. NothingInvented'
  BY <1>1 DEF FanInv, NothingInvented, NotPushed
<1>4. NoLostChange'
  <2> SUFFICES ASSUME NEW g \in Epoch, NEW d \in connSet'[g], closer'[d] = "open"
               PROVE  pushed'[d][g] = changeSeq'[g] \/ WillPush(d, g, changeSeq[g])'
    BY DEF NoLostChange
  <2>1. d \in Conn /\ d \in connSet[g] /\ closer[d] = "open"
    BY DEF TypeOK, FanInv, NewIsIdle
  <2>2. pushed[d][g] = changeSeq[g] \/ WillPush(d, g, changeSeq[g])
    BY <2>1 DEF FanInv, NoLostChange
  <2> QED BY <2>1, <2>2 DEF WillPush
<1> QED BY <1>2, <1>3, <1>4 DEF FanInv

LEMMA FanStep ==
  ASSUME Base, FanInv, [Next]_vars
  PROVE  FanInv'
<1> USE DEF Base
<1>1. ASSUME NEW c \in Conn, Accept(c) PROVE FanInv'
  BY <1>1, QuietKeepsFanInv DEF Accept, roomVars, TypeOK
<1>2. ASSUME NEW c \in Conn, NEW op \in {"enter", "leave"}, NEW r \in Room,
             ReadMsg(c, op, r)
      PROVE  FanInv'
  BY <1>2, QuietKeepsFanInv DEF ReadMsg, roomVars, TypeOK
<1>3. ASSUME NEW c \in Conn, DoRoomEnterJoin(c) PROVE FanInv'
  <2> DEFINE r == worker[c].room
             e == Target(r)
  <2>1. r \in Room
    BY <1>3 DEF DoRoomEnterJoin, HandlerOK
  <2>2. LookupOrCreate(r, e)
    BY <1>3 DEF DoRoomEnterJoin
  <2>3. /\ connSet' = [connSet EXCEPT ![e] = @ \cup {c}]
        /\ worker' = [worker EXCEPT ![c] = [op |-> "send", room |-> r,
                                            epoch |-> e, seq |-> changeSeq[e]]]
        /\ UNCHANGED <<changeSeq, closer, fan, pushed>>
        /\ worker[c].op = "enter"
    BY <1>3 DEF DoRoomEnterJoin
  <2> HIDE DEF r, e
  <2>4. e \in Epoch
    BY <2>1, <2>2, TargetFacts
  <2>5. /\ \A g \in Epoch : connSet'[g] = IF g = e THEN connSet[g] \cup {c} ELSE connSet[g]
        /\ \A d \in Conn : d # c => worker'[d] = worker[d]
        /\ worker'[c].op = "send" /\ worker'[c].epoch = e /\ worker'[c].seq = changeSeq[e]
        /\ changeSeq[e] \in Int
    <3>1. DOMAIN connSet = Epoch /\ DOMAIN worker = Conn /\ changeSeq[e] \in Int
      BY <2>4 DEF TypeOK
    <3>2. \A g \in Epoch :
            connSet'[g] = IF g = e THEN connSet[g] \cup {c} ELSE connSet[g]
      BY <2>3, <3>1
    <3>3. /\ \A d \in Conn : d # c => worker'[d] = worker[d]
          /\ worker'[c].op = "send" /\ worker'[c].epoch = e /\ worker'[c].seq = changeSeq[e]
      BY <2>3, <3>1
    <3> QED BY <3>1, <3>2, <3>3
  <2>6. NewIsIdle'
    BY <2>3, <2>5 DEF FanInv, NewIsIdle
  <2>7. NothingInvented'
    BY <2>3, <2>4, <2>5 DEF FanInv, NothingInvented
  <2>8. NoLostChange'
    <3> SUFFICES ASSUME NEW g \in Epoch, NEW d \in connSet'[g], closer'[d] = "open"
                 PROVE  pushed'[d][g] = changeSeq'[g] \/ WillPush(d, g, changeSeq[g])'
      BY DEF NoLostChange
    <3>1. CASE g = e /\ d = c
      BY <3>1, <2>3, <2>5 DEF WillPush
    <3>2. CASE g # e \/ d # c
      <4>1. d \in connSet[g] /\ d \in Conn /\ closer[d] = "open"
        BY <3>2, <2>3, <2>5 DEF TypeOK
      <4>2. pushed[d][g] = changeSeq[g] \/ WillPush(d, g, changeSeq[g])
        BY <4>1 DEF FanInv, NoLostChange
      <4> QED BY <4>1, <4>2, <2>3, <2>5 DEF WillPush
    <3> QED BY <3>1, <3>2
  <2> QED BY <2>6, <2>7, <2>8 DEF FanInv
<1>4. ASSUME NEW c \in Conn, DoRoomEnterStopped(c) PROVE FanInv'
  <2>1. closer[c] # "new"
    BY <1>4 DEF DoRoomEnterStopped, FanInv, NewIsIdle
  <2> QED BY <1>4, <2>1, QuietKeepsFanInv DEF DoRoomEnterStopped, Idle, roomVars, TypeOK
<1>5. ASSUME NEW c \in Conn, DoRoomEnterOverLimit(c) PROVE FanInv'
  <2>1. closer[c] # "new"
    BY <1>5 DEF DoRoomEnterOverLimit, FanInv, NewIsIdle
  <2> QED BY <1>5, <2>1, QuietKeepsFanInv
          DEF DoRoomEnterOverLimit, StartClose, Idle, roomVars, TypeOK
<1>6. ASSUME NEW c \in Conn, SendEntered(c) PROVE FanInv'
  <2> DEFINE e == worker[c].epoch
             n == worker[c].seq
  <2>1. /\ e \in Epoch /\ n \in 0..MaxSeq /\ n <= changeSeq[e] /\ closer[c] # "new"
    BY <1>6 DEF SendEntered, FanInv, NothingInvented, NewIsIdle, HandlerOK, TypeOK
  <2>2. /\ Push(c, e, n)
        /\ worker' = [worker EXCEPT ![c] = Idle]
        /\ UNCHANGED <<roomVars, fan>>
    BY <1>6 DEF SendEntered
  <2>3. /\ worker'[c].op = "idle"
        /\ \A d \in Conn : d # c => worker'[d] = worker[d]
    BY <2>2 DEF Idle, TypeOK
  <2>4. \A d \in Conn, g \in Epoch, k \in 0..MaxSeq :
          WillPush(d, g, k) => WillPush(d, g, k)' \/ (d = c /\ g = e /\ k = n)
    BY <2>2, <2>3 DEF WillPush
  <2> HIDE DEF e, n
  <2> QED BY <2>1, <2>2, <2>3, <2>4, SendKeepsFanInv
<1>7. ASSUME NEW c \in Conn, DoRoomLeave(c) PROVE FanInv'
  <2>1. closer[c] # "new"
    BY <1>7 DEF DoRoomLeave, FanInv, NewIsIdle
  <2>2. \A g \in Epoch : connSet'[g] \subseteq connSet[g]
    <3>1. CASE UNCHANGED connSet
      BY <3>1
    <3>2. CASE connSet' = [connSet EXCEPT ![connRoomMap[c][worker[c].room]] = @ \ {c}]
      BY <3>2 DEF TypeOK
    <3> QED BY <1>7, <3>1, <3>2 DEF DoRoomLeave
  <2> QED BY <1>7, <2>1, <2>2, QuietKeepsFanInv DEF DoRoomLeave, Idle, TypeOK
<1>8. ASSUME NEW c \in Conn, Close(c) PROVE FanInv'
  BY <1>8, QuietKeepsFanInv DEF Close, StartClose, roomVars, TypeOK
<1>9. ASSUME NEW c \in Conn, MarkBroken(c) PROVE FanInv'
  BY <1>9, QuietKeepsFanInv DEF MarkBroken, roomVars, TypeOK
<1>10. ASSUME NEW c \in Conn, Detach(c) PROVE FanInv'
  <2>1. \A g \in Epoch : connSet'[g] \subseteq connSet[g]
    BY <1>10 DEF Detach, TypeOK
  <2> QED BY <1>10, <2>1, QuietKeepsFanInv DEF Detach, TypeOK
<1>11. ASSUME NEW f \in Firer, NEW r \in Room, FireChange(f, r) PROVE FanInv'
  <2> DEFINE e == Target(r)
  <2>1. LookupOrCreate(r, e)
    BY <1>11 DEF FireChange
  <2>2. /\ fan[f] = NoFan
        /\ changeSeq' = [changeSeq EXCEPT ![e] = changeSeq[e] + 1]
        /\ fan' = [fan EXCEPT ![f] =
                     IF connSet[e] = {} THEN NoFan
                     ELSE [epoch |-> e, seq |-> changeSeq[e] + 1,
                           todo |-> connSet[e]]]
        /\ UNCHANGED <<connSet, closer, worker, pushed>>
    BY <1>11 DEF FireChange, NextSeq, Members
  <2> HIDE DEF e
  <2>3. e \in Epoch
    BY <2>1, TargetFacts
  <2>4. /\ \A g \in Epoch : changeSeq[g] \in Int /\ changeSeq'[g] \in Int
        /\ changeSeq'[e] = changeSeq[e] + 1
        /\ \A g \in Epoch : g # e => changeSeq'[g] = changeSeq[g]
        /\ \A d \in Conn, g \in Epoch : pushed[d][g] \in Int
        /\ \A d \in Conn : worker[d].seq \in Int
        /\ \A h \in Firer : fan[h].seq \in Int
        /\ \A h \in Firer : h # f => fan'[h] = fan[h]
        /\ fan'[f].todo = connSet[e]
        /\ connSet[e] # {} => fan'[f].epoch = e /\ fan'[f].seq = changeSeq'[e]
        /\ fan[f].todo = {}
    BY <2>2, <2>3 DEF TypeOK, NotPushed, NoFan
  <2>5. \A g \in Epoch : changeSeq[g] <= changeSeq'[g]
    BY <2>4
  <2>6. NewIsIdle'
    BY <2>2, <2>3, <2>4 DEF FanInv, NewIsIdle
  <2>7. NothingInvented'
    <3>1. ASSUME NEW d \in Conn, NEW g \in Epoch PROVE pushed'[d][g] <= changeSeq'[g]
      BY <2>2, <2>4, <2>5 DEF FanInv, NothingInvented
    <3>2. ASSUME NEW d \in Conn, worker'[d].op = "send"
          PROVE  worker'[d].seq <= changeSeq'[worker'[d].epoch]
      <4>1. worker[d].epoch \in Epoch /\ worker[d].seq <= changeSeq[worker[d].epoch]
        BY <3>2, <2>2 DEF FanInv, NothingInvented, HandlerOK
      <4> QED BY <4>1, <2>2, <2>4, <2>5
    <3>3. ASSUME NEW h \in Firer, fan'[h].todo # {}
          PROVE  fan'[h].seq <= changeSeq'[fan'[h].epoch]
      <4>1. CASE h = f
        BY <4>1, <3>3, <2>3, <2>4
      <4>2. CASE h # f
        <5>1. fan[h].epoch \in Epoch /\ fan[h].seq <= changeSeq[fan[h].epoch]
              /\ fan'[h] = fan[h]
          BY <4>2, <3>3, <2>4 DEF FanInv, NothingInvented, HandlerOK
        <5> QED BY <5>1, <2>4, <2>5
      <4> QED BY <4>1, <4>2
    <3> QED BY <3>1, <3>2, <3>3 DEF NothingInvented
  <2>8. NoLostChange'
    <3> SUFFICES ASSUME NEW g \in Epoch, NEW d \in connSet'[g], closer'[d] = "open"
                 PROVE  pushed'[d][g] = changeSeq'[g] \/ WillPush(d, g, changeSeq[g])'
      BY DEF NoLostChange
    <3>1. d \in connSet[g] /\ closer[d] = "open" /\ d \in Conn
      BY <2>2 DEF TypeOK
    <3>2. CASE g = e
      BY <3>1, <3>2, <2>4 DEF WillPush
    <3>3. CASE g # e
      <4>1. pushed[d][g] = changeSeq[g] \/ WillPush(d, g, changeSeq[g])
        BY <3>1 DEF FanInv, NoLostChange
      <4> QED BY <3>3, <4>1, <2>2, <2>4 DEF WillPush
    <3> QED BY <3>2, <3>3
  <2> QED BY <2>6, <2>7, <2>8 DEF FanInv
<1>12. ASSUME NEW f \in Firer, NEW c \in Conn, FanOut(f, c) PROVE FanInv'
  <2> DEFINE e == fan[f].epoch
             n == fan[f].seq
  <2>1. /\ e \in Epoch /\ n \in 0..MaxSeq /\ n <= changeSeq[e]
    BY <1>12 DEF FanOut, FanInv, NothingInvented, HandlerOK, TypeOK
  <2>2. /\ Push(c, e, n)
        /\ c \in fan[f].todo
        /\ fan' = [fan EXCEPT ![f] = Rest(f, c)]
        /\ UNCHANGED <<roomVars, worker>>
    BY <1>12 DEF FanOut
  <2>3. /\ \A h \in Firer : h # f => fan'[h] = fan[h]
        /\ fan'[f].todo = fan[f].todo \ {c}
        /\ fan'[f].todo # {} => fan'[f].epoch = e /\ fan'[f].seq = n
    <3> DEFINE left == Rest(f, c)
    <3>1. /\ left.todo = fan[f].todo \ {c}
          /\ left.todo # {} => left.epoch = e /\ left.seq = n
      BY <2>2, RestFacts
    <3>2. fan' = [fan EXCEPT ![f] = left] /\ DOMAIN fan = Firer
      BY <2>2 DEF TypeOK
    <3> HIDE DEF left, e, n
    <3>3. fan'[f] = left /\ \A h \in Firer : h # f => fan'[h] = fan[h]
      BY <3>2
    <3> QED BY <2>2, <3>1, <3>3
  <2>4. \A d \in Conn, g \in Epoch, k \in 0..MaxSeq :
          WillPush(d, g, k) => WillPush(d, g, k)' \/ (d = c /\ g = e /\ k = n)
    BY <2>2, <2>3 DEF WillPush
  <2>5. closer[c] # "new"
    BY <2>2 DEF FanInv, NewIsIdle
  <2>6. \A h \in Firer : fan'[h].todo # {} =>
          /\ fan'[h].epoch = fan[h].epoch /\ fan'[h].seq = fan[h].seq
          /\ fan[h].todo # {} /\ fan'[h].todo \subseteq fan[h].todo
    BY <2>2, <2>3
  <2>7. \A d \in Conn : worker'[d].op # "idle" => worker'[d] = worker[d]
    BY <2>2
  <2> HIDE DEF e, n
  <2> QED BY <2>1, <2>2, <2>4, <2>5, <2>6, <2>7, SendKeepsFanInv
<1>13. CASE CleanEmptyRooms
  BY <1>13, QuietKeepsFanInv DEF CleanEmptyRooms
<1>14. CASE UNCHANGED vars
  BY <1>14, QuietKeepsFanInv DEF vars, roomVars
<1> QED
  BY <1>1, <1>2, <1>3, <1>4, <1>5, <1>6, <1>7, <1>8, <1>9, <1>10, <1>11, <1>12,
     <1>13, <1>14 DEF Next, ConnNext, FirerNext

(* The inductive invariant of NoLostChange has to know that a connection   *)
(* not yet accepted is nobody's business and that no goroutine holds a     *)
(* counter the room has not reached: otherwise a push could leave a member *)
(* ahead of its room, where the equation of NoLostChange fails.            *)
(* For every set of connections, rooms and callers of FireChange: between  *)
(* doRoomEnter's snapshot and FireChange's fan-out no change falls through *)
(* for a member whose connection is open.                                  *)
THEOREM NoLostChangeCorrect == Spec => []NoLostChange
<1>1. Init => FanInv
  BY DEF Init, FanInv, NewIsIdle, NothingInvented, NoLostChange, Idle, NoFan,
         NotPushed, Epoch
<1>2. FanInv /\ Base /\ [Next]_vars => FanInv'
  BY FanStep
<1>3. FanInv => NoLostChange
  BY DEF FanInv
<1> QED BY <1>1, <1>2, <1>3, BaseInit, BaseStep, PTL DEF Spec

=============================================================================
