-------------------------- MODULE RoomNotifyProofs --------------------------
(***************************************************************************)
(* Proofs about RoomNotify for any number of restarts, changes and         *)
(* connections: what is sent reaches the client's room, it is never set    *)
(* back by a connection in order, and LiveData stays whole, but for the    *)
(* parts of groups that were cut.                                          *)
(***************************************************************************)
EXTENDS RoomNotify, SequenceTheorems, TLAPS

(* Messages between the server and the end of onReadMsg.                   *)
InFlight == handler \cup {wire[i] : i \in DOMAIN wire}

(* Nobody has a value the server has not had, nor forgets the newest.      *)
NotAhead ==
  /\ ~IsOlder(server, newest) /\ ~IsOlder(newest, known)
  /\ \A send \in toSend : ~IsOlder(server, send.value)
  /\ \A m \in InFlight \cup stale : ~IsOlder(server, m.value)

(* What depends on a link goes with it.                                    *)
LinkOK ==
  /\ link = "cut" => toSend = {} /\ ~member /\ ~entering /\ ~toClose
  /\ conn = "none" => link = "cut" /\ wire = <<>> /\ handler = {}

(* A connection carries values of one instance of the room, which is not   *)
(* older than the instance the client knows, or may still hear of late.    *)
OneEpoch ==
  /\ \A send \in toSend : send.value.epoch = server.epoch
  /\ \A m \in InFlight :
       /\ link = "open" => m.value.epoch = server.epoch
       /\ known.epoch <= m.value.epoch
       /\ \A s \in stale : s.value.epoch <= m.value.epoch
       /\ \A n \in InFlight : n.value.epoch = m.value.epoch

(* A member that has not seen the server's value is being sent it, or its  *)
(* connection is about to be closed.                                       *)
Pending ==
  member => \/ toClose
            \/ newest = server
            \/ \E send \in toSend : send.value = server
            \/ \E m \in InFlight : m.cmd = "roomValue" /\ m.value = server

(* Only a late readThread leaves the room behind the newest value.         *)
Behind == known = newest \/ overtaken

(* The messages of a change: a small one, or two that follow each other,   *)
(* or the first part of a group that was cut (FirstPart).                  *)
Small(v) == [cmd |-> "roomValue", value |-> v, data |-> <<>>]
First(v) == [cmd |-> "roomValueMore", value |-> v, data |-> <<Chunk(v, 1)>>]
Second(v) == [cmd |-> "roomValue", value |-> v, data |-> <<Chunk(v, 2)>>]

IsSmall(m) == m = Small(m.value)
IsFirst(m) == m = First(m.value)
IsSecond(m) == m = Second(m.value)
IsCut(m) == m = FirstPart(m.value)

Paired(q) ==
  \A i \in DOMAIN q :
    /\ IsSmall(q[i]) \/ IsFirst(q[i]) \/ IsSecond(q[i]) \/ IsCut(q[i])
    /\ IsFirst(q[i]) => i + 1 \in DOMAIN q /\ q[i + 1] = Second(q[i].value)
    /\ IsSecond(q[i]) /\ i # 1 => q[i - 1] = First(q[i].value)

PairsOnWire == Paired(wire)

(* The next message on the wire, which completes the first one of v.       *)
Completes(v) == wire # <<>> /\ wire[1] = Second(v)
StartsAnew == wire = <<>> \/ ~IsSecond(wire[1])

(* What was reassembled so far, but for parts of groups that were cut,     *)
(* belongs to the message that comes next.                                 *)
Reassembling ==
  conn = "open" =>
    /\ handler = {} =>
         \/ Follows(reassembleBuf, <<>>) /\ StartsAnew
         \/ \E v \in Value : Follows(reassembleBuf, <<Chunk(v, 1)>>) /\ Completes(v)
    /\ \A m \in handler :
         /\ handler = {m}
         /\ \/ (IsSmall(m) \/ IsCut(m)) /\ Follows(reassembleBuf, <<>>) /\ StartsAnew
            \/ IsFirst(m) /\ Follows(reassembleBuf, <<>>) /\ Completes(m.value)
            \/ IsSecond(m) /\ Follows(reassembleBuf, <<Chunk(m.value, 1)>>) /\ StartsAnew

Intact(data, v) == \E own \in {<<>>, LiveDataOf(v)} : Follows(data, own)
StaleIntact == \A s \in stale : Intact(s.data, s.value)

NotifyInv ==
  /\ TypeOK
  /\ NotAhead /\ LinkOK /\ OneEpoch /\ Pending /\ Behind
  /\ PairsOnWire /\ Reassembling /\ StaleIntact

-----------------------------------------------------------------------------
USE DEF serverVars, netVars, connVars, listenerVars, roomVars

LEMMA ValueOrder ==
  ASSUME NEW u \in Value, NEW v \in Value, NEW w \in Value
  PROVE  /\ ~IsOlder(u, u)
         /\ IsOlder(u, v) => ~IsOlder(v, u)
         /\ ~IsOlder(u, v) /\ ~IsOlder(v, w) => ~IsOlder(u, w)
         /\ ~IsOlder(u, v) /\ ~IsOlder(v, u) => u = v
         /\ ~IsOlder(u, v) => v.epoch <= u.epoch
  BY RoomNotifyAssumption DEF Value, IsOlder

LEMMA MessageTypes ==
  ASSUME NEW v \in Value
  PROVE  Small(v) \in Msg /\ First(v) \in Msg /\ Second(v) \in Msg /\ FirstPart(v) \in Msg
  BY DEF Small, First, Second, FirstPart, Chunk, CutChunk, Msg, Data

(* Cut parts, then what is whole: how both grow.                           *)
LEMMA NothingFollows == Follows(<<>>, <<>>)
  BY DEF Follows

LEMMA FollowsAppend ==
  ASSUME NEW data \in Data, NEW own \in Data, Follows(data, own),
         NEW c \in [value : Value, number : {1, 2}, isCut : BOOLEAN]
  PROVE  /\ data \o <<c>> \in Data
         /\ Follows(data \o <<c>>, Append(own, c))
         /\ c.isCut /\ own = <<>> => Follows(data \o <<c>>, <<>>)
<1> DEFINE S == [value : Value, number : {1, 2}, isCut : BOOLEAN]
           d == data \o <<c>>
           o == Append(own, c)
<1>1. /\ Len(data) \in Nat /\ Len(own) \in Nat /\ Len(data) >= Len(own)
      /\ \A i \in 1 .. Len(data) - Len(own) : data[i].isCut
      /\ \A i \in 1 .. Len(own) : data[(Len(data) - Len(own)) + i] = own[i]
  BY DEF Follows, Data
<1>2. d \in Seq(S) /\ Len(d) = Len(data) + 1 /\ d[Len(data) + 1] = c
        /\ \A i \in 1 .. Len(data) : d[i] = data[i]
  <2>1. data \in Seq(S) /\ <<c>> \in Seq(S) /\ Len(<<c>>) = 1 /\ <<c>>[1] = c
    BY DEF Data
  <2> QED
    BY <2>1, ConcatProperties
<1>3. Len(o) = Len(own) + 1 /\ o[Len(own) + 1] = c
        /\ \A i \in 1 .. Len(own) : o[i] = own[i]
  BY DEF Data
<1> DEFINE n == Len(data) - Len(own)
<1> HIDE DEF S, d, o
<1>4. /\ Len(d) - Len(o) = n /\ n \in Nat /\ Len(data) = n + Len(own)
      /\ \A i \in 1 .. n : data[i].isCut
      /\ \A i \in 1 .. Len(own) : data[n + i] = own[i]
  BY <1>1, <1>2, <1>3
<1> HIDE DEF n
<1>5. Follows(d, o)
  <2>1. ASSUME NEW i \in 1 .. Len(o)
        PROVE  d[n + i] = o[i]
    <3>1. CASE i = Len(own) + 1
      <4>1. n + i = Len(data) + 1
        BY <1>1, <1>4, <3>1
      <4> QED
        BY <1>2, <1>3, <3>1, <4>1
    <3>2. CASE i \in 1 .. Len(own)
      <4>1. n + i \in 1 .. Len(data)
        BY <1>1, <1>4, <3>2
      <4> QED
        BY <1>2, <1>3, <1>4, <3>2, <4>1
    <3> QED
      BY <1>1, <1>3, <3>1, <3>2
  <2>2. ASSUME NEW i \in 1 .. n PROVE d[i].isCut
    <3>1. i \in 1 .. Len(data)
      BY <1>1, <1>4
    <3> QED
      BY <1>2, <1>4, <3>1
  <2> QED
    BY <1>4, <2>1, <2>2 DEF Follows
<1>6. ASSUME c.isCut, own = <<>> PROVE Follows(d, <<>>)
  <2>1. Len(<<>>) = 0 /\ Len(own) = 0
    BY <1>6
  <2>2. \A i \in 1 .. Len(d) : d[i].isCut
    BY <1>1, <1>2, <1>6, <2>1
  <2> QED
    BY <1>1, <1>2, <2>1, <2>2 DEF Follows
<1> QED
  BY <1>2, <1>5, <1>6 DEF d, o, S, Data

LEMMA AppendEffect ==
  ASSUME NEW S, NEW q \in Seq(S), NEW x \in S
  PROVE  /\ Append(q, x) \in Seq(S) /\ Append(q, x) # <<>>
         /\ DOMAIN q = 1 .. Len(q) /\ Len(q) \in Nat
         /\ DOMAIN Append(q, x) = 1 .. (Len(q) + 1)
         /\ Len(Append(q, x)) = Len(q) + 1
         /\ \A i \in DOMAIN q : Append(q, x)[i] = q[i]
         /\ Append(q, x)[Len(q) + 1] = x
  OBVIOUS

LEMMA ShortSequences ==
  ASSUME NEW S, NEW x \in S, NEW y \in S
  PROVE  /\ <<>> \in Seq(S) /\ <<x>> \in Seq(S)
         /\ Append(<<>>, x) = <<x>> /\ Append(<<x>>, y) = <<x, y>>
<1>1. <<>> \in Seq(S) /\ <<x>> \in Seq(S)
  OBVIOUS
<1>2. Append(<<>>, x) = <<x>>
  BY SeqEqual
<1>3. Append(<<x>>, y) = <<x, y>>
  <2> DEFINE q == <<x>>
             r == <<x, y>>
  <2>1. q \in Seq(S) /\ Len(q) = 1 /\ q[1] = x
    OBVIOUS
  <2>2. r \in Seq(S) /\ Len(r) = 2 /\ r[1] = x /\ r[2] = y
    OBVIOUS
  <2> HIDE DEF q, r
  <2>3. /\ Append(q, y) \in Seq(S) /\ Len(Append(q, y)) = 2
        /\ Append(q, y)[1] = x /\ Append(q, y)[2] = y
    BY <2>1, AppendEffect
  <2>4. \A i \in 1 .. 2 : i = 1 \/ i = 2
    OBVIOUS
  <2>5. Append(q, y) = r
    BY <2>2, <2>3, <2>4, SeqEqual
  <2> QED
    BY <2>5 DEF q, r
<1> QED
  BY <1>1, <1>2, <1>3

LEMMA OwnData ==
  ASSUME NEW v \in Value
  PROVE  /\ Chunk(v, 1) \in [value : Value, number : {1, 2}, isCut : BOOLEAN]
         /\ Chunk(v, 2) \in [value : Value, number : {1, 2}, isCut : BOOLEAN]
         /\ CutChunk(v) \in [value : Value, number : {1, 2}, isCut : BOOLEAN]
         /\ CutChunk(v).isCut
         /\ <<>> \in Data /\ <<Chunk(v, 1)>> \in Data
         /\ Append(<<>>, Chunk(v, 1)) = <<Chunk(v, 1)>>
         /\ Append(<<Chunk(v, 1)>>, Chunk(v, 2)) = LiveDataOf(v)
<1> DEFINE S == [value : Value, number : {1, 2}, isCut : BOOLEAN]
<1>1. Chunk(v, 1) \in S /\ Chunk(v, 2) \in S /\ CutChunk(v) \in S /\ CutChunk(v).isCut
  BY DEF Chunk, CutChunk
<1>2. /\ <<>> \in Seq(S) /\ <<Chunk(v, 1)>> \in Seq(S)
      /\ Append(<<>>, Chunk(v, 1)) = <<Chunk(v, 1)>>
      /\ Append(<<Chunk(v, 1)>>, Chunk(v, 2)) = <<Chunk(v, 1), Chunk(v, 2)>>
  <2> HIDE DEF S
  <2>1. <<>> \in Seq(S) /\ <<Chunk(v, 1)>> \in Seq(S)
    BY <1>1, ShortSequences
  <2>2. Append(<<>>, Chunk(v, 1)) = <<Chunk(v, 1)>>
    BY <1>1, ShortSequences
  <2>3. Append(<<Chunk(v, 1)>>, Chunk(v, 2)) = <<Chunk(v, 1), Chunk(v, 2)>>
    BY <1>1, ShortSequences
  <2> QED
    BY <2>1, <2>2, <2>3
<1> QED
  BY <1>1, <1>2 DEF LiveDataOf, Data

(* The four messages are told apart.                                       *)
LEMMA MessagesDiffer ==
  ASSUME NEW v, NEW w
  PROVE  /\ IsSmall(Small(v)) /\ IsFirst(First(v)) /\ IsSecond(Second(v)) /\ IsCut(FirstPart(v))
         /\ ~IsSecond(Small(v)) /\ ~IsSecond(First(v)) /\ ~IsSecond(FirstPart(v))
         /\ ~IsFirst(Small(v)) /\ ~IsFirst(Second(v)) /\ ~IsFirst(FirstPart(v))
         /\ First(v).value = v /\ Second(v).value = v /\ Small(v).value = v
         /\ FirstPart(v).value = v
  BY DEF Small, First, Second, FirstPart, IsSmall, IsFirst, IsSecond, IsCut, Chunk, CutChunk

(* What a group adds to the wire.                                          *)
LEMMA ConcatAppend ==
  ASSUME NEW S, NEW q \in Seq(S), NEW x \in S, NEW y \in S
  PROVE  q \o <<x>> = Append(q, x) /\ q \o <<x, y>> = Append(Append(q, x), y)
  OBVIOUS

LEMMA PushEffect ==
  ASSUME NEW send \in toSend, send.value \in Value, wire \in Seq(Msg),
         wire' = wire \o Group(send)
  PROVE  \/ wire' = Append(wire, Small(send.value))
         \/ wire' = Append(Append(wire, First(send.value)), Second(send.value))
<1> DEFINE v == send.value
<1>1. Small(v) \in Msg /\ First(v) \in Msg /\ Second(v) \in Msg
  BY MessageTypes
<1>2. Group(send) = IF ~send.isBig THEN <<Small(v)>> ELSE <<First(v), Second(v)>>
  BY DEF Group, Small, First, Second
<1> HIDE DEF v
<1>3. /\ wire \o <<Small(v)>> = Append(wire, Small(v))
      /\ wire \o <<First(v), Second(v)>> = Append(Append(wire, First(v)), Second(v))
  BY <1>1, ConcatAppend
<1> QED
  BY <1>2, <1>3 DEF v

LEMMA TailEffect ==
  ASSUME NEW S, NEW q \in Seq(S), q # <<>>
  PROVE  /\ Len(q) \in Nat /\ Len(q) >= 1 /\ DOMAIN q = 1 .. Len(q)
         /\ Head(q) = q[1] /\ q[1] \in S
         /\ Tail(q) \in Seq(S)
         /\ DOMAIN Tail(q) = 1 .. (Len(q) - 1) /\ Len(Tail(q)) = Len(q) - 1
         /\ \A i \in DOMAIN Tail(q) : Tail(q)[i] = q[i + 1]
  OBVIOUS

LEMMA AppendPaired ==
  ASSUME NEW q \in Seq(Msg), Paired(q), NEW v \in Value
  PROVE  /\ Paired(Append(q, Small(v)))
         /\ Paired(Append(Append(q, First(v)), Second(v)))
         /\ Paired(Append(q, FirstPart(v)))
<1>1. Small(v) \in Msg /\ First(v) \in Msg /\ Second(v) \in Msg /\ FirstPart(v) \in Msg
  BY MessageTypes
<1>2. /\ IsSmall(Small(v)) /\ IsFirst(First(v)) /\ IsSecond(Second(v)) /\ IsCut(FirstPart(v))
      /\ ~IsSecond(Small(v)) /\ ~IsSecond(First(v)) /\ ~IsSecond(FirstPart(v))
      /\ ~IsFirst(Small(v)) /\ ~IsFirst(Second(v)) /\ ~IsFirst(FirstPart(v))
      /\ First(v).value = v /\ Second(v).value = v
  BY MessagesDiffer
<1>3. Paired(Append(q, Small(v)))
  BY <1>1, <1>2, AppendEffect DEF Paired
<1>4. Paired(Append(Append(q, First(v)), Second(v)))
  <2> DEFINE w == Append(q, First(v))
             x == Append(w, Second(v))
  <2>1. /\ w \in Seq(Msg) /\ DOMAIN w = 1 .. (Len(q) + 1)
        /\ Len(w) = Len(q) + 1
        /\ DOMAIN q = 1 .. Len(q) /\ Len(q) \in Nat
        /\ \A i \in DOMAIN q : w[i] = q[i]
        /\ w[Len(q) + 1] = First(v)
    BY <1>1, AppendEffect
  <2> HIDE DEF w
  <2>2. /\ DOMAIN x = 1 .. (Len(q) + 2)
        /\ \A i \in DOMAIN w : x[i] = w[i]
        /\ x[Len(q) + 2] = Second(v)
    BY <1>1, <2>1, AppendEffect
  <2> HIDE DEF x
  <2>3. \A i \in DOMAIN q : x[i] = q[i]
    BY <2>1, <2>2
  <2>4. x[Len(q) + 1] = First(v)
    BY <2>1, <2>2
  <2>5. Paired(x)
    BY <1>2, <2>1, <2>2, <2>3, <2>4 DEF Paired
  <2> QED
    BY <2>5 DEF x, w
<1>5. Paired(Append(q, FirstPart(v)))
  BY <1>1, <1>2, AppendEffect DEF Paired
<1> QED
  BY <1>3, <1>4, <1>5

LEMMA TailPaired ==
  ASSUME NEW q \in Seq(Msg), q # <<>>, Paired(q)
  PROVE  Paired(Tail(q))
<1> DEFINE r == Tail(q)
<1>1. /\ Len(q) \in Nat /\ Len(q) >= 1 /\ DOMAIN q = 1 .. Len(q)
      /\ DOMAIN r = 1 .. (Len(q) - 1) /\ \A i \in DOMAIN r : r[i] = q[i + 1]
  BY TailEffect
<1> HIDE DEF r
<1>2. ASSUME NEW i \in DOMAIN r
      PROVE  /\ IsSmall(r[i]) \/ IsFirst(r[i]) \/ IsSecond(r[i]) \/ IsCut(r[i])
             /\ IsFirst(r[i]) => i + 1 \in DOMAIN r /\ r[i + 1] = Second(r[i].value)
             /\ IsSecond(r[i]) /\ i # 1 => r[i - 1] = First(r[i].value)
  <2>1. i + 1 \in DOMAIN q /\ r[i] = q[i + 1] /\ i \in Nat /\ i + 1 # 1 /\ (i + 1) - 1 = i
    BY <1>1
  <2>2. IsSmall(r[i]) \/ IsFirst(r[i]) \/ IsSecond(r[i]) \/ IsCut(r[i])
    BY <2>1 DEF Paired
  <2>3. ASSUME IsFirst(r[i])
        PROVE  i + 1 \in DOMAIN r /\ r[i + 1] = Second(r[i].value)
    <3>1. (i + 1) + 1 \in DOMAIN q /\ q[(i + 1) + 1] = Second(r[i].value)
      BY <2>1, <2>3 DEF Paired
    <3> QED
      BY <1>1, <2>1, <3>1
  <2>4. ASSUME IsSecond(r[i]), i # 1
        PROVE  r[i - 1] = First(r[i].value)
    <3>1. q[i] = First(r[i].value)
      BY <2>1, <2>4 DEF Paired
    <3>2. i - 1 \in DOMAIN r /\ (i - 1) + 1 = i
      BY <1>1, <2>1, <2>4
    <3> QED
      BY <1>1, <3>1, <3>2
  <2> QED
    BY <2>2, <2>3, <2>4
<1> QED
  BY <1>2 DEF Paired, r

LEMMA FlightTypes ==
  ASSUME TypeOK
  PROVE  /\ InFlight \subseteq Msg
         /\ \A m \in InFlight : m.value \in Value
         /\ \A m \in InFlight \cup stale : m.value \in Value
<1>1. \A i \in DOMAIN wire : wire[i] \in Msg
  BY DEF TypeOK
<1>2. InFlight \subseteq Msg
  BY <1>1 DEF TypeOK, InFlight
<1> QED
  BY <1>2 DEF TypeOK, Msg

(* What handling a value can do to the room.                               *)
Taking(v, isStale) ==
  /\ \/ known' = v /\ IsNews(v)
     \/ known' = known /\ ~IsNews(v)
  /\ known' \in Value /\ newest' \in Value
  /\ newest' \in {newest, known'}
  /\ ~IsOlder(newest', known') /\ ~IsOlder(newest', newest)
  /\ overtaken' \in BOOLEAN /\ latest' \in Nat /\ told' \in 0 .. latest'
  /\ IsOlder(known', known) => known'.epoch < known.epoch
  /\ known' = newest' \/ overtaken' \/ (~isStale /\ IsOlder(known', known))

LEMMA OnRoomValueEffect ==
  ASSUME TypeOK, ~IsOlder(newest, known), Behind, NEW v \in Value,
         NEW isStale \in BOOLEAN, OnRoomValue(v, isStale)
  PROVE  Taking(v, isStale)
<1>1. /\ \/ known' = v /\ IsNews(v)
         \/ known' = known /\ ~IsNews(v)
      /\ known \in Value /\ newest \in Value
  BY DEF OnRoomValue, TypeOK
<1>2. known' \in Value
  BY <1>1
<1>3. newest' = IF IsOlder(newest, known') THEN known' ELSE newest
  BY DEF OnRoomValue
<1>4. newest' \in {newest, known'} /\ newest' \in Value
        /\ ~IsOlder(newest', known') /\ ~IsOlder(newest', newest)
  BY <1>1, <1>2, <1>3, ValueOrder
<1>5. IsOlder(known', known) => known'.epoch < known.epoch
  BY <1>1, ValueOrder, RoomNotifyAssumption DEF IsNews, IsOlder, Value
<1>6. latest' \in Nat /\ told' \in 0 .. latest'
  BY DEF TypeOK, OnRoomValue, L!Change
<1>7. overtaken' \in BOOLEAN
  BY DEF OnRoomValue
<1>8. ASSUME known' # newest', ~overtaken'
      PROVE  ~isStale /\ IsOlder(known', known)
  <2>1. ~overtaken /\ ~(isStale /\ IsOlder(known', known))
    BY <1>8 DEF OnRoomValue
  <2>2. newest' = known
    BY <1>4, <1>8, <2>1 DEF Behind
  <2>3. IsOlder(known', known)
    BY <1>1, <1>2, <1>4, <1>8, <2>2, ValueOrder
  <2> QED
    BY <2>1, <2>3
<1> QED
  BY <1>1, <1>2, <1>4, <1>5, <1>6, <1>7, <1>8 DEF Taking

-----------------------------------------------------------------------------
(* The server.                                                             *)
LEMMA DoRoomEnterPreserves ==
  ASSUME NotifyInv, DoRoomEnter
  PROVE  NotifyInv'
<1> DEFINE snapshot == [value |-> server, isBig |-> FALSE]
<1>1. toSend' = toSend \cup {snapshot} /\ snapshot.value = server
        /\ snapshot \in [value : Value, isBig : BOOLEAN]
  BY DEF DoRoomEnter, Snapshot, NotifyInv, TypeOK
<1>2. InFlight' = InFlight
  BY DEF DoRoomEnter, InFlight
<1>3. TypeOK'
  BY <1>1 DEF NotifyInv, TypeOK, DoRoomEnter
<1>4. NotAhead'
  BY <1>1, <1>2, ValueOrder DEF NotifyInv, TypeOK, NotAhead, DoRoomEnter
<1>5. LinkOK'
  BY DEF NotifyInv, LinkOK, TypeOK, DoRoomEnter
<1>6. OneEpoch'
  BY <1>1, <1>2 DEF NotifyInv, OneEpoch, DoRoomEnter
<1>7. Pending'
  BY <1>1 DEF Pending, DoRoomEnter
<1>8. (Behind /\ PairsOnWire /\ Reassembling /\ StaleIntact)'
  BY DEF NotifyInv, Behind, PairsOnWire, Reassembling, Completes, StartsAnew, StaleIntact, DoRoomEnter
<1> QED
  BY <1>3, <1>4, <1>5, <1>6, <1>7, <1>8 DEF NotifyInv

LEMMA FireChangePreserves ==
  ASSUME NotifyInv, NEW isBig \in BOOLEAN, FireChange(isBig)
  PROVE  NotifyInv'
<1> DEFINE send == [value |-> server', isBig |-> isBig]
<1>1. /\ server' \in Value /\ server'.epoch = server.epoch
      /\ IsOlder(server, server') /\ ~IsOlder(server', server)
  BY RoomNotifyAssumption DEF NotifyInv, TypeOK, Value, IsOlder, FireChange
<1>2. /\ toSend' \subseteq toSend \cup {send}
      /\ member => send \in toSend'
      /\ ~member => toSend' = toSend
      /\ send.value = server' /\ send \in [value : Value, isBig : BOOLEAN]
  BY <1>1 DEF FireChange, NotifyInv, TypeOK
<1>3. InFlight' = InFlight
  BY DEF FireChange, InFlight
<1>4. TypeOK'
  BY <1>1, <1>2 DEF NotifyInv, TypeOK, FireChange
<1>5. NotAhead'
  <2>1. ASSUME NEW v \in Value, ~IsOlder(server, v) PROVE ~IsOlder(server', v)
    BY <1>1, <2>1, ValueOrder DEF NotifyInv, TypeOK
  <2>2. ~IsOlder(server', newest)
    BY <2>1 DEF NotifyInv, NotAhead, TypeOK
  <2>3. \A x \in toSend' : ~IsOlder(server', x.value)
    BY <1>1, <1>2, <2>1, ValueOrder DEF NotifyInv, NotAhead, TypeOK
  <2>4. \A m \in InFlight \cup stale : m.value \in Value
    BY FlightTypes DEF NotifyInv
  <2>5. \A m \in InFlight \cup stale : ~IsOlder(server', m.value)
    BY <2>1, <2>4 DEF NotifyInv, NotAhead
  <2> QED
    BY <1>3, <2>2, <2>3, <2>5 DEF NotifyInv, NotAhead, FireChange
<1>6. LinkOK'
  BY <1>2 DEF NotifyInv, LinkOK, FireChange
<1>7. OneEpoch'
  BY <1>1, <1>2, <1>3 DEF NotifyInv, OneEpoch, FireChange
<1>8. Pending'
  BY <1>2 DEF Pending, FireChange
<1>9. (Behind /\ PairsOnWire /\ Reassembling /\ StaleIntact)'
  BY DEF NotifyInv, Behind, PairsOnWire, Reassembling, Completes, StartsAnew, StaleIntact, FireChange
<1> QED
  BY <1>4, <1>5, <1>6, <1>7, <1>8, <1>9 DEF NotifyInv

(* A group goes on the wire as a whole.                                    *)
LEMMA PushPreserves ==
  ASSUME NotifyInv, Push
  PROVE  NotifyInv'
<1>1. PICK send \in toSend : toSend' = toSend \ {send} /\ wire' = wire \o Group(send)
  BY DEF Push
<1> DEFINE v == send.value
<1>2. /\ v \in Value /\ wire \in Seq(Msg) /\ handler \subseteq Msg
      /\ link = "open" /\ conn = "open"
  BY DEF NotifyInv, TypeOK, LinkOK
<1>3. \/ wire' = Append(wire, Small(v))
      \/ wire' = Append(Append(wire, First(v)), Second(v))
  BY <1>1, <1>2, PushEffect
<1>4. Small(v) \in Msg /\ First(v) \in Msg /\ Second(v) \in Msg
  BY <1>2, MessageTypes
<1>5. UNCHANGED <<server, member, toClose, link, entering, connVars, roomVars, calm, listenerVars>>
  BY DEF Push
<1> HIDE DEF v
<1>6. \A q \in {Small(v), First(v), Second(v)} : q.value = v
  BY MessagesDiffer
<1>7. wire' \in Seq(Msg)
  <2>1. Append(wire, First(v)) \in Seq(Msg) /\ Append(wire, Small(v)) \in Seq(Msg)
    BY <1>2, <1>4, AppendEffect
  <2>2. Append(Append(wire, First(v)), Second(v)) \in Seq(Msg)
    BY <1>4, <2>1, AppendEffect
  <2> QED
    BY <1>3, <2>1, <2>2
<1>8. /\ InFlight \subseteq InFlight'
      /\ InFlight' \subseteq InFlight \cup {Small(v), First(v), Second(v)}
      /\ Small(v) \in InFlight' \/ Second(v) \in InFlight'
  <2>1. CASE wire' = Append(wire, Small(v))
    BY <1>2, <1>4, <1>5, <2>1, AppendEffect DEF InFlight
  <2>2. CASE wire' = Append(Append(wire, First(v)), Second(v))
    <3> DEFINE w == Append(wire, First(v))
    <3>1. /\ w \in Seq(Msg) /\ DOMAIN w = 1 .. (Len(wire) + 1) /\ Len(wire) \in Nat
          /\ Len(w) = Len(wire) + 1
          /\ DOMAIN wire = 1 .. Len(wire)
          /\ \A i \in DOMAIN wire : w[i] = wire[i]
          /\ w[Len(wire) + 1] = First(v)
      BY <1>2, <1>4, AppendEffect
    <3> HIDE DEF w
    <3>2. /\ DOMAIN wire' = 1 .. (Len(wire) + 2)
          /\ \A i \in DOMAIN w : wire'[i] = w[i]
          /\ wire'[Len(wire) + 2] = Second(v)
      BY <1>4, <2>2, <3>1, AppendEffect DEF w
    <3>3. \A i \in DOMAIN wire : wire'[i] = wire[i]
      BY <3>1, <3>2
    <3>4. wire'[Len(wire) + 1] = First(v)
      BY <3>1, <3>2
    <3> QED
      BY <1>5, <3>1, <3>2, <3>3, <3>4 DEF InFlight
  <2> QED
    BY <1>3, <2>1, <2>2
<1>9. TypeOK'
  BY <1>1, <1>5, <1>7 DEF NotifyInv, TypeOK
<1>10. NotAhead'
  BY <1>1, <1>5, <1>6, <1>8 DEF NotifyInv, NotAhead, v
<1>11. LinkOK'
  BY <1>2, <1>5 DEF NotifyInv, LinkOK
<1>12. OneEpoch'
  <2>1. v.epoch = server.epoch
    BY DEF NotifyInv, OneEpoch, v
  <2>2. /\ known.epoch <= server.epoch
        /\ \A s \in stale : s.value.epoch <= server.epoch
    BY ValueOrder DEF NotifyInv, NotAhead, TypeOK
  <2>3. \A m \in InFlight' : m.value.epoch = server.epoch
    BY <1>2, <1>6, <1>8, <2>1 DEF NotifyInv, OneEpoch
  <2> QED
    BY <1>1, <1>5, <2>2, <2>3 DEF NotifyInv, OneEpoch
<1>13. Pending'
  <2>1. Small(v).cmd = "roomValue" /\ Second(v).cmd = "roomValue"
    BY DEF Small, Second
  <2> QED
    BY <1>1, <1>5, <1>6, <1>8, <2>1 DEF NotifyInv, Pending, v
<1>14. PairsOnWire'
  BY <1>2, <1>3, AppendPaired DEF NotifyInv, PairsOnWire
<1>15. Reassembling'
  <2>1. /\ wire = <<>> => wire'[1] \in {Small(v), First(v)}
        /\ wire # <<>> => wire'[1] = wire[1]
        /\ wire' # <<>>
    BY <1>2, <1>3, <1>4, AppendEffect
  <2>2. StartsAnew => StartsAnew'
    BY <2>1, MessagesDiffer DEF StartsAnew
  <2>3. \A u \in Value : Completes(u) => Completes(u)'
    BY <2>1 DEF Completes
  <2>4. \A m \in handler : m.value \in Value
    BY <1>2 DEF Msg
  <2> QED
    BY <1>5, <2>2, <2>3, <2>4 DEF NotifyInv, Reassembling
<1>16. (Behind /\ StaleIntact)'
  BY <1>5 DEF NotifyInv, Behind, StaleIntact
<1> QED
  BY <1>9, <1>10, <1>11, <1>12, <1>13, <1>14, <1>15, <1>16 DEF NotifyInv

(* The first part of a group that is cut belongs to nothing.               *)
LEMMA PushCutPreserves ==
  ASSUME NotifyInv, PushCut
  PROVE  NotifyInv'
<1>1. PICK send \in toSend : /\ toSend' = toSend \ {send}
                             /\ wire' = Append(wire, FirstPart(send.value))
  BY DEF PushCut
<1> DEFINE v == send.value
<1>2. /\ v \in Value /\ wire \in Seq(Msg) /\ handler \subseteq Msg
      /\ link = "open" /\ conn = "open"
  BY DEF NotifyInv, TypeOK, LinkOK
<1>3. FirstPart(v) \in Msg /\ FirstPart(v).value = v
  BY <1>2, MessageTypes, MessagesDiffer
<1>4. /\ toClose'
      /\ UNCHANGED <<server, member, link, entering, connVars, roomVars, calm, listenerVars>>
  BY DEF PushCut
<1> HIDE DEF v
<1>5. wire' = Append(wire, FirstPart(v))
  BY <1>1 DEF v
<1>6. /\ wire' \in Seq(Msg)
      /\ InFlight' \subseteq InFlight \cup {FirstPart(v)}
  BY <1>2, <1>3, <1>4, <1>5, AppendEffect DEF InFlight
<1>7. TypeOK'
  BY <1>1, <1>4, <1>6 DEF NotifyInv, TypeOK, PushCut
<1>8. NotAhead'
  BY <1>1, <1>3, <1>4, <1>6 DEF NotifyInv, NotAhead, v
<1>9. LinkOK'
  BY <1>2, <1>4 DEF NotifyInv, LinkOK
<1>10. OneEpoch'
  <2>1. v.epoch = server.epoch
    BY DEF NotifyInv, OneEpoch, v
  <2>2. /\ known.epoch <= server.epoch
        /\ \A s \in stale : s.value.epoch <= server.epoch
    BY ValueOrder DEF NotifyInv, NotAhead, TypeOK
  <2>3. \A m \in InFlight' : m.value.epoch = server.epoch
    BY <1>2, <1>3, <1>6, <2>1 DEF NotifyInv, OneEpoch
  <2> QED
    BY <1>1, <1>4, <2>2, <2>3 DEF NotifyInv, OneEpoch
<1>11. (Pending /\ Behind /\ StaleIntact)'
  BY <1>4 DEF NotifyInv, Pending, Behind, StaleIntact, Intact, Follows
<1>12. PairsOnWire'
  BY <1>2, <1>5, AppendPaired DEF NotifyInv, PairsOnWire
<1>13. Reassembling'
  <2>1. /\ wire = <<>> => wire'[1] = FirstPart(v)
        /\ wire # <<>> => wire'[1] = wire[1]
        /\ wire' # <<>>
    BY <1>2, <1>3, <1>5, AppendEffect
  <2>2. StartsAnew => StartsAnew'
    BY <2>1, MessagesDiffer DEF StartsAnew
  <2>3. \A u \in Value : Completes(u) => Completes(u)'
    BY <2>1 DEF Completes
  <2>4. \A m \in handler : m.value \in Value
    BY <1>2 DEF Msg
  <2> QED
    BY <1>4, <2>2, <2>3, <2>4 DEF NotifyInv, Reassembling
<1> QED
  BY <1>7, <1>8, <1>9, <1>10, <1>11, <1>12, <1>13 DEF NotifyInv

LEMMA BreakPreserves ==
  ASSUME NotifyInv, Break
  PROVE  NotifyInv'
<1> USE DEF Disconnect
<1>1. InFlight' = InFlight
  BY DEF Break, InFlight
<1>2. TypeOK'
  BY DEF NotifyInv, TypeOK, Break
<1>3. (NotAhead /\ OneEpoch)'
  BY <1>1 DEF NotifyInv, NotAhead, OneEpoch, Break
<1>4. (LinkOK /\ Pending)'
  BY DEF NotifyInv, LinkOK, Pending, Break
<1>5. (Behind /\ PairsOnWire /\ Reassembling /\ StaleIntact)'
  BY DEF NotifyInv, Behind, PairsOnWire, Reassembling, Completes, StartsAnew, StaleIntact, Break
<1> QED
  BY <1>2, <1>3, <1>4, <1>5 DEF NotifyInv

LEMMA RestartPreserves ==
  ASSUME NotifyInv, Restart
  PROVE  NotifyInv'
<1> USE DEF Disconnect
<1>1. InFlight' = InFlight
  BY DEF Restart, InFlight
<1>2. server' \in Value /\ ~IsOlder(server', server)
  BY RoomNotifyAssumption DEF NotifyInv, TypeOK, Value, IsOlder, Restart
<1>3. TypeOK'
  BY <1>2 DEF NotifyInv, TypeOK, Restart
<1>4. NotAhead'
  <2>1. ASSUME NEW v \in Value, ~IsOlder(server, v) PROVE ~IsOlder(server', v)
    BY <1>2, <2>1, ValueOrder DEF NotifyInv, TypeOK
  <2>2. ~IsOlder(server', newest)
    BY <2>1 DEF NotifyInv, NotAhead, TypeOK
  <2>3. \A m \in InFlight \cup stale : m.value \in Value
    BY FlightTypes DEF NotifyInv
  <2>4. \A m \in InFlight \cup stale : ~IsOlder(server', m.value)
    BY <2>1, <2>3 DEF NotifyInv, NotAhead
  <2> QED
    BY <1>1, <2>2, <2>4 DEF NotifyInv, NotAhead, Restart
<1>5. (OneEpoch /\ LinkOK /\ Pending)'
  BY <1>1 DEF NotifyInv, OneEpoch, LinkOK, Pending, Restart
<1>6. (Behind /\ PairsOnWire /\ Reassembling /\ StaleIntact)'
  BY DEF NotifyInv, Behind, PairsOnWire, Reassembling, Completes, StartsAnew, StaleIntact, Restart
<1> QED
  BY <1>3, <1>4, <1>5, <1>6 DEF NotifyInv

-----------------------------------------------------------------------------
(* The client.                                                             *)
LEMMA ReadMsgPreserves ==
  ASSUME NotifyInv, ReadMsg
  PROVE  NotifyInv'
<1> DEFINE m == wire[1]
<1>1. /\ wire \in Seq(Msg) /\ wire # <<>> /\ handler = {} /\ conn = "open"
      /\ handler' = {m} /\ wire' = Tail(wire)
      /\ UNCHANGED <<serverVars, link, conn, reassembleBuf, stale, roomVars>>
  BY TailEffect DEF NotifyInv, TypeOK, ReadMsg
<1>2. /\ Len(wire) \in Nat /\ Len(wire) >= 1 /\ DOMAIN wire = 1 .. Len(wire)
      /\ m \in Msg /\ wire' \in Seq(Msg)
      /\ DOMAIN wire' = 1 .. (Len(wire) - 1)
      /\ \A i \in DOMAIN wire' : wire'[i] = wire[i + 1]
      /\ wire' # <<>> => 1 \in DOMAIN wire'
  BY <1>1, TailEffect
<1>3. InFlight' = InFlight
  <2>1. ASSUME NEW i \in DOMAIN wire PROVE wire[i] \in InFlight'
    <3>1. CASE i = 1
      BY <1>1, <3>1 DEF InFlight
    <3>2. CASE i # 1
      <4>1. i - 1 \in DOMAIN wire' /\ wire'[i - 1] = wire[i]
        BY <1>2, <3>2
      <4> QED
        BY <4>1 DEF InFlight
    <3> QED
      BY <3>1, <3>2
  <2>2. ASSUME NEW i \in DOMAIN wire' PROVE wire'[i] \in InFlight
    <3>1. i + 1 \in DOMAIN wire /\ wire'[i] = wire[i + 1]
      BY <1>2
    <3> QED
      BY <3>1 DEF InFlight
  <2>3. m \in InFlight
    BY <1>2 DEF InFlight
  <2> QED
    BY <1>1, <2>1, <2>2, <2>3 DEF InFlight
<1>4. TypeOK'
  BY <1>1, <1>2 DEF NotifyInv, TypeOK, ReadMsg
<1>5. (NotAhead /\ OneEpoch /\ Pending)'
  BY <1>1, <1>3 DEF NotifyInv, NotAhead, OneEpoch, Pending
<1>6. LinkOK'
  BY <1>1 DEF NotifyInv, LinkOK, ReadMsg
<1>7. PairsOnWire'
  BY <1>1, TailPaired DEF NotifyInv, PairsOnWire
<1>8. Reassembling'
  <2>1. /\ IsSmall(m) \/ IsFirst(m) \/ IsSecond(m) \/ IsCut(m)
        /\ IsFirst(m) => 2 \in DOMAIN wire /\ wire[2] = Second(m.value)
        /\ 2 \in DOMAIN wire /\ IsSecond(wire[2]) => m = First(wire[2].value)
    <3>1. Paired(wire) /\ 1 \in DOMAIN wire /\ 1 + 1 = 2 /\ 2 - 1 = 1
      BY <1>2 DEF NotifyInv, PairsOnWire
    <3>2. 2 \in DOMAIN wire /\ IsSecond(wire[2]) => wire[2 - 1] = First(wire[2].value)
      BY <3>1 DEF Paired
    <3>3. IsFirst(m) => 1 + 1 \in DOMAIN wire /\ wire[1 + 1] = Second(m.value)
      BY <3>1 DEF Paired
    <3>4. IsSmall(m) \/ IsFirst(m) \/ IsSecond(m) \/ IsCut(m)
      BY <3>1 DEF Paired
    <3> QED
      BY <3>1, <3>2, <3>3, <3>4
  <2>2. /\ IsSmall(m) => ~IsFirst(m) /\ ~IsSecond(m)
        /\ IsSecond(m) => ~IsFirst(m)
        /\ IsCut(m) => ~IsFirst(m) /\ ~IsSecond(m)
    BY MessagesDiffer DEF IsSmall, IsFirst, IsSecond, IsCut
  <2>3. ~IsFirst(m) => StartsAnew'
    BY <1>2, <2>1, MessagesDiffer DEF StartsAnew
  <2>4. IsFirst(m) => wire' # <<>> /\ wire'[1] = Second(m.value)
    <3>1. 2 \in DOMAIN wire => 1 \in DOMAIN wire' /\ wire'[1] = wire[2]
      BY <1>2
    <3>2. 1 \in DOMAIN wire' => wire' # <<>>
      BY <1>2
    <3> QED
      BY <2>1, <3>1, <3>2
  <2>5. CASE Follows(reassembleBuf, <<>>) /\ StartsAnew
    <3>1. ~IsSecond(m)
      BY <1>1, <2>5 DEF StartsAnew
    <3> QED
      BY <1>1, <2>1, <2>2, <2>3, <2>4, <2>5, <3>1 DEF Completes, Reassembling
  <2>6. CASE \E v \in Value : Follows(reassembleBuf, <<Chunk(v, 1)>>) /\ Completes(v)
    <3>1. PICK v \in Value : Follows(reassembleBuf, <<Chunk(v, 1)>>) /\ m = Second(v)
      BY <2>6 DEF Completes
    <3>2. IsSecond(m) /\ m.value = v
      BY <3>1, MessagesDiffer
    <3> QED
      BY <1>1, <2>2, <2>3, <3>1, <3>2 DEF Reassembling
  <2> QED
    BY <1>1, <2>5, <2>6 DEF NotifyInv, Reassembling
<1>9. (Behind /\ StaleIntact)'
  BY <1>1 DEF NotifyInv, Behind, StaleIntact
<1> QED
  BY <1>4, <1>5, <1>6, <1>7, <1>8, <1>9 DEF NotifyInv

LEMMA OnRoomValueMorePreserves ==
  ASSUME NotifyInv, OnRoomValueMore
  PROVE  NotifyInv'
<1>1. PICK m \in handler : m.cmd = "roomValueMore" /\ handler' = {}
                           /\ reassembleBuf' = reassembleBuf \o m.data
  BY DEF OnRoomValueMore
<1>2. conn = "open" /\ m \in Msg /\ m.value \in Value
  BY DEF NotifyInv, LinkOK, TypeOK, Msg
<1>3. /\ handler = {m} /\ Follows(reassembleBuf, <<>>) /\ reassembleBuf \in Data
      /\ \/ m = First(m.value) /\ Completes(m.value)
         \/ m = FirstPart(m.value) /\ StartsAnew
  <2>1. ~IsSmall(m) /\ ~IsSecond(m)
    BY <1>1 DEF IsSmall, IsSecond, Small, Second
  <2> QED
    BY <1>2, <2>1 DEF NotifyInv, TypeOK, Reassembling, IsFirst, IsCut
<1>4. /\ reassembleBuf' \in Data
      /\ \/ Follows(reassembleBuf', <<Chunk(m.value, 1)>>) /\ Completes(m.value)
         \/ Follows(reassembleBuf', <<>>) /\ StartsAnew
  <2> DEFINE v == m.value
  <2>1. v \in Value
    BY <1>2
  <2>2. CASE m = First(v) /\ Completes(v)
    <3>1. m.data = <<Chunk(v, 1)>>
      BY <2>2 DEF First
    <3>2. <<>> \in Data /\ Chunk(v, 1) \in [value : Value, number : {1, 2}, isCut : BOOLEAN]
            /\ Append(<<>>, Chunk(v, 1)) = <<Chunk(v, 1)>>
      BY <2>1, OwnData
    <3>3. /\ reassembleBuf \o <<Chunk(v, 1)>> \in Data
          /\ Follows(reassembleBuf \o <<Chunk(v, 1)>>, Append(<<>>, Chunk(v, 1)))
      BY <1>3, <3>2, FollowsAppend
    <3> QED
      BY <1>1, <2>2, <3>1, <3>2, <3>3
  <2>3. CASE m = FirstPart(v) /\ StartsAnew
    <3>1. m.data = <<CutChunk(v)>>
      BY <2>3 DEF FirstPart
    <3>2. <<>> \in Data /\ CutChunk(v) \in [value : Value, number : {1, 2}, isCut : BOOLEAN]
            /\ CutChunk(v).isCut
      BY <2>1, OwnData
    <3>3. /\ reassembleBuf \o <<CutChunk(v)>> \in Data
          /\ Follows(reassembleBuf \o <<CutChunk(v)>>, <<>>)
      BY <1>3, <3>2, FollowsAppend
    <3> QED
      BY <1>1, <2>3, <3>1, <3>3
  <2> QED
    BY <1>3, <2>2, <2>3
<1>5. /\ InFlight' \subseteq InFlight
      /\ \A n \in InFlight : n.cmd = "roomValue" => n \in InFlight'
  BY <1>1, <1>3 DEF InFlight, OnRoomValueMore
<1>6. TypeOK'
  BY <1>1, <1>4 DEF NotifyInv, TypeOK, OnRoomValueMore
<1>7. (NotAhead /\ OneEpoch /\ Pending)'
  BY <1>5 DEF NotifyInv, NotAhead, OneEpoch, Pending, OnRoomValueMore
<1>8. (LinkOK /\ PairsOnWire)'
  BY <1>1 DEF NotifyInv, LinkOK, PairsOnWire, OnRoomValueMore
<1>9. Reassembling'
  <2>1. \A u \in Value : Completes(u)' <=> Completes(u)
    BY DEF Completes, OnRoomValueMore
  <2>2. StartsAnew' <=> StartsAnew
    BY DEF StartsAnew, OnRoomValueMore
  <2> QED
    BY <1>1, <1>2, <1>4, <2>1, <2>2 DEF Reassembling
<1>10. (Behind /\ StaleIntact)'
  BY DEF NotifyInv, Behind, StaleIntact, OnRoomValueMore
<1> QED
  BY <1>6, <1>7, <1>8, <1>9, <1>10 DEF NotifyInv

(* A value that is handled has its own LiveData by then, or none, behind   *)
(* what was cut.                                                           *)
LEMMA HandledData ==
  ASSUME NotifyInv, NEW m \in handler, m.cmd = "roomValue"
  PROVE  /\ handler = {m} /\ StartsAnew /\ m.value \in Value
         /\ Intact(reassembleBuf \o m.data, m.value)
         /\ reassembleBuf \o m.data \in Data
<1>1. conn = "open" /\ m \in Msg /\ m.value \in Value /\ reassembleBuf \in Data
  BY DEF NotifyInv, LinkOK, TypeOK, Msg
<1>2. handler = {m} /\ ~IsFirst(m) /\ ~IsCut(m)
  <2>1. ~IsFirst(m) /\ ~IsCut(m)
    BY DEF IsFirst, First, IsCut, FirstPart
  <2> QED
    BY <1>1, <2>1 DEF NotifyInv, Reassembling
<1>3. CASE IsSmall(m) /\ Follows(reassembleBuf, <<>>) /\ StartsAnew
  <2>1. m.data = <<>>
    BY <1>3 DEF IsSmall, Small
  <2>2. reassembleBuf \o m.data = reassembleBuf
    BY <1>1, <2>1 DEF Data
  <2> QED
    BY <1>1, <1>2, <1>3, <2>2 DEF Intact
<1>4. CASE IsSecond(m) /\ Follows(reassembleBuf, <<Chunk(m.value, 1)>>) /\ StartsAnew
  <2>1. m.data = <<Chunk(m.value, 2)>>
    BY <1>4 DEF IsSecond, Second
  <2> QED
    <3> DEFINE v == m.value
               S == [value : Value, number : {1, 2}, isCut : BOOLEAN]
    <3>1. /\ Chunk(v, 2) \in S /\ <<Chunk(v, 1)>> \in Data
          /\ Append(<<Chunk(v, 1)>>, Chunk(v, 2)) = LiveDataOf(v)
      BY <1>1, OwnData
    <3>2. /\ reassembleBuf \o <<Chunk(v, 2)>> \in Data
          /\ Follows(reassembleBuf \o <<Chunk(v, 2)>>, Append(<<Chunk(v, 1)>>, Chunk(v, 2)))
      BY <1>1, <1>4, <3>1, FollowsAppend
    <3> QED
      BY <1>1, <1>2, <1>4, <2>1, <3>1, <3>2 DEF Intact
<1> QED
  BY <1>1, <1>2, <1>3, <1>4 DEF NotifyInv, Reassembling

LEMMA OnValuePreserves ==
  ASSUME NotifyInv, OnValue
  PROVE  NotifyInv'
<1>1. PICK m \in handler : /\ m.cmd = "roomValue" /\ handler' = {}
                           /\ reassembleBuf' = <<>>
                           /\ OnRoomValue(m.value, FALSE)
  BY DEF OnValue
<1> DEFINE v == m.value
<1>2. conn = "open" /\ m \in Msg /\ v \in Value /\ m \in InFlight
  BY DEF NotifyInv, LinkOK, TypeOK, Msg, InFlight
<1>3. handler = {m} /\ StartsAnew
  BY <1>1, HandledData
<1>5. OnRoomValue(v, FALSE)
  BY <1>1
<1> HIDE DEF v
<1>6. Taking(v, FALSE)
  BY <1>2, <1>3, <1>5, OnRoomValueEffect DEF NotifyInv, NotAhead
<1>7. UNCHANGED <<serverVars, netVars, conn, dials, stale, calm>>
  BY DEF OnValue
<1>8. /\ ~IsOlder(server, v) /\ ~IsOlder(server, known)
      /\ known.epoch <= v.epoch /\ v.epoch \in Nat
      /\ \A n \in InFlight : n.value.epoch = v.epoch
  <2>1. ~IsOlder(server, known)
    BY ValueOrder DEF NotifyInv, NotAhead, TypeOK
  <2>2. v.epoch \in Nat
    BY <1>2, RoomNotifyAssumption DEF Value
  <2> QED
    BY <1>2, <2>1, <2>2 DEF NotifyInv, NotAhead, OneEpoch, v
<1>9. InFlight' \subseteq InFlight /\ \A n \in InFlight : n \in InFlight' \/ n = m
  BY <1>1, <1>3, <1>7 DEF InFlight
<1>10. TypeOK'
  <2>1. reassembleBuf' \in Data
    BY <1>1 DEF Data
  <2> QED
    BY <1>1, <1>6, <1>7, <2>1 DEF Taking, NotifyInv, TypeOK
<1>11. NotAhead'
  BY <1>6, <1>7, <1>8, <1>9 DEF Taking, NotifyInv, NotAhead
<1>12. (LinkOK /\ PairsOnWire)'
  BY <1>1, <1>7 DEF NotifyInv, LinkOK, PairsOnWire
<1>13. OneEpoch'
  BY <1>6, <1>7, <1>8, <1>9 DEF Taking, NotifyInv, OneEpoch
<1>14. Pending'
  <2>1. newest = server => newest' = server
    BY <1>6, <1>7, <1>11, ValueOrder DEF Taking, NotifyInv, TypeOK, NotAhead
  <2>2. v = server => newest' = server
    <3>1. v = server => known' = server
      <4>1. known \in Value /\ server \in Value /\ ~IsOlder(server, known)
        BY ValueOrder DEF NotifyInv, TypeOK, NotAhead
      <4>2. known.epoch = server.epoch /\ ~IsNews(server) => ~IsOlder(known, server)
        BY <4>1, RoomNotifyAssumption DEF IsNews, IsOlder, Value
      <4>3. ~IsNews(server) => known = server
        BY <4>1, <4>2, ValueOrder DEF IsNews
      <4> QED
        BY <1>6, <4>3 DEF Taking
    <3> QED
      BY <1>6, <1>7, <1>11, <3>1, ValueOrder DEF Taking, NotifyInv, TypeOK, NotAhead
  <2> QED
    BY <1>7, <1>9, <2>1, <2>2 DEF NotifyInv, Pending, v
<1>15. Behind'
  <2>1. ~IsOlder(known', known)
    <3>1. known' = known \/ known.epoch <= known'.epoch
      BY <1>6, <1>8 DEF Taking
    <3>2. known \in Value /\ known.epoch \in Nat /\ known'.epoch \in Nat
      BY <1>6, RoomNotifyAssumption DEF Taking, NotifyInv, TypeOK, Value
    <3>3. ~IsOlder(known, known) /\ ~(known'.epoch < known.epoch /\ known.epoch <= known'.epoch)
      BY <3>2, ValueOrder
    <3> QED
      BY <1>6, <3>1, <3>3 DEF Taking
  <2> QED
    BY <1>6, <2>1 DEF Taking, Behind
<1>16. Reassembling'
  BY <1>1, <1>3, <1>7, NothingFollows DEF Reassembling, StartsAnew
<1>17. StaleIntact'
  BY <1>3, <1>6, <1>7 DEF NotifyInv, StaleIntact
<1> QED
  BY <1>10, <1>11, <1>12, <1>13, <1>14, <1>15, <1>16, <1>17 DEF NotifyInv

(* A late readThread may set the room back, and says so.                   *)
LEMMA StaleOnValuePreserves ==
  ASSUME NotifyInv, StaleOnValue
  PROVE  NotifyInv'
<1>1. PICK s \in stale : stale' = stale \ {s} /\ OnRoomValue(s.value, TRUE)
  BY DEF StaleOnValue
<1> DEFINE v == s.value
<1>2. v \in Value
  BY DEF NotifyInv, TypeOK
<1>3. Taking(v, TRUE)
  BY <1>1, <1>2, OnRoomValueEffect DEF NotifyInv, NotAhead
<1>4. UNCHANGED <<serverVars, netVars, conn, dials, reassembleBuf, handler, calm>>
  BY DEF StaleOnValue
<1>5. InFlight' = InFlight
  BY <1>4 DEF InFlight
<1>6. TypeOK'
  BY <1>1, <1>3, <1>4 DEF Taking, NotifyInv, TypeOK
<1>7. NotAhead'
  <2>1. ~IsOlder(server, known) /\ ~IsOlder(server, v)
    BY ValueOrder DEF NotifyInv, NotAhead, TypeOK
  <2> QED
    BY <1>1, <1>3, <1>4, <1>5, <2>1 DEF Taking, NotifyInv, NotAhead
<1>8. (LinkOK /\ PairsOnWire)'
  BY <1>4 DEF NotifyInv, LinkOK, PairsOnWire
<1>9. OneEpoch'
  BY <1>1, <1>3, <1>4, <1>5 DEF Taking, NotifyInv, OneEpoch
<1>10. Pending'
  <2>1. newest = server => newest' = server
    BY <1>3, <1>7, ValueOrder DEF Taking, NotifyInv, TypeOK, NotAhead
  <2> QED
    BY <1>4, <1>5, <2>1 DEF NotifyInv, Pending
<1>11. (Behind /\ Reassembling)'
  BY <1>3, <1>4 DEF Taking, NotifyInv, Behind, Reassembling, Completes, StartsAnew
<1>12. StaleIntact'
  BY <1>1, <1>3 DEF Taking, NotifyInv, StaleIntact
<1> QED
  BY <1>6, <1>7, <1>8, <1>9, <1>10, <1>11, <1>12 DEF NotifyInv

LEMMA ClosePreserves ==
  ASSUME NotifyInv, Close
  PROVE  NotifyInv'
<1> DEFINE late == Arriving
<1>1. /\ stale' = stale \cup late /\ handler' = {} /\ wire' = <<>>
      /\ conn' = "none" /\ link' = "cut"
      /\ entering' = FALSE /\ member' = FALSE /\ toSend' = {} /\ toClose' = FALSE
      /\ UNCHANGED <<server, dials, reassembleBuf, roomVars, calm, listenerVars>>
  BY DEF Close, Disconnect
<1>2. ASSUME NEW s \in late
      PROVE  /\ s \in [value : Value, data : Data] /\ ~IsOlder(server, s.value)
             /\ Intact(s.data, s.value)
  <2>1. PICK m \in handler : m.cmd = "roomValue" /\ s.value = m.value
                             /\ s = [value |-> m.value, data |-> reassembleBuf \o m.data]
    BY DEF Arriving
  <2>2. ~IsOlder(server, m.value)
    BY DEF NotifyInv, NotAhead, InFlight
  <2> QED
    BY <2>1, <2>2, HandledData
<1> HIDE DEF late
<1>3. InFlight' = {}
  BY <1>1 DEF InFlight
<1>4. TypeOK'
  <2>1. stale' \subseteq [value : Value, data : Data]
    BY <1>1, <1>2 DEF NotifyInv, TypeOK
  <2>2. wire' \in Seq(Msg) /\ handler' \subseteq Msg
    BY <1>1
  <2> QED
    BY <1>1, <2>1, <2>2 DEF NotifyInv, TypeOK
<1>5. (NotAhead /\ OneEpoch)'
  BY <1>1, <1>2, <1>3 DEF NotifyInv, NotAhead, OneEpoch
<1>6. (LinkOK /\ Pending /\ PairsOnWire /\ Reassembling)'
  BY <1>1 DEF LinkOK, Pending, PairsOnWire, Paired, Reassembling
<1>7. (Behind /\ StaleIntact)'
  BY <1>1, <1>2 DEF NotifyInv, Behind, StaleIntact
<1> QED
  BY <1>4, <1>5, <1>6, <1>7 DEF NotifyInv

LEMMA ConnectPreserves ==
  ASSUME NotifyInv, Connect
  PROVE  NotifyInv'
<1>1. wire = <<>> /\ handler = {} /\ toSend = {} /\ ~member /\ ~toClose
  BY DEF NotifyInv, LinkOK, Connect
<1>2. InFlight = {} /\ InFlight' = {}
  BY <1>1 DEF InFlight, Connect
<1>3. TypeOK'
  <2>1. reassembleBuf' \in Data /\ dials' \in 0 .. MaxConn
    BY RoomNotifyAssumption DEF NotifyInv, TypeOK, Connect, NewBuf, Data
  <2> QED
    BY <2>1 DEF NotifyInv, TypeOK, Connect
<1>4. (NotAhead /\ OneEpoch)'
  BY <1>1, <1>2 DEF NotifyInv, NotAhead, OneEpoch, Connect
<1>5. (LinkOK /\ Pending /\ PairsOnWire)'
  BY <1>1 DEF NotifyInv, LinkOK, Pending, PairsOnWire, Connect
<1>6. Reassembling'
  BY <1>1, NothingFollows DEF Reassembling, StartsAnew, NewBuf, Connect
<1>7. (Behind /\ StaleIntact)'
  BY DEF NotifyInv, Behind, StaleIntact, Connect
<1> QED
  BY <1>3, <1>4, <1>5, <1>6, <1>7 DEF NotifyInv

(* The steps that do not touch the room or its connection.                 *)
LEMMA RestPreserves ==
  ASSUME NotifyInv, CalmDown \/ Listens \/ UNCHANGED vars
  PROVE  NotifyInv'
<1>1. UNCHANGED <<serverVars, netVars, connVars, roomVars>>
  BY DEF CalmDown, Listens, vars
<1>2. InFlight' = InFlight
  BY <1>1 DEF InFlight
<1>3. TypeOK'
  <2>1. calm' \in BOOLEAN
    BY DEF NotifyInv, TypeOK, CalmDown, Listens, vars
  <2>2. latest' \in Nat /\ told' \in 0 .. latest'
    <3>1. latest \in Nat /\ told \in 0 .. latest
      BY DEF NotifyInv, TypeOK
    <3>2. CASE Listens
      BY <3>1, <3>2 DEF Listens, L!Tell
    <3>3. CASE CalmDown \/ UNCHANGED vars
      BY <3>1, <3>3 DEF CalmDown, vars
    <3> QED
      BY <3>2, <3>3
  <2> QED
    BY <1>1, <2>1, <2>2 DEF NotifyInv, TypeOK
<1>4. (NotAhead /\ LinkOK /\ OneEpoch /\ Pending /\ Behind)'
  BY <1>1, <1>2 DEF NotifyInv, NotAhead, LinkOK, OneEpoch, Pending, Behind
<1>5. (PairsOnWire /\ Reassembling /\ StaleIntact)'
  BY <1>1 DEF NotifyInv, PairsOnWire, Reassembling, Completes, StartsAnew, StaleIntact
<1> QED
  BY <1>3, <1>4, <1>5 DEF NotifyInv

-----------------------------------------------------------------------------
LEMMA InitNotify == Init => NotifyInv
<1> SUFFICES ASSUME Init PROVE NotifyInv
  OBVIOUS
<1>1. InFlight = {}
  BY DEF Init, InFlight
<1>2. server \in Value /\ known \in Value /\ newest \in Value
  BY RoomNotifyAssumption DEF Init, Value
<1>3. reassembleBuf \in Data
  BY DEF Init, Data
<1>4. TypeOK
  <2>1. wire \in Seq(Msg) /\ handler \subseteq Msg /\ dials \in 0 .. MaxConn
    BY RoomNotifyAssumption DEF Init
  <2>2. latest \in Nat /\ told \in 0 .. latest
    BY DEF Init, L!Init
  <2> QED
    BY <1>2, <1>3, <2>1, <2>2 DEF Init, TypeOK
<1>5. ~IsOlder(server, newest) /\ ~IsOlder(newest, known)
  BY DEF Init, IsOlder
<1>6. NotAhead /\ LinkOK /\ OneEpoch /\ Pending /\ Behind
  BY <1>1, <1>5 DEF Init, NotAhead, LinkOK, OneEpoch, Pending, Behind
<1>7. PairsOnWire /\ Reassembling /\ StaleIntact
  BY DEF Init, PairsOnWire, Paired, Reassembling, StaleIntact
<1> QED
  BY <1>4, <1>6, <1>7 DEF NotifyInv

LEMMA NextNotify ==
  ASSUME NotifyInv, [Next]_vars
  PROVE  NotifyInv'
<1>1. CASE \E isBig \in BOOLEAN : FireChange(isBig)
  BY <1>1, FireChangePreserves
<1>2. CASE DoRoomEnter \/ Push \/ PushCut \/ Break \/ Restart
  BY <1>2, DoRoomEnterPreserves, PushPreserves, PushCutPreserves, BreakPreserves, RestartPreserves
<1>3. CASE ReadMsg \/ OnRoomValueMore \/ OnValue \/ StaleOnValue
  BY <1>3, ReadMsgPreserves, OnRoomValueMorePreserves, OnValuePreserves,
     StaleOnValuePreserves
<1>4. CASE Close \/ Connect \/ CalmDown \/ Listens \/ UNCHANGED vars
  BY <1>4, ClosePreserves, ConnectPreserves, RestPreserves
<1> QED
  BY <1>1, <1>2, <1>3, <1>4 DEF Next

-----------------------------------------------------------------------------
LEMMA NotifyInvCorrect == Spec => []NotifyInv
<1>1. NotifyInv /\ [Next]_vars => NotifyInv'
  BY NextNotify
<1> QED
  BY InitNotify, <1>1, PTL DEF Spec

(* Every variable keeps its type.                                          *)
THEOREM TypeCorrect == Spec => []TypeOK
<1>1. NotifyInv => TypeOK
  BY DEF NotifyInv
<1> QED
  BY <1>1, NotifyInvCorrect, PTL

(* A member for whom nothing is on the way has had the server's value, in  *)
(* spite of any breaks, restarts and concurrent changes.                   *)
THEOREM QuietIsCurrentCorrect == Spec => []QuietIsCurrent
<1>1. NotifyInv => QuietIsCurrent
  <2> SUFFICES ASSUME NotifyInv, Quiet PROVE newest = server /\ (known = newest \/ overtaken)
    BY DEF QuietIsCurrent
  <2>1. InFlight = {} /\ toSend = {} /\ member /\ ~toClose
    BY DEF Quiet, InFlight
  <2> QED
    BY <2>1 DEF NotifyInv, Pending, Behind
<1> QED
  BY <1>1, NotifyInvCorrect, PTL

(* The LiveData that reaches onRoomValue with a value is the one of its    *)
(* change, complete, or empty, behind nothing but parts of groups that     *)
(* were cut, on a connection that the server had not closed yet.           *)
THEOREM LiveDataIntactCorrect == Spec => []LiveDataIntact
<1>1. NotifyInv => LiveDataIntact
  <2> SUFFICES ASSUME NotifyInv, NEW event \in Arriving \cup stale
               PROVE  Intact(event.data, event.value)
    BY DEF LiveDataIntact, Intact
  <2>1. CASE event \in stale
    BY <2>1 DEF NotifyInv, StaleIntact
  <2>2. CASE event \in Arriving
    <3>1. PICK m \in handler : m.cmd = "roomValue"
                     /\ event = [value |-> m.value, data |-> reassembleBuf \o m.data]
      BY <2>2 DEF Arriving
    <3> QED
      BY <3>1, HandledData
  <2> QED
    BY <2>1, <2>2
<1> QED
  BY <1>1, NotifyInvCorrect, PTL

(* No step sets the room back but one of a readThread that outlived its    *)
(* connection, and that one to an earlier instance of the room.            *)
THEOREM NeverGoesBackCorrect == Spec => NeverGoesBack
<1> DEFINE Back == IsOlder(known', known) => stale' # stale /\ known'.epoch < known.epoch
<1>1. ASSUME NotifyInv, [Next]_vars, known' # known PROVE Back
  <2>1. OnValue \/ StaleOnValue
    BY <1>1 DEF Next, vars, DoRoomEnter, Push, PushCut, Break, Restart, FireChange, ReadMsg,
                OnRoomValueMore, Close, Connect, CalmDown, Listens
  <2>2. CASE OnValue
    <3>1. PICK m \in handler : m.cmd = "roomValue"
                               /\ OnRoomValue(m.value, FALSE)
      BY <2>2 DEF OnValue
    <3>2. m \in InFlight /\ m.value \in Value
      BY <1>1, <3>1, HandledData DEF InFlight
    <3>3. known' = m.value /\ (IsOlder(known', known) => known'.epoch < known.epoch)
      BY <1>1, <3>1, <3>2, OnRoomValueEffect DEF Taking, NotifyInv, NotAhead
    <3>4. known.epoch <= known'.epoch
      BY <1>1, <3>2, <3>3 DEF NotifyInv, OneEpoch
    <3>5. known.epoch \in Nat /\ known'.epoch \in Nat
      BY <1>1, <3>2, <3>3, RoomNotifyAssumption DEF NotifyInv, TypeOK, Value
    <3> QED
      BY <3>3, <3>4, <3>5
  <2>3. CASE StaleOnValue
    <3>1. PICK s \in stale : stale' = stale \ {s} /\ OnRoomValue(s.value, TRUE)
      BY <2>3 DEF StaleOnValue
    <3>2. IsOlder(known', known) => known'.epoch < known.epoch
      BY <1>1, <3>1, OnRoomValueEffect DEF Taking, NotifyInv, NotAhead, TypeOK
    <3> QED
      BY <3>1, <3>2
  <2> QED
    BY <2>1, <2>2, <2>3
<1>2. NotifyInv /\ [Next]_vars => [Back]_known
  BY <1>1
<1> QED
  BY <1>2, NotifyInvCorrect, PTL DEF Spec, NeverGoesBack

=============================================================================
