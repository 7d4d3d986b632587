-------------------------------- MODULE Wire --------------------------------
(***************************************************************************)
(* One direction of a connection as bytes: the two encoders and the        *)
(* decoder of Msg_t, the frames of several messages, the websocket         *)
(* messages that carry them, the loop of readThread, and a large LiveData  *)
(* cut into roomValueMore and roomValue and put together again.            *)
(*                                                                         *)
(* A byte has Base values instead of 256 and a uvarint digit Digit values  *)
(* instead of 128, so that every length that matters is a short one; a     *)
(* Cmd byte keeps its number and a duration is one byte instead of eight.  *)
(* The length and the mask of a websocket header are fields of a record.   *)
(***************************************************************************)
EXTENDS Integers, Sequences, FiniteSetsExt, SequencesExt, Bitwise

CONSTANTS
  DigitBits,          \* 7 in the code
  KvFields,           \* timeoutCfgKvFieldCount
  MaxUvarintLen,      \* 10: longer numbers overflow
  Prefix,             \* header space of a server's frame
  ReadMsgMaxBytes,    \* limit of a LiveData put together
  RoomIds, Shorts, Identities, Lives,   \* lengths of texts
  ChangeSeqs

Digit == 2 ^ DigitBits
Base == 2 * Digit
Max8 == Base - 1
Max16 == Base * Base - 1
Frame16MaxWriteSize == Base * Base

ConstantsOK ==
  /\ DigitBits \in Nat \ {0} /\ MaxUvarintLen \in Nat \ {0}
  /\ KvFields \in 1 .. Max8 - 1 /\ Prefix \in Nat /\ ReadMsgMaxBytes \in Nat
  /\ (RoomIds \cup Identities \cup Lives \cup Shorts) \subseteq Nat
  /\ ChangeSeqs \subseteq 0 .. Digit ^ MaxUvarintLen - 1

Cmd_ping == 1
Cmd_roomValue == 5
Cmd_roomValueMore == 10

(* The fields of a message, by Cmd, in the order of the format comment.    *)
Fields ==
  << <<>>, <<"kv">>, <<"str16">>, <<"str16">>,
     <<"str16", "str8", "uvarint", "str8", "str16">>,
     <<"str16">>, <<"byte">>, <<"byte", "str16", "str16">>, <<"byte", "str16">>,
     <<"str16">> >>

-----------------------------------------------------------------------------
(* Encoding.                                                               *)
LittleEnd16(n) == <<n % Base, (n \div Base) % Base>>

Uvarint[n \in Nat] ==
  IF n < Digit THEN <<n>> ELSE <<Digit + (n % Digit)>> \o Uvarint[n \div Digit]

Kv(cfg) == <<Len(cfg)>> \o FlattenSeq([i \in 1 .. Len(cfg) |-> <<i, cfg[i]>>])

Bytes(kind, v) ==
  CASE kind = "byte" -> <<v>>
    [] kind = "str8" -> <<Len(v) % Base>> \o v
    [] kind = "str16" -> LittleEnd16(Len(v)) \o v
    [] kind = "uvarint" -> Uvarint[v]
    [] kind = "kv" -> Kv(v)

BitLen(n) == CHOOSE k \in 0 .. n : n < 2 ^ k /\ (k > 0 => n >= 2 ^ (k - 1))
RoundedDown(n) == BitLen(Max({n, Digit - 1})) \div DigitBits       \* fault
getUvarintOutputSize(n) == (BitLen(Max({n, Digit - 1})) + DigitBits - 1) \div DigitBits

Size(kind, v) ==
  CASE kind = "byte" -> 1
    [] kind = "str8" -> 1 + Len(v)
    [] kind = "str16" -> 2 + Len(v)
    [] kind = "uvarint" -> getUvarintOutputSize(v)
    [] kind = "kv" -> 1 + KvFields * 2

TooLong(m) ==
  \E i \in DOMAIN m.args :
    \/ Fields[m.cmd][i] = "str16" /\ Len(m.args[i]) > Max16
    \/ Fields[m.cmd][i] = "str8" /\ Len(m.args[i]) > Max8

BinarySize(m) ==
  FoldLeft(+, 1, [i \in DOMAIN m.args |-> Size(Fields[m.cmd][i], m.args[i])])

(* MarshalBinaryTo appends to a BufWriter.                                 *)
MarshalBinaryTo(m) ==
  <<m.cmd>> \o FlattenSeq([i \in DOMAIN m.args |-> Bytes(Fields[m.cmd][i], m.args[i])])

(* MarshalBinaryInto fills a buffer that is as long as BinarySize says.    *)
MarshalBinaryInto(m) ==
  LET bytes == MarshalBinaryTo(m)
  IN [i \in 1 .. BinarySize(m) |-> IF i <= Len(bytes) THEN bytes[i] ELSE 0]

-----------------------------------------------------------------------------
(* Decoding: every read is checked against the end of the data.            *)
Fail == [ok |-> FALSE]
Found(v, pos) == [ok |-> TRUE, val |-> v, pos |-> pos]
Rest(data, pos) == Len(data) - pos + 1

ReadString(data, pos, width) ==
  IF Rest(data, pos) < width THEN Fail
  ELSE LET len == IF width = 1 THEN data[pos] ELSE data[pos] + Base * data[pos + 1]
           from == pos + width
       IN IF Rest(data, from) < len THEN Fail
          ELSE Found(SubSeq(data, from, from + len - 1), from + len)

ReadUvarint(data, pos) ==
  LET ends == {i \in pos .. Len(data) : data[i] < Digit}
      last == Min(ends)
  IN IF ends = {} \/ last - pos + 1 > MaxUvarintLen THEN Fail
     ELSE Found(MapThenSumSet(LAMBDA i : (data[i] % Digit) * Digit ^ (i - pos), pos .. last),
                last + 1)

(* Of two pairs with one id the later one counts; unknown ids are skipped. *)
ReadKv(data, pos) ==
  LET count == data[pos]
      at(i) == {p \in 1 .. count : data[pos + 2 * p - 1] = i}
      value(i) == IF at(i) = {} THEN 0 ELSE data[pos + 2 * Max(at(i))]
  IN IF Rest(data, pos) < 1 \/ Rest(data, pos + 1) < count * 2 THEN Fail
     ELSE Found([i \in 1 .. KvFields |-> value(i)], pos + 1 + 2 * count)

ReadField(kind, data, pos) ==
  CASE kind = "byte" -> IF Rest(data, pos) < 1 THEN Fail ELSE Found(data[pos], pos + 1)
    [] kind = "str8" -> ReadString(data, pos, 1)
    [] kind = "str16" -> ReadString(data, pos, 2)
    [] kind = "uvarint" -> ReadUvarint(data, pos)
    [] kind = "kv" -> ReadKv(data, pos)

(* Bytes after the last field are not looked at.                           *)
UnmarshalMsg(data) ==
  LET read(acc, kind) ==
        LET f == ReadField(kind, data, acc.pos)
        IN IF ~acc.ok \/ ~f.ok THEN Fail
           ELSE [acc EXCEPT !.args = Append(@, f.val), !.pos = f.pos]
      start == [ok |-> TRUE, args |-> <<>>, pos |-> 2]
      fields == IF data[1] \in DOMAIN Fields
                THEN FoldLeft(read, start, Fields[data[1]]) ELSE Fail
  IN IF ~fields.ok THEN Fail
     ELSE [ok |-> TRUE, msg |-> [cmd |-> data[1], args |-> fields.args]]

-----------------------------------------------------------------------------
(* sendRoomValue and buildRoomValueChunks.  meta: the fields of roomValue  *)
(* before LiveData.                                                        *)
RoomValue(meta, live) == [cmd |-> Cmd_roomValue, args |-> Append(meta, live)]
More(live) == [cmd |-> Cmd_roomValueMore, args |-> <<live>>]

maxSingleMsgSize == Frame16MaxWriteSize - Prefix - 2

WithoutHead(meta) == maxSingleMsgSize - 3                        \* fault
ChunkSize(meta) == Max({maxSingleMsgSize - BinarySize(RoomValue(meta, <<>>)), 1})

Chunks(meta, live) ==
  LET size == ChunkSize(meta)
      count == (Len(live) + size - 1) \div size
      chunk(k) == SubSeq(live, (k - 1) * size + 1, Min({k * size, Len(live)}))
  IN [k \in 1 .. count |-> IF k = count THEN RoomValue(meta, chunk(k)) ELSE More(chunk(k))]

RoomValueMsgs(meta, live) ==
  IF BinarySize(RoomValue(meta, live)) <= maxSingleMsgSize THEN <<RoomValue(meta, live)>>
  ELSE Chunks(meta, live)

(* pushMsg and pushMsgsAtomic refuse what no batch can hold.               *)
Pushable(msgs) ==
  \A i \in DOMAIN msgs : ~TooLong(msgs[i]) /\ BinarySize(msgs[i]) <= maxSingleMsgSize

-----------------------------------------------------------------------------
(* Frames and websocket messages.                                          *)
SubFrame(body, size) == LittleEnd16(size) \o body
PushedFrame(m) == SubFrame(MarshalBinaryInto(m), BinarySize(m))
WrittenFrame(m) == SubFrame(MarshalBinaryTo(m), BinarySize(m))

Masked(data, key) == [i \in DOMAIN data |-> data[i] ^^ key[1 + ((i - 1) % 4)]]

NoKey == <<>>
(* writeFrameInPlace and WriteMsg: one unfragmented binary message.        *)
Binary(data, key) ==
  [fin |-> TRUE, opcode |-> 2, key |-> key,
   data |-> IF key = NoKey THEN data ELSE Masked(data, key)]

Control(opcode) == [fin |-> TRUE, opcode |-> opcode, key |-> NoKey, data |-> <<>>]

(* ReadMsg: pings and pongs are passed over, a close frame, a fragment and *)
(* an oversized message are errors.                                        *)
IsControl(f) == f.opcode \notin {1, 2}
ReadFails(f) == ~f.fin \/ Len(f.data) > Frame16MaxWriteSize \/ f.opcode = 8
Payload(f) == IF f.key = NoKey THEN f.data ELSE Masked(f.data, f.key)

-----------------------------------------------------------------------------
VARIABLES sent,     \* the messages of the writer
          fanout,   \* the LiveData it was asked to send, or NoFanout
          peer,     \* the writer: "same", "newer", "older" or "closing"
          frames,   \* websocket messages on the way
          data,     \* readThread: the rest of the frame it is reading
          got,      \* the messages handed to onReadMsg
          buf,      \* roomValueReassembleBuf
          live,     \* the LiveData handed to onRoomValue last
          closed    \* the reader's side of the connection

vars == <<sent, fanout, peer, frames, data, got, buf, live, closed>>

NoFanout == <<-1>>
Text(n) == [i \in 1 .. n |-> i % Base]
Some(lens) == {Text(n) : n \in lens}
Metas == {<<r, e, n, v>> : r \in Some(RoomIds), e \in Some(Shorts),
                           n \in ChangeSeqs, v \in Some(Shorts)}

Msg(cmd) ==
  LET args == CASE cmd = 1 -> {<<>>}
                [] cmd = 2 -> {<<[i \in 1 .. KvFields |-> v]>> : v \in {0, Max8}}
                [] cmd \in {3, 4} -> {<<r>> : r \in Some(RoomIds)}
                [] cmd = 5 -> {Append(meta, <<>>) : meta \in Metas}
                [] cmd = 6 -> {<<t>> : t \in Some(Identities)}
                [] cmd = 7 -> {<<b>> : b \in {0, 1}}
                [] cmd = 8 -> {1, 2} \X Some(RoomIds) \X Some(RoomIds)
                [] cmd = 9 -> {0, 1} \X Some(RoomIds)
  IN {[cmd |-> cmd, args |-> a] : a \in args}

Pair(cmds) ==
  /\ \E c1, c2 \in cmds : \E m1 \in Msg(c1), m2 \in Msg(c2) : sent = <<m1, m2>>
  /\ fanout = NoFanout

(* writeMsg sends each message as a websocket message of its own, masked.  *)
FromClient ==
  /\ Pair({1, 3, 4, 6})
  /\ \A i \in DOMAIN sent : ~TooLong(sent[i])
  /\ peer = "same"
  /\ frames = [i \in DOMAIN sent |-> Binary(WrittenFrame(sent[i]), <<1, 7, 2, 5>>)]

(* writeLoop sends the frames it finds together as far as they fit; a      *)
(* proxy may send a ping in between.                                       *)
FromServer ==
  /\ \/ Pair({2, 7, 8, 9})
     \/ \E meta \in Metas : /\ fanout \in Some(Lives)
                            /\ sent = RoomValueMsgs(meta, fanout)
  /\ peer \in {"same", "closing"}
  /\ \E k \in 1 .. Len(sent) :
       LET pushed == [i \in DOMAIN sent |-> PushedFrame(sent[i])]
           first == FlattenSeq(SubSeq(pushed, 1, k))
           parts == <<first>> \o SubSeq(pushed, k + 1, Len(sent))
       IN IF ~Pushable(sent) THEN frames = <<>>
          ELSE /\ Len(first) <= Frame16MaxWriteSize - Prefix
               /\ frames = Append([i \in DOMAIN parts |-> Binary(parts[i], NoKey)],
                                  Control(IF peer = "closing" THEN 8 ELSE 9))

(* A server of another version: a message that has a field more at its     *)
(* end, or a setTimeCfg with one pair more, or a message without its last  *)
(* field.                                                                  *)
OtherBody(m) ==
  IF peer = "older"
  THEN <<m.cmd>> \o FlattenSeq([i \in 1 .. Len(m.args) - 1 |->
                                  Bytes(Fields[m.cmd][i], m.args[i])])
  ELSE IF m.cmd = 2 THEN <<m.cmd>> \o Kv(Append(m.args[1], 1))
  ELSE Append(MarshalBinaryTo(m), 1)

OtherVersion ==
  /\ peer \in {"newer", "older"}
  /\ Pair({2, 5, 7, 8, 9})
  /\ LET frame(m) == SubFrame(OtherBody(m), Len(OtherBody(m)))
         both == frame(sent[1]) \o frame(sent[2])
     IN Len(both) <= Frame16MaxWriteSize /\ frames = <<Binary(both, NoKey)>>

Init ==
  /\ FromClient \/ FromServer \/ OtherVersion
  /\ data = <<>> /\ got = <<>> /\ buf = <<>> /\ live = <<>> /\ closed = FALSE

-----------------------------------------------------------------------------
Close == closed' = TRUE /\ UNCHANGED <<sent, fanout, peer, frames, data, got, buf, live>>

(* readThread between two frames.                                          *)
ReadFrame ==
  /\ ~closed /\ data = <<>> /\ frames # <<>>
  /\ LET f == Head(frames)
     IN IF ReadFails(f) \/ (~IsControl(f) /\ f.data = <<>>) THEN Close
        ELSE /\ frames' = Tail(frames)
             /\ data' = IF IsControl(f) THEN <<>> ELSE Payload(f)
             /\ UNCHANGED <<sent, fanout, peer, got, buf, live, closed>>

(* onReadMsg of the client for a LiveData, in one part or in several.      *)
Receive(m) ==
  LET l == m.args[Len(m.args)]
  IN CASE m.cmd = Cmd_roomValue -> live' = buf \o l /\ buf' = <<>> /\ closed' = FALSE
       [] m.cmd = Cmd_roomValueMore ->
            /\ closed' = (Len(buf) + Len(l) > ReadMsgMaxBytes)
            /\ buf' = IF closed' THEN buf ELSE buf \o l
            /\ UNCHANGED live
       [] OTHER -> UNCHANGED <<buf, live, closed>>

Body(len) == SubSeq(data, 3, 2 + len)
After(len) == SubSeq(data, 3 + len, Len(data))

ReadMsg ==
  /\ ~closed /\ data # <<>>
  /\ LET len == IF Len(data) < 2 THEN 0 ELSE data[1] + Base * data[2]
     IN IF len = 0 \/ Len(data) - 2 < len THEN Close
        ELSE LET u == UnmarshalMsg(Body(len))
             IN IF ~u.ok THEN Close
                ELSE /\ data' = After(len)
                     /\ got' = Append(got, u.msg)
                     /\ Receive(u.msg)
                     /\ UNCHANGED <<sent, fanout, peer, frames>>

Next == ReadFrame \/ ReadMsg

Spec == Init /\ [][Next]_vars

-----------------------------------------------------------------------------
(* What the reader hands on is what was written, in order (a message of    *)
(* another version is read as its known fields or not at all); it ends a   *)
(* connection only for a reason, and otherwise no message is passed over.  *)
ReadAsWritten ==
  /\ IsPrefix(got, sent)
  /\ closed => peer \in {"older", "closing"}
  /\ frames = <<>> /\ data = <<>> => got = sent \/ closed

(* A LiveData arrives whole, in however many parts and frames it came: no  *)
(* part is too large for a frame, and the parts are all of it.             *)
LiveIsWhole ==
  fanout # NoFanout /\ frames = <<>> /\ data = <<>> /\ ~closed => live = fanout /\ buf = <<>>

=============================================================================
