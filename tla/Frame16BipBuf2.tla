---------------------------- MODULE Frame16BipBuf2 ----------------------------
(***************************************************************************)
(* Frame16BipBuf2, the ring buffer of frames behind a server connection,   *)
(* as operators on a record with the fields of the Go struct.  Module      *)
(* BipBuf drives it from one goroutine, module WriteBuf from several.      *)
(*                                                                         *)
(* A cell of Buf stands for some bytes; every cell of a frame (its length  *)
(* bytes included) holds the frame, so that overwritten bytes show.  cap   *)
(* is len(Buf); the cells from cap on do not exist.                        *)
(***************************************************************************)
EXTENDS Integers, Sequences, FiniteSets

CONSTANTS Frame,            \* frames, numbered; none is stored twice at a time
          Total,            \* size of a frame with its length bytes
          MaxCap, Prefix, Suffix, MaxFramePayload,
          InitCap           \* grow's 64

ASSUME BipBufAssumption ==
  /\ Frame \subseteq Nat \ {0}
  /\ Total \in [Frame -> Nat \ {0}]
  /\ {MaxCap, InitCap} \subseteq Nat \ {0}
  /\ {Prefix, Suffix, MaxFramePayload} \subseteq Nat
  /\ Prefix < MaxCap

Free == 0        \* a cell nobody has written since it was allocated
Header == -1     \* frame header written by the layer below
Trailer == -2    \* frame trailer written by the layer below

NewFrame16BipBuf2 ==
  [Buf |-> [i \in 0 .. MaxCap - 1 |-> Free], cap |-> 0,
   Sent |-> Prefix, SendEnd |-> Prefix, Write |-> Prefix,
   TailEnd |-> 0, pendingGap |-> 0]

Fill(buf, from, to, x) ==
  [i \in 0 .. MaxCap - 1 |-> IF from <= i /\ i < to THEN x ELSE buf[i]]

-----------------------------------------------------------------------------
(* grow: a larger array that holds the queue from Prefix on.               *)
QueueLen(b) ==
  IF b.TailEnd = 0 THEN b.Write - b.SendEnd
  ELSE (b.TailEnd - b.SendEnd) + (b.Write - Prefix)

Unclamped(cur, required) == 2 * (IF cur > required THEN cur ELSE required)  \* fault
NewSize(cur, required) ==
  LET size[n \in 1 .. 2 * (MaxCap + InitCap)] ==
        IF n < required /\ n < MaxCap
        THEN size[IF n > MaxCap \div 2 THEN MaxCap ELSE 2 * n]
        ELSE n
      n == size[2 * (IF cur = 0 THEN InitCap ELSE cur)]
  IN IF n > MaxCap THEN MaxCap ELSE n

CanGrow(b, total) ==
  LET required == Prefix + QueueLen(b) + total
  IN b.cap < MaxCap /\ NewSize(b.cap, required) >= required

(* Where the cell that grow copies to position i comes from.               *)
CopySource(b, i) ==
  LET k == i - Prefix
      tailLen == b.TailEnd - b.SendEnd
  IN IF b.TailEnd = 0 \/ k < tailLen THEN b.SendEnd + k
     ELSE Prefix + (k - tailLen)

Grown(b, total) ==
  LET len == QueueLen(b)
  IN [b EXCEPT
        !.Buf = [i \in 0 .. MaxCap - 1 |->
                   IF i \in Prefix .. Prefix + len - 1
                   THEN b.Buf[CopySource(b, i)] ELSE Free],
        !.cap = NewSize(b.cap, Prefix + len + total),
        !.Sent = Prefix, !.SendEnd = Prefix, !.Write = Prefix + len,
        !.TailEnd = 0]

-----------------------------------------------------------------------------
(* AllocFrame, the caller's copy of the frame included.                    *)
FitsAfterWrite(b, total) ==
  IF b.TailEnd = 0 THEN b.cap > 0 /\ b.Write + total <= b.cap
  ELSE b.Write + total <= b.Sent

OverSending(b, total) ==                                         \* fault
  b.TailEnd = 0 /\ b.cap > 0 /\ Prefix + total <= b.SendEnd
FitsAtBottom(b, total) ==
  b.TailEnd = 0 /\ b.cap > 0 /\ Prefix + total <= b.Sent

Put(b, f, pos) ==
  [b EXCEPT !.Buf = Fill(b.Buf, pos, pos + Total[f], f),
            !.Write = pos + Total[f]]

TooLarge(f) == MaxFramePayload > 0 /\ Total[f] > MaxFramePayload

CanAlloc(b, f) ==
  /\ ~TooLarge(f)
  /\ \/ FitsAfterWrite(b, Total[f])
     \/ FitsAtBottom(b, Total[f])
     \/ CanGrow(b, Total[f])

AllocGrows(b, f) ==
  ~FitsAfterWrite(b, Total[f]) /\ ~FitsAtBottom(b, Total[f])

AllocFrame(b, f) ==
  CASE FitsAfterWrite(b, Total[f]) -> Put(b, f, b.Write)
    [] AllocGrows(b, f) ->
         LET g == Grown(b, Total[f]) IN Put(g, f, g.Write)
    [] OTHER -> Put([b EXCEPT !.TailEnd = b.Write], f, Prefix)

(* The room that is left for a group of frames.                            *)
FreeForAlloc(b) ==
  IF Prefix + QueueLen(b) >= MaxCap THEN 0 ELSE MaxCap - (Prefix + QueueLen(b))

-----------------------------------------------------------------------------
(* A frame begins at p, ends before to, and is whole but for its last d    *)
(* cells.                                                                  *)
WholeBut(d, buf, p, to) ==
  /\ buf[p] \in Frame
  /\ p + Total[buf[p]] <= to
  /\ \A i \in p .. p + Total[buf[p]] - 1 - d : buf[i] = buf[p]

(* The frames in buf[from .. to - 1]; a damaged one reads as Free.         *)
FramesBut(d, buf, from, to) ==
  LET parse[p \in 0 .. to] ==
        IF p = to THEN <<>>
        ELSE IF WholeBut(d, buf, p, to) THEN <<buf[p]>> \o parse[p + Total[buf[p]]]
        ELSE <<Free>>
  IN parse[from]

Frames(buf, from, to) == FramesBut(0, buf, from, to)

(* frameAlignedEnd: the last frame boundary within the payload limit.      *)
IgnoreLimit(b, start, limit) == limit                            \* fault
FrameAlignedEnd(b, start, limit) ==
  LET end[p \in Nat] ==
        IF p >= limit \/ b.Buf[p] \notin Frame
             \/ p + Total[b.Buf[p]] - start > MaxFramePayload
        THEN p
        ELSE end[p + Total[b.Buf[p]]]
  IN IF MaxFramePayload = 0 THEN limit ELSE end[start]

(* The first lines of TakeSendSlice and PopReadFrame: the batch handed out *)
(* last is done with, and so is the upper part once it was handed out.     *)
ForgetGap(b) == IF b.Sent < b.SendEnd THEN b.SendEnd ELSE b.Sent   \* fault
SentAfter(b) ==
  (IF b.Sent < b.SendEnd THEN b.SendEnd ELSE b.Sent) + b.pendingGap

(* Cells nobody may read any more are made Free, where the code leaves the *)
(* old bytes: a frame read from them would show.                           *)
Confirm(b) ==
  [b EXCEPT !.Sent = SentAfter(b),
            !.pendingGap = 0,
            !.Buf = [i \in 0 .. MaxCap - 1 |->
                       IF (b.Sent <= i /\ i < SentAfter(b))
                            \/ b.Buf[i] \in {Header, Trailer}
                       THEN Free ELSE b.Buf[i]]]

Switch(b) ==
  IF b.TailEnd > 0 /\ b.Sent >= b.TailEnd
  THEN [b EXCEPT !.Sent = Prefix, !.SendEnd = Prefix, !.TailEnd = 0]
  ELSE b

Rewind(b) == [b EXCEPT !.Sent = Prefix, !.SendEnd = Prefix, !.Write = Prefix]

(* TakeSendSlice: the buffer afterwards and the slice, without its prefix. *)
(* nil is unlike every slice, the empty one included.                      *)
NoSlice == [from |-> 0, to |-> 0, suffix |-> -1]

TakeSendSlice(b0) ==
  LET b == Switch(Confirm(b0))
      wrapped == b.TailEnd > 0
      end == FrameAlignedEnd(b, b.Sent, IF wrapped THEN b.TailEnd ELSE b.Write)
      grant == ~wrapped /\ Suffix > 0 /\ end = b.Write
                 /\ b.cap - b.Write >= Suffix
  IN IF ~wrapped /\ b.Sent >= b.Write
     THEN [b |-> Rewind(b), slice |-> NoSlice]
     ELSE [b |-> [b EXCEPT !.SendEnd = end,
                           !.Write = IF grant THEN @ + Suffix ELSE @,
                           !.pendingGap = IF grant THEN Suffix ELSE 0],
           slice |-> [from |-> b.Sent, to |-> end,
                      suffix |-> IF grant THEN Suffix ELSE 0]]

(* PopReadFrame: one frame; the upper part is left when it has no more.    *)
PopReadFrame(b0) ==
  LET b == Switch(Confirm(b0))
      end == b.Sent + Total[b.Buf[b.Sent]]
  IN IF b.TailEnd = 0 /\ b.Sent >= b.Write
     THEN [b |-> Rewind(b), slice |-> NoSlice]
     ELSE [b |-> [b EXCEPT !.Sent = end, !.SendEnd = end],
           slice |-> [from |-> b.Sent, to |-> end, suffix |-> 0]]

-----------------------------------------------------------------------------
(* The frames between the cursors, in the order they will leave.           *)
QueuedBut(d, b) ==
  LET start == b.SendEnd + b.pendingGap
  IN IF b.TailEnd = 0 THEN FramesBut(d, b.Buf, start, b.Write)
     ELSE FramesBut(d, b.Buf, start, b.TailEnd) \o FramesBut(d, b.Buf, Prefix, b.Write)

Queued(b) == QueuedBut(0, b)

(* The cells of a slice, as an array of its own: what is left of an array  *)
(* that grow replaced while the slice points into it (OldBuf).             *)
Kept(buf, s) == [i \in 0 .. MaxCap - 1 |->
                   IF s.from - Prefix <= i /\ i < s.to THEN buf[i] ELSE Free]

(* The layer below writes its header right before the payload and its      *)
(* trailer into the suffix it was granted.                                 *)
Wrap(buf, s) ==
  IF s = NoSlice THEN buf
  ELSE Fill(Fill(buf, s.from - Prefix, s.from, Header), s.to, s.to + s.suffix, Trailer)

(* The header of a batch goes into the bytes of the one before it, and     *)
(* reaches beyond them when that was shorter: by this much at most.        *)
Reach == Prefix - CHOOSE n \in 0 .. Prefix :
                    /\ \A f \in Frame : n <= Total[f]
                    /\ n = Prefix \/ \E f \in Frame : n = Total[f]

=============================================================================
