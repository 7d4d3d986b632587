--------------------------- MODULE WriteBufProofs ---------------------------
(***************************************************************************)
(* Proofs about WriteBuf, for any messages, sizes, groups, buffer capacity *)
(* and number of writer goroutines.  First its control, where the bytes    *)
(* play no part but for one fact: a buffer that had nothing to send is     *)
(* reset to a state with nothing to send.  Then what happens to the bytes, *)
(* on top of RingProofs: types, groups and batches.                        *)
(***************************************************************************)
EXTENDS WriteBuf, RingProofs

ControlTypeOK ==
  /\ writerRunning \in BOOLEAN
  /\ isBroken \in BOOLEAN
  /\ toClose \in BOOLEAN
  /\ pc \in [Writer -> {"off", "lock", "check", "frame", "write"}]
  /\ closer \in {"open", "closing", "broken", "shut"}

(* The flag tells whether a writer exists until the connection is marked   *)
(* broken; from then on it is off, whatever a last writer still does.      *)
FlagTellsWriter ==
  IF isBroken THEN ~writerRunning
  ELSE writerRunning <=> \E w \in Writer : Active(w)

WriterInv == ControlTypeOK /\ OneWriter /\ FlagTellsWriter

-----------------------------------------------------------------------------
(* A batch taken from a buffer without anything to send leaves it so.      *)
LEMMA RewoundIsDrained ==
  ASSUME NEW b0, TakeSendSlice(b0).slice = NoSlice
  PROVE  TakeSendSlice(TakeSendSlice(b0).b).slice = NoSlice
<1> DEFINE b == Switch(Confirm(b0))
           r == Rewind(b)
           c == Switch(Confirm(r))
<1>p. Prefix \in Nat /\ Suffix \in Nat
  BY BipBufAssumption
<1>1. ~(b.TailEnd > 0) /\ b.Sent >= b.Write
  BY <1>p DEF TakeSendSlice, NoSlice
<1>2. TakeSendSlice(b0).b = r
  BY <1>1 DEF TakeSendSlice
<1>3. r.Sent = Prefix /\ r.SendEnd = Prefix /\ r.Write = Prefix
  BY DEF Rewind, Switch, Confirm
<1>4. r.pendingGap = 0 /\ r.TailEnd = b.TailEnd
  BY DEF Rewind, Switch, Confirm
<1> HIDE DEF r
<1>5. SentAfter(r) = Prefix
  BY <1>p, <1>3, <1>4 DEF SentAfter
<1>6. Confirm(r).Sent = Prefix /\ Confirm(r).TailEnd = b.TailEnd
        /\ Confirm(r).Write = Prefix
  BY <1>3, <1>4, <1>5 DEF Confirm
<1>7. c = Confirm(r)
  BY <1>1, <1>6 DEF Switch
<1>8. ~(c.TailEnd > 0) /\ c.Sent >= c.Write
  BY <1>p, <1>1, <1>6, <1>7
<1> QED
  BY <1>2, <1>8 DEF TakeSendSlice

-----------------------------------------------------------------------------
LEMMA InitWriterInv == Init => WriterInv /\ NoLostWakeup
<1> SUFFICES ASSUME Init PROVE WriterInv /\ NoLostWakeup
  OBVIOUS
<1> DEFINE b == Switch(Confirm(bip))
<1>p. Prefix \in Nat /\ Suffix \in Nat
  BY BipBufAssumption
<1>1. ControlTypeOK
  BY DEF Init, ControlTypeOK
<1>2. OneWriter /\ FlagTellsWriter
  BY DEF Init, OneWriter, FlagTellsWriter, Active
<1>3. SentAfter(bip) = Prefix
  BY <1>p DEF Init, NewFrame16BipBuf2, SentAfter
<1>4. Confirm(bip).TailEnd = 0 /\ Confirm(bip).Sent = Prefix /\ Confirm(bip).Write = Prefix
  BY <1>3 DEF Init, NewFrame16BipBuf2, Confirm
<1>5. b = Confirm(bip)
  BY <1>4 DEF Switch
<1>6. Drained
  BY <1>p, <1>4, <1>5 DEF Drained, TakeSendSlice
<1> QED
  BY <1>1, <1>2, <1>6 DEF WriterInv, NoLostWakeup

(* A push that is accepted leaves exactly one writer, and the flag set.    *)
LEMMA EnsureWriterEffect ==
  ASSUME WriterInv, ~isBroken, EnsureWriter
  PROVE  /\ writerRunning' = TRUE
         /\ pc' \in [Writer -> {"off", "lock", "check", "frame", "write"}]
         /\ \E w \in Writer : pc'[w] # "off"
         /\ \A v, w \in Writer : pc'[v] # "off" /\ pc'[w] # "off" => v = w
<1>1. CASE writerRunning /\ UNCHANGED <<writerRunning, pc>>
  BY <1>1 DEF WriterInv, ControlTypeOK, OneWriter, FlagTellsWriter, Active
<1>2. CASE ~writerRunning /\ writerRunning' = TRUE
             /\ \E w \in Writer : pc[w] = "off" /\ pc' = [pc EXCEPT ![w] = "lock"]
  <2>1. \A w \in Writer : pc[w] = "off"
    BY <1>2 DEF WriterInv, FlagTellsWriter, Active
  <2> QED
    BY <1>2, <2>1 DEF WriterInv, ControlTypeOK
<1> QED
  BY <1>1, <1>2 DEF EnsureWriter

LEMMA PushMsgPreserves ==
  ASSUME WriterInv, NoLostWakeup, NEW f \in Frame, PushMsg(f)
  PROVE  WriterInv' /\ NoLostWakeup'
<1>a. ~isBroken /\ isBroken' = FALSE /\ closer' = closer
  BY DEF PushMsg, Accepts, WriterInv, ControlTypeOK
<1>1. CASE CanAlloc(bip, f)
  <2>1. EnsureWriter /\ UNCHANGED toClose
    BY <1>1 DEF PushMsg
  <2> QED
    BY <1>a, <2>1, EnsureWriterEffect
    DEF WriterInv, ControlTypeOK, OneWriter, FlagTellsWriter, NoLostWakeup, Active
<1>2. CASE ~CanAlloc(bip, f)
  <2>1. /\ toClose' = CloseUnlessClosed
        /\ UNCHANGED <<bip, writerRunning, pc>>
    BY <1>2 DEF PushMsg
  <2>2. CloseUnlessClosed \in BOOLEAN
    BY DEF CloseUnlessClosed, WriterInv, ControlTypeOK
  <2>3. WriterInv'
    BY <1>a, <2>1, <2>2 DEF WriterInv, ControlTypeOK, OneWriter, FlagTellsWriter, Active
  <2>4. ~InOrder'
    BY <1>a, <2>1 DEF InOrder, CloseUnlessClosed
  <2> QED
    BY <2>3, <2>4 DEF NoLostWakeup
<1> QED
  BY <1>1, <1>2

LEMMA PushTooLargePreserves ==
  ASSUME WriterInv, NoLostWakeup, NEW f \in Frame, PushTooLarge(f)
  PROVE  WriterInv' /\ NoLostWakeup'
<1>1. /\ toClose' = CloseUnlessClosed
      /\ UNCHANGED <<bip, writerRunning, isBroken, pc, closer>>
  BY DEF PushTooLarge, bufVars
<1>2. CloseUnlessClosed \in BOOLEAN
  BY DEF CloseUnlessClosed, WriterInv, ControlTypeOK
<1>3. WriterInv'
  BY <1>1, <1>2 DEF WriterInv, ControlTypeOK, OneWriter, FlagTellsWriter, Active
<1>4. ~InOrder'
  BY <1>1 DEF InOrder, CloseUnlessClosed
<1> QED
  BY <1>3, <1>4 DEF NoLostWakeup

LEMMA PushMsgsAtomicPreserves ==
  ASSUME WriterInv, NoLostWakeup, NEW g \in Group, PushMsgsAtomic(g)
  PROVE  WriterInv' /\ NoLostWakeup'
<1>a. ~isBroken /\ isBroken' = FALSE /\ closer' = closer
  BY DEF PushMsgsAtomic, Accepts, WriterInv, ControlTypeOK
<1>b. \/ EnsureWriter /\ UNCHANGED toClose
      \/ toClose' = CloseUnlessClosed /\ UNCHANGED <<writerRunning, pc>>
  BY DEF PushMsgsAtomic
<1>1. CASE EnsureWriter /\ UNCHANGED toClose
  BY <1>a, <1>1, EnsureWriterEffect
  DEF WriterInv, ControlTypeOK, OneWriter, FlagTellsWriter, NoLostWakeup, Active
<1>2. CASE toClose' = CloseUnlessClosed /\ UNCHANGED <<writerRunning, pc>>
  <2>1. CloseUnlessClosed \in BOOLEAN
    BY DEF CloseUnlessClosed, WriterInv, ControlTypeOK
  <2>2. WriterInv'
    BY <1>a, <1>2, <2>1 DEF WriterInv, ControlTypeOK, OneWriter, FlagTellsWriter, Active
  <2>3. ~InOrder'
    BY <1>a, <1>2 DEF InOrder, CloseUnlessClosed
  <2> QED
    BY <2>2, <2>3 DEF NoLostWakeup
<1> QED
  BY <1>b, <1>1, <1>2

(* The writer's own steps: as long as it goes on the flag and the number   *)
(* of writers stay, and it ends only with an empty or a broken buffer.     *)
LEMMA WriterStepPreserves ==
  ASSUME WriterInv, NoLostWakeup, NEW w \in Writer, WriterStep(w)
  PROVE  WriterInv' /\ NoLostWakeup'
<1> USE DEF WriterInv, ControlTypeOK, Active
<1>1. CASE WriterTake(w)
  <2> DEFINE t == TakeSendSlice(bip)
  <2>1. /\ pc[w] = "lock" /\ isBroken = FALSE
        /\ bip' = t.b /\ UNCHANGED <<isBroken, closer, toClose>>
    BY <1>1 DEF WriterTake
  <2>2. CASE t.slice = NoSlice
    <3>1. writerRunning' = FALSE /\ pc' = [pc EXCEPT ![w] = "off"]
      BY <1>1, <2>2 DEF WriterTake, RunningAfterStop, Stop
    <3>2. Drained'
      BY <2>1, <2>2, RewoundIsDrained DEF Drained
    <3>3. \A v \in Writer : pc'[v] = "off"
      BY <2>1, <3>1 DEF OneWriter
    <3> QED
      BY <2>1, <3>1, <3>2, <3>3 DEF OneWriter, FlagTellsWriter, NoLostWakeup
  <2>3. CASE t.slice # NoSlice
    <3>1. writerRunning' = writerRunning /\ pc' = [pc EXCEPT ![w] = "check"]
      BY <1>1, <2>3 DEF WriterTake
    <3> QED
      BY <2>1, <3>1 DEF OneWriter, FlagTellsWriter, NoLostWakeup
  <2> QED
    BY <2>2, <2>3
<1>2. CASE WriterBroken(w)
  BY <1>2 DEF WriterBroken, Stop, bufVars, OneWriter, FlagTellsWriter, NoLostWakeup, InOrder
<1>3. CASE WriterCheck(w)
  <2>1. CASE closer = "open"
    BY <1>3, <2>1 DEF WriterCheck, bufVars, OneWriter, FlagTellsWriter, NoLostWakeup
  <2>2. CASE closer # "open"
    BY <1>3, <2>2 DEF WriterCheck, MarkBroken, Stop, bufVars, OneWriter, FlagTellsWriter,
                      NoLostWakeup, InOrder
  <2> QED
    BY <2>1, <2>2
<1>4. CASE WriterHeader(w)
  <2>1. /\ pc[w] = "frame" /\ pc' = [pc EXCEPT ![w] = "write"]
        /\ UNCHANGED <<writerRunning, isBroken, closer, toClose>>
    BY <1>4 DEF WriterHeader
  <2> QED
    BY <2>1 DEF OneWriter, FlagTellsWriter, NoLostWakeup
<1>5. CASE WriterSent(w)
  <2>1. /\ pc[w] = "write" /\ pc' = [pc EXCEPT ![w] = "lock"]
        /\ UNCHANGED <<writerRunning, isBroken, closer, toClose>>
    BY <1>5 DEF WriterSent, Again
  <2> QED
    BY <2>1 DEF OneWriter, FlagTellsWriter, NoLostWakeup
<1>6. CASE WriterFailed(w)
  BY <1>6 DEF WriterFailed, MarkBroken, Stop, CloseUnlessClosed, bufVars, OneWriter,
              FlagTellsWriter, NoLostWakeup, InOrder
<1> QED
  BY <1>1, <1>2, <1>3, <1>4, <1>5, <1>6 DEF WriterStep

LEMMA ClosePreserves ==
  ASSUME WriterInv, NoLostWakeup, Close \/ CloseMarkBroken \/ CloseRaw
  PROVE  WriterInv' /\ NoLostWakeup'
<1> USE DEF WriterInv, ControlTypeOK, Active, OneWriter, FlagTellsWriter, NoLostWakeup,
            InOrder, bufVars
<1>1. CASE Close
  BY <1>1 DEF Close
<1>2. CASE CloseMarkBroken
  BY <1>2 DEF CloseMarkBroken, MarkBroken
<1>3. CASE CloseRaw
  BY <1>3 DEF CloseRaw
<1> QED
  BY <1>1, <1>2, <1>3

LEMMA NextPreserves ==
  ASSUME WriterInv, NoLostWakeup, [Next]_vars
  PROVE  WriterInv' /\ NoLostWakeup'
<1>1. CASE UNCHANGED vars
  BY <1>1 DEF vars, bufVars, WriterInv, ControlTypeOK, OneWriter, FlagTellsWriter,
              NoLostWakeup, InOrder, Drained, Active
<1>2. CASE Next
  BY <1>2, PushMsgPreserves, PushTooLargePreserves, PushMsgsAtomicPreserves,
      WriterStepPreserves, ClosePreserves
  DEF Next
<1> QED
  BY <1>1, <1>2

-----------------------------------------------------------------------------
(* No second writeLoop is ever started, not even when the close callback   *)
(* resets writerRunning under a writer that is still sending.              *)
THEOREM OneWriterCorrect == Spec => []OneWriter
<1>1. WriterInv /\ NoLostWakeup /\ [Next]_vars => (WriterInv /\ NoLostWakeup)'
  BY NextPreserves
<1>2. WriterInv => OneWriter
  BY DEF WriterInv
<1> QED
  BY InitWriterInv, <1>1, <1>2, PTL DEF Spec

(* No stored message is left without a writer while the connection is in   *)
(* order, whatever push meets the writer that is about to end.             *)
THEOREM NoLostWakeupCorrect == Spec => []NoLostWakeup
<1>1. WriterInv /\ NoLostWakeup /\ [Next]_vars => (WriterInv /\ NoLostWakeup)'
  BY NextPreserves
<1> QED
  BY InitWriterInv, <1>1, PTL DEF Spec

-----------------------------------------------------------------------------
(* What happens to the bytes.  The header of a batch may damage a message  *)
(* that was stored below it: what follows is about the behaviours in which *)
(* no wrapped message reaches into the header space at the moment the      *)
(* header is written.                                                      *)
ScratchIsFree ==
  \A w \in Writer :
    pc[w] = "frame" /\ array = Current /\ slice # NoSlice /\ bip.TailEnd > 0 =>
      bip.Write + Prefix <= slice.from

RingInv ==
  /\ RingOK(0, bip) /\ SliceIn(0, bip, slice, array)
  /\ last \in Frame \cup {NoFrame}

(* A sequence of messages with no group interrupted, nor left without its  *)
(* end.                                                                    *)
Unfinished(x) == \E g \in Group : \E i \in DOMAIN g : i < Len(g) /\ g[i] = x
Whole(s) ==
  /\ \A i \in 1 .. Len(s) - 1 : Follows(s[i], s[i + 1])
  /\ ~Unfinished(s[Len(s)])

GroupInv == Whole(Leaving) \/ toClose \/ closer # "open"

-----------------------------------------------------------------------------
LEMMA Upward ==
  ASSUME NEW n \in Nat, NEW G, 0 \in G, \A q \in 0 .. n - 1 : q \in G => q + 1 \in G
  PROVE  \A q \in 0 .. n : q \in G
<1> DEFINE H == {q \in 0 .. n : n - q \in G}
<1>1. n \in H
  OBVIOUS
<1>2. ASSUME NEW q \in 1 .. n, q \in H PROVE q - 1 \in H
  <2>1. n - q \in G /\ n - q \in 0 .. n - 1
    BY <1>2
  <2>2. (n - q) + 1 \in G
    BY <2>1
  <2>3. n - (q - 1) = (n - q) + 1 /\ q - 1 \in 0 .. n
    OBVIOUS
  <2> QED
    BY <2>2, <2>3
<1>3. \A q \in 0 .. n : q \in H
  <2> HIDE DEF H
  <2> QED
    BY <1>1, <1>2, Downward
<1> SUFFICES ASSUME NEW q \in 0 .. n PROVE q \in G
  OBVIOUS
<1>4. n - q \in 0 .. n /\ n - (n - q) = q
  OBVIOUS
<1>5. n - q \in H
  BY <1>3, <1>4
<1> QED
  BY <1>4, <1>5

(* StoreFirst, step by step.                                               *)
StoreStep(g, a, i) ==
  IF i = 0 THEN [bip |-> bip, array |-> array] ELSE Store(a[i - 1], g[i])

StoreAll(g) == CHOOSE a : a = [i \in 0 .. Len(g) |-> StoreStep(g, a, i)]

LEMMA StoreFirstIs ==
  ASSUME NEW g, NEW k PROVE StoreFirst(g, k) = StoreAll(g)[k]
BY DEF StoreFirst, StoreAll, StoreStep

LEMMA StoreAllUnfolds ==
  ASSUME NEW g, Len(g) \in Nat, NEW i \in 0 .. Len(g)
  PROVE  StoreAll(g)[i] = StoreStep(g, StoreAll(g), i)
<1> DEFINE n == Len(g)
           Upto(q, a) == /\ a = [j \in 0 .. n |-> a[j]]
                         /\ \A j \in 0 .. q : a[j] = StoreStep(g, a, j)
           G == {q \in 0 .. n : \E a : Upto(q, a)}
<1> HIDE DEF n
<1>0. n \in Nat
  BY DEF n
<1>1. 0 \in G
  <2> DEFINE a == [j \in 0 .. n |-> [bip |-> bip, array |-> array]]
  <2>1. a[0] = StoreStep(g, a, 0)
    BY <1>0 DEF StoreStep
  <2>2. Upto(0, a)
    BY <1>0, <2>1
  <2> HIDE DEF Upto
  <2> QED
    BY <1>0, <2>2
<1>2. ASSUME NEW q \in 0 .. n - 1, q \in G PROVE q + 1 \in G
  <2>1. PICK a : Upto(q, a)
    BY <1>2
  <2> DEFINE h == [j \in 0 .. n |-> IF j = q + 1 THEN Store(a[q], g[q + 1]) ELSE a[j]]
  <2>2. ASSUME NEW j \in 0 .. q + 1 PROVE h[j] = StoreStep(g, h, j)
    <3>1. CASE j = q + 1
      <4>1. h[j] = Store(a[q], g[q + 1]) /\ h[q] = a[q]
        BY <3>1, <1>0
      <4>2. j # 0 /\ j - 1 = q
        BY <3>1
      <4> HIDE DEF h
      <4> QED
        BY <3>1, <4>1, <4>2 DEF StoreStep
    <3>2. CASE j # q + 1
      <4>1. j \in 0 .. q /\ j \in 0 .. n
        BY <3>2, <1>0
      <4>2. h[j] = a[j] /\ a[j] = StoreStep(g, a, j)
        BY <2>1, <3>2, <4>1
      <4>3. j # 0 => h[j - 1] = a[j - 1]
        BY <1>0, <4>1
      <4> HIDE DEF h
      <4> QED
        BY <4>2, <4>3 DEF StoreStep
    <3> QED
      BY <3>1, <3>2
  <2>3. h = [j \in 0 .. n |-> h[j]]
    OBVIOUS
  <2>4. Upto(q + 1, h)
    <3> HIDE DEF h
    <3> QED
      BY <2>2, <2>3
  <2> HIDE DEF Upto
  <2>5. q + 1 \in 0 .. n
    BY <1>0
  <2> QED
    BY <2>4, <2>5
<1>3. n \in G
  <2> HIDE DEF G
  <2>1. \A q \in 0 .. n : q \in G
    BY <1>0, <1>1, <1>2, Upward
  <2> QED
    BY <1>0, <2>1
<1>4. PICK a : Upto(n, a)
  BY <1>3
<1>5. a = [j \in 0 .. n |-> StoreStep(g, a, j)]
  BY <1>4
<1> HIDE DEF Upto, G
<1>6. StoreAll(g) = [j \in 0 .. Len(g) |-> StoreStep(g, StoreAll(g), j)]
  BY <1>5 DEF StoreAll, n
<1> QED
  BY <1>6

(* A group is stored as the queue that it is.                              *)
Pushed(g, k, s) ==
  /\ RingOK(0, s.bip) /\ SliceIn(0, s.bip, slice, s.array)
  /\ Queued(s.bip) = Queued(bip) \o SubSeq(g, 1, k)
  /\ Held(0, s.bip, slice, s.array) = Held(0, bip, slice, array)

LEMMA StorePushes ==
  ASSUME NEW s, RingOK(0, s.bip), SliceIn(0, s.bip, slice, s.array),
         NEW f \in Frame, CanAlloc(s.bip, f), NEW r, r = Store(s, f)
  PROVE  /\ RingOK(0, r.bip) /\ SliceIn(0, r.bip, slice, r.array)
         /\ Queued(r.bip) = Append(Queued(s.bip), f)
         /\ Held(0, r.bip, slice, r.array) = Held(0, s.bip, slice, s.array)
<1>1. /\ r.bip = AllocFrame(s.bip, f)
      /\ r.array = IF s.array = <<>> /\ slice # NoSlice /\ AllocGrows(s.bip, f)
                   THEN Kept(s.bip.Buf, slice) ELSE s.array
  BY DEF Store, Current
<1>2. RingOK(0, r.bip) /\ Queued(r.bip) = Append(Queued(s.bip), f)
  BY <1>1, AllocRing DEF Queued
<1>3. /\ SliceIn(0, r.bip, slice, r.array)
      /\ Held(0, r.bip, slice, r.array) = Held(0, s.bip, slice, s.array)
  <2> DEFINE D == 0
             b == s.bip
             a == s.array
             b2 == r.bip
             a2 == r.array
  <2>1. D \in Nat /\ RingOK(D, b) /\ SliceIn(D, b, slice, a) /\ CanAlloc(b, f)
    OBVIOUS
  <2>2. b2 = AllocFrame(b, f)
    BY <1>1
  <2>3. a2 = IF a = <<>> /\ slice # NoSlice /\ AllocGrows(b, f) THEN Kept(b.Buf, slice) ELSE a
    BY <1>1
  <2> HIDE DEF D, b, a, b2, a2
  <2>4. SliceIn(D, b2, slice, a2) /\ Held(D, b2, slice, a2) = Held(D, b, slice, a)
    BY <2>1, <2>2, <2>3, AllocSlice
  <2> QED
    BY <2>4 DEF D, b, a, b2, a2
<1> QED
  BY <1>2, <1>3

LEMMA SubSeqGrows ==
  ASSUME NEW q \in Seq(Frame), NEW g \in Seq(Frame), NEW k \in 0 .. Len(g) - 1
  PROVE  Append(q \o SubSeq(g, 1, k), g[k + 1]) = q \o SubSeq(g, 1, k + 1)
OBVIOUS

LEMMA StoreFirstPushes ==
  ASSUME RingInv, NEW g \in Group, NEW k \in 0 .. Len(g),
         \A i \in 1 .. k : CanAlloc(StoreFirst(g, i - 1).bip, g[i])
  PROVE  Pushed(g, k, StoreFirst(g, k))
<1>0. g \in Seq(Frame) /\ Len(g) \in Nat
  BY WriteBufAssumption
<1>q. Queued(bip) \in Seq(Storable) /\ Queued(bip) \in Seq(Frame)
  BY QueuedTyped DEF RingInv, Storable, Queued
<1> DEFINE G == {q \in 0 .. k : Pushed(g, q, StoreFirst(g, q))}
<1>1. 0 \in G
  <2>1. StoreFirst(g, 0) = [bip |-> bip, array |-> array]
    BY <1>0, StoreFirstIs, StoreAllUnfolds DEF StoreStep
  <2>2. Queued(bip) \o SubSeq(g, 1, 0) = Queued(bip)
    BY <1>0, <1>q
  <2>3. StoreFirst(g, 0).bip = bip /\ StoreFirst(g, 0).array = array
    BY <2>1
  <2>4. RingOK(0, bip) /\ SliceIn(0, bip, slice, array)
    BY DEF RingInv
  <2>5. Pushed(g, 0, StoreFirst(g, 0))
    BY <2>2, <2>3, <2>4, Zenon DEF Pushed
  <2> QED
    BY <1>0, <2>5
<1>2. ASSUME NEW q \in 0 .. k - 1, q \in G PROVE q + 1 \in G
  <2> DEFINE s == StoreFirst(g, q)
             r == StoreFirst(g, q + 1)
  <2>1. r = Store(s, g[q + 1])
    <3>1. q + 1 \in 0 .. Len(g) /\ q + 1 # 0 /\ (q + 1) - 1 = q
      BY <1>0
    <3> QED
      BY <1>0, <3>1, StoreFirstIs, StoreAllUnfolds DEF StoreStep
  <2>2. g[q + 1] \in Frame /\ CanAlloc(s.bip, g[q + 1])
    <3>1. q + 1 \in 1 .. k /\ q + 1 \in 1 .. Len(g) /\ (q + 1) - 1 = q
      BY <1>0
    <3> QED
      BY <1>0, <3>1
  <2>3. Pushed(g, q, s)
    BY <1>2
  <2> HIDE DEF s, r
  <2>4. /\ RingOK(0, r.bip) /\ SliceIn(0, r.bip, slice, r.array)
        /\ Queued(r.bip) = Append(Queued(s.bip), g[q + 1])
        /\ Held(0, r.bip, slice, r.array) = Held(0, s.bip, slice, s.array)
    BY <2>1, <2>2, <2>3, StorePushes DEF Pushed
  <2>5. Queued(r.bip) = Queued(bip) \o SubSeq(g, 1, q + 1)
    <3>1. q \in 0 .. Len(g) - 1
      BY <1>0
    <3> QED
      BY <1>0, <1>q, <2>3, <2>4, <3>1, SubSeqGrows DEF Pushed
  <2>6. Pushed(g, q + 1, r)
    BY <2>3, <2>4, <2>5 DEF Pushed
  <2> QED
    BY <1>0, <2>6 DEF r
<1>3. k \in G
  <2> HIDE DEF G
  <2>1. k \in Nat
    BY <1>0
  <2>2. \A q \in 0 .. k : q \in G
    BY <2>1, <1>1, <1>2, Upward
  <2> QED
    BY <2>1, <2>2
<1> QED
  BY <1>3

(* The number of messages that fit is well defined.                        *)
LEMMA StoredFits ==
  ASSUME NEW g \in Group
  PROVE  /\ Stored(g) \in 0 .. Len(g)
         /\ \A i \in 1 .. Stored(g) : CanAlloc(StoreFirst(g, i - 1).bip, g[i])
<1>0. Len(g) \in Nat
  BY WriteBufAssumption
<1> DEFINE Fits(k) == \A i \in 1 .. k : CanAlloc(StoreFirst(g, i - 1).bip, g[i])
           Stops(k) == k = Len(g) \/ ~CanAlloc(StoreFirst(g, k).bip, g[k + 1])
           S == {k \in 0 .. Len(g) : Fits(k)}
<1>1. 0 \in S
  BY <1>0
<1>2. PICK m \in S : \A k \in S : k <= m
  <2>1. S \in SUBSET (0 .. Len(g)) /\ S # {}
    BY <1>1
  <2> HIDE DEF S
  <2> QED
    BY <1>0, <2>1, Greatest
<1>3. Stops(m)
  <2> SUFFICES ASSUME m # Len(g), CanAlloc(StoreFirst(g, m).bip, g[m + 1]) PROVE FALSE
    OBVIOUS
  <2>1. m + 1 \in 0 .. Len(g) /\ m \in 0 .. Len(g) /\ ~(m + 1 <= m)
    BY <1>0
  <2>2. Fits(m + 1)
    <3> SUFFICES ASSUME NEW i \in 1 .. m + 1
                 PROVE  CanAlloc(StoreFirst(g, i - 1).bip, g[i])
      OBVIOUS
    <3>1. CASE i = m + 1
      <4>1. i - 1 = m
        BY <2>1, <3>1
      <4> QED
        BY <3>1, <4>1
    <3>2. CASE i # m + 1
      <4>1. i \in 1 .. m /\ Fits(m)
        BY <2>1, <3>2
      <4> QED
        BY <4>1
    <3> QED
      BY <3>1, <3>2
  <2>3. m + 1 \in S
    BY <2>1, <2>2
  <2> HIDE DEF S
  <2> QED
    BY <1>2, <2>1, <2>3
<1>4. \E k \in 0 .. Len(g) : Fits(k) /\ Stops(k)
  BY <1>3
<1>5. Stored(g) = CHOOSE k \in 0 .. Len(g) : Fits(k) /\ Stops(k)
  BY DEF Stored
<1> HIDE DEF Fits, Stops
<1>6. Stored(g) \in 0 .. Len(g) /\ Fits(Stored(g))
  BY <1>4, <1>5
<1> QED
  BY <1>6 DEF Fits

-----------------------------------------------------------------------------
(* Sequences of messages.                                                  *)
LEMMA ChunksOf ==
  ASSUME NEW g \in Group
  PROVE  /\ g \in Seq(Frame) /\ \A i \in DOMAIN g : g[i] \in Chunks
         /\ \A h \in Group : \A i \in DOMAIN g, j \in DOMAIN h :
              g[i] = h[j] => g = h /\ i = j
BY WriteBufAssumption DEF Chunks

LEMMA EndsInChunk == ASSUME NEW x, Unfinished(x) PROVE x \in Chunks
BY ChunksOf DEF Unfinished

LEMMA FollowsFinished ==
  ASSUME NEW x, ~Unfinished(x), NEW y PROVE Follows(x, y)
BY DEF Follows, Unfinished

LEMMA WholeAppend ==    \* a message of its own
  ASSUME NEW s \in Seq(Nat), s # <<>>, Whole(s), NEW f \in Single
  PROVE  Whole(Append(s, f))
<1> DEFINE r == Append(s, f)
<1>1. f \in Nat /\ ~Unfinished(f)
  BY EndsInChunk, BipBufAssumption DEF Single
<1>2. Len(s) \in Nat \ {0} /\ Len(r) = Len(s) + 1 /\ r[Len(s) + 1] = f
  BY <1>1
<1>3. \A i \in 1 .. Len(s) : r[i] = s[i]
  BY <1>1
<1> HIDE DEF r
<1>4. ASSUME NEW i \in 1 .. Len(r) - 1 PROVE Follows(r[i], r[i + 1])
  <2>1. CASE i = Len(s)
    BY <1>2, <1>3, <2>1, FollowsFinished DEF Whole
  <2>2. CASE i # Len(s)
    <3>1. i \in 1 .. Len(s) - 1 /\ i \in 1 .. Len(s) /\ i + 1 \in 1 .. Len(s)
      BY <1>2, <2>2
    <3> QED
      BY <1>3, <3>1 DEF Whole
  <2> QED
    BY <2>1, <2>2
<1> QED
  BY <1>1, <1>2, <1>4 DEF Whole, r

LEMMA WholeGroup ==     \* a group that was stored completely
  ASSUME NEW s \in Seq(Nat), s # <<>>, Whole(s), NEW g \in Group
  PROVE  Whole(s \o g)
<1> DEFINE r == s \o g
<1>0. g \in Seq(Frame) /\ Frame \subseteq Nat
  BY ChunksOf, BipBufAssumption
<1>a. g \in Seq(Nat)
  BY <1>0, SeqMonotonic, Zenon
<1>1. g \in Seq(Nat) /\ Len(g) \in Nat /\ DOMAIN g = 1 .. Len(g)
  BY <1>a
<1>2. /\ Len(s) \in Nat \ {0} /\ Len(r) = Len(s) + Len(g)
      /\ \A i \in 1 .. Len(s) : r[i] = s[i]
      /\ \A i \in 1 .. Len(g) : r[Len(s) + i] = g[i]
  BY <1>1
<1> HIDE DEF r
<1>3. ASSUME NEW i \in 1 .. Len(g) - 1 PROVE Follows(g[i], g[i + 1])
  <2> SUFFICES ASSUME NEW h \in Group, NEW j \in DOMAIN h, h[j] = g[i] PROVE g[i + 1] = h[j + 1]
    BY DEF Follows
  <2>1. i \in DOMAIN g
    BY <1>1
  <2> QED
    BY <2>1, ChunksOf
<1>4. ASSUME Len(g) # 0 PROVE ~Unfinished(g[Len(g)])
  <2> SUFFICES ASSUME NEW h \in Group, NEW j \in DOMAIN h, j < Len(h), h[j] = g[Len(g)]
               PROVE  FALSE
    BY DEF Unfinished
  <2>1. Len(g) \in DOMAIN g
    BY <1>1, <1>4
  <2>2. g = h /\ Len(g) = j
    BY <2>1, ChunksOf
  <2> QED
    BY <1>1, <2>2
<1>5. ASSUME NEW i \in 1 .. Len(r) - 1 PROVE Follows(r[i], r[i + 1])
  <2>1. CASE i < Len(s)
    <3>1. i \in 1 .. Len(s) - 1 /\ i \in 1 .. Len(s) /\ i + 1 \in 1 .. Len(s)
      BY <1>2, <2>1
    <3> QED
      BY <1>2, <3>1 DEF Whole
  <2>2. CASE i = Len(s)
    BY <1>2, <2>2, FollowsFinished DEF Whole
  <2>3. CASE i > Len(s)
    <3> DEFINE k == i - Len(s)
    <3>1. /\ k \in 1 .. Len(g) - 1 /\ k \in 1 .. Len(g) /\ k + 1 \in 1 .. Len(g)
          /\ Len(s) + k = i /\ Len(s) + (k + 1) = i + 1
      BY <1>1, <1>2, <2>3
    <3> HIDE DEF k
    <3>2. r[i] = g[k] /\ r[i + 1] = g[k + 1]
      BY <1>2, <3>1
    <3> QED
      BY <1>3, <3>1, <3>2
  <2> QED
    BY <1>2, <2>1, <2>2, <2>3
<1>6. ~Unfinished(r[Len(r)])
  <2>1. CASE Len(g) = 0
    <3>1. Len(r) = Len(s) /\ Len(s) \in 1 .. Len(s)
      BY <1>2, <2>1
    <3> QED
      BY <1>2, <3>1 DEF Whole
  <2>2. CASE Len(g) # 0
    <3>1. Len(g) \in 1 .. Len(g)
      BY <1>1, <2>2
    <3> QED
      BY <1>2, <1>4, <2>2, <3>1
  <2> QED
    BY <2>1, <2>2
<1> QED
  BY <1>5, <1>6 DEF Whole, r

LEMMA Regroup ==
  ASSUME NEW x \in Nat, NEW s \in Seq(Nat), NEW q \in Seq(Nat)
  PROVE  <<x>> \o (s \o q) = (<<x>> \o s) \o q
<1>1. <<x>> \in Seq(Nat)
  OBVIOUS
<1> QED
  BY <1>1, ConcatAssociative

LEMMA WholeRest ==      \* the messages of a batch have left
  ASSUME NEW s \in Seq(Nat), s # <<>>, NEW q \in Seq(Nat), Whole(s \o q)
  PROVE  Whole(<<s[Len(s)]>> \o q)
<1> DEFINE a == s \o q
           r == <<s[Len(s)]>> \o q
           n == Len(s) - 1
<1>1. /\ n \in Nat /\ Len(a) = n + Len(r) /\ Len(r) \in Nat \ {0}
      /\ \A i \in 1 .. Len(r) : r[i] = a[n + i]
  OBVIOUS
<1>2. Whole(a)
  OBVIOUS
<1> HIDE DEF a, r, n
<1>3. ASSUME NEW i \in 1 .. Len(r) - 1 PROVE Follows(r[i], r[i + 1])
  <2>1. n + i \in 1 .. Len(a) - 1 /\ i \in 1 .. Len(r) /\ i + 1 \in 1 .. Len(r)
          /\ n + (i + 1) = (n + i) + 1
    BY <1>1
  <2>2. r[i] = a[n + i] /\ r[i + 1] = a[(n + i) + 1]
    BY <1>1, <2>1
  <2> QED
    BY <1>2, <2>1, <2>2 DEF Whole
<1>4. ~Unfinished(r[Len(r)])
  <2>1. Len(r) \in 1 .. Len(r) /\ n + Len(r) = Len(a)
    BY <1>1
  <2> QED
    BY <1>1, <1>2, <2>1 DEF Whole
<1> QED
  BY <1>3, <1>4 DEF Whole, r

-----------------------------------------------------------------------------
LEMMA LeavingTyped ==
  ASSUME RingInv
  PROVE  Queued(bip) \in Seq(Nat) /\ last \in Nat /\ Leaving \in Seq(Nat) /\ Leaving # <<>>
<1>1. Frame \subseteq Nat
  BY BipBufAssumption
<1>2. Queued(bip) \in Seq(Storable) /\ Storable \subseteq Frame
  BY QueuedTyped DEF RingInv, Storable, Queued
<1>3. Queued(bip) \in Seq(Nat)
  BY <1>1, <1>2, SeqMonotonic
<1>4. last \in Nat
  BY <1>1 DEF RingInv, NoFrame
<1> HIDE DEF RingInv
<1> QED
  BY <1>3, <1>4 DEF Leaving

LEMMA BatchIsHeld == Batch = Held(0, bip, slice, array)
BY DEF Batch, Array, Held, Current, Frames

LEMMA InitData == Init => RingInv /\ GroupInv
<1> SUFFICES ASSUME Init PROVE RingInv /\ GroupInv
  OBVIOUS
<1> USE Sizes0
<1>1. bip = NewFrame16BipBuf2 /\ slice = NoSlice /\ last = NoFrame
  BY DEF Init
<1>2. /\ bip.cap = 0 /\ bip.Sent = Prefix /\ bip.SendEnd = Prefix /\ bip.Write = Prefix
      /\ bip.TailEnd = 0 /\ bip.pendingGap = 0 /\ Start(bip) = Prefix
  BY <1>1 DEF NewFrame16BipBuf2, Start
<1>3. bip \in Ring
  BY <1>1 DEF NewFrame16BipBuf2, Ring
<1>4. Tiled(0, bip.Buf, Prefix, Prefix) /\ Frames(bip.Buf, Prefix, Prefix) = <<>>
  BY TiledEmpty, FramesEmpty DEF Frames
<1>5. RingOK(0, bip)
  BY <1>2, <1>3, <1>4 DEF RingOK, CapOK
<1>6. Queued(bip) = <<>>
  BY <1>2, <1>4 DEF Queued, QueuedBut, Frames, Start
<1>7. Leaving = <<NoFrame>>
  BY <1>1, <1>6 DEF Leaving
<1>8. ~Unfinished(NoFrame)
  <2>1. NoFrame \notin Frame
    BY BipBufAssumption DEF NoFrame
  <2>2. Chunks \subseteq Frame
    BY WriteBufAssumption DEF Chunks
  <2> QED
    BY <2>1, <2>2, EndsInChunk
<1>9. Whole(Leaving)
  BY <1>7, <1>8 DEF Whole
<1> QED
  BY <1>1, <1>5, <1>9 DEF RingInv, SliceIn, GroupInv

(* A push that closes the connection, now or already.                      *)
LEMMA ClosesIsNoticed ==
  ASSUME toClose' = CloseUnlessClosed, closer' = closer
  PROVE  GroupInv'
BY DEF CloseUnlessClosed, GroupInv

LEMMA PushMsgData ==
  ASSUME RingInv, GroupInv, NEW f \in Frame, PushMsg(f)
  PROVE  RingInv' /\ GroupInv' /\ Batch' = Batch
<1>1. slice' = slice /\ last' = last /\ closer' = closer /\ f \in Single
  BY DEF PushMsg
<1>2. CASE CanAlloc(bip, f)
  <2> DEFINE s == [bip |-> bip, array |-> array]
             r == Store(s, f)
  <2>1. bip' = r.bip /\ array' = r.array /\ toClose' = toClose
    BY <1>2 DEF PushMsg
  <2>2. s.bip = bip /\ s.array = array
    OBVIOUS
  <2> HIDE DEF s
  <2>3. RingOK(0, s.bip) /\ SliceIn(0, s.bip, slice, s.array) /\ CanAlloc(s.bip, f)
    BY <1>2, <2>2 DEF RingInv
  <2> HIDE DEF r
  <2>4. /\ RingOK(0, r.bip) /\ SliceIn(0, r.bip, slice, r.array)
        /\ Queued(r.bip) = Append(Queued(s.bip), f)
        /\ Held(0, r.bip, slice, r.array) = Held(0, s.bip, slice, s.array)
    BY <2>3, StorePushes DEF r
  <2>5. RingInv'
    BY <1>1, <2>1, <2>4 DEF RingInv
  <2>6. Batch' = Batch
    <3>1. Batch' = Held(0, bip', slice', array')
      BY DEF Batch, Array, Held, Current, Frames
    <3> QED
      BY <1>1, <2>1, <2>2, <2>4, <3>1, BatchIsHeld
  <2>7. Leaving' = Append(Leaving, f)
    <3>1. Queued(bip') = Append(Queued(bip), f)
      BY <2>1, <2>2, <2>4
    <3>2. Queued(bip) \in Seq(Nat) /\ last \in Nat /\ f \in Nat
      BY LeavingTyped, BipBufAssumption
    <3> QED
      BY <1>1, <3>1, <3>2 DEF Leaving
  <2>8. GroupInv'
    BY <1>1, <2>1, <2>7, LeavingTyped, WholeAppend DEF GroupInv
  <2> QED
    BY <2>5, <2>6, <2>8
<1>3. CASE ~CanAlloc(bip, f)
  <2>1. bip' = bip /\ array' = array /\ toClose' = CloseUnlessClosed
    BY <1>3 DEF PushMsg
  <2>2. GroupInv'
    BY <1>1, <2>1, ClosesIsNoticed
  <2> QED
    BY <1>1, <2>1, <2>2 DEF RingInv, Batch, Array, Current
<1> QED
  BY <1>2, <1>3

LEMMA PushMsgsAtomicData ==
  ASSUME RingInv, GroupInv, NEW g \in Group, PushMsgsAtomic(g)
  PROVE  RingInv' /\ GroupInv' /\ Batch' = Batch
<1> DEFINE k == IF TotalOf(g) > FreeForAlloc(bip) THEN 0 ELSE Stored(g)
           r == StoreFirst(g, k)
<1>0. g \in Seq(Frame) /\ Len(g) \in Nat
  BY WriteBufAssumption
<1>1. /\ slice' = slice /\ last' = last /\ closer' = closer
      /\ bip' = r.bip /\ array' = r.array
      /\ (k = Len(g) /\ toClose' = toClose) \/ (k < Len(g) /\ toClose' = CloseUnlessClosed)
  BY DEF PushMsgsAtomic
<1>2. k \in 0 .. Len(g) /\ \A i \in 1 .. k : CanAlloc(StoreFirst(g, i - 1).bip, g[i])
  <2>1. CASE TotalOf(g) > FreeForAlloc(bip)
    BY <1>0, <2>1
  <2>2. CASE ~(TotalOf(g) > FreeForAlloc(bip))
    BY <2>2, StoredFits
  <2> QED
    BY <2>1, <2>2
<1> HIDE DEF k
<1>3. Pushed(g, k, r)
  BY <1>2, StoreFirstPushes
<1> HIDE DEF r
<1>4. RingInv'
  BY <1>1, <1>3 DEF RingInv, Pushed
<1>5. Batch' = Batch
  <2>1. Batch' = Held(0, bip', slice', array')
    BY DEF Batch, Array, Held, Current, Frames
  <2> QED
    BY <1>1, <1>3, <2>1, BatchIsHeld DEF Pushed
<1>6. CASE k = Len(g) /\ toClose' = toClose
  <2>1. Queued(bip) \in Seq(Nat) /\ last \in Nat /\ Leaving \in Seq(Nat) /\ Leaving # <<>>
    BY LeavingTyped
  <2>2. g \in Seq(Nat)
    <3>1. Frame \subseteq Nat
      BY BipBufAssumption
    <3> QED
      BY <1>0, <3>1, SeqMonotonic
  <2>3. Queued(bip') = Queued(bip) \o g
    <3>1. SubSeq(g, 1, Len(g)) = g
      BY <2>2
    <3> QED
      BY <1>1, <1>3, <1>6, <3>1 DEF Pushed
  <2>4. Leaving' = Leaving \o g
    BY <1>1, <2>1, <2>2, <2>3 DEF Leaving
  <2> QED
    BY <1>1, <1>4, <1>5, <1>6, <2>1, <2>4, WholeGroup DEF GroupInv
<1>7. CASE toClose' = CloseUnlessClosed
  BY <1>1, <1>4, <1>5, <1>7, ClosesIsNoticed
<1> QED
  BY <1>1, <1>6, <1>7

LEMMA WriterTakeData ==
  ASSUME RingInv, GroupInv, NEW w \in Writer, WriterTake(w)
  PROVE  RingInv' /\ GroupInv'
<1> DEFINE t == TakeSendSlice(bip)
           frames == Frames(t.b.Buf, t.slice.from, t.slice.to)
<1>1. /\ bip' = t.b /\ slice' = t.slice /\ array' = <<>>
      /\ closer' = closer /\ toClose' = toClose
      /\ last' = IF t.slice = NoSlice THEN last ELSE frames[Len(frames)]
  BY DEF WriterTake, Current
<1>2. RingOK(0, bip)
  BY DEF RingInv
<1>3. /\ RingOK(0, t.b)
      /\ t.slice = NoSlice => Queued(bip) = <<>> /\ Queued(t.b) = <<>>
      /\ t.slice # NoSlice =>
           /\ Taken(0, t.b, t.slice)
           /\ Queued(bip) = Frames(t.b.Buf, t.b.Sent, t.b.SendEnd) \o Queued(t.b)
  BY <1>2, TakeRing DEF Queued, Frames
<1> HIDE DEF t
<1>4. CASE t.slice = NoSlice
  <2>1. last' = last /\ Leaving' = Leaving
    BY <1>1, <1>3, <1>4 DEF Leaving
  <2> QED
    BY <1>1, <1>3, <1>4, <2>1 DEF RingInv, GroupInv, SliceIn
<1>5. CASE t.slice # NoSlice
  <2>1. /\ t.slice.from = t.b.Sent /\ t.slice.to = t.b.SendEnd
        /\ t.b.Sent < t.b.SendEnd /\ Tiled(0, t.b.Buf, t.b.Sent, t.b.SendEnd)
        /\ MaxFramePayload > 0 => t.slice.to - t.slice.from <= MaxFramePayload
    BY <1>3, <1>5 DEF Taken
  <2>2. /\ t.b.Sent \in 0 .. MaxCap /\ t.b.SendEnd \in 0 .. MaxCap
        /\ t.b.Sent \in Nat /\ t.b.SendEnd \in Nat
    BY <1>3, RingFacts DEF RingOK
  <2>3. frames = Frames(t.b.Buf, t.b.Sent, t.b.SendEnd)
    BY <2>1
  <2>4. frames \in Seq(Storable) /\ frames # <<>>
    BY <2>1, <2>2, <2>3, FramesTyped DEF Frames
  <2>5. Queued(t.b) \in Seq(Storable) /\ Queued(bip) = frames \o Queued(t.b)
    BY <1>3, <1>5, <2>3, QueuedTyped DEF Queued
  <2> HIDE DEF frames
  <2>6. last' = frames[Len(frames)] /\ last' \in Storable
    BY <1>1, <1>5, <2>4
  <2>7. SliceIn(0, bip', slice', array')
    BY <1>1, <1>3, <1>5, <2>1, <2>2 DEF SliceIn
  <2>8. RingInv'
    BY <1>1, <1>3, <2>6, <2>7 DEF RingInv, Storable
  <2>9. Whole(Leaving) => Whole(Leaving')
    <3> DEFINE s == <<last>> \o frames
    <3>1. frames \in Seq(Nat) /\ Queued(t.b) \in Seq(Nat) /\ last \in Nat
      <4>1. Storable \subseteq Nat
        BY BipBufAssumption DEF Storable
      <4> QED
        BY <2>4, <2>5, <4>1, LeavingTyped
    <3>2. s \in Seq(Nat) /\ s # <<>> /\ s[Len(s)] = frames[Len(frames)]
      BY <2>4, <3>1
    <3>3. Leaving = s \o Queued(t.b)
      BY <2>5, <3>1, Regroup DEF Leaving
    <3> HIDE DEF s
    <3>4. Leaving' = <<s[Len(s)]>> \o Queued(t.b)
      BY <1>1, <2>6, <3>2 DEF Leaving
    <3> QED
      BY <3>1, <3>2, <3>3, <3>4, WholeRest
  <2> QED
    BY <1>1, <2>8, <2>9 DEF GroupInv
<1> QED
  BY <1>4, <1>5

LEMMA WrapOutside ==    \* header and trailer stay outside the batch
  ASSUME NEW buf, NEW s, s # NoSlice, s.from \in 0 .. MaxCap, s.to \in 0 .. MaxCap,
         Tiled(0, buf, s.from, s.to)
  PROVE  /\ Tiled(0, Wrap(buf, s), s.from, s.to)
         /\ Frames(Wrap(buf, s), s.from, s.to) = Frames(buf, s.from, s.to)
<1>1. s.from \in Nat /\ s.to \in Nat
  BY Sizes0
<1>2. ASSUME NEW i \in s.from .. s.to - 1 PROVE Wrap(buf, s)[i] = buf[i]
  <2>1. i \in 0 .. MaxCap - 1 /\ ~(i < s.from) /\ ~(s.to <= i)
    BY <1>1, Sizes0
  <2> QED
    BY <2>1 DEF Wrap, Fill
<1> QED
  BY <1>1, <1>2, SameCells DEF Frames

(* The header goes into free bytes, or into the array that grow left.      *)
LEMMA WriterHeaderData ==
  ASSUME RingInv, GroupInv, ScratchIsFree, NEW w \in Writer, WriterHeader(w)
  PROVE  RingInv' /\ GroupInv' /\ Batch' = Batch
<1>1. /\ slice' = slice /\ last' = last /\ closer' = closer /\ toClose' = toClose
      /\ pc[w] = "frame"
      /\ IF array = <<>>
         THEN bip' = [bip EXCEPT !.Buf = Wrap(@, slice)] /\ array' = array
         ELSE array' = Wrap(array, slice) /\ bip' = bip
  BY DEF WriterHeader, Current
<1>2. RingOK(0, bip) /\ SliceIn(0, bip, slice, array)
  BY DEF RingInv
<1>a. /\ bip \in Ring
      /\ bip.Sent \in 0 .. MaxCap /\ bip.SendEnd \in 0 .. MaxCap /\ bip.TailEnd \in Nat
      /\ bip.Sent \in Nat /\ bip.SendEnd \in Nat /\ bip.Write \in Nat
  BY <1>2, RingFacts DEF RingOK
<1>b. Batch' = Held(0, bip', slice', array') /\ Batch = Held(0, bip, slice, array)
  BY DEF Batch, Array, Held, Current, Frames
<1>3. CASE slice = NoSlice
  <2>1. array' = array
    BY <1>1, <1>3 DEF Wrap
  <2>2. bip' = bip
    <3>1. Wrap(bip.Buf, slice) = bip.Buf
      BY <1>3 DEF Wrap
    <3> QED
      BY <1>1, <1>a, <3>1 DEF Ring
  <2> QED
    BY <1>1, <1>b, <2>1, <2>2 DEF RingInv, GroupInv, Leaving
<1>4. CASE slice # NoSlice /\ array = <<>>
  <2>1. Taken(0, bip, slice) /\ slice.from = bip.Sent /\ slice.to = bip.SendEnd
    BY <1>2, <1>4 DEF SliceIn, Taken
  <2>2. bip.TailEnd # 0 => bip.Write + Prefix <= bip.Sent + 0
    BY <1>1, <1>4, <1>a, <2>1 DEF ScratchIsFree, Current
  <2>3. bip' = Wrapped(bip, slice)
    BY <1>1, <1>4, Zenon DEF Wrapped
  <2>4. /\ RingOK(0, bip') /\ Queued(bip') = Queued(bip) /\ Taken(0, bip', slice)
        /\ Frames(bip'.Buf, bip.Sent, bip.SendEnd) = Frames(bip.Buf, bip.Sent, bip.SendEnd)
    BY <1>2, <2>1, <2>2, <2>3, NoneShorter, WrapRing DEF Queued, Frames
  <2>5. SliceIn(0, bip', slice', array') /\ Held(0, bip', slice', array') = Held(0, bip, slice, array)
    BY <1>1, <1>2, <1>4, <2>1, <2>4 DEF SliceIn, Held, Frames
  <2> QED
    BY <1>1, <1>b, <2>4, <2>5 DEF RingInv, GroupInv, Leaving
<1>5. CASE slice # NoSlice /\ array # <<>>
  <2>1. array' = Wrap(array, slice) /\ bip' = bip
    BY <1>1, <1>5
  <2>2. array' # <<>>
    <3>1. 0 \in DOMAIN Wrap(array, slice)
      BY <1>5, Sizes0 DEF Wrap, Fill
    <3>2. DOMAIN <<>> = {}
      OBVIOUS
    <3> QED
      BY <2>1, <3>1, <3>2
  <2>3. /\ slice.from \in 0 .. MaxCap /\ slice.to \in 0 .. MaxCap /\ slice.from < slice.to
        /\ MaxFramePayload > 0 => slice.to - slice.from <= MaxFramePayload
        /\ Tiled(0, array, slice.from, slice.to)
    BY <1>2, <1>5 DEF SliceIn
  <2>4. /\ Tiled(0, array', slice.from, slice.to)
        /\ Frames(array', slice.from, slice.to) = Frames(array, slice.from, slice.to)
    BY <1>5, <2>1, <2>3, WrapOutside
  <2> QED
    BY <1>1, <1>2, <1>5, <1>b, <2>1, <2>2, <2>3, <2>4
    DEF RingInv, GroupInv, Leaving, SliceIn, Held, Frames
<1> QED
  BY <1>3, <1>4, <1>5

LEMMA DataStep ==
  ASSUME RingInv, GroupInv, ScratchIsFree, [Next]_vars
  PROVE  RingInv' /\ GroupInv'
<1>1. ASSUME NEW f \in Frame, PushMsg(f) PROVE RingInv' /\ GroupInv'
  BY <1>1, PushMsgData
<1>2. ASSUME NEW f \in Frame, PushTooLarge(f) PROVE RingInv' /\ GroupInv'
  BY <1>2, ClosesIsNoticed DEF PushTooLarge, bufVars, RingInv
<1>3. ASSUME NEW g \in Group, PushMsgsAtomic(g) PROVE RingInv' /\ GroupInv'
  BY <1>3, PushMsgsAtomicData
<1>4. ASSUME NEW w \in Writer, WriterTake(w) PROVE RingInv' /\ GroupInv'
  BY <1>4, WriterTakeData
<1>5. ASSUME NEW w \in Writer, WriterHeader(w) PROVE RingInv' /\ GroupInv'
  BY <1>5, WriterHeaderData
<1>6. ASSUME NEW w \in Writer, WriterSent(w) PROVE RingInv' /\ GroupInv'
  BY <1>6 DEF WriterSent, RingInv, GroupInv, SliceIn, Leaving
<1>7. ASSUME NEW w \in Writer, WriterBroken(w) \/ WriterCheck(w)
      PROVE  RingInv' /\ GroupInv'
  BY <1>7 DEF WriterBroken, WriterCheck, bufVars, RingInv, GroupInv, Leaving
<1>8. ASSUME NEW w \in Writer, WriterFailed(w) PROVE RingInv' /\ GroupInv'
  BY <1>8, ClosesIsNoticed DEF WriterFailed, bufVars, RingInv
<1>9. CASE Close \/ CloseMarkBroken \/ CloseRaw
  BY <1>9 DEF Close, CloseMarkBroken, CloseRaw, bufVars, RingInv, GroupInv, Leaving
<1>10. CASE UNCHANGED vars
  BY <1>10 DEF vars, bufVars, RingInv, GroupInv, Leaving
<1> QED
  BY <1>1, <1>2, <1>3, <1>4, <1>5, <1>6, <1>7, <1>8, <1>9, <1>10 DEF Next, WriterStep

-----------------------------------------------------------------------------
LEMMA NextData ==
  ASSUME WriterInv, NoLostWakeup, RingInv, GroupInv, ScratchIsFree, [Next]_vars
  PROVE  (WriterInv /\ NoLostWakeup /\ RingInv /\ GroupInv)'
BY NextPreserves, DataStep

(* Every variable keeps its type: the buffer never leaves its array, nor   *)
(* does what it hands out.                                                 *)
THEOREM TypeOKCorrect == Spec /\ []ScratchIsFree => []TypeOK
<1>1. WriterInv /\ RingInv => TypeOK
  <2> SUFFICES ASSUME WriterInv, RingInv PROVE TypeOK
    OBVIOUS
  <2>1. ControlTypeOK
    BY DEF WriterInv
  <2>2. /\ bip.Buf \in [0 .. MaxCap - 1 -> Frame \cup {Free, Header, Trailer}]
        /\ bip.cap \in 0 .. MaxCap
    BY RingFacts DEF RingInv, RingOK
  <2>3. slice.from \in 0 .. MaxCap /\ slice.to \in 0 .. MaxCap
    <3>1. CASE slice = NoSlice
      <4>1. slice.from = 0 /\ slice.to = 0
        BY <3>1 DEF NoSlice
      <4> QED
        BY <4>1, Sizes0
    <3>2. CASE slice # NoSlice
      BY <3>2 DEF RingInv, SliceIn
    <3> QED
      BY <3>1, <3>2
  <2>4. last \in Frame \cup {NoFrame}
    BY DEF RingInv
  <2> QED
    BY <2>1, <2>2, <2>3, <2>4 DEF TypeOK, ControlTypeOK
<1> QED
  BY InitWriterInv, InitData, NextData, <1>1, PTL DEF Spec

(* A group that is not stored completely, although FreeForAlloc had room   *)
(* for it, closes the connection; no other message comes between those of  *)
(* a group before.                                                         *)
THEOREM BrokenGroupClosesCorrect == Spec /\ []ScratchIsFree => []BrokenGroupCloses
<1>1. GroupInv => BrokenGroupCloses
  BY DEF GroupInv, Whole, GroupsUnbroken, BrokenGroupCloses
<1> QED
  BY InitWriterInv, InitData, NextData, <1>1, PTL DEF Spec

LEMMA BatchStep ==
  ASSUME WriterInv, RingInv, GroupInv, ScratchIsFree, Next, NEW w \in Writer,
         Sending(w), Sending(w)'
  PROVE  Batch' = Batch
<1>a. pc \in [Writer -> {"off", "lock", "check", "frame", "write"}]
  BY DEF WriterInv, ControlTypeOK
<1>b. \A v \in Writer : pc[v] # "off" => v = w
  BY DEF WriterInv, OneWriter, Active, Sending
<1>1. ASSUME NEW f \in Frame, PushMsg(f) PROVE Batch' = Batch
  BY <1>1, PushMsgData
<1>2. ASSUME NEW g \in Group, PushMsgsAtomic(g) PROVE Batch' = Batch
  BY <1>2, PushMsgsAtomicData
<1>3. ASSUME NEW v \in Writer, WriterHeader(v) PROVE Batch' = Batch
  BY <1>3, WriterHeaderData
<1>4. ASSUME NEW v \in Writer, WriterTake(v) PROVE FALSE
  <2>1. v = w /\ pc[w] = "lock"
    BY <1>4, <1>b DEF WriterTake
  <2> QED
    BY <2>1 DEF Sending
<1>5. ASSUME NEW v \in Writer, WriterSent(v) PROVE FALSE
  <2>1. v = w /\ pc' = [pc EXCEPT ![w] = "lock"]
    BY <1>5, <1>b DEF WriterSent, Again
  <2>2. pc'[w] = "lock"
    BY <1>a, <2>1
  <2> QED
    BY <2>2 DEF Sending
<1>6. CASE UNCHANGED bufVars
  BY <1>6 DEF bufVars, Batch, Array, Current
<1>7. \/ \E f \in Frame : PushMsg(f)
      \/ \E g \in Group : PushMsgsAtomic(g)
      \/ \E v \in Writer : WriterHeader(v) \/ WriterTake(v) \/ WriterSent(v)
      \/ UNCHANGED bufVars
  BY DEF Next, WriterStep, PushTooLarge, WriterBroken, WriterCheck, WriterFailed,
         Close, CloseMarkBroken, CloseRaw
<1> QED
  BY <1>1, <1>2, <1>3, <1>4, <1>5, <1>6, <1>7

(* While a batch is being sent nothing that is pushed changes it.          *)
THEOREM BatchKeptCorrect == Spec /\ []ScratchIsFree => BatchKept
<1>1. WriterInv /\ RingInv /\ GroupInv /\ ScratchIsFree /\ [Next]_vars
        => [\A w \in Writer : Sending(w) /\ Sending(w)' => UNCHANGED Batch]_vars
  BY BatchStep
<1> QED
  BY InitWriterInv, InitData, NextData, <1>1, PTL DEF Spec, BatchKept

(* What is sent is whole.                                                  *)
THEOREM MessagesWholeCorrect == Spec /\ []ScratchIsFree => []MessagesWhole
<1>1. RingInv => MessagesWhole
  <2> SUFFICES ASSUME RingInv, NEW i \in DOMAIN Batch PROVE Batch[i] # Free
    BY DEF MessagesWhole
  <2>1. SliceIn(0, bip, slice, array) /\ Batch = Held(0, bip, slice, array)
    BY BatchIsHeld DEF RingInv
  <2>2. slice # NoSlice
    <3>1. Batch = <<>> => DOMAIN Batch = {}
      OBVIOUS
    <3> QED
      BY <2>1, <3>1, NoSliceHeld
  <2>3. /\ slice.from \in 0 .. MaxCap /\ slice.to \in 0 .. MaxCap
        /\ IF array = <<>> THEN Taken(0, bip, slice) ELSE Tiled(0, array, slice.from, slice.to)
    BY <2>1, <2>2 DEF SliceIn
  <2>4. slice.from \in Nat /\ slice.to \in Nat
    BY <2>3, Sizes0
  <2>5. Tiled(0, IF array = <<>> THEN bip.Buf ELSE array, slice.from, slice.to)
    BY <2>3 DEF Taken
  <2>6. Batch \in Seq(Storable)
    BY <2>1, <2>4, <2>5, FramesTyped DEF Held
  <2>7. Batch[i] \in Storable
    BY <2>6
  <2> QED
    BY <2>7, StorableFacts
<1> QED
  BY InitWriterInv, InitData, NextData, <1>1, PTL DEF Spec

(* Where the layer below writes no header, no header can do damage.        *)
THEOREM NoHeaderNoDamage ==
  ASSUME Prefix = 0
  PROVE  Spec => []ScratchIsFree
<1>1. RingInv => ScratchIsFree
  <2> SUFFICES ASSUME RingInv, array = Current, slice # NoSlice, bip.TailEnd > 0
               PROVE  bip.Write + Prefix <= slice.from
    BY DEF ScratchIsFree
  <2>1. Taken(0, bip, slice) /\ RingOK(0, bip)
    BY DEF RingInv, SliceIn, Current
  <2>2. slice.from = bip.Sent
    BY <2>1 DEF Taken
  <2>3. bip.Write \in Nat /\ bip.TailEnd \in Nat
    BY <2>1, RingFacts DEF RingOK
  <2>4. bip.Write <= bip.Sent
    BY <2>1, <2>3 DEF RingOK
  <2> QED
    BY <2>2, <2>3, <2>4
<1> QED
  BY InitWriterInv, InitData, NextData, <1>1, PTL DEF Spec

=============================================================================
