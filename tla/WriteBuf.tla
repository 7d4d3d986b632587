------------------------------ MODULE WriteBuf ------------------------------
(***************************************************************************)
(* server_conn_write_buf_t: the write buffer of one server connection.     *)
(* Any goroutine pushes messages under mu; a writer goroutine is started   *)
(* on demand, takes batches under mu and sends them without it, and ends   *)
(* when the buffer is empty or the connection is broken.                   *)
(*                                                                         *)
(* A step is one critical section of mu, or one of the steps the writer    *)
(* makes between two of them: asking the closer, writing the websocket     *)
(* header in front of the batch, sending.  The sizes of messages are those *)
(* of their frames (Total); a group is a LiveData that was cut into        *)
(* roomValueMore ... roomValue messages.                                   *)
(***************************************************************************)
EXTENDS Frame16BipBuf2

CONSTANTS Writer,       \* writeLoop goroutines that may exist
          Group         \* sequences of frames that are pushed as one

(* Every chunk is a message of its own.                                    *)
ASSUME WriteBufAssumption ==
  /\ Writer # {}
  /\ Group \subseteq Seq(Frame)
  /\ \A g, h \in Group : \A i \in DOMAIN g, j \in DOMAIN h :
       g[i] = h[j] => g = h /\ i = j

VARIABLES
  bip,            \* bipBuf
  slice,          \* fb.Buf: what the writer sends
  array,          \* the array it points into, once grow replaced bip.Buf
  last,           \* the frame that was handed to the writer last
  writerRunning,
  isBroken,
  pc,             \* of every writeLoop
  closer,         \* how far closing the connection has come
  toClose         \* some goroutine is on its way to closer.Close2

bufVars == <<bip, slice, array, last>>
vars == <<bufVars, writerRunning, isBroken, pc, closer, toClose>>

Current == <<>>       \* array: still bip.Buf
NoFrame == 0

Chunks == UNION {{g[i] : i \in DOMAIN g} : g \in Group}
Single == Frame \ Chunks

Array == IF array = Current THEN bip.Buf ELSE array
Batch == Frames(Array, slice.from, slice.to)

Init ==
  /\ bip = NewFrame16BipBuf2
  /\ slice = NoSlice
  /\ array = Current
  /\ last = NoFrame
  /\ writerRunning = FALSE
  /\ isBroken = FALSE
  /\ pc = [w \in Writer |-> "off"]
  /\ closer = "open"
  /\ toClose = FALSE

-----------------------------------------------------------------------------
(* Frames that are stored or being sent have the contents of one message.  *)
InUse == {Queued(bip)[i] : i \in DOMAIN Queued(bip)}
           \cup {Batch[i] : i \in DOMAIN Batch} \cup {last}

(* The buffer and the array of the batch after one more AllocFrame.        *)
Store(s, f) ==
  [bip |-> AllocFrame(s.bip, f),
   array |-> IF s.array = Current /\ slice # NoSlice /\ AllocGrows(s.bip, f)
             THEN Kept(s.bip.Buf, slice) ELSE s.array]

StoreFirst(g, k) ==
  LET after[i \in 0 .. Len(g)] == IF i = 0 THEN [bip |-> bip, array |-> array]
                                  ELSE Store(after[i - 1], g[i])
  IN after[k]

(* go wb.writeLoop(), unless one runs.                                     *)
EnsureWriter ==
  \/ /\ writerRunning
     /\ UNCHANGED <<writerRunning, pc>>
  \/ /\ ~writerRunning
     /\ writerRunning' = TRUE
     /\ \E w \in Writer : /\ pc[w] = "off"
                          /\ pc' = [pc EXCEPT ![w] = "lock"]

IgnoreBroken == TRUE                                             \* fault
Accepts == ~isBroken

(* handlePushResult: a message that is not stored closes the connection.   *)
DropQuietly == toClose                                           \* fault
CloseUnlessClosed == toClose \/ closer = "open"

(* The size of a message is looked at before anything else.                *)
PushTooLarge(f) ==
  /\ TooLarge(f)
  /\ toClose' = CloseUnlessClosed
  /\ UNCHANGED <<bufVars, writerRunning, isBroken, pc, closer>>

PushMsg(f) ==
  /\ f \in Single \ InUse
  /\ ~TooLarge(f)
  /\ \A g \in Single \ InUse : Total[g] = Total[f] => f <= g
  /\ Accepts
  /\ IF CanAlloc(bip, f)
     THEN /\ bip' = Store([bip |-> bip, array |-> array], f).bip
          /\ array' = Store([bip |-> bip, array |-> array], f).array
          /\ EnsureWriter
          /\ UNCHANGED toClose
     ELSE /\ toClose' = CloseUnlessClosed
          /\ UNCHANGED <<bip, array, writerRunning, pc>>
  /\ UNCHANGED <<slice, last, isBroken, closer>>

(* pushMsgsAtomic                                                          *)
TotalOf(g) ==
  LET sum[i \in 0 .. Len(g)] == IF i = 0 THEN 0 ELSE sum[i - 1] + Total[g[i]]
  IN sum[Len(g)]

Stored(g) ==     \* how many of its frames are stored
  CHOOSE k \in 0 .. Len(g) :
    /\ \A i \in 1 .. k : CanAlloc(StoreFirst(g, i - 1).bip, g[i])
    /\ k = Len(g) \/ ~CanAlloc(StoreFirst(g, k).bip, g[k + 1])

PushMsgsAtomic(g) ==
  /\ \A i \in DOMAIN g : g[i] \notin InUse /\ ~TooLarge(g[i])
  /\ Accepts
  /\ LET k == IF TotalOf(g) > FreeForAlloc(bip) THEN 0 ELSE Stored(g)
     IN /\ bip' = StoreFirst(g, k).bip
        /\ array' = StoreFirst(g, k).array
        /\ \/ /\ k = Len(g)
              /\ EnsureWriter
              /\ UNCHANGED toClose
           \/ /\ k < Len(g)
              /\ toClose' = CloseUnlessClosed
              /\ UNCHANGED <<writerRunning, pc>>
  /\ UNCHANGED <<slice, last, isBroken, closer>>

-----------------------------------------------------------------------------
(* writeLoop                                                               *)
Stop(w) == pc' = [pc EXCEPT ![w] = "off"]

StayRunning == writerRunning                                     \* fault
RunningAfterStop == FALSE

WriterTake(w) ==
  /\ pc[w] = "lock"
  /\ ~isBroken
  /\ LET t == TakeSendSlice(bip)
         frames == Frames(t.b.Buf, t.slice.from, t.slice.to)
     IN /\ bip' = t.b
        /\ slice' = t.slice
        /\ array' = Current
        /\ IF t.slice = NoSlice
           THEN /\ writerRunning' = RunningAfterStop
                /\ Stop(w)
                /\ UNCHANGED last
           ELSE /\ last' = frames[Len(frames)]
                /\ pc' = [pc EXCEPT ![w] = "check"]
                /\ UNCHANGED writerRunning
  /\ UNCHANGED <<isBroken, closer, toClose>>

WriterBroken(w) ==
  /\ pc[w] = "lock"
  /\ isBroken
  /\ writerRunning' = FALSE
  /\ Stop(w)
  /\ UNCHANGED <<bufVars, isBroken, closer, toClose>>

MarkBroken == isBroken' = TRUE /\ writerRunning' = FALSE

WriterCheck(w) ==
  /\ pc[w] = "check"
  /\ IF closer = "open"
     THEN /\ pc' = [pc EXCEPT ![w] = "frame"]
          /\ UNCHANGED <<isBroken, writerRunning>>
     ELSE MarkBroken /\ Stop(w)
  /\ UNCHANGED <<bufVars, closer, toClose>>

(* WriteFrame puts the header right before the payload, in whatever array  *)
(* the slice points into ...                                               *)
WriterHeader(w) ==
  /\ pc[w] = "frame"
  /\ pc' = [pc EXCEPT ![w] = "write"]
  /\ IF array = Current
     THEN bip' = [bip EXCEPT !.Buf = Wrap(@, slice)] /\ UNCHANGED array
     ELSE array' = Wrap(array, slice) /\ UNCHANGED bip
  /\ UNCHANGED <<slice, last, writerRunning, isBroken, closer, toClose>>

(* ... and sends both with one write to the socket; then it looks again.   *)
EndLoop == "off"                                                 \* fault
Again == "lock"

WriterSent(w) ==
  /\ pc[w] = "write"
  /\ closer # "shut"
  /\ pc' = [pc EXCEPT ![w] = Again]
  /\ slice' = NoSlice
  /\ array' = Current
  /\ UNCHANGED <<bip, last, writerRunning, isBroken, closer, toClose>>

WriterFailed(w) ==
  /\ pc[w] = "write"
  /\ MarkBroken
  /\ Stop(w)
  /\ toClose' = CloseUnlessClosed
  /\ UNCHANGED <<bufVars, closer>>

-----------------------------------------------------------------------------
(* Close2, by a goroutine above, or by the read loop or a timer.           *)
Close ==
  /\ closer = "open"
  /\ closer' = "closing"
  /\ toClose' = FALSE
  /\ UNCHANGED <<bufVars, writerRunning, isBroken, pc>>

(* The close callback: markBroken, then raw.Close.                         *)
CloseMarkBroken ==
  /\ closer = "closing"
  /\ closer' = "broken"
  /\ MarkBroken
  /\ UNCHANGED <<bufVars, pc, toClose>>

CloseRaw ==
  /\ closer = "broken"
  /\ closer' = "shut"
  /\ UNCHANGED <<bufVars, writerRunning, isBroken, pc, toClose>>

-----------------------------------------------------------------------------
WriterStep(w) ==
  \/ WriterTake(w)
  \/ WriterBroken(w)
  \/ WriterCheck(w)
  \/ WriterHeader(w)
  \/ WriterSent(w)
  \/ WriterFailed(w)

Next ==
  \/ \E f \in Frame : PushMsg(f) \/ PushTooLarge(f)
  \/ \E g \in Group : PushMsgsAtomic(g)
  \/ \E w \in Writer : WriterStep(w)
  \/ Close
  \/ CloseMarkBroken
  \/ CloseRaw

Spec == Init /\ [][Next]_vars

(* A writer goroutine runs until it ends, and a goroutine on its way to    *)
(* Close2 arrives there.  That a write to the socket returns is the work   *)
(* of the peer, or of the read timeout, which closes the socket.           *)
Fairness ==
  /\ \A w \in Writer : WF_vars(WriterStep(w))
  /\ WF_vars(toClose /\ Close)
  /\ WF_vars(CloseMarkBroken)
  /\ WF_vars(CloseRaw)

FairSpec == Spec /\ Fairness

-----------------------------------------------------------------------------
TypeOK ==
  /\ bip.Buf \in [0 .. MaxCap - 1 -> Frame \cup {Free, Header, Trailer}]
  /\ bip.cap \in 0 .. MaxCap
  /\ {slice.from, slice.to} \subseteq 0 .. MaxCap
  /\ last \in Frame \cup {NoFrame}
  /\ {writerRunning, isBroken, toClose} \subseteq BOOLEAN
  /\ pc \in [Writer -> {"off", "lock", "check", "frame", "write"}]
  /\ closer \in {"open", "closing", "broken", "shut"}

(* At most one writeLoop exists, also while the connection is being closed *)
(* and writerRunning is reset under a writer that still sends: batches are *)
(* sent one at a time, and fb has one user.                                *)
Active(w) == pc[w] # "off"
OneWriter == \A v, w \in Writer : Active(v) /\ Active(w) => v = w

(* While the connection is in order, stored messages have a writer that    *)
(* will look at the buffer again: the push that finds writerRunning set    *)
(* and the writer that finds the buffer empty do not miss each other.      *)
InOrder == closer = "open" /\ ~toClose /\ ~isBroken
Drained == TakeSendSlice(bip).slice = NoSlice
NoLostWakeup == InOrder /\ ~Drained => \E w \in Writer : Active(w)

(* pushMsgsAtomic (02server_write_buf.go:57-60) says that no other message *)
(* comes between those of a group: in the order in which the messages      *)
(* leave, a chunk is followed by the next one of its group.                *)
Follows(x, y) ==
  x \in Chunks /\ y # NoFrame =>
    \A g \in Group : \A i \in DOMAIN g :
      g[i] = x /\ i < Len(g) => y = g[i + 1]
Leaving == <<last>> \o Queued(bip)
GroupsUnbroken == \A i \in 1 .. Len(Leaving) - 1 : Follows(Leaving[i], Leaving[i + 1])

(* A group that was not stored completely never goes unnoticed: whoever    *)
(* pushed it is about to close the connection, or that has begun.          *)
BrokenGroupCloses == GroupsUnbroken \/ toClose \/ closer # "open"

(* What goes to the socket is what was pushed (Frame16BipBuf2.go:8-10:     *)
(* the header goes into bytes that are free to be overwritten): when the   *)
(* batch is sent its header and its messages are whole.                    *)
HeaderWhole == \A i \in slice.from - Prefix .. slice.from - 1 : Array[i] = Header
MessagesWhole == \A i \in DOMAIN Batch : Batch[i] # Free
BatchIntact == \A w \in Writer : pc[w] = "write" => HeaderWhole /\ MessagesWhole

(* The messages of a batch stay as they were taken until it was sent,      *)
(* though mu is free meanwhile and pushes store, wrap and grow: the three  *)
(* cursors, and OldBuf, keep them off its bytes.                           *)
Sending(w) == pc[w] \in {"check", "frame", "write"}
BatchKept == [][\A w \in Writer : Sending(w) /\ Sending(w)' => UNCHANGED Batch]_vars

(* A stored message leaves the buffer, unless the connection breaks.       *)
EventuallySent ==
  \A f \in Frame :
    (\E i \in DOMAIN Queued(bip) : Queued(bip)[i] = f)
      ~> (isBroken \/ \A i \in DOMAIN Queued(bip) : Queued(bip)[i] # f)

=============================================================================
