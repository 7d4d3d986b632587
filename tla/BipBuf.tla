------------------------------- MODULE BipBuf -------------------------------
(***************************************************************************)
(* The ring buffer driven by one goroutine, as its tests drive it.  The    *)
(* reader either takes batches, and sends each one, header and trailer     *)
(* written, before the next call, or it pops single frames.                *)
(***************************************************************************)
EXTENDS Frame16BipBuf2

VARIABLES bip,    \* the buffer
          slice,  \* the slice handed out last
          array,  \* the array the slice points into, once grow replaced Buf
          reader  \* which of the two calls the reader uses

vars == <<bip, slice, array, reader>>

Current == <<>>   \* array: still the one in bip.Buf

(* What the next header may overwrite is no part of a frame here.          *)
Stored == QueuedBut(Reach, bip)
SliceFrames ==
  FramesBut(Reach, IF array = Current THEN bip.Buf ELSE array, slice.from, slice.to)

Init == /\ bip = NewFrame16BipBuf2
        /\ slice = NoSlice
        /\ array = Current
        /\ reader \in {"take", "pop"}

(* Frames of one size are alike: the first one not in use stands for all.  *)
Spare == {f \in Frame : /\ \A i \in DOMAIN Stored : Stored[i] # f
                        /\ \A i \in DOMAIN SliceFrames : SliceFrames[i] # f}

(* When grow replaces the array, the slice keeps the old one (OldBuf).     *)
Alloc(f) ==
  /\ f \in Spare
  /\ \A g \in Spare : Total[g] = Total[f] => f <= g
  /\ CanAlloc(bip, f)
  /\ bip' = AllocFrame(bip, f)
  /\ array' = IF array = Current /\ slice # NoSlice /\ AllocGrows(bip, f)
              THEN Kept(bip.Buf, slice) ELSE array
  /\ UNCHANGED <<slice, reader>>

Take ==
  /\ reader = "take"
  /\ LET t == TakeSendSlice(bip)
     IN /\ bip' = [t.b EXCEPT !.Buf = Wrap(@, t.slice)]
        /\ slice' = t.slice
        /\ array' = Current
  /\ UNCHANGED reader

(* A popped frame is only valid until the buffer is used again (its cells  *)
(* are free at once), so its reader has copied it: array is that copy.     *)
Pop ==
  /\ reader = "pop"
  /\ LET t == PopReadFrame(bip)
     IN /\ bip' = [t.b EXCEPT !.Buf = Fill(@, t.slice.from, t.slice.to, Free)]
        /\ slice' = t.slice
        /\ array' = IF t.slice = NoSlice THEN Current ELSE Kept(bip.Buf, t.slice)
  /\ UNCHANGED reader

Next == Take \/ Pop \/ \E f \in Frame : Alloc(f)

Spec == Init /\ [][Next]_vars

-----------------------------------------------------------------------------
TypeOK ==
  /\ bip.Buf \in [0 .. MaxCap - 1 -> Frame \cup {Free, Header, Trailer}]
  /\ bip.cap \in 0 .. MaxCap
  /\ {bip.Sent, bip.SendEnd, bip.Write} \subseteq 0 .. MaxCap
  /\ bip.TailEnd \in 0 .. MaxCap
  /\ bip.pendingGap \in {0, Suffix}

(* The cursors stay in order, inside the array and above the prefix, with  *)
(* room for a header before whatever is handed out next; of a wrapped      *)
(* buffer the lower part ends before the batch that is being sent.         *)
CursorsOK ==
  /\ Prefix <= bip.Sent /\ bip.Sent <= bip.SendEnd
  /\ bip.cap > 0 => bip.Write <= bip.cap /\ bip.TailEnd <= bip.cap
  /\ IF bip.TailEnd = 0 THEN bip.SendEnd + bip.pendingGap <= bip.Write
     ELSE /\ bip.SendEnd + bip.pendingGap <= bip.TailEnd
          /\ bip.Write <= bip.Sent

(* A batch is never larger than a message of the layer below may be.       *)
BatchFits == MaxFramePayload > 0 => slice.to - slice.from <= MaxFramePayload

(* What Frame16BipBuf2.go:8-10 says of the bytes a header is written into: *)
(* they end a batch that was sent, so no frame that is stored is damaged.  *)
StoredIntact == \A i \in DOMAIN Queued(bip) : Queued(bip)[i] # Free

(* The buffer is a first-in first-out queue of frames: growing, wrapping,  *)
(* headers and trailers neither lose nor reorder a frame that is stored,   *)
(* nor do they change the batch that was handed out.  They damage none     *)
(* either, but for the Reach cells at its end (see StoredIntact), and its  *)
(* length is not among them.                                               *)
Fifo == INSTANCE FrameFifo WITH queue <- Stored, batch <- SliceFrames
IsFifo == Fifo!Spec

=============================================================================
