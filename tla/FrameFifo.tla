----------------------------- MODULE FrameFifo -----------------------------
(***************************************************************************)
(* What the ring buffer promises its two users: frames leave in the order  *)
(* in which they were stored, in batches of whole frames, none is lost,    *)
(* and a batch that was handed out does not change until the next one is   *)
(* asked for.                                                              *)
(***************************************************************************)
EXTENDS Sequences

CONSTANT Frame

VARIABLES queue,   \* frames stored and not handed out yet
          batch    \* the batch handed out last

Init == queue = <<>> /\ batch = <<>>

Push(f) == /\ queue' = Append(queue, f)
           /\ UNCHANGED batch

(* Hand out some frames from the front: at least one, if there is any.     *)
Take == /\ queue = batch' \o queue'
        /\ queue # <<>> => batch' # <<>>

Next == Take \/ \E f \in Frame : Push(f)

Spec == Init /\ [][Next]_<<queue, batch>>

=============================================================================
