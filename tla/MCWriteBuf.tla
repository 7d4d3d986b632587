----------------------------- MODULE MCWriteBuf -----------------------------
EXTENDS WriteBuf

(* One LiveData in two chunks; the other frames are messages of their own. *)
MCGroup == {<<1, 2>>}
(* Frame 7 is larger than a batch may be.                                  *)
MCTotal == [f \in Frame |-> IF f = 7 THEN 9 ELSE IF f % 2 = 1 THEN 3 ELSE 4]

=============================================================================
