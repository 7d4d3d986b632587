------------------------------ MODULE OneShot -------------------------------
(***************************************************************************)
(* What a Timer promises: the callback runs once for the newest After, not *)
(* before its time and not before there is a callback, and not after Stop. *)
(***************************************************************************)
EXTENDS Integers

CONSTANT Dur
VARIABLES now, hasFn, due, stopped, runs

Never == -1

Init == now = 0 /\ hasFn = FALSE /\ due = Never /\ stopped = FALSE /\ runs = 0

SetFn == hasFn' = TRUE /\ UNCHANGED <<now, due, stopped, runs>>
After == /\ \E d \in Dur : due' = now + d
         /\ stopped' = FALSE /\ UNCHANGED <<now, hasFn, runs>>
Stop == due' = Never /\ stopped' = TRUE /\ UNCHANGED <<now, hasFn, runs>>
Fire == /\ hasFn /\ due # Never /\ due <= now
        /\ due' = Never /\ runs' = runs + 1 /\ UNCHANGED <<now, hasFn, stopped>>
Pass == now' = now + 1 /\ UNCHANGED <<hasFn, due, stopped, runs>>

Next == SetFn \/ After \/ Stop \/ Fire \/ Pass

Spec == Init /\ [][Next]_<<now, hasFn, due, stopped, runs>>

=============================================================================
