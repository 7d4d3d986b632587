---------------------------- MODULE LatestEvent ----------------------------
(***************************************************************************)
(* What a listener is promised: it is told of changes in their order,      *)
(* possibly not of all, possibly of one more than once, and of the last    *)
(* one in any case.                                                        *)
(***************************************************************************)
EXTENDS Naturals

VARIABLES latest,     \* number of the last change
          told        \* the change the callback was called for last

Init == latest = 0 /\ told = 0

Change == latest' = latest + 1 /\ told' = told

Tell == told < latest /\ told' \in told + 1 .. latest /\ latest' = latest

Next == Change \/ Tell

Safety == Init /\ [][Next]_<<latest, told>>

Spec == Safety /\ WF_<<latest, told>>(Tell)

=============================================================================
