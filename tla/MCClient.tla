------------------------------ MODULE MCClient ------------------------------
EXTENDS Client

(* Two callers and one room, or, with hasOnDenyFn, one caller and two      *)
(* rooms.  Only what the application begins is narrowed.                   *)
First == CHOOSE a \in Caller : TRUE
InUse == roomMap \cup roomIdReqSet \cup sent \cup {msg.room : msg \in todo}
Begins == \/ \E a \in Caller : caller[a] = Idle /\ caller'[a] # Idle
          \/ roomMap' # roomMap
Narrow ==
  \/ ~Begins
  \/ Cardinality(InUse') <= 1
  \/ hasOnDenyFn /\ \A a \in Caller \ {First} : caller'[a] = Idle

MCNext == Next /\ Narrow
MCSpec == Init /\ [][MCNext]_vars /\ Fairness

=============================================================================
