---------------------------- MODULE MCRoomServer ----------------------------
EXTENDS RoomServer, TLC

Symmetric == Permutations(Conn) \cup Permutations(Room) \cup Permutations(Firer)

(* One caller at a time and one change of each room instance, or, in one   *)
(* instance of one room, every caller and change there is.                 *)
Busy == {f \in Firer : fan[f] # NoFan}
InUse == ({worker[c].room : c \in Conn} \cup {roomOf[e] : e \in Epoch}) \ {NoRoom}
Narrow ==
  \/ Cardinality(Busy') <= 1 /\ \A e \in Epoch : changeSeq'[e] <= 1
  \/ Cardinality(InUse') <= 1 /\ lastEpoch' <= 1

MCNext == Next /\ Narrow
MCSpec == Init /\ [][MCNext]_vars

=============================================================================
