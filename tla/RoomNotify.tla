----------------------------- MODULE RoomNotify -----------------------------
(***************************************************************************)
(* One room from end to end: the server's instance of it, the connection   *)
(* of one Go client that stays in the room, onRoomValue, and one listener. *)
(* The server restarts, connections break with values on the way, and the  *)
(* client connects again.                                                  *)
(*                                                                         *)
(* The parts are as their own modules show them: a server pushes the       *)
(* snapshot of a roomEnter and the fan-outs of changes in any order        *)
(* (RoomServer), a connection delivers a prefix of what was stored, where  *)
(* a group may be cut and other messages follow it until the connection is *)
(* closed (WriteBuf), a connected client enters its rooms (Client), and a  *)
(* listener is told of the latest of its events (Listener).  A readThread  *)
(* may be inside its handler when its connection is closed, and run on     *)
(* while the next connection delivers values.                              *)
(*                                                                         *)
(* RoomEpoch values are numbered in the order in which the server draws    *)
(* them; the code only tells them apart.  0 is the empty string.           *)
(***************************************************************************)
EXTENDS Naturals, Sequences

CONSTANTS MaxEpoch,         \* bound: instances of the room
          MaxSeq,           \* bound: ChangeSeq of an instance
          MaxConn,          \* bound: connections the client makes
          MaxCutEpoch       \* bound: instances in which a group may be cut

ASSUME RoomNotifyAssumption ==
  MaxEpoch \in Nat \ {0} /\ {MaxSeq, MaxConn, MaxCutEpoch} \subseteq Nat

VARIABLES
  server,       \* room_t.RoomEpoch and ChangeSeq
  member,       \* the connection is in room_t.connSet
  toSend,       \* what goroutines of the server are about to push
  toClose,      \* a group was cut: the server is about to close the connection
  link,         \* "open" or "cut", below the client's connection
  entering,     \* a roomEnter is on the way
  wire,         \* messages on the way to the client
  conn,         \* thisConn: "none", "open"
  dials,        \* connections made
  reassembleBuf,  \* client_conn.roomValueReassembleBuf
  handler,      \* the message the readThread of thisConn handles, in a set
  stale,        \* values readThreads of closed connections still handle
  known,        \* client_room_t.RoomEpoch and ChangeSeq
  newest,       \* the newest value known has had
  overtaken,    \* known is older, because a readThread in stale set it back
  calm,         \* the server has stopped changing, the network failing
  latest, told  \* events given to the listener, and the last it was told of

L == INSTANCE LatestEvent

serverVars == <<server, member, toSend, toClose>>
netVars == <<link, entering, wire>>
connVars == <<conn, dials, reassembleBuf, handler, stale>>
listenerVars == <<latest, told>>
roomVars == <<known, newest, overtaken>>
vars == <<serverVars, netVars, connVars, roomVars, calm, listenerVars>>

Value == [epoch : 0 .. MaxEpoch, seq : 0 .. MaxSeq]

IsOlder(v, w) == v.epoch < w.epoch \/ (v.epoch = w.epoch /\ v.seq < w.seq)

(* LiveData of a change: nothing, or more than one message can hold.       *)
(* isCut marks the part of a group whose rest was not stored.              *)
Chunk(v, i) == [value |-> v, number |-> i, isCut |-> FALSE]
CutChunk(v) == [value |-> v, number |-> 1, isCut |-> TRUE]
LiveDataOf(v) == <<Chunk(v, 1), Chunk(v, 2)>>

(* sendRoomValue, buildRoomValueChunks: the last message carries the value.*)
Group(send) ==
  LET msg(cmd, data) == [cmd |-> cmd, value |-> send.value, data |-> data]
  IN IF ~send.isBig THEN <<msg("roomValue", <<>>)>>
     ELSE <<msg("roomValueMore", <<Chunk(send.value, 1)>>),
            msg("roomValue", <<Chunk(send.value, 2)>>)>>

(* What is stored of a group that is cut.                                  *)
FirstPart(v) == [cmd |-> "roomValueMore", value |-> v, data |-> <<CutChunk(v)>>]

Data == Seq([value : Value, number : {1, 2}, isCut : BOOLEAN])
Msg == [cmd : {"roomValueMore", "roomValue"}, value : Value, data : Data]

TypeOK ==
  /\ server \in Value /\ known \in Value /\ newest \in Value
  /\ member \in BOOLEAN /\ toClose \in BOOLEAN /\ entering \in BOOLEAN
  /\ overtaken \in BOOLEAN /\ calm \in BOOLEAN
  /\ toSend \subseteq [value : Value, isBig : BOOLEAN]
  /\ wire \in Seq(Msg) /\ handler \subseteq Msg
  /\ stale \subseteq [value : Value, data : Data]
  /\ reassembleBuf \in Data
  /\ link \in {"open", "cut"} /\ conn \in {"none", "open"}
  /\ dials \in 0 .. MaxConn
  /\ latest \in Nat /\ told \in 0 .. latest

Init ==
  /\ server = [epoch |-> 1, seq |-> 0]
  /\ member = FALSE /\ toSend = {} /\ toClose = FALSE
  /\ link = "cut" /\ entering = FALSE /\ wire = <<>>
  /\ conn = "none" /\ dials = 0 /\ reassembleBuf = <<>>
  /\ handler = {} /\ stale = {}
  /\ known = [epoch |-> 0, seq |-> 0]
  /\ newest = known /\ overtaken = FALSE /\ calm = FALSE
  /\ L!Init

-----------------------------------------------------------------------------
(* The server.                                                             *)
SkipSnapshot == {}                                               \* fault
Snapshot == {[value |-> server, isBig |-> FALSE]}

DoRoomEnter ==
  /\ entering
  /\ entering' = FALSE
  /\ member' = TRUE
  /\ toSend' = toSend \cup Snapshot
  /\ UNCHANGED <<server, toClose, link, wire, connVars, roomVars, calm, listenerVars>>

FireChange(isBig) ==
  /\ ~calm
  /\ server.seq < MaxSeq
  /\ server' = [epoch |-> server.epoch, seq |-> server.seq + 1]
  /\ toSend' = toSend \cup {[value |-> server', isBig |-> isBig] : x \in {member} \ {FALSE}}
  /\ UNCHANGED <<member, toClose, netVars, connVars, roomVars, calm, listenerVars>>

Push ==
  \E send \in toSend :
    /\ toSend' = toSend \ {send}
    /\ wire' = wire \o Group(send)
    /\ UNCHANGED <<server, member, toClose, link, entering, connVars, roomVars, calm,
                   listenerVars>>

(* The buffer takes the first part of a group and is full then, so         *)
(* handlePushResult will close the connection.  Until it does other pushes *)
(* may find room for what they store.  (Where nothing of a push is stored  *)
(* it is as if Break came before it.)                                      *)
PushCut ==
  /\ ~calm
  /\ server.epoch <= MaxCutEpoch
  /\ \E send \in toSend :
       /\ send.isBig
       /\ toSend' = toSend \ {send}
       /\ wire' = Append(wire, FirstPart(send.value))
  /\ toClose' = TRUE
  /\ UNCHANGED <<server, member, link, entering, connVars, roomVars, calm, listenerVars>>

(* The connection is lost on the server's side or between the two.  What   *)
(* is on the wire may still arrive.                                        *)
Disconnect ==
  /\ link' = "cut"
  /\ entering' = FALSE /\ member' = FALSE /\ toSend' = {} /\ toClose' = FALSE

Break ==
  /\ ~calm \/ toClose
  /\ link = "open"
  /\ Disconnect
  /\ UNCHANGED <<server, wire, connVars, roomVars, calm, listenerVars>>

(* The server is started again; the room is created anew.                  *)
Restart ==
  /\ ~calm
  /\ server.epoch < MaxEpoch
  /\ server' = [epoch |-> server.epoch + 1, seq |-> 0]
  /\ Disconnect
  /\ UNCHANGED <<wire, connVars, roomVars, calm, listenerVars>>

-----------------------------------------------------------------------------
(* onRoomValue, with roomLock held.                                        *)
ByNumber(v) == v.seq > known.seq                                 \* fault
Anything(v) == TRUE                                              \* fault
IsNews(v) == v.epoch # known.epoch \/ v.seq > known.seq

OnRoomValue(v, isStale) ==
  /\ IF IsNews(v)
     THEN known' = v /\ L!Change
     ELSE UNCHANGED <<known, listenerVars>>
  /\ newest' = IF IsOlder(newest, known') THEN known' ELSE newest
  /\ overtaken' = /\ overtaken \/ (isStale /\ IsOlder(known', known))
                  /\ known' # newest'

(* The value, with its LiveData, that the readThread is about to pass on.  *)
Arriving ==
  {[value |-> m.value, data |-> reassembleBuf \o m.data] :
     m \in {n \in handler : n.cmd = "roomValue"}}

(* readThread found the connection not closed and calls onReadMsg.         *)
ReadMsg ==
  /\ conn = "open"
  /\ handler = {}
  /\ wire # <<>>
  /\ handler' = {Head(wire)}
  /\ wire' = Tail(wire)
  /\ UNCHANGED <<serverVars, link, entering, conn, dials, reassembleBuf, stale,
                 roomVars, calm, listenerVars>>

OnRoomValueMore ==
  \E msg \in handler :
    /\ msg.cmd = "roomValueMore"
    /\ reassembleBuf' = reassembleBuf \o msg.data
    /\ handler' = {}
    /\ UNCHANGED <<serverVars, netVars, conn, dials, stale, roomVars, calm, listenerVars>>

OnValue ==
  \E msg \in handler :
    /\ msg.cmd = "roomValue"
    /\ OnRoomValue(msg.value, FALSE)
    /\ reassembleBuf' = <<>>
    /\ handler' = {}
    /\ UNCHANGED <<serverVars, netVars, conn, dials, stale, calm>>

(* The same by a readThread whose connection was closed since.             *)
StaleOnValue ==
  \E msg \in stale :
    /\ OnRoomValue(msg.value, TRUE)
    /\ stale' = stale \ {msg}
    /\ UNCHANGED <<serverVars, netVars, conn, dials, reassembleBuf, handler, calm>>

(* The client closes its connection: the other side is gone, or it gives   *)
(* the connection up (a read time-out).  A handler goes on.                *)
Close ==
  /\ conn = "open"
  /\ link = "cut" \/ ~calm
  /\ conn' = "none"
  /\ stale' = stale \cup Arriving
  /\ handler' = {}
  /\ Disconnect
  /\ wire' = <<>>
  /\ UNCHANGED <<server, dials, reassembleBuf, roomVars, calm, listenerVars>>

(* A connection is made and approved, its roomEnter written.               *)
KeepBuf == reassembleBuf                                         \* fault
NewBuf == <<>>

Connect ==
  /\ conn = "none"
  /\ dials < MaxConn
  /\ dials' = dials + 1
  /\ conn' = "open"
  /\ link' = "open"
  /\ entering' = TRUE
  /\ reassembleBuf' = NewBuf
  /\ UNCHANGED <<serverVars, wire, handler, stale, roomVars, calm, listenerVars>>

(* From now on nothing changes or fails.  One more connection can be made, *)
(* so it is not MaxConn that keeps the client away.                        *)
CalmDown ==
  /\ ~calm
  /\ dials < MaxConn
  /\ calm' = TRUE
  /\ UNCHANGED <<serverVars, netVars, connVars, roomVars, listenerVars>>

Listens ==
  /\ L!Tell
  /\ UNCHANGED <<serverVars, netVars, connVars, roomVars, calm>>

-----------------------------------------------------------------------------
Next ==
  \/ DoRoomEnter \/ Push \/ PushCut \/ Break \/ Restart
  \/ \E isBig \in BOOLEAN : FireChange(isBig)
  \/ ReadMsg \/ OnRoomValueMore \/ OnValue \/ StaleOnValue
  \/ Close \/ Connect \/ CalmDown \/ Listens

Spec == Init /\ [][Next]_vars

(* Goroutines run on, one whose group was cut closes the connection, which *)
(* delivers while it lasts, and the client notices in the end that it is   *)
(* gone and connects again.                                                *)
FairSpec ==
  /\ Spec
  /\ WF_vars(DoRoomEnter) /\ WF_vars(Push) /\ WF_vars(toClose /\ Break)
  /\ WF_vars(ReadMsg) /\ WF_vars(OnRoomValueMore) /\ WF_vars(OnValue)
  /\ WF_vars(StaleOnValue)
  /\ WF_vars(Close) /\ WF_vars(Connect)
  /\ WF_vars(Listens)

-----------------------------------------------------------------------------
(* Once everything sent has been handled, a member knows the server's      *)
(* value: no change falls between snapshot and fan-out, into a break, or   *)
(* behind a restart that began to count at 0 again.  (But see overtaken.)  *)
Quiet == member /\ ~toClose /\ toSend = {} /\ wire = <<>> /\ handler = {}

QuietIsCurrent == Quiet => newest = server /\ (known = newest \/ overtaken)

(* What the room knows never gets older, in whatever order concurrent      *)
(* fan-outs are pushed; only a readThread that outlived its connection     *)
(* sets it back, by an epoch it takes for a new one.                       *)
NeverGoesBack ==
  [][IsOlder(known', known) => stale' # stale /\ known'.epoch < known.epoch]_known

(* The LiveData that reaches onRoomValue with a value is the one of its    *)
(* change, complete, or empty: chunks of different changes or connections  *)
(* never mix.  Only the first parts of groups that were cut may come       *)
(* before it, as long as the server has not closed their connection.       *)
Follows(data, own) ==   \* data is some cut parts, then own
  LET n == Len(data) - Len(own)
  IN /\ n >= 0
     /\ \A i \in 1 .. n : data[i].isCut
     /\ \A i \in 1 .. Len(own) : data[n + i] = own[i]

LiveDataIntact ==
  \A event \in Arriving \cup stale :
    \E own \in {<<>>, LiveDataOf(event.value)} : Follows(event.data, own)

(* The aim of doc/deliveryGuarantee.md:66: once the network stays up and   *)
(* both sides run, the client ends at the newest state of the room, after  *)
(* any number of breaks and restarts, and its listener was told of it.     *)
Converges == calm ~> /\ Quiet /\ newest = server /\ told = latest
                     /\ known = newest \/ overtaken

=============================================================================
