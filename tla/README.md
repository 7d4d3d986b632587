# hgmRoomNotify in TLA+

hgmRoomNotify tells clients that something about a *room* has changed. A server
process keeps, for every room, a counter (`ChangeSeq`, valid within a
`RoomEpoch`) and the connections that entered it; `FireChange` raises the
counter and sends it to all of them. The library promises that a client that
stays (or comes back) online learns of the *last* change of every room it has
entered; single messages may be merged or lost.

This directory holds the specifications of that mechanism, the TLC models that
check them on small instances, and machine-checked proofs of the properties
that matter most. Line numbers refer to the Go source beside it.

    tlc -workers 4 -config RoomServer_rooms.cfg MCRoomServer.tla
    tlapm RoomServerProofs.tla

## 1. The system

| component | source | state | operations | talks to |
| --- | --- | --- | --- | --- |
| room table | `02server.go`, `02server_auth.go` | `roomMap`, `room_t{connSet, ChangeSeq, emptyTime}`, `server_conn_t{roomMap, isStopRoomEnter}`, all under `roomMapLock` | `doRoomEnter`, `doRoomLeave`, `FireChange`, `deleteAllFromAllRoom__NOLOCK`, `_cleanEmptyRooms`, `GetSnapshot` | pushes into write buffers; called by connection goroutines and the application |
| connection life cycle, authentication | `02server.go`, `02server_auth.go` | `sessionIdToConnListMap`, `registeredKeys`, `cmdCh`, timers, `connApproved`, `closeSent` | `ServeHTTP`, `cmdLoop`, `handleIdentityAuth`, `closeConn`, `CloseConnBySessionId` | room table, write buffer |
| write buffer | `02server_write_buf.go`, `02server_room_value.go` | ring buffer, `writerRunning`, `isBroken` under `mu` | `pushMsg`, `pushMsgsAtomic`, `writeLoop`, `markBroken` | ring buffer, websocket, closer |
| ring buffer | `pkg/zlibChannel/Frame16BipBuf2.go` | `Buf`, the cursors `Sent`, `SendEnd`, `Write`, `TailEnd`, `pendingGap` | `AllocFrame`, `FreeForAlloc`, `TakeSendSlice`, `PopReadFrame`, `Reset` | the websocket layer writes headers and trailers into its gaps |
| protocol, frame reader | `03libProtocol.go` | `writeLock` and a send buffer | `MarshalBinary`, `UnmarshalMsg`, `readThread`, `writeMsg` | websocket, closer |
| client connection loop | `client.go` | `thisConn`, `isStopListen`, `connDenyLocal`, `authDenyFatalMsg`, `reconnectSleepCancelCh` | `tryConnOnceSync`, `SetIsStopListen`, `onReadMsg` | server, rooms |
| client rooms, listeners | `client_room.go`, `pkg/zlibSync/SingleUnd.go` | `roomMap`, `roomIdReqSet`, `noNeedIdleCloseTimer`, `pendingEv` | `RoomEnter`, its `leaveFn`, `onRoomValue`, `onChangeAsync` | connection loop (through `roomNl`), application callbacks |
| keep-alive, time-outs | `client.go`, `02server.go` | times of the last read, write and ping | timer functions | closer |
| user interface status | `client_ui_status.go` | derived | `GetUiStatusToUser` | – |
| browser client | `hgmRoomNotifyBrowserTs/` | the client's state on one JavaScript thread | the client's | server |
| closer, timers, notify list, variables | `pkg/zlibCloser`, `zlibTimer`, `zlibSync` | flags and callbacks | `Close`, `AddOnClose`, `After`, `Stop`, `NotifyAll` | everyone |
| websocket transport | `pkg/zlibWebsocket2` | – | `ReadMsg`, `WriteFrame`, handshakes | frame reader, write buffer |
| helpers, examples | the rest of `pkg/`, `example/` | – | – | – |

What is hard in it:

* **Locks released before sending.** `FireChange` and `doRoomEnter` decide under
  `roomMapLock` and send afterwards. Joining, leaving, a second change and the
  clean-up run in between.
* **Handlers outlive their connection.** Closing a connection marks its buffer
  broken, then removes it from all rooms, while its read loop may be in the
  middle of a `doRoomEnter`.
* **A shared buffer without a shared lock.** The writer sends a slice of the
  ring buffer, and writes the websocket header into it, while pushers fill the
  rest; the array may be replaced meanwhile.
* **Goroutines started on demand.** The writer, the client's loop and a
  listener's callback end when there is nothing to do; a request at that moment
  must not be missed.
* **The client's loop against its callers**: rooms entered and left while it
  dials, waits for the authentication, enters all rooms, or sleeps; an idle
  timer; `SetIsStopListen`; answers of the server that change what a call does.
* **Failure is normal.** Any connection breaks at any time; a server restarts
  with new epochs, and the handler of a broken connection may still run when the
  next one delivers.
* **Bans race the connections they are about**: a connection is registered,
  asked about and closed by three goroutines and two timers.
* **Timers set from several goroutines**, with durations that the server may
  replace on an open connection.

What makes each part correct:

| part | properties |
| --- | --- |
| room table | both sides of the membership relation agree; every member that stays is sent the last change; the clean-up takes empty rooms only |
| connection life cycle | a ban reaches every connection it is about; a closed connection is in no room, and in the registry only by a late identity; who is undecided, or was asked to go, is closed; a close leaves no goroutine behind |
| write buffer | one writer; no message without a writer; groups are whole or the connection ends; what is sent is what was pushed |
| ring buffer | a FIFO of frames whose lengths stay readable, and a batch that was handed out stays as it is |
| bytes | what is read is what was written, between versions too; a large LiveData arrives whole |
| listeners | one callback at a time, in order, and the last event in any case |
| client loop | what is subscribed equals what is wanted; a need finds a loop; idle connections close; stop and denial do what the documents say |
| browser client | the same, with callbacks that call the client again |
| keep-alive | an intact connection is never closed for silence, a dead one always |
| closer, timer | each callback once, at its time |
| end to end | a client that stays online learns of the last change, across reconnects and server restarts |

The whole list of hazards, each at its line and with the properties that watch
it, is in `PROJECT.json`.

## 2. The modules

| module | what it is |
| --- | --- |
| `RoomServer` | the room table, its connections and `FireChange` |
| `RoomServerProofs` | its theorems |
| `ServerSession` | a server connection's life: accept, identity, bans, timers, close |
| `ServerSessionProofs` | its theorems |
| `Frame16BipBuf2` | the ring buffer as operators on a record |
| `BipBuf` | the ring buffer driven by one goroutine |
| `FrameFifo` | the abstract specification of the ring buffer |
| `RingProofs` | lemmas: what every operation of the ring buffer keeps |
| `WriteBuf` | the write buffer: the ring buffer between pushers and a writer |
| `WriteBufProofs` | its theorems |
| `Wire` | one direction of a connection as bytes |
| `KeepAlive` | both ends' timers with a clock, configurations, the user's status |
| `Listener` | a listener with its `SingleUnd` |
| `LatestEvent` | the abstract specification of a listener |
| `Client` | the Go client's connection loop and its callers |
| `ClientProofs` | its theorems |
| `BrowserClient` | the client of the browser |
| `BrowserClientProofs` | its theorems |
| `RoomNotify` | one room from the server to a listener; includes `LatestEvent` |
| `RoomNotifyProofs` | its theorems |
| `Closer` | `zlibCloser.Closer` |
| `Timer`, `OneShot` | `zlibTimer.Timer` and its abstract specification |
| `MCRoomServer`, `MCClient`, `MCWriteBuf` | values, symmetry and narrowing for TLC |
| `Parts` | `BipBuf` with instances of `Listener`, `Closer`, `Timer` and `KeepAlive` beside it |
| `MCParts` | these and `Wire` and `RoomServer`, seven parts that share nothing, in one model |
| `ToolProofs` | theorems about the five parts of `Parts` |

How they are composed: `WriteBuf` and `BipBuf` use `Frame16BipBuf2`;
`RoomNotify` joins what the single modules establish (any order of pushes from
`RoomServer`, a prefix of what was stored from `WriteBuf`, with groups that are
cut until the connection is closed, an entry of the rooms on every connection from
`Client`) and has `LatestEvent` for its listener.

Definitions marked `\* fault` are variants of the definition that follows them,
as a plausible mistake would have it; no specification uses them. They show
that the properties notice such a mistake: with the variant in place, each run
fails.

### RoomServer

A step is one critical section of `roomMapLock` or one push into one write
buffer. A `room_t` is identified by its `RoomEpoch`: `roomMap[r]` is the
instance in the table (`NoEpoch` for none) and `connRoomMap[c][r]` the pointer
that a connection holds, which may be to an instance that was cleaned up.
`worker[c]` is the goroutine that handles the messages of `c` (the read loop,
or `cmdLoop` with authentication), `fan[f]` the rest of a `FireChange` loop.

| code | actions |
| --- | --- |
| `ServeHTTP`, message loop | `Accept`, `ReadMsg` |
| `doRoomEnter` | `DoRoomEnterJoin`, `DoRoomEnterStopped`, `DoRoomEnterOverLimit`, then `SendEntered` after the lock |
| `doRoomLeave` | `DoRoomLeave` |
| `FireChange` | `FireChange` under the lock, `FanOut` once per member |
| closing | `Close`, `MarkBroken`, `Detach` |
| `_cleanEmptyRooms` | `CleanEmptyRooms` |

The buffer of a connection is reduced to the highest `ChangeSeq` pushed for
each instance, which is what the receiver makes of it, and a push may find it
full at any time. Time since a room became empty is left open: any empty room
may be old enough.

### Frame16BipBuf2, BipBuf, FrameFifo

The record has the fields of the Go struct and the operators follow its
methods statement by statement, where the statements change a cursor. A cell
stands for some bytes, and every cell of a frame holds the number of the frame,
so overwritten cells show as a damaged frame. Cells that nobody may read any
more are made `Free`; the code leaves the old bytes in place. `Wrap` is what
the websocket layer does to a batch: a header right before it and a trailer in
the suffix it was granted.

`BipBuf` drives it from one goroutine, whose reader either takes batches or pops
single frames. (Header space is only kept free behind a batch: the two calls do
not mix on one buffer, and nothing in the library mixes them.) Frames of one
size are alike, so the first that is not in use is stored. A header fills the
whole header space here; on the wire that of a small batch is shorter (two bytes
of four below 126 bytes).

The comment at `Frame16BipBuf2.go:9` says that the header of a batch goes into the end
of the batch before it. That batch may be shorter than the header: a ping is a frame
of 3 bytes, the server's header has up to 4. While the ping is sent, a frame may wrap
to the bottom and end right where the ping begins (line 82); the next header then
takes that frame's last byte. `BipBuf` shows it with one goroutine, seven calls deep:
`Prefix = 4`, `Suffix = 0`, `MaxCap = 16`, `InitCap = 8`, no payload limit, six frames
of 3 and 4 cells in turn violate `StoredIntact`.

How far a header can reach beyond the batch before it is `Reach`: the header space
less the shortest frame, on the server one byte. What it may damage is the end of
a frame; the two bytes of its length stay readable as long as every frame is longer
than that, and then the buffer goes on as a queue. So `FramesBut(Reach, ..)` reads the
frames of a stretch without looking at their last `Reach` cells, `Stored` is what is
queued, read that way, and `IsFifo` says that `BipBuf` implements `FrameFifo` with
`Stored` as the queue and the slice handed out last as the batch. (Where `Reach` is 0
these are whole frames.) The run `parts` has the server's sizes, a header of 4 cells
and a frame of 3, and frames are damaged in it.

### WriteBuf

The same operators between pushers and a writer. A step is one critical section
of `mu`, or a step of the writer without it: look at the closer, write the
header, send. `pc[w]` is the writer goroutine `w`; more than one is allowed,
so that `OneWriter` has something to say. `closer` and `toClose` follow
`Close2`: the goroutine that pushed is about to close, the callback marks the
buffer broken, the socket is closed. A close callback does not wait for the
goroutine that called `Close2`, which allows more orders than the code does.

`PushMsgsAtomic(g)` stores as many frames of the group as the buffer takes,
under one `mu`, as the code does once `FreeForAlloc` said yes. Every chunk is a
message of its own, so groups share no frame (`WriteBufAssumption`).
`BatchIntact` has two parts: `MessagesWhole` holds as long as no header is written
into a stored message, `HeaderWhole` needs that no message is written into a header.
`BatchKept` is the promise of the cursors and of `OldBuf` to the writer that
works without `mu`: what it sends does not change.

### Listener, LatestEvent

`Store` and `Do` are the two halves of `onChangeAsync`; the latter is
`SingleUnd.Do`. `Load`, `Call`, `End` are the goroutine: load the newest event,
call back, run again if somebody asked. All calls hold `roomLock`, so there is
one caller at a time. `TellsLatest` refines `LatestEvent`, liveness included.

### Client

`caller[a]` is what a goroutine has still to do in `RoomEnter` or
`SetIsStopListen` after its lock or atomic step; `loop` is the program counter
of `tryConnOnceSync` in the goroutine of `connSingleUnd`; `conn` is the state
of `thisConn`'s closer; `auth` the answer to the identity; `sent` the rooms the
server will have subscribed once it has read what was written on this
connection.

| code | actions |
| --- | --- |
| `RoomEnter` | `RoomEnter`, `StopTimer`, `Do` |
| `leaveFn`, idle timer | `Leave`, `TimerFires`, `TimerCloses` |
| `SetIsStopListen` | `SetIsStopListen`, `StopCloses`, `StopCancelsSleep`, or `Do` |
| `_init_afterEnter`, `SingleUnd` | `Do`, `LoopInit`, `LoopEnd` |
| `tryConnOnceSync` to the dial | `LoopStop1`, `LoopNeed1`, `LoopPause`, `LoopWake`, `LoopNeed2`, `LoopStop2`, `DialFails`, `DialSucceeds` |
| `tryConnOnceSync` on a connection | `LoopAuth`, `LoopDenied`, `LoopSnapshot`, `LoopWrite`, `LoopWritten`, `LoopServe` |
| `onReadMsg` | `ServerAllows`, `ServerDenies`, `DenialCloses`; a permanent `closeConn` is a `SetIsStopListen`, a temporary one a `ConnBreaks` |
| failures, close callback | `ConnBreaks`, `CloseCallback` |

Three merges: the tests at the top of `RoomEnter` belong to its critical
section, loading `thisConn` and closing it are one step, and a write on a
connection that closes meanwhile is either made or not. `calm` is a variable
of the model: once it is set, calls and failures have ended.

### ServerSession

`pc[c]` is the goroutine of `ServeHTTP`, `worker[c]` its `cmdLoop`, `onClose[c]`
the close callback with its critical sections, `kick` a
`CloseConnBySessionId` of the application, which walks the list it copied.

| code | actions |
| --- | --- |
| `ServeHTTP` | `Accept`, `Register`, `Wire` (timers), `Hook` (`AddOnClose`), `Count`, `Start`, `ReadEnds` |
| reading, `pushCmd` | `PushCmd`, `ConnFails` |
| `cmdLoop`, `handleIdentityAuth`, `handleRoomEnterAuth` | `Receive`, `OnAllowFn`, `Decide`, `Join`, `LoopEnds` |
| timers | `AuthTimerFires`, `AskTimerFires` |
| close callback | `BreakBuf`, `LeaveRooms`, `Unregister`, `CountDown` |
| `CloseConnBySessionId`, `closeConn` | `Ban`, `CloseConnBySessionId`, `CloseConn`, `SendCloseConn` |

The application bans a key, then kicks, and its `OnAllowFn` denies what is banned
when it looks: the use that the comments of both functions describe. A room is
one room here. A select of `cmdLoop` with a message and a close may take either.
`ForgottenUnlessLate` has an exception that the code leaves open: `cmdLoop` may
register the identity after the close callback cleaned the registry
(`02server_auth.go:104`), and such an entry stays. `lateKeys` remembers exactly
these, so the property says that there is no other way to be left behind.

### RoomNotify

The server's instance of a room (`server`), what its goroutines are about to
push (`toSend`, in any order), the messages on the way (`wire`), the client's
connection, its `readThread`'s handler and those of closed connections
(`stale`), and what `onRoomValue` made of it (`known`). `Arriving` is the value, with
the LiveData joined from its parts, that the handler is about to pass to
`onRoomValue`. `Restart` draws a new epoch and begins at 0. `newest` and `overtaken` are history: the newest value
ever known, and whether a stale handler put an older epoch back.

That does happen: `onRoomValue` takes *any* epoch that differs as newer, so a
handler of a closed connection that stalls past the first value of a restarted
server sets the room back. `NeverGoesBack` says that only this does; the next
change corrects it. `Converges` and `QuietIsCurrent` therefore have `overtaken` as
their one exception.

`PushCut` is `pushMsgsAtomic` finding no room for a later part of a group
(`02server_write_buf.go:83`, see `wb_cut`): the first part stays stored, and the
goroutine is about to close the connection (`toClose`). Until it does, other goroutines
push, and what they push may reach the client: then it joins the part of one change
(`CutChunk`, marked `isCut`) with the LiveData of the next, or passes it on with a
value that has none, although line 85 says that the client drops it. `LiveDataIntact`
says that nothing else gets mixed: parts of groups that were cut may come first, and
what follows is the LiveData of the event's change, complete or empty.

### BrowserClient

One action is what the one thread does between two awaits or two calls of a
listener. `loop`, `frame`, `calls` and `adding` are its stack: while it is `Busy`
nothing else runs, but a listener that is being called may itself call
`roomEnter`, a leave function or `SetIsStopListen` once. `ws` is the WebSocket, and
`socket` whether `this.socket` is it. `left` keeps an old leave function, which the
page may call again.

Two things that a page may do are switched off in the run, because they break
what the run is to show otherwise, and both are listed as hazards:
`StopInSleep = TRUE` (a stop while the loop sleeps before a dial: the loop then
asks only `HasNeed` and dials) violates `UnneededCloses`; `LeaveInFirst = TRUE` (a
leave of the last other listener inside the callback that `roomEnter` makes
itself) violates `ListenersAttached`.

### Wire

Messages are encoded into bytes by one of the two encoders, framed, sent in
websocket messages, read frame by frame and decoded; the writer may be a client,
a server, or a server of another version. A byte has 8 values and a uvarint digit
4, so the boundary lengths (a message of 62 bytes, a frame of 64) are short; the
formats are otherwise as they are. All that is chosen is chosen in `Init`; the
reader's steps follow. `Identities` ends at the longest text that works:
one byte more (`{60}`; 65532 to 65535 in the code) passes `BinarySize` and
violates `ReadAsWritten`. The module is not meant for proofs: it masks bytes with
`Bitwise`.

### KeepAlive

Ages and timers in ticks. A reset of the ping timer is two steps, as in the
code: compute (into `reset[g]`) and `After`, by reader, writer and the timer's own
callback without a lock. Due timers and messages that were `Delay` on the way
come before the next tick, which is how the model says that the program is fast
compared with its time-outs. `FastEnough` is the operator's part: the time-outs
leave room for the network's delay, and the server's time-out is above the
interval. The code enforces half of it (`InitWithDefault` halves the interval) and
nothing ties the server's time-out to it (`02server.go:372`).

### Closer, Timer, OneShot

`Closer`: users register a callback, delete it, ask for the close channel and wait;
callers close; a step is one part under the lock, and callbacks are called
outside of it. `Timer` over `time.AfterFunc` implements `OneShot`. A `Stop` between
`After` and `SetFn` stops nothing, since there is no inner timer yet;
`StopPending = TRUE` shows it, no caller in the library does it, and the run has it
`FALSE`.

## 3. The runs

Passing runs:

| run | properties | what it asks |
| --- | --- | --- |
| `rooms` | `TypeOK`, `MembershipAgrees`, `EmptyTimeMarksEmptyRooms`, `NoLostChange` | Does the table survive rooms that are emptied, cleaned up and created again under running handlers, and is no change lost between a member's snapshot and a fan-out? |
| `session` | `BanReachesAll`, `RoomsAreGuarded`, `ForgottenUnlessLate`, `AskedIsClosed`, `UndecidedIsClosed`, `ClosedEnds` | Do bans, kicks, timers and failures at any moment of a connection's life do what they should? |
| `wb_control` | `OneWriter`, `NoLostWakeup`, `BrokenGroupCloses`, `BatchKept`, `EventuallySent` | Do pushers, writer and close agree in every order, do pushes keep off the batch being sent, and does a stored message leave? |
| `client` | `Subscribed`, `NeedHasLoop`, `EventuallySubscribed`, `IdleConnectionCloses` | Is what was written on a connection what is wanted, does a need find a loop, and does the client settle once calls and failures end? |
| `browser` | `InSync`, `ListenersAttached`, `UnneededCloses`, `Enters` | The same of the browser client, with calls from inside callbacks |
| `notify` | `QuietIsCurrent`, `LiveDataIntact`, `NeverGoesBack`, `Converges` | Does the client end at the newest value, after breaks and a restart, and do LiveData mix only behind a group that was cut? |
| `parts` | `OneAtATime`, `NoLostEvent`, `TellsLatest` (listener); `CursorsOK`, `BatchFits`, `IsFifo` (ring buffer); `EachCalledOnce` (closer); `IsOneShot` (timer); `LiveIsWhole`, `ReadAsWritten` (bytes); `StaysOpen`, `DeadIsNoticed` (keep-alive); `EveryMemberIsTold` (`FireChange`) | Seven independent parts, each explored alone: the variable `part` chooses one at the start |

Runs that end in a violation. Each states what a document or a comment says and
the code does not do; `PROJECT.json` quotes the line.

| run | property | what happens |
| --- | --- | --- |
| `wb_cut` | `GroupsUnbroken` | `FreeForAlloc` counts room that a group cannot use, because a frame is contiguous and a batch in flight takes space; the group is cut, and until the connection is closed another message may follow its first part |
| `wb_scratch` | `BatchIntact` | a push that wraps writes into the header of the batch being sent |
| `client_stop` | `StopEndsLoop` | `SetIsStopListen(true)` during a dial does not end the connection that the dial makes |
| `client_deny` | `DenialIsTakenBack` | a denied client that left its last room refuses every `RoomEnter` for ever |
| `keepalive_first` | `StaysOpen` | on a client's first connection to a server with longer intervals, `setTimeCfg` moves the next ping behind a read timer that still runs on the client's default: an intact idle connection is closed |

### Bounds, and why they are enough

* `rooms`: two connections and two `FireChange` callers are the fewest that
  let a join, a leave and two changes overlap; two instances of a room
  (`MaxEpoch = 2`) make a pointer stale, and `MaxSeq = 2` lets one fan-out overtake
  another. `MCRoomServer!Narrow` keeps the product small: two callers and two
  changes in one instance of one room, or one caller and one change per instance
  in two rooms. Connections, rooms and callers are symmetric. 2.0 million states.
  `EveryMemberIsTold` is a liveness property and is checked in `parts`, without
  symmetry, with `RoomEnterMaxPerConn = 1` so that the limit is met.
* `session`: one connection, three messages, a queue of two (so it can be full),
  and bans of both keys. Connections share only `registry`, whose operations are
  per connection, and the list of a kick. 125 thousand states.
* `wb_control`: two writer goroutines (a second one would be the mistake), one
  group of two chunks, two other messages and one that is too large. It has
  `Prefix = 0`: with header space the `wb_scratch` violation is reachable
  and would hide the rest.
* `client`: two rooms and two callers, so that one room may be entered while
  another is left and two calls overlap with a stop; `MCClient!Narrow` lets a second
  caller and a second room be used in different behaviours. Numbers of
  connections, dials and calls are not bounded. 1.0 million states.
* `browser`: one room and two listeners, two objects of that room, so that an old
  leave function meets a new object; frames of up to two messages.
  161 thousand states.
* `notify`: two epochs (one restart), two changes each, three connections: a stale
  handler, the connection that overtakes it, and one to recover with. Groups are cut
  in the first instance only (`MaxCutEpoch = 1`): what a cut part may meet, other
  changes, breaks and the second instance, is all there.
  `CalmDown` comes while a connection may still be made, so that `Converges` is not
  refuted by the bound. 728 thousand states.
* `parts`: `MaxEv = 8` events (the listener's goroutine depends on the last three
  at most). Frames of 3 and 4 cells in an array that grows to 17 cells
  (`InitCap = 3` is too small for the first frame): it grows more than once, wraps
  at every remainder, and `MaxFramePayload = 6` cuts batches in two. The header
  space is four cells, so that a header reaches into stored frames, the
  trailer one. Three users and two callers of a `Closer`.
  A timer for five moments and three callbacks. Texts at both sides of
  every boundary of `Wire`; LiveData in one, two and three messages. Keep-alive with
  default and too long intervals; its clock is not bounded (ages stop where
  nothing compares them any more).
  `MaxFlight = 1` bounds other messages under way, not pings.

With these, every run ends within about three minutes on two cores.

`CHECK_DEADLOCK FALSE` is set everywhere: connections live once in `RoomServer`,
`ServerSession` and `WriteBuf`, counters are bounded, and an idle client may have
nothing left to do. `Client`, `ServerSession`, `BrowserClient`, `RoomNotify`, `Closer`,
`KeepAlive`, `BipBuf` and `WriteBuf` state a `TypeOK` that holds in these runs too; it is not
listed where the other invariants are the question.

### Fairness

* `RoomServer`: a handler, a fan-out and a close callback that have begun run to
  their end. They wait for mutexes only, which Go hands out fairly in the end.
  Nothing that peers, callers or the clean-up timer do is forced.
* `ServerSession`: goroutines run on, `OnAllowFn` returns, timers fire. A peer does
  nothing that it need not.
* `WriteBuf`: the writer runs, and a goroutine on its way to `Close2` arrives. A
  write to the socket returns because the peer reads, or because the read
  time-out (`ServerLastReadToCloseDur`) closes the socket.
* `Listener`: goroutines run. That a callback returns is up to the application;
  one that never returns is never called again, and the code promises nothing
  else.
* `Client`: goroutines run, timers fire, and a server that was reached answers
  an identity it did not lose. Dials fail and connections break only until
  `calm`. One fact about time is used: a dial that began for a room that was
  then left ends (5s) before the idle timer fires (20s). With a configuration
  that exchanges the two, such a connection would never be closed.
* `BrowserClient`: the event loop runs (`WF`). Strong fairness for opening, for a
  server that allows, for the idle timer and for the loop's wake-up: each may be
  disabled again and again by failures, stops and new rooms, and must get its
  chance now and then.
* `RoomNotify`: goroutines run, also the one that closes the connection because its
  group was cut; a connection delivers while it lasts, the client
  notices that it is gone and connects again. Breaks end with `calm`.
* `KeepAlive`: what is due happens, and time passes. `SF` for `WritePing`, since a
  writer that takes `writeLock` again and again may not starve it (`sync.Mutex` is
  fair), and for `Tick`.

## 4. The proofs

All for any value of the constants that satisfies the modules' assumptions
(sets of any size, any bounds).

**RoomServer.** `TypeCorrect`, `MembershipCorrect`, `EmptyTimeCorrect`,
`NoLostChangeCorrect`. The inductive invariant is `Base`, that is `TypeOK` with
`TableOK` (the table maps a room to an instance of that room, instances are
numbered as created, and one not yet created has no members) and `HandlerOK` (a
handler in progress knows its room, a send its instance). On top of it,
`MembershipAgrees` is inductive, and given that, `EmptyTimeMarksEmptyRooms`.
For `NoLostChange` there is `FanInv`: a new connection is idle (`NewIsIdle`),
nothing that was pushed or is about to be is ahead of the counter
(`NothingInvented`), and `NoLostChange` itself. `NothingInvented` is what makes a
late push of an old change harmless: the maximum of what was pushed stays the
counter. The lemmas `PushEffect`, `RestFacts`, `TargetFacts` say once what the
shared parts of the actions do.

**Ring buffer.** `CursorsOKCorrect`, `BatchFitsCorrect`, `DamageConfinedCorrect` and
`ImplementsFrameFifo`, the refinement of the queue. The functions that walk from
frame to frame are recursive over the array, so what is invariant is a set:
`Tiles(D, S, buf, lo, hi)` says that the cells in `S` are where frames begin, each
whole but for its last `D` cells and ending where the next one begins, and together
they fill `lo .. hi`. `RingOK` orders the cursors and tiles three stretches: what is
queued, or, when the buffer is wrapped, its upper part and its lower part; `SliceIn`
says the same of the batch that was handed out, in the array it points into, and keeps
the lower part below it. With a tiling, `FramesBut` reads what was stored,
`FrameAlignedEnd` stops at a member of the set, and the frames of two adjacent
stretches are the concatenation. What stands in for induction is `Greatest` (a bounded
set of numbers has a greatest member) and, from it, `Downward`: the walk holds at
`hi`, and before `p` if it holds behind the frame at `p`. `grow`'s doubling (`NewSize`)
and its copy are treated once, for any sizes. `PopReadFrame`, `TakeSendSlice` and
`AllocFrame` each have a lemma that says what becomes of queue and batch, and those
are the steps of `FrameFifo`.

`BipBuf` has `D = Reach`: `HeaderRoom` says that the next header begins at most `Reach`
cells below the batch before it, `ReachFacts` that no frame is shorter than the
header space by more, and `WrapRing` that a header changes the lower part in its
last `Reach` cells only, which `SameButLast` shows to leave the tiling as it is.
The hypothesis is `LengthsSafe \/ reader = "pop"`: a header that reaches that far leaves
at least the two bytes of a frame's length, as the server's sizes do (a header of
4 bytes and a ping of 3 give `Reach = 1`, and 1 + 2 <= 3); or no batches are taken.
Without it the length itself may be overwritten, and the walk loses its way.
`DamageConfinedCorrect` spells out what that means for the bytes: no stored frame is
damaged beyond its last `Reach` cells, and where `Reach` is 0, `StoredIntact` holds.

**WriteBuf.** `OneWriterCorrect` and `NoLostWakeupCorrect`: `WriterInv` ties the
flag to the goroutine: `writerRunning` holds exactly while a writer exists, and
never once the buffer is broken, whatever a last writer still does. The
contents of the ring buffer play no part, but for `RewoundIsDrained`: a buffer
with nothing to send is left with nothing to send.

`TypeOKCorrect`, `BrokenGroupClosesCorrect`, `BatchKeptCorrect`,
`MessagesWholeCorrect` rest on `RingOK` and `SliceIn` again (`RingInv`), with `D = 0`:
these are about whole messages. They have one
hypothesis about the behaviour, `ScratchIsFree`: when a header is written no wrapped
message is in its way. It excludes the damage that short batches bring (section 2)
and the half of `wb_scratch` in which the header is written last, and nothing else;
`NoHeaderNoDamage` proves that it always holds where the layer below writes no
header. Nothing is assumed about the other half, in which the message is written
last and the header is lost: that is why `HeaderWhole` is not claimed.
For groups the invariant is `Whole`: in the order in which messages leave, every
chunk is followed by the next of its group, and the last message does not leave
one `Unfinished`. A push of a complete group keeps it, a group that was cut sets
`toClose`. `StoreAll` follows the storing of a group message by message
(`Upward`), and `Stored`'s `CHOOSE` is shown to have a value.

**Listener.** `OneAtATimeCorrect`, `NoLostEventCorrect`, and
`ImplementsLatestEvent` (in `ToolProofs`): every behaviour of `Listener` is one of
`LatestEvent` but for liveness. `ListenerInv` adds that `isRunning` and
`hasMoreCall` tell what the goroutine does and that `told <= ev2 <= pendingEv`.

**ServerSession.** `TypeCorrect`, `BanReachesAllCorrect`, `RoomsAreGuardedCorrect`,
`ForgottenUnlessLateCorrect`. A ban is two things that happen at different times:
`OnAllowFn` turns against a key, and `CloseConnBySessionId` takes the connections
that the registry lists then. `BanPursues` is the bridge: an open connection that
passed `OnAllowFn` before the ban was asked to close, or the call is still to
take its list, or has the connection in it. It holds because a connection is
registered before it is asked about (`NetRegistered`, `IdentityRegistered`), which
is the order of `ServeHTTP` and of `handleIdentityAuth`. `RoomsAreGuarded` rests
on `StoppedRooms` (the callback closes the door before it leaves) and on
`WorkerKnows` (a room is entered by a loop that approved the connection);
`ForgottenUnlessLate` on `Listed` (what is to be deleted knows every entry) and
`ClosedFirst`.

**RoomNotify.** `TypeCorrect`, `QuietIsCurrentCorrect`, `LiveDataIntactCorrect`,
`NeverGoesBackCorrect` (an action property). `NotAhead` and `Pending` say that
nothing on the way is newer than the server, and that a member who has not seen
the server's value has it on the way. `OneEpoch` says that a connection carries
values of one instance of the room, not older than the one the client knows:
hence only a `readThread` of an earlier connection can set the client back
(`Behind`). `PairsOnWire` and `Reassembling` say where in a pair of chunks the reader
is, so that what it joins is one LiveData whatever is lost at a break, and that first
parts of groups that were cut stand before it, never within it (`Follows`).

**Client.** `TypeCorrect`, `SubscribedCorrect`, `NeedHasLoopCorrect`. For the loop,
`EndIsCalledBack`: a loop that decided to end before it saw a need is called again,
by a caller on his way or by `hasMoreCall`. For the rooms, `Accounted`: a room that
is not requested has its last message in the snapshot about to be written, or
the server has its membership as it is. The type invariant has one step that is
not about types: only a leave that finds a listener takes one
(`LeavableHasListener`), which counts callers, so the assumption is that they are
finitely many.

**BrowserClient.** `TypeCorrect`, `InSyncCorrect`, `ListenersAttachedCorrect`.
`PageInv` ties the socket, the loop and the approval together (`OneSocket`), says
that a frame under way contains the one answer to the identity (`OneVerdict`),
and that nothing is entered before it (`NothingBeforeApproval`); with these
`InSync` is inductive. `ListenersAttachedCorrect` has the hypothesis
`~LeaveInFirst`: a page that leaves inside the first call of its own listener
does lose it (section 2), so the theorem is about pages that do not.

**Timer.** `IsOneShotCorrect`: every behaviour of `Timer` is one of `OneShot`, step by
step. `Handed` says that an inner timer exists only with a callback, and that a
duration waits only as long as there is none. The hypothesis `~StopPending` leaves
out the `Stop` between `After` and `SetFn` that no caller makes (section 2).

**Closer.** `EachCalledOnceCorrect`. `CalledOrListed` says that a callback is called
or still to be called, never both, where `ToBeCalled` is to be in the list or in
the rest of the call of `Close` that took it; `OneList`, that there is one such
call and no callback twice in a list. `HoleFilled` and `FrontTakesLast` say what
`deleteFn`'s swap with the last element, and `Close`'s walk from the end, take away
from a list. The hypothesis is that no callback is the string "not yet", the
model's value for a `Close` that was not called.

**KeepAlive.** `StaysOpenCorrect`: neither side closes an intact connection for
silence. The argument follows one ping. `PingIsTimed`: some timer, or somebody
about to set it, asks for the next one, and no value that is set or about to be
is later than `UntilPing` would give now, because ages only shrink between
computing it and setting it; so it does not matter in which order the three
goroutines set the timer. `Heard`: the client was silent for no longer than the
interval, or a ping is due in this moment, or on its way up, or an answer on its
way down, each with what is left of the delay; every case bounds the silence by
the interval and two delays. `ServerHeard` is the same with one delay and any
message, for which `PingIsWrite` and `WritesOften` say that the client writes at
least once per interval. `CfgFacts` derives from `InitWithDefault` that the
halved interval is the one that `FastEnough` is about. The hypotheses are
`ConstantsOK` and `~FirstConnection`; the run `keepalive_first` shows that the
theorem is false without the latter.

**Only model-checked**: all liveness properties (temporal reasoning under
fairness is beyond this prover). `LiveIsWhole` and `ReadAsWritten` of `Wire`: what
encoder and decoder compute is recursion over data, which takes an induction
over the length of the bytes, and its `Bitwise` cannot be used beside a theorem.

## 5. What is not modelled

* The HTTP upgrade on both sides, TLS, random ids, base-32 names.
* `conn.raw` before it is set: `ServerSession` lets a kick send that early
  (`02server.go:208`), but has no value for a nil dereference.
* `Frame16BipBuf` (the library uses only its successor), `Reset` of the ring
  buffer, and `CloseForTest`, which nothing but tests calls.
* `protocol.ts`: the browser's encodings are those of `Wire`; the durations of its
  timers (those of `KeepAlive`), and LiveData in the browser.
* Names of rooms and keys, error texts, `obs_event.go`, `client_log.go`, the
  examples.
* Actual durations: `KeepAlive` has a clock, elsewhere a timer may fire at any
  time at which it is set.

## 6. The plan

The modules of the plan are written, and every safety invariant and every action
property that a passing run checks is proved, but for the two of `Wire`. What
is left:

1. `Wire` without `Bitwise`, with division and remainder for the masks, and its
   recursion over bytes in the form that `RingProofs` uses for the walks over
   frames. Then `ReadAsWritten` is a statement about sets of message starts.
2. `WriteBuf` with the fix that `wb_scratch` and short frames call for, a
   wrapped frame that ends `Prefix` bytes below `Sent`: `ScratchIsFree` would be
   part of the invariant.
