------------------------------ MODULE KeepAlive ------------------------------
(***************************************************************************)
(* Keep-alive and silence on one connection of the Go client: the rules of *)
(* resetClientIdleToSendKeepAlive, the read timers of both sides, the      *)
(* server's echo of a ping, TimeoutCfg_t.InitWithDefault, Cmd_setTimeCfg,  *)
(* and the status the user is shown.                                       *)
(*                                                                         *)
(* Time is discrete.  A variable named since... is an age, a timer the     *)
(* ticks it has left.  Timers that are due, callbacks and messages that    *)
(* were Delay ticks on the way come before the next tick.  A reset of the  *)
(* ping timer is two steps, the computation and After: reader, writer and  *)
(* the timer's own callback do it without a lock.                          *)
(***************************************************************************)
EXTENDS Integers, Sequences

CONSTANTS
  IdleDur, ReadDur, UiDur, ServerDur, \* durations an operator may configure
  DefaultIdle, DefaultRead, DefaultUi, DefaultServer, MinDur,
  FirstConnection,    \* the client still has its defaults, not the server's cfg
  Delay,              \* an intact network delivers within Delay ticks
  MaxFlight           \* bound: messages under way in each direction

ConstantsOK ==
  /\ {DefaultIdle, DefaultRead, DefaultUi, DefaultServer, MinDur} \subseteq Nat \ {0}
  /\ IdleDur \cup ReadDur \cup UiDur \cup ServerDur \subseteq Nat
  /\ FirstConnection \in BOOLEAN /\ Delay \in Nat /\ MaxFlight \in Nat

Off == -1
Max2(a, b) == IF a > b THEN a ELSE b
Min2(a, b) == IF a < b THEN a ELSE b
Goroutine == {"reader", "writer", "pinger"}

(* InitDefaultMin and InitWithDefault: 0 is the default.                   *)
InitDefaultMin(v, default) == Max2(IF v = 0 THEN default ELSE v, MinDur)

NotHalved(idle, read) == idle                                    \* fault
Halved(idle, read) == IF idle * 2 > read THEN read \div 2 ELSE idle

InitWithDefault(raw) ==
  LET read == InitDefaultMin(raw.read, DefaultRead)
  IN [read |-> read,
      idle |-> Halved(InitDefaultMin(raw.idle, DefaultIdle), read),
      ui |-> InitDefaultMin(raw.ui, DefaultUi),
      server |-> InitDefaultMin(raw.server, DefaultServer)]

VARIABLES
  serverCfg, cfg,       \* TimeoutCfg of the server, of the client
  sinceRead, sinceWrite, sincePing,   \* lastReadSuccTime, ...
  idleTimer, readTimer, \* timerClientIdleToSendKeepAlive, ...LastReadToReconnect
  reset,                \* what a goroutine computed and has not yet set
  pingOut,              \* the ping is about to be written
  serverTimer,          \* timerServerLastReadToClose
  up, down,             \* messages under way: [cmd, age]
  isCut,                \* the network silently lost the connection
  clientClosed, serverClosed,
  running               \* onChangeRunningCount > 0

ages == <<sinceRead, sinceWrite, sincePing>>
clientTimers == <<idleTimer, readTimer>>
net == <<up, down, isCut>>
ends == <<clientClosed, serverClosed>>
vars == <<serverCfg, cfg, ages, clientTimers, reset, pingOut, serverTimer, net,
          ends, running>>

(* The operator's part: nothing in the code ties these durations to the    *)
(* network or to each other, but for the halving.                          *)
FastEnough(c) == /\ c.read - c.idle > 2 * Delay
                 /\ c.ui - c.idle > 2 * Delay
                 /\ c.server - c.idle > Delay

Cfgs == {c \in {InitWithDefault([idle |-> i, read |-> r, ui |-> u, server |-> s]) :
                  i \in IdleDur, r \in ReadDur, u \in UiDur, s \in ServerDur} :
           FastEnough([c EXCEPT !.idle = Min2(@, c.read \div 2)])}

DefaultCfg == InitWithDefault([idle |-> 0, read |-> 0, ui |-> 0, server |-> 0])

TypeOK ==
  /\ {serverCfg, cfg} \subseteq Cfgs \cup {DefaultCfg}
  /\ {sinceRead, sinceWrite, sincePing} \subseteq Nat
  /\ {idleTimer, readTimer, serverTimer} \subseteq Nat \cup {Off}
  /\ reset \in [Goroutine -> Nat \cup {Off}]
  /\ \A s \in {up, down} :
       s \in Seq([cmd : {"ping", "setTimeCfg", "other"}, age : 0 .. Delay])
  /\ {pingOut, isCut, clientClosed, serverClosed, running} \subseteq BOOLEAN

Fresh(cmd) == [cmd |-> cmd, age |-> 0]

(* tryConnOnceSync and ServeHTTP have set up both ends.                    *)
Init ==
  /\ serverCfg \in Cfgs
  /\ cfg = IF FirstConnection THEN DefaultCfg ELSE serverCfg
  /\ sinceRead = 0 /\ sinceWrite = 0 /\ sincePing = 0
  /\ idleTimer = cfg.idle /\ readTimer = cfg.read
  /\ reset = [g \in Goroutine |-> Off] /\ pingOut = FALSE
  /\ serverTimer = serverCfg.server
  /\ up = <<>> /\ down = <<Fresh("setTimeCfg")>>
  /\ isCut = FALSE /\ clientClosed = FALSE /\ serverClosed = FALSE
  /\ running = FALSE

-----------------------------------------------------------------------------
(* resetClientIdleToSendKeepAlive: not within idle of the last ping, and   *)
(* idle after the earlier of the last read and the last write.             *)
EarlyOne(a, b) == Min2(a, b)

UntilPing(read, write, ping) ==
  LET left(age) == cfg.idle - age
  IN Max2(0, Max2(left(ping), EarlyOne(left(write), left(read))))

Sent(s, cmd) == IF isCut THEN s ELSE Append(s, Fresh(cmd))

(* writeBuf__NOLOCK and onWriteFinishSucc; writeLock lets one in.          *)
ReadTimerToo == cfg.read                                         \* fault
ReadTimerStays == readTimer

Write(cmd) ==
  /\ ~clientClosed /\ reset["writer"] = Off
  /\ up' = Sent(up, cmd)
  /\ sinceWrite' = 0
  /\ reset' = [reset EXCEPT !["writer"] = UntilPing(sinceRead, 0, sincePing)]
  /\ readTimer' = ReadTimerStays
  /\ UNCHANGED <<serverCfg, cfg, sinceRead, sincePing, idleTimer, serverTimer,
                 down, isCut, ends, running>>

WriteOther ==
  /\ Len(up) < MaxFlight
  /\ Write("other")
  /\ UNCHANGED pingOut

WritePing ==
  /\ pingOut
  /\ pingOut' = FALSE
  /\ \/ Write("ping")
     \/ /\ clientClosed
        /\ UNCHANGED <<serverCfg, cfg, ages, clientTimers, reset, serverTimer, net,
                       ends, running>>

(* The callback of the ping timer; on a closed connection it returns.      *)
IdleTimerFires ==
  /\ idleTimer = 0
  /\ reset["pinger"] = Off /\ ~pingOut
  /\ idleTimer' = Off
  /\ IF clientClosed THEN UNCHANGED <<sincePing, reset>>
     ELSE /\ sincePing' = 0
          /\ reset' = [reset EXCEPT !["pinger"] = UntilPing(sinceRead, sinceWrite, 0)]
  /\ UNCHANGED <<serverCfg, cfg, sinceRead, sinceWrite, readTimer, pingOut,
                 serverTimer, net, ends, running>>

(* A frame arrives: onReadFinishSucc sets both timers from the cfg the     *)
(* client has, then the message is handled.                                *)
ReadFrame ==
  /\ ~clientClosed /\ ~isCut /\ down # <<>>
  /\ reset["reader"] = Off
  /\ sinceRead' = 0
  /\ readTimer' = cfg.read
  /\ reset' = [reset EXCEPT !["reader"] = UntilPing(0, sinceWrite, sincePing)]
  /\ UNCHANGED <<serverCfg, cfg, sinceWrite, sincePing, idleTimer, pingOut,
                 serverTimer, net, ends, running>>

OnReadMsg ==
  /\ cfg' = IF Head(down).cmd = "setTimeCfg" THEN serverCfg ELSE cfg
  /\ down' = Tail(down)

(* After, and what the goroutine does next.                                *)
SetIdleTimer(g) ==
  /\ reset[g] # Off
  /\ idleTimer' = reset[g]
  /\ reset' = [reset EXCEPT ![g] = Off]
  /\ pingOut' = (pingOut \/ g = "pinger")
  /\ IF g = "reader" THEN OnReadMsg ELSE UNCHANGED <<cfg, down>>
  /\ UNCHANGED <<serverCfg, ages, readTimer, serverTimer, up, isCut, ends, running>>

ReadTimerFires ==
  /\ readTimer = 0
  /\ clientClosed' = TRUE
  /\ readTimer' = Off /\ idleTimer' = Off
  /\ pingOut' = FALSE
  /\ UNCHANGED <<serverCfg, cfg, ages, reset, serverTimer, net, serverClosed, running>>

(* An onChange of some room starts or returns.                             *)
OnChange ==
  /\ running' = ~running
  /\ UNCHANGED <<serverCfg, cfg, ages, clientTimers, reset, pingOut, serverTimer,
                 net, ends>>

-----------------------------------------------------------------------------
(* The server's read loop: any frame resets its timer, a ping is echoed.   *)
ServerReadFrame ==
  /\ ~serverClosed /\ ~isCut /\ up # <<>>
  /\ serverTimer' = serverCfg.server
  /\ down' = IF Head(up).cmd = "ping" THEN Append(down, Fresh("ping")) ELSE down
  /\ up' = Tail(up)
  /\ UNCHANGED <<serverCfg, cfg, ages, clientTimers, reset, pingOut, isCut, ends, running>>

ServerWrites ==
  /\ ~serverClosed /\ Len(down) < MaxFlight
  /\ down' = Sent(down, "other")
  /\ UNCHANGED <<serverCfg, cfg, ages, clientTimers, reset, pingOut, serverTimer,
                 up, isCut, ends, running>>

ServerTimerFires ==
  /\ serverTimer = 0
  /\ serverTimer' = Off
  /\ serverClosed' = TRUE
  /\ UNCHANGED <<serverCfg, cfg, ages, clientTimers, reset, pingOut, net,
                 clientClosed, running>>

Cut ==
  /\ ~isCut /\ reset["reader"] = Off
  /\ isCut' = TRUE
  /\ up' = <<>> /\ down' = <<>>
  /\ UNCHANGED <<serverCfg, cfg, ages, clientTimers, reset, pingOut, serverTimer,
                 ends, running>>

Older(s) == [i \in DOMAIN s |-> [s[i] EXCEPT !.age = @ + 1]]
Run(t) == IF t = Off THEN Off ELSE t - 1
Age(a) == Min2(a + 1, Max2(cfg.read, Max2(cfg.idle, cfg.ui)))    \* beyond, all alike

Tick ==
  /\ 0 \notin {idleTimer, readTimer, serverTimer}
  /\ \A g \in Goroutine : reset[g] = Off
  /\ ~pingOut
  /\ \A s \in {up, down} : \A i \in DOMAIN s : s[i].age < Delay
  /\ sinceRead' = Age(sinceRead) /\ sinceWrite' = Age(sinceWrite)
  /\ sincePing' = Age(sincePing)
  /\ idleTimer' = Run(idleTimer) /\ readTimer' = Run(readTimer)
  /\ serverTimer' = Run(serverTimer)
  /\ up' = Older(up) /\ down' = Older(down)
  /\ UNCHANGED <<serverCfg, cfg, reset, pingOut, isCut, ends, running>>

Prompt ==
  \/ WritePing \/ IdleTimerFires \/ ReadFrame \/ \E g \in Goroutine : SetIdleTimer(g)
  \/ ReadTimerFires \/ ServerReadFrame \/ ServerTimerFires

Next == Prompt \/ WriteOther \/ ServerWrites \/ OnChange \/ Cut \/ Tick

Spec == Init /\ [][Next]_vars

(* Goroutines run on, a ping that waits for writeLock gets it (sync.Mutex  *)
(* is fair), and time passes.                                              *)
Fairness ==
  /\ WF_vars(Prompt) /\ SF_vars(WritePing) /\ SF_vars(Tick)
  /\ \A g \in Goroutine : WF_vars(SetIdleTimer(g))
  /\ WF_vars(IdleTimerFires) /\ WF_vars(ReadTimerFires) /\ WF_vars(ServerTimerFires)

FairSpec == Spec /\ Fairness

-----------------------------------------------------------------------------
(* GetUiStatusToUser, for a client that needs no manual help.              *)
UiStatus ==
  IF sinceRead >= cfg.ui THEN "offline"
  ELSE IF sinceRead >= cfg.read \/ running \/ clientClosed THEN "syncing"
  ELSE "synced"

(* No side closes a connection whose network is intact for silence, with   *)
(* or without other traffic, however the resets of the timer interleave.   *)
StaysOpen == ~isCut => ~clientClosed /\ ~serverClosed

(* A connection that died without a word is noticed by both sides, even by *)
(* a client that keeps writing into it, and shown to the user.             *)
DeadIsNoticed == isCut ~> clientClosed /\ serverClosed /\ UiStatus = "offline"

=============================================================================
