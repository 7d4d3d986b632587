-------------------------------- MODULE Parts --------------------------------
(***************************************************************************)
(* Five parts that share nothing, side by side: the ring buffer, which     *)
(* this module extends, and a listener, the closer, the timer and the      *)
(* keep-alive, each an instance of its module, with the names of their     *)
(* properties.  MCParts checks them, and ToolProofs is about them.         *)
(***************************************************************************)
EXTENDS BipBuf

CONSTANTS
  Thread, MaxEv,                                                  \* Listener
  User, Caller,                                                   \* Closer
  Dur, StopPending, MaxNow, MaxRuns,                              \* Timer
  IdleDur, ReadDur, UiDur, ServerDur, DefaultIdle, DefaultRead, DefaultUi,
  DefaultServer, MinDur, FirstConnection, Delay, MaxFlight         \* KeepAlive

VARIABLES
  pendingEv, isRunning, hasMoreCall, caller, pc, ev2, told,
  isClosed, closeFnList, closeChan, userPc, todo, closeCalled, waits,
  now, t, fn, afterTime, durSetNoStart, runs, stopped,
  serverCfg, cfg, sinceRead, sinceWrite, sincePing, idleTimer, readTimer, reset,
  pingOut, serverTimer, up, down, isCut, clientClosed, serverClosed, running

listenerVars == <<pendingEv, isRunning, hasMoreCall, caller, pc, ev2, told>>
closerVars == <<isClosed, closeFnList, closeChan, userPc, todo, closeCalled, waits>>
timerVars == <<now, t, fn, afterTime, durSetNoStart, runs, stopped>>
aliveVars == <<serverCfg, cfg, sinceRead, sinceWrite, sincePing, idleTimer, readTimer,
               reset, pingOut, serverTimer, up, down, isCut, clientClosed,
               serverClosed, running>>

L == INSTANCE Listener
C == INSTANCE Closer WITH pc <- userPc, called <- closeCalled
T == INSTANCE Timer
K == INSTANCE KeepAlive

-----------------------------------------------------------------------------
(* The properties of the instances, as their modules state them.           *)
OneAtATime == L!OneAtATime
NoLostEvent == L!NoLostEvent
TellsLatest == L!TellsLatest
EachCalledOnce == C!EachCalledOnce
IsOneShot == T!IsOneShot
StaysOpen == K!StaysOpen
DeadIsNoticed == K!DeadIsNoticed

=============================================================================
