------------------------------ MODULE Listener ------------------------------
(***************************************************************************)
(* One listener of a client room: client_listener_t with its SingleUnd.    *)
(* onChangeAsync stores the newest event and asks SingleUnd to run the     *)
(* callback, which runs on a goroutine of its own, never twice at a time.  *)
(*                                                                         *)
(* onChangeAsync is always called with Client.roomLock held, so there is   *)
(* one caller at a time.  Events are numbered in the order in which        *)
(* onRoomValue accepts them; a panic of the callback is recovered and      *)
(* leaves the goroutine where a return would.                              *)
(***************************************************************************)
EXTENDS Naturals

CONSTANTS Thread,     \* goroutines that may run runBgThread
          MaxEv       \* bound: events of a run

ConstantsOK == Thread # {} /\ MaxEv \in Nat

VARIABLES pendingEv,    \* client_listener_t.pendingEv, 0 is nil
          isRunning, hasMoreCall,       \* SingleUnd
          caller,       \* onChangeAsync: "idle", or "do" before SingleUnd.Do
          pc,           \* of every runBgThread
          ev2,          \* the event it loaded
          told          \* the event onChangeFn was called for last

vars == <<pendingEv, isRunning, hasMoreCall, caller, pc, ev2, told>>

Event == 0 .. MaxEv

TypeOK ==
  /\ pendingEv \in Event
  /\ isRunning \in BOOLEAN /\ hasMoreCall \in BOOLEAN
  /\ caller \in {"idle", "do"}
  /\ pc \in [Thread -> {"off", "load", "call", "end"}]
  /\ ev2 \in [Thread -> Event]
  /\ told \in Event

Init ==
  /\ pendingEv = 0
  /\ isRunning = FALSE /\ hasMoreCall = FALSE
  /\ caller = "idle"
  /\ pc = [t \in Thread |-> "off"]
  /\ ev2 = [t \in Thread |-> 0]
  /\ told = 0

-----------------------------------------------------------------------------
(* onChangeAsync, first half.                                              *)
Store ==
  /\ caller = "idle"
  /\ pendingEv < MaxEv
  /\ pendingEv' = pendingEv + 1
  /\ caller' = "do"
  /\ UNCHANGED <<isRunning, hasMoreCall, pc, ev2, told>>

(* SingleUnd.Do: the call is queued already, or queued now, or starts.     *)
SkipRunning == FALSE                                             \* fault
Queues == isRunning

DoQueue ==
  /\ caller = "do"
  /\ isRunning
  /\ caller' = "idle"
  /\ hasMoreCall' = Queues
  /\ UNCHANGED <<pendingEv, isRunning, pc, ev2, told>>

ForgetRunning == FALSE                                           \* fault
Running == TRUE

DoStart(t) ==
  /\ caller = "do"
  /\ ~isRunning
  /\ pc[t] = "off"
  /\ caller' = "idle"
  /\ isRunning' = Running
  /\ pc' = [pc EXCEPT ![t] = "load"]
  /\ UNCHANGED <<pendingEv, hasMoreCall, ev2, told>>

(* The function onChangeAsync passes to Do: load the event, call back.     *)
Load(t) ==
  /\ pc[t] = "load"
  /\ pc' = [pc EXCEPT ![t] = "call"]
  /\ ev2' = [ev2 EXCEPT ![t] = pendingEv]
  /\ UNCHANGED <<pendingEv, isRunning, hasMoreCall, caller, told>>

Call(t) ==
  /\ pc[t] = "call"
  /\ pc' = [pc EXCEPT ![t] = "end"]
  /\ told' = ev2[t]
  /\ UNCHANGED <<pendingEv, isRunning, hasMoreCall, caller, ev2>>

(* runBgThread, after fn: once more if it was queued meanwhile.            *)
IgnoreMore == FALSE                                              \* fault
More == hasMoreCall

End(t) ==
  /\ pc[t] = "end"
  /\ hasMoreCall' = FALSE
  /\ isRunning' = More
  /\ pc' = [pc EXCEPT ![t] = IF More THEN "load" ELSE "off"]
  /\ UNCHANGED <<pendingEv, caller, ev2, told>>

-----------------------------------------------------------------------------
ThreadStep(t) == Load(t) \/ Call(t) \/ End(t)
Do == DoQueue \/ \E t \in Thread : DoStart(t)

Next == Store \/ Do \/ \E t \in Thread : ThreadStep(t)

Spec == Init /\ [][Next]_vars

(* Goroutines that exist run on; that a callback returns is up to the      *)
(* application, and SingleUnd promises nothing if it never does.           *)
FairSpec == Spec /\ WF_vars(Do) /\ \A t \in Thread : WF_vars(ThreadStep(t))

-----------------------------------------------------------------------------
(* The callback never runs twice at the same time.                         *)
Active(t) == pc[t] # "off"
OneAtATime == \A s, t \in Thread : Active(s) /\ Active(t) => s = t

(* No event is lost between a call that finds the goroutine running and    *)
(* that goroutine's decision to end: whatever the callback has not been    *)
(* called for, some step that is already certain will look at.             *)
WillTell ==
  \/ caller = "do"
  \/ hasMoreCall
  \/ \E t \in Thread : pc[t] = "load" \/ (pc[t] = "call" /\ ev2[t] = pendingEv)
NoLostEvent == told # pendingEv => WillTell

(* The comment of onChangeAsync (client_room.go:126-128): only the newest  *)
(* of several quick calls is executed, none is lost; and the callback is   *)
(* never called for an older event than before.                            *)
Promise == INSTANCE LatestEvent WITH latest <- pendingEv
TellsLatest == Promise!Spec

=============================================================================
