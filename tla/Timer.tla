------------------------------- MODULE Timer --------------------------------
(***************************************************************************)
(* zlibTimer.Timer, and TimerNoLock, which is the same without the lock: a *)
(* time.AfterFunc that may be told the time before it has the callback.    *)
(* t is the time at which the inner timer is due.                          *)
(***************************************************************************)
EXTENDS Integers

CONSTANTS Dur,        \* durations given to After
          StopPending,    \* Stop may come between After and SetFn
          MaxNow, MaxRuns \* bounds: the last moment, callbacks

ConstantsOK ==
  Dur \subseteq Nat /\ StopPending \in BOOLEAN /\ {MaxNow, MaxRuns} \subseteq Nat

Nil == -2             \* there is no inner timer
Stopped == -1         \* it is stopped, or has fired

VARIABLES now, t, fn, afterTime, durSetNoStart, runs,
          stopped       \* Stop is the newest call of After and Stop

vars == <<now, t, fn, afterTime, durSetNoStart, runs, stopped>>

Init == /\ now = 0 /\ t = Nil /\ fn = FALSE /\ afterTime = 0
        /\ durSetNoStart = FALSE /\ runs = 0 /\ stopped = FALSE

(* Only the first SetFn counts; it starts the timer if After came before.  *)
FromNow == now + 1                                               \* fault
Remaining == afterTime

SetFn ==
  /\ ~fn
  /\ fn' = TRUE
  /\ IF durSetNoStart
     THEN t' = Remaining /\ durSetNoStart' = FALSE /\ afterTime' = 0
     ELSE UNCHANGED <<t, durSetNoStart, afterTime>>
  /\ UNCHANGED <<now, runs, stopped>>

After(dur) ==
  /\ runs < MaxRuns
  /\ IF t = Nil /\ ~fn
     THEN afterTime' = now + dur /\ durSetNoStart' = TRUE /\ UNCHANGED t
     ELSE t' = now + dur /\ UNCHANGED <<afterTime, durSetNoStart>>
  /\ stopped' = FALSE
  /\ UNCHANGED <<now, fn, runs>>

Stop ==
  /\ durSetNoStart => StopPending
  /\ t' = IF t = Nil THEN Nil ELSE Stopped
  /\ stopped' = TRUE
  /\ UNCHANGED <<now, fn, afterTime, durSetNoStart, runs>>

(* The callback, on a goroutine of its own.                                *)
Fire ==
  /\ t >= 0 /\ t <= now
  /\ t' = Stopped /\ runs' = runs + 1
  /\ UNCHANGED <<now, fn, afterTime, durSetNoStart, stopped>>

Pass ==
  /\ now < MaxNow /\ now' = now + 1
  /\ UNCHANGED <<t, fn, afterTime, durSetNoStart, runs, stopped>>

Next == SetFn \/ Stop \/ Fire \/ Pass \/ \E dur \in Dur : After(dur)

Spec == Init /\ [][Next]_vars

-----------------------------------------------------------------------------
(* SetFn and After may come in either order, and the callback runs once    *)
(* for the newest After, when it is due, and not after a Stop.             *)
Due == IF durSetNoStart THEN afterTime ELSE IF t >= 0 THEN t ELSE -1
Promise == INSTANCE OneShot WITH hasFn <- fn, due <- Due
IsOneShot == Promise!Spec

=============================================================================
