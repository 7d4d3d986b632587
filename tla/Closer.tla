------------------------------- MODULE Closer -------------------------------
(***************************************************************************)
(* zlibCloser.Closer: what both ends of every connection are closed with.  *)
(* Goroutines register callbacks, delete them again, close, and wait for   *)
(* the close channel; lock is held for each part that a single step is.    *)
(***************************************************************************)
EXTENDS Integers, Sequences, SequencesExt

CONSTANTS User,       \* goroutines with a callback of their own
          Caller      \* goroutines that call Close

ConstantsOK == "not yet" \notin User

VARIABLES isClosed, closeFnList,
          closeChan,    \* "nil", "open" or "closed"
          pc,           \* User: "new", "fn", "listed", "deleted" or "done"
          todo,         \* Caller: the callbacks Close has yet to call
          called,       \* how often a callback was called
          waits         \* User: waits for the channel it was given

vars == <<isClosed, closeFnList, closeChan, pc, todo, called, waits>>

NotYet == <<"not yet">>       \* todo before Close, unlike every list

TypeOK ==
  /\ isClosed \in BOOLEAN /\ closeFnList \in Seq(User)
  /\ closeChan \in {"nil", "open", "closed"}
  /\ pc \in [User -> {"new", "fn", "listed", "deleted", "done"}]
  /\ todo \in [Caller -> Seq(User) \cup {NotYet}]
  /\ called \in [User -> Nat] /\ waits \in [User -> BOOLEAN]

Init ==
  /\ isClosed = FALSE /\ closeFnList = <<>> /\ closeChan = "nil"
  /\ pc = [u \in User |-> "new"] /\ todo = [k \in Caller |-> NotYet]
  /\ called = [u \in User |-> 0] /\ waits = [u \in User |-> FALSE]

-----------------------------------------------------------------------------
(* AddOnClose and AddOnClose2: listed, or called at once.                  *)
ListAlways == TRUE                                               \* fault
Lists == ~isClosed

AddOnClose(u) ==
  /\ pc[u] = "new"
  /\ closeFnList' = IF Lists THEN Append(closeFnList, u) ELSE closeFnList
  /\ pc' = [pc EXCEPT ![u] = IF Lists THEN "listed" ELSE "fn"]
  /\ UNCHANGED <<isClosed, closeChan, todo, called, waits>>

CallAtOnce(u) ==
  /\ pc[u] = "fn"
  /\ called' = [called EXCEPT ![u] = @ + 1]
  /\ pc' = [pc EXCEPT ![u] = "done"]
  /\ UNCHANGED <<isClosed, closeFnList, closeChan, todo, waits>>

(* deleteFn: the last of the list takes the place; a callback that Close   *)
(* has taken is called all the same.                                       *)
FillHole(i) == Front([closeFnList EXCEPT ![i] = Last(closeFnList)])

Delete(u) ==
  /\ pc[u] = "listed"
  /\ IF Contains(closeFnList, u)
     THEN /\ closeFnList' = FillHole(CHOOSE i \in DOMAIN closeFnList : closeFnList[i] = u)
          /\ pc' = [pc EXCEPT ![u] = "deleted"]
     ELSE pc' = [pc EXCEPT ![u] = "done"] /\ UNCHANGED closeFnList
  /\ UNCHANGED <<isClosed, closeChan, todo, called, waits>>

(* Close: the first call takes the list, and calls it from its end.        *)
Close(k) ==
  /\ todo[k] = NotYet
  /\ IF isClosed
     THEN /\ todo' = [todo EXCEPT ![k] = <<>>]
          /\ UNCHANGED <<isClosed, closeFnList, closeChan>>
     ELSE /\ isClosed' = TRUE
          /\ closeChan' = IF closeChan = "open" THEN "closed" ELSE closeChan
          /\ todo' = [todo EXCEPT ![k] = closeFnList]
          /\ closeFnList' = <<>>
  /\ UNCHANGED <<pc, called, waits>>

CallLast(k) ==
  /\ todo[k] \notin {NotYet, <<>>}
  /\ called' = [called EXCEPT ![Last(todo[k])] = @ + 1]
  /\ todo' = [todo EXCEPT ![k] = Front(@)]
  /\ UNCHANGED <<isClosed, closeFnList, closeChan, pc, waits>>

(* GetCloseChan, and the end of WaitClose or of a Sleep.                   *)
Made == IF isClosed THEN "closed" ELSE "open"

GetCloseChan(u) ==
  /\ ~waits[u]
  /\ closeChan' = IF closeChan = "nil" THEN Made ELSE closeChan
  /\ waits' = [waits EXCEPT ![u] = TRUE]
  /\ UNCHANGED <<isClosed, closeFnList, pc, todo, called>>

Woken(u) ==
  /\ waits[u] /\ closeChan = "closed"
  /\ waits' = [waits EXCEPT ![u] = FALSE]
  /\ UNCHANGED <<isClosed, closeFnList, closeChan, pc, todo, called>>

-----------------------------------------------------------------------------
UserStep(u) ==
  AddOnClose(u) \/ CallAtOnce(u) \/ Delete(u) \/ GetCloseChan(u) \/ Woken(u)

Next == (\E u \in User : UserStep(u)) \/ (\E k \in Caller : Close(k) \/ CallLast(k))

Spec == Init /\ [][Next]_vars

-----------------------------------------------------------------------------
(* Once a Closer is closed and every call of Close has returned, each      *)
(* callback has been called exactly once, but for one whose deleteFn was   *)
(* in time, and that one not at all; whoever waits is about to be woken.   *)
Returned == isClosed /\ \A k \in Caller : todo[k] \in {NotYet, <<>>}
EachCalledOnce ==
  /\ \A u \in User :
       /\ called[u] <= 1 /\ (pc[u] \in {"new", "deleted"} => called[u] = 0)
       /\ Returned => (called[u] = 1 <=> pc[u] \in {"listed", "done"})
  /\ isClosed => (\A u \in User : waits[u] => closeChan = "closed")

=============================================================================
