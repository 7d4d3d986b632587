----------------------------- MODULE ToolProofs -----------------------------
(***************************************************************************)
(* Proofs about the parts of module Parts, for any constants that go       *)
(* together: the timer, the closer, the keep-alive, a listener and the     *)
(* ring buffer.                                                            *)
(***************************************************************************)
EXTENDS Parts, RingProofs

-----------------------------------------------------------------------------
(* The timer.  There is an inner timer only when there is a callback, and  *)
(* a duration waits for a callback only as long as there is none.          *)
TimerTypes ==
  /\ now \in Nat /\ t \in {T!Nil, T!Stopped} \cup Nat
  /\ afterTime \in Nat /\ runs \in Nat

Handed ==
  /\ t # T!Nil => fn
  /\ durSetNoStart => ~fn /\ t = T!Nil

TimerInv == TimerTypes /\ Handed

LEMMA InitTimer == ASSUME T!Init PROVE TimerInv
<1>1. TimerTypes
  BY DEF T!Init, TimerTypes
<1>2. Handed
  BY DEF T!Init, Handed
<1> QED
  BY <1>1, <1>2 DEF TimerInv

LEMMA TimerTypesPreserved ==
  ASSUME T!ConstantsOK, TimerInv, [T!Next]_(T!vars)
  PROVE  TimerTypes'
<1> USE DEF TimerInv, TimerTypes, T!Nil, T!Stopped
<1>1. CASE T!SetFn
  BY <1>1 DEF T!SetFn, T!Remaining
<1>2. CASE T!Stop
  BY <1>2 DEF T!Stop
<1>3. CASE T!Fire
  BY <1>3 DEF T!Fire
<1>4. CASE T!Pass
  BY <1>4 DEF T!Pass
<1>5. ASSUME NEW dur \in Dur, T!After(dur) PROVE TimerTypes'
  BY <1>5 DEF T!After, T!ConstantsOK
<1>6. CASE UNCHANGED T!vars
  BY <1>6 DEF T!vars
<1> QED
  BY <1>1, <1>2, <1>3, <1>4, <1>5, <1>6 DEF T!Next

LEMMA HandedPreserved ==
  ASSUME TimerInv, [T!Next]_(T!vars)
  PROVE  Handed'
<1> USE DEF TimerInv, Handed
<1>1. CASE T!SetFn
  BY <1>1 DEF T!SetFn
<1>2. CASE T!Stop
  BY <1>2 DEF T!Stop
<1>3. CASE T!Fire
  BY <1>3 DEF T!Fire, T!Nil
<1>4. CASE T!Pass
  BY <1>4 DEF T!Pass
<1>5. ASSUME NEW dur \in Dur, T!After(dur) PROVE Handed'
  BY <1>5 DEF T!After
<1>6. CASE UNCHANGED T!vars
  BY <1>6 DEF T!vars
<1> QED
  BY <1>1, <1>2, <1>3, <1>4, <1>5, <1>6 DEF T!Next

(* Every step of the timer is one of its promise, or none.                 *)
LEMMA StepIsPromised ==
  ASSUME T!ConstantsOK, ~StopPending, TimerInv, [T!Next]_(T!vars)
  PROVE  [T!Promise!Next]_<<now, fn, T!Due, stopped, runs>>
<1> USE DEF TimerInv, TimerTypes, Handed, T!Nil, T!Stopped, T!Due
<1>1. CASE T!SetFn
  <2>1. T!Due' = T!Due
    BY <1>1 DEF T!SetFn, T!Remaining
  <2> QED
    BY <1>1, <2>1 DEF T!SetFn, T!Promise!Next, T!Promise!SetFn
<1>2. CASE T!Stop
  <2>1. T!Due' = -1
    BY <1>2 DEF T!Stop
  <2> QED
    BY <1>2, <2>1 DEF T!Stop, T!Promise!Next, T!Promise!Stop, T!Promise!Never
<1>3. CASE T!Fire
  <2>1. fn /\ T!Due = t /\ T!Due <= now /\ T!Due # -1 /\ T!Due' = -1
    BY <1>3 DEF T!Fire
  <2> QED
    BY <1>3, <2>1 DEF T!Fire, T!Promise!Next, T!Promise!Fire, T!Promise!Never
<1>4. CASE T!Pass
  BY <1>4 DEF T!Pass, T!Promise!Next, T!Promise!Pass
<1>5. ASSUME NEW dur \in Dur, T!After(dur) PROVE T!Promise!After
  <2>1. T!Due' = now + dur
    BY <1>5 DEF T!After, T!ConstantsOK
  <2> QED
    BY <1>5, <2>1 DEF T!After, T!Promise!After
<1>6. CASE UNCHANGED T!vars
  BY <1>6 DEF T!vars
<1> QED
  BY <1>1, <1>2, <1>3, <1>4, <1>5, <1>6 DEF T!Next, T!Promise!Next

(* A Timer keeps its promise as long as Stop does not come between After   *)
(* and SetFn, as it never does in src/: the callback runs once for the     *)
(* newest After, not early, not without SetFn, and not after Stop.         *)
THEOREM IsOneShotCorrect ==
  ASSUME T!ConstantsOK, ~StopPending
  PROVE  T!Spec => IsOneShot
<1>1. T!Init => TimerInv
  BY InitTimer
<1>2. TimerInv /\ [T!Next]_(T!vars) => TimerInv'
  BY TimerTypesPreserved, HandedPreserved DEF TimerInv
<1>3. T!Init => T!Promise!Init
  BY DEF T!Init, T!Promise!Init, T!Promise!Never, T!Due, T!Nil
<1>4. TimerInv /\ [T!Next]_(T!vars) => [T!Promise!Next]_<<now, fn, T!Due, stopped, runs>>
  BY StepIsPromised
<1> QED
  BY <1>1, <1>2, <1>3, <1>4, PTL DEF IsOneShot, T!Spec, T!IsOneShot, T!Promise!Spec

-----------------------------------------------------------------------------
(* The closer.                                                             *)
Occurs(u, s) == \E i \in DOMAIN s : s[i] = u
Distinct(s) == \A i, j \in DOMAIN s : s[i] = s[j] => i = j

(* What a call of Close has yet to call, and who is still to be called.    *)
Rest(k) == IF todo[k] = C!NotYet THEN <<>> ELSE todo[k]
ToBeCalled(u) == Occurs(u, closeFnList) \/ \E k \in Caller : Occurs(u, Rest(k))

CloserTypes ==
  /\ isClosed \in BOOLEAN
  /\ closeFnList \in Seq(User)
  /\ closeChan \in {"nil", "open", "closed"}
  /\ userPc \in [User -> {"new", "fn", "listed", "deleted", "done"}]
  /\ todo \in [Caller -> Seq(User) \cup {C!NotYet}]
  /\ closeCalled \in [User -> {0, 1}]
  /\ waits \in [User -> BOOLEAN]

(* One call of Close has the list, once the Closer is closed.              *)
OneList ==
  /\ isClosed => closeFnList = <<>>
  /\ ~isClosed => \A k \in Caller : Rest(k) = <<>>
  /\ \A k, l \in Caller : Rest(k) # <<>> /\ Rest(l) # <<>> => k = l
  /\ Distinct(closeFnList) /\ \A k \in Caller : Distinct(Rest(k))

(* A callback that Close or deleteFn is still to find was not called, and  *)
(* one that was listed for good is to be called or was.                    *)
CalledOrListed ==
  \A u \in User :
    /\ ToBeCalled(u) => closeCalled[u] = 0
    /\ userPc[u] \in {"new", "fn", "deleted"} => closeCalled[u] = 0 /\ ~ToBeCalled(u)
    /\ userPc[u] \in {"listed", "done"} => closeCalled[u] = 1 \/ ToBeCalled(u)

(* Whoever waits has a channel, which does not stay open.                  *)
ChanCloses ==
  /\ isClosed => closeChan # "open"
  /\ \A u \in User : waits[u] => closeChan # "nil"

CloserInv == CloserTypes /\ OneList /\ CalledOrListed /\ ChanCloses

(* What Front and FillHole take away.                                      *)
LEMMA FrontProperties ==
  ASSUME NEW S, NEW s \in Seq(S), s # <<>>
  PROVE  /\ C!Front(s) \in Seq(S) /\ DOMAIN C!Front(s) = 1 .. Len(s) - 1
         /\ \A i \in 1 .. Len(s) - 1 : C!Front(s)[i] = s[i]
         /\ Len(s) \in Nat \ {0} /\ DOMAIN s = 1 .. Len(s)
         /\ C!Last(s) = s[Len(s)] /\ C!Last(s) \in S
  BY DEF C!Front, C!Last

LEMMA FrontTakesLast ==
  ASSUME NEW S, NEW s \in Seq(S), s # <<>>, Distinct(s)
  PROVE  /\ Distinct(C!Front(s)) /\ Occurs(C!Last(s), s) /\ ~Occurs(C!Last(s), C!Front(s))
         /\ \A u : u # C!Last(s) => (Occurs(u, C!Front(s)) <=> Occurs(u, s))
<1> DEFINE n == Len(s)
           w == C!Front(s)
<1>1. /\ n \in Nat \ {0} /\ DOMAIN s = 1 .. n /\ DOMAIN w = 1 .. n - 1
      /\ \A i \in 1 .. n - 1 : w[i] = s[i]
      /\ C!Last(s) = s[n]
  BY FrontProperties
<1> HIDE DEF w, n
<1>2. Distinct(w)
  BY <1>1 DEF Distinct
<1>3. Occurs(s[n], s) /\ ~Occurs(s[n], w)
  BY <1>1 DEF Distinct, Occurs
<1>4. ASSUME NEW u, u # s[n] PROVE Occurs(u, w) <=> Occurs(u, s)
  <2>1. \A i \in 1 .. n : s[i] = u => i \in 1 .. n - 1
    BY <1>1, <1>4
  <2> QED
    BY <1>1, <2>1 DEF Occurs
<1> QED
  BY <1>1, <1>2, <1>3, <1>4 DEF w

(* FillHole puts the last in the place of position i, and forgets the last *)
(* place.                                                                  *)
Filled(s, i) == C!Front([s EXCEPT ![i] = C!Last(s)])

LEMMA HoleFilled ==
  ASSUME NEW S, NEW s \in Seq(S), Distinct(s), NEW i \in DOMAIN s
  PROVE  /\ Filled(s, i) \in Seq(S) /\ Distinct(Filled(s, i))
         /\ \A u : Occurs(u, Filled(s, i)) <=> Occurs(u, s) /\ u # s[i]
<1> DEFINE n == Len(s)
           w == Filled(s, i)
           r == [s EXCEPT ![i] = C!Last(s)]
<1>0. s # <<>>
  OBVIOUS
<1>1. n \in Nat \ {0} /\ DOMAIN s = 1 .. n /\ C!Last(s) = s[n] /\ s[n] \in S
  BY <1>0, FrontProperties
<1>2. r \in Seq(S) /\ Len(r) = n /\ DOMAIN r = 1 .. n
      /\ \A j \in 1 .. n : r[j] = IF j = i THEN s[n] ELSE s[j]
  BY <1>1, ExceptSeq
<1>a. w = C!Front(r)
  BY DEF Filled
<1> HIDE DEF r, w
<1>3. r # <<>>
  BY <1>1, <1>2
<1>4. w \in Seq(S) /\ DOMAIN w = 1 .. n - 1 /\ \A j \in 1 .. n - 1 : w[j] = r[j]
  BY <1>2, <1>3, <1>a, FrontProperties
<1>5. \A j \in 1 .. n - 1 : w[j] = IF j = i THEN s[n] ELSE s[j]
  <2>1. \A j \in 1 .. n - 1 : j \in 1 .. n
    BY <1>1
  <2> QED
    BY <1>2, <1>4, <2>1
<1>6. \A j, k \in 1 .. n : s[j] = s[k] => j = k
  BY <1>1 DEF Distinct
<1> HIDE DEF n
<1>7. i \in 1 .. n /\ n \in 1 .. n /\ \A j \in 1 .. n - 1 : j \in 1 .. n /\ j # n
  BY <1>1
<1>8. Distinct(w)
  <2> SUFFICES ASSUME NEW j \in 1 .. n - 1, NEW k \in 1 .. n - 1, w[j] = w[k]
               PROVE  j = k
    BY <1>4 DEF Distinct
  <2> QED
    BY <1>5, <1>6, <1>7
<1>9. ASSUME NEW u, Occurs(u, w) PROVE Occurs(u, s) /\ u # s[i]
  <2>1. PICK j \in 1 .. n - 1 : w[j] = u
    BY <1>4, <1>9 DEF Occurs
  <2>2. CASE j = i
    <3>1. u = s[n] /\ i # n
      BY <1>5, <1>7, <2>1, <2>2
    <3> QED
      BY <1>1, <1>6, <1>7, <3>1 DEF Occurs
  <2>3. CASE j # i
    <3>1. u = s[j] /\ j \in 1 .. n
      BY <1>5, <1>7, <2>1, <2>3
    <3> QED
      BY <1>1, <1>6, <1>7, <2>3, <3>1 DEF Occurs
  <2> QED
    BY <2>2, <2>3
<1>10. ASSUME NEW u, Occurs(u, s), u # s[i] PROVE Occurs(u, w)
  <2>1. PICK j \in 1 .. n : s[j] = u
    BY <1>1, <1>10 DEF Occurs
  <2>2. j # i
    BY <1>10, <2>1
  <2>3. CASE j = n
    <3>1. i \in 1 .. n - 1
      BY <1>1, <1>7, <2>2, <2>3
    <3>2. w[i] = u
      BY <1>5, <2>1, <2>3, <3>1
    <3> QED
      BY <1>4, <3>1, <3>2 DEF Occurs
  <2>4. CASE j # n
    <3>1. j \in 1 .. n - 1
      BY <1>1, <2>1, <2>4
    <3>2. w[j] = u
      BY <1>5, <2>1, <2>2, <3>1
    <3> QED
      BY <1>4, <3>1, <3>2 DEF Occurs
  <2> QED
    BY <2>3, <2>4
<1> QED
  BY <1>4, <1>8, <1>9, <1>10 DEF w

LEMMA Appended ==
  ASSUME NEW S, NEW s \in Seq(S), NEW u \in S
  PROVE  /\ Append(s, u) \in Seq(S)
         /\ \A v : Occurs(v, Append(s, u)) <=> Occurs(v, s) \/ v = u
         /\ Distinct(s) /\ ~Occurs(u, s) => Distinct(Append(s, u))
<1> DEFINE w == Append(s, u)
           n == Len(s)
<1>1. /\ n \in Nat /\ DOMAIN s = 1 .. n /\ w \in Seq(S) /\ DOMAIN w = 1 .. n + 1
      /\ w[n + 1] = u /\ \A i \in 1 .. n : w[i] = s[i]
  OBVIOUS
<1> HIDE DEF w, n
<1>2. \A i \in 1 .. n + 1 : i = n + 1 \/ i \in 1 .. n
  BY <1>1
<1>3. n + 1 \in 1 .. n + 1 /\ \A i \in 1 .. n : i \in 1 .. n + 1
  BY <1>1
<1>4. \A v : Occurs(v, w) <=> Occurs(v, s) \/ v = u
  BY <1>1, <1>2, <1>3 DEF Occurs
<1>5. Distinct(s) /\ ~Occurs(u, s) => Distinct(w)
  BY <1>1, <1>2 DEF Distinct, Occurs
<1> QED
  BY <1>1, <1>4, <1>5 DEF w

LEMMA EmptyHasNone == Distinct(<<>>) /\ \A u : ~Occurs(u, <<>>)
  BY DEF Distinct, Occurs

LEMMA OnlyOne == ASSUME NEW S, NEW s \in Seq(S), Len(s) = 1 PROVE s[1] \in S
<1>1. 1 \in 1 .. Len(s)
  OBVIOUS
<1> QED
  BY <1>1, ElementOfSeq

LEMMA RestOf ==
  ASSUME C!ConstantsOK, CloserTypes, NEW k \in Caller
  PROVE  /\ Rest(k) \in Seq(User)
         /\ \A s \in Seq(User) : s # C!NotYet
<1>1. \A s \in Seq(User) : s # C!NotYet
  <2> SUFFICES ASSUME <<"not yet">> \in Seq(User) PROVE FALSE
    BY DEF C!NotYet
  <2>1. Len(<<"not yet">>) = 1 /\ <<"not yet">>[1] = "not yet"
    OBVIOUS
  <2> QED
    BY <2>1, OnlyOne DEF C!ConstantsOK
<1>2. Rest(k) \in Seq(User)
  BY DEF Rest, CloserTypes
<1> QED
  BY <1>1, <1>2

(* A step that leaves the lists as they are.                               *)
LEMMA ListsKept ==
  ASSUME UNCHANGED <<closeFnList, todo, isClosed>>
  PROVE  (OneList => OneList') /\ \A u \in User : ToBeCalled(u)' <=> ToBeCalled(u)
<1>1. \A k \in Caller : Rest(k)' = Rest(k)
  BY DEF Rest
<1> QED
  BY <1>1 DEF OneList, ToBeCalled

LEMMA AddOnClosePreserves ==
  ASSUME C!ConstantsOK, CloserInv, NEW u \in User, C!AddOnClose(u)
  PROVE  CloserInv'
<1>1. /\ userPc[u] = "new" /\ ~ToBeCalled(u) /\ closeCalled[u] = 0
      /\ userPc' = [userPc EXCEPT ![u] = IF isClosed THEN "fn" ELSE "listed"]
      /\ closeFnList' = IF isClosed THEN closeFnList ELSE Append(closeFnList, u)
      /\ UNCHANGED <<isClosed, closeChan, todo, closeCalled, waits>>
  BY DEF C!AddOnClose, C!Lists, CloserInv, CalledOrListed
<1>t. CloserTypes /\ closeFnList \in Seq(User)
  BY DEF CloserInv, CloserTypes
<1>r. \A k \in Caller : Rest(k)' = Rest(k)
  BY <1>1 DEF Rest
<1>2. \A v \in User : ToBeCalled(v)' <=> ToBeCalled(v) \/ (v = u /\ ~isClosed)
  BY <1>1, <1>t, <1>r, Appended DEF ToBeCalled
<1>3. CloserTypes'
  <2>1. closeFnList' \in Seq(User)
    BY <1>1, <1>t, Appended
  <2> QED
    BY <1>1, <1>t, <2>1 DEF CloserTypes
<1>4. OneList'
  BY <1>1, <1>t, <1>r, Appended DEF CloserInv, OneList, ToBeCalled
<1>5. CalledOrListed'
  <2> SUFFICES ASSUME NEW v \in User
               PROVE  /\ ToBeCalled(v)' => closeCalled'[v] = 0
                      /\ userPc'[v] \in {"new", "fn", "deleted"} =>
                           closeCalled'[v] = 0 /\ ~ToBeCalled(v)'
                      /\ userPc'[v] \in {"listed", "done"} =>
                           closeCalled'[v] = 1 \/ ToBeCalled(v)'
    BY DEF CalledOrListed
  <2>1. CASE v = u
    BY <1>1, <1>2, <1>t, <2>1 DEF CloserTypes
  <2>2. CASE v # u
    BY <1>1, <1>2, <1>t, <2>2 DEF CloserInv, CloserTypes, CalledOrListed
  <2> QED
    BY <2>1, <2>2
<1>6. ChanCloses'
  BY <1>1 DEF CloserInv, ChanCloses
<1> QED
  BY <1>3, <1>4, <1>5, <1>6 DEF CloserInv

LEMMA CallAtOncePreserves ==
  ASSUME C!ConstantsOK, CloserInv, NEW u \in User, C!CallAtOnce(u)
  PROVE  CloserInv'
<1>1. /\ userPc[u] = "fn" /\ closeCalled[u] = 0 /\ ~ToBeCalled(u)
      /\ closeCalled' = [closeCalled EXCEPT ![u] = @ + 1]
      /\ userPc' = [userPc EXCEPT ![u] = "done"]
      /\ UNCHANGED <<isClosed, closeFnList, closeChan, todo, waits>>
  BY DEF C!CallAtOnce, CloserInv, CalledOrListed
<1>t. CloserTypes
  BY DEF CloserInv
<1>2. OneList' /\ \A v \in User : ToBeCalled(v)' <=> ToBeCalled(v)
  BY <1>1, ListsKept DEF CloserInv
<1>3. \A v \in User : closeCalled'[v] = IF v = u THEN 1 ELSE closeCalled[v]
  BY <1>1, <1>t DEF CloserTypes
<1>4. CloserTypes'
  <2>1. closeCalled' \in [User -> {0, 1}]
    BY <1>1, <1>t DEF CloserTypes
  <2> QED
    BY <1>1, <1>t, <2>1 DEF CloserTypes
<1>5. CalledOrListed'
  BY <1>1, <1>2, <1>3, <1>t DEF CloserInv, CloserTypes, CalledOrListed
<1>6. ChanCloses'
  BY <1>1 DEF CloserInv, ChanCloses
<1> QED
  BY <1>2, <1>4, <1>5, <1>6 DEF CloserInv

LEMMA DeletePreserves ==
  ASSUME C!ConstantsOK, CloserInv, NEW u \in User, C!Delete(u)
  PROVE  CloserInv'
<1>t. CloserTypes /\ closeFnList \in Seq(User) /\ DOMAIN closeFnList = 1 .. Len(closeFnList)
  BY DEF CloserInv, CloserTypes
<1>1. userPc[u] = "listed" /\ UNCHANGED <<isClosed, closeChan, todo, closeCalled, waits>>
  BY DEF C!Delete
<1>r. \A k \in Caller : Rest(k)' = Rest(k)
  BY <1>1 DEF Rest
<1>2. CASE Occurs(u, closeFnList)
  <2>1. C!Contains(closeFnList, u)
    BY <1>2, <1>t DEF Occurs, C!Contains
  <2>2. PICK i \in DOMAIN closeFnList : closeFnList[i] = u /\ closeFnList' = C!FillHole(i)
    BY <1>2, <2>1 DEF C!Delete, Occurs
  <2>3. userPc' = [userPc EXCEPT ![u] = "deleted"]
    BY <2>1 DEF C!Delete
  <2>4. /\ closeFnList' \in Seq(User) /\ Distinct(closeFnList')
        /\ \A v : Occurs(v, closeFnList') <=> Occurs(v, closeFnList) /\ v # u
    <3>1. closeFnList' = Filled(closeFnList, i)
      BY <2>2 DEF C!FillHole, Filled
    <3>2. Distinct(closeFnList)
      BY DEF CloserInv, OneList
    <3>3. /\ Filled(closeFnList, i) \in Seq(User) /\ Distinct(Filled(closeFnList, i))
          /\ \A v : Occurs(v, Filled(closeFnList, i)) <=>
                     Occurs(v, closeFnList) /\ v # closeFnList[i]
      BY <1>t, <3>2, HoleFilled
    <3> QED
      BY <2>2, <3>1, <3>3
  <2>5. ~isClosed /\ \A k \in Caller : Rest(k) = <<>>
    BY <1>2, EmptyHasNone DEF CloserInv, OneList
  <2>6. \A v \in User : ToBeCalled(v)' <=> ToBeCalled(v) /\ v # u
    BY <1>r, <2>4, <2>5, EmptyHasNone DEF ToBeCalled
  <2>7. CloserTypes'
    BY <1>1, <1>t, <2>3, <2>4 DEF CloserTypes
  <2>8. OneList'
    BY <1>1, <1>r, <2>4, <2>5 DEF CloserInv, OneList
  <2>9. closeCalled[u] = 0
    BY <1>2 DEF CloserInv, CalledOrListed, ToBeCalled
  <2>10. CalledOrListed'
    BY <1>1, <1>t, <2>3, <2>6, <2>9 DEF CloserInv, CloserTypes, CalledOrListed
  <2>11. ChanCloses'
    BY <1>1 DEF CloserInv, ChanCloses
  <2> QED
    BY <2>7, <2>8, <2>10, <2>11 DEF CloserInv
<1>3. CASE ~Occurs(u, closeFnList)
  <2>1. ~C!Contains(closeFnList, u)
    BY <1>3, <1>t DEF Occurs, C!Contains
  <2>2. userPc' = [userPc EXCEPT ![u] = "done"] /\ UNCHANGED closeFnList
    BY <2>1 DEF C!Delete
  <2>3. OneList' /\ \A v \in User : ToBeCalled(v)' <=> ToBeCalled(v)
    BY <1>1, <2>2, ListsKept DEF CloserInv
  <2>4. CloserTypes'
    BY <1>1, <1>t, <2>2 DEF CloserTypes
  <2>5. CalledOrListed'
    BY <1>1, <1>t, <2>2, <2>3 DEF CloserInv, CloserTypes, CalledOrListed
  <2>6. ChanCloses'
    BY <1>1 DEF CloserInv, ChanCloses
  <2> QED
    BY <2>3, <2>4, <2>5, <2>6 DEF CloserInv
<1> QED
  BY <1>2, <1>3

LEMMA ClosePreserves ==
  ASSUME C!ConstantsOK, CloserInv, NEW k \in Caller, C!Close(k)
  PROVE  CloserInv'
<1>t. CloserTypes /\ closeFnList \in Seq(User)
  BY DEF CloserInv, CloserTypes
<1>1. todo[k] = C!NotYet /\ Rest(k) = <<>> /\ UNCHANGED <<userPc, closeCalled, waits>>
  BY DEF C!Close, Rest
<1>2. CASE isClosed
  <2>1. /\ todo' = [todo EXCEPT ![k] = <<>>]
        /\ UNCHANGED <<isClosed, closeFnList, closeChan>>
    BY <1>2 DEF C!Close
  <2>2. \A l \in Caller : Rest(l)' = Rest(l)
    BY <1>1, <1>t, <2>1 DEF Rest, CloserTypes
  <2>3. CloserTypes'
    BY <1>1, <1>t, <2>1 DEF CloserTypes
  <2>4. OneList' /\ \A u \in User : ToBeCalled(u)' <=> ToBeCalled(u)
    BY <2>1, <2>2 DEF CloserInv, OneList, ToBeCalled
  <2>5. CalledOrListed'
    BY <1>1, <2>4 DEF CloserInv, CalledOrListed
  <2>6. ChanCloses'
    BY <1>1, <2>1 DEF CloserInv, ChanCloses
  <2> QED
    BY <2>3, <2>4, <2>5, <2>6 DEF CloserInv
<1>3. CASE ~isClosed
  <2>1. /\ isClosed' = TRUE /\ closeFnList' = <<>>
        /\ todo' = [todo EXCEPT ![k] = closeFnList]
        /\ closeChan' = IF closeChan = "open" THEN "closed" ELSE closeChan
    BY <1>3 DEF C!Close
  <2>2. Rest(k)' = closeFnList
    BY <1>t, <2>1, RestOf DEF Rest, CloserTypes
  <2>3. \A l \in Caller : Rest(l) = <<>> /\ (l # k => Rest(l)' = <<>>)
    BY <1>3, <1>t, <2>1 DEF Rest, CloserTypes, CloserInv, OneList
  <2>4. CloserTypes'
    <3>1. todo' \in [Caller -> Seq(User) \cup {C!NotYet}]
      BY <1>t, <2>1 DEF CloserTypes
    <3>2. closeFnList' \in Seq(User)
      BY <2>1
    <3> QED
      BY <1>1, <1>t, <2>1, <3>1, <3>2 DEF CloserTypes
  <2>5. OneList'
    <3>1. Distinct(closeFnList)
      BY DEF CloserInv, OneList
    <3>2. \A l \in Caller : Rest(l)' # <<>> => l = k
      BY <2>3
    <3>3. \A l \in Caller : Distinct(Rest(l))'
      BY <2>2, <2>3, <3>1, EmptyHasNone DEF Distinct
    <3>4. Distinct(closeFnList)'
      BY <2>1, EmptyHasNone DEF Distinct
    <3> QED
      BY <2>1, <3>2, <3>3, <3>4 DEF OneList
  <2>6. \A u \in User : ToBeCalled(u)' <=> ToBeCalled(u)
    <3>1. ASSUME NEW u \in User PROVE ToBeCalled(u) <=> Occurs(u, closeFnList)
      BY <2>3, EmptyHasNone DEF ToBeCalled
    <3>2. ASSUME NEW u \in User PROVE ToBeCalled(u)' <=> Occurs(u, closeFnList)
      <4>1. ~Occurs(u, closeFnList')
        BY <2>1, EmptyHasNone
      <4>2. \A l \in Caller : Occurs(u, Rest(l)') <=> l = k /\ Occurs(u, closeFnList)
        BY <2>2, <2>3, EmptyHasNone
      <4> QED
        BY <4>1, <4>2 DEF ToBeCalled
    <3> QED
      BY <3>1, <3>2
  <2>7. CalledOrListed'
    BY <1>1, <2>6 DEF CloserInv, CalledOrListed
  <2>8. ChanCloses'
    BY <1>1, <1>t, <2>1 DEF CloserInv, CloserTypes, ChanCloses
  <2> QED
    BY <2>4, <2>5, <2>7, <2>8 DEF CloserInv
<1> QED
  BY <1>2, <1>3, <1>t DEF CloserTypes

LEMMA CallLastPreserves ==
  ASSUME C!ConstantsOK, CloserInv, NEW k \in Caller, C!CallLast(k)
  PROVE  CloserInv'
<1> DEFINE s == todo[k]
           x == C!Last(s)
<1>t. CloserTypes
  BY DEF CloserInv
<1>1. /\ s \in Seq(User) /\ s # <<>> /\ Rest(k) = s
      /\ closeCalled' = [closeCalled EXCEPT ![x] = @ + 1]
      /\ todo' = [todo EXCEPT ![k] = C!Front(s)]
      /\ UNCHANGED <<isClosed, closeFnList, closeChan, userPc, waits>>
  BY <1>t DEF C!CallLast, Rest, CloserTypes
<1>2. x \in User /\ C!Front(s) \in Seq(User)
  BY <1>1, FrontProperties
<1>3. /\ Distinct(C!Front(s)) /\ Occurs(x, s) /\ ~Occurs(x, C!Front(s))
      /\ \A u : u # x => (Occurs(u, C!Front(s)) <=> Occurs(u, s))
  <2>1. Distinct(s)
    BY <1>1 DEF CloserInv, OneList
  <2> QED
    BY <1>1, <2>1, FrontTakesLast
<1> HIDE DEF x
<1>4. isClosed /\ closeFnList = <<>> /\ \A l \in Caller : l # k => Rest(l) = <<>>
  BY <1>1 DEF CloserInv, OneList
<1>5. Rest(k)' = C!Front(s) /\ \A l \in Caller : l # k => Rest(l)' = <<>>
  <2>1. C!Front(s) # C!NotYet
    BY <1>2, <1>t, RestOf
  <2> QED
    BY <1>1, <1>4, <1>t, <2>1 DEF Rest, CloserTypes
<1>6. \A u \in User : ToBeCalled(u) <=> Occurs(u, s)
  BY <1>1, <1>4, EmptyHasNone DEF ToBeCalled
<1>7. \A u \in User : ToBeCalled(u)' <=> Occurs(u, C!Front(s))
  <2>1. \A u : ~Occurs(u, closeFnList')
    BY <1>1, <1>4, EmptyHasNone
  <2>2. \A u : \A l \in Caller : Occurs(u, Rest(l)') <=> l = k /\ Occurs(u, C!Front(s))
    BY <1>5, EmptyHasNone
  <2> QED
    BY <2>1, <2>2 DEF ToBeCalled
<1>8. closeCalled[x] = 0
  BY <1>2, <1>3, <1>6 DEF CloserInv, CalledOrListed
<1>9. \A u \in User : closeCalled'[u] = IF u = x THEN 1 ELSE closeCalled[u]
  BY <1>1, <1>8, <1>t DEF CloserTypes
<1>10. CloserTypes'
  <2>1. closeCalled' \in [User -> {0, 1}]
    BY <1>1, <1>2, <1>8, <1>t DEF CloserTypes
  <2>2. todo' \in [Caller -> Seq(User) \cup {C!NotYet}]
    BY <1>1, <1>2, <1>t DEF CloserTypes
  <2> QED
    BY <1>1, <1>t, <2>1, <2>2 DEF CloserTypes
<1>11. OneList'
  <2>1. \A l \in Caller : Distinct(Rest(l))'
    BY <1>3, <1>5, EmptyHasNone DEF Distinct
  <2>2. Distinct(closeFnList)'
    BY <1>1, <1>4, EmptyHasNone DEF Distinct
  <2>3. \A l \in Caller : Rest(l)' # <<>> => l = k
    BY <1>5
  <2> QED
    BY <1>1, <1>4, <2>1, <2>2, <2>3 DEF OneList
<1>12. CalledOrListed'
  <2> SUFFICES ASSUME NEW u \in User
               PROVE  /\ ToBeCalled(u)' => closeCalled'[u] = 0
                      /\ userPc'[u] \in {"new", "fn", "deleted"} =>
                           closeCalled'[u] = 0 /\ ~ToBeCalled(u)'
                      /\ userPc'[u] \in {"listed", "done"} =>
                           closeCalled'[u] = 1 \/ ToBeCalled(u)'
    BY DEF CalledOrListed
  <2>1. CASE u = x
    <3>1. ~ToBeCalled(u)' /\ closeCalled'[u] = 1
      BY <1>3, <1>7, <1>9, <2>1
    <3>2. userPc[u] \notin {"new", "fn", "deleted"}
      BY <1>3, <1>6, <2>1 DEF CloserInv, CalledOrListed
    <3> QED
      BY <1>1, <3>1, <3>2
  <2>2. CASE u # x
    <3>1. (ToBeCalled(u)' <=> ToBeCalled(u)) /\ closeCalled'[u] = closeCalled[u]
      BY <1>3, <1>6, <1>7, <1>9, <2>2
    <3> QED
      BY <1>1, <3>1 DEF CloserInv, CalledOrListed
  <2> QED
    BY <2>1, <2>2
<1>13. ChanCloses'
  BY <1>1 DEF CloserInv, ChanCloses
<1> QED
  BY <1>10, <1>11, <1>12, <1>13 DEF CloserInv

LEMMA WaitersPreserve ==
  ASSUME CloserInv, NEW u \in User, C!GetCloseChan(u) \/ C!Woken(u)
  PROVE  CloserInv'
<1>t. CloserTypes
  BY DEF CloserInv
<1>1. UNCHANGED <<isClosed, closeFnList, userPc, todo, closeCalled>>
  BY DEF C!GetCloseChan, C!Woken
<1>2. OneList' /\ \A v \in User : ToBeCalled(v)' <=> ToBeCalled(v)
  BY <1>1, ListsKept DEF CloserInv
<1>3. CalledOrListed'
  BY <1>1, <1>2 DEF CloserInv, CalledOrListed
<1>4. CloserTypes' /\ ChanCloses'
  BY <1>1, <1>t DEF C!GetCloseChan, C!Woken, C!Made, CloserInv, CloserTypes, ChanCloses
<1> QED
  BY <1>2, <1>3, <1>4 DEF CloserInv

LEMMA InitCloser == ASSUME C!ConstantsOK, C!Init PROVE CloserInv
<1>1. CloserTypes
  <2> USE DEF C!Init
  <2>1. isClosed \in BOOLEAN /\ closeChan \in {"nil", "open", "closed"}
    OBVIOUS
  <2>5. closeFnList \in Seq(User)
    <3>1. closeFnList = <<>>
      OBVIOUS
    <3> QED
      BY <3>1
  <2>2. userPc \in [User -> {"new", "fn", "listed", "deleted", "done"}]
    OBVIOUS
  <2>3. todo \in [Caller -> Seq(User) \cup {C!NotYet}]
    OBVIOUS
  <2>4. closeCalled \in [User -> {0, 1}] /\ waits \in [User -> BOOLEAN]
    OBVIOUS
  <2> QED
    BY <2>1, <2>2, <2>3, <2>4, <2>5 DEF CloserTypes
<1>2. \A k \in Caller : Rest(k) = <<>>
  BY DEF C!Init, Rest
<1>3. closeFnList = <<>> /\ isClosed = FALSE
  BY DEF C!Init
<1>4. OneList
  BY <1>2, <1>3, EmptyHasNone DEF OneList
<1>5. \A u \in User : ~ToBeCalled(u)
  BY <1>2, <1>3, EmptyHasNone DEF ToBeCalled
<1>6. CalledOrListed /\ ChanCloses
  BY <1>5 DEF C!Init, CalledOrListed, ChanCloses
<1> QED
  BY <1>1, <1>4, <1>6 DEF CloserInv

LEMMA CloserStepPreserves ==
  ASSUME C!ConstantsOK, CloserInv, [C!Next]_(C!vars)
  PROVE  CloserInv'
<1>1. ASSUME NEW u \in User, C!UserStep(u) PROVE CloserInv'
  BY <1>1, AddOnClosePreserves, CallAtOncePreserves, DeletePreserves, WaitersPreserve
  DEF C!UserStep
<1>2. ASSUME NEW k \in Caller, C!Close(k) \/ C!CallLast(k) PROVE CloserInv'
  BY <1>2, ClosePreserves, CallLastPreserves
<1>3. CASE UNCHANGED C!vars
  <2>1. UNCHANGED <<isClosed, closeFnList, closeChan, userPc, todo, closeCalled, waits>>
    BY <1>3 DEF C!vars
  <2>2. OneList' /\ \A v \in User : ToBeCalled(v)' <=> ToBeCalled(v)
    BY <2>1, ListsKept DEF CloserInv
  <2>3. CloserTypes' /\ ChanCloses' /\ CalledOrListed'
    BY <2>1, <2>2 DEF CloserInv, CloserTypes, ChanCloses, CalledOrListed
  <2> QED
    BY <2>2, <2>3 DEF CloserInv
<1> QED
  BY <1>1, <1>2, <1>3 DEF C!Next

(* When all has returned, nothing is left to be called: a callback that is *)
(* listed, or that deleteFn came too late for, was called.                 *)
LEMMA InvMeansCalledOnce == ASSUME CloserInv PROVE EachCalledOnce
<1>1. ASSUME NEW u \in User 
      PROVE  /\ closeCalled[u] \in {0, 1}
             /\ userPc[u] \in {"new", "fn", "listed", "deleted", "done"}
  BY DEF CloserInv, CloserTypes
<1>2. ASSUME C!Returned, NEW u \in User PROVE ~ToBeCalled(u)
  <2>1. \A k \in Caller : Rest(k) = <<>>
    BY <1>2 DEF C!Returned, Rest
  <2>2. closeFnList = <<>>
    BY <1>2 DEF C!Returned, CloserInv, OneList
  <2> QED
    BY <2>1, <2>2, EmptyHasNone DEF ToBeCalled
<1>3. ASSUME NEW u \in User
      PROVE /\ closeCalled[u] <= 1 /\ (userPc[u] \in {"new", "deleted"} => closeCalled[u] = 0)
            /\ C!Returned => (closeCalled[u] = 1 <=> userPc[u] \in {"listed", "done"})
  <2>1. closeCalled[u] <= 1
    BY <1>1
  <2>2. /\ userPc[u] \in {"new", "fn", "deleted"} => closeCalled[u] = 0
        /\ userPc[u] \in {"listed", "done"} => closeCalled[u] = 1 \/ ToBeCalled(u)
    BY DEF CloserInv, CalledOrListed
  <2>3. C!Returned => (closeCalled[u] = 1 <=> userPc[u] \in {"listed", "done"})
    BY <1>1, <1>2, <2>2
  <2> QED
    BY <2>1, <2>2, <2>3
<1>4. isClosed => \A u \in User : waits[u] => closeChan = "closed"
  BY DEF CloserInv, CloserTypes, ChanCloses
<1> QED
  BY <1>3, <1>4 DEF EachCalledOnce, C!EachCalledOnce

(* Whatever the callbacks and however many goroutines close: each callback *)
(* is called once, but for one that was deleted in time, and no waiter is  *)
(* forgotten.  "not yet" only has to be no callback.                       *)
THEOREM EachCalledOnceCorrect ==
  ASSUME C!ConstantsOK PROVE C!Spec => []EachCalledOnce
<1>1. C!Init => CloserInv
  BY InitCloser
<1>2. CloserInv /\ [C!Next]_(C!vars) => CloserInv'
  BY CloserStepPreserves
<1>3. CloserInv => EachCalledOnce
  BY InvMeansCalledOnce
<1> QED
  BY <1>1, <1>2, <1>3, PTL DEF C!Spec

-----------------------------------------------------------------------------
(* Keep-alive.  What a reset of the ping timer computes is not later than  *)
(* what it would compute now: the ages it uses only shrink until it is     *)
(* set.                                                                    *)
PingBound == K!UntilPing(sinceRead, sinceWrite, sincePing)

Msgs == Seq([cmd : {"ping", "setTimeCfg", "other"}, age : 0 .. Delay])

AliveTypes ==
  /\ sinceRead \in Nat /\ sinceWrite \in Nat /\ sincePing \in Nat
  /\ idleTimer \in Nat \cup {K!Off} /\ readTimer \in Nat \cup {K!Off}
  /\ serverTimer \in Nat \cup {K!Off}
  /\ reset \in [K!Goroutine -> Nat \cup {K!Off}]
  /\ up \in Msgs /\ down \in Msgs
  /\ pingOut \in BOOLEAN /\ isCut \in BOOLEAN
  /\ clientClosed \in BOOLEAN /\ serverClosed \in BOOLEAN
  /\ serverCfg \in K!Cfgs /\ cfg = serverCfg

(* Some timer is going to ask for the next ping, and not too late.         *)
PingIsTimed ==
  /\ idleTimer # K!Off \/ \E g \in K!Goroutine : reset[g] # K!Off
  /\ idleTimer <= PingBound
  /\ \A g \in K!Goroutine : reset[g] <= PingBound

(* A ping is written in the moment it is due, and that is a write.         *)
Pinging == reset["pinger"] # K!Off \/ pingOut
PingIsWrite == Pinging \/ sinceWrite <= sincePing
WritesOften == sinceWrite <= cfg.idle

(* The reader takes the message that it read in the same moment.           *)
ReaderHas == reset["reader"] # K!Off => ~isCut /\ down # <<>>
ReaderNow == reset["reader"] # K!Off => sinceRead = 0

(* The client reads in time: it was silent no longer than the interval,    *)
(* or something is on its way: a ping, on either leg, or what the server   *)
(* writes by itself.                                                       *)
Heard ==
  \/ Pinging /\ sinceRead <= cfg.idle
  \/ \E i \in DOMAIN up : up[i].cmd = "ping" /\ sinceRead <= cfg.idle + up[i].age
  \/ \E i \in DOMAIN down : sinceRead <= cfg.idle + Delay + down[i].age
  \/ sinceRead <= sincePing /\ sinceRead <= cfg.idle

(* The server reads in time: what the client wrote last, or wrote earlier. *)
ServerHeard ==
  \/ serverTimer >= cfg.server - sinceWrite
  \/ \E i \in DOMAIN up : serverTimer >= cfg.server - cfg.idle - up[i].age

Intact ==
  /\ ~clientClosed /\ ~serverClosed
  /\ readTimer = cfg.read - sinceRead
  /\ PingIsTimed /\ PingIsWrite /\ WritesOften /\ ReaderNow /\ Heard /\ ServerHeard

AliveInv == AliveTypes /\ ReaderHas /\ (~isCut => Intact)

-----------------------------------------------------------------------------
(* What is used of a configuration: the halving keeps idle within the      *)
(* bound that FastEnough is about.                                         *)
LEMMA CfgFacts ==
  ASSUME K!ConstantsOK, NEW c \in K!Cfgs
  PROVE  /\ c.idle \in Nat /\ c.read \in Nat /\ c.ui \in Nat /\ c.server \in Nat
         /\ Delay \in Nat
         /\ c.read > c.idle + 2 * Delay /\ c.server > c.idle + Delay
<1>1. PICK i \in IdleDur, r \in ReadDur, u \in UiDur, s \in ServerDur :
        c = K!InitWithDefault([idle |-> i, read |-> r, ui |-> u, server |-> s])
  <2> DEFINE S == {K!InitWithDefault([idle |-> i, read |-> r, ui |-> u, server |-> s]) :
                     i \in IdleDur, r \in ReadDur, u \in UiDur, s \in ServerDur}
  <2> DEFINE F(x) == K!FastEnough([x EXCEPT !.idle = K!Min2(@, x.read \div 2)])
  <2>0. K!Cfgs = {x \in S : F(x)}
    BY DEF K!Cfgs
  <2>1. c \in S
    <3> HIDE DEF S, F
    <3> QED
      BY <2>0
  <2> QED
    BY <2>1
<1>2. K!FastEnough([c EXCEPT !.idle = K!Min2(@, c.read \div 2)])
  BY DEF K!Cfgs
<1> DEFINE x == K!InitDefaultMin(i, DefaultIdle)
           rd == K!InitDefaultMin(r, DefaultRead)
<1>3. /\ i \in Nat /\ r \in Nat /\ u \in Nat /\ s \in Nat /\ Delay \in Nat
      /\ DefaultIdle \in Nat /\ DefaultRead \in Nat /\ DefaultUi \in Nat
      /\ DefaultServer \in Nat /\ MinDur \in Nat
  BY DEF K!ConstantsOK
<1>4. /\ x \in Nat /\ rd \in Nat
      /\ K!InitDefaultMin(u, DefaultUi) \in Nat
      /\ K!InitDefaultMin(s, DefaultServer) \in Nat
  BY <1>3 DEF K!InitDefaultMin, K!Max2
<1>5. /\ c.read = rd /\ c.idle = K!Halved(x, rd)
      /\ c.ui = K!InitDefaultMin(u, DefaultUi)
      /\ c.server = K!InitDefaultMin(s, DefaultServer)
      /\ [c EXCEPT !.idle = K!Min2(@, c.read \div 2)]
           = [c EXCEPT !.idle = K!Min2(c.idle, c.read \div 2)]
  BY <1>1 DEF K!InitWithDefault
<1>d. DOMAIN c = {"read", "idle", "ui", "server"}
  BY <1>1 DEF K!InitWithDefault
<1> HIDE DEF x, rd
<1>6. c.idle \in Nat /\ c.idle <= c.read \div 2
  BY <1>4, <1>5 DEF K!Halved
<1>7. K!Min2(c.idle, c.read \div 2) = c.idle
  BY <1>4, <1>5, <1>6 DEF K!Min2
<1>8. K!FastEnough([c EXCEPT !.idle = c.idle])
  BY <1>2, <1>5, <1>7
<1>9. K!FastEnough(c)
  <2>1. [c EXCEPT !.idle = c.idle].read = c.read
        /\ [c EXCEPT !.idle = c.idle].idle = c.idle
        /\ [c EXCEPT !.idle = c.idle].ui = c.ui
        /\ [c EXCEPT !.idle = c.idle].server = c.server
    BY <1>d
  <2> QED
    BY <1>8, <2>1 DEF K!FastEnough
<1> QED
  BY <1>3, <1>4, <1>5, <1>6, <1>9 DEF K!FastEnough

(* The bound of the ping timer grows when an age is reset, and shrinks by  *)
(* at most one in a tick.                                                  *)
LEMMA PingBoundMonotone ==
  ASSUME NEW idle \in Nat, NEW n \in {0, 1},
         NEW r \in Nat, NEW w \in Nat, NEW p \in Nat,
         NEW r2 \in Nat, NEW w2 \in Nat, NEW p2 \in Nat,
         r2 <= r + n, w2 <= w + n, p2 <= p + n, cfg.idle = idle
  PROVE  /\ K!UntilPing(r, w, p) \in Nat
         /\ K!UntilPing(r, w, p) <= K!UntilPing(r2, w2, p2) + n
  BY DEF K!UntilPing, K!EarlyOne, K!Max2, K!Min2

LEMMA PingBoundIs ==
  ASSUME NEW idle \in Nat, cfg.idle = idle, NEW r \in Nat, NEW w \in Nat, NEW p \in Nat,
         K!UntilPing(r, w, p) >= 1
  PROVE  \/ K!UntilPing(r, w, p) = idle - p
         \/ K!UntilPing(r, w, p) <= idle - w /\ K!UntilPing(r, w, p) <= idle - r
  BY DEF K!UntilPing, K!EarlyOne, K!Max2, K!Min2

Message == [cmd : {"ping", "setTimeCfg", "other"}, age : 0 .. Delay]

LEMMA FreshType ==
  ASSUME K!ConstantsOK, NEW x \in {"ping", "setTimeCfg", "other"}
  PROVE  K!Fresh(x) \in Message /\ K!Fresh(x).cmd = x /\ K!Fresh(x).age = 0
  BY DEF K!ConstantsOK, K!Fresh, Message

LEMMA AppendType ==
  ASSUME NEW q \in Msgs, NEW f \in Message
  PROVE  Append(q, f) \in Msgs /\ Append(q, f) # <<>>
<1>1. q \in Seq(Message) /\ Msgs = Seq(Message)
  BY DEF Msgs, Message
<1> QED
  BY <1>1

LEMMA SentType ==
  ASSUME K!ConstantsOK, NEW q \in Msgs, NEW x \in {"ping", "setTimeCfg", "other"}
  PROVE  K!Sent(q, x) \in Msgs
<1> DEFINE f == K!Fresh(x)
<1>1. f \in Message
  BY FreshType
<1>3. K!Sent(q, x) = IF isCut THEN q ELSE Append(q, f)
  BY DEF K!Sent
<1> HIDE DEF f
<1> QED
  BY <1>1, <1>3, AppendType

(* What was under way stays where it is when one more is sent.             *)
LEMMA SentKeeps ==
  ASSUME K!ConstantsOK, ~isCut, NEW q \in Msgs, NEW x \in {"ping", "setTimeCfg", "other"}
  PROVE  /\ \A i \in DOMAIN q : i \in DOMAIN K!Sent(q, x) /\ K!Sent(q, x)[i] = q[i]
         /\ \E i \in DOMAIN K!Sent(q, x) :
              K!Sent(q, x)[i].cmd = x /\ K!Sent(q, x)[i].age = 0
<1> DEFINE f == K!Fresh(x)
           n == Len(q)
<1>1. f \in Message /\ f.cmd = x /\ f.age = 0
  BY FreshType
<1> HIDE DEF f
<1>2. K!Sent(q, x) = Append(q, f)
  BY DEF K!Sent, f
<1>3. q \in Seq(Message)
  BY DEF Msgs, Message
<1>4. /\ n \in Nat /\ DOMAIN q = 1 .. n /\ DOMAIN Append(q, f) = 1 .. n + 1
      /\ Append(q, f)[n + 1] = f /\ \A i \in 1 .. n : Append(q, f)[i] = q[i]
  BY <1>1, <1>3
<1> HIDE DEF n
<1>5. n + 1 \in 1 .. n + 1 /\ \A i \in 1 .. n : i \in 1 .. n + 1
  BY <1>4
<1> QED
  BY <1>1, <1>2, <1>4, <1>5

LEMMA TailKeeps ==
  ASSUME NEW q \in Msgs, q # <<>>
  PROVE  /\ Tail(q) \in Msgs /\ 1 \in DOMAIN q /\ Head(q) = q[1]
         /\ \A i \in DOMAIN q : i = 1 \/ (i - 1 \in DOMAIN Tail(q) /\ Tail(q)[i - 1] = q[i])
<1>1. q \in Seq(Message) /\ Msgs = Seq(Message)
  BY DEF Msgs, Message
<1>2. /\ Len(q) \in Nat \ {0} /\ DOMAIN q = 1 .. Len(q) /\ Tail(q) \in Seq(Message)
      /\ DOMAIN Tail(q) = 1 .. Len(q) - 1 /\ Head(q) = q[1]
      /\ \A i \in 1 .. Len(q) - 1 : Tail(q)[i] = q[i + 1]
  BY <1>1
<1>3. ASSUME NEW i \in 1 .. Len(q), i # 1
      PROVE  i - 1 \in 1 .. Len(q) - 1 /\ (i - 1) + 1 = i
  BY <1>2, <1>3
<1> QED
  BY <1>1, <1>2, <1>3

LEMMA OlderKeeps ==
  ASSUME K!ConstantsOK, NEW q \in Msgs, \A i \in DOMAIN q : q[i].age < Delay
  PROVE  /\ K!Older(q) \in Msgs /\ DOMAIN K!Older(q) = DOMAIN q
         /\ \A i \in DOMAIN q : /\ K!Older(q)[i].cmd = q[i].cmd
                                /\ K!Older(q)[i].age = q[i].age + 1
<1> DEFINE o == K!Older(q)
           n == Len(q)
<1>1. q \in Seq(Message) /\ Msgs = Seq(Message)
  BY DEF Msgs, Message
<1>2. n \in Nat /\ DOMAIN q = 1 .. n /\ \A i \in 1 .. n : q[i] \in Message
  BY <1>1
<1>3. Delay \in Nat
  BY DEF K!ConstantsOK
<1>4. o = [i \in 1 .. n |-> [q[i] EXCEPT !.age = q[i].age + 1]]
  BY <1>2 DEF K!Older
<1>5. ASSUME NEW m \in Message, m.age < Delay
      PROVE  /\ [m EXCEPT !.age = m.age + 1] \in Message
             /\ [m EXCEPT !.age = m.age + 1].cmd = m.cmd
             /\ [m EXCEPT !.age = m.age + 1].age = m.age + 1
  BY <1>3, <1>5 DEF Message
<1> HIDE DEF o, n
<1>6. ASSUME NEW i \in 1 .. n
      PROVE o[i] \in Message /\ o[i].cmd = q[i].cmd /\ o[i].age = q[i].age + 1
  BY <1>2, <1>4, <1>5
<1>7. DOMAIN o = 1 .. n
  BY <1>4
<1>8. o \in Seq(Message)
  <2>1. o \in [1 .. n -> Message]
    BY <1>4, <1>6
  <2> QED
    BY <1>2, <2>1, SeqDef
<1> QED
  BY <1>1, <1>2, <1>6, <1>7, <1>8 DEF o

(* The types of what a message says.                                       *)
LEMMA MessageAt ==
  ASSUME K!ConstantsOK, NEW q \in Msgs, NEW i \in DOMAIN q
  PROVE  q[i].age \in Nat /\ q[i].age <= Delay /\ q[i].cmd \in {"ping", "setTimeCfg", "other"}
<1>1. q \in Seq(Message) /\ Delay \in Nat
  BY DEF Msgs, Message, K!ConstantsOK
<1>2. q[i] \in Message
  BY <1>1
<1> QED
  BY <1>1, <1>2 DEF Message

LEMMA InitAlive ==
  ASSUME K!ConstantsOK, ~FirstConnection, K!Init
  PROVE  AliveInv
<1> USE DEF K!Init
<1>1. cfg = serverCfg /\ serverCfg \in K!Cfgs
  OBVIOUS
<1>2. cfg.idle \in Nat /\ cfg.read \in Nat /\ cfg.server \in Nat
  BY <1>1, CfgFacts
<1>3. \A g \in K!Goroutine : reset[g] = K!Off
  OBVIOUS
<1>4. down \in Msgs /\ up \in Msgs
  <2>1. K!Fresh("setTimeCfg") \in Message
    BY FreshType
  <2> QED
    BY <2>1 DEF Msgs, Message
<1>5. reset["reader"] = K!Off /\ reset["pinger"] = K!Off
  BY <1>3 DEF K!Goroutine
<1>6. AliveTypes
  <2>1. reset \in [K!Goroutine -> Nat \cup {K!Off}]
    OBVIOUS
  <2>2. sinceRead \in Nat /\ sinceWrite \in Nat /\ sincePing \in Nat
    OBVIOUS
  <2>3. idleTimer \in Nat /\ readTimer \in Nat /\ serverTimer \in Nat
    BY <1>1, <1>2
  <2> QED
    BY <1>1, <1>4, <2>1, <2>2, <2>3 DEF AliveTypes
<1>7. PingIsTimed
  <2>1. PingBound = cfg.idle
    BY <1>2 DEF PingBound, K!UntilPing, K!EarlyOne, K!Max2, K!Min2
  <2> QED
    BY <1>2, <1>3, <2>1 DEF PingIsTimed, K!Off
<1>8. PingIsWrite /\ WritesOften /\ Heard /\ ServerHeard /\ readTimer = cfg.read - sinceRead
  BY <1>1, <1>2 DEF PingIsWrite, WritesOften, Heard, ServerHeard
<1> QED
  BY <1>5, <1>6, <1>7, <1>8 DEF AliveInv, ReaderHas, ReaderNow, Intact

-----------------------------------------------------------------------------
USE DEF K!ages, K!clientTimers, K!net, K!ends

LEMMA CfgNow ==
  ASSUME K!ConstantsOK, AliveTypes
  PROVE  /\ cfg.idle \in Nat /\ cfg.read \in Nat /\ cfg.ui \in Nat /\ cfg.server \in Nat
         /\ serverCfg.server \in Nat /\ Delay \in Nat
         /\ cfg.read > cfg.idle + 2 * Delay /\ cfg.server > cfg.idle + Delay
         /\ \A r, w, p \in Nat : K!UntilPing(r, w, p) \in Nat
<1>1. serverCfg \in K!Cfgs /\ cfg = serverCfg
  BY DEF AliveTypes
<1>2. /\ cfg.idle \in Nat /\ cfg.read \in Nat /\ cfg.ui \in Nat /\ cfg.server \in Nat
      /\ Delay \in Nat
      /\ cfg.read > cfg.idle + 2 * Delay /\ cfg.server > cfg.idle + Delay
  BY <1>1, CfgFacts
<1>3. \A r, w, p \in Nat : K!UntilPing(r, w, p) \in Nat
  BY <1>2 DEF K!UntilPing, K!EarlyOne, K!Max2, K!Min2
<1> QED
  BY <1>1, <1>2, <1>3

LEMMA AliveTypesPreserved ==
  ASSUME K!ConstantsOK, AliveTypes, ReaderHas, [K!Next]_(K!vars)
  PROVE  AliveTypes' /\ ReaderHas'
<1>a. \A r, w, p \in Nat : K!UntilPing(r, w, p) \in Nat
  BY CfgNow
<1>b. cfg.idle \in Nat /\ cfg.read \in Nat /\ cfg.ui \in Nat /\ serverCfg.server \in Nat
  BY CfgNow
<1>w. ASSUME NEW x \in {"ping", "setTimeCfg", "other"}, K!Write(x), pingOut' \in BOOLEAN
      PROVE AliveTypes' /\ ReaderHas'
  <2>1. up' \in Msgs
    BY <1>w, SentType DEF AliveTypes, K!Write
  <2>2. K!UntilPing(sinceRead, 0, sincePing) \in Nat
    BY <1>a DEF AliveTypes
  <2>3. reset' \in [K!Goroutine -> Nat \cup {K!Off}]
    BY <1>w, <2>2 DEF AliveTypes, K!Write
  <2>4. AliveTypes'
    BY <1>w, <2>1, <2>3 DEF AliveTypes, K!Write, K!ReadTimerStays
  <2>5. ReaderHas'
    BY <1>w DEF ReaderHas, K!Write, AliveTypes, K!Goroutine
  <2> QED
    BY <2>4, <2>5
<1>1. CASE K!WritePing
  <2>1. CASE K!Write("ping")
    BY <1>1, <1>w, <2>1 DEF K!WritePing
  <2>2. CASE ~K!Write("ping")
    <3>1. UNCHANGED <<serverCfg, cfg, sinceRead, sinceWrite, sincePing, idleTimer,
                      readTimer, reset, serverTimer, up, down, isCut, clientClosed,
                      serverClosed>>
      BY <1>1, <2>2 DEF K!WritePing
    <3>2. pingOut' \in BOOLEAN
      BY <1>1 DEF K!WritePing
    <3> QED
      BY <3>1, <3>2 DEF AliveTypes, ReaderHas
  <2> QED
    BY <2>1, <2>2
<1>2. CASE K!WriteOther
  BY <1>2, <1>w DEF K!WriteOther, AliveTypes
<1>3. CASE K!IdleTimerFires
  <2>1. K!UntilPing(sinceRead, sinceWrite, 0) \in Nat
    BY <1>a DEF AliveTypes
  <2>2. reset' \in [K!Goroutine -> Nat \cup {K!Off}] /\ sincePing' \in Nat
    BY <1>3, <2>1 DEF AliveTypes, K!IdleTimerFires
  <2>3. AliveTypes'
    BY <1>3, <2>2 DEF AliveTypes, K!IdleTimerFires
  <2>4. ReaderHas'
    BY <1>3 DEF ReaderHas, K!IdleTimerFires, AliveTypes, K!Goroutine
  <2> QED
    BY <2>3, <2>4
<1>4. CASE K!ReadFrame
  <2>1. K!UntilPing(0, sinceWrite, sincePing) \in Nat
    BY <1>a DEF AliveTypes
  <2>2. reset' \in [K!Goroutine -> Nat \cup {K!Off}]
    BY <1>4, <2>1 DEF AliveTypes, K!ReadFrame
  <2>3. AliveTypes'
    BY <1>4, <1>b, <2>2 DEF AliveTypes, K!ReadFrame
  <2>4. ReaderHas'
    BY <1>4 DEF ReaderHas, K!ReadFrame
  <2> QED
    BY <2>3, <2>4
<1>5. ASSUME NEW g \in K!Goroutine, K!SetIdleTimer(g) PROVE AliveTypes' /\ ReaderHas'
  <2>1. cfg' = cfg
    BY <1>5 DEF K!SetIdleTimer, K!OnReadMsg, AliveTypes
  <2>2. down' \in Msgs
    BY <1>5, TailKeeps DEF K!SetIdleTimer, K!OnReadMsg, AliveTypes, ReaderHas
  <2>3. reset' \in [K!Goroutine -> Nat \cup {K!Off}] /\ idleTimer' \in Nat \cup {K!Off}
    BY <1>5 DEF K!SetIdleTimer, AliveTypes
  <2>4. pingOut' \in BOOLEAN
    BY <1>5 DEF K!SetIdleTimer
  <2>5. AliveTypes'
    BY <1>5, <2>1, <2>2, <2>3, <2>4 DEF K!SetIdleTimer, AliveTypes
  <2>6. ReaderHas'
    BY <1>5 DEF K!SetIdleTimer, AliveTypes, ReaderHas, K!Goroutine
  <2> QED
    BY <2>5, <2>6
<1>6. CASE K!ReadTimerFires
  BY <1>6 DEF K!ReadTimerFires, AliveTypes, ReaderHas
<1>7. CASE K!ServerReadFrame
  <2>1. up' \in Msgs
    BY <1>7, TailKeeps DEF K!ServerReadFrame, AliveTypes
  <2>2. down' \in Msgs /\ (down # <<>> => down' # <<>>)
    <3>1. K!Fresh("ping") \in Message
      BY FreshType
    <3>2. Append(down, K!Fresh("ping")) \in Msgs /\ Append(down, K!Fresh("ping")) # <<>>
      BY <3>1, AppendType DEF AliveTypes
    <3> QED
      BY <1>7, <3>2 DEF K!ServerReadFrame, AliveTypes
  <2>3. AliveTypes'
    BY <1>7, <1>b, <2>1, <2>2 DEF K!ServerReadFrame, AliveTypes
  <2>4. ReaderHas'
    BY <1>7, <2>2 DEF K!ServerReadFrame, ReaderHas
  <2> QED
    BY <2>3, <2>4
<1>8. CASE K!ServerWrites
  <2>1. down' \in Msgs
    BY <1>8, SentType DEF K!ServerWrites, AliveTypes
  <2>2. ~isCut => down' # <<>>
    <3>1. K!Fresh("other") \in Message
      BY FreshType
    <3>2. Append(down, K!Fresh("other")) # <<>>
      BY <3>1, AppendType DEF AliveTypes
    <3> QED
      BY <1>8, <3>2 DEF K!ServerWrites, K!Sent
  <2>3. AliveTypes' /\ ReaderHas'
    BY <1>8, <2>1, <2>2 DEF K!ServerWrites, AliveTypes, ReaderHas
  <2> QED
    BY <2>3
<1>9. CASE K!ServerTimerFires
  BY <1>9 DEF K!ServerTimerFires, AliveTypes, ReaderHas
<1>10. CASE K!OnChange
  BY <1>10 DEF K!OnChange, AliveTypes, ReaderHas
<1>11. CASE K!Cut
  <2>1. up' \in Msgs /\ down' \in Msgs
    BY <1>11 DEF K!Cut, Msgs
  <2> QED
    BY <1>11, <2>1 DEF K!Cut, AliveTypes, ReaderHas
<1>12. CASE K!Tick
  <2>1. \A x \in Nat : K!Age(x) \in Nat
    BY <1>b DEF K!Age, K!Max2, K!Min2
  <2>2. \A x \in Nat \cup {K!Off} : x # 0 => K!Run(x) \in Nat \cup {K!Off}
    BY DEF K!Run, K!Off
  <2>3. up' \in Msgs /\ down' \in Msgs
    BY <1>12, OlderKeeps DEF K!Tick, AliveTypes
  <2>4. /\ sinceRead' \in Nat /\ sinceWrite' \in Nat /\ sincePing' \in Nat
        /\ idleTimer' \in Nat \cup {K!Off} /\ readTimer' \in Nat \cup {K!Off}
        /\ serverTimer' \in Nat \cup {K!Off}
    BY <1>12, <2>1, <2>2 DEF K!Tick, AliveTypes
  <2>5. reset["reader"] = K!Off
    BY <1>12 DEF K!Tick, K!Goroutine
  <2> QED
    BY <1>12, <2>3, <2>4, <2>5 DEF K!Tick, AliveTypes, ReaderHas
<1>13. CASE UNCHANGED K!vars
  BY <1>13 DEF K!vars, AliveTypes, ReaderHas
<1> QED
  BY <1>1, <1>2, <1>3, <1>4, <1>5, <1>6, <1>7, <1>8, <1>9, <1>10, <1>11, <1>12, <1>13
  DEF K!Next, K!Prompt

-----------------------------------------------------------------------------
(* On an intact network neither read timer runs out.                       *)
LEMMA TimersRun ==
  ASSUME K!ConstantsOK, AliveInv, ~isCut
  PROVE  readTimer \in Nat \ {0} /\ serverTimer \in Nat \ {0} /\ sinceRead < cfg.read
<1>c. /\ cfg.idle \in Nat /\ cfg.read \in Nat /\ cfg.server \in Nat /\ Delay \in Nat
      /\ cfg.read > cfg.idle + 2 * Delay /\ cfg.server > cfg.idle + Delay
  BY CfgNow DEF AliveInv
<1>t. /\ sinceRead \in Nat /\ sinceWrite \in Nat /\ up \in Msgs /\ down \in Msgs
      /\ readTimer \in Nat \cup {K!Off} /\ serverTimer \in Nat \cup {K!Off}
  BY DEF AliveInv, AliveTypes
<1>i. readTimer = cfg.read - sinceRead /\ Heard /\ ServerHeard /\ sinceWrite <= cfg.idle
  BY DEF AliveInv, Intact, WritesOften
<1>1. sinceRead <= cfg.idle + 2 * Delay
  <2>1. ASSUME NEW i \in DOMAIN up, sinceRead <= cfg.idle + up[i].age
        PROVE  sinceRead <= cfg.idle + 2 * Delay
    BY <1>c, <1>t, <2>1, MessageAt
  <2>2. ASSUME NEW i \in DOMAIN down, sinceRead <= cfg.idle + Delay + down[i].age
        PROVE  sinceRead <= cfg.idle + 2 * Delay
    <3>1. down[i].age \in Nat /\ down[i].age <= Delay
      BY <1>t, MessageAt
    <3> QED
      BY <1>c, <1>t, <2>2, <3>1
  <2>3. ASSUME sinceRead <= cfg.idle PROVE sinceRead <= cfg.idle + 2 * Delay
    BY <1>c, <1>t, <2>3
  <2> QED
    BY <1>i, <2>1, <2>2, <2>3 DEF Heard
<1>2. serverTimer > 0
  <2>1. ASSUME NEW i \in DOMAIN up, serverTimer >= cfg.server - cfg.idle - up[i].age
        PROVE  serverTimer > 0
    <3>1. up[i].age \in Nat /\ up[i].age <= Delay
      BY <1>t, MessageAt
    <3> QED
      BY <1>c, <1>t, <2>1, <3>1 DEF K!Off
  <2>2. ASSUME serverTimer >= cfg.server - sinceWrite PROVE serverTimer > 0
    BY <1>c, <1>t, <1>i, <2>2 DEF K!Off
  <2> QED
    BY <1>i, <2>1, <2>2 DEF ServerHeard
<1> QED
  BY <1>c, <1>t, <1>i, <1>1, <1>2 DEF K!Off

(* The bound of the ping timer after a step that made ages at most n older.*)
LEMMA PingBoundStep ==
  ASSUME K!ConstantsOK, AliveTypes, AliveTypes', serverCfg' = serverCfg, NEW n \in {0, 1},
         sinceRead' <= sinceRead + n, sinceWrite' <= sinceWrite + n, sincePing' <= sincePing + n
  PROVE  /\ cfg' = cfg
         /\ PingBound \in Nat /\ PingBound' \in Nat /\ PingBound <= PingBound' + n
         /\ PingBound' = K!UntilPing(sinceRead', sinceWrite', sincePing')
<1>1. cfg' = cfg /\ cfg.idle \in Nat
  BY CfgNow DEF AliveTypes
<1>2. PingBound' = K!UntilPing(sinceRead', sinceWrite', sincePing')
  BY <1>1 DEF PingBound, K!UntilPing, K!EarlyOne, K!Max2, K!Min2
<1>3. /\ sinceRead \in Nat /\ sinceWrite \in Nat /\ sincePing \in Nat
      /\ sinceRead' \in Nat /\ sinceWrite' \in Nat /\ sincePing' \in Nat
  BY DEF AliveTypes
<1>4. K!UntilPing(sinceRead', sinceWrite', sincePing') \in Nat
  BY <1>3, CfgNow
<1>5. /\ K!UntilPing(sinceRead, sinceWrite, sincePing) \in Nat
      /\ K!UntilPing(sinceRead, sinceWrite, sincePing)
           <= K!UntilPing(sinceRead', sinceWrite', sincePing') + n
  BY <1>1, <1>3, PingBoundMonotone
<1> QED
  BY <1>1, <1>2, <1>4, <1>5 DEF PingBound

LEMMA WriteIntact ==
  ASSUME K!ConstantsOK, AliveInv, AliveTypes', ~isCut,
         NEW x \in {"ping", "other"}, K!Write(x), x = "ping" \/ pingOut' = pingOut
  PROVE  Intact'
<1>t. AliveTypes /\ AliveTypes' /\ Intact
  BY DEF AliveInv
<1>c. cfg.idle \in Nat /\ cfg.server \in Nat /\ cfg.read \in Nat
  BY <1>t, CfgNow
<1>1. /\ up' = K!Sent(up, x) /\ sinceWrite' = 0 /\ readTimer' = readTimer
      /\ reset' = [reset EXCEPT !["writer"] = K!UntilPing(sinceRead, 0, sincePing)]
      /\ UNCHANGED <<serverCfg, cfg, sinceRead, sincePing, idleTimer, serverTimer, down,
                     isCut, clientClosed, serverClosed>>
  BY DEF K!Write, K!ReadTimerStays
<1>2. /\ \A i \in DOMAIN up : i \in DOMAIN up' /\ up'[i] = up[i]
      /\ \E i \in DOMAIN up' : up'[i].cmd = x /\ up'[i].age = 0
  BY <1>1, <1>t, SentKeeps DEF AliveTypes
<1>3. sinceRead \in Nat /\ sinceWrite \in Nat /\ sincePing \in Nat
  BY <1>t DEF AliveTypes
<1>4. /\ PingBound \in Nat /\ PingBound' \in Nat /\ PingBound <= PingBound' + 0
      /\ PingBound' = K!UntilPing(sinceRead, 0, sincePing)
  BY <1>1, <1>3, <1>t, PingBoundStep
<1>5. \A g \in K!Goroutine :
        reset'[g] = IF g = "writer" THEN PingBound' ELSE reset[g]
  BY <1>1, <1>4, <1>t DEF AliveTypes, K!Goroutine
<1>6. PingIsTimed'
  <2>1. idleTimer' # K!Off \/ \E g \in K!Goroutine : reset'[g] # K!Off
    BY <1>1, <1>4, <1>5, <1>t DEF Intact, PingIsTimed, K!Off
  <2>2. idleTimer <= PingBound'
    BY <1>4, <1>t DEF Intact, PingIsTimed, AliveTypes, K!Off
  <2>3. \A g \in K!Goroutine : reset'[g] <= PingBound'
    BY <1>4, <1>5, <1>t DEF Intact, PingIsTimed, AliveTypes, K!Off
  <2> QED
    BY <1>1, <2>1, <2>2, <2>3 DEF PingIsTimed
<1>7. PingIsWrite' /\ WritesOften' /\ ReaderNow'
  <2>1. reset'["reader"] = reset["reader"]
    BY <1>5 DEF K!Goroutine
  <2> QED
    BY <1>1, <1>3, <1>c, <1>t, <2>1 DEF PingIsWrite, WritesOften, ReaderNow, Intact
<1>8. Heard'
  <2>1. CASE Pinging /\ sinceRead <= cfg.idle
    <3>1. CASE x = "ping"
      <4>1. PICK i \in DOMAIN up' : up'[i].cmd = "ping" /\ up'[i].age = 0
        BY <1>2, <3>1
      <4>2. sinceRead' <= cfg'.idle + up'[i].age
        BY <1>1, <1>3, <1>c, <2>1, <4>1
      <4> QED
        BY <4>1, <4>2 DEF Heard
    <3>2. CASE pingOut' = pingOut
      <4>1. reset'["pinger"] = reset["pinger"]
        BY <1>5 DEF K!Goroutine
      <4> QED
        BY <1>1, <2>1, <3>2, <4>1 DEF Heard, Pinging
    <3> QED
      BY <3>1, <3>2
  <2>2. CASE \E i \in DOMAIN up : up[i].cmd = "ping" /\ sinceRead <= cfg.idle + up[i].age
    BY <1>1, <1>2, <2>2 DEF Heard
  <2>3. CASE \E i \in DOMAIN down : sinceRead <= cfg.idle + Delay + down[i].age
    BY <1>1, <2>3 DEF Heard
  <2>4. CASE sinceRead <= sincePing /\ sinceRead <= cfg.idle
    BY <1>1, <2>4 DEF Heard
  <2> QED
    BY <1>t, <2>1, <2>2, <2>3, <2>4 DEF Intact, Heard
<1>9. ServerHeard'
  <2>1. CASE serverTimer >= cfg.server - sinceWrite
    <3>1. PICK i \in DOMAIN up' : up'[i].age = 0
      BY <1>2
    <3>2. serverTimer >= cfg.server - cfg.idle - 0
      BY <1>3, <1>c, <1>t, <2>1 DEF Intact, WritesOften, AliveTypes, K!Off
    <3>3. serverTimer' >= cfg'.server - cfg'.idle - up'[i].age
      BY <1>1, <3>1, <3>2
    <3> QED
      BY <3>3 DEF ServerHeard
  <2>2. CASE \E i \in DOMAIN up : serverTimer >= cfg.server - cfg.idle - up[i].age
    BY <1>1, <1>2, <2>2 DEF ServerHeard
  <2> QED
    BY <1>t, <2>1, <2>2 DEF Intact, ServerHeard
<1> QED
  BY <1>1, <1>6, <1>7, <1>8, <1>9, <1>t DEF Intact

LEMMA IdleTimerFiresIntact ==
  ASSUME K!ConstantsOK, AliveInv, AliveTypes', ~isCut, K!IdleTimerFires
  PROVE  Intact'
<1>t. AliveTypes /\ AliveTypes' /\ Intact
  BY DEF AliveInv
<1>c. cfg.idle \in Nat
  BY <1>t, CfgNow
<1>1. /\ reset["pinger"] = K!Off /\ ~pingOut /\ idleTimer' = K!Off /\ sincePing' = 0
      /\ reset' = [reset EXCEPT !["pinger"] = K!UntilPing(sinceRead, sinceWrite, 0)]
      /\ UNCHANGED <<serverCfg, cfg, sinceRead, sinceWrite, readTimer, pingOut,
                     serverTimer, up, down, isCut, clientClosed, serverClosed>>
  BY <1>t DEF K!IdleTimerFires, Intact
<1>3. sinceRead \in Nat /\ sinceWrite \in Nat /\ sincePing \in Nat
  BY <1>t DEF AliveTypes
<1>4. /\ PingBound \in Nat /\ PingBound' \in Nat /\ PingBound <= PingBound' + 0
      /\ PingBound' = K!UntilPing(sinceRead, sinceWrite, 0)
  BY <1>1, <1>3, <1>t, PingBoundStep
<1>5. \A g \in K!Goroutine :
        reset'[g] = IF g = "pinger" THEN PingBound' ELSE reset[g]
  BY <1>1, <1>4, <1>t DEF AliveTypes, K!Goroutine
<1>6. reset'["pinger"] # K!Off /\ reset'["reader"] = reset["reader"]
  BY <1>4, <1>5 DEF K!Goroutine, K!Off
<1>7. PingIsTimed'
  <2>1. \E g \in K!Goroutine : reset'[g] # K!Off
    BY <1>6 DEF K!Goroutine
  <2>2. idleTimer' <= PingBound'
    BY <1>1, <1>4 DEF K!Off
  <2>3. \A g \in K!Goroutine : reset'[g] <= PingBound'
    BY <1>4, <1>5, <1>t DEF Intact, PingIsTimed, AliveTypes, K!Off
  <2> QED
    BY <2>1, <2>2, <2>3 DEF PingIsTimed
<1>8. PingIsWrite' /\ WritesOften' /\ ReaderNow'
  BY <1>1, <1>6, <1>t DEF PingIsWrite, Pinging, WritesOften, ReaderNow, Intact
<1>9. Heard'
  <2>1. CASE sinceRead <= cfg.idle
    BY <1>1, <1>6, <2>1 DEF Heard, Pinging
  <2>2. CASE \/ \E i \in DOMAIN up : up[i].cmd = "ping" /\ sinceRead <= cfg.idle + up[i].age
             \/ \E i \in DOMAIN down : sinceRead <= cfg.idle + Delay + down[i].age
    BY <1>1, <2>2 DEF Heard
  <2> QED
    BY <1>t, <2>1, <2>2 DEF Intact, Heard
<1>10. ServerHeard'
  BY <1>1, <1>t DEF Intact, ServerHeard
<1> QED
  BY <1>1, <1>7, <1>8, <1>9, <1>10, <1>t DEF Intact

LEMMA ReadFrameIntact ==
  ASSUME K!ConstantsOK, AliveInv, AliveTypes', ~isCut, K!ReadFrame
  PROVE  Intact'
<1>t. AliveTypes /\ AliveTypes' /\ Intact
  BY DEF AliveInv
<1>c. cfg.idle \in Nat /\ cfg.read \in Nat
  BY <1>t, CfgNow
<1>1. /\ sinceRead' = 0 /\ readTimer' = cfg.read
      /\ reset' = [reset EXCEPT !["reader"] = K!UntilPing(0, sinceWrite, sincePing)]
      /\ UNCHANGED <<serverCfg, cfg, sinceWrite, sincePing, idleTimer, pingOut,
                     serverTimer, up, down, isCut, clientClosed, serverClosed>>
  BY DEF K!ReadFrame
<1>3. sinceRead \in Nat /\ sinceWrite \in Nat /\ sincePing \in Nat
  BY <1>t DEF AliveTypes
<1>4. /\ PingBound \in Nat /\ PingBound' \in Nat /\ PingBound <= PingBound' + 0
      /\ PingBound' = K!UntilPing(0, sinceWrite, sincePing)
  BY <1>1, <1>3, <1>t, PingBoundStep
<1>5. \A g \in K!Goroutine :
        reset'[g] = IF g = "reader" THEN PingBound' ELSE reset[g]
  BY <1>1, <1>4, <1>t DEF AliveTypes, K!Goroutine
<1>6. reset'["pinger"] = reset["pinger"]
  BY <1>5 DEF K!Goroutine
<1>7. PingIsTimed'
  <2>1. \E g \in K!Goroutine : reset'[g] # K!Off
    BY <1>4, <1>5 DEF K!Goroutine, K!Off
  <2>2. idleTimer <= PingBound'
    BY <1>4, <1>t DEF Intact, PingIsTimed, AliveTypes, K!Off
  <2>3. \A g \in K!Goroutine : reset'[g] <= PingBound'
    BY <1>4, <1>5, <1>t DEF Intact, PingIsTimed, AliveTypes, K!Off
  <2> QED
    BY <1>1, <2>1, <2>2, <2>3 DEF PingIsTimed
<1>8. PingIsWrite' /\ WritesOften' /\ ReaderNow'
  BY <1>1, <1>6, <1>t DEF PingIsWrite, Pinging, WritesOften, ReaderNow, Intact
<1>9. Heard'
  BY <1>1, <1>3, <1>c DEF Heard
<1>10. ServerHeard' /\ readTimer' = cfg'.read - sinceRead'
  BY <1>1, <1>c, <1>t DEF Intact, ServerHeard
<1> QED
  BY <1>1, <1>7, <1>8, <1>9, <1>10, <1>t DEF Intact

LEMMA SetIdleTimerIntact ==
  ASSUME K!ConstantsOK, AliveInv, AliveTypes', ~isCut, NEW g \in K!Goroutine,
         K!SetIdleTimer(g)
  PROVE  Intact'
<1>t. AliveTypes /\ AliveTypes' /\ Intact
  BY DEF AliveInv
<1>c. cfg.idle \in Nat
  BY <1>t, CfgNow
<1>1. /\ reset[g] # K!Off /\ idleTimer' = reset[g]
      /\ reset' = [reset EXCEPT ![g] = K!Off]
      /\ pingOut' = (pingOut \/ g = "pinger")
      /\ g # "reader" => UNCHANGED down
      /\ UNCHANGED <<serverCfg, sinceRead, sinceWrite, sincePing, readTimer, serverTimer,
                     up, isCut, clientClosed, serverClosed>>
  BY DEF K!SetIdleTimer
<1>3. sinceRead \in Nat /\ sinceWrite \in Nat /\ sincePing \in Nat
  BY <1>t DEF AliveTypes
<1>4. cfg' = cfg /\ PingBound \in Nat /\ PingBound' \in Nat /\ PingBound <= PingBound' + 0
  BY <1>1, <1>3, <1>t, PingBoundStep
<1>5. \A h \in K!Goroutine : reset'[h] = IF h = g THEN K!Off ELSE reset[h]
  BY <1>1, <1>t DEF AliveTypes
<1>6. Pinging => Pinging'
  <2>1. g # "pinger" => reset'["pinger"] = reset["pinger"]
    BY <1>5 DEF K!Goroutine
  <2> QED
    BY <1>1, <2>1 DEF Pinging
<1>7. PingIsTimed'
  <2>1. \A h \in K!Goroutine : reset[h] \in Int /\ reset[h] <= PingBound
    BY <1>t DEF Intact, PingIsTimed, AliveTypes, K!Off
  <2> DEFINE old == PingBound
             new == PingBound'
  <2>4. old \in Nat /\ new \in Nat /\ old <= new + 0
    BY <1>4
  <2> HIDE DEF old, new
  <2>5. ASSUME NEW h \in K!Goroutine PROVE reset[h] <= new
    <3>1. reset[h] \in Int /\ reset[h] <= old
      BY <2>1 DEF old
    <3> QED
      BY <2>4, <3>1
  <2>2. \A h \in K!Goroutine : reset[h] <= PingBound'
    BY <2>5 DEF new
  <2>3. \A h \in K!Goroutine : reset'[h] <= PingBound'
    BY <1>4, <1>5, <2>2 DEF K!Off
  <2> QED
    BY <1>1, <2>2, <2>3 DEF PingIsTimed
<1>8. PingIsWrite' /\ WritesOften' /\ ReaderNow'
  <2>1. reset'["reader"] # K!Off => reset["reader"] # K!Off
    BY <1>5 DEF K!Goroutine
  <2> QED
    BY <1>1, <1>4, <1>6, <1>t, <2>1 DEF PingIsWrite, WritesOften, ReaderNow, Intact
<1>9. Heard'
  <2>1. CASE g = "reader"
    <3>1. sinceRead = 0
      BY <1>1, <1>t, <2>1 DEF Intact, ReaderNow
    <3> QED
      BY <1>1, <1>3, <1>4, <1>c, <3>1 DEF Heard
  <2>2. CASE g # "reader"
    BY <1>1, <1>4, <1>6, <1>t, <2>2 DEF Heard, Intact
  <2> QED
    BY <2>1, <2>2
<1>10. ServerHeard'
  BY <1>1, <1>4, <1>t DEF Intact, ServerHeard
<1> QED
  BY <1>1, <1>4, <1>7, <1>8, <1>9, <1>10, <1>t DEF Intact

(* A step of the server leaves the client as it is.                        *)
ServerOnly ==
  UNCHANGED <<serverCfg, cfg, sinceRead, sinceWrite, sincePing, idleTimer, readTimer,
              reset, pingOut, isCut, clientClosed, serverClosed>>

LEMMA ServerOnlyIntact ==
  ASSUME AliveTypes, Intact, ServerOnly, Heard', ServerHeard'
  PROVE  Intact'
<1>1. PingIsTimed' /\ PingIsWrite' /\ WritesOften' /\ ReaderNow'
  BY DEF ServerOnly, Intact, PingIsTimed, PingBound, K!UntilPing, PingIsWrite, Pinging,
         WritesOften, ReaderNow
<1> QED
  BY <1>1 DEF ServerOnly, Intact

LEMMA ServerReadFrameIntact ==
  ASSUME K!ConstantsOK, AliveInv, AliveTypes', ~isCut, K!ServerReadFrame
  PROVE  Intact'
<1>t. AliveTypes /\ AliveTypes' /\ Intact
  BY DEF AliveInv
<1>c. cfg.idle \in Nat /\ cfg.server \in Nat /\ Delay \in Nat /\ cfg = serverCfg
  BY <1>t, CfgNow DEF AliveTypes
<1>1. /\ up # <<>> /\ up' = Tail(up) /\ serverTimer' = serverCfg.server
      /\ down' = IF Head(up).cmd = "ping" THEN Append(down, K!Fresh("ping")) ELSE down
      /\ ServerOnly
  BY DEF K!ServerReadFrame, ServerOnly
<1>2. /\ 1 \in DOMAIN up /\ Head(up) = up[1]
      /\ \A i \in DOMAIN up : i = 1 \/ (i - 1 \in DOMAIN up' /\ up'[i - 1] = up[i])
  BY <1>1, <1>t, TailKeeps DEF AliveTypes
<1>3. sinceRead \in Nat /\ sinceWrite \in Nat
  BY <1>t DEF AliveTypes
<1>4. /\ \A i \in DOMAIN down : i \in DOMAIN down' /\ down'[i] = down[i]
      /\ Head(up).cmd = "ping" => \E i \in DOMAIN down' : down'[i].age = 0
  <2>1. CASE Head(up).cmd = "ping"
    <3>1. down' = K!Sent(down, "ping")
      BY <1>1, <2>1 DEF K!Sent
    <3> QED
      BY <1>t, <3>1, SentKeeps DEF AliveTypes
  <2>2. CASE Head(up).cmd # "ping"
    BY <1>1, <2>2
  <2> QED
    BY <2>1, <2>2
<1>5. Heard'
  <2>1. CASE Pinging /\ sinceRead <= cfg.idle
    BY <1>1, <2>1 DEF Heard, Pinging, ServerOnly
  <2>2. ASSUME NEW i \in DOMAIN up, up[i].cmd = "ping", sinceRead <= cfg.idle + up[i].age
        PROVE  Heard'
    <3>1. CASE i = 1
      <4>1. PICK j \in DOMAIN down' : down'[j].age = 0
        BY <1>2, <1>4, <2>2, <3>1
      <4>2. sinceRead <= cfg.idle + Delay + 0
        BY <1>3, <1>c, <1>t, <2>2, MessageAt DEF AliveTypes
      <4>3. sinceRead' <= cfg'.idle + Delay + down'[j].age
        BY <1>1, <4>1, <4>2 DEF ServerOnly
      <4> QED
        BY <4>3 DEF Heard
    <3>2. CASE i # 1
      <4>1. i - 1 \in DOMAIN up' /\ up'[i - 1] = up[i]
        BY <1>2, <3>2
      <4>2. up'[i - 1].cmd = "ping" /\ sinceRead' <= cfg'.idle + up'[i - 1].age
        BY <1>1, <2>2, <4>1 DEF ServerOnly
      <4> QED
        BY <4>1, <4>2 DEF Heard
    <3> QED
      BY <3>1, <3>2
  <2>3. CASE \E i \in DOMAIN down : sinceRead <= cfg.idle + Delay + down[i].age
    BY <1>1, <1>4, <2>3 DEF Heard, ServerOnly
  <2>4. CASE sinceRead <= sincePing /\ sinceRead <= cfg.idle
    BY <1>1, <2>4 DEF Heard, ServerOnly
  <2> QED
    BY <1>t, <2>1, <2>2, <2>3, <2>4 DEF Intact, Heard
<1>6. ServerHeard'
  <2>1. serverTimer' >= cfg'.server - sinceWrite'
    BY <1>1, <1>3, <1>c DEF ServerOnly
  <2> QED
    BY <2>1 DEF ServerHeard
<1> QED
  BY <1>1, <1>5, <1>6, <1>t, ServerOnlyIntact

LEMMA ServerWritesIntact ==
  ASSUME K!ConstantsOK, AliveInv, AliveTypes', ~isCut, K!ServerWrites
  PROVE  Intact'
<1>t. AliveTypes /\ Intact
  BY DEF AliveInv
<1>1. down' = K!Sent(down, "other") /\ ServerOnly /\ UNCHANGED <<up, serverTimer>>
  BY DEF K!ServerWrites, ServerOnly
<1>2. \A i \in DOMAIN down : i \in DOMAIN down' /\ down'[i] = down[i]
  BY <1>1, <1>t, SentKeeps DEF AliveTypes
<1>3. Heard' /\ ServerHeard'
  BY <1>1, <1>2, <1>t DEF Intact, Heard, ServerHeard, Pinging, ServerOnly
<1> QED
  BY <1>1, <1>3, <1>t, ServerOnlyIntact

LEMMA TickIntact ==
  ASSUME K!ConstantsOK, AliveInv, AliveTypes', ~isCut, K!Tick
  PROVE  Intact'
<1>t. AliveTypes /\ AliveTypes' /\ Intact
  BY DEF AliveInv
<1>c. /\ cfg.idle \in Nat /\ cfg.server \in Nat /\ cfg.read \in Nat /\ cfg.ui \in Nat
      /\ Delay \in Nat
  BY <1>t, CfgNow
<1>1. /\ idleTimer # 0 /\ readTimer # 0 /\ serverTimer # 0 /\ ~pingOut
      /\ \A g \in K!Goroutine : reset[g] = K!Off
      /\ \A i \in DOMAIN up : up[i].age < Delay
      /\ \A i \in DOMAIN down : down[i].age < Delay
      /\ sinceRead' = K!Age(sinceRead) /\ sinceWrite' = K!Age(sinceWrite)
      /\ sincePing' = K!Age(sincePing)
      /\ idleTimer' = K!Run(idleTimer) /\ readTimer' = K!Run(readTimer)
      /\ serverTimer' = K!Run(serverTimer)
      /\ up' = K!Older(up) /\ down' = K!Older(down)
      /\ UNCHANGED <<serverCfg, cfg, reset, pingOut, isCut, clientClosed, serverClosed>>
  BY DEF K!Tick
<1>2. /\ \A a \in Nat : K!Age(a) \in Nat /\ K!Age(a) <= a + 1
      /\ \A a, b \in Nat : a <= b => K!Age(a) <= K!Age(b)
      /\ \A a \in Nat : a < cfg.read \/ a < cfg.idle => K!Age(a) = a + 1
  BY <1>c DEF K!Age, K!Max2, K!Min2
<1>3. sinceRead \in Nat /\ sinceWrite \in Nat /\ sincePing \in Nat
  BY <1>t DEF AliveTypes
<1>4. /\ PingBound \in Nat /\ PingBound' \in Nat /\ PingBound <= PingBound' + 1
  BY <1>1, <1>2, <1>3, <1>t, PingBoundStep
<1>5. ~Pinging /\ reset["reader"] = K!Off
  BY <1>1 DEF Pinging, K!Goroutine
<1>6. idleTimer \in Nat \ {0} /\ idleTimer <= PingBound /\ idleTimer' = idleTimer - 1
  BY <1>1, <1>t DEF Intact, PingIsTimed, AliveTypes, K!Run, K!Off
<1>7. \/ PingBound = cfg.idle - sincePing
      \/ PingBound <= cfg.idle - sinceWrite /\ PingBound <= cfg.idle - sinceRead
  BY <1>3, <1>4, <1>6, <1>c, PingBoundIs DEF PingBound
<1>8. PingIsTimed'
  <2>1. idleTimer' # K!Off
    BY <1>6 DEF K!Off
  <2>3. idleTimer' <= PingBound'
    <3> DEFINE old == PingBound
               new == PingBound'
    <3>1. old \in Nat /\ new \in Nat /\ old <= new + 1
      BY <1>4
    <3>2. idleTimer \in Nat /\ idleTimer <= old /\ idleTimer' = idleTimer - 1
      BY <1>6
    <3> HIDE DEF old, new
    <3>3. idleTimer' <= new
      BY <3>1, <3>2
    <3> QED
      BY <3>3 DEF new
  <2>2. \A g \in K!Goroutine : reset'[g] <= PingBound'
    BY <1>1, <1>4 DEF K!Off
  <2> QED
    BY <2>1, <2>2, <2>3 DEF PingIsTimed
<1>9. sinceWrite <= sincePing /\ sinceWrite < cfg.idle
  <2>1. sinceWrite <= sincePing
    BY <1>5, <1>t DEF Intact, PingIsWrite
  <2> QED
    BY <1>3, <1>4, <1>6, <1>7, <1>c, <2>1
<1>10. sinceWrite' = sinceWrite + 1 /\ sinceWrite' <= sincePing' /\ sinceWrite' <= cfg.idle
  <2>1. K!Age(sinceWrite) = sinceWrite + 1
    BY <1>2, <1>3, <1>9
  <2>2. K!Age(sinceWrite) <= K!Age(sincePing)
    BY <1>2, <1>3, <1>9
  <2> QED
    BY <1>1, <1>3, <1>9, <1>c, <2>1, <2>2
<1>11. PingIsWrite' /\ WritesOften' /\ ReaderNow'
  BY <1>1, <1>5, <1>10 DEF PingIsWrite, WritesOften, ReaderNow
<1>12. readTimer' = cfg.read - sinceRead'
  <2>1. readTimer \in Nat \ {0} /\ sinceRead < cfg.read /\ readTimer = cfg.read - sinceRead
    BY <1>t, TimersRun DEF Intact
  <2> QED
    <3>1. K!Age(sinceRead) = sinceRead + 1
      BY <1>2, <1>3, <2>1
    <3>2. K!Run(readTimer) = readTimer - 1
      BY <2>1 DEF K!Run, K!Off
    <3> QED
      BY <1>1, <1>3, <1>c, <2>1, <3>1, <3>2
<1>13. /\ \A i \in DOMAIN up : /\ i \in DOMAIN up' /\ up'[i].cmd = up[i].cmd
                               /\ up'[i].age = up[i].age + 1 /\ up[i].age \in Nat
       /\ \A i \in DOMAIN down : /\ i \in DOMAIN down'
                                 /\ down'[i].age = down[i].age + 1 /\ down[i].age \in Nat
  <2>1. up \in Msgs /\ down \in Msgs
    BY <1>t DEF AliveTypes
  <2> QED
    BY <1>1, <2>1, OlderKeeps, MessageAt
<1>14. sinceRead' \in Nat /\ sinceRead' <= sinceRead + 1
  BY <1>1, <1>2, <1>3
<1>15. Heard'
  <2>2. ASSUME NEW i \in DOMAIN up, up[i].cmd = "ping", sinceRead <= cfg.idle + up[i].age
        PROVE  Heard'
    <3>1. i \in DOMAIN up' /\ up'[i].cmd = "ping" /\ sinceRead' <= cfg.idle + up'[i].age
      BY <1>3, <1>13, <1>14, <1>c, <2>2
    <3> QED
      BY <1>1, <3>1 DEF Heard
  <2>3. ASSUME NEW i \in DOMAIN down, sinceRead <= cfg.idle + Delay + down[i].age
        PROVE  Heard'
    <3>1. i \in DOMAIN down' /\ sinceRead' <= cfg.idle + Delay + down'[i].age
      BY <1>3, <1>13, <1>14, <1>c, <2>3
    <3> QED
      BY <1>1, <3>1 DEF Heard
  <2>4. ASSUME sinceRead <= sincePing, sinceRead <= cfg.idle PROVE Heard'
    <3>1. sinceRead < cfg.idle
      BY <1>3, <1>4, <1>6, <1>7, <1>c, <2>4
    <3>2. sinceRead' <= sincePing' /\ sinceRead' <= cfg.idle
      <4>1. K!Age(sinceRead) <= K!Age(sincePing)
        BY <1>2, <1>3, <2>4
      <4> QED
        BY <1>1, <1>3, <1>14, <1>c, <3>1, <4>1
    <3> QED
      BY <1>1, <3>2 DEF Heard
  <2> QED
    BY <1>5, <1>t, <2>2, <2>3, <2>4 DEF Intact, Heard
<1>16. ServerHeard'
  <2>1. serverTimer \in Nat \ {0} /\ serverTimer' = serverTimer - 1
    BY <1>1, <1>t, TimersRun DEF K!Run, K!Off
  <2>2. ASSUME serverTimer >= cfg.server - sinceWrite PROVE ServerHeard'
    <3>1. serverTimer' >= cfg.server - sinceWrite'
      BY <1>3, <1>10, <1>c, <2>1, <2>2
    <3> QED
      BY <1>1, <3>1 DEF ServerHeard
  <2>3. ASSUME NEW i \in DOMAIN up, serverTimer >= cfg.server - cfg.idle - up[i].age
        PROVE  ServerHeard'
    <3>1. i \in DOMAIN up' /\ serverTimer' >= cfg.server - cfg.idle - up'[i].age
      BY <1>13, <1>c, <2>1, <2>3
    <3> QED
      BY <1>1, <3>1 DEF ServerHeard
  <2> QED
    BY <1>t, <2>2, <2>3 DEF Intact, ServerHeard
<1> QED
  BY <1>1, <1>8, <1>11, <1>12, <1>15, <1>16, <1>t DEF Intact

LEMMA AliveStep ==
  ASSUME K!ConstantsOK, AliveInv, [K!Next]_(K!vars)
  PROVE  AliveInv'
<1>1. AliveTypes' /\ ReaderHas'
  BY AliveTypesPreserved DEF AliveInv
<1>2. SUFFICES ASSUME ~isCut' PROVE Intact'
  BY <1>1 DEF AliveInv
<1>3. ASSUME ~isCut, K!WritePing PROVE Intact'
  <2>1. K!Write("ping")
    BY <1>3 DEF K!WritePing, AliveInv, Intact
  <2> QED
    BY <1>1, <1>3, <2>1, WriteIntact
<1>4. ASSUME ~isCut, K!WriteOther PROVE Intact'
  BY <1>1, <1>4, WriteIntact DEF K!WriteOther
<1>5. ASSUME ~isCut, K!ReadTimerFires PROVE Intact'
  BY <1>5, TimersRun DEF K!ReadTimerFires
<1>6. ASSUME ~isCut, K!ServerTimerFires PROVE Intact'
  BY <1>6, TimersRun DEF K!ServerTimerFires
<1>7. ASSUME ~isCut, K!OnChange \/ UNCHANGED K!vars PROVE Intact'
  <2>1. ServerOnly /\ UNCHANGED <<up, down, serverTimer>>
    BY <1>7 DEF K!OnChange, K!vars, ServerOnly
  <2>2. Heard' /\ ServerHeard'
    BY <1>7, <2>1 DEF AliveInv, Intact, Heard, ServerHeard, Pinging, ServerOnly
  <2> QED
    BY <1>7, <2>1, <2>2, ServerOnlyIntact DEF AliveInv
<1>8. ASSUME ~isCut, K!Prompt PROVE Intact'
  BY <1>1, <1>3, <1>5, <1>6, <1>8, IdleTimerFiresIntact, ReadFrameIntact,
     SetIdleTimerIntact, ServerReadFrameIntact DEF K!Prompt
<1>9. ASSUME ~isCut, K!ServerWrites \/ K!Tick PROVE Intact'
  BY <1>1, <1>9, ServerWritesIntact, TickIntact
<1>10. ~K!Cut
  BY <1>2 DEF K!Cut
<1>11. ~isCut
  <2>1. UNCHANGED isCut
    BY <1>10 DEF K!Next, K!Prompt, K!vars, K!WritePing, K!WriteOther, K!Write, K!ReadTimerFires,
       K!ServerTimerFires, K!OnChange, K!IdleTimerFires, K!ReadFrame, K!SetIdleTimer,
       K!ServerReadFrame, K!ServerWrites, K!Tick
  <2> QED
    BY <1>2, <2>1
<1> QED
  BY <1>4, <1>7, <1>8, <1>9, <1>10, <1>11 DEF K!Next

(* Neither side closes an intact connection for silence, for any           *)
(* configuration in which the time-outs leave room for the delay, however  *)
(* goroutines and traffic interleave.  It does not hold on a client's      *)
(* first connection, as the run keepalive_first shows.                     *)
THEOREM StaysOpenCorrect ==
  ASSUME K!ConstantsOK, ~FirstConnection
  PROVE  K!Spec => []StaysOpen
<1>1. K!Init => AliveInv
  BY InitAlive
<1>2. AliveInv /\ [K!Next]_(K!vars) => AliveInv'
  BY AliveStep
<1>3. AliveInv => StaysOpen
  BY DEF AliveInv, Intact, StaysOpen, K!StaysOpen
<1> QED
  BY <1>1, <1>2, <1>3, PTL DEF K!Spec

-----------------------------------------------------------------------------
(* The listener.  isRunning tells whether a goroutine exists, and only a running one has  *)
(* another call queued.                                                    *)
FlagsTell ==
  /\ isRunning <=> \E r \in Thread : L!Active(r)
  /\ hasMoreCall => isRunning

(* The event in hand lies between the one told last and the newest.        *)
Ordered ==
  /\ told <= pendingEv
  /\ \A r \in Thread : pc[r] \in {"call", "end"} =>
       told <= ev2[r] /\ ev2[r] <= pendingEv

ListenerInv == L!TypeOK /\ OneAtATime /\ FlagsTell /\ Ordered /\ NoLostEvent

LEMMA InitListener == ASSUME L!ConstantsOK, L!Init PROVE ListenerInv
<1> USE DEF L!ConstantsOK, L!Init
<1>1. L!TypeOK
  <2>1. 0 \in L!Event
    BY DEF L!Event
  <2>2. pc \in [Thread -> {"off", "load", "call", "end"}] /\ ev2 \in [Thread -> L!Event]
    BY <2>1
  <2> QED
    BY <2>1, <2>2 DEF L!TypeOK
<1>2. OneAtATime /\ FlagsTell /\ Ordered /\ NoLostEvent
  BY DEF OneAtATime, L!OneAtATime, FlagsTell, L!Active, Ordered, NoLostEvent, L!NoLostEvent
<1> QED
  BY <1>1, <1>2 DEF ListenerInv

LEMMA ListenerStep ==
  ASSUME L!ConstantsOK, ListenerInv, [L!Next]_(L!vars)
  PROVE  ListenerInv'
<1> USE DEF L!ConstantsOK, ListenerInv, L!TypeOK, L!Event
<1>1. CASE L!Store
  <2>1. L!TypeOK' /\ OneAtATime' /\ FlagsTell'
    BY <1>1 DEF L!Store, OneAtATime, L!OneAtATime, FlagsTell, L!Active
  <2>2. Ordered'
    BY <1>1 DEF L!Store, Ordered
  <2>3. NoLostEvent'
    BY <1>1 DEF L!Store, NoLostEvent, L!NoLostEvent, L!WillTell
  <2> QED
    BY <2>1, <2>2, <2>3
<1>2. CASE L!DoQueue
  BY <1>2 DEF L!DoQueue, L!Queues, OneAtATime, L!OneAtATime, FlagsTell, L!Active, Ordered,
              NoLostEvent, L!NoLostEvent, L!WillTell
<1>3. ASSUME NEW r \in Thread, L!DoStart(r) PROVE ListenerInv'
  <2>1. \A s \in Thread : pc[s] = "off"
    BY <1>3 DEF L!DoStart, FlagsTell, L!Active
  <2>2. L!TypeOK' /\ OneAtATime' /\ FlagsTell'
    BY <1>3, <2>1 DEF L!DoStart, L!Running, OneAtATime, L!OneAtATime, FlagsTell, L!Active
  <2>3. Ordered' /\ NoLostEvent'
    BY <1>3, <2>1 DEF L!DoStart, Ordered, NoLostEvent, L!NoLostEvent, L!WillTell
  <2> QED
    BY <2>2, <2>3
<1>4. ASSUME NEW r \in Thread, L!Load(r) PROVE ListenerInv'
  <2>1. L!TypeOK' /\ OneAtATime' /\ FlagsTell'
    BY <1>4 DEF L!Load, OneAtATime, L!OneAtATime, FlagsTell, L!Active
  <2>2. Ordered'
    BY <1>4 DEF L!Load, Ordered
  <2>3. NoLostEvent'
    BY <1>4 DEF L!Load, NoLostEvent, L!NoLostEvent, L!WillTell
  <2> QED
    BY <2>1, <2>2, <2>3
<1>5. ASSUME NEW r \in Thread, L!Call(r) PROVE ListenerInv'
  <2>1. L!TypeOK' /\ OneAtATime' /\ FlagsTell'
    BY <1>5 DEF L!Call, OneAtATime, L!OneAtATime, FlagsTell, L!Active
  <2>2. \A s \in Thread : s # r => pc[s] = "off"
    BY <1>5 DEF L!Call, OneAtATime, L!OneAtATime, L!Active
  <2>3. Ordered'
    BY <1>5, <2>2 DEF L!Call, Ordered
  <2>4. NoLostEvent'
    <3>1. /\ pc[r] = "call" /\ told' = ev2[r] /\ ev2' = ev2
          /\ pc' = [pc EXCEPT ![r] = "end"]
          /\ UNCHANGED <<pendingEv, hasMoreCall, caller>>
      BY <1>5 DEF L!Call
    <3>2. CASE ev2[r] = pendingEv
      BY <3>1, <3>2 DEF NoLostEvent, L!NoLostEvent
    <3>3. CASE ev2[r] # pendingEv
      <4>1. told # pendingEv
        BY <3>3, <3>1 DEF Ordered
      <4>2. caller = "do" \/ hasMoreCall
        BY <3>1, <3>3, <4>1, <2>2 DEF NoLostEvent, L!NoLostEvent, L!WillTell
      <4> QED
        BY <3>1, <4>2 DEF NoLostEvent, L!NoLostEvent, L!WillTell
    <3> QED
      BY <3>2, <3>3
  <2> QED
    BY <2>1, <2>3, <2>4
<1>6. ASSUME NEW r \in Thread, L!End(r) PROVE ListenerInv'
  <2>1. \A s \in Thread : s # r => pc[s] = "off"
    BY <1>6 DEF L!End, OneAtATime, L!OneAtATime, L!Active
  <2>2. L!TypeOK' /\ OneAtATime' /\ FlagsTell'
    BY <1>6, <2>1 DEF L!End, L!More, OneAtATime, L!OneAtATime, FlagsTell, L!Active
  <2>3. Ordered'
    BY <1>6 DEF L!End, L!More, Ordered
  <2>4. NoLostEvent'
    BY <1>6, <2>1 DEF L!End, L!More, NoLostEvent, L!NoLostEvent, L!WillTell
  <2> QED
    BY <2>2, <2>3, <2>4
<1>7. CASE UNCHANGED L!vars
  BY <1>7 DEF L!vars, OneAtATime, L!OneAtATime, FlagsTell, L!Active, Ordered,
              NoLostEvent, L!NoLostEvent, L!WillTell
<1> QED
  BY <1>1, <1>2, <1>3, <1>4, <1>5, <1>6, <1>7 DEF L!Next, L!Do, L!ThreadStep

(* The callback never runs twice at the same time.                         *)
THEOREM OneAtATimeCorrect ==
  ASSUME L!ConstantsOK
  PROVE  L!Spec => []OneAtATime
<1>1. L!Init => ListenerInv
  BY InitListener
<1>2. ListenerInv /\ [L!Next]_(L!vars) => ListenerInv'
  BY ListenerStep
<1>3. ListenerInv => OneAtATime
  BY DEF ListenerInv
<1> QED
  BY <1>1, <1>2, <1>3, PTL DEF L!Spec

(* An event the callback was not called for is never without a step that   *)
(* is going to look at it.                                                 *)
THEOREM NoLostEventCorrect ==
  ASSUME L!ConstantsOK
  PROVE  L!Spec => []NoLostEvent
<1>1. L!Init => ListenerInv
  BY InitListener
<1>2. ListenerInv /\ [L!Next]_(L!vars) => ListenerInv'
  BY ListenerStep
<1>3. ListenerInv => NoLostEvent
  BY DEF ListenerInv
<1> QED
  BY <1>1, <1>2, <1>3, PTL DEF L!Spec

(* The safety part of the promise: events are told in their order, and     *)
(* never one that has not happened.                                        *)
THEOREM ImplementsLatestEvent ==
  ASSUME L!ConstantsOK
  PROVE  L!Spec => L!Promise!Safety
<1>1. L!Init => ListenerInv /\ L!Promise!Init
  BY InitListener DEF L!Init, L!Promise!Init
<1>2. ListenerInv /\ [L!Next]_(L!vars) => ListenerInv'
  BY ListenerStep
<1>3. ListenerInv /\ [L!Next]_(L!vars) => [L!Promise!Next]_<<pendingEv, told>>
  <2> SUFFICES ASSUME ListenerInv, [L!Next]_(L!vars) PROVE [L!Promise!Next]_<<pendingEv, told>>
    OBVIOUS
  <2> USE DEF ListenerInv, L!TypeOK, L!Event
  <2>1. CASE L!Store
    BY <2>1 DEF L!Store, L!Promise!Next, L!Promise!Change
  <2>2. ASSUME NEW r \in Thread, L!Call(r) PROVE [L!Promise!Next]_<<pendingEv, told>>
    <3>1. told' = ev2[r] /\ pendingEv' = pendingEv /\ told <= ev2[r] /\ ev2[r] <= pendingEv
      BY <2>2 DEF L!Call, Ordered
    <3> QED
      BY <3>1 DEF L!Promise!Next, L!Promise!Tell
  <2>3. ASSUME ~L!Store, \A r \in Thread : ~L!Call(r)
        PROVE  UNCHANGED <<pendingEv, told>>
    BY <2>3 DEF L!Next, L!Do, L!ThreadStep, L!DoQueue, L!DoStart, L!Load, L!End, L!vars
  <2> QED
    BY <2>1, <2>2, <2>3
<1> QED
  BY <1>1, <1>2, <1>3, PTL DEF L!Spec, L!Promise!Safety

-----------------------------------------------------------------------------
(* The ring buffer.  Its header goes into the bytes before a batch, which  *)
(* end the batch before it.  Where that one was shorter than the header,   *)
(* the header reaches Reach cells further: into the end of a frame of the  *)
(* lower part.  The two bytes of a frame's length must be out of its       *)
(* reach: on the server it reaches one byte into a frame of at least three.*)
LengthsSafe == \A f \in Frame : Reach + 2 <= Total[f]

HeaderRoom ==
  reader = "take" => /\ LengthsSafe
                     /\ bip.Sent = Prefix \/ bip.Sent + Prefix <= bip.SendEnd + Reach

SliceOK == SliceIn(Reach, bip, slice, array)

BipInv == RingOK(Reach, bip) /\ reader \in {"take", "pop"} /\ HeaderRoom /\ SliceOK

LEMMA ReachFacts == Reach \in Nat /\ \A f \in Frame : Prefix <= Total[f] + Reach
<1> DEFINE S == {n \in 0 .. Prefix : \A f \in Frame : n <= Total[f]}
           P(n) == /\ \A f \in Frame : n <= Total[f]
                   /\ n = Prefix \/ \E f \in Frame : n = Total[f]
           n0 == CHOOSE n \in 0 .. Prefix : P(n)
<1>1. Prefix \in Nat /\ \A f \in Frame : Total[f] \in Nat \ {0}
  BY BipBufAssumption
<1>2. PICK m \in S : \A k \in S : k <= m
  <2>1. 0 \in S
    BY <1>1
  <2>2. S \in SUBSET (0 .. Prefix)
    OBVIOUS
  <2> HIDE DEF S
  <2> QED
    BY <1>1, <2>1, <2>2, Greatest
<1>3. m \in 0 .. Prefix /\ P(m)
  <2>1. CASE m = Prefix
    BY <2>1
  <2>2. CASE m # Prefix
    <3>1. m + 1 \in 0 .. Prefix /\ m + 1 \notin S
      BY <1>1, <1>2, <2>2
    <3>2. PICK f \in Frame : ~(m + 1 <= Total[f])
      BY <3>1
    <3>3. m = Total[f]
      BY <1>1, <3>2
    <3> QED
      BY <3>3
  <2> QED
    BY <2>1, <2>2
<1>4. n0 \in 0 .. Prefix /\ P(n0)
  <2> HIDE DEF P
  <2> QED
    BY <1>3
<1>5. Reach = Prefix - n0
  BY DEF Reach
<1> HIDE DEF n0
<1> QED
  BY <1>1, <1>4, <1>5

LEMMA ReachShort == LengthsSafe => Reach \in 0 .. Reach /\ Shorter(Reach)
<1> SUFFICES ASSUME LengthsSafe, NEW f \in Storable PROVE Reach < Total[f]
  BY ReachFacts DEF Shorter
<1>1. Reach + 2 <= Total[f] /\ Total[f] \in Nat
  BY StorableFacts DEF LengthsSafe
<1> QED
  BY <1>1, ReachFacts

LEMMA NoSliceEmpty == slice = NoSlice => SliceFrames = <<>>
<1>1. SliceFrames = Held(Reach, bip, slice, array)
  BY DEF SliceFrames, Held, Current
<1> QED
  BY <1>1, ReachFacts, NoSliceHeld

LEMMA InitBip == Init /\ (LengthsSafe \/ reader = "pop") => BipInv /\ Stored = <<>>
<1> SUFFICES ASSUME Init, LengthsSafe \/ reader = "pop" PROVE BipInv /\ Stored = <<>>
  OBVIOUS
<1> USE Sizes0
<1>1. /\ bip = NewFrame16BipBuf2 /\ slice = NoSlice /\ reader \in {"take", "pop"}
  BY DEF Init
<1>2. /\ bip.cap = 0 /\ bip.Sent = Prefix /\ bip.SendEnd = Prefix /\ bip.Write = Prefix
      /\ bip.TailEnd = 0 /\ bip.pendingGap = 0 /\ Start(bip) = Prefix
  BY <1>1 DEF NewFrame16BipBuf2, Start
<1>3. bip \in Ring
  BY <1>1 DEF NewFrame16BipBuf2, Ring
<1>4. Tiled(Reach, bip.Buf, Prefix, Prefix) /\ FramesBut(Reach, bip.Buf, Prefix, Prefix) = <<>>
  BY ReachFacts, TiledEmpty, FramesEmpty
<1>5. RingOK(Reach, bip)
  BY <1>2, <1>3, <1>4 DEF RingOK, CapOK
<1>6. Stored = <<>>
  BY <1>2, <1>4 DEF Stored, QueuedBut, Start
<1>7. HeaderRoom
  BY <1>1, <1>2 DEF HeaderRoom
<1> QED
  BY <1>1, <1>5, <1>6, <1>7 DEF BipInv, SliceOK, SliceIn

(* Each of the three calls keeps the invariant and is a step of the queue. *)
LEMMA AllocStep ==
  ASSUME BipInv, NEW f \in Frame, Alloc(f)
  PROVE  BipInv' /\ Fifo!Push(f)
<1>1. RingOK(Reach, bip) /\ reader \in {"take", "pop"}
  BY DEF BipInv
<1>2. /\ CanAlloc(bip, f) /\ bip' = AllocFrame(bip, f) /\ slice' = slice /\ reader' = reader
      /\ array' = IF array = Current /\ slice # NoSlice /\ AllocGrows(bip, f)
                  THEN Kept(bip.Buf, slice) ELSE array
  BY DEF Alloc
<1>3. /\ RingOK(Reach, bip') /\ Stored' = Append(Stored, f)
      /\ bip'.pendingGap = bip.pendingGap
      /\ AllocGrows(bip, f) => bip'.Sent = Prefix /\ bip'.SendEnd = Prefix
      /\ ~AllocGrows(bip, f) =>
           /\ bip'.Sent = bip.Sent /\ bip'.SendEnd = bip.SendEnd
           /\ \A i \in bip.Sent .. Start(bip) - 1 : bip'.Buf[i] = bip.Buf[i]
  BY <1>1, <1>2, ReachFacts, AllocRing DEF Stored
<1>4. HeaderRoom'
  BY <1>2, <1>3 DEF BipInv, HeaderRoom, LengthsSafe
<1>5. SliceOK' /\ SliceFrames' = SliceFrames
  <2>1. /\ SliceIn(Reach, bip, slice, array) /\ slice' = slice
        /\ array' = IF array = <<>> /\ slice # NoSlice /\ AllocGrows(bip, f)
                    THEN Kept(bip.Buf, slice) ELSE array
    BY <1>2 DEF BipInv, SliceOK, Current
  <2>2. SliceIn(Reach, bip', slice, array') /\ Held(Reach, bip', slice, array') = Held(Reach, bip, slice, array)
    <3> DEFINE D == Reach
               b2 == bip'
               a2 == array'
    <3>1. D \in Nat /\ RingOK(D, bip) /\ SliceIn(D, bip, slice, array)
      BY <1>1, <2>1, ReachFacts
    <3>2. b2 = AllocFrame(bip, f) /\ CanAlloc(bip, f)
      BY <1>2
    <3>3. a2 = IF array = <<>> /\ slice # NoSlice /\ AllocGrows(bip, f)
               THEN Kept(bip.Buf, slice) ELSE array
      BY <2>1
    <3> HIDE DEF D, b2, a2
    <3>4. SliceIn(D, b2, slice, a2) /\ Held(D, b2, slice, a2) = Held(D, bip, slice, array)
      BY <3>1, <3>2, <3>3, AllocSlice
    <3> QED
      BY <3>4 DEF D, b2, a2
  <2> QED
    BY <2>1, <2>2 DEF SliceOK, SliceFrames, Held, Current
<1> QED
  BY <1>1, <1>2, <1>3, <1>4, <1>5 DEF BipInv, Fifo!Push

LEMMA TakeStep ==
  ASSUME BipInv, Take
  PROVE  BipInv' /\ Fifo!Take
<1> DEFINE r == TakeSendSlice(bip)
<1>1. /\ reader = "take" /\ reader' = reader /\ slice' = r.slice /\ array' = Current
      /\ bip' = [r.b EXCEPT !.Buf = Wrap(@, r.slice)]
  BY DEF Take
<1>2. /\ RingOK(Reach, bip) /\ LengthsSafe
      /\ bip.Sent = Prefix \/ bip.Sent + Prefix <= bip.SendEnd + Reach
  BY <1>1 DEF BipInv, HeaderRoom
<1>3. /\ RingOK(Reach, r.b)
      /\ r.slice = NoSlice =>
           /\ Stored = <<>> /\ QueuedBut(Reach, r.b) = <<>>
           /\ r.b.Sent = Prefix /\ r.b.SendEnd = Prefix /\ r.b.TailEnd = 0
      /\ r.slice # NoSlice =>
           /\ Taken(Reach, r.b, r.slice)
           /\ Stored = FramesBut(Reach, r.b.Buf, r.b.Sent, r.b.SendEnd) \o QueuedBut(Reach, r.b)
           /\ r.b.TailEnd # 0 => /\ bip.TailEnd # 0
                                 /\ r.b.Sent = Start(bip) /\ r.b.Write = bip.Write
  BY <1>2, ReachFacts, TakeRing DEF Stored
<1> HIDE DEF r
<1>4. CASE r.slice = NoSlice
  <2>1. bip' = r.b
    <3>1. r.b \in Ring
      BY <1>3 DEF RingOK
    <3>2. Wrap(r.b.Buf, r.slice) = r.b.Buf
      BY <1>4 DEF Wrap
    <3> QED
      BY <1>1, <3>1, <3>2 DEF Ring
  <2>2. SliceFrames' = <<>>
    <3>1. slice'.from = 0 /\ slice'.to = 0
      BY <1>1, <1>4 DEF NoSlice
    <3> QED
      BY <3>1, ReachFacts, FramesEmpty DEF SliceFrames
  <2>3. HeaderRoom' /\ SliceOK'
    BY <1>1, <1>2, <1>3, <1>4, <2>1 DEF HeaderRoom, LengthsSafe, SliceOK, SliceIn
  <2>4. Fifo!Take
    BY <1>3, <1>4, <2>1, <2>2 DEF Fifo!Take, Stored
  <2> QED
    BY <1>1, <1>3, <2>1, <2>3, <2>4 DEF BipInv
<1>5. CASE r.slice # NoSlice
  <2>1. /\ r.b \in Ring /\ Taken(Reach, r.b, r.slice) /\ r.b.Sent < r.b.SendEnd
        /\ Tiled(Reach, r.b.Buf, r.b.Sent, r.b.SendEnd)
    BY <1>3, <1>5 DEF RingOK, Taken
  <2>2. /\ r.b.Sent \in 0 .. MaxCap /\ r.b.SendEnd \in 0 .. MaxCap /\ MaxCap \in Nat
        /\ r.b.Sent \in Nat /\ r.b.SendEnd \in Nat /\ Prefix \in Nat
    BY <2>1, RingFacts, Sizes0
  <2>3. r.b.TailEnd # 0 => r.b.Write = Prefix \/ r.b.Write + Prefix <= r.b.Sent + Reach
    <3> SUFFICES ASSUME r.b.TailEnd # 0
                 PROVE  r.b.Write = Prefix \/ r.b.Write + Prefix <= r.b.Sent + Reach
      OBVIOUS
    <3>1. bip.TailEnd # 0 /\ r.b.Sent = Start(bip) /\ r.b.Write = bip.Write
      BY <1>3, <1>5
    <3>2. bip.Write <= bip.Sent /\ Prefix <= bip.Write
      BY <1>2, <3>1 DEF RingOK
    <3>3. /\ bip.Write \in Nat /\ bip.Sent \in Nat /\ bip.SendEnd \in Nat
          /\ bip.pendingGap \in Nat /\ Start(bip) = bip.SendEnd + bip.pendingGap
      BY <1>2, RingFacts DEF RingOK, Start
    <3> QED
      BY <1>2, <2>2, <3>1, <3>2, <3>3, ReachFacts
  <2>4. /\ RingOK(Reach, bip') /\ Stored' = QueuedBut(Reach, r.b) /\ Taken(Reach, bip', r.slice)
        /\ bip'.Sent = r.b.Sent /\ bip'.SendEnd = r.b.SendEnd
        /\ FramesBut(Reach, bip'.Buf, r.b.Sent, r.b.SendEnd) = FramesBut(Reach, r.b.Buf, r.b.Sent, r.b.SendEnd)
    <3>1. bip' = Wrapped(r.b, r.slice)
      BY <1>1, Zenon DEF Wrapped
    <3>2. RingOK(Reach, r.b) /\ Taken(Reach, r.b, r.slice)
      BY <1>3, <2>1
    <3> QED
      BY <1>2, <2>3, <3>1, <3>2, ReachFacts, ReachShort, WrapRing DEF Stored
  <2>5. /\ slice'.from = r.b.Sent /\ slice'.to = r.b.SendEnd
        /\ MaxFramePayload > 0 => slice'.to - slice'.from <= MaxFramePayload
    BY <1>1, <2>1 DEF Taken
  <2>6. SliceFrames' = FramesBut(Reach, r.b.Buf, r.b.Sent, r.b.SendEnd)
    BY <1>1, <2>4, <2>5 DEF SliceFrames, Current
  <2>7. HeaderRoom'
    <3> DEFINE f == r.b.Buf[r.b.Sent]
    <3>1. f \in Storable /\ r.b.Sent + Total[f] <= r.b.SendEnd
      <4>1. r.b.Sent # r.b.SendEnd
        BY <2>1, <2>2
      <4> QED
        BY <2>1, <2>2, <4>1, TiledRest, Zenon
    <3>2. /\ Prefix <= Total[f] + Reach /\ Total[f] \in Nat /\ Reach \in Nat
          /\ Prefix \in Nat
      BY <3>1, ReachFacts, StorableFacts, Sizes0
    <3> HIDE DEF f
    <3>3. r.b.Sent + Prefix <= r.b.SendEnd + Reach
      BY <2>2, <3>1, <3>2
    <3> QED
      BY <1>1, <1>2, <2>4, <3>3 DEF HeaderRoom, LengthsSafe
  <2>8. SliceOK'
    BY <1>1, <2>1, <2>2, <2>4, <2>5 DEF SliceOK, SliceIn, Current
  <2>9. Fifo!Take
    <3>1. FramesBut(Reach, r.b.Buf, r.b.Sent, r.b.SendEnd) # <<>>
      BY <2>1, <2>2, FramesTyped
    <3> QED
      BY <1>3, <1>5, <2>4, <2>6, <3>1 DEF Fifo!Take
  <2> QED
    BY <1>1, <2>4, <2>7, <2>8, <2>9 DEF BipInv
<1> QED
  BY <1>4, <1>5

LEMMA PopStep ==
  ASSUME BipInv, Pop
  PROVE  BipInv' /\ Fifo!Take
<1> DEFINE r == PopReadFrame(bip)
           kept == Kept(bip.Buf, r.slice)
<1>1. /\ reader = "pop" /\ reader' = reader /\ slice' = r.slice
      /\ bip' = [r.b EXCEPT !.Buf = Fill(@, r.slice.from, r.slice.to, Free)]
      /\ array' = IF r.slice = NoSlice THEN Current ELSE kept
  BY DEF Pop
<1>2. RingOK(Reach, bip)
  BY DEF BipInv
<1>a. PopKeeps(Reach, bip, r.slice, bip')
  <2>1. bip' = Popped(r)
    BY <1>1, Zenon DEF Popped
  <2> QED
    BY <1>2, <2>1, ReachFacts, PopRing
<1>3. /\ RingOK(Reach, bip')
      /\ r.slice = NoSlice => Stored = <<>> /\ Stored' = <<>>
      /\ r.slice # NoSlice =>
           /\ r.slice.from \in 0 .. MaxCap /\ r.slice.to \in 0 .. MaxCap
           /\ r.slice.from < r.slice.to
           /\ MaxFramePayload > 0 => r.slice.to - r.slice.from <= MaxFramePayload
           /\ Tiled(Reach, kept, r.slice.from, r.slice.to)
           /\ Stored = FramesBut(Reach, kept, r.slice.from, r.slice.to) \o Stored'
  BY <1>a DEF PopKeeps, Stored
<1>4. kept # Current
  BY KeptNotEmpty DEF Current
<1> HIDE DEF r, kept
<1>5. HeaderRoom'
  BY <1>1 DEF HeaderRoom
<1>6. SliceOK'
  BY <1>1, <1>3, <1>4 DEF SliceOK, SliceIn, Current
<1>7. Fifo!Take
  <2>1. CASE r.slice = NoSlice
    <3>1. slice'.from = 0 /\ slice'.to = 0
      BY <1>1, <2>1 DEF NoSlice
    <3>2. SliceFrames' = <<>>
      BY <3>1, ReachFacts, FramesEmpty DEF SliceFrames
    <3> QED
      BY <1>3, <2>1, <3>2 DEF Fifo!Take
  <2>2. CASE r.slice # NoSlice
    <3>1. SliceFrames' = FramesBut(Reach, kept, r.slice.from, r.slice.to)
      BY <1>1, <1>4, <2>2 DEF SliceFrames, Current
    <3>2. r.slice.from \in Nat /\ r.slice.to \in Nat /\ r.slice.from # r.slice.to
      BY <1>3, <2>2, Sizes0
    <3>3. FramesBut(Reach, kept, r.slice.from, r.slice.to) # <<>>
      BY <1>3, <2>2, <3>2, FramesTyped
    <3> QED
      BY <1>3, <2>2, <3>1, <3>3 DEF Fifo!Take
  <2> QED
    BY <2>1, <2>2
<1> QED
  BY <1>1, <1>3, <1>5, <1>6, <1>7 DEF BipInv

LEMMA BipStep ==
  ASSUME BipInv, [Next]_vars
  PROVE  BipInv' /\ [Fifo!Next]_<<Stored, SliceFrames>>
<1>1. CASE Take
  BY <1>1, TakeStep DEF Fifo!Next
<1>2. CASE Pop
  BY <1>2, PopStep DEF Fifo!Next
<1>3. ASSUME NEW f \in Frame, Alloc(f) PROVE BipInv' /\ Fifo!Next
  BY <1>3, AllocStep DEF Fifo!Next
<1>4. CASE UNCHANGED vars
  <2>1. bip' = bip /\ slice' = slice /\ array' = array /\ reader' = reader
    BY <1>4 DEF vars
  <2> QED
    BY <2>1 DEF BipInv, HeaderRoom, SliceOK, SliceIn, SliceFrames, Stored, Current, LengthsSafe
<1> QED
  BY <1>1, <1>2, <1>3, <1>4 DEF Next

(* The cursors stay in order and inside the array, whatever a header does  *)
(* to the last Reach cells of a frame, or if the reader pops single frames.*)
THEOREM CursorsOKCorrect ==
  Spec /\ (LengthsSafe \/ reader = "pop") => []CursorsOK
<1>1. BipInv => CursorsOK
  <2> SUFFICES ASSUME BipInv PROVE CursorsOK
    OBVIOUS
  <2>1. RingOK(Reach, bip) /\ bip \in Ring
    BY DEF BipInv, RingOK
  <2>2. bip.cap \in Nat
    BY <2>1, RingFacts
  <2> QED
    BY <2>1, <2>2 DEF RingOK, CapOK, CursorsOK, Start
<1> QED
  BY InitBip, BipStep, <1>1, PTL DEF Spec

(* No batch is larger than a message of the layer below.                   *)
THEOREM BatchFitsCorrect ==
  Spec /\ (LengthsSafe \/ reader = "pop") => []BatchFits
<1>1. BipInv => BatchFits
  <2> SUFFICES ASSUME BipInv, MaxFramePayload > 0 PROVE slice.to - slice.from <= MaxFramePayload
    BY DEF BatchFits
  <2>1. CASE slice = NoSlice
    <3>1. slice.from = 0 /\ slice.to = 0
      BY <2>1 DEF NoSlice
    <3> QED
      BY <3>1, Sizes0
  <2>2. CASE slice # NoSlice
    BY <2>2 DEF BipInv, SliceOK, SliceIn
  <2> QED
    BY <2>1, <2>2
<1> QED
  BY InitBip, BipStep, <1>1, PTL DEF Spec

(* A header that reaches into a stored frame damages no more than its last *)
(* Reach cells, so that its length can always be read; and where no frame  *)
(* is shorter than the header, none is ever damaged.                       *)
DamageConfined ==
  /\ \A i \in DOMAIN Stored : Stored[i] # Free
  /\ Reach = 0 => StoredIntact

THEOREM DamageConfinedCorrect ==
  Spec /\ (LengthsSafe \/ reader = "pop") => []DamageConfined
<1>1. BipInv => DamageConfined
  <2> SUFFICES ASSUME BipInv PROVE DamageConfined
    OBVIOUS
  <2>1. Stored \in Seq(Storable)
    BY ReachFacts, QueuedTyped DEF BipInv, Stored
  <2>2. ASSUME NEW i \in DOMAIN Stored PROVE Stored[i] # Free
    <3>1. Stored[i] \in Storable
      BY <2>1
    <3> QED
      BY <3>1, StorableFacts
  <2>3. ASSUME Reach = 0 PROVE StoredIntact
    <3>1. Queued(bip) = Stored
      BY <2>3 DEF Queued, Stored
    <3> QED
      BY <2>2, <3>1 DEF StoredIntact
  <2> QED
    BY <2>2, <2>3 DEF DamageConfined
<1> QED
  BY InitBip, BipStep, <1>1, PTL DEF Spec

(* The buffer implements the queue: no frame is lost or reordered, and a   *)
(* batch stays as it is until the next one is taken, but for the last      *)
(* Reach cells of a frame.                                                 *)
THEOREM ImplementsFrameFifo ==
  Spec /\ (LengthsSafe \/ reader = "pop") => IsFifo
<1>1. Init /\ (LengthsSafe \/ reader = "pop") => Fifo!Init
  BY InitBip, NoSliceEmpty DEF Init, Fifo!Init
<1>2. BipInv /\ [Next]_vars => [Fifo!Next]_<<Stored, SliceFrames>>
  BY BipStep
<1> QED
  BY InitBip, BipStep, <1>1, <1>2, PTL DEF Spec, IsFifo, Fifo!Spec

=============================================================================
