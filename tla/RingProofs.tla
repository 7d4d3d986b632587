----------------------------- MODULE RingProofs -----------------------------
(***************************************************************************)
(* Proofs about the operators of Frame16BipBuf2, for any constants: what   *)
(* FramesBut gives and where frames tile a stretch of cells (Tiled), how   *)
(* far grow can grow, and that each operation keeps RingOK, the invariant  *)
(* of the ring: the cursors are in order, and the frames in flight, those  *)
(* of the upper part and those of the wrapped part lie each without a hole *)
(* between their cursors.  All of it allows that the last D cells of a     *)
(* frame are damaged.  ToolProofs proves BipBuf with D = Reach, and        *)
(* WriteBufProofs the write buffer of a connection with D = 0.             *)
(***************************************************************************)
EXTENDS Frame16BipBuf2, SequenceTheorems, WellFoundedInduction, TLAPS

(* A set of natural numbers with a bound has a greatest one.               *)
LEMMA Greatest ==
  ASSUME NEW n \in Nat, NEW S \in SUBSET (0 .. n), S # {}
  PROVE  \E m \in S : \A k \in S : k <= m
<1> DEFINE R == {r \in Nat \X Nat : r[1] < r[2]}
           T == {i \in 0 .. n : n - i \in S}
<1>1. IsWellFoundedOn(R, Nat)
  BY NatLessThanWellFounded, Zenon DEF OpToRel
<1>2. T \subseteq Nat
  OBVIOUS
<1>3. T # {}
  <2>1. PICK k \in S : TRUE
    OBVIOUS
  <2>2. n - k \in T
    BY <2>1
  <2> QED
    BY <2>2
<1>4. PICK x \in T : \A y \in T : ~(<<y, x>> \in R)
  <2> HIDE DEF R, T
  <2> QED
    BY <1>1, <1>2, <1>3, WFMin, Zenon
<1>5. n - x \in S /\ \A k \in S : k <= n - x
  <2>1. n - x \in S
    OBVIOUS
  <2>2. ASSUME NEW k \in S PROVE k <= n - x
    <3>1. n - k \in T
      OBVIOUS
    <3>2. ~(<<n - k, x>> \in R)
      BY <3>1, <1>4
    <3>3. n - k \in Nat /\ x \in Nat
      OBVIOUS
    <3>4. ~(n - k < x)
      BY <3>2, <3>3
    <3> QED
      BY <3>4
  <2> QED
    BY <2>1, <2>2
<1> QED
  BY <1>5

(* Downward induction over an interval.                                    *)
LEMMA Downward ==
  ASSUME NEW n \in Nat, NEW G, n \in G,
         \A q \in 1 .. n : q \in G => q - 1 \in G
  PROVE  \A q \in 0 .. n : q \in G
<1> SUFFICES ASSUME NEW q \in 0 .. n, q \notin G PROVE FALSE
  OBVIOUS
<1> DEFINE S == {k \in 0 .. n : k \notin G}
<1>1. PICK m \in S : \A k \in S : k <= m
  <2>1. S \in SUBSET (0 .. n) /\ S # {}
    OBVIOUS
  <2> HIDE DEF S
  <2> QED
    BY <2>1, Greatest
<1>2. m # n
  OBVIOUS
<1>3. m + 1 \in 1 .. n /\ m + 1 \notin S
  BY <1>1, <1>2
<1>4. m + 1 \in G
  BY <1>3
<1>5. (m + 1) - 1 = m
  OBVIOUS
<1> QED
  BY <1>3, <1>4, <1>5

(* What the walk of Frames goes by.                                        *)
WalkStep(D, buf, to, g, p) ==
  IF p = to THEN <<>>
  ELSE IF WholeBut(D, buf, p, to) THEN <<buf[p]>> \o g[p + Total[buf[p]]]
  ELSE <<Free>>

Walk(D, buf, to) == CHOOSE g : g = [p \in 0 .. to |-> WalkStep(D, buf, to, g, p)]

LEMMA FramesIsWalk ==
  ASSUME NEW D, NEW buf, NEW from, NEW to
  PROVE  FramesBut(D, buf, from, to) = Walk(D, buf, to)[from]
BY DEF FramesBut, Walk, WalkStep

LEMMA WalkUnfolds ==
  ASSUME NEW D \in Nat, NEW buf, NEW to \in Nat, NEW p \in 0 .. to
  PROVE  Walk(D, buf, to)[p] = WalkStep(D, buf, to, Walk(D, buf, to), p)
<1> DEFINE Upper(q, g) == g = [k \in 0 .. to |-> IF k < q THEN <<>> ELSE WalkStep(D, buf, to, g, k)]
           G == {q \in 0 .. to : \E g : Upper(q, g)}
<1>1. to \in G
  <2> DEFINE g == [k \in 0 .. to |-> <<>>]
  <2>1. \A k \in 0 .. to : ~(k < to) => WalkStep(D, buf, to, g, k) = <<>>
    BY DEF WalkStep
  <2>2. Upper(to, g)
    BY <2>1
  <2> QED
    BY <2>2
<1>2. ASSUME NEW q \in 1 .. to, q \in G PROVE q - 1 \in G
  <2>1. PICK g : Upper(q, g)
    BY <1>2
  <2> DEFINE h == [k \in 0 .. to |-> IF k = q - 1 THEN WalkStep(D, buf, to, g, k) ELSE g[k]]
  <2>2. ASSUME NEW k \in 0 .. to, q - 1 <= k PROVE WalkStep(D, buf, to, h, k) = WalkStep(D, buf, to, g, k)
    <3>1. ASSUME WholeBut(D, buf, k, to) PROVE h[k + Total[buf[k]]] = g[k + Total[buf[k]]]
      <4>1. Total[buf[k]] \in Nat \ {0} /\ k + Total[buf[k]] <= to
        BY <3>1, BipBufAssumption DEF WholeBut
      <4>2. k + Total[buf[k]] # q - 1
        BY <4>1, <2>2
      <4>3. k + Total[buf[k]] \in 0 .. to
        BY <4>1
      <4> QED
        BY <4>2, <4>3
    <3> HIDE DEF h
    <3> QED
      BY <3>1 DEF WalkStep
  <2>3. Upper(q - 1, h)
    <3>1. ASSUME NEW k \in 0 .. to
          PROVE h[k] = IF k < q - 1 THEN <<>> ELSE WalkStep(D, buf, to, h, k)
      <4>1. CASE k < q - 1
        <5>1. h[k] = g[k] /\ k < q
          BY <4>1
        <5> QED
          BY <4>1, <5>1, <2>1
      <4>2. CASE k = q - 1
        BY <4>2, <2>2
      <4>3. CASE k > q - 1
        <5>1. ~(k < q) /\ ~(k < q - 1) /\ k # q - 1
          BY <4>3
        <5>3. h[k] = g[k]
          BY <5>1
        <5>2. g[k] = WalkStep(D, buf, to, g, k)
          BY <2>1, <5>1
        <5> QED
          BY <5>1, <5>2, <5>3, <2>2
      <4> QED
        BY <4>1, <4>2, <4>3
    <3> HIDE DEF Upper
    <3>2. h = [k \in 0 .. to |-> h[k]]
      OBVIOUS
    <3> QED
      BY <3>1, <3>2 DEF Upper
  <2> HIDE DEF Upper
  <2> QED
    BY <2>3
<1>3. 0 \in G
  <2> HIDE DEF G
  <2> QED
    BY <1>1, <1>2, Downward
<1>4. PICK g : Upper(0, g)
  BY <1>3
<1>5. g = [k \in 0 .. to |-> WalkStep(D, buf, to, g, k)]
  BY <1>4
<1>6. Walk(D, buf, to) = [k \in 0 .. to |-> WalkStep(D, buf, to, Walk(D, buf, to), k)]
  BY <1>5 DEF Walk
<1> QED
  BY <1>6

LEMMA FramesUnfolds ==
  ASSUME NEW D \in Nat, NEW buf, NEW to \in Nat, NEW p \in 0 .. to
  PROVE  FramesBut(D, buf, p, to) =
           IF p = to THEN <<>>
           ELSE IF WholeBut(D, buf, p, to)
           THEN <<buf[p]>> \o FramesBut(D, buf, p + Total[buf[p]], to)
           ELSE <<Free>>
<1>1. Walk(D, buf, to)[p] = WalkStep(D, buf, to, Walk(D, buf, to), p)
  BY WalkUnfolds
<1> QED
  BY <1>1, FramesIsWalk, Zenon DEF WalkStep

-----------------------------------------------------------------------------
(* Frames that may be stored lie in buf from lo to hi without a gap: S has *)
(* their first cells, and hi.                                              *)
Storable == {f \in Frame : ~TooLarge(f)}

Tiles(D, S, buf, lo, hi) ==
  /\ S \subseteq lo .. hi /\ lo \in S /\ hi \in S
  /\ \A p \in S \ {hi} : /\ buf[p] \in Storable
                         /\ WholeBut(D, buf, p, hi)
                         /\ p + Total[buf[p]] \in S
  /\ \A p, q \in S : p < q => p + Total[buf[p]] <= q

Tiled(D, buf, lo, hi) ==
  {D, lo, hi} \subseteq Nat /\ \E S : Tiles(D, S, buf, lo, hi)

LEMMA StorableFacts ==
  ASSUME NEW f \in Storable
  PROVE  f \in Frame /\ f \in Nat /\ f # Free /\ Total[f] \in Nat \ {0}
<1>1. f \in Frame
  BY Zenon DEF Storable
<1> QED
  BY <1>1, BipBufAssumption DEF Free

LEMMA TilesFacts ==
  ASSUME NEW D, NEW S, NEW buf, NEW lo, NEW hi, Tiles(D, S, buf, lo, hi)
  PROVE  S \subseteq lo .. hi /\ lo \in S /\ hi \in S
BY Zenon DEF Tiles

(* What is so at hi, and at a frame when it is so behind it, is so at lo.  *)
LEMMA TileInduction ==
  ASSUME NEW D, NEW buf, NEW lo, NEW hi, lo \in Nat, hi \in Nat, NEW S, Tiles(D, S, buf, lo, hi),
         NEW G, hi \in G,
         \A p \in S \ {hi} : p + Total[buf[p]] \in G => p \in G
  PROVE  \A p \in S : p \in G
<1> SUFFICES ASSUME NEW x \in S, x \notin G PROVE FALSE
  OBVIOUS
<1> DEFINE Bad == {p \in S : p \notin G}
<1>1. Bad \in SUBSET (0 .. hi) /\ Bad # {}
  <2>1. S \subseteq lo .. hi
    BY TilesFacts
  <2>2. \A p \in S : p \in 0 .. hi
    BY <2>1
  <2>3. x \in Bad
    OBVIOUS
  <2> QED
    BY <2>2, <2>3
<1>2. PICK m \in Bad : \A k \in Bad : k <= m
  <2> HIDE DEF Bad
  <2> QED
    BY <1>1, Greatest
<1>3. m \in S \ {hi} /\ m \in Nat
  BY <1>1, <1>2
<1>4. buf[m] \in Storable /\ m + Total[buf[m]] \in S
  BY <1>3 DEF Tiles
<1>5. Total[buf[m]] \in Nat \ {0}
  BY <1>4, StorableFacts
<1>6. m + Total[buf[m]] \in G
  BY <1>2, <1>3, <1>4, <1>5
<1> QED
  BY <1>2, <1>3, <1>6

LEMMA TiledFrom ==    \* the first frame of several
  ASSUME NEW D, NEW buf, NEW lo, NEW hi, lo # hi, Tiled(D, buf, lo, hi)
  PROVE  buf[lo] \in Storable /\ WholeBut(D, buf, lo, hi)
BY DEF Tiled, Tiles

LEMMA TiledEmpty ==
  ASSUME NEW D \in Nat, NEW buf, NEW lo \in Nat
  PROVE  Tiled(D, buf, lo, lo)
<1>1. Tiles(D, {lo}, buf, lo, lo)
  BY DEF Tiles
<1> QED
  BY <1>1 DEF Tiled

LEMMA TiledSplit ==   \* at the boundary of a frame
  ASSUME NEW D \in Nat, NEW buf, NEW lo \in Nat, NEW hi \in Nat, NEW S, Tiles(D, S, buf, lo, hi),
         NEW mid \in S
  PROVE  Tiled(D, buf, lo, mid) /\ Tiled(D, buf, mid, hi)
<1> DEFINE L == {p \in S : p <= mid}
           U == {p \in S : p >= mid}
<1>1. S \subseteq lo .. hi /\ lo \in S /\ hi \in S /\ mid \in lo .. hi
  BY TilesFacts
<1>a. \A p \in S : p \in Nat /\ lo <= p /\ p <= hi
  BY <1>1
<1>b. mid \in Nat
  BY <1>a
<1>2. Tiles(D, L, buf, lo, mid)
  <2>1. L \subseteq lo .. mid /\ lo \in L /\ mid \in L
    <3>1. lo \in L /\ mid \in L
      BY <1>1, <1>a
    <3>2. ASSUME NEW p \in L PROVE p \in lo .. mid
      <4>1. p \in S
        OBVIOUS
      <4> QED
        BY <4>1, <1>a, <1>b
    <3> QED
      BY <3>1, <3>2
  <2>2. ASSUME NEW p \in L \ {mid}
        PROVE /\ buf[p] \in Storable
              /\ WholeBut(D, buf, p, mid)
              /\ p + Total[buf[p]] \in L
    <3>1. p \in S \ {hi} /\ p < mid
      BY <1>1, <2>2
    <3>2. p + Total[buf[p]] <= mid
      BY <3>1 DEF Tiles
    <3> QED
      BY <3>1, <3>2 DEF Tiles, WholeBut
  <2>3. \A p, q \in L : p < q => p + Total[buf[p]] <= q
    BY DEF Tiles
  <2> HIDE DEF L
  <2> QED
    BY <2>1, <2>2, <2>3 DEF Tiles
<1>3. Tiles(D, U, buf, mid, hi)
  <2>1. U \subseteq mid .. hi /\ mid \in U /\ hi \in U
    <3>1. mid \in U /\ hi \in U
      BY <1>1, <1>a
    <3>2. ASSUME NEW p \in U PROVE p \in mid .. hi
      <4>1. p \in S
        OBVIOUS
      <4> QED
        BY <4>1, <1>a, <1>b
    <3> QED
      BY <3>1, <3>2
  <2>2. ASSUME NEW p \in U \ {hi}
        PROVE /\ buf[p] \in Storable
              /\ WholeBut(D, buf, p, hi)
              /\ p + Total[buf[p]] \in U
    <3>1. p \in S \ {hi} /\ mid <= p /\ p \in Nat
      BY <1>1, <2>2
    <3>2. buf[p] \in Storable /\ WholeBut(D, buf, p, hi) /\ p + Total[buf[p]] \in S
      BY <3>1 DEF Tiles
    <3>3. Total[buf[p]] \in Nat
      BY <3>2, StorableFacts
    <3> QED
      BY <3>1, <3>2, <3>3, <1>1
  <2>3. \A p, q \in U : p < q => p + Total[buf[p]] <= q
    BY DEF Tiles
  <2> HIDE DEF U
  <2> QED
    BY <2>1, <2>2, <2>3 DEF Tiles
<1> QED
  BY <1>b, <1>2, <1>3 DEF Tiled

LEMMA TiledJoin ==
  ASSUME NEW D, NEW buf, NEW lo, NEW mid, NEW hi,
         Tiled(D, buf, lo, mid), Tiled(D, buf, mid, hi)
  PROVE  Tiled(D, buf, lo, hi) /\ lo <= mid /\ mid <= hi
<1> D \in Nat /\ lo \in Nat /\ mid \in Nat /\ hi \in Nat
  BY DEF Tiled
<1>1. PICK L : Tiles(D, L, buf, lo, mid)
  BY DEF Tiled
<1>2. PICK U : Tiles(D, U, buf, mid, hi)
  BY DEF Tiled
<1>3. /\ L \subseteq lo .. mid /\ lo \in L /\ mid \in L
      /\ U \subseteq mid .. hi /\ mid \in U /\ hi \in U
      /\ lo <= mid /\ mid <= hi
  BY <1>1, <1>2, TilesFacts
<1> DEFINE S == L \cup U
<1>4. S \subseteq lo .. hi /\ lo \in S /\ hi \in S
  BY <1>3
<1>5. ASSUME NEW p \in S \ {hi}
      PROVE /\ buf[p] \in Storable
            /\ WholeBut(D, buf, p, hi)
            /\ p + Total[buf[p]] \in S
  <2>1. CASE p \in U
    BY <2>1, <1>2 DEF Tiles
  <2>2. CASE p \in L \ {mid}
    <3>1. buf[p] \in Storable /\ WholeBut(D, buf, p, mid) /\ p + Total[buf[p]] \in L
      BY <2>2, <1>1 DEF Tiles
    <3>2. p \in Nat /\ Total[buf[p]] \in Nat
      BY <2>2, <3>1, <1>3, StorableFacts
    <3> QED
      BY <3>1, <3>2, <1>3 DEF WholeBut
  <2> QED
    BY <2>1, <2>2, <1>3
<1>6. ASSUME NEW p \in S, NEW q \in S, p < q PROVE p + Total[buf[p]] <= q
  <2>1. CASE p \in U /\ q \in U
    BY <2>1, <1>2, <1>6 DEF Tiles
  <2>2. CASE p \in L /\ q \in L
    BY <2>2, <1>1, <1>6 DEF Tiles
  <2>3. CASE p \in L /\ p # mid /\ q \in U
    <3>1. buf[p] \in Storable /\ p + Total[buf[p]] \in L /\ p \in Nat
      BY <2>3, <1>1, <1>3 DEF Tiles
    <3>2. Total[buf[p]] \in Nat /\ p + Total[buf[p]] <= mid /\ mid <= q
      BY <2>3, <3>1, <1>3, StorableFacts
    <3> QED
      BY <2>3, <3>1, <3>2, <1>3
  <2>4. CASE p \in U /\ q \in L
    BY <2>4, <1>3, <1>6
  <2> QED
    BY <2>1, <2>2, <2>3, <2>4, <1>3
<1>7. Tiles(D, S, buf, lo, hi)
  <2> HIDE DEF S
  <2> QED
    BY <1>4, <1>5, <1>6 DEF Tiles
<1> QED
  BY <1>3, <1>7 DEF Tiled

LEMMA TiledOne ==
  ASSUME NEW D, NEW buf, NEW lo, NEW f, D \in Nat, lo \in Nat, f \in Storable,
         \A i \in lo .. lo + Total[f] - 1 : buf[i] = f
  PROVE  Tiled(D, buf, lo, lo + Total[f])
<1>1. Total[f] \in Nat \ {0} /\ f \in Frame
  BY StorableFacts
<1>2. buf[lo] = f
  BY <1>1
<1>3. WholeBut(D, buf, lo, lo + Total[f])
  BY <1>1, <1>2 DEF WholeBut
<1>4. Tiles(D, {lo, lo + Total[f]}, buf, lo, lo + Total[f])
  BY <1>1, <1>2, <1>3 DEF Tiles
<1> QED
  BY <1>1, <1>4 DEF Tiled

(* The same frames, elsewhere or in another array, but for the last k      *)
(* cells: of their own cells, those that are still whole.                  *)
Moved(k, buf, lo, hi, buf2, lo2) ==
  \A i \in lo .. hi - 1 - k : buf[i] \in Frame => buf2[i - lo + lo2] = buf[i]

Shorter(k) == \A f \in Storable : k < Total[f]

LEMMA TiledMoved ==
  ASSUME NEW D, NEW buf, NEW lo, NEW hi, Tiled(D, buf, lo, hi),
         NEW k \in 0 .. D, Shorter(k),
         NEW buf2, NEW lo2 \in Nat, Moved(k, buf, lo, hi, buf2, lo2)
  PROVE  Tiled(D, buf2, lo2, hi - lo + lo2)
<1> D \in Nat /\ lo \in Nat /\ hi \in Nat
  BY DEF Tiled
<1>1. PICK S : Tiles(D, S, buf, lo, hi)
  BY DEF Tiled
<1>2. S \subseteq lo .. hi /\ lo \in S /\ hi \in S
  BY <1>1, TilesFacts
<1> DEFINE S2 == {q \in lo2 .. hi - lo + lo2 : q - lo2 + lo \in S}
           hi2 == hi - lo + lo2
<1>3. S2 \subseteq lo2 .. hi2 /\ lo2 \in S2 /\ hi2 \in S2
  BY <1>2
<1>4. ASSUME NEW q \in S2 \ {hi2}
      PROVE  /\ buf2[q] = buf[q - lo2 + lo]
             /\ buf2[q] \in Storable
             /\ WholeBut(D, buf2, q, hi2)
             /\ q + Total[buf2[q]] \in S2
  <2> DEFINE p == q - lo2 + lo
  <2>1. p \in S \ {hi} /\ p \in lo .. hi - 1 /\ q = p - lo + lo2
    BY <1>2, <1>4
  <2>3. buf[p] \in Storable /\ WholeBut(D, buf, p, hi) /\ p + Total[buf[p]] \in S
    BY <1>1, <2>1 DEF Tiles
  <2>4. Total[buf[p]] \in Nat \ {0} /\ buf[p] \in Frame /\ k < Total[buf[p]] /\ k \in Nat
    BY <2>3, StorableFacts DEF Shorter
  <2> DEFINE t == Total[buf[p]]
  <2>5. p + t <= hi /\ q + t <= hi2 /\ (q + t) - lo2 + lo = p + t /\ q + t >= lo2
    BY <2>1, <2>3, <2>4 DEF WholeBut
  <2>2. buf2[q] = buf[p]
    <3>1. p \in lo .. hi - 1 - k
      BY <2>1, <2>4, <2>5
    <3> QED
      BY <2>1, <2>4, <3>1 DEF Moved
  <2>6. ASSUME NEW i \in q .. q + t - 1 - D PROVE buf2[i] = buf2[q]
    <3>1. i - lo2 + lo \in p .. p + t - 1 - D /\ i - lo2 + lo \in lo .. hi - 1 - k
      BY <2>1, <2>4, <2>5
    <3>2. buf[i - lo2 + lo] = buf[p]
      BY <3>1, <2>3 DEF WholeBut
    <3>3. i = (i - lo2 + lo) - lo + lo2
      BY <2>1, <2>4
    <3>4. buf2[i] = buf[i - lo2 + lo]
      BY <2>4, <3>1, <3>2, <3>3 DEF Moved
    <3> QED
      BY <3>2, <3>4, <2>2
  <2>7. WholeBut(D, buf2, q, hi2)
    BY <2>2, <2>4, <2>5, <2>6 DEF WholeBut
  <2>8. q + t \in S2
    BY <2>1, <2>3, <2>4, <2>5
  <2> QED
    BY <2>2, <2>3, <2>7, <2>8
<1>5. ASSUME NEW p \in S2, NEW q \in S2, p < q PROVE p + Total[buf2[p]] <= q
  <2>1. p # hi2
    BY <1>5
  <2>2. buf2[p] = buf[p - lo2 + lo] /\ Total[buf2[p]] \in Nat
    BY <2>1, <1>4, StorableFacts
  <2>3. p - lo2 + lo \in S /\ q - lo2 + lo \in S /\ p - lo2 + lo < q - lo2 + lo
    BY <1>5
  <2>4. p - lo2 + lo + Total[buf[p - lo2 + lo]] <= q - lo2 + lo
    BY <2>3, <1>1 DEF Tiles
  <2> QED
    BY <2>2, <2>4
<1>6. Tiles(D, S2, buf2, lo2, hi2)
  <2> HIDE DEF S2, hi2
  <2> QED
    BY <1>3, <1>4, <1>5 DEF Tiles
<1>7. hi2 \in Nat
  BY <1>2
<1> HIDE DEF S2
<1> QED
  BY <1>6, <1>7 DEF Tiled

-----------------------------------------------------------------------------
(* What Frames reads from cells that are laid out like this.               *)
LEMMA FramesEmpty ==
  ASSUME NEW D \in Nat, NEW buf, NEW p \in Nat
  PROVE  FramesBut(D, buf, p, p) = <<>>
<1>1. p \in 0 .. p
  OBVIOUS
<1> QED
  BY <1>1, FramesUnfolds

LEMMA FramesFirst ==
  ASSUME NEW D, NEW buf, NEW hi, NEW p, D \in Nat, hi \in Nat, p \in Nat,
         WholeBut(D, buf, p, hi)
  PROVE  FramesBut(D, buf, p, hi) = <<buf[p]>> \o FramesBut(D, buf, p + Total[buf[p]], hi)
<1>1. p \in 0 .. hi /\ p # hi
  <2>1. Total[buf[p]] \in Nat \ {0} /\ p + Total[buf[p]] <= hi
    BY BipBufAssumption DEF WholeBut
  <2> QED
    BY <2>1
<1> QED
  BY <1>1, FramesUnfolds

LEMMA FramesOne ==
  ASSUME NEW D, NEW buf, NEW lo, NEW hi, D \in Nat, lo \in Nat, hi \in Nat,
         WholeBut(D, buf, lo, hi), hi = lo + Total[buf[lo]]
  PROVE  FramesBut(D, buf, lo, hi) = <<buf[lo]>>
<1>1. FramesBut(D, buf, lo, hi) = <<buf[lo]>> \o FramesBut(D, buf, hi, hi)
  BY FramesFirst
<1>2. FramesBut(D, buf, hi, hi) = <<>>
  BY FramesEmpty
<1> QED
  BY <1>1, <1>2

LEMMA FramesTyped ==
  ASSUME NEW D, NEW buf, NEW lo, NEW hi, Tiled(D, buf, lo, hi)
  PROVE  /\ FramesBut(D, buf, lo, hi) \in Seq(Storable)
         /\ lo # hi => FramesBut(D, buf, lo, hi) # <<>>
<1> D \in Nat /\ lo \in Nat /\ hi \in Nat
  BY DEF Tiled
<1>1. PICK S : Tiles(D, S, buf, lo, hi)
  BY DEF Tiled
<1>a. \A p \in S : p \in 0 .. hi
  BY <1>1, TilesFacts
<1> DEFINE G == {p \in S : FramesBut(D, buf, p, hi) \in Seq(Storable)}
<1>2. hi \in G
  <2>1. hi \in S
    BY <1>1, TilesFacts
  <2> QED
    BY <1>a, <2>1, FramesEmpty, EmptySeq
<1>3. ASSUME NEW p \in S \ {hi}, p + Total[buf[p]] \in G PROVE p \in G
  <2>1. buf[p] \in Storable /\ WholeBut(D, buf, p, hi)
    BY <1>1 DEF Tiles
  <2>2. FramesBut(D, buf, p, hi) = <<buf[p]>> \o FramesBut(D, buf, p + Total[buf[p]], hi)
    BY <2>1, <1>a, FramesFirst
  <2>3. <<buf[p]>> \in Seq(Storable) /\ FramesBut(D, buf, p + Total[buf[p]], hi) \in Seq(Storable)
    BY <2>1, <1>3
  <2> QED
    BY <2>2, <2>3, ConcatProperties
<1>4. FramesBut(D, buf, lo, hi) \in Seq(Storable)
  <2>1. \A p \in S : p \in G
    <3> HIDE DEF G
    <3> QED
      BY <1>1, <1>2, <1>3, TileInduction
  <2>2. lo \in S
    BY <1>1, TilesFacts
  <2> QED
    BY <2>1, <2>2
<1>5. ASSUME lo # hi PROVE FramesBut(D, buf, lo, hi) # <<>>
  <2>1. lo \in S /\ hi \in S
    BY <1>1, TilesFacts
  <2>2. buf[lo] \in Storable /\ WholeBut(D, buf, lo, hi) /\ lo + Total[buf[lo]] \in S
    BY <1>1, <1>5, <2>1 DEF Tiles
  <2>3. FramesBut(D, buf, lo, hi) = <<buf[lo]>> \o FramesBut(D, buf, lo + Total[buf[lo]], hi)
    BY <2>2, <1>5, <1>a, <2>1, FramesFirst
  <2>4. FramesBut(D, buf, lo + Total[buf[lo]], hi) \in Seq(Storable)
    <3>1. \A p \in S : p \in G
      <4> HIDE DEF G
      <4> QED
        BY <1>1, <1>2, <1>3, TileInduction
    <3> QED
      BY <3>1, <2>2
  <2> QED
    BY <2>2, <2>3, <2>4
<1> QED
  BY <1>4, <1>5

LEMMA FramesJoin ==
  ASSUME NEW D, NEW buf, NEW lo, NEW mid, NEW hi,
         Tiled(D, buf, lo, mid), Tiled(D, buf, mid, hi)
  PROVE  FramesBut(D, buf, lo, hi) = FramesBut(D, buf, lo, mid) \o FramesBut(D, buf, mid, hi)
<1> D \in Nat /\ lo \in Nat /\ mid \in Nat /\ hi \in Nat
  BY DEF Tiled
<1>1. PICK S : Tiles(D, S, buf, lo, mid)
  BY DEF Tiled
<1>2. \A p \in S : p \in Nat /\ p \in 0 .. mid /\ p \in 0 .. hi
  BY <1>1, TilesFacts, TiledJoin
<1> DEFINE U == FramesBut(D, buf, mid, hi)
           G == {p \in S : FramesBut(D, buf, p, hi) = FramesBut(D, buf, p, mid) \o U}
<1>3. U \in Seq(Storable)
  BY FramesTyped
<1>4. mid \in G
  <2>1. mid \in S
    BY <1>1, TilesFacts
  <2>2. FramesBut(D, buf, mid, mid) = <<>>
    BY FramesEmpty
  <2> QED
    BY <1>3, <2>1, <2>2
<1>5. ASSUME NEW p \in S \ {mid}, p + Total[buf[p]] \in G PROVE p \in G
  <2> DEFINE q == p + Total[buf[p]]
  <2>1. buf[p] \in Storable /\ WholeBut(D, buf, p, mid) /\ q \in S
    BY <1>1 DEF Tiles
  <2>2. FramesBut(D, buf, p, mid) = <<buf[p]>> \o FramesBut(D, buf, q, mid)
    BY <2>1, <1>2, FramesFirst
  <2>3. p # hi /\ WholeBut(D, buf, p, hi)
    <3>1. p <= mid /\ mid <= hi /\ p # mid /\ p \in Nat
      BY <1>2, TiledJoin
    <3>2. Total[buf[p]] \in Nat /\ p + Total[buf[p]] <= hi
      BY <2>1, <3>1, StorableFacts DEF WholeBut
    <3> QED
      BY <2>1, <3>1, <3>2 DEF WholeBut
  <2>4. FramesBut(D, buf, p, hi) = <<buf[p]>> \o FramesBut(D, buf, q, hi)
    BY <2>3, <1>2, FramesFirst
  <2>5. FramesBut(D, buf, q, mid) \in Seq(Storable)
    BY <2>1, <1>1, <1>2, TiledSplit, FramesTyped
  <2>6. FramesBut(D, buf, q, hi) = FramesBut(D, buf, q, mid) \o U
    BY <1>5
  <2>7. <<buf[p]>> \in Seq(Storable)
    BY <2>1
  <2> HIDE DEF U, q
  <2>8. <<buf[p]>> \o (FramesBut(D, buf, q, mid) \o U) = (<<buf[p]>> \o FramesBut(D, buf, q, mid)) \o U
    BY <2>5, <2>7, <1>3, ConcatAssociative
  <2> QED
    BY <2>2, <2>4, <2>6, <2>8
<1>6. lo \in S
  BY <1>1, TilesFacts
<1>7. lo \in G
  <2> HIDE DEF G
  <2> QED
    BY <1>1, <1>4, <1>5, <1>6, TileInduction
<1> QED
  BY <1>7

LEMMA FramesMoved ==
  ASSUME NEW D, NEW buf, NEW lo, NEW hi, Tiled(D, buf, lo, hi),
         NEW k \in 0 .. D, Shorter(k),
         NEW buf2, NEW lo2 \in Nat, Moved(k, buf, lo, hi, buf2, lo2)
  PROVE  FramesBut(D, buf2, lo2, hi - lo + lo2) = FramesBut(D, buf, lo, hi)
<1> D \in Nat /\ lo \in Nat /\ hi \in Nat
  BY DEF Tiled
<1>1. PICK S : Tiles(D, S, buf, lo, hi)
  BY DEF Tiled
<1>2. /\ \A p \in S : p \in Nat /\ p \in 0 .. hi /\ lo <= p /\ p <= hi
      /\ lo \in S /\ hi \in S
  BY <1>1, TilesFacts
<1> DEFINE hi2 == hi - lo + lo2
           G == {p \in S : FramesBut(D, buf2, p - lo + lo2, hi2) = FramesBut(D, buf, p, hi)}
<1>3. hi2 \in Nat
  BY <1>2
<1>4. hi \in G
  BY <1>2, <1>3, FramesEmpty
<1>5. ASSUME NEW p \in S \ {hi}, p + Total[buf[p]] \in G PROVE p \in G
  <2> DEFINE t == Total[buf[p]]
             p2 == p - lo + lo2
  <2>1. buf[p] \in Storable /\ WholeBut(D, buf, p, hi) /\ p + t \in S
    BY <1>1 DEF Tiles
  <2>2. t \in Nat \ {0} /\ buf[p] \in Frame /\ k < t /\ k \in Nat
    BY <2>1, StorableFacts DEF Shorter
  <2>3. p \in lo .. hi - 1 /\ p2 \in 0 .. hi2 /\ p2 # hi2 /\ p + t <= hi
    <3>1. p + t <= hi
      BY <2>1 DEF WholeBut
    <3>2. p \in Nat /\ lo <= p /\ p <= hi /\ p # hi
      BY <1>2
    <3> HIDE DEF t
    <3> QED
      BY <2>2, <3>1, <3>2
  <2>4. buf2[p2] = buf[p]
    <3>1. p \in lo .. hi - 1 - k
      BY <2>2, <2>3
    <3> QED
      BY <2>2, <3>1 DEF Moved
  <2>5. ASSUME NEW i \in p2 .. p2 + t - 1 - D PROVE buf2[i] = buf[p]
    <3>1. i - lo2 + lo \in p .. p + t - 1 - D /\ i - lo2 + lo \in lo .. hi - 1 - k
      BY <2>2, <2>3
    <3>2. buf[i - lo2 + lo] = buf[p]
      BY <3>1, <2>1 DEF WholeBut
    <3>3. i = (i - lo2 + lo) - lo + lo2
      BY <2>2, <2>3
    <3>4. buf2[i] = buf[i - lo2 + lo]
      BY <2>2, <3>1, <3>2, <3>3 DEF Moved
    <3> QED
      BY <3>2, <3>4
  <2>6. WholeBut(D, buf2, p2, hi2)
    BY <2>2, <2>3, <2>4, <2>5, <1>2 DEF WholeBut
  <2>7. FramesBut(D, buf2, p2, hi2) = <<buf[p]>> \o FramesBut(D, buf2, p2 + t, hi2)
    <3>1. p2 \in Nat
      BY <2>3, <1>3
    <3> HIDE DEF p2, hi2
    <3> QED
      BY <3>1, <2>4, <2>6, <1>3, FramesFirst
  <2>8. FramesBut(D, buf, p, hi) = <<buf[p]>> \o FramesBut(D, buf, p + t, hi)
    BY <2>1, <1>2, FramesFirst
  <2>9. FramesBut(D, buf2, p2 + t, hi2) = FramesBut(D, buf, p + t, hi)
    <3>1. p2 + t = (p + t) - lo + lo2
      BY <2>2, <2>3
    <3> QED
      BY <3>1, <1>5
  <2> QED
    BY <2>7, <2>8, <2>9
<1>6. lo \in G
  <2> HIDE DEF G
  <2> QED
    BY <1>1, <1>2, <1>4, <1>5, TileInduction
<1>7. lo - lo + lo2 = lo2
  OBVIOUS
<1> QED
  BY <1>6, <1>7

-----------------------------------------------------------------------------
(* frameAlignedEnd stops at a boundary of the layout, behind at least one  *)
(* frame and within the limit of a payload.                                *)
EndStep(b, start, limit, g, p) ==
  IF p >= limit \/ b.Buf[p] \notin Frame
       \/ p + Total[b.Buf[p]] - start > MaxFramePayload
  THEN p
  ELSE g[p + Total[b.Buf[p]]]

Ends(b, start, limit) == CHOOSE g : g = [p \in Nat |-> EndStep(b, start, limit, g, p)]

LEMMA EndsUnfolds ==
  ASSUME NEW b, NEW start, NEW limit \in Nat, NEW p \in Nat
  PROVE  Ends(b, start, limit)[p] = EndStep(b, start, limit, Ends(b, start, limit), p)
<1> DEFINE Step(g, k) == EndStep(b, start, limit, g, k)
           Upper(q, g) == g = [k \in Nat |-> IF k < q THEN k ELSE Step(g, k)]
           G == {q \in 0 .. limit : \E g : Upper(q, g)}
<1>1. limit \in G
  <2> DEFINE g == [k \in Nat |-> k]
  <2>1. \A k \in Nat : ~(k < limit) => Step(g, k) = k
    BY DEF EndStep
  <2> HIDE DEF Step
  <2>2. Upper(limit, g)
    BY <2>1
  <2> HIDE DEF Upper, g
  <2> QED
    BY <2>2
<1>2. ASSUME NEW q \in 1 .. limit, q \in G PROVE q - 1 \in G
  <2>1. PICK g : Upper(q, g)
    BY <1>2
  <2> DEFINE h == [k \in Nat |-> IF k = q - 1 THEN Step(g, k) ELSE g[k]]
  <2>2. ASSUME NEW k \in Nat, q - 1 <= k PROVE Step(h, k) = Step(g, k)
    <3>1. ASSUME b.Buf[k] \in Frame
          PROVE  h[k + Total[b.Buf[k]]] = g[k + Total[b.Buf[k]]]
      <4>1. Total[b.Buf[k]] \in Nat \ {0}
        BY <3>1, BipBufAssumption
      <4>2. k + Total[b.Buf[k]] # q - 1 /\ k + Total[b.Buf[k]] \in Nat
        BY <4>1, <2>2
      <4> HIDE DEF Step
      <4> QED
        BY <4>2
    <3> HIDE DEF h
    <3> QED
      BY <3>1 DEF EndStep
  <2> HIDE DEF Step
  <2>3. Upper(q - 1, h)
    <3>1. ASSUME NEW k \in Nat PROVE h[k] = IF k < q - 1 THEN k ELSE Step(h, k)
      <4>1. CASE k < q - 1
        <5>1. h[k] = g[k] /\ k < q
          BY <4>1
        <5> QED
          BY <4>1, <5>1, <2>1
      <4>2. CASE k = q - 1
        BY <4>2, <2>2
      <4>3. CASE k > q - 1
        <5>1. ~(k < q) /\ ~(k < q - 1) /\ k # q - 1
          BY <4>3
        <5>3. h[k] = g[k]
          BY <5>1
        <5>2. g[k] = Step(g, k)
          BY <2>1, <5>1
        <5> QED
          BY <5>1, <5>2, <5>3, <2>2
      <4> QED
        BY <4>1, <4>2, <4>3
    <3> HIDE DEF Upper
    <3>2. h = [k \in Nat |-> h[k]]
      OBVIOUS
    <3> QED
      BY <3>1, <3>2 DEF Upper
  <2> HIDE DEF Upper
  <2> QED
    BY <2>3
<1>3. 0 \in G
  <2> HIDE DEF G
  <2> QED
    BY <1>1, <1>2, Downward
<1>4. PICK g : Upper(0, g)
  BY <1>3
<1>5. g = [k \in Nat |-> EndStep(b, start, limit, g, k)]
  BY <1>4
<1> HIDE DEF Upper, Step, G
<1>6. Ends(b, start, limit) = [k \in Nat |-> EndStep(b, start, limit, Ends(b, start, limit), k)]
  BY <1>5 DEF Ends
<1> QED
  BY <1>6

LEMMA AlignedEnd ==
  ASSUME NEW D, NEW b, NEW start, NEW limit, start # limit,
         Tiled(D, b.Buf, start, limit)
  PROVE  LET end == FrameAlignedEnd(b, start, limit)
         IN /\ end \in Nat /\ start < end /\ end <= limit
            /\ Tiled(D, b.Buf, start, end) /\ Tiled(D, b.Buf, end, limit)
            /\ MaxFramePayload > 0 => end - start <= MaxFramePayload
<1> D \in Nat /\ start \in Nat /\ limit \in Nat
  BY DEF Tiled
<1> DEFINE end == FrameAlignedEnd(b, start, limit)
           e == Ends(b, start, limit)
           buf == b.Buf
<1>1. PICK S : Tiles(D, S, buf, start, limit)
  BY DEF Tiled
<1>2. /\ \A p \in S : p \in Nat /\ start <= p /\ p <= limit
      /\ start \in S /\ limit \in S
  BY <1>1, TilesFacts
<1>3. MaxFramePayload \in Nat
  BY BipBufAssumption
<1>4. CASE MaxFramePayload = 0
  <2>1. end = limit
    BY <1>4 DEF FrameAlignedEnd
  <2> QED
    BY <1>2, <1>4, <2>1, TiledEmpty
<1>5. CASE MaxFramePayload # 0
  <2>1. end = e[start]
    BY <1>5 DEF FrameAlignedEnd, Ends, EndStep
  <2> DEFINE Good(p) == /\ e[p] \in S /\ p <= e[p]
                        /\ p - start <= MaxFramePayload => e[p] - start <= MaxFramePayload
             G == {p \in S : Good(p)}
  <2>2. e[limit] = limit
    BY EndsUnfolds DEF EndStep
  <2>3. limit \in G
    BY <1>2, <2>2
  <2>4. ASSUME NEW p \in S \ {limit}
        PROVE /\ buf[p] \in Storable /\ buf[p] \in Frame /\ p + Total[buf[p]] \in S
              /\ Total[buf[p]] \in Nat \ {0}
              /\ e[p] = IF p + Total[buf[p]] - start > MaxFramePayload THEN p
                        ELSE e[p + Total[buf[p]]]
    <3>1. buf[p] \in Storable /\ p + Total[buf[p]] \in S
      BY <1>1 DEF Tiles
    <3>2. buf[p] \in Frame /\ Total[buf[p]] \in Nat \ {0}
      BY <3>1, StorableFacts
    <3>3. ~(p >= limit)
      BY <1>2
    <3>4. e[p] = EndStep(b, start, limit, e, p)
      BY <1>2, EndsUnfolds
    <3> HIDE DEF e
    <3> QED
      BY <3>1, <3>2, <3>3, <3>4 DEF EndStep
  <2>5. ASSUME NEW p \in S \ {limit}, p + Total[buf[p]] \in G PROVE p \in G
    <3> HIDE DEF e
    <3>1. CASE p + Total[buf[p]] - start > MaxFramePayload
      <4>1. e[p] = p
        BY <2>4, <3>1
      <4> QED
        BY <1>2, <4>1
    <3>2. CASE ~(p + Total[buf[p]] - start > MaxFramePayload)
      <4>a. ~(p + Total[buf[p]] - start > MaxFramePayload)
        BY <3>2
      <4> DEFINE t == Total[buf[p]]
                 q == p + Total[buf[p]]
      <4>0. p \in Nat /\ t \in Nat
        BY <1>2, <2>4
      <4>1. e[p] = e[q] /\ q \in S
        BY <2>4, <3>2
      <4>2. e[q] \in S /\ q <= e[q] /\ (q - start <= MaxFramePayload => e[q] - start <= MaxFramePayload)
        BY <2>5
      <4>3. e[q] \in Nat /\ start \in Nat
        BY <4>2, <1>2
      <4>4. ~(q - start > MaxFramePayload)
        BY <4>0, <4>a, <1>3
      <4>5. p <= q /\ q \in Nat
        <5> HIDE DEF t
        <5>1. q = p + t
          BY DEF t
        <5> HIDE DEF q
        <5> QED
          BY <4>0, <5>1
      <4> HIDE DEF q
      <4>6. q - start <= MaxFramePayload
        BY <4>3, <4>4, <4>5, <1>3
      <4>7. p <= e[p]
        BY <4>0, <4>1, <4>2, <4>3, <4>5
      <4>8. Good(p)
        BY <4>1, <4>2, <4>6, <4>7
      <4> QED
        BY <4>8
    <3> QED
      BY <3>1, <3>2
  <2>6. \A p \in S : Good(p)
    <3>1. \A p \in S : p \in G
      <4> HIDE DEF G
      <4> QED
        BY <1>1, <2>3, <2>5, TileInduction
    <3> HIDE DEF Good
    <3> QED
      BY <3>1
  <2> HIDE DEF e
  <2>7. end \in S /\ end - start <= MaxFramePayload
    <3>1. start - start <= MaxFramePayload
      BY <1>3
    <3> QED
      BY <1>2, <2>1, <2>6, <3>1
  <2>8. start < end
    <3> DEFINE t == Total[buf[start]]
    <3>1. /\ buf[start] \in Storable /\ start + t \in S /\ t \in Nat \ {0}
          /\ e[start] = IF start + t - start > MaxFramePayload THEN start ELSE e[start + t]
      BY <1>2, <2>4
    <3>2. t <= MaxFramePayload
      BY <3>1, <1>3, <1>5 DEF Storable, TooLarge
    <3>3. e[start] = e[start + t] /\ start + t <= e[start + t] /\ e[start + t] \in Nat
      <4>1. ~(start + t - start > MaxFramePayload)
        BY <3>1, <3>2, <1>3
      <4> QED
        BY <3>1, <4>1, <2>6, <1>2
    <3> HIDE DEF t
    <3> QED
      BY <2>1, <3>1, <3>3
  <2>9. Tiled(D, buf, start, end) /\ Tiled(D, buf, end, limit)
    BY <1>1, <2>7, TiledSplit
  <2> QED
    BY <1>2, <2>7, <2>8, <2>9
<1> QED
  BY <1>4, <1>5

-----------------------------------------------------------------------------
(* grow asks for no more than MaxCap.                                      *)
MaxSize == 2 * (MaxCap + InitCap)

SizeStep(required, g, n) ==
  IF n < required /\ n < MaxCap
  THEN g[IF n > MaxCap \div 2 THEN MaxCap ELSE 2 * n]
  ELSE n

Sizes(required) == CHOOSE g : g = [n \in 1 .. MaxSize |-> SizeStep(required, g, n)]

LEMMA NextSize ==
  ASSUME NEW n \in 1 .. MaxSize, n < MaxCap
  PROVE  LET m == IF n > MaxCap \div 2 THEN MaxCap ELSE 2 * n
         IN m \in 1 .. MaxSize /\ n < m
<1>1. MaxCap \in Nat /\ InitCap \in Nat /\ MaxSize \in Nat
  BY BipBufAssumption DEF MaxSize
<1>2. MaxCap <= MaxSize
  BY <1>1 DEF MaxSize
<1>3. CASE n > MaxCap \div 2
  BY <1>1, <1>2, <1>3
<1>4. CASE ~(n > MaxCap \div 2)
  <2>1. MaxCap \div 2 \in Nat /\ 2 * (MaxCap \div 2) <= MaxCap
    BY <1>1
  <2>2. 2 * n <= MaxCap /\ 2 * n \in Nat /\ n < 2 * n
    BY <1>1, <1>4, <2>1
  <2> QED
    BY <1>1, <1>2, <1>4, <2>2
<1> QED
  BY <1>3, <1>4

LEMMA SizesUnfolds ==
  ASSUME NEW required, NEW n \in 1 .. MaxSize
  PROVE  Sizes(required)[n] = SizeStep(required, Sizes(required), n)
<1>a. MaxCap \in Nat /\ MaxSize \in Nat /\ MaxCap <= MaxSize
  BY BipBufAssumption DEF MaxSize
<1> DEFINE Step(g, k) == SizeStep(required, g, k)
           Upper(q, g) == g = [k \in 1 .. MaxSize |-> IF k < q THEN 0 ELSE Step(g, k)]
           G == {q \in 0 .. MaxSize : \E g : Upper(q, g)}
<1>1. MaxSize \in G
  <2> DEFINE g == [k \in 1 .. MaxSize |-> IF k < MaxSize THEN 0 ELSE k]
  <2>1. \A k \in 1 .. MaxSize : ~(k < MaxSize) => Step(g, k) = k
    BY <1>a DEF SizeStep
  <2> HIDE DEF Step
  <2>2. Upper(MaxSize, g)
    BY <2>1, <1>a
  <2> HIDE DEF Upper, g
  <2> QED
    BY <2>2, <1>a
<1>2. ASSUME NEW q \in 1 .. MaxSize, q \in G PROVE q - 1 \in G
  <2>1. PICK g : Upper(q, g)
    BY <1>2
  <2> DEFINE h == [k \in 1 .. MaxSize |-> IF k = q - 1 THEN Step(g, k) ELSE g[k]]
  <2>2. ASSUME NEW k \in 1 .. MaxSize, q - 1 <= k PROVE Step(h, k) = Step(g, k)
    <3> DEFINE m == IF k > MaxCap \div 2 THEN MaxCap ELSE 2 * k
    <3>1. ASSUME k < MaxCap PROVE h[m] = g[m]
      <4>1. m \in 1 .. MaxSize /\ k < m
        BY <3>1, NextSize
      <4>2. m # q - 1
        BY <4>1, <2>2, <1>a
      <4> HIDE DEF m, Step
      <4> QED
        BY <4>1, <4>2
    <3> HIDE DEF h
    <3> QED
      BY <3>1 DEF SizeStep
  <2> HIDE DEF Step
  <2>3. Upper(q - 1, h)
    <3>1. ASSUME NEW k \in 1 .. MaxSize PROVE h[k] = IF k < q - 1 THEN 0 ELSE Step(h, k)
      <4>1. CASE k < q - 1
        <5>1. h[k] = g[k] /\ k < q
          BY <4>1, <1>a
        <5> QED
          BY <4>1, <5>1, <2>1
      <4>2. CASE k = q - 1
        BY <4>2, <2>2, <1>a
      <4>3. CASE k > q - 1
        <5>1. ~(k < q) /\ ~(k < q - 1) /\ k # q - 1 /\ q - 1 <= k
          BY <4>3, <1>a
        <5>2. g[k] = Step(g, k)
          BY <2>1, <5>1
        <5>3. h[k] = g[k]
          BY <5>1
        <5> QED
          BY <5>1, <5>2, <5>3, <2>2
      <4> QED
        BY <4>1, <4>2, <4>3, <1>a
    <3> HIDE DEF Upper
    <3>2. h = [k \in 1 .. MaxSize |-> h[k]]
      OBVIOUS
    <3> QED
      BY <3>1, <3>2 DEF Upper
  <2>4. q - 1 \in 0 .. MaxSize
    BY <1>a
  <2> HIDE DEF Upper
  <2> QED
    BY <2>3, <2>4
<1>3. 0 \in G
  <2> HIDE DEF G
  <2> QED
    BY <1>a, <1>1, <1>2, Downward
<1>4. PICK g : Upper(0, g)
  BY <1>3
<1>5. g = [k \in 1 .. MaxSize |-> SizeStep(required, g, k)]
  BY <1>4, <1>a
<1> HIDE DEF Upper, Step, G
<1>6. Sizes(required) = [k \in 1 .. MaxSize |-> SizeStep(required, Sizes(required), k)]
  BY <1>5 DEF Sizes
<1> QED
  BY <1>6

LEMMA NewSizeBounds ==
  ASSUME NEW cur \in 0 .. MaxCap, NEW required \in Nat
  PROVE  NewSize(cur, required) \in 1 .. MaxCap
<1>a. MaxCap \in Nat \ {0} /\ InitCap \in Nat \ {0} /\ MaxSize \in Nat /\ MaxCap <= MaxSize
  BY BipBufAssumption DEF MaxSize
<1> DEFINE size == Sizes(required)
           first == 2 * (IF cur = 0 THEN InitCap ELSE cur)
           G == {q \in 0 .. MaxSize : \A k \in 1 .. MaxSize : q <= k => size[k] \in 1 .. MaxSize}
<1> HIDE DEF size
<1>1. MaxSize \in G
  <2>1. ASSUME NEW k \in 1 .. MaxSize, MaxSize <= k PROVE size[k] = MaxSize
    <3>1. k = MaxSize /\ ~(k < MaxCap)
      BY <2>1, <1>a
    <3>2. size[k] = SizeStep(required, size, k)
      BY SizesUnfolds DEF size
    <3> QED
      BY <3>1, <3>2 DEF SizeStep
  <2>2. MaxSize \in 1 .. MaxSize
    BY <1>a
  <2> QED
    BY <2>1, <2>2, <1>a
<1>2. ASSUME NEW q \in 1 .. MaxSize, q \in G PROVE q - 1 \in G
  <2>1. ASSUME NEW k \in 1 .. MaxSize, k = q - 1 PROVE size[k] \in 1 .. MaxSize
    <3> DEFINE m == IF k > MaxCap \div 2 THEN MaxCap ELSE 2 * k
    <3>1. size[k] = IF k < required /\ k < MaxCap THEN size[m] ELSE k
      BY SizesUnfolds DEF size, SizeStep
    <3>2. k < MaxCap => m \in 1 .. MaxSize /\ q <= m
      <4>1. k < MaxCap => m \in 1 .. MaxSize /\ k < m
        BY NextSize
      <4> HIDE DEF m
      <4> QED
        BY <2>1, <4>1, <1>a
    <3> HIDE DEF m
    <3> QED
      BY <3>1, <3>2, <1>2
  <2>2. ASSUME NEW k \in 1 .. MaxSize, q - 1 <= k PROVE size[k] \in 1 .. MaxSize
    <3>1. k = q - 1 \/ q <= k
      BY <2>2, <1>a
    <3> QED
      BY <3>1, <2>1, <1>2
  <2>3. q - 1 \in 0 .. MaxSize
    BY <1>a
  <2> QED
    BY <2>2, <2>3
<1>3. 0 \in G
  <2> HIDE DEF G
  <2> QED
    BY <1>a, <1>1, <1>2, Downward
<1>4. first \in 1 .. MaxSize
  BY <1>a DEF MaxSize
<1>5. size[first] \in 1 .. MaxSize
  BY <1>3, <1>4
<1>6. NewSize(cur, required) = IF size[first] > MaxCap THEN MaxCap ELSE size[first]
  BY DEF NewSize, size, Sizes, SizeStep, MaxSize
<1> HIDE DEF first
<1> QED
  BY <1>5, <1>6, <1>a

-----------------------------------------------------------------------------
(* The buffer between two calls: the cursors are in order, and frames lie  *)
(* without a gap from where the next batch begins to the end of the upper  *)
(* part, and in the lower part.                                            *)
Ring == [Buf : [0 .. MaxCap - 1 -> Frame \cup {Free, Header, Trailer}],
         cap : 0 .. MaxCap, Sent : 0 .. MaxCap, SendEnd : 0 .. MaxCap,
         Write : 0 .. MaxCap, TailEnd : 0 .. MaxCap, pendingGap : {0, Suffix}]

Start(b) == b.SendEnd + b.pendingGap

CapOK(b) ==
  /\ b.cap = 0 => b.Write = Prefix /\ b.TailEnd = 0
  /\ b.cap # 0 => Prefix <= b.cap /\ b.Write <= b.cap /\ b.TailEnd <= b.cap

RingOK(D, b) ==
  /\ b \in Ring /\ CapOK(b)
  /\ Prefix <= b.Sent /\ b.Sent <= b.SendEnd /\ Prefix <= b.Write
  /\ b.TailEnd = 0 => Start(b) <= b.Write /\ Tiled(D, b.Buf, Start(b), b.Write)
  /\ b.TailEnd # 0 => /\ b.Write <= b.Sent /\ Start(b) <= b.TailEnd
                      /\ Tiled(D, b.Buf, Start(b), b.TailEnd)
                      /\ Tiled(D, b.Buf, Prefix, b.Write)

LEMMA RingFacts ==
  ASSUME NEW b \in Ring
  PROVE  /\ b.Buf \in [0 .. MaxCap - 1 -> Frame \cup {Free, Header, Trailer}]
         /\ b.cap \in 0 .. MaxCap /\ b.Sent \in 0 .. MaxCap /\ b.SendEnd \in 0 .. MaxCap
         /\ b.Write \in 0 .. MaxCap /\ b.TailEnd \in 0 .. MaxCap
         /\ b.pendingGap \in Nat /\ Start(b) \in Nat
         /\ b.cap \in Nat /\ b.Sent \in Nat /\ b.SendEnd \in Nat /\ b.Write \in Nat
         /\ b.TailEnd \in Nat
BY BipBufAssumption DEF Ring, Start

(* All parameters are natural numbers.                                     *)
LEMMA Sizes0 ==
  /\ MaxCap \in Nat \ {0} /\ InitCap \in Nat \ {0}
  /\ Prefix \in Nat /\ Suffix \in Nat /\ MaxFramePayload \in Nat /\ Prefix < MaxCap
BY BipBufAssumption

(* Cells that did not change hold the same frames, and so they do when the *)
(* last k, of a frame longer than that, are not among them.                *)
LEMMA SameButLast ==
  ASSUME NEW D, NEW buf, NEW lo, NEW hi, Tiled(D, buf, lo, hi),
         NEW k \in 0 .. D, Shorter(k), NEW buf2,
         \A i \in lo .. hi - 1 - k : buf[i] \in Frame => buf2[i] = buf[i]
  PROVE  Tiled(D, buf2, lo, hi) /\ FramesBut(D, buf2, lo, hi) = FramesBut(D, buf, lo, hi)
<1> D \in Nat /\ lo \in Nat /\ hi \in Nat
  BY DEF Tiled
<1>1. Moved(k, buf, lo, hi, buf2, lo)
  <2> SUFFICES ASSUME NEW i \in lo .. hi - 1 - k, buf[i] \in Frame
               PROVE  buf2[i - lo + lo] = buf[i]
    BY DEF Moved
  <2>1. i - lo + lo = i
    OBVIOUS
  <2> QED
    BY <2>1
<1>2. hi - lo + lo = hi
  OBVIOUS
<1>3. Tiled(D, buf2, lo, hi - lo + lo)
  BY <1>1, TiledMoved
<1>4. FramesBut(D, buf2, lo, hi - lo + lo) = FramesBut(D, buf, lo, hi)
  BY <1>1, FramesMoved
<1> QED
  BY <1>2, <1>3, <1>4

LEMMA NoneShorter == Shorter(0)
BY StorableFacts DEF Shorter

LEMMA SameCells ==
  ASSUME NEW D, NEW buf, NEW lo, NEW hi, Tiled(D, buf, lo, hi),
         NEW buf2, \A i \in lo .. hi - 1 : buf[i] \in Frame => buf2[i] = buf[i]
  PROVE  Tiled(D, buf2, lo, hi) /\ FramesBut(D, buf2, lo, hi) = FramesBut(D, buf, lo, hi)
<1> D \in Nat /\ lo \in Nat /\ hi \in Nat
  BY DEF Tiled
<1>1. 0 \in 0 .. D /\ Shorter(0)
  BY NoneShorter
<1>2. \A i \in lo .. hi - 1 - 0 : buf[i] \in Frame => buf2[i] = buf[i]
  OBVIOUS
<1> QED
  BY <1>1, <1>2, SameButLast

LEMMA FillCells ==
  ASSUME NEW buf, NEW from \in Nat, NEW to \in Nat, NEW x,
         NEW i \in 0 .. MaxCap - 1
  PROVE  Fill(buf, from, to, x)[i] = IF from <= i /\ i < to THEN x ELSE buf[i]
BY DEF Fill

(* Frames that do not touch the cells that were filled.                    *)
LEMMA FillKeeps ==
  ASSUME NEW D, NEW buf, NEW lo, NEW hi, Tiled(D, buf, lo, hi), hi <= MaxCap,
         NEW from \in Nat, NEW to \in Nat, NEW x, hi <= from \/ to <= lo
  PROVE  /\ Tiled(D, Fill(buf, from, to, x), lo, hi)
         /\ FramesBut(D, Fill(buf, from, to, x), lo, hi) = FramesBut(D, buf, lo, hi)
<1>1. lo \in Nat /\ hi \in Nat /\ MaxCap \in Nat
  BY Sizes0 DEF Tiled
<1>2. ASSUME NEW i \in lo .. hi - 1 PROVE Fill(buf, from, to, x)[i] = buf[i]
  <2>1. i \in 0 .. MaxCap - 1 /\ ~(from <= i /\ i < to)
    BY <1>1
  <2> QED
    BY <2>1, FillCells
<1> QED
  BY <1>1, <1>2, SameCells

-----------------------------------------------------------------------------
(* The queue.                                                              *)
LEMMA QueuedTyped ==
  ASSUME NEW D \in Nat, NEW b, RingOK(D, b)
  PROVE  QueuedBut(D, b) \in Seq(Storable)
<1>1. Start(b) \in Nat /\ b.Write \in Nat /\ b.TailEnd \in Nat /\ Prefix \in Nat
  BY RingFacts, Sizes0 DEF RingOK
<1>2. CASE b.TailEnd = 0
  <2>1. FramesBut(D, b.Buf, Start(b), b.Write) \in Seq(Storable)
    BY <1>1, <1>2, FramesTyped DEF RingOK
  <2> QED
    BY <1>2, <2>1 DEF QueuedBut, Start
<1>3. CASE b.TailEnd # 0
  <2>1. /\ FramesBut(D, b.Buf, Start(b), b.TailEnd) \in Seq(Storable)
        /\ FramesBut(D, b.Buf, Prefix, b.Write) \in Seq(Storable)
    BY <1>1, <1>3, FramesTyped DEF RingOK
  <2>2. FramesBut(D, b.Buf, Start(b), b.TailEnd) \o FramesBut(D, b.Buf, Prefix, b.Write)
          \in Seq(Storable)
    BY <2>1, ConcatProperties
  <2> QED
    BY <1>3, <2>2 DEF QueuedBut, Start
<1> QED
  BY <1>2, <1>3

(* One frame more, in free cells behind the last one.                      *)
LEMMA PutFits ==
  ASSUME NEW D \in Nat, NEW b, RingOK(D, b), NEW f \in Storable, FitsAfterWrite(b, Total[f])
  PROVE  LET b2 == Put(b, f, b.Write)
         IN /\ RingOK(D, b2) /\ QueuedBut(D, b2) = Append(QueuedBut(D, b), f)
            /\ b2.Sent = b.Sent /\ b2.SendEnd = b.SendEnd /\ b2.TailEnd = b.TailEnd
            /\ b2.pendingGap = b.pendingGap /\ b2.cap = b.cap
            /\ \A i \in b.Sent .. Start(b) - 1 : b2.Buf[i] = b.Buf[i]
<1> DEFINE n == Total[f]
           end == b.Write + n
           buf2 == Fill(b.Buf, b.Write, end, f)
           b2 == Put(b, f, b.Write)
           base == IF b.TailEnd = 0 THEN Start(b) ELSE Prefix
<1>1. b \in Ring /\ n \in Nat \ {0} /\ f \in Frame
  BY StorableFacts DEF RingOK
<1>2. /\ b.Write \in Nat /\ b.Sent \in Nat /\ b.SendEnd \in Nat /\ b.TailEnd \in Nat
      /\ Start(b) \in Nat /\ Prefix \in Nat /\ b.cap \in 0 .. MaxCap /\ MaxCap \in Nat
      /\ b.pendingGap \in Nat /\ b.TailEnd <= MaxCap /\ b.Sent <= MaxCap
      /\ b.Buf \in [0 .. MaxCap - 1 -> Frame \cup {Free, Header, Trailer}]
  BY <1>1, RingFacts, Sizes0
<1>3. /\ b.cap # 0 /\ end \in Nat /\ end <= MaxCap /\ b.Write < end
      /\ b.TailEnd = 0 => end <= b.cap /\ Start(b) <= b.Write
      /\ b.TailEnd # 0 => end <= b.Sent /\ b.Sent <= Start(b)
      /\ Prefix <= b.Write /\ b.Sent <= Start(b) /\ end <= b.cap
  <2>1. b.TailEnd # 0 => b.cap # 0 /\ b.TailEnd <= b.cap
    BY DEF RingOK, CapOK
  <2>2. b.SendEnd <= Start(b)
    BY <1>2 DEF Start
  <2>3. b.Sent <= b.SendEnd /\ Prefix <= b.Write /\ (b.TailEnd = 0 => Start(b) <= b.Write)
        /\ (b.TailEnd # 0 => Start(b) <= b.TailEnd)
    BY DEF RingOK
  <2>4. end \in Nat /\ b.Write < end
    BY <1>1, <1>2
  <2>5. b.TailEnd = 0 => b.cap > 0 /\ end <= b.cap
    BY DEF FitsAfterWrite
  <2>6. b.TailEnd # 0 => end <= b.Sent
    BY DEF FitsAfterWrite
  <2> HIDE DEF end
  <2> QED
    BY <1>2, <2>1, <2>2, <2>3, <2>4, <2>5, <2>6
<1>4. b2 = [b EXCEPT !.Buf = buf2, !.Write = end]
  BY DEF Put
<1>5. buf2 \in [0 .. MaxCap - 1 -> Frame \cup {Free, Header, Trailer}]
  <2> HIDE DEF end, n
  <2> QED
    BY <1>1, <1>2 DEF Fill
<1> HIDE DEF b2, buf2
<1>6. /\ b2.Buf = buf2 /\ b2.Write = end /\ b2.Sent = b.Sent /\ b2.SendEnd = b.SendEnd
      /\ b2.TailEnd = b.TailEnd /\ b2.pendingGap = b.pendingGap /\ b2.cap = b.cap
      /\ Start(b2) = Start(b)
  BY <1>1, <1>4 DEF Ring, Start
<1>7. b2 \in Ring
  <2>1. end \in 0 .. MaxCap
    BY <1>2, <1>3
  <2> HIDE DEF end
  <2> QED
    BY <1>1, <1>4, <1>5, <2>1 DEF Ring
<1>8. /\ Tiled(D, buf2, base, end)
      /\ FramesBut(D, buf2, base, end) = FramesBut(D, b.Buf, base, b.Write) \o <<f>>
      /\ FramesBut(D, b.Buf, base, b.Write) \in Seq(Storable)
  <2>1. Tiled(D, b.Buf, base, b.Write) /\ base \in Nat
    BY <1>2 DEF RingOK
  <2> HIDE DEF base
  <2>2. /\ Tiled(D, buf2, base, b.Write)
        /\ FramesBut(D, buf2, base, b.Write) = FramesBut(D, b.Buf, base, b.Write)
    <3>1. b.Write \in 0 .. MaxCap
      BY <1>2, <1>3
    <3> HIDE DEF end
    <3> QED
      BY <1>2, <1>3, <2>1, <3>1, FillKeeps DEF buf2
  <2>3. ASSUME NEW i \in b.Write .. end - 1 PROVE buf2[i] = f
    <3>1. i \in 0 .. MaxCap - 1 /\ b.Write <= i /\ i < end
      <4>1. b.Write \in Nat /\ end \in Nat /\ end <= MaxCap /\ MaxCap \in Nat
        BY <1>2, <1>3
      <4> HIDE DEF end
      <4> QED
        BY <4>1
    <3>2. b.Write \in Nat /\ end \in Nat
      BY <1>2, <1>3
    <3> HIDE DEF end
    <3> QED
      <4>1. buf2[i] = IF b.Write <= i /\ i < end THEN f ELSE b.Buf[i]
        BY <3>1, Zenon DEF buf2, Fill
      <4> QED
        BY <3>1, <4>1
  <2>4. Tiled(D, buf2, b.Write, end) /\ FramesBut(D, buf2, b.Write, end) = <<f>>
    <3>1. \A i \in b.Write .. b.Write + Total[f] - 1 : buf2[i] = f
      <4> SUFFICES ASSUME NEW i \in b.Write .. b.Write + Total[f] - 1 PROVE buf2[i] = f
        OBVIOUS
      <4>1. i \in b.Write .. end - 1
        BY <1>1, <1>2
      <4> QED
        BY <2>3, <4>1
    <3>2. /\ Tiled(D, buf2, b.Write, b.Write + Total[f])
          /\ FramesBut(D, buf2, b.Write, b.Write + Total[f]) = <<f>>
      <4>1. b.Write \in Nat /\ f \in Storable
        BY <1>2
      <4> HIDE DEF end, buf2
      <4>2. Tiled(D, buf2, b.Write, b.Write + Total[f])
        BY <3>1, <4>1, TiledOne
      <4>3. FramesBut(D, buf2, b.Write, b.Write + Total[f]) = <<f>>
        <5> DEFINE lo == b.Write
                   hi == b.Write + Total[f]
        <5>1. Total[f] \in Nat \ {0} /\ f \in Frame
          BY StorableFacts
        <5>2. buf2[lo] = f
          BY <3>1, <4>1, <5>1
        <5>3. WholeBut(D, buf2, lo, hi)
          BY <3>1, <4>1, <5>1, <5>2 DEF WholeBut
        <5>4. lo \in Nat /\ hi \in Nat /\ hi = lo + Total[buf2[lo]]
          BY <4>1, <5>1, <5>2
        <5> HIDE DEF lo, hi
        <5>5. FramesBut(D, buf2, lo, hi) = <<f>>
          BY <5>2, <5>3, <5>4, FramesOne
        <5> QED
          BY <5>5 DEF lo, hi
      <4> QED
        BY <4>2, <4>3
    <3> QED
      BY <3>2, Zenon
  <2>5. FramesBut(D, b.Buf, base, b.Write) \in Seq(Storable)
    BY <1>2, <2>1, FramesTyped
  <2>6. end \in Nat /\ b.Write \in Nat
    BY <1>2, <1>3
  <2> HIDE DEF end
  <2>7. Tiled(D, buf2, base, end)
    BY <2>1, <2>2, <2>4, <2>6, TiledJoin
  <2>8. FramesBut(D, buf2, base, end) = FramesBut(D, buf2, base, b.Write) \o FramesBut(D, buf2, b.Write, end)
    <3>1. Tiled(D, buf2, base, b.Write) /\ Tiled(D, buf2, b.Write, end)
      BY <2>2, <2>4
    <3> HIDE DEF buf2
    <3> QED
      BY <3>1, FramesJoin
  <2> QED
    BY <2>2, <2>4, <2>5, <2>7, <2>8
<1>9. \A i \in b.Sent .. Start(b) - 1 : buf2[i] = b.Buf[i]
  <2> SUFFICES ASSUME NEW i \in b.Sent .. Start(b) - 1 PROVE buf2[i] = b.Buf[i]
    OBVIOUS
  <2>1. Start(b) <= MaxCap
    <3>1. Start(b) <= b.Write \/ Start(b) <= b.TailEnd
      BY DEF RingOK
    <3> HIDE DEF end
    <3> QED
      BY <1>2, <1>3, <3>1
  <2> HIDE DEF end
  <2>2. i \in 0 .. MaxCap - 1
    BY <1>2, <2>1
  <2>3. ~(b.Write <= i /\ i < end)
    BY <1>2, <1>3
  <2>4. buf2[i] = IF b.Write <= i /\ i < end THEN f ELSE b.Buf[i]
    BY <2>2, Zenon DEF buf2, Fill
  <2> QED
    BY <2>3, <2>4
<1>10. CASE b.TailEnd = 0
  <2>1. RingOK(D, b2)
    <3> HIDE DEF end
    <3>1. CapOK(b2)
      BY <1>2, <1>3, <1>6, <1>10 DEF CapOK, RingOK
    <3>2. Prefix <= b.Sent /\ b.Sent <= b.SendEnd /\ Prefix <= end /\ Start(b) <= end
      BY <1>2, <1>3, <1>10 DEF RingOK
    <3> QED
      BY <1>6, <1>7, <1>8, <1>10, <3>1, <3>2 DEF RingOK
  <2>2. QueuedBut(D, b2) = QueuedBut(D, b) \o <<f>>
    <3>1. QueuedBut(D, b2) = FramesBut(D, buf2, Start(b), end)
      BY <1>6, <1>10 DEF QueuedBut, Start
    <3>2. QueuedBut(D, b) = FramesBut(D, b.Buf, Start(b), b.Write)
      BY <1>10 DEF QueuedBut, Start
    <3> QED
      BY <1>8, <1>10, <3>1, <3>2
  <2> QED
    BY <1>6, <1>9, <2>1, <2>2, QueuedTyped, AppendProperties, AppendIsConcat DEF b2
<1>11. CASE b.TailEnd # 0
  <2>0. b.TailEnd \in 0 .. MaxCap /\ end \in Nat /\ Tiled(D, b.Buf, Start(b), b.TailEnd) /\ end <= Start(b)
    BY <1>2, <1>3, <1>11 DEF RingOK
  <2>1. /\ Tiled(D, buf2, Start(b), b.TailEnd)
        /\ FramesBut(D, buf2, Start(b), b.TailEnd) = FramesBut(D, b.Buf, Start(b), b.TailEnd)
    <3> HIDE DEF end
    <3> QED
      BY <1>2, <2>0, FillKeeps DEF buf2
  <2>2. RingOK(D, b2)
    <3> HIDE DEF end
    <3>1. CapOK(b2)
      BY <1>2, <1>3, <1>6, <1>11 DEF CapOK, RingOK
    <3>2. Prefix <= b.Sent /\ b.Sent <= b.SendEnd /\ Prefix <= end /\ Start(b) <= b.TailEnd
      BY <1>2, <1>3, <1>11 DEF RingOK
    <3> QED
      BY <1>3, <1>6, <1>7, <1>8, <1>11, <2>1, <3>1, <3>2 DEF RingOK
  <2>3. QueuedBut(D, b2) = QueuedBut(D, b) \o <<f>>
    <3> DEFINE u == FramesBut(D, b.Buf, Start(b), b.TailEnd)
               l == FramesBut(D, b.Buf, Prefix, b.Write)
    <3>1. QueuedBut(D, b2) = u \o (l \o <<f>>)
      <4>1. QueuedBut(D, b2) = FramesBut(D, buf2, Start(b), b.TailEnd) \o FramesBut(D, buf2, Prefix, end)
        BY <1>6, <1>11 DEF QueuedBut, Start
      <4> QED
        BY <1>8, <1>11, <2>1, <4>1
    <3>2. QueuedBut(D, b) = u \o l
      BY <1>11 DEF QueuedBut, Start
    <3>3. u \in Seq(Storable) /\ l \in Seq(Storable) /\ <<f>> \in Seq(Storable)
      <4>1. u \in Seq(Storable)
        BY <1>2, <2>0, FramesTyped
      <4>2. l \in Seq(Storable)
        BY <1>8, <1>11
      <4> QED
        BY <4>1, <4>2
    <3> HIDE DEF u, l
    <3> QED
      BY <3>1, <3>2, <3>3, ConcatAssociative
  <2> QED
    BY <1>6, <1>9, <2>2, <2>3, QueuedTyped, AppendProperties, AppendIsConcat DEF b2
<1> QED
  BY <1>10, <1>11

-----------------------------------------------------------------------------
(* The three places where AllocFrame may put a frame are all right behind  *)
(* the last one of a buffer with the same queue: of this one, of the one   *)
(* whose writer went back to the bottom, and of the larger copy.           *)
AtBottom(b) == [b EXCEPT !.TailEnd = b.Write, !.Write = Prefix]

LEMMA AtBottomRing ==
  ASSUME NEW D \in Nat, NEW b, RingOK(D, b), NEW n \in Nat \ {0}, FitsAtBottom(b, n)
  PROVE  LET b2 == AtBottom(b)
         IN /\ RingOK(D, b2) /\ QueuedBut(D, b2) = QueuedBut(D, b) /\ FitsAfterWrite(b2, n)
            /\ b2.Sent = b.Sent /\ b2.SendEnd = b.SendEnd /\ b2.Buf = b.Buf
            /\ b2.pendingGap = b.pendingGap
<1> DEFINE b2 == AtBottom(b)
<1>1. /\ b \in Ring /\ b.TailEnd = 0 /\ b.cap > 0 /\ Prefix + n <= b.Sent
      /\ CapOK(b)
  BY DEF RingOK, FitsAtBottom
<1>2. /\ b.Write \in 0 .. MaxCap /\ b.Sent \in Nat /\ b.SendEnd \in Nat /\ Start(b) \in Nat
      /\ Prefix \in Nat /\ Prefix \in 0 .. MaxCap /\ b.cap \in Nat /\ b.pendingGap \in Nat
      /\ b.Write \in Nat
  BY <1>1, RingFacts, Sizes0
<1>3. /\ b2.Buf = b.Buf /\ b2.Write = Prefix /\ b2.Sent = b.Sent /\ b2.SendEnd = b.SendEnd
      /\ b2.TailEnd = b.Write /\ b2.pendingGap = b.pendingGap /\ b2.cap = b.cap
      /\ Start(b2) = Start(b) /\ b2 \in Ring
  BY <1>1, <1>2 DEF AtBottom, Ring, Start
<1> HIDE DEF b2
<1>4. /\ Prefix <= b.Sent /\ b.Sent <= b.SendEnd /\ Start(b) <= b.Write
      /\ Tiled(D, b.Buf, Start(b), b.Write)
  BY <1>1 DEF RingOK
<1>5. b.Write # 0 /\ b.cap # 0 /\ Prefix <= b.cap /\ b.Write <= b.cap
  <2>1. b.SendEnd <= Start(b)
    BY <1>2 DEF Start
  <2> QED
    BY <1>1, <1>2, <1>4, <2>1 DEF CapOK
<1>6. Tiled(D, b.Buf, Prefix, Prefix) /\ FramesBut(D, b.Buf, Prefix, Prefix) = <<>>
  BY <1>2, TiledEmpty, FramesEmpty
<1>7. RingOK(D, b2)
  <2>1. CapOK(b2)
    BY <1>3, <1>5 DEF CapOK
  <2> QED
    BY <1>2, <1>3, <1>4, <1>5, <1>6, <2>1 DEF RingOK
<1>8. QueuedBut(D, b2) = QueuedBut(D, b)
  <2>1. QueuedBut(D, b2) = FramesBut(D, b.Buf, Start(b), b.Write) \o FramesBut(D, b.Buf, Prefix, Prefix)
    BY <1>3, <1>5 DEF QueuedBut, Start
  <2>2. QueuedBut(D, b) = FramesBut(D, b.Buf, Start(b), b.Write)
    BY <1>1 DEF QueuedBut, Start
  <2>3. QueuedBut(D, b) \in Seq(Storable)
    BY QueuedTyped
  <2> QED
    BY <1>6, <2>1, <2>2, <2>3, ConcatEmptySeq
<1>9. FitsAfterWrite(b2, n)
  BY <1>1, <1>3, <1>5 DEF FitsAfterWrite
<1> QED
  BY <1>3, <1>7, <1>8, <1>9 DEF b2

LEMMA QueueLenRing ==
  ASSUME NEW D \in Nat, NEW b, RingOK(D, b)
  PROVE  /\ QueueLen(b) \in Nat
         /\ b.TailEnd = 0 => b.SendEnd + QueueLen(b) = b.Write /\ b.pendingGap <= QueueLen(b)
         /\ b.TailEnd # 0 =>
              /\ b.TailEnd - b.SendEnd \in Nat /\ b.pendingGap <= b.TailEnd - b.SendEnd
              /\ QueueLen(b) = (b.TailEnd - b.SendEnd) + (b.Write - Prefix)
<1>1. /\ b.Write \in Nat /\ b.SendEnd \in Nat /\ b.TailEnd \in Nat /\ Prefix \in Nat
      /\ b.pendingGap \in Nat
  BY RingFacts, Sizes0 DEF RingOK
<1>2. /\ b.TailEnd = 0 => b.SendEnd + b.pendingGap <= b.Write
      /\ b.TailEnd # 0 => b.SendEnd + b.pendingGap <= b.TailEnd /\ Prefix <= b.Write
  BY DEF RingOK, Start
<1> QED
  BY <1>1, <1>2 DEF QueueLen

LEMMA GrownRing ==
  ASSUME NEW D \in Nat, NEW b, RingOK(D, b), NEW n \in Nat \ {0}, CanGrow(b, n)
  PROVE  LET b2 == Grown(b, n)
         IN /\ RingOK(D, b2) /\ QueuedBut(D, b2) = QueuedBut(D, b) /\ FitsAfterWrite(b2, n)
            /\ b2.Sent = Prefix /\ b2.SendEnd = Prefix /\ b2.TailEnd = 0
            /\ b2.pendingGap = b.pendingGap
<1> DEFINE b2 == Grown(b, n)
           len == QueueLen(b)
           buf2 == [i \in 0 .. MaxCap - 1 |->
                      IF i \in Prefix .. Prefix + len - 1
                      THEN b.Buf[CopySource(b, i)] ELSE Free]
           cap2 == NewSize(b.cap, Prefix + len + n)
           tail == b.TailEnd - b.SendEnd
           first == Prefix + b.pendingGap
           end == Prefix + len
<1>1. b \in Ring /\ CapOK(b)
  BY DEF RingOK
<1>2. /\ b.Write \in Nat /\ b.SendEnd \in Nat /\ b.TailEnd \in Nat /\ Prefix \in Nat
      /\ b.pendingGap \in Nat /\ b.cap \in 0 .. MaxCap /\ MaxCap \in Nat
      /\ b.Write <= MaxCap /\ b.TailEnd <= MaxCap
  BY <1>1, RingFacts, Sizes0
<1>a. b.Buf \in [0 .. MaxCap - 1 -> Frame \cup {Free, Header, Trailer}]
  BY <1>1, RingFacts
<1>b. Start(b) \in Nat /\ Start(b) = b.SendEnd + b.pendingGap
  BY <1>1, RingFacts DEF Start
<1>3. /\ len \in Nat
      /\ b.TailEnd = 0 => b.SendEnd + len = b.Write /\ b.pendingGap <= len
      /\ b.TailEnd # 0 => /\ tail \in Nat /\ b.pendingGap <= tail
                          /\ len = tail + (b.Write - Prefix)
      /\ Prefix <= b.Write
  BY QueueLenRing DEF RingOK
<1> HIDE DEF len
<1>4. cap2 \in 1 .. MaxCap /\ end + n <= cap2
  <2>1. Prefix + len + n \in Nat
    BY <1>2, <1>3
  <2>2. NewSize(b.cap, Prefix + len + n) >= Prefix + len + n
    BY DEF CanGrow, len
  <2>3. NewSize(b.cap, Prefix + len + n) \in 1 .. MaxCap
    BY <1>2, <2>1, NewSizeBounds
  <2> QED
    BY <2>1, <2>2, <2>3, <1>2, <1>3
<1>5. b2 = [b EXCEPT !.Buf = buf2, !.cap = cap2, !.Sent = Prefix, !.SendEnd = Prefix,
                     !.Write = end, !.TailEnd = 0]
  BY DEF Grown, len
<1> HIDE DEF b2, cap2
<1>6. end \in 0 .. MaxCap /\ end \in Nat /\ end <= cap2 /\ Prefix <= end /\ Prefix \in 0 .. MaxCap
      /\ Prefix <= cap2 /\ cap2 # 0 /\ cap2 \in 0 .. MaxCap
  BY <1>2, <1>3, <1>4
<1>7. ASSUME NEW k \in 0 .. len - 1
      PROVE  /\ Prefix + k \in 0 .. MaxCap - 1
             /\ b.TailEnd = 0 => buf2[Prefix + k] = b.Buf[b.SendEnd + k]
             /\ b.TailEnd # 0 /\ k < tail => buf2[Prefix + k] = b.Buf[b.SendEnd + k]
             /\ b.TailEnd # 0 /\ ~(k < tail) => buf2[Prefix + k] = b.Buf[Prefix + (k - tail)]
  <2>1. /\ Prefix + k \in 0 .. MaxCap - 1 /\ Prefix + k \in Prefix .. Prefix + len - 1
        /\ Prefix + k - Prefix = k
    BY <1>2, <1>3, <1>6
  <2>2. buf2[Prefix + k] = b.Buf[CopySource(b, Prefix + k)]
    BY <2>1
  <2>3. CopySource(b, Prefix + k) =
          IF b.TailEnd = 0 \/ k < tail THEN b.SendEnd + k ELSE Prefix + (k - tail)
    <3> DEFINE i == Prefix + k
    <3>1. i - Prefix = k
      BY <1>2, <1>3
    <3> HIDE DEF i
    <3>2. CopySource(b, i) = IF b.TailEnd = 0 \/ i - Prefix < tail THEN b.SendEnd + (i - Prefix)
                             ELSE Prefix + (i - Prefix - tail)
      BY Zenon DEF CopySource
    <3> QED
      BY <3>1, <3>2 DEF i
  <2> HIDE DEF buf2, tail
  <2> QED
    BY <2>1, <2>2, <2>3
<1>8. buf2 \in [0 .. MaxCap - 1 -> Frame \cup {Free, Header, Trailer}]
  <2> SUFFICES ASSUME NEW i \in 0 .. MaxCap - 1
               PROVE  buf2[i] \in Frame \cup {Free, Header, Trailer}
    OBVIOUS
  <2>1. CASE i \in Prefix .. Prefix + len - 1
    <3>1. i - Prefix \in 0 .. len - 1 /\ Prefix + (i - Prefix) = i /\ i \in Nat
      BY <1>2, <1>3, <2>1
    <3>2. CASE b.TailEnd = 0
      <4>1. buf2[i] = b.Buf[b.SendEnd + (i - Prefix)]
        BY <1>7, <3>1, <3>2
      <4>2. b.SendEnd + (i - Prefix) \in 0 .. MaxCap - 1
        BY <1>2, <1>3, <3>1, <3>2
      <4> QED
        BY <1>a, <4>1, <4>2
    <3>3. CASE b.TailEnd # 0 /\ i - Prefix < tail
      <4>1. buf2[i] = b.Buf[b.SendEnd + (i - Prefix)]
        BY <1>7, <3>1, <3>3
      <4>2. b.SendEnd + (i - Prefix) \in 0 .. MaxCap - 1
        BY <1>2, <1>3, <3>1, <3>3
      <4> QED
        BY <1>a, <4>1, <4>2
    <3>4. CASE b.TailEnd # 0 /\ ~(i - Prefix < tail)
      <4>1. buf2[i] = b.Buf[Prefix + ((i - Prefix) - tail)]
        BY <1>7, <3>1, <3>4
      <4>2. Prefix + ((i - Prefix) - tail) \in 0 .. MaxCap - 1
        BY <1>2, <1>3, <3>1, <3>4
      <4> QED
        BY <1>a, <4>1, <4>2
    <3> QED
      BY <3>2, <3>3, <3>4
  <2>2. CASE i \notin Prefix .. Prefix + len - 1
    BY <2>2
  <2> QED
    BY <2>1, <2>2
<1> HIDE DEF buf2
<1>9. /\ b2.Buf = buf2 /\ b2.cap = cap2 /\ b2.Sent = Prefix /\ b2.SendEnd = Prefix
      /\ b2.Write = end /\ b2.TailEnd = 0 /\ b2.pendingGap = b.pendingGap
      /\ Start(b2) = first /\ b2 \in Ring
  <2>1. 0 \in 0 .. MaxCap
    BY <1>2
  <2> HIDE DEF end
  <2> QED
    BY <1>1, <1>5, <1>6, <1>8, <2>1 DEF Ring, Start
<1>0. 0 \in 0 .. D /\ Shorter(0)
  BY NoneShorter
<1>10. first \in Nat /\ first <= end
  BY <1>2, <1>3
<1>11. /\ Tiled(D, buf2, first, end)
       /\ FramesBut(D, buf2, first, end) = QueuedBut(D, b)
  <2>1. CASE b.TailEnd = 0
    <3>1. Tiled(D, b.Buf, Start(b), b.Write) /\ QueuedBut(D, b) = FramesBut(D, b.Buf, Start(b), b.Write)
      BY <2>1 DEF RingOK, QueuedBut, Start
    <3>2. Moved(0, b.Buf, Start(b), b.Write, buf2, first)
      <4>0. b.Write - 1 - 0 = b.Write - 1
        BY <1>2
      <4> SUFFICES ASSUME NEW i \in Start(b) .. b.Write - 1
                   PROVE  buf2[i - Start(b) + first] = b.Buf[i]
        BY <4>0 DEF Moved
      <4>1. /\ i - b.SendEnd \in 0 .. len - 1
            /\ i - Start(b) + first = Prefix + (i - b.SendEnd)
            /\ b.SendEnd + (i - b.SendEnd) = i
        BY <1>2, <1>3, <1>b, <2>1
      <4> QED
        BY <1>7, <2>1, <4>1
    <3>3. b.Write - Start(b) + first = end
      BY <1>2, <1>3, <1>b, <2>1
    <3> HIDE DEF first, end
    <3>4. Tiled(D, buf2, first, b.Write - Start(b) + first)
      BY <1>2, <1>b, <1>10, <3>1, <3>2, <1>0, TiledMoved
    <3>5. FramesBut(D, buf2, first, b.Write - Start(b) + first) = FramesBut(D, b.Buf, Start(b), b.Write)
      BY <1>2, <1>b, <1>10, <3>1, <3>2, <1>0, FramesMoved
    <3> QED
      BY <3>1, <3>3, <3>4, <3>5
  <2>2. CASE b.TailEnd # 0
    <3> DEFINE mid == Prefix + tail
    <3>1. /\ Tiled(D, b.Buf, Start(b), b.TailEnd) /\ Tiled(D, b.Buf, Prefix, b.Write)
          /\ QueuedBut(D, b) = FramesBut(D, b.Buf, Start(b), b.TailEnd) \o FramesBut(D, b.Buf, Prefix, b.Write)
      BY <2>2 DEF RingOK, QueuedBut, Start
    <3>2. Moved(0, b.Buf, Start(b), b.TailEnd, buf2, first)
      <4>0. b.TailEnd - 1 - 0 = b.TailEnd - 1
        BY <1>2
      <4> SUFFICES ASSUME NEW i \in Start(b) .. b.TailEnd - 1
                   PROVE  buf2[i - Start(b) + first] = b.Buf[i]
        BY <4>0 DEF Moved
      <4>1. /\ i - b.SendEnd \in 0 .. len - 1 /\ i - b.SendEnd < tail
            /\ i - Start(b) + first = Prefix + (i - b.SendEnd)
            /\ b.SendEnd + (i - b.SendEnd) = i
        BY <1>2, <1>3, <1>b, <2>2
      <4> QED
        BY <1>7, <2>2, <4>1
    <3>3. Moved(0, b.Buf, Prefix, b.Write, buf2, mid)
      <4>0. b.Write - 1 - 0 = b.Write - 1
        BY <1>2
      <4> SUFFICES ASSUME NEW i \in Prefix .. b.Write - 1
                   PROVE  buf2[i - Prefix + mid] = b.Buf[i]
        BY <4>0 DEF Moved
      <4> DEFINE k == i - Prefix + tail
      <4>1. /\ k \in 0 .. len - 1 /\ ~(k < tail)
            /\ i - Prefix + mid = Prefix + k
            /\ Prefix + (k - tail) = i
        BY <1>2, <1>3, <2>2
      <4> HIDE DEF k
      <4> QED
        BY <1>7, <2>2, <4>1
    <3>4. b.TailEnd - Start(b) + first = mid /\ b.Write - Prefix + mid = end /\ mid \in Nat
      <4>1. b.TailEnd - Start(b) + first = mid
        BY <1>2, <1>3, <1>b, <2>2
      <4>2. mid \in Nat
        BY <1>2, <1>3, <1>b, <2>2
      <4>3. b.Write - Prefix + mid = end
        <5>1. tail \in Nat /\ len = tail + (b.Write - Prefix) /\ len \in Nat
          BY <1>3, <2>2
        <5> HIDE DEF tail
        <5> QED
          BY <1>2, <5>1
      <4> QED
        BY <4>1, <4>2, <4>3
    <3> HIDE DEF first, end, mid
    <3>5. Tiled(D, buf2, first, mid)
      <4>1. Tiled(D, buf2, first, b.TailEnd - Start(b) + first)
        BY <1>2, <1>b, <1>10, <3>1, <3>2, <1>0, TiledMoved
      <4> QED
        BY <3>4, <4>1
    <3>6. Tiled(D, buf2, mid, end)
      <4>1. Tiled(D, buf2, mid, b.Write - Prefix + mid)
        BY <1>2, <3>1, <3>3, <3>4, <1>0, TiledMoved
      <4> QED
        BY <3>4, <4>1
    <3>7. FramesBut(D, buf2, first, mid) = FramesBut(D, b.Buf, Start(b), b.TailEnd)
      <4>1. FramesBut(D, buf2, first, b.TailEnd - Start(b) + first) = FramesBut(D, b.Buf, Start(b), b.TailEnd)
        <5>1. first \in Nat
          BY <1>10
        <5> QED
          BY <3>1, <3>2, <5>1, <1>0, FramesMoved
      <4> QED
        BY <3>4, <4>1
    <3>8. FramesBut(D, buf2, mid, end) = FramesBut(D, b.Buf, Prefix, b.Write)
      <4>1. FramesBut(D, buf2, mid, b.Write - Prefix + mid) = FramesBut(D, b.Buf, Prefix, b.Write)
        BY <1>2, <3>1, <3>3, <3>4, <1>0, FramesMoved
      <4> QED
        BY <3>4, <4>1
    <3>9. Tiled(D, buf2, first, end)
      BY <1>6, <1>10, <3>4, <3>5, <3>6, TiledJoin
    <3>10. FramesBut(D, buf2, first, end) = FramesBut(D, buf2, first, mid) \o FramesBut(D, buf2, mid, end)
      <4>1. first \in Nat /\ mid \in Nat /\ end \in Nat
        BY <1>6, <1>10, <3>4
      <4> QED
        BY <3>5, <3>6, <4>1, FramesJoin, SMT
    <3> QED
      BY <3>1, <3>7, <3>8, <3>9, <3>10
  <2> QED
    BY <2>1, <2>2
<1>12. RingOK(D, b2)
  <2>1. CapOK(b2)
    BY <1>6, <1>9 DEF CapOK
  <2> HIDE DEF first, end
  <2> QED
    BY <1>2, <1>6, <1>9, <1>10, <1>11, <2>1 DEF RingOK
<1>13. QueuedBut(D, b2) = QueuedBut(D, b)
  <2>1. QueuedBut(D, b2) = FramesBut(D, buf2, first, end)
    <3> HIDE DEF first, end
    <3> QED
      BY <1>9 DEF QueuedBut, Start
  <2> QED
    BY <1>11, <2>1
<1>14. FitsAfterWrite(b2, n)
  <2> HIDE DEF end
  <2> QED
    BY <1>4, <1>6, <1>9 DEF FitsAfterWrite
<1> QED
  BY <1>9, <1>12, <1>13, <1>14 DEF b2

(* AllocFrame puts the frame at the end of the queue; unless it moved to a *)
(* larger array, the batch that is being sent is where it was.             *)
LEMMA AllocRing ==
  ASSUME NEW D \in Nat, NEW b, RingOK(D, b), NEW f \in Frame, CanAlloc(b, f)
  PROVE  LET b2 == AllocFrame(b, f)
         IN /\ RingOK(D, b2) /\ QueuedBut(D, b2) = Append(QueuedBut(D, b), f) /\ f \in Storable
            /\ b2.pendingGap = b.pendingGap
            /\ AllocGrows(b, f) => b2.Sent = Prefix /\ b2.SendEnd = Prefix
            /\ ~AllocGrows(b, f) =>
                 /\ b2.Sent = b.Sent /\ b2.SendEnd = b.SendEnd
                 /\ \A i \in b.Sent .. Start(b) - 1 : b2.Buf[i] = b.Buf[i]
<1> DEFINE n == Total[f]
           b2 == AllocFrame(b, f)
<1>1. f \in Storable /\ n \in Nat \ {0}
  BY StorableFacts DEF CanAlloc, Storable
<1>2. CASE FitsAfterWrite(b, n)
  <2>1. b2 = Put(b, f, b.Write) /\ ~AllocGrows(b, f)
    BY <1>2 DEF AllocFrame, AllocGrows
  <2> HIDE DEF b2
  <2> QED
    BY <1>1, <1>2, <2>1, PutFits DEF b2
<1>3. CASE AllocGrows(b, f)
  <2> DEFINE g == Grown(b, n)
  <2>1. b2 = Put(g, f, g.Write) /\ CanGrow(b, n)
    BY <1>3 DEF AllocFrame, AllocGrows, CanAlloc
  <2>2. /\ RingOK(D, g) /\ QueuedBut(D, g) = QueuedBut(D, b) /\ FitsAfterWrite(g, n)
        /\ g.Sent = Prefix /\ g.SendEnd = Prefix /\ g.pendingGap = b.pendingGap
    BY <1>1, <2>1, GrownRing
  <2> HIDE DEF b2, g
  <2> QED
    BY <1>1, <1>3, <2>1, <2>2, PutFits DEF b2
<1>4. CASE ~FitsAfterWrite(b, n) /\ ~AllocGrows(b, f)
  <2> DEFINE r == AtBottom(b)
  <2>1. FitsAtBottom(b, n)
    BY <1>4 DEF AllocGrows
  <2>2. /\ RingOK(D, r) /\ QueuedBut(D, r) = QueuedBut(D, b) /\ FitsAfterWrite(r, n)
        /\ r.Sent = b.Sent /\ r.SendEnd = b.SendEnd /\ r.Buf = b.Buf
        /\ r.pendingGap = b.pendingGap /\ Start(r) = Start(b)
    BY <1>1, <2>1, AtBottomRing DEF Start
  <2>3. b2 = Put(r, f, r.Write)
    <3>1. b2 = Put([b EXCEPT !.TailEnd = b.Write], f, Prefix)
      BY <1>4 DEF AllocFrame
    <3>2. b \in Ring
      BY DEF RingOK
    <3> QED
      BY <3>1, <3>2 DEF AtBottom, Put, Ring
  <2> HIDE DEF b2, r
  <2> QED
    BY <1>1, <1>4, <2>2, <2>3, PutFits DEF b2
<1> QED
  BY <1>2, <1>3, <1>4 DEF AllocGrows

-----------------------------------------------------------------------------
(* The batch handed out last is done with: the queue begins at Sent, and   *)
(* the upper part, when there are two, is not empty.                       *)
Ready(D, b) ==
  /\ b \in Ring /\ CapOK(b) /\ b.pendingGap = 0
  /\ Prefix <= b.Sent /\ Prefix <= b.Write
  /\ b.TailEnd = 0 => b.Sent <= b.Write /\ Tiled(D, b.Buf, b.Sent, b.Write)
  /\ b.TailEnd # 0 => /\ b.Write <= b.Sent /\ b.Sent < b.TailEnd
                      /\ Tiled(D, b.Buf, b.Sent, b.TailEnd)
                      /\ Tiled(D, b.Buf, Prefix, b.Write)

ReadyQueue(D, b) ==
  IF b.TailEnd = 0 THEN FramesBut(D, b.Buf, b.Sent, b.Write)
  ELSE FramesBut(D, b.Buf, b.Sent, b.TailEnd) \o FramesBut(D, b.Buf, Prefix, b.Write)

LEMMA ConfirmRing ==
  ASSUME NEW D \in Nat, NEW b0, RingOK(D, b0), NEW b, b = Switch(Confirm(b0))
  PROVE  /\ Ready(D, b) /\ ReadyQueue(D, b) = QueuedBut(D, b0)
         /\ b.Write = b0.Write /\ b.cap = b0.cap
         /\ b.TailEnd # 0 => b.Sent = Start(b0) /\ b.TailEnd = b0.TailEnd
         /\ b.TailEnd = 0 => \A i \in b.Sent .. b.Write - 1 : b.Buf[i] \in Frame => b0.Buf[i] = b.Buf[i]
         /\ b.TailEnd # 0 => \A i \in b.Sent .. b.TailEnd - 1 : b.Buf[i] \in Frame => b0.Buf[i] = b.Buf[i]
<1> DEFINE c == Confirm(b0)
           s == Start(b0)
           buf2 == [i \in 0 .. MaxCap - 1 |->
                      IF (b0.Sent <= i /\ i < s) \/ b0.Buf[i] \in {Header, Trailer}
                      THEN Free ELSE b0.Buf[i]]
<1>1. b0 \in Ring /\ CapOK(b0)
  BY DEF RingOK
<1>2. /\ b0.Write \in Nat /\ b0.Sent \in Nat /\ b0.SendEnd \in Nat /\ b0.TailEnd \in Nat
      /\ Prefix \in Nat /\ MaxCap \in Nat /\ s \in Nat /\ s = b0.SendEnd + b0.pendingGap
      /\ b0.pendingGap \in Nat /\ b0.cap \in Nat
      /\ b0.Write <= MaxCap /\ b0.TailEnd <= MaxCap
  BY <1>1, RingFacts, Sizes0 DEF Start
<1>3. SentAfter(b0) = s
  <2>1. b0.Sent <= b0.SendEnd
    BY DEF RingOK
  <2>2. (IF b0.Sent < b0.SendEnd THEN b0.SendEnd ELSE b0.Sent) = b0.SendEnd
    BY <1>2, <2>1
  <2> QED
    BY <2>2 DEF SentAfter, Start
<1>4. /\ Prefix <= b0.Sent /\ b0.Sent <= s /\ Prefix <= s /\ Prefix <= b0.Write
      /\ s <= MaxCap
      /\ b0.TailEnd = 0 => s <= b0.Write
      /\ b0.TailEnd # 0 => s <= b0.TailEnd /\ b0.Write <= b0.Sent
  <2>1. /\ Prefix <= b0.Sent /\ b0.Sent <= b0.SendEnd /\ Prefix <= b0.Write
        /\ b0.TailEnd = 0 => s <= b0.Write
        /\ b0.TailEnd # 0 => s <= b0.TailEnd /\ b0.Write <= b0.Sent
    BY DEF RingOK
  <2> HIDE DEF s
  <2> QED
    BY <1>2, <2>1
<1>5. c = [b0 EXCEPT !.Sent = s, !.pendingGap = 0, !.Buf = buf2]
  BY <1>3, Zenon DEF Confirm
<1>6. buf2 \in [0 .. MaxCap - 1 -> Frame \cup {Free, Header, Trailer}]
  <2>1. b0.Buf \in [0 .. MaxCap - 1 -> Frame \cup {Free, Header, Trailer}]
    BY <1>1, RingFacts
  <2> HIDE DEF s
  <2> QED
    BY <2>1
<1>7. ASSUME NEW lo \in Nat, NEW hi \in Nat, hi <= MaxCap, Tiled(D, b0.Buf, lo, hi),
             hi <= b0.Sent \/ s <= lo
      PROVE  /\ Tiled(D, buf2, lo, hi) /\ FramesBut(D, buf2, lo, hi) = FramesBut(D, b0.Buf, lo, hi)
             /\ \A i \in lo .. hi - 1 : buf2[i] \in Frame => b0.Buf[i] = buf2[i]
  <2>1. ASSUME NEW i \in lo .. hi - 1
        PROVE  /\ b0.Buf[i] \in Frame => buf2[i] = b0.Buf[i]
               /\ buf2[i] \in Frame => b0.Buf[i] = buf2[i]
    <3> HIDE DEF s
    <3>1. i \in 0 .. MaxCap - 1 /\ ~(b0.Sent <= i /\ i < s)
      BY <1>2, <1>7
    <3>2. Header \notin Frame /\ Trailer \notin Frame /\ Free \notin Frame
      BY BipBufAssumption DEF Header, Trailer, Free
    <3>3. buf2[i] = IF b0.Buf[i] \in {Header, Trailer} THEN Free ELSE b0.Buf[i]
      BY <3>1
    <3> HIDE DEF buf2
    <3> QED
      BY <3>2, <3>3
  <2> HIDE DEF buf2
  <2> QED
    BY <1>7, <2>1, SameCells
<1>a. b = Switch(c)
  OBVIOUS
<1> HIDE DEF c, buf2, s
<1>8. /\ c.Buf = buf2 /\ c.Sent = s /\ c.SendEnd = b0.SendEnd /\ c.Write = b0.Write
      /\ c.TailEnd = b0.TailEnd /\ c.cap = b0.cap /\ c.pendingGap = 0
      /\ c \in Ring
  <2>1. s \in 0 .. MaxCap /\ 0 \in {0, Suffix}
    BY <1>2, <1>4
  <2> QED
    BY <1>1, <1>5, <1>6, <2>1 DEF Ring
<1>9. CASE b0.TailEnd = 0
  <2>1. b = c
    BY <1>2, <1>8, <1>9, <1>a DEF Switch
  <2>2. Tiled(D, b0.Buf, s, b0.Write) /\ QueuedBut(D, b0) = FramesBut(D, b0.Buf, s, b0.Write)
    BY <1>9 DEF RingOK, QueuedBut, Start, s
  <2>3. /\ Tiled(D, buf2, s, b0.Write) /\ FramesBut(D, buf2, s, b0.Write) = FramesBut(D, b0.Buf, s, b0.Write)
        /\ \A i \in s .. b0.Write - 1 : buf2[i] \in Frame => b0.Buf[i] = buf2[i]
    BY <1>2, <1>7, <2>2
  <2>4. Ready(D, c) /\ ReadyQueue(D, c) = QueuedBut(D, b0)
    <3>1. CapOK(c)
      BY <1>1, <1>8 DEF CapOK
    <3> QED
      BY <1>4, <1>8, <1>9, <2>2, <2>3, <3>1 DEF Ready, ReadyQueue
  <2> QED
    BY <1>8, <1>9, <2>1, <2>3, <2>4
<1>10. CASE b0.TailEnd # 0
  <2>1. /\ Tiled(D, b0.Buf, s, b0.TailEnd) /\ Tiled(D, b0.Buf, Prefix, b0.Write)
        /\ QueuedBut(D, b0) = FramesBut(D, b0.Buf, s, b0.TailEnd) \o FramesBut(D, b0.Buf, Prefix, b0.Write)
    BY <1>10 DEF RingOK, QueuedBut, Start, s
  <2>2. /\ Tiled(D, buf2, s, b0.TailEnd)
        /\ FramesBut(D, buf2, s, b0.TailEnd) = FramesBut(D, b0.Buf, s, b0.TailEnd)
        /\ \A i \in s .. b0.TailEnd - 1 : buf2[i] \in Frame => b0.Buf[i] = buf2[i]
    BY <1>2, <1>7, <2>1
  <2>3. /\ Tiled(D, buf2, Prefix, b0.Write)
        /\ FramesBut(D, buf2, Prefix, b0.Write) = FramesBut(D, b0.Buf, Prefix, b0.Write)
        /\ \A i \in Prefix .. b0.Write - 1 : buf2[i] \in Frame => b0.Buf[i] = buf2[i]
    BY <1>2, <1>4, <1>7, <1>10, <2>1
  <2>4. CASE s < b0.TailEnd
    <3>1. b = c
      BY <1>2, <1>8, <1>a, <2>4 DEF Switch
    <3>2. Ready(D, c) /\ ReadyQueue(D, c) = QueuedBut(D, b0)
      <4>1. CapOK(c)
        BY <1>1, <1>8 DEF CapOK
      <4>2. b0.Write <= s
        BY <1>2, <1>4, <1>10
      <4> QED
        BY <1>4, <1>8, <1>10, <2>1, <2>2, <2>3, <2>4, <4>1, <4>2 DEF Ready, ReadyQueue
    <3> QED
      BY <1>8, <1>10, <2>2, <3>1, <3>2 DEF s
  <2>5. CASE s = b0.TailEnd
    <3>1. b = [c EXCEPT !.Sent = Prefix, !.SendEnd = Prefix, !.TailEnd = 0]
      BY <1>2, <1>8, <1>10, <1>a, <2>5 DEF Switch
    <3>2. /\ b.Buf = buf2 /\ b.Sent = Prefix /\ b.Write = b0.Write /\ b.TailEnd = 0
          /\ b.cap = b0.cap /\ b.pendingGap = 0 /\ b \in Ring
      <4>1. Prefix \in 0 .. MaxCap /\ 0 \in 0 .. MaxCap
        BY Sizes0
      <4> QED
        BY <1>8, <3>1, <4>1 DEF Ring
    <3>3. Ready(D, b)
      <4>1. CapOK(b)
        BY <1>1, <1>2, <1>10, <3>2 DEF CapOK
      <4> QED
        BY <1>2, <1>4, <2>3, <3>2, <4>1 DEF Ready
    <3>4. ReadyQueue(D, b) = QueuedBut(D, b0)
      <4>1. FramesBut(D, b0.Buf, s, b0.TailEnd) = <<>>
        BY <1>2, <2>5, FramesEmpty
      <4>2. FramesBut(D, b0.Buf, Prefix, b0.Write) \in Seq(Storable)
        BY <1>2, <2>1, FramesTyped
      <4>3. QueuedBut(D, b0) = FramesBut(D, b0.Buf, Prefix, b0.Write)
        BY <2>1, <4>1, <4>2, ConcatEmptySeq
      <4> QED
        BY <2>3, <3>2, <4>3 DEF ReadyQueue
    <3> QED
      BY <2>3, <3>2, <3>3, <3>4
  <2> QED
    BY <1>2, <1>4, <1>10, <2>4, <2>5
<1> QED
  BY <1>9, <1>10

LEMMA RewindRing ==
  ASSUME NEW D \in Nat, NEW b, Ready(D, b), b.TailEnd = 0
  PROVE  /\ RingOK(D, Rewind(b)) /\ QueuedBut(D, Rewind(b)) = <<>>
         /\ Rewind(b).Sent = Prefix /\ Rewind(b).SendEnd = Prefix /\ Rewind(b).TailEnd = 0
         /\ Rewind(b).pendingGap = 0
<1> DEFINE r == Rewind(b)
<1>1. b \in Ring /\ CapOK(b) /\ b.pendingGap = 0 /\ Prefix \in Nat /\ Prefix \in 0 .. MaxCap
  BY Sizes0 DEF Ready
<1>2. /\ r.Buf = b.Buf /\ r.Sent = Prefix /\ r.SendEnd = Prefix /\ r.Write = Prefix
      /\ r.TailEnd = 0 /\ r.pendingGap = 0 /\ r.cap = b.cap /\ r \in Ring
  BY <1>1 DEF Rewind, Ring
<1> HIDE DEF r
<1>3. Start(r) = Prefix
  BY <1>1, <1>2 DEF Start
<1>4. CapOK(r)
  <2>1. b.cap \in Nat
    BY <1>1, RingFacts
  <2> QED
    BY <1>1, <1>2, <2>1 DEF CapOK
<1>5. Tiled(D, r.Buf, Prefix, Prefix) /\ FramesBut(D, r.Buf, Prefix, Prefix) = <<>>
  BY <1>1, TiledEmpty, FramesEmpty
<1>6. RingOK(D, r)
  BY <1>1, <1>2, <1>3, <1>4, <1>5 DEF RingOK
<1>7. QueuedBut(D, r) = <<>>
  BY <1>2, <1>3, <1>5 DEF QueuedBut, Start
<1> QED
  BY <1>2, <1>6, <1>7 DEF r

(* A batch that was handed out: whole frames, none more than the layer     *)
(* below takes, and where the cursors say.                                 *)
Taken(D, b, s) ==
  /\ s = [from |-> b.Sent, to |-> b.SendEnd, suffix |-> b.pendingGap]
  /\ b.Sent < b.SendEnd
  /\ MaxFramePayload > 0 => b.SendEnd - b.Sent <= MaxFramePayload
  /\ Tiled(D, b.Buf, b.Sent, b.SendEnd)

LEMMA TakeRing ==
  ASSUME NEW D \in Nat, NEW b0, RingOK(D, b0), NEW res, res = TakeSendSlice(b0)
  PROVE  /\ RingOK(D, res.b)
         /\ res.slice = NoSlice =>
              /\ QueuedBut(D, b0) = <<>> /\ QueuedBut(D, res.b) = <<>>
              /\ res.b.Sent = Prefix /\ res.b.SendEnd = Prefix /\ res.b.TailEnd = 0
         /\ res.slice # NoSlice =>
              /\ Taken(D, res.b, res.slice)
              /\ QueuedBut(D, b0) = FramesBut(D, res.b.Buf, res.b.Sent, res.b.SendEnd) \o QueuedBut(D, res.b)
              /\ res.b.TailEnd # 0 => /\ b0.TailEnd # 0
                                    /\ res.b.Sent = Start(b0) /\ res.b.Write = b0.Write
<1> DEFINE b == Switch(Confirm(b0))
           limit == IF b.TailEnd > 0 THEN b.TailEnd ELSE b.Write
           end == FrameAlignedEnd(b, b.Sent, limit)
           grant == ~(b.TailEnd > 0) /\ Suffix > 0 /\ end = b.Write /\ b.cap - b.Write >= Suffix
           r == res.b
<1>1. /\ Ready(D, b) /\ ReadyQueue(D, b) = QueuedBut(D, b0) /\ b.Write = b0.Write
      /\ b.TailEnd # 0 => b.Sent = Start(b0) /\ b.TailEnd = b0.TailEnd
  BY ConfirmRing
<1>2. res = IF ~(b.TailEnd > 0) /\ b.Sent >= b.Write
          THEN [b |-> Rewind(b), slice |-> NoSlice]
          ELSE [b |-> [b EXCEPT !.SendEnd = end,
                                !.Write = IF grant THEN @ + Suffix ELSE @,
                                !.pendingGap = IF grant THEN Suffix ELSE 0],
                slice |-> [from |-> b.Sent, to |-> end,
                           suffix |-> IF grant THEN Suffix ELSE 0]]
  BY Zenon DEF TakeSendSlice
<1> HIDE DEF b, end
<1>3. /\ b \in Ring /\ CapOK(b) /\ b.pendingGap = 0 /\ Prefix <= b.Sent /\ Prefix <= b.Write
      /\ b.TailEnd = 0 => b.Sent <= b.Write
      /\ b.TailEnd # 0 => b.Write <= b.Sent /\ b.Sent < b.TailEnd /\ Tiled(D, b.Buf, Prefix, b.Write)
      /\ Tiled(D, b.Buf, b.Sent, limit)
  <2>1. b.TailEnd > 0 <=> b.TailEnd # 0
    BY <1>1, RingFacts DEF Ready
  <2> QED
    BY <1>1, <2>1 DEF Ready
<1>4. /\ b.Sent \in Nat /\ b.Write \in Nat /\ b.TailEnd \in Nat /\ limit \in Nat
      /\ b.cap \in Nat /\ Suffix \in Nat /\ Prefix \in Nat /\ MaxCap \in Nat
      /\ b.Sent <= MaxCap /\ b.Write <= MaxCap /\ b.TailEnd <= MaxCap /\ b.cap <= MaxCap
      /\ limit <= MaxCap
  BY <1>3, RingFacts, Sizes0
<1>5. CASE ~(b.TailEnd > 0) /\ b.Sent >= b.Write
  <2>1. res.b = Rewind(b) /\ res.slice = NoSlice /\ b.TailEnd = 0 /\ b.Sent = b.Write
    BY <1>2, <1>3, <1>4, <1>5
  <2>2. QueuedBut(D, b0) = <<>>
    BY <1>1, <1>4, <2>1, FramesEmpty DEF ReadyQueue
  <2> QED
    BY <1>1, <2>1, <2>2, RewindRing
<1>6. CASE ~(~(b.TailEnd > 0) /\ b.Sent >= b.Write)
  <2>1. b.Sent # limit /\ b.Sent < limit
    BY <1>3, <1>4, <1>6
  <2>2. /\ end \in Nat /\ b.Sent < end /\ end <= limit
        /\ Tiled(D, b.Buf, b.Sent, end) /\ Tiled(D, b.Buf, end, limit)
        /\ MaxFramePayload > 0 => end - b.Sent <= MaxFramePayload
    BY <1>3, <1>4, <2>1, AlignedEnd DEF end
  <2>3. FramesBut(D, b.Buf, b.Sent, limit) = FramesBut(D, b.Buf, b.Sent, end) \o FramesBut(D, b.Buf, end, limit)
    <3>1. /\ b.Sent \in Nat /\ end \in Nat /\ limit \in Nat
          /\ Tiled(D, b.Buf, b.Sent, end) /\ Tiled(D, b.Buf, end, limit)
      BY <1>4, <2>2
    <3> HIDE DEF limit
    <3> QED
      BY <3>1, FramesJoin, SMT
  <2>4. FramesBut(D, b.Buf, b.Sent, end) \in Seq(Storable) /\ FramesBut(D, b.Buf, end, limit) \in Seq(Storable)
    BY <1>4, <2>2, FramesTyped
  <2>5. /\ r = [b EXCEPT !.SendEnd = end, !.Write = IF grant THEN @ + Suffix ELSE @,
                         !.pendingGap = IF grant THEN Suffix ELSE 0]
        /\ res.slice = [from |-> b.Sent, to |-> end, suffix |-> IF grant THEN Suffix ELSE 0]
    BY <1>2, <1>6
  <2>6. res.slice # NoSlice
    <3>1. res.slice.suffix \in Nat
      BY <1>4, <2>5
    <3>2. NoSlice.suffix = -1
      BY DEF NoSlice
    <3> QED
      BY <3>1, <3>2
  <2>7. CASE grant
    <3>1. /\ b.TailEnd = 0 /\ limit = b.Write /\ end = b.Write /\ b.Write + Suffix <= b.cap
          /\ b.Write + Suffix \in Nat
      BY <1>4, <2>7
    <3> HIDE DEF r, limit
    <3>2. /\ r.Buf = b.Buf /\ r.Sent = b.Sent /\ r.SendEnd = end /\ r.Write = b.Write + Suffix
          /\ r.TailEnd = 0 /\ r.pendingGap = Suffix /\ r.cap = b.cap /\ r \in Ring
      <4>1. end \in 0 .. MaxCap /\ b.Write + Suffix \in 0 .. MaxCap
        BY <1>4, <2>2, <3>1
      <4> HIDE DEF grant
      <4> QED
        BY <1>3, <2>5, <2>7, <3>1, <4>1 DEF Ring
    <3>3. Start(r) = b.Write + Suffix
      BY <3>1, <3>2 DEF Start
    <3>4. Tiled(D, b.Buf, Start(r), Start(r)) /\ FramesBut(D, b.Buf, Start(r), Start(r)) = <<>>
      BY <3>1, <3>3, TiledEmpty, FramesEmpty
    <3>5. RingOK(D, r)
      <4>1. CapOK(r)
        <5>1. b.cap # 0
          BY <1>3, <1>4, <2>1, <3>1 DEF CapOK
        <5> QED
          BY <1>3, <3>1, <3>2, <5>1 DEF CapOK
      <4> QED
        BY <1>3, <1>4, <2>2, <3>1, <3>2, <3>3, <3>4, <4>1 DEF RingOK
    <3>6. QueuedBut(D, r) = <<>>
      BY <3>2, <3>3, <3>4 DEF QueuedBut, Start
    <3>7. QueuedBut(D, b0) = FramesBut(D, b.Buf, b.Sent, end) \o QueuedBut(D, r)
      <4>1. QueuedBut(D, b0) = FramesBut(D, b.Buf, b.Sent, end)
        BY <1>1, <3>1 DEF ReadyQueue
      <4> QED
        BY <2>4, <3>6, <4>1, ConcatEmptySeq
    <3>8. Taken(D, r, res.slice)
      <4> HIDE DEF grant
      <4> QED
        BY <2>2, <2>5, <2>7, <3>2 DEF Taken
    <3> QED
      BY <2>6, <3>2, <3>5, <3>7, <3>8 DEF r
  <2>8. CASE ~grant
    <3> HIDE DEF r, grant
    <3>1. /\ r.Buf = b.Buf /\ r.Sent = b.Sent /\ r.SendEnd = end /\ r.Write = b.Write
          /\ r.TailEnd = b.TailEnd /\ r.pendingGap = 0 /\ r.cap = b.cap /\ r \in Ring
      <4>1. end \in 0 .. MaxCap
        BY <1>4, <2>2
      <4> QED
        BY <1>3, <2>5, <2>8, <4>1 DEF Ring
    <3>2. Start(r) = end
      BY <2>2, <3>1 DEF Start
    <3>3. RingOK(D, r)
      <4>1. CapOK(r)
        BY <1>3, <3>1 DEF CapOK
      <4>2. b.TailEnd = 0 => limit = b.Write
        BY <1>4
      <4>3. b.TailEnd # 0 => limit = b.TailEnd
        BY <1>4
      <4>4. b.Sent <= end
        BY <1>4, <2>2
      <4> HIDE DEF limit
      <4> QED
        BY <1>3, <2>2, <3>1, <3>2, <4>1, <4>2, <4>3, <4>4 DEF RingOK
    <3>4. QueuedBut(D, b0) = FramesBut(D, b.Buf, b.Sent, end) \o QueuedBut(D, r)
      <4>1. CASE b.TailEnd = 0
        <5>1. QueuedBut(D, b0) = FramesBut(D, b.Buf, b.Sent, b.Write) /\ limit = b.Write
          BY <1>1, <1>4, <4>1 DEF ReadyQueue
        <5>2. QueuedBut(D, r) = FramesBut(D, b.Buf, end, b.Write)
          BY <3>1, <3>2, <4>1 DEF QueuedBut, Start
        <5> HIDE DEF limit
        <5> QED
          BY <2>3, <5>1, <5>2
      <4>2. CASE b.TailEnd # 0
        <5> DEFINE low == FramesBut(D, b.Buf, Prefix, b.Write)
        <5>1. QueuedBut(D, b0) = FramesBut(D, b.Buf, b.Sent, b.TailEnd) \o low /\ limit = b.TailEnd
          BY <1>1, <1>4, <4>2 DEF ReadyQueue
        <5>2. QueuedBut(D, r) = FramesBut(D, b.Buf, end, b.TailEnd) \o low
          BY <3>1, <3>2, <4>2 DEF QueuedBut, Start
        <5>3. low \in Seq(Storable)
          BY <1>3, <1>4, <4>2, FramesTyped
        <5> DEFINE x == FramesBut(D, b.Buf, b.Sent, end)
                   y == FramesBut(D, b.Buf, end, limit)
        <5>4. QueuedBut(D, b0) = (x \o y) \o low /\ QueuedBut(D, r) = y \o low
          BY <2>3, <5>1, <5>2
        <5>5. x \in Seq(Storable) /\ y \in Seq(Storable)
          BY <2>4
        <5> HIDE DEF limit, low, x, y
        <5>6. (x \o y) \o low = x \o (y \o low)
          BY <5>3, <5>5, ConcatAssociative
        <5>7. QueuedBut(D, b0) = x \o QueuedBut(D, r)
          BY <5>4, <5>6, Zenon
        <5> QED
          BY <5>7 DEF x
      <4> QED
        BY <4>1, <4>2
    <3>5. Taken(D, r, res.slice)
      BY <2>2, <2>5, <2>8, <3>1 DEF Taken
    <3> QED
      BY <1>1, <2>6, <3>1, <3>3, <3>4, <3>5 DEF r
  <2> QED
    BY <2>7, <2>8
<1> QED
  BY <1>5, <1>6

-----------------------------------------------------------------------------
(* Header and trailer of a batch damage nothing but the last k cells of    *)
(* the lower part, if the bytes before the batch reach no further into it. *)
LEMMA WrapCells ==
  ASSUME NEW D \in Nat, NEW buf, NEW s, s # NoSlice, s.from \in Nat, s.to \in Nat, s.suffix \in Nat,
         Prefix <= s.from, NEW lo \in Nat, NEW hi \in 0 .. MaxCap, Tiled(D, buf, lo, hi),
         hi <= s.from - Prefix \/ s.from <= lo,
         hi <= s.to \/ s.to + s.suffix <= lo
  PROVE  Tiled(D, Wrap(buf, s), lo, hi) /\ FramesBut(D, Wrap(buf, s), lo, hi) = FramesBut(D, buf, lo, hi)
<1> DEFINE h == Fill(buf, s.from - Prefix, s.from, Header)
           w == Fill(h, s.to, s.to + s.suffix, Trailer)
<1>1. Wrap(buf, s) = w
  BY DEF Wrap
<1>2. s.from - Prefix \in Nat /\ s.to + s.suffix \in Nat
  BY Sizes0
<1>3. Tiled(D, h, lo, hi) /\ FramesBut(D, h, lo, hi) = FramesBut(D, buf, lo, hi)
  BY <1>2, FillKeeps
<1> HIDE DEF h
<1>4. Tiled(D, w, lo, hi) /\ FramesBut(D, w, lo, hi) = FramesBut(D, h, lo, hi)
  BY <1>2, <1>3, FillKeeps
<1> QED
  BY <1>1, <1>3, <1>4

LEMMA WrapTyped ==
  ASSUME NEW s, NEW buf \in [0 .. MaxCap - 1 -> Frame \cup {Free, Header, Trailer}]
  PROVE  Wrap(buf, s) \in [0 .. MaxCap - 1 -> Frame \cup {Free, Header, Trailer}]
BY DEF Wrap, Fill

Wrapped(b, s) == [b EXCEPT !.Buf = Wrap(b.Buf, s)]

LEMMA WrapRing ==
  ASSUME NEW D \in Nat, NEW b, RingOK(D, b), NEW s, Taken(D, b, s), NEW w, w = Wrapped(b, s),
         NEW k \in 0 .. D, Shorter(k),
         b.TailEnd # 0 => b.Write = Prefix \/ b.Write + Prefix <= b.Sent + k
  PROVE  /\ RingOK(D, w) /\ QueuedBut(D, w) = QueuedBut(D, b) /\ Taken(D, w, s)
         /\ w.Sent = b.Sent /\ w.SendEnd = b.SendEnd /\ w.pendingGap = b.pendingGap
         /\ w.Write = b.Write /\ w.TailEnd = b.TailEnd /\ w.cap = b.cap
         /\ FramesBut(D, w.Buf, b.Sent, b.SendEnd) = FramesBut(D, b.Buf, b.Sent, b.SendEnd)
<1> DEFINE buf2 == Wrap(b.Buf, s)
<1>1. b \in Ring /\ CapOK(b)
  BY DEF RingOK
<1>2. /\ b.Write \in Nat /\ b.Sent \in Nat /\ b.SendEnd \in Nat /\ b.TailEnd \in Nat
      /\ Start(b) \in Nat /\ Start(b) = b.SendEnd + b.pendingGap /\ b.pendingGap \in Nat
      /\ Prefix \in Nat /\ MaxCap \in Nat /\ b.SendEnd <= MaxCap
      /\ b.Write <= MaxCap /\ b.TailEnd <= MaxCap
  BY <1>1, RingFacts, Sizes0 DEF Start
<1>3. /\ Prefix <= b.Sent /\ b.Sent <= b.SendEnd /\ Prefix <= b.Write
      /\ b.TailEnd = 0 => Start(b) <= b.Write
      /\ b.TailEnd # 0 => Start(b) <= b.TailEnd /\ b.Write <= b.Sent
  BY DEF RingOK
<1>4. /\ s.from = b.Sent /\ s.to = b.SendEnd /\ s.suffix = b.pendingGap
      /\ s # NoSlice
  BY <1>2 DEF Taken, NoSlice
<1>5. /\ w.Buf = buf2 /\ w.Sent = b.Sent /\ w.SendEnd = b.SendEnd
      /\ w.pendingGap = b.pendingGap /\ w.Write = b.Write /\ w.TailEnd = b.TailEnd
      /\ w.cap = b.cap /\ w \in Ring /\ Start(w) = Start(b)
  <2>1. buf2 \in [0 .. MaxCap - 1 -> Frame \cup {Free, Header, Trailer}]
    BY <1>1, RingFacts, WrapTyped
  <2> HIDE DEF buf2
  <2>2. w = [b EXCEPT !.Buf = buf2]
    BY DEF buf2, Wrapped
  <2> QED
    BY <1>1, <2>1, <2>2 DEF Ring, Start
<1>6. ASSUME NEW lo \in Nat, NEW hi \in Nat, hi <= MaxCap, Tiled(D, b.Buf, lo, hi),
             hi <= b.Sent - Prefix \/ b.Sent <= lo,
             hi <= b.SendEnd \/ Start(b) <= lo
      PROVE  Tiled(D, buf2, lo, hi) /\ FramesBut(D, buf2, lo, hi) = FramesBut(D, b.Buf, lo, hi)
  <2>1. hi \in 0 .. MaxCap
    BY <1>2, <1>6
  <2>2. hi <= s.from - Prefix \/ s.from <= lo
    BY <1>4, <1>6
  <2>3. hi <= s.to \/ s.to + s.suffix <= lo
    BY <1>2, <1>4, <1>6
  <2>4. s.from \in Nat /\ s.to \in Nat /\ s.suffix \in Nat /\ Prefix <= s.from
    BY <1>2, <1>3, <1>4
  <2> QED
    BY <1>4, <1>6, <2>1, <2>2, <2>3, <2>4, WrapCells
<1> HIDE DEF buf2
<1>7. /\ Tiled(D, buf2, b.Sent, b.SendEnd)
      /\ FramesBut(D, buf2, b.Sent, b.SendEnd) = FramesBut(D, b.Buf, b.Sent, b.SendEnd)
  <2>1. Tiled(D, b.Buf, b.Sent, b.SendEnd)
    BY DEF Taken
  <2> QED
    BY <1>2, <1>6, <2>1
<1>8. Taken(D, w, s)
  BY <1>5, <1>7 DEF Taken
<1>9. CASE b.TailEnd = 0
  <2>1. Tiled(D, b.Buf, Start(b), b.Write)
    BY <1>9 DEF RingOK
  <2>2. b.Sent <= Start(b)
    BY <1>2, <1>3
  <2>3. /\ Tiled(D, buf2, Start(b), b.Write)
        /\ FramesBut(D, buf2, Start(b), b.Write) = FramesBut(D, b.Buf, Start(b), b.Write)
    BY <1>2, <1>6, <2>1, <2>2
  <2>4. RingOK(D, w)
    BY <1>1, <1>3, <1>5, <1>9, <2>3 DEF RingOK, CapOK
  <2>5. QueuedBut(D, w) = QueuedBut(D, b)
    BY <1>5, <1>9, <2>3 DEF QueuedBut, Start
  <2> QED
    BY <1>5, <1>7, <1>8, <2>4, <2>5
<1>10. CASE b.TailEnd # 0
  <2>1. Tiled(D, b.Buf, Start(b), b.TailEnd) /\ Tiled(D, b.Buf, Prefix, b.Write)
    BY <1>10 DEF RingOK
  <2>2. b.Sent <= Start(b)
    BY <1>2, <1>3
  <2>3. /\ Tiled(D, buf2, Start(b), b.TailEnd)
        /\ FramesBut(D, buf2, Start(b), b.TailEnd) = FramesBut(D, b.Buf, Start(b), b.TailEnd)
    BY <1>2, <1>6, <2>1, <2>2
  <2>4. /\ Tiled(D, buf2, Prefix, b.Write)
        /\ FramesBut(D, buf2, Prefix, b.Write) = FramesBut(D, b.Buf, Prefix, b.Write)
    <3>1. CASE b.Write = Prefix
      BY <1>2, <3>1, TiledEmpty, FramesEmpty
    <3>2. CASE b.Write # Prefix
      <4>1. ASSUME NEW i \in Prefix .. b.Write - 1 - k PROVE buf2[i] = b.Buf[i]
        <5>1. /\ i \in 0 .. MaxCap - 1 /\ i < b.Sent - Prefix /\ i < b.SendEnd
              /\ b.Sent - Prefix \in Nat /\ b.SendEnd + b.pendingGap \in Nat
          BY <1>2, <1>3, <1>10, <3>2
        <5> DEFINE h == Fill(b.Buf, b.Sent - Prefix, b.Sent, Header)
        <5>2. h[i] = b.Buf[i]
          BY <1>2, <5>1, FillCells
        <5>3. buf2 = Fill(h, b.SendEnd, b.SendEnd + b.pendingGap, Trailer)
          BY <1>4 DEF buf2, Wrap
        <5> HIDE DEF h
        <5> QED
          BY <1>2, <5>1, <5>2, <5>3, FillCells
      <4> QED
        BY <1>2, <2>1, <4>1, SameButLast
    <3> QED
      BY <3>1, <3>2
  <2>5. RingOK(D, w)
    BY <1>1, <1>3, <1>5, <1>10, <2>3, <2>4 DEF RingOK, CapOK
  <2>6. QueuedBut(D, w) = QueuedBut(D, b)
    BY <1>5, <1>10, <2>3, <2>4 DEF QueuedBut, Start
  <2> QED
    BY <1>5, <1>7, <1>8, <2>5, <2>6
<1> QED
  BY <1>9, <1>10

-----------------------------------------------------------------------------
(* PopReadFrame takes the first frame.                                     *)
LEMMA TiledRest ==
  ASSUME NEW D, NEW buf, NEW lo, NEW hi, lo # hi, Tiled(D, buf, lo, hi)
  PROVE  LET next == lo + Total[buf[lo]]
         IN /\ buf[lo] \in Storable /\ next \in Nat /\ lo < next /\ next <= hi
            /\ Tiled(D, buf, lo, next) /\ Tiled(D, buf, next, hi)
            /\ FramesBut(D, buf, lo, next) = <<buf[lo]>>
            /\ FramesBut(D, buf, lo, hi) = <<buf[lo]>> \o FramesBut(D, buf, next, hi)
<1> D \in Nat /\ lo \in Nat /\ hi \in Nat
  BY DEF Tiled
<1> DEFINE f == buf[lo]
           next == lo + Total[f]
<1>1. PICK S : Tiles(D, S, buf, lo, hi)
  BY DEF Tiled
<1>2. S \subseteq lo .. hi /\ lo \in S /\ hi \in S
  BY <1>1, TilesFacts
<1>3. f \in Storable /\ WholeBut(D, buf, lo, hi) /\ next \in S
  BY <1>1, <1>2 DEF Tiles
<1>4. next \in Nat /\ lo < next /\ next <= hi /\ lo \in 0 .. hi
  <2>1. Total[f] \in Nat \ {0}
    BY <1>3, StorableFacts
  <2>2. next \in lo .. hi
    BY <1>2, <1>3
  <2> HIDE DEF f
  <2> QED
    BY <2>1, <2>2
<1>5. Tiled(D, buf, lo, next) /\ Tiled(D, buf, next, hi)
  <2> HIDE DEF next
  <2> QED
    BY <1>1, <1>3, TiledSplit
<1>6. FramesBut(D, buf, lo, hi) = <<f>> \o FramesBut(D, buf, next, hi)
  BY <1>3, <1>4, FramesFirst
<1>7. FramesBut(D, buf, lo, next) = <<f>>
  <2>1. lo \in 0 .. next /\ lo # next /\ WholeBut(D, buf, lo, next)
    BY <1>3, <1>4 DEF WholeBut
  <2> QED
    BY <1>4, <2>1, FramesOne
<1> QED
  BY <1>3, <1>4, <1>5, <1>6, <1>7

Popped(res) == [res.b EXCEPT !.Buf = Fill(res.b.Buf, res.slice.from, res.slice.to, Free)]

PopKeeps(D, b0, s, w) ==
  /\ RingOK(D, w)
  /\ s = NoSlice => QueuedBut(D, b0) = <<>> /\ QueuedBut(D, w) = <<>>
  /\ s # NoSlice =>
       LET kept == Kept(b0.Buf, s)
       IN /\ s.from \in 0 .. MaxCap /\ s.to \in 0 .. MaxCap /\ s.from < s.to
          /\ MaxFramePayload > 0 => s.to - s.from <= MaxFramePayload
          /\ Tiled(D, kept, s.from, s.to)
          /\ QueuedBut(D, b0) = FramesBut(D, kept, s.from, s.to) \o QueuedBut(D, w)

LEMMA PopRing ==
  ASSUME NEW D \in Nat, NEW b0, RingOK(D, b0), NEW res, res = PopReadFrame(b0), NEW w, w = Popped(res)
  PROVE  PopKeeps(D, b0, res.slice, w)
<1> DEFINE b == Switch(Confirm(b0))
           f == b.Buf[b.Sent]
           end == b.Sent + Total[f]
           limit == IF b.TailEnd = 0 THEN b.Write ELSE b.TailEnd
<1>1. /\ Ready(D, b) /\ ReadyQueue(D, b) = QueuedBut(D, b0)
      /\ b.TailEnd = 0 => \A i \in b.Sent .. b.Write - 1 : b.Buf[i] \in Frame => b0.Buf[i] = b.Buf[i]
      /\ b.TailEnd # 0 => \A i \in b.Sent .. b.TailEnd - 1 : b.Buf[i] \in Frame => b0.Buf[i] = b.Buf[i]
  BY ConfirmRing
<1>2. res = IF b.TailEnd = 0 /\ b.Sent >= b.Write
          THEN [b |-> Rewind(b), slice |-> NoSlice]
          ELSE [b |-> [b EXCEPT !.Sent = end, !.SendEnd = end],
                slice |-> [from |-> b.Sent, to |-> end, suffix |-> 0]]
  BY Zenon DEF PopReadFrame
<1> HIDE DEF b
<1>3. /\ b \in Ring /\ CapOK(b) /\ b.pendingGap = 0 /\ Prefix <= b.Sent /\ Prefix <= b.Write
      /\ b.TailEnd = 0 => b.Sent <= b.Write
      /\ b.TailEnd # 0 => b.Write <= b.Sent /\ b.Sent < b.TailEnd /\ Tiled(D, b.Buf, Prefix, b.Write)
      /\ Tiled(D, b.Buf, b.Sent, limit)
      /\ \A i \in b.Sent .. limit - 1 : b.Buf[i] \in Frame => b0.Buf[i] = b.Buf[i]
  BY <1>1 DEF Ready
<1>4. /\ b.Sent \in Nat /\ b.Write \in Nat /\ b.TailEnd \in Nat /\ limit \in Nat
      /\ b.cap \in Nat /\ Prefix \in Nat /\ MaxCap \in Nat
      /\ b.Sent <= MaxCap /\ b.Write <= MaxCap /\ b.TailEnd <= MaxCap /\ limit <= MaxCap
  BY <1>3, RingFacts, Sizes0
<1>5. CASE b.TailEnd = 0 /\ b.Sent >= b.Write
  <2>1. res.b = Rewind(b) /\ res.slice = NoSlice /\ b.TailEnd = 0 /\ b.Sent = b.Write
    BY <1>2, <1>3, <1>4, <1>5
  <2>2. QueuedBut(D, b0) = <<>>
    BY <1>1, <1>4, <2>1, FramesEmpty DEF ReadyQueue
  <2> DEFINE r == Rewind(b)
  <2>3. /\ RingOK(D, r) /\ QueuedBut(D, r) = <<>> /\ r.Sent = Prefix /\ r.SendEnd = Prefix
        /\ r.pendingGap = 0 /\ r \in Ring
    BY <1>1, <2>1, RewindRing DEF RingOK
  <2> HIDE DEF r
  <2>4. Fill(r.Buf, 0, 0, Free) = r.Buf
    <3>1. r.Buf \in [0 .. MaxCap - 1 -> Frame \cup {Free, Header, Trailer}]
      BY <2>3, RingFacts
    <3>2. \A i \in 0 .. MaxCap - 1 : ~(0 <= i /\ i < 0)
      BY <1>4
    <3> QED
      BY <3>1, <3>2 DEF Fill
  <2>5. w = r
    <3>1. res.slice.from = 0 /\ res.slice.to = 0
      BY <2>1 DEF NoSlice
    <3>2. w = [r EXCEPT !.Buf = Fill(r.Buf, 0, 0, Free)]
      BY <2>1, <3>1 DEF r, Popped
    <3> QED
      BY <2>3, <2>4, <3>2 DEF Ring
  <2> QED
    BY <2>1, <2>2, <2>3, <2>5 DEF PopKeeps
<1>6. CASE ~(b.TailEnd = 0 /\ b.Sent >= b.Write)
  <2>1. b.Sent # limit
    BY <1>3, <1>4, <1>6
  <2>2. /\ f \in Storable /\ end \in Nat /\ b.Sent < end /\ end <= limit
        /\ Tiled(D, b.Buf, b.Sent, end) /\ Tiled(D, b.Buf, end, limit)
        /\ FramesBut(D, b.Buf, b.Sent, end) = <<f>>
        /\ FramesBut(D, b.Buf, b.Sent, limit) = <<f>> \o FramesBut(D, b.Buf, end, limit)
    <3>1. b.Sent # limit /\ Tiled(D, b.Buf, b.Sent, limit)
      BY <1>3, <2>1
    <3> DEFINE buf == b.Buf
               lo == b.Sent
    <3> HIDE DEF limit
    <3>2. LET next == lo + Total[buf[lo]]
          IN /\ buf[lo] \in Storable /\ next \in Nat /\ lo < next /\ next <= limit
             /\ Tiled(D, buf, lo, next) /\ Tiled(D, buf, next, limit)
             /\ FramesBut(D, buf, lo, next) = <<buf[lo]>>
             /\ FramesBut(D, buf, lo, limit) = <<buf[lo]>> \o FramesBut(D, buf, next, limit)
      <4> HIDE DEF buf, lo
      <4>1. lo # limit /\ Tiled(D, buf, lo, limit)
        BY <3>1 DEF buf, lo
      <4> HIDE DEF limit
      <4> QED
        BY <4>1, TiledRest
    <3> QED
      BY <3>2
  <2>3. MaxFramePayload > 0 => end - b.Sent <= MaxFramePayload
    <3>1. Total[f] \in Nat \ {0} /\ ~TooLarge(f)
      BY <2>2, StorableFacts DEF Storable
    <3>2. end - b.Sent = Total[f]
      BY <1>4, <3>1
    <3> HIDE DEF end, f
    <3> QED
      BY <3>1, <3>2, Sizes0 DEF TooLarge
  <2> HIDE DEF end, f
  <2>4. /\ res.b = [b EXCEPT !.Sent = end, !.SendEnd = end]
        /\ res.slice = [from |-> b.Sent, to |-> end, suffix |-> 0]
    BY <1>2, <1>6
  <2>5. res.slice # NoSlice /\ res.slice.from = b.Sent /\ res.slice.to = end
    <3>1. res.slice.suffix = 0 /\ NoSlice.suffix = -1
      BY <2>4 DEF NoSlice
    <3> QED
      BY <2>4, <3>1
  <2> DEFINE buf2 == Fill(b.Buf, b.Sent, end, Free)
             kept == Kept(b0.Buf, res.slice)
  <2>6. /\ w.Buf = buf2 /\ w.Sent = end /\ w.SendEnd = end /\ w.Write = b.Write
        /\ w.TailEnd = b.TailEnd /\ w.pendingGap = 0 /\ w.cap = b.cap /\ w \in Ring
    <3>1. buf2 \in [0 .. MaxCap - 1 -> Frame \cup {Free, Header, Trailer}]
      <4>1. b.Buf \in [0 .. MaxCap - 1 -> Frame \cup {Free, Header, Trailer}]
        BY <1>3, RingFacts
      <4> QED
        BY <4>1 DEF Fill
    <3>2. end \in 0 .. MaxCap
      BY <1>4, <2>2
    <3>3. w = [b EXCEPT !.Sent = end, !.SendEnd = end, !.Buf = buf2]
      <4>1. res.b.Buf = b.Buf
        BY <1>3, <2>4 DEF Ring
      <4>2. w = [res.b EXCEPT !.Buf = buf2]
        BY <2>5, <4>1 DEF Popped
      <4> HIDE DEF buf2
      <4> QED
        BY <2>4, <4>2
    <3> HIDE DEF buf2
    <3> QED
      BY <1>3, <3>1, <3>2, <3>3 DEF Ring
  <2>7. Start(w) = end
    BY <2>2, <2>6 DEF Start
  <2>8. /\ Tiled(D, buf2, end, limit) /\ FramesBut(D, buf2, end, limit) = FramesBut(D, b.Buf, end, limit)
    <3>1. limit \in 0 .. MaxCap
      BY <1>4
    <3> HIDE DEF limit
    <3> QED
      BY <1>4, <2>2, <3>1, FillKeeps
  <2>9. b.TailEnd # 0 => /\ Tiled(D, buf2, Prefix, b.Write)
                         /\ FramesBut(D, buf2, Prefix, b.Write) = FramesBut(D, b.Buf, Prefix, b.Write)
    <3>1. b.Write \in 0 .. MaxCap
      BY <1>4
    <3> QED
      BY <1>3, <1>4, <2>2, <3>1, FillKeeps
  <2>10. RingOK(D, w)
    <3>1. CapOK(w)
      BY <1>3, <2>6 DEF CapOK
    <3>2. Prefix <= end /\ (b.TailEnd # 0 => b.Write <= end)
      BY <1>3, <1>4, <2>2
    <3>3. (b.TailEnd = 0 => limit = b.Write) /\ (b.TailEnd # 0 => limit = b.TailEnd)
      OBVIOUS
    <3> HIDE DEF limit, buf2
    <3> QED
      BY <1>3, <2>2, <2>6, <2>7, <2>8, <2>9, <3>1, <3>2, <3>3 DEF RingOK
  <2>11. QueuedBut(D, b0) = <<f>> \o QueuedBut(D, w)
    <3>1. CASE b.TailEnd = 0
      <4>1. QueuedBut(D, b0) = FramesBut(D, b.Buf, b.Sent, b.Write) /\ limit = b.Write
        BY <1>1, <3>1 DEF ReadyQueue
      <4>2. QueuedBut(D, w) = FramesBut(D, buf2, end, b.Write)
        BY <2>6, <2>7, <3>1 DEF QueuedBut, Start
      <4> HIDE DEF limit, buf2
      <4> QED
        BY <2>2, <2>8, <4>1, <4>2
    <3>2. CASE b.TailEnd # 0
      <4> DEFINE low == FramesBut(D, b.Buf, Prefix, b.Write)
                 y == FramesBut(D, b.Buf, end, limit)
      <4>1. QueuedBut(D, b0) = FramesBut(D, b.Buf, b.Sent, b.TailEnd) \o low /\ limit = b.TailEnd
        BY <1>1, <3>2 DEF ReadyQueue
      <4>2. QueuedBut(D, w) = FramesBut(D, buf2, end, b.TailEnd) \o FramesBut(D, buf2, Prefix, b.Write)
        BY <2>6, <2>7, <3>2 DEF QueuedBut, Start
      <4>3. low \in Seq(Storable) /\ y \in Seq(Storable) /\ <<f>> \in Seq(Storable)
        <5>1. low \in Seq(Storable)
          BY <1>3, <1>4, <3>2, FramesTyped
        <5> HIDE DEF limit
        <5>2. y \in Seq(Storable)
          BY <1>4, <2>2, FramesTyped
        <5> QED
          BY <2>2, <5>1, <5>2
      <4> HIDE DEF limit, buf2
      <4>4. QueuedBut(D, b0) = (<<f>> \o y) \o low /\ QueuedBut(D, w) = y \o low
        BY <2>2, <2>8, <2>9, <3>2, <4>1, <4>2
      <4> HIDE DEF low, y
      <4>5. (<<f>> \o y) \o low = <<f>> \o (y \o low)
        BY <4>3, ConcatAssociative
      <4> QED
        BY <4>4, <4>5, Zenon
    <3> QED
      BY <3>1, <3>2
  <2>12. /\ Tiled(D, kept, b.Sent, end) /\ FramesBut(D, kept, b.Sent, end) = <<f>>
    <3>1. ASSUME NEW i \in b.Sent .. end - 1, b.Buf[i] \in Frame PROVE kept[i] = b.Buf[i]
      <4>1. i \in 0 .. MaxCap - 1 /\ b.Sent - Prefix <= i /\ i < end
        BY <1>3, <1>4, <2>2
      <4>2. kept[i] = b0.Buf[i]
        BY <2>5, <4>1 DEF Kept
      <4>3. i \in b.Sent .. limit - 1
        BY <1>4, <2>2
      <4> QED
        BY <1>3, <3>1, <4>2, <4>3
    <3>2. b.Sent \in Nat /\ end \in Nat /\ Tiled(D, b.Buf, b.Sent, end)
      BY <1>4, <2>2
    <3> HIDE DEF kept
    <3>3. Tiled(D, kept, b.Sent, end) /\ FramesBut(D, kept, b.Sent, end) = FramesBut(D, b.Buf, b.Sent, end)
      BY <3>1, <3>2, SameCells
    <3> QED
      BY <2>2, <3>3
  <2>13. b.Sent \in 0 .. MaxCap /\ end \in 0 .. MaxCap
    BY <1>4, <2>2
  <2> HIDE DEF limit, buf2
  <2> QED
    BY <2>2, <2>3, <2>5, <2>10, <2>11, <2>12, <2>13 DEF PopKeeps
<1> QED
  BY <1>5, <1>6

(* A slice that was handed out holds frames, in Buf or in the array that   *)
(* grow left to it (<<>>: still in Buf); and what it holds.                *)
SliceIn(D, b, s, a) ==
  s # NoSlice =>
    /\ s.from \in 0 .. MaxCap /\ s.to \in 0 .. MaxCap /\ s.from < s.to
    /\ MaxFramePayload > 0 => s.to - s.from <= MaxFramePayload
    /\ IF a = <<>> THEN Taken(D, b, s) ELSE Tiled(D, a, s.from, s.to)

Held(D, b, s, a) == FramesBut(D, IF a = <<>> THEN b.Buf ELSE a, s.from, s.to)

LEMMA NoSliceHeld == ASSUME NEW D \in Nat, NEW b, NEW a PROVE Held(D, b, NoSlice, a) = <<>>
<1>1. NoSlice.from = 0 /\ NoSlice.to = 0
  BY DEF NoSlice
<1> QED
  BY <1>1, FramesEmpty DEF Held

LEMMA KeptNotEmpty == ASSUME NEW buf, NEW s PROVE Kept(buf, s) # <<>>
<1>1. 0 \in DOMAIN Kept(buf, s)
  BY Sizes0 DEF Kept
<1>2. DOMAIN <<>> = {}
  OBVIOUS
<1> QED
  BY <1>1, <1>2

LEMMA KeptCells ==
  ASSUME NEW D \in Nat, NEW buf, NEW s, s.from \in 0 .. MaxCap, s.to \in 0 .. MaxCap,
         Tiled(D, buf, s.from, s.to)
  PROVE  /\ Tiled(D, Kept(buf, s), s.from, s.to)
         /\ FramesBut(D, Kept(buf, s), s.from, s.to) = FramesBut(D, buf, s.from, s.to)
<1>1. ASSUME NEW i \in s.from .. s.to - 1 PROVE Kept(buf, s)[i] = buf[i]
  <2>1. i \in 0 .. MaxCap - 1 /\ s.from - Prefix <= i /\ i < s.to
    BY Sizes0
  <2> QED
    BY <2>1 DEF Kept
<1>2. s.from \in Nat /\ s.to \in Nat
  BY Sizes0
<1> QED
  BY <1>1, <1>2, SameCells

(* The batch is not touched by a frame that is stored meanwhile.           *)
LEMMA AllocSlice ==
  ASSUME NEW D, D \in Nat, NEW b, RingOK(D, b), NEW s, NEW a, SliceIn(D, b, s, a),
         NEW f \in Frame, CanAlloc(b, f), NEW b2, b2 = AllocFrame(b, f),
         NEW a2, a2 = IF a = <<>> /\ s # NoSlice /\ AllocGrows(b, f)
                      THEN Kept(b.Buf, s) ELSE a
  PROVE  SliceIn(D, b2, s, a2) /\ Held(D, b2, s, a2) = Held(D, b, s, a)
<1>1. /\ b2.pendingGap = b.pendingGap
      /\ ~AllocGrows(b, f) =>
           /\ b2.Sent = b.Sent /\ b2.SendEnd = b.SendEnd
           /\ \A i \in b.Sent .. Start(b) - 1 : b2.Buf[i] = b.Buf[i]
  BY AllocRing
<1>2. CASE s = NoSlice
  BY <1>2, NoSliceHeld DEF SliceIn
<1>3. CASE s # NoSlice /\ a # <<>>
  BY <1>3 DEF SliceIn, Held
<1>4. CASE s # NoSlice /\ a = <<>>
  <2>1. /\ s.from \in 0 .. MaxCap /\ s.to \in 0 .. MaxCap /\ s.from < s.to
        /\ MaxFramePayload > 0 => s.to - s.from <= MaxFramePayload
        /\ Taken(D, b, s)
    BY <1>4 DEF SliceIn
  <2>2. s.from = b.Sent /\ s.to = b.SendEnd /\ Tiled(D, b.Buf, s.from, s.to)
    BY <2>1 DEF Taken
  <2>3. Held(D, b, s, a) = FramesBut(D, b.Buf, s.from, s.to)
    BY <1>4 DEF Held
  <2>4. CASE AllocGrows(b, f)
    <3>1. a2 = Kept(b.Buf, s) /\ a2 # <<>>
      BY <1>4, <2>4, KeptNotEmpty
    <3>2. /\ Tiled(D, a2, s.from, s.to)
          /\ FramesBut(D, a2, s.from, s.to) = FramesBut(D, b.Buf, s.from, s.to)
      BY <2>1, <2>2, <3>1, KeptCells
    <3> QED
      BY <2>1, <2>3, <3>1, <3>2 DEF SliceIn, Held
  <2>5. CASE ~AllocGrows(b, f)
    <3>1. a2 = <<>>
      BY <1>4, <2>5
    <3>2. /\ b.Sent \in Nat /\ b.SendEnd \in Nat /\ b.pendingGap \in Nat
          /\ Start(b) = b.SendEnd + b.pendingGap
      BY RingFacts DEF RingOK, Start
    <3>3. \A i \in b.Sent .. b.SendEnd - 1 : b2.Buf[i] = b.Buf[i]
      <4>1. \A i \in b.Sent .. b.SendEnd - 1 : i \in b.Sent .. Start(b) - 1
        BY <3>2
      <4> QED
        BY <1>1, <2>5, <4>1
    <3>4. /\ Tiled(D, b2.Buf, b.Sent, b.SendEnd)
          /\ FramesBut(D, b2.Buf, b.Sent, b.SendEnd) = FramesBut(D, b.Buf, b.Sent, b.SendEnd)
      BY <2>2, <3>2, <3>3, SameCells
    <3>5. Taken(D, b2, s)
      BY <1>1, <2>1, <2>5, <3>4 DEF Taken
    <3> QED
      BY <2>1, <2>2, <2>3, <3>1, <3>4, <3>5 DEF SliceIn, Held
  <2> QED
    BY <2>4, <2>5
<1> QED
  BY <1>2, <1>3, <1>4

=============================================================================
