------------------------- MODULE HlsRangeStoreProofs --------------------------
(***************************************************************************)
(* The checkpoint of a resource is backed by its data file and comes from   *)
(* one representation, and no client meets an identity error without cause  *)
(* (HlsRangeStore), whatever the sizes, the origins and the readers are.     *)
(* First what the extent algorithms return, then the steps of the clients.  *)
(***************************************************************************)
EXTENDS HlsRangeStore, InductionFacts, TLAPS

Byte == {"x", "y"}
Data == Byte \cup {Hole}
Extent == [start : Nat, end : Nat, sha : Seq(Data)]

\* Extents are not empty, within the resource, in order and apart.
Ordered(q) ==
    /\ \A i \in DOMAIN q : q[i].start < q[i].end /\ q[i].end <= Total
    /\ \A i, j \in DOMAIN q : i < j => q[i].end <= q[j].start

\* The sizes are numbers.
LEMMA SizesAreNumbers ==
    /\ StartupChunk \in Nat \ {0} /\ ForegroundChunk \in Nat \ {0}
    /\ MinChunk \in Nat \ {0} /\ MaxChunk \in Nat \ {0}
    /\ MaxChunks \in Nat \ {0} /\ Total \in Nat \ {0}
BY StoreAssumption

\* The extents of a list, one by one.
LEMMA ListedExtents ==
    ASSUME NEW q \in Seq(Extent)
    PROVE  /\ Len(q) \in Nat /\ DOMAIN q = 1..Len(q)
           /\ \A i \in 1..Len(q) : q[i] \in Extent /\ q[i].start \in Nat /\ q[i].end \in Nat
<1>1. Len(q) \in Nat /\ DOMAIN q = 1..Len(q) /\ \A i \in 1..Len(q) : q[i] \in Extent
  OBVIOUS
<1>2. \A e \in Extent : e.start \in Nat /\ e.end \in Nat
  BY DEF Extent
<1> QED BY <1>1, <1>2

\* A byte is durable when an extent holds it.
LEMMA DurableBytes ==
    ASSUME NEW q \in Seq(Extent)
    PROVE  \A p : p \in Durable(q) <=> p \in Int /\ \E i \in DOMAIN q : q[i].start <= p /\ p < q[i].end
<1>1. \A i \in DOMAIN q : q[i].start \in Nat /\ q[i].end \in Nat
  BY ListedExtents
<1>2. \A i \in DOMAIN q : Bytes(RangeOf(q[i])) = q[i].start .. (q[i].end - 1)
  BY DEF Bytes, RangeOf
<1>3. ASSUME NEW p, NEW i \in DOMAIN q
      PROVE p \in Bytes(RangeOf(q[i])) <=> p \in Int /\ q[i].start <= p /\ p < q[i].end
  <2>1. p \in Bytes(RangeOf(q[i])) <=> p \in q[i].start .. (q[i].end - 1)
    BY <1>2
  <2> QED BY <1>1, <2>1
<1> QED BY <1>3 DEF Durable

-----------------------------------------------------------------------------
(* Coverage.                                                                *)

\* Where the cursor is after an extent.
Passed(cursor, e) == IF e.start > cursor THEN cursor ELSE AtLeast(cursor, e.end)

\* The cursor of range_is_covered, extent by extent.
LEMMA ReachUnfolds ==
    ASSUME NEW q \in Seq(Extent), NEW start \in Nat
    PROVE  \E f \in [0..Len(q) -> Nat] :
              /\ f[0] = start
              /\ \A i \in 1..Len(q) : f[i] = Passed(f[i - 1], q[i])
              /\ Reach(q, start) = f[Len(q)]
<1> DEFINE n == Len(q)
           step == [p \in (1..n) \X Nat |-> Passed(p[2], q[p[1]])]
           Chain(f) == [i \in 0..n |-> IF i = 0 THEN start
                                       ELSE IF q[i].start > f[i - 1] THEN f[i - 1]
                                       ELSE AtLeast(f[i - 1], q[i].end)]
<1>1. n \in Nat /\ \A i \in 1..n : q[i].start \in Nat /\ q[i].end \in Nat
  BY ListedExtents
<1>2. step \in Successors(n, Nat)
  <2>1. ASSUME NEW x \in Nat, NEW i \in 1..n PROVE Passed(x, q[i]) \in Nat
    BY <1>1 DEF Passed, AtLeast
  <2> QED BY <2>1 DEF Successors
<1>3. PICK g \in [0..n -> Nat] : g[0] = start /\ \A i \in 1..n : g[i] = step[<<i, g[i - 1]>>]
  <2> HIDE DEF n, step
  <2>1. Iterable(n, Nat, start, step)
    BY <1>1, <1>2, RecursionExists
  <2> QED BY <2>1 DEF Iterable, Iterates
<1>4. ASSUME NEW i \in 1..n PROVE i - 1 \in 0..n /\ g[i - 1] \in Nat /\ g[i] = Passed(g[i - 1], q[i])
  <2>1. i - 1 \in 0..n /\ g[i - 1] \in Nat
    <3> HIDE DEF n, step
    <3>1. i - 1 \in 0..n
      BY <1>1
    <3> QED BY <1>3, <3>1
  <2>2. step[<<i, g[i - 1]>>] = Passed(g[i - 1], q[i])
    <3> DEFINE x == g[i - 1]
               p == <<i, x>>
    <3>1. p \in (1..n) \X Nat /\ p[1] = i /\ p[2] = x
      BY <2>1
    <3>2. step[p] = Passed(p[2], q[p[1]])
      BY <3>1
    <3> HIDE DEF step
    <3> QED BY <3>1, <3>2
  <2> QED BY <1>3, <2>1, <2>2
<1>5. g = Chain(g)
  <2>1. \A i \in 0..n : i # 0 => i \in 1..n
    BY <1>1
  <2> HIDE DEF step, n
  <2>2. \A i \in 0..n : g[i] = Chain(g)[i]
    BY <1>3, <1>4, <2>1 DEF Passed
  <2> QED BY <2>2
<1> DEFINE cursor == CHOOSE f : f = Chain(f)
<1>6. cursor = Chain(cursor)
  <2> HIDE DEF Chain
  <2> QED BY <1>5
<1>7. Reach(q, start) = cursor[n]
  BY DEF Reach
<1> HIDE DEF cursor, step
<1>8. \A m \in 0..n : cursor[m] = g[m]
  <2> DEFINE T == {m \in 0..n : cursor[m] = g[m]}
  <2>1. 0 \in T
    BY <1>1, <1>3, <1>6
  <2>2. ASSUME NEW m \in 0..(n - 1), m \in T PROVE m + 1 \in T
    <3>1. m + 1 \in 1..n /\ m + 1 \in 0..n /\ (m + 1) - 1 = m /\ m + 1 # 0
      BY <1>1
    <3>2. cursor[m + 1] = Passed(cursor[m], q[m + 1])
      BY <1>6, <3>1 DEF Passed
    <3>3. g[m + 1] = Passed(g[m], q[m + 1])
      BY <1>4, <3>1
    <3> QED BY <2>2, <3>1, <3>2, <3>3
  <2> HIDE DEF T, n
  <2>3. \A m \in 0..n : m \in T
    BY <1>1, <2>1, <2>2, InductionUpTo
  <2> QED BY <2>3 DEF T
<1>9. n \in 0..n
  BY <1>1
<1> QED BY <1>3, <1>4, <1>7, <1>8, <1>9

\* range_is_covered answers whether every byte of the range is durable.
LEMMA CoverageIsExact ==
    ASSUME NEW q \in Seq(Extent), Ordered(q), NEW r \in Nat \X Nat
    PROVE  RangeIsCovered(q, r) <=> r[1] < r[2] /\ Bytes(r) \subseteq Durable(q)
<1> DEFINE n == Len(q)
<1>1. PICK f \in [0..n -> Nat] : /\ f[0] = r[1]
                                 /\ \A i \in 1..n : f[i] = Passed(f[i - 1], q[i])
                                 /\ Reach(q, r[1]) = f[n]
  <2>1. r[1] \in Nat
    OBVIOUS
  <2> QED BY <2>1, ReachUnfolds
<1>2. /\ n \in Nat /\ DOMAIN q = 1..n
      /\ \A i \in 1..n : q[i].start \in Nat /\ q[i].end \in Nat
      /\ \A i, j \in 1..n : i < j => q[i].end <= q[j].start
  BY ListedExtents DEF Ordered
<1> DEFINE Behind(i) == /\ r[1] <= f[i]
                        /\ \A p \in r[1]..(f[i] - 1) : p \in Durable(q)
                        /\ \A j \in 1..i : q[j].start <= f[i] => q[j].end <= f[i]
           T == {i \in 0..n : Behind(i)}
<1>3. 0 \in T
  BY <1>1, <1>2
<1>4. ASSUME NEW m \in 0..(n - 1), m \in T PROVE m + 1 \in T
  <2>1. /\ m + 1 \in 1..n /\ m + 1 \in 0..n /\ m \in 0..n /\ m \in Nat
        /\ \A j \in 1..(m + 1) : j \in 1..n /\ (j \in 1..m \/ j = m + 1)
    BY <1>2
  <2> DEFINE e == q[m + 1]
             a == f[m]
             b == f[m + 1]
  <2>2. a \in Nat /\ b \in Nat /\ e.start \in Nat /\ e.end \in Nat /\ r[1] \in Nat
    BY <1>2, <2>1
  <2>3. b = Passed(a, e)
    <3>1. f[m + 1] = Passed(f[(m + 1) - 1], q[m + 1]) /\ (m + 1) - 1 = m
      BY <1>1, <2>1
    <3> QED BY <3>1
  <2>4. Behind(m)
    BY <1>4
  <2>5. \A j \in 1..m : q[j].end <= e.start /\ j \in 1..n
    BY <1>2, <2>1
  <2>6. \A p \in Int : e.start <= p /\ p < e.end => p \in Durable(q)
    BY <1>2, <2>1, DurableBytes
  <2> HIDE DEF e, a, b
  <2>7. CASE e.start > a
    <3>1. b = a
      BY <2>3, <2>7 DEF Passed
    <3>2. \A j \in 1..(m + 1) : q[j].start <= b => q[j].end <= b
      BY SMTT(30), <2>1, <2>2, <2>4, <2>7, <3>1 DEF a, e
    <3> QED BY <2>1, <2>4, <3>1, <3>2 DEF a, b
  <2>8. CASE e.start <= a
    <3>1. b = AtLeast(a, e.end) /\ a <= b /\ e.end <= b /\ (b = a \/ b = e.end)
      BY SMTT(30), <2>2, <2>3, <2>8 DEF Passed, AtLeast
    <3>2. \A j \in 1..(m + 1) : q[j].end <= b
      <4>1. ASSUME NEW j \in 1..m PROVE q[j].end <= b
        <5>1. q[j].end <= e.start /\ q[j].end \in Nat
          BY <1>2, <2>5
        <5> QED BY <2>2, <2>8, <3>1, <5>1
      <4>2. q[m + 1].end <= b
        BY <3>1 DEF e
      <4> QED BY <2>1, <4>1, <4>2
    <3>3. ASSUME NEW p \in r[1]..(b - 1) PROVE p \in Durable(q)
      <4>1. p \in Int /\ r[1] <= p /\ p < b
        BY <2>2
      <4>2. CASE p < a
        BY <2>2, <2>4, <4>1, <4>2 DEF a
      <4>3. CASE a <= p
        BY SMTT(30), <2>2, <2>6, <2>8, <3>1, <4>1, <4>3
      <4> QED BY <2>2, <4>1, <4>2, <4>3
    <3>4. r[1] <= b
      BY <2>2, <2>4, <3>1 DEF a
    <3> QED BY <2>1, <3>2, <3>3, <3>4 DEF b
  <2> QED BY <2>2, <2>7, <2>8
<1>5. Behind(n)
  <2> HIDE DEF T, n
  <2>1. \A i \in 0..n : i \in T
    BY <1>2, <1>3, <1>4, InductionUpTo
  <2>2. n \in 0..n
    BY <1>2
  <2> QED BY <2>1, <2>2 DEF T
<1>6. f[n] \in Nat /\ r[1] \in Nat /\ r[2] \in Nat
  BY <1>2
<1>7. Bytes(r) = r[1] .. (r[2] - 1)
  BY DEF Bytes
<1>8. ASSUME f[n] >= r[2] PROVE Bytes(r) \subseteq Durable(q)
  BY <1>5, <1>6, <1>7, <1>8
<1>9. ASSUME r[1] < r[2], f[n] < r[2], Bytes(r) \subseteq Durable(q) PROVE FALSE
  <2>1. f[n] \in Durable(q)
    BY <1>5, <1>6, <1>7, <1>9
  <2>2. PICK i \in 1..n : q[i].start <= f[n] /\ f[n] < q[i].end
    BY <1>2, <2>1, DurableBytes
  <2> QED BY <1>2, <1>5, <1>6, <2>2
<1>10. RangeIsCovered(q, r) <=> r[1] < r[2] /\ f[n] >= r[2]
  BY <1>1 DEF RangeIsCovered
<1>11. f[n] >= r[2] \/ f[n] < r[2]
  BY <1>6
<1> QED BY <1>8, <1>9, <1>10, <1>11

-----------------------------------------------------------------------------
(* Gaps.                                                                    *)

Pair == Nat \X Nat
Scan == [gaps : Seq(Pair), cursor : Nat]

\* One more extent keeps the scan a scan.
LEMMA ScannedIsScan ==
    ASSUME NEW acc \in Scan, NEW e \in Extent, NEW r \in Pair
    PROVE  Scanned(acc, e, r) \in Scan
<1>1. /\ acc.gaps \in Seq(Pair) /\ acc.cursor \in Nat /\ e.start \in Nat /\ e.end \in Nat
      /\ r[2] \in Nat
  BY DEF Scan, Extent, Pair
<1>2. AtMost(e.start, r[2]) \in Nat /\ AtLeast(acc.cursor, AtMost(e.end, r[2])) \in Nat
  BY <1>1 DEF AtMost, AtLeast
<1>3. <<acc.cursor, AtMost(e.start, r[2])>> \in Pair
  BY <1>1, <1>2 DEF Pair
<1>4. Append(acc.gaps, <<acc.cursor, AtMost(e.start, r[2])>>) \in Seq(Pair)
  BY <1>1, <1>3, AppendProperties
<1> QED BY <1>1, <1>2, <1>4 DEF Scanned, Scan

\* The scan of missing_ranges_within, extent by extent.
LEMMA ScanUnfolds ==
    ASSUME NEW q \in Seq(Extent), NEW r \in Pair
    PROVE  \E f \in [0..Len(q) -> Scan] :
              /\ f[0] = [gaps |-> << >>, cursor |-> r[1]]
              /\ \A i \in 1..Len(q) : f[i] = Scanned(f[i - 1], q[i], r)
              /\ MissingRangesWithin(q, r)
                   = IF r[1] >= r[2] THEN << >>
                     ELSE IF f[Len(q)].cursor < r[2]
                          THEN Append(f[Len(q)].gaps, <<f[Len(q)].cursor, r[2]>>)
                          ELSE f[Len(q)].gaps
<1> DEFINE n == Len(q)
           none == [gaps |-> << >>, cursor |-> r[1]]
           step == [p \in (1..n) \X Scan |-> Scanned(p[2], q[p[1]], r)]
           Chain(f) == [i \in 0..n |-> IF i = 0 THEN [gaps |-> << >>, cursor |-> r[1]]
                                       ELSE Scanned(f[i - 1], q[i], r)]
<1>1. n \in Nat /\ \A i \in 1..n : q[i] \in Extent
  BY ListedExtents
<1>2. step \in Successors(n, Scan)
  <2>1. ASSUME NEW x \in Scan, NEW i \in 1..n PROVE Scanned(x, q[i], r) \in Scan
    BY <1>1, ScannedIsScan
  <2> QED BY <2>1 DEF Successors
<1>0. none \in Scan
  <2>1. r[1] \in Nat /\ << >> \in Seq(Pair)
    BY DEF Pair
  <2> QED BY <2>1 DEF Scan
<1>3. PICK g \in [0..n -> Scan] : g[0] = none /\ \A i \in 1..n : g[i] = step[<<i, g[i - 1]>>]
  <2> HIDE DEF n, step, none
  <2>1. Iterable(n, Scan, none, step)
    BY <1>0, <1>1, <1>2, RecursionExists
  <2> QED BY <2>1 DEF Iterable, Iterates
<1>4. ASSUME NEW i \in 1..n
      PROVE i - 1 \in 0..n /\ g[i - 1] \in Scan /\ g[i] = Scanned(g[i - 1], q[i], r)
  <2>1. i - 1 \in 0..n /\ g[i - 1] \in Scan
    BY <1>1
  <2>2. step[<<i, g[i - 1]>>] = Scanned(g[i - 1], q[i], r)
    BY <2>1
  <2> QED BY <1>3, <2>1, <2>2
<1>5. g = Chain(g)
  <2>1. \A i \in 0..n : i # 0 => i \in 1..n
    BY <1>1
  <2> HIDE DEF step, n
  <2>2. \A i \in 0..n : g[i] = Chain(g)[i]
    BY <1>3, <1>4, <2>1
  <2> QED BY <2>2
<1> DEFINE scan == CHOOSE f : f = Chain(f)
<1>6. scan = Chain(scan)
  <2> HIDE DEF Chain
  <2> QED BY <1>5
<1>7. MissingRangesWithin(q, r)
         = IF r[1] >= r[2] THEN << >>
           ELSE IF scan[n].cursor < r[2] THEN Append(scan[n].gaps, <<scan[n].cursor, r[2]>>)
           ELSE scan[n].gaps
  BY DEF MissingRangesWithin
<1> HIDE DEF scan, step
<1>8. \A m \in 0..n : scan[m] = g[m]
  <2> DEFINE T == {m \in 0..n : scan[m] = g[m]}
  <2>1. 0 \in T
    BY <1>1, <1>3, <1>6
  <2>2. ASSUME NEW m \in 0..(n - 1), m \in T PROVE m + 1 \in T
    <3>1. m + 1 \in 1..n /\ m + 1 \in 0..n /\ (m + 1) - 1 = m /\ m + 1 # 0
      BY <1>1
    <3>2. scan[m + 1] = Scanned(scan[m], q[m + 1], r)
      BY <1>6, <3>1
    <3>3. g[m + 1] = Scanned(g[m], q[m + 1], r)
      BY <1>4, <3>1
    <3> QED BY <2>2, <3>1, <3>2, <3>3
  <2> HIDE DEF T, n
  <2>3. \A m \in 0..n : m \in T
    BY <1>1, <2>1, <2>2, InductionUpTo
  <2> QED BY <2>3 DEF T
<1>9. n \in 0..n
  BY <1>1
<1> QED BY <1>3, <1>4, <1>7, <1>8, <1>9

\* The gaps found so far: in order, between from and to, and free of durable bytes.
GapsIn(gaps, from, to, q) ==
    /\ \A k \in DOMAIN gaps : from <= gaps[k][1] /\ gaps[k][1] < gaps[k][2] /\ gaps[k][2] <= to
    /\ \A k, l \in DOMAIN gaps : k < l => gaps[k][2] <= gaps[l][1]
    /\ \A p \in from..(to - 1) :
          p \in Durable(q) <=> ~\E k \in DOMAIN gaps : gaps[k][1] <= p /\ p < gaps[k][2]

\* A gap behind the others.
LEMMA AppendGap ==
    ASSUME NEW q, NEW gaps \in Seq(Pair), NEW from \in Nat, NEW a \in Nat, NEW b \in Nat,
           GapsIn(gaps, from, a, q), from <= a, a < b, \A p \in a..(b - 1) : p \notin Durable(q)
    PROVE  /\ Append(gaps, <<a, b>>) \in Seq(Pair)
           /\ GapsIn(Append(gaps, <<a, b>>), from, b, q)
<1> DEFINE g == Append(gaps, <<a, b>>)
           n == Len(gaps)
<1>1. /\ n \in Nat /\ DOMAIN gaps = 1..n
      /\ \A k \in 1..n : gaps[k] \in Pair
  OBVIOUS
<1>2. \A x \in Pair : x[1] \in Nat /\ x[2] \in Nat
  BY DEF Pair
<1>3. <<a, b>> \in Pair /\ <<a, b>>[1] = a /\ <<a, b>>[2] = b
  BY DEF Pair
<1>4. /\ g \in Seq(Pair) /\ DOMAIN g = 1..(n + 1)
      /\ \A k \in 1..n : g[k] = gaps[k]
      /\ g[n + 1] = <<a, b>>
  BY <1>1, <1>3, AppendProperties
<1>5. \A k \in 1..(n + 1) : k \in 1..n \/ k = n + 1
  BY <1>1
<1>6. n + 1 \in 1..(n + 1) /\ \A k \in 1..n : k \in 1..(n + 1)
  BY <1>1
<1>7. \A k \in 1..n : gaps[k][1] \in Nat /\ gaps[k][2] \in Nat
  BY <1>1, <1>2
<1> HIDE DEF g, n
<1>8. \A k \in 1..n : from <= gaps[k][1] /\ gaps[k][1] < gaps[k][2] /\ gaps[k][2] <= a
  BY <1>1 DEF GapsIn
<1>9. \A k \in 1..(n + 1) : from <= g[k][1] /\ g[k][1] < g[k][2] /\ g[k][2] <= b
  BY SMTT(30), <1>3, <1>4, <1>5, <1>7, <1>8
<1>10. \A k, l \in 1..(n + 1) : k < l => g[k][2] <= g[l][1]
  <2> TAKE k, l \in 1..(n + 1)
  <2> HAVE k < l
  <2>1. k \in 1..n
    BY <1>1, <1>5
  <2>2. CASE l \in 1..n
    BY <1>1, <1>4, <2>1, <2>2 DEF GapsIn
  <2>3. CASE l = n + 1
    BY <1>3, <1>4, <1>8, <2>1, <2>3
  <2> QED BY <1>5, <2>2, <2>3
<1>11. ASSUME NEW p \in from..(b - 1)
       PROVE p \in Durable(q) <=> ~\E k \in 1..(n + 1) : g[k][1] <= p /\ p < g[k][2]
  <2>1. p \in Int /\ from <= p /\ p < b
    OBVIOUS
  <2>2. CASE p < a
    <3>1. p \in from..(a - 1)
      BY <2>1, <2>2
    <3>2. p \in Durable(q) <=> ~\E k \in 1..n : gaps[k][1] <= p /\ p < gaps[k][2]
      BY <1>1, <3>1 DEF GapsIn
    <3>3. (\E k \in 1..(n + 1) : g[k][1] <= p /\ p < g[k][2])
             <=> \E k \in 1..n : gaps[k][1] <= p /\ p < gaps[k][2]
      BY SMTT(30), <1>3, <1>4, <1>5, <1>6, <2>1, <2>2
    <3> QED BY <3>2, <3>3
  <2>3. CASE a <= p
    <3>1. p \notin Durable(q)
      BY <2>1, <2>3
    <3>2. g[n + 1][1] <= p /\ p < g[n + 1][2]
      BY <1>3, <1>4, <2>1, <2>3
    <3> QED BY <1>6, <3>1, <3>2
  <2> QED BY <2>1, <2>2, <2>3
<1>12. GapsIn(g, from, b, q)
  BY <1>4, <1>9, <1>10, <1>11 DEF GapsIn
<1> QED BY <1>4, <1>12 DEF g

\* Durable bytes behind the gaps.
LEMMA PassDurable ==
    ASSUME NEW q, NEW gaps \in Seq(Pair), NEW from \in Nat, NEW a \in Nat, NEW b \in Nat,
           GapsIn(gaps, from, a, q), from <= a, a <= b, \A p \in a..(b - 1) : p \in Durable(q)
    PROVE  GapsIn(gaps, from, b, q)
<1>1. \A k \in DOMAIN gaps : gaps[k] \in Pair
  OBVIOUS
<1>2. \A k \in DOMAIN gaps : gaps[k][1] \in Nat /\ gaps[k][2] \in Nat
  BY <1>1 DEF Pair
<1>3. \A k \in DOMAIN gaps : gaps[k][2] <= a /\ gaps[k][2] <= b
  BY <1>2 DEF GapsIn
<1>4. ASSUME NEW p \in from..(b - 1)
      PROVE p \in Durable(q) <=> ~\E k \in DOMAIN gaps : gaps[k][1] <= p /\ p < gaps[k][2]
  <2>1. CASE p < a
    BY <2>1 DEF GapsIn
  <2>2. CASE a <= p
    BY SMTT(30), <1>2, <1>3, <2>2
  <2> QED BY <2>1, <2>2
<1> QED BY <1>3, <1>4 DEF GapsIn

\* One more extent: the scan stays exact up to its cursor.
LEMMA ScannedIsExact ==
    ASSUME NEW q \in Seq(Extent), Ordered(q), NEW r \in Pair, r[1] < r[2],
           NEW i \in DOMAIN q, NEW acc \in Scan,
           r[1] <= acc.cursor, acc.cursor <= r[2], GapsIn(acc.gaps, r[1], acc.cursor, q),
           \A j \in DOMAIN q : j < i => q[j].end <= acc.cursor \/ acc.cursor = r[2] \/ q[j].start >= r[2],
           NEW next, next = Scanned(acc, q[i], r)
    PROVE  /\ r[1] <= next.cursor /\ next.cursor <= r[2]
           /\ GapsIn(next.gaps, r[1], next.cursor, q)
           /\ \A j \in DOMAIN q : j <= i => q[j].end <= next.cursor \/ next.cursor = r[2] \/ q[j].start >= r[2]
<1> DEFINE e == q[i]
           a == acc.cursor
           b == AtMost(e.end, r[2])
<1>1. /\ Len(q) \in Nat /\ DOMAIN q = 1..Len(q)
      /\ \A j \in DOMAIN q : q[j].start \in Nat /\ q[j].end \in Nat
      /\ \A j \in DOMAIN q : q[j].start < q[j].end
      /\ \A j, k \in DOMAIN q : j < k => q[j].end <= q[k].start
  BY ListedExtents DEF Ordered
<1>2. /\ e.start \in Nat /\ e.end \in Nat /\ r[1] \in Nat /\ r[2] \in Nat /\ a \in Nat
      /\ e.start < e.end /\ i \in Int
      /\ acc.gaps \in Seq(Pair)
  BY <1>1 DEF Scan, Pair
<1>3. \A p : p \in Durable(q) <=> p \in Int /\ \E j \in DOMAIN q : q[j].start <= p /\ p < q[j].end
  BY DurableBytes
<1>4. \A j \in DOMAIN q : j \in Int /\ (j <= i => j < i \/ j = i)
  BY <1>1, <1>2
<1>5. CASE e.end <= a \/ e.start >= r[2] \/ a >= r[2]
  <2>1. next = acc
    BY <1>5 DEF Scanned
  <2>2. \A j \in DOMAIN q : j <= i => q[j].end <= a \/ a = r[2] \/ q[j].start >= r[2]
    BY <1>2, <1>4, <1>5
  <2> QED BY <2>1, <2>2
<1>6. CASE ~(e.end <= a \/ e.start >= r[2] \/ a >= r[2])
  <2>1. /\ a < e.end /\ e.start < r[2] /\ a < r[2]
        /\ b \in Nat /\ a < b /\ b <= r[2] /\ b <= e.end /\ e.start < b /\ (b = e.end \/ b = r[2])
    BY SMTT(30), <1>2, <1>6 DEF AtMost
  <2>2. AtLeast(a, b) = b /\ AtMost(e.start, r[2]) = e.start
    BY <1>2, <2>1 DEF AtLeast, AtMost
  <2>3. next = [gaps |-> IF a < e.start THEN Append(acc.gaps, <<a, e.start>>) ELSE acc.gaps,
                cursor |-> b]
    BY <1>6, <2>2 DEF Scanned
  <2>4. next.cursor = b
        /\ next.gaps = IF a < e.start THEN Append(acc.gaps, <<a, e.start>>) ELSE acc.gaps
    BY <2>3
  <2>5. ASSUME NEW j \in DOMAIN q, j < i PROVE q[j].end <= a
    <3>1. q[j].start < q[j].end /\ q[j].end <= e.start /\ q[j].start \in Nat /\ q[j].end \in Nat
      BY <1>1, <2>5
    <3>2. q[j].end <= a \/ a = r[2] \/ q[j].start >= r[2]
      BY <2>5
    <3> QED BY SMTT(30), <1>2, <2>1, <3>1, <3>2
  <2>6. ASSUME NEW p \in Int, e.start <= p, p < e.end PROVE p \in Durable(q)
    BY <1>3, <2>6
  <2>7. GapsIn(next.gaps, r[1], b, q)
    <3>1. CASE a < e.start
      <4>1. ASSUME NEW p \in a..(e.start - 1) PROVE p \notin Durable(q)
        <5>1. p \in Int /\ a <= p /\ p < e.start
          BY <1>2
        <5>2. ASSUME NEW j \in DOMAIN q, q[j].start <= p, p < q[j].end PROVE FALSE
          <6>1. CASE j < i
            BY SMTT(30), <1>1, <1>2, <2>5, <5>1, <5>2, <6>1
          <6>2. CASE j = i
            BY <1>2, <5>1, <5>2, <6>2
          <6>3. CASE j > i
            BY SMTT(30), <1>1, <1>2, <5>1, <5>2, <6>3
          <6> QED BY <1>2, <1>4, <6>1, <6>2, <6>3
        <5> QED BY <1>3, <5>2
      <4> DEFINE g == Append(acc.gaps, <<a, e.start>>)
                 from == r[1]
                 low == e.start
      <4> HIDE DEF a, b, e, from, low
      <4>2. g \in Seq(Pair) /\ GapsIn(g, from, low, q)
        BY <1>2, <3>1, <4>1, AppendGap DEF a, from, low
      <4>3. \A p \in low..(b - 1) : p \in Durable(q)
        BY SMTT(30), <1>2, <2>1, <2>6 DEF low
      <4>4. GapsIn(g, from, b, q)
        <5> HIDE DEF g
        <5>1. from \in Nat /\ low \in Nat /\ b \in Nat /\ from <= low /\ low <= b
          BY SMTT(30), <1>2, <2>1, <3>1 DEF from, low, a
        <5> QED BY <4>2, <4>3, <5>1, PassDurable
      <4> QED BY <2>4, <3>1, <4>4 DEF from, a, e
    <3>2. CASE ~(a < e.start)
      <4>1. \A p \in a..(b - 1) : p \in Durable(q)
        BY SMTT(30), <1>2, <2>1, <2>6, <3>2
      <4>2. GapsIn(acc.gaps, r[1], a, q) /\ r[1] <= a /\ a <= b
        BY <1>2, <2>1
      <4> DEFINE gaps == acc.gaps
                 from == r[1]
      <4>3. gaps \in Seq(Pair) /\ from \in Nat
        BY <1>2
      <4> HIDE DEF a, b, gaps, from
      <4>4. GapsIn(gaps, from, b, q)
        BY <1>2, <2>1, <4>1, <4>2, <4>3, PassDurable DEF gaps, from
      <4> QED BY <2>4, <3>2, <4>4 DEF gaps, from
    <3> QED BY <3>1, <3>2
  <2>8. \A j \in DOMAIN q : j <= i => q[j].end <= b \/ b = r[2] \/ q[j].start >= r[2]
    <3> TAKE j \in DOMAIN q
    <3> HAVE j <= i
    <3>1. CASE j < i
      BY SMTT(30), <1>1, <1>2, <2>1, <2>5, <3>1
    <3>2. CASE j = i
      BY <1>2, <2>1, <3>2
    <3> QED BY <1>4, <3>1, <3>2
  <2>9. r[1] <= b /\ b <= r[2]
    BY SMTT(30), <1>2, <2>1
  <2> QED BY <2>4, <2>7, <2>8, <2>9
<1> QED BY <1>5, <1>6

\* missing_ranges_within returns the missing bytes of the range, in order.
LEMMA GapsAreExact ==
    ASSUME NEW q \in Seq(Extent), Ordered(q), NEW r \in Pair, r[1] < r[2]
    PROVE  /\ MissingRangesWithin(q, r) \in Seq(Pair)
           /\ GapsIn(MissingRangesWithin(q, r), r[1], r[2], q)
<1> DEFINE n == Len(q)
           G == MissingRangesWithin(q, r)
<1>1. PICK f \in [0..n -> Scan] :
         /\ f[0] = [gaps |-> << >>, cursor |-> r[1]]
         /\ \A i \in 1..n : f[i] = Scanned(f[i - 1], q[i], r)
         /\ G = IF r[1] >= r[2] THEN << >>
                ELSE IF f[n].cursor < r[2] THEN Append(f[n].gaps, <<f[n].cursor, r[2]>>)
                ELSE f[n].gaps
  BY ScanUnfolds
<1>2. /\ n \in Nat /\ DOMAIN q = 1..n /\ r[1] \in Nat /\ r[2] \in Nat
      /\ \A i \in 1..n : q[i].start \in Nat /\ q[i].end \in Nat
  BY ListedExtents DEF Pair
<1> HIDE DEF n, G
<1> DEFINE Exact(i) == /\ r[1] <= f[i].cursor /\ f[i].cursor <= r[2]
                       /\ GapsIn(f[i].gaps, r[1], f[i].cursor, q)
                       /\ \A j \in DOMAIN q : j <= i => q[j].end <= f[i].cursor \/ f[i].cursor = r[2]
                                                        \/ q[j].start >= r[2]
           T == {i \in 0..n : Exact(i)}
<1>3. 0 \in T
  <2>1. f[0].gaps = << >> /\ f[0].cursor = r[1] /\ DOMAIN f[0].gaps = {}
    BY <1>1
  <2>2. GapsIn(f[0].gaps, r[1], r[1], q)
    BY <1>2, <2>1 DEF GapsIn
  <2> QED BY <1>2, <2>1, <2>2
<1>4. ASSUME NEW m \in 0..(n - 1), m \in T PROVE m + 1 \in T
  <2>1. /\ m + 1 \in DOMAIN q /\ m + 1 \in 0..n /\ m \in 0..n /\ (m + 1) - 1 = m /\ m + 1 \in 1..n
        /\ \A j \in DOMAIN q : j < m + 1 => j <= m
    BY SMTT(30), <1>2
  <2>2. Exact(m) /\ f[m] \in Scan
    BY <1>4, <2>1
  <2>3. f[m + 1] = Scanned(f[m], q[m + 1], r)
    BY <1>1, <2>1
  <2> DEFINE acc == f[m]
             next == f[m + 1]
             i == m + 1
  <2>4. /\ acc \in Scan /\ i \in DOMAIN q /\ next = Scanned(acc, q[i], r)
        /\ r[1] <= acc.cursor /\ acc.cursor <= r[2] /\ GapsIn(acc.gaps, r[1], acc.cursor, q)
        /\ \A j \in DOMAIN q : j < i => q[j].end <= acc.cursor \/ acc.cursor = r[2] \/ q[j].start >= r[2]
    BY <2>1, <2>2, <2>3
  <2> HIDE DEF acc, next, i, T
  <2>5. /\ r[1] <= next.cursor /\ next.cursor <= r[2]
        /\ GapsIn(next.gaps, r[1], next.cursor, q)
        /\ \A j \in DOMAIN q : j <= i => q[j].end <= next.cursor \/ next.cursor = r[2] \/ q[j].start >= r[2]
    BY <2>4, ScannedIsExact
  <2> QED BY <2>1, <2>5 DEF next, i, T
<1>5. Exact(n) /\ f[n] \in Scan
  <2>1. n \in 0..n
    BY <1>2
  <2> HIDE DEF T
  <2>2. \A i \in 0..n : i \in T
    BY <1>2, <1>3, <1>4, InductionUpTo
  <2> QED BY <2>1, <2>2 DEF T
<1> DEFINE gaps == f[n].gaps
           a == f[n].cursor
           b == r[2]
           from == r[1]
<1>6. gaps \in Seq(Pair) /\ a \in Nat /\ b \in Nat /\ from \in Nat
  BY <1>2, <1>5 DEF Scan
<1>7. /\ from <= a /\ a <= b /\ GapsIn(gaps, from, a, q) /\ from < b
      /\ \A j \in DOMAIN q : q[j].end <= a \/ a = b \/ q[j].start >= b
  <2>1. \A j \in DOMAIN q : j <= n
    BY <1>2
  <2> QED BY <1>5, <2>1
<1>8. G = IF a < b THEN Append(gaps, <<a, b>>) ELSE gaps
  BY <1>1, <1>2
<1>9. r[1] = from /\ r[2] = b
  OBVIOUS
<1> HIDE DEF a, b, from, gaps
<1>10. CASE a < b
  <2>1. ASSUME NEW p \in a..(b - 1), p \in Durable(q) PROVE FALSE
    <3>1. PICK j \in DOMAIN q : q[j].start <= p /\ p < q[j].end
      BY <2>1, DurableBytes
    <3>2. q[j].start \in Nat /\ q[j].end \in Nat /\ p \in Int /\ a <= p /\ p < b
      BY <1>2, <1>6
    <3>3. q[j].end <= a \/ a = b \/ q[j].start >= b
      BY <1>7
    <3> QED BY SMTT(30), <1>6, <1>10, <3>1, <3>2, <3>3
  <2>2. Append(gaps, <<a, b>>) \in Seq(Pair) /\ GapsIn(Append(gaps, <<a, b>>), from, b, q)
    BY <1>6, <1>7, <1>10, <2>1, AppendGap
  <2> QED BY <1>8, <1>9, <1>10, <2>2 DEF G
<1>11. CASE ~(a < b)
  BY <1>6, <1>7, <1>8, <1>9, <1>11 DEF G
<1> QED BY <1>10, <1>11

-----------------------------------------------------------------------------
(* Sorting.                                                                 *)

\* How many extents of S begin before e.
Rank(S, e) == Cardinality({d \in S : d.start < e.start})

\* The extents of S begin at different bytes.
DistinctStarts(S) == \A d, e \in S : d.start \in Nat /\ (d.start = e.start => d = e)

\* Without the first extent the others move up.
LEMMA RankWithoutFirst ==
    ASSUME NEW T, IsFiniteSet(T), NEW m \in T, \A e \in T : e.start \in Nat,
           \A e \in T \ {m} : m.start < e.start
    PROVE  /\ Rank(T, m) = 0
           /\ \A e \in T \ {m} : Rank(T, e) = Rank(T \ {m}, e) + 1
<1>1. {d \in T : d.start < m.start} = {}
  OBVIOUS
<1>2. Rank(T, m) = 0
  BY <1>1, FS_EmptySet DEF Rank
<1>3. ASSUME NEW e \in T \ {m} PROVE Rank(T, e) = Rank(T \ {m}, e) + 1
  <2> DEFINE A == {d \in T \ {m} : d.start < e.start}
  <2>1. {d \in T : d.start < e.start} = A \cup {m} /\ m \notin A /\ A \subseteq T
    OBVIOUS
  <2>2. IsFiniteSet(A)
    BY <2>1, FS_Subset
  <2> HIDE DEF A
  <2>3. Cardinality(A \cup {m}) = Cardinality(A) + 1
    BY <2>1, <2>2, FS_AddElement
  <2> QED BY <2>1, <2>3 DEF Rank, A
<1> QED BY <1>2, <1>3

\* Every rank is taken.
LEMMA EveryRankIsTaken ==
    ASSUME NEW S, IsFiniteSet(S), DistinctStarts(S)
    PROVE  \A k \in 1..Cardinality(S) : \E e \in S : Rank(S, e) = k - 1
<1> DEFINE P == {T \in SUBSET S : \A k \in 1..Cardinality(T) : \E e \in T : Rank(T, e) = k - 1}
<1>1. {} \in P
  <2>1. Cardinality({}) = 0
    BY FS_EmptySet
  <2>2. \A k \in 1..Cardinality({}) : FALSE
    BY <2>1
  <2> QED BY <2>2
<1>2. ASSUME NEW T \in SUBSET S, T # {}, \A x \in T : T \ {x} \in P PROVE T \in P
  <2> DEFINE starts == {e.start : e \in T}
  <2>1. starts \in SUBSET Nat /\ starts # {}
    BY <1>2 DEF DistinctStarts
  <2> HIDE DEF starts
  <2>2. PICK s \in starts : \A y \in starts : s <= y
    BY <2>1, HasLeast
  <2>3. PICK m \in T : m.start = s
    BY DEF starts
  <2>4. IsFiniteSet(T) /\ \A e \in T : e.start \in Nat
    BY FS_Subset DEF DistinctStarts
  <2>5. \A e \in T \ {m} : m.start < e.start
    <3> TAKE e \in T \ {m}
    <3>1. m.start <= e.start
      BY <2>2, <2>3 DEF starts
    <3>2. m.start # e.start
      BY DEF DistinctStarts
    <3> QED BY <2>4, <3>1, <3>2
  <2>6. Rank(T, m) = 0 /\ \A e \in T \ {m} : Rank(T, e) = Rank(T \ {m}, e) + 1
    BY <2>4, <2>5, RankWithoutFirst
  <2> DEFINE R == T \ {m}
             c == Cardinality(T)
  <2>7. c \in Nat /\ Cardinality(R) = c - 1
    BY <2>4, FS_RemoveElement, FS_CardinalityType
  <2>8. R \in P
    BY <1>2
  <2>9. ASSUME NEW k \in 1..c PROVE \E e \in T : Rank(T, e) = k - 1
    <3>1. CASE k = 1
      BY <2>6, <3>1
    <3>2. CASE k # 1
      <4>1. k - 1 \in 1..(c - 1)
        BY <2>7, <3>2
      <4>2. PICK e \in R : Rank(R, e) = (k - 1) - 1
        BY <2>7, <2>8, <4>1
      <4>3. e \in T /\ Rank(T, e) = Rank(R, e) + 1
        BY <2>6
      <4>4. k \in Int
        OBVIOUS
      <4>5. Rank(T, e) = k - 1
        BY <4>2, <4>3, <4>4
      <4> QED BY <4>3, <4>5
    <3> QED BY <3>1, <3>2
  <2>10. \A k \in 1..Cardinality(T) : \E e \in T : Rank(T, e) = k - 1
    BY <2>9
  <2> QED BY <1>2, <2>10
<1>3. S \in P
  <2> HIDE DEF P
  <2>1. \A T \in SUBSET S : T # {} /\ (\A x \in T : T \ {x} \in P) => T \in P
    BY <1>2
  <2>2. \A T \in SUBSET S : T \in P
    BY <1>1, <2>1, SubsetInduction
  <2> QED BY <2>2
<1> QED BY <1>3

\* An extent that begins later has more before it.
LEMMA RankGrows ==
    ASSUME NEW S, IsFiniteSet(S), DistinctStarts(S), NEW d \in S, NEW e \in S, d.start < e.start
    PROVE  Rank(S, d) < Rank(S, e)
<1> DEFINE A == {x \in S : x.start < d.start}
           B == {x \in S : x.start < e.start}
<1>1. \A x \in S : x.start \in Nat
  BY DEF DistinctStarts
<1>2. A \subseteq B /\ d \in B /\ d \notin A /\ B \subseteq S
  BY <1>1
<1>3. IsFiniteSet(B) /\ IsFiniteSet(A)
  BY <1>2, FS_Subset
<1> HIDE DEF A, B
<1>4. Cardinality(A) <= Cardinality(B) /\ Cardinality(A) # Cardinality(B)
  BY <1>2, <1>3, FS_Subset
<1>5. Cardinality(A) \in Nat /\ Cardinality(B) \in Nat
  BY <1>3, FS_CardinalityType
<1>6. Cardinality(A) < Cardinality(B)
  BY <1>4, <1>5
<1> QED BY <1>6 DEF Rank, A, B

\* The sorted list has every extent once, by its start.
LEMMA InOrderSorts ==
    ASSUME NEW S, IsFiniteSet(S), DistinctStarts(S), NEW q, q = InOrder(S)
    PROVE  /\ Cardinality(S) \in Nat /\ q \in [1..Cardinality(S) -> S]
           /\ q \in Seq(S) /\ Len(q) = Cardinality(S) /\ DOMAIN q = 1..Cardinality(S)
           /\ \A e \in S : \E i \in DOMAIN q : q[i] = e
           /\ \A i, j \in DOMAIN q : i < j => q[i].start < q[j].start
<1> DEFINE n == Cardinality(S)
<1>1. n \in Nat
  BY FS_CardinalityType
<1>2. \A i \in 1..n : q[i] = CHOOSE e \in S : Rank(S, e) = i - 1
  BY DEF InOrder, Rank
<1>3. \A i \in 1..n : q[i] \in S /\ Rank(S, q[i]) = i - 1
  <2> TAKE i \in 1..n
  <2>1. \E e \in S : Rank(S, e) = i - 1
    BY EveryRankIsTaken
  <2> QED BY <1>2, <2>1
<1>4. q \in [1..n -> S]
  BY <1>3 DEF InOrder
<1>5. q \in Seq(S) /\ Len(q) = n /\ DOMAIN q = 1..n
  <2> HIDE DEF n
  <2> QED BY <1>1, <1>4, RowIsSeq
<1>6. ASSUME NEW e \in S PROVE \E i \in 1..n : q[i] = e
  <2> DEFINE A == {d \in S : d.start < e.start}
  <2>1. A \subseteq S /\ e \notin A
    BY DEF DistinctStarts
  <2>2. A # S
    BY <2>1
  <2> HIDE DEF A
  <2>3. IsFiniteSet(A) /\ Cardinality(A) <= n /\ Cardinality(A) # n
    BY <2>1, <2>2, FS_Subset
  <2>4. Cardinality(A) \in Nat
    BY <2>3, FS_CardinalityType
  <2>5. Rank(S, e) = Cardinality(A)
    BY DEF Rank, A
  <2> DEFINE i == Cardinality(A) + 1
  <2>6. i \in 1..n /\ i - 1 = Cardinality(A)
    BY <1>1, <2>3, <2>4
  <2>7. q[i] \in S /\ Rank(S, q[i]) = Rank(S, e)
    BY <1>3, <2>5, <2>6
  <2> HIDE DEF i
  <2>8. q[i] = e
    <3>1. q[i].start \in Nat /\ e.start \in Nat
      BY <2>7 DEF DistinctStarts
    <3>2. ~(q[i].start < e.start)
      BY <2>7, <3>1, RankGrows, <2>4, <2>5
    <3>3. ~(e.start < q[i].start)
      BY <2>7, <3>1, RankGrows, <2>4, <2>5
    <3>4. q[i].start = e.start
      BY <3>1, <3>2, <3>3
    <3> QED BY <2>7, <3>4 DEF DistinctStarts
  <2> QED BY <2>6, <2>8
<1>7. ASSUME NEW i \in 1..n, NEW j \in 1..n, i < j PROVE q[i].start < q[j].start
  <2>1. q[i] \in S /\ q[j] \in S /\ Rank(S, q[i]) = i - 1 /\ Rank(S, q[j]) = j - 1
    BY <1>3
  <2>2. q[i].start \in Nat /\ q[j].start \in Nat /\ (q[i].start = q[j].start => q[i] = q[j])
    BY <2>1 DEF DistinctStarts
  <2>3. i - 1 < j - 1 /\ i \in Int /\ j \in Int
    BY <1>7
  <2>4. ASSUME q[j].start < q[i].start PROVE FALSE
    <3>1. Rank(S, q[j]) < Rank(S, q[i])
      BY <2>1, <2>4, RankGrows
    <3> QED BY <2>1, <2>3, <3>1
  <2>5. q[i].start # q[j].start
    BY <2>1, <2>2, <2>3
  <2> QED BY <2>2, <2>4, <2>5
<1> QED BY <1>1, <1>4, <1>5, <1>6, <1>7

\* Extents of the resource that do not overlap.
Tidy(S) ==
    /\ S \subseteq Extent /\ IsFiniteSet(S)
    /\ \A e \in S : e.start < e.end /\ e.end <= Total
    /\ \A d, e \in S : d # e => d.end <= e.start \/ e.end <= d.start

\* Sorting such a set orders it, and keeps its bytes.
LEMMA InOrderIsOrdered ==
    ASSUME NEW S, Tidy(S), NEW q, q = InOrder(S)
    PROVE  /\ q \in Seq(Extent) /\ Ordered(q) /\ Len(q) = Cardinality(S)
           /\ \A i \in DOMAIN q : q[i] \in S
           /\ \A e \in S : \E i \in DOMAIN q : q[i] = e
           /\ \A p : p \in Durable(q) <=> p \in Int /\ \E e \in S : e.start <= p /\ p < e.end
<1>1. \A e \in S : e.start \in Nat /\ e.end \in Nat
  BY DEF Tidy, Extent
<1>2. DistinctStarts(S)
  <2> SUFFICES ASSUME NEW d \in S, NEW e \in S, d.start = e.start, d # e PROVE FALSE
    BY <1>1 DEF DistinctStarts
  <2>1. d.end <= e.start \/ e.end <= d.start
    BY DEF Tidy
  <2>2. d.start < d.end /\ e.start < e.end
    BY DEF Tidy
  <2> QED BY <1>1, <2>1, <2>2
<1>3. /\ Cardinality(S) \in Nat /\ q \in [1..Cardinality(S) -> S]
      /\ q \in Seq(S) /\ Len(q) = Cardinality(S) /\ DOMAIN q = 1..Cardinality(S)
      /\ \A e \in S : \E i \in DOMAIN q : q[i] = e
      /\ \A i, j \in DOMAIN q : i < j => q[i].start < q[j].start
  BY <1>2, InOrderSorts DEF Tidy
<1>4. \A i \in DOMAIN q : q[i] \in S
  BY <1>3
<1>5. q \in Seq(Extent)
  <2>1. S \subseteq Extent
    BY DEF Tidy
  <2> QED BY <1>3, <2>1, SeqGrows
<1>6. \A i, j \in DOMAIN q : i < j => q[i].end <= q[j].start
  <2> TAKE i, j \in DOMAIN q
  <2> HAVE i < j
  <2>1. q[i] \in S /\ q[j] \in S /\ q[i].start < q[j].start
    BY <1>3, <1>4
  <2>2. q[i] # q[j]
    BY <1>1, <2>1
  <2>3. q[i].end <= q[j].start \/ q[j].end <= q[i].start
    BY <2>1, <2>2 DEF Tidy
  <2>4. q[j].start < q[j].end
    BY <2>1 DEF Tidy
  <2> QED BY <1>1, <2>1, <2>3, <2>4
<1>7. Ordered(q)
  BY <1>4, <1>6 DEF Ordered, Tidy
<1>8. ASSUME NEW p
      PROVE p \in Durable(q) <=> p \in Int /\ \E e \in S : e.start <= p /\ p < e.end
  BY <1>3, <1>4, <1>5, DurableBytes
<1> QED BY <1>3, <1>4, <1>5, <1>7, <1>8

\* The extents of an ordered list are such a set.
LEMMA OrderedIsTidy ==
    ASSUME NEW q \in Seq(Extent), Ordered(q)
    PROVE  Tidy(ToSet(q)) /\ Cardinality(ToSet(q)) = Len(q)
<1> DEFINE n == Len(q)
           S == ToSet(q)
<1>1. /\ n \in Nat /\ DOMAIN q = 1..n
      /\ \A i \in 1..n : q[i] \in Extent /\ q[i].start \in Nat /\ q[i].end \in Nat
      /\ \A i \in 1..n : q[i].start < q[i].end /\ q[i].end <= Total
      /\ \A i, j \in 1..n : i < j => q[i].end <= q[j].start
  BY ListedExtents DEF Ordered
<1>2. \A e : e \in S <=> \E i \in 1..n : q[i] = e
  BY <1>1 DEF ToSet
<1> HIDE DEF S, n
<1>3. ASSUME NEW i \in 1..n, NEW j \in 1..n, q[i] = q[j] PROVE i = j
  <2>1. ~(i < j)
    BY <1>1, <1>3
  <2>2. ~(j < i)
    BY <1>1, <1>3
  <2> QED BY <2>1, <2>2
<1>4. \A d, e \in S : d # e => d.end <= e.start \/ e.end <= d.start
  <2> TAKE d, e \in S
  <2> HAVE d # e
  <2>1. PICK i \in 1..n : q[i] = d
    BY <1>2
  <2>2. PICK j \in 1..n : q[j] = e
    BY <1>2
  <2>3. i # j
    BY <2>1, <2>2
  <2>4. i < j \/ j < i
    BY <2>3
  <2> QED BY <1>1, <2>1, <2>2, <2>4
<1>5. q \in [1..n -> S]
  <2>1. \A i \in 1..n : q[i] \in S
    BY <1>2
  <2>2. q = [i \in 1..n |-> q[i]]
    BY <1>1
  <2> QED BY <2>1, <2>2
<1>6. Lists(q, S)
  <2>1. q \in Seq(S)
    BY <1>1, <1>5, RowIsSeq
  <2> QED BY <1>2, <1>3, <2>1 DEF Lists, n
<1>7. Len(q) = Cardinality(S)
  BY <1>6, ListsAll
<1>8. IsFiniteSet(S)
  <2>1. IsFiniteSet(1..n)
    <3>1. 1 \in Int /\ n \in Int
      BY <1>1
    <3> QED BY <3>1, FS_Interval
  <2>2. q \in Surjection(1..n, S)
    <3>1. \A t \in S : \E s \in 1..n : q[s] = t
      BY <1>2
    <3> QED BY <1>5, <3>1, Zenon DEF Surjection
  <2> QED BY <2>1, <2>2, FS_Surjection
<1>9. Tidy(S)
  <2>1. \A e \in S : e \in Extent /\ e.start < e.end /\ e.end <= Total
    <3> TAKE e \in S
    <3>1. PICK i \in 1..n : q[i] = e
      BY <1>2
    <3> QED BY <1>1, <3>1
  <2>2. S \subseteq Extent
    BY <2>1
  <2> QED BY <1>4, <1>8, <2>1, <2>2 DEF Tidy
<1> QED BY <1>7, <1>9 DEF S

-----------------------------------------------------------------------------
(* Compaction.                                                              *)

\* A run to merge goes from one extent to a later one, and is durable.
IsRun(q, run) ==
    \E i, j \in DOMAIN q : /\ i < j /\ run = <<q[i].start, q[j].end>>
                           /\ \A p \in q[i].start..(q[j].end - 1) : p \in Durable(q)

\* fragmented_extent_run_in_parent returns nothing or such a run.
LEMMA FragmentedRunIsRun ==
    ASSUME NEW q \in Seq(Extent), Ordered(q), NEW p \in Pair, FragmentedRun(q, p) # NoRange
    PROVE  IsRun(q, FragmentedRun(q, p))
<1> DEFINE inside == {i \in DOMAIN q : p[1] <= q[i].start /\ q[i].end <= p[2]}
           pairs == {i \in inside : i + 1 \in inside /\ q[i].end = q[i + 1].start}
           reached(i) == {j \in inside : j > i /\ \A k \in i .. j - 1 : k \in pairs}
           last(i) == Max(reached(i))
           i == Min(pairs)
           j == last(i)
<1>1. /\ RangeIsCovered(q, p) /\ pairs # {}
      /\ FragmentedRun(q, p) = <<q[i].start, q[j].end>>
  BY ZenonT(30) DEF FragmentedRun
<1>2. /\ Len(q) \in Nat /\ DOMAIN q = 1..Len(q)
      /\ \A k \in DOMAIN q : q[k].start \in Nat /\ q[k].end \in Nat
      /\ p[1] \in Nat /\ p[2] \in Nat
  BY ListedExtents DEF Pair
<1>3. pairs \in SUBSET Nat /\ pairs \subseteq inside /\ inside \subseteq DOMAIN q
  BY <1>2
<1>4. i \in pairs
  <2> HIDE DEF pairs
  <2>1. \E x \in pairs : \A y \in pairs : x <= y
    BY <1>1, <1>3, HasLeast
  <2> QED BY <2>1 DEF Min
<1> HIDE DEF i
<1>5. i \in inside /\ i + 1 \in inside /\ i \in Nat
  BY <1>3, <1>4
<1>6. reached(i) \in SUBSET Nat /\ reached(i) # {} /\ \A x \in reached(i) : x <= Len(q)
  <2>1. \A k \in i .. (i + 1) - 1 : k = i
    BY <1>5
  <2>2. i + 1 > i
    BY <1>5
  <2>3. i + 1 \in reached(i)
    BY SMTT(30), <1>4, <1>5, <2>1, <2>2
  <2> QED BY SMTT(30), <1>2, <2>3
<1>7. j \in reached(i)
  <2> DEFINE R == reached(i)
             m == Len(q)
  <2>1. R \in SUBSET Nat /\ R # {} /\ (\A x \in R : x <= m) /\ m \in Nat
    BY <1>2, <1>6
  <2> HIDE DEF R, m
  <2>2. \E x \in R : \A y \in R : y <= x
    BY <2>1, HasGreatest
  <2>3. \E x \in R : \A y \in R : x >= y
    BY <2>1, <2>2
  <2>4. Max(R) \in R
    BY <2>3 DEF Max
  <2>5. Max(R) = j
    BY DEF R
  <2> QED BY <2>4, <2>5 DEF R
<1> HIDE DEF j
<1>8. j \in DOMAIN q /\ i \in DOMAIN q /\ i < j /\ q[j].end <= p[2] /\ p[1] <= q[i].start
  BY <1>3, <1>5, <1>7
<1>9. ASSUME NEW x \in q[i].start..(q[j].end - 1) PROVE x \in Durable(q)
  <2>1. x \in Bytes(p)
    <3>1. q[i].start \in Nat /\ q[j].end \in Nat
      BY <1>2, <1>8
    <3> QED BY SMTT(30), <1>2, <1>8, <3>1 DEF Bytes
  <2>2. p \in Nat \X Nat
    BY DEF Pair
  <2>3. Bytes(p) \subseteq Durable(q)
    BY <1>1, <2>2, CoverageIsExact
  <2> QED BY <2>1, <2>3
<1> QED BY SMTT(30), <1>1, <1>8, <1>9 DEF IsRun

\* The planned chunks are pairs of offsets within the resource.
LEMMA PlannedChunksAreSpans ==
    ASSUME NEW total \in Nat
    PROVE  \A p \in ToSet(PlannedRangeChunks(total)) : p \in Pair /\ p[2] <= total
<1> DEFINE first == AtMost(total, StartupChunk)
           size == ParentSize(total)
           Parent(k) == <<first + (k - 2) * size, AtMost(first + (k - 1) * size, total)>>
           last == 1 + DivCeil(total - first, size)
<1>1. first \in Nat /\ first <= total
  BY SizesAreNumbers DEF AtMost
<1>2. size \in Nat \ {0}
  <2> DEFINE wanted == DivCeil(total - first, AtLeast(MaxChunks - 1, 1))
  <2>1. AtLeast(MaxChunks - 1, 1) \in Nat \ {0}
    BY SizesAreNumbers DEF AtLeast
  <2>2. wanted \in Int
    BY <1>1, <2>1 DEF DivCeil
  <2>3. size = Clamp(wanted, MinChunk, MaxChunk)
    BY DEF ParentSize
  <2> HIDE DEF wanted, size
  <2> QED BY <2>2, <2>3, SizesAreNumbers DEF Clamp, AtMost, AtLeast
<1>3. ASSUME total # 0, NEW k \in 1..last, k # 1
      PROVE  Parent(k) \in Pair /\ Parent(k)[2] <= total
  <2> HIDE DEF first, size
  <2>1. last \in Int
    BY <1>1, <1>2 DEF DivCeil
  <2> HIDE DEF last
  <2>2. k - 2 \in Nat /\ k - 1 \in Nat
    BY <1>3, <2>1
  <2>3. (k - 2) * size \in Nat /\ (k - 1) * size \in Nat
    BY <1>2, <2>2
  <2> QED BY <1>1, <2>3 DEF AtMost, Pair
<1>4. <<0, first>> \in Pair /\ <<0, first>>[2] <= total
  BY <1>1 DEF Pair
<1>5. CASE total = 0
  BY <1>5 DEF PlannedRangeChunks, ToSet
<1>6. CASE total # 0
  <2>1. PlannedRangeChunks(total) = [k \in 1..last |-> IF k = 1 THEN <<0, first>> ELSE Parent(k)]
    BY <1>6 DEF PlannedRangeChunks
  <2> HIDE DEF first, size, last
  <2>2. \A k \in 1..last : (IF k = 1 THEN <<0, first>> ELSE Parent(k)) \in Pair
                           /\ (IF k = 1 THEN <<0, first>> ELSE Parent(k))[2] <= total
    BY <1>3, <1>4, <1>6
  <2> DEFINE F == PlannedRangeChunks(total)
  <2>3. DOMAIN F = 1..last /\ \A k \in 1..last : F[k] \in Pair /\ F[k][2] <= total
    BY <2>1, <2>2
  <2>4. ToSet(F) = {F[k] : k \in 1..last}
    BY <2>3 DEF ToSet
  <2> HIDE DEF F
  <2> QED BY <2>3, <2>4 DEF F
<1> QED BY <1>5, <1>6

\* first_complete_parent_compaction returns nothing or a run.
LEMMA FirstCompactionIsRun ==
    ASSUME NEW q \in Seq(Extent), Ordered(q), NEW total \in Nat, NEW r,
           FirstCompaction(q, total, r) # NoRange
    PROVE  IsRun(q, FirstCompaction(q, total, r))
<1> DEFINE parents == {p \in ToSet(PlannedRangeChunks(total)) :
                          Meets(p, r) /\ FragmentedRun(q, p) # NoRange}
           first == CHOOSE p \in parents : \A x \in parents : p[1] <= x[1]
           starts == {p[1] : p \in parents}
<1>1. parents # {} /\ FirstCompaction(q, total, r) = FragmentedRun(q, first)
  BY DEF FirstCompaction
<1>2. \A p \in parents : p \in Pair /\ p[1] \in Nat /\ FragmentedRun(q, p) # NoRange
  BY PlannedChunksAreSpans DEF Pair
<1> HIDE DEF parents
<1>3. starts \in SUBSET Nat /\ starts # {}
  BY <1>1, <1>2
<1>4. \E p \in parents : \A x \in parents : p[1] <= x[1]
  <2> HIDE DEF starts
  <2>1. PICK s \in starts : \A y \in starts : s <= y
    BY <1>3, HasLeast
  <2> QED BY <2>1 DEF starts
<1>5. first \in parents
  BY <1>4
<1> QED BY <1>1, <1>2, <1>5, FragmentedRunIsRun

\* An extent of merged or fetched bytes.
Piece(range, sha) == [start |-> range[1], end |-> range[2], sha |-> sha]

\* Merging a run keeps the list in order, and its bytes, and never lengthens it.
LEMMA CoalesceFacts ==
    ASSUME NEW q \in Seq(Extent), Ordered(q), NEW run, IsRun(q, run), NEW sha \in Seq(Data),
           NEW C, C = CoalesceSelected(q, run, sha)
    PROVE  /\ C \in Seq(Extent) /\ Ordered(C) /\ Len(C) <= Len(q) /\ C # << >>
           /\ Durable(C) = Durable(q)
           /\ \A k \in DOMAIN C : C[k] = Piece(run, sha) \/ C[k] \in ToSet(q)
<1> DEFINE S == ToSet(q)
           O == Outside(q, run)
           m == Piece(run, sha)
           N == O \cup {m}
<1>1. /\ Len(q) \in Nat /\ DOMAIN q = 1..Len(q)
      /\ \A k \in DOMAIN q : q[k] \in Extent /\ q[k].start \in Nat /\ q[k].end \in Nat
      /\ \A k \in DOMAIN q : q[k].start < q[k].end /\ q[k].end <= Total
      /\ \A k, l \in DOMAIN q : k < l => q[k].end <= q[l].start
  BY ListedExtents DEF Ordered
<1>2. PICK i \in DOMAIN q, j \in DOMAIN q :
         /\ i < j /\ run = <<q[i].start, q[j].end>>
         /\ \A p \in q[i].start..(q[j].end - 1) : p \in Durable(q)
  BY DEF IsRun
<1>3. Tidy(S) /\ Cardinality(S) = Len(q)
  BY OrderedIsTidy
<1>4. \A e \in S : e \in Extent /\ e.start \in Nat /\ e.end \in Nat /\ \E k \in DOMAIN q : q[k] = e
  BY <1>1 DEF ToSet
<1>5. C = InOrder(N)
  BY DEF CoalesceSelected, Piece
<1> DEFINE a == q[i].start
           b == q[j].end
<1>6. /\ run[1] = a /\ run[2] = b /\ a \in Nat /\ b \in Nat /\ a < b /\ b <= Total
      /\ m = [start |-> a, end |-> b, sha |-> sha]
      /\ m \in Extent /\ m.start = a /\ m.end = b
  <2>1. a \in Nat /\ b \in Nat
    BY <1>1
  <2>2. a < q[i].end /\ q[i].end <= q[j].start /\ q[j].start < b /\ b <= Total
    BY <1>1, <1>2
  <2>3. a < b
    BY SMTT(30), <1>1, <2>1, <2>2
  <2>4. run[1] = a /\ run[2] = b
    BY <1>2
  <2>5. m = [start |-> a, end |-> b, sha |-> sha]
    BY <2>4 DEF Piece
  <2> HIDE DEF a, b, m
  <2>6. m \in Extent /\ m.start = a /\ m.end = b
    BY <2>1, <2>5 DEF Extent
  <2> QED BY <2>1, <2>2, <2>3, <2>4, <2>5, <2>6
<1> HIDE DEF m
<1>7. ASSUME NEW e \in S
      PROVE e \in O <=> e.end <= a \/ b <= e.start
  <2>1. PICK k \in DOMAIN q : q[k] = e
    BY <1>4
  <2>2. e \in O <=> ~(a <= e.start /\ e.end <= b)
    BY <1>6 DEF Outside
  <2>3. CASE k < i
    BY SMTT(30), <1>1, <1>2, <1>6, <2>1, <2>2, <2>3
  <2>4. CASE k > j
    BY SMTT(30), <1>1, <1>2, <1>6, <2>1, <2>2, <2>4
  <2>5. CASE i <= k /\ k <= j
    <3>1. a <= e.start
      <4>1. CASE k = i
        BY <2>1, <4>1, <1>4
      <4>2. CASE i < k
        BY SMTT(30), <1>1, <2>1, <4>2
      <4> QED BY <1>1, <2>5, <4>1, <4>2
    <3>2. e.end <= b
      <4>1. CASE k = j
        BY <2>1, <4>1, <1>4
      <4>2. CASE k < j
        BY SMTT(30), <1>1, <2>1, <4>2
      <4> QED BY <1>1, <2>5, <4>1, <4>2
    <3>3. e.start < e.end
      BY <1>1, <2>1
    <3> QED BY SMTT(30), <1>4, <1>6, <2>2, <3>1, <3>2, <3>3
  <2> QED BY <1>1, <2>3, <2>4, <2>5
<1>8. O \subseteq S /\ q[i] \in S /\ q[i] \notin O
  <2>1. q[i] \in S
    BY DEF ToSet
  <2>2. q[i].start = a /\ q[i].start < q[i].end
    BY <1>1
  <2>3. ~(q[i].end <= a) /\ ~(b <= q[i].start)
    BY <1>1, <1>6, <2>2
  <2>4. O \subseteq S
    BY DEF Outside
  <2> QED BY <1>7, <2>1, <2>3, <2>4
<1> HIDE DEF S, O, a, b
<1>9. Tidy(N)
  <2>1. IsFiniteSet(O)
    BY <1>3, <1>8, FS_Subset DEF Tidy
  <2>2. IsFiniteSet(N)
    BY <2>1, FS_AddElement
  <2>3. N \subseteq Extent
    BY <1>3, <1>6, <1>8 DEF Tidy
  <2>4. \A e \in N : e.start < e.end /\ e.end <= Total
    BY <1>3, <1>6, <1>8 DEF Tidy
  <2>5. ASSUME NEW d \in N, NEW e \in N, d # e PROVE d.end <= e.start \/ e.end <= d.start
    <3>1. CASE d \in O /\ e \in O
      BY <1>3, <1>8, <2>5, <3>1 DEF Tidy
    <3>2. CASE d = m /\ e \in O
      BY <1>6, <1>7, <1>8, <3>2
    <3>3. CASE e = m /\ d \in O
      BY <1>6, <1>7, <1>8, <3>3
    <3> QED BY <2>5, <3>1, <3>2, <3>3
  <2> QED BY <2>2, <2>3, <2>4, <2>5 DEF Tidy
<1>10. /\ C \in Seq(Extent) /\ Ordered(C) /\ Len(C) = Cardinality(N)
       /\ \A k \in DOMAIN C : C[k] \in N
       /\ \A e \in N : \E k \in DOMAIN C : C[k] = e
       /\ \A p : p \in Durable(C) <=> p \in Int /\ \E e \in N : e.start <= p /\ p < e.end
  <2> HIDE DEF N
  <2> QED BY <1>5, <1>9, InOrderIsOrdered
<1>11. Len(C) <= Len(q)
  <2> DEFINE R == S \ {q[i]}
  <2>1. IsFiniteSet(S)
    BY <1>3 DEF Tidy
  <2>2. IsFiniteSet(R) /\ Cardinality(R) = Len(q) - 1
    BY <1>3, <1>8, <2>1, FS_RemoveElement
  <2>3. O \subseteq R
    BY <1>8
  <2> HIDE DEF R
  <2>4. IsFiniteSet(O) /\ Cardinality(O) <= Len(q) - 1
    BY <2>2, <2>3, FS_Subset
  <2>5. Cardinality(N) <= Cardinality(O) + 1 /\ Cardinality(O) \in Nat
    BY SMTT(30), <2>4, FS_AddElement, FS_CardinalityType
  <2>6. Cardinality(N) \in Nat
    BY <1>9, FS_CardinalityType DEF Tidy
  <2> QED BY <1>1, <1>10, <2>4, <2>5, <2>6
<1>12. ASSUME NEW p PROVE p \in Durable(C) <=> p \in Durable(q)
  <2>1. p \in Durable(q) <=> p \in Int /\ \E e \in S : e.start <= p /\ p < e.end
    BY <1>4, DurableBytes DEF S, ToSet
  <2>2. ASSUME p \in Durable(C) PROVE p \in Durable(q)
    <3>1. PICK e \in N : p \in Int /\ e.start <= p /\ p < e.end
      BY <1>10, <2>2
    <3>2. CASE e \in O
      BY <1>8, <2>1, <3>1, <3>2
    <3>3. CASE e = m
      <4>1. p \in a..(b - 1)
        BY <1>6, <3>1, <3>3
      <4> QED BY <1>2, <4>1 DEF a, b
    <3> QED BY <3>1, <3>2, <3>3
  <2>3. ASSUME p \in Durable(q) PROVE p \in Durable(C)
    <3>1. PICK e \in S : p \in Int /\ e.start <= p /\ p < e.end
      BY <2>1, <2>3
    <3>2. CASE e \in O
      BY <1>10, <3>1, <3>2
    <3>3. CASE e \notin O
      <4>1. e.start \in Nat /\ e.end \in Nat /\ e \in Extent /\ \E k \in DOMAIN q : q[k] = e
        BY <1>4
      <4>2. ~(e.end <= a) /\ ~(b <= e.start)
        BY <1>7, <3>3
      <4>3. a <= e.start /\ e.end <= b
        BY <1>6, <3>3 DEF O, Outside, S
      <4>4. m.start <= p /\ p < m.end
        BY SMTT(30), <1>6, <3>1, <4>1, <4>3
      <4> QED BY <1>10, <3>1, <4>4
    <3> QED BY <3>2, <3>3
  <2> QED BY <2>2, <2>3
<1>13. \A k \in DOMAIN C : C[k] = m \/ C[k] \in S
  BY <1>8, <1>10
<1>14. C # << >>
  <2>1. \E k \in DOMAIN C : C[k] = m
    BY <1>10
  <2> QED BY <2>1
<1>15. Durable(C) = Durable(q)
  BY <1>12
<1> QED BY <1>10, <1>11, <1>13, <1>14, <1>15 DEF m, S

\* What a commit adds for a gap of the bytes it has.
FetchedPiece(bytes, gap) == [start |-> gap[1], end |-> gap[2], sha |-> Digest(bytes, gap)]

\* The digest of a range is a sequence as long as the range.
LEMMA DigestIsSeq ==
    ASSUME NEW bytes \in [Positions -> Data], NEW a \in Nat, NEW b \in Nat, a <= b, b <= Total
    PROVE  /\ Digest(bytes, <<a, b>>) \in Seq(Data)
           /\ Len(Digest(bytes, <<a, b>>)) = b - a
           /\ \A p \in a..(b - 1) : Digest(bytes, <<a, b>>)[p - a + 1] = bytes[p]
<1> DEFINE n == b - a
           d == [i \in 1..n |-> bytes[a + i - 1]]
<1>1. Digest(bytes, <<a, b>>) = d
  BY DEF Digest
<1>2. n \in Nat /\ Positions = 0..(Total - 1) /\ Total \in Nat
  BY SizesAreNumbers DEF Positions, Bytes, Whole
<1>3. \A i \in 1..n : a + i - 1 \in Positions /\ bytes[a + i - 1] \in Data
  <2> TAKE i \in 1..n
  <2>1. a + i - 1 \in 0..(Total - 1)
    BY <1>2
  <2>2. a + i - 1 \in Positions
    BY <1>2, <2>1
  <2> QED BY <2>2
<1>4. d \in [1..n -> Data]
  <2> HIDE DEF n
  <2> QED BY <1>3
<1>5. ASSUME NEW p \in a..(b - 1) PROVE d[p - a + 1] = bytes[p]
  <2>1. p - a + 1 \in 1..n /\ a + (p - a + 1) - 1 = p
    BY <1>2
  <2> HIDE DEF n
  <2> QED BY <2>1
<1> HIDE DEF d, n
<1>6. d \in Seq(Data) /\ Len(d) = n
  BY <1>2, <1>4, RowIsSeq
<1> QED BY <1>1, <1>5, <1>6 DEF n

\* Two files that agree on a range have one digest of it.
LEMMA DigestAgrees ==
    ASSUME NEW x, NEW y, NEW a \in Nat, NEW b \in Nat, \A p \in a..(b - 1) : x[p] = y[p]
    PROVE  Digest(x, <<a, b>>) = Digest(y, <<a, b>>)
<1>1. \A i \in 1..(b - a) : a + i - 1 \in a..(b - 1)
  OBVIOUS
<1>2. \A i \in 1..(b - a) : x[a + i - 1] = y[a + i - 1]
  BY <1>1
<1> QED BY <1>2 DEF Digest

\* A piece for bytes of a range that are not durable.
FromGap(e, bytes, r, q) ==
    \E a, b \in Nat : /\ e = FetchedPiece(bytes, <<a, b>>) /\ a <= b /\ b <= Total
                      /\ a..(b - 1) \subseteq Bytes(r) \ Durable(q)

\* The extents with a piece for every gap of a range.
Filled(q, r, bytes) ==
    InOrder(ToSet(q) \cup {FetchedPiece(bytes, g) : g \in ToSet(MissingRangesWithin(q, r))})

\* Adding the missing bytes of a range keeps the list in order, and the range
\* is durable then.
LEMMA FillFacts ==
    ASSUME NEW q \in Seq(Extent), Ordered(q), NEW r \in Pair, r[2] <= Total,
           NEW bytes \in [Positions -> Data], NEW W, W = Filled(q, r, bytes)
    PROVE  /\ W \in Seq(Extent) /\ Ordered(W)
           /\ Durable(W) = Durable(q) \cup Bytes(r)
           /\ \A k \in DOMAIN W : W[k] \in ToSet(q) \/ FromGap(W[k], bytes, r, q)
           /\ \A e \in ToSet(q) : \E k \in DOMAIN W : W[k] = e
<1> DEFINE G == MissingRangesWithin(q, r)
           S == ToSet(q)
           A == {FetchedPiece(bytes, g) : g \in ToSet(G)}
           N == S \cup A
<1>1. r[1] \in Nat /\ r[2] \in Nat /\ Total \in Nat /\ \A p : p \in Bytes(r) <=> p \in Int /\ r[1] <= p /\ p < r[2]
  BY SizesAreNumbers DEF Pair, Bytes
<1>2. /\ G \in Seq(Pair)
      /\ \A k \in DOMAIN G : r[1] <= G[k][1] /\ G[k][1] < G[k][2] /\ G[k][2] <= r[2]
      /\ \A k, l \in DOMAIN G : k < l => G[k][2] <= G[l][1]
      /\ \A p \in Bytes(r) : p \in Durable(q) <=> ~\E k \in DOMAIN G : G[k][1] <= p /\ p < G[k][2]
  <2>1. CASE r[1] < r[2]
    <3>1. G \in Seq(Pair) /\ GapsIn(G, r[1], r[2], q)
      BY <2>1, GapsAreExact
    <3> HIDE DEF G
    <3> QED BY <1>1, <3>1 DEF GapsIn, Bytes
  <2>2. CASE r[1] >= r[2]
    <3>1. G = << >>
      BY <2>2 DEF MissingRangesWithin
    <3>2. DOMAIN G = {} /\ G \in Seq(Pair)
      BY <3>1
    <3>3. Bytes(r) = {}
      BY <1>1, <2>2 DEF Bytes
    <3> HIDE DEF G
    <3> QED BY <3>2, <3>3
  <2> QED BY <1>1, <2>1, <2>2
<1> HIDE DEF G
<1>3. /\ Len(G) \in Nat /\ DOMAIN G = 1..Len(G)
      /\ \A k \in DOMAIN G : G[k] = <<G[k][1], G[k][2]>> /\ G[k][1] \in Nat /\ G[k][2] \in Nat
  <2>1. Len(G) \in Nat /\ DOMAIN G = 1..Len(G) /\ \A k \in DOMAIN G : G[k] \in Pair
    BY <1>2
  <2>2. \A x \in Pair : x = <<x[1], x[2]>> /\ x[1] \in Nat /\ x[2] \in Nat
    BY DEF Pair
  <2> QED BY <2>1, <2>2
<1> DEFINE new(k) == FetchedPiece(bytes, G[k])
<1>4. ASSUME NEW k \in DOMAIN G
      PROVE  /\ new(k) \in Extent /\ new(k).start = G[k][1] /\ new(k).end = G[k][2]
             /\ G[k][1] < G[k][2] /\ G[k][2] <= Total
  <2>1. G[k][1] \in Nat /\ G[k][2] \in Nat /\ G[k][1] < G[k][2] /\ G[k][2] <= Total
    BY <1>1, <1>2, <1>3
  <2> DEFINE a == G[k][1]
             b == G[k][2]
             d == Digest(bytes, G[k])
  <2>2. a \in Nat /\ b \in Nat /\ a <= b /\ b <= Total /\ G[k] = <<a, b>>
    BY <1>3, <2>1
  <2>3. new(k) = [start |-> a, end |-> b, sha |-> d]
    BY DEF FetchedPiece
  <2> HIDE DEF a, b, new
  <2>4. d \in Seq(Data)
    BY <2>2, DigestIsSeq
  <2> HIDE DEF d
  <2>5. new(k) \in Extent /\ new(k).start = a /\ new(k).end = b
    BY <2>2, <2>3, <2>4 DEF Extent
  <2> QED BY <2>1, <2>5 DEF a, b
<1>5. \A x : x \in A <=> \E k \in DOMAIN G : x = new(k)
  BY DEF ToSet
<1>6. Tidy(S)
  BY OrderedIsTidy
<1>7. \A e \in S : e \in Extent /\ e.start \in Nat /\ e.end \in Nat /\ e.start < e.end /\ e.end <= Total
  BY <1>6 DEF Tidy, Extent
<1>8. \A p : p \in Durable(q) <=> p \in Int /\ \E e \in S : e.start <= p /\ p < e.end
  BY DurableBytes DEF ToSet
<1>9. \A k \in DOMAIN G : \A p \in G[k][1]..(G[k][2] - 1) : p \in Bytes(r) /\ p \notin Durable(q)
  <2> TAKE k \in DOMAIN G
  <2> TAKE p \in G[k][1]..(G[k][2] - 1)
  <2>1. G[k][1] <= p /\ p < G[k][2] /\ p \in Int
    BY <1>3
  <2>2. p \in Bytes(r)
    <3>1. r[1] <= G[k][1] /\ G[k][2] <= r[2] /\ G[k][1] \in Nat /\ G[k][2] \in Nat
      BY <1>2, <1>3
    <3>2. r[1] <= p /\ p < r[2]
      BY SMTT(30), <1>1, <2>1, <3>1
    <3> QED BY <1>1, <2>1, <3>2
  <2> QED BY <1>2, <2>1, <2>2
<1>10. ASSUME NEW e \in S, NEW k \in DOMAIN G
       PROVE e.end <= G[k][1] \/ G[k][2] <= e.start
  <2> SUFFICES ASSUME e.end > G[k][1], G[k][2] > e.start PROVE FALSE
    BY <1>3, <1>7
  <2> DEFINE p == AtLeast(e.start, G[k][1])
  <2>1. /\ e.start \in Nat /\ e.end \in Nat /\ e.start < e.end
        /\ G[k][1] \in Nat /\ G[k][2] \in Nat /\ G[k][1] < G[k][2]
    BY <1>2, <1>3, <1>7
  <2>2. p \in Nat /\ e.start <= p /\ p < e.end /\ G[k][1] <= p /\ p < G[k][2]
    BY <2>1 DEF AtLeast
  <2> HIDE DEF p
  <2>3. p \in Durable(q)
    BY <1>8, <2>2
  <2>4. p \in G[k][1]..(G[k][2] - 1)
    BY <2>1, <2>2
  <2> QED BY <1>9, <2>3, <2>4
<1>11. IsFiniteSet(A)
  <2>1. IsFiniteSet(DOMAIN G)
    <3>1. 1 \in Int /\ Len(G) \in Int
      BY <1>3
    <3> QED BY <1>3, <3>1, FS_Interval
  <2> DEFINE f == [k \in DOMAIN G |-> new(k)]
  <2>2. f \in Surjection(DOMAIN G, A)
    <3> HIDE DEF new, A
    <3>1. f \in [DOMAIN G -> A]
      BY <1>5
    <3>2. \A t \in A : \E s \in DOMAIN G : f[s] = t
      BY <1>5
    <3> HIDE DEF f
    <3> QED BY <3>1, <3>2 DEF Surjection
  <2> HIDE DEF f, A
  <2> QED BY <2>1, <2>2, FS_Surjection
<1> HIDE DEF S, A, new
<1>12. Tidy(N)
  <2>1. IsFiniteSet(N)
    BY <1>6, <1>11, FS_Union DEF Tidy
  <2>2. \A e \in N : e \in Extent /\ e.start < e.end /\ e.end <= Total
    BY <1>4, <1>5, <1>7
  <2>3. ASSUME NEW d \in N, NEW e \in N, d # e PROVE d.end <= e.start \/ e.end <= d.start
    <3>1. CASE d \in S /\ e \in S
      BY <1>6, <2>3, <3>1 DEF Tidy
    <3>2. CASE d \in S /\ e \in A
      BY <1>4, <1>5, <1>10, <3>2
    <3>3. CASE d \in A /\ e \in S
      BY <1>4, <1>5, <1>10, <3>3
    <3>4. CASE d \in A /\ e \in A
      <4>1. PICK k \in DOMAIN G : d = new(k)
        BY <1>5, <3>4
      <4>2. PICK l \in DOMAIN G : e = new(l)
        BY <1>5, <3>4
      <4>3. k # l
        BY <2>3, <4>1, <4>2
      <4>4. k < l \/ l < k
        BY <1>3, <4>3
      <4> QED BY <1>2, <1>4, <4>1, <4>2, <4>4
    <3> QED BY <3>1, <3>2, <3>3, <3>4
  <2>4. N \subseteq Extent
    BY <2>2
  <2> QED BY <2>1, <2>2, <2>3, <2>4 DEF Tidy
<1>13. W = InOrder(N)
  BY DEF Filled, S, A, G
<1>14. /\ W \in Seq(Extent) /\ Ordered(W) /\ Len(W) = Cardinality(N)
       /\ \A k \in DOMAIN W : W[k] \in N
       /\ \A e \in N : \E k \in DOMAIN W : W[k] = e
       /\ \A p : p \in Durable(W) <=> p \in Int /\ \E e \in N : e.start <= p /\ p < e.end
  <2> HIDE DEF N
  <2> QED BY <1>12, <1>13, InOrderIsOrdered, Zenon
<1>15. ASSUME NEW p PROVE p \in Durable(W) <=> p \in Durable(q) \cup Bytes(r)
  <2>1. ASSUME p \in Durable(W) PROVE p \in Durable(q) \cup Bytes(r)
    <3>1. PICK e \in N : p \in Int /\ e.start <= p /\ p < e.end
      BY <1>14, <2>1
    <3>2. CASE e \in S
      BY <1>8, <3>1, <3>2
    <3>3. CASE e \in A
      <4>1. PICK k \in DOMAIN G : e = new(k)
        BY <1>5, <3>3
      <4>2. p \in G[k][1]..(G[k][2] - 1)
        BY <1>3, <1>4, <3>1, <4>1
      <4> QED BY <1>9, <4>2
    <3> QED BY <3>2, <3>3
  <2>2. ASSUME p \in Durable(q) PROVE p \in Durable(W)
    BY <1>8, <1>14, <2>2
  <2>3. ASSUME p \in Bytes(r), p \notin Durable(q) PROVE p \in Durable(W)
    <3>1. PICK k \in DOMAIN G : G[k][1] <= p /\ p < G[k][2]
      BY <1>2, <2>3
    <3>2. new(k) \in N /\ p \in Int
      BY <1>1, <1>5, <2>3
    <3> QED BY <1>4, <1>14, <3>1, <3>2
  <2> QED BY <2>1, <2>2, <2>3
<1>16. ASSUME NEW k \in DOMAIN W
       PROVE  W[k] \in S \/ FromGap(W[k], bytes, r, q)
  <2>1. CASE W[k] \in A
    <3>1. PICK l \in DOMAIN G : W[k] = new(l)
      BY <1>5, <2>1
    <3> DEFINE a == G[l][1]
               b == G[l][2]
    <3>2. a \in Nat /\ b \in Nat /\ a <= b /\ b <= Total /\ G[l] = <<a, b>>
      BY <1>3, <1>4
    <3>3. a..(b - 1) \subseteq Bytes(r) \ Durable(q)
      BY <1>9
    <3>4. W[k] = FetchedPiece(bytes, G[l])
      BY <3>1 DEF new
    <3> HIDE DEF a, b
    <3>5. W[k] = FetchedPiece(bytes, <<a, b>>)
      BY <3>2, <3>4
    <3> QED BY <3>2, <3>3, <3>5 DEF FromGap
  <2>2. W[k] \in S \/ W[k] \in A
    BY <1>14
  <2> QED BY <2>1, <2>2
<1>17. \A e \in S : \E k \in DOMAIN W : W[k] = e
  BY <1>14
<1>18. Durable(W) = Durable(q) \cup Bytes(r)
  BY <1>15
<1> QED BY <1>14, <1>16, <1>17, <1>18 DEF S

-----------------------------------------------------------------------------
(* The durable length.                                                      *)

\* Where the sum of the lengths is after an extent.
Longer(sum, e) == sum + (e.end - e.start)

\* The sum of durable_extent_bytes, extent by extent.
LEMMA LengthUnfolds ==
    ASSUME NEW q \in Seq(Extent)
    PROVE  \E f \in [0..Len(q) -> Int] :
              /\ f[0] = 0
              /\ \A i \in 1..Len(q) : f[i] = Longer(f[i - 1], q[i])
              /\ DurableExtentBytes(q) = f[Len(q)]
<1> DEFINE n == Len(q)
           none == 0
           step == [p \in (1..n) \X Int |-> Longer(p[2], q[p[1]])]
           Chain(f) == [i \in 0..n |-> IF i = 0 THEN 0 ELSE f[i - 1] + (q[i].end - q[i].start)]
<1>1. n \in Nat /\ \A i \in 1..n : q[i].start \in Nat /\ q[i].end \in Nat
  BY ListedExtents
<1>2. step \in Successors(n, Int)
  <2>1. ASSUME NEW x \in Int, NEW i \in 1..n PROVE Longer(x, q[i]) \in Int
    BY <1>1 DEF Longer
  <2> QED BY <2>1 DEF Successors
<1>3. PICK g \in [0..n -> Int] : g[0] = none /\ \A i \in 1..n : g[i] = step[<<i, g[i - 1]>>]
  <2>0. none \in Int
    OBVIOUS
  <2> HIDE DEF n, step, none
  <2>1. Iterable(n, Int, none, step)
    BY <1>1, <1>2, <2>0, RecursionExists
  <2> QED BY <2>1 DEF Iterable, Iterates
<1>4. ASSUME NEW i \in 1..n PROVE i - 1 \in 0..n /\ g[i - 1] \in Int /\ g[i] = Longer(g[i - 1], q[i])
  <2>1. i - 1 \in 0..n /\ g[i - 1] \in Int
    BY SMTT(30), <1>1
  <2>2. step[<<i, g[i - 1]>>] = Longer(g[i - 1], q[i])
    BY <2>1
  <2> QED BY <1>3, <2>1, <2>2
<1>5. g = Chain(g)
  <2>1. \A i \in 0..n : i # 0 => i \in 1..n
    BY <1>1
  <2> HIDE DEF step, n
  <2>2. \A i \in 0..n : g[i] = Chain(g)[i]
    BY <1>3, <1>4, <2>1 DEF Longer
  <2> QED BY <2>2
<1> DEFINE bytes == CHOOSE f : f = Chain(f)
<1>6. bytes = Chain(bytes)
  <2> HIDE DEF Chain
  <2> QED BY <1>5
<1>7. DurableExtentBytes(q) = bytes[n]
  BY DEF DurableExtentBytes
<1> HIDE DEF bytes, step
<1>8. \A m \in 0..n : bytes[m] = g[m]
  <2> DEFINE T == {m \in 0..n : bytes[m] = g[m]}
  <2>1. 0 \in T
    BY <1>1, <1>3, <1>6
  <2>2. ASSUME NEW m \in 0..(n - 1), m \in T PROVE m + 1 \in T
    <3>1. m + 1 \in 1..n /\ m + 1 \in 0..n /\ (m + 1) - 1 = m /\ m + 1 # 0
      BY <1>1
    <3>2. bytes[m + 1] = Longer(bytes[m], q[m + 1])
      BY <1>6, <3>1 DEF Longer
    <3>3. g[m + 1] = Longer(g[m], q[m + 1])
      BY <1>4, <3>1
    <3> QED BY <2>2, <3>1, <3>2, <3>3
  <2> HIDE DEF T, n
  <2>3. \A m \in 0..n : m \in T
    BY <1>1, <2>1, <2>2, InductionUpTo
  <2> QED BY <2>3 DEF T
<1>9. n \in 0..n
  BY <1>1
<1> QED BY <1>3, <1>4, <1>7, <1>8, <1>9

\* When everything is durable the lengths add up to the resource.
LEMMA WholeLength ==
    ASSUME NEW q \in Seq(Extent), Ordered(q), \A p \in 0..(Total - 1) : p \in Durable(q)
    PROVE  DurableExtentBytes(q) = Total
<1> DEFINE n == Len(q)
<1>1. /\ n \in Nat /\ DOMAIN q = 1..n /\ Total \in Nat /\ Total > 0
      /\ \A i \in 1..n : q[i].start \in Nat /\ q[i].end \in Nat
      /\ \A i \in 1..n : q[i].start < q[i].end /\ q[i].end <= Total
      /\ \A i, j \in 1..n : i < j => q[i].end <= q[j].start
  BY ListedExtents, SizesAreNumbers DEF Ordered
<1>2. PICK f \in [0..n -> Int] : /\ f[0] = 0
                                 /\ \A i \in 1..n : f[i] = Longer(f[i - 1], q[i])
                                 /\ DurableExtentBytes(q) = f[n]
  BY LengthUnfolds
<1> HIDE DEF n
<1>3. \A p \in 0..(Total - 1) : \E i \in 1..n : q[i].start <= p /\ p < q[i].end
  BY <1>1, DurableBytes
<1>4. n >= 1 /\ q[1].start = 0
  <2>1. 0 \in 0..(Total - 1)
    BY <1>1
  <2>2. PICK i \in 1..n : q[i].start <= 0 /\ 0 < q[i].end
    BY <1>3, <2>1
  <2>3. n >= 1 /\ 1 \in 1..n /\ q[i].start = 0
    BY <1>1, <2>2
  <2>4. i = 1
    <3> SUFFICES ASSUME i # 1 PROVE FALSE
      OBVIOUS
    <3>1. 1 < i
      BY <1>1
    <3>2. q[1].end <= q[i].start /\ q[1].start < q[1].end /\ q[1].start \in Nat /\ q[1].end \in Nat
      BY <1>1, <2>3, <3>1
    <3> QED BY <2>3, <3>2
  <2> QED BY <2>3, <2>4
<1>5. ASSUME NEW i \in 1..n, i + 1 \in 1..n PROVE q[i + 1].start = q[i].end
  <2> DEFINE p == q[i].end
             d == q[i + 1]
  <2>1. /\ p \in Nat /\ d.start \in Nat /\ d.end \in Nat /\ p <= d.start /\ d.start < d.end /\ d.end <= Total
        /\ i \in Int /\ i < i + 1
    BY <1>1, <1>5
  <2>2. p \in 0..(Total - 1)
    BY SMTT(30), <1>1, <2>1
  <2> HIDE DEF p
  <2>3. PICK k \in 1..n : q[k].start <= p /\ p < q[k].end
    BY <1>3, <2>2
  <2>4. q[k].start \in Nat /\ q[k].end \in Nat /\ k \in Int
    BY <1>1
  <2>5. ~(k <= i)
    <3> SUFFICES ASSUME k <= i PROVE FALSE
      OBVIOUS
    <3>1. CASE k = i
      BY <2>3, <2>4, <3>1 DEF p
    <3>2. CASE k < i
      <4>1. q[k].end <= q[i].start /\ q[i].start < q[i].end /\ q[i].start \in Nat /\ q[i].end \in Nat
        BY <1>1, <3>2
      <4> QED BY SMTT(30), <2>3, <2>4, <4>1 DEF p
    <3> QED BY <2>1, <2>4, <3>1, <3>2
  <2>6. ~(k > i + 1)
    <3> SUFFICES ASSUME k > i + 1 PROVE FALSE
      OBVIOUS
    <3>1. d.end <= q[k].start
      BY <1>1, <1>5
    <3> QED BY SMTT(30), <2>1, <2>3, <2>4, <3>1
  <2>7. k = i + 1
    BY <2>1, <2>4, <2>5, <2>6
  <2>8. d.start <= p
    BY <2>3, <2>7
  <2> QED BY SMTT(30), <2>1, <2>8 DEF p, d
<1> DEFINE Sum(i) == i = 0 \/ f[i] = q[i].end
           T == {i \in 0..n : Sum(i)}
<1>6. 0 \in T
  BY <1>1
<1>7. ASSUME NEW m \in 0..(n - 1), m \in T PROVE m + 1 \in T
  <2>1. m + 1 \in 1..n /\ m + 1 \in 0..n /\ (m + 1) - 1 = m /\ m \in Nat
    BY <1>1
  <2>2. f[m + 1] = f[m] + (q[m + 1].end - q[m + 1].start)
    BY <1>2, <2>1 DEF Longer
  <2>3. q[m + 1].start \in Nat /\ q[m + 1].end \in Nat
    BY <1>1, <2>1
  <2>4. f[m] = q[m + 1].start
    <3>1. CASE m = 0
      BY <1>2, <1>4, <3>1
    <3>2. CASE m # 0
      <4>1. m \in 1..n /\ f[m] = q[m].end
        BY <1>7, <2>1, <3>2
      <4> QED BY <1>5, <2>1, <4>1
    <3> QED BY <3>1, <3>2
  <2>5. f[m + 1] = q[m + 1].end
    BY <2>2, <2>3, <2>4
  <2> QED BY <2>1, <2>5
<1>8. f[n] = q[n].end
  <2> HIDE DEF T
  <2>1. \A i \in 0..n : i \in T
    BY <1>1, <1>6, <1>7, InductionUpTo
  <2>2. n \in 0..n /\ n # 0
    BY <1>1, <1>4
  <2> QED BY <2>1, <2>2 DEF T
<1>9. q[n].end = Total
  <2>1. Total - 1 \in 0..(Total - 1) /\ n \in 1..n
    BY <1>1, <1>4
  <2>2. PICK i \in 1..n : q[i].start <= Total - 1 /\ Total - 1 < q[i].end
    BY <1>3, <2>1
  <2>3. q[i].end \in Nat /\ q[n].start \in Nat /\ q[n].end \in Nat /\ q[n].start < q[n].end /\ q[n].end <= Total
    BY <1>1, <2>1
  <2>4. i = n
    <3> SUFFICES ASSUME i # n PROVE FALSE
      OBVIOUS
    <3>1. i < n
      BY <1>1
    <3>2. q[i].end <= q[n].start
      BY <1>1, <2>1, <3>1
    <3> QED BY SMTT(30), <1>1, <2>2, <2>3, <3>2
  <2> QED BY <1>1, <2>2, <2>3, <2>4
<1> QED BY <1>2, <1>8, <1>9

-----------------------------------------------------------------------------
(* Plans.                                                                   *)

Spans == Nat \X (0..Total)

\* The parents of a request end within the resource.
LEMMA LogicalParentIsSpan ==
    ASSUME NEW total \in Nat, NEW offset \in Nat
    PROVE  /\ LogicalRangeParent(total, offset)[1] \in Nat
           /\ LogicalRangeParent(total, offset)[2] \in Nat
           /\ LogicalRangeParent(total, offset)[2] <= total
<1> DEFINE first == AtMost(total, StartupChunk)
           size == ParentSize(total)
           start == first + ((offset - first) \div size) * size
<1>1. first \in Nat /\ first <= total
  BY SizesAreNumbers DEF AtMost
<1>2. size \in Nat \ {0}
  <2> DEFINE wanted == DivCeil(total - first, AtLeast(MaxChunks - 1, 1))
  <2>1. AtLeast(MaxChunks - 1, 1) \in Nat \ {0}
    BY SizesAreNumbers DEF AtLeast
  <2>2. wanted \in Int
    BY <1>1, <2>1 DEF DivCeil
  <2>3. size = Clamp(wanted, MinChunk, MaxChunk)
    BY DEF ParentSize
  <2> HIDE DEF wanted, size
  <2> QED BY <2>2, <2>3, SizesAreNumbers DEF Clamp, AtMost, AtLeast
<1>3. LogicalRangeParent(total, offset)
        = IF total = 0 \/ offset >= total THEN NoRange
          ELSE IF offset < first THEN <<0, first>> ELSE <<start, AtMost(start + size, total)>>
  BY DEF LogicalRangeParent
<1>4. CASE total = 0 \/ offset >= total
  BY <1>3, <1>4 DEF NoRange
<1>5. CASE ~(total = 0 \/ offset >= total) /\ offset < first
  BY <1>1, <1>3, <1>5
<1>6. CASE ~(total = 0 \/ offset >= total) /\ ~(offset < first)
  <2> HIDE DEF first, size
  <2>1. offset - first \in Nat
    BY <1>1, <1>6
  <2>2. (offset - first) \div size \in Nat
    BY <1>2, <2>1
  <2>3. ((offset - first) \div size) * size \in Nat
    BY <1>2, <2>2
  <2>4. start \in Nat
    BY <1>1, <2>3
  <2> HIDE DEF start
  <2>5. AtMost(start + size, total) \in Nat /\ AtMost(start + size, total) <= total
    BY <1>2, <2>4 DEF AtMost
  <2> QED BY <1>3, <1>6, <2>4, <2>5
<1> QED BY <1>4, <1>5, <1>6

\* The chunks of a request are offsets of the resource.
LEMMA ForegroundChunksAreSpans ==
    ASSUME NEW total \in Nat, total <= Total, NEW r \in Pair, NEW q
    PROVE  PlannedForegroundChunks(total, r, q) \subseteq Spans
<1> DEFINE wanted == <<r[1], AtMost(r[2], total)>>
           Cut(p) == {<<p[1] + k * ForegroundChunk, AtMost(p[1] + (k + 1) * ForegroundChunk, p[2])>> :
                        k \in 0 .. DivCeil(p[2] - p[1], ForegroundChunk) - 1}
           parents == {LogicalRangeParent(total, o) : o \in Bytes(wanted)}
<1>1. ForegroundChunk \in Nat \ {0} /\ Total \in Nat /\ r[1] \in Nat /\ r[2] \in Nat
  BY SizesAreNumbers DEF Pair
<1>2. \A o \in Bytes(wanted) : o \in Nat
  BY <1>1 DEF Bytes, AtMost
<1>3. \A p \in parents : p[1] \in Nat /\ p[2] \in Nat /\ p[2] <= Total
  <2> TAKE p \in parents
  <2>1. PICK o \in Bytes(wanted) : p = LogicalRangeParent(total, o)
    OBVIOUS
  <2>2. o \in Nat
    BY <1>2
  <2>3. p[1] \in Nat /\ p[2] \in Nat /\ p[2] <= total
    BY <2>1, <2>2, LogicalParentIsSpan
  <2> QED BY <1>1, <2>3
<1>4. ASSUME NEW p \in parents, NEW x \in Cut(p) PROVE x \in Spans
  <2>1. p[1] \in Nat /\ p[2] \in Nat /\ p[2] <= Total
    BY <1>3
  <2>2. PICK k \in 0 .. DivCeil(p[2] - p[1], ForegroundChunk) - 1 :
           x = <<p[1] + k * ForegroundChunk, AtMost(p[1] + (k + 1) * ForegroundChunk, p[2])>>
    OBVIOUS
  <2>3. k \in Nat
    <3>1. DivCeil(p[2] - p[1], ForegroundChunk) \in Int
      BY <1>1, <2>1 DEF DivCeil
    <3> QED BY <3>1
  <2>4. k * ForegroundChunk \in Nat /\ (k + 1) * ForegroundChunk \in Nat
    BY <1>1, <2>3
  <2>5. p[1] + k * ForegroundChunk \in Nat /\ AtMost(p[1] + (k + 1) * ForegroundChunk, p[2]) \in 0..Total
    BY <1>1, <2>1, <2>4 DEF AtMost
  <2> QED BY <2>2, <2>5 DEF Spans
<1>5. \A x \in PlannedForegroundChunks(total, r, q) : \E p \in parents : x \in Cut(p)
  <2> HIDE DEF Cut, parents
  <2>1. PlannedForegroundChunks(total, r, q) \subseteq UNION {Cut(p) : p \in parents}
    BY DEF PlannedForegroundChunks, Cut, parents
  <2> QED BY <2>1
<1> HIDE DEF Cut, parents
<1> QED BY <1>4, <1>5

\* The gaps a fill asks for are offsets of the resource.
LEMMA GapsAreSpans ==
    ASSUME NEW total \in Nat, total <= Total, NEW r, NEW q \in Seq(Extent), Ordered(q)
    PROVE  PlannedGaps(total, r, q) \subseteq Spans
<1> SUFFICES ASSUME NEW x \in PlannedGaps(total, r, q) PROVE x \in Spans
  OBVIOUS
<1>1. PICK p \in ToSet(PlannedRangeChunks(total)) : x \in ToSet(MissingRangesWithin(q, p))
  BY DEF PlannedGaps
<1>2. p \in Pair /\ p[2] <= total /\ p[1] \in Nat /\ p[2] \in Nat
  BY PlannedChunksAreSpans DEF Pair
<1> DEFINE G == MissingRangesWithin(q, p)
<1>3. PICK k \in DOMAIN G : x = G[k]
  BY <1>1 DEF ToSet
<1>4. CASE p[1] < p[2]
  <2>1. G \in Seq(Pair) /\ GapsIn(G, p[1], p[2], q)
    BY <1>2, <1>4, GapsAreExact
  <2> HIDE DEF G
  <2>2. x \in Pair /\ x[2] <= p[2]
    BY <1>3, <2>1 DEF GapsIn
  <2>3. x = <<x[1], x[2]>> /\ x[1] \in Nat /\ x[2] \in Nat
    BY <2>2 DEF Pair
  <2>4. x[2] \in 0..Total
    BY SMTT(30), <1>2, <2>2, <2>3, SizesAreNumbers
  <2> QED BY <2>3, <2>4 DEF Spans
<1>5. CASE ~(p[1] < p[2])
  <2>1. G = << >>
    BY SMTT(30), <1>2, <1>5 DEF MissingRangesWithin
  <2> QED BY <1>3, <2>1
<1> QED BY <1>4, <1>5

-----------------------------------------------------------------------------
(* The invariant.                                                           *)

Manifest == [total : Sizes, prefix : Seq(Data), origins : [Origins -> 0..2], extents : Seq(Extent)]
Disk == [partial : BOOLEAN, bytes : [Positions -> Data], final : {"none", "data", "full"},
         meta : BOOLEAN, saved : BOOLEAN, man : Manifest]
Client == [pc : Pcs, want : Pair, todo : SUBSET Spans, range : Spans, snap : Manifest,
           left : SUBSET Origins, cand : Origins, obs : Origins, etag : 0..2,
           retried : BOOLEAN, passes : Nat]

\* Every origin serves one file all over, of the two there are.
StoreTypes ==
    /\ disk \in Disk
    /\ client \in [Clients -> Client]
    /\ content \in [Origins -> [Positions -> Byte]]
    /\ \A o \in Origins : \A p \in Positions : content[o][p] = content[o][0]
    /\ etag \in [Origins -> 1..2]
    /\ rolls \in Nat /\ hurts \in Nat /\ spurious \in BOOLEAN

Digested(bytes, q) == \A i \in DOMAIN q : Digest(bytes, RangeOf(q[i])) = q[i].sha

\* What a checkpoint says is so of the data file.
Backed(m, bytes) ==
    /\ Ordered(m.extents) /\ Len(m.extents) <= MaxChunks
    /\ Digested(bytes, m.extents)
    /\ \A p \in Durable(m.extents) : bytes[p] # Hole
    /\ m.prefix = Digest(bytes, <<0, Len(m.prefix)>>)
    /\ Bytes(<<0, Len(m.prefix)>>) \subseteq Durable(m.extents)
    /\ (m.prefix = << >>) <=> (m.extents = << >>)
    /\ m.extents # << >> => m.total = Total

GoodDisk(d) ==
    /\ d \in Disk
    /\ d.meta => /\ d.final # "none"
                 /\ d.final = "data" => \A p \in Positions : d.bytes[p] # Hole
    /\ d.saved => Backed(d.man, d.bytes)

StartupRange == <<0, AtMost(Total, StartupChunk)>>
Fetching == {"verify", "bind", "send", "reverify", "rebind", "commit"}
Asking == {"try"} \cup Fetching

\* Only the startup chunk is asked for before there is a prefix, and nothing is
\* before the length is known.
Placed(x, d) ==
    /\ x.pc = "total" /\ (x.snap.prefix # << >> \/ x.snap.extents # << >>)
       => d.man.prefix # << >>
    /\ x.pc \in {"plan", "next", "maintain"} => d.man.prefix # << >> \/ d.meta
    /\ x.pc \in {"admit", "wait", "own", "squeeze"}
       => x.range = StartupRange \/ d.man.prefix # << >> \/ d.meta
    /\ x.pc \in Asking => x.range = StartupRange \/ d.man.prefix # << >>
    /\ x.pc \notin {"idle", "ensure", "fullget", "publish", "finalize"}
       => (x.pc = "total" /\ x.snap.total = 0) \/ d.man.total = Total

\* A client beyond its ensure has a checkpoint or a completed file, and only
\* the fill completes one.
Fine(c, x, d) ==
    /\ d.saved \/ d.meta \/ x.pc \in {"idle", "ensure"}
    /\ x.pc \in {"finalize", "fullget", "publish"} => c \in Fillers
    /\ c \in Fillers /\ x.pc = "ensure" => ~d.meta
    /\ d.saved => Placed(x, d)

StoreInv == StoreTypes /\ GoodDisk(disk) /\ \A c \in Clients : Fine(c, client[c], disk)

AvailableIn(d) == IF d.meta THEN Positions
                  ELSE IF d.saved THEN Durable(d.man.extents) ELSE {}

\* What no step takes back.
Later(d, e) ==
    /\ d.meta => e.meta
    /\ AvailableIn(d) \subseteq AvailableIn(e)
    /\ d.saved /\ e.saved => /\ d.man.prefix # << >> => e.man.prefix # << >>
                             /\ d.man.total = Total => e.man.total = Total
    /\ e.saved /\ ~d.saved => ~d.meta
    /\ d.saved /\ ~e.saved => e.meta

\* A client stays fine when others work.
LEMMA FineStays ==
    ASSUME NEW c, NEW x, NEW d, NEW e, Later(d, e), Fine(c, x, d),
           d.meta \in BOOLEAN, d.saved \in BOOLEAN, e.meta \in BOOLEAN, e.saved \in BOOLEAN,
           c \in Fillers /\ x.pc = "ensure" => ~e.meta
    PROVE  Fine(c, x, e)
<1>1. e.saved \/ e.meta \/ x.pc \in {"idle", "ensure"}
  BY DEF Fine, Later
<1>2. ASSUME e.saved, d.saved PROVE Placed(x, e)
  <2>1. Placed(x, d)
    BY <1>2 DEF Fine
  <2>2. /\ d.man.prefix # << >> => e.man.prefix # << >>
        /\ d.man.total = Total => e.man.total = Total
        /\ d.meta => e.meta
    BY <1>2 DEF Later
  <2> QED BY <2>1, <2>2 DEF Placed
<1>3. ASSUME e.saved, ~d.saved PROVE Placed(x, e)
  <2>1. x.pc \in {"idle", "ensure"}
    BY <1>3 DEF Fine, Later
  <2> QED BY <2>1 DEF Placed, Asking, Fetching
<1> QED BY <1>1, <1>2, <1>3 DEF Fine

\* What a step of client c does to the files.
Safe(c, e) == /\ GoodDisk(e) /\ Later(disk, e)
              /\ e.meta => disk.meta \/ c \in Fillers

\* The rest of the state has its types.
Env == /\ content' = content
       /\ etag' \in [Origins -> 1..2]
       /\ rolls' \in Nat /\ hurts' \in Nat /\ spurious' \in BOOLEAN

\* One client moves, and the files change under it.
LEMMA ClientMoves ==
    ASSUME StoreInv, NEW c \in Clients, NEW n \in Client,
           client' = [client EXCEPT ![c] = n],
           Safe(c, disk'), Fine(c, n, disk'), Env
    PROVE  StoreInv' /\ Later(disk, disk')
<1>1. StoreTypes'
  BY DEF StoreInv, StoreTypes, Env, Safe, GoodDisk
<1>2. ASSUME NEW d \in Clients PROVE Fine(d, client'[d], disk')
  <2>1. CASE d = c
    <3>1. client'[d] = n
      BY <2>1 DEF StoreInv, StoreTypes
    <3> QED BY <2>1, <3>1
  <2>2. CASE d # c
    <3>1. client'[d] = client[d] /\ Fine(d, client[d], disk)
      BY <2>2 DEF StoreInv, StoreTypes
    <3>2. /\ disk.meta \in BOOLEAN /\ disk.saved \in BOOLEAN
          /\ disk'.meta \in BOOLEAN /\ disk'.saved \in BOOLEAN
      BY DEF StoreInv, StoreTypes, Safe, GoodDisk, Disk
    <3>3. d \in Fillers /\ client[d].pc = "ensure" => ~disk'.meta
      BY <2>2, <3>1, StoreAssumption DEF Fine, Safe
    <3>4. Later(disk, disk')
      BY DEF Safe
    <3> QED BY <3>1, <3>2, <3>3, <3>4, FineStays
  <2> QED BY <2>1, <2>2
<1>3. GoodDisk(disk')
  BY DEF Safe
<1> QED BY <1>1, <1>2, <1>3 DEF StoreInv, Safe

\* Files that stay as they are.
LEMMA NothingChanges ==
    ASSUME StoreInv, NEW c PROVE Safe(c, disk)
<1>1. GoodDisk(disk)
  BY DEF StoreInv
<1>2. Later(disk, disk)
  BY DEF Later
<1> QED BY <1>1, <1>2 DEF Safe

\* Only the client moves.
LEMMA OnlyTheClient ==
    ASSUME StoreInv, NEW c \in Clients, NEW n \in Client,
           client' = [client EXCEPT ![c] = n], Fine(c, n, disk), Env, disk' = disk
    PROVE  StoreInv' /\ Later(disk, disk')
<1>1. Safe(c, disk)
  BY NothingChanges
<1> QED BY <1>1, ClientMoves

-----------------------------------------------------------------------------
(* What the steps do to the files.                                          *)

\* The fields of a checkpoint and of the files.
LEMMA DiskFields ==
    ASSUME NEW d \in Disk
    PROVE  /\ d.partial \in BOOLEAN /\ d.meta \in BOOLEAN /\ d.saved \in BOOLEAN
           /\ d.bytes \in [Positions -> Data] /\ d.final \in {"none", "data", "full"}
           /\ d.man \in Manifest
           /\ d.man.total \in Nat /\ d.man.total <= Total
           /\ d.man.prefix \in Seq(Data) /\ d.man.extents \in Seq(Extent)
           /\ d.man.origins \in [Origins -> 0..2]
BY SizesAreNumbers DEF Disk, Manifest, Sizes

\* A checkpoint without extents has nothing durable, and the other way round.
LEMMA NothingDurable ==
    ASSUME NEW q \in Seq(Extent), Ordered(q)
    PROVE  q = << >> <=> Durable(q) = {}
<1>1. ASSUME q = << >> PROVE Durable(q) = {}
  <2>1. DOMAIN q = {}
    BY <1>1
  <2> QED BY <2>1 DEF Durable
<1>2. ASSUME q # << >> PROVE Durable(q) # {}
  <2>1. Len(q) # 0
    BY <1>2, EmptySeq
  <2>2. /\ 1 \in DOMAIN q /\ q[1].start \in Nat /\ q[1].end \in Nat
    BY <2>1, ListedExtents
  <2>3. q[1].start < q[1].end
    BY <2>2 DEF Ordered
  <2>4. q[1].start \in Durable(q)
    BY <2>2, <2>3, DurableBytes
  <2> QED BY <2>4
<1> QED BY <1>1, <1>2

\* A new checkpoint is backed by any file.
LEMMA NewIsBacked ==
    ASSUME NEW size \in Sizes, NEW bytes \in [Positions -> Data]
    PROVE  NewManifest(size) \in Manifest /\ Backed(NewManifest(size), bytes)
<1> DEFINE m == NewManifest(size)
<1>1. m.extents = << >> /\ m.prefix = << >> /\ m.total = size
  BY DEF NewManifest
<1>2. << >> \in Seq(Extent) /\ << >> \in Seq(Data)
  OBVIOUS
<1>3. m \in Manifest
  BY <1>2 DEF NewManifest, Manifest, Unbound
<1> HIDE DEF m
<1>4. DOMAIN m.extents = {} /\ Len(m.extents) = 0 /\ Len(m.prefix) = 0
  BY <1>1
<1>5. Ordered(m.extents)
  BY <1>4 DEF Ordered
<1>6. Durable(m.extents) = {}
  BY <1>1, <1>2, <1>5, NothingDurable
<1>7. Digest(bytes, <<0, 0>>) = << >>
  <2>1. Digest(bytes, <<0, 0>>) \in Seq(Data) /\ Len(Digest(bytes, <<0, 0>>)) = 0 - 0
    BY SizesAreNumbers, DigestIsSeq
  <2> QED BY <2>1, EmptySeq
<1>8. Bytes(<<0, 0>>) = {}
  BY DEF Bytes
<1>9. Backed(m, bytes)
  BY <1>1, <1>4, <1>5, <1>6, <1>7, <1>8, SizesAreNumbers DEF Backed, Digested
<1> QED BY <1>3, <1>9 DEF m

\* create_data_object and the first checkpoint.
LEMMA CreatedIsSafe ==
    ASSUME StoreInv, NEW c \in Clients, At(c, "ensure"), Load = "none",
           c \in Readers => CompletedReady = "none", NEW size \in Sizes
    PROVE  /\ Len(EnsureStages(size)) = 2
           /\ \A k \in 1..2 : Safe(c, EnsureStages(size)[k])
           /\ ~disk.meta /\ ~disk.saved
<1> DEFINE created == [disk EXCEPT !.partial = TRUE, !.bytes = EmptyDisk.bytes]
           saved == [created EXCEPT !.saved = TRUE, !.man = NewManifest(size)]
<1>1. GoodDisk(disk) /\ disk \in Disk
  BY DEF StoreInv, GoodDisk
<1>2. ~disk.saved /\ ~disk.partial
  BY DEF Load
<1>3. ~disk.meta
  <2>1. CASE c \in Readers
    BY <2>1 DEF CompletedReady
  <2>2. CASE c \in Fillers
    BY <2>2 DEF StoreInv, Fine, At
  <2> QED BY <2>1, <2>2 DEF Clients
<1>4. EmptyDisk.bytes \in [Positions -> Data]
  BY DEF EmptyDisk, Data
<1>5. /\ created \in Disk /\ created.meta = disk.meta /\ created.saved = disk.saved
      /\ saved.meta = disk.meta /\ saved.saved = TRUE /\ saved.man = NewManifest(size)
      /\ saved.bytes = EmptyDisk.bytes
  BY <1>1, <1>4 DEF Disk
<1>6. NewManifest(size) \in Manifest /\ Backed(NewManifest(size), EmptyDisk.bytes)
  BY <1>4, NewIsBacked
<1>7. saved \in Disk
  BY <1>5, <1>6 DEF Disk
<1>8. EnsureStages(size) = <<created, saved>>
  BY DEF EnsureStages
<1> HIDE DEF created, saved
<1>9. Safe(c, created)
  BY <1>2, <1>3, <1>5 DEF Safe, GoodDisk, Later, AvailableIn
<1>10. Safe(c, saved)
  BY <1>2, <1>3, <1>5, <1>6, <1>7 DEF Safe, GoodDisk, Later, AvailableIn
<1>11. Len(EnsureStages(size)) = 2 /\ EnsureStages(size)[1] = created /\ EnsureStages(size)[2] = saved
  BY <1>8
<1>12. \A k \in 1..2 : k = 1 \/ k = 2
  OBVIOUS
<1> QED BY <1>2, <1>3, <1>9, <1>10, <1>11, <1>12

\* A checkpoint that says no more of the file than before.
LEMMA SameExtentsAreSafe ==
    ASSUME StoreInv, NEW c, NEW m \in Manifest, disk.saved, NEW e,
           e = [disk EXCEPT !.man = m],
           m.extents = man.extents, m.prefix = man.prefix, m.total \in {man.total, Total}
    PROVE  Safe(c, e)
<1>1. GoodDisk(disk) /\ disk \in Disk
  BY DEF StoreInv, GoodDisk
<1>2. /\ e \in Disk /\ e.meta = disk.meta /\ e.saved = disk.saved /\ e.bytes = disk.bytes
      /\ e.final = disk.final /\ e.man = m
  BY <1>1 DEF Disk
<1>3. Backed(m, disk.bytes)
  BY <1>1 DEF GoodDisk, Backed, man
<1>4. Later(disk, e)
  BY <1>2 DEF Later, AvailableIn, man
<1> QED BY <1>1, <1>2, <1>3, <1>4 DEF Safe, GoodDisk

\* Bytes come and go only outside what an extent list accounts for.
LEMMA DigestsStay ==
    ASSUME NEW q \in Seq(Extent), Ordered(q), NEW x, NEW y, \A p \in Durable(q) : x[p] = y[p],
           Digested(x, q)
    PROVE  Digested(y, q)
<1>1. ASSUME NEW i \in DOMAIN q
      PROVE Digest(x, RangeOf(q[i])) = Digest(y, RangeOf(q[i]))
  <2>1. q[i].start \in Nat /\ q[i].end \in Nat /\ i \in DOMAIN q
    BY ListedExtents
  <2>2. \A p \in q[i].start..(q[i].end - 1) : x[p] = y[p]
    BY <2>1, DurableBytes
  <2> DEFINE a == q[i].start
             b == q[i].end
  <2> HIDE DEF a, b
  <2>3. a \in Nat /\ b \in Nat /\ \A p \in a..(b - 1) : x[p] = y[p]
    BY <2>1, <2>2 DEF a, b
  <2>4. Digest(x, <<a, b>>) = Digest(y, <<a, b>>)
    BY <2>3, DigestAgrees
  <2> QED BY <2>4 DEF RangeOf, a, b
<1> QED BY <1>1 DEF Digested

\* An extent with the digest of its bytes, and the bytes, in a list of such.
LEMMA MergedIsDigested ==
    ASSUME NEW q \in Seq(Extent), Ordered(q), NEW bytes \in [Positions -> Data],
           Digested(bytes, q), NEW run, IsRun(q, run), NEW C,
           C = CoalesceSelected(q, run, Digest(bytes, run))
    PROVE  /\ C \in Seq(Extent) /\ Ordered(C) /\ Len(C) <= Len(q) /\ C # << >>
           /\ Durable(C) = Durable(q) /\ Digested(bytes, C)
<1>1. PICK i, j \in DOMAIN q : i < j /\ run = <<q[i].start, q[j].end>>
  BY DEF IsRun
<1> DEFINE a == q[i].start
           b == q[j].end
           sha == Digest(bytes, run)
<1>2. a \in Nat /\ b \in Nat /\ a <= b /\ b <= Total
  <2>1. q[i].start \in Nat /\ q[i].end \in Nat /\ q[j].start \in Nat /\ q[j].end \in Nat
    BY ListedExtents
  <2>2. q[i].start < q[i].end /\ q[i].end <= q[j].start /\ q[j].start < q[j].end /\ q[j].end <= Total
    BY <1>1 DEF Ordered
  <2> QED BY SMTT(30), <2>1, <2>2, SizesAreNumbers
<1> HIDE DEF a, b
<1>3. run = <<a, b>>
  BY <1>1 DEF a, b
<1>4. sha \in Seq(Data)
  BY <1>2, <1>3, DigestIsSeq
<1> HIDE DEF sha
<1>5. /\ C \in Seq(Extent) /\ Ordered(C) /\ Len(C) <= Len(q) /\ C # << >>
      /\ Durable(C) = Durable(q)
      /\ \A k \in DOMAIN C : C[k] = Piece(run, sha) \/ C[k] \in ToSet(q)
  <2>1. C = CoalesceSelected(q, run, sha)
    BY DEF sha
  <2> QED BY <1>4, <2>1, CoalesceFacts
<1>6. ASSUME NEW k \in DOMAIN C PROVE Digest(bytes, RangeOf(C[k])) = C[k].sha
  <2>1. CASE C[k] = Piece(run, sha)
    <3>1. RangeOf(C[k]) = run /\ C[k].sha = sha
      BY <1>3, <2>1 DEF Piece, RangeOf
    <3> QED BY <3>1 DEF sha
  <2>2. CASE C[k] \in ToSet(q)
    <3>1. PICK l \in DOMAIN q : C[k] = q[l]
      BY <2>2 DEF ToSet
    <3> QED BY <3>1 DEF Digested
  <2> QED BY <1>5, <2>1, <2>2
<1> QED BY <1>5, <1>6 DEF Digested

\* compact_one_complete_range_parent.
LEMMA CompactedIsSafe ==
    ASSUME StoreInv, NEW c, CanCompact
    PROVE  Safe(c, Compacted) /\ Compacted.saved = disk.saved /\ Compacted.meta = disk.meta
           /\ Compacted.man.prefix = man.prefix /\ Compacted.man.total = man.total
           /\ Durable(Compacted.man.extents) = Durable(man.extents)
           /\ Compacted.bytes = disk.bytes /\ Compacted.man.origins = man.origins
           /\ Compacted.final = disk.final /\ Compacted.partial = disk.partial
<1> DEFINE run == FirstCompaction(man.extents, man.total, Whole)
           q == man.extents
           C == CoalesceSelected(q, run, Digest(disk.bytes, run))
           e == Compacted
<1>1. disk \in Disk /\ GoodDisk(disk) /\ disk.saved
  BY DEF StoreInv, GoodDisk, CanCompact, Load
<1>2. Backed(man, disk.bytes)
  BY <1>1 DEF GoodDisk, man
<1>3. q \in Seq(Extent) /\ man.total \in Nat /\ disk.bytes \in [Positions -> Data] /\ man \in Manifest
  BY <1>1, DiskFields DEF man
<1>4. Ordered(q) /\ Len(q) <= MaxChunks /\ Digested(disk.bytes, q)
  BY <1>2 DEF Backed
<1>5. run # NoRange
  BY DEF CanCompact
<1> HIDE DEF q
<1>6. IsRun(q, run)
  BY <1>3, <1>4, <1>5, FirstCompactionIsRun DEF q
<1> HIDE DEF run
<1>7. /\ C \in Seq(Extent) /\ Ordered(C) /\ Len(C) <= Len(q) /\ C # << >>
      /\ Durable(C) = Durable(q) /\ Digested(disk.bytes, C)
  BY <1>3, <1>4, <1>6, MergedIsDigested
<1>8. e = [disk EXCEPT !.man.extents = C]
  BY DEF Compacted, C, q, run, man
<1> HIDE DEF C, e
<1>9. /\ e.meta = disk.meta /\ e.saved = disk.saved /\ e.bytes = disk.bytes
      /\ e.final = disk.final /\ e.man = [man EXCEPT !.extents = C] /\ e.partial = disk.partial
      /\ e.man.prefix = man.prefix /\ e.man.total = man.total /\ e.man.extents = C
      /\ e.man.origins = man.origins
  BY <1>1, <1>8 DEF Disk, Manifest, man
<1>10. e \in Disk
  <2>1. [man EXCEPT !.extents = C] \in Manifest
    BY <1>3, <1>7 DEF Manifest
  <2> QED BY <1>1, <1>8, <1>9, <2>1 DEF Disk, man
<1>11. q # << >>
  BY <1>3, <1>4, <1>7, NothingDurable
<1>12. Len(C) <= MaxChunks
  <2>1. Len(C) \in Nat /\ Len(q) \in Nat
    BY <1>3, <1>7
  <2> QED BY <1>4, <1>7, <2>1, SizesAreNumbers
<1>13. Backed(e.man, e.bytes)
  BY <1>2, <1>7, <1>9, <1>11, <1>12 DEF Backed, q
<1>14. Later(disk, e)
  BY <1>7, <1>9 DEF Later, AvailableIn, man, q
<1>15. Safe(c, e)
  BY <1>1, <1>9, <1>10, <1>13, <1>14 DEF Safe, GoodDisk
<1> QED BY <1>7, <1>9, <1>15 DEF e, q

\* A client that commits: its range and the bytes it has.
LEMMA CommitTypes ==
    ASSUME StoreInv, NEW c \in Clients, At(c, "commit"), Load = "ok"
    PROVE  /\ Here(c) \in Client /\ Here(c).range \in Pair /\ Here(c).range[2] <= Total
           /\ Here(c).range[1] \in Nat /\ Here(c).range[2] \in Nat
           /\ Here(c).obs \in Origins /\ Here(c).etag \in 0..2
           /\ content[Here(c).obs] \in [Positions -> Byte]
           /\ content[Here(c).obs] \in [Positions -> Data]
           /\ disk \in Disk /\ disk.saved /\ Backed(man, disk.bytes) /\ Fine(c, Here(c), disk)
           /\ man.total = Total
           /\ Here(c).range = StartupRange \/ man.prefix # << >>
<1>1. Here(c) \in Client /\ Fine(c, Here(c), disk) /\ disk \in Disk /\ GoodDisk(disk)
  BY DEF StoreInv, StoreTypes, GoodDisk, Here
<1>2. disk.saved
  BY DEF Load
<1>3. Placed(Here(c), disk) /\ Backed(man, disk.bytes)
  BY <1>1, <1>2 DEF Fine, GoodDisk, man
<1>4. Here(c).range \in Spans /\ Here(c).obs \in Origins /\ Here(c).etag \in 0..2
  BY <1>1 DEF Client
<1>5. /\ Here(c).range \in Pair /\ Here(c).range[2] <= Total
      /\ Here(c).range[1] \in Nat /\ Here(c).range[2] \in Nat
  BY <1>4, SizesAreNumbers DEF Spans, Pair
<1>6. content[Here(c).obs] \in [Positions -> Byte]
  BY <1>4 DEF StoreInv, StoreTypes
<1>7. content[Here(c).obs] \in [Positions -> Data]
  BY <1>6 DEF Data
<1>8. /\ man.total = Total
      /\ Here(c).range = StartupRange \/ man.prefix # << >>
  BY <1>3 DEF Placed, At, Here, man, Asking, Fetching
<1> QED BY <1>1, <1>2, <1>3, <1>4, <1>5, <1>6, <1>7, <1>8

\* The bytes a commit writes leave the durable ones alone.
LEMMA WrittenBytes ==
    ASSUME StoreInv, NEW c \in Clients, At(c, "commit"), Load = "ok", NEW W, W = WithGapBytes(c)
    PROVE  /\ W \in [Positions -> Data]
           /\ \A p \in Durable(man.extents) : W[p] = disk.bytes[p]
           /\ \A p \in Bytes(Here(c).range) \ Durable(man.extents) : W[p] = content[Here(c).obs][p]
           /\ \A p \in Positions : p \notin Bytes(Here(c).range) => W[p] = disk.bytes[p]
           /\ Bytes(Here(c).range) \subseteq Positions /\ Durable(man.extents) \subseteq Positions
<1>1. /\ Here(c).range[1] \in Nat /\ Here(c).range[2] \in Nat /\ Here(c).range[2] <= Total
      /\ content[Here(c).obs] \in [Positions -> Data]
      /\ disk \in Disk /\ Backed(man, disk.bytes)
  BY CommitTypes
<1>2. Positions = 0..(Total - 1) /\ Total \in Nat
  BY SizesAreNumbers DEF Positions, Bytes, Whole
<1>3. Bytes(Here(c).range) \subseteq Positions
  BY <1>1, <1>2 DEF Bytes
<1>4. man.extents \in Seq(Extent) /\ disk.bytes \in [Positions -> Data] /\ Ordered(man.extents)
  BY <1>1, DiskFields DEF man, Backed
<1>5. ASSUME NEW p \in Durable(man.extents) PROVE p \in Positions
  <2>1. PICK i \in DOMAIN man.extents : man.extents[i].start <= p /\ p < man.extents[i].end /\ p \in Int
    BY <1>4, DurableBytes
  <2>2. man.extents[i].start \in Nat /\ man.extents[i].end \in Nat /\ man.extents[i].end <= Total
    BY <1>4, ListedExtents DEF Ordered
  <2> QED BY <1>2, <2>1, <2>2
<1>6. W = [p \in Positions |-> IF p \in Bytes(Here(c).range) \ Durable(man.extents)
                               THEN content[Here(c).obs][p] ELSE disk.bytes[p]]
  BY DEF WithGapBytes
<1> QED BY <1>1, <1>3, <1>4, <1>5, <1>6

\* The extents a commit adds are backed by what it writes.
LEMMA FilledFacts ==
    ASSUME StoreInv, NEW c \in Clients, At(c, "commit"), Load = "ok",
           NEW W, W = WithGapBytes(c), NEW w, w = WithGaps(c)
    PROVE  /\ w \in Seq(Extent) /\ Ordered(w)
           /\ Durable(w) = Durable(man.extents) \cup Bytes(Here(c).range)
           /\ Digested(W, w)
           /\ \A e \in ToSet(man.extents) : e \in ToSet(w)
<1> DEFINE r == Here(c).range
           bytes == content[Here(c).obs]
           q == man.extents
<1>1. /\ r \in Pair /\ r[2] <= Total /\ bytes \in [Positions -> Data]
      /\ disk \in Disk /\ Backed(man, disk.bytes)
  BY CommitTypes
<1>2. q \in Seq(Extent) /\ Ordered(q) /\ Digested(disk.bytes, q)
  BY <1>1, DiskFields DEF man, Backed
<1>3. /\ \A p \in Durable(q) : W[p] = disk.bytes[p]
      /\ \A p \in Bytes(r) \ Durable(q) : W[p] = bytes[p]
  BY WrittenBytes
<1>4. w = Filled(q, r, bytes)
  BY DEF WithGaps, Filled, FetchedPiece
<1> HIDE DEF r, bytes, q
<1>5. /\ w \in Seq(Extent) /\ Ordered(w)
      /\ Durable(w) = Durable(q) \cup Bytes(r)
      /\ \A k \in DOMAIN w : w[k] \in ToSet(q) \/ FromGap(w[k], bytes, r, q)
      /\ \A e \in ToSet(q) : \E k \in DOMAIN w : w[k] = e
  BY <1>1, <1>2, <1>4, FillFacts
<1>6. Digested(W, q)
  <2>1. \A p \in Durable(q) : disk.bytes[p] = W[p]
    BY <1>3
  <2> QED BY <1>2, <2>1, DigestsStay
<1>7. ASSUME NEW k \in DOMAIN w PROVE Digest(W, RangeOf(w[k])) = w[k].sha
  <2>1. CASE w[k] \in ToSet(q)
    <3>1. PICK l \in DOMAIN q : w[k] = q[l]
      BY <2>1 DEF ToSet
    <3> QED BY <1>6, <3>1 DEF Digested
  <2>2. CASE FromGap(w[k], bytes, r, q)
    <3>1. PICK a \in Nat, b \in Nat : /\ w[k] = FetchedPiece(bytes, <<a, b>>)
                                      /\ a..(b - 1) \subseteq Bytes(r) \ Durable(q)
      BY <2>2 DEF FromGap
    <3>2. \A p \in a..(b - 1) : W[p] = bytes[p]
      BY <1>3, <3>1 DEF q, r, bytes
    <3>3. Digest(W, <<a, b>>) = Digest(bytes, <<a, b>>)
      BY SMTT(30), <3>2, DigestAgrees
    <3>4. w[k] = [start |-> a, end |-> b, sha |-> Digest(bytes, <<a, b>>)]
      BY <3>1 DEF FetchedPiece
    <3>5. w[k].start = a /\ w[k].end = b /\ w[k].sha = Digest(bytes, <<a, b>>)
      BY <3>4
    <3> QED BY <3>3, <3>5 DEF RangeOf
  <2> QED BY <1>5, <2>1, <2>2
<1>8. \A e \in ToSet(q) : e \in ToSet(w)
  BY <1>5 DEF ToSet
<1> QED BY <1>5, <1>7, <1>8 DEF Digested, q, r

\* The extents it saves.
LEMMA CommittedExtents ==
    ASSUME StoreInv, NEW c \in Clients, At(c, "commit"), Load = "ok",
           NEW W, W = WithGapBytes(c), NEW C, C = CommittedManifest(c).extents
    PROVE  /\ C \in Seq(Extent) /\ Ordered(C)
           /\ Durable(C) = Durable(man.extents) \cup Bytes(Here(c).range)
           /\ Digested(W, C)
           /\ C = WithGaps(c) \/ MayCompact(c)
<1> DEFINE w == WithGaps(c)
           run == IF MayCompact(c) THEN FirstCompaction(w, man.total, Here(c).range) ELSE NoRange
<1>1. /\ w \in Seq(Extent) /\ Ordered(w)
      /\ Durable(w) = Durable(man.extents) \cup Bytes(Here(c).range) /\ Digested(W, w)
  BY FilledFacts
<1>2. disk \in Disk /\ man.total = Total /\ Total \in Nat
  BY CommitTypes, SizesAreNumbers
<1>3. C = IF run = NoRange THEN w ELSE CoalesceSelected(w, run, Digest(W, run))
  BY <1>2 DEF CommittedManifest, Disk, Manifest, man
<1>4. CASE run = NoRange
  BY <1>1, <1>3, <1>4
<1>5. CASE run # NoRange
  <2>1. MayCompact(c) /\ run = FirstCompaction(w, man.total, Here(c).range)
    BY <1>5
  <2> HIDE DEF run, w
  <2>2. IsRun(w, run)
    BY <1>1, <1>2, <1>5, <2>1, FirstCompactionIsRun
  <2>3. W \in [Positions -> Data]
    BY WrittenBytes
  <2>4. /\ C \in Seq(Extent) /\ Ordered(C) /\ Durable(C) = Durable(w) /\ Digested(W, C)
    BY <1>1, <1>3, <1>5, <2>2, <2>3, MergedIsDigested
  <2> QED BY <1>1, <2>1, <2>4
<1> QED BY <1>4, <1>5

\* The rest of the checkpoint a commit saves.
LEMMA CommittedFields ==
    ASSUME StoreInv, NEW c \in Clients, At(c, "commit"), Load = "ok",
           NEW M, M = CommittedManifest(c)
    PROVE  /\ M \in Manifest /\ M.total = man.total
           /\ M.prefix = IF Here(c).range[1] = 0 /\ man.prefix = << >>
                         THEN Digest(content[Here(c).obs], <<0, AtMost(Here(c).range[2], StartupChunk)>>)
                         ELSE man.prefix
           /\ M.origins = [man.origins EXCEPT ![Here(c).obs] =
                              IF Here(c).range[1] = 0 THEN Here(c).etag ELSE @]
<1> DEFINE C == CommittedManifest(c).extents
           length == AtMost(Here(c).range[2], StartupChunk)
           first == Digest(content[Here(c).obs], <<0, length>>)
           prefix == IF Here(c).range[1] = 0 /\ man.prefix = << >> THEN first ELSE man.prefix
           origins == [man.origins EXCEPT ![Here(c).obs] =
                         IF Here(c).range[1] = 0 THEN Here(c).etag ELSE @]
<1>1. /\ Here(c).range[2] \in Nat /\ Here(c).range[2] <= Total /\ Here(c).etag \in 0..2
      /\ Here(c).obs \in Origins /\ content[Here(c).obs] \in [Positions -> Data] /\ disk \in Disk
  BY CommitTypes
<1>2. /\ man \in Manifest /\ man.prefix \in Seq(Data) /\ man.origins \in [Origins -> 0..2]
  BY <1>1, DiskFields DEF man
<1>3. length \in Nat /\ 0 <= length /\ length <= Total
  BY <1>1, SizesAreNumbers DEF AtMost
<1>4. first \in Seq(Data)
  <2> HIDE DEF length
  <2>1. 0 \in Nat
    OBVIOUS
  <2> QED BY <1>1, <1>3, <2>1, DigestIsSeq
<1>5. C \in Seq(Extent)
  BY CommittedExtents
<1> HIDE DEF length, first
<1>6. M = [man EXCEPT !.extents = C, !.prefix = prefix, !.origins = origins]
  BY <1>2 DEF CommittedManifest, Manifest, first, length
<1>7. prefix \in Seq(Data) /\ origins \in [Origins -> 0..2]
  <2>1. prefix \in Seq(Data)
    BY <1>2, <1>4
  <2>2. origins \in [Origins -> 0..2]
    BY <1>1, <1>2
  <2> QED BY <2>1, <2>2
<1> HIDE DEF C, prefix, origins
<1>8. M \in Manifest /\ M.total = man.total /\ M.prefix = prefix /\ M.origins = origins
  BY <1>2, <1>5, <1>6, <1>7 DEF Manifest
<1> QED BY <1>8 DEF prefix, origins, first, length

\* A commit writes data that backs the old checkpoint and the new one.
LEMMA CommitIsBacked ==
    ASSUME StoreInv, NEW c \in Clients, At(c, "commit"), Load = "ok", Fits(c),
           NEW M, M = CommittedManifest(c), NEW W, W = WithGapBytes(c)
    PROVE  /\ Backed(man, W) /\ Backed(M, W)
           /\ man.prefix # << >> => M.prefix = man.prefix
<1> DEFINE r == Here(c).range
           q == man.extents
           C == M.extents
           o == Here(c).obs
<1>1. /\ r \in Pair /\ r[1] \in Nat /\ r[2] \in Nat /\ r[2] <= Total
      /\ content[o] \in [Positions -> Byte]
      /\ disk \in Disk /\ Backed(man, disk.bytes) /\ man.total = Total
      /\ r = StartupRange \/ man.prefix # << >>
  BY CommitTypes
<1>2. q \in Seq(Extent) /\ man.prefix \in Seq(Data)
  BY <1>1, DiskFields DEF man
<1>3. /\ Ordered(q) /\ Len(q) <= MaxChunks /\ Digested(disk.bytes, q)
      /\ \A p \in Durable(q) : disk.bytes[p] # Hole
      /\ man.prefix = Digest(disk.bytes, <<0, Len(man.prefix)>>)
      /\ Bytes(<<0, Len(man.prefix)>>) \subseteq Durable(q)
      /\ (man.prefix = << >>) <=> (q = << >>)
  BY <1>1 DEF Backed
<1>4. /\ W \in [Positions -> Data]
      /\ \A p \in Durable(q) : W[p] = disk.bytes[p]
      /\ \A p \in Bytes(r) \ Durable(q) : W[p] = content[o][p]
      /\ Bytes(r) \subseteq Positions
  BY WrittenBytes
<1>5. /\ C \in Seq(Extent) /\ Ordered(C) /\ Durable(C) = Durable(q) \cup Bytes(r) /\ Digested(W, C)
  BY CommittedExtents
<1>6. /\ M \in Manifest /\ M.total = man.total
      /\ M.prefix = IF r[1] = 0 /\ man.prefix = << >>
                    THEN Digest(content[o], <<0, AtMost(r[2], StartupChunk)>>) ELSE man.prefix
  BY CommittedFields
<1>7. Len(C) <= MaxChunks
  BY DEF Fits
<1> HIDE DEF r, q, C, o
<1>8. Len(man.prefix) \in Nat
  BY <1>2
<1>9. Digested(W, q) /\ man.prefix = Digest(W, <<0, Len(man.prefix)>>)
  <2>1. \A p \in Durable(q) : disk.bytes[p] = W[p]
    BY <1>4
  <2>2. Digest(disk.bytes, <<0, Len(man.prefix)>>) = Digest(W, <<0, Len(man.prefix)>>)
    <3> DEFINE n == Len(man.prefix)
               x == disk.bytes
    <3>1. 0 \in Nat /\ n \in Nat /\ \A p \in 0..(n - 1) : x[p] = W[p]
      BY <1>3, <1>8, <2>1 DEF Bytes
    <3> HIDE DEF n, x
    <3>2. Digest(x, <<0, n>>) = Digest(W, <<0, n>>)
      <4> DEFINE zero == 0
      <4>1. zero \in Nat /\ n \in Nat /\ \A p \in zero..(n - 1) : x[p] = W[p]
        BY <3>1
      <4> HIDE DEF zero
      <4>2. Digest(x, <<zero, n>>) = Digest(W, <<zero, n>>)
        BY <4>1, DigestAgrees
      <4> QED BY <4>2 DEF zero
    <3> QED BY <3>2 DEF n, x
  <2>3. Digested(W, q)
    BY <1>2, <1>3, <2>1, DigestsStay
  <2> QED BY <1>3, <2>2, <2>3
<1>10. \A p \in Durable(q) : W[p] # Hole
  BY <1>3, <1>4
<1>11. Backed(man, W)
  BY <1>1, <1>3, <1>9, <1>10 DEF Backed, q
<1>12. \A p \in Durable(C) : W[p] # Hole
  <2>1. \A p \in Bytes(r) \ Durable(q) : content[o][p] # Hole
    BY <1>1, <1>4 DEF Byte, Hole
  <2> QED BY <1>4, <1>5, <1>10, <2>1
<1>13. C = << >> <=> Durable(C) = {}
  BY <1>5, NothingDurable
<1>14. CASE man.prefix # << >>
  <2>1. M.prefix = man.prefix
    BY <1>6, <1>14
  <2>2. Durable(q) # {}
    BY <1>2, <1>3, <1>14, NothingDurable
  <2>3. C # << >>
    BY <1>5, <1>13, <2>2
  <2>4. Bytes(<<0, Len(M.prefix)>>) \subseteq Durable(C)
    BY <1>3, <1>5, <2>1
  <2>5. Backed(M, W)
    BY <1>1, <1>5, <1>6, <1>7, <1>9, <1>12, <1>14, <2>1, <2>3, <2>4 DEF Backed, C
  <2> QED BY <1>11, <2>1, <2>5
<1>15. CASE man.prefix = << >>
  <2> DEFINE length == AtMost(r[2], StartupChunk)
             first == Digest(content[o], <<0, length>>)
  <2>1. /\ r = StartupRange /\ r[1] = 0 /\ length \in Nat /\ length > 0 /\ length <= r[2]
        /\ length <= Total
    BY <1>1, <1>15, SizesAreNumbers DEF StartupRange, AtMost
  <2>2. M.prefix = first
    BY <1>6, <1>15, <2>1
  <2>3. Durable(q) = {}
    BY <1>2, <1>3, <1>15, NothingDurable
  <2>4. content[o] \in [Positions -> Data]
    BY <1>1 DEF Data
  <2> HIDE DEF length
  <2>5. \A p \in 0..(length - 1) : p \in Bytes(r)
    BY <1>1, <2>1 DEF Bytes
  <2>6. first \in Seq(Data) /\ Len(first) = length - 0
    <3>1. 0 \in Nat /\ 0 <= length
      BY <2>1
    <3> QED BY <2>1, <2>4, <3>1, DigestIsSeq
  <2>7. Digest(W, <<0, length>>) = first
    <3>1. 0 \in Nat /\ \A p \in 0..(length - 1) : W[p] = content[o][p]
      BY <1>4, <2>3, <2>5
    <3>2. length \in Nat
      BY <2>1
    <3>3. Digest(W, <<0, length>>) = Digest(content[o], <<0, length>>)
      BY <3>1, <3>2, DigestAgrees
    <3> QED BY <3>3
  <2>8. Len(M.prefix) = length
    BY <2>1, <2>2, <2>6
  <2>9. M.prefix # << >>
    BY <2>1, <2>8
  <2>10. Bytes(<<0, length>>) \subseteq Durable(C)
    <3>1. Bytes(<<0, length>>) = 0..(length - 1)
      BY DEF Bytes
    <3> QED BY <1>5, <2>5, <3>1
  <2>11. C # << >>
    <3>1. 0 \in Bytes(<<0, length>>)
      BY <2>1 DEF Bytes
    <3> QED BY <1>13, <2>10, <3>1
  <2> HIDE DEF first
  <2>12. Backed(M, W)
    BY <1>1, <1>5, <1>6, <1>7, <1>12, <2>2, <2>7, <2>8, <2>9, <2>10, <2>11 DEF Backed, C
  <2> QED BY <1>11, <1>15, <2>12
<1> QED BY <1>14, <1>15

\* The stages of a commit are safe.
LEMMA CommitIsSafe ==
    ASSUME StoreInv, NEW c \in Clients, At(c, "commit"), Load = "ok", Fits(c)
    PROVE  /\ Len(CommitStages(c)) = 2
           /\ \A k \in 1..2 : Safe(c, CommitStages(c)[k])
           /\ CommitStages(c)[2].man = CommittedManifest(c)
           /\ CommitStages(c)[2].bytes = WithGapBytes(c)
           /\ CommitStages(c)[2].saved /\ CommitStages(c)[2].meta = disk.meta
           /\ CommitStages(c)[2].final = disk.final /\ CommitStages(c)[2].partial = disk.partial
           /\ CommittedManifest(c).prefix # << >>
<1> DEFINE W == WithGapBytes(c)
           M == CommittedManifest(c)
           written == [disk EXCEPT !.bytes = W]
           final == [written EXCEPT !.man = M]
<1>1. disk \in Disk /\ GoodDisk(disk) /\ disk.saved /\ man.total = Total
  BY CommitTypes DEF StoreInv
<1>2. W \in [Positions -> Data] /\ Durable(man.extents) \subseteq Positions
      /\ Bytes(Here(c).range) \subseteq Positions
  BY WrittenBytes
<1>3. M \in Manifest /\ M.total = man.total
  BY CommittedFields
<1>4. Backed(man, W) /\ Backed(M, W) /\ (man.prefix # << >> => M.prefix = man.prefix)
  BY CommitIsBacked
<1>5. Durable(M.extents) = Durable(man.extents) \cup Bytes(Here(c).range)
  BY CommittedExtents
<1>6. M.prefix # << >>
  <2>1. CASE man.prefix # << >>
    BY <1>4, <2>1
  <2>2. CASE man.prefix = << >>
    <3>1. Here(c).range = StartupRange /\ Here(c).range[2] \in Nat
      BY <2>2, CommitTypes
    <3>2. 0 \in Bytes(Here(c).range)
      BY <3>1, SizesAreNumbers DEF Bytes, StartupRange, AtMost
    <3>3. M.extents \in Seq(Extent) /\ Ordered(M.extents)
      BY CommittedExtents
    <3>4. M.extents # << >>
      BY <1>5, <3>2, <3>3, NothingDurable
    <3> QED BY <1>4, <3>4 DEF Backed
  <2> QED BY <2>1, <2>2
<1>7. \A p \in Positions : disk.bytes[p] # Hole => W[p] # Hole
  <2> TAKE p \in Positions
  <2> HAVE disk.bytes[p] # Hole
  <2>1. CASE p \in Durable(man.extents)
    BY <2>1, WrittenBytes
  <2>2. CASE p \in Bytes(Here(c).range) \ Durable(man.extents)
    <3>1. W[p] = content[Here(c).obs][p]
      BY <2>2, WrittenBytes
    <3>2. content[Here(c).obs] \in [Positions -> Byte]
      BY CommitTypes
    <3> QED BY <3>1, <3>2 DEF Byte, Hole
  <2>3. CASE p \notin Bytes(Here(c).range)
    BY <2>3, WrittenBytes
  <2> QED BY <2>1, <2>2, <2>3
<1> HIDE DEF W, M
<1>8. /\ written \in Disk /\ written.meta = disk.meta /\ written.saved = disk.saved
      /\ written.man = man /\ written.bytes = W /\ written.final = disk.final
      /\ final \in Disk /\ final.meta = disk.meta /\ final.saved = disk.saved
      /\ final.man = M /\ final.bytes = W /\ final.final = disk.final
      /\ final.partial = disk.partial
  BY <1>1, <1>2, <1>3 DEF Disk, man
<1>9. CommitStages(c) = <<written, final>>
  BY DEF CommitStages, W, M
<1> HIDE DEF written, final
<1>10. Safe(c, written)
  <2>1. Later(disk, written)
    BY <1>8 DEF Later, AvailableIn, man
  <2> QED BY <1>1, <1>4, <1>7, <1>8, <2>1 DEF Safe, GoodDisk
<1>11. Safe(c, final)
  <2>1. Later(disk, final)
    BY <1>1, <1>3, <1>5, <1>6, <1>8 DEF Later, AvailableIn, man
  <2> QED BY <1>1, <1>4, <1>7, <1>8, <2>1 DEF Safe, GoodDisk
<1>12. Len(CommitStages(c)) = 2 /\ CommitStages(c)[1] = written /\ CommitStages(c)[2] = final
  BY <1>9
<1>13. \A k \in 1..2 : k = 1 \/ k = 2
  OBVIOUS
<1> QED BY <1>1, <1>6, <1>8, <1>10, <1>11, <1>12, <1>13 DEF W, M

\* What is durable is within the resource.
LEMMA DurableWithin ==
    ASSUME NEW q \in Seq(Extent), Ordered(q)
    PROVE  Durable(q) \subseteq Positions
<1>1. Positions = 0..(Total - 1) /\ Total \in Nat
  BY SizesAreNumbers DEF Positions, Bytes, Whole
<1>2. ASSUME NEW p \in Durable(q) PROVE p \in Positions
  <2>1. PICK i \in DOMAIN q : q[i].start <= p /\ p < q[i].end /\ p \in Int
    BY DurableBytes
  <2>2. q[i].start \in Nat /\ q[i].end \in Nat /\ q[i].end <= Total
    BY ListedExtents DEF Ordered
  <2> QED BY <1>1, <2>1, <2>2
<1> QED BY <1>2

\* The stages of finalize_range_resource.
LEMMA FinalizeIsSafe ==
    ASSUME StoreInv, NEW c \in Fillers, MayFinalize
    PROVE  /\ Len(FinalizeStages) = 3
           /\ \A k \in 1..3 : Safe(c, FinalizeStages[k])
           /\ FinalizeStages[3].meta
<1> DEFINE renamed == [disk EXCEPT !.partial = FALSE, !.final = "data"]
           described == [renamed EXCEPT !.meta = TRUE]
           dropped == [described EXCEPT !.saved = FALSE]
<1>1. disk \in Disk /\ GoodDisk(disk)
  BY DEF StoreInv, GoodDisk
<1>2. CASE ~disk.saved
  <2>1. FALSE
    BY <1>2 DEF MayFinalize, Load
  <2> QED BY <2>1
<1>3. CASE disk.saved
  <2>1. Backed(man, disk.bytes) /\ man.extents \in Seq(Extent) /\ Ordered(man.extents)
    BY <1>1, <1>3, DiskFields DEF GoodDisk, man, Backed
  <2>2. Durable(man.extents) = Positions
    <3>1. Whole \in Nat \X Nat /\ RangeIsCovered(man.extents, Whole)
      BY SizesAreNumbers DEF Whole, MayFinalize
    <3>2. Bytes(Whole) \subseteq Durable(man.extents)
      BY <2>1, <3>1, CoverageIsExact
    <3>3. Durable(man.extents) \subseteq Positions
      BY <2>1, DurableWithin
    <3> QED BY <3>2, <3>3 DEF Positions
  <2>3. \A p \in Positions : disk.bytes[p] # Hole
    BY <2>1, <2>2 DEF Backed
  <2>4. /\ renamed \in Disk /\ renamed.final = "data" /\ renamed.bytes = disk.bytes
        /\ renamed.man = man /\ renamed.meta = disk.meta /\ renamed.saved = disk.saved
        /\ described \in Disk /\ described.final = "data" /\ described.bytes = disk.bytes
        /\ described.man = man /\ described.meta = TRUE /\ described.saved = disk.saved
        /\ dropped \in Disk /\ dropped.final = "data" /\ dropped.bytes = disk.bytes
        /\ dropped.man = man /\ dropped.meta = TRUE /\ dropped.saved = FALSE
    BY <1>1 DEF Disk, man
  <2>5. FinalizeStages = <<renamed, described, dropped>>
    BY DEF FinalizeStages
  <2> HIDE DEF renamed, described, dropped
  <2>6. Safe(c, renamed)
    <3>1. GoodDisk(renamed)
      BY <2>1, <2>3, <2>4 DEF GoodDisk
    <3>2. Later(disk, renamed)
      BY <2>4 DEF Later, AvailableIn, man
    <3> QED BY <3>1, <3>2 DEF Safe
  <2>7. Safe(c, described)
    <3>1. GoodDisk(described)
      BY <2>1, <2>3, <2>4 DEF GoodDisk
    <3>2. Later(disk, described)
      BY <2>2, <2>4 DEF Later, AvailableIn, man
    <3> QED BY <3>1, <3>2 DEF Safe
  <2>8. Safe(c, dropped)
    <3>1. GoodDisk(dropped)
      BY <2>1, <2>3, <2>4 DEF GoodDisk
    <3>2. Later(disk, dropped)
      BY <2>2, <2>4 DEF Later, AvailableIn, man
    <3> QED BY <3>1, <3>2 DEF Safe
  <2>9. /\ Len(FinalizeStages) = 3 /\ FinalizeStages[1] = renamed
        /\ FinalizeStages[2] = described /\ FinalizeStages[3] = dropped
    BY <2>5
  <2>10. \A k \in 1..3 : k = 1 \/ k = 2 \/ k = 3
    OBVIOUS
  <2> QED BY <2>4, <2>6, <2>7, <2>8, <2>9, <2>10
<1> QED BY <1>2, <1>3

\* The stages of the publication of a full GET.
LEMMA FullGetIsSafe ==
    ASSUME StoreInv, NEW c \in Fillers, MayPublish(c)
    PROVE  /\ Len(FullGetStages) = 4
           /\ \A k \in 1..4 : Safe(c, FullGetStages[k])
           /\ FullGetStages[4].meta
<1> DEFINE renamed == [disk EXCEPT !.final = "full"]
           described == [renamed EXCEPT !.meta = TRUE]
           dropped == [described EXCEPT !.partial = FALSE]
           gone == [dropped EXCEPT !.saved = FALSE]
<1>1. disk \in Disk /\ GoodDisk(disk) /\ ~disk.meta
  BY DEF StoreInv, GoodDisk, MayPublish
<1>2. disk.saved /\ man.extents = << >>
  BY DEF MayPublish, Load
<1>3. Backed(man, disk.bytes) /\ man.extents \in Seq(Extent) /\ Ordered(man.extents)
  BY <1>1, <1>2, DiskFields DEF GoodDisk, man, Backed
<1>4. Durable(man.extents) = {}
  BY <1>2, <1>3, NothingDurable
<1>5. /\ renamed \in Disk /\ renamed.final = "full" /\ renamed.bytes = disk.bytes
      /\ renamed.man = man /\ renamed.meta = FALSE /\ renamed.saved = TRUE
      /\ described \in Disk /\ described.final = "full" /\ described.bytes = disk.bytes
      /\ described.man = man /\ described.meta = TRUE /\ described.saved = TRUE
      /\ dropped \in Disk /\ dropped.final = "full" /\ dropped.bytes = disk.bytes
      /\ dropped.man = man /\ dropped.meta = TRUE /\ dropped.saved = TRUE
      /\ gone \in Disk /\ gone.final = "full" /\ gone.bytes = disk.bytes
      /\ gone.man = man /\ gone.meta = TRUE /\ gone.saved = FALSE
  BY <1>1, <1>2 DEF Disk, man
<1>6. FullGetStages = <<renamed, described, dropped, gone>>
  BY DEF FullGetStages
<1> HIDE DEF renamed, described, dropped, gone
<1>7. Safe(c, renamed)
  BY <1>1, <1>2, <1>3, <1>5 DEF Safe, GoodDisk, Later, AvailableIn, man
<1>8. Safe(c, described)
  BY <1>1, <1>2, <1>3, <1>4, <1>5 DEF Safe, GoodDisk, Later, AvailableIn, man
<1>9. Safe(c, dropped)
  BY <1>1, <1>2, <1>3, <1>4, <1>5 DEF Safe, GoodDisk, Later, AvailableIn, man
<1>10. Safe(c, gone)
  BY <1>1, <1>2, <1>3, <1>4, <1>5 DEF Safe, GoodDisk, Later, AvailableIn, man
<1>11. /\ Len(FullGetStages) = 4 /\ FullGetStages[1] = renamed /\ FullGetStages[2] = described
       /\ FullGetStages[3] = dropped /\ FullGetStages[4] = gone
  BY <1>6
<1>12. \A k \in 1..4 : k = 1 \/ k = 2 \/ k = 3 \/ k = 4
  OBVIOUS
<1> QED BY <1>5, <1>7, <1>8, <1>9, <1>10, <1>11, <1>12

\* All but the last of a list with one more before it.
LEMMA FrontOfLonger ==
    ASSUME NEW S, NEW d \in S, NEW s \in Seq(S), NEW k \in 1..Len(s)
    PROVE  Front(<<d>> \o s)[k] = d \/ \E j \in 1..Len(s) : Front(<<d>> \o s)[k] = s[j]
<1> DEFINE t == <<d>> \o s
<1>1. <<d>> \in Seq(S) /\ Len(<<d>>) = 1 /\ <<d>>[1] = d
  OBVIOUS
<1>2. /\ t \in Seq(S) /\ Len(t) = 1 + Len(s)
      /\ \A i \in 1..Len(t) : t[i] = IF i <= 1 THEN d ELSE s[i - 1]
  BY <1>1
<1> HIDE DEF t
<1>3. Len(s) \in Nat /\ Len(t) - 1 = Len(s) /\ k \in 1..Len(t)
  BY <1>2
<1>4. Front(t)[k] = t[k]
  BY <1>2, <1>3 DEF Front
<1>5. CASE k = 1
  <2>1. t[k] = d
    BY <1>2, <1>3, <1>5
  <2> QED BY <1>4, <2>1 DEF t
<1>6. CASE k # 1
  <2>1. k - 1 \in 1..Len(s) /\ t[k] = s[k - 1]
    BY <1>2, <1>3, <1>6
  <2> QED BY <1>4, <2>1 DEF t
<1> QED BY <1>5, <1>6

\* What the files are when a section is interrupted.
LEMMA InterruptedBetween ==
    ASSUME NEW c, NEW k \in 1..Len(Stages(c)), NEW e, e = Front(<<disk>> \o Stages(c))[k]
    PROVE  \/ e = disk
           \/ /\ At(c, "ensure") /\ Load = "none" /\ CompletedReady = "none"
              /\ \E j \in 1..2 : e = EnsureStages(Total)[j]
           \/ /\ At(c, "commit") /\ MayCommit(c) /\ Fits(c)
              /\ \E j \in 1..2 : e = CommitStages(c)[j]
           \/ /\ At(c, "finalize") /\ MayFinalize
              /\ \E j \in 1..3 : e = FinalizeStages[j]
           \/ /\ At(c, "publish") /\ MayPublish(c)
              /\ \E j \in 1..4 : e = FullGetStages[j]
<1> DEFINE s == Stages(c)
<1>1. ASSUME NEW S, disk \in S, s \in Seq(S)
      PROVE  e = disk \/ \E j \in 1..Len(s) : e = s[j]
  <2> HIDE DEF s
  <2>1. k \in 1..Len(s) /\ e = Front(<<disk>> \o s)[k]
    BY DEF s
  <2> QED BY <1>1, <2>1, FrontOfLonger
<1>2. CASE At(c, "ensure") /\ Load = "none" /\ CompletedReady = "none"
  <2>1. s = EnsureStages(Total)
    BY <1>2 DEF Stages, At
  <2>2. PICK a, b : s = <<a, b>>
    BY <2>1 DEF EnsureStages
  <2> HIDE DEF s
  <2>3. s \in Seq({disk, a, b}) /\ Len(s) = 2
    BY <2>2
  <2>4. e = disk \/ \E j \in 1..2 : e = s[j]
    BY <1>1, <2>3
  <2> QED BY <1>2, <2>1, <2>4
<1>3. CASE At(c, "commit") /\ MayCommit(c) /\ Fits(c)
           /\ ~RangeIsCovered(man.extents, Here(c).range)
  <2>1. s = CommitStages(c)
    BY <1>3 DEF Stages, At
  <2>2. PICK a, b : s = <<a, b>>
    BY <2>1 DEF CommitStages
  <2> HIDE DEF s
  <2>3. s \in Seq({disk, a, b}) /\ Len(s) = 2
    BY <2>2
  <2>4. e = disk \/ \E j \in 1..2 : e = s[j]
    BY <1>1, <2>3
  <2> QED BY <1>3, <2>1, <2>4
<1>4. CASE At(c, "finalize") /\ MayFinalize
  <2>1. s = FinalizeStages
    BY <1>4 DEF Stages, At
  <2>2. PICK a, b, x : s = <<a, b, x>>
    BY <2>1 DEF FinalizeStages
  <2> HIDE DEF s
  <2>3. s \in Seq({disk, a, b, x}) /\ Len(s) = 3
    BY <2>2
  <2>4. e = disk \/ \E j \in 1..3 : e = s[j]
    BY <1>1, <2>3
  <2> QED BY <1>4, <2>1, <2>4
<1>5. CASE At(c, "publish") /\ MayPublish(c)
  <2>1. s = FullGetStages
    BY <1>5 DEF Stages, At
  <2>2. PICK a, b, x, y : s = <<a, b, x, y>>
    BY <2>1 DEF FullGetStages
  <2> HIDE DEF s
  <2>3. s \in Seq({disk, a, b, x, y}) /\ Len(s) = 4
    BY <2>2
  <2>4. e = disk \/ \E j \in 1..4 : e = s[j]
    BY <1>1, <2>3
  <2> QED BY <1>5, <2>1, <2>4
<1>6. CASE /\ ~(At(c, "ensure") /\ Load = "none" /\ CompletedReady = "none")
           /\ ~(At(c, "commit") /\ MayCommit(c) /\ Fits(c)
                /\ ~RangeIsCovered(man.extents, Here(c).range))
           /\ ~(At(c, "finalize") /\ MayFinalize)
           /\ ~(At(c, "publish") /\ MayPublish(c))
  <2>1. s = << >>
    BY <1>6 DEF Stages
  <2>2. Len(s) = 0
    BY <2>1
  <2> QED BY <2>2
<1> QED BY <1>2, <1>3, <1>4, <1>5, <1>6

\* Whatever a section is interrupted between, the files are good.
LEMMA InterruptedIsSafe ==
    ASSUME StoreInv, NEW c \in Clients, NEW k \in 1..Len(Stages(c))
    PROVE  Safe(c, Front(<<disk>> \o Stages(c))[k])
<1> DEFINE e == Front(<<disk>> \o Stages(c))[k]
<1>1. Fine(c, client[c], disk)
  BY DEF StoreInv
<1>2. CASE e = disk
  BY <1>2, NothingChanges
<1>3. CASE At(c, "ensure") /\ Load = "none" /\ CompletedReady = "none" /\ \E j \in 1..2 : e = EnsureStages(Total)[j]
  <2>1. Total \in Sizes
    BY DEF Sizes
  <2> QED BY <1>3, <2>1, CreatedIsSafe
<1>4. CASE At(c, "commit") /\ MayCommit(c) /\ Fits(c) /\ \E j \in 1..2 : e = CommitStages(c)[j]
  BY <1>4, CommitIsSafe DEF MayCommit
<1>5. CASE At(c, "finalize") /\ MayFinalize /\ \E j \in 1..3 : e = FinalizeStages[j]
  <2>1. c \in Fillers
    BY <1>1, <1>5 DEF At, Fine
  <2> QED BY <1>5, <2>1, FinalizeIsSafe
<1>6. CASE At(c, "publish") /\ MayPublish(c) /\ \E j \in 1..4 : e = FullGetStages[j]
  <2>1. c \in Fillers
    BY <1>1, <1>6 DEF At, Fine
  <2> QED BY <1>6, <2>1, FullGetIsSafe
<1> HIDE DEF e
<1>7. Safe(c, e)
  <2>1. k \in 1..Len(Stages(c)) /\ e = Front(<<disk>> \o Stages(c))[k]
    BY DEF e
  <2> QED BY <1>2, <1>3, <1>4, <1>5, <1>6, <2>1, InterruptedBetween
<1> QED BY <1>7 DEF e

-----------------------------------------------------------------------------
(* The steps of the clients.                                                *)

Preserved == StoreInv' /\ Later(disk, disk')

\* A client and what it is fine for.
LEMMA ClientFields ==
    ASSUME StoreInv, NEW c \in Clients
    PROVE  /\ client[c] \in Client /\ Fine(c, client[c], disk)
           /\ client[c].pc \in Pcs /\ client[c].want \in Pair /\ client[c].todo \subseteq Spans
           /\ client[c].range \in Spans /\ client[c].snap \in Manifest
           /\ client[c].left \subseteq Origins /\ client[c].cand \in Origins
           /\ client[c].obs \in Origins /\ client[c].etag \in 0..2
           /\ client[c].retried \in BOOLEAN /\ client[c].passes \in Nat
           /\ disk \in Disk /\ GoodDisk(disk) /\ man \in Manifest
           /\ disk.meta \in BOOLEAN /\ disk.saved \in BOOLEAN
           /\ c \in Readers <=> c \notin Fillers
<1>1. client[c] \in Client /\ Fine(c, client[c], disk) /\ disk \in Disk /\ GoodDisk(disk)
  BY DEF StoreInv, StoreTypes
<1>2. c \in Readers <=> c \notin Fillers
  BY StoreAssumption DEF Clients
<1> QED BY <1>1, <1>2, DiskFields DEF Client, man

\* The idle client, and the snapshot of one that knows nothing.
LEMMA IdleIsClient ==
    /\ Idle \in Client /\ EmptyDisk.man \in Manifest /\ NoRange \in Spans /\ First \in Origins
    /\ Idle.pc = "idle"
<1>1. 0 \in Sizes
  BY DEF Sizes
<1>2. EmptyDisk.man \in Manifest
  <2>1. NewManifest(0) \in Manifest
    <3>1. [p \in Positions |-> Hole] \in [Positions -> Data]
      BY DEF Data
    <3> QED BY <1>1, <3>1, NewIsBacked
  <2> QED BY <2>1 DEF EmptyDisk
<1>3. NoRange \in Spans /\ NoRange \in Pair
  BY SizesAreNumbers DEF Spans, Pair, NoRange
<1>4. First \in Origins
  BY StoreAssumption
<1> HIDE DEF NoRange
<1>5. Idle \in Client
  BY <1>2, <1>3, <1>4 DEF Idle, Client, Pcs, Unbound
<1> QED BY <1>2, <1>3, <1>4, <1>5 DEF Idle

\* A client that is idle, or about to ensure the checkpoint, is fine.
LEMMA EarlyIsFine ==
    ASSUME NEW c, NEW x, NEW d, x.pc = "idle" \/ (x.pc = "ensure" /\ (c \in Fillers => ~d.meta))
    PROVE  Fine(c, x, d)
BY DEF Fine, Placed, Asking, Fetching

\* The request or fill of a client ends.
LEMMA RequestEnds ==
    ASSUME StoreInv, NEW c \in Clients, Done(c), Safe(c, disk'), Env
    PROVE  Preserved
<1>1. client' = [client EXCEPT ![c] = Idle]
  BY DEF Done
<1>2. Idle \in Client /\ Fine(c, Idle, disk')
  BY IdleIsClient, EarlyIsFine
<1> QED BY <1>1, <1>2, ClientMoves DEF Preserved

\* It ends with an identity error or another one, and the files stay.
LEMMA ErrorEnds ==
    ASSUME StoreInv, NEW c \in Clients, IdentityError(c) \/ Fails(c), UNCHANGED <<disk, World>>
    PROVE  Preserved
<1>1. Env
  BY DEF StoreInv, StoreTypes, Env, World, IdentityError, Fails, Unexplained
<1>2. Safe(c, disk')
  BY NothingChanges
<1> QED BY <1>1, <1>2, RequestEnds DEF IdentityError, Fails

\* A client moves while the files, and all else, stay.
LEMMA ClientGoes ==
    ASSUME StoreInv, NEW c \in Clients, NEW n \in Client, Fine(c, n, disk),
           client' = [client EXCEPT ![c] = n], UNCHANGED <<disk, World, spurious>>
    PROVE  Preserved
<1>1. Env
  BY DEF StoreInv, StoreTypes, Env, World
<1> QED BY <1>1, OnlyTheClient DEF Preserved

\* What the fetch of a span remembers is dropped.
LEMMA ForgottenIsClient ==
    ASSUME StoreInv, NEW c \in Clients
    PROVE  /\ Forget(c) \in Client /\ Forget(c).pc = client[c].pc
           /\ Forget(c).range = client[c].range /\ Forget(c).todo = client[c].todo
           /\ Forget(c).snap = EmptyDisk.man /\ Forget(c).want = client[c].want
           /\ Forget(c).passes = client[c].passes
<1> DEFINE x == client[c]
           blank == EmptyDisk.man
           n == [x EXCEPT !.snap = blank, !.left = {}, !.cand = First,
                          !.obs = First, !.etag = 0, !.retried = FALSE]
<1>1. x \in Client /\ blank \in Manifest /\ First \in Origins
  BY ClientFields, IdleIsClient
<1>2. Forget(c) = n
  BY DEF Forget, Here, Unbound
<1> HIDE DEF x, blank
<1>3. /\ n.pc = x.pc /\ n.range = x.range /\ n.todo = x.todo
      /\ n.snap = blank /\ n.want = x.want /\ n.passes = x.passes
  BY <1>1 DEF Client
<1>4. n \in Client
  <2> DEFINE n1 == [x EXCEPT !.snap = blank]
             n2 == [n1 EXCEPT !.left = {}, !.cand = First]
             zero == 0
             n3 == [n2 EXCEPT !.obs = First, !.etag = zero]
  <2>1. n1 \in Client
    BY <1>1 DEF Client
  <2>2. n2 \in Client
    <3> HIDE DEF n1
    <3> QED BY <1>1, <2>1 DEF Client
  <2>3. n3 \in Client
    <3>1. zero \in 0..2
      OBVIOUS
    <3> HIDE DEF n2, zero
    <3> QED BY <1>1, <2>2, <3>1 DEF Client
  <2>4. [n3 EXCEPT !.retried = FALSE] \in Client
    <3> HIDE DEF n3
    <3> QED BY <2>3 DEF Client
  <2> QED BY <2>4
<1> HIDE DEF n
<1> QED BY <1>2, <1>3, <1>4 DEF x, blank

\* The next span, or the plan.
LEMMA SpanEndsWell ==
    ASSUME StoreInv, NEW c \in Clients, SpanEnds(c), Env, Safe(c, disk'),
           disk'.saved => (disk'.man.prefix # << >> \/ disk'.meta) /\ disk'.man.total = Total,
           disk'.saved \/ disk'.meta
    PROVE  Preserved
<1> DEFINE n == [Forget(c) EXCEPT !.pc = IF Here(c).todo = {NoRange} THEN "plan" ELSE "next",
                                  !.todo = @ \ {Here(c).range}, !.range = NoRange, !.passes = 0]
<1>1. client' = [client EXCEPT ![c] = n]
  BY DEF SpanEnds
<1>2. n \in Client /\ n.pc \in {"plan", "next"}
  <2> DEFINE x == Forget(c)
             p == IF Here(c).todo = {NoRange} THEN "plan" ELSE "next"
             left == x.todo \ {Here(c).range}
             zero == 0
  <2>1. n = [x EXCEPT !.pc = p, !.todo = left, !.range = NoRange, !.passes = zero]
    OBVIOUS
  <2>2. x \in Client /\ NoRange \in Spans
    BY ForgottenIsClient, IdleIsClient
  <2>3. p \in Pcs /\ p \in {"plan", "next"}
    BY DEF Pcs
  <2>4. left \subseteq Spans
    BY <2>2 DEF Client
  <2>5. zero \in Nat
    OBVIOUS
  <2> HIDE DEF n, x, p, left, zero, NoRange
  <2> QED BY <2>1, <2>2, <2>3, <2>4, <2>5 DEF Client
<1> HIDE DEF n
<1>3. Fine(c, n, disk')
  BY <1>2 DEF Fine, Placed, Asking, Fetching
<1> QED BY <1>1, <1>2, <1>3, ClientMoves DEF Preserved

\* A client that has nothing durable to read has no bytes of the range.
LEMMA CoveredHasPrefix ==
    ASSUME StoreInv, disk.saved, NEW r \in Pair, RangeIsCovered(man.extents, r)
    PROVE  man.prefix # << >> /\ man.extents # << >>
<1>1. disk \in Disk /\ Backed(man, disk.bytes)
  BY DEF StoreInv, GoodDisk, man
<1>2. man.extents \in Seq(Extent) /\ Ordered(man.extents)
  BY <1>1, DiskFields DEF man, Backed
<1>3. r \in Nat \X Nat /\ r[1] \in Nat /\ r[2] \in Nat
  BY DEF Pair
<1>4. r[1] < r[2] /\ Bytes(r) \subseteq Durable(man.extents)
  BY <1>2, <1>3, CoverageIsExact
<1>5. r[1] \in Bytes(r)
  BY <1>3, <1>4 DEF Bytes
<1>6. man.extents # << >>
  BY <1>2, <1>4, <1>5, NothingDurable
<1> QED BY <1>1, <1>6 DEF Backed

\* ensure_range_inner begins.
LEMMA StartReadKeeps ==
    ASSUME StoreInv, NEW c \in Clients, NEW r \in Requests, StartRead(c, r)
    PROVE  Preserved
<1> DEFINE n == [client[c] EXCEPT !.pc = "ensure", !.want = r]
<1>1. client' = [client EXCEPT ![c] = n] /\ UNCHANGED <<disk, World, spurious>> /\ c \in Readers
  BY DEF StartRead
<1>2. r \in Pair /\ "ensure" \in Pcs
  BY StoreAssumption DEF Pair, Pcs
<1>3. n \in Client /\ n.pc = "ensure"
  BY <1>2, ClientFields DEF Client
<1> HIDE DEF n
<1>4. Fine(c, n, disk)
  BY <1>1, <1>3, ClientFields, EarlyIsFine
<1> QED BY <1>1, <1>3, <1>4, ClientGoes

\* cache_resource begins.
LEMMA StartFillKeeps ==
    ASSUME StoreInv, NEW c \in Clients, StartFill(c)
    PROVE  Preserved
<1>1. CASE disk.meta /\ Load # "ok"
  BY <1>1, ErrorEnds DEF StartFill
<1>2. CASE ~(disk.meta /\ Load # "ok")
  <2> DEFINE p == IF disk.meta THEN "finalize" ELSE "ensure"
             n == [client[c] EXCEPT !.pc = p, !.want = Whole]
  <2>1. /\ client' = [client EXCEPT ![c] = n] /\ UNCHANGED <<disk, World, spurious>>
        /\ c \in Fillers /\ (disk.meta => disk.saved)
    BY <1>2 DEF StartFill
  <2>2. Whole \in Pair
    BY SizesAreNumbers DEF Whole, Pair
  <2>3. p \in Pcs /\ p = (IF disk.meta THEN "finalize" ELSE "ensure")
    BY DEF Pcs
  <2> HIDE DEF p, Whole
  <2>4. n \in Client /\ n.pc = p
    BY <2>2, <2>3, ClientFields DEF Client
  <2> HIDE DEF n
  <2>5. Fine(c, n, disk)
    BY <2>1, <2>3, <2>4, ClientFields DEF Fine, Placed, Asking, Fetching
  <2> QED BY <2>1, <2>4, <2>5, ClientGoes
<1> QED BY <1>1, <1>2

\* ensure_range_manifest under the lock.
LEMMA EnsureKeeps ==
    ASSUME StoreInv, NEW c \in Clients, Ensure(c)
    PROVE  Preserved
<1>1. CASE (IdentityError(c) \/ Fails(c)) /\ UNCHANGED <<disk, World>>
  BY <1>1, ErrorEnds
<1>2. CASE /\ c \in Readers => CompletedReady = "none"
           /\ \/ Load = "ok" /\ UNCHANGED disk
              \/ Load = "none" /\ \E size \in Sizes : disk' = Last(EnsureStages(size))
           /\ client' = [client EXCEPT ![c].pc = "total", ![c].snap = disk'.man]
           /\ UNCHANGED spurious
  <2>1. At(c, "ensure") /\ UNCHANGED World
    BY DEF Ensure
  <2>2. Safe(c, disk') /\ disk'.saved
    <3>1. CASE Load = "ok" /\ UNCHANGED disk
      BY <3>1, NothingChanges DEF Load
    <3>2. CASE Load = "none" /\ \E size \in Sizes : disk' = Last(EnsureStages(size))
      <4>1. PICK size \in Sizes : disk' = Last(EnsureStages(size))
        BY <3>2
      <4>2. /\ Len(EnsureStages(size)) = 2
            /\ \A k \in 1..2 : Safe(c, EnsureStages(size)[k])
        BY <1>2, <2>1, <3>2, CreatedIsSafe
      <4>3. disk' = EnsureStages(size)[2]
        BY <4>1, <4>2 DEF Last
      <4>4. disk'.saved
        <5> DEFINE created == [disk EXCEPT !.partial = TRUE, !.bytes = EmptyDisk.bytes]
        <5>1. disk' = [created EXCEPT !.saved = TRUE, !.man = NewManifest(size)]
          BY <4>3 DEF EnsureStages
        <5>2. disk \in Disk
          BY ClientFields
        <5> QED BY <5>1, <5>2 DEF Disk
      <4> QED BY <4>2, <4>3, <4>4
    <3> QED BY <1>2, <3>1, <3>2
  <2>3. GoodDisk(disk') /\ disk' \in Disk
    BY <2>2 DEF Safe, GoodDisk
  <2> DEFINE m == disk'.man
             n == [client[c] EXCEPT !.pc = "total", !.snap = m]
  <2>4. m \in Manifest /\ m.total \in Sizes /\ Backed(m, disk'.bytes)
    BY <2>2, <2>3, DiskFields DEF GoodDisk, Manifest
  <2>5. client' = [client EXCEPT ![c] = n]
    BY <1>2
  <2> HIDE DEF m
  <2>0. "total" \in Pcs
    BY DEF Pcs
  <2>6. n \in Client /\ n.pc = "total" /\ n.snap = m
    BY <2>0, <2>4, ClientFields DEF Client
  <2> HIDE DEF n
  <2>7. Fine(c, n, disk')
    BY <2>2, <2>4, <2>6 DEF Fine, Placed, Asking, Fetching, Backed, Sizes, m
  <2>8. Env
    BY <1>2, <2>1 DEF StoreInv, StoreTypes, Env, World
  <2> QED BY <2>2, <2>5, <2>6, <2>7, <2>8, ClientMoves DEF Preserved
<1> QED BY <1>1, <1>2 DEF Ensure

\* The discovered length is published.
LEMMA PublishTotalKeeps ==
    ASSUME StoreInv, NEW c \in Clients, PublishTotal(c)
    PROVE  Preserved
<1>1. CASE IdentityError(c) /\ UNCHANGED disk
  BY <1>1, ErrorEnds DEF PublishTotal
<1>2. CASE ~(Load # "ok" \/ Here(c).snap.extents # << >> \/ ~Rebase(Here(c).snap, man, {}, FALSE))
  <2> DEFINE m == [man EXCEPT !.total = Total]
             n == [client[c] EXCEPT !.snap = m]
  <2>1. /\ disk' = [disk EXCEPT !.man = m]
        /\ client' = [client EXCEPT ![c].snap = disk'.man]
        /\ UNCHANGED <<World, spurious>> /\ Load = "ok" /\ At(c, "total")
    BY <1>2 DEF PublishTotal, man
  <2>2. disk.saved /\ disk \in Disk /\ man \in Manifest /\ GoodDisk(disk)
    BY <2>1, ClientFields DEF Load
  <2>3. /\ m \in Manifest /\ m.extents = man.extents /\ m.prefix = man.prefix /\ m.total = Total
    BY <2>2 DEF Manifest, Sizes
  <2> HIDE DEF m
  <2>4. Safe(c, disk')
    BY <2>1, <2>2, <2>3, SameExtentsAreSafe
  <2>5. disk'.man = m /\ disk'.saved
    BY <2>1, <2>2 DEF Disk
  <2>6. client' = [client EXCEPT ![c] = n]
    BY <2>1, <2>5
  <2>7. n \in Client /\ n.pc = "total" /\ n.snap = m
    BY <2>1, <2>3, ClientFields DEF Client, At
  <2>8. (man.prefix = << >>) <=> (man.extents = << >>)
    BY <2>2 DEF GoodDisk, Backed, man
  <2> HIDE DEF n
  <2>9. Fine(c, n, disk')
    BY <2>3, <2>5, <2>7, <2>8 DEF Fine, Placed, Asking, Fetching
  <2>10. Env
    BY <2>1 DEF StoreInv, StoreTypes, Env, World
  <2> QED BY <2>4, <2>6, <2>7, <2>9, <2>10, ClientMoves DEF Preserved
<1> QED BY <1>1, <1>2 DEF PublishTotal

\* A client goes somewhere else with all it has.
LEMMA OnlyPcChanges ==
    ASSUME StoreInv, NEW c \in Clients, NEW p \in Pcs, Go(c, p),
           Fine(c, [client[c] EXCEPT !.pc = p], disk), UNCHANGED <<disk, World, spurious>>
    PROVE  Preserved
<1> DEFINE n == [client[c] EXCEPT !.pc = p]
<1>1. n \in Client
  BY ClientFields DEF Client
<1>2. client' = [client EXCEPT ![c] = n]
  BY DEF Go
<1> QED BY <1>1, <1>2, ClientGoes

\* What the new place says of a client that keeps the rest.
LEMMA MovedFields ==
    ASSUME StoreInv, NEW c \in Clients, NEW p
    PROVE  LET n == [client[c] EXCEPT !.pc = p]
           IN n.pc = p /\ n.range = client[c].range /\ n.snap = client[c].snap
BY ClientFields DEF Client

\* No length is found.
LEMMA NoTotalKeeps ==
    ASSUME StoreInv, NEW c \in Clients, NoTotal(c)
    PROVE  Preserved
<1>1. CASE c \in Fillers
  <2>1. Go(c, "fullget") /\ UNCHANGED <<disk, World, spurious>> /\ client[c].pc = "total"
    BY <1>1 DEF NoTotal, At
  <2>2. Fine(c, [client[c] EXCEPT !.pc = "fullget"], disk)
    BY <1>1, <2>1, ClientFields, MovedFields DEF Fine, Placed, Asking, Fetching
  <2> QED BY <2>1, <2>2, OnlyPcChanges DEF Pcs
<1>2. CASE c \notin Fillers
  BY <1>2, ErrorEnds DEF NoTotal
<1> QED BY <1>1, <1>2

\* The startup chunk is a range of the resource.
LEMMA StartupIsSpan == StartupRange \in Spans /\ StartupRange \in Pair /\ StartupRange[1] < StartupRange[2]
<1> DEFINE n == AtMost(Total, StartupChunk)
<1>1. n \in Nat /\ n <= Total /\ n > 0 /\ n \in 0..Total /\ 0 \in Nat
  BY SizesAreNumbers DEF AtMost
<1>2. StartupRange = <<0, n>>
  BY DEF StartupRange
<1> HIDE DEF n
<1> QED BY <1>1, <1>2 DEF Spans, Pair

\* The startup chunk, or the plan.
LEMMA FirstChunkKeeps ==
    ASSUME StoreInv, NEW c \in Clients, FirstChunk(c)
    PROVE  Preserved
<1> DEFINE needed == IF c \in Readers THEN Here(c).snap.prefix = << >> ELSE Here(c).snap.extents = << >>
           p == IF needed THEN "admit" ELSE "plan"
           blank == EmptyDisk.man
           n == [client[c] EXCEPT !.pc = p, !.range = StartupRange, !.snap = blank, !.todo = {NoRange}]
<1>1. /\ client' = [client EXCEPT ![c] = n] /\ UNCHANGED <<disk, World, spurious>>
      /\ client[c].pc = "total" /\ client[c].snap.total # 0
  BY DEF FirstChunk, StartupRange, At, Here
<1>2. p \in Pcs /\ p \in {"admit", "plan"}
  BY DEF Pcs
<1>3. ~needed => client[c].snap.prefix # << >> \/ client[c].snap.extents # << >>
  BY DEF Here
<1>4. p = "plan" => ~needed
  OBVIOUS
<1>5. blank \in Manifest /\ NoRange \in Spans /\ StartupRange \in Spans
  BY IdleIsClient, StartupIsSpan
<1> HIDE DEF needed, p, blank, NoRange, StartupRange
<1>6. n \in Client /\ n.pc = p /\ n.range = StartupRange
  BY <1>2, <1>5, ClientFields DEF Client
<1> HIDE DEF n
<1>7. Fine(c, n, disk)
  <2>1. Fine(c, client[c], disk)
    BY ClientFields
  <2>2. (disk.saved \/ disk.meta) /\ (disk.saved => Placed(client[c], disk))
    BY <1>1, <2>1 DEF Fine
  <2>3. disk.saved => Placed(n, disk)
    BY <1>1, <1>2, <1>3, <1>4, <1>6, <2>2 DEF Placed, Asking, Fetching
  <2> QED BY <1>2, <1>6, <2>2, <2>3 DEF Fine
<1> QED BY <1>1, <1>6, <1>7, ClientGoes

\* The chunks are planned.
LEMMA PlanKeeps ==
    ASSUME StoreInv, NEW c \in Clients, Plan(c)
    PROVE  Preserved
<1>1. CASE Load # "ok"
  BY <1>1, ErrorEnds DEF Plan
<1>2. CASE Load = "ok"
  <2> DEFINE todo == IF c \in Readers
                     THEN PlannedForegroundChunks(man.total, Here(c).want, man.extents)
                     ELSE PlannedGaps(man.total, Here(c).want, man.extents)
             n == [client[c] EXCEPT !.pc = "next", !.range = NoRange, !.todo = todo]
  <2>1. /\ client' = [client EXCEPT ![c] = n] /\ UNCHANGED <<disk, World, spurious>>
        /\ client[c].pc = "plan"
    BY <1>2 DEF Plan, At
  <2>2. disk.saved /\ disk \in Disk /\ Backed(man, disk.bytes)
    BY <1>2, ClientFields DEF Load, GoodDisk, man
  <2>3. /\ man.total \in Nat /\ man.total <= Total /\ man.extents \in Seq(Extent)
        /\ Ordered(man.extents) /\ client[c].want \in Pair
    BY <2>2, DiskFields, ClientFields DEF man, Backed
  <2>4. todo \subseteq Spans
    <3>1. PlannedForegroundChunks(man.total, Here(c).want, man.extents) \subseteq Spans
      BY <2>3, ForegroundChunksAreSpans DEF Here
    <3>2. PlannedGaps(man.total, Here(c).want, man.extents) \subseteq Spans
      BY <2>3, GapsAreSpans
    <3> QED BY <3>1, <3>2
  <2>5. "next" \in Pcs /\ NoRange \in Spans
    BY IdleIsClient DEF Pcs
  <2> HIDE DEF todo, NoRange
  <2>6. n \in Client /\ n.pc = "next"
    BY <2>4, <2>5, ClientFields DEF Client
  <2> HIDE DEF n
  <2>7. Fine(c, n, disk)
    BY <2>1, <2>2, <2>6, ClientFields DEF Fine, Placed, Asking, Fetching
  <2> QED BY <2>1, <2>6, <2>7, ClientGoes
<1> QED BY <1>1, <1>2

\* The next chunk.
LEMMA NextChunkKeeps ==
    ASSUME StoreInv, NEW c \in Clients, NextChunk(c)
    PROVE  Preserved
<1>1. /\ UNCHANGED <<disk, World, spurious>> /\ client[c].pc = "next"
  BY DEF NextChunk, At
<1>2. Fine(c, client[c], disk)
  BY ClientFields
<1>3. ASSUME NEW r \in Here(c).todo, client' = [client EXCEPT ![c].pc = "admit", ![c].range = r]
      PROVE  Preserved
  <2> DEFINE n == [client[c] EXCEPT !.pc = "admit", !.range = r]
  <2>1. client' = [client EXCEPT ![c] = n]
    BY <1>3
  <2>2. r \in Spans /\ "admit" \in Pcs
    BY ClientFields DEF Here, Pcs
  <2>3. n \in Client /\ n.pc = "admit"
    BY <2>2, ClientFields DEF Client
  <2> HIDE DEF n
  <2>4. Fine(c, n, disk)
    BY <1>1, <1>2, <2>3 DEF Fine, Placed, Asking, Fetching
  <2> QED BY <1>1, <2>1, <2>3, <2>4, ClientGoes
<1>4. CASE Go(c, "finish")
  <2>1. Fine(c, [client[c] EXCEPT !.pc = "finish"], disk)
    BY <1>1, <1>2, MovedFields DEF Fine, Placed, Asking, Fetching
  <2> QED BY <1>1, <1>4, <2>1, OnlyPcChanges DEF Pcs
<1> QED BY <1>3, <1>4 DEF NextChunk

\* Something durable to read lets the span end.
LEMMA ReadEnds ==
    ASSUME StoreInv, NEW c \in Clients, SpanEnds(c), UNCHANGED <<disk, World, spurious>>,
           client[c].pc \in {"admit", "wait", "own", "try", "maintain"},
           disk.saved => man.prefix # << >> \/ disk.meta
    PROVE  Preserved
<1>1. Env
  BY DEF StoreInv, StoreTypes, Env, World
<1>2. Safe(c, disk')
  BY NothingChanges
<1>3. disk'.saved => (disk'.man.prefix # << >> \/ disk'.meta) /\ disk'.man.total = Total
  BY ClientFields DEF Fine, Placed, Asking, Fetching, man
<1>4. disk'.saved \/ disk'.meta
  BY ClientFields DEF Fine
<1> QED BY <1>1, <1>2, <1>3, <1>4, SpanEndsWell

\* Admission of a span.
LEMMA AdmitKeeps ==
    ASSUME StoreInv, NEW c \in Clients, Admit(c)
    PROVE  Preserved
<1>1. UNCHANGED <<disk, World>> /\ client[c].pc = "admit" /\ Here(c).range \in Pair
  <2>1. client[c].range \in Spans
    BY ClientFields
  <2> QED BY <2>1, SizesAreNumbers DEF Admit, At, Spans, Pair, Here
<1>2. CASE IdentityError(c)
  BY <1>1, <1>2, ErrorEnds
<1>3. CASE Load = "ok" /\ RangeIsCovered(man.extents, Here(c).range) /\ SpanEnds(c) /\ UNCHANGED spurious
  <2>1. disk.saved => man.prefix # << >>
    BY <1>1, <1>3, CoveredHasPrefix
  <2> QED BY <1>1, <1>3, <2>1, ReadEnds
<1>4. CASE \E p \in {"wait", "own"} : Go(c, p) /\ UNCHANGED spurious
  <2>1. PICK p \in {"wait", "own"} : Go(c, p) /\ UNCHANGED spurious
    BY <1>4
  <2>2. p \in Pcs
    BY DEF Pcs
  <2>3. Fine(c, [client[c] EXCEPT !.pc = p], disk)
    BY <1>1, ClientFields, MovedFields DEF Fine, Placed, Asking, Fetching
  <2> QED BY <1>1, <2>1, <2>2, <2>3, OnlyPcChanges
<1> QED BY <1>2, <1>3, <1>4 DEF Admit

\* The end of a wait.
LEMMA WakeKeeps ==
    ASSUME StoreInv, NEW c \in Clients, Wake(c)
    PROVE  Preserved
<1>1. Go(c, "admit") /\ UNCHANGED <<disk, World, spurious>> /\ client[c].pc = "wait"
  BY DEF Wake, At
<1>2. Fine(c, [client[c] EXCEPT !.pc = "admit"], disk)
  BY <1>1, ClientFields, MovedFields DEF Fine, Placed, Asking, Fetching
<1> QED BY <1>1, <1>2, OnlyPcChanges DEF Pcs

\* The owner of a flight looks once more.
LEMMA OwnKeeps ==
    ASSUME StoreInv, NEW c \in Clients, Own(c)
    PROVE  Preserved
<1>1. UNCHANGED <<disk, World>> /\ client[c].pc = "own" /\ Here(c).range \in Pair
  <2>1. client[c].range \in Spans
    BY ClientFields
  <2> QED BY <2>1, SizesAreNumbers DEF Own, At, Spans, Pair, Here
<1>2. CASE IdentityError(c)
  BY <1>1, <1>2, ErrorEnds
<1>3. CASE ReadDurable(Here(c).range) = "ok" /\ SpanEnds(c) /\ UNCHANGED spurious
  <2>1. disk.saved => man.prefix # << >> \/ disk.meta
    <3>1. disk.meta \/ RangeIsCovered(man.extents, Here(c).range)
      BY <1>3 DEF ReadDurable, Load
    <3> QED BY <1>1, <3>1, CoveredHasPrefix
  <2> QED BY <1>1, <1>3, <2>1, ReadEnds
<1>4. CASE /\ ReadDurable(Here(c).range) = "none"
           /\ client' = [client EXCEPT ![c].pc = "try", ![c].left = Origins]
           /\ UNCHANGED spurious
  <2> DEFINE n == [client[c] EXCEPT !.pc = "try", !.left = Origins]
  <2>1. client' = [client EXCEPT ![c] = n]
    BY <1>4
  <2>2. "try" \in Pcs
    BY DEF Pcs
  <2>3. n \in Client /\ n.pc = "try" /\ n.range = client[c].range
    BY <2>2, ClientFields DEF Client
  <2> HIDE DEF n
  <2>4. ~disk.meta
    BY <1>4 DEF ReadDurable
  <2>5. Fine(c, n, disk)
    BY <1>1, <2>3, <2>4, ClientFields DEF Fine, Placed, Asking, Fetching
  <2> QED BY <1>1, <1>4, <2>1, <2>3, <2>5, ClientGoes
<1>5. ReadDurable(Here(c).range) \in {"ok", "identity", "none"}
  BY DEF ReadDurable, Load
<1> QED BY <1>2, <1>3, <1>4, <1>5 DEF Own

\* A candidate is tried.
LEMMA TryKeeps ==
    ASSUME StoreInv, NEW c \in Clients, NEW o \in Origins, Try(c, o)
    PROVE  Preserved
<1>1. CASE Load # "ok"
  BY <1>1, ErrorEnds DEF Try
<1>2. CASE Load = "ok"
  <2> DEFINE p == IF man.prefix # << >> /\ man.origins[o] = Unbound THEN "verify" ELSE "send"
             left == client[c].left \ {o}
             n == [client[c] EXCEPT !.pc = p, !.snap = man, !.cand = o, !.left = left]
  <2>1. /\ client' = [client EXCEPT ![c] = n] /\ UNCHANGED <<disk, World, spurious>>
        /\ client[c].pc = "try"
    BY <1>2 DEF Try, At
  <2>2. p \in Pcs /\ p \in {"verify", "send"} /\ left \subseteq Origins /\ man \in Manifest
    BY ClientFields DEF Pcs
  <2> HIDE DEF p, left
  <2>3. n \in Client /\ n.pc = p /\ n.range = client[c].range
    BY <2>2, ClientFields DEF Client
  <2> HIDE DEF n
  <2>4. Fine(c, n, disk)
    BY <2>1, <2>2, <2>3, ClientFields DEF Fine, Placed, Asking, Fetching
  <2> QED BY <2>1, <2>3, <2>4, ClientGoes
<1> QED BY <1>1, <1>2

\* The next candidate, after a request.
LEMMA AnotherCandidate ==
    ASSUME StoreInv, NEW c \in Clients, NextCandidate(c), client[c].pc \in Fetching,
           UNCHANGED <<disk, World, spurious>>
    PROVE  Preserved
<1> DEFINE left == Here(c).left
           retried == Here(c).retried
           n == [Forget(c) EXCEPT !.pc = "try", !.left = left, !.retried = retried]
<1>1. client' = [client EXCEPT ![c] = n]
  BY DEF NextCandidate
<1>2. left \subseteq Origins /\ retried \in BOOLEAN /\ "try" \in Pcs
  BY ClientFields DEF Here, Pcs
<1> HIDE DEF left, retried
<1>3. n \in Client /\ n.pc = "try" /\ n.range = client[c].range
  BY <1>2, ForgottenIsClient DEF Client
<1> HIDE DEF n
<1>4. Fine(c, n, disk)
  BY <1>3, ClientFields DEF Fine, Placed, Asking, Fetching
<1> QED BY <1>1, <1>3, <1>4, ClientGoes

\* No candidate is left.
LEMMA NoCandidateKeeps ==
    ASSUME StoreInv, NEW c \in Clients, NoCandidate(c)
    PROVE  Preserved
<1>1. CASE c \in Fillers /\ Here(c).todo = {NoRange}
  <2>1. Go(c, "fullget") /\ UNCHANGED <<disk, World, spurious>> /\ client[c].pc = "try"
    BY <1>1 DEF NoCandidate, At
  <2>2. Fine(c, [client[c] EXCEPT !.pc = "fullget"], disk)
    BY <1>1, <2>1, ClientFields, MovedFields DEF Fine, Placed, Asking, Fetching
  <2> QED BY <2>1, <2>2, OnlyPcChanges DEF Pcs
<1>2. CASE ~(c \in Fillers /\ Here(c).todo = {NoRange})
  BY <1>2, ErrorEnds DEF NoCandidate
<1> QED BY <1>1, <1>2

\* The origins a candidate redirects to are origins.
LEMMA ViaOrigins ==
    ASSUME NEW o \in Origins PROVE Via(o) \subseteq Origins
BY DEF Via

\* The prefix of a candidate is verified.
LEMMA VerifyKeeps ==
    ASSUME StoreInv, NEW c \in Clients, Verify(c)
    PROVE  Preserved
<1>1. UNCHANGED <<disk, World, spurious>> /\ client[c].pc = "verify" /\ client[c].pc \in Fetching
  BY DEF Verify, At, Fetching
<1>2. PICK p \in Via(Here(c).cand) :
        IF Verified(c, p)
        THEN client' = [client EXCEPT ![c].pc = "bind", ![c].obs = p, ![c].etag = etag[p]]
        ELSE NextCandidate(c)
  BY Zenon DEF Verify
<1>3. CASE NextCandidate(c)
  BY <1>1, <1>3, AnotherCandidate
<1>4. CASE client' = [client EXCEPT ![c].pc = "bind", ![c].obs = p, ![c].etag = etag[p]]
  <2>1. p \in Origins
    BY ClientFields, ViaOrigins DEF Here
  <2>2. etag[p] \in 1..2
    BY <2>1 DEF StoreInv, StoreTypes
  <2>3. etag[p] \in 0..2
    BY <2>2
  <2> DEFINE tag == etag[p]
             n == [client[c] EXCEPT !.pc = "bind", !.obs = p, !.etag = tag]
  <2>4. client' = [client EXCEPT ![c] = n]
    BY <1>4
  <2>5. "bind" \in Pcs /\ tag \in 0..2
    BY <2>3 DEF Pcs
  <2> HIDE DEF tag
  <2>6. n \in Client /\ n.pc = "bind" /\ n.range = client[c].range
    BY <2>1, <2>5, ClientFields DEF Client
  <2> HIDE DEF n
  <2>7. Fine(c, n, disk)
    BY <1>1, <2>6, ClientFields DEF Fine, Placed, Asking, Fetching
  <2> QED BY <1>1, <2>4, <2>6, <2>7, ClientGoes
<1> QED BY <1>2, <1>3, <1>4

\* The answer of a candidate arrives.
LEMMA SendKeeps ==
    ASSUME StoreInv, NEW c \in Clients, Send(c)
    PROVE  Preserved
<1>1. UNCHANGED <<disk, World, spurious>> /\ client[c].pc \in Fetching
  BY DEF Send, At, Fetching
<1>2. PICK o \in Via(Here(c).cand) :
        client' = [client EXCEPT
            ![c].pc = IF MustRevalidate(c, o) THEN "reverify" ELSE "commit",
            ![c].left = IF MustRevalidate(c, o) THEN @ ELSE {},
            ![c].obs = o, ![c].etag = etag[o], ![c].cand = First]
  BY Zenon DEF Send
<1> DEFINE p == IF MustRevalidate(c, o) THEN "reverify" ELSE "commit"
           left == IF MustRevalidate(c, o) THEN client[c].left ELSE {}
           tag == etag[o]
           n == [client[c] EXCEPT !.pc = p, !.left = left, !.obs = o, !.etag = tag, !.cand = First]
<1>3. o \in Origins /\ First \in Origins
  BY ClientFields, ViaOrigins, StoreAssumption DEF Here
<1>4. p \in Fetching /\ left \in SUBSET Origins
  BY ClientFields DEF Fetching
<1>5. tag \in 0..2
  <2>1. etag[o] \in 1..2
    BY <1>3 DEF StoreInv, StoreTypes
  <2> QED BY <2>1
<1>6. client' = [client EXCEPT ![c] = n]
  BY <1>2
<1>7. p \in Pcs
  BY <1>4 DEF Fetching, Pcs
<1> HIDE DEF p, left, tag
<1>8. n \in Client /\ n.pc = p /\ n.range = client[c].range
  BY <1>3, <1>4, <1>5, <1>7, ClientFields DEF Client
<1> HIDE DEF n
<1>9. Fine(c, n, disk)
  BY <1>1, <1>4, <1>8, ClientFields DEF Fine, Placed, Asking, Fetching
<1> QED BY <1>1, <1>6, <1>8, <1>9, ClientGoes

\* The prefix of the origin that answered is verified.
LEMMA ReverifyKeeps ==
    ASSUME StoreInv, NEW c \in Clients, Reverify(c)
    PROVE  Preserved
<1>1. UNCHANGED <<disk, World, spurious>> /\ client[c].pc = "reverify" /\ client[c].pc \in Fetching
  BY DEF Reverify, At, Fetching
<1>2. CASE NextCandidate(c)
  BY <1>1, <1>2, AnotherCandidate
<1>3. CASE client' = [client EXCEPT ![c].pc = "rebind", ![c].left = {}]
  <2> DEFINE n == [client[c] EXCEPT !.pc = "rebind", !.left = {}]
  <2>1. client' = [client EXCEPT ![c] = n]
    BY <1>3
  <2>2. "rebind" \in Pcs
    BY DEF Pcs
  <2>3. n \in Client /\ n.pc = "rebind" /\ n.range = client[c].range
    BY <2>2, ClientFields DEF Client
  <2> HIDE DEF n
  <2>4. Fine(c, n, disk)
    BY <1>1, <2>3, ClientFields DEF Fine, Placed, Asking, Fetching
  <2> QED BY <1>1, <2>1, <2>3, <2>4, ClientGoes
<1> QED BY <1>2, <1>3 DEF Reverify

\* A validated origin is bound.
LEMMA PublishOriginKeeps ==
    ASSUME StoreInv, NEW c \in Clients, NEW next \in Fetching, PublishOrigin(c, next),
           client[c].pc \in Fetching
    PROVE  Preserved
<1>1. CASE IdentityError(c) /\ UNCHANGED disk
  BY <1>1, ErrorEnds DEF PublishOrigin
<1>2. CASE ~IdentityError(c) \/ ~UNCHANGED disk
  <2> DEFINE o == Here(c).obs
             tag == Here(c).etag
             m == [man EXCEPT !.origins[o] = tag]
             n == [client[c] EXCEPT !.pc = next, !.snap = m]
  <2>1. /\ disk' = [disk EXCEPT !.man = m]
        /\ client' = [client EXCEPT ![c].pc = next, ![c].snap = disk'.man]
        /\ UNCHANGED <<World, spurious>> /\ Load = "ok"
    BY <1>2 DEF PublishOrigin, man
  <2>2. disk.saved /\ disk \in Disk /\ man \in Manifest /\ o \in Origins /\ tag \in 0..2
    BY <2>1, ClientFields DEF Load, Here
  <2> HIDE DEF o, tag
  <2>3. /\ m \in Manifest /\ m.extents = man.extents /\ m.prefix = man.prefix /\ m.total = man.total
    BY <2>2 DEF Manifest
  <2> HIDE DEF m
  <2>4. Safe(c, disk')
    BY <2>1, <2>2, <2>3, SameExtentsAreSafe
  <2>5. disk'.man = m /\ disk'.saved
    BY <2>1, <2>2 DEF Disk
  <2>6. client' = [client EXCEPT ![c] = n]
    BY <2>1, <2>5
  <2>7. next \in Pcs
    BY DEF Fetching, Pcs
  <2>8. n \in Client /\ n.pc = next /\ n.range = client[c].range
    BY <2>3, <2>7, ClientFields DEF Client
  <2> HIDE DEF n
  <2>9. Fine(c, n, disk')
    BY <2>2, <2>3, <2>5, <2>8, ClientFields DEF Fine, Placed, Asking, Fetching, man
  <2>10. Env
    BY <2>1 DEF StoreInv, StoreTypes, Env, World
  <2> QED BY <2>4, <2>6, <2>8, <2>9, <2>10, ClientMoves DEF Preserved
<1> QED BY <1>1, <1>2

\* A request fails, or the fill yields.
LEMMA RequestFailsKeeps ==
    ASSUME StoreInv, NEW c \in Clients, RequestFails(c) \/ Preempted(c)
    PROVE  Preserved
<1>1. CASE RequestFails(c)
  <2>1. client[c].pc \in Fetching /\ UNCHANGED <<disk, World>>
    BY <1>1 DEF RequestFails, Fetching
  <2>2. CASE NextCandidate(c) /\ UNCHANGED spurious
    BY <2>1, <2>2, AnotherCandidate
  <2>3. CASE Fails(c)
    BY <2>1, <2>3, ErrorEnds
  <2> QED BY <1>1, <2>2, <2>3 DEF RequestFails
<1>2. CASE Preempted(c)
  <2>1. UNCHANGED <<disk, World>>
    BY <1>2 DEF Preempted
  <2>2. CASE At(c, "maintain") /\ SpanEnds(c) /\ UNCHANGED spurious
    <3>1. client[c].pc = "maintain" /\ (disk.saved => man.prefix # << >> \/ disk.meta)
      BY <2>2, ClientFields DEF At, Fine, Placed, man
    <3> QED BY <2>1, <2>2, <3>1, ReadEnds
  <2>3. CASE Fails(c)
    BY <2>1, <2>3, ErrorEnds
  <2> QED BY <1>2, <2>2, <2>3 DEF Preempted
<1> QED BY <1>1, <1>2

\* A client that has what it fetched, or wants to fetch it again, forgets it.
LEMMA ForgetsAndGoes ==
    ASSUME StoreInv, NEW c \in Clients, NEW p \in Pcs
    PROVE  LET n == [Forget(c) EXCEPT !.pc = p]
           IN n \in Client /\ n.pc = p /\ n.range = client[c].range
BY ForgottenIsClient DEF Client

\* An extent is committed.
LEMMA CommitKeeps ==
    ASSUME StoreInv, NEW c \in Clients, Commit(c)
    PROVE  Preserved
<1> DEFINE n == [Forget(c) EXCEPT !.pc = "maintain"]
<1>1. /\ At(c, "commit") /\ Load = "ok" /\ Fits(c) /\ UNCHANGED <<World, spurious>>
      /\ disk' = (IF RangeIsCovered(man.extents, Here(c).range) THEN disk ELSE Last(CommitStages(c)))
      /\ client' = [client EXCEPT ![c] = n]
  BY DEF Commit, MayCommit
<1>2. "maintain" \in Pcs
  BY DEF Pcs
<1>3. n \in Client /\ n.pc = "maintain"
  BY <1>2, ForgetsAndGoes
<1> HIDE DEF n
<1>4. Env
  BY <1>1 DEF StoreInv, StoreTypes, Env, World
<1>5. disk.saved /\ man.total = Total /\ Here(c).range \in Pair
  BY <1>1, CommitTypes
<1>6. Safe(c, disk') /\ disk'.saved /\ disk'.man.prefix # << >> /\ disk'.man.total = Total
  <2>1. CASE RangeIsCovered(man.extents, Here(c).range)
    <3>1. man.prefix # << >>
      BY <1>5, <2>1, CoveredHasPrefix
    <3> QED BY <1>1, <1>5, <2>1, <3>1, NothingChanges DEF man
  <2>2. CASE ~RangeIsCovered(man.extents, Here(c).range)
    <3>1. /\ Len(CommitStages(c)) = 2
          /\ \A k \in 1..2 : Safe(c, CommitStages(c)[k])
          /\ CommitStages(c)[2].man = CommittedManifest(c)
          /\ CommitStages(c)[2].saved
          /\ CommittedManifest(c).prefix # << >>
      BY <1>1, CommitIsSafe
    <3>2. disk' = CommitStages(c)[2]
      BY <1>1, <2>2, <3>1 DEF Last
    <3>3. CommittedManifest(c).total = man.total
      BY <1>1, CommittedFields
    <3> QED BY <1>5, <3>1, <3>2, <3>3
  <2> QED BY <2>1, <2>2
<1>7. Fine(c, n, disk')
  BY <1>3, <1>6 DEF Fine, Placed, Asking, Fetching
<1> QED BY <1>1, <1>3, <1>4, <1>6, <1>7, ClientMoves DEF Preserved

\* The checkpoint is full.
LEMMA CommitFullKeeps ==
    ASSUME StoreInv, NEW c \in Clients, CommitFull(c)
    PROVE  Preserved
<1>1. UNCHANGED <<disk, World>> /\ client[c].pc = "commit"
  BY DEF CommitFull, At
<1>2. CASE Fails(c)
  BY <1>1, <1>2, ErrorEnds
<1>3. CASE ~Fails(c)
  <2> DEFINE n == [Forget(c) EXCEPT !.pc = "squeeze"]
  <2>1. client' = [client EXCEPT ![c] = n] /\ UNCHANGED spurious
    BY <1>3 DEF CommitFull
  <2>2. "squeeze" \in Pcs
    BY DEF Pcs
  <2>3. n \in Client /\ n.pc = "squeeze" /\ n.range = client[c].range
    BY <2>2, ForgetsAndGoes
  <2> HIDE DEF n
  <2>4. Fine(c, n, disk)
    BY <1>1, <2>3, ClientFields DEF Fine, Placed, Asking, Fetching
  <2> QED BY <1>1, <2>1, <2>3, <2>4, ClientGoes
<1> QED BY <1>2, <1>3

\* One more fetch after a moved validator.
LEMMA CommitStaleKeeps ==
    ASSUME StoreInv, NEW c \in Clients, CommitStale(c)
    PROVE  Preserved
<1> DEFINE n == [Forget(c) EXCEPT !.pc = "try", !.left = Origins, !.retried = TRUE]
<1>1. /\ UNCHANGED <<disk, World, spurious>> /\ client[c].pc = "commit"
      /\ client' = [client EXCEPT ![c] = n]
  BY DEF CommitStale, At
<1>2. "try" \in Pcs
  BY DEF Pcs
<1>3. n \in Client /\ n.pc = "try" /\ n.range = client[c].range
  BY <1>2, ForgottenIsClient DEF Client
<1> HIDE DEF n
<1>4. Fine(c, n, disk)
  BY <1>1, <1>3, ClientFields DEF Fine, Placed, Asking, Fetching
<1> QED BY <1>1, <1>3, <1>4, ClientGoes

\* Room is made in a full checkpoint.
LEMMA SqueezeKeeps ==
    ASSUME StoreInv, NEW c \in Clients, Squeeze(c)
    PROVE  Preserved
<1> DEFINE passes == client[c].passes + 1
           n == [client[c] EXCEPT !.pc = "admit", !.passes = passes]
<1>1. /\ UNCHANGED <<World, spurious>> /\ client[c].pc = "squeeze"
      /\ client' = [client EXCEPT ![c] = n]
      /\ disk' = IF CanCompact THEN Compacted ELSE disk
  BY DEF Squeeze, At
<1>2. "admit" \in Pcs /\ passes \in Nat
  BY ClientFields DEF Pcs
<1> HIDE DEF passes
<1>3. n \in Client /\ n.pc = "admit" /\ n.range = client[c].range
  BY <1>2, ClientFields DEF Client
<1> HIDE DEF n
<1>4. Safe(c, disk') /\ disk'.saved = disk.saved /\ disk'.meta = disk.meta
      /\ disk'.man.prefix = man.prefix /\ disk'.man.total = man.total
  BY <1>1, CompactedIsSafe, NothingChanges DEF man
<1>5. Fine(c, n, disk')
  BY <1>1, <1>3, <1>4, ClientFields DEF Fine, Placed, Asking, Fetching, man
<1>6. Env
  BY <1>1 DEF StoreInv, StoreTypes, Env, World
<1> QED BY <1>1, <1>3, <1>4, <1>5, <1>6, ClientMoves DEF Preserved

\* Maintenance after a success.
LEMMA MaintainKeeps ==
    ASSUME StoreInv, NEW c \in Clients, Maintain(c)
    PROVE  Preserved
<1>1. UNCHANGED <<World, spurious>> /\ client[c].pc = "maintain"
  BY DEF Maintain, At
<1>2. Env
  BY <1>1 DEF StoreInv, StoreTypes, Env, World
<1>3. /\ disk.saved => man.prefix # << >> \/ disk.meta
      /\ disk.saved => man.total = Total
      /\ disk.saved \/ disk.meta
  BY <1>1, ClientFields DEF Fine, Placed, man
<1>4. CASE SpanEnds(c) /\ UNCHANGED disk
  BY <1>1, <1>3, <1>4, ReadEnds
<1>5. CASE CanCompact /\ disk' = Compacted
  <2>1. Safe(c, disk') /\ disk'.saved = disk.saved /\ disk'.meta = disk.meta
        /\ disk'.man.prefix = man.prefix /\ disk'.man.total = man.total
    BY <1>5, CompactedIsSafe
  <2>2. CASE SpanEnds(c)
    BY <1>2, <1>3, <2>1, <2>2, SpanEndsWell
  <2>3. CASE client' = [client EXCEPT ![c].passes = @ + 1]
    <3> DEFINE passes == client[c].passes + 1
               n == [client[c] EXCEPT !.passes = passes]
    <3>1. client' = [client EXCEPT ![c] = n]
      BY <2>3
    <3>2. passes \in Nat
      BY ClientFields
    <3> HIDE DEF passes
    <3>3. n \in Client /\ n.pc = "maintain"
      BY <1>1, <3>2, ClientFields DEF Client
    <3> HIDE DEF n
    <3>4. Fine(c, n, disk')
      BY <1>3, <2>1, <3>3 DEF Fine, Placed, Asking, Fetching
    <3> QED BY <1>2, <2>1, <3>1, <3>3, <3>4, ClientMoves DEF Preserved
  <2> QED BY <1>5, <2>2, <2>3 DEF Maintain
<1> QED BY <1>4, <1>5 DEF Maintain

\* The end of a request, and of the ranges of a fill.
LEMMA FinishKeeps ==
    ASSUME StoreInv, NEW c \in Clients, Finish(c)
    PROVE  Preserved
<1>1. UNCHANGED <<disk, World>> /\ client[c].pc = "finish"
  BY DEF Finish, At
<1>2. CASE IdentityError(c) \/ Fails(c)
  BY <1>1, <1>2, ErrorEnds
<1>3. CASE c \in Fillers /\ Go(c, "finalize") /\ UNCHANGED spurious
  <2>1. Fine(c, [client[c] EXCEPT !.pc = "finalize"], disk)
    BY <1>1, <1>3, ClientFields, MovedFields DEF Fine, Placed, Asking, Fetching
  <2> QED BY <1>1, <1>3, <2>1, OnlyPcChanges DEF Pcs
<1> QED BY <1>2, <1>3 DEF Finish

\* The range resource is finalized.
LEMMA FinalizeKeeps ==
    ASSUME StoreInv, NEW c \in Clients, Finalize(c)
    PROVE  Preserved
<1>1. UNCHANGED World /\ c \in Fillers
  BY ClientFields DEF Finalize, At, Fine
<1>2. CASE (IdentityError(c) \/ Fails(c)) /\ UNCHANGED disk
  BY <1>1, <1>2, ErrorEnds
<1>3. CASE MayFinalize /\ disk' = Last(FinalizeStages) /\ Fails(c)
  <2>1. Len(FinalizeStages) = 3 /\ Safe(c, FinalizeStages[3])
    BY <1>1, <1>3, FinalizeIsSafe
  <2>2. Safe(c, disk')
    BY <1>3, <2>1 DEF Last
  <2>3. Env /\ Done(c)
    BY <1>1, <1>3 DEF StoreInv, StoreTypes, Env, World, Fails
  <2> QED BY <2>2, <2>3, RequestEnds
<1> QED BY <1>2, <1>3 DEF Finalize

\* A full GET begins.
LEMMA FullGetKeeps ==
    ASSUME StoreInv, NEW c \in Clients, FullGet(c) \/ FullGetFails(c)
    PROVE  Preserved
<1>1. UNCHANGED <<disk, World>>
  BY DEF FullGet, FullGetFails
<1>2. CASE Fails(c)
  BY <1>1, <1>2, ErrorEnds
<1>3. CASE /\ At(c, "fullget") /\ client' = [client EXCEPT ![c].pc = "publish", ![c].snap = man]
           /\ UNCHANGED spurious
  <2> DEFINE n == [client[c] EXCEPT !.pc = "publish", !.snap = man]
  <2>1. client' = [client EXCEPT ![c] = n]
    BY <1>3
  <2>2. "publish" \in Pcs /\ man \in Manifest
    BY ClientFields DEF Pcs
  <2>3. n \in Client /\ n.pc = "publish"
    BY <2>2, ClientFields DEF Client
  <2> HIDE DEF n
  <2>4. Fine(c, n, disk)
    BY <1>3, <2>3, ClientFields DEF Fine, Placed, Asking, Fetching, At
  <2> QED BY <1>1, <1>3, <2>1, <2>3, <2>4, ClientGoes
<1> QED BY <1>2, <1>3 DEF FullGet, FullGetFails

\* A full GET is published in the place of the checkpoint.
LEMMA FullGetPublishesKeeps ==
    ASSUME StoreInv, NEW c \in Clients, FullGetPublishes(c)
    PROVE  Preserved
<1>1. UNCHANGED World /\ c \in Fillers
  BY ClientFields DEF FullGetPublishes, At, Fine
<1>2. CASE (IdentityError(c) \/ Fails(c)) /\ UNCHANGED disk
  BY <1>1, <1>2, ErrorEnds
<1>3. CASE MayPublish(c) /\ disk' = Last(FullGetStages) /\ Fails(c)
  <2>1. Len(FullGetStages) = 4 /\ Safe(c, FullGetStages[4])
    BY <1>1, <1>3, FullGetIsSafe
  <2>2. Safe(c, disk')
    BY <1>3, <2>1 DEF Last
  <2>3. Env /\ Done(c)
    BY <1>1, <1>3 DEF StoreInv, StoreTypes, Env, World, Fails
  <2> QED BY <2>2, <2>3, RequestEnds
<1> QED BY <1>2, <1>3 DEF FullGetPublishes

\* The process dies, or a file operation fails.
LEMMA InterruptKeeps ==
    ASSUME StoreInv, NEW c \in Clients, Interrupt(c)
    PROVE  Preserved
<1>1. PICK k \in 1..Len(Stages(c)) : disk' = Front(<<disk>> \o Stages(c))[k]
  BY DEF Interrupt
<1>2. Safe(c, disk')
  BY <1>1, InterruptedIsSafe
<1>3. Env
  BY DEF Interrupt, StoreInv, StoreTypes, Env
<1>4. CASE Done(c)
  BY <1>2, <1>3, <1>4, RequestEnds
<1>5. CASE client' = [d \in Clients |-> Idle]
  <2>1. \A d \in Clients : client'[d] = Idle /\ Fine(d, Idle, disk')
    BY <1>5, IdleIsClient, EarlyIsFine
  <2>2. client' \in [Clients -> Client]
    BY <1>5, IdleIsClient
  <2>3. StoreTypes' /\ GoodDisk(disk') /\ Later(disk, disk')
    BY <1>2, <1>3, <2>2 DEF StoreInv, StoreTypes, Env, Safe, GoodDisk
  <2> QED BY <2>1, <2>3 DEF Preserved, StoreInv
<1> QED BY <1>4, <1>5 DEF Interrupt

\* An origin changes its validator.
LEMMA RollKeeps ==
    ASSUME StoreInv, NEW o \in Origins, Roll(o)
    PROVE  Preserved
<1>1. UNCHANGED <<disk, client, content, hurts, spurious>> /\ rolls' = rolls + 1
  BY DEF Roll
<1>2. etag' \in [Origins -> 1..2]
  <2>1. etag \in [Origins -> 1..2] /\ etag' = [etag EXCEPT ![o] = 3 - etag[o]]
    BY DEF Roll, StoreInv, StoreTypes
  <2>2. \A x \in 1..2 : 3 - x \in 1..2
    OBVIOUS
  <2> QED BY <2>1, <2>2
<1>3. StoreTypes'
  BY <1>1, <1>2 DEF StoreInv, StoreTypes
<1>4. \A d \in Clients : Fine(d, client'[d], disk')
  BY <1>1 DEF StoreInv
<1>5. GoodDisk(disk') /\ Later(disk, disk')
  BY <1>1 DEF StoreInv, Later
<1> QED BY <1>3, <1>4, <1>5 DEF Preserved, StoreInv

\* Every step of a client keeps the invariant and what was durable.
LEMMA StepKeeps ==
    ASSUME StoreInv, NEW c \in Clients, Step(c)
    PROVE  Preserved
<1>1. CASE Ensure(c) \/ PublishTotal(c) \/ NoTotal(c) \/ FirstChunk(c) \/ Plan(c) \/ NextChunk(c)
  BY <1>1, EnsureKeeps, PublishTotalKeeps, NoTotalKeeps, FirstChunkKeeps, PlanKeeps, NextChunkKeeps
<1>2. CASE Admit(c) \/ Wake(c) \/ Own(c) \/ (\E o \in Origins : Try(c, o)) \/ NoCandidate(c)
  BY <1>2, AdmitKeeps, WakeKeeps, OwnKeeps, TryKeeps, NoCandidateKeeps
<1>3. CASE Bind(c) \/ Rebind(c)
  <2>1. CASE Bind(c)
    BY <2>1, PublishOriginKeeps DEF Bind, At, Fetching
  <2>2. CASE Rebind(c)
    BY <2>2, PublishOriginKeeps DEF Rebind, At, Fetching
  <2> QED BY <1>3, <2>1, <2>2
<1>4. CASE Verify(c) \/ Send(c) \/ Reverify(c)
  BY <1>4, VerifyKeeps, SendKeeps, ReverifyKeeps
<1>5. CASE Commit(c) \/ CommitFull(c) \/ CommitStale(c)
  BY <1>5, CommitKeeps, CommitFullKeeps, CommitStaleKeeps
<1>6. CASE CommitRefused(c)
  BY <1>6, ErrorEnds DEF CommitRefused
<1>7. CASE Squeeze(c) \/ Maintain(c) \/ Finish(c) \/ Finalize(c)
  BY <1>7, SqueezeKeeps, MaintainKeeps, FinishKeeps, FinalizeKeeps
<1>8. CASE FullGet(c) \/ FullGetPublishes(c)
  BY <1>8, FullGetKeeps, FullGetPublishesKeeps
<1> QED BY <1>1, <1>2, <1>3, <1>4, <1>5, <1>6, <1>7, <1>8 DEF Step

\* Every step keeps the invariant and what was durable.
LEMMA NextKeeps ==
    ASSUME StoreInv, [Next]_vars
    PROVE  Preserved
<1>1. CASE UNCHANGED vars
  <2>1. UNCHANGED <<disk, client, content, etag, rolls, hurts, spurious>>
    BY <1>1 DEF vars
  <2>2. StoreTypes'
    BY <2>1 DEF StoreInv, StoreTypes
  <2>3. \A d \in Clients : Fine(d, client'[d], disk')
    BY <2>1 DEF StoreInv
  <2>4. GoodDisk(disk') /\ Later(disk, disk')
    BY <2>1 DEF StoreInv, Later
  <2> QED BY <2>2, <2>3, <2>4 DEF Preserved, StoreInv
<1>2. ASSUME NEW c \in Clients, \E r \in Requests : StartRead(c, r)
      PROVE  Preserved
  BY <1>2, StartReadKeeps
<1>3. ASSUME NEW c \in Clients, StartFill(c) \/ Step(c)
      PROVE  Preserved
  BY <1>3, StartFillKeeps, StepKeeps
<1>4. ASSUME NEW c \in Clients, RequestFails(c) \/ Preempted(c) \/ FullGetFails(c) \/ Interrupt(c)
      PROVE  Preserved
  BY <1>4, RequestFailsKeeps, FullGetKeeps, InterruptKeeps
<1>5. ASSUME NEW o \in Origins, Roll(o)
      PROVE  Preserved
  BY <1>5, RollKeeps
<1> QED BY <1>1, <1>2, <1>3, <1>4, <1>5 DEF Next

\* At first there is nothing.
LEMMA StoreInit == Init => StoreInv
<1> SUFFICES ASSUME Init PROVE StoreInv
  OBVIOUS
<1>1. EmptyDisk \in Disk /\ ~EmptyDisk.meta /\ ~EmptyDisk.saved
  <2>1. EmptyDisk.man \in Manifest
    BY IdleIsClient
  <2>2. EmptyDisk.bytes \in [Positions -> Data]
    BY DEF EmptyDisk, Data
  <2>3. EmptyDisk = [partial |-> FALSE, bytes |-> EmptyDisk.bytes, final |-> "none",
                     meta |-> FALSE, saved |-> FALSE, man |-> EmptyDisk.man]
    BY DEF EmptyDisk
  <2> DEFINE m == EmptyDisk.man
             b == EmptyDisk.bytes
             d == [partial |-> FALSE, bytes |-> b, final |-> "none",
                   meta |-> FALSE, saved |-> FALSE, man |-> m]
  <2>4. m \in Manifest /\ b \in [Positions -> Data] /\ EmptyDisk = d
    BY <2>1, <2>2, <2>3
  <2> HIDE DEF m, b
  <2>5. d \in Disk /\ ~d.meta /\ ~d.saved
    BY <2>4 DEF Disk
  <2> QED BY <2>4, <2>5
<1>2. GoodDisk(disk)
  BY <1>1 DEF Init, GoodDisk
<1>3. \A c \in Clients : client[c] = Idle /\ Fine(c, Idle, disk)
  BY IdleIsClient, EarlyIsFine DEF Init
<1>4. client \in [Clients -> Client]
  BY IdleIsClient DEF Init
<1>5. 0 \in Positions
  BY SizesAreNumbers DEF Positions, Bytes, Whole
<1>6. /\ content \in [Origins -> [Positions -> Byte]]
      /\ \A o \in Origins : \A p \in Positions : content[o][p] = content[o][0]
  BY <1>5 DEF Init, Mirror, Foreign, Byte
<1>7. etag \in [Origins -> 1..2] /\ rolls \in Nat /\ hurts \in Nat /\ spurious \in BOOLEAN
  <2>1. 1 \in 1..2
    OBVIOUS
  <2> QED BY <2>1 DEF Init
<1>8. StoreTypes
  BY <1>1, <1>4, <1>6, <1>7 DEF StoreTypes, Init
<1> QED BY <1>2, <1>3, <1>8 DEF StoreInv

\* The invariant says what the run checks of the checkpoint.
LEMMA StoreIsBacked == StoreInv => CheckpointIsBacked
<1> SUFFICES ASSUME StoreInv PROVE CheckpointIsBacked
  OBVIOUS
<1>1. disk \in Disk /\ GoodDisk(disk)
  BY DEF StoreInv, GoodDisk
<1>2. TypeOK
  <2>1. \A c \in Clients : client[c].pc \in Pcs /\ client[c].left \subseteq Origins
    BY ClientFields
  <2> QED BY <1>1, <2>1, DiskFields DEF TypeOK, Data, Byte
<1>3. CompletedIsWhole
  BY <1>1 DEF GoodDisk, CompletedIsWhole
<1>4. ASSUME disk.saved
      PROVE  /\ WellFormed(man.extents, man.total)
             /\ \A i \in DOMAIN man.extents :
                   Digest(disk.bytes, RangeOf(man.extents[i])) = man.extents[i].sha
             /\ man.prefix = Digest(disk.bytes, <<0, Len(man.prefix)>>)
             /\ (man.prefix = << >>) <=> (man.extents = << >>)
  <2> DEFINE q == man.extents
  <2>1. Backed(man, disk.bytes) /\ q \in Seq(Extent) /\ man.total \in {0, Total}
    BY <1>1, <1>4, DiskFields DEF GoodDisk, man, Disk, Manifest, Sizes
  <2>2. /\ Ordered(q) /\ Len(q) <= MaxChunks /\ Digested(disk.bytes, q)
        /\ man.prefix = Digest(disk.bytes, <<0, Len(man.prefix)>>)
        /\ (man.prefix = << >>) <=> (q = << >>)
    BY <2>1 DEF Backed
  <2>3. \A i \in DOMAIN q : i > 1 => i - 1 \in DOMAIN q /\ i - 1 < i
    BY <2>1
  <2> HIDE DEF q
  <2>4. WellFormed(q, man.total)
    BY <2>1, <2>2, <2>3 DEF WellFormed, Ordered
  <2> QED BY <2>2, <2>4 DEF q, Digested
<1> QED BY <1>2, <1>3, <1>4 DEF CheckpointIsBacked

\* The invariant holds.
THEOREM StoreInvHolds == Spec => []StoreInv
<1>1. StoreInv /\ [Next]_vars => StoreInv'
  BY NextKeeps DEF Preserved
<1> QED BY <1>1, StoreInit, PTL DEF Spec

\* Whatever is interrupted, and however requests and the fill interleave, the
\* checkpoint of a resource says the truth of its data file, and a resource
\* that counts as completed is whole (commit_range_extent_with_failure,
\* compact_one_complete_range_parent, finalize_range_resource).
THEOREM CheckpointIsTrue == Spec => []CheckpointIsBacked
BY StoreInvHolds, StoreIsBacked, PTL

\* Bytes once durable are never lost again.
THEOREM DurableBytesAreKept == Spec => DurableBytesStay
<1>1. StoreInv /\ [Next]_vars => [Available \subseteq Available']_vars
  <2> SUFFICES ASSUME StoreInv, [Next]_vars PROVE Available \subseteq Available'
    OBVIOUS
  <2>1. Later(disk, disk')
    BY NextKeeps DEF Preserved
  <2>2. Available = AvailableIn(disk) /\ Available' = AvailableIn(disk')
    BY DEF Available, AvailableIn, man
  <2> QED BY <2>1, <2>2 DEF Later
<1> QED BY <1>1, StoreInvHolds, PTL DEF Spec, DurableBytesStay

-----------------------------------------------------------------------------
(* One representation.                                                      *)

\* An origin serves the file the prefix is from, and so does every origin that
\* is bound.
Serves(o, m) == m.prefix # << >> /\ content[o][0] = m.prefix[1]
Bound(m) == \A o \in Origins : m.origins[o] # Unbound => Serves(o, m)

\* What is durable is of one file, that of the prefix and of the bound origins.
SameIn(d) ==
    d.saved => /\ \A p \in Durable(d.man.extents) : d.bytes[p] = d.man.prefix[1]
               /\ Bound(d.man)

\* A client that fetches knows the prefix that stands; without one it is the
\* startup chunk it fetches.  It has verified, or found bound, the origin of the
\* bytes it is about to commit.
Informed(x, d) ==
    x.pc \in Fetching =>
        /\ d.saved /\ x.snap.prefix # << >> => d.man.prefix = x.snap.prefix
        /\ Bound(x.snap)
        /\ x.snap.prefix # << >> \/ (x.range = StartupRange /\ x.pc \in {"send", "commit"})
        /\ x.pc \in {"bind", "rebind", "commit"} /\ x.snap.prefix # << >>
           => Serves(x.obs, x.snap)

SameInv == SameIn(disk) /\ \A c \in Clients : Informed(client[c], disk)

\* What a step does to the files: they stay of one representation, and a prefix
\* does not change.
Tame(e) == /\ SameIn(e)
           /\ disk.saved /\ e.saved /\ man.prefix # << >> => e.man.prefix = man.prefix

\* Only client c moves.
Alone(c) == \A d \in Clients : d # c => client'[d] = client[d]

\* Client c moves, and knows what it fetches with.
LEMMA SameMoves ==
    ASSUME StoreInv, SameInv, NEW c \in Clients, Alone(c), Informed(client'[c], disk'),
           Tame(disk'), Later(disk, disk'), content' = content
    PROVE  SameInv'
<1>1. ASSUME NEW d \in Clients PROVE Informed(client'[d], disk')
  <2>1. CASE d = c
    BY <2>1
  <2>2. CASE d # c
    <3> DEFINE x == client[d]
    <3>1. client'[d] = x /\ Informed(x, disk) /\ Fine(d, x, disk)
      BY <2>2 DEF Alone, SameInv, StoreInv
    <3> HIDE DEF x
    <3>2. CASE x.pc \notin Fetching
      BY <3>1, <3>2 DEF Informed
    <3>3. CASE x.pc \in Fetching
      <4>1. disk.saved \/ disk.meta
        BY <3>1, <3>3 DEF Fine, Fetching
      <4>2. disk'.saved => disk.saved
        BY <4>1 DEF Later
      <4>3. disk'.saved /\ x.snap.prefix # << >> => disk'.man.prefix = x.snap.prefix
        BY <3>1, <3>3, <4>2 DEF Informed, Tame, man
      <4> QED BY <3>1, <3>3, <4>3 DEF Informed
    <3> QED BY <3>2, <3>3
  <2> QED BY <2>1, <2>2
<1>2. SameIn(disk)'
  BY DEF Tame, SameIn, Bound, Serves
<1>3. ASSUME NEW d \in Clients PROVE Informed(client[d], disk)'
  BY <1>1, <1>3 DEF Informed, Bound, Serves
<1> QED BY <1>2, <1>3 DEF SameInv

\* Client c moves and does not fetch, or fetches no more.
Left(c) == Alone(c) /\ client'[c].pc \notin Fetching

\* Client c stops fetching and leaves the files tame.
LEMMA SameAfter ==
    ASSUME StoreInv, SameInv, NEW c \in Clients, Left(c),
           Tame(disk'), Later(disk, disk'), content' = content
    PROVE  SameInv'
<1>1. Informed(client'[c], disk')
  BY DEF Left, Informed
<1> QED BY <1>1, SameMoves DEF Left

\* The files that stay as they are, stay of one representation.
LEMMA SameFiles ==
    ASSUME SameInv PROVE Tame(disk)
BY DEF SameInv, Tame, man

\* A checkpoint that has the same bytes durable, and the same prefix and origins.
Untouched(e) ==
    e.saved => /\ disk.saved /\ Durable(e.man.extents) = Durable(man.extents)
               /\ \A p \in Durable(man.extents) : e.bytes[p] = disk.bytes[p]
               /\ e.man.prefix = man.prefix /\ e.man.origins = man.origins

\* A step that keeps the extents' bytes, the prefix and the origins.
LEMMA UntouchedIsTame ==
    ASSUME SameInv, NEW e, Untouched(e)
    PROVE  Tame(e)
BY DEF SameInv, SameIn, Bound, Serves, Tame, Untouched, man

\* A new checkpoint has nothing durable and no origin bound.
LEMMA CreatedIsTame ==
    ASSUME StoreInv, SameInv, ~disk.saved, NEW size \in Sizes
    PROVE  \A k \in 1..2 : Tame(EnsureStages(size)[k])
<1> DEFINE created == [disk EXCEPT !.partial = TRUE, !.bytes = EmptyDisk.bytes]
           m == NewManifest(size)
           saved == [created EXCEPT !.saved = TRUE, !.man = m]
<1>1. disk \in Disk
  BY DEF StoreInv, GoodDisk
<1>2. m.extents = << >> /\ m.origins = [o \in Origins |-> Unbound]
  BY DEF NewManifest
<1>3. Durable(m.extents) = {}
  <2>1. m.extents \in Seq(Extent) /\ Ordered(m.extents)
    BY <1>2 DEF Ordered
  <2> QED BY <1>2, <2>1, NothingDurable
<1>4. Bound(m)
  BY <1>2 DEF Bound
<1>5. EnsureStages(size) = <<created, saved>>
  BY DEF EnsureStages
<1> HIDE DEF m
<1>6. ~created.saved /\ saved.man = m
  BY <1>1 DEF Disk
<1> HIDE DEF created, saved
<1>7. Tame(created) /\ Tame(saved)
  BY <1>3, <1>4, <1>6 DEF Tame, SameIn
<1>8. EnsureStages(size)[1] = created /\ EnsureStages(size)[2] = saved
  BY <1>5
<1>9. \A k \in 1..2 : k = 1 \/ k = 2
  OBVIOUS
<1> QED BY <1>7, <1>8, <1>9

\* Completion leaves the checkpoint as it is, and then there is none.
LEMMA FinalizeIsTame ==
    ASSUME StoreInv, SameInv
    PROVE  \A k \in 1..3 : Tame(FinalizeStages[k])
<1> DEFINE renamed == [disk EXCEPT !.partial = FALSE, !.final = "data"]
           described == [renamed EXCEPT !.meta = TRUE]
           dropped == [described EXCEPT !.saved = FALSE]
<1>1. disk \in Disk
  BY DEF StoreInv, GoodDisk
<1>2. /\ renamed.man = man /\ renamed.bytes = disk.bytes /\ renamed.saved = disk.saved
      /\ described.man = man /\ described.bytes = disk.bytes /\ described.saved = disk.saved
      /\ ~dropped.saved
  BY <1>1 DEF Disk, man
<1>3. FinalizeStages = <<renamed, described, dropped>>
  BY DEF FinalizeStages
<1> HIDE DEF renamed, described, dropped
<1>4. Untouched(renamed) /\ Untouched(described) /\ Untouched(dropped)
  BY <1>2 DEF Untouched
<1>5. Tame(renamed) /\ Tame(described) /\ Tame(dropped)
  BY <1>4, UntouchedIsTame
<1>6. /\ FinalizeStages[1] = renamed /\ FinalizeStages[2] = described
      /\ FinalizeStages[3] = dropped
  BY <1>3
<1>7. \A k \in 1..3 : k = 1 \/ k = 2 \/ k = 3
  OBVIOUS
<1> QED BY <1>5, <1>6, <1>7

\* A file that a full GET leaves is not of the checkpoint.
LEMMA FullGetIsTame ==
    ASSUME StoreInv, SameInv
    PROVE  \A k \in 1..4 : Tame(FullGetStages[k])
<1> DEFINE renamed == [disk EXCEPT !.final = "full"]
           described == [renamed EXCEPT !.meta = TRUE]
           dropped == [described EXCEPT !.partial = FALSE]
           gone == [dropped EXCEPT !.saved = FALSE]
<1>1. disk \in Disk
  BY DEF StoreInv, GoodDisk
<1>2. /\ renamed.man = man /\ renamed.bytes = disk.bytes /\ renamed.saved = disk.saved
      /\ described.man = man /\ described.bytes = disk.bytes /\ described.saved = disk.saved
      /\ dropped.man = man /\ dropped.bytes = disk.bytes /\ dropped.saved = disk.saved
      /\ ~gone.saved
  BY <1>1 DEF Disk, man
<1>3. FullGetStages = <<renamed, described, dropped, gone>>
  BY DEF FullGetStages
<1> HIDE DEF renamed, described, dropped, gone
<1>4. Untouched(renamed) /\ Untouched(described) /\ Untouched(dropped) /\ Untouched(gone)
  BY <1>2 DEF Untouched
<1>5. Tame(renamed) /\ Tame(described) /\ Tame(dropped) /\ Tame(gone)
  BY <1>4, UntouchedIsTame
<1>6. /\ FullGetStages[1] = renamed /\ FullGetStages[2] = described
      /\ FullGetStages[3] = dropped /\ FullGetStages[4] = gone
  BY <1>3
<1>7. \A k \in 1..4 : k = 1 \/ k = 2 \/ k = 3 \/ k = 4
  OBVIOUS
<1> QED BY <1>5, <1>6, <1>7

\* Compaction merges extents and changes no byte.
LEMMA CompactedIsTame ==
    ASSUME StoreInv, SameInv, CanCompact
    PROVE  Tame(Compacted)
<1>1. disk.saved
  BY DEF CanCompact, Load
<1>2. Untouched(Compacted)
  <2>1. /\ Durable(Compacted.man.extents) = Durable(man.extents)
        /\ Compacted.bytes = disk.bytes /\ Compacted.man.origins = man.origins
        /\ Compacted.man.prefix = man.prefix
    BY CompactedIsSafe
  <2> QED BY <1>1, <2>1 DEF Untouched
<1> QED BY <1>2, UntouchedIsTame

\* Whoever commits has bytes of the file the prefix is from, although another
\* client may have defined the prefix while the startup chunk was fetched: the
\* bytes that arrived agree with those that are durable.
LEMMA CommitServes ==
    ASSUME StoreInv, SameInv, NEW c \in Clients, At(c, "commit"), MayCommit(c), man.prefix # << >>
    PROVE  content[Here(c).obs][0] = man.prefix[1]
<1>1. Load = "ok" /\ disk.saved
  BY DEF MayCommit, Load
<1>2. Informed(Here(c), disk) /\ Here(c).pc = "commit" /\ Here(c).pc \in Fetching
  BY DEF SameInv, Here, At, Fetching
<1>3. CASE Here(c).snap.prefix # << >>
  BY <1>1, <1>2, <1>3 DEF Informed, Serves, man
<1>4. CASE Here(c).snap.prefix = << >>
  <2>1. /\ Here(c).range = StartupRange /\ disk \in Disk /\ Backed(man, disk.bytes)
        /\ Here(c).range[1] \in Nat /\ Here(c).range[2] \in Nat
    BY <1>1, <1>2, <1>4, CommitTypes DEF Informed
  <2>2. man.extents \in Seq(Extent) /\ man.prefix \in Seq(Data) /\ Ordered(man.extents)
    BY <2>1, DiskFields DEF man, Backed
  <2>3. 0 \in Durable(man.extents)
    <3>1. Len(man.prefix) \in Nat /\ Len(man.prefix) # 0
      BY <2>2, EmptySeq
    <3>2. 0 \in Bytes(<<0, Len(man.prefix)>>)
      BY <3>1 DEF Bytes
    <3> QED BY <2>1, <3>2 DEF Backed
  <2>4. PICK i \in DOMAIN man.extents : man.extents[i].start <= 0 /\ 0 < man.extents[i].end
    BY <2>2, <2>3, DurableBytes
  <2>5. man.extents[i].start = 0 /\ man.extents[i].start \in Nat /\ man.extents[i].end \in Nat
    BY <2>2, <2>4, ListedExtents
  <2> DEFINE e == RangeOf(man.extents[i])
  <2>6. e[1] = 0 /\ e[2] > 0 /\ e[2] \in Nat
    BY <2>4, <2>5 DEF RangeOf
  <2>7. StartupRange[1] = 0 /\ StartupRange[2] > 0 /\ StartupRange[2] \in Nat
    BY <2>1, SizesAreNumbers DEF StartupRange, AtMost
  <2>8. OverlapsAgree(c)
    BY DEF MayCommit
  <2>9. Meets(e, Here(c).range) => \A p \in Bytes(e) \cap Bytes(Here(c).range) :
                                       disk.bytes[p] = content[Here(c).obs][p]
    BY <2>8 DEF OverlapsAgree
  <2> HIDE DEF e
  <2>10. Meets(e, Here(c).range) /\ 0 \in Bytes(e) \cap Bytes(Here(c).range)
    BY <2>1, <2>6, <2>7 DEF Meets, Bytes
  <2>11. disk.bytes[0] = content[Here(c).obs][0]
    BY <2>9, <2>10
  <2>12. disk.bytes[0] = man.prefix[1]
    BY <1>1, <2>3 DEF SameInv, SameIn, man
  <2> QED BY <2>11, <2>12
<1> QED BY <1>3, <1>4

\* The first byte of the prefix a commit defines is the one that arrived.
LEMMA PrefixStarts ==
    ASSUME StoreInv, NEW c \in Clients, At(c, "commit"), Load = "ok", man.prefix = << >>
    PROVE  /\ CommittedManifest(c).prefix # << >>
           /\ CommittedManifest(c).prefix[1] = content[Here(c).obs][0]
<1> DEFINE n == AtMost(Here(c).range[2], StartupChunk)
           b == content[Here(c).obs]
           M == CommittedManifest(c)
<1>1. Here(c).range = StartupRange /\ b \in [Positions -> Data]
  BY CommitTypes
<1>2. Here(c).range[1] = 0 /\ n \in Nat /\ n > 0 /\ n <= Total
  BY <1>1, SizesAreNumbers DEF StartupRange, AtMost
<1>3. M.prefix = Digest(b, <<0, n>>)
  BY <1>2, CommittedFields
<1> HIDE DEF n, b, M
<1>4. /\ Digest(b, <<0, n>>) \in Seq(Data) /\ Len(Digest(b, <<0, n>>)) = n - 0
      /\ \A p \in 0..(n - 1) : Digest(b, <<0, n>>)[p - 0 + 1] = b[p]
  <2>1. 0 \in Nat /\ 0 <= n
    BY <1>2
  <2> QED BY <1>1, <1>2, <2>1, DigestIsSeq
<1>5. M.prefix # << >>
  BY <1>2, <1>3, <1>4
<1>6. M.prefix[1] = b[0]
  <2>1. 0 \in 0..(n - 1) /\ 0 - 0 + 1 = 1
    BY <1>2
  <2> QED BY <1>3, <1>4, <2>1
<1> QED BY <1>5, <1>6 DEF M, b

\* What a commit adds is of the file the prefix is from.
LEMMA CommitIsTame ==
    ASSUME StoreInv, SameInv, NEW c \in Clients, At(c, "commit"), MayCommit(c), Fits(c)
    PROVE  \A k \in 1..2 : Tame(CommitStages(c)[k])
<1> DEFINE W == WithGapBytes(c)
           M == CommittedManifest(c)
           o == Here(c).obs
           byte == content[o][0]
           written == [disk EXCEPT !.bytes = W]
           final == [written EXCEPT !.man = M]
<1>1. Load = "ok" /\ disk.saved /\ disk \in Disk /\ o \in Origins /\ Here(c).etag \in 0..2
  BY CommitTypes DEF MayCommit
<1>2. /\ \A p \in Durable(man.extents) : W[p] = disk.bytes[p]
      /\ \A p \in Bytes(Here(c).range) \ Durable(man.extents) : W[p] = content[o][p]
      /\ Bytes(Here(c).range) \subseteq Positions
  BY <1>1, WrittenBytes
<1>3. Durable(M.extents) = Durable(man.extents) \cup Bytes(Here(c).range)
  BY <1>1, CommittedExtents
<1>4. \A p \in Positions : content[o][p] = byte
  BY <1>1 DEF StoreInv, StoreTypes
<1>5. M.prefix # << >> /\ (man.prefix # << >> => M.prefix = man.prefix)
  BY <1>1, CommitIsSafe, CommitIsBacked
<1>6. M.prefix[1] = byte
  <2>1. CASE man.prefix # << >>
    BY <1>5, <2>1, CommitServes
  <2>2. CASE man.prefix = << >>
    BY <1>1, <2>2, PrefixStarts
  <2> QED BY <2>1, <2>2
<1>7. \A p \in Durable(man.extents) : disk.bytes[p] = man.prefix[1]
  BY <1>1 DEF SameInv, SameIn, man
<1>8. \A p \in Durable(man.extents) : disk.bytes[p] = byte
  <2>1. CASE man.prefix # << >>
    BY <1>5, <1>6, <1>7, <2>1
  <2>2. CASE man.prefix = << >>
    <3>1. Backed(man, disk.bytes) /\ man.extents \in Seq(Extent) /\ Ordered(man.extents)
      BY <1>1, CommitTypes, DiskFields DEF man, Backed
    <3>2. Durable(man.extents) = {}
      BY <2>2, <3>1, NothingDurable DEF Backed
    <3> QED BY <3>2
  <2> QED BY <2>1, <2>2
<1>9. \A x \in Origins : M.origins[x] # Unbound => x = o \/ man.origins[x] # Unbound
  <2>1. M.origins = [man.origins EXCEPT ![o] = IF Here(c).range[1] = 0 THEN Here(c).etag ELSE @]
    BY <1>1, CommittedFields
  <2>2. man.origins \in [Origins -> 0..2]
    BY <1>1, DiskFields DEF man
  <2> HIDE DEF M, o
  <2> QED BY <1>1, <2>1, <2>2
<1>10. Bound(M)
  <2> SUFFICES ASSUME NEW x \in Origins, M.origins[x] # Unbound PROVE Serves(x, M)
    BY DEF Bound
  <2>1. CASE x = o
    BY <1>5, <1>6, <2>1 DEF Serves
  <2>2. CASE man.origins[x] # Unbound
    <3>1. Serves(x, man)
      BY <1>1, <2>2 DEF SameInv, SameIn, Bound, man
    <3> QED BY <1>5, <3>1 DEF Serves
  <2> QED BY <1>9, <2>1, <2>2
<1>11. \A p \in Durable(M.extents) : W[p] = M.prefix[1]
  BY <1>2, <1>3, <1>4, <1>6, <1>8
<1>12. CommitStages(c) = <<written, final>>
  BY DEF CommitStages
<1> HIDE DEF W, M
<1>13. /\ written.man = man /\ written.bytes = W /\ written.saved
       /\ final.man = M /\ final.bytes = W /\ final.saved
  BY <1>1 DEF Disk, man
<1> HIDE DEF written, final
<1>14. Tame(written)
  <2>1. Untouched(written)
    BY <1>1, <1>2, <1>13 DEF Untouched
  <2> QED BY <2>1, UntouchedIsTame
<1>15. Tame(final)
  BY <1>5, <1>10, <1>11, <1>13 DEF Tame, SameIn
<1>16. CommitStages(c)[1] = written /\ CommitStages(c)[2] = final
  BY <1>12
<1>17. \A k \in 1..2 : k = 1 \/ k = 2
  OBVIOUS
<1> QED BY <1>14, <1>15, <1>16, <1>17

\* Whatever a section is interrupted between.
LEMMA InterruptedIsTame ==
    ASSUME StoreInv, SameInv, NEW c \in Clients, NEW k \in 1..Len(Stages(c)),
           NEW e, e = Front(<<disk>> \o Stages(c))[k]
    PROVE  Tame(e)
<1>1. CASE e = disk
  BY <1>1, SameFiles
<1>2. CASE Load = "none" /\ \E j \in 1..2 : e = EnsureStages(Total)[j]
  <2>1. Total \in Sizes /\ ~disk.saved
    BY <1>2 DEF Sizes, Load
  <2> QED BY <1>2, <2>1, CreatedIsTame
<1>3. CASE At(c, "commit") /\ MayCommit(c) /\ Fits(c) /\ \E j \in 1..2 : e = CommitStages(c)[j]
  BY <1>3, CommitIsTame
<1>4. CASE \E j \in 1..3 : e = FinalizeStages[j]
  BY <1>4, FinalizeIsTame
<1>5. CASE \E j \in 1..4 : e = FullGetStages[j]
  BY <1>5, FullGetIsTame
<1> QED BY <1>1, <1>2, <1>3, <1>4, <1>5, InterruptedBetween

\* Where a client neither owns a flight nor relies on the checkpoint it knows.
Resting == {"idle", "ensure", "plan", "next", "admit", "wait", "squeeze", "maintain",
            "finish", "fullget"}
Rests(c) == Alone(c) /\ client'[c].pc \in Resting

\* Steps after which a client does not fetch.
LEMMA Departs ==
    ASSUME StoreInv, NEW c \in Clients, NEW n, client' = [client EXCEPT ![c] = n],
           n.pc \notin Fetching
    PROVE  Left(c) /\ client'[c] = n /\ (n.pc \in Resting => Rests(c))
BY DEF StoreInv, StoreTypes, Left, Alone, Rests

\* A client that is done knows nothing of the files any more.
LEMMA DoneDeparts ==
    ASSUME StoreInv, NEW c \in Clients, Done(c) PROVE Left(c) /\ Rests(c)
BY IdleIsClient, Departs DEF Done, Fetching, Resting

\* A client that goes on to a step where it does not fetch.
LEMMA GoDeparts ==
    ASSUME StoreInv, NEW c \in Clients, NEW p, Go(c, p), p \notin Fetching
    PROVE  Left(c) /\ (p \in Resting => Rests(c))
<1> DEFINE n == [client[c] EXCEPT !.pc = p]
<1>1. client' = [client EXCEPT ![c] = n]
  BY DEF Go
<1>2. n.pc = p
  BY MovedFields
<1> QED BY <1>1, <1>2, Departs

\* A client whose span ends, and that plans again or takes the next one.
LEMMA SpanDeparts ==
    ASSUME StoreInv, NEW c \in Clients, SpanEnds(c) PROVE Left(c) /\ Rests(c)
<1> DEFINE x == Forget(c)
           p == IF Here(c).todo = {NoRange} THEN "plan" ELSE "next"
           left == x.todo \ {Here(c).range}
           n == [x EXCEPT !.pc = p, !.todo = left, !.range = NoRange, !.passes = 0]
<1>1. client' = [client EXCEPT ![c] = n]
  BY DEF SpanEnds
<1>2. x \in Client
  BY ForgottenIsClient
<1>3. p \notin Fetching /\ p \in Resting
  BY DEF Fetching, Resting
<1> HIDE DEF x, p, left
<1>4. n.pc = p
  BY <1>2 DEF Client
<1> HIDE DEF n
<1> QED BY <1>1, <1>3, <1>4, Departs

\* A client that turns to its next candidate keeps its range.
LEMMA CandidateDeparts ==
    ASSUME StoreInv, NEW c \in Clients, NextCandidate(c)
    PROVE  Left(c) /\ client'[c].pc = "try" /\ client'[c].range = client[c].range
<1> DEFINE x == Forget(c)
           left == Here(c).left
           retried == Here(c).retried
           n == [x EXCEPT !.pc = "try", !.left = left, !.retried = retried]
<1>1. client' = [client EXCEPT ![c] = n]
  BY DEF NextCandidate
<1>2. x \in Client
  BY ForgottenIsClient
<1>0. x.range = client[c].range
  BY ForgottenIsClient
<1> HIDE DEF x, left, retried
<1>3. n.pc = "try" /\ n.range = client[c].range
  BY <1>0, <1>2 DEF Client
<1> HIDE DEF n
<1> QED BY <1>1, <1>3, Departs DEF Fetching

\* A client that forgets what it learnt of its range.
LEMMA ForgetDeparts ==
    ASSUME StoreInv, NEW c \in Clients, NEW p, p \notin Fetching,
           client' = [client EXCEPT ![c] = [Forget(c) EXCEPT !.pc = p]]
    PROVE  Left(c) /\ (p \in Resting => Rests(c))
<1> DEFINE x == Forget(c)
           n == [x EXCEPT !.pc = p]
<1>1. x \in Client
  BY ForgottenIsClient
<1> HIDE DEF x
<1>2. n.pc = p
  BY <1>1 DEF Client
<1>3. client' = [client EXCEPT ![c] = n]
  BY DEF x
<1> HIDE DEF n
<1> QED BY <1>2, <1>3, Departs

\* The steps of a client that leave it not fetching, and what they do to the
\* files.
LEMMA EarlySteps ==
    ASSUME StoreInv, SameInv, NEW c \in Clients,
           \/ \E r \in Requests : StartRead(c, r)
           \/ StartFill(c) \/ NoTotal(c) \/ FirstChunk(c) \/ Plan(c) \/ NextChunk(c)
           \/ Admit(c) \/ Wake(c) \/ Own(c) \/ NoCandidate(c)
    PROVE  /\ Left(c) /\ Tame(disk') /\ content' = content
           /\ Rests(c) \/ StartFill(c) \/ Admit(c) \/ Own(c)
<1> USE DEF Fetching, Resting
<1>1. client[c] \in Client
  BY ClientFields
<1>2. disk' = disk /\ content' = content
  BY DEF StartRead, StartFill, NoTotal, FirstChunk, Plan, NextChunk, Admit, Wake, Own,
         NoCandidate, World
<1>3. Tame(disk')
  BY <1>2, SameFiles
<1>4. CASE \E r \in Requests : StartRead(c, r)
  <2>1. PICK r \in Requests : client' = [client EXCEPT ![c].pc = "ensure", ![c].want = r]
    BY <1>4 DEF StartRead
  <2> DEFINE n == [client[c] EXCEPT !.pc = "ensure", !.want = r]
  <2>2. client' = [client EXCEPT ![c] = n] /\ n.pc = "ensure"
    BY <1>1, <2>1 DEF Client
  <2> HIDE DEF n
  <2> QED BY <1>2, <1>3, <2>2, Departs
<1>5. CASE StartFill(c)
  <2>1. CASE Done(c)
    BY <1>2, <1>3, <2>1, DoneDeparts
  <2>2. CASE ~Done(c)
    <3> DEFINE p == IF disk.meta THEN "finalize" ELSE "ensure"
               n == [client[c] EXCEPT !.pc = p, !.want = Whole]
    <3>1. client' = [client EXCEPT ![c] = n]
      BY <1>5, <2>2 DEF StartFill, IdentityError
    <3>2. p \notin Fetching
      OBVIOUS
    <3> HIDE DEF p
    <3>3. n.pc = p
      BY <1>1 DEF Client
    <3> HIDE DEF n
    <3> QED BY <1>2, <1>5, <1>3, <3>1, <3>2, <3>3, Departs
  <2> QED BY <2>1, <2>2
<1>6. CASE NoTotal(c)
  BY <1>2, <1>3, <1>6, DoneDeparts, GoDeparts DEF NoTotal, Fails
<1>7. CASE FirstChunk(c)
  <2> DEFINE needed == IF c \in Readers THEN Here(c).snap.prefix = << >>
                       ELSE Here(c).snap.extents = << >>
             p == IF needed THEN "admit" ELSE "plan"
             blank == EmptyDisk.man
             n == [client[c] EXCEPT !.pc = p, !.range = StartupRange, !.snap = blank,
                                    !.todo = {NoRange}]
  <2>1. client' = [client EXCEPT ![c] = n]
    BY <1>7 DEF FirstChunk, StartupRange
  <2>2. p \notin Fetching /\ p \in Resting
    OBVIOUS
  <2> HIDE DEF p, blank
  <2>3. n.pc = p
    BY <1>1 DEF Client
  <2> HIDE DEF n
  <2> QED BY <1>2, <1>3, <2>1, <2>2, <2>3, Departs
<1>8. CASE Plan(c)
  <2>1. CASE Load # "ok"
    BY <1>2, <1>3, <1>8, <2>1, DoneDeparts DEF Plan, IdentityError
  <2>2. CASE Load = "ok"
    <3> DEFINE todo == IF c \in Readers
                       THEN PlannedForegroundChunks(man.total, Here(c).want, man.extents)
                       ELSE PlannedGaps(man.total, Here(c).want, man.extents)
               n == [client[c] EXCEPT !.pc = "next", !.range = NoRange, !.todo = todo]
    <3>1. client' = [client EXCEPT ![c] = n]
      BY <1>8, <2>2 DEF Plan
    <3> HIDE DEF todo
    <3>2. n.pc = "next"
      BY <1>1 DEF Client
    <3> HIDE DEF n
    <3> QED BY <1>2, <1>3, <3>1, <3>2, Departs
  <2> QED BY <2>1, <2>2
<1>9. CASE NextChunk(c)
  <2>1. CASE Go(c, "finish")
    BY <1>2, <1>3, <2>1, GoDeparts
  <2>2. ASSUME NEW r \in Here(c).todo, client' = [client EXCEPT ![c].pc = "admit", ![c].range = r]
        PROVE  Left(c) /\ Rests(c)
    <3> DEFINE n == [client[c] EXCEPT !.pc = "admit", !.range = r]
    <3>1. client' = [client EXCEPT ![c] = n] /\ n.pc = "admit"
      BY <1>1, <2>2 DEF Client
    <3> HIDE DEF n
    <3> QED BY <3>1, Departs
  <2> QED BY <1>2, <1>3, <1>9, <2>1, <2>2 DEF NextChunk
<1>10. CASE Admit(c)
  <2>1. Done(c) \/ SpanEnds(c) \/ Go(c, "wait") \/ Go(c, "own")
    BY <1>10 DEF Admit, IdentityError
  <2> QED BY <1>2, <1>10, <1>3, <2>1, DoneDeparts, SpanDeparts, GoDeparts
<1>11. CASE Wake(c)
  BY <1>2, <1>3, <1>11, GoDeparts DEF Wake
<1>12. CASE Own(c)
  <2>1. Done(c) \/ SpanEnds(c) \/ client' = [client EXCEPT ![c].pc = "try", ![c].left = Origins]
    <3>1. ReadDurable(Here(c).range) \in {"ok", "identity", "none"}
      BY DEF ReadDurable, Load
    <3> QED BY <1>12, <3>1 DEF Own, IdentityError
  <2>2. CASE client' = [client EXCEPT ![c].pc = "try", ![c].left = Origins]
    <3> DEFINE n == [client[c] EXCEPT !.pc = "try", !.left = Origins]
    <3>1. client' = [client EXCEPT ![c] = n] /\ n.pc = "try"
      BY <1>1, <2>2 DEF Client
    <3> HIDE DEF n
    <3> QED BY <1>2, <1>12, <1>3, <3>1, Departs
  <2> QED BY <1>2, <1>3, <2>1, <2>2, DoneDeparts, SpanDeparts
<1>13. CASE NoCandidate(c)
  BY <1>2, <1>3, <1>13, DoneDeparts, GoDeparts DEF NoCandidate, Fails
<1> QED BY <1>4, <1>5, <1>6, <1>7, <1>8, <1>9, <1>10, <1>11, <1>12, <1>13

\* The steps that write, and those that end a fetch.
LEMMA LateSteps ==
    ASSUME StoreInv, SameInv, NEW c \in Clients,
           \/ Ensure(c) \/ PublishTotal(c)
           \/ Commit(c) \/ CommitFull(c) \/ CommitStale(c) \/ CommitRefused(c)
           \/ Squeeze(c) \/ Maintain(c) \/ Finish(c) \/ Finalize(c)
           \/ FullGet(c) \/ FullGetPublishes(c) \/ FullGetFails(c)
           \/ RequestFails(c) \/ Preempted(c)
    PROVE  /\ Left(c) /\ Tame(disk') /\ content' = content
           /\ Rests(c) \/ Ensure(c) \/ PublishTotal(c) \/ CommitStale(c) \/ Finish(c)
                \/ FullGet(c) \/ RequestFails(c)
<1> USE DEF Fetching, Resting
<1>1. client[c] \in Client /\ disk \in Disk
  BY ClientFields
<1>2. content' = content
  BY DEF Ensure, PublishTotal, Commit, CommitFull, CommitStale, CommitRefused, Squeeze, Maintain,
         Finish, Finalize, FullGet, FullGetPublishes, FullGetFails, RequestFails, Preempted, World
<1>3. disk' = disk => Tame(disk')
  BY SameFiles
<1>4. CASE Ensure(c)
  <2>1. CASE Done(c) /\ disk' = disk
    BY <1>2, <1>3, <2>1, DoneDeparts
  <2>2. CASE /\ \/ Load = "ok" /\ UNCHANGED disk
                \/ Load = "none" /\ \E size \in Sizes : disk' = Last(EnsureStages(size))
             /\ client' = [client EXCEPT ![c].pc = "total", ![c].snap = disk'.man]
    <3> DEFINE m == disk'.man
               n == [client[c] EXCEPT !.pc = "total", !.snap = m]
    <3>1. client' = [client EXCEPT ![c] = n]
      BY <2>2
    <3> HIDE DEF m
    <3>2. n.pc = "total"
      BY <1>1 DEF Client
    <3> HIDE DEF n
    <3>3. Left(c)
      BY <3>1, <3>2, Departs
    <3>4. Tame(disk')
      <4>1. CASE Load = "none" /\ \E size \in Sizes : disk' = Last(EnsureStages(size))
        <5>1. PICK size \in Sizes : disk' = Last(EnsureStages(size))
          BY <4>1
        <5>2. Len(EnsureStages(size)) = 2
          BY DEF EnsureStages
        <5>3. disk' = EnsureStages(size)[2] /\ ~disk.saved
          BY <4>1, <5>1, <5>2 DEF Last, Load
        <5> QED BY <5>3, CreatedIsTame
      <4> QED BY <1>3, <2>2, <4>1
    <3> QED BY <1>2, <1>4, <3>3, <3>4
  <2> QED BY <1>4, <2>1, <2>2 DEF Ensure, IdentityError, Fails
<1>5. CASE PublishTotal(c)
  <2>1. CASE Done(c) /\ disk' = disk
    BY <1>2, <1>3, <2>1, DoneDeparts
  <2>2. CASE Load = "ok" /\ disk' = [disk EXCEPT !.man.total = Total]
             /\ client' = [client EXCEPT ![c].snap = disk'.man]
    <3> DEFINE m == disk'.man
               n == [client[c] EXCEPT !.snap = m]
    <3>1. client' = [client EXCEPT ![c] = n]
      BY <2>2
    <3> HIDE DEF m
    <3>2. n.pc = "total"
      BY <1>1, <1>5 DEF Client, PublishTotal, At
    <3> HIDE DEF n
    <3>3. Left(c)
      BY <3>1, <3>2, Departs
    <3>4. Untouched(disk')
      <4>1. man \in Manifest /\ disk.saved
        BY <1>1, <2>2, DiskFields DEF man, Load
      <4>2. disk' = [disk EXCEPT !.man = [man EXCEPT !.total = Total]]
        BY <2>2 DEF man
      <4> DEFINE new == [man EXCEPT !.total = Total]
      <4>3. new.extents = man.extents /\ new.prefix = man.prefix /\ new.origins = man.origins
        BY <4>1 DEF Manifest
      <4> HIDE DEF new
      <4>4. disk'.man = new /\ disk'.bytes = disk.bytes
        BY <1>1, <4>2 DEF Disk, new
      <4> QED BY <4>1, <4>3, <4>4 DEF Untouched
    <3> QED BY <1>2, <1>5, <3>3, <3>4, UntouchedIsTame
  <2> QED BY <1>5, <2>1, <2>2 DEF PublishTotal, IdentityError
<1>6. CASE Commit(c)
  <2>1. Left(c) /\ Rests(c)
    BY <1>6, ForgetDeparts DEF Commit
  <2>2. CASE disk' = disk
    BY <1>2, <1>3, <2>1, <2>2
  <2>3. CASE disk' = Last(CommitStages(c))
    <3>1. Len(CommitStages(c)) = 2
      BY DEF CommitStages
    <3>2. disk' = CommitStages(c)[2]
      BY <2>3, <3>1 DEF Last
    <3>3. Tame(disk')
      BY <1>6, <3>2, CommitIsTame DEF Commit
    <3> QED BY <1>2, <2>1, <3>3
  <2> QED BY <1>6, <2>2, <2>3 DEF Commit
<1>7. CASE CommitFull(c)
  <2>1. Done(c) \/ client' = [client EXCEPT ![c] = [Forget(c) EXCEPT !.pc = "squeeze"]]
    BY <1>7 DEF CommitFull, Fails
  <2>2. disk' = disk
    BY <1>7 DEF CommitFull
  <2> QED BY <1>2, <1>3, <2>1, <2>2, DoneDeparts, ForgetDeparts
<1>8. CASE CommitStale(c)
  <2> DEFINE x == Forget(c)
             n == [x EXCEPT !.pc = "try", !.left = Origins, !.retried = TRUE]
  <2>1. client' = [client EXCEPT ![c] = n] /\ disk' = disk
    BY <1>8 DEF CommitStale
  <2>2. x \in Client
    BY ForgottenIsClient
  <2> HIDE DEF x
  <2>3. n.pc = "try"
    BY <2>2 DEF Client
  <2> HIDE DEF n
  <2> QED BY <1>2, <1>8, <1>3, <2>1, <2>3, Departs
<1>9. CASE CommitRefused(c) \/ FullGetFails(c)
  BY <1>2, <1>3, <1>9, DoneDeparts DEF CommitRefused, FullGetFails, IdentityError, Fails
<1>10. CASE Squeeze(c)
  <2> DEFINE passes == client[c].passes + 1
             n == [client[c] EXCEPT !.pc = "admit", !.passes = passes]
  <2>1. client' = [client EXCEPT ![c] = n]
    BY <1>10 DEF Squeeze
  <2> HIDE DEF passes
  <2>2. n.pc = "admit"
    BY <1>1 DEF Client
  <2> HIDE DEF n
  <2>3. Left(c) /\ Rests(c)
    BY <2>1, <2>2, Departs
  <2>4. Tame(disk')
    BY <1>3, <1>10, CompactedIsTame DEF Squeeze
  <2> QED BY <1>2, <2>3, <2>4
<1>11. CASE Maintain(c)
  <2>1. Tame(disk')
    BY <1>3, <1>11, CompactedIsTame DEF Maintain
  <2>2. CASE SpanEnds(c)
    BY <1>2, <2>1, <2>2, SpanDeparts
  <2>3. CASE client' = [client EXCEPT ![c].passes = @ + 1]
    <3> DEFINE passes == client[c].passes + 1
               n == [client[c] EXCEPT !.passes = passes]
    <3>1. client' = [client EXCEPT ![c] = n]
      BY <2>3
    <3> HIDE DEF passes
    <3>2. n.pc = "maintain"
      BY <1>1, <1>11 DEF Client, Maintain, At
    <3> HIDE DEF n
    <3> QED BY <1>2, <2>1, <3>1, <3>2, Departs
  <2> QED BY <1>11, <2>2, <2>3 DEF Maintain
<1>12. CASE Finish(c)
  <2>1. (Done(c) \/ Go(c, "finalize")) /\ disk' = disk
    BY <1>12 DEF Finish, IdentityError, Fails
  <2> QED BY <1>2, <1>12, <1>3, <2>1, DoneDeparts, GoDeparts
<1>13. CASE Finalize(c)
  <2>1. Done(c)
    BY <1>13 DEF Finalize, IdentityError, Fails
  <2>2. CASE disk' = disk
    BY <1>2, <1>3, <2>1, <2>2, DoneDeparts
  <2>3. CASE disk' = Last(FinalizeStages)
    <3>1. Len(FinalizeStages) = 3
      BY DEF FinalizeStages
    <3>2. disk' = FinalizeStages[3]
      BY <2>3, <3>1 DEF Last
    <3> QED BY <1>2, <2>1, <3>2, DoneDeparts, FinalizeIsTame
  <2> QED BY <1>13, <2>2, <2>3 DEF Finalize
<1>14. CASE FullGet(c)
  <2>1. disk' = disk
    BY <1>14 DEF FullGet
  <2>2. CASE Done(c)
    BY <1>2, <1>3, <2>1, <2>2, DoneDeparts
  <2>3. CASE client' = [client EXCEPT ![c].pc = "publish", ![c].snap = man]
    <3> DEFINE n == [client[c] EXCEPT !.pc = "publish", !.snap = man]
    <3>1. client' = [client EXCEPT ![c] = n] /\ n.pc = "publish"
      BY <1>1, <2>3 DEF Client
    <3> HIDE DEF n
    <3> QED BY <1>2, <1>14, <1>3, <2>1, <3>1, Departs
  <2> QED BY <1>14, <2>2, <2>3 DEF FullGet, Fails
<1>15. CASE FullGetPublishes(c)
  <2>1. Done(c)
    BY <1>15 DEF FullGetPublishes, IdentityError, Fails
  <2>2. CASE disk' = disk
    BY <1>2, <1>3, <2>1, <2>2, DoneDeparts
  <2>3. CASE disk' = Last(FullGetStages)
    <3>1. Len(FullGetStages) = 4
      BY DEF FullGetStages
    <3>2. disk' = FullGetStages[4]
      BY <2>3, <3>1 DEF Last
    <3> QED BY <1>2, <2>1, <3>2, DoneDeparts, FullGetIsTame
  <2> QED BY <1>15, <2>2, <2>3 DEF FullGetPublishes
<1>16. CASE RequestFails(c)
  <2>1. (Done(c) \/ NextCandidate(c)) /\ disk' = disk
    BY <1>16 DEF RequestFails, Fails
  <2> QED BY <1>2, <1>16, <1>3, <2>1, DoneDeparts, CandidateDeparts
<1>17. CASE Preempted(c)
  <2>1. (Done(c) \/ SpanEnds(c)) /\ disk' = disk
    BY <1>17 DEF Preempted, Fails
  <2> QED BY <1>2, <1>3, <2>1, DoneDeparts, SpanDeparts
<1> QED BY <1>4, <1>5, <1>6, <1>7, <1>8, <1>9, <1>10, <1>11, <1>12, <1>13, <1>14, <1>15,
           <1>16, <1>17

\* A candidate is tried with the checkpoint as it is.
LEMMA TryInforms ==
    ASSUME StoreInv, SameInv, NEW c \in Clients, NEW o \in Origins, Try(c, o)
    PROVE  SameInv'
<1>1. disk' = disk /\ content' = content /\ client[c] \in Client /\ client[c].pc = "try"
  BY ClientFields DEF Try, World, At
<1>2. Tame(disk') /\ Later(disk, disk')
  BY <1>1, SameFiles DEF Later
<1>3. CASE Load # "ok"
  <2>1. Left(c)
    BY <1>3, DoneDeparts DEF Try, IdentityError
  <2> QED BY <1>1, <1>2, <2>1, SameAfter
<1>4. CASE Load = "ok"
  <2> DEFINE p == IF man.prefix # << >> /\ man.origins[o] = Unbound THEN "verify" ELSE "send"
             left == client[c].left \ {o}
             n == [client[c] EXCEPT !.pc = p, !.snap = man, !.cand = o, !.left = left]
  <2>1. client' = [client EXCEPT ![c] = n]
    BY <1>4 DEF Try
  <2>2. (p = "verify" /\ man.prefix # << >>) \/ p = "send"
    OBVIOUS
  <2> HIDE DEF p, left
  <2>3. n.pc = p /\ n.snap = man /\ n.range = client[c].range
    BY <1>1 DEF Client
  <2> HIDE DEF n
  <2>4. disk.saved /\ Bound(man) /\ (man.prefix # << >> \/ client[c].range = StartupRange)
    <3>1. disk.saved
      BY <1>4 DEF Load
    <3>2. Placed(client[c], disk)
      BY <3>1, ClientFields DEF Fine
    <3> QED BY <1>1, <3>1, <3>2 DEF SameInv, SameIn, Placed, Asking, man
  <2>5. Informed(n, disk')
    BY <1>1, <2>2, <2>3, <2>4 DEF Informed, man
  <2>6. Alone(c) /\ client'[c] = n
    BY <2>1 DEF StoreInv, StoreTypes, Alone
  <2> QED BY <1>1, <1>2, <2>5, <2>6, SameMoves
<1> QED BY <1>3, <1>4

\* An origin that served the prefix serves its file.
LEMMA VerifiedServes ==
    ASSUME StoreInv, NEW c \in Clients, NEW p, Verified(c, p), client[c].snap.prefix # << >>
    PROVE  Serves(p, client[c].snap)
<1> DEFINE s == client[c].snap.prefix
           n == Len(s)
           b == content[p]
<1>1. s \in Seq(Data)
  BY ClientFields DEF Manifest
<1>2. n \in Nat /\ n # 0
  BY <1>1, EmptySeq
<1>3. Digest(b, <<0, n>>) = s
  BY DEF Verified, Here
<1> HIDE DEF s, n, b
<1>4. 1 \in 1..(n - 0) /\ 0 + 1 - 1 = 0
  BY <1>2
<1>5. Digest(b, <<0, n>>)[1] = b[0]
  BY <1>4 DEF Digest
<1> QED BY <1>3, <1>5 DEF Serves, s, b

\* What a client that fetches knows.
LEMMA FetchFields ==
    ASSUME StoreInv, SameInv, NEW c \in Clients, client[c].pc \in Fetching
    PROVE  /\ disk.saved /\ client[c].snap.prefix # << >> => man.prefix = client[c].snap.prefix
           /\ Bound(client[c].snap)
           /\ \/ client[c].snap.prefix # << >>
              \/ client[c].range = StartupRange /\ client[c].pc \in {"send", "commit"}
           /\ client[c].pc \in {"bind", "rebind", "commit"} /\ client[c].snap.prefix # << >>
              => Serves(client[c].obs, client[c].snap)
<1>1. Informed(client[c], disk)
  BY DEF SameInv
<1> QED BY <1>1 DEF Informed, man

\* A candidate is bound after it served the prefix.
LEMMA VerifyInforms ==
    ASSUME StoreInv, SameInv, NEW c \in Clients, Verify(c)
    PROVE  SameInv'
<1>1. /\ disk' = disk /\ content' = content /\ client[c] \in Client
      /\ client[c].pc = "verify" /\ client[c].pc \in Fetching
  BY ClientFields DEF Verify, World, At, Fetching
<1>2. Tame(disk') /\ Later(disk, disk')
  BY <1>1, SameFiles DEF Later
<1>3. PICK p \in Via(Here(c).cand) :
        IF Verified(c, p)
        THEN client' = [client EXCEPT ![c].pc = "bind", ![c].obs = p, ![c].etag = etag[p]]
        ELSE NextCandidate(c)
  BY Zenon DEF Verify
<1>4. CASE NextCandidate(c)
  BY <1>1, <1>2, <1>4, CandidateDeparts, SameAfter
<1>5. CASE ~NextCandidate(c)
  <2> DEFINE tag == etag[p]
             n == [client[c] EXCEPT !.pc = "bind", !.obs = p, !.etag = tag]
  <2>1. client' = [client EXCEPT ![c] = n] /\ Verified(c, p)
    BY <1>3, <1>5
  <2> HIDE DEF tag
  <2>2. n.pc = "bind" /\ n.snap = client[c].snap /\ n.range = client[c].range /\ n.obs = p
    BY <1>1 DEF Client
  <2> HIDE DEF n
  <2>3. client[c].snap.prefix # << >>
    BY <1>1, FetchFields
  <2>4. Serves(p, client[c].snap)
    BY <2>1, <2>3, VerifiedServes
  <2>5. Informed(n, disk')
    BY <1>1, <2>2, <2>3, <2>4, FetchFields DEF Informed, man
  <2>6. Alone(c) /\ client'[c] = n
    BY <2>1 DEF StoreInv, StoreTypes, Alone
  <2> QED BY <1>1, <1>2, <2>5, <2>6, SameMoves
<1> QED BY <1>4, <1>5

\* An answer is committed only from an origin that is bound, or before there is
\* a prefix.
LEMMA SendInforms ==
    ASSUME StoreInv, SameInv, NEW c \in Clients, Send(c)
    PROVE  SameInv'
<1>1. /\ disk' = disk /\ content' = content /\ client[c] \in Client
      /\ client[c].pc = "send" /\ client[c].pc \in Fetching
  BY ClientFields DEF Send, World, At, Fetching
<1>2. Tame(disk') /\ Later(disk, disk')
  BY <1>1, SameFiles DEF Later
<1>3. PICK o \in Via(Here(c).cand) :
        client' = [client EXCEPT
            ![c].pc = IF MustRevalidate(c, o) THEN "reverify" ELSE "commit",
            ![c].left = IF MustRevalidate(c, o) THEN @ ELSE {},
            ![c].obs = o, ![c].etag = etag[o], ![c].cand = First]
  BY Zenon DEF Send
<1> DEFINE p == IF MustRevalidate(c, o) THEN "reverify" ELSE "commit"
           left == IF MustRevalidate(c, o) THEN client[c].left ELSE {}
           tag == etag[o]
           n == [client[c] EXCEPT !.pc = p, !.left = left, !.obs = o, !.etag = tag, !.cand = First]
<1>4. client' = [client EXCEPT ![c] = n]
  BY <1>3
<1>5. o \in Origins
  BY ClientFields, ViaOrigins DEF Here
<1>6. (p = "reverify" /\ MustRevalidate(c, o)) \/ (p = "commit" /\ ~MustRevalidate(c, o))
  OBVIOUS
<1> HIDE DEF p, left, tag
<1>7. n.pc = p /\ n.snap = client[c].snap /\ n.range = client[c].range /\ n.obs = o
  BY <1>1 DEF Client
<1> HIDE DEF n
<1>8. Informed(n, disk')
  <2>1. CASE p = "reverify" /\ MustRevalidate(c, o)
    <3>1. client[c].snap.prefix # << >>
      BY <2>1 DEF MustRevalidate, Here
    <3> QED BY <1>1, <1>7, <2>1, <3>1, FetchFields DEF Informed, man
  <2>2. CASE p = "commit" /\ ~MustRevalidate(c, o)
    <3>1. client[c].snap.prefix # << >> => client[c].snap.origins[o] = etag[o]
      BY <2>2 DEF MustRevalidate, Here
    <3>2. etag[o] # Unbound
      BY <1>5 DEF StoreInv, StoreTypes, Unbound
    <3>3. client[c].snap.prefix # << >> => Serves(o, client[c].snap)
      BY <1>1, <1>5, <3>1, <3>2, FetchFields DEF Bound
    <3> QED BY <1>1, <1>7, <2>2, <3>3, FetchFields DEF Informed, man
  <2> QED BY <1>6, <2>1, <2>2
<1>9. Alone(c) /\ client'[c] = n
  BY <1>4 DEF StoreInv, StoreTypes, Alone
<1> QED BY <1>1, <1>2, <1>8, <1>9, SameMoves

\* The origin that answered is bound after it served the prefix.
LEMMA ReverifyInforms ==
    ASSUME StoreInv, SameInv, NEW c \in Clients, Reverify(c)
    PROVE  SameInv'
<1>1. /\ disk' = disk /\ content' = content /\ client[c] \in Client
      /\ client[c].pc = "reverify" /\ client[c].pc \in Fetching
  BY ClientFields DEF Reverify, World, At, Fetching
<1>2. Tame(disk') /\ Later(disk, disk')
  BY <1>1, SameFiles DEF Later
<1>3. CASE NextCandidate(c)
  BY <1>1, <1>2, <1>3, CandidateDeparts, SameAfter
<1>4. CASE ~NextCandidate(c)
  <2> DEFINE n == [client[c] EXCEPT !.pc = "rebind", !.left = {}]
  <2>1. client' = [client EXCEPT ![c] = n] /\ Verified(c, client[c].obs)
    BY <1>4 DEF Reverify, Here
  <2>2. /\ n.pc = "rebind" /\ n.snap = client[c].snap /\ n.range = client[c].range
        /\ n.obs = client[c].obs
    BY <1>1 DEF Client
  <2> HIDE DEF n
  <2>3. client[c].snap.prefix # << >>
    BY <1>1, FetchFields
  <2>4. Serves(client[c].obs, client[c].snap)
    BY <2>1, <2>3, VerifiedServes
  <2>5. Informed(n, disk')
    BY <1>1, <2>2, <2>3, <2>4, FetchFields DEF Informed, man
  <2>6. Alone(c) /\ client'[c] = n
    BY <2>1 DEF StoreInv, StoreTypes, Alone
  <2> QED BY <1>1, <1>2, <2>5, <2>6, SameMoves
<1> QED BY <1>3, <1>4

\* A binding is published for an origin that served the prefix that stands.
LEMMA PublishOriginInforms ==
    ASSUME StoreInv, SameInv, NEW c \in Clients, NEW next \in {"send", "commit"},
           PublishOrigin(c, next), client[c].pc \in {"bind", "rebind"}
    PROVE  SameInv'
<1>1. content' = content /\ client[c] \in Client /\ disk \in Disk /\ client[c].pc \in Fetching
  BY ClientFields DEF PublishOrigin, World, Fetching
<1>2. CASE IdentityError(c) /\ disk' = disk
  <2>1. Tame(disk') /\ Later(disk, disk')
    BY <1>2, SameFiles DEF Later
  <2> QED BY <1>1, <1>2, <2>1, DoneDeparts, SameAfter DEF IdentityError
<1>3. CASE ~IdentityError(c) \/ ~UNCHANGED disk
  <2> DEFINE o == client[c].obs
             tag == client[c].etag
             m == [man EXCEPT !.origins[o] = tag]
             n == [client[c] EXCEPT !.pc = next, !.snap = m]
  <2>1. /\ disk' = [disk EXCEPT !.man = m] /\ Load = "ok"
        /\ client' = [client EXCEPT ![c].pc = next, ![c].snap = disk'.man]
    BY ZenonT(30), <1>3 DEF PublishOrigin, man, Here
  <2>2. disk.saved /\ man \in Manifest /\ o \in Origins /\ man.origins \in [Origins -> 0..2]
    BY <2>1, ClientFields, DiskFields DEF Load, man
  <2>3. /\ client[c].snap.prefix # << >> /\ man.prefix = client[c].snap.prefix
        /\ Serves(o, client[c].snap)
    BY <1>1, <2>2, FetchFields
  <2> HIDE DEF o, tag
  <2>4. /\ m.extents = man.extents /\ m.prefix = man.prefix
        /\ m.origins = [man.origins EXCEPT ![o] = tag]
    BY <2>2 DEF Manifest
  <2> HIDE DEF m
  <2>5. disk'.man = m /\ disk'.saved /\ disk'.bytes = disk.bytes
    BY <1>1, <2>1, <2>2 DEF Disk
  <2>6. SameIn(disk)
    BY DEF SameInv
  <2>7. Bound(m)
    <3> SUFFICES ASSUME NEW x \in Origins, m.origins[x] # Unbound PROVE Serves(x, m)
      BY DEF Bound
    <3>1. CASE x = o
      BY <2>3, <2>4, <3>1 DEF Serves
    <3>2. CASE x # o
      <4>1. man.origins[x] # Unbound
        BY <2>2, <2>4, <3>2
      <4> QED BY <2>2, <2>4, <2>6, <4>1 DEF SameIn, Bound, Serves, man
    <3> QED BY <3>1, <3>2
  <2>8. Tame(disk')
    BY <2>2, <2>4, <2>5, <2>6, <2>7 DEF Tame, SameIn, man
  <2>9. client' = [client EXCEPT ![c] = n]
    BY <2>1, <2>5
  <2>10. n.pc = next /\ n.snap = m /\ n.range = client[c].range /\ n.obs = o
    BY <1>1 DEF Client, o
  <2> HIDE DEF n
  <2>11. Serves(o, m) /\ m.prefix # << >>
    BY <2>3, <2>4 DEF Serves
  <2>12. Informed(n, disk')
    BY <2>5, <2>7, <2>10, <2>11 DEF Informed
  <2>13. Later(disk, disk')
    BY <1>1, PublishOriginKeeps DEF Preserved, Fetching
  <2>14. Alone(c) /\ client'[c] = n
    BY <2>9 DEF StoreInv, StoreTypes, Alone
  <2> QED BY SMTT(30), <1>1, <2>8, <2>12, <2>13, <2>14, SameMoves
<1> QED BY SMTT(30), <1>2, <1>3

\* Every step keeps the files of one representation.
LEMMA NextIsOfOne ==
    ASSUME StoreInv, SameInv, [Next]_vars
    PROVE  SameInv'
<1>1. Later(disk, disk')
  BY NextKeeps DEF Preserved
<1>2. CASE UNCHANGED vars
  <2>1. disk' = disk /\ client' = client /\ content' = content
    BY <1>2 DEF vars
  <2> QED BY <2>1 DEF SameInv, SameIn, Informed, Bound, Serves
<1>3. ASSUME NEW c \in Clients, Left(c) /\ Tame(disk') /\ content' = content
      PROVE  SameInv'
  BY <1>1, <1>3, SameAfter
<1>4. ASSUME NEW c \in Clients, \E r \in Requests : StartRead(c, r)
      PROVE  SameInv'
  BY <1>3, <1>4, EarlySteps
<1>5. ASSUME NEW c \in Clients, Step(c)
      PROVE  SameInv'
  <2>1. CASE StartFill(c) \/ NoTotal(c) \/ FirstChunk(c) \/ Plan(c) \/ NextChunk(c)
             \/ Admit(c) \/ Wake(c) \/ Own(c) \/ NoCandidate(c)
    BY <1>3, <2>1, EarlySteps
  <2>2. CASE Ensure(c) \/ PublishTotal(c)
             \/ Commit(c) \/ CommitFull(c) \/ CommitStale(c) \/ CommitRefused(c)
             \/ Squeeze(c) \/ Maintain(c) \/ Finish(c) \/ Finalize(c)
             \/ FullGet(c) \/ FullGetPublishes(c)
    BY <1>3, <2>2, LateSteps
  <2>3. CASE (\E o \in Origins : Try(c, o)) \/ Verify(c) \/ Send(c) \/ Reverify(c)
    BY <2>3, TryInforms, VerifyInforms, SendInforms, ReverifyInforms
  <2>4. CASE Bind(c) \/ Rebind(c)
    <3>1. CASE Bind(c)
      BY <3>1, PublishOriginInforms DEF Bind, At
    <3>2. CASE Rebind(c)
      BY <3>2, PublishOriginInforms DEF Rebind, At
    <3> QED BY <2>4, <3>1, <3>2
  <2> QED BY <1>5, <2>1, <2>2, <2>3, <2>4 DEF Step
<1>6. ASSUME NEW c \in Clients, StartFill(c) \/ RequestFails(c) \/ Preempted(c) \/ FullGetFails(c)
      PROVE  SameInv'
  <2>1. CASE StartFill(c)
    BY <1>3, <2>1, EarlySteps
  <2>2. CASE RequestFails(c) \/ Preempted(c) \/ FullGetFails(c)
    BY <1>3, <2>2, LateSteps
  <2> QED BY <1>6, <2>1, <2>2
<1>7. ASSUME NEW c \in Clients, Interrupt(c)
      PROVE  SameInv'
  <2>1. PICK k \in 1..Len(Stages(c)) : disk' = Front(<<disk>> \o Stages(c))[k]
    BY <1>7 DEF Interrupt
  <2>2. Tame(disk') /\ content' = content
    BY <1>7, <2>1, InterruptedIsTame DEF Interrupt
  <2>3. CASE Done(c)
    BY <1>3, <2>2, <2>3, DoneDeparts
  <2>4. CASE client' = [d \in Clients |-> Idle]
    <3>1. SameIn(disk)'
      BY <2>2 DEF Tame, SameIn, Bound, Serves
    <3>2. ASSUME NEW d \in Clients PROVE Informed(client[d], disk)'
      <4>1. client'[d].pc \notin Fetching
        BY <2>4, IdleIsClient DEF Fetching
      <4> QED BY <4>1 DEF Informed
    <3> QED BY <3>1, <3>2 DEF SameInv
  <2> QED BY <1>7, <2>3, <2>4 DEF Interrupt
<1>8. ASSUME NEW o \in Origins, Roll(o)
      PROVE  SameInv'
  <2>1. disk' = disk /\ client' = client /\ content' = content
    BY <1>8 DEF Roll
  <2> QED BY <2>1 DEF SameInv, SameIn, Informed, Bound, Serves
<1> QED BY <1>2, <1>4, <1>5, <1>6, <1>7, <1>8 DEF Next

\* At first nothing is durable and nobody fetches.
LEMMA SameAtFirst == Init => SameInv
<1> SUFFICES ASSUME Init PROVE SameInv
  OBVIOUS
<1>1. ~disk.saved
  BY DEF Init, EmptyDisk
<1>2. \A c \in Clients : client[c].pc \notin Fetching
  BY IdleIsClient DEF Init, Fetching
<1> QED BY <1>1, <1>2 DEF SameInv, SameIn, Informed

\* What is durable, and what a client is about to commit, is of one file.
THEOREM SameInvHolds == Spec => [](StoreInv /\ SameInv)
<1>1. StoreInv /\ SameInv /\ [Next]_vars => (StoreInv /\ SameInv)'
  BY NextKeeps, NextIsOfOne DEF Preserved
<1> QED BY <1>1, StoreInit, SameAtFirst, PTL DEF Spec

\* Candidates redirect, change their validators and race, and the durable bytes
\* of a resource are of one file nevertheless: an origin that serves another
\* one never contributes (fetch_range_chunk, verify_candidate_prefix,
\* publish_validated_origin, commit_range_extent_with_failure).
THEOREM OneRepresentationHolds == Spec => []OneRepresentation
<1>1. SameInv => OneRepresentation
  BY DEF SameInv, SameIn, OneRepresentation, man
<1> QED BY <1>1, SameInvHolds, PTL

-----------------------------------------------------------------------------
(* No identity error without a cause.                                       *)

\* Where a client owns the flight of its range.
FlightPcs == {"own", "try"} \cup Fetching

\* A range has one flight at a time.
OneFlight ==
    \A c, d \in Clients :
        client[c].pc \in FlightPcs /\ client[d].pc \in FlightPcs /\ client[c].range = client[d].range
        => c = d

\* What a checkpoint s says is still so of checkpoint m.
Known(s, m) == /\ ToSet(s.extents) \subseteq ToSet(m.extents)
               /\ s.total \in {0, m.total}
               /\ \A o \in Origins : s.origins[o] # Unbound => m.origins[o] = s.origins[o]

\* A checkpoint that says nothing but the length.
Blank(s) == s.prefix = << >> /\ s.extents = << >> /\ \A o \in Origins : s.origins[o] = Unbound

\* A client that is not to fail with checkpoint m: while it fetches the
\* checkpoint only grows, and nobody else fetches the startup chunk.
CalmClient(x, m) ==
    /\ x.pc \in Fetching => Known(x.snap, m) /\ (x.snap.prefix = << >> => m.prefix = << >>)
    /\ x.pc \in {"bind", "reverify", "rebind", "commit"} => x.etag = 1
    /\ x.pc = "commit" /\ x.snap.prefix # << >> => x.snap.origins[x.obs] = 1
    /\ x.pc = "total" /\ x.snap.total = 0 => Blank(x.snap)
    /\ x.pc = "publish" => Blank(x.snap) /\ x.snap.total \in {0, m.total}
    /\ x.pc = "finalize" => RangeIsCovered(m.extents, Whole)

CalmDisk(d) == /\ ~d.meta /\ d.saved = d.partial
               /\ \A o \in Origins : d.man.origins[o] # 2

\* While nothing happened that an identity error may stand for.
Calm == /\ CalmDisk(disk)
        /\ \A o \in Origins : etag[o] = 1
        /\ \A c \in Clients : CalmClient(client[c], man)

CalmInv == OneFlight /\ ~spurious /\ (Unexplained => Calm)

\* The files while nothing happened.
LEMMA CalmFacts ==
    ASSUME StoreInv, SameInv, CalmInv, Unexplained
    PROVE  /\ ~disk.meta /\ CompletedReady = "none" /\ disk.saved = disk.partial
           /\ Load \in {"ok", "none"} /\ (Load = "ok" <=> disk.saved)
           /\ \A c \in Clients : /\ CalmClient(client[c], man)
                                 /\ client[c].pc \notin {"idle", "ensure"} => disk.saved
           /\ \A o \in Origins : etag[o] = 1 /\ man.origins[o] \in {0, 1}
           /\ disk.saved => Backed(man, disk.bytes)
           /\ disk \in Disk /\ disk.final = "none"
<1>1. Calm /\ disk \in Disk /\ GoodDisk(disk) /\ disk.final = "none"
  BY DEF CalmInv, Unexplained, StoreInv, GoodDisk
<1>2. ~disk.meta /\ disk.saved = disk.partial /\ \A o \in Origins : man.origins[o] # 2
  BY <1>1 DEF Calm, CalmDisk, man
<1>3. \A o \in Origins : etag[o] = 1 /\ man.origins[o] \in {0, 1}
  <2>1. man.origins \in [Origins -> 0..2]
    BY <1>1, DiskFields DEF man
  <2>2. \A o \in Origins : man.origins[o] \in 0..2
    BY <2>1
  <2> QED BY <1>1, <1>2, <2>2 DEF Calm
<1>4. \A c \in Clients : client[c].pc \notin {"idle", "ensure"} => disk.saved
  BY <1>2, ClientFields DEF Fine
<1>5. disk.saved \in BOOLEAN
  BY <1>1, DiskFields
<1>6. Load \in {"ok", "none"} /\ (Load = "ok" <=> disk.saved)
  BY <1>2, <1>5 DEF Load, DataFound
<1> QED BY <1>1, <1>2, <1>3, <1>4, <1>6 DEF Calm, CompletedReady, GoodDisk, man

\* What is covered reads well, and nothing else is an identity error.
LEMMA ReadsWell ==
    ASSUME StoreInv, SameInv, CalmInv, Unexplained, disk.saved, NEW r \in Pair
    PROVE  /\ ReadDurable(r) # "identity"
           /\ RangeIsCovered(man.extents, r) => ReadDurable(r) = "ok"
<1>1. Load = "ok" /\ ~disk.meta /\ Backed(man, disk.bytes) /\ disk \in Disk
  BY CalmFacts
<1>2. \A i \in DOMAIN man.extents : Digest(disk.bytes, RangeOf(man.extents[i])) = man.extents[i].sha
  BY <1>1 DEF Backed, Digested
<1>3. RangeIsCovered(man.extents, r) => man.total # 0
  <2>1. RangeIsCovered(man.extents, r) => man.extents # << >>
    BY CoveredHasPrefix
  <2>2. Total # 0
    BY SizesAreNumbers
  <2> QED BY <1>1, <2>1, <2>2 DEF Backed
<1> QED BY <1>1, <1>2, <1>3 DEF ReadDurable

\* A checkpoint that is known is one to go on from.
LEMMA KnownRebases ==
    ASSUME NEW s, NEW m, NEW ignored, NEW allowed \in BOOLEAN, Known(s, m),
           s.prefix # << >> => m.prefix = s.prefix
    PROVE  Rebase(s, m, ignored, allowed)
BY DEF Rebase, Known

\* A candidate is tried without an error when there is a checkpoint.
LEMMA TryFields ==
    ASSUME NEW c, NEW o, Try(c, o)
    PROVE  /\ client[c].pc = "try" /\ disk' = disk /\ UNCHANGED World
           /\ IdentityError(c) \/ spurious' = spurious
           /\ Load = "ok" => spurious' = spurious
BY Zenon DEF Try, At

\* What an origin answers is never an identity error.
LEMMA QuietFetch ==
    ASSUME NEW c, Verify(c) \/ Send(c) \/ Reverify(c)
    PROVE  spurious' = spurious /\ disk' = disk /\ UNCHANGED World
<1>1. CASE Verify(c)
  BY <1>1, Zenon DEF Verify
<1>2. CASE Send(c)
  BY <1>2, Zenon DEF Send
<1>3. CASE Reverify(c)
  BY <1>3, Zenon DEF Reverify
<1> QED BY <1>1, <1>2, <1>3

\* The steps that end in an identity error or not.
LEMMA ErrorOrNot ==
    ASSUME NEW c, \/ \E r \in Requests : StartRead(c, r)
                  \/ StartFill(c) \/ Step(c)
                  \/ RequestFails(c) \/ Preempted(c) \/ FullGetFails(c)
    PROVE  IdentityError(c) \/ spurious' = spurious
<1>1. CASE (\E r \in Requests : StartRead(c, r)) \/ StartFill(c) \/ RequestFails(c)
           \/ Preempted(c) \/ FullGetFails(c)
  BY SMTT(30), <1>1 DEF StartRead, StartFill, RequestFails, Preempted, FullGetFails, Fails
<1>2. CASE Ensure(c) \/ PublishTotal(c) \/ NoTotal(c) \/ FirstChunk(c) \/ Plan(c) \/ NextChunk(c)
           \/ Admit(c) \/ Wake(c)
  BY <1>2 DEF Ensure, PublishTotal, NoTotal, FirstChunk, Plan, NextChunk, Admit, Wake, Fails
<1>3. CASE Own(c)
  <2>1. ReadDurable(Here(c).range) \in {"ok", "identity", "none"}
    BY DEF ReadDurable, Load
  <2> QED BY <1>3, <2>1 DEF Own
<1>4. CASE (\E o \in Origins : Try(c, o)) \/ NoCandidate(c) \/ Verify(c) \/ Send(c) \/ Reverify(c)
  <2>1. CASE (\E o \in Origins : Try(c, o)) \/ NoCandidate(c)
    <3>1. (\E o \in Origins : Try(c, o)) => IdentityError(c) \/ spurious' = spurious
      BY TryFields
    <3>2. NoCandidate(c) => IdentityError(c) \/ spurious' = spurious
      BY DEF NoCandidate, Fails
    <3> QED BY <2>1, <3>1, <3>2
  <2>2. CASE Verify(c) \/ Send(c) \/ Reverify(c)
    BY SMTT(30), <2>2, QuietFetch
  <2> QED BY <1>4, <2>1, <2>2
<1>5. CASE Bind(c) \/ Rebind(c)
  BY <1>5 DEF Bind, Rebind, PublishOrigin
<1>6. CASE Commit(c) \/ CommitFull(c) \/ CommitStale(c) \/ CommitRefused(c)
  BY <1>6 DEF Commit, CommitFull, CommitStale, CommitRefused, Fails
<1>7. CASE Squeeze(c) \/ Maintain(c) \/ Finish(c)
  BY <1>7 DEF Squeeze, Maintain, Finish, Fails
<1>8. CASE Finalize(c) \/ FullGet(c) \/ FullGetPublishes(c)
  BY <1>8 DEF Finalize, FullGet, FullGetPublishes, Fails
<1> QED BY <1>1, <1>2, <1>3, <1>4, <1>5, <1>6, <1>7, <1>8 DEF Step

\* An identity error with a cause is not spurious.
LEMMA ExplainedError ==
    ASSUME ~spurious, NEW c, IdentityError(c) \/ spurious' = spurious, ~Unexplained
    PROVE  ~spurious'
<1>1. ~(spurious \/ Unexplained)
  OBVIOUS
<1>2. spurious' = (spurious \/ Unexplained) \/ spurious' = spurious
  BY Zenon DEF IdentityError
<1> QED BY <1>1, <1>2, Zenon

\* A commit goes on when nothing happened, whatever others committed and merged.
LEMMA CalmCommits ==
    ASSUME StoreInv, SameInv, CalmInv, Unexplained, NEW c \in Clients, At(c, "commit")
    PROVE  MayCommit(c)
<1> DEFINE x == client[c]
           o == x.obs
<1>1. /\ x.pc = "commit" /\ x.pc \in Fetching /\ disk.saved /\ Load = "ok" /\ CalmClient(x, man)
      /\ Backed(man, disk.bytes) /\ o \in Origins
  BY CalmFacts, ClientFields DEF At, Fetching
<1>2. /\ Known(x.snap, man) /\ x.etag = 1
      /\ x.snap.prefix = << >> => man.prefix = << >>
      /\ x.snap.prefix # << >> => x.snap.origins[o] = 1
  BY <1>1 DEF CalmClient
<1>3. /\ x.snap.prefix # << >> => man.prefix = x.snap.prefix
      /\ Bound(x.snap)
      /\ x.snap.prefix # << >> => Serves(o, x.snap)
  BY <1>1, FetchFields
<1>4. /\ \A p \in Durable(man.extents) : disk.bytes[p] = man.prefix[1]
      /\ Bound(man)
  BY <1>1 DEF SameInv, SameIn, man
<1>5. x.snap.origins[o] = man.origins[o] /\ man.origins[o] \in {0, 1}
  <2>1. CASE x.snap.prefix # << >>
    <3>1. x.snap.origins[o] = 1 /\ x.snap.origins[o] # Unbound
      BY <1>2, <2>1 DEF Unbound
    <3> QED BY <1>1, <1>2, <3>1 DEF Known
  <2>2. CASE x.snap.prefix = << >>
    <3>1. x.snap.origins[o] = Unbound /\ man.origins[o] = Unbound
      BY <1>1, <1>2, <1>3, <1>4, <2>2 DEF Bound, Serves
    <3> QED BY <3>1 DEF Unbound
  <2> QED BY <2>1, <2>2
<1>6. ExtentRebase(x.snap, man, o)
  <2>1. Rebase(x.snap, man, {}, TRUE)
    BY <1>2, <1>3, KnownRebases
  <2> QED BY <1>5, <2>1 DEF ExtentRebase
<1>7. OverlapsAgree(c)
  <2>1. \A i \in DOMAIN man.extents :
          Digest(disk.bytes, RangeOf(man.extents[i])) = man.extents[i].sha
    BY <1>1 DEF Backed, Digested
  <2>2. ASSUME NEW i \in DOMAIN man.extents,
               NEW p \in Bytes(RangeOf(man.extents[i])) \cap Bytes(Here(c).range)
        PROVE  disk.bytes[p] = content[Here(c).obs][p]
    <3>1. p \in Durable(man.extents)
      BY DEF Durable
    <3>2. Durable(man.extents) \subseteq Positions /\ disk \in Disk
      BY <1>1, WrittenBytes, CalmFacts
    <3>3. man.extents # << >>
      BY <3>1 DEF Durable
    <3>4. man.prefix # << >> /\ x.snap.prefix # << >>
      BY <1>1, <1>2, <3>3 DEF Backed
    <3>5. content[o][0] = man.prefix[1]
      BY <1>3, <3>4 DEF Serves
    <3>6. content[o][p] = content[o][0]
      BY SMTT(30), <1>1, <3>1, <3>2 DEF StoreInv, StoreTypes
    <3> QED BY <1>4, <3>1, <3>5, <3>6 DEF Here
  <2> QED BY <2>1, <2>2 DEF OverlapsAgree
<1> QED BY <1>1, <1>2, <1>5, <1>6, <1>7 DEF MayCommit, Here, Unbound

\* A binding is published when nothing happened.
LEMMA CalmPublishes ==
    ASSUME StoreInv, SameInv, CalmInv, Unexplained, NEW c \in Clients,
           client[c].pc \in {"bind", "rebind"}
    PROVE  /\ Load = "ok" /\ Rebase(Here(c).snap, man, {Here(c).obs}, TRUE)
           /\ man.origins[Here(c).obs] \in {Here(c).etag, Here(c).snap.origins[Here(c).obs]}
<1> DEFINE x == client[c]
           o == x.obs
<1>1. /\ x.pc \in Fetching /\ disk.saved /\ Load = "ok" /\ CalmClient(x, man)
      /\ o \in Origins /\ man.origins[o] \in {0, 1} /\ x.snap \in Manifest
  BY CalmFacts, ClientFields DEF Fetching
<1>2. Known(x.snap, man) /\ x.etag = 1
  BY <1>1 DEF CalmClient
<1>3. x.snap.prefix # << >> => man.prefix = x.snap.prefix
  BY <1>1, FetchFields
<1>4. Rebase(x.snap, man, {o}, TRUE)
  BY <1>2, <1>3, KnownRebases
<1>5. man.origins[o] \in {x.etag, x.snap.origins[o]}
  <2>1. CASE man.origins[o] = 1
    BY <1>2, <2>1
  <2>2. CASE man.origins[o] = 0
    <3>1. x.snap.origins[o] = 0
      BY <1>1, <1>2, <2>2 DEF Known, Unbound
    <3> QED BY <2>2, <3>1
  <2> QED BY <1>1, <2>1, <2>2
<1> QED BY <1>1, <1>4, <1>5 DEF Here

\* What is covered all over is finalized when nothing happened.
LEMMA CalmFinalizes ==
    ASSUME StoreInv, SameInv, CalmInv, Unexplained, NEW c \in Clients, At(c, "finalize")
    PROVE  MayFinalize
<1>1. /\ disk.saved /\ Load = "ok" /\ CalmClient(client[c], man) /\ client[c].pc = "finalize"
      /\ Backed(man, disk.bytes) /\ disk \in Disk /\ disk.final = "none"
  BY CalmFacts DEF At
<1>2. RangeIsCovered(man.extents, Whole)
  BY <1>1 DEF CalmClient
<1>3. Whole \in Pair /\ Whole \in Nat \X Nat
  BY SizesAreNumbers DEF Whole, Pair
<1>4. man.extents # << >>
  BY <1>1, <1>2, <1>3, CoveredHasPrefix
<1>5. man.extents \in Seq(Extent) /\ Ordered(man.extents) /\ man.total = Total
  BY <1>1, <1>4, DiskFields DEF man, Backed
<1>6. DurableExtentBytes(man.extents) = Total
  <2>1. Bytes(Whole) \subseteq Durable(man.extents)
    BY <1>2, <1>3, <1>5, CoverageIsExact
  <2>2. \A p \in 0..(Total - 1) : p \in Durable(man.extents)
    BY <2>1 DEF Bytes, Whole
  <2> QED BY <1>5, <2>2, WholeLength
<1> QED BY <1>1, <1>2, <1>5, <1>6 DEF MayFinalize, Backed, Digested

\* An empty checkpoint is replaced by a full GET when nothing happened.
LEMMA CalmReplaces ==
    ASSUME StoreInv, SameInv, CalmInv, Unexplained, NEW c \in Clients, At(c, "publish"),
           man.extents = << >>
    PROVE  MayPublish(c)
<1> DEFINE s == client[c].snap
<1>1. /\ Load = "ok" /\ CalmClient(client[c], man) /\ client[c].pc = "publish"
      /\ ~disk.meta /\ disk.final = "none"
  BY CalmFacts DEF At
<1>2. Blank(s) /\ s.total \in {0, man.total}
  BY <1>1 DEF CalmClient
<1> HIDE DEF s
<1>3. Known(s, man)
  BY <1>2 DEF Blank, Known, ToSet
<1>4. Rebase(s, man, {}, FALSE)
  BY <1>2, <1>3, KnownRebases DEF Blank
<1> QED BY <1>1, <1>4 DEF MayPublish, Here, s

\* No step of a client fails with an identity error when nothing happened.
LEMMA ErrorHasCause ==
    ASSUME StoreInv, SameInv, CalmInv, NEW c \in Clients,
           \/ \E r \in Requests : StartRead(c, r)
           \/ StartFill(c) \/ Step(c)
           \/ RequestFails(c) \/ Preempted(c) \/ FullGetFails(c)
    PROVE  ~spurious'
<1>1. ~spurious /\ (IdentityError(c) \/ spurious' = spurious)
  BY ErrorOrNot DEF CalmInv
<1>2. CASE ~Unexplained
  BY <1>1, <1>2, ExplainedError
<1>3. CASE Unexplained
  <2>1. /\ ~disk.meta /\ CompletedReady = "none" /\ Load \in {"ok", "none"}
        /\ Load = "ok" <=> disk.saved
        /\ client[c].pc \notin {"idle", "ensure"} => disk.saved
        /\ CalmClient(client[c], man)
    BY <1>3, CalmFacts
  <2>2. Here(c) = client[c] /\ client[c].range \in Pair
    <3>1. client[c].range \in Spans
      BY ClientFields
    <3> QED BY <3>1, SizesAreNumbers DEF Here, Spans, Pair
  <2>3. CASE (\E r \in Requests : StartRead(c, r)) \/ StartFill(c) \/ RequestFails(c)
             \/ Preempted(c) \/ FullGetFails(c)
    BY <1>1, <2>1, <2>3 DEF StartRead, StartFill, RequestFails, Preempted, FullGetFails, Fails
  <2>4. CASE Ensure(c) \/ NoTotal(c) \/ FirstChunk(c) \/ NextChunk(c) \/ Wake(c)
    BY <1>1, <2>1, <2>4 DEF Ensure, NoTotal, FirstChunk, NextChunk, Wake, Fails
  <2>5. CASE PublishTotal(c)
    <3> DEFINE s == client[c].snap
    <3>1. client[c].pc = "total" /\ s.total = 0 /\ Load = "ok"
      BY <2>1, <2>2, <2>5 DEF PublishTotal, At
    <3>2. Blank(s)
      BY <2>1, <3>1 DEF CalmClient
    <3> HIDE DEF s
    <3>3. Known(s, man)
      BY <3>1, <3>2 DEF Blank, Known, ToSet
    <3>4. Rebase(s, man, {}, FALSE) /\ s.extents = << >>
      BY <3>2, <3>3, KnownRebases DEF Blank
    <3> QED BY <1>1, <2>2, <2>5, <3>1, <3>4 DEF PublishTotal, s
  <2>6. CASE Plan(c)
    BY <1>1, <2>1, <2>6 DEF Plan, At
  <2>7. CASE Admit(c)
    <3>1. Load = "ok" /\ disk.saved
      BY <2>1, <2>7 DEF Admit, At
    <3>2. RangeIsCovered(man.extents, client[c].range) => ReadDurable(client[c].range) = "ok"
      BY <1>3, <2>2, <3>1, ReadsWell
    <3> QED BY <1>1, <2>2, <2>7, <3>1, <3>2 DEF Admit
  <2>8. CASE Own(c)
    <3>1. Load = "ok" /\ disk.saved
      BY <2>1, <2>8 DEF Own, At
    <3>2. ReadDurable(client[c].range) # "identity"
      BY <1>3, <2>2, <3>1, ReadsWell
    <3>3. ReadDurable(client[c].range) \in {"ok", "identity", "none"}
      BY DEF ReadDurable, Load
    <3> QED BY <1>1, <2>2, <2>8, <3>2, <3>3 DEF Own
  <2>9. CASE (\E o \in Origins : Try(c, o)) \/ NoCandidate(c) \/ Verify(c) \/ Send(c) \/ Reverify(c)
    <3>1. CASE \E o \in Origins : Try(c, o)
      <4>1. PICK o \in Origins : Try(c, o)
        BY <3>1
      <4>2. Load = "ok"
        BY <2>1, <4>1, TryFields
      <4>3. spurious' = spurious
        BY <4>1, <4>2, TryFields
      <4> QED BY <1>1, <4>3
    <3>2. CASE NoCandidate(c)
      BY <1>1, <3>2 DEF NoCandidate, Fails
    <3>3. CASE Verify(c) \/ Send(c) \/ Reverify(c)
      BY SMTT(30), <1>1, <3>3, QuietFetch
    <3> QED BY <2>9, <3>1, <3>2, <3>3
  <2>10. CASE Bind(c) \/ Rebind(c)
    <3>1. client[c].pc \in {"bind", "rebind"}
      BY <2>10 DEF Bind, Rebind, At
    <3>2. /\ Load = "ok" /\ Rebase(Here(c).snap, man, {Here(c).obs}, TRUE)
          /\ man.origins[Here(c).obs] \in {Here(c).etag, Here(c).snap.origins[Here(c).obs]}
      BY <1>3, <3>1, CalmPublishes
    <3>3. PublishOrigin(c, "send") \/ PublishOrigin(c, "commit")
      BY <2>10 DEF Bind, Rebind
    <3> QED BY <1>1, <3>2, <3>3 DEF PublishOrigin
  <2>11. CASE Commit(c) \/ CommitFull(c) \/ CommitStale(c)
    BY <1>1, <2>11 DEF Commit, CommitFull, CommitStale, Fails
  <2>12. CASE CommitRefused(c)
    <3>1. At(c, "commit") /\ ~MayCommit(c)
      BY <2>12 DEF CommitRefused
    <3> QED BY <1>3, <3>1, CalmCommits
  <2>13. CASE Squeeze(c) \/ Maintain(c)
    BY <1>1, <2>13 DEF Squeeze, Maintain
  <2>14. CASE Finish(c)
    BY <1>1, <2>1, <2>14 DEF Finish, Fails, At
  <2>15. CASE Finalize(c)
    <3>1. MayFinalize
      BY <1>3, <2>15, CalmFinalizes DEF Finalize
    <3> QED BY <1>1, <2>15, <3>1 DEF Finalize, Fails
  <2>16. CASE FullGet(c)
    BY <1>1, <2>16 DEF FullGet, Fails
  <2>17. CASE FullGetPublishes(c)
    <3>1. At(c, "publish") /\ Load = "ok"
      BY <2>1, <2>17 DEF FullGetPublishes, At
    <3>2. man.extents = << >> => MayPublish(c)
      BY <1>3, <3>1, CalmReplaces
    <3> QED BY <1>1, <2>17, <3>1, <3>2 DEF FullGetPublishes, Fails
  <2> QED BY <2>3, <2>4, <2>5, <2>6, <2>7, <2>8, <2>9, <2>10, <2>11, <2>12, <2>13, <2>14,
             <2>15, <2>16, <2>17 DEF Step
<1> QED BY <1>2, <1>3

\* A client owns a flight that was its own already, or of a range without one.
FlightKept(c) ==
    client'[c].pc \in FlightPcs =>
        \/ client[c].pc \in FlightPcs /\ client'[c].range = client[c].range
        \/ \A d \in Clients : client[d].pc \in FlightPcs => client[d].range # client'[c].range

\* A flight has one owner when the client that moves keeps its own, starts none or
\* starts one that nobody has.
LEMMA FlightStays ==
    ASSUME OneFlight, NEW c \in Clients, Alone(c), FlightKept(c)
    PROVE  OneFlight'
<1> SUFFICES ASSUME NEW d \in Clients, NEW e \in Clients,
                    client'[d].pc \in FlightPcs, client'[e].pc \in FlightPcs,
                    client'[d].range = client'[e].range, d # e
             PROVE  FALSE
  BY DEF OneFlight
<1>1. CASE d # c /\ e # c
  BY <1>1 DEF OneFlight, Alone
<1>2. CASE d = c
  BY <1>2 DEF OneFlight, Alone, FlightKept
<1>3. CASE e = c
  BY <1>3 DEF OneFlight, Alone, FlightKept
<1> QED BY <1>1, <1>2, <1>3

\* Those who own a flight.
LEMMA FlightsArePcs ==
    \A d \in Clients : d \in Flights <=> client[d].pc \in FlightPcs
BY DEF Flights, Admitted, At, FlightPcs, Fetching

\* A checkpoint that grew, and one that grew for a client that fetches.
Extends(m, n) ==
    /\ n.total = m.total \/ m.total = 0
    /\ \A o \in Origins : m.origins[o] # Unbound => n.origins[o] = m.origins[o]
    /\ RangeIsCovered(m.extents, Whole) => RangeIsCovered(n.extents, Whole)
Undisturbed(x, m, n) ==
    x.pc \in Fetching => /\ ToSet(m.extents) \subseteq ToSet(n.extents)
                         /\ x.snap.prefix = << >> => n.prefix = m.prefix

\* A client that stays is not to fail with the larger checkpoint either.
LEMMA CalmStays ==
    ASSUME NEW x, NEW m, NEW n, CalmClient(x, m), Extends(m, n), Undisturbed(x, m, n)
    PROVE  CalmClient(x, n)
<1>1. x.pc \in Fetching => Known(x.snap, n) /\ (x.snap.prefix = << >> => n.prefix = << >>)
  <2> SUFFICES ASSUME x.pc \in Fetching
               PROVE  Known(x.snap, n) /\ (x.snap.prefix = << >> => n.prefix = << >>)
    OBVIOUS
  <2>1. Known(x.snap, m) /\ (x.snap.prefix = << >> => m.prefix = << >>)
    BY DEF CalmClient
  <2> QED BY <2>1 DEF Known, Extends, Undisturbed
<1>2. x.pc = "publish" => Blank(x.snap) /\ x.snap.total \in {0, n.total}
  BY DEF CalmClient, Extends
<1>3. x.pc = "finalize" => RangeIsCovered(n.extents, Whole)
  BY DEF CalmClient, Extends
<1> QED BY <1>1, <1>2, <1>3 DEF CalmClient

\* One client moves, and the files change under it.
LEMMA CalmMoves ==
    ASSUME CalmInv, NEW c \in Clients, Alone(c), FlightKept(c), ~spurious',
           Unexplained' => Unexplained /\ etag' = etag,
           Unexplained' /\ Unexplained =>
              /\ CalmDisk(disk') /\ CalmClient(client'[c], disk'.man)
              /\ \A d \in Clients : d # c => CalmClient(client[d], disk'.man)
    PROVE  CalmInv'
<1>1. OneFlight'
  BY SMTT(30), FlightStays DEF CalmInv
<1>2. ASSUME Unexplained' PROVE Calm'
  <2>1. Unexplained /\ etag' = etag /\ Calm
    BY <1>2 DEF CalmInv
  <2>2. CalmDisk(disk')
    BY <1>2, <2>1
  <2>3. ASSUME NEW d \in Clients PROVE CalmClient(client'[d], disk'.man)
    <3>1. CASE d = c
      BY <1>2, <2>1, <3>1
    <3>2. CASE d # c
      BY <1>2, <2>1, <3>2 DEF Alone
    <3> QED BY <3>1, <3>2
  <2> QED BY <2>1, <2>2, <2>3 DEF Calm, CalmDisk, CalmClient, Known, Blank, man
<1> QED BY <1>1, <1>2 DEF CalmInv

\* Only the client moves.
LEMMA CalmGoes ==
    ASSUME CalmInv, NEW c \in Clients, Alone(c), FlightKept(c), ~spurious',
           disk' = disk, UNCHANGED World,
           Unexplained => CalmClient(client'[c], man)
    PROVE  CalmInv'
<1>1. etag' = etag /\ rolls' = rolls /\ hurts' = hurts
  BY DEF World
<1>2. Unexplained' => Unexplained
  BY <1>1 DEF Unexplained
<1>3. Unexplained => CalmDisk(disk') /\ \A d \in Clients : CalmClient(client[d], disk'.man)
  BY DEF CalmInv, Calm, man
<1> QED BY <1>1, <1>2, <1>3, CalmMoves DEF man

\* A client that rests is calm.
LEMMA RestIsCalm ==
    ASSUME NEW c \in Clients, Rests(c)
    PROVE  Alone(c) /\ FlightKept(c) /\ \A m : CalmClient(client'[c], m)
BY DEF Rests, Resting, FlightKept, FlightPcs, Fetching, CalmClient

\* A client that comes to rest with the files as they are.
LEMMA CalmRests ==
    ASSUME CalmInv, NEW c \in Clients, Rests(c), ~spurious', disk' = disk, UNCHANGED World
    PROVE  CalmInv'
BY RestIsCalm, CalmGoes

\* The steps up to a flight.
LEMMA CalmBefore ==
    ASSUME StoreInv, SameInv, CalmInv, NEW c \in Clients, ~spurious',
           \/ \E r \in Requests : StartRead(c, r)
           \/ StartFill(c) \/ NoTotal(c) \/ FirstChunk(c) \/ Plan(c) \/ NextChunk(c)
           \/ Admit(c) \/ Wake(c) \/ Own(c) \/ NoCandidate(c)
    PROVE  CalmInv'
<1>1. disk' = disk /\ UNCHANGED World
  BY DEF StartRead, StartFill, NoTotal, FirstChunk, Plan, NextChunk, Admit, Wake, Own, NoCandidate
<1>2. CASE Rests(c)
  BY <1>1, <1>2, CalmRests
<1>3. CASE StartFill(c)
  <2>1. CASE Done(c)
    BY <1>1, <2>1, DoneDeparts, CalmRests
  <2>2. CASE ~Done(c)
    <3> DEFINE p == IF disk.meta THEN "finalize" ELSE "ensure"
               n == [client[c] EXCEPT !.pc = p, !.want = Whole]
    <3>1. client' = [client EXCEPT ![c] = n]
      BY <1>3, <2>2 DEF StartFill, IdentityError
    <3>2. p \notin FlightPcs /\ p \notin Fetching /\ p \in {"finalize", "ensure"}
      BY DEF FlightPcs, Fetching
    <3>3. ~disk.meta => p \in Resting
      BY DEF Resting
    <3> HIDE DEF p
    <3>4. n.pc = p
      BY ClientFields DEF Client
    <3> HIDE DEF n
    <3>5. Alone(c) /\ client'[c].pc = p /\ FlightKept(c)
      BY <3>1, <3>2, <3>4, Departs DEF Left, FlightKept
    <3>6. Unexplained => CalmClient(client'[c], man)
      <4>1. Unexplained => ~disk.meta
        BY CalmFacts
      <4> QED BY <3>3, <3>5, <4>1, RestIsCalm DEF Rests
    <3> QED BY <1>1, <3>5, <3>6, CalmGoes
  <2> QED BY <2>1, <2>2
<1>4. CASE Admit(c)
  <2>1. CASE Done(c) \/ SpanEnds(c)
    BY <1>1, <2>1, DoneDeparts, SpanDeparts, CalmRests
  <2>2. CASE Go(c, "wait")
    <3>1. Rests(c)
      BY <2>2, GoDeparts DEF Resting, Fetching
    <3> QED BY <1>1, <3>1, CalmRests
  <2>3. CASE Go(c, "own") /\ ~\E d \in Flights : Here(d).range = Here(c).range
    <3>1. Left(c) /\ client'[c].pc = "own" /\ client'[c].range = client[c].range
      <4> DEFINE n == [client[c] EXCEPT !.pc = "own"]
      <4>1. client' = [client EXCEPT ![c] = n]
        BY <2>3 DEF Go
      <4>2. n.pc = "own" /\ n.range = client[c].range
        BY MovedFields
      <4> HIDE DEF n
      <4> QED BY <4>1, <4>2, Departs DEF Fetching
    <3>2. \A d \in Clients : client[d].pc \in FlightPcs => client[d].range # client[c].range
      BY <2>3, FlightsArePcs DEF Here
    <3>3. Alone(c) /\ FlightKept(c)
      BY <3>1, <3>2 DEF Left, FlightKept
    <3>4. CalmClient(client'[c], man)
      BY <3>1 DEF CalmClient, Fetching
    <3> QED BY <1>1, <3>3, <3>4, CalmGoes
  <2> QED BY <1>4, <2>1, <2>2, <2>3 DEF Admit, IdentityError
<1>5. CASE Own(c)
  <2>1. Done(c) \/ SpanEnds(c) \/ client' = [client EXCEPT ![c].pc = "try", ![c].left = Origins]
    <3>1. ReadDurable(Here(c).range) \in {"ok", "identity", "none"}
      BY DEF ReadDurable, Load
    <3> QED BY <1>5, <3>1 DEF Own, IdentityError
  <2>2. CASE client' = [client EXCEPT ![c].pc = "try", ![c].left = Origins]
    <3> DEFINE n == [client[c] EXCEPT !.pc = "try", !.left = Origins]
    <3>1. client' = [client EXCEPT ![c] = n] /\ n.pc = "try" /\ n.range = client[c].range
      BY <2>2, ClientFields DEF Client
    <3> HIDE DEF n
    <3>2. Alone(c) /\ client'[c].pc = "try" /\ client'[c].range = client[c].range
      BY <3>1, Departs DEF Left, Fetching
    <3>3. FlightKept(c)
      BY <1>5, <3>2 DEF FlightKept, Own, At, FlightPcs
    <3>4. CalmClient(client'[c], man)
      BY <3>2 DEF CalmClient, Fetching
    <3> QED BY <1>1, <3>2, <3>3, <3>4, CalmGoes
  <2> QED BY <1>1, <2>1, <2>2, DoneDeparts, SpanDeparts, CalmRests
<1> QED BY SMTT(30), <1>2, <1>3, <1>4, <1>5, EarlySteps

\* The next candidate is asked in the same flight.
LEMMA CalmCandidate ==
    ASSUME StoreInv, SameInv, CalmInv, NEW c \in Clients, ~spurious', NextCandidate(c),
           client[c].pc \in Fetching, disk' = disk, UNCHANGED World
    PROVE  CalmInv'
<1>1. Alone(c) /\ client'[c].pc = "try" /\ client'[c].range = client[c].range
  BY CandidateDeparts DEF Left
<1>2. FlightKept(c) /\ CalmClient(client'[c], man)
  BY <1>1 DEF FlightKept, FlightPcs, CalmClient, Fetching
<1> QED BY <1>1, <1>2, CalmGoes

\* A candidate is tried in the same flight.
LEMMA CalmTry ==
    ASSUME StoreInv, SameInv, CalmInv, NEW c \in Clients, ~spurious', NEW o \in Origins, Try(c, o)
    PROVE  CalmInv'
<1>1. disk' = disk /\ UNCHANGED World /\ client[c] \in Client /\ client[c].pc = "try"
  BY TryFields, ClientFields
<1>2. CASE Load # "ok"
  <2>1. Done(c)
    BY <1>2 DEF Try, IdentityError
  <2> QED BY <1>1, <2>1, DoneDeparts, CalmRests
<1>3. CASE Load = "ok"
  <2> DEFINE p == IF man.prefix # << >> /\ man.origins[o] = Unbound THEN "verify" ELSE "send"
             left == client[c].left \ {o}
             n == [client[c] EXCEPT !.pc = p, !.snap = man, !.cand = o, !.left = left]
  <2>1. client' = [client EXCEPT ![c] = n]
    BY <1>3 DEF Try
  <2>2. p \in {"verify", "send"}
    OBVIOUS
  <2> HIDE DEF p, left
  <2>3. n.pc = p /\ n.snap = man /\ n.range = client[c].range
    BY <1>1 DEF Client
  <2> HIDE DEF n
  <2>4. Alone(c) /\ client'[c] = n
    BY <2>1 DEF StoreInv, StoreTypes, Alone
  <2>5. FlightKept(c)
    BY <1>1, <2>3, <2>4 DEF FlightKept, FlightPcs
  <2>6. Known(man, man)
    BY DEF Known
  <2>7. CalmClient(n, man)
    BY <2>2, <2>3, <2>6 DEF CalmClient
  <2> QED BY <1>1, <2>4, <2>5, <2>7, CalmGoes
<1> QED BY <1>2, <1>3

\* The fetch of a range, up to the bytes.
LEMMA CalmFetch ==
    ASSUME StoreInv, SameInv, CalmInv, NEW c \in Clients, ~spurious',
           \/ \E o \in Origins : Try(c, o)
           \/ Verify(c) \/ Send(c) \/ Reverify(c) \/ RequestFails(c)
    PROVE  CalmInv'
<1>1. disk' = disk /\ UNCHANGED World /\ client[c] \in Client
  <2>1. CASE Verify(c) \/ Send(c) \/ Reverify(c)
    BY <2>1, QuietFetch, ClientFields
  <2>2. CASE (\E o \in Origins : Try(c, o)) \/ RequestFails(c)
    BY <2>2, TryFields, ClientFields DEF RequestFails
  <2> QED BY <2>1, <2>2
<1>2. ASSUME NEW n, client' = [client EXCEPT ![c] = n], n.range = client[c].range,
             client[c].pc \in FlightPcs, Unexplained => CalmClient(n, man)
      PROVE  CalmInv'
  <2>1. Alone(c) /\ client'[c] = n
    BY <1>2 DEF StoreInv, StoreTypes, Alone
  <2>2. FlightKept(c)
    BY <1>2, <2>1 DEF FlightKept
  <2> QED BY <1>1, <1>2, <2>1, <2>2, CalmGoes
<1>3. ASSUME Unexplained, client[c].pc \in Fetching
      PROVE  /\ Known(client[c].snap, man) /\ (client[c].snap.prefix = << >> => man.prefix = << >>)
             /\ client[c].pc = "reverify" => client[c].etag = 1
             /\ \A o \in Origins : etag[o] = 1
  <2>1. CalmClient(client[c], man) /\ \A o \in Origins : etag[o] = 1
    BY <1>3, CalmFacts
  <2> QED BY <1>3, <2>1 DEF CalmClient
<1>4. CASE Done(c)
  BY <1>1, <1>4, DoneDeparts, CalmRests
<1>5. CASE NextCandidate(c) /\ client[c].pc \in Fetching
  BY <1>1, <1>5, CalmCandidate
<1>6. CASE \E o \in Origins : Try(c, o)
  BY <1>6, CalmTry
<1>7. CASE Verify(c)
  <2>1. client[c].pc = "verify" /\ client[c].pc \in Fetching /\ client[c].pc \in FlightPcs
    <3>1. client[c].pc = "verify"
      BY <1>7, Zenon DEF Verify, At
    <3> QED BY <3>1 DEF FlightPcs, Fetching
  <2>2. PICK p \in Via(Here(c).cand) :
          IF Verified(c, p)
          THEN client' = [client EXCEPT ![c].pc = "bind", ![c].obs = p, ![c].etag = etag[p]]
          ELSE NextCandidate(c)
    BY <1>7, Zenon DEF Verify
  <2>3. CASE ~NextCandidate(c)
    <3> DEFINE tag == etag[p]
               n == [client[c] EXCEPT !.pc = "bind", !.obs = p, !.etag = tag]
    <3>1. client' = [client EXCEPT ![c] = n]
      BY <2>2, <2>3
    <3>2. p \in Origins
      BY ClientFields, ViaOrigins DEF Here
    <3>3. Unexplained => tag = 1
      BY <1>3, <2>1, <3>2
    <3> HIDE DEF tag
    <3>4. n.pc = "bind" /\ n.snap = client[c].snap /\ n.range = client[c].range /\ n.etag = tag
      BY <1>1 DEF Client
    <3> HIDE DEF n
    <3>5. Unexplained => CalmClient(n, man)
      BY <1>3, <2>1, <3>3, <3>4 DEF CalmClient
    <3> QED BY <1>2, <2>1, <3>1, <3>4, <3>5
  <2> QED BY <1>5, <2>1, <2>3
<1>8. CASE Send(c)
  <2>1. client[c].pc = "send" /\ client[c].pc \in Fetching /\ client[c].pc \in FlightPcs
    <3>1. client[c].pc = "send"
      BY <1>8, Zenon DEF Send, At
    <3> QED BY <3>1 DEF FlightPcs, Fetching
  <2>2. PICK o \in Via(Here(c).cand) :
          client' = [client EXCEPT
              ![c].pc = IF MustRevalidate(c, o) THEN "reverify" ELSE "commit",
              ![c].left = IF MustRevalidate(c, o) THEN @ ELSE {},
              ![c].obs = o, ![c].etag = etag[o], ![c].cand = First]
    BY <1>8, Zenon DEF Send
  <2> DEFINE p == IF MustRevalidate(c, o) THEN "reverify" ELSE "commit"
             left == IF MustRevalidate(c, o) THEN client[c].left ELSE {}
             tag == etag[o]
             n == [client[c] EXCEPT !.pc = p, !.left = left, !.obs = o, !.etag = tag, !.cand = First]
  <2>3. client' = [client EXCEPT ![c] = n]
    BY <2>2
  <2>4. o \in Origins
    BY ClientFields, ViaOrigins DEF Here
  <2>5. Unexplained => tag = 1
    BY <1>3, <2>1, <2>4
  <2>6. p = "reverify" \/ (p = "commit" /\ (client[c].snap.prefix # << >> => client[c].snap.origins[o] = tag))
    BY DEF MustRevalidate, Here
  <2> HIDE DEF p, left, tag
  <2>7. n.pc = p /\ n.snap = client[c].snap /\ n.range = client[c].range /\ n.etag = tag /\ n.obs = o
    BY <1>1 DEF Client
  <2> HIDE DEF n
  <2>8. Unexplained => CalmClient(n, man)
    BY <1>3, <2>1, <2>5, <2>6, <2>7 DEF CalmClient
  <2> QED BY <1>2, <2>1, <2>3, <2>7, <2>8
<1>9. CASE Reverify(c)
  <2>1. client[c].pc = "reverify" /\ client[c].pc \in Fetching /\ client[c].pc \in FlightPcs
    <3>1. client[c].pc = "reverify"
      BY <1>9, Zenon DEF Reverify, At
    <3> QED BY <3>1 DEF FlightPcs, Fetching
  <2>2. CASE ~NextCandidate(c)
    <3> DEFINE n == [client[c] EXCEPT !.pc = "rebind", !.left = {}]
    <3>1. client' = [client EXCEPT ![c] = n]
      BY <1>9, <2>2 DEF Reverify
    <3>2. /\ n.pc = "rebind" /\ n.snap = client[c].snap /\ n.range = client[c].range
          /\ n.etag = client[c].etag
      BY <1>1 DEF Client
    <3> HIDE DEF n
    <3>3. Unexplained => CalmClient(n, man)
      BY <1>3, <2>1, <3>2 DEF CalmClient
    <3> QED BY <1>2, <2>1, <3>1, <3>2, <3>3
  <2> QED BY <1>5, <2>1, <2>2
<1>10. CASE RequestFails(c)
  <2>1. Done(c) \/ NextCandidate(c)
    BY <1>10 DEF RequestFails, Fails
  <2>2. client[c].pc \in Fetching
    BY <1>10 DEF RequestFails, Fetching
  <2> QED BY <1>4, <1>5, <2>1, <2>2
<1> QED BY <1>6, <1>7, <1>8, <1>9, <1>10

\* A checkpoint without extents is blank while it comes from one representation.
LEMMA EmptyIsBlank ==
    ASSUME StoreInv, SameInv, disk.saved, man.extents = << >>
    PROVE  Blank(man)
<1>1. Backed(man, disk.bytes)
  BY DEF StoreInv, GoodDisk, man
<1>2. man.prefix = << >>
  BY <1>1 DEF Backed
<1>3. Bound(man)
  BY DEF SameInv, SameIn, man
<1> QED BY <1>2, <1>3 DEF Blank, Bound, Serves

\* The checkpoint is created, or found.
LEMMA CalmEnsure ==
    ASSUME StoreInv, SameInv, CalmInv, NEW c \in Clients, ~spurious', Ensure(c)
    PROVE  CalmInv'
<1>1. UNCHANGED World /\ client[c] \in Client /\ disk \in Disk
  BY ClientFields DEF Ensure
<1>2. CASE Done(c) /\ disk' = disk
  BY <1>1, <1>2, DoneDeparts, CalmRests
<1>3. CASE /\ \/ Load = "ok" /\ UNCHANGED disk
              \/ Load = "none" /\ \E size \in Sizes : disk' = Last(EnsureStages(size))
           /\ client' = [client EXCEPT ![c].pc = "total", ![c].snap = disk'.man]
  <2> DEFINE m == disk'.man
             n == [client[c] EXCEPT !.pc = "total", !.snap = m]
  <2>1. client' = [client EXCEPT ![c] = n]
    BY <1>3
  <2> HIDE DEF m
  <2>2. n.pc = "total" /\ n.snap = m
    BY <1>1 DEF Client
  <2> HIDE DEF n
  <2>3. Alone(c) /\ client'[c] = n
    BY <2>1 DEF StoreInv, StoreTypes, Alone
  <2>4. FlightKept(c)
    BY <2>2, <2>3 DEF FlightKept, FlightPcs, Fetching
  <2>5. CASE Load = "ok" /\ UNCHANGED disk
    <3>1. disk.saved /\ Backed(man, disk.bytes) /\ m = man
      BY <2>5 DEF Load, StoreInv, GoodDisk, man, m
    <3>2. man.total = 0 => man.extents = << >>
      BY <3>1, SizesAreNumbers DEF Backed
    <3>3. man.total = 0 => Blank(man)
      BY <3>1, <3>2, EmptyIsBlank
    <3>4. CalmClient(n, man)
      BY <2>2, <3>1, <3>3 DEF CalmClient, Fetching
    <3> QED BY <1>1, <2>3, <2>4, <2>5, <3>4, CalmGoes
  <2>6. CASE Load = "none" /\ \E size \in Sizes : disk' = Last(EnsureStages(size))
    <3>1. PICK size \in Sizes : disk' = Last(EnsureStages(size))
      BY <2>6
    <3> DEFINE created == [disk EXCEPT !.partial = TRUE, !.bytes = EmptyDisk.bytes]
    <3>2. disk' = [created EXCEPT !.saved = TRUE, !.man = NewManifest(size)]
      BY <3>1 DEF EnsureStages, Last
    <3>3. /\ disk'.saved = TRUE /\ disk'.partial = TRUE /\ disk'.meta = disk.meta
          /\ disk'.final = disk.final /\ m = NewManifest(size)
      BY <1>1, <3>2 DEF Disk, m
    <3>4. Blank(m)
      BY <3>3 DEF Blank, NewManifest
    <3>5. CalmClient(n, m)
      BY <2>2, <3>4 DEF CalmClient, Fetching
    <3>6. Unexplained' => Unexplained /\ etag' = etag
      BY <1>1, <3>3 DEF Unexplained, World
    <3>7. ASSUME Unexplained
          PROVE  /\ CalmDisk(disk')
                 /\ \A d \in Clients : d # c => CalmClient(client[d], m)
      <4>1. ~disk.meta /\ ~disk.saved
        BY <2>6, <3>7, CalmFacts DEF Load
      <4>2. \A d \in Clients : client[d].pc \in {"idle", "ensure"}
        BY <3>7, <4>1, CalmFacts
      <4>3. CalmDisk(disk')
        <5>1. \A o \in Origins : m.origins[o] = 0
          BY <3>4 DEF Blank, Unbound
        <5>2. \A o \in Origins : disk'.man.origins[o] # 2
          BY <5>1 DEF m
        <5>3. disk'.saved = disk'.partial /\ ~disk'.meta
          BY <3>3, <4>1
        <5> QED BY <5>2, <5>3 DEF CalmDisk
      <4> QED BY <4>2, <4>3 DEF CalmClient, Fetching
    <3> QED BY <2>3, <2>4, <3>5, <3>6, <3>7, CalmMoves DEF m
  <2> QED BY <1>3, <2>5, <2>6
<1> QED BY <1>2, <1>3 DEF Ensure, IdentityError, Fails

\* Files whose checkpoint grew: what there is to show of them.
LEMMA CalmGrows ==
    ASSUME CalmInv, NEW c \in Clients, Alone(c), FlightKept(c), ~spurious', UNCHANGED World,
           disk'.final = disk.final, disk'.meta = disk.meta,
           disk'.saved = disk.saved, disk'.partial = disk.partial,
           Unexplained => /\ Extends(man, disk'.man)
                          /\ \A o \in Origins : disk'.man.origins[o] # 2
                          /\ CalmClient(client'[c], disk'.man)
                          /\ \A d \in Clients : d # c => Undisturbed(client[d], man, disk'.man)
    PROVE  CalmInv'
<1>1. Unexplained' => Unexplained /\ etag' = etag
  BY DEF Unexplained, World
<1>2. ASSUME Unexplained
      PROVE  /\ CalmDisk(disk')
             /\ \A d \in Clients : d # c => CalmClient(client[d], disk'.man)
  <2>1. Calm
    BY <1>2 DEF CalmInv
  <2>2. CalmDisk(disk')
    BY <1>2, <2>1 DEF Calm, CalmDisk
  <2>3. ASSUME NEW d \in Clients, d # c PROVE CalmClient(client[d], disk'.man)
    <3>1. CalmClient(client[d], man)
      BY <2>1 DEF Calm
    <3> QED BY <1>2, <2>3, <3>1, CalmStays
  <2> QED BY <2>2, <2>3
<1> QED BY <1>1, <1>2, CalmMoves

\* The discovered length is published.
LEMMA CalmTotal ==
    ASSUME StoreInv, SameInv, CalmInv, NEW c \in Clients, ~spurious', PublishTotal(c)
    PROVE  CalmInv'
<1>1. UNCHANGED World /\ client[c] \in Client /\ disk \in Disk /\ client[c].pc = "total"
  BY ClientFields DEF PublishTotal, At
<1>2. CASE Done(c) /\ disk' = disk
  BY <1>1, <1>2, DoneDeparts, CalmRests
<1>3. CASE /\ disk' = [disk EXCEPT !.man.total = Total]
           /\ client' = [client EXCEPT ![c].snap = disk'.man]
  <2> DEFINE m == [man EXCEPT !.total = Total]
             n == [client[c] EXCEPT !.snap = m]
  <2>1. disk' = [disk EXCEPT !.man = m] /\ man \in Manifest /\ man.total \in {0, Total}
    BY <1>1, <1>3, DiskFields DEF man, Manifest, Sizes
  <2>2. /\ m.extents = man.extents /\ m.prefix = man.prefix /\ m.origins = man.origins
        /\ m.total = Total
    BY <2>1 DEF Manifest
  <2> HIDE DEF m
  <2>3. /\ disk'.man = m /\ disk'.final = disk.final /\ disk'.meta = disk.meta
        /\ disk'.saved = disk.saved /\ disk'.partial = disk.partial
    BY <1>1, <2>1 DEF Disk
  <2>4. client' = [client EXCEPT ![c] = n] /\ n.pc = "total" /\ n.snap = m
    BY <1>1, <1>3, <2>3 DEF Client
  <2> HIDE DEF n
  <2>5. Alone(c) /\ client'[c] = n
    BY <2>4 DEF StoreInv, StoreTypes, Alone
  <2>6. FlightKept(c)
    BY <2>4, <2>5 DEF FlightKept, FlightPcs, Fetching
  <2>7. CalmClient(n, m)
    BY <2>2, <2>4, SizesAreNumbers DEF CalmClient, Fetching
  <2>8. Extends(man, m) /\ \A d : Undisturbed(client[d], man, m)
    BY <2>1, <2>2 DEF Extends, Undisturbed
  <2>9. Unexplained => \A o \in Origins : m.origins[o] # 2
    <3>1. Unexplained => \A o \in Origins : man.origins[o] \in {0, 1}
      BY CalmFacts
    <3> QED BY <2>2, <3>1
  <2> QED BY <1>1, <2>3, <2>5, <2>6, <2>7, <2>8, <2>9, CalmGrows
<1> QED BY <1>2, <1>3 DEF PublishTotal, IdentityError

\* A binding is published.
LEMMA CalmBinds ==
    ASSUME StoreInv, SameInv, CalmInv, NEW c \in Clients, ~spurious', NEW next \in {"send", "commit"},
           PublishOrigin(c, next), client[c].pc \in {"bind", "rebind"}
    PROVE  CalmInv'
<1>1. UNCHANGED World /\ client[c] \in Client /\ disk \in Disk
  BY ClientFields DEF PublishOrigin
<1>2. CASE Done(c) /\ disk' = disk
  BY <1>1, <1>2, DoneDeparts, CalmRests
<1>3. CASE /\ disk' = [disk EXCEPT !.man.origins[Here(c).obs] = Here(c).etag]
           /\ client' = [client EXCEPT ![c].pc = next, ![c].snap = disk'.man]
  <2> DEFINE o == client[c].obs
             tag == client[c].etag
             m == [man EXCEPT !.origins[o] = tag]
             n == [client[c] EXCEPT !.pc = next, !.snap = m]
  <2>0. client' = [client EXCEPT ![c].pc = next, ![c].snap = disk'.man]
    BY <1>3, Zenon
  <2>1. /\ disk' = [disk EXCEPT !.man = m] /\ man \in Manifest /\ o \in Origins
        /\ man.origins \in [Origins -> 0..2]
    BY <1>1, <1>3, ClientFields, DiskFields DEF man, Here
  <2>2. Unexplained => tag = 1 /\ \A x \in Origins : man.origins[x] \in {0, 1}
    <3>1. Unexplained => CalmClient(client[c], man) /\ \A x \in Origins : man.origins[x] \in {0, 1}
      BY CalmFacts
    <3> QED BY <3>1 DEF CalmClient
  <2> HIDE DEF o, tag
  <2>3. /\ m.extents = man.extents /\ m.prefix = man.prefix /\ m.total = man.total
        /\ m.origins = [man.origins EXCEPT ![o] = tag]
    BY <2>1 DEF Manifest
  <2> HIDE DEF m
  <2>4. /\ disk'.man = m /\ disk'.final = disk.final /\ disk'.meta = disk.meta
        /\ disk'.saved = disk.saved /\ disk'.partial = disk.partial
    BY <1>1, <2>1 DEF Disk
  <2>5. /\ client' = [client EXCEPT ![c] = n] /\ n.pc = next /\ n.snap = m /\ n.obs = o
        /\ n.etag = tag /\ n.range = client[c].range
    <3>1. client' = [client EXCEPT ![c] = n]
      BY <2>0, <2>4
    <3>2. n.pc = next /\ n.snap = m /\ n.range = client[c].range
      BY <1>1 DEF Client
    <3>3. n.obs = client[c].obs /\ n.etag = client[c].etag
      BY <1>1 DEF Client
    <3> QED BY <3>1, <3>2, <3>3 DEF o, tag
  <2> HIDE DEF n
  <2>6. Alone(c) /\ client'[c] = n
    BY <2>5 DEF StoreInv, StoreTypes, Alone
  <2>7. FlightKept(c)
    BY <2>5, <2>6 DEF FlightKept, FlightPcs, Fetching
  <2>8. \A x \in Origins : m.origins[x] = IF x = o THEN tag ELSE man.origins[x]
    BY <2>1, <2>3
  <2>9. Unexplained => Extends(man, m) /\ \A x \in Origins : m.origins[x] # 2
    BY <2>2, <2>3, <2>8 DEF Extends, Unbound
  <2>10. \A d : Undisturbed(client[d], man, m)
    BY <2>3 DEF Undisturbed
  <2>11. Unexplained => CalmClient(n, m)
    <3>1. Known(m, m) /\ m.origins[o] = tag
      BY <2>1, <2>8 DEF Known
    <3> QED BY <2>2, <2>5, <3>1 DEF CalmClient, Fetching
  <2> QED BY <1>1, <2>4, <2>6, <2>7, <2>9, <2>10, <2>11, CalmGrows
<1> QED BY <1>2, <1>3 DEF PublishOrigin, IdentityError

\* What was covered all over stays so while bytes are added.
LEMMA CoverageGrows ==
    ASSUME StoreInv, disk.saved, NEW n \in Seq(Extent), Ordered(n),
           Durable(man.extents) \subseteq Durable(n), RangeIsCovered(man.extents, Whole)
    PROVE  RangeIsCovered(n, Whole)
<1>1. man.extents \in Seq(Extent) /\ Ordered(man.extents)
  <2>1. disk \in Disk /\ Backed(man, disk.bytes)
    BY DEF StoreInv, GoodDisk, man
  <2> QED BY <2>1, DiskFields DEF man, Backed
<1>2. Whole \in Nat \X Nat
  BY SizesAreNumbers DEF Whole
<1>3. Whole[1] < Whole[2] /\ Bytes(Whole) \subseteq Durable(man.extents)
  BY <1>1, <1>2, CoverageIsExact
<1>4. Bytes(Whole) \subseteq Durable(n)
  BY <1>3
<1> QED BY <1>2, <1>3, <1>4, CoverageIsExact

\* Compaction waits until nobody fetches.
LEMMA CalmCompacts ==
    ASSUME StoreInv, SameInv, CalmInv, NEW c \in Clients, ~spurious', Rests(c), UNCHANGED World,
           Admitted = {}, CanCompact, disk' = Compacted
    PROVE  CalmInv'
<1> DEFINE m == Compacted.man
<1>1. disk.saved /\ disk \in Disk
  BY DEF CanCompact, Load, StoreInv, GoodDisk
<1>2. /\ GoodDisk(Compacted) /\ Compacted.saved = disk.saved /\ Compacted.meta = disk.meta
      /\ Durable(m.extents) = Durable(man.extents) /\ m.total = man.total
      /\ m.origins = man.origins /\ Compacted.final = disk.final
      /\ Compacted.partial = disk.partial
  BY CompactedIsSafe DEF Safe
<1>3. m.extents \in Seq(Extent) /\ Ordered(m.extents)
  BY <1>1, <1>2, DiskFields DEF GoodDisk, Backed
<1>4. RangeIsCovered(man.extents, Whole) => RangeIsCovered(m.extents, Whole)
  BY <1>1, <1>2, <1>3, CoverageGrows
<1>5. Extends(man, m)
  BY <1>2, <1>4 DEF Extends
<1>6. \A d \in Clients : client[d].pc \notin Fetching
  BY DEF Admitted, Fetching, At
<1>7. \A d \in Clients : Undisturbed(client[d], man, m)
  BY <1>6 DEF Undisturbed
<1>8. Unexplained => \A o \in Origins : m.origins[o] # 2
  <2>1. Unexplained => \A o \in Origins : man.origins[o] \in {0, 1}
    BY CalmFacts
  <2> QED BY <1>2, <2>1
<1>9. Alone(c) /\ FlightKept(c) /\ CalmClient(client'[c], m)
  BY RestIsCalm
<1>10. disk'.man = m
  OBVIOUS
<1> HIDE DEF m
<1> QED BY <1>2, <1>5, <1>7, <1>8, <1>9, <1>10, CalmGrows

\* What a commit leaves alone: nobody else fetches its range, and while others
\* fetch theirs the extents they know are not merged.
LEMMA CommitDisturbsNobody ==
    ASSUME StoreInv, SameInv, CalmInv, NEW c \in Clients, At(c, "commit"), Load = "ok",
           NEW M, M = CommittedManifest(c),
           NEW d \in Clients, d # c
    PROVE  Undisturbed(client[d], man, M)
<1> SUFFICES ASSUME client[d].pc \in Fetching
             PROVE  /\ ToSet(man.extents) \subseteq ToSet(M.extents)
                    /\ client[d].snap.prefix = << >> => M.prefix = man.prefix
  BY DEF Undisturbed
<1>1. client[c].pc = "commit" /\ client[c].pc \in FlightPcs /\ client[d].pc \in FlightPcs
  BY DEF At, FlightPcs, Fetching
<1>2. client[d].range # client[c].range
  BY <1>1 DEF CalmInv, OneFlight
<1>3. d \in Flights /\ ~MayCompact(c)
  BY <1>1, <1>2, FlightsArePcs DEF MayCompact, Here
<1>4. ToSet(man.extents) \subseteq ToSet(M.extents)
  <2> DEFINE W == WithGapBytes(c)
             w == WithGaps(c)
             C == CommittedManifest(c).extents
  <2>1. C = w \/ MayCompact(c)
    BY CommittedExtents
  <2>2. \A e \in ToSet(man.extents) : e \in ToSet(w)
    BY FilledFacts
  <2>3. C = M.extents
    OBVIOUS
  <2> HIDE DEF W, w, C
  <2> QED BY <1>3, <2>1, <2>2, <2>3
<1>5. ASSUME client[d].snap.prefix = << >>, M.prefix # man.prefix PROVE FALSE
  <2>1. client[d].range = StartupRange
    BY <1>5, FetchFields
  <2>2. man.prefix = << >>
    BY <1>5, CommittedFields
  <2>3. client[c].range = StartupRange
    BY <2>2, CommitTypes DEF Here
  <2> QED BY <1>2, <2>1, <2>3
<1> QED BY <1>4, <1>5

\* An extent is committed, or was there already.
LEMMA CalmCommit ==
    ASSUME StoreInv, SameInv, CalmInv, NEW c \in Clients, ~spurious', Commit(c)
    PROVE  CalmInv'
<1>1. UNCHANGED World /\ At(c, "commit") /\ MayCommit(c) /\ Fits(c) /\ Load = "ok"
  BY DEF Commit, MayCommit
<1>2. Rests(c)
  <2>1. client' = [client EXCEPT ![c] = [Forget(c) EXCEPT !.pc = "maintain"]]
    BY DEF Commit
  <2>2. "maintain" \notin Fetching /\ "maintain" \in Resting
    BY DEF Fetching, Resting
  <2> QED BY <2>1, <2>2, ForgetDeparts
<1>3. CASE disk' = disk
  BY <1>1, <1>2, <1>3, CalmRests
<1>4. CASE disk' = CommitStages(c)[2]
  <2> DEFINE M == CommittedManifest(c)
             C == M.extents
             W == WithGapBytes(c)
             o == Here(c).obs
  <2>1. /\ disk'.man = M /\ disk'.final = disk.final /\ disk'.meta = disk.meta
        /\ disk'.partial = disk.partial /\ disk'.saved = disk.saved
    <3>1. /\ disk'.man = M /\ disk'.final = disk.final /\ disk'.meta = disk.meta
          /\ disk'.partial = disk.partial /\ disk'.saved /\ GoodDisk(disk')
      BY <1>1, <1>4, CommitIsSafe DEF Safe
    <3>2. disk' \in Disk /\ disk \in Disk /\ disk.saved
      BY <1>1, <3>1, CommitTypes DEF GoodDisk
    <3>3. disk'.saved \in BOOLEAN /\ disk.saved \in BOOLEAN
      BY <3>2, DiskFields
    <3> QED BY <3>1, <3>2, <3>3
  <2>2. C \in Seq(Extent) /\ Ordered(C) /\ Durable(man.extents) \subseteq Durable(C)
    BY <1>1, CommittedExtents
  <2>3. RangeIsCovered(man.extents, Whole) => RangeIsCovered(C, Whole)
    BY <1>1, <2>2, CommitTypes, CoverageGrows
  <2>4. /\ M.total = man.total
        /\ M.origins = [man.origins EXCEPT ![o] = IF Here(c).range[1] = 0 THEN Here(c).etag ELSE @]
    BY <1>1, CommittedFields
  <2>5. \A d \in Clients : d # c => Undisturbed(client[d], man, M)
    BY <1>1, CommitDisturbsNobody
  <2>6. Alone(c) /\ FlightKept(c) /\ CalmClient(client'[c], M)
    BY <1>2, RestIsCalm
  <2>7. o \in Origins /\ man.origins \in [Origins -> 0..2]
    BY <1>1, CommitTypes, DiskFields DEF man
  <2>8. ASSUME Unexplained
        PROVE  /\ \A x \in Origins : man.origins[x] # Unbound => M.origins[x] = man.origins[x]
               /\ \A x \in Origins : M.origins[x] # 2
    <3>1. Here(c).etag = 1
      <4>1. CalmClient(client[c], man)
        BY <2>8, CalmFacts
      <4> QED BY <1>1, <4>1 DEF CalmClient, At, Here
    <3>2. \A x \in Origins : man.origins[x] \in {0, 1}
      BY <2>8, CalmFacts
    <3> HIDE DEF M, o
    <3> DEFINE tag == IF Here(c).range[1] = 0 THEN Here(c).etag ELSE man.origins[o]
    <3>3. M.origins = [man.origins EXCEPT ![o] = tag]
      BY <2>4
    <3>4. tag = 1 \/ tag = man.origins[o]
      BY <3>1
    <3> HIDE DEF tag
    <3>5. \A x \in Origins : M.origins[x] = IF x = o THEN tag ELSE man.origins[x]
      BY <2>7, <3>3
    <3>6. ASSUME NEW x \in Origins
          PROVE  (man.origins[x] # Unbound => M.origins[x] = man.origins[x]) /\ M.origins[x] # 2
      <4>1. CASE x = o
        BY <2>7, <3>2, <3>4, <3>5, <4>1 DEF Unbound
      <4>2. CASE x # o
        BY <3>2, <3>5, <4>2
      <4> QED BY <4>1, <4>2
    <3> QED BY <3>6
  <2> HIDE DEF M
  <2>9. Unexplained => Extends(man, M)
    BY <2>3, <2>4, <2>8 DEF Extends
  <2> QED BY <1>1, <2>1, <2>5, <2>6, <2>8, <2>9, CalmGrows
<1>5. disk' = disk \/ disk' = CommitStages(c)[2]
  <2>1. Len(CommitStages(c)) = 2
    BY DEF CommitStages
  <2> QED BY <2>1 DEF Commit, Last
<1> QED BY <1>3, <1>4, <1>5

\* A moved validator makes a client fetch again, in its flight.
LEMMA CalmStale ==
    ASSUME StoreInv, SameInv, CalmInv, NEW c \in Clients, ~spurious', CommitStale(c)
    PROVE  CalmInv'
<1> DEFINE x == Forget(c)
           n == [x EXCEPT !.pc = "try", !.left = Origins, !.retried = TRUE]
<1>1. /\ client' = [client EXCEPT ![c] = n] /\ disk' = disk /\ UNCHANGED World
      /\ client[c].pc = "commit"
  BY DEF CommitStale, At
<1>2. client[c] \in Client /\ x \in Client
  BY ClientFields, ForgottenIsClient
<1>3. x.range = client[c].range
  BY <1>2 DEF Forget, Here, Client
<1> HIDE DEF x
<1>4. n.pc = "try" /\ n.range = x.range
  BY <1>2 DEF Client
<1> HIDE DEF n
<1>5. Alone(c) /\ client'[c] = n
  BY <1>1 DEF StoreInv, StoreTypes, Alone
<1>6. FlightKept(c)
  BY <1>1, <1>3, <1>4, <1>5 DEF FlightKept, FlightPcs, Fetching
<1>7. CalmClient(client'[c], man)
  BY <1>4, <1>5 DEF CalmClient, Fetching
<1> QED BY <1>1, <1>5, <1>6, <1>7, CalmGoes

\* A fill goes on to finalize what is covered all over.
LEMMA CalmFinish ==
    ASSUME StoreInv, SameInv, CalmInv, NEW c \in Clients, ~spurious', Finish(c)
    PROVE  CalmInv'
<1>1. disk' = disk /\ UNCHANGED World
  BY DEF Finish
<1>2. CASE Done(c)
  BY <1>1, <1>2, DoneDeparts, CalmRests
<1>3. CASE Go(c, "finalize") /\ RangeIsCovered(man.extents, Whole)
  <2> DEFINE n == [client[c] EXCEPT !.pc = "finalize"]
  <2>1. client' = [client EXCEPT ![c] = n]
    BY <1>3 DEF Go
  <2>2. n.pc = "finalize"
    BY MovedFields
  <2> HIDE DEF n
  <2>3. Alone(c) /\ client'[c] = n
    BY <2>1 DEF StoreInv, StoreTypes, Alone
  <2>4. FlightKept(c) /\ CalmClient(client'[c], man)
    BY <1>3, <2>2, <2>3 DEF FlightKept, FlightPcs, CalmClient, Fetching
  <2> QED BY <1>1, <2>3, <2>4, CalmGoes
<1> QED BY <1>2, <1>3 DEF Finish, IdentityError, Fails

\* A full GET starts from a blank checkpoint.
LEMMA CalmFullGet ==
    ASSUME StoreInv, SameInv, CalmInv, NEW c \in Clients, ~spurious', FullGet(c)
    PROVE  CalmInv'
<1>1. disk' = disk /\ UNCHANGED World /\ client[c].pc = "fullget" /\ client[c] \in Client
  BY ClientFields DEF FullGet, At
<1>2. CASE Done(c)
  BY <1>1, <1>2, DoneDeparts, CalmRests
<1>3. CASE man.extents = << >> /\ client' = [client EXCEPT ![c].pc = "publish", ![c].snap = man]
  <2> DEFINE n == [client[c] EXCEPT !.pc = "publish", !.snap = man]
  <2>1. client' = [client EXCEPT ![c] = n] /\ n.pc = "publish" /\ n.snap = man
    BY <1>1, <1>3 DEF Client
  <2> HIDE DEF n
  <2>2. Alone(c) /\ client'[c] = n
    BY <2>1 DEF StoreInv, StoreTypes, Alone
  <2>3. FlightKept(c)
    BY <2>1, <2>2 DEF FlightKept, FlightPcs, Fetching
  <2>4. Unexplained => Blank(man)
    <3>1. Unexplained => disk.saved
      BY <1>1, CalmFacts
    <3> QED BY <1>3, <3>1, EmptyIsBlank
  <2>5. Unexplained => CalmClient(client'[c], man)
    BY <2>1, <2>2, <2>4 DEF CalmClient, Fetching
  <2> QED BY <1>1, <2>2, <2>3, <2>5, CalmGoes
<1> QED BY <1>2, <1>3 DEF FullGet, Fails

\* A completed file explains whatever follows.
LEMMA CalmCompletes ==
    ASSUME StoreInv, SameInv, CalmInv, NEW c \in Clients, ~spurious',
           Finalize(c) \/ FullGetPublishes(c)
    PROVE  CalmInv'
<1>1. UNCHANGED World /\ Done(c) /\ disk \in Disk
  BY ClientFields DEF Finalize, FullGetPublishes, IdentityError, Fails
<1>2. CASE disk' = disk
  BY <1>1, <1>2, DoneDeparts, CalmRests
<1>3. ASSUME disk'.final # "none" PROVE CalmInv'
  <2>1. ~Unexplained'
    BY <1>3 DEF Unexplained
  <2>2. Alone(c) /\ FlightKept(c)
    BY <1>1, DoneDeparts, RestIsCalm
  <2>3. OneFlight'
    BY <2>2, FlightStays DEF CalmInv
  <2> QED BY <2>1, <2>3 DEF CalmInv
<1>4. CASE disk' = Last(FinalizeStages)
  <2>1. Len(FinalizeStages) = 3
    BY DEF FinalizeStages
  <2> DEFINE renamed == [disk EXCEPT !.partial = FALSE, !.final = "data"]
             described == [renamed EXCEPT !.meta = TRUE]
  <2>2. disk' = [described EXCEPT !.saved = FALSE]
    BY <1>4, <2>1 DEF FinalizeStages, Last
  <2>3. disk'.final = "data"
    BY <1>1, <2>2 DEF Disk
  <2> QED BY <1>3, <2>3
<1>5. CASE disk' = Last(FullGetStages)
  <2>1. Len(FullGetStages) = 4
    BY DEF FullGetStages
  <2> DEFINE renamed == [disk EXCEPT !.final = "full"]
             described == [renamed EXCEPT !.meta = TRUE]
             dropped == [described EXCEPT !.partial = FALSE]
  <2>2. disk' = [dropped EXCEPT !.saved = FALSE]
    BY <1>5, <2>1 DEF FullGetStages, Last
  <2>3. disk'.final = "full"
    BY <1>1, <2>2 DEF Disk
  <2> QED BY <1>3, <2>3
<1> QED BY <1>2, <1>4, <1>5 DEF Finalize, FullGetPublishes

\* The steps of publication, maintenance and completion.
LEMMA CalmAfter ==
    ASSUME StoreInv, SameInv, CalmInv, NEW c \in Clients, ~spurious',
           \/ Commit(c) \/ CommitFull(c) \/ CommitStale(c) \/ CommitRefused(c)
           \/ Squeeze(c) \/ Maintain(c) \/ Finish(c) \/ Finalize(c)
           \/ FullGet(c) \/ FullGetPublishes(c) \/ FullGetFails(c) \/ Preempted(c)
    PROVE  CalmInv'
<1>1. CASE CommitFull(c) \/ CommitRefused(c) \/ FullGetFails(c) \/ Preempted(c)
  <2>1. disk' = disk /\ UNCHANGED World
    BY <1>1 DEF CommitFull, CommitRefused, FullGetFails, Preempted
  <2>2. Rests(c)
    <3>1. CASE CommitFull(c)
      <4>1. Done(c) \/ client' = [client EXCEPT ![c] = [Forget(c) EXCEPT !.pc = "squeeze"]]
        BY <3>1 DEF CommitFull, Fails
      <4>2. "squeeze" \notin Fetching /\ "squeeze" \in Resting
        BY DEF Fetching, Resting
      <4> QED BY <4>1, <4>2, DoneDeparts, ForgetDeparts
    <3>2. CASE CommitRefused(c) \/ FullGetFails(c)
      BY <3>2, DoneDeparts DEF CommitRefused, FullGetFails, IdentityError, Fails
    <3>3. CASE Preempted(c)
      BY <3>3, DoneDeparts, SpanDeparts DEF Preempted, Fails
    <3> QED BY <1>1, <3>1, <3>2, <3>3
  <2> QED BY <2>1, <2>2, CalmRests
<1>2. CASE Squeeze(c) \/ Maintain(c)
  <2>1. Rests(c)
    <3> DEFINE passes == client[c].passes + 1
    <3>1. client[c] \in Client
      BY ClientFields
    <3>2. CASE Squeeze(c)
      <4> DEFINE n == [client[c] EXCEPT !.pc = "admit", !.passes = passes]
      <4>1. client' = [client EXCEPT ![c] = n]
        BY <3>2 DEF Squeeze
      <4> HIDE DEF passes
      <4>2. n.pc = "admit"
        BY <3>1 DEF Client
      <4> HIDE DEF n
      <4>3. "admit" \notin Fetching /\ "admit" \in Resting
        BY DEF Fetching, Resting
      <4> QED BY <4>1, <4>2, <4>3, Departs
    <3>3. CASE SpanEnds(c)
      BY <3>3, SpanDeparts
    <3>4. CASE Maintain(c) /\ client' = [client EXCEPT ![c].passes = @ + 1]
      <4> DEFINE n == [client[c] EXCEPT !.passes = passes]
      <4>1. client' = [client EXCEPT ![c] = n] /\ client[c].pc = "maintain"
        BY <3>4 DEF Maintain, At
      <4> HIDE DEF passes
      <4>2. n.pc = "maintain"
        BY <3>1, <4>1 DEF Client
      <4> HIDE DEF n
      <4>3. "maintain" \notin Fetching /\ "maintain" \in Resting
        BY DEF Fetching, Resting
      <4> QED BY <4>1, <4>2, <4>3, Departs
    <3> QED BY <1>2, <3>2, <3>3, <3>4 DEF Maintain
  <2>2. UNCHANGED World
    BY <1>2 DEF Squeeze, Maintain
  <2>3. disk' = disk \/ (Admitted = {} /\ CanCompact /\ disk' = Compacted)
    BY <1>2 DEF Squeeze, Maintain
  <2> QED BY <2>1, <2>2, <2>3, CalmRests, CalmCompacts
<1> QED BY <1>1, <1>2, CalmCommit, CalmStale, CalmFinish, CalmCompletes, CalmFullGet

\* Every step of a client that nothing interrupts.
LEMMA CalmSteps ==
    ASSUME StoreInv, SameInv, CalmInv, NEW c \in Clients,
           \/ \E r \in Requests : StartRead(c, r)
           \/ StartFill(c) \/ Step(c)
           \/ RequestFails(c) \/ Preempted(c) \/ FullGetFails(c)
    PROVE  CalmInv'
<1>1. ~spurious'
  BY ErrorHasCause
<1>2. CASE \/ \E r \in Requests : StartRead(c, r)
           \/ StartFill(c) \/ NoTotal(c) \/ FirstChunk(c) \/ Plan(c) \/ NextChunk(c)
           \/ Admit(c) \/ Wake(c) \/ Own(c) \/ NoCandidate(c)
  BY <1>1, <1>2, CalmBefore
<1>3. CASE \/ \E o \in Origins : Try(c, o)
           \/ Verify(c) \/ Send(c) \/ Reverify(c) \/ RequestFails(c)
  BY <1>1, <1>3, CalmFetch
<1>4. CASE Ensure(c) \/ PublishTotal(c)
  BY <1>1, <1>4, CalmEnsure, CalmTotal
<1>5. CASE Bind(c)
  BY <1>1, <1>5, CalmBinds DEF Bind, At
<1>6. CASE Rebind(c)
  BY <1>1, <1>6, CalmBinds DEF Rebind, At
<1>7. CASE \/ Commit(c) \/ CommitFull(c) \/ CommitStale(c) \/ CommitRefused(c)
           \/ Squeeze(c) \/ Maintain(c) \/ Finish(c) \/ Finalize(c)
           \/ FullGet(c) \/ FullGetPublishes(c) \/ FullGetFails(c) \/ Preempted(c)
  BY <1>1, <1>7, CalmAfter
<1>8. CASE Step(c)
  BY <1>2, <1>3, <1>4, <1>5, <1>6, <1>7, <1>8 DEF Step
<1> QED BY <1>2, <1>3, <1>7, <1>8

\* Every step keeps errors explained.
LEMMA NextIsCalm ==
    ASSUME StoreInv, SameInv, CalmInv, [Next]_vars
    PROVE  CalmInv'
<1>1. CASE UNCHANGED vars
  BY <1>1 DEF vars, CalmInv, OneFlight, Unexplained, Calm, man
<1>2. ASSUME NEW c \in Clients, Interrupt(c)
      PROVE  CalmInv'
  <2>1. ~spurious'
    BY <1>2 DEF Interrupt, CalmInv
  <2>2. ~Unexplained'
    <3>1. hurts' = hurts + 1 /\ hurts \in Nat
      BY <1>2 DEF Interrupt, StoreInv, StoreTypes
    <3> QED BY <3>1 DEF Unexplained
  <2>3. OneFlight'
    <3>1. CASE Done(c)
      <4>1. Alone(c) /\ FlightKept(c)
        BY <3>1, DoneDeparts, RestIsCalm
      <4> QED BY <4>1, FlightStays DEF CalmInv
    <3>2. CASE client' = [d \in Clients |-> Idle]
      <4>1. \A d \in Clients : client'[d].pc \notin FlightPcs
        BY <3>2, IdleIsClient DEF FlightPcs, Fetching
      <4> QED BY <4>1 DEF OneFlight
    <3> QED BY <1>2, <3>1, <3>2 DEF Interrupt
  <2> QED BY <2>1, <2>2, <2>3 DEF CalmInv
<1>3. ASSUME NEW o \in Origins, Roll(o)
      PROVE  CalmInv'
  <2>1. client' = client /\ spurious' = spurious /\ rolls' = rolls + 1 /\ rolls \in Nat
    BY <1>3 DEF Roll, StoreInv, StoreTypes
  <2>2. ~Unexplained'
    BY <2>1 DEF Unexplained
  <2> QED BY <2>1, <2>2 DEF CalmInv, OneFlight
<1>4. ASSUME NEW c \in Clients,
             \/ \E r \in Requests : StartRead(c, r)
             \/ StartFill(c) \/ Step(c)
             \/ RequestFails(c) \/ Preempted(c) \/ FullGetFails(c)
      PROVE  CalmInv'
  BY <1>4, CalmSteps
<1> QED BY <1>1, <1>2, <1>3, <1>4 DEF Next

\* At first nothing happened, and nobody owns a flight.
LEMMA CalmAtFirst == Init => CalmInv
<1> SUFFICES ASSUME Init PROVE CalmInv
  OBVIOUS
<1>1. \A c \in Clients : client[c].pc = "idle"
  BY IdleIsClient DEF Init
<1>2. OneFlight /\ \A c \in Clients : CalmClient(client[c], man)
  BY <1>1 DEF OneFlight, FlightPcs, Fetching, CalmClient
<1>3. ~spurious /\ \A o \in Origins : etag[o] = 1
  BY DEF Init
<1>4. CalmDisk(disk)
  <2>1. /\ ~disk.meta /\ disk.saved = FALSE /\ disk.partial = FALSE
        /\ disk.man.origins = [o \in Origins |-> Unbound]
    BY DEF Init, EmptyDisk, NewManifest
  <2>2. \A o \in Origins : disk.man.origins[o] = 0
    BY <2>1 DEF Unbound
  <2>3. \A o \in Origins : disk.man.origins[o] # 2
    BY <2>2
  <2>4. disk.saved = disk.partial
    BY <2>1
  <2> QED BY <2>1, <2>3, <2>4 DEF CalmDisk
<1> QED BY <1>2, <1>3, <1>4 DEF CalmInv, Calm

\* The three invariants together.
THEOREM CalmInvHolds == Spec => [](StoreInv /\ SameInv /\ CalmInv)
<1>1. StoreInv /\ SameInv /\ CalmInv /\ [Next]_vars => (StoreInv /\ SameInv /\ CalmInv)'
  BY NextKeeps, NextIsOfOne, NextIsCalm DEF Preserved
<1> QED BY <1>1, StoreInit, SameAtFirst, CalmAtFirst, PTL DEF Spec

\* Two representations are told apart, and one is never taken for two: the
\* durable bytes are of one file, and while no validator moved, no file
\* operation failed and nothing was completed, no client ends in an identity
\* error, whatever others commit, bind and merge meanwhile
\* (commit_range_extent_with_failure, publish_validated_origin,
\* compact_one_complete_range_parent).
THEOREM RepresentationHolds == Spec => []RepresentationIsExact
<1>1. SameInv /\ CalmInv => RepresentationIsExact
  BY DEF SameInv, SameIn, CalmInv, OneRepresentation, NoSpuriousIdentityError,
         RepresentationIsExact, man
<1> QED BY <1>1, CalmInvHolds, PTL
=============================================================================
