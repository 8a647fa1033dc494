--------------------------- MODULE InductionFacts ---------------------------
(***************************************************************************)
(* Induction over the natural numbers for sets instead of operators, which *)
(* the provers can instantiate: a statement about every n is proved by     *)
(* showing that the set of the n it holds for contains 0 and n + 1 with n. *)
(* With it, what the operators on queues return.                           *)
(***************************************************************************)
EXTENDS Integers, Queues, FiniteSets, FiniteSetTheorems, SequenceTheorems, Functions,
        WellFoundedInduction, TLAPS

Less == {p \in Nat \X Nat : p[1] < p[2]}

\* No sequence of natural numbers descends for ever.
LEMMA LessIsWellFounded == IsWellFoundedOn(Less, Nat)
BY NatLessThanWellFounded DEF Less, OpToRel

\* A set of natural numbers that is not empty has a least element.
LEMMA HasLeast ==
    ASSUME NEW T \in SUBSET Nat, T # {}
    PROVE  \E x \in T : \A y \in T : x <= y
<1>1. PICK x \in T : \A y \in T : <<y, x>> \notin Less
  BY LessIsWellFounded, WFMin
<1>2. ASSUME NEW y \in T PROVE x <= y
  <2>1. <<y, x>> \in Nat \X Nat /\ <<y, x>> \notin Less
    BY <1>1
  <2>2. ~(y < x)
    BY <2>1 DEF Less
  <2> QED BY <2>2
<1> QED BY <1>2

\* Induction.
LEMMA SetInduction ==
    ASSUME NEW T \in SUBSET Nat, 0 \in T, \A n \in T : n + 1 \in T
    PROVE  T = Nat
<1> SUFFICES ASSUME T # Nat PROVE FALSE
  OBVIOUS
<1>1. PICK m \in Nat \ T : \A y \in Nat \ T : m <= y
  BY HasLeast
<1>2. m - 1 \in Nat /\ m - 1 \in T
  BY <1>1
<1> QED BY <1>1, <1>2

\* A set of natural numbers with a bound has a greatest element.
LEMMA HasGreatest ==
    ASSUME NEW T \in SUBSET Nat, T # {}, NEW b \in Nat, \A x \in T : x <= b
    PROVE  \E x \in T : \A y \in T : y <= x
<1> DEFINE Gaps == {b - x : x \in T}
<1>1. Gaps \in SUBSET Nat /\ Gaps # {}
  <2>1. ASSUME NEW x \in T PROVE b - x \in Nat
    BY <2>1
  <2>2. Gaps \subseteq Nat
    BY <2>1
  <2>3. PICK x : x \in T
    OBVIOUS
  <2>4. b - x \in Gaps
    BY <2>3
  <2> QED BY <2>2, <2>4
<1>2. PICK g \in Gaps : \A h \in Gaps : g <= h
  BY <1>1, HasLeast
<1>3. PICK x \in T : g = b - x
  BY <1>2
<1>4. ASSUME NEW y \in T PROVE y <= x
  <2>1. b - y \in Gaps
    OBVIOUS
  <2>2. b - x <= b - y
    BY <1>2, <1>3, <2>1
  <2>3. x \in Nat /\ y \in Nat
    OBVIOUS
  <2> QED BY <2>2, <2>3
<1> QED BY <1>3, <1>4

\* Induction up to n.
LEMMA InductionUpTo ==
    ASSUME NEW n \in Nat, NEW T, 0 \in T, \A m \in 0..(n - 1) : m \in T => m + 1 \in T
    PROVE  \A m \in 0..n : m \in T
<1> DEFINE P == {m \in Nat : m <= n => m \in T}
<1>1. 0 \in P
  OBVIOUS
<1>2. ASSUME NEW m \in P PROVE m + 1 \in P
  <2>1. m \in Nat /\ m + 1 \in Nat /\ (m <= n => m \in T)
    OBVIOUS
  <2>2. ASSUME m + 1 <= n PROVE m + 1 \in T
    <3>1. m \in 0..(n - 1) /\ m \in T
      BY <2>1, <2>2
    <3> QED BY <3>1
  <2> QED BY <2>1, <2>2
<1>3. P = Nat
  <2> HIDE DEF P
  <2>1. P \in SUBSET Nat
    BY DEF P
  <2> QED BY <1>1, <1>2, <2>1, SetInduction
<1>4. ASSUME NEW m \in 0..n PROVE m \in T
  <2>1. m \in Nat /\ m <= n
    OBVIOUS
  <2>2. m \in P
    BY <1>3, <2>1
  <2> QED BY <2>1, <2>2
<1> QED BY <1>4

\* What leads from the value at i - 1 to the value at i.
Successors(n, S) == [(1..n) \X S -> S]

\* f starts with base and goes on by step.
Iterates(f, n, base, step) ==
    f[0] = base /\ \A i \in 1..n : f[i] = step[<<i, f[i - 1]>>]

Iterable(n, S, base, step) == \E f \in [0..n -> S] : Iterates(f, n, base, step)

\* A function is defined by its value at 0 and a step to each next argument.
LEMMA RecursionExists ==
    ASSUME NEW n \in Nat, NEW S, NEW base \in S, NEW step \in Successors(n, S)
    PROVE  Iterable(n, S, base, step)
<1> USE DEF Successors
<1> DEFINE Defines(f, m) == f[0] = base /\ \A i \in 1..m : f[i] = step[<<i, f[i - 1]>>]
           T == {m \in 0..n : \E f \in [0..m -> S] : Defines(f, m)}
<1>1. 0 \in T
  <2>1. [i \in 0..0 |-> base] \in [0..0 -> S] /\ Defines([i \in 0..0 |-> base], 0)
    OBVIOUS
  <2>2. 0 \in 0..n
    OBVIOUS
  <2> HIDE DEF Defines
  <2>3. \E f \in [0..0 -> S] : Defines(f, 0)
    BY <2>1
  <2> QED BY <2>2, <2>3
<1>2. ASSUME NEW m \in 0..(n - 1), m \in T PROVE m + 1 \in T
  <2>1. PICK f \in [0..m -> S] : Defines(f, m)
    BY <1>2
  <2> DEFINE g == [i \in 0..(m + 1) |-> IF i <= m THEN f[i] ELSE step[<<m + 1, f[m]>>]]
  <2>2. m \in Nat /\ m + 1 \in 1..n /\ f[m] \in S /\ step[<<m + 1, f[m]>>] \in S
    <3>1. m \in Nat /\ m + 1 \in 1..n /\ f[m] \in S
      OBVIOUS
    <3> QED BY <3>1
  <2>3. g \in [0..(m + 1) -> S]
    <3>1. ASSUME NEW i \in 0..(m + 1) PROVE (IF i <= m THEN f[i] ELSE step[<<m + 1, f[m]>>]) \in S
      <4>1. CASE i <= m
        <5>1. i \in 0..m
          BY <4>1, <2>2
        <5> QED BY <4>1, <5>1
      <4> QED BY <4>1, <2>2
    <3> QED BY <3>1
  <2>4. g[0] = base
    BY <2>1, <2>2
  <2>5. ASSUME NEW i \in 1..(m + 1) PROVE g[i] = step[<<i, g[i - 1]>>]
    <3>1. i \in 0..(m + 1) /\ i - 1 \in 0..(m + 1) /\ i - 1 <= m
      BY <2>2
    <3>2. g[i - 1] = f[i - 1]
      BY <3>1
    <3>3. CASE i <= m
      <4>1. i \in 1..m /\ g[i] = f[i]
        BY <3>1, <3>3, <2>2
      <4> QED BY <2>1, <3>2, <4>1
    <3>4. CASE i = m + 1
      <4>1. g[i] = step[<<m + 1, f[m]>>] /\ i - 1 = m
        BY <3>1, <3>4, <2>2
      <4> QED BY <3>2, <3>4, <4>1
    <3> QED BY <3>1, <3>3, <3>4, <2>2
  <2> HIDE DEF g
  <2>6. Defines(g, m + 1)
    BY <2>4, <2>5
  <2>7. m + 1 \in 0..n
    OBVIOUS
  <2> QED BY <2>3, <2>6, <2>7
<1>3. n \in T
  <2> HIDE DEF T
  <2>1. \A m \in 0..n : m \in T
    BY <1>1, <1>2, InductionUpTo
  <2> QED BY <2>1
<1> QED BY <1>3 DEF Iterable, Iterates
-----------------------------------------------------------------------------
(* Queues.                                                                  *)

\* The queue holds the members of S, each of them once.
Lists(q, S) ==
    /\ q \in Seq(S)
    /\ \A i, j \in 1..Len(q) : q[i] = q[j] => i = j
    /\ \A t : t \in S <=> \E i \in 1..Len(q) : q[i] = t

\* A function on the first numbers is a sequence.
LEMMA RowIsSeq ==
    ASSUME NEW S, NEW n \in Nat, NEW f \in [1..n -> S]
    PROVE  f \in Seq(S) /\ Len(f) = n /\ DOMAIN f = 1..n
<1>1. f \in Seq(S)
  BY SeqDef
<1>2. DOMAIN f = 1..n /\ DOMAIN f = 1..Len(f) /\ Len(f) \in Nat
  BY <1>1, LenProperties
<1>3. Len(f) = n
  BY <1>2
<1> QED BY <1>1, <1>2, <1>3

\* A sequence of members of S is one of members of a larger set.
LEMMA SeqGrows ==
    ASSUME NEW S, NEW T, S \subseteq T, NEW q \in Seq(S)
    PROVE  q \in Seq(T)
<1> DEFINE n == Len(q)
<1>1. n \in Nat /\ q \in [1..n -> S]
  BY LenProperties
<1> HIDE DEF n
<1>2. q \in [1..n -> T]
  BY <1>1
<1> QED BY <1>1, <1>2

\* A new entry at the end.
LEMMA AppendLists ==
    ASSUME NEW q, NEW S, Lists(q, S), NEW t, t \notin S
    PROVE  Lists(Append(q, t), S \cup {t})
<1> DEFINE r == Append(q, t)
           T == S \cup {t}
<1>1. /\ q \in Seq(T) /\ Len(q) \in Nat
      /\ r \in Seq(T) /\ Len(r) = Len(q) + 1
      /\ \A i \in 1..Len(q) : r[i] = q[i]
      /\ r[Len(q) + 1] = t
  <2>1. q \in Seq(S) /\ S \subseteq T /\ t \in T
    BY DEF Lists
  <2> HIDE DEF T
  <2>2. q \in Seq(T)
    BY <2>1, SeqGrows
  <2> QED BY <2>1, <2>2, AppendProperties
<1>2. \A i \in 1..Len(q) : q[i] \in S
  BY DEF Lists
<1> HIDE DEF r
<1>3. \A i \in 1..Len(r) : i \in 1..Len(q) \/ i = Len(q) + 1
  BY <1>1
<1>4. ASSUME NEW i \in 1..Len(r), NEW j \in 1..Len(r), r[i] = r[j] PROVE i = j
  BY <1>1, <1>2, <1>3, <1>4 DEF Lists
<1>5. ASSUME NEW u PROVE u \in S \cup {t} <=> \E i \in 1..Len(r) : r[i] = u
  <2>1. ASSUME u \in S PROVE \E i \in 1..Len(r) : r[i] = u
    <3>1. PICK i \in 1..Len(q) : q[i] = u
      BY <2>1 DEF Lists
    <3>2. i \in 1..Len(r)
      BY <1>1
    <3> QED BY <1>1, <3>1, <3>2
  <2>2. Len(q) + 1 \in 1..Len(r)
    BY <1>1
  <2>3. ASSUME NEW i \in 1..Len(r), r[i] = u PROVE u \in S \cup {t}
    BY <1>1, <1>2, <1>3, <2>3
  <2> QED BY <1>1, <2>1, <2>2, <2>3
<1> QED BY <1>1, <1>4, <1>5 DEF Lists, r

\* Two queues without a common entry, one behind the other.
LEMMA ConcatLists ==
    ASSUME NEW p, NEW q, NEW R, NEW S, Lists(p, R), Lists(q, S), R \cap S = {}
    PROVE  Lists(p \o q, R \cup S)
<1> DEFINE r == p \o q
           m == Len(p)
           n == Len(q)
           T == R \cup S
<1>1. /\ p \in Seq(T) /\ q \in Seq(T) /\ m \in Nat /\ n \in Nat
      /\ r \in Seq(T) /\ Len(r) = m + n
      /\ \A i \in 1..(m + n) : r[i] = IF i <= m THEN p[i] ELSE q[i - m]
  <2>1. p \in Seq(R) /\ q \in Seq(S) /\ R \subseteq T /\ S \subseteq T
    BY DEF Lists
  <2> HIDE DEF T
  <2>2. p \in Seq(T) /\ q \in Seq(T)
    BY <2>1, SeqGrows
  <2> QED BY <2>2, ConcatProperties
<1> HIDE DEF r
<1>2. ASSUME NEW i \in 1..Len(r)
      PROVE  \/ i \in 1..m /\ r[i] = p[i] /\ r[i] \in R
             \/ i - m \in 1..n /\ r[i] = q[i - m] /\ r[i] \in S
  <2>1. CASE i <= m
    <3>1. i \in 1..m /\ r[i] = p[i]
      BY <1>1, <2>1
    <3> QED BY <3>1 DEF Lists
  <2>2. CASE ~(i <= m)
    <3>1. i - m \in 1..n /\ r[i] = q[i - m]
      BY <1>1, <2>2
    <3> QED BY <3>1 DEF Lists
  <2> QED BY <2>1, <2>2
<1>3. ASSUME NEW i \in 1..Len(r), NEW j \in 1..Len(r), r[i] = r[j] PROVE i = j
  <2>1. \/ i \in 1..m /\ j \in 1..m /\ p[i] = p[j]
        \/ i - m \in 1..n /\ j - m \in 1..n /\ q[i - m] = q[j - m]
    BY <1>2, <1>3
  <2>2. i = j \/ i - m = j - m
    BY <2>1 DEF Lists
  <2> QED BY <1>1, <2>2
<1>4. ASSUME NEW u PROVE u \in R \cup S <=> \E i \in 1..Len(r) : r[i] = u
  <2>1. ASSUME u \in R PROVE \E i \in 1..Len(r) : r[i] = u
    <3>1. PICK i \in 1..m : p[i] = u
      BY <2>1 DEF Lists
    <3>2. i \in 1..Len(r) /\ r[i] = p[i]
      BY <1>1
    <3> QED BY <3>1, <3>2
  <2>2. ASSUME u \in S PROVE \E i \in 1..Len(r) : r[i] = u
    <3>1. PICK i \in 1..n : q[i] = u
      BY <2>2 DEF Lists
    <3>2. m + i \in 1..Len(r) /\ ~(m + i <= m) /\ (m + i) - m = i
      BY <1>1
    <3>3. r[m + i] = q[i]
      BY <1>1, <3>2
    <3> QED BY <3>1, <3>2, <3>3
  <2> QED BY <1>2, <2>1, <2>2
<1> QED BY <1>1, <1>3, <1>4 DEF Lists, r

\* A part of a queue.
LEMMA PartLists ==
    ASSUME NEW S, NEW q \in Seq(S), \A i, j \in 1..Len(q) : q[i] = q[j] => i = j,
           NEW a \in 1..(Len(q) + 1), NEW b \in 0..Len(q)
    PROVE  Lists(SubSeq(q, a, b), {q[i] : i \in a..b})
<1> DEFINE r == SubSeq(q, a, b)
<1>1. /\ a \in Int /\ b \in Int /\ Len(q) \in Nat /\ \A i \in a..b : i \in 1..Len(q)
      /\ \A i \in 1..Len(q) : q[i] \in S
  OBVIOUS
<1>2. /\ r \in Seq(S)
      /\ Len(r) = IF a <= b THEN b - a + 1 ELSE 0
      /\ \A i \in 1..(b - a + 1) : r[i] = q[a + i - 1]
  BY <1>1, SubSeqProperties
<1> HIDE DEF r
<1>3. ASSUME NEW i \in 1..Len(r)
      PROVE  a + i - 1 \in a..b /\ a + i - 1 \in 1..Len(q) /\ r[i] = q[a + i - 1]
  <2>1. i \in 1..(b - a + 1) /\ a + i - 1 \in a..b
    BY <1>1, <1>2
  <2> QED BY <1>1, <1>2, <2>1
<1>4. ASSUME NEW i \in 1..Len(r), NEW j \in 1..Len(r), r[i] = r[j] PROVE i = j
  <2>1. a + i - 1 = a + j - 1
    BY <1>3, <1>4
  <2> QED BY <1>1, <2>1
<1>5. ASSUME NEW k \in a..b PROVE \E i \in 1..Len(r) : r[i] = q[k]
  <2>1. k - a + 1 \in 1..Len(r) /\ k - a + 1 \in 1..(b - a + 1) /\ a + (k - a + 1) - 1 = k
    BY <1>1, <1>2
  <2> QED BY <1>2, <2>1
<1>6. ASSUME NEW u PROVE u \in {q[i] : i \in a..b} <=> \E i \in 1..Len(r) : r[i] = u
  <2>1. ASSUME u \in {q[i] : i \in a..b} PROVE \E i \in 1..Len(r) : r[i] = u
    <3>1. PICK k \in a..b : q[k] = u
      BY <2>1
    <3> QED BY <1>5, <3>1
  <2>2. ASSUME NEW i \in 1..Len(r), r[i] = u PROVE u \in {q[k] : k \in a..b}
    BY <1>3, <2>2
  <2> QED BY <2>1, <2>2
<1>7. r \in Seq({q[i] : i \in a..b})
  <2> DEFINE T == {q[i] : i \in a..b}
             n == Len(r)
  <2>1. n \in Nat /\ r \in [1..n -> S]
    BY <1>2
  <2>2. \A i \in 1..n : r[i] \in T
    BY <1>6
  <2> HIDE DEF T, n
  <2>3. r \in [1..n -> T]
    BY <2>1, <2>2
  <2> QED BY <2>1, <2>3, SMTT(60) DEF T
<1> DEFINE T == {q[i] : i \in a..b}
<1>8. Lists(r, T)
  <2> HIDE DEF T
  <2> QED BY <1>4, <1>6, <1>7 DEF Lists, T
<1> QED BY <1>8 DEF r

\* Keeping the entries in K keeps their number.
LEMMA KeptLists ==
    ASSUME NEW q, NEW S, Lists(q, S), NEW K
    PROVE  Lists(Kept(q, K), S \cap K)
<1> DEFINE n == Len(q)
           D == Seq(S)
           Next1(r, i) == IF q[i] \in K THEN Append(r, q[i]) ELSE r
           step == [p \in (1..n) \X D |-> Next1(p[2], p[1])]
           Chain(f) == [i \in 0..n |-> IF i = 0 THEN <<>>
                                       ELSE IF q[i] \in K THEN Append(f[i - 1], q[i]) ELSE f[i - 1]]
<1>1. n \in Nat /\ q \in Seq(S) /\ \A i \in 1..n : q[i] \in S
  BY DEF Lists
<1>2. step \in Successors(n, D)
  <2>1. ASSUME NEW r \in D, NEW i \in 1..n PROVE Next1(r, i) \in D
    BY <1>1, AppendProperties
  <2> HIDE DEF Next1, D
  <2> QED BY <2>1 DEF Successors
<1>3. PICK g \in [0..n -> D] : g[0] = <<>> /\ \A i \in 1..n : g[i] = step[<<i, g[i - 1]>>]
  <2> DEFINE none == <<>>
  <2>0. none \in D
    OBVIOUS
  <2> HIDE DEF n, step, D, none
  <2>1. n \in Nat
    BY <1>1
  <2>2. Iterable(n, D, none, step)
    BY <1>2, <2>0, <2>1, RecursionExists
  <2> QED BY <2>2 DEF Iterable, Iterates, none
<1>4. ASSUME NEW i \in 1..n
      PROVE  /\ i - 1 \in 0..n /\ g[i - 1] \in D
             /\ g[i] = IF q[i] \in K THEN Append(g[i - 1], q[i]) ELSE g[i - 1]
  <2> HIDE DEF D
  <2>1. i - 1 \in 0..n /\ g[i - 1] \in D
    BY <1>1
  <2>2. step[<<i, g[i - 1]>>] = Next1(g[i - 1], i)
    BY <2>1
  <2> QED BY <1>3, <2>1, <2>2
<1>5. g = Chain(g)
  <2> HIDE DEF D, step, n
  <2>1. \A i \in 0..n : i # 0 => i \in 1..n
    BY <1>1
  <2>2. \A i \in 0..n : g[i] = Chain(g)[i]
    BY <1>3, <1>4, <2>1
  <2> QED BY <2>2
<1> DEFINE kept == CHOOSE f : f = Chain(f)
<1>6. kept = Chain(kept)
  <2> HIDE DEF Chain
  <2> QED BY <1>5
<1>7. Kept(q, K) = kept[n]
  BY DEF Kept
<1> HIDE DEF kept, step, D
<1>8. \A m \in 0..n : kept[m] = g[m]
  <2> DEFINE T == {m \in 0..n : kept[m] = g[m]}
  <2>1. 0 \in T
    BY <1>1, <1>3, <1>6
  <2>2. ASSUME NEW m \in 0..(n - 1), m \in T PROVE m + 1 \in T
    <3>1. m + 1 \in 1..n /\ m + 1 \in 0..n /\ (m + 1) - 1 = m /\ m + 1 # 0
      BY <1>1
    <3>2. kept[m + 1] = IF q[m + 1] \in K THEN Append(kept[m], q[m + 1]) ELSE kept[m]
      BY <1>6, <3>1
    <3>3. g[m + 1] = IF q[m + 1] \in K THEN Append(g[m], q[m + 1]) ELSE g[m]
      BY <1>4, <3>1
    <3> QED BY <2>2, <3>1, <3>2, <3>3
  <2> HIDE DEF T, n
  <2>3. \A m \in 0..n : m \in T
    BY <1>1, <2>1, <2>2, InductionUpTo
  <2> QED BY <2>3 DEF T
<1> DEFINE Upto(m) == {q[i] : i \in 1..m} \cap K
           L == {m \in 0..n : Lists(g[m], Upto(m))}
<1>9. 0 \in L
  <2>1. Upto(0) = {} /\ g[0] = <<>> /\ 0 \in 0..n
    BY <1>1, <1>3
  <2>2. Lists(<<>>, {})
    BY DEF Lists
  <2> QED BY <2>1, <2>2
<1>10. ASSUME NEW m \in 0..(n - 1), m \in L PROVE m + 1 \in L
  <2>1. m + 1 \in 1..n /\ m + 1 \in 0..n /\ (m + 1) - 1 = m /\ m \in Nat
    BY <1>1
  <2>2. g[m + 1] = IF q[m + 1] \in K THEN Append(g[m], q[m + 1]) ELSE g[m]
    BY <1>4, <2>1
  <2>3. \A i \in 1..(m + 1) : i \in 1..m \/ i = m + 1
    BY <2>1
  <2>4. ASSUME NEW i \in 1..m PROVE i \in 1..(m + 1) /\ i \in 1..n /\ i # m + 1
    BY <1>1, <2>1
  <2>5. m + 1 \in 1..(m + 1)
    BY <2>1
  <2>6. q[m + 1] \notin Upto(m)
    <3>1. ASSUME NEW i \in 1..m PROVE q[i] # q[m + 1]
      BY <2>1, <2>4 DEF Lists
    <3> QED BY <3>1
  <2>7. Upto(m + 1) = IF q[m + 1] \in K THEN Upto(m) \cup {q[m + 1]} ELSE Upto(m)
    BY <2>3, <2>4, <2>5
  <2>8. Lists(g[m], Upto(m))
    BY <1>10
  <2> HIDE DEF Upto
  <2>9. Lists(g[m + 1], Upto(m + 1))
    BY <1>1, <2>1, <2>2, <2>6, <2>7, <2>8, AppendLists
  <2> QED BY <2>1, <2>9
<1>11. n \in L
  <2>1. \A m \in 0..n : m \in L
    <3> HIDE DEF L, n
    <3> QED BY <1>1, <1>9, <1>10, InductionUpTo
  <2> QED BY <1>1, <2>1
<1>12. Upto(n) = S \cap K
  <2>1. \A u : u \in S <=> u \in {q[i] : i \in 1..n}
    BY DEF Lists
  <2> QED BY <2>1
<1>13. Lists(g[n], S \cap K) /\ kept[n] = g[n]
  <2>1. n \in 0..n
    BY <1>1
  <2> QED BY <1>8, <1>11, <1>12, <2>1
<1> QED BY <1>7, <1>13

\* Removing the entries in V.
LEMMA WithoutLists ==
    ASSUME NEW q, NEW S, Lists(q, S), NEW V
    PROVE  Lists(Without(q, V), S \ V)
<1> DEFINE K == {q[i] : i \in DOMAIN q} \ V
<1>1. DOMAIN q = 1..Len(q) /\ \A t : t \in S <=> \E i \in 1..Len(q) : q[i] = t
  BY DEF Lists
<1>2. \A t : t \in S \cap K <=> t \in S \ V
  BY <1>1
<1>3. S \cap K = S \ V
  <2> HIDE DEF K
  <2> QED BY <1>2
<1> HIDE DEF K
<1>4. Lists(Kept(q, K), S \cap K)
  BY KeptLists
<1> QED BY <1>3, <1>4 DEF Without, K

\* A queue is as long as the set it lists is large.
LEMMA ListsAll ==
    ASSUME NEW q, NEW S, Lists(q, S)
    PROVE  {q[i] : i \in DOMAIN q} = S /\ Len(q) = Cardinality(S)
<1> DEFINE n == Len(q)
<1>1. /\ n \in Nat /\ DOMAIN q = 1..n /\ q \in [1..n -> S]
      /\ \A i, j \in 1..n : q[i] = q[j] => i = j
      /\ \A t : t \in S <=> \E i \in 1..n : q[i] = t
  BY DEF Lists
<1> HIDE DEF n
<1>2. q \in Bijection(1..n, S)
  BY <1>1 DEF Bijection, Injection, Surjection, IsInjective
<1>3. IsFiniteSet(1..n) /\ Cardinality(1..n) = n
  BY <1>1, FS_Interval
<1>4. Cardinality(S) = n
  BY <1>2, <1>3, FS_Bijection DEF ExistsBijection
<1>5. {q[i] : i \in DOMAIN q} = S
  BY <1>1
<1> QED BY <1>4, <1>5 DEF n

\* An enumeration of a finite set is a queue.
LEMMA EnumerationLists ==
    ASSUME NEW S, IsFiniteSet(S), NEW order \in [1..Cardinality(S) -> S],
           \A t \in S : \E i \in DOMAIN order : order[i] = t
    PROVE  Lists(order, S)
<1> DEFINE n == Cardinality(S)
<1>1. n \in Nat /\ DOMAIN order = 1..n
  BY FS_CardinalityType
<1>2. IsFiniteSet(1..n) /\ Cardinality(1..n) = n
  BY <1>1, FS_Interval
<1>3. order \in Surjection(1..n, S)
  BY <1>1 DEF Surjection
<1>4. order \in Injection(1..n, S)
  <2>1. Cardinality(1..n) = Cardinality(S)
    BY <1>2
  <2> HIDE DEF n
  <2> QED BY <1>2, <1>3, <2>1, FS_SurjSameCardinalityImpliesInj
<1>5. \A i, j \in 1..n : order[i] = order[j] => i = j
  BY <1>1, <1>4 DEF Injection, IsInjective
<1>6. order \in Seq(S) /\ Len(order) = n
  <2>1. order \in [1..n -> S]
    OBVIOUS
  <2> HIDE DEF n
  <2> QED BY <1>1, <2>1
<1>7. \A t : t \in S <=> \E i \in 1..n : order[i] = t
  BY <1>1
<1> HIDE DEF n
<1> QED BY <1>5, <1>6, <1>7 DEF Lists

-----------------------------------------------------------------------------
(* Finite sets and sums over them.                                          *)

\* Induction over the subsets of a finite set.
LEMMA SubsetInduction ==
    ASSUME NEW U, IsFiniteSet(U), NEW P, {} \in P,
           \A T \in SUBSET U : T # {} /\ (\A x \in T : T \ {x} \in P) => T \in P
    PROVE  \A T \in SUBSET U : T \in P
<1> DEFINE N == {n \in Nat : \A T \in SUBSET U : Cardinality(T) = n => T \in P}
<1>1. \A T \in SUBSET U : IsFiniteSet(T) /\ Cardinality(T) \in Nat /\ (Cardinality(T) = 0 => T = {})
  <2> TAKE T \in SUBSET U
  <2>1. IsFiniteSet(T)
    BY FS_Subset
  <2> QED BY <2>1, FS_CardinalityType, FS_EmptySet
<1>2. 0 \in N
  BY <1>1
<1>3. ASSUME NEW n \in N PROVE n + 1 \in N
  <2> SUFFICES ASSUME NEW T \in SUBSET U, Cardinality(T) = n + 1 PROVE T \in P
    OBVIOUS
  <2>1. T # {}
    <3>1. n \in Nat /\ n + 1 # 0
      OBVIOUS
    <3> HIDE DEF N
    <3> QED BY <3>1, FS_EmptySet
  <2>2. ASSUME NEW x \in T PROVE T \ {x} \in P
    <3>1. Cardinality(T \ {x}) = n /\ T \ {x} \in SUBSET U
      BY <1>1, FS_RemoveElement
    <3> QED BY <3>1
  <2> QED BY <2>1, <2>2
<1>4. N = Nat
  <2> HIDE DEF N
  <2>1. N \in SUBSET Nat
    BY DEF N
  <2> QED BY <1>2, <1>3, <2>1, SetInduction
<1>5. ASSUME NEW T \in SUBSET U PROVE T \in P
  <2>1. Cardinality(T) \in N
    BY <1>1, <1>4
  <2> QED BY <2>1
<1> QED BY <1>5

Some(s) == CHOOSE x \in s : TRUE

\* The recursion that SumFunctionOnSet is defined by.
Adds(f, S, g) == [s \in SUBSET S |-> IF s = {} THEN 0 ELSE f[Some(s)] + g[s \ {Some(s)}]]

\* The recursion has a solution on a finite set.
LEMMA SumExists ==
    ASSUME NEW S, IsFiniteSet(S), NEW f, \A x \in S : f[x] \in Nat
    PROVE  \E g : g = Adds(f, S, g) /\ g \in [SUBSET S -> Nat]
<1> DEFINE Upto(g, n) == \A s \in SUBSET S : Cardinality(s) <= n => g[s] = Adds(f, S, g)[s]
           N == {n \in Nat : \E g \in [SUBSET S -> Nat] : Upto(g, n)}
<1>1. \A s \in SUBSET S : /\ IsFiniteSet(s) /\ Cardinality(s) \in Nat
                          /\ Cardinality(s) = 0 <=> s = {}
                          /\ s # {} => /\ Some(s) \in s /\ f[Some(s)] \in Nat
                                       /\ Cardinality(s \ {Some(s)}) = Cardinality(s) - 1
  <2> TAKE s \in SUBSET S
  <2>1. IsFiniteSet(s)
    BY FS_Subset
  <2>2. s # {} => Some(s) \in s
    BY DEF Some
  <2> QED BY <2>1, <2>2, FS_CardinalityType, FS_EmptySet, FS_RemoveElement
<1>2. 0 \in N
  <2> DEFINE g == [s \in SUBSET S |-> 0]
  <2>1. g \in [SUBSET S -> Nat]
    OBVIOUS
  <2>2. ASSUME NEW s \in SUBSET S, Cardinality(s) <= 0 PROVE g[s] = Adds(f, S, g)[s]
    <3>1. Cardinality(s) \in Nat /\ (Cardinality(s) = 0 => s = {})
      BY <1>1
    <3>2. Cardinality(s) = 0
      BY ONLY <2>2, <3>1
    <3> QED BY <3>1, <3>2 DEF Adds
  <2> HIDE DEF g
  <2> QED BY <2>1, <2>2
<1>3. ASSUME NEW n \in N PROVE n + 1 \in N
  <2>1. PICK g \in [SUBSET S -> Nat] : Upto(g, n)
    OBVIOUS
  <2> DEFINE h == Adds(f, S, g)
  <2>2. h \in [SUBSET S -> Nat]
    <3>1. ASSUME NEW s \in SUBSET S
          PROVE  (IF s = {} THEN 0 ELSE f[Some(s)] + g[s \ {Some(s)}]) \in Nat
      BY <1>1
    <3> QED BY <3>1 DEF Adds
  <2>3. ASSUME NEW s \in SUBSET S, Cardinality(s) <= n + 1 PROVE h[s] = Adds(f, S, h)[s]
    <3>1. CASE s = {}
      BY <3>1 DEF Adds
    <3>2. CASE s # {}
      <4> DEFINE r == s \ {Some(s)}
      <4>1. r \in SUBSET S /\ Cardinality(r) <= n /\ n \in Nat
        BY <1>1, <2>3, <3>2
      <4>2. h[r] = g[r]
        BY <2>1, <4>1
      <4>3. h[s] = f[Some(s)] + g[r] /\ Adds(f, S, h)[s] = f[Some(s)] + h[r]
        BY <3>2 DEF Adds
      <4> QED BY <4>2, <4>3
    <3> QED BY <3>1, <3>2
  <2> HIDE DEF h
  <2> QED BY <2>2, <2>3
<1>4. N = Nat
  <2> HIDE DEF N
  <2>1. N \in SUBSET Nat
    BY DEF N
  <2> QED BY <1>2, <1>3, <2>1, SetInduction
<1>5. PICK g \in [SUBSET S -> Nat] : Upto(g, Cardinality(S))
  <2>1. Cardinality(S) \in N
    BY <1>4, FS_CardinalityType
  <2> QED BY <2>1
<1>6. \A s \in SUBSET S : g[s] = Adds(f, S, g)[s]
  <2>1. ASSUME NEW s \in SUBSET S PROVE Cardinality(s) <= Cardinality(S)
    BY FS_Subset
  <2> QED BY <1>5, <2>1
<1>7. g = Adds(f, S, g)
  BY <1>6 DEF Adds
<1> QED BY <1>7

\* What the definition computes, step by step.
LEMMA SumUnfolds ==
    ASSUME NEW S, IsFiniteSet(S), NEW f, \A x \in S : f[x] \in Nat
    PROVE  \E g \in [SUBSET S -> Nat] :
              /\ g = Adds(f, S, g)
              /\ \A R \in SUBSET S : g[R] = SumFunctionOnSet(f, R)
<1>1. PICK g : g = Adds(f, S, g) /\ g \in [SUBSET S -> Nat]
  BY SumExists
<1>2. ASSUME NEW R \in SUBSET S PROVE g[R] = SumFunctionOnSet(f, R)
  <2> DEFINE k == CHOOSE h : h = Adds(f, R, h)
             P == {T \in SUBSET R : g[T] = k[T]}
  <2>1. IsFiniteSet(R) /\ \A x \in R : f[x] \in Nat
    BY FS_Subset
  <2>2. k = Adds(f, R, k)
    <3>1. \E h : h = Adds(f, R, h)
      BY <2>1, SumExists
    <3> QED BY <3>1
  <2>3. SumFunctionOnSet(f, R) = k[R]
    BY DEF SumFunctionOnSet, FoldFunctionOnSet, MapThenFoldSet, Some, Adds
  <2> HIDE DEF k
  <2>4. ASSUME NEW T \in SUBSET R
        PROVE  /\ g[T] = IF T = {} THEN 0 ELSE f[Some(T)] + g[T \ {Some(T)}]
               /\ k[T] = IF T = {} THEN 0 ELSE f[Some(T)] + k[T \ {Some(T)}]
    <3>1. T \in SUBSET S
      OBVIOUS
    <3>2. g[T] = Adds(f, S, g)[T] /\ k[T] = Adds(f, R, k)[T]
      BY <1>1, <2>2
    <3> QED BY <3>1, <3>2 DEF Adds
  <2>5. {} \in P
    BY <2>4
  <2>6. ASSUME NEW T \in SUBSET R, T # {}, \A x \in T : T \ {x} \in P PROVE T \in P
    <3>1. Some(T) \in T
      BY <2>6 DEF Some
    <3> QED BY <2>4, <2>6, <3>1
  <2>7. R \in P
    <3> HIDE DEF P
    <3>1. \A T \in SUBSET R : T \in P
      BY <2>1, <2>5, <2>6, SubsetInduction
    <3> QED BY <3>1
  <2> QED BY <2>3, <2>7
<1> QED BY <1>1, <1>2

\* A sum is a natural number, and any member may be added first.
LEMMA SumFacts ==
    ASSUME NEW S, IsFiniteSet(S), NEW f, \A x \in S : f[x] \in Nat
    PROVE  /\ \A R \in SUBSET S : SumFunctionOnSet(f, R) \in Nat
           /\ SumFunctionOnSet(f, {}) = 0
           /\ \A R \in SUBSET S : \A x \in R :
                 SumFunctionOnSet(f, R) = f[x] + SumFunctionOnSet(f, R \ {x})
<1>1. PICK g \in [SUBSET S -> Nat] :
          g = Adds(f, S, g) /\ \A R \in SUBSET S : g[R] = SumFunctionOnSet(f, R)
  BY SumUnfolds
<1>2. \A T \in SUBSET S : g[T] = IF T = {} THEN 0 ELSE f[Some(T)] + g[T \ {Some(T)}]
  <2>1. ASSUME NEW T \in SUBSET S PROVE g[T] = Adds(f, S, g)[T]
    BY <1>1
  <2> QED BY <2>1 DEF Adds
<1> DEFINE P == {T \in SUBSET S : \A x \in T : g[T] = f[x] + g[T \ {x}]}
<1>3. {} \in P
  OBVIOUS
<1>4. ASSUME NEW T \in SUBSET S, T # {}, \A x \in T : T \ {x} \in P PROVE T \in P
  <2> DEFINE y == Some(T)
  <2>1. y \in T /\ g[T] = f[y] + g[T \ {y}]
    BY <1>2, <1>4 DEF Some
  <2> HIDE DEF y
  <2>2. ASSUME NEW x \in T PROVE g[T] = f[x] + g[T \ {x}]
    <3>1. CASE x = y
      BY <2>1, <3>1
    <3>2. CASE x # y
      <4> DEFINE both == (T \ {x}) \ {y}
      <4>1. g[T \ {y}] = f[x] + g[(T \ {y}) \ {x}]
        BY <1>4, <2>1, <3>2
      <4>2. g[T \ {x}] = f[y] + g[both]
        BY <1>4, <2>1, <3>2
      <4>3. (T \ {y}) \ {x} = both /\ both \in SUBSET S /\ x \in S /\ y \in S
        BY <2>1
      <4>4. g[both] \in Nat /\ f[x] \in Nat /\ f[y] \in Nat
        BY <4>3
      <4>5. g[T] = f[y] + (f[x] + g[both])
        BY <2>1, <4>1, <4>3
      <4> HIDE DEF both
      <4>6. g[T] = f[x] + (f[y] + g[both])
        BY <4>4, <4>5
      <4> QED BY <4>2, <4>6
    <3> QED BY <3>1, <3>2
  <2> QED BY <2>2
<1>5. \A T \in SUBSET S : T \in P
  <2> HIDE DEF P
  <2> QED BY <1>3, <1>4, SubsetInduction
<1>6. ASSUME NEW R \in SUBSET S, NEW x \in R
      PROVE  SumFunctionOnSet(f, R) = f[x] + SumFunctionOnSet(f, R \ {x})
  <2>1. g[R] = f[x] + g[R \ {x}] /\ R \ {x} \in SUBSET S
    BY <1>5
  <2> QED BY <1>1, <2>1
<1>7. \A R \in SUBSET S : SumFunctionOnSet(f, R) \in Nat
  BY <1>1
<1>8. SumFunctionOnSet(f, {}) = 0
  BY <1>1, <1>2
<1> QED BY <1>6, <1>7, <1>8

\* Sums of functions one of which is nowhere larger.
LEMMA SumMonotone ==
    ASSUME NEW S, IsFiniteSet(S), NEW f, NEW g,
           \A x \in S : f[x] \in Nat /\ g[x] \in Nat /\ f[x] <= g[x]
    PROVE  SumFunctionOnSet(f, S) <= SumFunctionOnSet(g, S)
<1> DEFINE P == {T \in SUBSET S : SumFunctionOnSet(f, T) <= SumFunctionOnSet(g, T)}
<1>1. /\ \A R \in SUBSET S : SumFunctionOnSet(f, R) \in Nat /\ SumFunctionOnSet(g, R) \in Nat
      /\ SumFunctionOnSet(f, {}) = 0 /\ SumFunctionOnSet(g, {}) = 0
      /\ \A R \in SUBSET S : \A x \in R :
            /\ SumFunctionOnSet(f, R) = f[x] + SumFunctionOnSet(f, R \ {x})
            /\ SumFunctionOnSet(g, R) = g[x] + SumFunctionOnSet(g, R \ {x})
  <2>1. (\A x \in S : f[x] \in Nat) /\ (\A x \in S : g[x] \in Nat)
    OBVIOUS
  <2> QED BY <2>1, SumFacts
<1>2. {} \in P
  BY <1>1
<1>3. ASSUME NEW T \in SUBSET S, T # {}, \A x \in T : T \ {x} \in P PROVE T \in P
  <2>1. PICK x : x \in T
    BY <1>3
  <2> DEFINE R == T \ {x}
  <2>2. /\ SumFunctionOnSet(f, R) \in Nat /\ SumFunctionOnSet(g, R) \in Nat
        /\ SumFunctionOnSet(f, R) <= SumFunctionOnSet(g, R)
        /\ SumFunctionOnSet(f, T) = f[x] + SumFunctionOnSet(f, R)
        /\ SumFunctionOnSet(g, T) = g[x] + SumFunctionOnSet(g, R)
        /\ f[x] \in Nat /\ g[x] \in Nat /\ f[x] <= g[x]
    BY <1>1, <1>3, <2>1
  <2> HIDE DEF R
  <2> QED BY <2>2
<1>4. \A T \in SUBSET S : T \in P
  <2> HIDE DEF P
  <2> QED BY <1>2, <1>3, SubsetInduction
<1> QED BY <1>4

\* Sums of functions that agree.
LEMMA SumSame ==
    ASSUME NEW S, IsFiniteSet(S), NEW f, NEW g, \A x \in S : f[x] \in Nat /\ g[x] = f[x]
    PROVE  SumFunctionOnSet(g, S) = SumFunctionOnSet(f, S)
<1>1. SumFunctionOnSet(f, S) \in Nat /\ SumFunctionOnSet(g, S) \in Nat
  <2>1. (\A x \in S : f[x] \in Nat) /\ (\A x \in S : g[x] \in Nat)
    OBVIOUS
  <2> QED BY <2>1, SumFacts
<1>2. SumFunctionOnSet(f, S) <= SumFunctionOnSet(g, S)
  <2>1. \A x \in S : f[x] \in Nat /\ g[x] \in Nat /\ f[x] <= g[x]
    OBVIOUS
  <2> QED BY <2>1, SumMonotone
<1>3. SumFunctionOnSet(g, S) <= SumFunctionOnSet(f, S)
  <2>1. \A x \in S : g[x] \in Nat /\ f[x] \in Nat /\ g[x] <= f[x]
    OBVIOUS
  <2> QED BY <2>1, SumMonotone
<1> QED BY <1>1, <1>2, <1>3

\* The sum of a pointwise sum.
LEMMA SumOfSums ==
    ASSUME NEW S, IsFiniteSet(S), NEW f, NEW g, NEW h,
           \A x \in S : f[x] \in Nat /\ g[x] \in Nat /\ h[x] = f[x] + g[x]
    PROVE  SumFunctionOnSet(h, S) = SumFunctionOnSet(f, S) + SumFunctionOnSet(g, S)
<1> DEFINE P == {T \in SUBSET S : SumFunctionOnSet(h, T) = SumFunctionOnSet(f, T) + SumFunctionOnSet(g, T)}
<1>0. \A x \in S : h[x] \in Nat
  OBVIOUS
<1>1. /\ \A R \in SUBSET S : /\ SumFunctionOnSet(f, R) \in Nat /\ SumFunctionOnSet(g, R) \in Nat
                             /\ SumFunctionOnSet(h, R) \in Nat
      /\ SumFunctionOnSet(f, {}) = 0 /\ SumFunctionOnSet(g, {}) = 0 /\ SumFunctionOnSet(h, {}) = 0
      /\ \A R \in SUBSET S : \A x \in R :
            /\ SumFunctionOnSet(f, R) = f[x] + SumFunctionOnSet(f, R \ {x})
            /\ SumFunctionOnSet(g, R) = g[x] + SumFunctionOnSet(g, R \ {x})
            /\ SumFunctionOnSet(h, R) = h[x] + SumFunctionOnSet(h, R \ {x})
  <2>1. (\A x \in S : f[x] \in Nat) /\ (\A x \in S : g[x] \in Nat)
    OBVIOUS
  <2> HIDE DEF P
  <2>2. /\ \A R \in SUBSET S : SumFunctionOnSet(h, R) \in Nat
        /\ SumFunctionOnSet(h, {}) = 0
        /\ \A R \in SUBSET S : \A x \in R :
              SumFunctionOnSet(h, R) = h[x] + SumFunctionOnSet(h, R \ {x})
    BY <1>0, SumFacts
  <2>3. /\ \A R \in SUBSET S : SumFunctionOnSet(f, R) \in Nat /\ SumFunctionOnSet(g, R) \in Nat
        /\ SumFunctionOnSet(f, {}) = 0 /\ SumFunctionOnSet(g, {}) = 0
        /\ \A R \in SUBSET S : \A x \in R :
              /\ SumFunctionOnSet(f, R) = f[x] + SumFunctionOnSet(f, R \ {x})
              /\ SumFunctionOnSet(g, R) = g[x] + SumFunctionOnSet(g, R \ {x})
    BY <2>1, SumFacts
  <2> QED BY <2>2, <2>3
<1>2. {} \in P
  BY <1>1
<1>3. ASSUME NEW T \in SUBSET S, T # {}, \A x \in T : T \ {x} \in P PROVE T \in P
  <2>1. PICK x : x \in T
    BY <1>3
  <2> DEFINE R == T \ {x}
  <2>2. /\ SumFunctionOnSet(f, R) \in Nat /\ SumFunctionOnSet(g, R) \in Nat
        /\ SumFunctionOnSet(h, R) = SumFunctionOnSet(f, R) + SumFunctionOnSet(g, R)
        /\ SumFunctionOnSet(f, T) = f[x] + SumFunctionOnSet(f, R)
        /\ SumFunctionOnSet(g, T) = g[x] + SumFunctionOnSet(g, R)
        /\ SumFunctionOnSet(h, T) = h[x] + SumFunctionOnSet(h, R)
        /\ f[x] \in Nat /\ g[x] \in Nat /\ h[x] = f[x] + g[x]
    BY <1>1, <1>3, <2>1
  <2> HIDE DEF R
  <2> QED BY <2>2
<1>4. \A T \in SUBSET S : T \in P
  <2> HIDE DEF P
  <2> QED BY <1>2, <1>3, SubsetInduction
<1> QED BY <1>4
=============================================================================
