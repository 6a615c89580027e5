--------------------------- MODULE FoldsAndOrders ---------------------------
(***************************************************************************)
(* What a fold over a sequence preserves, and what InOrder returns, for    *)
(* every step Op and every strict total order Precedes.                    *)
(*                                                                         *)
(* FoldLeft is defined by recursion over the domain of the sequence.  The  *)
(* proofs turn it into the function of its intermediate results (Trace)    *)
(* and go by induction on a set of numbers (SetInduction), which needs no  *)
(* theorem with an operator parameter.                                     *)
(***************************************************************************)
EXTENDS Orders, WellFoundedInduction, FiniteSetTheorems, SequenceTheorems, TLAPS

CONSTANTS Op(_, _), Precedes(_, _)

\* Every set of natural numbers that is not empty has a least element.
LEMMA LeastNumber ==
  ASSUME NEW S, S \subseteq Nat, S # {}
  PROVE  \E n \in S : \A m \in S : n <= m
<1>1. PICK n \in S : \A m \in S : <<m, n>> \notin OpToRel(<, Nat)
  BY NatLessThanWellFounded, WFMin
<1>2. \A m \in S : ~(m < n)
  BY <1>1 DEF OpToRel
<1> QED
  BY <1>2

\* Induction over the numbers, with a set in place of a predicate.
LEMMA SetInduction ==
  ASSUME NEW S, 0 \in S, \A n \in Nat : n \in S => n + 1 \in S
  PROVE  Nat \subseteq S
<1> SUFFICES ASSUME Nat \ S # {} PROVE FALSE
  OBVIOUS
<1>1. PICK n \in Nat \ S : \A m \in Nat \ S : n <= m
  BY LeastNumber
<1>2. n - 1 \in Nat /\ n - 1 \in S
  BY <1>1
<1>3. (n - 1) + 1 \in S
  BY <1>2
<1> QED
  BY <1>1, <1>3

\* The list of results of a fold, first to last, and the first one.
Trace(q, base, n, h) ==
  h = [k \in 0 .. n |-> IF k = 0 THEN base ELSE Op(h[k - 1], q[k])]

Fold(base, q) == FoldLeft(Op, base, q)

IsResults(g, base, q, n) ==
  g = [s \in SUBSET (1 .. n) |->
         IF s = {} THEN base ELSE Op(g[s \ {Max(s)}], q[Max(s)])]

Results(base, q, n) == CHOOSE g : IsResults(g, base, q, n)

\* The last of a set of numbers that holds n + 1 and none above it.
LEMMA MaxOfInterval ==
  ASSUME NEW n \in Nat, NEW s \in SUBSET (1 .. n + 1), n + 1 \in s
  PROVE  Max(s) = n + 1 /\ s \ {n + 1} \in SUBSET (1 .. n)
<1>1. \A x \in s : (\A y \in s : x >= y) => x = n + 1
  OBVIOUS
<1>2. \A y \in s : n + 1 >= y
  OBVIOUS
<1>3. Max(s) \in s /\ \A y \in s : Max(s) >= y
  BY <1>2 DEF Max
<1>4. Max(s) = n + 1
  BY <1>1, <1>3
<1>5. s \ {n + 1} \in SUBSET (1 .. n)
  OBVIOUS
<1> QED
  BY <1>4, <1>5

\* The recursion FoldLeft is defined by has a solution.
LEMMA ResultsExist ==
  ASSUME NEW base, NEW q, NEW n \in Nat
  PROVE  IsResults(Results(base, q, n), base, q, n)
<1> DEFINE Good == {m \in Nat : \E g : IsResults(g, base, q, m)}
<1>1. 0 \in Good
  <2>1. \A s \in SUBSET (1 .. 0) : s = {}
    OBVIOUS
  <2>2. IsResults([s \in SUBSET (1 .. 0) |-> base], base, q, 0)
    BY <2>1 DEF IsResults
  <2> QED
    BY <2>2
<1>2. \A m \in Nat : m \in Good => m + 1 \in Good
  <2> SUFFICES ASSUME NEW m \in Nat, m \in Good
               PROVE  m + 1 \in Good
    OBVIOUS
  <2>0. PICK g : IsResults(g, base, q, m)
    OBVIOUS
  <2> DEFINE h == [s \in SUBSET (1 .. m + 1) |->
                     IF m + 1 \in s THEN Op(g[s \ {m + 1}], q[m + 1]) ELSE g[s]]
  <2>1. \A s \in SUBSET (1 .. m + 1) :
          h[s] = IF s = {} THEN base ELSE Op(h[s \ {Max(s)}], q[Max(s)])
    <3> SUFFICES ASSUME NEW s \in SUBSET (1 .. m + 1)
                 PROVE  h[s] = IF s = {} THEN base ELSE Op(h[s \ {Max(s)}], q[Max(s)])
      OBVIOUS
    <3>1. CASE m + 1 \in s
      <4>1. Max(s) = m + 1 /\ s \ {m + 1} \in SUBSET (1 .. m) 
        BY <3>1, MaxOfInterval
      <4>2. h[s \ {m + 1}] = g[s \ {m + 1}]
        BY <4>1
      <4>3. h[s] = Op(g[s \ {m + 1}], q[m + 1])
        BY <3>1
      <4> QED
        BY <3>1, <4>1, <4>2, <4>3
    <3>2. CASE m + 1 \notin s
      <4>1. s \in SUBSET (1 .. m)
        BY <3>2
      <4>2. h[s] = g[s]
        BY <3>2
      <4>3. g[s] = IF s = {} THEN base ELSE Op(g[s \ {Max(s)}], q[Max(s)])
        BY <2>0, <4>1 DEF IsResults
      <4>4. s # {} => s \ {Max(s)} \in SUBSET (1 .. m + 1) /\ m + 1 \notin s \ {Max(s)}
        BY <3>2
      <4>5. s # {} => h[s \ {Max(s)}] = g[s \ {Max(s)}]
        BY <4>4
      <4> QED
        BY <4>2, <4>3, <4>5
    <3> QED
      BY <3>1, <3>2
  <2>2. IsResults(h, base, q, m + 1)
    BY <2>1 DEF IsResults
  <2> HIDE DEF h
  <2> QED
    BY <2>2
<1>3. n \in Good
  <2> HIDE DEF Good
  <2> QED
    BY <1>1, <1>2, SetInduction
<1>4. PICK g : IsResults(g, base, q, n)
  BY <1>3
<1> QED
  BY <1>4, Zenon DEF Results

\* A fold is the last of its intermediate results.
LEMMA FoldIsTrace ==
  ASSUME NEW base, NEW n \in Nat, NEW q, DOMAIN q = 1 .. n
  PROVE  \E h : Trace(q, base, n, h) /\ Fold(base, q) = h[n]
<1> DEFINE iter == Results(base, q, n)
           h    == [k \in 0 .. n |-> iter[1 .. k]]
<1>1. Fold(base, q) = iter[1 .. n]
  BY Zenon DEF Fold, FoldLeft, MapThenFoldSet, Results, IsResults
<1>2. IsResults(iter, base, q, n)
  BY ResultsExist
<1> HIDE DEF iter
<1>3. \A k \in 0 .. n : h[k] = IF k = 0 THEN base ELSE Op(h[k - 1], q[k])
  <2> SUFFICES ASSUME NEW k \in 0 .. n
               PROVE  iter[1 .. k] = IF k = 0 THEN base ELSE Op(h[k - 1], q[k])
    OBVIOUS
  <2>1. 1 .. k \in SUBSET (1 .. n)
    OBVIOUS
  <2>2. CASE k = 0
    <3>1. 1 .. k = {}
      BY <2>2
    <3> QED
      BY <1>2, <2>1, <3>1, <2>2 DEF IsResults
  <2>3. CASE k # 0
    <3>1. k - 1 \in Nat /\ 1 .. k \in SUBSET (1 .. (k - 1) + 1) /\ (k - 1) + 1 \in 1 .. k
      BY <2>3
    <3>2. Max(1 .. k) = (k - 1) + 1
      BY <3>1, MaxOfInterval
    <3>3. (1 .. k) \ {k} = 1 .. k - 1 /\ 1 .. k # {} /\ k - 1 \in 0 .. n
      BY <2>3
    <3>4. Max(1 .. k) = k
      BY <3>2
    <3>5. iter[1 .. k] = Op(iter[(1 .. k) \ {k}], q[k])
      BY <1>2, <2>1, <3>3, <3>4 DEF IsResults
    <3> QED
      BY <2>3, <3>3, <3>5
  <2> QED
    BY <2>2, <2>3
<1>4. Trace(q, base, n, h)
  BY <1>3 DEF Trace
<1>5. h[n] = iter[1 .. n]
  OBVIOUS
<1> QED
  BY <1>1, <1>4, <1>5

\* Traces over sequences that agree on the first n elements have the same n-th
\* result.
LEMMA TracesAgree ==
  ASSUME NEW base, NEW n \in Nat, NEW m \in n .. n + 1, NEW q, NEW r, NEW g, NEW h,
         \A k \in 1 .. n : q[k] = r[k],
         Trace(q, base, n, g), Trace(r, base, m, h)
  PROVE  g[n] = h[n]
<1> DEFINE Good == {k \in Nat : k <= n => g[k] = h[k]}
<1>1. 0 \in Good
  BY DEF Trace
<1>2. \A k \in Nat : k \in Good => k + 1 \in Good
  <2> SUFFICES ASSUME NEW k \in Nat, g[k] = h[k], k + 1 <= n
               PROVE  g[k + 1] = h[k + 1]
    OBVIOUS
  <2>1. k + 1 \in 0 .. n /\ k + 1 \in 0 .. m /\ k + 1 # 0 /\ (k + 1) - 1 = k /\ k + 1 \in 1 .. n
    OBVIOUS
  <2>2. g[k + 1] = Op(g[k], q[k + 1])
    BY <2>1 DEF Trace
  <2>3. h[k + 1] = Op(h[k], r[k + 1])
    BY <2>1 DEF Trace
  <2> QED
    BY <2>1, <2>2, <2>3
<1>3. n \in Good
  <2> HIDE DEF Good
  <2> QED
    BY <1>1, <1>2, SetInduction
<1> QED
  BY <1>3

\* A fold over no elements is its base.
THEOREM FoldEmpty == ASSUME NEW base PROVE Fold(base, <<>>) = base
<1>1. DOMAIN <<>> = 1 .. 0
  OBVIOUS
<1>2. PICK h : Trace(<<>>, base, 0, h) /\ Fold(base, <<>>) = h[0]
  BY <1>1, FoldIsTrace
<1> QED
  BY <1>2 DEF Trace

\* A fold over one element more is one step more.
THEOREM FoldAppend ==
  ASSUME NEW base, NEW S, NEW q \in Seq(S), NEW e \in S
  PROVE  Fold(base, Append(q, e)) = Op(Fold(base, q), e)
<1> DEFINE n == Len(q)
           r == Append(q, e)
<1>1. n \in Nat /\ DOMAIN q = 1 .. n /\ DOMAIN r = 1 .. n + 1
      /\ (\A k \in 1 .. n : q[k] = r[k]) /\ r[n + 1] = e
  BY AppendProperties, LenProperties
<1> HIDE DEF n, r
<1>2. PICK g : Trace(q, base, n, g) /\ Fold(base, q) = g[n]
  BY <1>1, FoldIsTrace
<1>3. PICK h : Trace(r, base, n + 1, h) /\ Fold(base, r) = h[n + 1]
  BY <1>1, FoldIsTrace
<1>4. g[n] = h[n]
  BY <1>1, <1>2, <1>3, TracesAgree
<1>5. h[n + 1] = Op(h[n], r[n + 1])
  <2>1. n + 1 \in 0 .. n + 1 /\ n + 1 # 0 /\ (n + 1) - 1 = n
    BY <1>1
  <2> QED
    BY <1>3, <2>1 DEF Trace
<1> QED
  BY <1>1, <1>2, <1>3, <1>4, <1>5 DEF r

\* A set that each step stays in is one the fold stays in.
THEOREM FoldStays ==
  ASSUME NEW S, NEW q, NEW n \in Nat, DOMAIN q = 1 .. n, NEW base \in S,
         \A x \in S, k \in 1 .. n : Op(x, q[k]) \in S
  PROVE  Fold(base, q) \in S
<1>1. PICK h : Trace(q, base, n, h) /\ Fold(base, q) = h[n]
  BY FoldIsTrace
<1> DEFINE Good == {k \in Nat : k <= n => h[k] \in S}
<1>2. 0 \in Good
  BY <1>1 DEF Trace
<1>3. \A k \in Nat : k \in Good => k + 1 \in Good
  <2> SUFFICES ASSUME NEW k \in Nat, h[k] \in S, k + 1 <= n
               PROVE  h[k + 1] \in S
    OBVIOUS
  <2>1. k + 1 \in 0 .. n /\ k + 1 # 0 /\ (k + 1) - 1 = k /\ k + 1 \in 1 .. n
    OBVIOUS
  <2>2. h[k + 1] = Op(h[k], q[k + 1])
    BY <1>1, <2>1 DEF Trace
  <2> QED
    BY <2>1, <2>2
<1>4. n \in Good
  <2> HIDE DEF Good
  <2> QED
    BY <1>2, <1>3, SetInduction
<1> QED
  BY <1>1, <1>4

-----------------------------------------------------------------------------
Before(S, x) == {y \in S : Precedes(y, x)}

Enumeration(S) == InOrder(S, Precedes)

StrictTotalOrder(S) ==
  /\ \A x \in S : ~Precedes(x, x)
  /\ \A x, y \in S : x # y => Precedes(x, y) \/ Precedes(y, x)
  /\ \A x, y, z \in S : Precedes(x, y) /\ Precedes(y, z) => Precedes(x, z)

\* In a finite strict total order the number of predecessors grows with the
\* element and stays below the size of the set.
LEMMA PlacesDiffer ==
  ASSUME NEW S, IsFiniteSet(S), StrictTotalOrder(S)
  PROVE  /\ \A x \in S : Cardinality(Before(S, x)) \in 0 .. Cardinality(S) - 1
         /\ \A x, y \in S : Precedes(x, y) =>
              Cardinality(Before(S, x)) < Cardinality(Before(S, y))
<1>1. Cardinality(S) \in Nat
  BY FS_CardinalityType
<1>2. \A x \in S : /\ IsFiniteSet(Before(S, x)) /\ Cardinality(Before(S, x)) \in Nat
                   /\ Cardinality(Before(S, x)) <= Cardinality(S)
                   /\ Cardinality(Before(S, x)) # Cardinality(S)
  <2> SUFFICES ASSUME NEW x \in S
               PROVE  /\ IsFiniteSet(Before(S, x)) /\ Cardinality(Before(S, x)) \in Nat
                      /\ Cardinality(Before(S, x)) <= Cardinality(S)
                      /\ Cardinality(Before(S, x)) # Cardinality(S)
    OBVIOUS
  <2>1. Before(S, x) \in SUBSET S /\ Before(S, x) # S
    BY DEF Before, StrictTotalOrder
  <2> QED
    BY <2>1, FS_Subset, FS_CardinalityType
<1>3. ASSUME NEW x \in S, NEW y \in S, Precedes(x, y)
      PROVE  Cardinality(Before(S, x)) < Cardinality(Before(S, y))
  <2>1. Before(S, x) \in SUBSET Before(S, y)
    BY <1>3 DEF Before, StrictTotalOrder
  <2>2. x \in Before(S, y) /\ x \notin Before(S, x)
    BY <1>3 DEF Before, StrictTotalOrder
  <2>3. /\ Cardinality(Before(S, x)) <= Cardinality(Before(S, y))
        /\ Cardinality(Before(S, x)) # Cardinality(Before(S, y))
    BY <1>2, <2>1, <2>2, FS_Subset
  <2> QED
    BY <1>2, <2>3
<1> QED
  BY <1>1, <1>2, <1>3

\* InOrder lists every element of a finite set exactly once, each before those
\* it precedes.
THEOREM InOrderEnumerates ==
  ASSUME NEW S, IsFiniteSet(S), StrictTotalOrder(S)
  PROVE  LET r == Enumeration(S)
             N == Cardinality(S)
         IN  /\ N \in Nat
             /\ r \in [1 .. N -> S]
             /\ \A x \in S : \E n \in 1 .. N : r[n] = x
             /\ \A m, n \in 1 .. N : m < n => Precedes(r[m], r[n])
             /\ \A n \in 1 .. N : Cardinality(Before(S, r[n])) = n - 1
<1> DEFINE r == Enumeration(S)
           N == Cardinality(S)
           place == [x \in S |-> 1 + Cardinality(Before(S, x))]
           places == {<<1 + Cardinality({y \in S : Precedes(y, x)}), x>> : x \in S}
<1>1. N \in Nat
  BY FS_CardinalityType
<1>2. place \in [S -> 1 .. N]
  BY <1>1, PlacesDiffer
<1>3. \A x, y \in S : Precedes(x, y) => place[x] < place[y]
  BY <1>1, PlacesDiffer
<1>4. \A x, y \in S : x # y => place[x] # place[y]
  BY <1>2, <1>3 DEF StrictTotalOrder
<1>5. place \in Injection(S, 1 .. N)
  BY <1>2, <1>4 DEF Injection, IsInjective
<1>6. IsFiniteSet(1 .. N) /\ Cardinality(1 .. N) = N
  BY <1>1, FS_Interval
<1>7. place \in Surjection(S, 1 .. N)
  BY <1>5, <1>6, FS_Injection
<1>8. \A n \in 1 .. N : \E x \in S : place[x] = n
  BY <1>7 DEF Surjection
<1>9. \A p : p \in places <=> \E x \in S : p = <<place[x], x>>
  BY DEF Before
<1>10. r = [n \in 1 .. N |-> (CHOOSE p \in places : p[1] = n)[2]]
  BY DEF InOrder, Enumeration
<1> HIDE DEF r, place, places
<1>11. \A n \in 1 .. N : r[n] \in S /\ place[r[n]] = n
  <2> SUFFICES ASSUME NEW n \in 1 .. N
               PROVE  r[n] \in S /\ place[r[n]] = n
    OBVIOUS
  <2>0. PICK x \in S : place[x] = n
    BY <1>8
  <2>1. <<place[x], x>> \in places /\ <<place[x], x>>[1] = n
    BY <1>9, <2>0
  <2>2. PICK p \in places : p = (CHOOSE q \in places : q[1] = n) /\ p[1] = n
    BY <2>1
  <2>3. r[n] = p[2]
    BY <1>10, <2>2
  <2> QED
    BY <1>9, <2>2, <2>3
<1>12. \A x \in S : place[x] \in 1 .. N /\ r[place[x]] = x
  BY <1>2, <1>4, <1>11
<1>13. \A m, n \in 1 .. N : m < n => Precedes(r[m], r[n])
  <2> SUFFICES ASSUME NEW m \in 1 .. N, NEW n \in 1 .. N, m < n
               PROVE  Precedes(r[m], r[n])
    OBVIOUS
  <2>1. /\ r[m] \in S /\ r[n] \in S
        /\ place[r[m]] = m /\ place[r[n]] = n
    BY <1>11
  <2>2. ~(n < m) /\ m # n
    BY <1>1
  <2>3. r[m] # r[n]
    BY <2>1, <2>2
  <2>4. ~Precedes(r[n], r[m])
    BY <1>3, <2>1, <2>2
  <2> QED
    BY <2>1, <2>3, <2>4 DEF StrictTotalOrder
<1>14. r \in [1 .. N -> S]
  BY <1>10, <1>11
<1>15. \A n \in 1 .. N : Cardinality(Before(S, r[n])) = n - 1
  <2> SUFFICES ASSUME NEW n \in 1 .. N PROVE Cardinality(Before(S, r[n])) = n - 1
    OBVIOUS
  <2>1. r[n] \in S /\ 1 + Cardinality(Before(S, r[n])) = n
    BY <1>11 DEF place
  <2>2. Cardinality(Before(S, r[n])) \in Nat
    BY <1>1, <2>1, PlacesDiffer
  <2> QED
    BY <2>1, <2>2
<1> QED
  BY <1>1, <1>12, <1>13, <1>14, <1>15 DEF r

-----------------------------------------------------------------------------
\* Comparing sequences of integers by their first difference is a strict total
\* order: sort_by and ORDER BY have one result.
LEMMA LexLessIsOrder ==
  /\ \A s \in Seq(Int) : ~LexLess(s, s)
  /\ \A s, t \in Seq(Int) : s # t => LexLess(s, t) \/ LexLess(t, s)
  /\ \A s, t, u \in Seq(Int) : LexLess(s, t) /\ LexLess(t, u) => LexLess(s, u)
<1>1. ASSUME NEW s \in Seq(Int)
      PROVE  ~LexLess(s, s)
  BY DEF LexLess
<1>2. ASSUME NEW s \in Seq(Int), NEW t \in Seq(Int), s # t
      PROVE  LexLess(s, t) \/ LexLess(t, s)
  <2> DEFINE Differ == {k \in Nat \ {0} : /\ k <= Len(s) + 1 /\ k <= Len(t) + 1
                                         /\ \/ k = Len(s) + 1 \/ k = Len(t) + 1
                                            \/ s[k] # t[k]}
  <2>1. Len(s) \in Nat /\ Len(t) \in Nat
    OBVIOUS
  <2>2. Differ # {} /\ Differ \subseteq Nat
    <3>1. CASE Len(s) <= Len(t)
      <4>1. Len(s) + 1 \in Differ
        BY <2>1, <3>1
      <4> QED
        BY <4>1
    <3>2. CASE Len(t) <= Len(s)
      <4>1. Len(t) + 1 \in Differ
        BY <2>1, <3>2
      <4> QED
        BY <4>1
    <3> QED
      BY <2>1, <3>1, <3>2
  <2>3. PICK k \in Differ : \A m \in Differ : k <= m
    BY <2>2, LeastNumber
  <2>4. k \in Nat \ {0} /\ k <= Len(s) + 1 /\ k <= Len(t) + 1
    OBVIOUS
  <2>5. \A i \in 1 .. k - 1 : i <= Len(s) /\ i <= Len(t) /\ s[i] = t[i]
    <3> SUFFICES ASSUME NEW i \in 1 .. k - 1
                 PROVE  i <= Len(s) /\ i <= Len(t) /\ s[i] = t[i]
      OBVIOUS
    <3>1. i \notin Differ /\ i \in Nat \ {0} /\ i <= Len(s) /\ i <= Len(t)
      BY <2>1, <2>3, <2>4
    <3> QED
      BY <2>1, <3>1
  <2>6. CASE k = Len(s) + 1 /\ k = Len(t) + 1
    <3>1. Len(s) = Len(t) /\ \A i \in 1 .. Len(s) : s[i] = t[i]
      BY <2>1, <2>5, <2>6
    <3> QED
      BY <1>2, <3>1, SeqEqual
  <2>7. CASE k = Len(s) + 1 /\ k # Len(t) + 1
    <3>1. k \in 1 .. Len(t)
      BY <2>1, <2>4, <2>7
    <3> QED
      BY <2>5, <2>7, <3>1 DEF LexLess
  <2>8. CASE k # Len(s) + 1 /\ k = Len(t) + 1
    <3>1. k \in 1 .. Len(s)
      BY <2>1, <2>4, <2>8
    <3> QED
      BY <2>5, <2>8, <3>1 DEF LexLess
  <2>9. CASE k # Len(s) + 1 /\ k # Len(t) + 1
    <3>1. k \in 1 .. Len(s) /\ k \in 1 .. Len(t) /\ s[k] # t[k]
      BY <2>1, <2>4, <2>9
    <3>2. s[k] \in Int /\ t[k] \in Int
      BY <3>1
    <3>3. s[k] < t[k] \/ t[k] < s[k]
      BY <3>1, <3>2
    <3> QED
      BY <2>1, <2>4, <2>5, <3>1, <3>3 DEF LexLess
  <2> QED
    BY <2>6, <2>7, <2>8, <2>9
<1>3. ASSUME NEW s \in Seq(Int), NEW t \in Seq(Int), NEW u \in Seq(Int),
             LexLess(s, t), LexLess(t, u)
      PROVE  LexLess(s, u)
  <2>1. Len(s) \in Nat /\ Len(t) \in Nat /\ Len(u) \in Nat
    OBVIOUS
  <2>2. PICK k \in 1 .. Len(t) :
          /\ k <= Len(s) + 1
          /\ k = Len(s) + 1 \/ s[k] < t[k]
          /\ \A i \in 1 .. k - 1 : s[i] = t[i]
    BY <1>3 DEF LexLess
  <2>3. PICK m \in 1 .. Len(u) :
          /\ m <= Len(t) + 1
          /\ m = Len(t) + 1 \/ t[m] < u[m]
          /\ \A i \in 1 .. m - 1 : t[i] = u[i]
    BY <1>3 DEF LexLess
  <2>4. CASE k < m
    <3>1. k \in 1 .. Len(u) /\ t[k] = u[k] /\ \A i \in 1 .. k - 1 : s[i] = u[i]
      BY <2>1, <2>2, <2>3, <2>4
    <3> QED
      BY <2>2, <3>1 DEF LexLess
  <2>5. CASE m < k
    <3>1. m <= Len(s) + 1 /\ m \in 1 .. k - 1 /\ m # Len(t) + 1
          /\ \A i \in 1 .. m - 1 : s[i] = u[i]
      BY <2>1, <2>2, <2>3, <2>5
    <3>2. s[m] < u[m]
      BY <2>2, <2>3, <3>1
    <3> QED
      BY <3>1, <3>2 DEF LexLess
  <2>6. CASE m = k
    <3>1. /\ k # Len(t) + 1
          /\ \A i \in 1 .. k - 1 : s[i] = u[i]
      BY <2>1, <2>2, <2>3, <2>6
    <3>2. k = Len(s) + 1 \/ s[k] < u[k]
      <4>1. CASE k # Len(s) + 1
        <5>0. k <= Len(s) + 1
          BY <2>2
        <5>1. k \in 1 .. Len(s)
          BY <2>1, <4>1, <5>0
        <5>2. k \in 1 .. Len(t) /\ k \in 1 .. Len(u)
          BY <2>6
        <5>3. s[k] \in Int /\ t[k] \in Int /\ u[k] \in Int
          BY <5>1, <5>2
        <5> QED
          BY <2>2, <2>3, <2>6, <3>1, <4>1, <5>3
      <4> QED
        BY <4>1
    <3> QED
      BY <2>2, <2>3, <2>6, <3>1, <3>2 DEF LexLess
  <2> QED
    BY <2>1, <2>2, <2>3, <2>4, <2>5, <2>6
<1> QED
  BY <1>1, <1>2, <1>3

-----------------------------------------------------------------------------
\* step looks at values of a lower rank only.
Descends(D, S, rank, step) ==
  \A x \in D : \A f, g \in [D -> S] :
    (\A y \in D : rank[y] < rank[x] => f[y] = g[y]) => step[<<f, x>>] = step[<<g, x>>]

Solution(D, step, f) == \A x \in D : f[x] = step[<<f, x>>]

\* A recursion that descends has a solution: the solutions up to each rank agree
\* below it.
LEMMA RankedRecursionExists ==
  ASSUME NEW D, NEW S, NEW s \in S, NEW rank \in [D -> Nat],
         NEW step \in [[D -> S] \X D -> S], Descends(D, S, rank, step)
  PROVE  \E f \in [D -> S] : Solution(D, step, f)
<1> DEFINE Solves(f, n) == \A x \in D : rank[x] < n => f[x] = step[<<f, x>>]
           Good == {n \in Nat : \E f \in [D -> S] : Solves(f, n)}
<1>1. 0 \in Good
  <2>1. [x \in D |-> s] \in [D -> S] /\ Solves([x \in D |-> s], 0)
    OBVIOUS
  <2> QED
    BY <2>1
<1>2. ASSUME NEW n \in Nat, n \in Good
      PROVE  n + 1 \in Good
  <2>0. PICK f \in [D -> S] : Solves(f, n)
    BY <1>2
  <2> DEFINE h == [x \in D |-> IF rank[x] < n THEN f[x] ELSE step[<<f, x>>]]
  <2>1. h \in [D -> S]
    OBVIOUS
  <2>2. ASSUME NEW x \in D, rank[x] < n + 1
        PROVE  h[x] = step[<<h, x>>]
    <3>1. h[x] = step[<<f, x>>]
      BY <2>0
    <3>2. \A y \in D : rank[y] < rank[x] => f[y] = h[y]
      BY <2>2
    <3>3. step[<<f, x>>] = step[<<h, x>>]
      BY <2>1, <3>2 DEF Descends
    <3> QED
      BY <3>1, <3>3
  <2> HIDE DEF h
  <2> QED
    BY <2>1, <2>2
<1> HIDE DEF Good
<1>3. Nat \subseteq Good
  BY <1>1, <1>2, SetInduction
<1> DEFINE F == [n \in Nat |-> CHOOSE f \in [D -> S] : Solves(f, n)]
<1>4. \A n \in Nat : F[n] \in [D -> S] /\ Solves(F[n], n)
  BY <1>3 DEF Good
<1> HIDE DEF F
<1> DEFINE Same == {r \in Nat : \A x \in D : rank[x] < r => \A m, n \in Nat :
                                  rank[x] < m /\ rank[x] < n => F[m][x] = F[n][x]}
<1>5. 0 \in Same
  OBVIOUS
<1>6. ASSUME NEW r \in Nat, r \in Same
      PROVE  r + 1 \in Same
  <2> SUFFICES ASSUME NEW x \in D, rank[x] < r + 1, NEW m \in Nat, NEW n \in Nat,
                      rank[x] < m, rank[x] < n
               PROVE  F[m][x] = F[n][x]
    OBVIOUS
  <2>1. \A y \in D : rank[y] < rank[x] => F[m][y] = F[n][y]
    BY <1>6
  <2>2. step[<<F[m], x>>] = step[<<F[n], x>>]
    BY <1>4, <2>1 DEF Descends
  <2> QED
    BY <1>4, <2>2
<1> HIDE DEF Same
<1>7. Nat \subseteq Same
  BY <1>5, <1>6, SetInduction
<1> DEFINE f == [x \in D |-> F[rank[x] + 1][x]]
<1>8. f \in [D -> S]
  BY <1>4
<1>9. ASSUME NEW x \in D PROVE f[x] = step[<<f, x>>]
  <2> DEFINE n == rank[x] + 1
  <2>0. rank[x] \in Nat /\ n \in Nat /\ rank[x] < n
    OBVIOUS
  <2>1. f[x] = F[n][x] /\ F[n][x] = step[<<F[n], x>>] /\ F[n] \in [D -> S]
    <3> HIDE DEF n
    <3>1. F[n] \in [D -> S] /\ F[n][x] = step[<<F[n], x>>]
      BY <1>4, <2>0
    <3>2. f[x] = F[rank[x] + 1][x]
      OBVIOUS
    <3> QED
      BY <3>1, <3>2 DEF n
  <2>2. ASSUME NEW y \in D, rank[y] < rank[x] PROVE F[n][y] = f[y]
    BY <1>7, <2>2 DEF Same
  <2> HIDE DEF f, n
  <2>3. step[<<F[n], x>>] = step[<<f, x>>]
    BY <1>8, <2>1, <2>2 DEF Descends
  <2> QED
    BY <2>1, <2>3
<1> QED
  BY <1>8, <1>9 DEF Solution

\* The same with a bound on the ranks.
LEMMA RecursionExists ==
  ASSUME NEW D, NEW S, NEW s \in S, NEW N \in Nat, NEW rank \in [D -> 0 .. N],
         NEW step \in [[D -> S] \X D -> S], Descends(D, S, rank, step)
  PROVE  \E f \in [D -> S] : Solution(D, step, f)
<1>1. rank \in [D -> Nat]
  OBVIOUS
<1> QED
  BY <1>1, RankedRecursionExists

\* step looks at values of a lower rank, or of the same rank and a lower size.
DescendsIn(D, S, rank, size, step) ==
  \A x \in D : \A f, g \in [D -> S] :
    (\A y \in D : rank[y] < rank[x] \/ (rank[y] = rank[x] /\ size[y] < size[x]) => f[y] = g[y])
      => step[<<f, x>>] = step[<<g, x>>]

\* A recursion that descends in one of two ranks has a solution.
LEMMA NestedRecursionExists ==
  ASSUME NEW D, NEW S, NEW s \in S, NEW N \in Nat, NEW rank \in [D -> 0 .. N],
         NEW size \in [D -> Nat], NEW step \in [[D -> S] \X D -> S],
         DescendsIn(D, S, rank, size, step)
  PROVE  \E f \in [D -> S] : Solution(D, step, f)
<1> DEFINE Solves(f, n) == \A x \in D : rank[x] < n => f[x] = step[<<f, x>>]
           Good == {n \in Nat : \E f \in [D -> S] : Solves(f, n)}
<1>1. 0 \in Good
  <2>1. [x \in D |-> s] \in [D -> S] /\ Solves([x \in D |-> s], 0)
    OBVIOUS
  <2> QED
    BY <2>1
<1>2. ASSUME NEW n \in Nat, n \in Good
      PROVE  n + 1 \in Good
  <2>0. PICK f \in [D -> S] : Solves(f, n)
    BY <1>2
  <2> DEFINE over(h) == [y \in D |-> IF rank[y] < n THEN f[y] ELSE h[y]]
             next == [p \in [D -> S] \X D |->
                        IF rank[p[2]] = n THEN step[<<over(p[1]), p[2]>>] ELSE f[p[2]]]
  <2>1. \A h \in [D -> S] : over(h) \in [D -> S]
    OBVIOUS
  <2>2. next \in [[D -> S] \X D -> S]
    BY <2>1
  <2>3. ASSUME NEW x \in D, NEW h \in [D -> S], NEW g \in [D -> S],
               \A y \in D : size[y] < size[x] => h[y] = g[y]
        PROVE  next[<<h, x>>] = next[<<g, x>>]
    <3>1. CASE rank[x] = n
      <4>1. \A y \in D : rank[y] < rank[x] \/ (rank[y] = rank[x] /\ size[y] < size[x])
                           => over(h)[y] = over(g)[y]
        BY <2>3, <3>1
      <4>2. over(h) \in [D -> S] /\ over(g) \in [D -> S]
        BY <2>1
      <4>3. next[<<h, x>>] = step[<<over(h), x>>] /\ next[<<g, x>>] = step[<<over(g), x>>]
        BY <3>1
      <4> HIDE DEF over, next
      <4>4. step[<<over(h), x>>] = step[<<over(g), x>>]
        BY <4>1, <4>2 DEF DescendsIn
      <4> QED
        BY <4>3, <4>4
    <3>2. CASE rank[x] # n
      BY <3>2
    <3> QED
      BY <3>1, <3>2
  <2>4. Descends(D, S, size, next)
    <3> HIDE DEF next
    <3> QED
      BY <2>3 DEF Descends
  <2>5. PICK h \in [D -> S] : Solution(D, next, h)
    <3> HIDE DEF next
    <3> QED
      BY <2>2, <2>4, RankedRecursionExists
  <2> DEFINE g == over(h)
  <2>6. g \in [D -> S]
    BY <2>1
  <2>7. ASSUME NEW x \in D, rank[x] < n + 1
        PROVE  g[x] = step[<<g, x>>]
    <3>1. CASE rank[x] < n
      <4>1. g[x] = step[<<f, x>>]
        BY <2>0, <3>1
      <4>2. \A y \in D : rank[y] < rank[x] \/ (rank[y] = rank[x] /\ size[y] < size[x])
                           => f[y] = g[y]
        BY <3>1
      <4> HIDE DEF g
      <4>3. step[<<f, x>>] = step[<<g, x>>]
        BY <2>6, <4>2 DEF DescendsIn
      <4> QED
        BY <4>1, <4>3
    <3>2. CASE rank[x] = n
      <4>1. g[x] = h[x]
        BY <3>2
      <4>2. h[x] = next[<<h, x>>]
        BY <2>5, Zenon DEF Solution
      <4>3. next[<<h, x>>] = step[<<g, x>>]
        BY <3>2
      <4> QED
        BY <4>1, <4>2, <4>3
    <3>3. rank[x] \in Int
      OBVIOUS
    <3> HIDE DEF g, over, next
    <3> QED
      BY <2>7, <3>1, <3>2, <3>3
  <2> HIDE DEF g
  <2> QED
    BY <2>6, <2>7
<1> HIDE DEF Good
<1>3. Nat \subseteq Good
  BY <1>1, <1>2, SetInduction
<1>4. N + 1 \in Good
  BY <1>3
<1>5. PICK f \in [D -> S] : Solves(f, N + 1)
  BY <1>4 DEF Good
<1> QED
  BY <1>5 DEF Solution

\* Two sequences joined, by their elements.
THEOREM ConcatParts ==
  ASSUME NEW S, NEW c \in Seq(S), NEW b \in Seq(S)
  PROVE  /\ c \o b \in Seq(S) /\ Len(c \o b) = Len(c) + Len(b)
         /\ \A t \in 1 .. Len(c) : (c \o b)[t] = c[t]
         /\ \A t \in 1 .. Len(b) : (c \o b)[Len(c) + t] = b[t]
<1>0. c \in Seq(S) /\ b \in Seq(S)
  OBVIOUS
<1>1. /\ c \o b \in Seq(S) /\ Len(c \o b) = Len(c) + Len(b)
      /\ \A t \in 1 .. Len(c) + Len(b) :
           (c \o b)[t] = IF t <= Len(c) THEN c[t] ELSE b[t - Len(c)]
  BY <1>0, ConcatProperties
<1>2. Len(c) \in Nat /\ Len(b) \in Nat
  OBVIOUS
<1> DEFINE e == c \o b
           x1 == Len(c)
           x2 == Len(b)
<1>3. e \in Seq(S) /\ Len(e) = x1 + x2 /\ x1 \in Nat /\ x2 \in Nat
      /\ \A t \in 1 .. x1 + x2 : e[t] = IF t <= x1 THEN c[t] ELSE b[t - x1]
  BY <1>1, <1>2
<1> HIDE DEF e, x1, x2
<1>4. /\ \A t \in 1 .. x1 : e[t] = c[t]
      /\ \A t \in 1 .. x2 : e[x1 + t] = b[t]
  BY <1>3
<1> QED
  BY <1>3, <1>4 DEF e, x1, x2

\* The joined lists, up to each of them.
Joined(q, n, S, h) ==
  /\ h \in [1 .. n -> Seq(S)]
  /\ \A i \in 1 .. n : h[i] = IF i = 1 THEN q[i] ELSE h[i - 1] \o q[i]

LEMMA FlattenIsJoined ==
  ASSUME NEW S, NEW q \in Seq(Seq(S)), q # <<>>
  PROVE  \E h : Joined(q, Len(q), S, h) /\ FlattenSeq(q) = h[Len(q)]
<1> DEFINE n == Len(q)
           D == 1 .. n
           Body(f, i) == IF i = 1 THEN q[i] ELSE f[i - 1] \o q[i]
           f == CHOOSE f : f = [i \in 1 .. n |-> Body(f, i)]
<1>1. n \in Nat /\ n >= 1 /\ \A i \in D : q[i] \in Seq(S)
  BY EmptySeq, LenProperties, ElementOfSeq
<1>2. FlattenSeq(q) = f[n]
  <2>1. Len(q) # 0
    BY <1>1
  <2> QED
    BY <2>1 DEF FlattenSeq
<1>3. \E g \in [D -> Seq(S)] : g = [i \in D |-> Body(g, i)]
  <2>1. \A g \in [D -> Seq(S)], i \in D : Body(g, i) \in Seq(S)
    <3> SUFFICES ASSUME NEW g \in [D -> Seq(S)], NEW i \in D, i # 1
                 PROVE  g[i - 1] \o q[i] \in Seq(S)
      BY <1>1
    <3>1. i - 1 \in D
      BY <1>1
    <3>2. g[i - 1] \in Seq(S) /\ q[i] \in Seq(S)
      BY <1>1, <3>1
    <3> QED
      BY <3>2, ConcatProperties
  <2>2. <<>> \in Seq(S)
    OBVIOUS
  <2> DEFINE st == [p \in [D -> Seq(S)] \X D |-> Body(p[1], p[2])]
             rank == [i \in D |-> i]
  <2>3. st \in [[D -> Seq(S)] \X D -> Seq(S)]
    BY <2>1
  <2>4. rank \in [D -> 0 .. n]
    BY <1>1
  <2>5. \A g \in [D -> Seq(S)], i \in D : st[<<g, i>>] = Body(g, i)
    OBVIOUS
  <2>6. ASSUME NEW i \in D, NEW g \in [D -> Seq(S)], NEW k \in [D -> Seq(S)],
               \A j \in D : rank[j] < rank[i] => g[j] = k[j]
        PROVE  st[<<g, i>>] = st[<<k, i>>]
    <3>1. i # 1 => g[i - 1] = k[i - 1]
      BY <1>1, <2>6
    <3>2. Body(g, i) = Body(k, i)
      BY <3>1
    <3> QED
      BY <2>5, <3>2
  <2> HIDE DEF st, rank
  <2>7. PICK g \in [D -> Seq(S)] : \A i \in D : g[i] = st[<<g, i>>]
    <3> DEFINE V == Seq(S)
    <3>1. /\ n \in Nat /\ <<>> \in V /\ rank \in [D -> 0 .. n]
          /\ st \in [[D -> V] \X D -> V]
          /\ Descends(D, V, rank, st)
      BY <1>1, <2>2, <2>3, <2>4, <2>6 DEF Descends
    <3> HIDE DEF V, D, n
    <3>2. \E k \in [D -> V] : Solution(D, st, k)
      BY <3>1, RecursionExists, Zenon
    <3> QED
      BY <3>2 DEF V, Solution
  <2>8. g = [i \in D |-> Body(g, i)]
    BY <2>5, <2>7
  <2> QED
    BY <2>8
<1> HIDE DEF Body
<1>4. f = [i \in D |-> Body(f, i)]
  BY <1>3
<1> HIDE DEF f
<1>5. \A i \in D : f[i] \in Seq(S)
  <2> DEFINE Good == {k \in Nat : k + 1 \in D => f[k + 1] \in Seq(S)}
  <2>1. 0 \in Good
    BY <1>1, <1>4 DEF Body
  <2>2. ASSUME NEW k \in Nat, k \in Good
        PROVE  k + 1 \in Good
    <3> SUFFICES ASSUME k + 2 \in D PROVE f[k + 2] \in Seq(S)
      OBVIOUS
    <3>1. f[k + 1] \in Seq(S) /\ q[k + 2] \in Seq(S)
      BY <1>1, <2>2
    <3>2. k + 2 \in D /\ k + 2 # 1 /\ (k + 2) - 1 = k + 1
      OBVIOUS
    <3>3. f[k + 2] = Body(f, k + 2)
      BY <1>4, <3>2
    <3>4. f[k + 2] = f[k + 1] \o q[k + 2]
      BY <3>2, <3>3 DEF Body
    <3> QED
      BY <3>1, <3>4, ConcatProperties
  <2> HIDE DEF Good
  <2>3. Nat \subseteq Good
    BY <2>1, <2>2, SetInduction
  <2> QED
    <3> SUFFICES ASSUME NEW i \in D PROVE f[i] \in Seq(S)
      OBVIOUS
    <3>1. i - 1 \in Good
      BY <1>1, <2>3
    <3> QED
      BY <1>1, <3>1 DEF Good
<1>6. f \in [D -> Seq(S)] /\ \A i \in D : f[i] = IF i = 1 THEN q[i] ELSE f[i - 1] \o q[i]
  BY <1>4, <1>5 DEF Body
<1>7. Joined(q, n, S, f)
  BY <1>6 DEF Joined
<1> QED
  BY <1>2, <1>7

\* FlattenSeq returns the elements of all lists.
THEOREM FlattenMembers ==
  ASSUME NEW S, NEW q \in Seq(Seq(S))
  PROVE  /\ FlattenSeq(q) \in Seq(S)
         /\ \A x : x \in Range(FlattenSeq(q)) <=> \E i \in 1 .. Len(q) : x \in Range(q[i])
<1>1. CASE q = <<>>
  <2>1. Len(q) = 0 /\ 1 .. Len(q) = {}
    BY <1>1
  <2>2. FlattenSeq(q) = <<>>
    BY <1>1, <2>1 DEF FlattenSeq
  <2> QED
    BY <2>1, <2>2 DEF Range
<1>2. CASE q # <<>>
  <2>1. PICK h : Joined(q, Len(q), S, h) /\ FlattenSeq(q) = h[Len(q)]
    BY <1>2, FlattenIsJoined
  <2> DEFINE n == Len(q)
             Gathered(k) == \A x : x \in Range(h[k]) <=> \E i \in 1 .. k : x \in Range(q[i])
             Good == {k \in Nat : k + 1 <= n => Gathered(k + 1)}
  <2>2. /\ n \in Nat /\ n >= 1
        /\ \A i \in 1 .. n : q[i] \in Seq(S)
        /\ \A i \in 1 .. n : h[i] \in Seq(S)
        /\ \A i \in 1 .. n : h[i] = IF i = 1 THEN q[i] ELSE h[i - 1] \o q[i]
    <3>1. n \in Nat /\ n >= 1
      BY <1>2, EmptySeq, LenProperties
    <3>2. \A i \in 1 .. n : q[i] \in Seq(S)
      BY ElementOfSeq
    <3> QED
      BY <2>1, <3>1, <3>2 DEF Joined
  <2> HIDE DEF n
  <2>3. 0 \in Good
    <3>1. 1 \in 1 .. n /\ 1 .. 1 = {1}
      BY <2>2
    <3>2. h[1] = q[1]
      BY <2>2, <3>1
    <3> QED
      BY <3>1, <3>2
  <2>4. ASSUME NEW k \in Nat, k \in Good
        PROVE  k + 1 \in Good
    <3> SUFFICES ASSUME k + 2 <= n
                 PROVE  Gathered(k + 2)
      <4>1. (k + 1) + 1 = k + 2
        OBVIOUS
      <4> QED
        BY <4>1
    <3>1. k + 2 \in 1 .. n /\ k + 1 \in 1 .. n /\ k + 2 # 1 /\ (k + 2) - 1 = k + 1
      BY <2>2
    <3>2. h[k + 2] = h[k + 1] \o q[k + 2]
      BY <2>2, <3>1
    <3>3. Range(h[k + 2]) = Range(h[k + 1]) \cup Range(q[k + 2])
      BY <2>2, <3>1, <3>2, RangeConcatenation
    <3>4. Gathered(k + 1)
      BY <2>2, <2>4, <3>1
    <3>5. \A i : i \in 1 .. k + 2 <=> i \in 1 .. k + 1 \/ i = k + 2
      OBVIOUS
    <3> QED
      BY <3>3, <3>4, <3>5, Zenon
  <2>5. Nat \subseteq Good
    <3> HIDE DEF Good
    <3> QED
      BY <2>3, <2>4, SetInduction
  <2>6. n - 1 \in Nat /\ (n - 1) + 1 = n
    BY <2>2
  <2>7. Gathered(n)
    <3>1. n - 1 \in Good
      BY <2>5, <2>6
    <3>2. Gathered((n - 1) + 1)
      BY <2>6, <3>1
    <3> HIDE DEF Gathered
    <3> QED
      BY <2>6, <3>2
  <2> QED
    BY <2>1, <2>2, <2>7 DEF n
<1> QED
  BY <1>1, <1>2

\* One list more is joined at the end.
THEOREM FlattenAppend ==
  ASSUME NEW S, NEW q \in Seq(Seq(S)), NEW e \in Seq(S)
  PROVE  FlattenSeq(Append(q, e)) = FlattenSeq(q) \o e
<1> DEFINE n == Len(q)
           r == Append(q, e)
<1>1. /\ n \in Nat /\ r \in Seq(Seq(S)) /\ r # <<>> /\ Len(r) = n + 1
      /\ \A i \in 1 .. n : r[i] = q[i]
      /\ r[n + 1] = e
  BY AppendProperties, LenProperties
<1> HIDE DEF r
<1>2. PICK g : Joined(r, n + 1, S, g) /\ FlattenSeq(r) = g[n + 1]
  BY <1>1, FlattenIsJoined
<1>3. CASE q = <<>>
  <2>1. Len(q) = 0 /\ FlattenSeq(q) = <<>>
    BY <1>3 DEF FlattenSeq
  <2>2. g[1] = e
    BY <1>1, <1>2, <2>1 DEF Joined
  <2> QED
    BY <1>2, <2>1, <2>2, ConcatEmptySeq DEF r
<1>4. CASE q # <<>>
  <2>1. PICK h : Joined(q, n, S, h) /\ FlattenSeq(q) = h[n]
    BY <1>4, FlattenIsJoined
  <2>2. n >= 1
    BY <1>1, <1>4, EmptySeq
  <2> DEFINE Good == {k \in Nat : k + 1 <= n => g[k + 1] = h[k + 1]}
  <2>3. 0 \in Good
    <3>1. 1 \in 1 .. n /\ 1 \in 1 .. n + 1
      BY <1>1, <2>2
    <3>2. g[1] = r[1] /\ h[1] = q[1]
      BY <1>2, <2>1, <3>1 DEF Joined
    <3> QED
      BY <1>1, <3>1, <3>2
  <2>4. ASSUME NEW k \in Nat, k \in Good
        PROVE  k + 1 \in Good
    <3> SUFFICES ASSUME k + 2 <= n PROVE g[k + 2] = h[k + 2]
      OBVIOUS
    <3>1. k + 2 \in 1 .. n /\ k + 2 \in 1 .. n + 1 /\ k + 2 # 1 /\ (k + 2) - 1 = k + 1
      BY <1>1
    <3>2. g[k + 1] = h[k + 1]
      BY <2>4, <3>1
    <3>3. g[k + 2] = g[k + 1] \o r[k + 2] /\ h[k + 2] = h[k + 1] \o q[k + 2]
      BY <1>2, <2>1, <3>1 DEF Joined
    <3> QED
      BY <1>1, <3>1, <3>2, <3>3
  <2> HIDE DEF Good
  <2>5. n - 1 \in Good
    <3>1. Nat \subseteq Good
      BY <2>3, <2>4, SetInduction
    <3> QED
      BY <1>1, <2>2, <3>1
  <2>6. g[n] = h[n]
    BY <1>1, <2>2, <2>5 DEF Good
  <2>7. g[n + 1] = g[n] \o r[n + 1]
    <3>1. n + 1 \in 1 .. n + 1 /\ n + 1 # 1 /\ (n + 1) - 1 = n
      BY <1>1, <2>2
    <3> QED
      BY <1>2, <3>1 DEF Joined
  <2> QED
    BY <1>1, <1>2, <2>1, <2>6, <2>7 DEF r
<1> QED
  BY <1>3, <1>4

=============================================================================
