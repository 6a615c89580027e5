------------------------- MODULE SegmentationProofs -------------------------
(***************************************************************************)
(* Proofs about Segmentation, for every alphabet, table of syllables and   *)
(* fuzzy rules, every limit and penalty and codes of any length.           *)
(***************************************************************************)
EXTENDS Segmentation, FiniteSetTheorems, SequenceTheorems, TLAPS

KeyPrecedes(p, q) == LexLess(p.key, q.key)

Best == INSTANCE FoldsAndOrders WITH Op <- Preferred, Precedes <- KeyPrecedes
Adds == INSTANCE FoldsAndOrders WITH Op <- Added, Precedes <- KeyPrecedes

\* The instances count as this module does.
LEMMA SameCardinality ==
  /\ \A S : Best!Cardinality(S) = Cardinality(S)
  /\ \A S : Best!IsFiniteSet(S) <=> IsFiniteSet(S)
BY Zenon DEF Cardinality, Best!Cardinality, IsFiniteSet, Best!IsFiniteSet

LEMMA FoldsAgree ==
  /\ \A base, q : FoldLeft(Preferred, base, q) = Best!Fold(base, q)
  /\ \A base, q : FoldLeft(Added, base, q) = Adds!Fold(base, q)
<1>1. \A base, q : FoldLeft(Preferred, base, q) = Best!Fold(base, q)
  BY Zenon DEF FoldLeft, MapThenFoldSet, Max, Best!Fold, Best!FoldLeft,
               Best!MapThenFoldSet, Best!Max
<1>2. \A base, q : FoldLeft(Added, base, q) = Adds!Fold(base, q)
  BY Zenon DEF FoldLeft, MapThenFoldSet, Max, Adds!Fold, Adds!FoldLeft,
               Adds!MapThenFoldSet, Adds!Max
<1> QED
  BY <1>1, <1>2

LEMMA FlattensAgree ==
  \A q : FlattenSeq(q) = Best!FlattenSeq(q)
BY Zenon DEF FlattenSeq, Best!FlattenSeq

-----------------------------------------------------------------------------
(***************************************************************************)
(* Sorted lists.                                                           *)
(***************************************************************************)
Lists(r, S) ==
  /\ r \in Seq(S)
  /\ \A x \in S : \E n \in 1 .. Len(r) : r[n] = x

Keyed(S, key) == {[key |-> key[x], of |-> x] : x \in S}

InKeyOrder(K) == InOrder(K, KeyPrecedes)

Listing(S, key) == [i \in 1 .. Cardinality(S) |-> InKeyOrder(Keyed(S, key))[i].of]

\* sort_by lists every element once, in the order of the keys, which are distinct.
LEMMA ListingLists ==
  ASSUME NEW S, IsFiniteSet(S), NEW key \in [S -> Seq(Int)],
         \A x, y \in S : key[x] = key[y] => x = y
  PROVE  /\ Lists(Listing(S, key), S)
         /\ \A n \in 1 .. Len(Listing(S, key)) :
              Cardinality({y \in S : LexLess(key[y], key[Listing(S, key)[n]])}) = n - 1
<1> DEFINE K == Keyed(S, key)
           tag == [x \in S |-> [key |-> key[x], of |-> x]]
<1>1. tag \in [S -> K] /\ (\A x, y \in S : tag[x] = tag[y] => x = y)
      /\ \A p \in K : \E x \in S : tag[x] = p
  BY DEF Keyed
<1>2. tag \in Bijection(S, K)
  BY <1>1 DEF Bijection, Injection, Surjection, IsInjective
<1>3. IsFiniteSet(K) /\ Cardinality(K) = Cardinality(S) /\ Cardinality(S) \in Nat
  BY <1>2, FS_Bijection, FS_CardinalityType DEF ExistsBijection
<1>4. \A p \in K : p.key \in Seq(Int) /\ p.of \in S /\ p.key = key[p.of]
  BY DEF Keyed
<1>5. \A p, q \in K : p.key = q.key => p = q
  BY DEF Keyed
<1>6. \A s, t : Best!LexLess(s, t) <=> LexLess(s, t)
  BY DEF Best!LexLess, LexLess
<1> HIDE DEF K
<1>7. Best!StrictTotalOrder(K)
  <2>1. \A p \in K : ~KeyPrecedes(p, p)
    BY <1>4, <1>6, Best!LexLessIsOrder DEF KeyPrecedes
  <2>2. \A p, q \in K : p # q => KeyPrecedes(p, q) \/ KeyPrecedes(q, p)
    BY <1>4, <1>5, <1>6, Best!LexLessIsOrder DEF KeyPrecedes
  <2>3. \A p, q, u \in K : KeyPrecedes(p, q) /\ KeyPrecedes(q, u) => KeyPrecedes(p, u)
    BY <1>4, <1>6, Best!LexLessIsOrder DEF KeyPrecedes
  <2> QED
    BY <2>1, <2>2, <2>3 DEF Best!StrictTotalOrder
<1> DEFINE N == Cardinality(S)
           order == InKeyOrder(K)
           r == Listing(S, key)
<1>8. order = Best!Enumeration(K)
  BY Zenon DEF InKeyOrder, InOrder, Best!InOrder, Best!Enumeration, Cardinality, Best!Cardinality
<1>9. /\ order \in [1 .. N -> K]
      /\ \A p \in K : \E n \in 1 .. N : order[n] = p
      /\ \A n \in 1 .. N : Cardinality(Best!Before(K, order[n])) = n - 1
  <2>1. Best!IsFiniteSet(K) /\ Best!Cardinality(K) = N
    BY <1>3, SameCardinality
  <2> HIDE DEF order, N
  <2>2. /\ Best!Enumeration(K) \in [1 .. Best!Cardinality(K) -> K]
        /\ \A p \in K : \E n \in 1 .. Best!Cardinality(K) : Best!Enumeration(K)[n] = p
        /\ \A n \in 1 .. Best!Cardinality(K) :
             Best!Cardinality(Best!Before(K, Best!Enumeration(K)[n])) = n - 1
    BY <1>7, <2>1, Best!InOrderEnumerates, Zenon
  <2>3. \A n \in 1 .. N : Best!Cardinality(Best!Before(K, order[n])) = n - 1
    BY <1>8, <2>1, <2>2
  <2>4. \A n \in 1 .. N : Cardinality(Best!Before(K, order[n])) = n - 1
    BY <2>3, SameCardinality
  <2> QED
    BY <1>8, <2>1, <2>2, <2>4
<1>10. r = [i \in 1 .. N |-> order[i].of]
  BY DEF Listing, K
<1> HIDE DEF order, r, N
<1>11. r \in [1 .. N -> S] /\ N \in Nat
  BY <1>3, <1>4, <1>9, <1>10 DEF N
<1>12. \A x \in S : \E n \in 1 .. N : r[n] = x
  <2> SUFFICES ASSUME NEW x \in S PROVE \E n \in 1 .. N : r[n] = x
    OBVIOUS
  <2>1. PICK n \in 1 .. N : order[n] = tag[x]
    BY <1>1, <1>9
  <2> QED
    BY <1>10, <2>1
<1>13. r \in Seq(S) /\ Len(r) = N
  BY <1>11
<1>14. ASSUME NEW n \in 1 .. N
       PROVE  Cardinality({y \in S : LexLess(key[y], key[r[n]])}) = n - 1
  <2> DEFINE A == {y \in S : LexLess(key[y], key[r[n]])}
             B == Best!Before(K, order[n])
             f == [y \in A |-> tag[y]]
  <2>1. order[n] \in K /\ r[n] = order[n].of /\ order[n].key = key[r[n]]
    BY <1>4, <1>9, <1>10
  <2>2. \A q : q \in B <=> q \in K /\ LexLess(q.key, key[r[n]])
    BY <2>1 DEF Best!Before, KeyPrecedes
  <2>3. \A y \in S : tag[y].key = key[y]
    OBVIOUS
  <2> HIDE DEF tag, B
  <2>4. f \in [A -> B] /\ \A x, y \in A : f[x] = f[y] => x = y
    BY <1>1, <2>2, <2>3
  <2>5. \A q \in B : \E y \in A : f[y] = q
    <3> SUFFICES ASSUME NEW q \in B PROVE \E y \in A : f[y] = q
      OBVIOUS
    <3>1. PICK y \in S : tag[y] = q
      BY <1>1, <2>2
    <3>2. y \in A
      BY <2>2, <2>3, <3>1
    <3> QED
      BY <3>1, <3>2
  <2>6. f \in Bijection(A, B)
    BY <2>4, <2>5 DEF Bijection, Injection, Surjection, IsInjective
  <2>7. IsFiniteSet(A)
    BY FS_Subset
  <2>8. Cardinality(B) = Cardinality(A)
    BY <2>6, <2>7, FS_Bijection DEF ExistsBijection
  <2> HIDE DEF A
  <2>9. Cardinality(A) = n - 1
    BY <1>9, <2>8 DEF B
  <2> QED
    BY <2>9 DEF A
<1> QED
  BY <1>12, <1>13, <1>14 DEF Lists, r

ListedIn(r, S) == DOMAIN r = 1 .. Len(r) /\ Len(r) \in Nat /\ \A i \in 1 .. Len(r) : r[i] \in S

LEMMA ListsAreListed ==
  ASSUME NEW r, NEW S, Lists(r, S)
  PROVE  ListedIn(r, S) /\ \A x \in S : \E i \in 1 .. Len(r) : r[i] = x
<1>1. r \in Seq(S)
  BY DEF Lists
<1> QED
  BY <1>1, LenProperties, ElementOfSeq DEF Lists, ListedIn

-----------------------------------------------------------------------------
(***************************************************************************)
(* Edges and their lists.                                                  *)
(***************************************************************************)
AnEdge == [start : Nat, end : Nat, canonical : Seq(Char), kind : DOMAIN Kind]

\* What add_edge_with_cost asserts of an edge.
EdgesIn(w) == {e \in AnEdge : e.start < e.end /\ e.end <= Len(w)}

LEMMA Kinds ==
  /\ DOMAIN Kind = {"Complete", "Incomplete", "Raw"}
  /\ \A k \in DOMAIN Kind : Kind[k] \in Nat
  /\ \A k, l \in DOMAIN Kind : Kind[k] = Kind[l] => k = l
BY DEF Kind

LEMMA Chars ==
  /\ Char \subseteq Nat /\ Letter \subseteq Char /\ Quote \in Char
  /\ \A s \in Seq(Char) : s \in Seq(Int)
<1>1. Char \subseteq Nat /\ Letter \subseteq Char /\ Quote \in Char
  BY ReadingsAssumption DEF Char
<1>2. Char \subseteq Int
  BY <1>1
<1>3. \A s \in Seq(Char) : s \in Seq(Int)
  BY <1>2, SeqMonotonic
<1> QED
  BY <1>1, <1>3

KeyOf(a, b, s, t) == <<a, b>> \o s \o <<0, t>>

Parts(k, a, b, s, t) ==
  /\ k \in Seq(Int) /\ Len(k) = Len(s) + 4
  /\ k[1] = a /\ k[2] = b /\ k[Len(s) + 4] = t
  /\ \A i \in 1 .. Len(s) : k[i + 2] = s[i]

LEMMA KeyParts ==
  ASSUME NEW a \in Nat, NEW b \in Nat, NEW s \in Seq(Char), NEW t \in Nat
  PROVE  Parts(KeyOf(a, b, s, t), a, b, s, t)
<1> DEFINE n == Len(s)
           span == <<a, b>>
           last == <<0, t>>
           front == span \o s
           k == KeyOf(a, b, s, t)
<1>1. s \in Seq(Int) /\ n \in Nat
  BY Chars
<1>2. span \in Seq(Int) /\ last \in Seq(Int) /\ Len(span) = 2 /\ Len(last) = 2
      /\ span[1] = a /\ span[2] = b /\ last[2] = t
  OBVIOUS
<1> HIDE DEF span, last
<1>3. /\ front \in Seq(Int) /\ Len(front) = 2 + n
      /\ \A i \in 1 .. 2 + n : front[i] = IF i <= 2 THEN span[i] ELSE s[i - 2]
  <2>1. /\ front \in Seq(Int) /\ Len(front) = Len(span) + Len(s)
        /\ \A i \in 1 .. Len(span) + Len(s) :
             front[i] = IF i <= Len(span) THEN span[i] ELSE s[i - Len(span)]
    BY <1>1, <1>2, ConcatProperties, Zenon
  <2> HIDE DEF front
  <2> QED
    BY <1>2, <2>1
<1>4. /\ k \in Seq(Int) /\ Len(k) = (2 + n) + 2
      /\ \A i \in 1 .. (2 + n) + 2 : k[i] = IF i <= 2 + n THEN front[i] ELSE last[i - (2 + n)]
  <2>1. k = front \o last
    BY DEF KeyOf, span, last
  <2> HIDE DEF front, k
  <2>2. /\ front \o last \in Seq(Int) /\ Len(front \o last) = Len(front) + Len(last)
        /\ \A i \in 1 .. Len(front) + Len(last) :
             (front \o last)[i] = IF i <= Len(front) THEN front[i] ELSE last[i - Len(front)]
    BY <1>2, <1>3, ConcatProperties, Zenon
  <2> QED
    BY <1>2, <1>3, <2>1, <2>2
<1> HIDE DEF front, k, n
<1>5. k[1] = a /\ k[2] = b
  BY <1>1, <1>2, <1>3, <1>4
<1>6. ASSUME NEW i \in 1 .. n
      PROVE  k[i + 2] = s[i]
  <2>1. i + 2 \in 1 .. 2 + n /\ i + 2 \in 1 .. (2 + n) + 2 /\ ~(i + 2 <= 2) /\ (i + 2) - 2 = i
        /\ i + 2 <= 2 + n
    BY <1>1
  <2>2. k[i + 2] = front[i + 2] /\ front[i + 2] = s[(i + 2) - 2]
    BY <1>3, <1>4, <2>1
  <2> QED
    BY <2>1, <2>2
<1>7. k[n + 4] = t
  BY <1>1, <1>2, <1>4
<1> QED
  BY <1>1, <1>4, <1>5, <1>6, <1>7 DEF k, n, Parts

\* The key of finish tells edges apart.
LEMMA EdgeKeys ==
  /\ \A e \in AnEdge : EdgeKey(e) \in Seq(Int)
  /\ \A e, f \in AnEdge : EdgeKey(e) = EdgeKey(f) => e = f
<1>1. \A e \in AnEdge : e.start \in Nat /\ e.end \in Nat /\ e.canonical \in Seq(Char)
                        /\ e.kind \in DOMAIN Kind /\ Kind[e.kind] \in Nat
  BY Kinds DEF AnEdge
<1>2. \A e \in AnEdge : \E a, b, t \in Nat, s \in Seq(Char) :
        /\ a = e.start /\ b = e.end /\ s = e.canonical /\ t = Kind[e.kind]
        /\ EdgeKey(e) = KeyOf(a, b, s, t)
  BY <1>1 DEF EdgeKey, KeyOf
<1>3. ASSUME NEW e \in AnEdge
      PROVE  EdgeKey(e) \in Seq(Int)
  BY <1>2, KeyParts DEF Parts
<1>4. ASSUME NEW e \in AnEdge, NEW f \in AnEdge, EdgeKey(e) = EdgeKey(f)
      PROVE  e = f
  <2>1. e.start = f.start /\ e.end = f.end /\ e.canonical = f.canonical
        /\ Kind[e.kind] = Kind[f.kind]
    <3>1. PICK a \in Nat, b \in Nat, t \in Nat, s \in Seq(Char) :
            /\ a = e.start /\ b = e.end /\ s = e.canonical /\ t = Kind[e.kind]
            /\ EdgeKey(e) = KeyOf(a, b, s, t)
      BY <1>2
    <3>2. PICK c \in Nat, d \in Nat, v \in Nat, u \in Seq(Char) :
            /\ c = f.start /\ d = f.end /\ u = f.canonical /\ v = Kind[f.kind]
            /\ EdgeKey(f) = KeyOf(c, d, u, v)
      BY <1>2
    <3>3. KeyOf(a, b, s, t) = KeyOf(c, d, u, v)
      BY <1>4, <3>1, <3>2
    <3>4. PICK k : k = KeyOf(a, b, s, t)
      OBVIOUS
    <3>5. Parts(k, a, b, s, t)
      BY <3>4, KeyParts
    <3>6. Parts(k, c, d, u, v)
      BY <3>3, <3>4, KeyParts
    <3>7. Len(s) \in Nat /\ Len(u) \in Nat
      OBVIOUS
    <3>8. a = c /\ b = d /\ Len(s) = Len(u)
      BY <3>5, <3>6, <3>7 DEF Parts
    <3>9. t = v /\ \A i \in 1 .. Len(s) : s[i] = u[i]
      BY <3>5, <3>6, <3>8 DEF Parts
    <3>10. s = u
      BY <3>8, <3>9, SeqEqual
    <3> QED
      BY <3>1, <3>2, <3>8, <3>9, <3>10
  <2>2. e.kind = f.kind
    BY <1>1, <2>1, Kinds
  <2> QED
    BY <2>1, <2>2 DEF AnEdge
<1> QED
  BY <1>3, <1>4

\* edges_from, edges and what is filtered from them list what they say.
LEMMA EdgesListed ==
  ASSUME NEW S, S \subseteq AnEdge, IsFiniteSet(S)
  PROVE  Lists(SortedBy(S, EdgeKey), S)
<1> DEFINE key == [e \in S |-> EdgeKey(e)]
<1>1. key \in [S -> Seq(Int)] /\ \A e, f \in S : key[e] = key[f] => e = f
  BY EdgeKeys
<1>2. Keyed(S, key) = {[key |-> EdgeKey(e), of |-> e] : e \in S}
  BY DEF Keyed
<1> HIDE DEF key
<1>3. SortedBy(S, EdgeKey) =
        [i \in 1 .. Cardinality(S) |-> InKeyOrder({[key |-> EdgeKey(e), of |-> e] : e \in S})[i].of]
  BY Zenon DEF SortedBy, InKeyOrder, InOrder, KeyPrecedes
<1>4. SortedBy(S, EdgeKey) = Listing(S, key)
  BY <1>2, <1>3, Zenon DEF Listing
<1> QED
  BY <1>1, <1>4, ListingLists

-----------------------------------------------------------------------------
(***************************************************************************)
(* The recursions along the input: paths to the end, and what is reached   *)
(* from the start.                                                         *)
(***************************************************************************)
EdgesFit(w, g) == DOMAIN g \subseteq EdgesIn(w)

Path == Seq(AnEdge)

Onto(e, s) == <<e>> \o s

AllStep(w, g, f, o) ==
  IF o = Len(w) THEN {<<>>}
  ELSE UNION {{<<e>> \o suffix : suffix \in f[e.end]} : e \in {d \in DOMAIN g : d.start = o}}

\* p is an edge from o and a path of f from where the edge ends.
Leads(g, f, o, p) == \E e \in DOMAIN g : \E s \in f[e.end] : e.start = o /\ p = Onto(e, s)

\* The paths from each offset to the end; AllPaths is those from 0.
PathsFrom(w, g) ==
  LET paths[o \in 0 .. Len(w)] ==
        IF o = Len(w) THEN {<<>>}
        ELSE UNION {{<<e>> \o suffix : suffix \in paths[e.end]} :
                      e \in {f \in DOMAIN g : f.start = o}}
  IN  paths

LEMMA EdgeSpans ==
  ASSUME NEW w \in Seq(Char), NEW g, EdgesFit(w, g), NEW e \in DOMAIN g
  PROVE  /\ e \in AnEdge /\ e.start \in 0 .. Len(w) - 1 /\ e.end \in 1 .. Len(w)
         /\ e.start \in 0 .. Len(w) /\ e.end \in 0 .. Len(w) /\ e.start < e.end
BY DEF EdgesFit, EdgesIn, AnEdge

LEMMA OneMore ==
  ASSUME NEW e \in AnEdge, NEW s \in Path
  PROVE  /\ Onto(e, s) \in Path
         /\ Len(s) \in Nat /\ Len(Onto(e, s)) = Len(s) + 1
         /\ Onto(e, s)[1] = e
         /\ \A i \in 1 .. Len(s) : Onto(e, s)[i + 1] = s[i]
<1>1. <<e>> \in Seq(AnEdge) /\ s \in Seq(AnEdge) /\ Len(<<e>>) = 1 /\ <<e>>[1] = e
  BY DEF Path
<1> QED
  BY <1>1, ConcatProperties DEF Path, Onto

LEMMA AllStepMembers ==
  ASSUME NEW w, NEW g, NEW f, NEW o
  PROVE  /\ o = Len(w) => AllStep(w, g, f, o) = {<<>>}
         /\ o # Len(w) => \A p : p \in AllStep(w, g, f, o) <=> Leads(g, f, o, p)
<1>1. o = Len(w) => AllStep(w, g, f, o) = {<<>>}
  BY DEF AllStep
<1>2. ASSUME o # Len(w), NEW p
      PROVE  p \in AllStep(w, g, f, o) <=> Leads(g, f, o, p)
  <2> DEFINE sets == {{Onto(e, suffix) : suffix \in f[e.end]} : e \in {d \in DOMAIN g : d.start = o}}
  <2>1. AllStep(w, g, f, o) = UNION sets
    BY <1>2, Zenon DEF AllStep, Onto
  <2>2. p \in UNION sets <=> \E e \in {d \in DOMAIN g : d.start = o} :
                                p \in {Onto(e, suffix) : suffix \in f[e.end]}
    BY Zenon
  <2> QED
    BY <2>1, <2>2, Zenon DEF Leads
<1> QED
  BY <1>1, <1>2

LEMMA AllStepTyped ==
  ASSUME NEW w \in Seq(Char), NEW g, EdgesFit(w, g), NEW o \in 0 .. Len(w), NEW f,
         \A k \in 0 .. Len(w) : k > o => f[k] \subseteq Path
  PROVE  AllStep(w, g, f, o) \subseteq Path
<1>1. CASE o = Len(w)
  <2>1. <<>> \in Path
    BY DEF Path
  <2> QED
    BY <1>1, <2>1, AllStepMembers, Zenon
<1>2. CASE o # Len(w)
  <2> SUFFICES ASSUME NEW e \in DOMAIN g, e.start = o, NEW s \in f[e.end]
               PROVE  Onto(e, s) \in Path
    BY <1>2, AllStepMembers DEF Leads
  <2>1. e \in AnEdge /\ s \in Path
    BY EdgeSpans
  <2> QED
    BY <2>1, OneMore
<1> QED
  BY <1>1, <1>2

LEMMA PathsRecursion ==
  ASSUME NEW w \in Seq(Char), NEW g, EdgesFit(w, g)
  PROVE  \A o \in 0 .. Len(w) : /\ PathsFrom(w, g)[o] = AllStep(w, g, PathsFrom(w, g), o)
                                /\ PathsFrom(w, g)[o] \subseteq Path
<1> DEFINE n == Len(w)
           D == 0 .. n
           V == SUBSET Path
           rank == [o \in D |-> n - o]
           step == [p \in [D -> V] \X D |-> AllStep(w, g, p[1], p[2])]
           P == PathsFrom(w, g)
<1>1. n \in Nat /\ rank \in [D -> 0 .. n] /\ {} \in V
  OBVIOUS
<1>2. step \in [[D -> V] \X D -> V] /\ \A f \in [D -> V], o \in D : step[<<f, o>>] = AllStep(w, g, f, o)
  <2>1. ASSUME NEW f \in [D -> V], NEW o \in D
        PROVE  AllStep(w, g, f, o) \in V
    BY AllStepTyped
  <2> QED
    BY <2>1
<1>3. ASSUME NEW o \in D, NEW f \in [D -> V], NEW h \in [D -> V],
             \A k \in D : rank[k] < rank[o] => f[k] = h[k]
      PROVE  step[<<f, o>>] = step[<<h, o>>]
  <2>1. \A e \in DOMAIN g : e.start = o => f[e.end] = h[e.end]
    BY <1>1, <1>3, EdgeSpans
  <2>2. AllStep(w, g, f, o) = AllStep(w, g, h, o)
    <3>1. CASE o = n
      BY <3>1, AllStepMembers
    <3>2. CASE o # n
      <4>1. \A p : Leads(g, f, o, p) <=> Leads(g, h, o, p)
        BY <2>1 DEF Leads
      <4>2. \A p : p \in AllStep(w, g, f, o) <=> p \in AllStep(w, g, h, o)
        BY <3>2, <4>1, AllStepMembers
      <4> QED
        BY <4>2
    <3> QED
      BY <3>1, <3>2
  <2> QED
    BY <1>2, <2>2
<1>4. Best!Descends(D, V, rank, step)
  BY <1>3 DEF Best!Descends
<1> HIDE DEF V, D, n, rank, step
<1>5. \E f \in [D -> V] : Best!Solution(D, step, f)
  BY <1>1, <1>2, <1>4, Best!RecursionExists, Zenon
<1>6. \E f : f = [o \in D |-> AllStep(w, g, f, o)]
  BY <1>2, <1>5 DEF Best!Solution
<1>7. P = [o \in D |-> AllStep(w, g, P, o)]
  BY <1>6, Zenon DEF PathsFrom, AllStep, D, n
<1> HIDE DEF P
<1>8. \A o \in D : P[o] \subseteq Path
  <2> DEFINE Good == {k \in Nat : \A o \in D : n - o <= k => P[o] \subseteq Path}
  <2>1. ASSUME NEW o \in D, \A k \in D : k > o => P[k] \subseteq Path
        PROVE  P[o] \subseteq Path
    BY <1>7, <2>1, AllStepTyped DEF D, n
  <2>2. 0 \in Good
    <3> SUFFICES ASSUME NEW o \in D, n - o <= 0 PROVE P[o] \subseteq Path
      OBVIOUS
    <3>1. \A k \in D : ~(k > o)
      BY <1>1 DEF D
    <3> QED
      BY <2>1, <3>1
  <2>3. ASSUME NEW k \in Nat, k \in Good
        PROVE  k + 1 \in Good
    <3> SUFFICES ASSUME NEW o \in D, n - o <= k + 1 PROVE P[o] \subseteq Path
      OBVIOUS
    <3>1. \A l \in D : l > o => n - l <= k
      BY <1>1 DEF D
    <3> QED
      BY <2>1, <2>3, <3>1
  <2> HIDE DEF Good
  <2>4. n \in Good
    BY <1>1, <2>2, <2>3, Best!SetInduction
  <2> QED
    BY <1>1, <2>4 DEF Good, D
<1> QED
  BY <1>7, <1>8 DEF D, n, P

\* A path to the end is an edge and a path from where the edge ends.
LEMMA PathMembers ==
  ASSUME NEW w \in Seq(Char), NEW g, EdgesFit(w, g)
  PROVE  /\ PathsFrom(w, g)[Len(w)] = {<<>>}
         /\ \A o \in 0 .. Len(w) - 1 : \A p :
              p \in PathsFrom(w, g)[o] <=> Leads(g, PathsFrom(w, g), o, p)
         /\ AllPaths(w, g) = PathsFrom(w, g)[0]
<1>1. Len(w) \in Nat
  OBVIOUS
<1>2. PathsFrom(w, g)[Len(w)] = {<<>>}
  <2>1. Len(w) \in 0 .. Len(w)
    BY <1>1
  <2> QED
    BY <2>1, PathsRecursion, AllStepMembers
<1>3. ASSUME NEW o \in 0 .. Len(w) - 1, NEW p
      PROVE  p \in PathsFrom(w, g)[o] <=> Leads(g, PathsFrom(w, g), o, p)
  <2>1. o # Len(w) /\ o \in 0 .. Len(w)
    BY <1>1
  <2>2. PathsFrom(w, g)[o] = AllStep(w, g, PathsFrom(w, g), o)
    BY <2>1, PathsRecursion
  <2> QED
    BY <2>1, <2>2, AllStepMembers
<1>4. AllPaths(w, g) = PathsFrom(w, g)[0]
  BY Zenon DEF AllPaths, PathsFrom
<1> QED
  BY <1>2, <1>3, <1>4

ReachedBy(w, g, f, o) ==
  o = 0 \/ \E e \in DOMAIN g : e.end = o /\ Spelled(w, e) /\ f[e.start]

Reached(w, g) ==
  LET reachable[o \in 0 .. Len(w)] ==
        o = 0 \/ \E e \in DOMAIN g : e.end = o /\ Spelled(w, e) /\ reachable[e.start]
  IN  reachable

LEMMA ReachedRecursion ==
  ASSUME NEW w \in Seq(Char), NEW g, EdgesFit(w, g)
  PROVE  /\ \A o \in 0 .. Len(w) : Reached(w, g)[o] <=> ReachedBy(w, g, Reached(w, g), o)
         /\ HasCompletePath(w, g) = Reached(w, g)[Len(w)]
<1> DEFINE n == Len(w)
           D == 0 .. n
           V == BOOLEAN
           rank == [o \in D |-> o]
           step == [p \in [D -> V] \X D |-> ReachedBy(w, g, p[1], p[2])]
           R == Reached(w, g)
<1>1. n \in Nat /\ rank \in [D -> 0 .. n] /\ TRUE \in V
  OBVIOUS
<1>2. step \in [[D -> V] \X D -> V] /\ \A f \in [D -> V], o \in D : step[<<f, o>>] = ReachedBy(w, g, f, o)
  <2>1. ASSUME NEW f \in [D -> V], NEW o \in D
        PROVE  ReachedBy(w, g, f, o) \in V
    BY DEF ReachedBy
  <2> QED
    BY <2>1
<1>3. ASSUME NEW o \in D, NEW f \in [D -> V], NEW h \in [D -> V],
             \A k \in D : rank[k] < rank[o] => f[k] = h[k]
      PROVE  step[<<f, o>>] = step[<<h, o>>]
  <2>1. \A e \in DOMAIN g : e.end = o => f[e.start] = h[e.start]
    BY <1>1, <1>3, EdgeSpans
  <2>2. ReachedBy(w, g, f, o) = ReachedBy(w, g, h, o)
    BY <2>1 DEF ReachedBy
  <2> QED
    BY <1>2, <2>2
<1>4. Best!Descends(D, V, rank, step)
  BY <1>3 DEF Best!Descends
<1> HIDE DEF V, D, n, rank, step
<1>5. \E f \in [D -> V] : Best!Solution(D, step, f)
  BY <1>1, <1>2, <1>4, Best!RecursionExists, Zenon
<1>6. \E f : f = [o \in D |-> ReachedBy(w, g, f, o)]
  BY <1>2, <1>5 DEF Best!Solution
<1>7. R = [o \in D |-> ReachedBy(w, g, R, o)]
  BY <1>6, Zenon DEF Reached, ReachedBy, D, n
<1>8. HasCompletePath(w, g) = R[n]
  BY Zenon DEF HasCompletePath, Reached, n
<1> HIDE DEF R
<1> QED
  BY <1>7, <1>8 DEF D, n, R

SpelledPath(w, p) == \A i \in DOMAIN p : Spelled(w, p[i])

LEMMA SpelledOnto ==
  ASSUME NEW w, NEW e \in AnEdge, NEW s \in Path
  PROVE  SpelledPath(w, Onto(e, s)) <=> Spelled(w, e) /\ SpelledPath(w, s)
<1> DEFINE p == Onto(e, s)
<1>1. /\ DOMAIN p = 1 .. Len(s) + 1 /\ DOMAIN s = 1 .. Len(s) /\ Len(s) \in Nat
      /\ p[1] = e /\ \A i \in 1 .. Len(s) : p[i + 1] = s[i]
  <2>1. /\ p \in Path /\ Len(s) \in Nat /\ Len(p) = Len(s) + 1
        /\ p[1] = e /\ \A i \in 1 .. Len(s) : p[i + 1] = s[i]
    BY OneMore
  <2>2. DOMAIN p = 1 .. Len(p) /\ DOMAIN s = 1 .. Len(s)
    BY <2>1, LenProperties DEF Path
  <2> QED
    BY <2>1, <2>2
<1> HIDE DEF p
<1>2. ASSUME SpelledPath(w, p)
      PROVE  Spelled(w, e) /\ SpelledPath(w, s)
  <2>1. 1 \in DOMAIN p /\ \A i \in 1 .. Len(s) : i + 1 \in DOMAIN p
    BY <1>1
  <2> QED
    BY <1>1, <1>2, <2>1 DEF SpelledPath
<1>3. ASSUME Spelled(w, e), SpelledPath(w, s)
      PROVE  SpelledPath(w, p)
  <2> SUFFICES ASSUME NEW i \in 1 .. Len(s) + 1 PROVE Spelled(w, p[i])
    BY <1>1 DEF SpelledPath
  <2>1. CASE i = 1
    BY <1>1, <1>3, <2>1
  <2>2. CASE i # 1
    <3>1. i - 1 \in 1 .. Len(s) /\ (i - 1) + 1 = i
      BY <1>1, <2>2
    <3>2. p[i] = s[i - 1]
      BY <1>1, <3>1
    <3> QED
      BY <1>1, <1>3, <3>1, <3>2 DEF SpelledPath
  <2> QED
    BY <2>1, <2>2
<1> QED
  BY <1>2, <1>3 DEF p

\* The test that gates abbreviations is exact, for every graph.
LEMMA CompletePathIsPath ==
  ASSUME NEW w \in Seq(Char), NEW g, EdgesFit(w, g)
  PROVE  HasCompletePath(w, g) <=> \E p \in AllPaths(w, g) : SpelledPath(w, p)
<1> DEFINE n == Len(w)
           R == Reached(w, g)
           P == PathsFrom(w, g)
           Ends(o) == \E s \in P[o] : SpelledPath(w, s)
<1>0. n \in Nat /\ \A o \in 0 .. n : P[o] \subseteq Path
  BY PathsRecursion
<1>1. /\ \A o \in 0 .. n : R[o] <=> ReachedBy(w, g, R, o)
      /\ HasCompletePath(w, g) = R[n]
  BY ReachedRecursion
<1>2. /\ P[n] = {<<>>} /\ AllPaths(w, g) = P[0]
      /\ \A o \in 0 .. n - 1 : \A p : p \in P[o] <=> Leads(g, P, o, p)
  BY PathMembers
<1>3. \A e \in DOMAIN g : /\ e \in AnEdge /\ e.start \in 0 .. n - 1 /\ e.end \in 1 .. n
                          /\ e.start \in 0 .. n /\ e.end \in 0 .. n /\ e.start < e.end
  BY EdgeSpans
<1> HIDE DEF n, R, P
<1>4. Ends(n)
  <2>1. SpelledPath(w, <<>>)
    BY DEF SpelledPath
  <2> QED
    BY <1>2, <2>1
<1>5. ASSUME NEW e \in DOMAIN g, Spelled(w, e), Ends(e.end)
      PROVE  Ends(e.start)
  <2>1. PICK s \in P[e.end] : SpelledPath(w, s)
    BY <1>5
  <2>2. s \in Path
    BY <1>0, <1>3, <2>1
  <2>3. SpelledPath(w, Onto(e, s))
    BY <1>3, <1>5, <2>1, <2>2, SpelledOnto
  <2>4. Leads(g, P, e.start, Onto(e, s))
    BY <2>1 DEF Leads
  <2>5. Onto(e, s) \in P[e.start]
    BY <1>2, <1>3, <2>4
  <2> QED
    BY <2>3, <2>5
<1>6. ASSUME R[n]
      PROVE  Ends(0)
  <2> DEFINE Good == {k \in Nat : \A o \in 0 .. k : o <= n /\ R[o] /\ Ends(o) => Ends(0)}
  <2>1. 0 \in Good
    OBVIOUS
  <2>2. ASSUME NEW k \in Nat, k \in Good
        PROVE  k + 1 \in Good
    <3> SUFFICES ASSUME k + 1 <= n, R[k + 1], Ends(k + 1)
                 PROVE  Ends(0)
      <4>1. \A o \in 0 .. k + 1 : o \in 0 .. k \/ o = k + 1
        OBVIOUS
      <4> QED
        BY <2>2, <4>1
    <3>1. k + 1 \in 0 .. n /\ k + 1 # 0
      BY <1>0
    <3>2. PICK e \in DOMAIN g : e.end = k + 1 /\ Spelled(w, e) /\ R[e.start]
      BY <1>1, <3>1 DEF ReachedBy
    <3>3. Ends(e.start)
      BY <1>5, <3>2
    <3>4. e.start \in 0 .. k /\ e.start <= n
      BY <1>0, <1>3, <3>2
    <3> QED
      BY <2>2, <3>2, <3>3, <3>4
  <2> HIDE DEF Good
  <2>3. n \in Good
    BY <1>0, <2>1, <2>2, Best!SetInduction
  <2> QED
    BY <1>0, <1>4, <1>6, <2>3 DEF Good
<1>7. ASSUME Ends(0)
      PROVE  R[n]
  <2> DEFINE Good == {k \in Nat : \A o \in 0 .. n : n - o <= k /\ R[o] /\ Ends(o) => R[n]}
  <2>1. 0 \in Good
    <3>1. \A o \in 0 .. n : n - o <= 0 => o = n
      BY <1>0
    <3> QED
      BY <3>1
  <2>2. ASSUME NEW k \in Nat, k \in Good
        PROVE  k + 1 \in Good
    <3> SUFFICES ASSUME NEW o \in 0 .. n, n - o <= k + 1, R[o], Ends(o), o # n
                 PROVE  R[n]
      OBVIOUS
    <3>1. o \in 0 .. n - 1
      BY <1>0
    <3>2. PICK p \in P[o] : SpelledPath(w, p)
      OBVIOUS
    <3>3. Leads(g, P, o, p)
      BY <1>2, <3>1
    <3>4a. PICK e \in DOMAIN g : \E s \in P[e.end] : e.start = o /\ p = Onto(e, s)
      BY <3>3 DEF Leads
    <3>4. PICK s \in P[e.end] : e.start = o /\ p = Onto(e, s)
      BY <3>4a
    <3>5. s \in Path
      BY <1>0, <1>3, <3>4
    <3>6. Spelled(w, e) /\ SpelledPath(w, s)
      BY <1>3, <3>2, <3>4, <3>5, SpelledOnto
    <3>7. R[e.end]
      BY <1>1, <1>3, <3>4, <3>6 DEF ReachedBy
    <3>8. e.end \in 0 .. n /\ n - e.end <= k
      BY <1>0, <1>3, <3>4
    <3> QED
      BY <2>2, <3>4, <3>6, <3>7, <3>8
  <2> HIDE DEF Good
  <2>3. n \in Good
    BY <1>0, <2>1, <2>2, Best!SetInduction
  <2>4. R[0] /\ 0 \in 0 .. n /\ n - 0 <= n
    BY <1>0, <1>1 DEF ReachedBy
  <2> QED
    BY <1>7, <2>3, <2>4 DEF Good
<1> QED
  BY <1>1, <1>2, <1>6, <1>7 DEF P

-----------------------------------------------------------------------------
(***************************************************************************)
(* What is_preferred_to compares, and the best path from each offset.      *)
(***************************************************************************)
CountIn(path, K) == Cardinality({i \in DOMAIN path : path[i] \in K})

RawEdges        == {e \in AnEdge : e.kind = "Raw"}
IncompleteEdges == {e \in AnEdge : e.kind = "Incomplete"}
SingleEdges     == {e \in AnEdge : e.kind = "Complete" /\ e.end = e.start + 1}

One(e, K) == IF e \in K THEN 1 ELSE 0

LEMMA CountOnto ==
  ASSUME NEW K, NEW e \in AnEdge, NEW s \in Path
  PROVE  /\ CountIn(s, K) \in Nat
         /\ CountIn(Onto(e, s), K) = One(e, K) + CountIn(s, K)
<1> DEFINE p == Onto(e, s)
           A == {i \in DOMAIN s : s[i] \in K}
           B == {i \in DOMAIN p : p[i] \in K}
           C == {i + 1 : i \in A}
           up == [i \in A |-> i + 1]
<1>1. /\ DOMAIN p = 1 .. Len(s) + 1 /\ DOMAIN s = 1 .. Len(s) /\ Len(s) \in Nat
      /\ p[1] = e /\ \A i \in 1 .. Len(s) : p[i + 1] = s[i]
  <2>1. /\ p \in Path /\ Len(s) \in Nat /\ Len(p) = Len(s) + 1
        /\ p[1] = e /\ \A i \in 1 .. Len(s) : p[i + 1] = s[i]
    BY OneMore
  <2>2. DOMAIN p = 1 .. Len(p) /\ DOMAIN s = 1 .. Len(s)
    BY <2>1, LenProperties DEF Path
  <2> QED
    BY <2>1, <2>2
<1> HIDE DEF p
<1>2. A \subseteq 1 .. Len(s) /\ A \subseteq Nat
  BY <1>1
<1>3. IsFiniteSet(A) /\ Cardinality(A) \in Nat
  <2>1. IsFiniteSet(1 .. Len(s))
    BY <1>1, FS_Interval
  <2> QED
    BY <1>2, <2>1, FS_Subset, FS_CardinalityType
<1>4. up \in Bijection(A, C)
  <2>1. up \in [A -> C] /\ (\A i, j \in A : up[i] = up[j] => i = j) /\ \A c \in C : \E i \in A : up[i] = c
    BY <1>2
  <2> QED
    BY <2>1 DEF Bijection, Injection, Surjection, IsInjective
<1>5. IsFiniteSet(C) /\ Cardinality(C) = Cardinality(A)
  BY <1>3, <1>4, FS_Bijection DEF ExistsBijection
<1>6. 1 \notin C
  BY <1>2
<1>7. B = IF e \in K THEN C \cup {1} ELSE C
  <2>1. \A i : i \in B <=> i \in 1 .. Len(s) + 1 /\ p[i] \in K
    BY <1>1
  <2>2. \A i : i \in C <=> i - 1 \in 1 .. Len(s) /\ s[i - 1] \in K /\ i \in Int
    BY <1>1, <1>2
  <2>3. \A i \in 1 .. Len(s) + 1 : i # 1 => i - 1 \in 1 .. Len(s) /\ p[i] = s[i - 1]
    <3> SUFFICES ASSUME NEW i \in 1 .. Len(s) + 1, i # 1
                 PROVE  i - 1 \in 1 .. Len(s) /\ p[i] = s[i - 1]
      OBVIOUS
    <3>1. i - 1 \in 1 .. Len(s) /\ (i - 1) + 1 = i
      BY <1>1
    <3> QED
      BY <1>1, <3>1
  <2>4. \A i : i \in Int /\ i - 1 \in 1 .. Len(s) => i \in 1 .. Len(s) + 1 /\ i # 1
    BY <1>1
  <2>5. \A i : i \in B <=> i \in C \/ (i = 1 /\ e \in K)
    <3> HIDE DEF B, C
    <3>1. 1 \in 1 .. Len(s) + 1
      BY <1>1
    <3> QED
      BY <1>1, <1>6, <2>1, <2>2, <2>3, <2>4, <3>1
  <2> HIDE DEF B, C
  <2> QED
    BY <2>5
<1>8. Cardinality(B) = One(e, K) + Cardinality(A)
  <2> HIDE DEF A, B, C
  <2>1. Cardinality(C \cup {1}) = Cardinality(C) + 1
    BY <1>5, <1>6, FS_AddElement
  <2> QED
    BY <1>3, <1>5, <1>7, <2>1 DEF One
<1> QED
  BY <1>3, <1>8 DEF CountIn, p

LEMMA RankParts ==
  ASSUME NEW s \in Path
  PROVE  Rank(s) = <<CountIn(s, RawEdges), CountIn(s, IncompleteEdges),
                     CountIn(s, SingleEdges), Len(s)>>
<1>1. s \in Seq(AnEdge) /\ \A i \in DOMAIN s : s[i] \in AnEdge
  BY DEF Path
<1>2. {i \in DOMAIN s : s[i].kind = "Raw"} = {i \in DOMAIN s : s[i] \in RawEdges}
  BY <1>1 DEF RawEdges
<1>3. {i \in DOMAIN s : s[i].kind = "Incomplete"} = {i \in DOMAIN s : s[i] \in IncompleteEdges}
  BY <1>1 DEF IncompleteEdges
<1>4. {i \in DOMAIN s : s[i].kind = "Complete" /\ s[i].end = s[i].start + 1}
        = {i \in DOMAIN s : s[i] \in SingleEdges}
  BY <1>1 DEF SingleEdges
<1> QED
  BY <1>2, <1>3, <1>4, Zenon DEF Rank, Count, CountIn

\* Adding the same numbers to both leaves the order of four.
LEMMA LexLessShift ==
  ASSUME NEW a \in [1 .. 4 -> Nat], NEW x \in Seq(Nat), NEW y \in Seq(Nat),
         NEW u \in Seq(Nat), NEW v \in Seq(Nat),
         Len(x) = 4, Len(y) = 4, Len(u) = 4, Len(v) = 4,
         \A i \in 1 .. 4 : u[i] = a[i] + x[i] /\ v[i] = a[i] + y[i],
         LexLess(u, v)
  PROVE  LexLess(x, y)
<1>1. PICK k \in 1 .. 4 : u[k] < v[k] /\ \A i \in 1 .. k - 1 : u[i] = v[i]
  BY DEF LexLess
<1>2. \A i \in 1 .. 4 : a[i] \in Nat /\ x[i] \in Nat /\ y[i] \in Nat
  BY ElementOfSeq
<1>3. x[k] < y[k] /\ \A i \in 1 .. k - 1 : x[i] = y[i]
  <2>1. \A b, c, d \in Nat : /\ b + c < b + d => c < d
                             /\ b + c = b + d => c = d
    OBVIOUS
  <2>2. x[k] < y[k]
    <3>1. a[k] + x[k] < a[k] + y[k]
      BY <1>1
    <3>2. a[k] \in Nat /\ x[k] \in Nat /\ y[k] \in Nat
      BY <1>2
    <3> QED
      BY <3>1, <3>2
  <2>3. ASSUME NEW i \in 1 .. k - 1
        PROVE  x[i] = y[i]
    <3>1. i \in 1 .. 4 /\ u[i] = v[i]
      BY <1>1
    <3>2. a[i] + x[i] = a[i] + y[i]
      BY <3>1
    <3> QED
      BY <1>2, <2>1, <3>1, <3>2
  <2> QED
    BY <2>2, <2>3
<1> QED
  BY <1>1, <1>3 DEF LexLess

RankIs(s, r) ==
  /\ r = Rank(s) /\ r \in Seq(Nat) /\ Len(r) = 4
  /\ r[1] = CountIn(s, RawEdges) /\ r[2] = CountIn(s, IncompleteEdges)
  /\ r[3] = CountIn(s, SingleEdges) /\ r[4] = Len(s)

LEMMA RankTyped ==
  ASSUME NEW s \in Path
  PROVE  RankIs(s, Rank(s))
<1>1. PICK x1 \in Nat, x2 \in Nat, x3 \in Nat, x4 \in Nat :
        /\ x1 = CountIn(s, RawEdges) /\ x2 = CountIn(s, IncompleteEdges)
        /\ x3 = CountIn(s, SingleEdges) /\ x4 = Len(s)
  <2>1. \A K : CountIn(s, K) \in Nat
    <3>1. DOMAIN s = 1 .. Len(s) /\ Len(s) \in Nat
      BY LenProperties DEF Path
    <3>2. IsFiniteSet(1 .. Len(s))
      BY <3>1, FS_Interval
    <3>3. \A K : {i \in DOMAIN s : s[i] \in K} \subseteq 1 .. Len(s)
      BY <3>1
    <3> QED
      BY <3>2, <3>3, FS_Subset, FS_CardinalityType DEF CountIn
  <2>2. Len(s) \in Nat
    BY DEF Path
  <2> QED
    BY <2>1, <2>2
<1>2. Rank(s) = <<x1, x2, x3, x4>>
  BY <1>1, RankParts
<1>3. <<x1, x2, x3, x4>> \in Seq(Nat)
  OBVIOUS
<1> QED
  BY <1>1, <1>2, <1>3 DEF RankIs

\* Prefixing two paths with one edge keeps their order.
LEMMA RankOnto ==
  ASSUME NEW e \in AnEdge, NEW s \in Path, NEW t \in Path,
         LexLess(Rank(Onto(e, s)), Rank(Onto(e, t)))
  PROVE  LexLess(Rank(s), Rank(t))
<1> DEFINE a == <<One(e, RawEdges), One(e, IncompleteEdges), One(e, SingleEdges), 1>>
<1>1. /\ Onto(e, s) \in Path /\ Onto(e, t) \in Path
      /\ Len(Onto(e, s)) = Len(s) + 1 /\ Len(Onto(e, t)) = Len(t) + 1
      /\ Len(s) \in Nat /\ Len(t) \in Nat
  BY OneMore
<1>2. PICK x, y, u, v : RankIs(s, x) /\ RankIs(t, y) /\ RankIs(Onto(e, s), u) /\ RankIs(Onto(e, t), v)
  BY <1>1, RankTyped
<1>3. a \in [1 .. 4 -> Nat]
      /\ a[1] = One(e, RawEdges) /\ a[2] = One(e, IncompleteEdges)
      /\ a[3] = One(e, SingleEdges) /\ a[4] = 1
  BY DEF One
<1> HIDE DEF a
<1>4. /\ u[1] = a[1] + x[1] /\ u[2] = a[2] + x[2] /\ u[3] = a[3] + x[3]
      /\ v[1] = a[1] + y[1] /\ v[2] = a[2] + y[2] /\ v[3] = a[3] + y[3]
  BY <1>2, <1>3, CountOnto DEF RankIs
<1>5. u[4] = a[4] + x[4] /\ v[4] = a[4] + y[4]
  BY <1>1, <1>2, <1>3 DEF RankIs
<1>6. \A i \in 1 .. 4 : u[i] = a[i] + x[i] /\ v[i] = a[i] + y[i]
  BY <1>4, <1>5
<1>7. /\ x \in Seq(Nat) /\ y \in Seq(Nat) /\ u \in Seq(Nat) /\ v \in Seq(Nat)
      /\ Len(x) = 4 /\ Len(y) = 4 /\ Len(u) = 4 /\ Len(v) = 4
      /\ LexLess(u, v) /\ x = Rank(s) /\ y = Rank(t)
  BY <1>2 DEF RankIs
<1> QED
  BY <1>3, <1>6, <1>7, LexLessShift

\* The order of paths is strict and total on their ranks.
LEMMA RankOrder ==
  ASSUME NEW s \in Path, NEW t \in Path
  PROVE  /\ ~LexLess(Rank(s), Rank(s))
         /\ Rank(s) = Rank(t) \/ LexLess(Rank(s), Rank(t)) \/ LexLess(Rank(t), Rank(s))
         /\ \A r \in Path : LexLess(Rank(s), Rank(t)) /\ LexLess(Rank(t), Rank(r))
                              => LexLess(Rank(s), Rank(r))
<1>1. \A p \in Path : Rank(p) \in Seq(Int)
  BY RankTyped DEF RankIs
<1>2. \A p, q : Best!LexLess(p, q) <=> LexLess(p, q)
  BY DEF Best!LexLess, LexLess
<1> QED
  BY <1>1, <1>2, Best!LexLessIsOrder

\* primary_path holds at most one path of an offset.
AtMostOne == {{}} \cup {{p} : p \in Path}

\* b is what is left of the first k of the paths q holds.
IsBest(b, q, k) ==
  /\ b \in AtMostOne
  /\ \A x \in b : \E i \in 1 .. k : x \in q[i]
  /\ \A i \in 1 .. k : \A p \in q[i] : b # {} /\ \A x \in b : ~LexLess(Rank(p), Rank(x))

LEMMA PreferredIsBest ==
  ASSUME NEW q, NEW k \in Nat, NEW b, IsBest(b, q, k), q[k + 1] \in AtMostOne,
         \A i \in 1 .. k : q[i] \in AtMostOne
  PROVE  IsBest(Preferred(b, q[k + 1]), q, k + 1)
<1> DEFINE t == q[k + 1]
           c == Preferred(b, t)
<1>1. \A i : i \in 1 .. k + 1 <=> i \in 1 .. k \/ i = k + 1
  OBVIOUS
<1>2. b \in AtMostOne /\ t \in AtMostOne
  BY DEF IsBest
<1>3. CASE t = {}
  <2>1. c = b
    BY <1>3 DEF Preferred
  <2> HIDE DEF c
  <2> QED
    BY <1>1, <1>3, <2>1 DEF IsBest, c
<1>4. CASE t # {}
  <2>1. PICK p \in Path : t = {p}
    BY <1>2, <1>4 DEF AtMostOne
  <2>2. CASE b = {}
    <3>1. c = t
      BY <1>4, <2>2 DEF Preferred
    <3>2. \A i \in 1 .. k : q[i] = {}
      BY <2>2 DEF IsBest
    <3>3. ~LexLess(Rank(p), Rank(p))
      BY RankOrder
    <3> HIDE DEF c
    <3> QED
      BY <1>1, <1>2, <2>1, <3>1, <3>2, <3>3 DEF IsBest, c
  <2>3. CASE b # {}
    <3>1. PICK x \in Path : b = {x}
      BY <1>2, <2>3 DEF AtMostOne
    <3>2. CASE LexLess(Rank(p), Rank(x))
      <4>1. c = t
        BY <1>4, <2>1, <3>1, <3>2 DEF Preferred
      <4>2. ASSUME NEW i \in 1 .. k, NEW r \in q[i]
            PROVE  ~LexLess(Rank(r), Rank(p))
        <5>1. r \in Path
          BY DEF AtMostOne
        <5>2. ~LexLess(Rank(r), Rank(x))
          BY <3>1 DEF IsBest
        <5> QED
          BY <3>2, <5>1, <5>2, RankOrder
      <4>3. ~LexLess(Rank(p), Rank(p))
        BY RankOrder
      <4> HIDE DEF c
      <4> QED
        BY <1>1, <1>2, <2>1, <4>1, <4>2, <4>3 DEF IsBest, c
    <3>3. CASE ~LexLess(Rank(p), Rank(x))
      <4>1. c = b
        BY <1>4, <2>1, <3>1, <3>3 DEF Preferred
      <4> HIDE DEF c
      <4> QED
        BY <1>1, <1>2, <2>1, <2>3, <3>1, <3>3, <4>1 DEF IsBest, c
    <3> QED
      BY <3>2, <3>3
  <2> QED
    BY <2>2, <2>3
<1> QED
  BY <1>3, <1>4

\* The inner loop of primary_path ends with a best path, if there is one.
LEMMA FoldIsBest ==
  ASSUME NEW m \in Nat, NEW q, DOMAIN q = 1 .. m, \A i \in 1 .. m : q[i] \in AtMostOne
  PROVE  IsBest(FoldLeft(Preferred, {}, q), q, m)
<1>1. PICK h : Best!Trace(q, {}, m, h) /\ Best!Fold({}, q) = h[m]
  BY Best!FoldIsTrace
<1> DEFINE Good == {k \in Nat : k <= m => IsBest(h[k], q, k)}
<1>2. 0 \in Good
  <2>1. h[0] = {}
    BY <1>1 DEF Best!Trace
  <2> QED
    BY <2>1 DEF IsBest, AtMostOne
<1>3. ASSUME NEW k \in Nat, k \in Good
      PROVE  k + 1 \in Good
  <2> SUFFICES ASSUME k + 1 <= m PROVE IsBest(h[k + 1], q, k + 1)
    OBVIOUS
  <2>1. k + 1 \in 0 .. m /\ k + 1 # 0 /\ (k + 1) - 1 = k /\ k + 1 \in 1 .. m /\ k <= m
    OBVIOUS
  <2>2. h[k + 1] = Preferred(h[k], q[k + 1])
    BY <1>1, <2>1 DEF Best!Trace
  <2>3. IsBest(h[k], q, k) /\ q[k + 1] \in AtMostOne /\ \A i \in 1 .. k : q[i] \in AtMostOne
    BY <1>3, <2>1
  <2> QED
    BY <2>2, <2>3, PreferredIsBest
<1> HIDE DEF Good
<1>4. m \in Good
  BY <1>2, <1>3, Best!SetInduction
<1> QED
  BY <1>1, <1>4, FoldsAgree DEF Good

Candidates(g, f, o) ==
  LET edges == EdgesFrom(g, o)
  IN  [i \in DOMAIN edges |-> Prepended(edges[i], f[edges[i].end])]

PrimaryStep(w, g, f, o) ==
  IF o = Len(w) THEN {<<>>} ELSE FoldLeft(Preferred, {}, Candidates(g, f, o))

\* edges_from lists the edges from an offset.
LEMMA EdgesFromLists ==
  ASSUME NEW w \in Seq(Char), NEW g, EdgesFit(w, g), IsFiniteSet(DOMAIN g), NEW o
  PROVE  \E m \in Nat :
           /\ DOMAIN EdgesFrom(g, o) = 1 .. m
           /\ \A i \in 1 .. m : EdgesFrom(g, o)[i] \in DOMAIN g /\ EdgesFrom(g, o)[i].start = o
           /\ \A e \in DOMAIN g : e.start = o => \E i \in 1 .. m : EdgesFrom(g, o)[i] = e
<1> DEFINE S == {e \in DOMAIN g : e.start = o}
           r == EdgesFrom(g, o)
<1>1. S \subseteq AnEdge /\ IsFiniteSet(S)
  BY EdgeSpans, FS_Subset
<1>2. \A x : x \in S <=> x \in DOMAIN g /\ x.start = o
  OBVIOUS
<1>3. Lists(r, S)
  BY <1>1, EdgesListed, Zenon DEF EdgesFrom
<1> HIDE DEF S, r
<1>4. DOMAIN r = 1 .. Len(r) /\ Len(r) \in Nat /\ \A i \in 1 .. Len(r) : r[i] \in S
  BY <1>3, LenProperties, ElementOfSeq DEF Lists
<1> QED
  BY <1>2, <1>3, <1>4 DEF Lists, r

\* One offset of primary_path: a path through the best of its successors.
LEMMA StepIsBest ==
  ASSUME NEW w \in Seq(Char), NEW g, EdgesFit(w, g), IsFiniteSet(DOMAIN g),
         NEW o \in 0 .. Len(w) - 1, NEW f, \A k \in 0 .. Len(w) : k > o => f[k] \in AtMostOne
  PROVE  LET b == PrimaryStep(w, g, f, o)
         IN  /\ b \in AtMostOne
             /\ \A x \in b : Leads(g, f, o, x)
             /\ \A p : Leads(g, f, o, p) => b # {} /\ \A x \in b : ~LexLess(Rank(p), Rank(x))
<1> DEFINE q == Candidates(g, f, o)
           b == PrimaryStep(w, g, f, o)
           r == EdgesFrom(g, o)
<1>1. PICK m \in Nat :
        /\ DOMAIN r = 1 .. m
        /\ \A i \in 1 .. m : r[i] \in DOMAIN g /\ r[i].start = o
        /\ \A e \in DOMAIN g : e.start = o => \E i \in 1 .. m : r[i] = e
  BY EdgesFromLists
<1>2. DOMAIN q = 1 .. m /\ \A i \in 1 .. m : q[i] = Prepended(r[i], f[r[i].end])
  BY <1>1 DEF Candidates
<1>3. \A e, t, p : p \in Prepended(e, t) <=> \E s \in t : p = Onto(e, s)
  BY DEF Prepended, Onto
<1> HIDE DEF q, r
<1>4. \A i \in 1 .. m : q[i] \in AtMostOne
  <2> SUFFICES ASSUME NEW i \in 1 .. m PROVE q[i] \in AtMostOne
    OBVIOUS
  <2>1. r[i] \in AnEdge /\ r[i].end \in 0 .. Len(w) /\ r[i].end > o
    BY <1>1, EdgeSpans
  <2>2. f[r[i].end] \in AtMostOne
    BY <2>1
  <2>3. CASE f[r[i].end] = {}
    <3>1. q[i] = {}
      BY <1>2, <1>3, <2>3
    <3> QED
      BY <3>1 DEF AtMostOne
  <2>4. CASE f[r[i].end] # {}
    <3>1. PICK s \in Path : f[r[i].end] = {s}
      BY <2>2, <2>4 DEF AtMostOne
    <3>2. q[i] = {Onto(r[i], s)}
      BY <1>2, <1>3, <3>1
    <3>3. Onto(r[i], s) \in Path
      BY <2>1, OneMore
    <3> QED
      BY <3>2, <3>3 DEF AtMostOne
  <2> QED
    BY <2>3, <2>4
<1>5. b = FoldLeft(Preferred, {}, q)
  <2>1. o # Len(w)
    OBVIOUS
  <2> QED
    BY <2>1, Zenon DEF PrimaryStep, q
<1>6. IsBest(b, q, m)
  BY <1>2, <1>4, <1>5, FoldIsBest
<1> HIDE DEF b
<1>7. \A p : Leads(g, f, o, p) <=> \E i \in 1 .. m : p \in q[i]
  BY <1>1, <1>2, <1>3 DEF Leads
<1> QED
  BY <1>6, <1>7 DEF IsBest, b

LEMMA PrimaryTyped ==
  ASSUME NEW w \in Seq(Char), NEW g, EdgesFit(w, g), IsFiniteSet(DOMAIN g),
         NEW o \in 0 .. Len(w), NEW f, \A k \in 0 .. Len(w) : k > o => f[k] \in AtMostOne
  PROVE  PrimaryStep(w, g, f, o) \in AtMostOne
<1>1. CASE o = Len(w)
  <2>1. <<>> \in Path
    BY DEF Path
  <2> QED
    BY <1>1, <2>1 DEF PrimaryStep, AtMostOne
<1>2. CASE o # Len(w)
  <2>1. o \in 0 .. Len(w) - 1
    BY <1>2
  <2> QED
    BY <2>1, StepIsBest
<1> QED
  BY <1>1, <1>2

LEMMA PrimaryRecursion ==
  ASSUME NEW w \in Seq(Char), NEW g, EdgesFit(w, g), IsFiniteSet(DOMAIN g)
  PROVE  \A o \in 0 .. Len(w) :
           /\ PrimaryPaths(w, g)[o] = PrimaryStep(w, g, PrimaryPaths(w, g), o)
           /\ PrimaryPaths(w, g)[o] \in AtMostOne
<1> DEFINE n == Len(w)
           D == 0 .. n
           V == AtMostOne
           rank == [o \in D |-> n - o]
           step == [p \in [D -> V] \X D |-> PrimaryStep(w, g, p[1], p[2])]
           P == PrimaryPaths(w, g)
<1>1. n \in Nat /\ rank \in [D -> 0 .. n] /\ {} \in V
  BY DEF AtMostOne
<1>2. step \in [[D -> V] \X D -> V] /\ \A f \in [D -> V], o \in D : step[<<f, o>>] = PrimaryStep(w, g, f, o)
  <2>1. ASSUME NEW f \in [D -> V], NEW o \in D
        PROVE  PrimaryStep(w, g, f, o) \in V
    BY PrimaryTyped
  <2> HIDE DEF V
  <2> QED
    BY <2>1
<1>3. ASSUME NEW o \in D, NEW f \in [D -> V], NEW h \in [D -> V],
             \A k \in D : rank[k] < rank[o] => f[k] = h[k]
      PROVE  step[<<f, o>>] = step[<<h, o>>]
  <2>1. \A e \in DOMAIN g : e.start = o => f[e.end] = h[e.end]
    BY <1>1, <1>3, EdgeSpans
  <2>2. Candidates(g, f, o) = Candidates(g, h, o)
    <3>1. PICK m \in Nat :
            /\ DOMAIN EdgesFrom(g, o) = 1 .. m
            /\ \A i \in 1 .. m : EdgesFrom(g, o)[i] \in DOMAIN g /\ EdgesFrom(g, o)[i].start = o
      BY EdgesFromLists
    <3>2. PICK r : r = EdgesFrom(g, o)
      OBVIOUS
    <3>3. \A i \in DOMAIN r : f[r[i].end] = h[r[i].end]
      BY <2>1, <3>1, <3>2
    <3>4. Candidates(g, f, o) = [i \in DOMAIN r |-> Prepended(r[i], f[r[i].end])]
          /\ Candidates(g, h, o) = [i \in DOMAIN r |-> Prepended(r[i], h[r[i].end])]
      BY <3>2 DEF Candidates
    <3> QED
      BY <3>3, <3>4
  <2>3. PrimaryStep(w, g, f, o) = PrimaryStep(w, g, h, o)
    BY <2>2, Zenon DEF PrimaryStep
  <2> QED
    BY <1>2, <2>3
<1>4. Best!Descends(D, V, rank, step)
  BY <1>3 DEF Best!Descends
<1> HIDE DEF V, D, n, rank, step
<1>5. \E f \in [D -> V] : Best!Solution(D, step, f)
  BY <1>1, <1>2, <1>4, Best!RecursionExists, Zenon
<1>6. \E f : f = [o \in D |-> PrimaryStep(w, g, f, o)]
  BY <1>2, <1>5 DEF Best!Solution
<1>7. P = [o \in D |-> PrimaryStep(w, g, P, o)]
  BY <1>6, Zenon DEF PrimaryPaths, PrimaryStep, Candidates, D, n
<1> HIDE DEF P
<1>8. \A o \in D : P[o] \in AtMostOne
  <2> DEFINE Good == {k \in Nat : \A o \in D : n - o <= k => P[o] \in AtMostOne}
  <2>1. ASSUME NEW o \in D, \A k \in D : k > o => P[k] \in AtMostOne
        PROVE  P[o] \in AtMostOne
    BY <1>7, <2>1, PrimaryTyped DEF D, n
  <2>2. 0 \in Good
    <3> SUFFICES ASSUME NEW o \in D, n - o <= 0 PROVE P[o] \in AtMostOne
      OBVIOUS
    <3>1. \A k \in D : ~(k > o)
      BY <1>1 DEF D
    <3> QED
      BY <2>1, <3>1
  <2>3. ASSUME NEW k \in Nat, k \in Good
        PROVE  k + 1 \in Good
    <3> SUFFICES ASSUME NEW o \in D, n - o <= k + 1 PROVE P[o] \in AtMostOne
      OBVIOUS
    <3>1. \A l \in D : l > o => n - l <= k
      BY <1>1 DEF D
    <3> QED
      BY <2>1, <2>3, <3>1
  <2> HIDE DEF Good
  <2>4. n \in Good
    BY <1>1, <2>2, <2>3, Best!SetInduction
  <2> QED
    BY <1>1, <2>4 DEF Good, D
<1> QED
  BY <1>7, <1>8 DEF D, n, P

\* Some edge leaves every offset but the last.
Covers(w, g) == \A o \in 0 .. Len(w) - 1 : \E e \in DOMAIN g : e.start = o

\* b is a path of s, and no path of s is preferred to it.
BestOf(b, s) ==
  /\ b \in AtMostOne /\ b # {} /\ b \subseteq s
  /\ \A p \in s, x \in b : ~LexLess(Rank(p), Rank(x))

LEMMA PrimaryStepIsBest ==
  ASSUME NEW w \in Seq(Char), NEW g, EdgesFit(w, g), IsFiniteSet(DOMAIN g), Covers(w, g),
         NEW o \in 0 .. Len(w) - 1,
         \A k \in 0 .. Len(w) : k > o => BestOf(PrimaryPaths(w, g)[k], PathsFrom(w, g)[k])
  PROVE  BestOf(PrimaryPaths(w, g)[o], PathsFrom(w, g)[o])
<1> DEFINE n == Len(w)
           P == PrimaryPaths(w, g)
           A == PathsFrom(w, g)
           b == P[o]
<1>0. n \in Nat /\ o \in 0 .. n
  OBVIOUS
<1>1. /\ \A k \in 0 .. n : P[k] = PrimaryStep(w, g, P, k) /\ P[k] \in AtMostOne
      /\ \A k \in 0 .. n : A[k] \subseteq Path
      /\ \A p : p \in A[o] <=> Leads(g, A, o, p)
  BY PrimaryRecursion, PathsRecursion, PathMembers
<1>2. \A e \in DOMAIN g : e.start = o => e \in AnEdge /\ e.end \in 0 .. n /\ e.end > o
  BY EdgeSpans
<1>3. /\ \A x \in b : Leads(g, P, o, x)
      /\ \A p : Leads(g, P, o, p) => b # {} /\ \A x \in b : ~LexLess(Rank(p), Rank(x))
  <2>1. b = PrimaryStep(w, g, P, o)
    BY <1>0, <1>1
  <2> QED
    BY <1>1, <2>1, StepIsBest
<1>4. \A k \in 0 .. n : k > o => BestOf(P[k], A[k])
  OBVIOUS
<1>5. PICK d \in DOMAIN g : d.start = o
  BY DEF Covers
<1>6. \A p : Leads(g, P, o, p) => p \in A[o]
  <2> HIDE DEF P, A
  <2>1. \A e \in DOMAIN g : \A s : e.start = o /\ s \in P[e.end] => s \in A[e.end]
    BY <1>2, <1>4 DEF BestOf
  <2> QED
    BY <1>1, <2>1 DEF Leads
<1>7. b # {}
  <2> HIDE DEF P, A, b
  <2>1. P[d.end] # {}
    BY <1>2, <1>4, <1>5 DEF BestOf
  <2>2. PICK s \in P[d.end] : TRUE
    BY <2>1
  <2>3. Leads(g, P, o, Onto(d, s))
    BY <1>5, <2>2 DEF Leads
  <2> QED
    BY <1>3, <2>3
<1>8. ASSUME NEW p \in A[o], NEW x \in b
      PROVE  ~LexLess(Rank(p), Rank(x))
  <2>1. PICK e \in DOMAIN g : \E s \in A[e.end] : e.start = o /\ p = Onto(e, s)
    BY <1>1, <1>8 DEF Leads
  <2>2. PICK s \in A[e.end] : e.start = o /\ p = Onto(e, s)
    BY <2>1
  <2>3. BestOf(P[e.end], A[e.end]) /\ e \in AnEdge /\ s \in Path
    BY <1>1, <1>2, <1>4, <2>2
  <2>4. PICK t \in P[e.end] : t \in Path /\ ~LexLess(Rank(s), Rank(t))
    BY <2>3 DEF BestOf, AtMostOne
  <2>5. Leads(g, P, o, Onto(e, t))
    BY <2>2, <2>4 DEF Leads
  <2>6. ~LexLess(Rank(Onto(e, t)), Rank(x))
    BY <1>3, <2>5
  <2>7. ~LexLess(Rank(p), Rank(Onto(e, t)))
    BY <2>2, <2>3, <2>4, RankOnto
  <2>8. x \in Path /\ p \in Path /\ Onto(e, t) \in Path
    <3>1. x \in Path
      BY <1>0, <1>1 DEF AtMostOne
    <3> QED
      BY <2>2, <2>3, <2>4, <3>1, OneMore
  <2> HIDE DEF b, P, A
  <2>9. ASSUME NEW c \in Path, NEW y \in Path, NEW z \in Path,
               ~LexLess(Rank(c), Rank(y)), ~LexLess(Rank(z), Rank(c))
        PROVE  ~LexLess(Rank(z), Rank(y))
    BY <2>9, RankOrder
  <2> QED
    BY <2>6, <2>7, <2>8, <2>9
<1> QED
  BY <1>0, <1>1, <1>3, <1>6, <1>7, <1>8 DEF BestOf

\* primary_path finds a best path, in every graph with an edge from every offset.
LEMMA PrimaryBest ==
  ASSUME NEW w \in Seq(Char), NEW g, EdgesFit(w, g), IsFiniteSet(DOMAIN g), Covers(w, g)
  PROVE  /\ PrimaryPath(w, g) \in AllPaths(w, g)
         /\ \A p \in AllPaths(w, g) : ~LexLess(Rank(p), Rank(PrimaryPath(w, g)))
<1> DEFINE n == Len(w)
           P == PrimaryPaths(w, g)
           A == PathsFrom(w, g)
           Good == {k \in Nat : \A o \in 0 .. n : n - o <= k => BestOf(P[o], A[o])}
<1>0. n \in Nat
  OBVIOUS
<1>1. BestOf(P[n], A[n])
  <2>1. n \in 0 .. n
    BY <1>0
  <2>2. P[n] = PrimaryStep(w, g, P, n)
    BY <2>1, PrimaryRecursion
  <2>3. P[n] = {<<>>} /\ A[n] = {<<>>}
    BY <2>2, PathMembers DEF PrimaryStep
  <2>4. <<>> \in Path
    BY DEF Path
  <2>5. ~LexLess(Rank(<<>>), Rank(<<>>))
    BY <2>4, RankOrder
  <2> HIDE DEF P, A
  <2> QED
    BY <2>3, <2>4, <2>5 DEF BestOf, AtMostOne
<1>2. 0 \in Good
  <2>1. \A o \in 0 .. n : n - o <= 0 => o = n
    BY <1>0
  <2> QED
    BY <1>1, <2>1
<1>3. ASSUME NEW k \in Nat, k \in Good
      PROVE  k + 1 \in Good
  <2> SUFFICES ASSUME NEW o \in 0 .. n, n - o <= k + 1 PROVE BestOf(P[o], A[o])
    OBVIOUS
  <2>1. CASE o = n
    BY <1>1, <2>1
  <2>2. CASE o # n
    <3>1. o \in 0 .. n - 1 /\ \A l \in 0 .. n : l > o => n - l <= k
      BY <1>0, <2>2
    <3>2. \A l \in 0 .. n : l > o => BestOf(P[l], A[l])
      BY <1>3, <3>1
    <3> QED
      BY <3>1, <3>2, PrimaryStepIsBest
  <2> QED
    BY <2>1, <2>2
<1> HIDE DEF Good
<1>4. n \in Good
  BY <1>0, <1>2, <1>3, Best!SetInduction
<1>5. BestOf(P[0], A[0])
  BY <1>0, <1>4 DEF Good
<1>6. OnePath(P[0]) \in P[0]
  <2> HIDE DEF P
  <2> QED
    BY <1>5 DEF BestOf, OnePath
<1>7. PrimaryPath(w, g) \in P[0] /\ AllPaths(w, g) = A[0]
  BY <1>6, PathMembers DEF PrimaryPath
<1> HIDE DEF P, A
<1> QED
  BY <1>5, <1>7 DEF BestOf

-----------------------------------------------------------------------------
(***************************************************************************)
(* The graphs of the segmentor.                                            *)
(***************************************************************************)
LEMMA FiniteImage ==
  ASSUME NEW S, IsFiniteSet(S), NEW f
  PROVE  IsFiniteSet({f[x] : x \in S})
<1> DEFINE T == {f[x] : x \in S}
           h == [x \in S |-> f[x]]
<1>1. h \in [S -> T] /\ \A t \in T : \E x \in S : h[x] = t
  OBVIOUS
<1>2. h \in Surjection(S, T)
  BY <1>1 DEF Surjection
<1> QED
  BY <1>2, FS_Surjection

FitsAt(w, o, e) == e \in EdgesIn(w) /\ e.start = o

\* S is finite and holds edges of w from o only.
EdgesAt(w, o, S) == IsFiniteSet(S) /\ \A e \in S : FitsAt(w, o, e)

LEMMA EdgeFits ==
  ASSUME NEW w \in Seq(Char), NEW a \in 0 .. Len(w) - 1, NEW b \in a + 1 .. Len(w),
         NEW s \in Seq(Char), NEW k \in DOMAIN Kind
  PROVE  FitsAt(w, a, Edge(a, b, s, k))
<1>1. a \in Nat /\ b \in Nat /\ a < b /\ b <= Len(w)
  OBVIOUS
<1> QED
  BY <1>1 DEF FitsAt, Edge, EdgesIn, AnEdge

LEMMA Under ==
  ASSUME NEW w \in Seq(Char), NEW a \in Nat, NEW b \in 0 .. Len(w)
  PROVE  SubSeq(w, a + 1, b) \in Seq(Char)
<1>1. \A i \in a + 1 .. b : w[i] \in Char
  BY ElementOfSeq
<1>2. a + 1 \in Int /\ b \in Int
  OBVIOUS
<1> QED
  BY <1>1, <1>2, SubSeqProperties

\* append_edges: from every offset some edge, at least the raw one.
LEMMA TrieFits ==
  ASSUME NEW w \in Seq(Char), NEW o \in 0 .. Len(w) - 1
  PROVE  TrieEdges(w, o) # {} /\ EdgesAt(w, o, TrieEdges(w, o))
<1> DEFINE n == Len(w)
           run(end) == SubSeq(w, o + 1, end)
           ends == {b \in o + 1 .. n : run(b) \in Syllable}
           complete == {Edge(o, b, run(b), "Complete") : b \in ends}
           incomplete == IF InTrie(run(n)) /\ run(n) \notin Syllable
                         THEN {Edge(o, n, run(n), "Incomplete")} ELSE {}
           raw == {Edge(o, o + 1, run(o + 1), "Raw")}
<1>1. TrieEdges(w, o) = IF complete \cup incomplete = {} THEN raw ELSE complete \cup incomplete
  BY DEF TrieEdges
<1>2. \A b \in o + 1 .. n : run(b) \in Seq(Char)
  BY Under
<1>3. n \in o + 1 .. n /\ o + 1 \in o + 1 .. n
  OBVIOUS
<1>4. {"Complete", "Incomplete", "Raw"} = DOMAIN Kind
  BY Kinds
<1>5. EdgesAt(w, o, complete)
  <2>1. IsFiniteSet(ends)
    <3>1. IsFiniteSet(o + 1 .. n)
      BY FS_Interval
    <3> QED
      BY <3>1, FS_Subset
  <2>2. PICK f : f = [b \in ends |-> Edge(o, b, run(b), "Complete")]
    OBVIOUS
  <2>3. complete = {f[b] : b \in ends}
    BY <2>2
  <2>4. IsFiniteSet(complete)
    BY <2>1, <2>3, FiniteImage
  <2>5. ASSUME NEW b \in ends
        PROVE  FitsAt(w, o, Edge(o, b, run(b), "Complete"))
    <3>1. b \in o + 1 .. n /\ run(b) \in Seq(Char) /\ "Complete" \in DOMAIN Kind
      BY <1>2, <1>4
    <3> QED
      BY <3>1, EdgeFits
  <2> QED
    BY <2>4, <2>5 DEF EdgesAt
<1>6. EdgesAt(w, o, incomplete)
  <2>1. FitsAt(w, o, Edge(o, n, run(n), "Incomplete"))
    <3>1. run(n) \in Seq(Char) /\ "Incomplete" \in DOMAIN Kind
      BY <1>2, <1>3, <1>4
    <3> QED
      BY <1>3, <3>1, EdgeFits
  <2> QED
    BY <2>1, FS_EmptySet, FS_Singleton DEF EdgesAt
<1>7. EdgesAt(w, o, raw)
  <2>1. FitsAt(w, o, Edge(o, o + 1, run(o + 1), "Raw"))
    <3>1. run(o + 1) \in Seq(Char) /\ "Raw" \in DOMAIN Kind
      BY <1>2, <1>3, <1>4
    <3> QED
      BY <1>3, <3>1, EdgeFits
  <2> QED
    BY <2>1, FS_Singleton DEF EdgesAt
<1>8. raw # {}
  OBVIOUS
<1> HIDE DEF complete, incomplete, raw
<1>9. EdgesAt(w, o, complete \cup incomplete)
  BY <1>5, <1>6, FS_Union DEF EdgesAt
<1> QED
  BY <1>1, <1>7, <1>8, <1>9

LEMMA Extremes ==
  ASSUME NEW S, S \subseteq Int, S # {}, NEW a \in Int
  PROVE  /\ (\A x \in S : a <= x) => Min(S) \in S /\ \A x \in S : Min(S) <= x
         /\ (\A x \in S : x <= a) => Max(S) \in S /\ \A x \in S : x <= Max(S)
<1>1. ASSUME \A x \in S : a <= x
      PROVE  Min(S) \in S /\ \A x \in S : Min(S) <= x
  <2> DEFINE T == {x - a : x \in S}
  <2>1. T \subseteq Nat /\ T # {}
    <3>1. \A x \in S : x - a \in Nat
      BY <1>1
    <3> QED
      BY <3>1
  <2>2. PICK t \in T : \A u \in T : t <= u
    BY <2>1, Best!LeastNumber
  <2>3. PICK x \in S : t = x - a
    BY <2>2
  <2>4. ASSUME NEW y \in S
        PROVE  x <= y
    <3>1. y - a \in T /\ x \in Int /\ y \in Int
      OBVIOUS
    <3>2. x - a <= y - a
      BY <2>2, <2>3, <3>1
    <3> QED
      BY <3>1, <3>2
  <2> QED
    BY <2>3, <2>4 DEF Min
<1>2. ASSUME \A x \in S : x <= a
      PROVE  Max(S) \in S /\ \A x \in S : x <= Max(S)
  <2> DEFINE T == {a - x : x \in S}
  <2>1. T \subseteq Nat /\ T # {}
    <3>1. \A x \in S : a - x \in Nat
      BY <1>2
    <3> QED
      BY <3>1
  <2>2. PICK t \in T : \A u \in T : t <= u
    BY <2>1, Best!LeastNumber
  <2>3. PICK x \in S : t = a - x
    BY <2>2
  <2>4. ASSUME NEW y \in S
        PROVE  x >= y
    <3>1. a - y \in T /\ x \in Int /\ y \in Int
      OBVIOUS
    <3>2. a - x <= a - y
      BY <2>2, <2>3, <3>1
    <3> QED
      BY <3>1, <3>2
  <2>5. \A y \in S : y <= x <=> x >= y
    OBVIOUS
  <2>6. Max(S) \in S /\ \A y \in S : Max(S) >= y
    BY <2>3, <2>4 DEF Max
  <2> QED
    BY <2>6
<1> QED
  BY <1>1, <1>2

LEMMA AvailableFits ==
  ASSUME NEW w \in Seq(Char), NEW o \in 0 .. Len(w) - 1
  PROVE  Available(w, o) \in 0 .. Len(w) - o
<1> DEFINE S == {Len(w)} \cup {i \in o .. Len(w) - 1 : w[i + 1] \notin Letter}
<1>1. S \subseteq Int /\ S # {} /\ (\A x \in S : o <= x /\ x <= Len(w)) /\ o \in Int /\ Len(w) \in Nat
  OBVIOUS
<1>2. Available(w, o) = Min(S) - o
  BY DEF Available
<1> HIDE DEF S
<1>3. PICK a \in S : a = Min(S)
  BY <1>1, Extremes
<1>4. a \in Int /\ o <= a /\ a <= Len(w)
  BY <1>1
<1> QED
  BY <1>1, <1>2, <1>3, <1>4

\* The lengths append_correction_edges tries for a syllable.
Corrected(w, o, s) ==
  Max({2, Len(s) - MaxDistance}) .. Min({Len(s) + MaxDistance, MaxTokenBytes, Available(w, o)})

LEMMA CorrectedFits ==
  ASSUME NEW w \in Seq(Char), NEW o \in 0 .. Len(w) - 1, NEW s \in Seq(Char)
  PROVE  /\ IsFiniteSet(Corrected(w, o, s))
         /\ \A k \in Corrected(w, o, s) : k \in Nat /\ o + k \in o + 1 .. Len(w)
<1> DEFINE low == Max({2, Len(s) - MaxDistance})
           high == Min({Len(s) + MaxDistance, MaxTokenBytes, Available(w, o)})
<1>1. Len(s) \in Nat /\ MaxDistance \in Nat /\ MaxTokenBytes \in Nat
  BY ReadingsAssumption
<1>2. Available(w, o) \in 0 .. Len(w) - o
  BY AvailableFits
<1>3. low \in Int /\ 2 <= low
  <2> DEFINE S == {2, Len(s) - MaxDistance}
  <2>1. S \subseteq Int /\ S # {} /\ 2 \in S /\ (\A x \in S : x <= Len(s) + 2) /\ Len(s) + 2 \in Int
    BY <1>1
  <2> HIDE DEF S
  <2>2. Max(S) \in S /\ \A x \in S : x <= Max(S)
    BY <2>1, Extremes
  <2> QED
    BY <2>1, <2>2 DEF S
<1>4. high \in Int /\ high <= Available(w, o)
  <2> DEFINE S == {Len(s) + MaxDistance, MaxTokenBytes, Available(w, o)}
  <2>1. S \subseteq Int /\ S # {} /\ Available(w, o) \in S /\ (\A x \in S : 0 <= x) /\ 0 \in Int
    BY <1>1, <1>2
  <2> HIDE DEF S
  <2>2. Min(S) \in S /\ \A x \in S : Min(S) <= x
    BY <2>1, Extremes
  <2> QED
    BY <2>1, <2>2 DEF S
<1>5. Corrected(w, o, s) = low .. high
  BY DEF Corrected
<1> HIDE DEF low, high
<1>6. IsFiniteSet(low .. high)
  BY <1>3, <1>4, FS_Interval
<1>7. \A k \in low .. high : k \in Nat /\ o + k \in o + 1 .. Len(w)
  BY <1>2, <1>3, <1>4
<1> QED
  BY <1>5, <1>6, <1>7

Off(w, e) == Distance(RawOf(w, e), e.canonical)

Tried(w, o, s) == {Edge(o, o + k, s, "Complete") : k \in Corrected(w, o, s)}

Near(w, o) ==
  {e \in UNION {Tried(w, o, s) : s \in Syllable} : Off(w, e) \in 1 .. MaxDistance}

LEMMA Syllables ==
  /\ IsFiniteSet(Syllable)
  /\ \A s \in Syllable : s \in Seq(Char) /\ s # <<>> /\ Len(s) \in Nat /\ Len(s) >= 1
<1>1. IsFiniteSet(Syllable) /\ \A s \in Syllable : s \in Seq(Letter) /\ s # <<>>
  BY ReadingsAssumption
<1>2. \A s \in Seq(Letter) : s \in Seq(Char)
  BY Chars, SeqMonotonic
<1>3. \A s \in Seq(Letter) : s # <<>> => Len(s) \in Nat /\ Len(s) >= 1
  BY EmptySeq, LenProperties
<1> QED
  BY <1>1, <1>2, <1>3

LEMMA NearFits ==
  ASSUME NEW w \in Seq(Char), NEW o \in 0 .. Len(w) - 1
  PROVE  /\ EdgesAt(w, o, Near(w, o))
         /\ \A e \in Near(w, o) : e.kind = "Complete" /\ Off(w, e) \in 1 .. MaxDistance
<1>1. ASSUME NEW s \in Syllable
      PROVE  EdgesAt(w, o, Tried(w, o, s)) /\ \A e \in Tried(w, o, s) : e.kind = "Complete"
  <2>1. s \in Seq(Char) /\ "Complete" \in DOMAIN Kind
    BY Kinds, Syllables
  <2>2. IsFiniteSet(Corrected(w, o, s)) /\ \A k \in Corrected(w, o, s) : o + k \in o + 1 .. Len(w)
    BY <2>1, CorrectedFits
  <2>3. PICK f : f = [k \in Corrected(w, o, s) |-> Edge(o, o + k, s, "Complete")]
    OBVIOUS
  <2>4. Tried(w, o, s) = {f[k] : k \in Corrected(w, o, s)}
    BY <2>3 DEF Tried
  <2>5. IsFiniteSet(Tried(w, o, s))
    BY <2>2, <2>4, FiniteImage
  <2>6. \A k \in Corrected(w, o, s) : FitsAt(w, o, Edge(o, o + k, s, "Complete"))
    BY <2>1, <2>2, EdgeFits
  <2>7. \A e \in Tried(w, o, s) : FitsAt(w, o, e)
    BY <2>6 DEF Tried
  <2>8. \A e \in Tried(w, o, s) : e.kind = "Complete"
    BY DEF Tried, Edge
  <2> QED
    BY <2>5, <2>7, <2>8 DEF EdgesAt
<1>2. IsFiniteSet(UNION {Tried(w, o, s) : s \in Syllable})
  <2>1. PICK f : f = [s \in Syllable |-> Tried(w, o, s)]
    OBVIOUS
  <2>2. {Tried(w, o, s) : s \in Syllable} = {f[s] : s \in Syllable}
    BY <2>1
  <2>3. IsFiniteSet({Tried(w, o, s) : s \in Syllable})
    BY <2>2, FiniteImage, Syllables
  <2>4. \A T \in {Tried(w, o, s) : s \in Syllable} : IsFiniteSet(T)
    BY <1>1 DEF EdgesAt
  <2> QED
    BY <2>3, <2>4, FS_UNION
<1>3. Near(w, o) \subseteq UNION {Tried(w, o, s) : s \in Syllable}
  BY DEF Near
<1>4. IsFiniteSet(Near(w, o))
  BY <1>2, <1>3, FS_Subset
<1>5. \A e \in Near(w, o) : FitsAt(w, o, e) /\ e.kind = "Complete"
  BY <1>1, <1>3 DEF EdgesAt
<1>6. \A e \in Near(w, o) : Off(w, e) \in 1 .. MaxDistance
  BY DEF Near
<1> QED
  BY <1>4, <1>5, <1>6 DEF EdgesAt

HeadKey(a, b, s) == <<a, b>> \o s

Heads(k, a, b, s) ==
  /\ k \in Seq(Int) /\ Len(k) = Len(s) + 2 /\ k[1] = a /\ k[2] = b
  /\ \A i \in 1 .. Len(s) : k[i + 2] = s[i]

LEMMA HeadKeys ==
  ASSUME NEW a \in Nat, NEW b \in Nat, NEW s \in Seq(Char)
  PROVE  Heads(HeadKey(a, b, s), a, b, s)
<1> DEFINE span == <<a, b>>
           k == HeadKey(a, b, s)
<1>1. s \in Seq(Int) /\ Len(s) \in Nat
  BY Chars
<1>2. span \in Seq(Int) /\ Len(span) = 2 /\ span[1] = a /\ span[2] = b
  OBVIOUS
<1>3. k = span \o s
  BY DEF HeadKey
<1> HIDE DEF span, k
<1>4. /\ k \in Seq(Int) /\ Len(k) = Len(span) + Len(s)
      /\ \A i \in 1 .. Len(span) + Len(s) :
           k[i] = IF i <= Len(span) THEN span[i] ELSE s[i - Len(span)]
  BY <1>1, <1>2, <1>3, ConcatProperties, Zenon
<1>5. Len(k) = Len(s) + 2 /\ k[1] = a /\ k[2] = b
  BY <1>1, <1>2, <1>4
<1>6. ASSUME NEW i \in 1 .. Len(s)
      PROVE  k[i + 2] = s[i]
  <2>1. i + 2 \in 1 .. 2 + Len(s) /\ ~(i + 2 <= 2) /\ (i + 2) - 2 = i
    BY <1>1
  <2> QED
    BY <1>2, <1>4, <2>1
<1> QED
  BY <1>4, <1>5, <1>6 DEF Heads, k

NearKey(w, e) == HeadKey(Off(w, e), e.end, e.canonical)

\* The edges of S that append_correction_edges would take before e.
Nearer(w, S, e) == {d \in S : LexLess(NearKey(w, d), NearKey(w, e))}

LEMMA NearKeyed ==
  ASSUME NEW w \in Seq(Char), NEW o \in 0 .. Len(w) - 1, NEW e \in Near(w, o)
  PROVE  /\ e \in AnEdge /\ e.start = o /\ e.kind = "Complete"
         /\ Off(w, e) \in Nat /\ e.end \in Nat /\ e.end <= Len(w) /\ e.canonical \in Seq(Char)
         /\ NearKey(w, e) \in Seq(Int)
         /\ Heads(NearKey(w, e), Off(w, e), e.end, e.canonical)
<1>1. /\ e \in AnEdge /\ e.start = o /\ e.kind = "Complete" /\ e.end <= Len(w)
      /\ Off(w, e) \in 1 .. MaxDistance
  BY NearFits DEF EdgesAt, FitsAt, EdgesIn
<1>2. Off(w, e) \in Nat /\ e.end \in Nat /\ e.canonical \in Seq(Char)
  BY <1>1, ReadingsAssumption DEF AnEdge
<1>3. Heads(NearKey(w, e), Off(w, e), e.end, e.canonical)
  BY <1>2, HeadKeys DEF NearKey
<1>4. NearKey(w, e) \in Seq(Int)
  BY <1>3 DEF Heads
<1> QED
  BY <1>1, <1>2, <1>3, <1>4

LEMMA SameEdge ==
  ASSUME NEW e \in AnEdge, NEW f \in AnEdge, e.start = f.start, e.end = f.end,
         e.canonical = f.canonical, e.kind = f.kind
  PROVE  e = f
<1> DEFINE K == DOMAIN Kind
<1>1. AnEdge = [start : Nat, end : Nat, canonical : Seq(Char), kind : K]
  BY DEF AnEdge
<1> HIDE DEF AnEdge, K
<1> QED
  BY <1>1

LEMMA NearListed ==
  ASSUME NEW w \in Seq(Char), NEW o \in 0 .. Len(w) - 1
  PROVE  \E r : /\ r = SortedBy(Near(w, o), LAMBDA e : <<Off(w, e), e.end>> \o e.canonical)
                /\ Lists(r, Near(w, o))
                /\ \A n \in 1 .. Len(r) : Cardinality(Nearer(w, Near(w, o), r[n])) = n - 1
<1> DEFINE S == Near(w, o)
           key == [e \in S |-> NearKey(w, e)]
<1>1. \A e \in S : /\ e \in AnEdge /\ e.start = o /\ e.kind = "Complete"
                   /\ e.canonical \in Seq(Char) /\ NearKey(w, e) \in Seq(Int)
                   /\ Heads(NearKey(w, e), Off(w, e), e.end, e.canonical)
  BY NearKeyed
<1>2. IsFiniteSet(S)
  BY NearFits DEF EdgesAt
<1>3. ASSUME NEW e \in S, NEW f \in S, key[e] = key[f]
      PROVE  e = f
  <2>1. PICK k : k = NearKey(w, e) /\ k = NearKey(w, f)
    BY <1>3
  <2>2. PICK s \in Seq(Char), u \in Seq(Char) : s = e.canonical /\ u = f.canonical
    BY <1>1
  <2>3. Heads(k, Off(w, e), e.end, s) /\ Heads(k, Off(w, f), f.end, u)
    BY <1>1, <2>1, <2>2
  <2>4. Len(s) \in Nat /\ Len(u) \in Nat
    OBVIOUS
  <2>5. e.end = f.end /\ Len(s) = Len(u) /\ \A i \in 1 .. Len(s) : s[i] = u[i]
    BY <2>3, <2>4 DEF Heads
  <2>6. s = u
    BY <2>5, SeqEqual
  <2>7. e.start = f.start /\ e.end = f.end /\ e.canonical = f.canonical /\ e.kind = f.kind
        /\ e \in AnEdge /\ f \in AnEdge
    BY <1>1, <2>2, <2>5, <2>6
  <2> QED
    BY <2>7, SameEdge
<1>4. key \in [S -> Seq(Int)]
  BY <1>1
<1>5. Keyed(S, key) = {[key |-> <<Off(w, e), e.end>> \o e.canonical, of |-> e] : e \in S}
  BY DEF Keyed, NearKey, HeadKey
<1>6. \A e \in S : Nearer(w, S, e) = {d \in S : LexLess(key[d], key[e])}
  BY DEF Nearer
<1> HIDE DEF key, S
<1>7. SortedBy(S, LAMBDA e : <<Off(w, e), e.end>> \o e.canonical) =
        [i \in 1 .. Cardinality(S) |->
           InKeyOrder({[key |-> <<Off(w, e), e.end>> \o e.canonical, of |-> e] : e \in S})[i].of]
  BY Zenon DEF SortedBy, InKeyOrder, InOrder, KeyPrecedes
<1>8. SortedBy(S, LAMBDA e : <<Off(w, e), e.end>> \o e.canonical) = Listing(S, key)
  BY <1>5, <1>7, Zenon DEF Listing
<1>9. PICK r : r = Listing(S, key)
  OBVIOUS
<1>10. /\ Lists(r, S)
       /\ \A n \in 1 .. Len(r) : Cardinality({d \in S : LexLess(key[d], key[r[n]])}) = n - 1
  BY <1>2, <1>3, <1>4, <1>9, ListingLists
<1>11. \A n \in 1 .. Len(r) : r[n] \in S
  BY <1>10, ListsAreListed DEF ListedIn
<1>12. \A n \in 1 .. Len(r) : Cardinality(Nearer(w, S, r[n])) = n - 1
  BY <1>6, <1>10, <1>11
<1> QED
  BY <1>8, <1>9, <1>10, <1>12 DEF S

\* append_correction_edges: edges near the input, as many as the limit allows.
LEMMA CorrectionMembers ==
  ASSUME NEW w \in Seq(Char), NEW o \in 0 .. Len(w) - 1
  PROVE  CorrectionEdges(w, o) =
           {e \in Near(w, o) : Cardinality(Nearer(w, Near(w, o), e)) < MaxCorrections}
<1>1. PICK r : /\ r = SortedBy(Near(w, o), LAMBDA e : <<Off(w, e), e.end>> \o e.canonical)
               /\ Lists(r, Near(w, o))
               /\ \A n \in 1 .. Len(r) : Cardinality(Nearer(w, Near(w, o), r[n])) = n - 1
  BY NearListed
<1> DEFINE m == Min({Len(r), MaxCorrections})
<1>2. CorrectionEdges(w, o) = {r[i] : i \in 1 .. m}
  BY <1>1, Zenon DEF CorrectionEdges, Near, Tried, Corrected, Off
<1>3. /\ Len(r) \in Nat /\ \A i \in 1 .. Len(r) : r[i] \in Near(w, o)
      /\ \A e \in Near(w, o) : \E i \in 1 .. Len(r) : r[i] = e
  BY <1>1, ListsAreListed DEF ListedIn
<1>4. m \in Nat /\ m <= Len(r) /\ m <= MaxCorrections /\ (m = Len(r) \/ m = MaxCorrections)
      /\ MaxCorrections \in Nat
  <2> DEFINE T == {Len(r), MaxCorrections}
  <2>1. T \subseteq Int /\ T # {} /\ (\A x \in T : 0 <= x) /\ 0 \in Int /\ T \subseteq Nat
        /\ Len(r) \in T /\ MaxCorrections \in T /\ \A x \in T : x = Len(r) \/ x = MaxCorrections
    BY <1>3, ReadingsAssumption
  <2> HIDE DEF T
  <2>2. Min(T) \in T /\ \A x \in T : Min(T) <= x
    BY <2>1, Extremes
  <2> QED
    BY <2>1, <2>2 DEF T
<1> HIDE DEF m
<1>5. ASSUME NEW i \in 1 .. m
      PROVE  r[i] \in Near(w, o) /\ Cardinality(Nearer(w, Near(w, o), r[i])) < MaxCorrections
  <2>1. i \in 1 .. Len(r) /\ i - 1 < MaxCorrections
    BY <1>3, <1>4
  <2> QED
    BY <1>1, <1>3, <2>1
<1>6. ASSUME NEW e \in Near(w, o), Cardinality(Nearer(w, Near(w, o), e)) < MaxCorrections
      PROVE  \E i \in 1 .. m : r[i] = e
  <2>1. PICK i \in 1 .. Len(r) : r[i] = e
    BY <1>3
  <2>2. i - 1 < MaxCorrections
    BY <1>1, <1>6, <2>1
  <2>3. i \in 1 .. m
    BY <1>3, <1>4, <2>2
  <2> QED
    BY <2>1, <2>3
<1> QED
  BY <1>2, <1>5, <1>6

LEMMA CorrectionFits ==
  ASSUME NEW w \in Seq(Char), NEW o \in 0 .. Len(w) - 1
  PROVE  /\ EdgesAt(w, o, CorrectionEdges(w, o))
         /\ \A e \in CorrectionEdges(w, o) : Off(w, e) \in Nat
<1>1. CorrectionEdges(w, o) \subseteq Near(w, o)
  BY CorrectionMembers
<1>2. EdgesAt(w, o, Near(w, o)) /\ \A e \in Near(w, o) : Off(w, e) \in Nat
  BY NearFits, NearKeyed
<1>3. IsFiniteSet(CorrectionEdges(w, o))
  BY <1>1, <1>2, FS_Subset DEF EdgesAt
<1> QED
  BY <1>1, <1>2, <1>3 DEF EdgesAt

-----------------------------------------------------------------------------
(***************************************************************************)
(* Graphs of an input, and what adding edges makes of them.                *)
(***************************************************************************)
WellFormed(w, g) ==
  EdgesFit(w, g) /\ IsFiniteSet(DOMAIN g) /\ \A e \in DOMAIN g : g[e] \in Nat

UnionOver(w, F) == UNION {F[o] : o \in 0 .. Len(w) - 1}

LEMMA UnionFits ==
  ASSUME NEW w \in Seq(Char), NEW F, \A o \in 0 .. Len(w) - 1 : EdgesAt(w, o, F[o])
  PROVE  IsFiniteSet(UnionOver(w, F)) /\ UnionOver(w, F) \subseteq EdgesIn(w)
<1>1. IsFiniteSet(0 .. Len(w) - 1)
  BY FS_Interval
<1>2. IsFiniteSet({F[o] : o \in 0 .. Len(w) - 1})
  BY <1>1, FiniteImage
<1>3. \A T \in {F[o] : o \in 0 .. Len(w) - 1} : IsFiniteSet(T)
  BY DEF EdgesAt
<1>4. IsFiniteSet(UnionOver(w, F))
  BY <1>2, <1>3, FS_UNION DEF UnionOver
<1>5. UnionOver(w, F) \subseteq EdgesIn(w)
  BY DEF UnionOver, EdgesAt, FitsAt
<1> QED
  BY <1>4, <1>5

\* PinyinSegmentor::segment.
LEMMA SegmentFits ==
  ASSUME NEW w \in Seq(Char), NEW o
  PROVE  WellFormed(w, Segment(w, o)) /\ Covers(w, Segment(w, o))
<1> DEFINE D == 0 .. Len(w) - 1
           T == [k \in D |-> TrieEdges(w, k)]
           C == [k \in D |-> CorrectionEdges(w, k)]
           typed == UnionOver(w, T)
           corrected == IF "correction" \in o THEN UnionOver(w, C) ELSE {}
           g == Segment(w, o)
<1>1. typed = UNION {TrieEdges(w, k) : k \in D} /\ UnionOver(w, C) = UNION {CorrectionEdges(w, k) : k \in D}
  BY DEF UnionOver
<1>2. g = [e \in typed \cup corrected |->
             IF e \in typed THEN 0 ELSE EditPenalty * Off(w, e)]
  BY <1>1, Zenon DEF Segment, Off
<1>3. IsFiniteSet(typed) /\ typed \subseteq EdgesIn(w)
  <2>1. \A k \in D : EdgesAt(w, k, T[k])
    BY TrieFits
  <2> HIDE DEF T
  <2> QED
    BY <2>1, UnionFits
<1>4. IsFiniteSet(UnionOver(w, C)) /\ UnionOver(w, C) \subseteq EdgesIn(w)
  <2>1. \A k \in D : EdgesAt(w, k, C[k])
    BY CorrectionFits
  <2> HIDE DEF C
  <2> QED
    BY <2>1, UnionFits
<1>5. \A e \in UnionOver(w, C) : Off(w, e) \in Nat
  BY CorrectionFits DEF UnionOver
<1>6. \A k \in D : TrieEdges(w, k) \subseteq typed
  BY DEF UnionOver
<1>7. \A k \in D : \E e \in TrieEdges(w, k) : e.start = k
  BY TrieFits DEF EdgesAt, FitsAt
<1> HIDE DEF typed, g
<1>8. IsFiniteSet(corrected) /\ corrected \subseteq EdgesIn(w) /\ \A e \in corrected : Off(w, e) \in Nat
  BY <1>4, <1>5, FS_EmptySet
<1> HIDE DEF corrected
<1>9. DOMAIN g = typed \cup corrected /\ IsFiniteSet(typed \cup corrected)
  BY <1>2, <1>3, <1>8, FS_Union
<1>10. \A e \in DOMAIN g : g[e] \in Nat
  <2>1. EditPenalty \in Nat /\ \A k \in Nat : EditPenalty * k \in Nat
    BY ReadingsAssumption
  <2> QED
    BY <1>2, <1>8, <2>1
<1>11. WellFormed(w, g)
  BY <1>3, <1>8, <1>9, <1>10 DEF WellFormed, EdgesFit
<1>12. Covers(w, g)
  BY <1>6, <1>7, <1>9 DEF Covers
<1> QED
  BY <1>11, <1>12 DEF g

\* What add_edge_with_cost is called with.
Additions(w) == [edge : EdgesIn(w), cost : Nat]

LEMMA AddedFits ==
  ASSUME NEW w \in Seq(Char), NEW g, WellFormed(w, g), NEW a \in Additions(w)
  PROVE  WellFormed(w, Added(g, a)) /\ DOMAIN Added(g, a) = DOMAIN g \cup {a.edge}
<1> DEFINE e == a.edge
           c == a.cost
           h == Added(g, a)
<1>1. e \in EdgesIn(w) /\ c \in Nat
  BY DEF Additions
<1>2. h = [f \in DOMAIN g \cup {e} |->
             IF f # e THEN g[f]
             ELSE IF c = 0 \/ e \notin DOMAIN g \/ g[e] = 0 THEN c ELSE Min({g[e], c})]
  BY Zenon DEF Added, AddEdge
<1>3. \A x, y \in Nat : Min({x, y}) \in Nat
  <2> SUFFICES ASSUME NEW x \in Nat, NEW y \in Nat PROVE Min({x, y}) \in Nat
    OBVIOUS
  <2>1. PICK S : S = {x, y}
    OBVIOUS
  <2>2. S \subseteq Int /\ S # {} /\ S \subseteq Nat /\ 0 \in Int /\ \A z \in S : 0 <= z
    BY <2>1
  <2>3. Min(S) \in S
    BY <2>2, Extremes
  <2> QED
    BY <2>1, <2>2, <2>3
<1> HIDE DEF e, c, h
<1>4. DOMAIN h = DOMAIN g \cup {e}
  BY <1>2
<1>5. IsFiniteSet(DOMAIN g \cup {e})
  BY FS_Singleton, FS_Union DEF WellFormed
<1>6. \A f \in DOMAIN h : h[f] \in Nat
  BY <1>1, <1>2, <1>3 DEF WellFormed
<1>7. EdgesFit(w, h)
  BY <1>1, <1>4 DEF WellFormed, EdgesFit
<1> QED
  BY <1>4, <1>5, <1>6, <1>7 DEF WellFormed, h, e

\* A run of additions keeps what was there and leaves every edge it adds.
LEMMA AddAllFits ==
  ASSUME NEW w \in Seq(Char), NEW g, WellFormed(w, g), NEW q \in Seq(Additions(w))
  PROVE  /\ WellFormed(w, AddAll(g, q)) /\ DOMAIN g \subseteq DOMAIN AddAll(g, q)
         /\ \A i \in 1 .. Len(q) : q[i].edge \in DOMAIN AddAll(g, q)
<1> DEFINE m == Len(q)
           Holds(h, k) == /\ WellFormed(w, h) /\ DOMAIN g \subseteq DOMAIN h
                          /\ \A i \in 1 .. k : q[i].edge \in DOMAIN h
<1>1. m \in Nat /\ DOMAIN q = 1 .. m /\ \A i \in 1 .. m : q[i] \in Additions(w)
  BY LenProperties, ElementOfSeq
<1>2. PICK h : Adds!Trace(q, g, m, h) /\ Adds!Fold(g, q) = h[m]
  BY <1>1, Adds!FoldIsTrace
<1>3. AddAll(g, q) = h[m]
  BY <1>2, FoldsAgree DEF AddAll
<1> DEFINE Good == {k \in Nat : k <= m => Holds(h[k], k)}
<1> HIDE DEF m
<1>4. 0 \in Good
  <2>1. h[0] = g
    BY <1>1, <1>2 DEF Adds!Trace
  <2> QED
    BY <2>1
<1>5. ASSUME NEW k \in Nat, k \in Good
      PROVE  k + 1 \in Good
  <2> SUFFICES ASSUME k + 1 <= m PROVE Holds(h[k + 1], k + 1)
    OBVIOUS
  <2>1. k + 1 \in 0 .. m /\ k + 1 # 0 /\ (k + 1) - 1 = k /\ k + 1 \in 1 .. m /\ k <= m
        /\ \A i \in 1 .. k + 1 : i \in 1 .. k \/ i = k + 1
    BY <1>1
  <2>2. h[k + 1] = Added(h[k], q[k + 1])
    BY <1>2, <2>1 DEF Adds!Trace
  <2>3. Holds(h[k], k) /\ q[k + 1] \in Additions(w)
    BY <1>1, <1>5, <2>1
  <2>4. WellFormed(w, h[k + 1]) /\ DOMAIN h[k + 1] = DOMAIN h[k] \cup {q[k + 1].edge}
    BY <2>2, <2>3, AddedFits
  <2> QED
    BY <2>1, <2>3, <2>4
<1> HIDE DEF Good
<1>6. m \in Good
  BY <1>1, <1>4, <1>5, Best!SetInduction
<1>7. Holds(h[m], m)
  BY <1>1, <1>6 DEF Good
<1> QED
  BY <1>3, <1>7 DEF m

-----------------------------------------------------------------------------
(***************************************************************************)
(* The normalizers.                                                        *)
(***************************************************************************)
LEMMA CodesListed ==
  ASSUME NEW S, S \subseteq Syllable
  PROVE  Lists(SortedBy(S, LAMBDA s : s), S)
<1> DEFINE key == [s \in S |-> s]
<1>1. IsFiniteSet(S) /\ \A s \in S : s \in Seq(Int)
  BY Chars, Syllables, FS_Subset
<1>2. key \in [S -> Seq(Int)] /\ \A s, t \in S : key[s] = key[t] => s = t
  BY <1>1
<1>3. Keyed(S, key) = {[key |-> s, of |-> s] : s \in S}
  BY DEF Keyed
<1> HIDE DEF key
<1>4. SortedBy(S, LAMBDA s : s) =
        [i \in 1 .. Cardinality(S) |-> InKeyOrder({[key |-> s, of |-> s] : s \in S})[i].of]
  BY Zenon DEF SortedBy, InKeyOrder, InOrder, KeyPrecedes
<1>5. SortedBy(S, LAMBDA s : s) = Listing(S, key)
  BY <1>3, <1>4, Zenon DEF Listing
<1> QED
  BY <1>1, <1>2, <1>5, ListingLists

LEMMA NumbersListed ==
  ASSUME NEW S, S \subseteq Nat, IsFiniteSet(S)
  PROVE  Lists(SortedBy(S, LAMBDA i : <<i>>), S)
<1> DEFINE key == [i \in S |-> <<i>>]
<1>1. \A i \in S : <<i>> \in Seq(Int)
  OBVIOUS
<1>2. key \in [S -> Seq(Int)] /\ \A i, j \in S : key[i] = key[j] => i = j
  BY <1>1
<1>3. Keyed(S, key) = {[key |-> <<i>>, of |-> i] : i \in S}
  BY DEF Keyed
<1> HIDE DEF key
<1>4. SortedBy(S, LAMBDA i : <<i>>) =
        [i \in 1 .. Cardinality(S) |-> InKeyOrder({[key |-> <<j>>, of |-> j] : j \in S})[i].of]
  BY Zenon DEF SortedBy, InKeyOrder, InOrder, KeyPrecedes
<1>5. SortedBy(S, LAMBDA i : <<i>>) = Listing(S, key)
  BY <1>3, <1>4, Zenon DEF Listing
<1> QED
  BY <1>2, <1>5, ListingLists

\* An expansion costs a number on top of its edge.
Expansions(w, g, e) ==
  LET codes == SortedBy({s \in Syllable : s[1] = w[e.end]}, LAMBDA s : s)
  IN  [i \in DOMAIN codes |->
         [edge |-> Edge(e.start, e.end, codes[i], "Complete"),
          cost |-> g[e] + AbbreviationPenalty]]

LEMMA ExpansionsFit ==
  ASSUME NEW w \in Seq(Char), NEW g, WellFormed(w, g), NEW e \in DOMAIN g
  PROVE  Expansions(w, g, e) \in Seq(Additions(w))
<1> DEFINE S == {s \in Syllable : s[1] = w[e.end]}
           codes == SortedBy(S, LAMBDA s : s)
           x == Expansions(w, g, e)
<1>1. S \subseteq Syllable
  OBVIOUS
<1> HIDE DEF S
<1>2. ListedIn(codes, S)
  BY <1>1, CodesListed, ListsAreListed
<1>3. x = [i \in DOMAIN codes |-> [edge |-> Edge(e.start, e.end, codes[i], "Complete"),
                                   cost |-> g[e] + AbbreviationPenalty]]
  BY Zenon DEF Expansions, S
<1>4. /\ e.start \in 0 .. Len(w) - 1 /\ e.end \in e.start + 1 .. Len(w)
      /\ g[e] + AbbreviationPenalty \in Nat
  <2>1. e.start \in 0 .. Len(w) - 1 /\ e.end \in 1 .. Len(w) /\ e.start < e.end /\ g[e] \in Nat
    BY EdgeSpans DEF WellFormed
  <2> QED
    BY <2>1, ReadingsAssumption
<1> HIDE DEF codes, x
<1>5. ASSUME NEW i \in 1 .. Len(codes)
      PROVE  x[i] \in Additions(w)
  <2>1. codes[i] \in Seq(Char) /\ "Complete" \in DOMAIN Kind
    BY <1>1, <1>2, Syllables, Kinds DEF ListedIn
  <2>2. FitsAt(w, e.start, Edge(e.start, e.end, codes[i], "Complete"))
    BY <1>4, <2>1, EdgeFits
  <2>3. x[i] = [edge |-> Edge(e.start, e.end, codes[i], "Complete"), cost |-> g[e] + AbbreviationPenalty]
    BY <1>2, <1>3 DEF ListedIn
  <2> QED
    BY <1>4, <2>2, <2>3 DEF FitsAt, Additions
<1>6. DOMAIN x = 1 .. Len(codes) /\ Len(codes) \in Nat
  BY <1>2, <1>3 DEF ListedIn
<1>7. x = [i \in 1 .. Len(codes) |-> x[i]]
  BY <1>3, <1>6
<1> QED
  BY <1>5, <1>6, <1>7, IsASeq DEF x

\* Lists of lists of additions, flattened.
LEMMA FlatAdditions ==
  ASSUME NEW A, NEW q \in Seq(Seq(A))
  PROVE  /\ FlattenSeq(q) \in Seq(A)
         /\ \A i \in 1 .. Len(q) : \A j \in 1 .. Len(q[i]) :
              \E k \in 1 .. Len(FlattenSeq(q)) : FlattenSeq(q)[k] = q[i][j]
<1>1. /\ FlattenSeq(q) \in Seq(A)
      /\ \A x : x \in Best!Range(FlattenSeq(q)) <=> \E i \in 1 .. Len(q) : x \in Best!Range(q[i])
  BY Best!FlattenMembers, FlattensAgree
<1>2. ASSUME NEW i \in 1 .. Len(q), NEW j \in 1 .. Len(q[i])
      PROVE  \E k \in 1 .. Len(FlattenSeq(q)) : FlattenSeq(q)[k] = q[i][j]
  <2>1. q[i] \in Seq(A)
    BY ElementOfSeq
  <2>2. DOMAIN q[i] = 1 .. Len(q[i])
    BY <2>1, LenProperties
  <2>3. q[i][j] \in Best!Range(q[i])
    BY <2>2 DEF Best!Range
  <2>4. q[i][j] \in Best!Range(FlattenSeq(q))
    BY <1>1, <2>3
  <2>5. DOMAIN FlattenSeq(q) = 1 .. Len(FlattenSeq(q))
    BY <1>1, LenProperties
  <2> QED
    BY <2>4, <2>5 DEF Best!Range
<1> QED
  BY <1>1, <1>2

LEMMA AbbreviationsFit ==
  ASSUME NEW w \in Seq(Char), NEW g, WellFormed(w, g)
  PROVE  AbbreviationAdditions(w, g) \in Seq(Additions(w))
<1> DEFINE S == {e \in DOMAIN g : e.end = e.start + 1 /\ w[e.end] \in Letter}
           edges == SortedBy(S, EdgeKey)
           q == [i \in DOMAIN edges |-> Expansions(w, g, edges[i])]
<1>1. S \subseteq DOMAIN g /\ S \subseteq AnEdge /\ IsFiniteSet(S)
  BY EdgeSpans, FS_Subset DEF WellFormed
<1>2. AbbreviationAdditions(w, g) = FlattenSeq(q)
  BY Zenon DEF AbbreviationAdditions, Expansions
<1> HIDE DEF S
<1>3. ListedIn(edges, S)
  BY <1>1, EdgesListed, ListsAreListed
<1> HIDE DEF edges
<1>4. \A i \in 1 .. Len(edges) : Expansions(w, g, edges[i]) \in Seq(Additions(w))
  BY <1>1, <1>3, ExpansionsFit DEF ListedIn
<1>5. q \in Seq(Seq(Additions(w)))
  BY <1>3, <1>4 DEF ListedIn
<1> HIDE DEF q
<1> QED
  BY <1>2, <1>5, FlatAdditions

\* AbbreviationNormalizer adds to the graph.
LEMMA AbbreviatedFits ==
  ASSUME NEW w \in Seq(Char), NEW g, WellFormed(w, g), Covers(w, g)
  PROVE  WellFormed(w, Abbreviated(w, g)) /\ Covers(w, Abbreviated(w, g))
<1>1. /\ WellFormed(w, AddAll(g, AbbreviationAdditions(w, g)))
      /\ DOMAIN g \subseteq DOMAIN AddAll(g, AbbreviationAdditions(w, g))
  BY AbbreviationsFit, AddAllFits
<1> QED
  BY <1>1 DEF Abbreviated, Covers

\* FuzzyNormalizer: the code itself comes first.
LEMMA VariantsFit ==
  ASSUME NEW code \in Seq(Char)
  PROVE  ListedIn(Variants(code), Seq(Char)) /\ 1 \in 1 .. Len(Variants(code)) /\ Variants(code)[1] = code
<1> DEFINE S == {i \in DOMAIN Rules : Applies(Rules[i], code)}
           applied == SortedBy(S, LAMBDA i : <<i>>)
           by(rule) == rule.to \o SubSeq(code, Len(rule.from) + 1, Len(code))
           rest == [i \in DOMAIN applied |-> by(Rules[applied[i]])]
<1>1. S \subseteq Nat /\ IsFiniteSet(S) /\ S \subseteq DOMAIN Rules
  <2>1. DOMAIN Rules = 1 .. Len(Rules) /\ Len(Rules) \in Nat
    BY ReadingsAssumption, LenProperties
  <2>2. IsFiniteSet(1 .. Len(Rules))
    BY <2>1, FS_Interval
  <2> QED
    BY <2>1, <2>2, FS_Subset
<1>2. Variants(code) = <<code>> \o rest
  BY Zenon DEF Variants
<1> HIDE DEF S
<1>3. ListedIn(applied, S)
  BY <1>1, NumbersListed, ListsAreListed
<1> HIDE DEF applied
<1>4. ASSUME NEW r \in DOMAIN Rules
      PROVE  by(Rules[r]) \in Seq(Char)
  <2>1. Rules[r].from \in Seq(Letter) /\ Rules[r].to \in Seq(Letter)
    <3> DEFINE R == [from : Seq(Letter) \ {<<>>}, to : Seq(Letter) \ {<<>>}]
    <3>1. Rules \in Seq(R)
      BY ReadingsAssumption
    <3>2. \A rule \in R : rule.from \in Seq(Letter) /\ rule.to \in Seq(Letter)
      OBVIOUS
    <3> HIDE DEF R
    <3>3. Rules[r] \in R
      BY <3>1, LenProperties, ElementOfSeq
    <3> QED
      BY <3>2, <3>3
  <2>2. Rules[r].to \in Seq(Char)
    BY <2>1, Chars, SeqMonotonic
  <2>3. Len(Rules[r].from) \in Nat /\ Len(code) \in 0 .. Len(code)
    BY <2>1
  <2>4. SubSeq(code, Len(Rules[r].from) + 1, Len(code)) \in Seq(Char)
    BY <2>3, Under
  <2> QED
    BY <2>2, <2>4, ConcatProperties
<1> HIDE DEF by
<1>5. rest \in Seq(Seq(Char))
  <2>1. \A i \in 1 .. Len(applied) : by(Rules[applied[i]]) \in Seq(Char)
    BY <1>1, <1>3, <1>4 DEF ListedIn
  <2>2. DOMAIN applied = 1 .. Len(applied) /\ Len(applied) \in Nat
    BY <1>3 DEF ListedIn
  <2> QED
    BY <2>1, <2>2
<1> HIDE DEF rest
<1>6. <<code>> \in Seq(Seq(Char)) /\ Len(<<code>>) = 1 /\ <<code>>[1] = code
  OBVIOUS
<1>7. Variants(code) \in Seq(Seq(Char)) /\ Len(Variants(code)) = 1 + Len(rest) /\ Variants(code)[1] = code
      /\ Len(rest) \in Nat
  BY <1>2, <1>5, <1>6, ConcatProperties
<1> QED
  BY <1>7, LenProperties, ElementOfSeq DEF ListedIn

VariantAdditions(g, e) ==
  LET codes == Variants(e.canonical)
  IN  [i \in DOMAIN codes |->
         [edge |-> [e EXCEPT !.canonical = codes[i]],
          cost |-> g[e] + IF codes[i] = e.canonical THEN 0 ELSE VariantPenalty]]

LEMMA VariantAdditionsFit ==
  ASSUME NEW w \in Seq(Char), NEW g, WellFormed(w, g), NEW e \in DOMAIN g
  PROVE  /\ VariantAdditions(g, e) \in Seq(Additions(w))
         /\ 1 \in 1 .. Len(VariantAdditions(g, e)) /\ VariantAdditions(g, e)[1].edge = e
<1> DEFINE codes == Variants(e.canonical)
           x == VariantAdditions(g, e)
<1>1. e \in EdgesIn(w) /\ e \in AnEdge /\ e.canonical \in Seq(Char) /\ g[e] \in Nat
  BY DEF WellFormed, EdgesFit, EdgesIn, AnEdge
<1>2. ListedIn(codes, Seq(Char)) /\ 1 \in 1 .. Len(codes) /\ codes[1] = e.canonical
  BY <1>1, VariantsFit
<1>3. x = [i \in DOMAIN codes |->
             [edge |-> [e EXCEPT !.canonical = codes[i]],
              cost |-> g[e] + IF codes[i] = e.canonical THEN 0 ELSE VariantPenalty]]
  BY DEF VariantAdditions
<1> HIDE DEF codes, x
<1>4. \A c \in Seq(Char) : [e EXCEPT !.canonical = c] \in EdgesIn(w)
  BY <1>1 DEF EdgesIn, AnEdge
<1>5. [e EXCEPT !.canonical = e.canonical] = e
  BY <1>1 DEF AnEdge
<1>6. ASSUME NEW i \in 1 .. Len(codes)
      PROVE  x[i] \in Additions(w)
  <2>1. codes[i] \in Seq(Char) /\ i \in DOMAIN codes
    BY <1>2 DEF ListedIn
  <2>2. x[i] = [edge |-> [e EXCEPT !.canonical = codes[i]],
                cost |-> g[e] + IF codes[i] = e.canonical THEN 0 ELSE VariantPenalty]
    BY <1>3, <2>1
  <2>3. g[e] + (IF codes[i] = e.canonical THEN 0 ELSE VariantPenalty) \in Nat
    BY <1>1, ReadingsAssumption
  <2>4. [e EXCEPT !.canonical = codes[i]] \in EdgesIn(w)
    BY <1>4, <2>1
  <2> QED
    BY <2>2, <2>3, <2>4 DEF Additions
<1>7. DOMAIN x = 1 .. Len(codes) /\ Len(codes) \in Nat
  BY <1>2, <1>3 DEF ListedIn
<1>8. x[1].edge = e
  BY <1>2, <1>3, <1>5 DEF ListedIn
<1>9. x = [i \in 1 .. Len(codes) |-> x[i]]
  BY <1>3, <1>7
<1>10. x \in Seq(Additions(w)) /\ Len(x) = Len(codes)
  BY <1>6, <1>7, <1>9, IsASeq
<1> QED
  BY <1>2, <1>8, <1>10 DEF x

LEMMA FuzziedFits ==
  ASSUME NEW w \in Seq(Char), NEW g, WellFormed(w, g), Covers(w, g), NEW o
  PROVE  WellFormed(w, Fuzzied(g, o)) /\ Covers(w, Fuzzied(g, o))
<1> DEFINE edges == EdgesOf(g)
           q == [i \in DOMAIN edges |-> VariantAdditions(g, edges[i])]
           h == AddAll(EmptyGraph, FuzzyAdditions(g))
<1>1. FuzzyAdditions(g) = FlattenSeq(q)
  BY Zenon DEF FuzzyAdditions, VariantAdditions
<1>2. ListedIn(edges, DOMAIN g) /\ \A e \in DOMAIN g : \E i \in 1 .. Len(edges) : edges[i] = e
  <2>1. DOMAIN g \subseteq AnEdge /\ IsFiniteSet(DOMAIN g)
    BY EdgeSpans DEF WellFormed
  <2> QED
    BY <2>1, EdgesListed, ListsAreListed DEF EdgesOf
<1> HIDE DEF edges
<1>3. \A i \in 1 .. Len(edges) : /\ VariantAdditions(g, edges[i]) \in Seq(Additions(w))
                                 /\ 1 \in 1 .. Len(VariantAdditions(g, edges[i]))
                                 /\ VariantAdditions(g, edges[i])[1].edge = edges[i]
  BY <1>2, VariantAdditionsFit DEF ListedIn
<1>4. /\ q \in Seq(Seq(Additions(w))) /\ Len(q) = Len(edges)
      /\ \A i \in 1 .. Len(edges) : q[i] = VariantAdditions(g, edges[i])
  BY <1>2, <1>3 DEF ListedIn
<1> HIDE DEF q
<1>5. FuzzyAdditions(g) \in Seq(Additions(w))
      /\ \A e \in DOMAIN g : \E k \in 1 .. Len(FuzzyAdditions(g)) : FuzzyAdditions(g)[k].edge = e
  <2>1. FlattenSeq(q) \in Seq(Additions(w))
    BY <1>4, FlatAdditions
  <2>2. ASSUME NEW e \in DOMAIN g
        PROVE  \E k \in 1 .. Len(FlattenSeq(q)) : FlattenSeq(q)[k].edge = e
    <3>1. PICK i \in 1 .. Len(edges) : edges[i] = e
      BY <1>2
    <3>2. i \in 1 .. Len(q) /\ 1 \in 1 .. Len(q[i]) /\ q[i][1].edge = e
      BY <1>3, <1>4, <3>1
    <3>3. \E k \in 1 .. Len(FlattenSeq(q)) : FlattenSeq(q)[k] = q[i][1]
      BY <1>4, <3>2, FlatAdditions
    <3> QED
      BY <3>2, <3>3
  <2> QED
    BY <1>1, <2>1, <2>2
<1>6. WellFormed(w, EmptyGraph)
  BY FS_EmptySet DEF WellFormed, EdgesFit, EmptyGraph
<1>7. WellFormed(w, h) /\ \A k \in 1 .. Len(FuzzyAdditions(g)) : FuzzyAdditions(g)[k].edge \in DOMAIN h
  BY <1>5, <1>6, AddAllFits
<1>8. DOMAIN g \subseteq DOMAIN h
  BY <1>5, <1>7
<1>9. Covers(w, h)
  BY <1>8 DEF Covers
<1> QED
  BY <1>7, <1>9 DEF Fuzzied

-----------------------------------------------------------------------------
(***************************************************************************)
(* The specification.                                                      *)
(***************************************************************************)
\* The inductive invariant: the graph fits the input and leads on from every
\* offset but the last.
Inv ==
  /\ options \subseteq Options
  /\ input \in Seq(Char)
  /\ WellFormed(input, graph)
  /\ Covers(input, graph)

LEMMA ResolveKeeps ==
  ASSUME options \subseteq Options, NEW w \in Seq(Char), Resolve(w)
  PROVE  Inv'
<1>1. input' = w /\ graph' = Normalize(w, Segment(w, options), options) /\ options' = options
  BY DEF Resolve
<1>2. WellFormed(w, graph') /\ Covers(w, graph')
  BY <1>1, SegmentFits, AbbreviatedFits, FuzziedFits DEF Normalize
<1> QED
  BY <1>1, <1>2 DEF Inv

THEOREM Invariance == Spec => []Inv
<1>1. Init => Inv
  <2> SUFFICES ASSUME Init PROVE Inv
    OBVIOUS
  <2>1. WellFormed(input, graph)
    BY FS_EmptySet DEF Init, WellFormed, EdgesFit, EmptyGraph
  <2>2. Covers(input, graph)
    BY DEF Init, Covers
  <2> QED
    BY <2>1, <2>2 DEF Init, Inv
<1>2. Inv /\ [Next]_vars => Inv'
  <2> SUFFICES ASSUME Inv, [Next]_vars PROVE Inv'
    OBVIOUS
  <2> USE DEF Inv
  <2>1. CASE Type
    <3>1. PICK c \in Char : Resolve(Append(input, c))
      BY <2>1 DEF Type
    <3>2. Append(input, c) \in Seq(Char)
      BY AppendProperties
    <3> QED
      BY <3>1, <3>2, ResolveKeeps
  <2>2. CASE Refresh
    <3>1. PICK e \in DOMAIN graph : Resolve(SubSeq(input, e.end + 1, Len(input)))
      BY <2>2 DEF Refresh
    <3>2. e.end \in Nat /\ Len(input) \in 0 .. Len(input)
      BY EdgeSpans DEF WellFormed
    <3>3. SubSeq(input, e.end + 1, Len(input)) \in Seq(Char)
      BY <3>2, Under
    <3> QED
      BY <3>1, <3>3, ResolveKeeps
  <2>3. CASE UNCHANGED vars
    BY <2>3 DEF vars, WellFormed, Covers, EdgesFit
  <2> QED
    BY <2>1, <2>2, <2>3 DEF Next
<1> QED
  BY <1>1, <1>2, PTL DEF Spec

\* The graph has edges inside the input only, with costs that are numbers, as
\* add_edge_with_cost asserts.
THEOREM TypeCorrect == Spec => []TypeOK
<1>1. Inv => TypeOK
  BY EdgeSpans DEF Inv, WellFormed, TypeOK, AnEdge
<1> QED
  BY <1>1, Invariance, PTL

\* primary_path reads every input to its end, and no path is preferred to the one
\* it finds, whatever the segmentor and the normalizers put into the graph.
THEOREM PrimaryIsBest == Spec => []PrimaryPathIsBest
<1>1. Inv => PrimaryPathIsBest
  <2> SUFFICES ASSUME Inv PROVE PrimaryPathIsBest
    OBVIOUS
  <2>1. input \in Seq(Char) /\ EdgesFit(input, graph) /\ IsFiniteSet(DOMAIN graph) /\ Covers(input, graph)
    BY DEF Inv, WellFormed
  <2> QED
    BY <2>1, PrimaryBest DEF PrimaryPathIsBest
<1> QED
  BY <1>1, Invariance, PTL

\* has_complete_path, on which abbreviations depend, is exact.
THEOREM CompletePathIsExact == Spec => []CompletePathExists
<1>1. Inv => CompletePathExists
  BY CompletePathIsPath DEF Inv, WellFormed, CompletePathExists, SpelledPath
<1> QED
  BY <1>1, Invariance, PTL

-----------------------------------------------------------------------------
(***************************************************************************)
(* The rest of an input is read as it was read inside the whole.           *)
(***************************************************************************)
Rest(w, k) == SubSeq(w, k + 1, Len(w))

Down(k, e) == Edge(e.start - k, e.end - k, e.canonical, e.kind)

Up(k, e) == Edge(e.start + k, e.end + k, e.canonical, e.kind)

Shifted(k, S) == {Down(k, e) : e \in S}

LEMMA RestParts ==
  ASSUME NEW w \in Seq(Char), NEW k \in 0 .. Len(w)
  PROVE  /\ Rest(w, k) \in Seq(Char) /\ Len(Rest(w, k)) = Len(w) - k
         /\ \A i \in 1 .. Len(w) - k : Rest(w, k)[i] = w[i + k]
<1>1. Rest(w, k) \in Seq(Char)
  BY Under DEF Rest
<1>2. \A i \in k + 1 .. Len(w) : w[i] \in Char
  BY ElementOfSeq
<1>3. k \in Nat /\ k <= Len(w) /\ Len(w) \in Nat /\ k + 1 \in Int /\ Len(w) \in Int
  OBVIOUS
<1>4. /\ Len(SubSeq(w, k + 1, Len(w))) = IF k + 1 <= Len(w) THEN Len(w) - (k + 1) + 1 ELSE 0
      /\ \A i \in 1 .. Len(w) - (k + 1) + 1 : SubSeq(w, k + 1, Len(w))[i] = w[k + 1 + i - 1]
  BY <1>2, <1>3, SubSeqProperties
<1>5. Len(Rest(w, k)) = Len(w) - k
  BY <1>3, <1>4 DEF Rest
<1>6. ASSUME NEW i \in 1 .. Len(w) - k
      PROVE  Rest(w, k)[i] = w[i + k]
  <2>1. i \in 1 .. Len(w) - (k + 1) + 1 /\ k + 1 + i - 1 = i + k
    BY <1>3
  <2> QED
    BY <1>4, <2>1 DEF Rest
<1> QED
  BY <1>1, <1>5, <1>6

\* A span of the rest holds what it holds in the whole.
LEMMA SpanOfRest ==
  ASSUME NEW w \in Seq(Char), NEW k \in 0 .. Len(w), NEW a \in Nat, NEW b \in 0 .. Len(w) - k
  PROVE  SubSeq(Rest(w, k), a + 1, b) = SubSeq(w, a + k + 1, b + k)
<1> DEFINE v == Rest(w, k)
<1>1. v \in Seq(Char) /\ Len(v) = Len(w) - k /\ \A i \in 1 .. Len(w) - k : v[i] = w[i + k]
  BY RestParts
<1> HIDE DEF v
<1>2. a + 1 \in Int /\ b \in Int /\ a + k + 1 \in Int /\ b + k \in Int /\ k \in Nat /\ Len(w) \in Nat
  OBVIOUS
<1>3. \A i \in a + 1 .. b : v[i] \in Char
  BY <1>1, <1>2, ElementOfSeq
<1>4. \A i \in a + k + 1 .. b + k : w[i] \in Char
  BY <1>2, ElementOfSeq
<1>5. /\ SubSeq(v, a + 1, b) \in Seq(Char)
      /\ Len(SubSeq(v, a + 1, b)) = IF a + 1 <= b THEN b - (a + 1) + 1 ELSE 0
      /\ \A i \in 1 .. b - (a + 1) + 1 : SubSeq(v, a + 1, b)[i] = v[a + 1 + i - 1]
  BY <1>2, <1>3, SubSeqProperties
<1>6. /\ SubSeq(w, a + k + 1, b + k) \in Seq(Char)
      /\ Len(SubSeq(w, a + k + 1, b + k)) =
           IF a + k + 1 <= b + k THEN b + k - (a + k + 1) + 1 ELSE 0
      /\ \A i \in 1 .. b + k - (a + k + 1) + 1 :
           SubSeq(w, a + k + 1, b + k)[i] = w[a + k + 1 + i - 1]
  BY <1>2, <1>4, SubSeqProperties
<1>7. PICK s, t : s = SubSeq(v, a + 1, b) /\ t = SubSeq(w, a + k + 1, b + k)
  OBVIOUS
<1>8. s \in Seq(Char) /\ t \in Seq(Char) /\ Len(s) = Len(t)
      /\ Len(s) = IF a + 1 <= b THEN b - a ELSE 0
  BY <1>2, <1>5, <1>6, <1>7
<1>9. ASSUME NEW i \in 1 .. Len(s)
      PROVE  s[i] = t[i]
  <2>1. i \in 1 .. b - a
    BY <1>2, <1>8
  <2>2. s[i] = v[a + i]
    <3>1. i \in 1 .. b - (a + 1) + 1 /\ a + 1 + i - 1 = a + i
      BY <1>2, <2>1
    <3> QED
      BY <1>5, <1>7, <3>1
  <2>3. t[i] = w[a + i + k]
    <3>1. i \in 1 .. b + k - (a + k + 1) + 1 /\ a + k + 1 + i - 1 = a + i + k
      BY <1>2, <2>1
    <3> QED
      BY <1>6, <1>7, <3>1
  <2>4. a + i \in 1 .. Len(w) - k
    BY <1>2, <2>1
  <2> QED
    BY <1>1, <2>2, <2>3, <2>4
<1> QED
  BY <1>7, <1>8, <1>9, SeqEqual DEF v

LEMMA DownParts ==
  ASSUME NEW k, NEW e
  PROVE  /\ Down(k, e).start = e.start - k /\ Down(k, e).end = e.end - k
         /\ Down(k, e).canonical = e.canonical /\ Down(k, e).kind = e.kind
BY DEF Down, Edge

LEMMA DownEdge ==
  ASSUME NEW k \in Nat, NEW a \in Nat, NEW b \in Nat, NEW s, NEW kind
  PROVE  Down(k, Edge(a + k, b + k, s, kind)) = Edge(a, b, s, kind)
<1>1. a + k - k = a /\ b + k - k = b
  OBVIOUS
<1> QED
  BY <1>1 DEF Down, Edge

LEMMA UpDown ==
  ASSUME NEW k \in Nat, NEW e \in AnEdge
  PROVE  Down(k, Up(k, e)) = e /\ Up(k, Down(k, e)) = e
<1>1. PICK a \in Nat, b \in Nat, c \in Seq(Char), d \in DOMAIN Kind : e = Edge(a, b, c, d)
  BY DEF AnEdge, Edge
<1>2. e.start = a /\ e.end = b /\ e.canonical = c /\ e.kind = d
  BY <1>1 DEF Edge
<1>3. Up(k, e) = Edge(a + k, b + k, c, d) /\ Down(k, e) = Edge(a - k, b - k, c, d)
  BY <1>2 DEF Up, Down
<1>4. a + k - k = a /\ b + k - k = b /\ a - k + k = a /\ b - k + k = b
  OBVIOUS
<1>5. Down(k, Edge(a + k, b + k, c, d)) = Edge(a, b, c, d)
  BY <1>4 DEF Down, Edge
<1>6. Up(k, Edge(a - k, b - k, c, d)) = Edge(a, b, c, d)
  BY <1>4 DEF Up, Edge
<1> QED
  BY <1>1, <1>3, <1>5, <1>6

LEMMA ShiftedSets ==
  ASSUME NEW k
  PROVE  /\ \A S, T : Shifted(k, S \cup T) = Shifted(k, S) \cup Shifted(k, T)
         /\ \A S : Shifted(k, S) = {} <=> S = {}
         /\ \A x : Shifted(k, {x}) = {Down(k, x)}
         /\ Shifted(k, {}) = {}
<1>1. \A S, T : Shifted(k, S \cup T) = Shifted(k, S) \cup Shifted(k, T)
  BY DEF Shifted
<1>2. \A S : Shifted(k, S) = {} <=> S = {}
  BY DEF Shifted
<1>3. \A x : Shifted(k, {x}) = {Down(k, x)}
  BY DEF Shifted
<1> QED
  BY <1>1, <1>2, <1>3

LEMMA TrieOfRest ==
  ASSUME NEW w \in Seq(Char), NEW k \in 0 .. Len(w), NEW o \in 0 .. Len(w) - k - 1
  PROVE  TrieEdges(Rest(w, k), o) = Shifted(k, TrieEdges(w, o + k))
<1> DEFINE n == Len(w)
           v == Rest(w, k)
           m == Len(v)
           run(b) == SubSeq(v, o + 1, b)
           full(b) == SubSeq(w, (o + k) + 1, b)
           complete == {Edge(o, b, run(b), "Complete") : b \in {c \in o + 1 .. m : run(c) \in Syllable}}
           completeW == {Edge(o + k, b, full(b), "Complete") :
                           b \in {c \in o + k + 1 .. n : full(c) \in Syllable}}
           incomplete == IF InTrie(run(m)) /\ run(m) \notin Syllable
                         THEN {Edge(o, m, run(m), "Incomplete")} ELSE {}
           incompleteW == IF InTrie(full(n)) /\ full(n) \notin Syllable
                          THEN {Edge(o + k, n, full(n), "Incomplete")} ELSE {}
           raw == {Edge(o, o + 1, run(o + 1), "Raw")}
           rawW == {Edge(o + k, o + k + 1, full(o + k + 1), "Raw")}
<1>1. TrieEdges(v, o) = IF complete \cup incomplete = {} THEN raw ELSE complete \cup incomplete
  BY DEF TrieEdges
<1>2. TrieEdges(w, o + k) =
        IF completeW \cup incompleteW = {} THEN rawW ELSE completeW \cup incompleteW
  BY DEF TrieEdges
<1>3. m = n - k /\ k \in Nat /\ n \in Nat /\ o \in Nat /\ o + 1 <= m /\ m + k = n /\ m \in Nat
  <2>1. Len(v) = Len(w) - k
    BY RestParts
  <2> QED
    BY <2>1
<1>4. \A b \in 0 .. m : run(b) = full(b + k)
  <2> SUFFICES ASSUME NEW b \in 0 .. m PROVE run(b) = full(b + k)
    OBVIOUS
  <2>1. b \in 0 .. Len(w) - k /\ o \in Nat
    BY <1>3
  <2>2. SubSeq(Rest(w, k), o + 1, b) = SubSeq(w, o + k + 1, b + k)
    BY <2>1, SpanOfRest
  <2> QED
    BY <2>2
<1> HIDE DEF n, v, m, run, full
<1>5. \A b \in o + 1 .. m : /\ b \in 0 .. m /\ b + k \in o + k + 1 .. n
                            /\ \A s, kind : Down(k, Edge(o + k, b + k, s, kind)) = Edge(o, b, s, kind)
  <2> SUFFICES ASSUME NEW b \in o + 1 .. m
               PROVE  /\ b \in 0 .. m /\ b + k \in o + k + 1 .. n
                      /\ \A s, kind : Down(k, Edge(o + k, b + k, s, kind)) = Edge(o, b, s, kind)
    OBVIOUS
  <2>1. b \in Nat /\ b \in 0 .. m /\ b + k \in o + k + 1 .. n
    BY <1>3
  <2> QED
    BY <1>3, <2>1, DownEdge
<1>6. complete = Shifted(k, completeW)
  <2>1. ASSUME NEW e \in complete
        PROVE  e \in Shifted(k, completeW)
    <3>1. PICK b \in o + 1 .. m : run(b) \in Syllable /\ e = Edge(o, b, run(b), "Complete")
      OBVIOUS
    <3>2. b + k \in o + k + 1 .. n /\ full(b + k) = run(b)
      BY <1>4, <1>5, <3>1
    <3>3. Edge(o + k, b + k, full(b + k), "Complete") \in completeW
      BY <3>1, <3>2
    <3>4. Down(k, Edge(o + k, b + k, full(b + k), "Complete")) = e
      BY <1>5, <3>1, <3>2
    <3> HIDE DEF completeW
    <3> QED
      BY <3>3, <3>4 DEF Shifted
  <2>2. ASSUME NEW e \in completeW
        PROVE  Down(k, e) \in complete
    <3>1. PICK b \in o + k + 1 .. n : full(b) \in Syllable /\ e = Edge(o + k, b, full(b), "Complete")
      OBVIOUS
    <3>2. b - k \in o + 1 .. m /\ (b - k) + k = b
      BY <1>3
    <3>3. PICK c \in o + 1 .. m : c = b - k /\ c + k = b
      BY <3>2
    <3>4. run(c) = full(b)
      BY <1>4, <1>5, <3>3
    <3>5. Down(k, e) = Edge(o, c, run(c), "Complete")
      BY <1>5, <3>1, <3>3, <3>4
    <3> QED
      BY <3>1, <3>4, <3>5
  <2> HIDE DEF complete, completeW
  <2> QED
    BY <2>1, <2>2 DEF Shifted
<1>7. /\ \A A, B : Shifted(k, A \cup B) = Shifted(k, A) \cup Shifted(k, B)
      /\ \A A : Shifted(k, A) = {} <=> A = {}
      /\ \A x : Shifted(k, {x}) = {Down(k, x)}
      /\ Shifted(k, {}) = {}
  BY ShiftedSets, Zenon
<1>8. incomplete = Shifted(k, incompleteW)
  <2>1. m \in o + 1 .. m /\ m + k = n
    BY <1>3
  <2>2. run(m) = full(n)
    BY <1>4, <1>5, <2>1
  <2>3. Down(k, Edge(o + k, n, full(n), "Incomplete")) = Edge(o, m, run(m), "Incomplete")
    BY <1>5, <2>1, <2>2
  <2> QED
    BY <1>7, <2>2, <2>3
<1>9. raw = Shifted(k, rawW)
  <2>1. o + 1 \in o + 1 .. m /\ (o + 1) + k = o + k + 1
    BY <1>3
  <2>2. run(o + 1) = full(o + k + 1)
    BY <1>4, <1>5, <2>1
  <2>3. Down(k, Edge(o + k, o + k + 1, full(o + k + 1), "Raw")) = Edge(o, o + 1, run(o + 1), "Raw")
    BY <1>5, <2>1, <2>2
  <2> QED
    BY <1>7, <2>3
<1> HIDE DEF complete, completeW, incomplete, incompleteW, raw, rawW
<1>10. complete \cup incomplete = Shifted(k, completeW \cup incompleteW)
  BY <1>6, <1>8, <1>7
<1> QED
  BY <1>1, <1>2, <1>7, <1>9, <1>10 DEF v

LEMMA AvailableInRest ==
  ASSUME NEW w \in Seq(Char), NEW k \in 0 .. Len(w), NEW o \in 0 .. Len(w) - k - 1
  PROVE  Available(Rest(w, k), o) = Available(w, o + k)
<1> DEFINE n == Len(w)
           v == Rest(w, k)
           m == Len(v)
           S == {m} \cup {i \in o .. m - 1 : v[i + 1] \notin Letter}
           T == {n} \cup {i \in o + k .. n - 1 : w[i + 1] \notin Letter}
<1>1. Available(v, o) = Min(S) - o /\ Available(w, o + k) = Min(T) - (o + k)
  BY DEF Available
<1>2. /\ m = n - k /\ k \in Nat /\ n \in Nat /\ o \in Nat /\ o + 1 <= m /\ m + k = n /\ m \in Nat
      /\ \A i \in 1 .. m : v[i] = w[i + k]
  <2>1. Len(v) = Len(w) - k /\ \A i \in 1 .. Len(w) - k : v[i] = w[i + k]
    BY RestParts
  <2> QED
    BY <2>1
<1> HIDE DEF n, v, m
<1>3. \A i \in o .. m - 1 : v[i + 1] = w[i + k + 1] /\ i + k \in o + k .. n - 1
  <2> SUFFICES ASSUME NEW i \in o .. m - 1
               PROVE  v[i + 1] = w[i + k + 1] /\ i + k \in o + k .. n - 1
    OBVIOUS
  <2>1. i + 1 \in 1 .. m /\ (i + 1) + k = i + k + 1 /\ i + k \in o + k .. n - 1
    BY <1>2
  <2> QED
    BY <1>2, <2>1
<1>4. \A i \in S : i + k \in T
  BY <1>2, <1>3
<1>5. \A i \in T : i - k \in S
  <2> SUFFICES ASSUME NEW i \in T PROVE i - k \in S
    OBVIOUS
  <2>1. CASE i = n
    BY <1>2, <2>1
  <2>2. CASE i # n
    <3>1. i \in o + k .. n - 1 /\ w[i + 1] \notin Letter
      BY <2>2
    <3>2. PICK j \in o .. m - 1 : j = i - k /\ j + k = i
      BY <1>2, <3>1
    <3>3. v[j + 1] = w[i + 1]
      BY <1>3, <3>2
    <3> QED
      BY <3>1, <3>2, <3>3
  <2> QED
    BY <2>1, <2>2
<1>6. S \subseteq Int /\ S # {} /\ (\A x \in S : 0 <= x) /\ T \subseteq Int /\ T # {} /\ (\A x \in T : 0 <= x)
      /\ 0 \in Int
  BY <1>2
<1> HIDE DEF S, T
<1>7. PICK a \in S : a = Min(S) /\ \A x \in S : a <= x
  BY <1>6, Extremes
<1>8. PICK b \in T : b = Min(T) /\ \A x \in T : b <= x
  BY <1>6, Extremes
<1>9. a \in Int /\ b \in Int /\ b <= a + k /\ a <= b - k
  BY <1>4, <1>5, <1>6, <1>7, <1>8
<1> QED
  BY <1>1, <1>2, <1>7, <1>8, <1>9 DEF v

LEMMA OffOfRest ==
  ASSUME NEW w \in Seq(Char), NEW k \in 0 .. Len(w), NEW e \in EdgesIn(w), e.start >= k
  PROVE  Off(Rest(w, k), Down(k, e)) = Off(w, e)
<1>1. PICK a \in Nat, b \in Nat : a = e.start /\ b = e.end /\ a < b /\ b <= Len(w)
  BY DEF EdgesIn, AnEdge
<1>2. PICK c \in Nat : c = a - k
  BY <1>1
<1>3. b - k \in 0 .. Len(w) - k /\ c + k + 1 = a + 1 /\ (b - k) + k = b
  BY <1>1, <1>2
<1>4. SubSeq(Rest(w, k), c + 1, b - k) = SubSeq(w, c + k + 1, (b - k) + k)
  BY <1>3, SpanOfRest
<1>5. RawOf(Rest(w, k), Down(k, e)) = RawOf(w, e)
  BY <1>1, <1>2, <1>3, <1>4, DownParts DEF RawOf
<1> QED
  BY <1>5, DownParts DEF Off

LEMMA TriedInRest ==
  ASSUME NEW w \in Seq(Char), NEW k \in 0 .. Len(w), NEW o \in 0 .. Len(w) - k - 1,
         NEW s \in Seq(Char)
  PROVE  Tried(Rest(w, k), o, s) = Shifted(k, Tried(w, o + k, s))
<1> DEFINE v == Rest(w, k)
           T == Tried(w, o + k, s)
<1>1. Corrected(v, o, s) = Corrected(w, o + k, s)
  BY AvailableInRest DEF Corrected
<1>2. o + k \in 0 .. Len(w) - 1 /\ o \in Nat /\ k \in Nat
  OBVIOUS
<1>3. \A j \in Corrected(w, o + k, s) : j \in Nat
  BY <1>2, CorrectedFits
<1>4. ASSUME NEW j \in Corrected(w, o + k, s)
      PROVE  Down(k, Edge(o + k, o + k + j, s, "Complete")) = Edge(o, o + j, s, "Complete")
  <2>1. j \in Nat /\ o + j \in Nat /\ o + k + j = (o + j) + k
    BY <1>2, <1>3
  <2>2. Down(k, Edge(o + k, (o + j) + k, s, "Complete")) = Edge(o, o + j, s, "Complete")
    BY <1>2, <2>1, DownEdge
  <2> QED
    BY <2>1, <2>2
<1>5. \A e : e \in Tried(v, o, s) <=>
               \E j \in Corrected(w, o + k, s) : e = Edge(o, o + j, s, "Complete")
  BY <1>1 DEF Tried
<1>6. \A e : e \in T <=> \E j \in Corrected(w, o + k, s) : e = Edge(o + k, o + k + j, s, "Complete")
  BY DEF Tried
<1> HIDE DEF v, T
<1>7. \A e : e \in Shifted(k, T) <=> \E d \in T : e = Down(k, d)
  BY DEF Shifted
<1>8. \A e : e \in Tried(v, o, s) <=> e \in Shifted(k, T)
  BY <1>4, <1>5, <1>6, <1>7
<1>9. Tried(v, o, s) = Shifted(k, T)
  BY <1>8
<1> QED
  BY <1>9 DEF v, T

LEMMA NearInRest ==
  ASSUME NEW w \in Seq(Char), NEW k \in 0 .. Len(w), NEW o \in 0 .. Len(w) - k - 1
  PROVE  Near(Rest(w, k), o) = Shifted(k, Near(w, o + k))
<1> DEFINE v == Rest(w, k)
<1>1. o + k \in 0 .. Len(w) - 1 /\ k \in Nat /\ o \in Nat
  OBVIOUS
<1>2. \A e : e \in Near(v, o) <=>
        (\E s \in Syllable : e \in Tried(v, o, s)) /\ Off(v, e) \in 1 .. MaxDistance
  BY DEF Near
<1>3. \A e : e \in Near(w, o + k) <=>
        (\E s \in Syllable : e \in Tried(w, o + k, s)) /\ Off(w, e) \in 1 .. MaxDistance
  BY DEF Near
<1>4. ASSUME NEW s \in Syllable, NEW e \in Tried(w, o + k, s)
      PROVE  Off(v, Down(k, e)) = Off(w, e)
  <2>1. s \in Seq(Char) /\ "Complete" \in DOMAIN Kind
    BY Kinds, Syllables
  <2>2. PICK j \in Corrected(w, o + k, s) : e = Edge(o + k, o + k + j, s, "Complete")
    BY DEF Tried
  <2>3. o + k + j \in o + k + 1 .. Len(w)
    BY <1>1, <2>1, CorrectedFits
  <2>4. FitsAt(w, o + k, e)
    BY <1>1, <2>1, <2>2, <2>3, EdgeFits
  <2>5. e \in EdgesIn(w) /\ e.start >= k
    BY <1>1, <2>4 DEF FitsAt
  <2> QED
    BY <2>5, OffOfRest
<1>5. \A s \in Syllable : \A e : e \in Tried(v, o, s) <=> \E d \in Tried(w, o + k, s) : e = Down(k, d)
  BY Syllables, TriedInRest DEF Shifted
<1> HIDE DEF v
<1>6. \A e : e \in Near(v, o) <=> \E d \in Near(w, o + k) : e = Down(k, d)
  BY <1>2, <1>3, <1>4, <1>5
<1>7. Near(v, o) = Shifted(k, Near(w, o + k))
  BY <1>6 DEF Shifted
<1> QED
  BY <1>7 DEF v

\* Two keys that differ from two others only in their ends, and alike there, are
\* in the same order.
LEMMA SameOrder ==
  ASSUME NEW x, NEW y, NEW u, NEW v, NEW a, NEW b \in Int, NEW s, NEW c, NEW d \in Int, NEW t,
         NEW k \in Int, NEW m \in Nat, NEW n \in Nat, Len(s) = m, Len(t) = n,
         Heads(x, a, b, s), Heads(y, c, d, t), Heads(u, a, b - k, s), Heads(v, c, d - k, t),
         LexLess(x, y)
  PROVE  LexLess(u, v)
<1>1. /\ Len(x) = m + 2 /\ Len(u) = m + 2 /\ Len(y) = n + 2 /\ Len(v) = n + 2
      /\ x[1] = u[1] /\ y[1] = v[1] /\ x[2] = b /\ y[2] = d /\ u[2] = b - k /\ v[2] = d - k
  BY DEF Heads
<1>2. ASSUME NEW i \in 1 .. m + 2, i # 2
      PROVE  x[i] = u[i]
  <2>1. CASE i = 1
    BY <1>1, <2>1
  <2>2. CASE i # 1
    <3>1. PICK j \in 1 .. m : j + 2 = i
      <4>1. i - 2 \in 1 .. m /\ (i - 2) + 2 = i
        BY <1>2, <2>2
      <4> QED
        BY <4>1
    <3> QED
      BY <3>1 DEF Heads
  <2> QED
    BY <2>1, <2>2
<1>3. ASSUME NEW i \in 1 .. n + 2, i # 2
      PROVE  y[i] = v[i]
  <2>1. CASE i = 1
    BY <1>1, <2>1
  <2>2. CASE i # 1
    <3>1. PICK j \in 1 .. n : j + 2 = i
      <4>1. i - 2 \in 1 .. n /\ (i - 2) + 2 = i
        BY <1>3, <2>2
      <4> QED
        BY <4>1
    <3> QED
      BY <3>1 DEF Heads
  <2> QED
    BY <2>1, <2>2
<1>4. PICK p \in 1 .. n + 2 : /\ p <= m + 3
                              /\ p = m + 3 \/ x[p] < y[p]
                              /\ \A i \in 1 .. p - 1 : x[i] = y[i]
  BY <1>1 DEF LexLess
<1>5. p = m + 3 \/ u[p] < v[p]
  <2>1. CASE p = 2
    BY <1>1, <1>4, <2>1
  <2>2. CASE p # 2 /\ p # m + 3
    <3>1. p \in 1 .. m + 2
      BY <1>4, <2>2
    <3> QED
      BY <1>2, <1>3, <1>4, <2>2, <3>1
  <2> QED
    BY <2>1, <2>2
<1>6. ASSUME NEW i \in 1 .. p - 1
      PROVE  u[i] = v[i]
  <2>1. x[i] = y[i] /\ i \in 1 .. m + 2 /\ i \in 1 .. n + 2
    BY <1>4
  <2>2. CASE i = 2
    BY <1>1, <2>1, <2>2
  <2>3. CASE i # 2
    BY <1>2, <1>3, <2>1, <2>3
  <2> QED
    BY <2>2, <2>3
<1>7. p \in 1 .. Len(v) /\ Len(u) + 1 = m + 3
  BY <1>1
<1> QED
  BY <1>4, <1>5, <1>6, <1>7 DEF LexLess

LEMMA NearerInRest ==
  ASSUME NEW w \in Seq(Char), NEW k \in 0 .. Len(w), NEW o \in 0 .. Len(w) - k - 1,
         NEW d \in Near(w, o + k), NEW e \in Near(w, o + k)
  PROVE  LexLess(NearKey(Rest(w, k), Down(k, d)), NearKey(Rest(w, k), Down(k, e)))
           <=> LexLess(NearKey(w, d), NearKey(w, e))
<1> DEFINE v == Rest(w, k)
           ok == o + k
<1>1. /\ v \in Seq(Char) /\ o \in 0 .. Len(v) - 1 /\ ok \in 0 .. Len(w) - 1 /\ k \in Nat
      /\ k \in Int /\ 0 - k \in Int
  BY RestParts
<1>2. Down(k, d) \in Near(v, o) /\ Down(k, e) \in Near(v, o)
  BY NearInRest DEF Shifted
<1>3. d \in Near(w, ok) /\ e \in Near(w, ok)
  OBVIOUS
<1> HIDE DEF v, ok
<1>4. PICK x, y, p, q : /\ x = NearKey(w, d) /\ y = NearKey(w, e)
                        /\ p = NearKey(v, Down(k, d)) /\ q = NearKey(v, Down(k, e))
  OBVIOUS
<1>5. PICK a \in Nat, b \in Nat, s \in Seq(Char) : a = Off(w, d) /\ b = d.end /\ s = d.canonical
  BY <1>1, <1>3, NearKeyed
<1>6. PICK c \in Nat, f \in Nat, t \in Seq(Char) : c = Off(w, e) /\ f = e.end /\ t = e.canonical
  BY <1>1, <1>3, NearKeyed
<1>7. Heads(x, a, b, s) /\ Heads(y, c, f, t)
  BY <1>1, <1>3, <1>4, <1>5, <1>6, NearKeyed
<1>8. Off(v, Down(k, d)) = a /\ Off(v, Down(k, e)) = c
  <2>1. d \in EdgesIn(w) /\ e \in EdgesIn(w) /\ d.start >= k /\ e.start >= k
    BY <1>1, <1>3, NearFits DEF EdgesAt, FitsAt, ok
  <2> QED
    BY <1>5, <1>6, <2>1, OffOfRest DEF v
<1>9. Heads(p, a, b - k, s) /\ Heads(q, c, f - k, t)
  <2>1. Heads(p, Off(v, Down(k, d)), Down(k, d).end, Down(k, d).canonical)
        /\ Heads(q, Off(v, Down(k, e)), Down(k, e).end, Down(k, e).canonical)
    BY <1>1, <1>2, <1>4, NearKeyed
  <2> QED
    BY <1>5, <1>6, <1>8, <2>1, DownParts
<1>10. Len(s) \in Nat /\ Len(t) \in Nat /\ b \in Int /\ f \in Int /\ b - k \in Int /\ f - k \in Int
       /\ (b - k) - (0 - k) = b /\ (f - k) - (0 - k) = f
  BY <1>1
<1>11. LexLess(x, y) => LexLess(p, q)
  BY <1>1, <1>7, <1>9, <1>10, SameOrder
<1>12. LexLess(p, q) => LexLess(x, y)
  <2>1. Heads(x, a, (b - k) - (0 - k), s) /\ Heads(y, c, (f - k) - (0 - k), t)
    BY <1>7, <1>10
  <2> QED
    BY <1>1, <1>9, <1>10, <2>1, SameOrder
<1> QED
  BY <1>4, <1>11, <1>12 DEF v

LEMMA CorrectionsOfRest ==
  ASSUME NEW w \in Seq(Char), NEW k \in 0 .. Len(w), NEW o \in 0 .. Len(w) - k - 1
  PROVE  CorrectionEdges(Rest(w, k), o) = Shifted(k, CorrectionEdges(w, o + k))
<1> DEFINE v == Rest(w, k)
           ok == o + k
           S == Near(w, ok)
           T == Near(v, o)
           nearer(e) == Nearer(w, S, e)
           nearerT(e) == Nearer(v, T, e)
<1>1. /\ v \in Seq(Char) /\ o \in 0 .. Len(v) - 1 /\ ok \in 0 .. Len(w) - 1 /\ k \in Nat
  BY RestParts
<1>2. \A e : e \in T <=> \E d \in S : e = Down(k, d)
  BY NearInRest DEF Shifted
<1>3. \A d, e \in S : LexLess(NearKey(v, Down(k, d)), NearKey(v, Down(k, e)))
                        <=> LexLess(NearKey(w, d), NearKey(w, e))
  BY NearerInRest
<1>4. \A d, e \in S : Down(k, d) = Down(k, e) => d = e
  <2>1. S \subseteq AnEdge
    BY <1>1, NearKeyed
  <2>2. \A d \in AnEdge : Up(k, Down(k, d)) = d
    BY <1>1, UpDown
  <2> HIDE DEF S
  <2> QED
    BY <2>1, <2>2
<1>5. IsFiniteSet(S)
  BY <1>1, NearFits DEF EdgesAt
<1>6. CorrectionEdges(v, o) = {e \in T : Cardinality(nearerT(e)) < MaxCorrections}
      /\ CorrectionEdges(w, ok) = {e \in S : Cardinality(nearer(e)) < MaxCorrections}
  BY <1>1, CorrectionMembers
<1> HIDE DEF v, ok, S, T
<1>7. ASSUME NEW e \in S
      PROVE  Cardinality(nearerT(Down(k, e))) = Cardinality(nearer(e))
  <2> DEFINE A == nearer(e)
             B == nearerT(Down(k, e))
             f == [d \in A |-> Down(k, d)]
  <2>1. \A d : d \in A <=> d \in S /\ LexLess(NearKey(w, d), NearKey(w, e))
    BY DEF Nearer
  <2>2. \A d : d \in B <=> d \in T /\ LexLess(NearKey(v, d), NearKey(v, Down(k, e)))
    BY DEF Nearer
  <2>3. A \subseteq S
    BY <2>1
  <2> HIDE DEF A, B
  <2>4. f \in [A -> B] /\ \A c, d \in A : f[c] = f[d] => c = d
    BY <1>2, <1>3, <1>4, <2>1, <2>2
  <2>5. \A c \in B : \E d \in A : f[d] = c
    BY <1>2, <1>3, <2>1, <2>2
  <2>6. f \in Bijection(A, B)
    BY <2>4, <2>5 DEF Bijection, Injection, Surjection, IsInjective
  <2>7. Cardinality(B) = Cardinality(A)
    BY <1>5, <2>3, <2>6, FS_Subset, FS_Bijection DEF ExistsBijection
  <2> QED
    BY <2>7 DEF A, B
<1> HIDE DEF nearer, nearerT
<1>8. \A e : e \in CorrectionEdges(v, o) <=> \E d \in CorrectionEdges(w, ok) : e = Down(k, d)
  BY <1>2, <1>6, <1>7
<1>9. CorrectionEdges(v, o) = Shifted(k, CorrectionEdges(w, ok))
  BY <1>8 DEF Shifted
<1> QED
  BY <1>9 DEF v, ok

\* The edges of S that start at k or later.
Later(k, S) == {e \in S : e.start >= k}

LEMMA UnionOfRest ==
  ASSUME NEW w \in Seq(Char), NEW k \in 0 .. Len(w), NEW F, NEW H,
         \A o \in 0 .. Len(w) - 1 : EdgesAt(w, o, F[o]),
         \A o \in 0 .. Len(w) - k - 1 : H[o] = Shifted(k, F[o + k])
  PROVE  UnionOver(Rest(w, k), H) = Shifted(k, Later(k, UnionOver(w, F)))
<1> DEFINE v == Rest(w, k)
           A == UnionOver(v, H)
           B == Later(k, UnionOver(w, F))
<1>1. Len(v) = Len(w) - k /\ Len(w) \in Nat /\ k \in Nat
  BY RestParts
<1>2. \A e : e \in A <=> \E o \in 0 .. Len(v) - 1 : e \in H[o]
  BY DEF UnionOver
<1>3. \A e : e \in B <=> e.start >= k /\ \E o \in 0 .. Len(w) - 1 : e \in F[o]
  BY DEF UnionOver, Later
<1>4. \A o \in 0 .. Len(w) - 1 : \A e \in F[o] : e.start = o
  BY DEF EdgesAt, FitsAt
<1> HIDE DEF v, A, B
<1>5. ASSUME NEW e \in A
      PROVE  \E d \in B : e = Down(k, d)
  <2>1. PICK o \in 0 .. Len(v) - 1 : e \in H[o]
    BY <1>2
  <2>2. PICK j \in 0 .. Len(w) - 1 : j = o + k /\ j >= k
    BY <1>1
  <2>3. H[o] = Shifted(k, F[j])
    BY <1>1, <2>2
  <2>4. PICK d \in F[j] : e = Down(k, d)
    BY <2>1, <2>3 DEF Shifted
  <2> QED
    BY <1>3, <1>4, <2>2, <2>4
<1>6. ASSUME NEW d \in B
      PROVE  Down(k, d) \in A
  <2>1. PICK j \in 0 .. Len(w) - 1 : d \in F[j] /\ d.start >= k
    BY <1>3
  <2>2. d.start = j
    BY <1>4, <2>1
  <2>3. PICK o \in 0 .. Len(v) - 1 : o + k = j
    <3>1. j - k \in 0 .. Len(v) - 1 /\ (j - k) + k = j
      BY <1>1, <2>1, <2>2
    <3> QED
      BY <3>1
  <2>4. H[o] = Shifted(k, F[j])
    BY <1>1, <2>3
  <2> QED
    BY <1>2, <2>1, <2>3, <2>4 DEF Shifted
<1>7. A = Shifted(k, B)
  BY <1>5, <1>6 DEF Shifted
<1> QED
  BY <1>7 DEF A, B, v

\* The segmentor reads the rest as it read it inside the whole: the same edges at
\* the same costs.
LEMMA SegmentOfRest ==
  ASSUME NEW w \in Seq(Char), NEW k \in 0 .. Len(w), NEW opts
  PROVE  Segment(Rest(w, k), opts) =
           [f \in Shifted(k, Later(k, DOMAIN Segment(w, opts))) |-> Segment(w, opts)[Up(k, f)]]
<1> DEFINE v == Rest(w, k)
           T == [o \in 0 .. Len(w) - 1 |-> TrieEdges(w, o)]
           C == [o \in 0 .. Len(w) - 1 |-> CorrectionEdges(w, o)]
           TV == [o \in 0 .. Len(v) - 1 |-> TrieEdges(v, o)]
           CV == [o \in 0 .. Len(v) - 1 |-> CorrectionEdges(v, o)]
           typed == UnionOver(w, T)
           typedV == UnionOver(v, TV)
           corrected == IF "correction" \in opts THEN UnionOver(w, C) ELSE {}
           correctedV == IF "correction" \in opts THEN UnionOver(v, CV) ELSE {}
           g == Segment(w, opts)
           h == Segment(v, opts)
<1>1. g = [e \in typed \cup corrected |-> IF e \in typed THEN 0 ELSE EditPenalty * Off(w, e)]
  <2>1. typed = UNION {TrieEdges(w, o) : o \in 0 .. Len(w) - 1}
        /\ UnionOver(w, C) = UNION {CorrectionEdges(w, o) : o \in 0 .. Len(w) - 1}
    BY DEF UnionOver
  <2> QED
    BY <2>1, Zenon DEF Segment, Off
<1>2. h = [e \in typedV \cup correctedV |-> IF e \in typedV THEN 0 ELSE EditPenalty * Off(v, e)]
  <2>1. typedV = UNION {TrieEdges(v, o) : o \in 0 .. Len(v) - 1}
        /\ UnionOver(v, CV) = UNION {CorrectionEdges(v, o) : o \in 0 .. Len(v) - 1}
    BY DEF UnionOver
  <2> QED
    BY <2>1, Zenon DEF Segment, Off
<1>3. Len(v) = Len(w) - k /\ Len(w) \in Nat /\ k \in Nat
  BY RestParts
<1>4. typedV = Shifted(k, Later(k, typed))
  <2>1. \A o \in 0 .. Len(w) - 1 : EdgesAt(w, o, T[o])
    BY TrieFits
  <2>2. \A o \in 0 .. Len(w) - k - 1 : TV[o] = Shifted(k, T[o + k])
    <3> SUFFICES ASSUME NEW o \in 0 .. Len(w) - k - 1 PROVE TV[o] = Shifted(k, T[o + k])
      OBVIOUS
    <3>1. o \in 0 .. Len(v) - 1 /\ o + k \in 0 .. Len(w) - 1
      BY <1>3
    <3>2. TrieEdges(v, o) = Shifted(k, TrieEdges(w, o + k))
      BY TrieOfRest
    <3> QED
      BY <3>1, <3>2
  <2> HIDE DEF T, TV
  <2> QED
    BY <2>1, <2>2, UnionOfRest
<1>5. UnionOver(v, CV) = Shifted(k, Later(k, UnionOver(w, C)))
  <2>1. \A o \in 0 .. Len(w) - 1 : EdgesAt(w, o, C[o])
    BY CorrectionFits
  <2>2. \A o \in 0 .. Len(w) - k - 1 : CV[o] = Shifted(k, C[o + k])
    <3> SUFFICES ASSUME NEW o \in 0 .. Len(w) - k - 1 PROVE CV[o] = Shifted(k, C[o + k])
      OBVIOUS
    <3>1. o \in 0 .. Len(v) - 1 /\ o + k \in 0 .. Len(w) - 1
      BY <1>3
    <3>2. CorrectionEdges(v, o) = Shifted(k, CorrectionEdges(w, o + k))
      BY CorrectionsOfRest
    <3> QED
      BY <3>1, <3>2
  <2> HIDE DEF C, CV
  <2> QED
    BY <2>1, <2>2, UnionOfRest
<1>6. DOMAIN g \subseteq EdgesIn(w) /\ DOMAIN g = typed \cup corrected
  BY <1>1, SegmentFits DEF WellFormed, EdgesFit
<1> HIDE DEF g, h, typed, typedV, T, C, TV, CV, v
<1>7. correctedV = Shifted(k, Later(k, corrected))
  <2>1. Shifted(k, Later(k, {})) = {}
    BY DEF Shifted, Later
  <2> QED
    BY <1>5, <2>1
<1> HIDE DEF corrected, correctedV
<1>8. \A e \in Later(k, DOMAIN g) : e \in EdgesIn(w) /\ e \in AnEdge /\ e.start >= k
  BY <1>6 DEF Later, EdgesIn
<1>9. \A e \in Later(k, DOMAIN g) : Up(k, Down(k, e)) = e
  BY <1>3, <1>8, UpDown
<1>10. DOMAIN h = Shifted(k, Later(k, DOMAIN g))
  <2>1. DOMAIN h = typedV \cup correctedV
    BY <1>2
  <2>2. Later(k, DOMAIN g) = Later(k, typed) \cup Later(k, corrected)
    BY <1>6 DEF Later
  <2> QED
    BY <1>4, <1>7, <2>1, <2>2 DEF Shifted
<1>11. ASSUME NEW f \in DOMAIN h
       PROVE  h[f] = g[Up(k, f)]
  <2>1. PICK e \in Later(k, DOMAIN g) : f = Down(k, e)
    BY <1>10 DEF Shifted
  <2>2. Up(k, f) = e /\ e \in DOMAIN g /\ e.start >= k
    BY <1>8, <1>9, <2>1 DEF Later
  <2>3. f \in typedV <=> e \in typed
    <3>1. f \in typedV <=> \E d \in Later(k, typed) : f = Down(k, d)
      BY <1>4 DEF Shifted
    <3>2. \A d \in Later(k, typed) : d \in Later(k, DOMAIN g)
      BY <1>6 DEF Later
    <3>3. \A d \in Later(k, typed) : f = Down(k, d) => d = e
      BY <1>9, <2>2, <3>2
    <3>4. e \in typed => e \in Later(k, typed)
      BY <2>2 DEF Later
    <3>5. e \in Later(k, typed) => e \in typed
      BY DEF Later
    <3> QED
      BY <2>1, <3>1, <3>3, <3>4, <3>5
  <2>4. Off(v, f) = Off(w, e)
    BY <1>8, <2>1, OffOfRest DEF v
  <2>5. h[f] = IF f \in typedV THEN 0 ELSE EditPenalty * Off(v, f)
    BY <1>2
  <2>6. g[e] = IF e \in typed THEN 0 ELSE EditPenalty * Off(w, e)
    BY <1>1, <2>2
  <2> QED
    BY <2>2, <2>3, <2>4, <2>5, <2>6
<1>12. h = [f \in DOMAIN h |-> h[f]]
  BY <1>2
<1>13. h = [f \in Shifted(k, Later(k, DOMAIN g)) |-> g[Up(k, f)]]
  BY <1>10, <1>11, <1>12
<1> QED
  BY <1>13, Zenon DEF g, h, v

\* What a selection leaves is read as it was read inside the whole, for every
\* place it may be cut at.
THEOREM RestIsReadAlike == Spec => []RestReadsAlike
<1>1. Inv => RestReadsAlike
  <2> SUFFICES ASSUME Inv, NEW k \in {e.end : e \in DOMAIN Segment(input, options)}
               PROVE  LET whole == Segment(input, options)
                          rest == Segment(SubSeq(input, k + 1, Len(input)), options)
                      IN  rest = [f \in {Edge(e.start - k, e.end - k, e.canonical, e.kind) :
                                            e \in {d \in DOMAIN whole : d.start >= k}} |->
                                    whole[Edge(f.start + k, f.end + k, f.canonical, f.kind)]]
    BY DEF RestReadsAlike
  <2>1. input \in Seq(Char) /\ k \in 0 .. Len(input)
    <3>1. input \in Seq(Char)
      BY DEF Inv
    <3>2. EdgesFit(input, Segment(input, options))
      BY <3>1, SegmentFits DEF WellFormed
    <3> QED
      BY <3>1, <3>2, EdgeSpans
  <2>2. Segment(Rest(input, k), options) =
          [f \in Shifted(k, Later(k, DOMAIN Segment(input, options))) |->
             Segment(input, options)[Up(k, f)]]
    BY <2>1, SegmentOfRest
  <2> QED
    BY <2>2, Zenon DEF Rest, Shifted, Later, Down, Up
<1> QED
  BY <1>1, Invariance, PTL

-----------------------------------------------------------------------------
(***************************************************************************)
(* The edit distance.                                                      *)
(***************************************************************************)
\* One cell of the table that Distance fills.
Cell(d, left, right, i, j) ==
  IF i = 0 \/ j = 0 THEN i + j
  ELSE Min({d[<<i - 1, j>>] + 1, d[<<i, j - 1>>] + 1,
            d[<<i - 1, j - 1>>] + IF left[i] = right[j] THEN 0 ELSE 1}
           \cup IF /\ i > 1 /\ j > 1
                   /\ left[i] = right[j - 1] /\ left[i - 1] = right[j]
                THEN {d[<<i - 2, j - 2>>] + 1} ELSE {})

Filled(d, left, right) ==
  /\ d \in [(0 .. Len(left)) \X (0 .. Len(right)) -> Nat]
  /\ \A i \in 0 .. Len(left), j \in 0 .. Len(right) :
       d[<<i, j>>] = Cell(d, left, right, i, j)

\* A cell that holds 0, and one that holds 1.
NoEditMore(d, left, right, i, j) == d[<<i - 1, j - 1>>] = 0 /\ left[i] = right[j]

OneEditMore(d, left, right, i, j) ==
  /\ ~ (d[<<i - 1, j - 1>>] = 0 /\ left[i] = right[j])
  /\ \/ d[<<i - 1, j>>] = 0
     \/ d[<<i, j - 1>>] = 0
     \/ d[<<i - 1, j - 1>>] = 0
     \/ d[<<i - 1, j - 1>>] = 1 /\ left[i] = right[j]
     \/ /\ i > 1 /\ j > 1
        /\ left[i] = right[j - 1] /\ left[i - 1] = right[j]
        /\ d[<<i - 2, j - 2>>] = 0

LEMMA CellTyped ==
  ASSUME NEW m \in Nat, NEW n \in Nat, NEW d \in [(0 .. m) \X (0 .. n) -> Nat],
         NEW left, NEW right, NEW i \in 0 .. m, NEW j \in 0 .. n
  PROVE  /\ Cell(d, left, right, i, j) \in Nat
         /\ i # 0 /\ j # 0 =>
              /\ Cell(d, left, right, i, j) = 0 <=> NoEditMore(d, left, right, i, j)
              /\ Cell(d, left, right, i, j) = 1 <=> OneEditMore(d, left, right, i, j)
<1>1. CASE i = 0 \/ j = 0
  BY <1>1 DEF Cell
<1>2. CASE i # 0 /\ j # 0
  <2> DEFINE x == d[<<i - 1, j>>]
             y == d[<<i, j - 1>>]
             z == d[<<i - 1, j - 1>>]
             t == d[<<i - 2, j - 2>>]
             swap == i > 1 /\ j > 1 /\ left[i] = right[j - 1] /\ left[i - 1] = right[j]
             same == left[i] = right[j]
             S == {x + 1, y + 1, z + IF same THEN 0 ELSE 1}
                  \cup IF swap THEN {t + 1} ELSE {}
  <2>1. x \in Nat /\ y \in Nat /\ z \in Nat /\ (swap => t \in Nat)
    BY <1>2
  <2>2. Cell(d, left, right, i, j) = Min(S)
    BY <1>2 DEF Cell
  <2> HIDE DEF x, y, z, t, swap, same
  <2>3. /\ x + 1 \in S /\ y + 1 \in S /\ z + (IF same THEN 0 ELSE 1) \in S
        /\ swap => t + 1 \in S
        /\ \A v \in S : \/ v = x + 1 \/ v = y + 1 \/ v = z + (IF same THEN 0 ELSE 1)
                        \/ swap /\ v = t + 1
    OBVIOUS
  <2>4. S \subseteq Nat /\ S # {}
    BY <2>1
  <2> DEFINE u == Min(S)
  <2> HIDE DEF S
  <2>5. u \in S /\ \A v \in S : u <= v
    <3>1. \E v \in S : \A w \in S : v <= w
      BY <2>4, Best!LeastNumber
    <3> QED
      BY <3>1 DEF Min
  <2> HIDE DEF u
  <2>6. u \in Nat /\ (u = 0 <=> z = 0 /\ same)
    BY <2>1, <2>3, <2>4, <2>5
  <2>7. u = 1 <=> /\ ~ (z = 0 /\ same)
                  /\ x = 0 \/ y = 0 \/ z = 0 \/ (z = 1 /\ same) \/ (swap /\ t = 0)
    BY <2>1, <2>3, <2>5, <2>6
  <2> QED
    BY <1>2, <2>2, <2>6, <2>7 DEF u, x, y, z, t, swap, same, NoEditMore, OneEditMore
<1> QED
  BY <1>1, <1>2

AgreeBelow(f, g, m, n, i, j) ==
  \A k \in 0 .. m, l \in 0 .. n : k + l < i + j => f[<<k, l>>] = g[<<k, l>>]

\* A cell depends on those before it.
LEMMA CellAgrees ==
  ASSUME NEW m \in Nat, NEW n \in Nat, NEW f, NEW g, NEW left, NEW right,
         NEW i \in 0 .. m, NEW j \in 0 .. n,
         AgreeBelow(f, g, m, n, i, j)
  PROVE  Cell(f, left, right, i, j) = Cell(g, left, right, i, j)
<1>1. CASE i = 0 \/ j = 0
  BY <1>1 DEF Cell
<1>2. CASE i # 0 /\ j # 0
  <2>1. /\ i - 1 \in 0 .. m /\ j - 1 \in 0 .. n
        /\ (i - 1) + j < i + j /\ i + (j - 1) < i + j /\ (i - 1) + (j - 1) < i + j
        /\ i > 1 /\ j > 1 =>
             i - 2 \in 0 .. m /\ j - 2 \in 0 .. n /\ (i - 2) + (j - 2) < i + j
    BY <1>2
  <2>2. /\ f[<<i - 1, j>>] = g[<<i - 1, j>>] /\ f[<<i, j - 1>>] = g[<<i, j - 1>>]
        /\ f[<<i - 1, j - 1>>] = g[<<i - 1, j - 1>>]
        /\ i > 1 /\ j > 1 => f[<<i - 2, j - 2>>] = g[<<i - 2, j - 2>>]
    BY <2>1 DEF AgreeBelow
  <2> QED
    BY <2>2 DEF Cell
<1> QED
  BY <1>1, <1>2

\* The table exists.
LEMMA DistanceIsFilled ==
  ASSUME NEW left, NEW right, Len(left) \in Nat, Len(right) \in Nat
  PROVE  \E d : Filled(d, left, right) /\ Distance(left, right) = d[<<Len(left), Len(right)>>]
<1> DEFINE m == Len(left)
           n == Len(right)
           D == (0 .. m) \X (0 .. n)
           dist == CHOOSE d : d = [at \in (0 .. Len(left)) \X (0 .. Len(right)) |->
                                     Cell(d, left, right, at[1], at[2])]
           rank == [at \in D |-> at[1] + at[2]]
           step == [p \in [D -> Nat] \X D |-> Cell(p[1], left, right, p[2][1], p[2][2])]
<1>1. Distance(left, right) = dist[<<m, n>>]
  BY Zenon DEF Distance, Cell
<1> HIDE DEF m, n
<1>2. m \in Nat /\ n \in Nat /\ m + n \in Nat /\ rank \in [D -> 0 .. m + n]
  BY DEF m, n
<1>3. step \in [[D -> Nat] \X D -> Nat]
  <2>1. \A f \in [D -> Nat], i \in 0 .. m, j \in 0 .. n : Cell(f, left, right, i, j) \in Nat
    <3> SUFFICES ASSUME NEW f \in [D -> Nat], NEW i \in 0 .. m, NEW j \in 0 .. n
                 PROVE  Cell(f, left, right, i, j) \in Nat
      OBVIOUS
    <3> HIDE DEF rank, step, dist
    <3>1. m \in Nat /\ n \in Nat
      BY <1>2
    <3> QED
      BY <3>1, CellTyped, Zenon
  <2>2. \A p \in [D -> Nat] \X D : Cell(p[1], left, right, p[2][1], p[2][2]) \in Nat
    BY <2>1
  <2> QED
    BY <2>2
<1>4. ASSUME NEW at \in D, NEW f \in [D -> Nat], NEW g \in [D -> Nat],
             \A y \in D : rank[y] < rank[at] => f[y] = g[y]
      PROVE  step[<<f, at>>] = step[<<g, at>>]
  <2> DEFINE i == at[1]
             j == at[2]
  <2>1. i \in 0 .. m /\ j \in 0 .. n /\ at = <<i, j>> /\ rank[at] = i + j
    OBVIOUS
  <2> HIDE DEF i, j
  <2>2. \A k \in 0 .. m, l \in 0 .. n : k + l < i + j => f[<<k, l>>] = g[<<k, l>>]
    <3> SUFFICES ASSUME NEW k \in 0 .. m, NEW l \in 0 .. n, k + l < i + j
                 PROVE  f[<<k, l>>] = g[<<k, l>>]
      OBVIOUS
    <3>1. <<k, l>> \in D /\ rank[<<k, l>>] = k + l
      OBVIOUS
    <3> QED
      BY <1>4, <2>1, <3>1
  <2>3. Cell(f, left, right, i, j) = Cell(g, left, right, i, j)
    <3> HIDE DEF rank, step, dist
    <3>1. m \in Nat /\ n \in Nat
      BY <1>2
    <3>2. AgreeBelow(f, g, m, n, i, j)
      BY <2>2, Zenon DEF AgreeBelow
    <3> QED
      BY <2>1, <3>1, <3>2, CellAgrees
  <2>4. step[<<f, at>>] = Cell(f, left, right, i, j)
        /\ step[<<g, at>>] = Cell(g, left, right, i, j)
    BY DEF i, j
  <2> QED
    BY <2>3, <2>4
<1>5. \E d \in [D -> Nat] : \A at \in D : d[at] = step[<<d, at>>]
  <2> HIDE DEF D, rank, step
  <2>1. 0 \in Nat
    OBVIOUS
  <2>2. Best!Descends(D, Nat, rank, step)
    BY <1>4 DEF Best!Descends
  <2>3. \E d \in [D -> Nat] : Best!Solution(D, step, d)
    BY <1>2, <1>3, <2>1, <2>2, Best!RecursionExists, Zenon
  <2> QED
    BY <2>3, Zenon DEF Best!Solution
<1>6. PICK d \in [D -> Nat] : \A at \in D : d[at] = step[<<d, at>>]
  BY <1>5
<1>7. d = [at \in D |-> Cell(d, left, right, at[1], at[2])]
  BY <1>6
<1>8. dist = [at \in D |-> Cell(dist, left, right, at[1], at[2])]
  <2> HIDE DEF D
  <2>1. \E e : e = [at \in D |-> Cell(e, left, right, at[1], at[2])]
    BY <1>7, Zenon
  <2> QED
    BY <2>1, Zenon DEF D, m, n
<1> HIDE DEF dist
<1>9. \A i \in 0 .. m, j \in 0 .. n : /\ dist[<<i, j>>] = Cell(dist, left, right, i, j)
                                     /\ d[<<i, j>>] = Cell(d, left, right, i, j)
  <2> SUFFICES ASSUME NEW i \in 0 .. m, NEW j \in 0 .. n
               PROVE  /\ dist[<<i, j>>] = Cell(dist, left, right, i, j)
                      /\ d[<<i, j>>] = Cell(d, left, right, i, j)
    OBVIOUS
  <2>1. <<i, j>> \in D /\ <<i, j>>[1] = i /\ <<i, j>>[2] = j
    OBVIOUS
  <2> HIDE DEF D
  <2> QED
    BY <1>7, <1>8, <2>1
\* The two agree, cell by cell.
<1> DEFINE Good == {k \in Nat : \A i \in 0 .. m, j \in 0 .. n :
                                  i + j < k => dist[<<i, j>>] = d[<<i, j>>]}
<1>10. 0 \in Good
  OBVIOUS
<1>11. ASSUME NEW k \in Nat, k \in Good
       PROVE  k + 1 \in Good
  <2> SUFFICES ASSUME NEW i \in 0 .. m, NEW j \in 0 .. n, i + j < k + 1
               PROVE  dist[<<i, j>>] = d[<<i, j>>]
    OBVIOUS
  <2>1. \A x \in 0 .. m, y \in 0 .. n : x + y < i + j => dist[<<x, y>>] = d[<<x, y>>]
    BY <1>2, <1>11
  <2>2. Cell(dist, left, right, i, j) = Cell(d, left, right, i, j)
    <3> HIDE DEF rank, step, D
    <3>1. m \in Nat /\ n \in Nat
      BY <1>2
    <3>2. AgreeBelow(dist, d, m, n, i, j)
      BY <2>1, Zenon DEF AgreeBelow
    <3> QED
      BY <3>1, <3>2, CellAgrees
  <2> QED
    BY <1>9, <2>2
<1> HIDE DEF Good
<1>12. \A i \in 0 .. m, j \in 0 .. n : dist[<<i, j>>] = d[<<i, j>>]
  <2>1. (m + n) + 1 \in Good
    BY <1>2, <1>10, <1>11, Best!SetInduction
  <2>2. \A i \in 0 .. m, j \in 0 .. n : i + j < (m + n) + 1
    BY <1>2
  <2> QED
    BY <2>1, <2>2, Zenon DEF Good
<1>13. Filled(d, left, right)
  BY <1>9 DEF Filled, m, n
<1>14. Distance(left, right) = d[<<m, n>>]
  BY <1>1, <1>2, <1>12
<1> QED
  BY <1>13, <1>14 DEF m, n

\* Two beginnings, i and j long, are the same, or one edit at p apart.
Same(left, right, i, j) == i = j /\ \A k \in 1 .. i : left[k] = right[k]

Inserted(left, right, i, j, p) ==
  /\ j = i + 1 /\ p \in 1 .. j
  /\ \A k \in 1 .. p - 1 : left[k] = right[k]
  /\ \A k \in p .. i : left[k] = right[k + 1]

Deleted(left, right, i, j, p) ==
  /\ i = j + 1 /\ p \in 1 .. i
  /\ \A k \in 1 .. p - 1 : left[k] = right[k]
  /\ \A k \in p .. j : left[k + 1] = right[k]

Substituted(left, right, i, j, p) ==
  /\ i = j /\ p \in 1 .. i
  /\ left[p] # right[p]
  /\ \A k \in 1 .. i : k # p => left[k] = right[k]

Swapped(left, right, i, j, p) ==
  /\ i = j /\ p \in 1 .. i - 1
  /\ left[p] = right[p + 1] /\ left[p + 1] = right[p] /\ left[p] # right[p]
  /\ \A k \in 1 .. i : k # p /\ k # p + 1 => left[k] = right[k]

Apart(left, right, i, j) ==
  \E p \in Nat : \/ Inserted(left, right, i, j, p)
                 \/ Deleted(left, right, i, j, p)
                 \/ Substituted(left, right, i, j, p)
                 \/ Swapped(left, right, i, j, p)

LEMMA SameStep ==
  ASSUME NEW left, NEW right, NEW i \in Nat, NEW j \in Nat, i > 0, j > 0
  PROVE  /\ Same(left, right, i, j) => Same(left, right, i - 1, j - 1) /\ left[i] = right[j]
         /\ Same(left, right, i - 1, j - 1) /\ left[i] = right[j] => Same(left, right, i, j)
<1>1. \A k : k \in 1 .. i <=> k \in 1 .. i - 1 \/ k = i
  OBVIOUS
<1> QED
  BY <1>1 DEF Same

\* The last edit, seen from the end.
LEMMA ApartStep ==
  ASSUME NEW left, NEW right, NEW i \in Nat \ {0}, NEW j \in Nat \ {0}
  PROVE  Apart(left, right, i, j) <=>
           /\ ~ (Same(left, right, i - 1, j - 1) /\ left[i] = right[j])
           /\ \/ Same(left, right, i - 1, j)
              \/ Same(left, right, i, j - 1)
              \/ Same(left, right, i - 1, j - 1)
              \/ Apart(left, right, i - 1, j - 1) /\ left[i] = right[j]
              \/ /\ i > 1 /\ j > 1
                 /\ left[i] = right[j - 1] /\ left[i - 1] = right[j]
                 /\ Same(left, right, i - 2, j - 2)
<1>1. ASSUME NEW p \in Nat, Inserted(left, right, i, j, p)
      PROVE  /\ i # j
             /\ \/ Same(left, right, i, j - 1)
                \/ Apart(left, right, i - 1, j - 1) /\ left[i] = right[j]
  <2>1. CASE p = j
    BY <1>1, <2>1 DEF Inserted, Same
  <2>2. CASE p # j
    <3>1. Inserted(left, right, i - 1, j - 1, p) /\ left[i] = right[j] /\ i # j
      BY <1>1, <2>2 DEF Inserted
    <3> QED
      BY <3>1, Zenon DEF Apart
  <2> QED
    BY <2>1, <2>2
<1>2. ASSUME NEW p \in Nat, Deleted(left, right, i, j, p)
      PROVE  /\ i # j
             /\ \/ Same(left, right, i - 1, j)
                \/ Apart(left, right, i - 1, j - 1) /\ left[i] = right[j]
  <2>1. CASE p = i
    BY <1>2, <2>1 DEF Deleted, Same
  <2>2. CASE p # i
    <3>1. Deleted(left, right, i - 1, j - 1, p) /\ left[i] = right[j] /\ i # j
      BY <1>2, <2>2 DEF Deleted
    <3> QED
      BY <3>1, Zenon DEF Apart
  <2> QED
    BY <2>1, <2>2
<1>3. ASSUME NEW p \in Nat, Substituted(left, right, i, j, p)
      PROVE  /\ ~ Same(left, right, i, j)
             /\ \/ Same(left, right, i - 1, j - 1)
                \/ Apart(left, right, i - 1, j - 1) /\ left[i] = right[j]
  <2>0. ~ Same(left, right, i, j)
    BY <1>3 DEF Substituted, Same
  <2>1. CASE p = i
    BY <1>3, <2>0, <2>1 DEF Substituted, Same
  <2>2. CASE p # i
    <3>1. Substituted(left, right, i - 1, j - 1, p) /\ left[i] = right[j]
      BY <1>3, <2>2 DEF Substituted
    <3> QED
      BY <2>0, <3>1 DEF Apart
  <2> QED
    BY <2>1, <2>2
<1>4. ASSUME NEW p \in Nat, Swapped(left, right, i, j, p)
      PROVE  /\ ~ Same(left, right, i, j)
             /\ \/ Apart(left, right, i - 1, j - 1) /\ left[i] = right[j]
                \/ /\ i > 1 /\ j > 1
                   /\ left[i] = right[j - 1] /\ left[i - 1] = right[j]
                   /\ Same(left, right, i - 2, j - 2)
  <2>0. ~ Same(left, right, i, j)
    BY <1>4 DEF Swapped, Same
  <2>1. CASE p = i - 1
    BY <1>4, <2>0, <2>1 DEF Swapped, Same
  <2>2. CASE p # i - 1
    <3>1. Swapped(left, right, i - 1, j - 1, p) /\ left[i] = right[j]
      BY <1>4, <2>2 DEF Swapped
    <3> QED
      BY <2>0, <3>1 DEF Apart
  <2> QED
    BY <2>1, <2>2
<1>5. Same(left, right, i - 1, j) => Deleted(left, right, i, j, i)
  BY DEF Same, Deleted
<1>6. Same(left, right, i, j - 1) => Inserted(left, right, i, j, j)
  BY DEF Same, Inserted
<1>7. Same(left, right, i - 1, j - 1) /\ left[i] # right[j]
        => Substituted(left, right, i, j, i)
  BY DEF Same, Substituted
<1>8. ASSUME NEW p \in Nat, left[i] = right[j]
      PROVE  /\ Inserted(left, right, i - 1, j - 1, p) => Inserted(left, right, i, j, p)
             /\ Deleted(left, right, i - 1, j - 1, p) => Deleted(left, right, i, j, p)
             /\ Substituted(left, right, i - 1, j - 1, p) => Substituted(left, right, i, j, p)
             /\ Swapped(left, right, i - 1, j - 1, p) => Swapped(left, right, i, j, p)
  <2>1. Inserted(left, right, i - 1, j - 1, p) => Inserted(left, right, i, j, p)
    BY <1>8 DEF Inserted
  <2>2. Deleted(left, right, i - 1, j - 1, p) => Deleted(left, right, i, j, p)
    BY <1>8 DEF Deleted
  <2>3. Substituted(left, right, i - 1, j - 1, p) => Substituted(left, right, i, j, p)
    BY <1>8 DEF Substituted
  <2>4. Swapped(left, right, i - 1, j - 1, p) => Swapped(left, right, i, j, p)
    BY <1>8 DEF Swapped
  <2> QED
    BY <2>1, <2>2, <2>3, <2>4
<1>9. ASSUME i > 1, j > 1, left[i] = right[j - 1], left[i - 1] = right[j],
             Same(left, right, i - 2, j - 2),
             ~ (Same(left, right, i - 1, j - 1) /\ left[i] = right[j])
      PROVE  Swapped(left, right, i, j, i - 1)
  <2>1. left[i - 1] # right[i - 1]
    BY <1>9 DEF Same
  <2> QED
    BY <1>9, <2>1 DEF Same, Swapped
<1>10. i \in Nat /\ j \in Nat /\ (i > 1 => i - 1 \in Nat)
  OBVIOUS
<1>11. Same(left, right, i, j) <=> Same(left, right, i - 1, j - 1) /\ left[i] = right[j]
  <2>1. \A k : k \in 1 .. i <=> k \in 1 .. i - 1 \/ k = i
    OBVIOUS
  <2> QED
    BY <2>1 DEF Same
<1>12. i # j => ~ Same(left, right, i - 1, j - 1)
  BY DEF Same
<1>13. ASSUME Apart(left, right, i, j)
       PROVE  /\ ~ (Same(left, right, i - 1, j - 1) /\ left[i] = right[j])
              /\ \/ Same(left, right, i - 1, j)
                 \/ Same(left, right, i, j - 1)
                 \/ Same(left, right, i - 1, j - 1)
                 \/ Apart(left, right, i - 1, j - 1) /\ left[i] = right[j]
                 \/ /\ i > 1 /\ j > 1
                    /\ left[i] = right[j - 1] /\ left[i - 1] = right[j]
                    /\ Same(left, right, i - 2, j - 2)
  <2>1. PICK p \in Nat : \/ Inserted(left, right, i, j, p)
                         \/ Deleted(left, right, i, j, p)
                         \/ Substituted(left, right, i, j, p)
                         \/ Swapped(left, right, i, j, p)
    BY <1>13 DEF Apart
  <2> QED
    BY <1>1, <1>2, <1>3, <1>4, <1>11, <1>12, <2>1
<1>14. ASSUME Apart(left, right, i - 1, j - 1), left[i] = right[j]
       PROVE  Apart(left, right, i, j)
  <2>1. PICK p \in Nat : \/ Inserted(left, right, i - 1, j - 1, p)
                         \/ Deleted(left, right, i - 1, j - 1, p)
                         \/ Substituted(left, right, i - 1, j - 1, p)
                         \/ Swapped(left, right, i - 1, j - 1, p)
    BY <1>14 DEF Apart
  <2> QED
    BY <1>8, <1>14, <2>1 DEF Apart
<1>15. /\ Same(left, right, i - 1, j) => Apart(left, right, i, j)
       /\ Same(left, right, i, j - 1) => Apart(left, right, i, j)
       /\ Same(left, right, i - 1, j - 1) /\ left[i] # right[j] => Apart(left, right, i, j)
  BY <1>5, <1>6, <1>7, <1>10 DEF Apart
<1>16. ASSUME i > 1, j > 1, left[i] = right[j - 1], left[i - 1] = right[j],
              Same(left, right, i - 2, j - 2),
              ~ (Same(left, right, i - 1, j - 1) /\ left[i] = right[j])
       PROVE  Apart(left, right, i, j)
  BY <1>9, <1>10, <1>16 DEF Apart
<1> QED
  BY <1>13, <1>14, <1>15, <1>16

\* What the table holds: 0 for the same beginnings, 1 for those one edit apart.
LEMMA CellMeaning ==
  ASSUME NEW left, NEW right, Len(left) \in Nat, Len(right) \in Nat,
         NEW d, Filled(d, left, right)
  PROVE  \A i \in 0 .. Len(left), j \in 0 .. Len(right) :
           /\ d[<<i, j>>] = 0 <=> Same(left, right, i, j)
           /\ d[<<i, j>>] = 1 <=> Apart(left, right, i, j)
<1> DEFINE m == Len(left)
           n == Len(right)
           Means(i, j) == /\ d[<<i, j>>] = 0 <=> Same(left, right, i, j)
                          /\ d[<<i, j>>] = 1 <=> Apart(left, right, i, j)
           Good == {k \in Nat : \A i \in 0 .. m, j \in 0 .. n : i + j < k => Means(i, j)}
<1>1. /\ m \in Nat /\ n \in Nat /\ d \in [(0 .. m) \X (0 .. n) -> Nat]
      /\ \A i \in 0 .. m, j \in 0 .. n : d[<<i, j>>] = Cell(d, left, right, i, j)
  BY DEF Filled
<1> HIDE DEF m, n
<1>2. 0 \in Good
  OBVIOUS
<1>3. ASSUME NEW k \in Nat, k \in Good
      PROVE  k + 1 \in Good
  <2> SUFFICES ASSUME NEW i \in 0 .. m, NEW j \in 0 .. n, i + j < k + 1
               PROVE  Means(i, j)
    OBVIOUS
  <2>0. \A x \in 0 .. m, y \in 0 .. n : x + y < i + j => Means(x, y)
    BY <1>1, <1>3
  <2>1. CASE i = 0 \/ j = 0
    <3>1. d[<<i, j>>] = i + j
      BY <1>1, <2>1 DEF Cell
    <3>2. i + j = 0 <=> Same(left, right, i, j)
      BY <1>1, <2>1 DEF Same
    <3>3. Apart(left, right, i, j) => i + j = 1
      <4> SUFFICES ASSUME NEW p \in Nat, \/ Inserted(left, right, i, j, p)
                                         \/ Deleted(left, right, i, j, p)
                                         \/ Substituted(left, right, i, j, p)
                                         \/ Swapped(left, right, i, j, p)
                   PROVE  i + j = 1
        BY DEF Apart
      <4> QED
        BY <1>1, <2>1 DEF Inserted, Deleted, Substituted, Swapped
    <3>4. i + j = 1 => Inserted(left, right, i, j, 1) \/ Deleted(left, right, i, j, 1)
      BY <1>1, <2>1 DEF Inserted, Deleted
    <3> QED
      BY <3>1, <3>2, <3>3, <3>4 DEF Apart
  <2>2. CASE i # 0 /\ j # 0
    <3>1. /\ i - 1 \in 0 .. m /\ j - 1 \in 0 .. n
          /\ (i - 1) + j < i + j /\ i + (j - 1) < i + j /\ (i - 1) + (j - 1) < i + j
          /\ i > 1 /\ j > 1 =>
               i - 2 \in 0 .. m /\ j - 2 \in 0 .. n /\ (i - 2) + (j - 2) < i + j
      BY <1>1, <2>2
    <3>2. Means(i - 1, j) /\ Means(i, j - 1) /\ Means(i - 1, j - 1)
          /\ (i > 1 /\ j > 1 => Means(i - 2, j - 2))
      <4> HIDE DEF Means
      <4> QED
        BY <2>0, <3>1
    <3>3. d[<<i, j>>] = Cell(d, left, right, i, j)
      BY <1>1
    <3>8. Cell(d, left, right, i, j) = 0 <=> NoEditMore(d, left, right, i, j)
      BY <1>1, <2>2, CellTyped
    <3>9. Cell(d, left, right, i, j) = 1 <=> OneEditMore(d, left, right, i, j)
      BY <1>1, <2>2, CellTyped
    <3>4. i \in Nat \ {0} /\ j \in Nat \ {0} /\ i \in Nat /\ j \in Nat /\ i > 0 /\ j > 0
      BY <1>1, <2>2
    <3>5. Same(left, right, i, j) <=> Same(left, right, i - 1, j - 1) /\ left[i] = right[j]
      <4>0. i \in Nat /\ j \in Nat /\ i > 0 /\ j > 0
        BY <3>4
      <4>1. ASSUME Same(left, right, i, j)
            PROVE  Same(left, right, i - 1, j - 1) /\ left[i] = right[j]
        BY <4>0, <4>1 DEF Same
      <4>2. ASSUME Same(left, right, i - 1, j - 1), left[i] = right[j]
            PROVE  Same(left, right, i, j)
        BY <3>4, <4>2, SameStep, Zenon
      <4> QED
        BY <4>1, <4>2
    <3>6. Apart(left, right, i, j) <=>
           /\ ~ (Same(left, right, i - 1, j - 1) /\ left[i] = right[j])
           /\ \/ Same(left, right, i - 1, j)
              \/ Same(left, right, i, j - 1)
              \/ Same(left, right, i - 1, j - 1)
              \/ Apart(left, right, i - 1, j - 1) /\ left[i] = right[j]
              \/ /\ i > 1 /\ j > 1
                 /\ left[i] = right[j - 1] /\ left[i - 1] = right[j]
                 /\ Same(left, right, i - 2, j - 2)
      BY <3>4, ApartStep
    <3> QED
      BY <3>2, <3>3, <3>5, <3>6, <3>8, <3>9 DEF NoEditMore, OneEditMore
  <2> QED
    BY <2>1, <2>2
<1> HIDE DEF Good
<1>4. (m + n) + 1 \in Good
  BY <1>1, <1>2, <1>3, Best!SetInduction
<1>5. \A i \in 0 .. m, j \in 0 .. n : i + j < (m + n) + 1
  BY <1>1
<1> HIDE DEF Means
<1>6. \A i \in 0 .. m, j \in 0 .. n : Means(i, j)
  BY <1>4, <1>5 DEF Good
<1> QED
  BY <1>6 DEF Means, m, n

\* Distance 0 and 1.
LEMMA DistanceMeaning ==
  ASSUME NEW left, NEW right, Len(left) \in Nat, Len(right) \in Nat
  PROVE  /\ Distance(left, right) = 0 <=> Same(left, right, Len(left), Len(right))
         /\ Distance(left, right) = 1 <=> Apart(left, right, Len(left), Len(right))
<1>1. PICK d : Filled(d, left, right) /\ Distance(left, right) = d[<<Len(left), Len(right)>>]
  BY DistanceIsFilled
<1>2. Len(left) \in 0 .. Len(left) /\ Len(right) \in 0 .. Len(right)
  OBVIOUS
<1> QED
  BY <1>1, <1>2, CellMeaning

\* What a code put together is, by its length and its characters.
IsSplice(s, u, i, v, k) ==
  /\ Len(s) = i + Len(v) + (Len(u) - k)
  /\ \A t \in 1 .. i : s[t] = u[t]
  /\ \A t \in 1 .. Len(v) : s[i + t] = v[t]
  /\ \A t \in 1 .. Len(u) - k : s[i + Len(v) + t] = u[k + t]

LEMMA SplicedIs ==
  ASSUME NEW S, NEW u \in Seq(S), NEW v \in Seq(S), NEW i \in 0 .. Len(u), NEW k \in 0 .. Len(u),
         NEW s \in Seq(S)
  PROVE  s = Spliced(u, i, v, k) <=> IsSplice(s, u, i, v, k)
<1> DEFINE a == SubSeq(u, 1, i)
           b == SubSeq(u, k + 1, Len(u))
           x == a \o v \o b
<1>0. Len(u) \in Nat /\ Len(v) \in Nat
  OBVIOUS
<1>1. a \in Seq(S) /\ Len(a) = i /\ \A t \in 1 .. i : a[t] = u[t]
  OBVIOUS
<1>2. b \in Seq(S) /\ Len(b) = Len(u) - k /\ \A t \in 1 .. Len(u) - k : b[t] = u[k + t]
  OBVIOUS
<1> HIDE DEF a, b
<1>3. /\ a \o v \in Seq(S) /\ Len(a \o v) = i + Len(v)
      /\ \A t \in 1 .. i : (a \o v)[t] = u[t]
      /\ \A t \in 1 .. Len(v) : (a \o v)[i + t] = v[t]
  <2>1. a \in Seq(S) /\ v \in Seq(S)
    BY <1>1
  <2>2. /\ a \o v \in Seq(S) /\ Len(a \o v) = Len(a) + Len(v)
        /\ \A t \in 1 .. Len(a) : (a \o v)[t] = a[t]
        /\ \A t \in 1 .. Len(v) : (a \o v)[Len(a) + t] = v[t]
    BY <2>1, Best!ConcatParts
  <2> QED
    BY <1>1, <2>2
<1>4. /\ x \in Seq(S) /\ Len(x) = i + Len(v) + (Len(u) - k)
      /\ \A t \in 1 .. i + Len(v) : x[t] = (a \o v)[t]
      /\ \A t \in 1 .. Len(u) - k : x[i + Len(v) + t] = b[t]
  <2> DEFINE c == a \o v
  <2>1. c \in Seq(S) /\ Len(c) = i + Len(v) /\ Len(c) \in Nat /\ Len(b) = Len(u) - k
    BY <1>0, <1>2, <1>3
  <2> HIDE DEF c
  <2>2. /\ c \o b \in Seq(S) /\ Len(c \o b) = Len(c) + Len(b)
        /\ \A t \in 1 .. Len(c) : (c \o b)[t] = c[t]
        /\ \A t \in 1 .. Len(b) : (c \o b)[Len(c) + t] = b[t]
    <3>0. c \in Seq(S) /\ b \in Seq(S)
      BY <1>2, <2>1
    <3> QED
      BY <3>0, Best!ConcatParts
  <2>3. /\ c \o b \in Seq(S) /\ Len(c \o b) = i + Len(v) + (Len(u) - k)
        /\ \A t \in 1 .. i + Len(v) : (c \o b)[t] = c[t]
        /\ \A t \in 1 .. Len(u) - k : (c \o b)[i + Len(v) + t] = b[t]
    BY <2>1, <2>2
  <2> QED
    BY <2>3 DEF c
<1>5. \A t \in 1 .. i : x[t] = u[t]
  BY <1>0, <1>3, <1>4
<1>6. \A t \in 1 .. Len(v) : x[i + t] = v[t]
  BY <1>0, <1>3, <1>4
<1>7. \A t \in 1 .. Len(u) - k : x[i + Len(v) + t] = u[k + t]
  BY <1>2, <1>4
<1> DEFINE m == Len(u)
           n == Len(v)
<1>8. m \in Nat /\ n \in Nat /\ Len(s) \in Nat /\ i \in 0 .. m /\ k \in 0 .. m
  OBVIOUS
<1>9. /\ x \in Seq(S) /\ Len(x) = i + n + (m - k)
      /\ \A t \in 1 .. i : x[t] = u[t]
      /\ \A t \in 1 .. n : x[i + t] = v[t]
      /\ \A t \in 1 .. m - k : x[i + n + t] = u[k + t]
  BY <1>4, <1>5, <1>6, <1>7
<1>10. x = Spliced(u, i, v, k)
  BY DEF a, b, Spliced
<1> HIDE DEF x, m, n
<1>11. ASSUME /\ Len(s) = i + n + (m - k)
              /\ \A t \in 1 .. i : s[t] = u[t]
              /\ \A t \in 1 .. n : s[i + t] = v[t]
              /\ \A t \in 1 .. m - k : s[i + n + t] = u[k + t]
       PROVE  s = x
  <2>1. \A t \in 1 .. i : s[t] = x[t]
    BY <1>9, <1>11
  <2>2. \A t \in i + 1 .. i + n : s[t] = x[t]
    <3> SUFFICES ASSUME NEW t \in i + 1 .. i + n PROVE s[t] = x[t]
      OBVIOUS
    <3>1. t - i \in 1 .. n /\ i + (t - i) = t
      BY <1>8
    <3>2. s[i + (t - i)] = v[t - i] /\ x[i + (t - i)] = v[t - i]
      BY <1>9, <1>11, <3>1
    <3> QED
      BY <3>1, <3>2
  <2>3. \A t \in i + n + 1 .. i + n + (m - k) : s[t] = x[t]
    <3> SUFFICES ASSUME NEW t \in i + n + 1 .. i + n + (m - k) PROVE s[t] = x[t]
      OBVIOUS
    <3>1. t - (i + n) \in 1 .. m - k /\ i + n + (t - (i + n)) = t
      BY <1>8
    <3>2. s[i + n + (t - (i + n))] = u[k + (t - (i + n))]
          /\ x[i + n + (t - (i + n))] = u[k + (t - (i + n))]
      BY <1>9, <1>11, <3>1
    <3> QED
      BY <3>1, <3>2
  <2>4. \A t \in 1 .. i + n + (m - k) :
          t \in 1 .. i \/ t \in i + 1 .. i + n \/ t \in i + n + 1 .. i + n + (m - k)
    BY <1>8
  <2>5. \A t \in 1 .. Len(s) : s[t] = x[t]
    BY <1>11, <2>1, <2>2, <2>3, <2>4
  <2> QED
    BY <1>9, <1>11, <2>5, SeqEqual
<1> QED
  BY <1>9, <1>11, <1>10 DEF m, n, IsSplice

LEMMA OneEditMembers ==
  ASSUME NEW u, NEW s
  PROVE  s \in OneEdit(u) <=>
           \/ \E i \in 0 .. Len(u), c \in Char : s = Spliced(u, i, <<c>>, i)
           \/ \E i \in 1 .. Len(u) : s = Spliced(u, i - 1, <<>>, i)
           \/ \E i \in 1 .. Len(u), c \in Char : s = Spliced(u, i - 1, <<c>>, i)
           \/ \E i \in 1 .. Len(u) - 1 : s = Spliced(u, i - 1, <<u[i + 1], u[i]>>, i + 1)
  BY DEF OneEdit

\* A code one edit away from another is at most one edit apart from it.
LEMMA OneEditIsApart ==
  ASSUME NEW u \in Seq(Char), NEW s \in Seq(Char)
  PROVE  s \in OneEdit(u) \ {u} <=> Apart(u, s, Len(u), Len(s))
<1> DEFINE m == Len(u)
           n == Len(s)
<1>0. m \in Nat /\ n \in Nat
      /\ (\A k \in 1 .. m : u[k] \in Char) /\ (\A k \in 1 .. n : s[k] \in Char)
  OBVIOUS
<1>1. m = n /\ (\A k \in 1 .. m : s[k] = u[k]) => s = u
  BY SeqEqual
<1>2. ASSUME NEW i \in 0 .. m, NEW c \in Char
      PROVE  s = Spliced(u, i, <<c>>, i) <=>
               /\ n = m + 1 /\ \A t \in 1 .. i : s[t] = u[t]
               /\ s[i + 1] = c
               /\ \A t \in 1 .. m - i : s[i + 1 + t] = u[i + t]
  <2>1. <<c>> \in Seq(Char) /\ Len(<<c>>) = 1 /\ <<c>>[1] = c
    OBVIOUS
  <2>0. s = Spliced(u, i, <<c>>, i) <=> IsSplice(s, u, i, <<c>>, i)
    BY <2>1, SplicedIs
  <2>2. s = Spliced(u, i, <<c>>, i) <=>
               /\ n = i + Len(<<c>>) + (m - i)
               /\ \A t \in 1 .. i : s[t] = u[t]
               /\ \A t \in 1 .. Len(<<c>>) : s[i + t] = <<c>>[t]
               /\ \A t \in 1 .. m - i : s[i + Len(<<c>>) + t] = u[i + t]
    BY <2>0 DEF IsSplice
  <2>3. (\A t \in 1 .. 1 : s[i + t] = <<c>>[t]) <=> s[i + 1] = c
    BY <2>1
  <2>4. i + 1 + (m - i) = m + 1
    BY <1>0
  <2> QED
    BY <2>1, <2>2, <2>3, <2>4
<1>3. ASSUME NEW i \in 1 .. m
      PROVE  s = Spliced(u, i - 1, <<>>, i) <=>
               /\ n = m - 1 /\ \A t \in 1 .. i - 1 : s[t] = u[t]
               /\ \A t \in 1 .. m - i : s[i - 1 + t] = u[i + t]
  <2>1. <<>> \in Seq(Char) /\ Len(<<>>) = 0 /\ 1 .. 0 = {} /\ i - 1 \in 0 .. m /\ i \in 0 .. m
    BY <1>0
  <2>0. s = Spliced(u, i - 1, <<>>, i) <=> IsSplice(s, u, i - 1, <<>>, i)
    BY <2>1, SplicedIs
  <2>2. s = Spliced(u, i - 1, <<>>, i) <=>
               /\ n = (i - 1) + Len(<<>>) + (m - i)
               /\ \A t \in 1 .. i - 1 : s[t] = u[t]
               /\ \A t \in 1 .. Len(<<>>) : s[(i - 1) + t] = <<>>[t]
               /\ \A t \in 1 .. m - i : s[(i - 1) + Len(<<>>) + t] = u[i + t]
    BY <2>0 DEF IsSplice
  <2>3. (i - 1) + 0 + (m - i) = m - 1 /\ \A t \in 1 .. m - i : (i - 1) + 0 + t = i - 1 + t
    BY <1>0
  <2> QED
    BY <2>1, <2>2, <2>3
<1>4. ASSUME NEW i \in 1 .. m, NEW c \in Char
      PROVE  s = Spliced(u, i - 1, <<c>>, i) <=>
               /\ n = m /\ \A t \in 1 .. i - 1 : s[t] = u[t]
               /\ s[i] = c
               /\ \A t \in 1 .. m - i : s[i + t] = u[i + t]
  <2>1. <<c>> \in Seq(Char) /\ Len(<<c>>) = 1 /\ <<c>>[1] = c /\ i - 1 \in 0 .. m /\ i \in 0 .. m
    BY <1>0
  <2>0. s = Spliced(u, i - 1, <<c>>, i) <=> IsSplice(s, u, i - 1, <<c>>, i)
    BY <2>1, SplicedIs
  <2>2. s = Spliced(u, i - 1, <<c>>, i) <=>
               /\ n = (i - 1) + Len(<<c>>) + (m - i)
               /\ \A t \in 1 .. i - 1 : s[t] = u[t]
               /\ \A t \in 1 .. Len(<<c>>) : s[(i - 1) + t] = <<c>>[t]
               /\ \A t \in 1 .. m - i : s[(i - 1) + Len(<<c>>) + t] = u[i + t]
    BY <2>0 DEF IsSplice
  <2>3. (\A t \in 1 .. 1 : s[(i - 1) + t] = <<c>>[t]) <=> s[i] = c
    BY <2>1
  <2>4. (i - 1) + 1 + (m - i) = m /\ \A t \in 1 .. m - i : (i - 1) + 1 + t = i + t
    BY <1>0
  <2> QED
    BY <2>1, <2>2, <2>3, <2>4
<1>5. ASSUME NEW i \in 1 .. m - 1
      PROVE  s = Spliced(u, i - 1, <<u[i + 1], u[i]>>, i + 1) <=>
               /\ n = m /\ \A t \in 1 .. i - 1 : s[t] = u[t]
               /\ s[i] = u[i + 1] /\ s[i + 1] = u[i]
               /\ \A t \in 1 .. m - (i + 1) : s[i + 1 + t] = u[i + 1 + t]
  <2> DEFINE v == <<u[i + 1], u[i]>>
  <2>1. /\ v \in Seq(Char) /\ Len(v) = 2 /\ v[1] = u[i + 1] /\ v[2] = u[i]
        /\ i - 1 \in 0 .. m /\ i + 1 \in 0 .. m
    BY <1>0
  <2> HIDE DEF v
  <2>0. s = Spliced(u, i - 1, v, i + 1) <=> IsSplice(s, u, i - 1, v, i + 1)
    BY <2>1, SplicedIs
  <2>2. s = Spliced(u, i - 1, v, i + 1) <=>
               /\ n = (i - 1) + Len(v) + (m - (i + 1))
               /\ \A t \in 1 .. i - 1 : s[t] = u[t]
               /\ \A t \in 1 .. Len(v) : s[(i - 1) + t] = v[t]
               /\ \A t \in 1 .. m - (i + 1) : s[(i - 1) + Len(v) + t] = u[(i + 1) + t]
    BY <2>0 DEF IsSplice
  <2>3. (\A t \in 1 .. 2 : s[(i - 1) + t] = v[t]) <=> s[i] = u[i + 1] /\ s[i + 1] = u[i]
    <3>1. 1 .. 2 = {1, 2} /\ (i - 1) + 1 = i /\ (i - 1) + 2 = i + 1
      BY <1>0
    <3> QED
      BY <2>1, <3>1
  <2>4. (i - 1) + 2 + (m - (i + 1)) = m /\ \A t \in 1 .. m - (i + 1) : (i - 1) + 2 + t = i + 1 + t
    BY <1>0
  <2>5. s = Spliced(u, i - 1, v, i + 1) <=>
               /\ n = m /\ \A t \in 1 .. i - 1 : s[t] = u[t]
               /\ s[i] = u[i + 1] /\ s[i + 1] = u[i]
               /\ \A t \in 1 .. m - (i + 1) : s[i + 1 + t] = u[i + 1 + t]
    BY <2>1, <2>2, <2>3, <2>4
  <2> QED
    BY <2>5 DEF v
<1> HIDE DEF m, n
<1>6. ASSUME NEW i \in 0 .. m
      PROVE  (\A t \in 1 .. m - i : s[i + 1 + t] = u[i + t]) <=> (\A k \in i + 1 .. m : u[k] = s[k + 1])
  <2>1. ASSUME \A t \in 1 .. m - i : s[i + 1 + t] = u[i + t], NEW k \in i + 1 .. m
        PROVE  u[k] = s[k + 1]
    <3>1. k - i \in 1 .. m - i /\ i + 1 + (k - i) = k + 1 /\ i + (k - i) = k
      BY <1>0
    <3> QED
      BY <2>1, <3>1
  <2>2. ASSUME \A k \in i + 1 .. m : u[k] = s[k + 1], NEW t \in 1 .. m - i
        PROVE  s[i + 1 + t] = u[i + t]
    <3>1. i + t \in i + 1 .. m /\ (i + t) + 1 = i + 1 + t
      BY <1>0
    <3> QED
      BY <2>2, <3>1
  <2> QED
    BY <2>1, <2>2
<1>7. ASSUME NEW i \in 1 .. m
      PROVE  (\A t \in 1 .. m - i : s[i - 1 + t] = u[i + t]) <=> (\A k \in i .. m - 1 : u[k + 1] = s[k])
  <2>1. ASSUME \A t \in 1 .. m - i : s[i - 1 + t] = u[i + t], NEW k \in i .. m - 1
        PROVE  u[k + 1] = s[k]
    <3>1. k + 1 - i \in 1 .. m - i /\ i - 1 + (k + 1 - i) = k /\ i + (k + 1 - i) = k + 1
      BY <1>0
    <3> QED
      BY <2>1, <3>1
  <2>2. ASSUME \A k \in i .. m - 1 : u[k + 1] = s[k], NEW t \in 1 .. m - i
        PROVE  s[i - 1 + t] = u[i + t]
    <3>1. i - 1 + t \in i .. m - 1 /\ (i - 1 + t) + 1 = i + t
      BY <1>0
    <3> QED
      BY <2>2, <3>1
  <2> QED
    BY <2>1, <2>2
<1>8. ASSUME NEW i \in 0 .. m
      PROVE  (\A t \in 1 .. m - i : s[i + t] = u[i + t]) <=> (\A k \in i + 1 .. m : s[k] = u[k])
  <2>1. ASSUME \A t \in 1 .. m - i : s[i + t] = u[i + t], NEW k \in i + 1 .. m
        PROVE  u[k] = s[k]
    <3>1. k - i \in 1 .. m - i /\ i + (k - i) = k
      BY <1>0
    <3> QED
      BY <2>1, <3>1
  <2>2. ASSUME \A k \in i + 1 .. m : s[k] = u[k], NEW t \in 1 .. m - i
        PROVE  s[i + t] = u[i + t]
    <3>1. i + t \in i + 1 .. m
      BY <1>0
    <3> QED
      BY <2>2, <3>1
  <2> QED
    BY <2>1, <2>2
<1>9. ASSUME NEW i \in 0 .. m, NEW c \in Char, s = Spliced(u, i, <<c>>, i)
      PROVE  Inserted(u, s, m, n, i + 1)
  <2>1. n = m + 1 /\ (\A t \in 1 .. i : s[t] = u[t]) /\ (\A t \in 1 .. m - i : s[i + 1 + t] = u[i + t])
    BY <1>2, <1>9
  <2>2. \A k \in i + 1 .. m : u[k] = s[k + 1]
    BY <1>6, <2>1
  <2>3. i + 1 \in 1 .. n /\ (i + 1) - 1 = i
    BY <1>0, <2>1
  <2> QED
    BY <2>1, <2>2, <2>3 DEF Inserted
<1>10. ASSUME NEW p, Inserted(u, s, m, n, p)
       PROVE  \E i \in 0 .. m, c \in Char : s = Spliced(u, i, <<c>>, i)
  <2>1. /\ n = m + 1 /\ p \in 1 .. n
        /\ \A k \in 1 .. p - 1 : u[k] = s[k]
        /\ \A k \in p .. m : u[k] = s[k + 1]
    BY <1>10 DEF Inserted
  <2>2. p - 1 \in 0 .. m /\ (p - 1) + 1 = p /\ s[p] \in Char
    BY <1>0, <2>1
  <2>3. \A t \in 1 .. m - (p - 1) : s[(p - 1) + 1 + t] = u[(p - 1) + t]
    BY <1>6, <2>1, <2>2
  <2>4. s = Spliced(u, p - 1, <<s[p]>>, p - 1)
    BY <1>2, <2>1, <2>2, <2>3
  <2> QED
    BY <2>2, <2>4
<1>11. ASSUME NEW i \in 1 .. m
       PROVE  s = Spliced(u, i - 1, <<>>, i) <=> Deleted(u, s, m, n, i)
  <2>1. s = Spliced(u, i - 1, <<>>, i) <=>
          /\ n = m - 1 /\ \A t \in 1 .. i - 1 : s[t] = u[t]
          /\ \A k \in i .. m - 1 : u[k + 1] = s[k]
    BY <1>3, <1>7
  <2> QED
    BY <1>0, <2>1 DEF Deleted
<1>12. ASSUME NEW i \in 1 .. m, NEW c \in Char
       PROVE  s = Spliced(u, i - 1, <<c>>, i) <=>
                n = m /\ s[i] = c /\ \A k \in 1 .. m : k # i => u[k] = s[k]
  <2>1. s = Spliced(u, i - 1, <<c>>, i) <=>
          /\ n = m /\ \A t \in 1 .. i - 1 : s[t] = u[t]
          /\ s[i] = c
          /\ \A k \in i + 1 .. m : s[k] = u[k]
    BY <1>4, <1>8
  <2>2. ((\A t \in 1 .. i - 1 : s[t] = u[t]) /\ (\A k \in i + 1 .. m : s[k] = u[k])) <=>
          \A k \in 1 .. m : k # i => u[k] = s[k]
    BY <1>0
  <2> QED
    BY <2>1, <2>2
<1>13. ASSUME NEW i \in 1 .. m - 1
       PROVE  s = Spliced(u, i - 1, <<u[i + 1], u[i]>>, i + 1) <=>
                /\ n = m /\ s[i] = u[i + 1] /\ s[i + 1] = u[i]
                /\ \A k \in 1 .. m : k # i /\ k # i + 1 => u[k] = s[k]
  <2>1. i + 1 \in 0 .. m /\ m - 1 \in Int
    BY <1>0
  <2>2. s = Spliced(u, i - 1, <<u[i + 1], u[i]>>, i + 1) <=>
          /\ n = m /\ \A t \in 1 .. i - 1 : s[t] = u[t]
          /\ s[i] = u[i + 1] /\ s[i + 1] = u[i]
          /\ \A k \in (i + 1) + 1 .. m : s[k] = u[k]
    BY <1>5, <1>8, <2>1
  <2>3. ((\A t \in 1 .. i - 1 : s[t] = u[t]) /\ (\A k \in (i + 1) + 1 .. m : s[k] = u[k])) <=>
          \A k \in 1 .. m : k # i /\ k # i + 1 => u[k] = s[k]
    BY <1>0
  <2> QED
    BY <2>2, <2>3
<1>14. ASSUME s \in OneEdit(u), s # u
       PROVE  Apart(u, s, m, n)
  <2>1. CASE \E i \in 0 .. m, c \in Char : s = Spliced(u, i, <<c>>, i)
    <3>1. PICK i \in 0 .. m, c \in Char : s = Spliced(u, i, <<c>>, i)
      BY <2>1
    <3>2. Inserted(u, s, m, n, i + 1) /\ i + 1 \in Nat
      BY <1>0, <1>9, <3>1
    <3> QED
      BY <3>2, Zenon DEF Apart
  <2>2. CASE \E i \in 1 .. m : s = Spliced(u, i - 1, <<>>, i)
    <3>1. PICK i \in 1 .. m : Deleted(u, s, m, n, i)
      BY <1>11, <2>2
    <3>2. i \in Nat
      BY <1>0
    <3> QED
      BY <3>1, <3>2, Zenon DEF Apart
  <2>3. CASE \E i \in 1 .. m, c \in Char : s = Spliced(u, i - 1, <<c>>, i)
    <3>1. PICK i \in 1 .. m, c \in Char : s = Spliced(u, i - 1, <<c>>, i)
      BY <2>3
    <3>2. n = m /\ \A k \in 1 .. m : k # i => u[k] = s[k]
      BY <1>12, <3>1
    <3>3. u[i] # s[i]
      BY <1>1, <1>14, <3>2
    <3>4. Substituted(u, s, m, n, i) /\ i \in Nat
      BY <1>0, <3>2, <3>3 DEF Substituted
    <3> QED
      BY <3>4, Zenon DEF Apart
  <2>4. CASE \E i \in 1 .. m - 1 : s = Spliced(u, i - 1, <<u[i + 1], u[i]>>, i + 1)
    <3>1. PICK i \in 1 .. m - 1 : s = Spliced(u, i - 1, <<u[i + 1], u[i]>>, i + 1)
      BY <2>4
    <3>2. /\ n = m /\ s[i] = u[i + 1] /\ s[i + 1] = u[i]
          /\ \A k \in 1 .. m : k # i /\ k # i + 1 => u[k] = s[k]
      BY <1>13, <3>1
    <3>3. u[i] # s[i]
      <4> SUFFICES ASSUME u[i] = s[i] PROVE FALSE
        OBVIOUS
      <4>1. \A k \in 1 .. m : s[k] = u[k]
        BY <3>2
      <4> QED
        BY <1>1, <1>14, <3>2, <4>1
    <3>4. Swapped(u, s, m, n, i) /\ i \in Nat
      BY <1>0, <3>2, <3>3 DEF Swapped
    <3> QED
      BY <3>4, Zenon DEF Apart
  <2> QED
    BY <1>14, <2>1, <2>2, <2>3, <2>4, OneEditMembers DEF m
<1>15. ASSUME Apart(u, s, m, n)
       PROVE  s \in OneEdit(u) /\ s # u
  <2>1. PICK p \in Nat : \/ Inserted(u, s, m, n, p)
                         \/ Deleted(u, s, m, n, p)
                         \/ Substituted(u, s, m, n, p)
                         \/ Swapped(u, s, m, n, p)
    BY <1>15 DEF Apart
  <2>2. CASE Inserted(u, s, m, n, p)
    <3>1. \E i \in 0 .. m, c \in Char : s = Spliced(u, i, <<c>>, i)
      BY <1>10, <2>2
    <3>2. n # m
      BY <1>0, <2>2 DEF Inserted
    <3> QED
      BY <3>1, <3>2, OneEditMembers DEF m, n
  <2>3. CASE Deleted(u, s, m, n, p)
    <3>1. p \in 1 .. m /\ n # m
      BY <1>0, <2>3 DEF Deleted
    <3>2. s = Spliced(u, p - 1, <<>>, p)
      BY <1>11, <2>3, <3>1
    <3> QED
      BY <3>1, <3>2, OneEditMembers DEF m, n
  <2>4. CASE Substituted(u, s, m, n, p)
    <3>1. /\ n = m /\ p \in 1 .. m /\ u[p] # s[p]
          /\ \A k \in 1 .. m : k # p => u[k] = s[k]
      BY <1>0, <2>4 DEF Substituted
    <3>2. s[p] \in Char
      BY <1>0, <3>1
    <3>3. s = Spliced(u, p - 1, <<s[p]>>, p)
      BY <1>12, <3>1, <3>2
    <3> QED
      BY <3>1, <3>2, <3>3, OneEditMembers DEF m
  <2>5. CASE Swapped(u, s, m, n, p)
    <3>1. /\ n = m /\ p \in 1 .. m - 1 /\ u[p] # s[p]
          /\ s[p] = u[p + 1] /\ s[p + 1] = u[p]
          /\ \A k \in 1 .. m : k # p /\ k # p + 1 => u[k] = s[k]
      BY <1>0, <2>5 DEF Swapped
    <3>2. s = Spliced(u, p - 1, <<u[p + 1], u[p]>>, p + 1)
      BY <1>13, <3>1
    <3> QED
      BY <3>1, <3>2, OneEditMembers DEF m
  <2> QED
    BY <2>1, <2>2, <2>3, <2>4, <2>5
<1> QED
  BY <1>14, <1>15 DEF m, n

\* What the decoder calls a correction, a syllable at distance 1 from the raw code
\* of a span, is the syllable that one insertion, deletion, substitution or swap of
\* neighbours makes of that code: weighted_damerau_levenshtein and its bound
\* (normalizer.rs) agree with the definition of an edit, for every input.
THEOREM CorrectionsAreOneEdit == Spec => []CorrectionsAreEdits
<1>1. Inv => CorrectionsAreEdits
  <2> SUFFICES ASSUME Inv, NEW o \in 0 .. Len(input) - 1, NEW end \in o + 1 .. Len(input),
                      NEW s \in Syllable
               PROVE  LET raw == SubSeq(input, o + 1, end)
                      IN  Distance(raw, s) = 1 <=> s \in OneEdit(raw) \ {raw}
    BY DEF CorrectionsAreEdits
  <2> DEFINE raw == SubSeq(input, o + 1, end)
  <2>1. input \in Seq(Char) /\ s \in Seq(Char)
    BY ReadingsAssumption DEF Inv, WellFormed, Char
  <2>2. raw \in Seq(Char)
    <3>1. Len(input) \in Nat
      BY <2>1
    <3>2. o \in Nat /\ end \in 0 .. Len(input)
      BY <3>1
    <3> QED
      BY <2>1, <3>2, Under
  <2> HIDE DEF raw
  <2>3. Len(raw) \in Nat /\ Len(s) \in Nat
    BY <2>1, <2>2
  <2>4. Distance(raw, s) = 1 <=> Apart(raw, s, Len(raw), Len(s))
    BY <2>3, DistanceMeaning
  <2>5. s \in OneEdit(raw) \ {raw} <=> Apart(raw, s, Len(raw), Len(s))
    BY <2>1, <2>2, OneEditIsApart
  <2> QED
    BY <2>4, <2>5 DEF raw
<1> QED
  BY <1>1, Invariance, PTL

=============================================================================
