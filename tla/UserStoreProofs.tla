-------------------------- MODULE UserStoreProofs --------------------------
(***************************************************************************)
(* Proofs about UserStore, for every set of words and sessions, every      *)
(* radix and delay, every set of outcomes of a write and every bound.      *)
(*                                                                         *)
(* The events of a call are folded into the cache and into the database,   *)
(* and load_from_db folds the stored log again, so the proofs rest on      *)
(* FoldsAndOrders: Replays is its instance for apply_to_cache and the      *)
(* order of the text ids, Writes the one for persist_event and the order   *)
(* of the tokens.                                                          *)
(***************************************************************************)
EXTENDS UserStore, FiniteSetTheorems, SequenceTheorems, TLAPS

Replays == INSTANCE FoldsAndOrders WITH Op <- ApplyToCache, Precedes <- TextBefore
Writes  == INSTANCE FoldsAndOrders WITH Op <- Written, Precedes <- Before

\* Division leaves a remainder, and a quotient that is smaller.
LEMMA DivMod ==
  ASSUME NEW n \in Nat, NEW r \in Nat, r >= 2
  PROVE  /\ n \div r \in Nat
         /\ n % r \in 0 .. r - 1
         /\ n = r * (n \div r) + (n % r)
         /\ n >= 1 => n \div r < n
OBVIOUS

\* What the proofs use of the assumption on the constants.
LEMMA Bounds ==
  /\ Radix \in Nat /\ Radix >= 2
  /\ MaxEvents \in Nat /\ MaxActions \in Nat /\ MaxTime \in Nat /\ Delay \in Nat
<1>1. Radix \in Nat \ {0, 1}
  BY UserStoreAssumption, Zenon
<1>2. MaxEvents \in Nat /\ MaxActions \in Nat /\ MaxTime \in Nat /\ Delay \in Nat
  BY UserStoreAssumption, Zenon
<1> QED
  BY <1>1, <1>2

\* A number of two digits or more is its leading digits and its last.
LEMMA LeadingDigits ==
  ASSUME NEW n \in Nat, ~(n < Radix)
  PROVE  /\ n \div Radix \in 0 .. n - 1
         /\ n % Radix \in Nat
         /\ n = Radix * (n \div Radix) + (n % Radix)
<1> DEFINE d == n \div Radix
           r == n % Radix
<1>1. Radix \in Nat /\ Radix >= 2
  BY Bounds
<1>2. d \in Nat /\ r \in 0 .. Radix - 1 /\ n = Radix * d + r /\ (n >= 1 => d < n)
  BY <1>1, DivMod, Zenon
<1> HIDE DEF d, r
<1>3. d \in 0 .. n - 1 /\ r \in Nat
  BY <1>1, <1>2
<1> QED
  BY <1>2, <1>3 DEF d, r

\* The recursion Digits is defined by has a solution, so Digits satisfies it.
LEMMA DigitsRecursion ==
  \A n \in 0 .. MaxEvents :
    Digits[n] = IF n < Radix THEN <<n>> ELSE Append(Digits[n \div Radix], n % Radix)
<1> DEFINE Body(g, n) == IF n < Radix THEN <<n>> ELSE Append(g[n \div Radix], n % Radix)
           Solves(g, m) == g = [n \in 0 .. m |-> Body(g, n)]
           Good == {m \in Nat : \E g : Solves(g, m)}
<1>1. 0 \in Good
  <2>1. 0 < Radix
    BY Bounds
  <2>2. Solves([n \in 0 .. 0 |-> <<n>>], 0)
    BY <2>1
  <2> QED
    BY <2>2
<1>2. \A m \in Nat : m \in Good => m + 1 \in Good
  <2> SUFFICES ASSUME NEW m \in Nat, m \in Good
               PROVE  m + 1 \in Good
    OBVIOUS
  <2>1. PICK g : Solves(g, m)
    OBVIOUS
  <2> DEFINE h == [n \in 0 .. m + 1 |-> IF n = m + 1 THEN Body(g, n) ELSE g[n]]
  <2>2. ASSUME NEW n \in 0 .. m + 1
        PROVE  h[n] = Body(h, n)
    <3>1. n \in 0 .. m => g[n] = Body(g, n)
      BY <2>1
    <3>2. n = m + 1 \/ n \in 0 .. m
      OBVIOUS
    <3>3. h[n] = Body(g, n)
      BY <3>1, <3>2
    <3>4. ~(n < Radix) => n \div Radix \in 0 .. m
      <4>1. ~(n < Radix) => n \div Radix \in 0 .. n - 1
        BY LeadingDigits
      <4>2. 0 .. n - 1 \subseteq 0 .. m
        OBVIOUS
      <4> QED
        BY <4>1, <4>2
    <3>5. ~(n < Radix) => h[n \div Radix] = g[n \div Radix]
      BY <3>4
    <3> HIDE DEF h
    <3> QED
      BY <3>3, <3>5
  <2>3. Solves(h, m + 1)
    BY <2>2
  <2> HIDE DEF h, Solves
  <2> QED
    BY <2>3
<1>3. MaxEvents \in Good
  <2> HIDE DEF Good
  <2> QED
    BY <1>1, <1>2, Bounds, Replays!SetInduction
<1>4. \E g : Solves(g, MaxEvents)
  BY <1>3
<1>5. Solves(Digits, MaxEvents)
  BY <1>4, Zenon DEF Digits
<1> QED
  BY <1>5

\* A digit more leaves a sequence of digits.
LEMMA DigitAdded ==
  ASSUME NEW s \in Seq(Nat), Len(s) >= 1, NEW e \in Nat
  PROVE  Append(s, e) \in Seq(Nat) /\ Len(Append(s, e)) >= 1
<1>1. Append(s, e) \in Seq(Nat) /\ Len(Append(s, e)) = Len(s) + 1 /\ Len(s) \in Nat
  BY AppendProperties
<1> QED
  BY <1>1

\* A number has digits, at least one.
LEMMA DigitsType ==
  \A n \in 0 .. MaxEvents : Digits[n] \in Seq(Nat) /\ Len(Digits[n]) >= 1
<1> DEFINE Typed(n) == Digits[n] \in Seq(Nat) /\ Len(Digits[n]) >= 1
           Good == {k \in Nat : \A n \in 0 .. k : n <= MaxEvents => Typed(n)}
<1>1. \A n \in 0 .. MaxEvents : n < Radix => Typed(n)
  <2> SUFFICES ASSUME NEW n \in 0 .. MaxEvents, n < Radix
               PROVE  Typed(n)
    OBVIOUS
  <2>1. Digits[n] = <<n>>
    BY DigitsRecursion, Zenon
  <2>2. <<n>> \in Seq(Nat) /\ Len(<<n>>) = 1
    BY Bounds
  <2> QED
    BY <2>1, <2>2
<1>2. 0 \in Good
  <2>1. 0 < Radix /\ 0 \in 0 .. MaxEvents
    BY Bounds
  <2>2. Typed(0)
    BY <1>1, <2>1
  <2> HIDE DEF Typed
  <2> QED
    BY <2>2
<1>3. ASSUME NEW k \in Nat, k \in Good, k + 1 <= MaxEvents
      PROVE  Typed(k + 1)
  <2>1. CASE k + 1 < Radix
    <3>1. k + 1 \in 0 .. MaxEvents
      BY <1>3, Bounds
    <3> QED
      BY <1>1, <2>1, <3>1
  <2>2. CASE ~(k + 1 < Radix)
    <3> DEFINE d == (k + 1) \div Radix
               r == (k + 1) % Radix
    <3>1. d \in 0 .. k /\ r \in Nat
      BY <2>2, LeadingDigits
    <3>2. Digits[k + 1] = Append(Digits[d], r)
      <4>1. k + 1 \in 0 .. MaxEvents
        BY <1>3, Bounds
      <4> QED
        BY <2>2, <4>1, DigitsRecursion, Zenon
    <3> HIDE DEF d, r
    <3>3. Typed(d)
      BY <1>3, <3>1, Bounds
    <3> QED
      BY <3>1, <3>2, <3>3, DigitAdded
  <2> QED
    BY <2>1, <2>2
<1>4. \A k \in Nat : k \in Good => k + 1 \in Good
  <2> HIDE DEF Typed
  <2> QED
    BY <1>3
<1>5. MaxEvents \in Good
  <2> HIDE DEF Good
  <2> QED
    BY <1>2, <1>4, Bounds, Replays!SetInduction
<1> QED
  BY <1>5, Bounds

\* DigitsRecursion without division: the last digit and the ones before it.
LEMMA DigitsSplit ==
  \A n \in 0 .. MaxEvents :
    \/ Digits[n] = <<n>>
    \/ \E d \in 0 .. n - 1, r \in Nat :
         /\ n = Radix * d + r
         /\ Digits[d] \in Seq(Nat) /\ Len(Digits[d]) >= 1
         /\ Digits[n] = Append(Digits[d], r)
<1> SUFFICES ASSUME NEW n \in 0 .. MaxEvents, Digits[n] # <<n>>
             PROVE  \E d \in 0 .. n - 1, r \in Nat :
                      /\ n = Radix * d + r
                      /\ Digits[d] \in Seq(Nat) /\ Len(Digits[d]) >= 1
                      /\ Digits[n] = Append(Digits[d], r)
  OBVIOUS
<1> DEFINE d == n \div Radix
           r == n % Radix
<1>1. MaxEvents \in Nat /\ n \in Nat
  BY Bounds
<1>2. ~(n < Radix) /\ Digits[n] = Append(Digits[d], r)
  BY DigitsRecursion, Zenon
<1>3. d \in 0 .. n - 1 /\ r \in Nat /\ n = Radix * d + r
  BY <1>1, <1>2, LeadingDigits
<1> HIDE DEF d, r
<1>4. d \in 0 .. n - 1 /\ d \in 0 .. MaxEvents
  BY <1>1, <1>3
<1>5. Digits[d] \in Seq(Nat) /\ Len(Digits[d]) >= 1
  BY <1>4, DigitsType
<1> QED
  BY <1>2, <1>3, <1>4, <1>5

\* Equal texts end with the same digit.
LEMMA SameLastDigit ==
  ASSUME NEW s \in Seq(Nat), NEW t \in Seq(Nat), NEW e \in Nat, NEW f \in Nat,
         Append(s, e) = Append(t, f)
  PROVE  s = t /\ e = f
BY AppendInjective

\* A text of one digit is none of two.
LEMMA OneDigit ==
  ASSUME NEW s \in Seq(Nat), Len(s) >= 1, NEW e \in Nat, NEW n \in Nat
  PROVE  Append(s, e) # <<n>>
<1>1. Len(s) \in Nat /\ Len(Append(s, e)) = Len(s) + 1
  BY AppendProperties
<1>2. Len(<<n>>) = 1
  OBVIOUS
<1> QED
  BY <1>1, <1>2

\* Two numbers do not have the same text: an id stands for one event number.
LEMMA DigitsDiffer ==
  \A m, n \in 0 .. MaxEvents : Digits[m] = Digits[n] => m = n
<1> DEFINE Unique(k) == \A m, n \in 0 .. k :
             m <= MaxEvents /\ n <= MaxEvents /\ Digits[m] = Digits[n] => m = n
           Good == {k \in Nat : Unique(k)}
<1>1. MaxEvents \in Nat
  BY Bounds
<1>2. 0 \in Good
  OBVIOUS
<1>3. ASSUME NEW k \in Nat, Unique(k)
      PROVE  Unique(k + 1)
  <2> TAKE m, n \in 0 .. k + 1
  <2> HAVE m <= MaxEvents /\ n <= MaxEvents /\ Digits[m] = Digits[n]
  <2>1. m \in 0 .. MaxEvents /\ n \in 0 .. MaxEvents /\ m \in Nat /\ n \in Nat
    BY <1>1
  <2>2. \A c \in 0 .. m - 1, d \in 0 .. n - 1 : Digits[c] = Digits[d] => c = d
    <3> SUFFICES ASSUME NEW c \in 0 .. m - 1, NEW d \in 0 .. n - 1, Digits[c] = Digits[d]
                 PROVE  c = d
      OBVIOUS
    <3>1. c \in 0 .. k /\ d \in 0 .. k /\ c <= MaxEvents /\ d <= MaxEvents
      BY <1>1
    <3> QED
      BY <1>3, <3>1
  <2> HIDE DEF Unique
  <2>3. CASE Digits[m] = <<m>> /\ Digits[n] = <<n>>
    <3>1. <<m>> = <<n>>
      BY <2>3
    <3> QED
      BY <3>1
  <2>4. CASE Digits[m] = <<m>> /\ Digits[n] # <<n>>
    <3>1. PICK d \in 0 .. n - 1, r \in Nat :
            Digits[d] \in Seq(Nat) /\ Len(Digits[d]) >= 1 /\ Digits[n] = Append(Digits[d], r)
      BY <2>1, <2>4, DigitsSplit
    <3> QED
      BY <2>1, <2>4, <3>1, OneDigit
  <2>5. CASE Digits[m] # <<m>> /\ Digits[n] = <<n>>
    <3>1. PICK d \in 0 .. m - 1, r \in Nat :
            Digits[d] \in Seq(Nat) /\ Len(Digits[d]) >= 1 /\ Digits[m] = Append(Digits[d], r)
      BY <2>1, <2>5, DigitsSplit
    <3> QED
      BY <2>1, <2>5, <3>1, OneDigit
  <2>6. CASE Digits[m] # <<m>> /\ Digits[n] # <<n>>
    <3>1. PICK c \in 0 .. m - 1, q \in Nat :
            m = Radix * c + q /\ Digits[c] \in Seq(Nat) /\ Digits[m] = Append(Digits[c], q)
      BY <2>1, <2>6, DigitsSplit
    <3>2. PICK d \in 0 .. n - 1, r \in Nat :
            n = Radix * d + r /\ Digits[d] \in Seq(Nat) /\ Digits[n] = Append(Digits[d], r)
      BY <2>1, <2>6, DigitsSplit
    <3>3. Append(Digits[c], q) = Append(Digits[d], r)
      BY <3>1, <3>2
    <3>4. Digits[c] = Digits[d] /\ q = r
      <4> DEFINE s == Digits[c]
                 t == Digits[d]
      <4>1. s \in Seq(Nat) /\ t \in Seq(Nat) /\ Append(s, q) = Append(t, r)
        BY <3>1, <3>2, <3>3
      <4> HIDE DEF s, t
      <4>2. s = t /\ q = r
        BY <4>1, SameLastDigit
      <4> QED
        BY <4>2 DEF s, t
    <3> QED
      BY <2>2, <3>1, <3>2, <3>4
  <2> QED
    BY <2>3, <2>4, <2>5, <2>6
<1>4. \A k \in Nat : k \in Good => k + 1 \in Good
  <2> HIDE DEF Unique
  <2> QED
    BY <1>3
<1>5. MaxEvents \in Good
  <2> HIDE DEF Good
  <2> QED
    BY <1>1, <1>2, <1>4, Replays!SetInduction
<1> QED
  BY <1>1, <1>5

-----------------------------------------------------------------------------
(***************************************************************************)
(* The inductive invariant.                                                *)
(***************************************************************************)
Op      == {"learn_word", "update_frequency", "delete_word", "pin_candidate",
            "block_candidate"}
EventId == [device : {1, 2}, seq : 1 .. MaxEvents]
OriginId == [token : Token, process : Nat]
Events  == [op : Op, word : Word, delta : Int, device : {1, 2}, origins : SUBSET OriginId]
Caches  == [frequency : [Word -> Int], known : SUBSET Word, pinned : SUBSET Word,
            blocked : SUBSET Word, deleted : SUBSET Word]
Logs    == UNION {[ids -> Events] : ids \in SUBSET EventId}
Dbs     == [events : Logs, pinned : SUBSET Word, blocked : SUBSET Word,
            deleted : SUBSET Word]
Phrase  == [word : Word, deadline : Nat]

TypeInv ==
  /\ db \in Dbs /\ IsFiniteSet(DOMAIN db.events)
  /\ cache \in Caches
  /\ events \in Seq(Events)
  /\ pending \in UNION {[tokens -> Phrase] : tokens \in SUBSET Token}
  /\ IsFiniteSet(DOMAIN pending)
  /\ next_id \in 1 .. MaxEvents + 1 /\ next_id <= Len(events) + 1
  /\ legacy \in [next : 1 .. MaxActions + 1, last : Token \cup {NoToken}]
  /\ now \in 0 .. MaxTime
  /\ rolled_back \subseteq OriginId
  /\ clean \in BOOLEAN
  /\ restarts \in Nat

\* The commits that have been: those of earlier processes, and in this one those
\* whose token was given, or is a number the legacy calls have drawn.
Used(o) ==
  /\ o.process <= restarts
  /\ o.token.session # 0 /\ o.process = restarts => o.token \in given
  /\ o.token.session = 0 /\ o.process = restarts => o.token.action_id < legacy.next

HistoryInv ==
  /\ \A e \in LoggedEvents : \A o \in e.origins : Used(o)
  /\ \A o \in rolled_back : Used(o)
  /\ \A t \in DOMAIN pending : Used(Origin(t)) /\ Origin(t) \notin rolled_back

\* One commit, one row.
OneRowPerCommit ==
  \A i, j \in DOMAIN db.events :
    db.events[i].origins \cap db.events[j].origins # {} => i = j

\* What an event in the database says, its table says as well.
RowsBacked(d) ==
  \A id \in DOMAIN d.events :
    LET e == d.events[id]
    IN  /\ e.op = "pin_candidate" => e.word \in d.pinned
        /\ e.op = "block_candidate" => e.word \in d.blocked
        /\ e.op = "delete_word" => e.word \in d.deleted

FlagsInv == clean => RowsBacked(db)

Inv ==
  /\ TypeInv /\ HistoryInv /\ RolledBackNeverLearned
  /\ LearnedOncePerCommit /\ OneRowPerCommit
  /\ FlagsDurable /\ FlagsInv

-----------------------------------------------------------------------------
\* The instances count as this module does.
LEMMA SameCardinality ==
  /\ \A S : Replays!Cardinality(S) = Cardinality(S)
  /\ \A S : Replays!IsFiniteSet(S) <=> IsFiniteSet(S)
  /\ \A S : Writes!Cardinality(S) = Cardinality(S)
  /\ \A S : Writes!IsFiniteSet(S) <=> IsFiniteSet(S)
BY Zenon DEF Cardinality, Replays!Cardinality, Writes!Cardinality,
             IsFiniteSet, Replays!IsFiniteSet, Writes!IsFiniteSet

\* ORDER BY id has one result: text ids are strictly and totally ordered.
LEMMA TextIsOrder ==
  ASSUME NEW S, S \subseteq EventId
  PROVE  Replays!StrictTotalOrder(S)
<1>1. \A s, t : Replays!LexLess(s, t) <=> LexLess(s, t)
  BY DEF Replays!LexLess, LexLess
<1>2. \A i \in S : /\ i.device \in {1, 2}
                   /\ i.seq \in 0 .. MaxEvents
                   /\ Digits[i.seq] \in Seq(Int)
  <2> SUFFICES ASSUME NEW i \in S
               PROVE  i.device \in {1, 2} /\ i.seq \in 0 .. MaxEvents /\ Digits[i.seq] \in Seq(Int)
    OBVIOUS
  <2>1. i.device \in {1, 2} /\ i.seq \in 0 .. MaxEvents
    BY Bounds DEF EventId
  <2>2. Digits[i.seq] \in Seq(Nat)
    BY <2>1, DigitsType
  <2> QED
    BY <2>1, <2>2
<1>3. \A i, j \in S : i # j => i.device # j.device \/ Digits[i.seq] # Digits[j.seq]
  <2> SUFFICES ASSUME NEW i \in S, NEW j \in S, i # j
               PROVE  i.device # j.device \/ Digits[i.seq] # Digits[j.seq]
    OBVIOUS
  <2>1. i.device # j.device \/ i.seq # j.seq
    BY DEF EventId
  <2> QED
    BY <1>2, <2>1, DigitsDiffer
<1>4. ASSUME NEW i \in S
      PROVE  ~TextBefore(i, i)
  BY <1>1, <1>2, Replays!LexLessIsOrder DEF TextBefore
<1>5. ASSUME NEW i \in S, NEW j \in S, i # j
      PROVE  TextBefore(i, j) \/ TextBefore(j, i)
  BY <1>1, <1>2, <1>3, <1>5, Replays!LexLessIsOrder DEF TextBefore
<1>6. ASSUME NEW i \in S, NEW j \in S, NEW k \in S, TextBefore(i, j), TextBefore(j, k)
      PROVE  TextBefore(i, k)
  <2>1. PICK s \in Seq(Int), t \in Seq(Int), u \in Seq(Int) :
          s = Digits[i.seq] /\ t = Digits[j.seq] /\ u = Digits[k.seq]
    BY <1>2
  <2>2. \/ i.device < j.device
        \/ i.device = j.device /\ Replays!LexLess(s, t)
    BY <1>1, <1>6, <2>1 DEF TextBefore
  <2>3. \/ j.device < k.device
        \/ j.device = k.device /\ Replays!LexLess(t, u)
    BY <1>1, <1>6, <2>1 DEF TextBefore
  <2>4. Replays!LexLess(s, t) /\ Replays!LexLess(t, u) => Replays!LexLess(s, u)
    BY Replays!LexLessIsOrder
  <2>5. i.device \in {1, 2} /\ j.device \in {1, 2} /\ k.device \in {1, 2}
    BY <1>2
  <2>6. \/ i.device < k.device
        \/ i.device = k.device /\ Replays!LexLess(s, u)
    BY <2>2, <2>3, <2>4, <2>5
  <2> QED
    BY <1>1, <2>1, <2>6 DEF TextBefore
<1> QED
  BY <1>4, <1>5, <1>6 DEF Replays!StrictTotalOrder

\* The stored log has each event of the database once.
LEMMA StoredIsLog ==
  ASSUME NEW d \in Dbs, IsFiniteSet(DOMAIN d.events)
  PROVE  \E N \in Nat : \E ids \in [1 .. N -> DOMAIN d.events] :
           /\ \A m, n \in 1 .. N : ids[m] = ids[n] => m = n
           /\ Stored(d) = [n \in 1 .. N |-> d.events[ids[n]]]
           /\ Stored(d) \in Seq(Events) /\ Len(Stored(d)) = N
<1> DEFINE S == DOMAIN d.events
           N == Cardinality(S)
           ids == InOrder(S, TextBefore)
<1>1. S \subseteq EventId /\ \A i \in S : d.events[i] \in Events
  BY DEF Dbs, Logs
<1>2. Replays!StrictTotalOrder(S)
  BY <1>1, TextIsOrder
<1>3. ids = Replays!Enumeration(S)
  BY Zenon DEF InOrder, Replays!InOrder, Replays!Enumeration,
               Cardinality, Replays!Cardinality
<1>4. /\ N \in Nat
      /\ ids \in [1 .. N -> S]
      /\ \A m, n \in 1 .. N : m < n => TextBefore(ids[m], ids[n])
  BY <1>2, <1>3, SameCardinality, Replays!InOrderEnumerates
<1>5. Stored(d) = [n \in DOMAIN ids |-> d.events[ids[n]]]
  BY DEF Stored
<1> HIDE DEF S, N, ids
<1>6. ASSUME NEW m \in 1 .. N, NEW n \in 1 .. N, ids[m] = ids[n]
      PROVE  m = n
  <2>1. ids[m] \in S /\ ids[n] \in S /\ ~TextBefore(ids[m], ids[m])
    BY <1>2, <1>4 DEF Replays!StrictTotalOrder
  <2>2. ~(m < n) /\ ~(n < m)
    BY <1>4, <1>6, <2>1
  <2> QED
    BY <1>4, <2>2
<1>7. Stored(d) = [n \in 1 .. N |-> d.events[ids[n]]]
  BY <1>4, <1>5
<1>8. Stored(d) \in Seq(Events) /\ Len(Stored(d)) = N
  BY <1>1, <1>4, <1>7 DEF S
<1> QED
  BY <1>4, <1>6, <1>7, <1>8 DEF S

-----------------------------------------------------------------------------
\* The folds of the model are those of the instances.
LEMMA FoldsAgree ==
  /\ \A base, q : FoldLeft(ApplyToCache, base, q) = Replays!Fold(base, q)
  /\ \A base, q : FoldLeft(Written, base, q) = Writes!Fold(base, q)
<1>1. \A base, q : FoldLeft(ApplyToCache, base, q) = Replays!Fold(base, q)
  BY Zenon DEF FoldLeft, MapThenFoldSet, Max, Replays!Fold, Replays!FoldLeft,
               Replays!MapThenFoldSet, Replays!Max
<1>2. \A base, q : FoldLeft(Written, base, q) = Writes!Fold(base, q)
  BY Zenon DEF FoldLeft, MapThenFoldSet, Max, Writes!Fold, Writes!FoldLeft,
               Writes!MapThenFoldSet, Writes!Max
<1> QED
  BY <1>1, <1>2

\* apply_to_cache keeps the type of the cache.
LEMMA CacheStep ==
  ASSUME NEW c \in Caches, NEW e \in Events
  PROVE  ApplyToCache(c, e) \in Caches
<1>1. e.op \in Op /\ e.word \in Word /\ e.delta \in Int
  BY DEF Events
<1>2. CASE e.op = "learn_word"
  <2> DEFINE f == [c.frequency EXCEPT ![e.word] = @ + e.delta]
  <2>1. f \in [Word -> Int]
    BY <1>1 DEF Caches
  <2>2. ApplyToCache(c, e) = [c EXCEPT !.deleted = @ \ {e.word}, !.known = @ \cup {e.word},
                                      !.frequency = f]
    BY <1>2 DEF ApplyToCache, Caches
  <2> DEFINE x == c.deleted \ {e.word}
             k == c.known \cup {e.word}
  <2>3. x \in SUBSET Word /\ k \in SUBSET Word
    BY <1>1 DEF Caches
  <2> HIDE DEF f, x, k
  <2>4. [c EXCEPT !.deleted = x, !.known = k, !.frequency = f] \in Caches
    BY <2>1, <2>3 DEF Caches
  <2> QED
    BY <2>2, <2>4 DEF x, k
<1>3. CASE e.op = "update_frequency"
  BY <1>1, <1>3 DEF ApplyToCache, Caches
<1>4. CASE e.op \in {"delete_word", "pin_candidate", "block_candidate"}
  BY <1>1, <1>4 DEF ApplyToCache, Caches
<1> QED
  BY <1>1, <1>2, <1>3, <1>4 DEF Op

\* The cache of a new store has the type of a cache.
LEMMA EmptyCacheTyped == EmptyCache \in Caches
BY DEF EmptyCache, Caches

Write == [id : EventId, event : Events, outcome : {"stored", "event only", "lost"}]

\* What INSERT OR REPLACE INTO events changes.
LEMMA InsertStep ==
  ASSUME NEW d \in Dbs, IsFiniteSet(DOMAIN d.events), NEW id \in EventId, NEW e \in Events
  PROVE  LET n == InsertEvent(d, id, e)
         IN  /\ n \in Dbs /\ IsFiniteSet(DOMAIN n.events)
             /\ n.events = [i \in DOMAIN d.events \cup {id} |->
                              IF i = id THEN e ELSE d.events[i]]
             /\ n.pinned = d.pinned /\ n.blocked = d.blocked /\ n.deleted = d.deleted
<1> DEFINE f == [i \in DOMAIN d.events \cup {id} |-> IF i = id THEN e ELSE d.events[i]]
<1>1. DOMAIN d.events \subseteq EventId /\ \A i \in DOMAIN d.events : d.events[i] \in Events
  BY DEF Dbs, Logs
<1>2. f \in [DOMAIN d.events \cup {id} -> Events] /\ DOMAIN d.events \cup {id} \in SUBSET EventId
  BY <1>1
<1>3. f \in Logs
  BY <1>2 DEF Logs
<1>4. DOMAIN f = DOMAIN d.events \cup {id} /\ IsFiniteSet(DOMAIN f)
  BY FS_AddElement
<1>5. InsertEvent(d, id, e) = [d EXCEPT !.events = f]
  BY DEF InsertEvent
<1> HIDE DEF f
<1>6. /\ [d EXCEPT !.events = f] \in Dbs /\ [d EXCEPT !.events = f].events = f
      /\ [d EXCEPT !.events = f].pinned = d.pinned
      /\ [d EXCEPT !.events = f].blocked = d.blocked
      /\ [d EXCEPT !.events = f].deleted = d.deleted
  BY <1>3 DEF Dbs
<1> QED
  BY <1>4, <1>5, <1>6 DEF f

\* The second statement of a write adds to one table and leaves the events
\* alone.
LEMMA RowStep ==
  ASSUME NEW d \in Dbs, NEW e \in Events
  PROVE  /\ InsertRow(d, e) \in Dbs /\ InsertRow(d, e).events = d.events
         /\ d.pinned \subseteq InsertRow(d, e).pinned
         /\ d.blocked \subseteq InsertRow(d, e).blocked
         /\ d.deleted \subseteq InsertRow(d, e).deleted
<1>1. e.op \in Op /\ e.word \in Word
  BY DEF Events
<1> QED
  BY <1>1 DEF InsertRow, Dbs, Op

\* A write leaves every event of the database as it was, or is the one written.
LEMMA WriteStep ==
  ASSUME NEW d \in Dbs, IsFiniteSet(DOMAIN d.events), NEW w \in Write
  PROVE  /\ Written(d, w) \in Dbs /\ IsFiniteSet(DOMAIN Written(d, w).events)
         /\ \A i \in DOMAIN Written(d, w).events :
              \/ i \in DOMAIN d.events /\ Written(d, w).events[i] = d.events[i]
              \/ i = w.id /\ Written(d, w).events[i] = w.event
<1> DEFINE n == InsertEvent(d, w.id, w.event)
<1>1. w.id \in EventId /\ w.event \in Events /\ w.outcome \in {"stored", "event only", "lost"}
  BY DEF Write
<1>2. /\ n \in Dbs /\ IsFiniteSet(DOMAIN n.events)
      /\ n.events = [i \in DOMAIN d.events \cup {w.id} |->
                       IF i = w.id THEN w.event ELSE d.events[i]]
  BY <1>1, InsertStep
<1>3. Written(d, w) \in {InsertRow(n, w.event), n, d}
  BY <1>1 DEF Written
<1> HIDE DEF n
<1>4. InsertRow(n, w.event) \in Dbs /\ InsertRow(n, w.event).events = n.events
  BY <1>1, <1>2, RowStep
<1>5. \/ Written(d, w) = d
      \/ Written(d, w) \in Dbs /\ Written(d, w).events = n.events
  BY <1>2, <1>3, <1>4
<1> QED
  BY <1>2, <1>5

\* The flags the cache holds are the ones the tables do.
Backed(c, d) ==
  /\ c.blocked = d.blocked
  /\ c.pinned \subseteq d.pinned
  /\ c.deleted \subseteq d.deleted

\* A write that succeeds keeps the flags of the cache backed by the tables, and
\* the events by their rows.
LEMMA StoredStep ==
  ASSUME NEW c \in Caches, NEW d \in Dbs, IsFiniteSet(DOMAIN d.events),
         NEW w \in Write, w.outcome = "stored", Backed(c, d), RowsBacked(d)
  PROVE  Backed(ApplyToCache(c, w.event), Written(d, w)) /\ RowsBacked(Written(d, w))
<1> DEFINE n == InsertEvent(d, w.id, w.event)
           e == w.event
           r == InsertRow(n, e)
<1>1. w.id \in EventId /\ e \in Events /\ e.op \in Op /\ e.word \in Word
  BY DEF Write, Events
<1>2. /\ n \in Dbs
      /\ n.events = [i \in DOMAIN d.events \cup {w.id} |->
                       IF i = w.id THEN e ELSE d.events[i]]
      /\ n.pinned = d.pinned /\ n.blocked = d.blocked /\ n.deleted = d.deleted
  BY <1>1, InsertStep
<1>3. Written(d, w) = r
  BY DEF Written
<1> HIDE DEF n
<1>4. /\ r.events = n.events
      /\ r.pinned  = d.pinned  \cup (IF e.op = "pin_candidate" THEN {e.word} ELSE {})
      /\ r.blocked = d.blocked \cup (IF e.op = "block_candidate" THEN {e.word} ELSE {})
      /\ r.deleted = d.deleted \cup (IF e.op = "delete_word" THEN {e.word} ELSE {})
  BY <1>1, <1>2 DEF InsertRow, Dbs, Op
<1>5. RowsBacked(r)
  BY <1>2, <1>4 DEF RowsBacked
<1>6. /\ ApplyToCache(c, e).blocked
           = c.blocked \cup (IF e.op = "block_candidate" THEN {e.word} ELSE {})
      /\ ApplyToCache(c, e).pinned
           \subseteq c.pinned \cup (IF e.op = "pin_candidate" THEN {e.word} ELSE {})
      /\ ApplyToCache(c, e).deleted
           \subseteq c.deleted \cup (IF e.op = "delete_word" THEN {e.word} ELSE {})
  BY <1>1 DEF ApplyToCache, Caches, Op
<1>7. Backed(ApplyToCache(c, e), r)
  BY <1>4, <1>6 DEF Backed
<1> QED
  BY <1>3, <1>5, <1>7

-----------------------------------------------------------------------------
\* load_from_db gives a cache, whose flags are backed when the rows of the
\* events are there.
LEMMA LoadEffect ==
  ASSUME NEW d \in Dbs, IsFiniteSet(DOMAIN d.events)
  PROVE  Loaded(d) \in Caches /\ (RowsBacked(d) => Backed(Loaded(d), d))
<1> DEFINE log == Stored(d)
           Safe == {c \in Caches : RowsBacked(d) => /\ c.blocked \subseteq d.blocked
                                                    /\ c.pinned \subseteq d.pinned
                                                    /\ c.deleted \subseteq d.deleted}
<1>1. PICK N \in Nat : \E ids \in [1 .. N -> DOMAIN d.events] :
        log = [n \in 1 .. N |-> d.events[ids[n]]]
  BY StoredIsLog
<1>2. PICK ids \in [1 .. N -> DOMAIN d.events] : log = [n \in 1 .. N |-> d.events[ids[n]]]
  BY <1>1
<1> HIDE DEF log
<1>3. EmptyCache \in Safe
  BY EmptyCacheTyped DEF EmptyCache
<1>4. \A c \in Safe, n \in 1 .. N : ApplyToCache(c, log[n]) \in Safe
  <2> SUFFICES ASSUME NEW c \in Safe, NEW n \in 1 .. N
               PROVE  ApplyToCache(c, log[n]) \in Safe
    OBVIOUS
  <2> DEFINE e == log[n]
  <2>1. e = d.events[ids[n]] /\ ids[n] \in DOMAIN d.events /\ e \in Events
    BY <1>2 DEF Dbs, Logs
  <2> HIDE DEF e
  <2>2. ApplyToCache(c, e) \in Caches
    BY <2>1, CacheStep
  <2>3. RowsBacked(d) => /\ e.op = "pin_candidate" => e.word \in d.pinned
                         /\ e.op = "block_candidate" => e.word \in d.blocked
                         /\ e.op = "delete_word" => e.word \in d.deleted
    BY <2>1 DEF RowsBacked
  <2>4. /\ ApplyToCache(c, e).blocked
             \subseteq c.blocked \cup (IF e.op = "block_candidate" THEN {e.word} ELSE {})
        /\ ApplyToCache(c, e).pinned
             \subseteq c.pinned \cup (IF e.op = "pin_candidate" THEN {e.word} ELSE {})
        /\ ApplyToCache(c, e).deleted
             \subseteq c.deleted \cup (IF e.op = "delete_word" THEN {e.word} ELSE {})
    BY <2>1 DEF ApplyToCache, Caches, Events, Op
  <2> QED
    BY <2>2, <2>3, <2>4 DEF e
<1>5. DOMAIN log = 1 .. N
  BY <1>2
<1>6. Replays!Fold(EmptyCache, log) \in Safe
  <2> HIDE DEF Safe
  <2> QED
    BY <1>3, <1>4, <1>5, Replays!FoldStays
<1>7. Replay(log) \in Safe
  BY <1>6, FoldsAgree DEF Replay
<1> DEFINE c == Replay(log)
<1> HIDE DEF c
<1>8. c \in Safe /\ Loaded(d) = [c EXCEPT !.pinned  = @ \cup d.pinned,
                                          !.blocked = @ \cup d.blocked,
                                          !.deleted = @ \cup d.deleted]
  BY <1>7 DEF Loaded, c, log
<1> QED
  BY <1>8 DEF Caches, Dbs, Backed

\* What apply does to the database, the cache, the log and the counter, for a
\* batch of any length and every outcome of its writes.
LEMMA ApplyEffect ==
  ASSUME TypeInv, NEW batch \in Seq(Events), Apply(batch)
  PROVE  /\ db' \in Dbs /\ IsFiniteSet(DOMAIN db'.events)
         /\ cache' \in Caches
         /\ events' = events \o batch /\ events' \in Seq(Events)
         /\ next_id' \in 1 .. MaxEvents + 1 /\ next_id' <= Len(events') + 1
         /\ clean' \in BOOLEAN
         /\ \A i \in DOMAIN db'.events :
              \/ i \in DOMAIN db.events /\ db'.events[i] = db.events[i]
              \/ \E k \in DOMAIN batch : /\ i = Id(batch[k], next_id + k - 1)
                                         /\ db'.events[i] = batch[k]
         /\ clean' => clean
         /\ clean' /\ Backed(cache, db) /\ RowsBacked(db) =>
              Backed(cache', db') /\ RowsBacked(db')
<1> DEFINE N == Len(batch)
<1>1. /\ db \in Dbs /\ IsFiniteSet(DOMAIN db.events) /\ cache \in Caches
      /\ events \in Seq(Events) /\ next_id \in 1 .. MaxEvents + 1
      /\ next_id <= Len(events) + 1 /\ clean \in BOOLEAN
  BY DEF TypeInv
<1>2. N \in Nat /\ DOMAIN batch = 1 .. N /\ \A k \in 1 .. N : batch[k] \in Events
  BY LenProperties
<1>3. PICK outcome \in [1 .. N -> Outcome] :
        /\ db' = FoldLeft(Written, db,
                          [n \in 1 .. N |-> [id |-> Id(batch[n], next_id + n - 1),
                                             event |-> batch[n], outcome |-> outcome[n]]])
        /\ clean' = (clean /\ \A n \in 1 .. N : outcome[n] = "stored")
  BY DEF Apply
<1>4. /\ Len(events) + N <= MaxEvents /\ next_id' = next_id + N
      /\ events' = events \o batch /\ cache' = FoldLeft(ApplyToCache, cache, batch)
  BY DEF Apply
<1> DEFINE writes == [n \in 1 .. N |-> [id |-> Id(batch[n], next_id + n - 1),
                                        event |-> batch[n], outcome |-> outcome[n]]]
<1> HIDE DEF N
<1>5. Len(events) \in Nat /\ events' \in Seq(Events) /\ Len(events') = Len(events) + N
      /\ MaxEvents \in Nat
  BY <1>1, <1>2, <1>4, Bounds, ConcatProperties DEF N
<1>6. next_id' \in 1 .. MaxEvents + 1 /\ next_id' <= Len(events') + 1
  BY <1>1, <1>2, <1>4, <1>5
<1>7. \A k \in 1 .. N : /\ writes[k] \in Write
                        /\ writes[k].id = Id(batch[k], next_id + k - 1)
                        /\ writes[k].event = batch[k]
                        /\ writes[k].outcome = outcome[k]
  <2> SUFFICES ASSUME NEW k \in 1 .. N
               PROVE  [id |-> Id(batch[k], next_id + k - 1), event |-> batch[k],
                       outcome |-> outcome[k]] \in Write
    OBVIOUS
  <2>1. batch[k] \in Events /\ batch[k].device \in {1, 2}
    BY <1>2 DEF Events
  <2>2. next_id + k - 1 \in 1 .. MaxEvents
    BY <1>1, <1>2, <1>4, <1>5
  <2>3. Id(batch[k], next_id + k - 1) \in EventId
    BY <2>1, <2>2 DEF Id, EventId
  <2>4. outcome[k] \in {"stored", "event only", "lost"}
    BY UserStoreAssumption
  <2> QED
    BY <2>1, <2>3, <2>4 DEF Write
<1>8. DOMAIN writes = 1 .. N /\ db' = Writes!Fold(db, writes)
  BY <1>3, FoldsAgree
<1> HIDE DEF writes
<1>9. PICK h : Replays!Trace(batch, cache, N, h) /\ cache' = h[N]
  BY <1>2, <1>4, FoldsAgree, Replays!FoldIsTrace
<1>10. PICK g : Writes!Trace(writes, db, N, g) /\ db' = g[N]
  BY <1>2, <1>8, Writes!FoldIsTrace
<1> DEFINE From(d, k) ==
             \A i \in DOMAIN d.events :
               \/ i \in DOMAIN db.events /\ d.events[i] = db.events[i]
               \/ \E j \in 1 .. k : i = writes[j].id /\ d.events[i] = writes[j].event
           AllStored == \A n \in 1 .. N : outcome[n] = "stored"
           Reached(k) ==
             /\ h[k] \in Caches /\ g[k] \in Dbs /\ IsFiniteSet(DOMAIN g[k].events)
             /\ From(g[k], k)
             /\ AllStored /\ Backed(cache, db) /\ RowsBacked(db) =>
                  Backed(h[k], g[k]) /\ RowsBacked(g[k])
           Good == {k \in Nat : k <= N => Reached(k)}
<1>11. h[0] = cache /\ g[0] = db
  BY <1>2, <1>9, <1>10 DEF Replays!Trace, Writes!Trace
<1>12. 0 \in Good
  BY <1>1, <1>11
<1>13. ASSUME NEW k \in Nat, Reached(k), k + 1 <= N
       PROVE  Reached(k + 1)
  <2>1. k + 1 \in 0 .. N /\ k + 1 # 0 /\ (k + 1) - 1 = k /\ k + 1 \in 1 .. N
    BY <1>2, <1>13
  <2>2. h[k + 1] = ApplyToCache(h[k], batch[k + 1])
    BY <1>9, <2>1 DEF Replays!Trace
  <2>3. g[k + 1] = Written(g[k], writes[k + 1])
    BY <1>10, <2>1 DEF Writes!Trace
  <2> DEFINE w == writes[k + 1]
  <2>4. w \in Write /\ w.event = batch[k + 1] /\ w.outcome = outcome[k + 1]
    BY <1>7, <2>1
  <2>5. batch[k + 1] \in Events
    BY <1>2, <2>1
  <2> HIDE DEF w
  <2>6. h[k + 1] \in Caches
    BY <1>13, <2>2, <2>5, CacheStep
  <2>7. /\ g[k + 1] \in Dbs /\ IsFiniteSet(DOMAIN g[k + 1].events)
        /\ \A i \in DOMAIN g[k + 1].events :
             \/ i \in DOMAIN g[k].events /\ g[k + 1].events[i] = g[k].events[i]
             \/ i = w.id /\ g[k + 1].events[i] = w.event
    BY <1>13, <2>3, <2>4, WriteStep DEF w
  <2>8. From(g[k + 1], k + 1)
    <3> SUFFICES ASSUME NEW i \in DOMAIN g[k + 1].events
                 PROVE  \/ i \in DOMAIN db.events /\ g[k + 1].events[i] = db.events[i]
                        \/ \E j \in 1 .. k + 1 : /\ i = writes[j].id
                                                 /\ g[k + 1].events[i] = writes[j].event
      OBVIOUS
    <3>1. CASE i \in DOMAIN g[k].events /\ g[k + 1].events[i] = g[k].events[i]
      <4>1. \A j \in 1 .. k : j \in 1 .. k + 1
        OBVIOUS
      <4> QED
        BY <1>13, <3>1, <4>1
    <3>2. CASE i = w.id /\ g[k + 1].events[i] = w.event
      BY <3>2 DEF w
    <3> QED
      BY <2>7, <3>1, <3>2
  <2>9. ASSUME AllStored, Backed(cache, db), RowsBacked(db)
        PROVE  Backed(h[k + 1], g[k + 1]) /\ RowsBacked(g[k + 1])
    <3>1. w.outcome = "stored" /\ Backed(h[k], g[k]) /\ RowsBacked(g[k])
      BY <1>13, <2>1, <2>4, <2>9
    <3> QED
      BY <1>13, <2>2, <2>3, <2>4, <3>1, StoredStep DEF w
  <2> QED
    BY <2>6, <2>7, <2>8, <2>9
<1>14. \A k \in Nat : k \in Good => k + 1 \in Good
  <2> HIDE DEF Reached
  <2> QED
    BY <1>2, <1>13
<1>15. N \in Good
  <2> HIDE DEF Good
  <2> QED
    BY <1>2, <1>12, <1>14, Replays!SetInduction
<1>16. Reached(N)
  BY <1>2, <1>15
<1>17. /\ db' \in Dbs /\ IsFiniteSet(DOMAIN db'.events) /\ cache' \in Caches
       /\ AllStored /\ Backed(cache, db) /\ RowsBacked(db) =>
            Backed(cache', db') /\ RowsBacked(db')
  BY <1>9, <1>10, <1>16
<1>18. \A i \in DOMAIN db'.events :
         \/ i \in DOMAIN db.events /\ db'.events[i] = db.events[i]
         \/ \E k \in DOMAIN batch : /\ i = Id(batch[k], next_id + k - 1)
                                    /\ db'.events[i] = batch[k]
  <2>1. From(db', N)
    BY <1>10, <1>16
  <2> QED
    BY <1>2, <1>7, <2>1
<1>19. clean' \in BOOLEAN /\ (clean' => clean /\ AllStored)
  BY <1>1, <1>3
<1> HIDE DEF AllStored
<1> QED
  BY <1>4, <1>5, <1>6, <1>17, <1>18, <1>19

-----------------------------------------------------------------------------
\* Tokens are strictly and totally ordered.
LEMMA TokensAreOrdered ==
  ASSUME NEW S, S \subseteq Token
  PROVE  Writes!StrictTotalOrder(S)
<1>1. \A t \in S : t.session \in Int /\ t.action_id \in Int
  <2>1. \A s \in Session \cup {0} : s \in Int
    <3>1. \A s \in Session : s \in Nat \ {0}
      BY UserStoreAssumption, Zenon
    <3> QED
      BY <3>1
  <2> SUFFICES ASSUME NEW t \in Token
               PROVE  t.session \in Int /\ t.action_id \in Int
    BY Zenon
  <2>2. t.session \in Session \cup {0} /\ t.action_id \in 1 .. MaxActions
    BY DEF Token
  <2>3. t.session \in Int
    BY <2>1, <2>2, Zenon
  <2>4. t.action_id \in Int
    BY <2>2, Bounds
  <2> QED
    BY <2>3, <2>4
<1>2. \A t, u \in S : t # u => t.session # u.session \/ t.action_id # u.action_id
  BY DEF Token
<1>3. ASSUME NEW t \in S
      PROVE  ~Before(t, t)
  BY <1>1 DEF Before
<1>4. ASSUME NEW t \in S, NEW u \in S, t # u
      PROVE  Before(t, u) \/ Before(u, t)
  BY <1>1, <1>2, <1>4 DEF Before
<1>5. ASSUME NEW t \in S, NEW u \in S, NEW v \in S, Before(t, u), Before(u, v)
      PROVE  Before(t, v)
  BY <1>1, <1>5 DEF Before
<1> QED
  BY <1>3, <1>4, <1>5 DEF Writes!StrictTotalOrder

\* Pending phrases are phrases of tokens.
LEMMA PhraseTyped ==
  ASSUME TypeInv
  PROVE  /\ DOMAIN pending \subseteq Token
         /\ \A t \in DOMAIN pending : pending[t] \in Phrase /\ Origin(t) \in OriginId
<1>1. PICK tokens \in SUBSET Token : pending \in [tokens -> Phrase]
  BY DEF TypeInv
<1>2. restarts \in Nat
  BY DEF TypeInv
<1> QED
  BY <1>1, <1>2 DEF Origin, OriginId

\* What the log or the database holds are events.
LEMMA LoggedTyped ==
  ASSUME TypeInv
  PROVE  LoggedEvents \subseteq Events
<1>1. \A n \in DOMAIN events : events[n] \in Events
  BY DEF TypeInv
<1>2. \A i \in DOMAIN db.events : db.events[i] \in Events
  BY DEF TypeInv, Dbs, Logs
<1> QED
  BY <1>1, <1>2 DEF LoggedEvents

\* A learned word is an event of the commit it comes from.
LEMMA LearnWordTyped ==
  ASSUME NEW word \in Word, NEW device \in {1, 2}, NEW origins \in SUBSET OriginId
  PROVE  LearnWord(word, device, origins) \in Events
         /\ LearnWord(word, device, origins).origins = origins
BY DEF LearnWord, Event, Events, Op

\* The batch of a confirmation has one event for each phrase, of its own commit
\* and no other.
LEMMA LearnedIsLog ==
  ASSUME TypeInv, NEW tokens \in SUBSET DOMAIN pending
  PROVE  /\ Learned(tokens) \in Seq(Events)
         /\ \A k \in DOMAIN Learned(tokens) :
              \E t \in tokens : Learned(tokens)[k].origins = {Origin(t)}
         /\ \A k, l \in DOMAIN Learned(tokens) :
              Learned(tokens)[k].origins \cap Learned(tokens)[l].origins # {} => k = l
<1> DEFINE N == Cardinality(tokens)
           order == InOrder(tokens, Before)
           learned == Learned(tokens)
<1>1. IsFiniteSet(tokens) /\ tokens \subseteq Token
  BY FS_Subset, PhraseTyped DEF TypeInv
<1>2. Writes!StrictTotalOrder(tokens)
  BY <1>1, TokensAreOrdered
<1>3. order = Writes!Enumeration(tokens)
  BY Zenon DEF InOrder, Writes!InOrder, Writes!Enumeration,
               Cardinality, Writes!Cardinality
<1>4. /\ N \in Nat /\ order \in [1 .. N -> tokens]
      /\ \A m, n \in 1 .. N : m < n => Before(order[m], order[n])
  BY <1>1, <1>2, <1>3, SameCardinality, Writes!InOrderEnumerates
<1>5. learned = [n \in 1 .. Len(order) |->
                   LearnWord(pending[order[n]].word, Device.own, {Origin(order[n])})]
  BY DEF Learned
<1> HIDE DEF N, order, learned
<1>6. order \in Seq(tokens) /\ Len(order) = N
  BY <1>4
<1>7. \A n \in 1 .. N : /\ order[n] \in tokens
                        /\ learned[n] \in Events /\ learned[n].origins = {Origin(order[n])}
  <2> SUFFICES ASSUME NEW n \in 1 .. N
               PROVE  /\ order[n] \in tokens
                      /\ learned[n] \in Events /\ learned[n].origins = {Origin(order[n])}
    OBVIOUS
  <2>1. order[n] \in tokens
    BY <1>4
  <2>2. pending[order[n]].word \in Word /\ {Origin(order[n])} \in SUBSET OriginId
    BY <2>1, PhraseTyped DEF Phrase
  <2>3. Device.own \in {1, 2}
    BY DEF Device
  <2>4. learned[n] = LearnWord(pending[order[n]].word, Device.own, {Origin(order[n])})
    BY <1>5, <1>6
  <2> QED
    BY <2>1, <2>2, <2>3, <2>4, LearnWordTyped
<1>8. DOMAIN learned = 1 .. N
  BY <1>5, <1>6
<1>9. learned \in Seq(Events)
  <2>1. learned \in [1 .. N -> Events]
    BY <1>5, <1>6, <1>7, <1>8
  <2> QED
    BY <1>4, <2>1
<1>10. ASSUME NEW k \in 1 .. N, NEW l \in 1 .. N,
              learned[k].origins \cap learned[l].origins # {}
       PROVE  k = l
  <2>1. Origin(order[k]) = Origin(order[l])
    BY <1>7, <1>10
  <2>2. order[k] = order[l] /\ order[k] \in tokens
    BY <1>7, <2>1 DEF Origin
  <2>3. ~Before(order[k], order[l]) /\ ~Before(order[l], order[k])
    BY <1>2, <2>2 DEF Writes!StrictTotalOrder
  <2> QED
    BY <1>4, <2>3
<1> QED
  BY <1>7, <1>8, <1>9, <1>10 DEF learned

\* An operation applied directly is an event of no commit.
LEMMA OperationTyped ==
  ASSUME NEW e \in Operations
  PROVE  e \in Events /\ e.origins = {}
<1>1. Device.own \in {1, 2} /\ Delta \subseteq Int
  BY UserStoreAssumption DEF Device
<1> QED
  BY <1>1 DEF Operations, LearnWord, Event, Events, Op

-----------------------------------------------------------------------------
\* The part of the invariant that Apply can disturb.
Kept == /\ HistoryInv /\ RolledBackNeverLearned
        /\ LearnedOncePerCommit /\ OneRowPerCommit
        /\ FlagsDurable /\ FlagsInv

\* A commit that has been stays one.
LEMMA UsedStays ==
  ASSUME NEW o \in OriginId, Used(o), TypeInv,
         given \subseteq given', legacy'.next \in Int, legacy.next <= legacy'.next,
         restarts' = restarts
  PROVE  Used(o)'
BY DEF Used, OriginId, Token, TypeInv

\* A batch of new commits keeps the histories apart, the commits once, and the
\* flags backed.
LEMMA ApplyKeeps ==
  ASSUME Inv, NEW batch \in Seq(Events), Apply(batch),
         given \subseteq given', rolled_back' = rolled_back, restarts' = restarts,
         legacy'.next \in Int, legacy.next <= legacy'.next,
         \A k \in DOMAIN batch : \A o \in batch[k].origins :
           /\ Used(o)' /\ o \notin rolled_back
           /\ \A e \in LoggedEvents : o \notin e.origins
           /\ \A t \in DOMAIN pending' : Origin(t) # o,
         \A k, l \in DOMAIN batch : batch[k].origins \cap batch[l].origins # {} => k = l,
         \A t \in DOMAIN pending' :
           /\ Used(Origin(t))' /\ Origin(t) \notin rolled_back
           /\ \A e \in LoggedEvents : Origin(t) \notin e.origins
  PROVE  Kept'
<1>0. TypeInv
  BY DEF Inv
<1>1. /\ db' \in Dbs /\ events' = events \o batch
      /\ \A i \in DOMAIN db'.events :
           \/ i \in DOMAIN db.events /\ db'.events[i] = db.events[i]
           \/ \E k \in DOMAIN batch : /\ i = Id(batch[k], next_id + k - 1)
                                      /\ db'.events[i] = batch[k]
      /\ clean' => clean
      /\ clean' /\ Backed(cache, db) /\ RowsBacked(db) =>
           Backed(cache', db') /\ RowsBacked(db')
  BY <1>0, ApplyEffect
<1>2. /\ events \in Seq(Events) /\ Len(events) \in Nat /\ Len(batch) \in Nat
      /\ DOMAIN events = 1 .. Len(events) /\ DOMAIN batch = 1 .. Len(batch)
      /\ DOMAIN events' = 1 .. Len(events) + Len(batch)
      /\ \A n \in 1 .. Len(events) : events'[n] = events[n]
      /\ \A k \in 1 .. Len(batch) : events'[Len(events) + k] = batch[k]
  BY <1>0, <1>1, ConcatProperties, LenProperties DEF TypeInv
<1>3. \A n \in DOMAIN events' :
        \/ n \in DOMAIN events /\ events'[n] = events[n]
        \/ \E k \in DOMAIN batch : n = Len(events) + k /\ events'[n] = batch[k]
  <2> SUFFICES ASSUME NEW n \in 1 .. Len(events) + Len(batch), ~(n <= Len(events))
               PROVE  \E k \in DOMAIN batch : n = Len(events) + k /\ events'[n] = batch[k]
    BY <1>2
  <2>1. n - Len(events) \in 1 .. Len(batch) /\ n = Len(events) + (n - Len(events))
    BY <1>2
  <2> QED
    BY <1>2, <2>1
<1>4. \A e \in LoggedEvents' : e \in LoggedEvents \/ \E k \in DOMAIN batch : e = batch[k]
  BY <1>1, <1>3 DEF LoggedEvents
<1>5. \A e \in LoggedEvents : e \in Events
  BY <1>0, LoggedTyped
<1>6. \A t : Origin(t)' = Origin(t)
  BY DEF Origin
<1>7. HistoryInv'
  <2>1. ASSUME NEW e \in LoggedEvents', NEW o \in e.origins
        PROVE  Used(o)'
    <3>1. CASE e \in LoggedEvents
      <4>1. Used(o) /\ o \in OriginId
        BY <1>5, <2>1, <3>1 DEF Inv, HistoryInv, Events
      <4> QED
        BY <1>0, <4>1, UsedStays
    <3>2. CASE \E k \in DOMAIN batch : e = batch[k]
      BY <2>1, <3>2
    <3> QED
      BY <1>4, <2>1, <3>1, <3>2
  <2>2. ASSUME NEW o \in rolled_back'
        PROVE  Used(o)'
    <3>1. Used(o) /\ o \in OriginId
      BY <1>0, <2>2 DEF Inv, HistoryInv, TypeInv
    <3> QED
      BY <1>0, <3>1, UsedStays
  <2> QED
    BY <1>6, <2>1, <2>2 DEF HistoryInv
<1>8. RolledBackNeverLearned'
  <2> SUFFICES ASSUME NEW e \in LoggedEvents', NEW o \in e.origins
               PROVE  o \notin rolled_back /\ \A t \in DOMAIN pending' : o # Origin(t)
    BY <1>6 DEF RolledBackNeverLearned
  <2>1. CASE e \in LoggedEvents
    BY <2>1 DEF Inv, RolledBackNeverLearned
  <2>2. CASE \E k \in DOMAIN batch : e = batch[k]
    BY <2>2
  <2> QED
    BY <1>4, <2>1, <2>2
<1>9. \A k \in DOMAIN batch : \A e \in LoggedEvents : e.origins \cap batch[k].origins = {}
  OBVIOUS
<1>10. LearnedOncePerCommit'
  <2> SUFFICES ASSUME NEW i \in DOMAIN events', NEW j \in DOMAIN events',
                      events'[i].origins \cap events'[j].origins # {}
               PROVE  i = j
    BY DEF LearnedOncePerCommit
  <2>1. \A n \in DOMAIN events : events[n] \in LoggedEvents
    BY DEF LoggedEvents
  <2>2. CASE i \in DOMAIN events /\ events'[i] = events[i]
    <3>1. CASE j \in DOMAIN events /\ events'[j] = events[j]
      BY <2>2, <3>1 DEF Inv, LearnedOncePerCommit
    <3>2. CASE \E k \in DOMAIN batch : j = Len(events) + k /\ events'[j] = batch[k]
      BY <1>9, <2>1, <2>2, <3>2
    <3> QED
      BY <1>3, <3>1, <3>2
  <2>3. CASE \E k \in DOMAIN batch : i = Len(events) + k /\ events'[i] = batch[k]
    <3>1. CASE j \in DOMAIN events /\ events'[j] = events[j]
      BY <1>9, <2>1, <2>3, <3>1
    <3>2. CASE \E k \in DOMAIN batch : j = Len(events) + k /\ events'[j] = batch[k]
      BY <2>3, <3>2
    <3> QED
      BY <1>3, <3>1, <3>2
  <2> QED
    BY <1>3, <2>2, <2>3
<1>11. OneRowPerCommit'
  <2> SUFFICES ASSUME NEW i \in DOMAIN db'.events, NEW j \in DOMAIN db'.events,
                      db'.events[i].origins \cap db'.events[j].origins # {}
               PROVE  i = j
    BY DEF OneRowPerCommit
  <2>1. \A n \in DOMAIN db.events : db.events[n] \in LoggedEvents
    BY DEF LoggedEvents
  <2>2. CASE i \in DOMAIN db.events /\ db'.events[i] = db.events[i]
    <3>1. CASE j \in DOMAIN db.events /\ db'.events[j] = db.events[j]
      BY <2>2, <3>1 DEF Inv, OneRowPerCommit
    <3>2. CASE \E k \in DOMAIN batch : /\ j = Id(batch[k], next_id + k - 1)
                                       /\ db'.events[j] = batch[k]
      BY <1>9, <2>1, <2>2, <3>2
    <3> QED
      BY <1>1, <3>1, <3>2
  <2>3. CASE \E k \in DOMAIN batch : /\ i = Id(batch[k], next_id + k - 1)
                                     /\ db'.events[i] = batch[k]
    <3>1. CASE j \in DOMAIN db.events /\ db'.events[j] = db.events[j]
      BY <1>9, <2>1, <2>3, <3>1
    <3>2. CASE \E k \in DOMAIN batch : /\ j = Id(batch[k], next_id + k - 1)
                                       /\ db'.events[j] = batch[k]
      BY <2>3, <3>2
    <3> QED
      BY <1>1, <3>1, <3>2
  <2> QED
    BY <1>1, <2>2, <2>3
<1>12. FlagsDurable' /\ FlagsInv'
  <2>1. clean' => Backed(cache, db) /\ RowsBacked(db)
    BY <1>1 DEF Inv, FlagsDurable, FlagsInv, Backed
  <2>2. clean' => Backed(cache', db') /\ RowsBacked(db')
    BY <1>1, <2>1
  <2>3. RowsBacked(db)' <=> RowsBacked(db')
    BY DEF RowsBacked
  <2> QED
    BY <2>2, <2>3 DEF FlagsDurable, FlagsInv, Backed
<1> QED
  BY <1>7, <1>8, <1>10, <1>11, <1>12 DEF Kept

-----------------------------------------------------------------------------
\* The invariant holds in a new store.
LEMMA InitInv == Init => Inv
<1> SUFFICES ASSUME Init PROVE Inv
  OBVIOUS
<1>1. /\ DOMAIN EmptyDb.events = {} /\ DOMAIN pending = {} /\ events = <<>>
      /\ DOMAIN events = {}
  BY DEF Init, EmptyDb
<1>2. LoggedEvents = {}
  BY <1>1 DEF LoggedEvents, Init
<1>3. TypeInv
  <2>1. EmptyDb \in Dbs
    <3>1. [id \in {} |-> NoToken] \in [{} -> Events]
      OBVIOUS
    <3>2. [id \in {} |-> NoToken] \in Logs
      BY <3>1 DEF Logs
    <3> QED
      BY <3>2 DEF EmptyDb, Dbs
  <2>2. IsFiniteSet({})
    BY FS_EmptySet
  <2>3. pending \in UNION {[tokens -> Phrase] : tokens \in SUBSET Token}
    <3>1. [t \in {} |-> NoToken] \in [{} -> Phrase] /\ {} \in SUBSET Token
      OBVIOUS
    <3> QED
      BY <3>1 DEF Init
  <2>4. events \in Seq(Events) /\ Len(events) = 0
    BY DEF Init
  <2> QED
    BY <1>1, <2>1, <2>2, <2>3, <2>4, EmptyCacheTyped, Bounds DEF TypeInv, Init
<1>4. HistoryInv /\ RolledBackNeverLearned
  BY <1>1, <1>2 DEF HistoryInv, RolledBackNeverLearned, Init
<1>5. LearnedOncePerCommit /\ OneRowPerCommit
  BY <1>1 DEF LearnedOncePerCommit, OneRowPerCommit, Init
<1>6. FlagsDurable /\ FlagsInv
  BY <1>1 DEF FlagsDurable, FlagsInv, RowsBacked, Init, EmptyDb, EmptyCache
<1> QED
  BY <1>3, <1>4, <1>5, <1>6 DEF Inv

\* A pin, block, delete or frequency event keeps the invariant.
LEMMA ApplyOperationInv == Inv /\ ApplyOperation => Inv'
<1> SUFFICES ASSUME Inv, ApplyOperation PROVE Inv'
  OBVIOUS
<1>1. PICK e \in Operations : Apply(<<e>>)
  BY DEF ApplyOperation
<1> DEFINE batch == <<e>>
<1>2. /\ batch \in Seq(Events) /\ DOMAIN batch = {1} /\ batch[1].origins = {}
  BY OperationTyped
<1>3. UNCHANGED <<pending, legacy, now, given, rolled_back, restarts>>
  BY DEF ApplyOperation
<1>4. TypeInv /\ HistoryInv /\ RolledBackNeverLearned
  BY DEF Inv
<1>5. TypeInv'
  <2>1. Apply(batch)
    BY <1>1
  <2> HIDE DEF batch
  <2> QED
    BY <1>2, <1>3, <1>4, <2>1, ApplyEffect DEF TypeInv
<1>6. Kept'
  <2>1. \A t \in DOMAIN pending' :
           /\ Used(Origin(t))' /\ Origin(t) \notin rolled_back
           /\ \A o \in LoggedEvents : Origin(t) \notin o.origins
    BY <1>3, <1>4 DEF HistoryInv, RolledBackNeverLearned, Used, Origin
  <2>2. legacy'.next \in Int /\ legacy.next <= legacy'.next
    BY <1>3, <1>4 DEF TypeInv
  <2>3. Apply(batch)
    BY <1>1
  <2>4. \A k, l \in DOMAIN batch : k = l
    BY <1>2
  <2>5. \A k \in DOMAIN batch : batch[k].origins = {}
    BY <1>2
  <2> HIDE DEF batch
  <2> QED
    BY <1>2, <1>3, <2>1, <2>2, <2>3, <2>4, <2>5, ApplyKeeps
<1> QED
  BY <1>5, <1>6 DEF Inv, Kept

\* commit_applied keeps the invariant: its token has not been.
LEMMA CommitAppliedInv ==
  ASSUME Inv, NEW t \in Token, NEW word \in Word, NEW lexical \in BOOLEAN,
         NEW exact \in BOOLEAN, CommitApplied(t, word, lexical, exact)
  PROVE  Inv'
<1>1. /\ t.session # 0 /\ t \notin given /\ given' = given \cup {t}
      /\ UNCHANGED <<legacy, now, rolled_back, restarts>>
  BY DEF CommitApplied
<1>2. TypeInv /\ HistoryInv /\ RolledBackNeverLearned
  BY DEF Inv
<1>3. /\ restarts \in Nat /\ now \in Nat /\ legacy.next \in Int /\ Delay \in Nat
      /\ Origin(t) \in OriginId /\ Origin(t).token = t /\ Origin(t).process = restarts
  BY <1>2, Bounds DEF TypeInv, Origin, OriginId
<1>4. ~Used(Origin(t)) /\ Used(Origin(t))'
  BY <1>1, <1>3 DEF Used, Origin
<1>5. /\ \A e \in LoggedEvents : Origin(t) \notin e.origins
      /\ Origin(t) \notin rolled_back
      /\ \A u \in DOMAIN pending : Origin(u) # Origin(t)
  BY <1>2, <1>4 DEF HistoryInv
<1>6. \A u \in DOMAIN pending : /\ Used(Origin(u))' /\ Origin(u) \notin rolled_back
                                /\ \A e \in LoggedEvents : Origin(u) \notin e.origins
  <2> SUFFICES ASSUME NEW u \in DOMAIN pending
               PROVE  Used(Origin(u))' /\ Origin(u) \notin rolled_back
                      /\ \A e \in LoggedEvents : Origin(u) \notin e.origins
    OBVIOUS
  <2>1. Used(Origin(u)) /\ Origin(u) \in OriginId /\ Origin(u) \notin rolled_back
    BY <1>2, PhraseTyped DEF HistoryInv
  <2>2. \A e \in LoggedEvents : Origin(u) \notin e.origins
    BY <1>2 DEF RolledBackNeverLearned
  <2>3. (Used(Origin(u)))'
    BY <1>1, <2>1 DEF Used, Origin
  <2> QED
    BY <2>1, <2>2, <2>3
<1>7. CASE exact /\ UNCHANGED pending /\ Apply(<<LearnWord(word, Device.engine, {Origin(t)})>>)
  <2> DEFINE e == LearnWord(word, Device.engine, {Origin(t)})
             batch == <<e>>
  <2>1. e \in Events /\ e.origins = {Origin(t)}
    <3>1. Device.engine \in {1, 2} /\ {Origin(t)} \in SUBSET OriginId
      BY <1>3 DEF Device
    <3> QED
      BY <3>1, LearnWordTyped
  <2>2. Apply(batch)
    BY <1>7
  <2> HIDE DEF e
  <2>3. batch \in Seq(Events) /\ DOMAIN batch = {1} /\ batch[1].origins = {Origin(t)}
    BY <2>1
  <2> HIDE DEF batch
  <2>4. TypeInv'
    BY <1>1, <1>2, <1>7, <2>2, <2>3, ApplyEffect DEF TypeInv
  <2>5. Kept'
    <3>1. \A k \in DOMAIN batch : \A o \in batch[k].origins : o = Origin(t)
      BY <2>3
    <3>2. \A k, l \in DOMAIN batch : k = l
      BY <2>3
    <3>3. legacy'.next \in Int /\ legacy.next <= legacy'.next /\ given \subseteq given'
      BY <1>1, <1>3
    <3>4. \A u \in DOMAIN pending' :
           /\ Used(Origin(u))' /\ Origin(u) \notin rolled_back
           /\ \A o \in LoggedEvents : Origin(u) \notin o.origins
      BY <1>6, <1>7
    <3>5. \A k \in DOMAIN batch : \A o \in batch[k].origins :
            /\ Used(o)' /\ o \notin rolled_back
            /\ \A l \in LoggedEvents : o \notin l.origins
            /\ \A u \in DOMAIN pending' : Origin(u) # o
      <4> SUFFICES ASSUME NEW k \in DOMAIN batch, NEW o \in batch[k].origins
                   PROVE  /\ Used(o)' /\ o \notin rolled_back
                          /\ \A l \in LoggedEvents : o \notin l.origins
                          /\ \A u \in DOMAIN pending' : Origin(u) # o
        OBVIOUS
      <4>1. o = Origin(t)
        BY <3>1
      <4>2. Used(o)'
        BY <1>1, <1>4, <4>1 DEF Used, Origin
      <4> QED
        BY <1>5, <1>7, <4>1, <4>2
    <3> QED
      BY <1>1, <2>2, <2>3, <3>2, <3>3, <3>4, <3>5, ApplyKeeps
  <2> QED
    BY <2>4, <2>5 DEF Inv, Kept
<1>8. CASE /\ UNCHANGED <<db, cache, events, next_id, clean>>
           /\ \/ UNCHANGED pending
              \/ Stage(DOMAIN pending, t, [word |-> word, deadline |-> now + Delay])
  <2> DEFINE phrase == [word |-> word, deadline |-> now + Delay]
  <2>1. /\ DOMAIN pending' \subseteq DOMAIN pending \cup {t}
        /\ pending' \in UNION {[tokens -> Phrase] : tokens \in SUBSET Token}
        /\ IsFiniteSet(DOMAIN pending')
    <3>1. phrase \in Phrase
      BY <1>3 DEF Phrase
    <3>2. CASE UNCHANGED pending
      BY <1>2, <3>2 DEF TypeInv
    <3>3. CASE Stage(DOMAIN pending, t, phrase)
      <4>1. pending' = [u \in DOMAIN pending \cup {t} |-> IF u = t THEN phrase ELSE pending[u]]
        BY <3>3 DEF Stage
      <4> HIDE DEF phrase
      <4>2. /\ DOMAIN pending \cup {t} \in SUBSET Token
            /\ IsFiniteSet(DOMAIN pending \cup {t})
        BY <1>2, PhraseTyped, FS_AddElement DEF TypeInv
      <4>3. pending' \in [DOMAIN pending \cup {t} -> Phrase]
        BY <1>2, <3>1, <4>1, PhraseTyped
      <4> QED
        BY <4>1, <4>2, <4>3
    <3> QED
      BY <1>8, <3>2, <3>3
  <2>2. TypeInv'
    BY <1>1, <1>2, <1>8, <2>1 DEF TypeInv
  <2>3. LoggedEvents' = LoggedEvents /\ \A u : Origin(u)' = Origin(u)
    BY <1>1, <1>8 DEF LoggedEvents, Origin
  <2>4. \A u \in DOMAIN pending' : /\ Used(Origin(u))' /\ Origin(u) \notin rolled_back
                                   /\ \A e \in LoggedEvents : Origin(u) \notin e.origins
    BY <1>4, <1>5, <1>6, <2>1
  <2>5. \A o : Used(o) => Used(o)'
    BY <1>1 DEF Used
  <2>6. HistoryInv'
    BY <1>1, <1>2, <2>3, <2>4, <2>5 DEF HistoryInv
  <2>7. RolledBackNeverLearned'
    BY <1>1, <1>2, <2>3, <2>4 DEF RolledBackNeverLearned
  <2>8. LearnedOncePerCommit' /\ OneRowPerCommit' /\ FlagsDurable' /\ FlagsInv'
    BY <1>8 DEF Inv, LearnedOncePerCommit, OneRowPerCommit, FlagsDurable, FlagsInv, RowsBacked
  <2> QED
    BY <2>2, <2>6, <2>7, <2>8 DEF Inv
<1> QED
  BY <1>7, <1>8 DEF CommitApplied

\* rollback_learning and undo_last, which cancel one phrase, keep the
\* invariant.
LEMMA CancelInv ==
  ASSUME Inv, NEW t, Cancel({t}),
         rolled_back' = rolled_back \cup {Origin(u) : u \in {t} \cap DOMAIN pending},
         UNCHANGED <<db, cache, events, next_id, now, given, clean, restarts>>,
         legacy' \in [next : 1 .. MaxActions + 1, last : Token \cup {NoToken}],
         legacy'.next = legacy.next
  PROVE  Inv'
<1>1. TypeInv /\ HistoryInv /\ RolledBackNeverLearned
  BY DEF Inv
<1>2. pending' = [u \in DOMAIN pending \ {t} |-> pending[u]]
  BY DEF Cancel, Drop
<1>3. LoggedEvents' = LoggedEvents /\ \A u : Origin(u)' = Origin(u)
  BY DEF LoggedEvents, Origin
<1>4. \A o \in rolled_back' : o \in rolled_back \/ (t \in DOMAIN pending /\ o = Origin(t))
  OBVIOUS
<1>5. TypeInv'
  <2>1. /\ pending' \in UNION {[tokens -> Phrase] : tokens \in SUBSET Token}
        /\ IsFiniteSet(DOMAIN pending')
    <3>1. DOMAIN pending \ {t} \in SUBSET Token /\ IsFiniteSet(DOMAIN pending \ {t})
      BY <1>1, PhraseTyped, FS_RemoveElement DEF TypeInv
    <3>2. pending' \in [DOMAIN pending \ {t} -> Phrase]
      BY <1>1, <1>2, PhraseTyped
    <3> QED
      BY <1>2, <3>1, <3>2
  <2>2. rolled_back' \subseteq OriginId
    BY <1>1, <1>4, PhraseTyped DEF TypeInv
  <2> QED
    BY <1>1, <2>1, <2>2 DEF TypeInv
<1>6. \A o : Used(o) => Used(o)'
  BY DEF Used
<1>7. HistoryInv'
  <2>1. \A u \in DOMAIN pending' : u \in DOMAIN pending /\ Origin(u) # Origin(t)
    BY <1>2 DEF Origin
  <2> QED
    BY <1>1, <1>3, <1>4, <1>6, <2>1 DEF HistoryInv
<1>8. RolledBackNeverLearned'
  BY <1>1, <1>2, <1>3, <1>4 DEF RolledBackNeverLearned
<1>9. LearnedOncePerCommit' /\ OneRowPerCommit' /\ FlagsDurable' /\ FlagsInv'
  BY DEF Inv, LearnedOncePerCommit, OneRowPerCommit, FlagsDurable, FlagsInv, RowsBacked
<1> QED
  BY <1>5, <1>7, <1>8, <1>9 DEF Inv

\* confirm_expired, confirm_all_pending and commit_pending: the phrases of tokens
\* are learned, and of the others at most those of a new commit stay pending.
LEMMA LearnedKeeps ==
  ASSUME Inv, NEW tokens \in SUBSET DOMAIN pending, Apply(Learned(tokens)),
         UNCHANGED <<now, given, rolled_back, restarts>>,
         pending' \in UNION {[ts -> Phrase] : ts \in SUBSET Token},
         IsFiniteSet(DOMAIN pending'),
         legacy' \in [next : 1 .. MaxActions + 1, last : Token \cup {NoToken}],
         legacy.next <= legacy'.next,
         \A t \in DOMAIN pending' :
           \/ t \in DOMAIN pending \ tokens
           \/ Used(Origin(t))' /\ ~Used(Origin(t))
  PROVE  Inv'
<1> DEFINE batch == Learned(tokens)
<1>1. TypeInv /\ HistoryInv /\ RolledBackNeverLearned
  BY DEF Inv
<1>2. /\ batch \in Seq(Events)
      /\ \A k \in DOMAIN batch : \E t \in tokens : batch[k].origins = {Origin(t)}
      /\ \A k, l \in DOMAIN batch : batch[k].origins \cap batch[l].origins # {} => k = l
  BY <1>1, LearnedIsLog
<1>3. Apply(batch)
  OBVIOUS
<1> HIDE DEF batch
<1>4. TypeInv'
  BY <1>1, <1>2, <1>3, ApplyEffect DEF TypeInv
<1>5. legacy'.next \in Int
  BY Bounds
<1>6. \A t \in DOMAIN pending :
        /\ Used(Origin(t)) /\ (Used(Origin(t)))' /\ Origin(t) \notin rolled_back
        /\ \A e \in LoggedEvents : Origin(t) \notin e.origins
  <2> SUFFICES ASSUME NEW t \in DOMAIN pending
               PROVE  /\ Used(Origin(t)) /\ (Used(Origin(t)))' /\ Origin(t) \notin rolled_back
                      /\ \A e \in LoggedEvents : Origin(t) \notin e.origins
    OBVIOUS
  <2>1. Used(Origin(t)) /\ Origin(t) \notin rolled_back /\ Origin(t) \in OriginId
    BY <1>1, PhraseTyped DEF HistoryInv
  <2>2. \A e \in LoggedEvents : Origin(t) \notin e.origins
    BY <1>1 DEF RolledBackNeverLearned
  <2>3. (Used(Origin(t)))'
    <3>1. PICK o \in OriginId : o = Origin(t)
      BY <2>1
    <3>2. Used(o)
      BY <2>1, <3>1
    <3>3. Used(o)'
      BY <1>1, <1>5, <3>2, UsedStays
    <3> QED
      BY <3>1, <3>3 DEF Used, Origin
  <2> QED
    BY <2>1, <2>2, <2>3
<1>7. \A o : Used(o) /\ o \in OriginId => Used(o)'
  BY <1>1, <1>5, UsedStays
<1>8. \A k \in DOMAIN batch : \A o \in batch[k].origins :
        /\ Used(o)' /\ o \notin rolled_back
        /\ \A e \in LoggedEvents : o \notin e.origins
        /\ \A u \in DOMAIN pending' : Origin(u) # o
  <2> SUFFICES ASSUME NEW k \in DOMAIN batch, NEW o \in batch[k].origins
               PROVE  /\ Used(o)' /\ o \notin rolled_back
                      /\ \A e \in LoggedEvents : o \notin e.origins
                      /\ \A u \in DOMAIN pending' : Origin(u) # o
    OBVIOUS
  <2>1. PICK t \in tokens : o = Origin(t)
    BY <1>2
  <2>2. Used(o) /\ o \in OriginId
    BY <1>1, <1>6, <2>1, PhraseTyped
  <2>3. \A u \in DOMAIN pending' : Origin(u) # o
    <3> SUFFICES ASSUME NEW u \in DOMAIN pending', Origin(u) = o
                 PROVE  FALSE
      OBVIOUS
    <3>1. u = t
      BY <2>1 DEF Origin
    <3> QED
      BY <2>1, <2>2, <3>1
  <2> QED
    BY <1>6, <1>7, <2>1, <2>2, <2>3
<1>9. \A t \in DOMAIN pending' :
        /\ Used(Origin(t))' /\ Origin(t) \notin rolled_back
        /\ \A e \in LoggedEvents : Origin(t) \notin e.origins
  <2> SUFFICES ASSUME NEW t \in DOMAIN pending'
               PROVE  /\ Used(Origin(t))' /\ Origin(t) \notin rolled_back
                      /\ \A e \in LoggedEvents : Origin(t) \notin e.origins
    OBVIOUS
  <2>1. CASE t \in DOMAIN pending
    BY <1>6, <2>1
  <2>2. CASE Used(Origin(t))' /\ ~Used(Origin(t))
    BY <1>1, <2>2 DEF HistoryInv
  <2> QED
    BY <2>1, <2>2
<1>10. Kept'
  BY <1>2, <1>3, <1>5, <1>8, <1>9, ApplyKeeps
<1> QED
  BY <1>4, <1>10 DEF Inv, Kept

\* What stays pending when phrases are dropped.
LEMMA DropTyped ==
  ASSUME TypeInv, NEW tokens, Drop(tokens)
  PROVE  /\ pending' \in UNION {[ts -> Phrase] : ts \in SUBSET Token}
         /\ IsFiniteSet(DOMAIN pending')
         /\ DOMAIN pending' = DOMAIN pending \ tokens
<1>1. pending' = [u \in DOMAIN pending \ tokens |-> pending[u]]
  BY DEF Drop
<1>2. DOMAIN pending \ tokens \in SUBSET Token /\ IsFiniteSet(DOMAIN pending \ tokens)
  BY PhraseTyped, FS_Subset DEF TypeInv
<1>3. pending' \in [DOMAIN pending \ tokens -> Phrase]
  BY <1>1, PhraseTyped
<1> QED
  BY <1>1, <1>2, <1>3

\* confirm_expired and confirm_all_pending keep the invariant.
LEMMA ConfirmInv ==
  ASSUME Inv, ConfirmExpired \/ ConfirmAllPending
  PROVE  Inv'
<1>1. TypeInv
  BY DEF Inv
<1>2. PICK tokens \in SUBSET DOMAIN pending :
        /\ Apply(Learned(tokens)) /\ Drop(tokens)
        /\ UNCHANGED <<now, given, rolled_back, restarts>>
        /\ legacy' = legacy \/ legacy' = [legacy EXCEPT !.last = NoToken]
  <2>1. CASE ConfirmExpired
    <3>1. Expired \in SUBSET DOMAIN pending
      BY DEF Expired
    <3> QED
      BY <2>1, <3>1 DEF ConfirmExpired, Confirm
  <2>2. CASE ConfirmAllPending
    BY <2>2 DEF ConfirmAllPending, Confirm
  <2> QED
    BY <2>1, <2>2
<1>3. /\ legacy' \in [next : 1 .. MaxActions + 1, last : Token \cup {NoToken}]
      /\ legacy'.next = legacy.next /\ legacy.next \in Int
  BY <1>1, <1>2, Bounds DEF TypeInv
<1>4. legacy.next <= legacy'.next
  BY <1>3
<1> QED
  BY <1>1, <1>2, <1>3, <1>4, DropTyped, LearnedKeeps

\* commit_pending keeps the invariant.
LEMMA CommitPendingInv ==
  ASSUME Inv, NEW word \in Word, CommitPending(word)
  PROVE  Inv'
<1> DEFINE phrase == [word |-> word, deadline |-> MaxTime + Delay + 1]
<1>0. PICK t : t = [session |-> 0, action_id |-> legacy.next]
  OBVIOUS
<1>1. TypeInv
  BY DEF Inv
<1>2. /\ legacy.next <= MaxActions /\ Apply(Learned(DOMAIN pending))
      /\ pending' = [u \in {} \cup {t} |-> IF u = t THEN phrase ELSE pending[u]]
      /\ legacy' = [next |-> legacy.next + 1, last |-> t]
      /\ UNCHANGED <<now, given, rolled_back, restarts>>
  BY <1>0 DEF CommitPending, Stage
<1>3. /\ legacy.next \in 1 .. MaxActions /\ legacy.next + 1 \in 1 .. MaxActions + 1
      /\ legacy'.next = legacy.next + 1 /\ legacy.next <= legacy'.next
  BY <1>1, <1>2, Bounds DEF TypeInv
<1>4. t \in Token
  BY <1>0, <1>3 DEF Token
<1>5. phrase \in Phrase
  BY Bounds DEF Phrase
<1>6. /\ pending' \in UNION {[ts -> Phrase] : ts \in SUBSET Token}
      /\ IsFiniteSet(DOMAIN pending') /\ DOMAIN pending' = {t}
  <2> HIDE DEF phrase
  <2>1. pending' \in [{t} -> Phrase] /\ {t} \in SUBSET Token /\ IsFiniteSet({t})
    BY <1>2, <1>4, <1>5, FS_Singleton
  <2> QED
    BY <1>2, <2>1
<1>7. legacy' \in [next : 1 .. MaxActions + 1, last : Token \cup {NoToken}]
  BY <1>2, <1>3, <1>4
<1>8. Used(Origin(t))' /\ ~Used(Origin(t))
  <2>1. /\ t.session = 0 /\ t.action_id = legacy.next /\ restarts \in Nat
        /\ legacy.next \in Nat
    BY <1>0, <1>1, <1>3 DEF TypeInv
  <2> QED
    BY <1>2, <1>3, <2>1 DEF Used, Origin
<1>9. DOMAIN pending \in SUBSET DOMAIN pending
  OBVIOUS
<1> QED
  BY <1>2, <1>3, <1>6, <1>7, <1>8, <1>9, LearnedKeeps

\* Opening the database in a new process keeps the invariant.
LEMMA OpenInv ==
  ASSUME Inv, NEW d \in Dbs, IsFiniteSet(DOMAIN d.events), Open(d), clean' \in BOOLEAN,
         clean' => RowsBacked(d),
         \A i \in DOMAIN d.events :
           \/ i \in DOMAIN db.events /\ d.events[i] = db.events[i]
           \/ d.events[i].origins = {}
  PROVE  Inv'
<1>1. TypeInv /\ HistoryInv /\ RolledBackNeverLearned /\ OneRowPerCommit
  BY DEF Inv
<1>2. /\ restarts' = restarts + 1 /\ db' = d /\ cache' = Loaded(d) /\ events' = Stored(d)
      /\ pending' = [t \in {} |-> NoToken] /\ next_id' = 1
      /\ legacy' = [next |-> 1, last |-> NoToken] /\ now' = 0
      /\ given' = {} /\ UNCHANGED rolled_back
  BY DEF Open
<1>3. PICK N \in Nat : \E ids \in [1 .. N -> DOMAIN d.events] :
        /\ \A m, n \in 1 .. N : ids[m] = ids[n] => m = n
        /\ Stored(d) = [n \in 1 .. N |-> d.events[ids[n]]]
        /\ Stored(d) \in Seq(Events) /\ Len(Stored(d)) = N
  BY StoredIsLog
<1>4. PICK ids \in [1 .. N -> DOMAIN d.events] :
        /\ \A m, n \in 1 .. N : ids[m] = ids[n] => m = n
        /\ Stored(d) = [n \in 1 .. N |-> d.events[ids[n]]]
        /\ Stored(d) \in Seq(Events) /\ Len(Stored(d)) = N
  BY <1>3
<1>5. /\ DOMAIN events' = 1 .. N
      /\ \A n \in 1 .. N : ids[n] \in DOMAIN d.events /\ events'[n] = d.events[ids[n]]
  BY <1>2, <1>4
<1>6. TypeInv'
  <2>1. pending' \in [{} -> Phrase] /\ {} \in SUBSET Token /\ IsFiniteSet({})
        /\ DOMAIN pending' = {}
    BY <1>2, FS_EmptySet
  <2>2. /\ 1 \in 1 .. MaxEvents + 1 /\ 1 <= N + 1 /\ 1 \in 1 .. MaxActions + 1
        /\ 0 \in 0 .. MaxTime
    BY Bounds
  <2>3. cache' \in Caches
    BY <1>2, LoadEffect
  <2>4. restarts' \in Nat /\ rolled_back' \subseteq OriginId
    BY <1>1, <1>2 DEF TypeInv
  <2>5. pending' \in UNION {[tokens -> Phrase] : tokens \in SUBSET Token}
    BY <2>1
  <2>6. db' \in Dbs /\ IsFiniteSet(DOMAIN db'.events)
    BY <1>2
  <2>7. events' \in Seq(Events) /\ next_id' <= Len(events') + 1
    BY <1>2, <1>4, <2>2
  <2>8. next_id' \in 1 .. MaxEvents + 1 /\ now' \in 0 .. MaxTime
    BY <1>2, <2>2
  <2>9. legacy' \in [next : 1 .. MaxActions + 1, last : Token \cup {NoToken}]
    BY <1>2, <2>2
  <2> QED
    BY <2>1, <2>3, <2>4, <2>5, <2>6, <2>7, <2>8, <2>9 DEF TypeInv
<1>7. \A o \in OriginId : Used(o) => Used(o)'
  <2> SUFFICES ASSUME NEW o \in OriginId, Used(o)
               PROVE  Used(o)'
    OBVIOUS
  <2>1. o.process \in Nat /\ o.process <= restarts /\ restarts \in Nat
    BY <1>1 DEF Used, OriginId, TypeInv
  <2>2. o.process <= restarts' /\ o.process # restarts'
    BY <1>2, <2>1
  <2> QED
    BY <1>2, <2>2 DEF Used
<1>8. \A e \in LoggedEvents' : e \in LoggedEvents \/ e.origins = {}
  BY <1>2, <1>5 DEF LoggedEvents
<1>9. \A e \in LoggedEvents : e.origins \subseteq OriginId
  BY <1>1, LoggedTyped DEF Events
<1>10. HistoryInv'
  <2>1. ASSUME NEW e \in LoggedEvents', NEW o \in e.origins
        PROVE  Used(o)'
    BY <1>1, <1>7, <1>8, <1>9, <2>1 DEF HistoryInv
  <2>2. ASSUME NEW o \in rolled_back'
        PROVE  Used(o)'
    BY <1>1, <1>2, <1>7, <2>2 DEF HistoryInv, TypeInv
  <2> QED
    BY <1>2, <2>1, <2>2 DEF HistoryInv
<1>11. RolledBackNeverLearned'
  BY <1>1, <1>2, <1>8 DEF RolledBackNeverLearned
<1>12. OneRowPerCommit'
  BY <1>1, <1>2 DEF OneRowPerCommit
<1>13. LearnedOncePerCommit'
  BY <1>2, <1>4, <1>5, <1>12 DEF LearnedOncePerCommit, OneRowPerCommit
<1>14. FlagsDurable' /\ FlagsInv'
  BY <1>2, LoadEffect DEF FlagsDurable, FlagsInv, Backed, RowsBacked
<1> QED
  BY <1>6, <1>10, <1>11, <1>12, <1>13, <1>14 DEF Inv

\* Both callers of cancel_phrase keep the invariant.
LEMMA CancellationInv ==
  ASSUME Inv, UndoLast \/ \E t \in Token : RollbackLearning(t)
  PROVE  Inv'
<1>1. legacy \in [next : 1 .. MaxActions + 1, last : Token \cup {NoToken}]
  BY DEF Inv, TypeInv
<1>2. CASE UndoLast
  <2>1. PICK t : t = legacy.last
    OBVIOUS
  <2>2. /\ Cancel({t}) /\ legacy' = [legacy EXCEPT !.last = NoToken]
        /\ rolled_back' = rolled_back \cup {Origin(u) : u \in {t} \cap DOMAIN pending}
        /\ UNCHANGED <<db, cache, events, next_id, now, given, clean, restarts>>
    BY <1>2, <2>1 DEF UndoLast
  <2>3. /\ legacy' \in [next : 1 .. MaxActions + 1, last : Token \cup {NoToken}]
        /\ legacy'.next = legacy.next
    BY <1>1, <2>2
  <2> QED
    BY <2>2, <2>3, CancelInv
<1>3. ASSUME NEW t \in Token, RollbackLearning(t)
      PROVE  Inv'
  BY <1>1, <1>3, CancelInv DEF RollbackLearning
<1> QED
  BY <1>2, <1>3

\* A restart keeps the invariant, and so does a crash within a write.
LEMMA ReopenInv ==
  ASSUME Inv, Restart \/ CrashInWrite
  PROVE  Inv'
<1>1. /\ db \in Dbs /\ IsFiniteSet(DOMAIN db.events) /\ clean \in BOOLEAN
      /\ clean => RowsBacked(db)
      /\ events \in Seq(Events) /\ next_id \in 1 .. MaxEvents + 1 /\ next_id <= Len(events) + 1
  BY DEF Inv, TypeInv, FlagsInv
<1>2. CASE Restart
  BY <1>1, <1>2, OpenInv DEF Restart
<1>3. CASE CrashInWrite
  <2>1. PICK e \in Operations : Open(InsertEvent(db, Id(e, next_id), e))
    BY <1>3 DEF CrashInWrite
  <2>2. e \in Events /\ e.origins = {}
    BY OperationTyped
  <2>3. PICK id : id = Id(e, next_id)
    OBVIOUS
  <2>4. id \in EventId
    <3>1. next_id \in 1 .. MaxEvents
      <4>1. Len(events) < MaxEvents /\ Len(events) \in Nat
        BY <1>1, <1>3 DEF CrashInWrite
      <4> QED
        BY <1>1, <4>1, Bounds
    <3> QED
      BY <2>2, <2>3, <3>1 DEF Id, EventId, Events
  <2>5. PICK d : d = InsertEvent(db, id, e)
    OBVIOUS
  <2>6. /\ d \in Dbs /\ IsFiniteSet(DOMAIN d.events)
        /\ d.events = [i \in DOMAIN db.events \cup {id} |-> IF i = id THEN e ELSE db.events[i]]
    BY <1>1, <2>2, <2>4, <2>5, InsertStep
  <2>7. \A i \in DOMAIN d.events :
          \/ i \in DOMAIN db.events /\ d.events[i] = db.events[i]
          \/ d.events[i].origins = {}
    BY <2>2, <2>6
  <2>8. clean' = FALSE
    BY <1>3 DEF CrashInWrite
  <2> QED
    BY <2>1, <2>3, <2>5, <2>6, <2>7, <2>8, OpenInv
<1> QED
  BY <1>2, <1>3

\* Time, and steps of other components, keep the invariant.
LEMMA TickInv ==
  ASSUME Inv, Tick \/ UNCHANGED vars
  PROVE  Inv'
<1>1. now \in 0 .. MaxTime /\ MaxTime \in Nat
  BY Bounds DEF Inv, TypeInv
<1>2. now' \in 0 .. MaxTime
  BY <1>1 DEF Tick, vars
<1>3. UNCHANGED <<db, cache, events, pending, next_id, legacy, history>>
  BY DEF Tick, vars
<1>4. TypeInv'
  BY <1>2, <1>3 DEF Inv, TypeInv, history
<1>5. LoggedEvents' = LoggedEvents /\ (\A t : Origin(t)' = Origin(t)) /\ (\A o : Used(o)' <=> Used(o))
  BY <1>3 DEF LoggedEvents, Origin, Used, history
<1>6. HistoryInv' /\ RolledBackNeverLearned'
  BY <1>3, <1>5 DEF Inv, HistoryInv, RolledBackNeverLearned, history
<1>7. LearnedOncePerCommit' /\ OneRowPerCommit' /\ FlagsDurable' /\ FlagsInv'
  BY <1>3 DEF Inv, LearnedOncePerCommit, OneRowPerCommit, FlagsDurable, FlagsInv, RowsBacked,
              history
<1> QED
  BY <1>4, <1>6, <1>7 DEF Inv

\* Every step keeps the invariant.
LEMMA NextInv == Inv /\ [Next]_vars => Inv'
<1> SUFFICES ASSUME Inv, [Next]_vars PROVE Inv'
  OBVIOUS
<1>1. CASE ApplyOperation
  BY <1>1, ApplyOperationInv
<1>2. ASSUME NEW t \in Token, NEW word \in Word, NEW lexical \in BOOLEAN,
             NEW exact \in BOOLEAN, CommitApplied(t, word, lexical, exact)
      PROVE  Inv'
  BY <1>2, CommitAppliedInv
<1>3. CASE UndoLast \/ \E t \in Token : RollbackLearning(t)
  BY <1>3, CancellationInv
<1>4. CASE ConfirmExpired \/ ConfirmAllPending
  BY <1>4, ConfirmInv
<1>5. ASSUME NEW word \in Word, CommitPending(word)
      PROVE  Inv'
  BY <1>5, CommitPendingInv
<1>6. CASE Restart \/ CrashInWrite
  BY <1>6, ReopenInv
<1>7. CASE Tick \/ UNCHANGED vars
  BY <1>7, TickInv
<1> QED
  BY <1>1, <1>2, <1>3, <1>4, <1>5, <1>6, <1>7 DEF Next

\* The invariant holds in every behaviour.
LEMMA Invariance == Spec => []Inv
BY InitInv, NextInv, PTL DEF Spec

\* The proofs' types give those the runs check.
LEMMA TypeInvIsTypeOK == TypeInv => TypeOK
<1> SUFFICES ASSUME TypeInv PROVE TypeOK
  OBVIOUS
<1>1. \A e \in LoggedEvents : e.word \in Word
  BY LoggedTyped DEF Events
<1>2. DOMAIN db.events \subseteq [device : {1, 2}, seq : 1 .. MaxEvents]
  BY DEF TypeInv, Dbs, Logs, EventId
<1>3. db.pinned \cup db.blocked \cup db.deleted \subseteq Word
  BY DEF TypeInv, Dbs
<1>4. /\ cache.frequency \in [Word -> Int]
      /\ cache.known \cup cache.pinned \cup cache.blocked \cup cache.deleted \subseteq Word
  BY DEF TypeInv, Caches
<1> QED
  BY <1>1, <1>2, <1>3, <1>4, PhraseTyped DEF TypeInv, TypeOK

\* The store, its database and the learning service keep their types: every id
\* is one make_event_id gives, and every logged event names a word.
THEOREM TypeCorrect == Spec => []TypeOK
BY Invariance, TypeInvIsTypeOK, PTL DEF Inv

\* cancel_phrase is in time: a phrase rolled back, or that still may be, is in no
\* log, whatever confirmations, restarts and reused event ids come between.
THEOREM CancelledIsNotLearned == Spec => []RolledBackNeverLearned
BY Invariance, PTL DEF Inv

\* The deadline, the next legacy commit and the exact commit cannot teach one
\* commit twice, and no replay of the database can.
THEOREM LearnedOnce == Spec => []LearnedOncePerCommit
BY Invariance, PTL DEF Inv

\* load_from_db reads the flags back, although it replays the events in the
\* order of their text ids and ids are given out again after a restart.
THEOREM FlagsSurviveRestart == Spec => []FlagsDurable
BY Invariance, PTL DEF Inv
=============================================================================
