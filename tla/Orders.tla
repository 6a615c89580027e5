------------------------------- MODULE Orders -------------------------------
(***************************************************************************)
(* Orders on sequences of integers, by which the code's strings and the    *)
(* keys of its sort_by chains are compared: a descending key is negated,   *)
(* and a text inside a key ends with a number below its characters.        *)
(***************************************************************************)
EXTENDS Integers, FiniteSets, SequencesExt

LexLess(s, t) ==
  \E k \in 1 .. Len(t) :
    /\ k <= Len(s) + 1
    /\ k = Len(s) + 1 \/ s[k] < t[k]
    /\ \A i \in 1 .. k - 1 : s[i] = t[i]

\* The elements of S, each behind those that precede it.  Precedes is a strict
\* total order on S, and the place of an element the number of those before it.
InOrder(S, Precedes(_, _)) ==
  LET places == {<<1 + Cardinality({y \in S : Precedes(y, x)}), x>> : x \in S}
  IN  [n \in 1 .. Cardinality(S) |-> (CHOOSE p \in places : p[1] = n)[2]]

\* sort_by, which is stable.
Stably(p, q) == LexLess(p.key, q.key) \/ (p.key = q.key /\ p.at < q.at)

Sorted(seq, Key(_)) ==
  LET order == InOrder({[key |-> Key(seq[i]), at |-> i] : i \in DOMAIN seq}, Stably)
  IN  [i \in DOMAIN seq |-> seq[order[i].at]]

\* filter: the elements that pass, in their order.
Smaller(i, j) == i < j

Selected(seq, Test(_)) ==
  LET at == InOrder({i \in DOMAIN seq : Test(seq[i])}, Smaller)
  IN  [n \in DOMAIN at |-> seq[at[n]]]

\* The elements of S in the order of their keys, which are distinct.
SortedBy(S, Key(_)) ==
  LET keyed == {[key |-> Key(x), of |-> x] : x \in S}
      order == InOrder(keyed, LAMBDA p, q : LexLess(p.key, q.key))
  IN  [i \in 1 .. Cardinality(S) |-> order[i].of]

\* dedup_by: of neighbours with the same label the first stays.
Deduped(seq, Label(_)) ==
  LET firsts == SelectSeq([i \in DOMAIN seq |-> i],
                          LAMBDA i : i = 1 \/ Label(seq[i]) # Label(seq[i - 1]))
  IN  [i \in DOMAIN firsts |-> seq[firsts[i]]]

Truncated(seq, limit) == SubSeq(seq, 1, Min({limit, Len(seq)}))

=============================================================================
