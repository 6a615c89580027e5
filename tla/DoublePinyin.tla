---------------------------- MODULE DoublePinyin ----------------------------
(***************************************************************************)
(* Double pinyin (cheime-pipeline/src/double_pinyin.rs): a scheme gives    *)
(* every key an initial or finals, two keys spell a syllable, and the      *)
(* segmentor reads a code of keys as a graph of the syllables it spells,   *)
(* those of a mistouched or confused pair of keys at a cost.               *)
(*                                                                         *)
(* An initial of None is the empty sequence.  The syllables of a pair are  *)
(* a set: each becomes an edge of the same span and cost.                  *)
(***************************************************************************)
EXTENDS Readings

CONSTANTS
  Neighbors,       \* QWERTY_NEIGHBORS: [Letter -> SUBSET Letter]
  MistouchCost,    \* keyboard_mistouch.cost
  ConfusionRules,  \* code_confusion.rules: a sequence of [from, to, cost]
  ConfusionCost,   \* code_confusion.cost, for a rule that has none
  NoCost

ASSUME DoublePinyinAssumption ==
  /\ Neighbors \in [Letter -> SUBSET Letter]
  /\ MistouchCost \in Nat \ {0} /\ ConfusionCost \in Int

-----------------------------------------------------------------------------
(***************************************************************************)
(* CompiledDoublePinyinTable.  keys is a sequence of [key, initial,        *)
(* finals, single].                                                        *)
(***************************************************************************)
MaxKeys == 26

\* What compile refuses.
ValidKeys(keys) ==
  /\ Len(keys) \in 1 .. MaxKeys
  /\ \A i \in DOMAIN keys :
       /\ keys[i].key \in Letter
       /\ keys[i].single => keys[i].initial = <<>>
       /\ \A j \in 1 .. i - 1 : keys[j].key # keys[i].key

\* The syllables of two keys: an initial goes with every final, a key without
\* one with the finals that begin with the key.
SpelledBy(k1, k2) ==
  {k1.initial \o final : final \in
     {f \in Range(k2.finals) : k1.initial = <<>> => IsPrefix(<<k1.key>>, f)}} \cap Syllable

SpelledAlone(k) ==
  IF k.initial = <<>> /\ k.single THEN Range(k.finals) \cap Syllable ELSE {}

Compile(keys) ==
  LET at(letter) == {k \in Range(keys) : k.key = letter}
  IN  [pair     |-> [k \in Letter \X Letter |->
                       UNION {SpelledBy(k1, k2) : k1 \in at(k[1]), k2 \in at(k[2])}],
       single   |-> [k \in Letter |-> UNION {SpelledAlone(key) : key \in at(k)}],
       initials |-> [k \in Letter |-> {key.initial : key \in at(k)} \ {<<>>}]]

-----------------------------------------------------------------------------
(***************************************************************************)
(* CodeConfusionModel and KeyboardMistouchModel.                           *)
(***************************************************************************)
\* What from_rules refuses.
ValidConfusion(rules) ==
  \A i \in DOMAIN rules :
    /\ {rules[i].from, rules[i].to} \subseteq Letter \X Letter
    /\ rules[i].from # rules[i].to

RuleCost(rule) == Max({0, IF rule.cost = NoCost THEN ConfusionCost ELSE rule.cost})

\* The pairs of keys that may have been meant by a pair, with one key beside it.
Mistouched(pair) ==
  {<<k, pair[2]>> : k \in Neighbors[pair[1]]} \cup {<<pair[1], k>> : k \in Neighbors[pair[2]]}

-----------------------------------------------------------------------------
(***************************************************************************)
(* DoublePinyinSegmentor::segment.                                         *)
(***************************************************************************)
AddSet(g, edges, cost) ==
  FoldSet(LAMBDA e, h : AddEdge(h, e, cost), g, edges)

Edges(syllables, start, end, kind) == {Edge(start, end, s, kind) : s \in syllables}

\* KeyboardMistouchModel::append_edges, where the schema has one.
Touched(g, table, pair, start, models) ==
  IF "mistouch" \notin models THEN g
  ELSE AddSet(g, Edges(UNION {table.pair[p] : p \in Mistouched(pair)},
                       start, start + 2, "Complete"), MistouchCost)

\* CodeConfusionModel::append_edges: the rules for the pair, in turn.
Confused(g, table, pair, start, models) ==
  IF "confusion" \notin models THEN g
  ELSE FoldLeft(LAMBDA h, rule :
                  AddSet(h, Edges(table.pair[rule.to], start, start + 2, "Complete"),
                         RuleCost(rule)),
                g, SelectSeq(ConfusionRules, LAMBDA rule : rule.from = pair))

\* What two letters spell, and may have been meant to.
ReadPair(table, exact, pair, start, models, g) ==
  Confused(Touched(AddSet(g, Edges(exact, start, start + 2, "Complete"), 0),
                   table, pair, start, models),
           table, pair, start, models)

\* The edges from an offset with a letter.  Complete pairs suppress the initial
\* of the first key.
ReadFrom(table, w, start, models, g) ==
  LET pair   == SubSeq(w, start + 1, Min({Len(w), start + 2}))
      isPair == Len(pair) = 2 /\ pair[2] \in Letter
      key    == w[start + 1]
      exact  == IF isPair THEN table.pair[pair] ELSE {}
      begun  == IF exact # {} THEN {}
                ELSE Edges(table.initials[key], start, start + 1, "Incomplete")
  IN  AddSet(IF isPair THEN ReadPair(table, exact, pair, start, models, g) ELSE g,
             Edges(table.single[key], start, start + 1, "Complete") \union begun, 0)

SegmentKeys(keys, w, models) ==
  LET table == Compile(keys)
  IN  FoldLeft(LAMBDA g, start :
                 IF w[start + 1] \in Letter THEN ReadFrom(table, w, start, models, g)
                 ELSE AddEdge(g, Edge(start, start + 1, <<w[start + 1]>>, "Raw"), 0),
               EmptyGraph, [i \in DOMAIN w |-> i - 1])

=============================================================================
