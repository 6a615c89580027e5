------------------------------ MODULE Readings ------------------------------
(***************************************************************************)
(* From a code to the graph of its readings: PinyinSegmentor               *)
(* (cheime-pipeline/src/segmentor.rs), SegmentationGraph (segmentation.rs) *)
(* and the abbreviation and fuzzy normalizers (normalizer.rs), put         *)
(* together as PipelineFactory::build_normalizer does.                     *)
(*                                                                         *)
(* A character is a number, so that codes are ordered as strings are.      *)
(* Offsets count from 0.  The raw text of an edge is the input under its   *)
(* span, in the segmentor and in every normalizer, and is not kept.  A     *)
(* graph is the function from its edges to their costs: finish sorts and   *)
(* deduplicates the lists of edges, so a set of edges says all of them.    *)
(***************************************************************************)
EXTENDS Orders

CONSTANTS
  Letter,               \* 'a'..'z'
  Quote, Other,         \* the separator ', and a character of no syllable
  Syllable,             \* PINYIN_SYLLABLES
  Rules,                \* FuzzyRule: a sequence of [from, to]
  MaxDistance,          \* max_edit_distance
  MaxCorrections,       \* max_candidates_per_start
  MaxTokenBytes,        \* MAX_CORRECTION_TOKEN_BYTES
  EditPenalty,          \* edit_penalty
  VariantPenalty,       \* NORMALIZATION_VARIANT_PENALTY
  AbbreviationPenalty   \* ABBREVIATION_PENALTY

Char == Letter \cup {Quote, Other}
Options == {"correction", "fuzzy"}   \* what a schema may turn on

ASSUME ReadingsAssumption ==
  /\ Char \subseteq Nat \ {0}
  /\ Quote \notin Letter /\ Other \notin Letter /\ Quote # Other
  /\ Syllable \subseteq Seq(Letter) \ {<<>>} /\ IsFiniteSet(Syllable)
  /\ Rules \in Seq([from : Seq(Letter) \ {<<>>}, to : Seq(Letter) \ {<<>>}])
  /\ MaxDistance \in {1, 2}
  /\ MaxCorrections \in Nat /\ MaxTokenBytes \in Nat
  /\ {EditPenalty, VariantPenalty, AbbreviationPenalty} \subseteq Nat \ {0}

-----------------------------------------------------------------------------
(***************************************************************************)
(* Edges and graphs.                                                       *)
(***************************************************************************)
Kind == [Complete |-> 0, Incomplete |-> 1, Raw |-> 2]

Edge(start, end, canonical, kind) ==
  [start |-> start, end |-> end, canonical |-> canonical, kind |-> kind]

RawOf(w, e) == SubSeq(w, e.start + 1, e.end)

\* The order of finish, the lists of edges one behind the other.
EdgeKey(e) == <<e.start, e.end>> \o e.canonical \o <<0, Kind[e.kind]>>

\* SegmentationGraph::edges, and the list of an offset.
EdgesOf(g)      == SortedBy(DOMAIN g, EdgeKey)
EdgesFrom(g, o) == SortedBy({e \in DOMAIN g : e.start = o}, EdgeKey)

\* add_edge_with_cost.  A cost of 0 is what edge_costs does not hold.
AddEdge(g, e, cost) ==
  [f \in DOMAIN g \cup {e} |->
     IF f # e THEN g[f]
     ELSE IF cost = 0 \/ e \notin DOMAIN g \/ g[e] = 0 THEN cost
                                                      ELSE Min({g[e], cost})]

Added(g, addition) == AddEdge(g, addition.edge, addition.cost)

AddAll(g, additions) == FoldLeft(Added, g, additions)

EmptyGraph == [e \in {} |-> 0]

\* has_complete_path: syllables and separators lead from 0 to the end.
Spelled(w, e) ==
  \/ e.kind = "Complete"
  \/ e.kind = "Raw" /\ RawOf(w, e) = <<Quote>>

\* Variant for mutation: edges are followed from offsets nothing leads to.
HasLastSyllable(w, g) ==
  Len(w) = 0 \/ \E e \in DOMAIN g : e.end = Len(w) /\ Spelled(w, e)

HasCompletePath(w, g) ==
  LET reachable[o \in 0 .. Len(w)] ==
        o = 0 \/ \E e \in DOMAIN g : e.end = o /\ Spelled(w, e) /\ reachable[e.start]
  IN  reachable[Len(w)]

-----------------------------------------------------------------------------
(***************************************************************************)
(* primary_path.  Rank is what is_preferred_to compares.                   *)
(***************************************************************************)
Count(path, Test(_)) == Cardinality({i \in DOMAIN path : Test(path[i])})

Rank(path) ==
  <<Count(path, LAMBDA e : e.kind = "Raw"),
    Count(path, LAMBDA e : e.kind = "Incomplete"),
    Count(path, LAMBDA e : e.kind = "Complete" /\ e.end = e.start + 1),
    Len(path)>>

\* PrimaryPath::prepend, on what primary_path holds of an offset: the one path
\* that is best from there, or nothing.
Prepended(e, suffixes) == {<<e>> \o suffix : suffix \in suffixes}

\* Variant for mutation: the longest edge that leads on is taken.
Longest(best, through) == IF through # {} THEN through ELSE best

\* The body of primary_path's inner loop, for a path through the next edge.
Preferred(best, through) ==
  IF through # {} /\ \A p \in through, q \in best : LexLess(Rank(p), Rank(q))
  THEN through ELSE best

PrimaryPaths(w, g) ==
  LET paths[o \in 0 .. Len(w)] ==
        IF o = Len(w) THEN {<<>>}
        ELSE LET edges == EdgesFrom(g, o)
             IN  FoldLeft(Preferred, {},
                   [i \in DOMAIN edges |-> Prepended(edges[i], paths[edges[i].end])])
  IN  paths

OnePath(paths) == IF paths = {} THEN <<>> ELSE CHOOSE p \in paths : TRUE

PrimaryPath(w, g) == OnePath(PrimaryPaths(w, g)[0])

-----------------------------------------------------------------------------
(***************************************************************************)
(* The segmentor: append_edges and append_correction_edges.                *)
(***************************************************************************)
InTrie(u) == \E syllable \in Syllable : IsPrefix(u, syllable)

TrieEdges(w, start) ==
  LET run(end)   == SubSeq(w, start + 1, end)
      n          == Len(w)
      complete   == {Edge(start, end, run(end), "Complete") :
                       end \in {o \in start + 1 .. n : run(o) \in Syllable}}
      incomplete == IF InTrie(run(n)) /\ run(n) \notin Syllable
                    THEN {Edge(start, n, run(n), "Incomplete")} ELSE {}
      found      == complete \cup incomplete
  IN  IF found = {} THEN {Edge(start, start + 1, run(start + 1), "Raw")} ELSE found

\* Variant for mutation: swapped letters are two substitutions.
Levenshtein(left, right) ==
  LET d[i \in 0 .. Len(left), j \in 0 .. Len(right)] ==
        IF i = 0 \/ j = 0 THEN i + j
        ELSE Min({d[i - 1, j] + 1, d[i, j - 1] + 1,
                  d[i - 1, j - 1] + IF left[i] = right[j] THEN 0 ELSE 1})
  IN  d[Len(left), Len(right)]

\* bounded_damerau_levenshtein, without its limit.
Distance(left, right) ==
  LET d[at \in (0 .. Len(left)) \X (0 .. Len(right))] ==
        LET i == at[1]
            j == at[2]
        IN  IF i = 0 \/ j = 0 THEN i + j
            ELSE Min({d[<<i - 1, j>>] + 1, d[<<i, j - 1>>] + 1,
                      d[<<i - 1, j - 1>>] + IF left[i] = right[j] THEN 0 ELSE 1}
                     \cup IF /\ i > 1 /\ j > 1
                             /\ left[i] = right[j - 1] /\ left[i - 1] = right[j]
                          THEN {d[<<i - 2, j - 2>>] + 1} ELSE {})
  IN  d[<<Len(left), Len(right)>>]

\* Variant for mutation: the first other character of the whole input counts.
AvailableInAll(w, start) ==
  Min({Len(w)} \cup {i \in 0 .. Len(w) - 1 : w[i + 1] \notin Letter}) - start

\* How many letters follow from start on.
Available(w, start) ==
  Min({Len(w)} \cup {i \in start .. Len(w) - 1 : w[i + 1] \notin Letter}) - start

CorrectionEdges(w, start) ==
  LET corrected(syllable) ==
        Max({2, Len(syllable) - MaxDistance})
          .. Min({Len(syllable) + MaxDistance, MaxTokenBytes, Available(w, start)})
      distance(e) == Distance(RawOf(w, e), e.canonical)
      near == {e \in UNION {{Edge(start, start + k, syllable, "Complete") :
                               k \in corrected(syllable)} : syllable \in Syllable} :
                 distance(e) \in 1 .. MaxDistance}
      nearest == SortedBy(near, LAMBDA e : <<distance(e), e.end>> \o e.canonical)
  IN  {nearest[i] : i \in 1 .. Min({Len(nearest), MaxCorrections})}

Segment(w, options) ==
  LET typed     == UNION {TrieEdges(w, o) : o \in 0 .. Len(w) - 1}
      corrected == IF "correction" \in options
                   THEN UNION {CorrectionEdges(w, o) : o \in 0 .. Len(w) - 1} ELSE {}
  IN  [e \in typed \cup corrected |->
         IF e \in typed THEN 0 ELSE EditPenalty * Distance(RawOf(w, e), e.canonical)]

-----------------------------------------------------------------------------
(***************************************************************************)
(* The normalizers.  What each adds to the graph is a sequence of edges    *)
(* with costs, in the order of its calls of add_edge_with_cost.            *)
(***************************************************************************)
\* FuzzyNormalizer::normalize: the code itself, then one variant per rule.
Applies(rule, code) ==
  /\ IsPrefix(rule.from, code)
  /\ ~(Len(rule.from) = 1 /\ IsPrefix(rule.from, rule.to) /\ IsPrefix(rule.to, code))

Variants(code) ==
  LET applied  == SortedBy({i \in DOMAIN Rules : Applies(Rules[i], code)}, LAMBDA i : <<i>>)
      by(rule) == rule.to \o SubSeq(code, Len(rule.from) + 1, Len(code))
  IN  <<code>> \o [i \in DOMAIN applied |-> by(Rules[applied[i]])]

\* CodeNormalizer::normalize_graph, as FuzzyNormalizer inherits it.
FuzzyAdditions(g) ==
  LET variants(e) ==
        LET codes == Variants(e.canonical)
        IN  [i \in DOMAIN codes |->
               [edge |-> [e EXCEPT !.canonical = codes[i]],
                cost |-> g[e] + IF codes[i] = e.canonical THEN 0 ELSE VariantPenalty]]
      edges == EdgesOf(g)
  IN  FlattenSeq([i \in DOMAIN edges |-> variants(edges[i])])

\* AbbreviationNormalizer::normalize_graph where no complete path exists.
AbbreviationAdditions(w, g) ==
  LET edges == SortedBy({e \in DOMAIN g : e.end = e.start + 1 /\ w[e.end] \in Letter},
                        EdgeKey)
      expansions(e) ==
        LET codes == SortedBy({s \in Syllable : s[1] = w[e.end]}, LAMBDA s : s)
        IN  [i \in DOMAIN codes |->
               [edge |-> Edge(e.start, e.end, codes[i], "Complete"),
                cost |-> g[e] + AbbreviationPenalty]]
  IN  FlattenSeq([i \in DOMAIN edges |-> expansions(edges[i])])

Abbreviated(w, g) ==
  IF HasCompletePath(w, g) THEN g ELSE AddAll(g, AbbreviationAdditions(w, g))

Fuzzied(g, options) ==
  IF "fuzzy" \in options THEN AddAll(EmptyGraph, FuzzyAdditions(g)) ELSE g

\* build_normalizer: the PinyinSegmentor always goes with abbreviations.
Normalize(w, g, options) == Fuzzied(Abbreviated(w, g), options)

=============================================================================
