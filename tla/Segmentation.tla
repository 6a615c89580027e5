---------------------------- MODULE Segmentation ----------------------------
(***************************************************************************)
(* The graph of readings a session works with while a code is typed in     *)
(* full pinyin: ComposablePipeline::resolve_composition (cheime-pipeline/  *)
(* src/lib.rs) up to the graph the translators get.                        *)
(***************************************************************************)
EXTENDS Readings

CONSTANT MaxInput       \* bound of the model: longest code that is typed

ASSUME MaxInput \in Nat

-----------------------------------------------------------------------------
(***************************************************************************)
(* resolve_composition, called for a key and for what a selection leaves.  *)
(***************************************************************************)
VARIABLES
  options,     \* what the schema turns on
  input,       \* the code
  graph        \* its normalized graph

vars == <<options, input, graph>>

Resolve(w) ==
  /\ input' = w
  /\ graph' = Normalize(w, Segment(w, options), options)
  /\ UNCHANGED options

Type == \E c \in Char : Len(input) < MaxInput /\ Resolve(Append(input, c))

\* Variant for mutation: the rest keeps the graph of the whole.
RefreshStale == \E e \in DOMAIN graph :
  /\ input' = SubSeq(input, e.end + 1, Len(input))
  /\ UNCHANGED <<options, graph>>

Refresh == \E e \in DOMAIN graph : Resolve(SubSeq(input, e.end + 1, Len(input)))

Init ==
  /\ options \in SUBSET Options
  /\ input = <<>>
  /\ graph = EmptyGraph

Next == Type \/ Refresh

Spec == Init /\ [][Next]_vars

-----------------------------------------------------------------------------
(***************************************************************************)
(* Reference definitions.                                                  *)
(***************************************************************************)
\* Every path through a graph from 0 to the end.
AllPaths(w, g) ==
  LET paths[o \in 0 .. Len(w)] ==
        IF o = Len(w) THEN {<<>>}
        ELSE UNION {{<<e>> \o suffix : suffix \in paths[e.end]} :
                      e \in {f \in DOMAIN g : f.start = o}}
  IN  paths[0]

\* u with v in the place of its characters from i + 1 to k.
Spliced(u, i, v, k) == SubSeq(u, 1, i) \o v \o SubSeq(u, k + 1, Len(u))

\* The codes one insertion, deletion, substitution or swap away.
OneEdit(u) ==
  {Spliced(u, i, <<c>>, i) : i \in 0 .. Len(u), c \in Char}
  \cup {Spliced(u, i - 1, <<>>, i) : i \in 1 .. Len(u)}
  \cup {Spliced(u, i - 1, <<c>>, i) : i \in 1 .. Len(u), c \in Char}
  \cup {Spliced(u, i - 1, <<u[i + 1], u[i]>>, i + 1) : i \in 1 .. Len(u) - 1}

-----------------------------------------------------------------------------
(***************************************************************************)
(* Properties.                                                             *)
(***************************************************************************)

\* Types: spans are inside the input and not empty (the assertions of
\* add_edge_with_cost).
TypeOK ==
  /\ options \subseteq Options
  /\ input \in Seq(Char)
  /\ DOMAIN graph \subseteq [start : 0 .. Len(input) - 1, end : 1 .. Len(input),
                             canonical : Seq(Char), kind : DOMAIN Kind]
  /\ \A e \in DOMAIN graph : e.start < e.end /\ graph[e] \in Nat

\* Every input has a reading, whatever characters it is made of: the primary path
\* leads through all of it, and no other such path is preferred to it ("rather
\* than greedily taking a local longest edge", segmentation.rs).
PrimaryPathIsBest ==
  LET primary == PrimaryPath(input, graph)
      paths   == AllPaths(input, graph)
  IN  primary \in paths /\ \A path \in paths : ~LexLess(Rank(path), Rank(primary))

\* has_complete_path, on which abbreviations depend, is true exactly when some
\* path has syllables and separators only.
CompletePathExists ==
  HasCompletePath(input, graph) <=>
    \E path \in AllPaths(input, graph) : \A i \in DOMAIN path : Spelled(input, path[i])

\* A correction is at distance 1 exactly when one insertion, deletion,
\* substitution or swap leads to it (docs/decoding.md).
CorrectionsAreEdits ==
  \A o \in 0 .. Len(input) - 1 : \A end \in o + 1 .. Len(input) :
    LET raw == SubSeq(input, o + 1, end)
    IN  \A s \in Syllable : Distance(raw, s) = 1 <=> s \in OneEdit(raw) \ {raw}

\* What a selection leaves is read as it was read before: the session refreshes
\* with the rest alone, and the rest has the edges it had in the whole input.
RestReadsAlike ==
  LET whole == Segment(input, options)
  IN  \A k \in {e.end : e \in DOMAIN whole} :
        LET rest == Segment(SubSeq(input, k + 1, Len(input)), options)
        IN  rest = [f \in {Edge(e.start - k, e.end - k, e.canonical, e.kind) :
                              e \in {d \in DOMAIN whole : d.start >= k}} |->
                      whole[Edge(f.start + k, f.end + k, f.canonical, f.kind)]]

\* "Re-adding an identical edge keeps the lowest cost" (segmentation.rs): what
\* was read as it is spelled, at no cost, costs nothing after normalization.
LowestCostKept ==
  LET whole == Segment(input, options)
  IN  \A e \in DOMAIN whole : whole[e] = 0 => graph[e] = 0
=============================================================================
