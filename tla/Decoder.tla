------------------------------- MODULE Decoder -------------------------------
(***************************************************************************)
(* From a graph of readings to candidates: Decoder (cheime-pipeline/src/   *)
(* decoder.rs) with the language model that scores its paths               *)
(* (language_model.rs).                                                    *)
(*                                                                         *)
(* The decoder looks up the codes that sequences of edges spell, extends   *)
(* the best paths of every offset by what it finds and makes a candidate   *)
(* of every path that survives.  Its scores are 64-bit and saturate; the   *)
(* numbers of a model stay far from that.                                  *)
(***************************************************************************)
EXTENDS Readings, Lexicon

CONSTANTS
  BeamWidth, MaxHomographs, MaxSingleSyllableHomographs, MaxCandidates,
  MaxSyllablesPerLexeme, LongInputBytes, MaxSequences, MaxCostedSequences,
  PhraseBonus, PinnedBonus

ASSUME DecoderAssumption ==
  /\ {BeamWidth, MaxHomographs, MaxSingleSyllableHomographs, MaxCandidates,
      MaxSyllablesPerLexeme, LongInputBytes, MaxSequences, MaxCostedSequences}
       \subseteq Nat \ {0}
  /\ {PhraseBonus, PinnedBonus} \subseteq Nat

Later(flag) == IF flag THEN 1 ELSE 0

\* codes joined by Space.
Joined(codes) ==
  FoldLeft(LAMBDA joined, code : IF joined = <<>> THEN code
                                 ELSE Append(joined, Space) \o code, <<>>, codes)

-----------------------------------------------------------------------------
(***************************************************************************)
(* BackoffNgramModel: a model is the scores of its n-grams, sequences of   *)
(* one to three texts, and the score of an unknown text.                   *)
(***************************************************************************)
NullLanguageModel == [scores |-> <<>>, unknown |-> 0]

\* The longest known n-gram that ends in the token.
Score(model, context, token) ==
  LET n     == Len(context)
      grams == {SubSeq(context, k, n) \o <<token>> : k \in Max({1, n - 1}) .. n + 1}
                 \cap DOMAIN model.scores
  IN  IF grams = {} THEN model.unknown
      ELSE model.scores[CHOOSE gram \in grams : \A other \in grams : Len(other) <= Len(gram)]

-----------------------------------------------------------------------------
(***************************************************************************)
(* collect_sequences: sequences of edges from an offset, the cheapest      *)
(* first, as long as some lexicon has a longer code.                       *)
(***************************************************************************)
\* Variant for mutation: letters that nothing reads are passed over as well.
AnyRawSkipped(w, g, state) ==
  LET edges == SortedBy({e \in DOMAIN g : e.start = state.offset},
                        LAMBDA e : <<g[e], -e.end, Kind[e.kind]>> \o e.canonical)
      successor(e) ==
        IF e.kind = "Raw"
        THEN [state EXCEPT !.offset = e.end, !.emit = FALSE]
        ELSE [offset |-> e.end, edges |-> Append(state.edges, e),
              cost |-> state.cost + g[e], emit |-> TRUE]
  IN  [i \in DOMAIN edges |-> successor(edges[i])]

\* Variant for mutation: separators are not passed over.
NoSeparatorSkipped(w, g, state) ==
  LET edges == SortedBy({e \in DOMAIN g : e.start = state.offset /\ e.kind # "Raw"},
                        LAMBDA e : <<g[e], -e.end, Kind[e.kind]>> \o e.canonical)
  IN  [i \in DOMAIN edges |->
         [offset |-> edges[i].end, edges |-> Append(state.edges, edges[i]),
          cost |-> state.cost + g[edges[i]], emit |-> TRUE]]

\* The edges out of a state as new states, in the order they are pushed.
Successors(w, g, state) ==
  LET edges == SortedBy({e \in DOMAIN g :
                           /\ e.start = state.offset
                           /\ e.kind = "Raw" => RawOf(w, e) = <<Quote>>},
                        LAMBDA e : <<g[e], -e.end, Kind[e.kind]>> \o e.canonical)
      successor(e) ==
        IF e.kind = "Raw"
        THEN [state EXCEPT !.offset = e.end, !.emit = FALSE]
        ELSE [offset |-> e.end, edges |-> Append(state.edges, e),
              cost |-> state.cost + g[e], emit |-> TRUE]
  IN  [i \in DOMAIN edges |-> successor(edges[i])]

CodeOf(edges) == Joined([i \in DOMAIN edges |-> edges[i].canonical])

\* Variant for mutation: only whole codes are followed, not their beginnings.
EndsInCode(codes, state) ==
  \/ Len(state.edges) = MaxSyllablesPerLexeme
  \/ state.edges # <<>> /\ Last(state.edges).kind # "Complete"
  \/ state.emit /\ ~(CodeOf(state.edges) \in codes)

\* No longer lexeme can begin with these edges.
Ends(codes, state) ==
  \/ Len(state.edges) = MaxSyllablesPerLexeme
  \/ state.edges # <<>> /\ Last(state.edges).kind # "Complete"
  \/ state.emit /\ ~LongerCode(codes, CodeOf(state.edges))

RECURSIVE Explore(_, _, _, _, _, _)
Explore(w, g, codes, limit, frontier, found) ==
  IF frontier = <<>> \/ Len(found) = limit THEN found
  ELSE LET state  == Head(frontier)
           rest   == Tail(frontier)
           pushed == IF Ends(codes, state) THEN <<>>
                     ELSE Truncated(Successors(w, g, state), 4 * limit - Len(rest))
       IN  Explore(w, g, codes, limit,
                   Sorted(rest \o pushed, LAMBDA s : <<s.cost>>),
                   IF state.emit THEN Append(found, state) ELSE found)

Sequences(w, g, codes, start) ==
  Explore(w, g, codes,
          IF \E e \in DOMAIN g : g[e] # 0 THEN MaxCostedSequences ELSE MaxSequences,
          <<[offset |-> start, edges |-> <<>>, cost |-> 0, emit |-> FALSE]>>, <<>>)

-----------------------------------------------------------------------------
(***************************************************************************)
(* lexical_options: what the lexicons hold for the sequences.              *)
(***************************************************************************)
\* Only the last edge of a sequence may be an incomplete syllable.
AllComplete(edges) == \A i \in DOMAIN edges : edges[i].kind = "Complete"

CodesIn(lexicons) == UNION {Codes(lexicons[i]) : i \in DOMAIN lexicons}

\* What one lexicon holds for a sequence: for a begun syllable what completes it.
LookedUp(lexicon, s, limit) ==
  IF AllComplete(s.edges) THEN ExactLimited(lexicon, CodeOf(s.edges), limit)
                          ELSE Prefixed(lexicon, CodeOf(s.edges), limit)

AtCost(entries, s) ==
  [i \in DOMAIN entries |->
     [end |-> Last(s.edges).end, entry |-> entries[i], cost |-> s.cost]]

OptionsFor(s, decoder, w, start) ==
  LET limit == IF start = 0 /\ Last(s.edges).end = Len(w) /\ Len(s.edges) = 1
               THEN MaxSingleSyllableHomographs ELSE MaxHomographs
  IN  IF \/ AllComplete(s.edges)
         \/ decoder.completions /\ AllComplete(Front(s.edges))
      THEN FlattenSeq([i \in DOMAIN decoder.lexicons |->
                         AtCost(LookedUp(decoder.lexicons[i], s, limit), s)])
      ELSE <<>>

Ordered(options) ==
  Deduped(Sorted(options, LAMBDA o :
            <<o.cost - o.entry.weight>> \o o.entry.text \o <<0>>
              \o o.entry.code \o <<-1, o.end, o.cost>>),
          LAMBDA o : <<o.end, o.entry.text, o.entry.code>>)

OptionsOf(sequences, decoder, w, start) ==
  Ordered(FlattenSeq([i \in DOMAIN sequences |-> OptionsFor(sequences[i], decoder, w, start)]))

LexicalOptions(decoder, w, g, start) ==
  OptionsOf(Sequences(w, g, CodesIn(decoder.lexicons), start), decoder, w, start)

-----------------------------------------------------------------------------
(***************************************************************************)
(* decode.  A path keeps its lexemes, SelectedLexeme.                      *)
(***************************************************************************)
Root == [end |-> 0, lexemes |-> <<>>, syllables |-> 0, completion |-> FALSE, score |-> 0]

TextOf(lexemes)  == FlattenSeq([i \in DOMAIN lexemes |-> lexemes[i].text])
CodesOf(lexemes) == [i \in DOMAIN lexemes |-> lexemes[i].code]

Extended(path, option, model) ==
  LET entry == option.entry
      texts == [i \in DOMAIN path.lexemes |-> path.lexemes[i].text]
  IN  [end        |-> option.end,
       lexemes    |-> Append(path.lexemes, [text |-> entry.text, code |-> entry.code]),
       syllables  |-> path.syllables + SyllableCount(entry.code),
       completion |-> path.completion \/ entry.completion,
       score      |-> path.score + entry.weight
                        + (IF entry.source = <<"user", "pinned">> THEN PinnedBonus ELSE 0)
                        + (IF Space \in Range(entry.code) THEN PhraseBonus ELSE 0)
                        + Score(model, texts, entry.text) - Max({0, option.cost}),
       source     |-> IF path.lexemes = <<>> THEN entry.source ELSE path.source]

\* The order of prune_beam.
PathKey(path, whole, fewer, long) ==
  <<Later(path.completion), IF fewer THEN path.syllables ELSE 0,
    IF whole \/ long THEN Len(path.lexemes) ELSE 0, -path.score, Len(path.lexemes)>>
    \o TextOf(path.lexemes)

Pruned(beam, whole, fewer, long) ==
  Truncated(Deduped(Sorted(beam, LAMBDA p : PathKey(p, whole, fewer, long)),
                    LAMBDA p : <<TextOf(p.lexemes), CodesOf(p.lexemes)>>), BeamWidth)

\* Variant for mutation: what is one lexeme is complete.
LexemeIsComplete(path, n) ==
  [text |-> TextOf(path.lexemes), source |-> path.source, emoji |-> FALSE,
   end |-> path.end, code |-> Joined(CodesOf(path.lexemes)), lexemes |-> path.lexemes,
   complete |-> Len(path.lexemes) = 1, exact_phrase |-> Len(path.lexemes) = 1,
   completion |-> path.completion, score |-> path.score]

\* ResolvedCandidate.  consumed starts at 0, end is where it ends; the text of
\* the lexemes is the displayed one unless they are none, as of an emoji.
Resolved(path, n) ==
  [text |-> TextOf(path.lexemes), source |-> path.source, emoji |-> FALSE,
   end |-> path.end, code |-> Joined(CodesOf(path.lexemes)), lexemes |-> path.lexemes,
   complete |-> path.end = n, exact_phrase |-> Len(path.lexemes) = 1,
   completion |-> path.completion, score |-> path.score]

CandidateKey(c) ==
  <<Later(~c.complete), Later(c.completion), Later(~c.exact_phrase),
    SyllableCount(c.code), -c.score, Len(c.lexemes)>> \o c.text \o <<0>> \o c.code

\* Of candidates with one text the first stays.
FirstOfText(candidates) ==
  FoldLeft(LAMBDA kept, c : IF \E i \in DOMAIN kept : kept[i].text = c.text
                            THEN kept ELSE Append(kept, c), <<>>, candidates)

\* Each path extended by each option, or only the empty one.
Extensions(decoder, beam, options) ==
  FlattenSeq([i \in DOMAIN beam |->
    IF ~decoder.sentences /\ beam[i].lexemes # <<>> THEN <<>>
    ELSE [j \in DOMAIN options |-> Extended(beam[i], options[j], decoder.model)]])

\* The paths of a beam are resolved, and their extensions join the beams where
\* they end.
Advanced(decoding, start, n, beam, extensions) ==
  [beams    |-> [o \in 0 .. n |->
                   decoding.beams[o] \o SelectSeq(extensions, LAMBDA p : p.end = o)],
   resolved |-> IF start = 0 THEN <<>>
                ELSE decoding.resolved \o [i \in DOMAIN beam |-> Resolved(beam[i], n)]]

\* One turn of the loop over the offsets.
Step(decoder, decoding, w, g, start) ==
  LET long == Len(w) >= LongInputBytes
      beam == Pruned(decoding.beams[start], start = Len(w),
                     ~long /\ HasCompletePath(w, g), long)
  IN  Advanced(decoding, start, Len(w), beam,
               IF beam = <<>> \/ start = Len(w) THEN <<>>
               ELSE Extensions(decoder, beam, LexicalOptions(decoder, w, g, start)))

\* A decoder has its lexicons, whether it completes codes and composes sentences,
\* and its language model.
Decode(decoder, w, g) ==
  LET decoding == FoldLeft(LAMBDA before, start : Step(decoder, before, w, g, start),
                           [beams |-> [o \in 0 .. Len(w) |-> IF o = 0 THEN <<Root>> ELSE <<>>],
                            resolved |-> <<>>],
                           [i \in 1 .. Len(w) + 1 |-> i - 1])
  IN  Truncated(FirstOfText(Sorted(decoding.resolved, CandidateKey)), MaxCandidates)

=============================================================================
