------------------------------ MODULE Ranking ------------------------------
(***************************************************************************)
(* What becomes of the candidates of all translators: DedupFilter          *)
(* (cheime-pipeline/src/filter.rs), SimplifierFilter (simplifier.rs) and   *)
(* UnifiedRanker (ranker.rs).  Candidates are the decoder's records.       *)
(***************************************************************************)
EXTENDS Lexicon

CONSTANTS
  LongCompositionSyllables, PrimaryWindow, MaxChunkSyllables, EmojiPosition,
  CharMap      \* the table of a simplifier: [character -> text]

ASSUME RankingAssumption ==
  {LongCompositionSyllables, PrimaryWindow, MaxChunkSyllables, EmojiPosition} \subseteq Nat \ {0}

-----------------------------------------------------------------------------
(***************************************************************************)
(* Filters.                                                                *)
(***************************************************************************)
\* DedupFilter: of one text the best scored, in the place of the first.
Dedup(candidates) ==
  FoldLeft(LAMBDA kept, c :
             IF \E i \in DOMAIN kept : kept[i].text = c.text
             THEN [i \in DOMAIN kept |->
                     IF kept[i].text = c.text /\ c.score > kept[i].score THEN c ELSE kept[i]]
             ELSE Append(kept, c), <<>>, candidates)

ConvertText(text) ==
  FlattenSeq([i \in DOMAIN text |->
                IF text[i] \in DOMAIN CharMap THEN CharMap[text[i]] ELSE <<text[i]>>])

\* A converted candidate: its source is annotated, its lexemes converted.
Converted(c) ==
  [c EXCEPT !.text = ConvertText(c.text),
            !.source = Append(c.source, "converted"),
            !.lexemes = [i \in DOMAIN c.lexemes |->
                           [c.lexemes[i] EXCEPT !.text = ConvertText(@)]]]

\* SimplifierFilter: of the converted candidates the first of each text stays.
Simplify(candidates) ==
  LET step(kept, c) ==
        IF ConvertText(c.text) = c.text THEN [kept EXCEPT !.list = Append(@, c)]
        ELSE IF ConvertText(c.text) \in kept.seen THEN kept
        ELSE [list |-> Append(kept.list, Converted(c)),
              seen |-> kept.seen \cup {ConvertText(c.text)}]
  IN  FoldLeft(step, [list |-> <<>>, seen |-> {}], candidates).list

-----------------------------------------------------------------------------
(***************************************************************************)
(* UnifiedRanker.                                                          *)
(***************************************************************************)
\* Variant for mutation: only pinned words of the user are known by name.
UserWordsLast(source) ==
  CASE IsPrefix(<<"user", "pinned">>, source) -> 5
    [] IsPrefix(<<"dict", "exact">>, source)  -> 4
    [] source[1] = "dict" /\ ~IsPrefix(<<"dict", "exact">>, source) -> 3
    [] source = <<"builtin">> -> 2
    [] source = <<"emoji">>   -> 1
    [] OTHER -> 0

\* candidate_tier.  An annotated source keeps its beginning only.
Tier(source) ==
  CASE IsPrefix(<<"user", "pinned">>, source) -> 5
    [] IsPrefix(<<"dict", "exact">>, source)  -> 4
    [] source[1] \in {"dict", "user"} /\ ~IsPrefix(<<"user", "pinned">>, source)
         /\ ~IsPrefix(<<"dict", "exact">>, source) -> 3
    [] source = <<"builtin">> -> 2
    [] source = <<"emoji">>   -> 1
    [] OTHER -> 0

\* score() without what a tier has in common: the decoder's score, and below
\* one point of it, in parts of 1/600, up to 0.3 for a short text and 0.05 for
\* an emoji.
Bonus(c) == 180 \div Max({1, Len(c.text)}) + IF c.emoji THEN 30 ELSE 0

RankKey(c) ==
  <<-Tier(c.source), IF c.complete THEN 0 ELSE 1, IF c.completion THEN 1 ELSE 0,
    IF c.exact_phrase THEN 0 ELSE 1, SyllableCount(c.code), -c.score, -Bonus(c)>>

Ranked(candidates) == Sorted(candidates, RankKey)

\* diversify_long_composition: behind the first candidate, the chunks that can
\* be confirmed on their own fill the first page.
Diversified(candidates) ==
  LET whole     == SelectSeq(candidates, LAMBDA c : c.complete)
      fullSpan  == Max({0} \cup {whole[i].end : i \in DOMAIN whole})
      syllables == Max({0} \cup {SyllableCount(whole[i].code) :
                                   i \in {j \in DOMAIN whole : whole[j].end = fullSpan}})
      isChunk(c) == /\ ~c.complete /\ ~c.completion /\ c.end \in 1 .. fullSpan - 1
                    /\ SyllableCount(c.code) <= MaxChunkSyllables
      chunks    == SelectSeq([i \in 1 .. Len(candidates) - 1 |-> i + 1],
                             LAMBDA i : isChunk(candidates[i]))
      page      == Range(Truncated(chunks, PrimaryWindow - 1))
      place(i)  == IF i = 1 THEN 0 ELSE IF i \in page THEN 1 ELSE 2
      order     == Sorted([i \in DOMAIN candidates |-> i], LAMBDA i : <<place(i)>>)
  IN  IF Len(candidates) <= 1 \/ syllables < LongCompositionSyllables THEN candidates
      ELSE [i \in DOMAIN order |-> candidates[order[i]]]

\* position_primary_emoji: the first emoji goes to the fifth place, in a list of
\* up to five to the last but one.
EmojiPositioned(candidates) ==
  LET emoji  == SelectInSeq(candidates, LAMBDA c : c.emoji)
      n      == Len(candidates)
      target == IF n <= EmojiPosition + 1 THEN Max({0, n - 2}) ELSE EmojiPosition
  IN  IF emoji = 0 THEN candidates
      ELSE InsertAt(RemoveAt(candidates, emoji), target + 1, candidates[emoji])

RankAll(candidates) == EmojiPositioned(Diversified(Ranked(candidates)))

=============================================================================
