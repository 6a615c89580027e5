----------------------------- MODULE Resolution -----------------------------
(***************************************************************************)
(* Candidates for a code, from the schema to the list a session shows:     *)
(* PipelineFactory (cheime-pipeline/src/factory.rs) builds the stages,     *)
(* ComposablePipeline::resolve_composition (lib.rs) runs them, and the     *)
(* session types, picks a part of the code, and commits, upon which the    *)
(* learning service (learning.rs) adds to the store the decoder looks in.  *)
(***************************************************************************)
EXTENDS Decoder, DoublePinyin, Ranking

CONSTANTS
  Schemas,       \* the engine sections a session may run with
  Dictionary,    \* the lines of the deployed dictionary
  EmojiIndex,    \* keyword -> emojis, what load reads
  Keyable,       \* the characters that are typed
  StoredWords,   \* words the store may hold at the start
  MaxInput,      \* bounds of the model: the longest code,
  MaxWords,      \*   words that are learned,
  MaxUses        \*   and their frequency

-----------------------------------------------------------------------------
(***************************************************************************)
(* PipelineFactory.  A schema is a record: input ("quanpin", "double",     *)
(* "segmentor" for the legacy pinyin_syllable, "none"), options (what      *)
(* normalizes), models and keys (of double pinyin), layout, translators,   *)
(* filters, and whether a dictionary and a user store are there.           *)
(***************************************************************************)
\* BuildError: what build refuses.
Builds(schema) ==
  /\ schema.input = "double" =>
       /\ ValidKeys(schema.keys)
       /\ "mistouch" \in schema.models => schema.layout = "qwerty"
       /\ "confusion" \in schema.models => ValidConfusion(ConfusionRules)
  /\ \A i \in DOMAIN schema.filters : schema.filters[i] # "simplifier_without_table"

\* build_segmentor, and PassthroughSegmentor for a schema without one.
SegmentWith(schema, w) ==
  CASE schema.input \in {"quanpin", "segmentor"} -> Segment(w, schema.options)
    [] schema.input = "double" -> SegmentKeys(schema.keys, w, schema.models)
    [] schema.input = "none"   ->
         IF w = <<>> THEN EmptyGraph ELSE Edge(0, Len(w), w, "Raw") :> 0

\* build_normalizer: abbreviations are for full pinyin only.
NormalizeWith(schema, w, g) ==
  Fuzzied(IF schema.input \in {"quanpin", "segmentor"} THEN Abbreviated(w, g) ELSE g,
          schema.options)

\* build_translators: a dictionary where there is one, the user's words by
\* themselves where there is none, the code itself where there is nothing.
DictTranslator(completion, sentence) ==
  [kind |-> "dict", completion |-> completion, sentence |-> sentence]
EmojiTranslator == [kind |-> "emoji"]

Translators(schema) ==
  LET built(tc) ==
        CASE tc.kind \in {"dict", "table"} ->
               IF schema.dictionary THEN <<DictTranslator(tc.completion, tc.sentence)>>
                                    ELSE <<>>
          [] tc.kind = "emoji" -> <<EmojiTranslator>>
          [] OTHER             -> <<>>
      configured ==
        IF schema.translators = <<>>
        THEN (IF schema.dictionary THEN <<DictTranslator(TRUE, TRUE)>> ELSE <<>>)
               \o <<EmojiTranslator>>
        ELSE FlattenSeq([i \in DOMAIN schema.translators |-> built(schema.translators[i])])
      hasDictionary == \E i \in DOMAIN configured : configured[i].kind = "dict"
      all == IF schema.store /\ ~hasDictionary THEN <<[kind |-> "user"]>> \o configured
                                               ELSE configured
  IN  IF all = <<>> THEN <<[kind |-> "passthrough"]>> ELSE all

Filter(name, candidates) ==
  CASE name = "uniquifier" -> Dedup(candidates)
    [] name = "simplifier" -> Simplify(candidates)
    [] OTHER               -> candidates

-----------------------------------------------------------------------------
(***************************************************************************)
(* Translators: translate_graph of each kind.                              *)
(***************************************************************************)
Index == Build(Dictionary)

Canonicals(path) == [i \in DOMAIN path |-> path[i].canonical]
PathCodes(w, g)  == Canonicals(PrimaryPath(w, g))

\* What a translator makes of the primary path, as the trait's translate_graph
\* and from_display wrap it.
Displayed(text, source, w, code, lexical) ==
  [text |-> text, source |-> source, emoji |-> source = <<"emoji">>, end |-> Len(w),
   code |-> code,
   lexemes |-> IF lexical THEN <<[text |-> text, code |-> code]>> ELSE <<>>,
   complete |-> TRUE, exact_phrase |-> lexical, completion |-> FALSE, score |-> 0]

EmojisOf(keyword) == IF keyword \in DOMAIN EmojiIndex THEN EmojiIndex[keyword] ELSE <<>>

\* EmojiTranslator::translate: for every segment, then for all of them.
Emojis(w, codes) ==
  LET texts == FlattenSeq([i \in DOMAIN codes |-> EmojisOf(codes[i])])
                 \o IF Len(codes) > 1 THEN EmojisOf(Joined(codes)) ELSE <<>>
  IN  [i \in DOMAIN texts |-> Displayed(texts[i], <<"emoji">>, w, Joined(codes), FALSE)]

\* UserDictTranslator: a code that nothing segments is looked up as it is.
Unsegmented(w, code, words) ==
  LET found == UserEntries(Matching(words, code, FALSE), FALSE)
  IN  [i \in DOMAIN found |-> Displayed(found[i].text, found[i].source, w, code, TRUE)]

Passthrough(w, codes) ==
  IF w = <<>> THEN <<>>
  ELSE <<Displayed(FlattenSeq(codes), <<"passthrough">>, w, Joined(codes), FALSE)>>

\* The decoder of a translator: a dictionary's looks in the user store first.
DecoderOf(translator, schema, words) ==
  LET dictionary == translator.kind = "dict"
  IN  [lexicons    |-> (IF schema.store THEN <<UserLexicon(words)>> ELSE <<>>)
                         \o (IF dictionary THEN <<Index>> ELSE <<>>),
       completions |-> dictionary => translator.completion,
       sentences   |-> dictionary => translator.sentence,
       model       |-> schema.model]

TranslateGraph(translator, schema, w, g, words) ==
  CASE translator.kind = "emoji"       -> Emojis(w, PathCodes(w, g))
    [] translator.kind = "passthrough" -> Passthrough(w, PathCodes(w, g))
    [] translator.kind = "user" /\ \A e \in DOMAIN g : e.kind = "Raw" ->
         Unsegmented(w, Joined(PathCodes(w, g)), words)
    [] OTHER -> Decode(DecoderOf(translator, schema, words), w, g)

-----------------------------------------------------------------------------
(***************************************************************************)
(* resolve_composition.  Candidates that the processor injects come with   *)
(* the graph of the mark they are for; see Pipeline.                       *)
(***************************************************************************)
GraphOf(schema, w) == NormalizeWith(schema, w, SegmentWith(schema, w))

Translated(translators, schema, w, g, words) ==
  FlattenSeq([i \in DOMAIN translators |->
                TranslateGraph(translators[i], schema, w, g, words)])

Found(schema, w, g, words) ==
  FoldLeft(LAMBDA candidates, name : Filter(name, candidates),
           Translated(Translators(schema), schema, w, g, words), schema.filters)

Resolution(schema, w, words) == RankAll(Found(schema, w, GraphOf(schema, w), words))

-----------------------------------------------------------------------------
(***************************************************************************)
(* The session: keys, partial selections and commits.                      *)
(***************************************************************************)
VARIABLES
  schema,       \* what the pipeline was built from
  words,        \* the user store: [text, code, frequency, pinned], and what each
                \*   word was learned from, perhaps from a begun syllable
  input,        \* the active code
  confirmed,    \* what has been picked, and the code it was picked from
  candidates    \* the candidates of the active code

vars == <<schema, words, input, confirmed, candidates>>

Nothing == [text |-> <<>>, codes |-> <<>>, lexical |-> FALSE, typed |-> <<>>, begun |-> FALSE]

Resolve(w) == /\ input' = w
              /\ candidates' = Resolution(schema, w, words')

\* Bound of the model: what a word was learned from is typed again, and no more.
Typable(code) ==
  /\ Len(code) <= MaxInput
  /\ words \in StoredWords \/ \E word \in words : IsPrefix(code, word.from)

Type == \E c \in Keyable :
  /\ Typable(confirmed.typed \o Append(input, c))
  /\ UNCHANGED <<schema, words, confirmed>>
  /\ Resolve(Append(input, c))

Picked(c) ==
  [text    |-> confirmed.text \o c.text,
   codes   |-> Append(confirmed.codes, c.code),
   lexical |-> confirmed.lexical \/ c.lexemes # <<>>,
   typed   |-> confirmed.typed \o SubSeq(input, 1, c.end),
   begun   |-> confirmed.begun \/ c.completion]

\* select_candidate with a candidate that leaves a rest.
Select == \E i \in DOMAIN candidates :
  /\ ~candidates[i].complete
  /\ confirmed' = Picked(candidates[i])
  /\ UNCHANGED <<schema, words>>
  /\ Resolve(SubSeq(input, candidates[i].end + 1, Len(input)))

\* UserStore::apply of a learn_word event.
Learned(text, code, typed, begun) ==
  IF \E word \in words : word.text = text /\ word.code = code
  THEN {IF word.text = text THEN [word EXCEPT !.frequency = @ + 1] ELSE word : word \in words}
  ELSE words \cup {[text |-> text, code |-> code, frequency |-> 1, pinned |-> FALSE,
                    from |-> typed, begun |-> begun]}

WithinBounds(learned) ==
  /\ Cardinality(learned) <= MaxWords
  /\ \A word \in learned : word.frequency <= MaxUses

\* Variant for mutation: the code of the last selection is learned.
CommitLastCode == \E i \in DOMAIN candidates :
  LET picked == Picked(candidates[i])
      learned == Learned(picked.text, Last(picked.codes), picked.typed, picked.begun)
  IN  /\ candidates[i].complete
      /\ schema.store /\ picked.lexical /\ WithinBounds(learned)
      /\ words' = learned
      /\ confirmed' = Nothing
      /\ UNCHANGED schema
      /\ Resolve(<<>>)

\* A complete candidate is committed and the commit applied.  A phrase the
\* decoder knew is learned at once, a new one is staged and learned unless it
\* is taken back; what is not a word is not learned.
Commit == \E i \in DOMAIN candidates :
  LET picked  == Picked(candidates[i])
      known   == confirmed = Nothing /\ candidates[i].exact_phrase
      learned == Learned(picked.text, Joined(picked.codes), picked.typed, picked.begun)
  IN  /\ candidates[i].complete
      /\ \/ /\ schema.store /\ picked.lexical
            /\ WithinBounds(learned)
            /\ words' = learned
         \/ /\ ~(schema.store /\ picked.lexical /\ known)
            /\ UNCHANGED words
      /\ confirmed' = Nothing
      /\ UNCHANGED schema
      /\ Resolve(<<>>)

Init ==
  /\ schema \in {s \in Schemas : Builds(s)}
  /\ words \in IF schema.store THEN StoredWords ELSE {{}}
  /\ input = <<>> /\ candidates = <<>>
  /\ confirmed = Nothing

Next == Type \/ Select \/ Commit

Spec == Init /\ [][Next]_vars

-----------------------------------------------------------------------------
(***************************************************************************)
(* Reference definitions: what a code spells, without a search order.      *)
(***************************************************************************)
\* The sequences of syllables from an offset, separators skipped: where each
\* ends, its code and whether the last syllable is only begun.
Spans(w, g, o) ==
  LET from[k \in 0 .. MaxSyllablesPerLexeme, p \in 0 .. Len(w)] ==
        LET edges    == {e \in DOMAIN g : e.start = p}
            skipped  == {e \in edges : e.kind = "Raw" /\ RawOf(w, e) = <<Quote>>}
            one(e)   == [end |-> e.end, codes |-> <<e.canonical>>,
                         begun |-> e.kind = "Incomplete"]
        IN  IF k = 0 THEN {}
            ELSE UNION {from[k, e.end] : e \in skipped}
                 \cup {one(e) : e \in {d \in edges : d.kind # "Raw"}}
                 \cup UNION {{[s EXCEPT !.codes = <<e.canonical>> \o @] : s \in from[k - 1, e.end]} :
                               e \in {d \in edges : d.kind = "Complete"}}
  IN  from[MaxSyllablesPerLexeme, o]

\* A lexeme stands for a span whose code it has, or completes.
StandsFor(code, span) ==
  IF span.begun THEN IsPrefix(Joined(span.codes), code) ELSE Joined(span.codes) = code

HasDecoder == \E i \in DOMAIN Translators(schema) : Translators(schema)[i].kind \in {"dict", "user"}
Sentences  == \A i \in DOMAIN Translators(schema) :
                Translators(schema)[i].kind = "dict" => Translators(schema)[i].sentence

\* [text, code] of everything the decoder can look up.
Entries ==
  (IF \E i \in DOMAIN Translators(schema) : Translators(schema)[i].kind = "dict"
   THEN {[text |-> line.text, code |-> line.code] : line \in Range(Dictionary)} ELSE {})
  \cup {[text |-> word.text, code |-> word.code] : word \in words}

\* How many paths of lexemes end at every offset: more than the beam holds crowd
\* out even a single lexeme that has more syllables than they.
Paths(w, g) ==
  LET spans   == [p \in 0 .. Len(w) |-> Spans(w, g, p)]
      entries == Entries
      options(p, o) == {e \in entries : \E s \in spans[p] : s.end = o /\ StandsFor(e.code, s)}
      paths[o \in 0 .. Len(w)] ==
        IF o = 0 THEN 1
        ELSE FoldSet(LAMBDA p, n : n + (IF paths[p] = 0 THEN 0
                                        ELSE paths[p] * Cardinality(options(p, o))),
                     0, 0 .. o - 1)
  IN  paths

Shown(text) == IF "simplifier" \in Range(schema.filters) THEN ConvertText(text) ELSE text

-----------------------------------------------------------------------------
(***************************************************************************)
(* Properties.  What a rest resolves to is what it resolves to when it is  *)
(* typed, so that those about resolution look at states without a pick.    *)
(***************************************************************************)

\* Types: what a session takes from a candidate is inside the code.
TypeOK ==
  /\ schema \in Schemas
  /\ WithinBounds(words) \/ words \in StoredWords
  /\ input \in Seq(Keyable)
  /\ Len(confirmed.typed) + Len(input) <= MaxInput
  /\ \A i \in DOMAIN candidates :
       candidates[i].end \in 1 .. Len(input)
       /\ (candidates[i].complete <=> candidates[i].end = Len(input))

\* The offsets a lexeme leads to from one of these.
After(lexeme, offsets, spans) ==
  UNION {{s.end : s \in {t \in spans[o] : StandsFor(lexeme.code, t)}} : o \in offsets}

SpellsItsCode(c, spans) ==
  c.end \in FoldLeft(LAMBDA offsets, lexeme : After(lexeme, offsets, spans), {0}, c.lexemes)

AllSpans(w, g) == [o \in 0 .. Len(w) |-> Spans(w, g, o)]

AreReadings(spans, lexicon) ==
  \A i \in DOMAIN candidates : candidates[i].lexemes # <<>> =>
    /\ SpellsItsCode(candidates[i], spans)
    /\ Range(candidates[i].lexemes) \subseteq lexicon
    /\ candidates[i].text = TextOf(candidates[i].lexemes)

\* What a candidate says is what was typed: its lexemes are entries of a
\* lexicon, one behind the other they spell the code it consumes, separators
\* skipped and nothing left out, and its text is theirs.
CandidatesAreReadings ==
  schema.input # "none" /\ confirmed = Nothing =>
    AreReadings(AllSpans(input, GraphOf(schema, input)),
                {[text |-> Shown(e.text), code |-> e.code] : e \in Entries})

AreOffered(entries, spans, paths) ==
  \A s \in {t \in spans : ~t.begun} : \A e \in entries :
    e.code = Joined(s.codes) /\ paths[s.end] <= BeamWidth =>
      \E i \in DOMAIN candidates :
        /\ candidates[i].text = Shown(e.text)
        /\ s.end = Len(input) => candidates[i].complete

\* The search leaves nothing out: every entry that the code or a beginning of
\* it spells is offered, as a complete candidate where it is the whole code.
EntriesAreOffered ==
  HasDecoder /\ schema.input # "none" /\ confirmed = Nothing =>
    AreOffered(Entries, Spans(input, GraphOf(schema, input), 0),
               Paths(input, GraphOf(schema, input)))

\* Whether the codes of entries spell a code from its beginning to its end.
IsSpelled(codes, spans, n) ==
  LET reached[o \in 0 .. n] ==
        o = 0 \/ \E p \in 0 .. o - 1 :
          reached[p] /\ \E s \in spans[p] : s.end = o /\ ~s.begun /\ Joined(s.codes) \in codes
  IN  reached[n]

\* A code that can be spelled by entries can be committed: some candidate is
\* complete, unless the code ends with a separator.
CodeCanBeCommitted ==
  HasDecoder /\ Sentences /\ schema.input # "none" /\ confirmed = Nothing
    /\ input # <<>>
    /\ IsSpelled({e.code : e \in Entries}, AllSpans(input, GraphOf(schema, input)),
                 Len(input)) =>
    \E i \in DOMAIN candidates : candidates[i].complete

\* What was learned from a code of whole syllables or abbreviations is offered
\* for that code, whole, where the beam has a place for it.  Lost are words with
\* a separator in their code, which an emoji chosen behind a picked word leaves
\* there.
LearnedIsOffered ==
  confirmed = Nothing =>
    \A word \in words :
      word.from = input /\ ~word.begun /\ Quote \notin Range(word.code)
        /\ Paths(input, GraphOf(schema, input))[Len(input)] <= BeamWidth =>
      \E i \in DOMAIN candidates :
        candidates[i].complete /\ candidates[i].text = Shown(word.text)

StillAt(place, text, list) == \E j \in DOMAIN list : j <= place /\ list[j].text = text

\* Choosing a candidate for a code of whole syllables does not move it down the
\* list for the same code.
LearningKeepsPlace ==
  confirmed = Nothing /\ words = {} /\ schema.store
    /\ HasCompletePath(input, SegmentWith(schema, input)) =>
    \A i \in 1 .. Min({3, Len(candidates)}) :
      LET c == candidates[i]
      IN  c.complete /\ c.lexemes # <<>> =>
            StillAt(i, c.text,
                    Resolution(schema, input, Learned(c.text, c.code, input, c.completion)))

=============================================================================
