------------------------------- MODULE Lexicon -------------------------------
(***************************************************************************)
(* What a code looks up: the dictionary indexes of cheime-dictionary,      *)
(* MemoryIndex (index.rs) and TieredIndex (tiered.rs), the queries of      *)
(* UserStore (cheime-user-data/src/event.rs) and the trait Lexicon through *)
(* which the decoder asks all three (decoder.rs, translator.rs).           *)
(*                                                                         *)
(* Texts and codes are sequences of positive numbers; a code joins its     *)
(* syllables by Space, which sorts before every letter.  The source of an  *)
(* entry is the sequence of its parts: "dict:<hash>" is <<"dict">>.        *)
(***************************************************************************)
EXTENDS Orders

CONSTANT NoWeight       \* None: a dictionary line that gives no weight

Space == 0

SyllableCount(code) ==
  Cardinality({i \in DOMAIN code :
                 code[i] # Space /\ (i = 1 \/ code[i - 1] = Space)})

UnwrapOr(weight, default) == IF weight = NoWeight THEN default ELSE weight

LexiconEntry(text, code, weight, source, completion) ==
  [text |-> text, code |-> code, weight |-> weight, source |-> source,
   completion |-> completion]

\* The order of lookup_prefix: the heaviest first, then by text and code.
EntryKey(e) == <<-e.weight>> \o e.text \o <<0>> \o e.code

-----------------------------------------------------------------------------
(***************************************************************************)
(* MemoryIndex.                                                            *)
(***************************************************************************)
\* normalize_groups: the heaviest of the lines of one text, heaviest first.
Heavier(kept, e) ==
  IF /\ e.text \in DOMAIN kept
     /\ UnwrapOr(e.weight, 0) <= UnwrapOr(kept[e.text], 0)
  THEN kept
  ELSE [t \in DOMAIN kept \union {e.text} |-> IF t = e.text THEN e.weight ELSE kept[t]]

NormalizeGroup(group) ==
  LET kept == FoldLeft(Heavier, <<>>, group)
  IN  SortedBy({[text |-> t, weight |-> kept[t]] : t \in DOMAIN kept},
               LAMBDA e : <<-UnwrapOr(e.weight, 0)>> \o e.text)

\* MemoryIndex::build.
Build(entries) ==
  [kind    |-> "memory",
   total   |-> Len(entries),
   entries |-> [code \in {entries[i].code : i \in DOMAIN entries} |->
                  NormalizeGroup(Selected(entries, LAMBDA e : e.code = code))]]

\* MemoryIndex::from_fragment: the groups of several fragments, normalized.
FromFragment(total, groups) ==
  [kind |-> "memory", total |-> total,
   entries |-> [code \in DOMAIN groups |-> NormalizeGroup(groups[code])]]

GroupOf(entries, code) == IF code \in DOMAIN entries THEN entries[code] ELSE <<>>

MemoryExact(index, code, limit) ==
  LET group == Truncated(GroupOf(index.entries, code), limit)
  IN  [i \in DOMAIN group |->
         LexiconEntry(group[i].text, code, UnwrapOr(group[i].weight, 1),
                      <<"dict">>, FALSE)]

\* lookup_prefix: the heap keeps the limit best.
MemoryPrefix(index, prefix, limit) ==
  LET below == {code \in DOMAIN index.entries : IsPrefix(prefix, code)}
      found(code) == {LexiconEntry(e.text, code, UnwrapOr(e.weight, 1), <<"dict">>,
                                   code # prefix) : e \in Range(index.entries[code])}
  IN  Truncated(SortedBy(UNION {found(code) : code \in below}, EntryKey), limit)

CodePrefix(codes, prefix) == \E code \in codes : IsPrefix(prefix, code)

\* The first code above this one; a Space sorts first, so it is the longer one.
LongerCode(codes, code) == CodePrefix(codes, Append(code, Space))

-----------------------------------------------------------------------------
(***************************************************************************)
(* TieredIndex: the first entries of every code in memory, all of them in  *)
(* the file, whose answers are merged and deduplicated by text.            *)
(***************************************************************************)
\* TieredIndex::new over the groups of a MemoryIndex and the file's.
BuildTiered(groups, cold, hotEntriesPerCode) ==
  [kind |-> "tiered",
   total |-> FoldSet(LAMBDA code, n : n + Len(groups[code]), 0, DOMAIN groups),
   hot  |-> [code \in DOMAIN groups |-> Truncated(groups[code], hotEntriesPerCode)],
   cold |-> cold]

\* Variant for mutation: the file answers only for a code not in memory.
MergedOrHot(index, code) ==
  IF code \in DOMAIN index.hot THEN index.hot[code] ELSE GroupOf(index.cold, code)

\* Hot entries, then the cold ones whose text is not yet there.
Merged(index, code) ==
  FoldLeft(LAMBDA all, e : IF \E i \in DOMAIN all : all[i].text = e.text
                           THEN all ELSE Append(all, e),
           <<>>, GroupOf(index.hot, code) \o GroupOf(index.cold, code))

TieredExact(index, code) ==
  LET all == Sorted(Merged(index, code), LAMBDA e : <<-e.weight>> \o e.text)
  IN  [i \in DOMAIN all |->
         LexiconEntry(all[i].text, code, all[i].weight, <<"dict">>, FALSE)]

TieredPrefix(index, prefix, limit) ==
  LET below == {code \in DOMAIN index.hot : IsPrefix(prefix, code)}
      found(code) == {LexiconEntry(e.text, code, e.weight, <<"dict">>, code # prefix) :
                        e \in Range(Merged(index, code))}
  IN  Truncated(SortedBy(UNION {found(code) : code \in below}, EntryKey), limit)

-----------------------------------------------------------------------------
(***************************************************************************)
(* The user's words: UserStore::query_matching.  A store is the set of its *)
(* words, one code for each text.                                          *)
(***************************************************************************)
UserLexicon(words) == [kind |-> "user", words |-> words]

LearnedWeightPerUse == 200000

\* Of the words with a code, or of those it begins.
Matching(words, code, begun) ==
  SortedBy({w \in words : IF begun THEN IsPrefix(code, w.code) ELSE w.code = code},
           LAMBDA w : <<IF w.pinned THEN 0 ELSE 1, -w.frequency>> \o w.text)

\* UserLexicon::entries.
UserEntries(words, completion) ==
  [i \in DOMAIN words |->
     LexiconEntry(words[i].text, words[i].code,
                  Max({0, words[i].frequency}) * LearnedWeightPerUse,
                  <<"user", IF words[i].pinned THEN "pinned" ELSE "learned">>,
                  completion)]

-----------------------------------------------------------------------------
(***************************************************************************)
(* The trait Lexicon, by kind.                                             *)
(***************************************************************************)
ExactLimited(lexicon, code, limit) ==
  CASE lexicon.kind = "memory" -> MemoryExact(lexicon, code, limit)
    [] lexicon.kind = "tiered" -> Truncated(TieredExact(lexicon, code), limit)
    [] lexicon.kind = "user"   ->
         Truncated(UserEntries(Matching(lexicon.words, code, FALSE), FALSE), limit)

Prefixed(lexicon, code, limit) ==
  CASE lexicon.kind = "memory" -> MemoryPrefix(lexicon, code, limit)
    [] lexicon.kind = "tiered" -> TieredPrefix(lexicon, code, limit)
    [] lexicon.kind = "user"   ->
         Truncated(UserEntries(Matching(lexicon.words, code, TRUE), TRUE), limit)

Codes(lexicon) ==
  CASE lexicon.kind = "memory" -> DOMAIN lexicon.entries
    [] lexicon.kind = "tiered" -> DOMAIN lexicon.hot
    [] lexicon.kind = "user"   -> {w.code : w \in lexicon.words}

HasLonger(lexicon, code) == LongerCode(Codes(lexicon), code)

=============================================================================
