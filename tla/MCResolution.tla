---------------------------- MODULE MCResolution ----------------------------
(***************************************************************************)
(* Candidates of codes of two letters and the separator.  Real syllables:  *)
(* a, an, na, nan, la, lan; n may stand for l when fuzzy.                  *)
(***************************************************************************)
EXTENDS Resolution

a == 2
l == 3
n == 4
MCLetter   == {a, l, n}
MCSyllable == {<<a>>, <<a, n>>, <<n, a>>, <<n, a, n>>, <<l, a>>, <<l, a, n>>}
MCRules    == <<[from |-> <<n>>, to |-> <<l>>]>>

Line(text, code, weight) == [text |-> text, code |-> code, weight |-> weight]

\* A text in two codes, a phrase with the text of two words, a line twice.
MCDictionary ==
  <<Line(<<1>>, <<a>>, 10), Line(<<2>>, <<a, n>>, 20),
    Line(<<3>>, <<n, a>>, 30), Line(<<4>>, <<n, a>>, 25),
    Line(<<5>>, <<n, a, n>>, 15), Line(<<9, 1>>, <<l, a, Space, a>>, 12),
    Line(<<6, 7>>, <<n, a, Space, n, a>>, 5),
    Line(<<2, 3>>, <<a, n, Space, n, a>>, 4),
    Line(<<1>>, <<n, a, n, Space, a>>, NoWeight),
    Line(<<3>>, <<n, a>>, NoWeight)>>

MCEmojiIndex == (<<n, a>> :> <<<<21>>>>) @@ (<<n, a, Space, n, a>> :> <<<<22>>, <<21>>>>)
MCCharMap    == (3 :> <<13>>) @@ (4 :> <<13>>)

MCKeys ==
  <<[key |-> a, initial |-> <<>>, finals |-> <<<<a>>>>, single |-> TRUE],
    [key |-> n, initial |-> <<n>>, finals |-> <<<<a, n>>>>, single |-> FALSE],
    [key |-> l, initial |-> <<l>>, finals |-> <<<<a>>, <<a, n>>>>, single |-> FALSE]>>
MCNeighbors == (a :> {l}) @@ (l :> {a, n}) @@ (n :> {l})
MCConfusionRules == <<[from |-> <<n, n>>, to |-> <<n, a>>, cost |-> NoCost]>>

\* One word is known, and a phrase of two.
MCModel == [scores |-> (<<<<3>>>> :> 2) @@ (<<<<3>>, <<1>>>> :> 9), unknown |-> -5]

Schema(in, options, models, translators, filters, dictionary, store) ==
  [input |-> in, options |-> options, models |-> models, keys |-> MCKeys,
   layout |-> "qwerty", translators |-> translators, filters |-> filters,
   dictionary |-> dictionary, store |-> store,
   model |-> IF in = "segmentor" THEN MCModel ELSE NullLanguageModel]

Dict(completion, sentence) ==
  [kind |-> "dict", completion |-> completion, sentence |-> sentence]

MCSchemas ==
  {Schema("quanpin", {"correction", "fuzzy"}, {}, <<Dict(TRUE, TRUE), [kind |-> "emoji"]>>,
          <<"uniquifier">>, TRUE, TRUE),
   Schema("segmentor", {}, {}, <<>>, <<"simplifier", "uniquifier">>, TRUE, TRUE),
   Schema("double", {}, {"mistouch", "confusion"},
          <<Dict(FALSE, TRUE), [kind |-> "script"]>>, <<"uniquifier">>, TRUE, TRUE),
   Schema("quanpin", {}, {}, <<[kind |-> "emoji"]>>, <<"other">>, FALSE, TRUE),
   Schema("none", {}, {}, <<[kind |-> "script"]>>, <<>>, FALSE, TRUE),
   Schema("none", {}, {}, <<[kind |-> "script"]>>, <<>>, FALSE, FALSE)}

MCStoredWords ==
  {{}, {[text |-> <<4>>, code |-> <<n, a>>, frequency |-> 1, pinned |-> TRUE,
         from |-> <<n, a>>, begun |-> FALSE]}}
=============================================================================
