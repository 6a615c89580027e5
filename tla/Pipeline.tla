------------------------------ MODULE Pipeline ------------------------------
(***************************************************************************)
(* The input pipeline as an engine session calls it: ComposablePipeline    *)
(* (cheime-pipeline/src/lib.rs) without a key mapper, its processor being  *)
(* the PunctProcessor wrapped round the DefaultProcessor.                  *)
(*                                                                         *)
(* A code is a sequence of characters.  What the segmentor, normalizer,    *)
(* translators, filters and ranker make of a code is the constant operator *)
(* Resolve: the session may rely on nothing but its type, because any      *)
(* implementation of the InputPipeline trait can stand behind it.          *)
(*                                                                         *)
(* The processor's only state, PunctProcessor::last_was_digit, is the      *)
(* parameter afterDigit of the operators; the session keeps its value.     *)
(***************************************************************************)
EXTENDS Naturals, Sequences

CONSTANTS
  Letter,          \* characters the DefaultProcessor appends, digits apart
  Digit,           \* '0'..'9': appended too, and remembered by the punctuator
  Decimal,         \* '.' and ':', which pass through after a digit
  Foreign,         \* characters that nothing accepts
  Text,            \* the texts of candidates and punctuation marks
  CommitMark,      \* [mark -> text]: PunctAction::Commit and ::Pair
  ListMark,        \* [mark -> sequence of texts]: PunctAction::Candidates
  MaxInput,        \* bound of the model: longest code that is typed
  Resolve(_, _)    \* candidate list for a code and the injected candidates

Char    == Letter \cup Digit \cup Decimal \cup Foreign
             \cup DOMAIN CommitMark \cup DOMAIN ListMark
Control == {"Backspace", "Escape", "Enter", "Space"}
Key     == Char \cup Control
Code    == UNION {[1 .. n -> Char] : n \in 0 .. MaxInput}

(***************************************************************************)
(* ResolvedCandidate.  end is consumed.end (consumed.start is 0 for every  *)
(* candidate the pipeline builds), code is the stretch of input that the   *)
(* canonical code stands for, lexical tells whether lexemes is non-empty.  *)
(* The id of a candidate is its position in the list, counted from 1.      *)
(***************************************************************************)
Candidate == [text : Text, end : 0 .. MaxInput + 1, code : Code,
              complete : BOOLEAN, exact_phrase : BOOLEAN, lexical : BOOLEAN]

\* The candidates PunctAction::Candidates injects for a mark.
Injected(mark) ==
  [i \in DOMAIN ListMark[mark] |->
     [text |-> ListMark[mark][i], end |-> 1, code |-> <<mark>>,
      complete |-> TRUE, exact_phrase |-> TRUE, lexical |-> TRUE]]

ASSUME AlphabetAssumption ==
  /\ Char \cap Control = {}
  /\ MaxInput \in Nat \ {0}
  /\ \A mark \in DOMAIN CommitMark : CommitMark[mark] \in Text
  /\ \A mark \in DOMAIN ListMark : ListMark[mark] \in Seq(Text)
  /\ DOMAIN CommitMark \cap DOMAIN ListMark = {}

ASSUME ResolveAssumption ==
  /\ \A w \in Code : Resolve(w, <<>>) \in Seq(Candidate)
  /\ \A mark \in DOMAIN ListMark :
       Resolve(<<mark>>, Injected(mark)) \in Seq(Candidate)

-----------------------------------------------------------------------------
(***************************************************************************)
(* What a processor answers: ProcessorOutput, with the text of             *)
(* PipelineIntent::CommitText beside the intent.                           *)
(***************************************************************************)
Output(w, intent, texts, injected) ==
  [composition |-> w, intent |-> intent, texts |-> texts, injected |-> injected]

Editing(w) == Output(w, "None", <<>>, <<>>)

\* DefaultProcessor::process for the keys it accepts.
DefaultProcess(w, key) ==
  CASE key \in Letter \cup Digit -> Editing(Append(w, key))
    [] key = "Backspace" -> Editing(IF w = <<>> THEN w ELSE SubSeq(w, 1, Len(w) - 1))
    [] key = "Escape"    -> Output(w, "Cancel", <<>>, <<>>)
    [] key = "Enter"     -> Output(w, "CommitRaw", <<>>, <<>>)
    [] key = "Space"     -> Output(w, "CommitHighlighted", <<>>, <<>>)

\* PunctProcessor::process: a decimal point after a digit, then the schema's
\* marks, then the inner processor.
Process(w, key, afterDigit) ==
  CASE key \in Decimal /\ afterDigit -> Editing(Append(w, key))
    [] key \in DOMAIN CommitMark /\ ~(key \in Decimal /\ afterDigit) ->
         Output(w, "CommitText", <<CommitMark[key]>>, <<>>)
    [] key \in DOMAIN ListMark /\ ~(key \in Decimal /\ afterDigit) ->
         Output(<<key>>, "None", <<>>, Injected(key))
    [] OTHER -> DefaultProcess(w, key)

\* PipelineError::UnsupportedCharacter: nothing takes the character.
Unsupported(key, afterDigit) ==
  /\ key \in Char \ (Letter \cup Digit \cup DOMAIN CommitMark \cup DOMAIN ListMark)
  /\ ~(key \in Decimal /\ afterDigit)

\* The processor's flag after a key, accepted or not.
AfterDigit(key) == key \in Digit

\* ComposablePipeline::apply_internal: only an edit resolves candidates.
Candidates(output) ==
  IF output.intent = "None" THEN Resolve(output.composition, output.injected)
                            ELSE <<>>

\* ComposablePipeline::refresh.
Refresh(w) == Resolve(w, <<>>)
=============================================================================
