--------------------------- MODULE SessionProofs ---------------------------
(***************************************************************************)
(* Theorems about Session, for every alphabet, pipeline, page size and     *)
(* bound.  The steps of the session are first sorted by what they do to    *)
(* the composition (ViewSteps) and to the platform actions (ActionSteps);  *)
(* each invariant then looks only at the cases that can disturb it.        *)
(***************************************************************************)
EXTENDS Session, SequenceTheorems, TLAPS

\* What FoldsAndOrders says of joining sequences holds whatever its operators.
Joins == INSTANCE FoldsAndOrders WITH Op <- Append, Precedes <- IsPrefix

-----------------------------------------------------------------------------
(***************************************************************************)
(* Codes are the short sequences of characters.                            *)
(***************************************************************************)
LEMMA CodeIsSeq ==
  \A w : w \in Code <=> w \in Seq(Char) /\ Len(w) <= MaxInput
<1> SUFFICES ASSUME NEW w
             PROVE  w \in Code <=> w \in Seq(Char) /\ Len(w) <= MaxInput
  OBVIOUS
<1>1. ASSUME w \in Code PROVE w \in Seq(Char) /\ Len(w) <= MaxInput
  <2>1. PICK n \in 0 .. MaxInput : w \in [1 .. n -> Char]
    BY <1>1 DEF Code
  <2>2. n \in Nat
    BY AlphabetAssumption
  <2> QED
    BY <2>1, <2>2
<1>2. ASSUME w \in Seq(Char), Len(w) <= MaxInput PROVE w \in Code
  <2>1. w \in [1 .. Len(w) -> Char] /\ Len(w) \in 0 .. MaxInput
    BY <1>2, LenProperties, AlphabetAssumption
  <2> QED
    BY <2>1 DEF Code
<1> QED
  BY <1>1, <1>2

LEMMA SuffixIsCode ==
  ASSUME NEW w \in Code, NEW k \in Nat
  PROVE  SubSeq(w, k + 1, Len(w)) \in Code
<1>1. w \in Seq(Char) /\ Len(w) <= MaxInput /\ Len(w) \in Nat
  BY CodeIsSeq, LenProperties
<1>2. \A i \in k + 1 .. Len(w) : w[i] \in Char
  BY <1>1
<1>3. /\ SubSeq(w, k + 1, Len(w)) \in Seq(Char)
      /\ Len(SubSeq(w, k + 1, Len(w))) \in 0 .. Len(w)
  BY <1>1, <1>2, SubSeqProperties
<1>4. Len(SubSeq(w, k + 1, Len(w))) <= MaxInput
  BY <1>1, <1>3, AlphabetAssumption
<1> HIDE DEF Code
<1> QED
  BY <1>3, <1>4, CodeIsSeq, Zenon

LEMMA ActiveInputIsCode == raw \in Code /\ active_start \in Nat => ActiveInput \in Code
  BY SuffixIsCode DEF ActiveInput

LEMMA EmptyIsCode == <<>> \in Code
<1>1. <<>> \in Seq(Char) /\ Len(<<>>) <= MaxInput
  BY AlphabetAssumption
<1> HIDE DEF Code
<1> QED
  BY <1>1, CodeIsSeq, Zenon

LEMMA FrontIsSeq ==
  ASSUME NEW S, NEW s \in Seq(S), s # <<>>
  PROVE  /\ SubSeq(s, 1, Len(s) - 1) \in Seq(S)
         /\ Len(SubSeq(s, 1, Len(s) - 1)) = Len(s) - 1
         /\ \A i \in 1 .. Len(s) - 1 : SubSeq(s, 1, Len(s) - 1)[i] = s[i]
<1>1. Len(s) \in Nat /\ Len(s) > 0
  BY EmptySeq, LenProperties
<1>2. \A i \in 1 .. Len(s) - 1 : s[i] \in S
  BY <1>1
<1> DEFINE n == Len(s) - 1
<1>3. n \in Nat /\ \A i \in 1 .. n : 1 + i - 1 = i
  BY <1>1
<1>4. /\ SubSeq(s, 1, n) \in Seq(S)
      /\ Len(SubSeq(s, 1, n)) = IF 1 <= n THEN n - 1 + 1 ELSE 0
      /\ \A i \in 1 .. n - 1 + 1 : SubSeq(s, 1, n)[i] = s[1 + i - 1]
  <2>1. \A i \in 1 .. n : s[i] \in S
    BY <1>2
  <2> HIDE DEF n
  <2> QED
    BY <2>1, <1>3, SubSeqProperties
<1> HIDE DEF n
<1>5. Len(SubSeq(s, 1, n)) = n
  BY <1>3, <1>4
<1>6. \A i \in 1 .. n : SubSeq(s, 1, n)[i] = s[i]
  <2> SUFFICES ASSUME NEW i \in 1 .. n
               PROVE  SubSeq(s, 1, n)[i] = s[i]
    OBVIOUS
  <2>1. 1 + i - 1 = i /\ i \in 1 .. n - 1 + 1
    BY <1>3
  <2> QED
    BY <2>1, <1>4
<1> QED
  BY <1>4, <1>5, <1>6 DEF n

-----------------------------------------------------------------------------
(***************************************************************************)
(* What the processor answers: an edit, a punctuation list or an intent.   *)
(***************************************************************************)
Intents == {"Cancel", "CommitRaw", "CommitHighlighted", "CommitText"}

LEMMA DefaultProcessAnswers ==
  ASSUME NEW w \in Code, NEW key \in Letter \cup Digit \cup Control
  PROVE  \/ \E u \in Seq(Char) : DefaultProcess(w, key) = Editing(u)
         \/ \E intent \in Intents : \E texts :
              DefaultProcess(w, key) = Output(w, intent, texts, <<>>)
<1>1. w \in Seq(Char)
  BY CodeIsSeq
<1>2. CASE key \in Letter \cup Digit
  <2>1. Append(w, key) \in Seq(Char)
    BY <1>1, <1>2 DEF Char
  <2>2. DefaultProcess(w, key) = Editing(Append(w, key))
    BY <1>2, AlphabetAssumption DEF DefaultProcess, Control, Char
  <2> QED
    BY <2>1, <2>2
<1>3. CASE key \in Control
  <2>1. key \notin Letter \cup Digit
    BY <1>3, AlphabetAssumption DEF Control, Char
  <2>2. CASE key = "Backspace"
    <3>1. w # <<>> => SubSeq(w, 1, Len(w) - 1) \in Seq(Char)
      BY <1>1, FrontIsSeq
    <3>2. DefaultProcess(w, key)
            = Editing(IF w = <<>> THEN w ELSE SubSeq(w, 1, Len(w) - 1))
      BY <2>1, <2>2 DEF DefaultProcess
    <3> QED
      BY <3>1, <3>2, <1>1
  <2>3. CASE key = "Escape"
    BY <2>1, <2>3 DEF DefaultProcess, Intents
  <2>4. CASE key = "Enter"
    BY <2>1, <2>4 DEF DefaultProcess, Intents
  <2>5. CASE key = "Space"
    BY <2>1, <2>5 DEF DefaultProcess, Intents
  <2> QED
    BY <1>3, <2>2, <2>3, <2>4, <2>5 DEF Control
<1> QED
  BY <1>2, <1>3

LEMMA ProcessAnswers ==
  ASSUME NEW w \in Code, NEW key \in Key, NEW digit \in BOOLEAN,
         ~Unsupported(key, digit)
  PROVE  \/ \E u \in Seq(Char) : Process(w, key, digit) = Editing(u)
         \/ \E mark \in DOMAIN ListMark :
              Process(w, key, digit) = Output(<<mark>>, "None", <<>>, Injected(mark))
         \/ \E intent \in Intents : \E texts :
              Process(w, key, digit) = Output(w, intent, texts, <<>>)
<1>1. w \in Seq(Char)
  BY CodeIsSeq
<1>2. CASE key \in Decimal /\ digit
  <2>1. Append(w, key) \in Seq(Char)
    BY <1>1, <1>2 DEF Char
  <2>2. Process(w, key, digit) = Editing(Append(w, key))
    BY <1>2 DEF Process
  <2> QED
    BY <2>1, <2>2
<1>3. CASE ~(key \in Decimal /\ digit) /\ key \in DOMAIN CommitMark
  <2>1. Process(w, key, digit) = Output(w, "CommitText", <<CommitMark[key]>>, <<>>)
    BY <1>3, AlphabetAssumption DEF Process
  <2> QED
    BY <2>1 DEF Intents
<1>4. CASE ~(key \in Decimal /\ digit) /\ key \in DOMAIN ListMark
  <2>1. Process(w, key, digit) = Output(<<key>>, "None", <<>>, Injected(key))
    BY <1>4, AlphabetAssumption DEF Process
  <2> QED
    BY <1>4, <2>1
<1>5. CASE /\ ~(key \in Decimal /\ digit)
           /\ key \notin DOMAIN CommitMark /\ key \notin DOMAIN ListMark
  <2>1. Process(w, key, digit) = DefaultProcess(w, key)
    BY <1>5 DEF Process
  <2>2. key \in Letter \cup Digit \cup Control
    BY <1>5 DEF Key, Unsupported
  <2> QED
    BY <2>1, <2>2, DefaultProcessAnswers, Zenon
<1> QED
  BY <1>2, <1>3, <1>4, <1>5

-----------------------------------------------------------------------------
(***************************************************************************)
(* What a step does to the composition and the candidate list.  Most of    *)
(* the steps do nothing to them: a proposal waits for the platform.        *)
(***************************************************************************)
ViewOK ==
  /\ raw \in Code
  /\ active_start \in 0 .. MaxInput
  /\ confirmed \in Seq(ConfirmedSegment)
  /\ candidates \in Seq(Candidate)
  /\ highlighted_idx \in Nat
  /\ page \in Nat
  /\ revision \in Nat

PageMove == NextPage \/ PreviousPage \/ \E delta \in Deltas : MoveHighlight(delta)

ViewStep ==
  \/ UNCHANGED <<composition, choice, revision>>
  \/ \E key \in Key : /\ ~Unsupported(key, after_digit)
                      /\ EditActive(Process(ActiveInput, key, after_digit))
  \/ \E i \in 1 .. Len(candidates) : SelectPrefix(candidates[i])
  \/ Reopens("Backspace") /\ ReopenLastConfirmed
  \/ PageMove
  \/ \E id \in DOMAIN pending : ApplyClear(id) /\ Forget(id)

LEMMA ProposalsKeepView ==
  ProposeCancel \/ ProposeCommitRaw \/ (\E texts : ProposeCommitText(texts))
    => UNCHANGED <<composition, choice, revision, learned>>
  BY DEF ProposeCancel, ProposeCommitRaw, ProposeCommitText, Unmoved

LEMMA FailuresKeepView ==
  ASSUME NEW name, Fail(name)
  PROVE  UNCHANGED <<composition, choice, revision, actions, learned>>
  BY DEF Fail, view

LEMMA SelectionSteps ==
  ASSUME NEW i \in 1 .. Len(candidates), SelectCandidate(candidates[i])
  PROVE  ViewStep
<1>1. CASE SelectComplete(candidates[i])
  BY <1>1 DEF SelectComplete, Unmoved, ViewStep
<1>2. CASE SelectPrefix(candidates[i])
  BY <1>2 DEF ViewStep
<1>3. CASE SelectMisfit(candidates[i])
  BY <1>3, FailuresKeepView DEF SelectMisfit, ViewStep
<1> QED
  BY <1>1, <1>2, <1>3 DEF SelectCandidate

LEMMA KeySteps ==
  ASSUME TypeOK, NEW h \in Header, NEW key \in Key, KeyCommand(h, key)
  PROVE  ViewStep
<1>1. CASE Reopens(key) /\ ReopenLastConfirmed
  BY <1>1 DEF Reopens, ViewStep
<1>2. CASE Unsupported(key, after_digit) /\ Fail("UnsupportedCharacter")
  BY <1>2, FailuresKeepView DEF ViewStep
<1>3. CASE /\ ~Unsupported(key, after_digit)
           /\ ApplyKey(Process(ActiveInput, key, after_digit))
  <2> DEFINE output == Process(ActiveInput, key, after_digit)
  <2>1. CASE EditActive(output)
    BY <1>3, <2>1 DEF ViewStep
  <2>2. CASE ProposeCommit
    <3>1. CASE highlighted_idx < Len(candidates)
      <4>1. highlighted_idx + 1 \in 1 .. Len(candidates)
        BY <3>1 DEF TypeOK
      <4> QED
        BY <2>2, <3>1, <4>1, SelectionSteps DEF ProposeCommit
    <3>2. CASE ~(highlighted_idx < Len(candidates))
      BY <2>2, <3>2, ProposalsKeepView DEF ProposeCommit, ViewStep
    <3> QED
      BY <3>1, <3>2
  <2>3. CASE ProposeCommitRaw \/ ProposeCancel \/ ProposeCommitText(output.texts)
    BY <2>3, ProposalsKeepView DEF ViewStep
  <2> HIDE DEF output
  <2> QED
    BY <1>3, <2>1, <2>2, <2>3 DEF ApplyKey, output
<1> QED
  BY <1>1, <1>2, <1>3 DEF KeyCommand

LEMMA UiSteps ==
  ASSUME TypeOK, NEW h \in Header, UiCommand(h)
  PROVE  ViewStep
<1>1. ASSUME NEW id \in 1 .. Len(candidates) + 1, SelectById(id)
      PROVE  ViewStep
  <2>1. CASE id \in 1 .. Len(candidates)
    BY <1>1, <2>1, SelectionSteps DEF SelectById
  <2>2. CASE id \notin 1 .. Len(candidates)
    BY <1>1, <2>2, FailuresKeepView DEF SelectById, ViewStep
  <2> QED
    BY <2>1, <2>2
<1>2. CASE PageMove
  BY <1>2 DEF ViewStep
<1>3. CASE ProposeCancel
  BY <1>3, ProposalsKeepView DEF ViewStep
<1> QED
  BY <1>1, <1>2, <1>3 DEF UiCommand, PageMove

LEMMA ResultSteps ==
  ASSUME NEW h \in Header, NEW id, NEW outcome, PlatformActionResult(h, id, outcome)
  PROVE  ViewStep
<1>1. CASE Fail("UnknownAction")
  BY <1>1, FailuresKeepView DEF ViewStep
<1>2. CASE id \in DOMAIN pending /\ Forget(id) /\ ApplyClear(id)
  BY <1>2 DEF ViewStep
<1>3. CASE UNCHANGED <<composition, choice, revision, learned>>
  BY <1>3 DEF ViewStep
<1> QED
  BY <1>1, <1>2, <1>3 DEF PlatformActionResult

LEMMA ViewSteps ==
  ASSUME TypeOK, [Next]_vars
  PROVE  ViewStep
<1>1. ASSUME NEW h \in Header, RejectHeader(h) PROVE ViewStep
  <2>1. UNCHANGED <<composition, choice, revision, actions, learned>>
    BY <1>1, FailuresKeepView DEF RejectHeader
  <2> QED
    BY <2>1 DEF ViewStep
<1>2. ASSUME NEW h \in Header, NEW token \in Token, RollbackLearning(h, token)
      PROVE  ViewStep
  BY <1>2 DEF RollbackLearning, view, ViewStep
<1>3. ASSUME NEW h \in Header, NEW rev \in {revision, revision + 1},
             OpenOrCloseSession(h, rev)
      PROVE  ViewStep
  BY <1>3 DEF OpenOrCloseSession, view, ViewStep
<1>4. CASE UNCHANGED vars
  BY <1>4 DEF vars, view, ViewStep
<1> QED
  BY <1>1, <1>2, <1>3, <1>4, KeySteps, UiSteps, ResultSteps DEF Next

LEMMA PageSteps ==
  ASSUME ViewOK, PageMove
  PROVE  \/ UNCHANGED <<composition, choice, revision, actions, learned>>
         \/ \E p, idx \in Nat : ShowPage(p, idx)
<1>1. PageSize \in Nat \ {0} /\ Deltas \subseteq Int
  BY SessionAssumption
<1>2. page \in Nat /\ highlighted_idx \in Nat /\ Len(candidates) \in Nat
  BY DEF ViewOK
<1>3. CASE NextPage
  <2>1. CASE TotalPages = 0
    BY <1>2, <1>3, <2>1 DEF NextPage
  <2>2. CASE TotalPages # 0
    <3> DEFINE next == IF page + 1 < TotalPages THEN page + 1 ELSE TotalPages - 1
    <3>1. TotalPages \in Nat
      BY <1>1, <1>2 DEF TotalPages
    <3>2. next \in Nat
      BY <1>2, <2>2, <3>1
    <3>3. next * PageSize \in Nat
      BY <1>1, <3>2
    <3> QED
      BY <1>3, <2>2, <3>2, <3>3 DEF NextPage
  <2> QED
    BY <2>1, <2>2
<1>4. CASE PreviousPage
  <2> DEFINE previous == IF page = 0 THEN 0 ELSE page - 1
  <2>1. previous \in Nat
    BY <1>2
  <2>2. previous * PageSize \in Nat
    BY <1>1, <2>1
  <2> QED
    BY <1>4, <2>1, <2>2 DEF PreviousPage
<1>5. ASSUME NEW delta \in Deltas, MoveHighlight(delta)
      PROVE  \/ UNCHANGED <<composition, choice, revision, actions, learned>>
             \/ \E p, idx \in Nat : ShowPage(p, idx)
  <2>1. CASE candidates = <<>>
    BY <1>5, <2>1 DEF MoveHighlight, view
  <2>2. CASE candidates # <<>>
    <3> DEFINE max   == Len(candidates) - 1
               moved == highlighted_idx + delta
               idx   == IF moved < 0 THEN 0 ELSE IF moved > max THEN max ELSE moved
    <3>1. Len(candidates) # 0
      BY <2>2, EmptySeq DEF ViewOK
    <3>2. idx \in Nat
      BY <1>1, <1>2, <3>1
    <3>3. idx \div PageSize \in Nat
      <4> HIDE DEF idx
      <4> QED
        BY <1>1, <3>2
    <3>4. ShowPage(idx \div PageSize, idx)
      BY <1>5, <2>2 DEF MoveHighlight
    <3> HIDE DEF idx
    <3> QED
      BY <3>2, <3>3, <3>4
  <2> QED
    BY <2>1, <2>2
<1> QED
  BY <1>3, <1>4, <1>5 DEF PageMove

-----------------------------------------------------------------------------
(***************************************************************************)
(* What a step does to the platform actions.                               *)
(***************************************************************************)
Answered(id) ==
  /\ Forget(id)
  /\ UNCHANGED next_action
  /\ \/ UNCHANGED learned
     \/ pending[id].effect = "Learn" /\ learned' = Append(learned, id)

Proposed(effect) ==
  /\ next_action <= MaxActions
  /\ next_action' = next_action + 1
  /\ pending' = [id \in DOMAIN pending \cup {next_action} |->
                   IF id = next_action THEN effect ELSE pending[id]]
  /\ UNCHANGED learned

\* What is to be learned is a complete candidate of the list on offer.
Chosen(effect) ==
  effect.effect = "Learn" =>
    \E i \in 1 .. Len(candidates) :
      candidates[i].complete /\ effect = ClearAndLearn(CommitRecord(candidates[i]))

ActionStep ==
  \/ UNCHANGED <<next_action, pending, learned>>
  \/ \E effect \in Effect : Chosen(effect) /\ Proposed(effect)
  \/ \E id \in DOMAIN pending : Answered(id)

LEMMA ProposalActions ==
  ASSUME NEW kind, NEW text, NEW effect, Propose(kind, text, effect), UNCHANGED learned
  PROVE  Proposed(effect)
  BY DEF Propose, Proposed

LEMMA ConfirmedSegments ==
  ASSUME confirmed \in Seq(ConfirmedSegment)
  PROVE  /\ Len(confirmed) \in Nat
         /\ \A i \in 1 .. Len(confirmed) :
              /\ confirmed[i] \in ConfirmedSegment
              /\ confirmed[i].text \in Text
              /\ confirmed[i].code \in Code
              /\ confirmed[i].lexical \in BOOLEAN
              /\ confirmed[i].start \in 0 .. MaxInput
              /\ confirmed[i].end \in 0 .. MaxInput
<1>1. Len(confirmed) \in Nat /\ \A i \in 1 .. Len(confirmed) : confirmed[i] \in ConfirmedSegment
  BY LenProperties, ElementOfSeq
<1> HIDE DEF Code
<1> QED
  BY <1>1 DEF ConfirmedSegment

LEMMA CandidateFields ==
  ASSUME NEW c \in Candidate
  PROVE  /\ c.text \in Text
         /\ c.end \in 0 .. MaxInput + 1
         /\ c.code \in Code
         /\ c.complete \in BOOLEAN
         /\ c.exact_phrase \in BOOLEAN
         /\ c.lexical \in BOOLEAN
<1> HIDE DEF Code
<1> QED
  BY DEF Candidate

LEMMA CommitRecordType ==
  ASSUME confirmed \in Seq(ConfirmedSegment), NEW c \in Candidate
  PROVE  CommitRecord(c) \in Record
<1> HIDE DEF Code
<1> DEFINE texts == ConfirmedText
           codes == [i \in 1 .. Len(confirmed) |-> confirmed[i].code]
<1>1. texts \in Seq(Text)
  BY ConfirmedSegments DEF ConfirmedText
<1>2. codes \in Seq(Code)
  BY ConfirmedSegments
<1>3. Append(texts, c.text) \in Seq(Text) /\ Append(codes, c.code) \in Seq(Code)
  BY <1>1, <1>2, CandidateFields, AppendProperties
<1>4. /\ (confirmed = <<>> /\ c.exact_phrase) \in BOOLEAN
      /\ (c.lexical \/ \E i \in 1 .. Len(confirmed) : confirmed[i].lexical) \in BOOLEAN
  OBVIOUS
<1>5. CommitRecord(c) =
        [text |-> Append(texts, c.text), code |-> Append(codes, c.code),
         exact_phrase |-> (confirmed = <<>> /\ c.exact_phrase),
         lexical |-> (c.lexical \/ \E i \in 1 .. Len(confirmed) : confirmed[i].lexical)]
  BY DEF CommitRecord
<1> HIDE DEF texts, codes
<1> QED
  BY <1>3, <1>4, <1>5 DEF Record

LEMMA ProposalsPropose ==
  ASSUME ProposeCancel \/ ProposeCommitRaw \/ (\E texts : ProposeCommitText(texts))
  PROVE  ActionStep
<1>1. ClearComposition \in Effect /\ Chosen(ClearComposition)
  BY DEF Effect, Chosen, ClearComposition
<1>2. \E kind, text : Propose(kind, text, ClearComposition) /\ UNCHANGED learned
  BY DEF ProposeCancel, ProposeCommitRaw, ProposeCommitText, Unmoved
<1> QED
  BY <1>1, <1>2, ProposalActions DEF ActionStep

LEMMA PreeditProposes ==
  ASSUME PreeditUpdate, UNCHANGED learned
  PROVE  ActionStep
<1>1. KeepComposition \in Effect /\ Chosen(KeepComposition)
  BY DEF Effect, Chosen, KeepComposition
<1> QED
  BY <1>1, ProposalActions DEF PreeditUpdate, ActionStep

LEMMA SelectionProposes ==
  ASSUME TypeOK, NEW i \in 1 .. Len(candidates), SelectCandidate(candidates[i])
  PROVE  ActionStep
<1>1. CASE SelectComplete(candidates[i])
  <2> DEFINE effect == ClearAndLearn(CommitRecord(candidates[i]))
  <2>1. candidates[i] \in Candidate
    BY ElementOfSeq DEF TypeOK
  <2>2. CommitRecord(candidates[i]) \in Record
    BY <2>1, CommitRecordType DEF TypeOK
  <2>3. effect \in Effect
    BY <2>2 DEF Effect, ClearAndLearn
  <2>4. Proposed(effect)
    BY <1>1, ProposalActions DEF SelectComplete, Unmoved
  <2>5. Chosen(effect)
    BY <1>1 DEF SelectComplete, Chosen
  <2> HIDE DEF effect
  <2> QED
    BY <2>3, <2>4, <2>5 DEF ActionStep
<1>2. CASE SelectPrefix(candidates[i])
  BY <1>2, PreeditProposes DEF SelectPrefix
<1>3. CASE SelectMisfit(candidates[i])
  BY <1>3, FailuresKeepView DEF SelectMisfit, ActionStep, actions
<1> QED
  BY <1>1, <1>2, <1>3 DEF SelectCandidate

LEMMA KeyProposes ==
  ASSUME TypeOK, NEW h \in Header, NEW key \in Key, KeyCommand(h, key)
  PROVE  ActionStep
<1>1. CASE Reopens(key) /\ ReopenLastConfirmed
  BY <1>1, PreeditProposes DEF ReopenLastConfirmed
<1>2. CASE Unsupported(key, after_digit) /\ Fail("UnsupportedCharacter")
  BY <1>2, FailuresKeepView DEF ActionStep, actions
<1>3. CASE ApplyKey(Process(ActiveInput, key, after_digit))
  <2> DEFINE output == Process(ActiveInput, key, after_digit)
  <2>1. CASE EditActive(output)
    BY <2>1, PreeditProposes DEF EditActive
  <2>2. CASE ProposeCommit
    <3>1. CASE highlighted_idx < Len(candidates)
      <4>1. highlighted_idx + 1 \in 1 .. Len(candidates)
        BY <3>1 DEF TypeOK
      <4> QED
        BY <2>2, <3>1, <4>1, SelectionProposes DEF ProposeCommit
    <3>2. CASE ~(highlighted_idx < Len(candidates))
      BY <2>2, <3>2, ProposalsPropose DEF ProposeCommit
    <3> QED
      BY <3>1, <3>2
  <2>3. CASE ProposeCommitRaw \/ ProposeCancel \/ ProposeCommitText(output.texts)
    BY <2>3, ProposalsPropose
  <2> HIDE DEF output
  <2> QED
    BY <1>3, <2>1, <2>2, <2>3 DEF ApplyKey, output
<1> QED
  BY <1>1, <1>2, <1>3 DEF KeyCommand

LEMMA UiProposes ==
  ASSUME TypeOK, NEW h \in Header, UiCommand(h)
  PROVE  ActionStep
<1>1. ASSUME NEW id \in 1 .. Len(candidates) + 1, SelectById(id)
      PROVE  ActionStep
  <2>1. CASE id \in 1 .. Len(candidates)
    BY <1>1, <2>1, SelectionProposes DEF SelectById
  <2>2. CASE id \notin 1 .. Len(candidates)
    BY <1>1, <2>2, FailuresKeepView DEF SelectById, ActionStep, actions
  <2> QED
    BY <2>1, <2>2
<1>2. CASE PageMove
  BY <1>2, PageSteps DEF ShowPage, ActionStep, actions, TypeOK, ViewOK
<1>3. CASE ProposeCancel
  BY <1>3, ProposalsPropose
<1> QED
  BY <1>1, <1>2, <1>3 DEF UiCommand, PageMove

LEMMA ResultAnswers ==
  ASSUME NEW h \in Header, NEW id, NEW outcome, PlatformActionResult(h, id, outcome)
  PROVE  ActionStep
<1>1. CASE Fail("UnknownAction")
  BY <1>1, FailuresKeepView DEF ActionStep, actions
<1>2. CASE id \in DOMAIN pending /\ Forget(id) /\ UNCHANGED next_action
           /\ (ApplyClear(id) \/ UNCHANGED learned)
  BY <1>2 DEF ApplyClear, Answered, ActionStep
<1> QED
  BY <1>1, <1>2 DEF PlatformActionResult

LEMMA ActionSteps ==
  ASSUME TypeOK, [Next]_vars
  PROVE  ActionStep
<1>1. ASSUME NEW h \in Header, RejectHeader(h) PROVE ActionStep
  BY <1>1, FailuresKeepView DEF RejectHeader, ActionStep, actions
<1>2. ASSUME NEW h \in Header, NEW token \in Token, RollbackLearning(h, token)
      PROVE  ActionStep
  BY <1>2 DEF RollbackLearning, view, actions, ActionStep
<1>3. ASSUME NEW h \in Header, NEW rev \in {revision, revision + 1},
             OpenOrCloseSession(h, rev)
      PROVE  ActionStep
  BY <1>3 DEF OpenOrCloseSession, view, actions, ActionStep
<1>4. CASE UNCHANGED vars
  BY <1>4 DEF vars, view, actions, ActionStep
<1> QED
  BY <1>1, <1>2, <1>3, <1>4, KeyProposes, UiProposes, ResultAnswers DEF Next

-----------------------------------------------------------------------------
(***************************************************************************)
(* The inductive invariant.  TypeOK is not inductive by itself: an edit    *)
(* keeps raw[1 .. active_start], which is a code only if active_start      *)
(* lies inside raw, and that in turn needs the segments to tile.           *)
(***************************************************************************)
LEMMA ActiveInputLength ==
  ASSUME raw \in Code, active_start \in Nat
  PROVE  /\ Len(raw) \in 0 .. MaxInput
         /\ Len(ActiveInput) = IF active_start < Len(raw) THEN Len(raw) - active_start
                                                          ELSE 0
<1>1. raw \in Seq(Char) /\ Len(raw) <= MaxInput
  BY CodeIsSeq
<1>2. Len(raw) \in Nat /\ \A i \in active_start + 1 .. Len(raw) : raw[i] \in Char
  BY <1>1
<1>3. Len(ActiveInput) = IF active_start + 1 <= Len(raw)
                         THEN Len(raw) - (active_start + 1) + 1 ELSE 0
  BY <1>2, SubSeqProperties DEF ActiveInput
<1> QED
  BY <1>1, <1>2, <1>3, AlphabetAssumption

LEMMA EditedInput ==
  ASSUME raw \in Code, active_start \in 0 .. Len(raw),
         NEW w \in Seq(Char), active_start + Len(w) <= MaxInput
  PROVE  /\ w \in Code
         /\ SubSeq(raw, 1, active_start) \o w \in Code
         /\ Len(SubSeq(raw, 1, active_start) \o w) = active_start + Len(w)
<1>1. raw \in Seq(Char) /\ Len(raw) \in Nat /\ Len(w) \in Nat
  BY CodeIsSeq, LenProperties
<1>2. \A i \in 1 .. active_start : raw[i] \in Char
  BY <1>1
<1>3. /\ SubSeq(raw, 1, active_start) \in Seq(Char)
      /\ Len(SubSeq(raw, 1, active_start)) = IF 1 <= active_start
                                             THEN active_start - 1 + 1 ELSE 0
  BY <1>1, <1>2, SubSeqProperties
<1>4. Len(SubSeq(raw, 1, active_start)) = active_start
  BY <1>1, <1>3
<1>5. /\ SubSeq(raw, 1, active_start) \o w \in Seq(Char)
      /\ Len(SubSeq(raw, 1, active_start) \o w) = active_start + Len(w)
  BY <1>3, <1>4, ConcatProperties
<1>6. Len(w) <= MaxInput
  BY <1>1, AlphabetAssumption
<1> HIDE DEF Code
<1> QED
  BY <1>5, <1>6, CodeIsSeq

\* An edit's composition and candidates, whatever key made it.
LEMMA EditSteps ==
  ASSUME ViewOK, SpansTile, after_digit \in BOOLEAN, NEW key \in Key,
         ~Unsupported(key, after_digit),
         EditActive(Process(ActiveInput, key, after_digit))
  PROVE  \E w \in Code :
           /\ raw' = SubSeq(raw, 1, active_start) \o w
           /\ raw' \in Code
           /\ Len(raw') = active_start + Len(w)
           /\ candidates' \in Seq(Candidate)
           /\ \/ candidates' = Refresh(w)
              \/ \E mark \in DOMAIN ListMark :
                   w = <<mark>> /\ candidates' = Resolve(<<mark>>, Injected(mark))
<1> DEFINE output == Process(ActiveInput, key, after_digit)
<1>1. active_start \in 0 .. Len(raw)
  BY LenProperties DEF ViewOK, SpansTile
<1>2. ActiveInput \in Code
  BY ActiveInputIsCode DEF ViewOK
<1>3. PICK w \in Seq(Char) :
        \/ output = Editing(w)
        \/ \E mark \in DOMAIN ListMark :
             w = <<mark>> /\ output = Output(w, "None", <<>>, Injected(mark))
  <2>1. output.intent = "None"
    BY DEF EditActive
  <2>2. ~ \E intent \in Intents : \E texts : output = Output(ActiveInput, intent, texts, <<>>)
    BY <2>1 DEF Output, Intents
  <2>3. \A mark \in DOMAIN ListMark : <<mark>> \in Seq(Char)
    BY DEF Char
  <2> HIDE DEF output
  <2> QED
    BY <1>2, <2>2, <2>3, ProcessAnswers DEF output
<1>4. output.composition = w /\ active_start + Len(w) <= MaxInput
  BY <1>3 DEF EditActive, Editing, Output
<1>5. raw' = SubSeq(raw, 1, active_start) \o w /\ candidates' = Candidates(output)
  BY <1>4 DEF EditActive
<1>6. w \in Code /\ raw' \in Code /\ Len(raw') = active_start + Len(w)
  BY <1>1, <1>3, <1>4, <1>5, EditedInput DEF ViewOK
<1>7. \/ candidates' = Refresh(w)
      \/ \E mark \in DOMAIN ListMark :
           w = <<mark>> /\ candidates' = Resolve(<<mark>>, Injected(mark))
  BY <1>3, <1>5 DEF Candidates, Editing, Output, Refresh
<1>8. candidates' \in Seq(Candidate)
  BY <1>6, <1>7, ResolveAssumption DEF Refresh
<1> QED
  BY <1>5, <1>6, <1>7, <1>8

LEMMA RefreshedType ==
  ASSUME (raw \in Code)', (active_start \in Nat)', RefreshActiveCandidates
  PROVE  /\ candidates' = Refresh(ActiveInput')
         /\ candidates' \in Seq(Candidate)
         /\ highlighted_idx' \in Nat
         /\ page' \in Nat
<1>1. (ActiveInput \in Code)'
  BY SuffixIsCode DEF ActiveInput
<1> HIDE DEF Code
<1> QED
  BY <1>1, ResolveAssumption DEF RefreshActiveCandidates, Refresh

\* A chosen prefix extends the tiling; TypeOK bounds the offsets.
LEMMA PrefixSteps ==
  ASSUME ViewOK, SpansTile, NEW c \in Candidate, SelectPrefix(c)
  PROVE  ViewOK' /\ SpansTile'
<1> DEFINE seg == SegmentOf(c)
<1>1. /\ Len(raw) \in 0 .. MaxInput
      /\ Len(ActiveInput) = IF active_start < Len(raw) THEN Len(raw) - active_start
                                                       ELSE 0
  BY ActiveInputLength DEF ViewOK
<1>2. /\ c.end \in Nat /\ c.end # 0 /\ c.end <= Len(ActiveInput)
      /\ active_start \in Nat
      /\ active_start + c.end <= Len(raw)
  BY <1>1, CandidateFields, AlphabetAssumption DEF SelectPrefix, FitsActive, ViewOK
<1>3. /\ confirmed' = Append(confirmed, seg)
      /\ active_start' = active_start + c.end
      /\ raw' = raw
      /\ revision' = revision + 1
  BY DEF SelectPrefix
<1>4. seg \in ConfirmedSegment
  <2> HIDE DEF Code
  <2>1. active_start + c.end \in 0 .. MaxInput
    BY <1>1, <1>2, AlphabetAssumption
  <2> QED
    BY <1>2, <2>1, CandidateFields DEF SegmentOf, ConfirmedSegment, ViewOK
<1>5. seg.start = active_start /\ seg.end = active_start + c.end
  BY DEF SegmentOf
<1> HIDE DEF seg
<1>6. /\ confirmed' \in Seq(ConfirmedSegment)
      /\ Len(confirmed') = Len(confirmed) + 1
      /\ \A i \in 1 .. Len(confirmed) : confirmed'[i] = confirmed[i]
      /\ confirmed'[Len(confirmed) + 1] = seg
      /\ confirmed' # <<>>
      /\ Len(confirmed) \in Nat
  BY <1>3, <1>4, AppendProperties, LenProperties DEF ViewOK
<1>7. ViewOK'
  <2>1. /\ raw' \in Code
        /\ active_start' \in 0 .. MaxInput
        /\ revision' \in Nat
    BY <1>1, <1>2, <1>3, AlphabetAssumption DEF ViewOK
  <2>2. candidates' \in Seq(Candidate) /\ highlighted_idx' \in Nat /\ page' \in Nat
    BY <2>1, RefreshedType DEF SelectPrefix
  <2> QED
    BY <1>6, <2>1, <2>2 DEF ViewOK
<1>8. SpansTile'
  <2>1. active_start' <= Len(raw')
    BY <1>2, <1>3
  <2>2. ASSUME NEW i \in 1 .. Len(confirmed')
        PROVE  /\ confirmed'[i].start < confirmed'[i].end
               /\ confirmed'[i].start = IF i = 1 THEN 0 ELSE confirmed'[i - 1].end
    <3>1. CASE i \in 1 .. Len(confirmed)
      <4>1. i # 1 => i - 1 \in 1 .. Len(confirmed)
        BY <1>6, <3>1
      <4>2. /\ confirmed[i].start < confirmed[i].end
            /\ confirmed[i].start = IF i = 1 THEN 0 ELSE confirmed[i - 1].end
        BY <3>1 DEF SpansTile
      <4> QED
        BY <1>6, <3>1, <4>1, <4>2
    <3>2. CASE i = Len(confirmed) + 1
      <4>1. confirmed = <<>> <=> Len(confirmed) = 0
        BY EmptySeq DEF ViewOK
      <4>2. active_start = IF i = 1 THEN 0 ELSE confirmed[Len(confirmed)].end
        BY <1>6, <3>2, <4>1 DEF SpansTile
      <4>3. i # 1 => confirmed'[i - 1] = confirmed[Len(confirmed)]
        BY <1>6, <3>2
      <4> QED
        BY <1>2, <1>5, <1>6, <3>2, <4>2, <4>3
    <3> QED
      BY <1>6, <3>1, <3>2
  <2>3. active_start' = IF confirmed' = <<>> THEN 0 ELSE confirmed'[Len(confirmed')].end
    BY <1>3, <1>5, <1>6
  <2> QED
    BY <2>1, <2>2, <2>3 DEF SpansTile
<1> QED
  BY <1>7, <1>8

\* Reopening drops the last tile and nothing else.
LEMMA ReopenSteps ==
  ASSUME ViewOK, SpansTile, Reopens("Backspace"), ReopenLastConfirmed
  PROVE  ViewOK' /\ SpansTile'
<1> DEFINE n == Len(confirmed) - 1
<1>1. confirmed # <<>> /\ n \in Nat /\ Len(confirmed) = n + 1
  BY EmptySeq, LenProperties DEF Reopens, ViewOK
<1>2. /\ confirmed' \in Seq(ConfirmedSegment)
      /\ Len(confirmed') = n
      /\ \A i \in 1 .. n : confirmed'[i] = confirmed[i]
  BY <1>1, FrontIsSeq DEF ReopenLastConfirmed, ViewOK
<1> HIDE DEF n
<1>3. /\ confirmed[n + 1].start \in 0 .. MaxInput
      /\ confirmed[n + 1].end \in Nat
      /\ confirmed[n + 1].start < confirmed[n + 1].end
      /\ confirmed[n + 1].start = IF n = 0 THEN 0 ELSE confirmed[n].end
      /\ active_start = confirmed[n + 1].end
  <2>1. n + 1 \in 1 .. Len(confirmed) /\ n + 1 - 1 = n /\ (n + 1 = 1 <=> n = 0)
    BY <1>1
  <2>2. confirmed[n + 1].start \in 0 .. MaxInput /\ confirmed[n + 1].end \in Nat
    BY <2>1, ConfirmedSegments, AlphabetAssumption DEF ViewOK
  <2> QED
    BY <1>1, <2>1, <2>2 DEF SpansTile
<1>4. /\ active_start' = confirmed[n + 1].start
      /\ raw' = raw
      /\ revision' = revision + 1
  BY <1>1 DEF ReopenLastConfirmed
<1>5. ViewOK'
  <2>1. /\ raw' \in Code
        /\ active_start' \in 0 .. MaxInput
        /\ active_start' \in Nat
        /\ revision' \in Nat
    BY <1>3, <1>4, AlphabetAssumption DEF ViewOK
  <2>2. candidates' \in Seq(Candidate) /\ highlighted_idx' \in Nat /\ page' \in Nat
    BY <2>1, RefreshedType DEF ReopenLastConfirmed
  <2> QED
    BY <1>2, <2>1, <2>2 DEF ViewOK
<1>6. SpansTile'
  <2>1. active_start' <= Len(raw')
    <3>1. Len(raw) \in Nat /\ active_start <= Len(raw)
      BY ActiveInputLength DEF ViewOK, SpansTile
    <3> QED
      BY <1>3, <1>4, <3>1, AlphabetAssumption
  <2>2. ASSUME NEW i \in 1 .. Len(confirmed')
        PROVE  /\ confirmed'[i].start < confirmed'[i].end
               /\ confirmed'[i].start = IF i = 1 THEN 0 ELSE confirmed'[i - 1].end
    <3>1. i \in 1 .. n /\ i \in 1 .. Len(confirmed) /\ (i # 1 => i - 1 \in 1 .. n)
      BY <1>1, <1>2
    <3>2. /\ confirmed[i].start < confirmed[i].end
          /\ confirmed[i].start = IF i = 1 THEN 0 ELSE confirmed[i - 1].end
      BY <3>1 DEF SpansTile
    <3> QED
      BY <1>2, <3>1, <3>2
  <2>3. active_start' = IF confirmed' = <<>> THEN 0 ELSE confirmed'[Len(confirmed')].end
    <3>1. confirmed' = <<>> <=> n = 0
      BY <1>1, <1>2, EmptySeq
    <3>2. n # 0 => confirmed'[n] = confirmed[n]
      BY <1>1, <1>2
    <3> QED
      BY <1>2, <1>3, <1>4, <3>1, <3>2
  <2> QED
    BY <2>1, <2>2, <2>3 DEF SpansTile
<1> QED
  BY <1>5, <1>6

LEMMA PrefixLengthens ==
  ASSUME ViewOK, NEW c \in Candidate, SelectPrefix(c)
  PROVE  Len(confirmed') = Len(confirmed) + 1
  BY DEF SelectPrefix, ViewOK

LEMMA ViewPreserved ==
  ASSUME ViewOK, SpansTile, after_digit \in BOOLEAN, ViewStep
  PROVE  ViewOK' /\ SpansTile'
<1>1. CASE UNCHANGED <<composition, choice, revision>>
  BY <1>1 DEF composition, choice, ViewOK, SpansTile
<1>2. ASSUME NEW key \in Key, ~Unsupported(key, after_digit),
             EditActive(Process(ActiveInput, key, after_digit))
      PROVE  ViewOK' /\ SpansTile'
  <2>1. /\ confirmed' = confirmed /\ active_start' = active_start
        /\ highlighted_idx' = 0 /\ page' = 0
        /\ revision' = revision + 1
    BY <1>2 DEF EditActive
  <2>2. PICK w \in Code :
          /\ raw' \in Code
          /\ Len(raw') = active_start + Len(w)
          /\ candidates' \in Seq(Candidate)
    BY <1>2, EditSteps
  <2>3. Len(w) \in Nat
    BY CodeIsSeq, LenProperties
  <2> QED
    BY <2>1, <2>2, <2>3 DEF ViewOK, SpansTile
<1>3. ASSUME NEW i \in 1 .. Len(candidates), SelectPrefix(candidates[i])
      PROVE  ViewOK' /\ SpansTile'
  BY <1>3, ElementOfSeq, PrefixSteps DEF ViewOK
<1>4. CASE Reopens("Backspace") /\ ReopenLastConfirmed
  BY <1>4, ReopenSteps
<1>5. CASE PageMove
  BY <1>1, <1>5, PageSteps DEF ShowPage, composition, ViewOK, SpansTile
<1>6. ASSUME NEW id \in DOMAIN pending, ApplyClear(id)
      PROVE  ViewOK' /\ SpansTile'
  <2>1. /\ raw' = <<>> /\ active_start' = 0 /\ confirmed' = <<>>
        /\ candidates' = <<>> /\ highlighted_idx' = 0 /\ page' = 0
        /\ revision' = revision + 1
    BY <1>6 DEF ApplyClear
  <2>2. Len(<<>>) = 0
    OBVIOUS
  <2> QED
    BY <2>1, <2>2, EmptyIsCode, AlphabetAssumption DEF ViewOK, SpansTile
<1> QED
  BY <1>1, <1>2, <1>3, <1>4, <1>5, <1>6 DEF ViewStep

-----------------------------------------------------------------------------
(***************************************************************************)
(* The platform actions: ids below next_action, each open one with an      *)
(* effect, the ones learned from being answered and all different.         *)
(***************************************************************************)
ActionsOK ==
  /\ next_action \in 1 .. MaxActions + 1
  /\ DOMAIN pending \subseteq 1 .. MaxActions
  /\ \A id \in DOMAIN pending : pending[id] \in Effect
  /\ learned \in Seq(1 .. MaxActions)

LEMMA ActionsPreserved ==
  ASSUME ActionsOK, ActionStep
  PROVE  ActionsOK'
<1>0. MaxActions \in Nat
  BY SessionAssumption
<1>1. CASE UNCHANGED <<next_action, pending, learned>>
  BY <1>1 DEF ActionsOK
<1>2. ASSUME NEW effect \in Effect, Proposed(effect)
      PROVE  ActionsOK'
  <2>1. next_action \in 1 .. MaxActions
    BY <1>0, <1>2 DEF ActionsOK, Proposed
  <2> QED
    BY <1>0, <1>2, <2>1 DEF ActionsOK, Proposed
<1>3. ASSUME NEW id \in DOMAIN pending, Answered(id)
      PROVE  ActionsOK'
  <2>1. learned' \in Seq(1 .. MaxActions)
    <3>1. id \in 1 .. MaxActions /\ learned \in Seq(1 .. MaxActions)
      BY DEF ActionsOK
    <3>2. Append(learned, id) \in Seq(1 .. MaxActions)
      BY <3>1, AppendProperties
    <3> QED
      BY <1>3, <3>1, <3>2 DEF Answered
  <2> QED
    BY <1>3, <2>1 DEF ActionsOK, Answered, Forget
<1> QED
  BY <1>1, <1>2, <1>3 DEF ActionStep

\* The two scalars that neither classification mentions.
LEMMA ScalarSteps ==
  ASSUME last_sequence \in 0 .. MaxSequence, after_digit \in BOOLEAN, [Next]_vars
  PROVE  last_sequence' \in 0 .. MaxSequence /\ after_digit' \in BOOLEAN
<1>1. \A h \in Header : h.sequence \in 0 .. MaxSequence
  BY SessionAssumption DEF Header
<1>2. ASSUME NEW h \in Header, RejectHeader(h)
      PROVE  UNCHANGED <<last_sequence, after_digit>>
  BY <1>2 DEF RejectHeader
<1>3. ASSUME NEW h \in Header, NEW key \in Key, KeyCommand(h, key)
      PROVE  last_sequence' = h.sequence /\ after_digit' \in BOOLEAN
  <2>1. AfterDigit(key) \in BOOLEAN
    BY DEF AfterDigit
  <2>2. after_digit' = AfterDigit(key) \/ after_digit' = after_digit
    BY <1>3 DEF KeyCommand, ReopenLastConfirmed
  <2> QED
    BY <1>3, <2>1, <2>2 DEF KeyCommand, Consume
<1>4. ASSUME NEW h \in Header, UiCommand(h)
      PROVE  last_sequence' = h.sequence /\ after_digit' = after_digit
  BY <1>4 DEF UiCommand, Consume
<1>5. ASSUME NEW h \in Header, NEW id, NEW outcome, PlatformActionResult(h, id, outcome)
      PROVE  last_sequence' = h.sequence /\ after_digit' = after_digit
  BY <1>5 DEF PlatformActionResult, Consume
<1>6. ASSUME NEW h \in Header, NEW token \in Token, RollbackLearning(h, token)
      PROVE  last_sequence' = h.sequence /\ after_digit' = after_digit
  BY <1>6 DEF RollbackLearning, Consume
<1>7. ASSUME NEW h \in Header, NEW rev, OpenOrCloseSession(h, rev)
      PROVE  last_sequence' \in {h.sequence, last_sequence} /\ after_digit' = after_digit
  BY <1>7 DEF OpenOrCloseSession, Consume
<1>8. CASE UNCHANGED vars
  BY <1>8 DEF vars
<1> QED
  BY <1>1, <1>2, <1>3, <1>4, <1>5, <1>6, <1>7, <1>8 DEF Next

-----------------------------------------------------------------------------
(***************************************************************************)
(* The theorems.                                                           *)
(***************************************************************************)
IInv == TypeOK /\ SpansTile

LEMMA InitIInv == Init => IInv
<1> SUFFICES ASSUME Init PROVE IInv
  OBVIOUS
<1>1. Len(<<>>) = 0 /\ <<>> \in Seq(ConfirmedSegment) /\ <<>> \in Seq(Candidate)
      /\ <<>> \in Seq(1 .. MaxActions)
  OBVIOUS
<1>2. raw \in Code
  BY EmptyIsCode DEF Init
<1>3. TypeOK
  <2>1. MaxInput \in Nat /\ MaxSequence \in Nat /\ MaxActions \in Nat
    BY AlphabetAssumption, SessionAssumption
  <2>2. DOMAIN pending = {}
    BY DEF Init
  <2>3. 0 \in 0 .. MaxInput /\ 0 \in 0 .. MaxSequence /\ 1 \in 1 .. MaxActions + 1
    BY <2>1
  <2> HIDE DEF Code, ConfirmedSegment, Candidate
  <2> QED
    BY <1>1, <1>2, <2>2, <2>3 DEF Init, TypeOK
<1>4. SpansTile
  BY <1>1 DEF Init, SpansTile
<1> QED
  BY <1>3, <1>4 DEF IInv

LEMMA NextIInv == IInv /\ [Next]_vars => IInv'
<1> SUFFICES ASSUME TypeOK, SpansTile, [Next]_vars PROVE TypeOK' /\ SpansTile'
  BY DEF IInv
<1>1. ViewOK /\ ActionsOK /\ last_sequence \in 0 .. MaxSequence /\ after_digit \in BOOLEAN
  BY DEF TypeOK, ViewOK, ActionsOK
<1>2. ViewStep /\ ActionStep
  BY ViewSteps, ActionSteps
<1>3. ViewOK' /\ SpansTile' /\ ActionsOK'
  BY <1>1, <1>2, ViewPreserved, ActionsPreserved
<1>4. last_sequence' \in 0 .. MaxSequence /\ after_digit' \in BOOLEAN
  BY <1>1, ScalarSteps
<1>5. TypeOK'
  BY <1>3, <1>4 DEF TypeOK, ViewOK, ActionsOK
<1> QED
  BY <1>3, <1>5

THEOREM Invariance == Spec => []IInv
<1> QED
  BY InitIInv, NextIInv, PTL DEF Spec

\* The session's fields keep their types.
THEOREM TypeCorrect == Spec => []TypeOK
<1>1. IInv => TypeOK
  BY DEF IInv
<1> QED
  BY <1>1, Invariance, PTL

\* The chosen segments tile the decided part of the input, whatever is typed,
\* selected, reopened or answered late.
THEOREM SegmentsTile == Spec => []SpansTile
<1>1. IInv => SpansTile
  BY DEF IInv
<1> QED
  BY <1>1, Invariance, PTL

\* Every change of the composition or the candidate list raises the revision.
THEOREM RevisionGuards == Spec => RevisionGuardsView
<1> DEFINE Guarded == /\ revision' >= revision
                      /\ <<composition, candidates>>' # <<composition, candidates>>
                           => revision' > revision
<1>1. IInv /\ [Next]_vars => Guarded
  <2> SUFFICES ASSUME TypeOK, [Next]_vars PROVE Guarded
    BY DEF IInv
  <2>1. revision \in Nat /\ ViewOK
    BY DEF TypeOK, ViewOK
  <2>2. CASE UNCHANGED <<composition, choice, revision>>
    BY <2>1, <2>2 DEF choice
  <2>3. CASE PageMove
    <3>1. UNCHANGED <<composition, candidates, revision>>
      BY <2>1, <2>3, PageSteps DEF ShowPage, choice
    <3> QED
      BY <2>1, <3>1
  <2>4. CASE revision' = revision + 1
    BY <2>1, <2>4
  <2> HIDE DEF Guarded
  <2> QED
    BY <2>2, <2>3, <2>4, ViewSteps
      DEF ViewStep, EditActive, SelectPrefix, ReopenLastConfirmed, ApplyClear
<1>2. Guarded => [Guarded]_vars
  OBVIOUS
<1> HIDE DEF Guarded
<1> QED
  BY <1>1, Invariance, PTL DEF Spec, RevisionGuardsView, Guarded

\* A chosen segment goes away only by Backspace or with its composition.
THEOREM SelectionsStay == Spec => SelectionsKept
<1> DEFINE Kept == Len(confirmed') < Len(confirmed) =>
                     \/ raw' = raw /\ confirmed' = SubSeq(confirmed, 1, Len(confirmed) - 1)
                     \/ \E id \in DOMAIN pending \ DOMAIN pending' :
                          pending[id].effect # "Keep"
<1>1. IInv /\ [Next]_vars => Kept
  <2> SUFFICES ASSUME TypeOK, [Next]_vars, Len(confirmed') < Len(confirmed) PROVE Kept
    BY DEF IInv
  <2>1. Len(confirmed) \in Nat /\ ViewOK
    BY DEF TypeOK, ViewOK
  <2>2. confirmed' # confirmed
    BY <2>1
  <2>3. ~ UNCHANGED <<composition, choice, revision>>
    BY <2>2 DEF composition
  <2>4. ~ PageMove
    BY <2>1, <2>2, PageSteps DEF ShowPage, composition
  <2>5. ASSUME NEW i \in 1 .. Len(candidates), SelectPrefix(candidates[i])
        PROVE  FALSE
    <3>1. ViewOK /\ candidates[i] \in Candidate
      BY <2>1, ElementOfSeq DEF ViewOK
    <3>2. Len(confirmed') = Len(confirmed) + 1
      BY <2>5, <3>1, PrefixLengthens
    <3> QED
      BY <2>1, <3>2
  <2>6. CASE ReopenLastConfirmed
    BY <2>6 DEF ReopenLastConfirmed
  <2>7. ASSUME NEW id \in DOMAIN pending, ApplyClear(id), Forget(id)
        PROVE  Kept
    BY <2>7 DEF ApplyClear, Forget
  <2> HIDE DEF Kept
  <2> QED
    BY <2>2, <2>3, <2>4, <2>5, <2>6, <2>7, ViewSteps DEF ViewStep, EditActive
<1> HIDE DEF Kept
<1> QED
  BY <1>1, Invariance, PTL DEF Spec, SelectionsKept, Kept

-----------------------------------------------------------------------------
(***************************************************************************)
(* The session implements CommitLedger.  The mapping is exact only while   *)
(* every open action has an id that was already given out.                 *)
(***************************************************************************)
IssuedBeforeOpen == DOMAIN pending \subseteq 1 .. next_action - 1

LEMMA IssuedSteps ==
  ASSUME ActionsOK, IssuedBeforeOpen, ActionStep
  PROVE  IssuedBeforeOpen'
<1>1. CASE UNCHANGED <<next_action, pending, learned>>
  BY <1>1 DEF IssuedBeforeOpen
<1>2. ASSUME NEW effect, Proposed(effect)
      PROVE  IssuedBeforeOpen'
  <2>1. DOMAIN pending' = DOMAIN pending \cup {next_action} /\ next_action' = next_action + 1
    BY <1>2 DEF Proposed
  <2> QED
    BY <2>1, SessionAssumption DEF ActionsOK, IssuedBeforeOpen
<1>3. ASSUME NEW id \in DOMAIN pending, Answered(id)
      PROVE  IssuedBeforeOpen'
  BY <1>3 DEF IssuedBeforeOpen, Answered, Forget
<1> QED
  BY <1>1, <1>2, <1>3 DEF ActionStep

LEMMA LedgerSteps ==
  ASSUME ActionsOK, IssuedBeforeOpen, ActionStep
  PROVE  [Ledger!Next]_(Ledger!ledgerVars)
<1> DEFINE Teaching == {id \in DOMAIN pending : pending[id].effect = "Learn"}
<1>1. CASE UNCHANGED <<next_action, pending, learned>>
  BY <1>1 DEF Ledger!ledgerVars
<1>2. ASSUME NEW effect \in Effect, Proposed(effect)
      PROVE  Ledger!Propose
  <2>1. next_action \in Nat /\ next_action \notin DOMAIN pending
    BY SessionAssumption DEF ActionsOK, IssuedBeforeOpen
  <2>2. /\ DOMAIN pending' = DOMAIN pending \cup {next_action}
        /\ pending'[next_action] = effect
        /\ \A id \in DOMAIN pending : pending'[id] = pending[id]
        /\ next_action' = next_action + 1 /\ learned' = learned
    BY <1>2, <2>1 DEF Proposed
  <2>3. Teaching' = IF effect.effect = "Learn" THEN Teaching \cup {next_action} ELSE Teaching
    BY <2>1, <2>2
  <2>4. next_action - 1 + 1 = next_action /\ next_action' - 1 = next_action
    BY <2>1, <2>2
  <2> QED
    BY <2>2, <2>3, <2>4 DEF Ledger!Propose
<1>3. ASSUME NEW id \in DOMAIN pending, Answered(id)
      PROVE  Ledger!Answer(id)
  <2>1. /\ DOMAIN pending' = DOMAIN pending \ {id}
        /\ \A i \in DOMAIN pending' : pending'[i] = pending[i]
        /\ next_action' = next_action
    BY <1>3 DEF Answered, Forget
  <2>2. Teaching' = Teaching \ {id}
    BY <2>1
  <2>3. learned' \in {learned} \cup {Append(learned, i) : i \in Teaching \cap {id}}
    BY <1>3 DEF Answered
  <2> QED
    BY <2>1, <2>2, <2>3 DEF Ledger!Answer
<1> QED
  BY <1>1, <1>2, <1>3 DEF ActionStep, Ledger!Next

\* The detailed session implements the abstract ledger of platform actions.
THEOREM ImplementsLedger == Spec => LedgerSpec
<1>1. Init => IssuedBeforeOpen /\ Ledger!Init
  BY DEF Init, IssuedBeforeOpen, Ledger!Init
<1>2. IInv /\ IssuedBeforeOpen /\ [Next]_vars
        => IssuedBeforeOpen' /\ [Ledger!Next]_(Ledger!ledgerVars)
  BY ActionSteps, IssuedSteps, LedgerSteps DEF IInv, TypeOK, ActionsOK
<1> QED
  BY <1>1, <1>2, Invariance, PTL DEF Spec, LedgerSpec, Ledger!Spec

LEMMA AnswerKeepsLedger ==
  ASSUME Ledger!LedgerInv, NEW id \in DOMAIN pending, Ledger!Answer(id)
  PROVE  Ledger!LedgerInv'
<1> DEFINE issued == next_action - 1
           open == DOMAIN pending
           teaching == {i \in DOMAIN pending : pending[i].effect = "Learn"}
<1>1. /\ issued' = issued /\ open' = open \ {id} /\ teaching' = teaching \ {id}
      /\ issued \in Nat /\ open \subseteq 1 .. issued /\ teaching \subseteq open
      /\ id \in open /\ id \in 1 .. issued /\ id \in Nat
      /\ learned \in Seq(Nat) /\ Len(learned) \in Nat
  BY DEF Ledger!LedgerInv, Ledger!Answer
<1>2. /\ \A i, j \in 1 .. Len(learned) : learned[i] = learned[j] => i = j
      /\ \A i \in 1 .. Len(learned) : learned[i] \in (1 .. issued) \ open
  BY DEF Ledger!LedgerInv, Ledger!LearnedOnce
<1>3. learned' = learned \/ learned' = Append(learned, id)
  BY DEF Ledger!Answer
<1>4. Ledger!LedgerInv' <=>
        /\ issued' \in Nat /\ open' \subseteq 1 .. issued' /\ teaching' \subseteq open'
        /\ learned' \in Seq(Nat)
        /\ \A i, j \in 1 .. Len(learned') : learned'[i] = learned'[j] => i = j
        /\ \A i \in 1 .. Len(learned') : learned'[i] \in (1 .. issued') \ open'
  BY Zenon DEF Ledger!LedgerInv, Ledger!LearnedOnce
<1> HIDE DEF issued, open, teaching
<1>5. CASE learned' = learned
  BY <1>1, <1>2, <1>4, <1>5
<1>6. CASE learned' = Append(learned, id)
  <2>1. /\ learned' \in Seq(Nat)
        /\ Len(learned') = Len(learned) + 1
        /\ \A i \in 1 .. Len(learned) : learned'[i] = learned[i]
        /\ learned'[Len(learned) + 1] = id
    BY <1>1, <1>6, AppendProperties
  <2>2. \A i \in 1 .. Len(learned) : learned[i] # id
    BY <1>1, <1>2
  <2>3. \A i \in 1 .. Len(learned') : i \in 1 .. Len(learned) \/ i = Len(learned) + 1
    BY <1>1, <2>1
  <2>4. \A i \in 1 .. Len(learned') : learned'[i] \in (1 .. issued') \ open'
    BY <1>1, <1>2, <2>1, <2>2, <2>3
  <2>5. \A i, j \in 1 .. Len(learned') : learned'[i] = learned'[j] => i = j
    BY <1>2, <2>1, <2>2, <2>3
  <2> QED
    BY <1>1, <1>4, <2>1, <2>4, <2>5
<1> QED
  BY <1>3, <1>5, <1>6

\* No ledger learns from one action twice, or from one still open.
LEMMA LedgerLearnsOnce == Ledger!Spec => []Ledger!LearnedOnce
<1>1. Ledger!Init => Ledger!LedgerInv
  BY DEF Ledger!Init, Ledger!LedgerInv, Ledger!LearnedOnce
<1>2. Ledger!LedgerInv /\ [Ledger!Next]_(Ledger!ledgerVars) => Ledger!LedgerInv'
  <2>1. ASSUME Ledger!LedgerInv, Ledger!Propose PROVE Ledger!LedgerInv'
    BY <2>1 DEF Ledger!Propose, Ledger!LedgerInv, Ledger!LearnedOnce
  <2>2. ASSUME Ledger!LedgerInv, UNCHANGED Ledger!ledgerVars PROVE Ledger!LedgerInv'
    BY <2>2 DEF Ledger!ledgerVars, Ledger!LedgerInv, Ledger!LearnedOnce
  <2> QED
    BY <2>1, <2>2, AnswerKeepsLedger DEF Ledger!Next
<1>3. Ledger!LedgerInv => Ledger!LearnedOnce
  BY DEF Ledger!LedgerInv
<1> QED
  BY <1>1, <1>2, <1>3, PTL DEF Ledger!Spec

\* No action result is learned from twice: what the ledger guarantees.
THEOREM LearnedAtMostOnce == Spec => []LearnedOnce
<1> QED
  BY ImplementsLedger, LedgerLearnsOnce, PTL DEF LedgerSpec, LearnedOnce

-----------------------------------------------------------------------------
(***************************************************************************)
(* The list on offer belongs to the undecided input.                       *)
(***************************************************************************)
LEMMA EditedSuffix ==
  ASSUME raw \in Code, active_start \in 0 .. Len(raw), NEW w \in Code
  PROVE  SubSeq(SubSeq(raw, 1, active_start) \o w, active_start + 1,
                active_start + Len(w)) = w
<1>1. raw \in Seq(Char) /\ Len(raw) \in Nat /\ w \in Seq(Char) /\ Len(w) \in Nat
  BY CodeIsSeq, LenProperties
<1>2. \A i \in 1 .. active_start : raw[i] \in Char
  BY <1>1
<1> DEFINE kept == SubSeq(raw, 1, active_start)
<1>3. /\ kept \in Seq(Char)
      /\ Len(kept) = IF 1 <= active_start THEN active_start - 1 + 1 ELSE 0
  BY <1>1, <1>2, SubSeqProperties
<1>4. Len(kept) = active_start
  BY <1>1, <1>3
<1> HIDE DEF kept
<1>5. SubSeq(kept \o w, Len(kept) + 1, Len(kept) + Len(w)) = w
  BY <1>1, <1>3, SubSeqOfConcat2
<1> QED
  BY <1>4, <1>5 DEF kept

LEMMA MatchPreserved ==
  ASSUME ViewOK, SpansTile, CandidatesMatchActive, after_digit \in BOOLEAN, ViewStep
  PROVE  CandidatesMatchActive'
<1>1. CASE UNCHANGED <<raw, active_start, candidates>>
  BY <1>1 DEF CandidatesMatchActive, ActiveInput
<1>2. ASSUME NEW key \in Key, ~Unsupported(key, after_digit),
             EditActive(Process(ActiveInput, key, after_digit))
      PROVE  CandidatesMatchActive'
  <2>1. active_start' = active_start /\ active_start \in 0 .. Len(raw)
    BY <1>2, LenProperties DEF EditActive, ViewOK, SpansTile
  <2>2. PICK w \in Code :
          /\ raw' = SubSeq(raw, 1, active_start) \o w
          /\ Len(raw') = active_start + Len(w)
          /\ \/ candidates' = Refresh(w)
             \/ \E mark \in DOMAIN ListMark :
                  w = <<mark>> /\ candidates' = Resolve(<<mark>>, Injected(mark))
    BY <1>2, EditSteps
  <2>3. ActiveInput' = w
    BY <2>1, <2>2, EditedSuffix DEF ActiveInput, ViewOK
  <2> QED
    BY <2>2, <2>3 DEF CandidatesMatchActive
<1>3. CASE RefreshActiveCandidates
  BY <1>3 DEF RefreshActiveCandidates, CandidatesMatchActive
<1>4. ASSUME NEW id \in DOMAIN pending, ApplyClear(id)
      PROVE  CandidatesMatchActive'
  BY <1>4 DEF ApplyClear, CandidatesMatchActive
<1>5. CASE PageMove
  BY <1>1, <1>5, PageSteps DEF ShowPage, composition, choice
<1> QED
  BY <1>1, <1>2, <1>3, <1>4, <1>5
    DEF ViewStep, SelectPrefix, ReopenLastConfirmed, composition, choice

\* A candidate id never selects a candidate of other input.
THEOREM CandidatesMatch == Spec => []CandidatesMatchActive
<1>1. Init => CandidatesMatchActive
  BY DEF Init, CandidatesMatchActive
<1>2. IInv /\ CandidatesMatchActive /\ [Next]_vars => CandidatesMatchActive'
  BY ViewSteps, MatchPreserved DEF IInv, TypeOK, ViewOK
<1> QED
  BY <1>1, <1>2, Invariance, PTL DEF Spec

-----------------------------------------------------------------------------
(***************************************************************************)
(* The highlight is on the page.  HighlightIsVisible speaks of the id the  *)
(* snapshot shows; its inductive form speaks of page and highlighted_idx.  *)
(***************************************************************************)
OnPage(p, idx) ==
  candidates # <<>> => /\ idx < Len(candidates)
                       /\ p * PageSize <= idx
                       /\ idx < p * PageSize + PageSize

HighlightOnPage == OnPage(page, highlighted_idx)

LEMMA VisibleOnPage ==
  ASSUME ViewOK, HighlightOnPage
  PROVE  HighlightIsVisible
<1> SUFFICES ASSUME candidates # <<>>
             PROVE  CurrentHighlightId = highlighted_idx + 1
  BY DEF HighlightIsVisible
<1> DEFINE n    == Len(candidates)
           last == IF PageStart + PageSize < n THEN PageStart + PageSize ELSE n
<1>1. /\ PageSize \in Nat /\ PageSize > 0 /\ page \in Nat /\ highlighted_idx \in Nat
      /\ n \in Nat
  BY SessionAssumption DEF ViewOK
<1>2. PageStart \in Nat
  BY <1>1 DEF PageStart
<1>3. highlighted_idx < n /\ PageStart <= highlighted_idx
        /\ highlighted_idx < PageStart + PageSize
  BY DEF HighlightOnPage, OnPage, PageStart
<1>4. Len(PageCandidates) = last - PageStart
  <2>1. last \in Nat /\ PageStart + 1 <= last /\ last <= n
    BY <1>1, <1>2, <1>3
  <2>2. \A i \in PageStart + 1 .. last : candidates[i] \in Candidate
    BY <1>1, <1>2, <2>1, ElementOfSeq DEF ViewOK
  <2> HIDE DEF last
  <2>3. Len(SubSeq(candidates, PageStart + 1, last)) = last - (PageStart + 1) + 1
    BY <1>2, <2>1, <2>2, SubSeqProperties
  <2> QED
    BY <1>2, <2>1, <2>3 DEF PageCandidates, last
<1>5. highlighted_idx - PageStart < Len(PageCandidates)
  BY <1>1, <1>2, <1>3, <1>4
<1> QED
  BY <1>1, <1>2, <1>3, <1>5 DEF CurrentHighlightId

\* Arithmetic of pages: the page of an index, and the last page.
LEMMA PageOfIndex ==
  ASSUME NEW idx \in Nat
  PROVE  /\ (idx \div PageSize) * PageSize <= idx
         /\ idx < (idx \div PageSize) * PageSize + PageSize
<1>1. PageSize \in Nat /\ PageSize > 0
  BY SessionAssumption
<1> QED
  BY <1>1

LEMMA LastPage ==
  ASSUME candidates \in Seq(Candidate), NEW p \in Nat, p < TotalPages
  PROVE  p * PageSize < Len(candidates)
<1>1. PageSize \in Nat /\ PageSize > 0 /\ Len(candidates) \in Nat
  BY SessionAssumption
<1> DEFINE m == Len(candidates) + PageSize - 1
<1>2. m \in Nat
  BY <1>1
<1>3. (m \div PageSize) * PageSize <= m /\ m \div PageSize \in Nat
  <2> HIDE DEF m
  <2> QED
    BY <1>1, <1>2, PageOfIndex
<1>4. p + 1 <= m \div PageSize
  BY <1>3 DEF TotalPages
<1>5. (p + 1) * PageSize <= (m \div PageSize) * PageSize
  <2> HIDE DEF m
  <2> QED
    BY <1>1, <1>3, <1>4
<1>6. p * PageSize + PageSize <= m
  <2>1. (p + 1) * PageSize = p * PageSize + PageSize
    BY <1>1
  <2>2. p * PageSize \in Nat /\ (m \div PageSize) * PageSize \in Nat
    BY <1>1, <1>3
  <2> HIDE DEF m
  <2> QED
    BY <1>1, <1>2, <1>3, <1>5, <2>1, <2>2
<1> QED
  <2>1. p * PageSize \in Nat
    BY <1>1
  <2> QED
    BY <1>1, <1>6, <2>1

LEMMA PageMovesOnPage ==
  ASSUME ViewOK, HighlightOnPage, PageMove
  PROVE  HighlightOnPage'
<1>1. PageSize \in Nat /\ PageSize > 0 /\ Deltas \subseteq Int
  BY SessionAssumption
<1>2. page \in Nat /\ highlighted_idx \in Nat /\ Len(candidates) \in Nat
  BY DEF ViewOK
<1>3. candidates' = candidates
  BY PageSteps DEF ShowPage, choice
<1>4. ASSUME NEW p, NEW idx, ShowPage(p, idx), OnPage(p, idx)
      PROVE  HighlightOnPage'
  BY <1>3, <1>4 DEF ShowPage, HighlightOnPage, OnPage
<1>5. CASE candidates = <<>>
  BY <1>3, <1>5 DEF HighlightOnPage, OnPage
<1>6. CASE candidates # <<>> /\ NextPage
  <2>1. CASE TotalPages = 0
    BY <1>4, <1>6, <2>1 DEF NextPage, HighlightOnPage
  <2>2. CASE TotalPages # 0
    <3> DEFINE next == IF page + 1 < TotalPages THEN page + 1 ELSE TotalPages - 1
    <3>1. TotalPages \in Nat
      BY <1>1, <1>2 DEF TotalPages
    <3>2. next \in Nat /\ next < TotalPages
      BY <1>2, <2>2, <3>1
    <3>3. ShowPage(next, next * PageSize)
      BY <1>6, <2>2 DEF NextPage
    <3> HIDE DEF next
    <3>4. next * PageSize < Len(candidates) /\ next * PageSize \in Nat
      BY <1>1, <3>2, LastPage DEF ViewOK
    <3>5. OnPage(next, next * PageSize)
      BY <1>1, <3>4 DEF OnPage
    <3> QED
      BY <1>4, <3>3, <3>5
  <2> QED
    BY <2>1, <2>2
<1>7. CASE candidates # <<>> /\ PreviousPage
  <2> DEFINE previous == IF page = 0 THEN 0 ELSE page - 1
  <2>1. previous \in Nat /\ previous <= page
    BY <1>2
  <2>2. ShowPage(previous, previous * PageSize)
    BY <1>7 DEF PreviousPage
  <2> HIDE DEF previous
  <2>3. previous * PageSize <= page * PageSize /\ previous * PageSize \in Nat
        /\ page * PageSize \in Nat
    BY <1>1, <1>2, <2>1
  <2>4. page * PageSize <= highlighted_idx /\ highlighted_idx < Len(candidates)
    BY <1>7 DEF HighlightOnPage, OnPage
  <2>5. OnPage(previous, previous * PageSize)
    BY <1>1, <1>2, <2>3, <2>4 DEF OnPage
  <2> QED
    BY <1>4, <2>2, <2>5
<1>8. ASSUME candidates # <<>>, NEW delta \in Deltas, MoveHighlight(delta)
      PROVE  HighlightOnPage'
  <2> DEFINE max   == Len(candidates) - 1
             moved == highlighted_idx + delta
             idx   == IF moved < 0 THEN 0 ELSE IF moved > max THEN max ELSE moved
  <2>1. Len(candidates) # 0
    BY <1>8, EmptySeq DEF ViewOK
  <2>2. idx \in Nat /\ idx < Len(candidates)
    BY <1>1, <1>2, <2>1
  <2>3. ShowPage(idx \div PageSize, idx)
    BY <1>8 DEF MoveHighlight
  <2> HIDE DEF idx
  <2>4. OnPage(idx \div PageSize, idx)
    BY <2>2, PageOfIndex DEF OnPage
  <2> QED
    BY <1>4, <2>3, <2>4
<1> QED
  BY <1>5, <1>6, <1>7, <1>8 DEF PageMove

LEMMA OnPagePreserved ==
  ASSUME ViewOK, ViewOK', HighlightOnPage, ViewStep
  PROVE  HighlightOnPage'
<1>1. CASE UNCHANGED choice
  BY <1>1 DEF choice, HighlightOnPage, OnPage
<1>2. CASE highlighted_idx' = 0 /\ page' = 0
  <2>1. PageSize \in Nat /\ PageSize > 0 /\ 0 * PageSize = 0
    BY SessionAssumption
  <2>2. candidates' # <<>> => Len(candidates') \in Nat \ {0}
    BY EmptySeq DEF ViewOK
  <2> QED
    BY <1>2, <2>1, <2>2 DEF HighlightOnPage, OnPage
<1>3. CASE PageMove
  BY <1>3, PageMovesOnPage
<1> QED
  BY <1>1, <1>2, <1>3
    DEF ViewStep, EditActive, SelectPrefix, ReopenLastConfirmed, RefreshActiveCandidates,
        ApplyClear

\* The highlighted candidate of a snapshot is the one Space commits.
THEOREM HighlightVisible == Spec => []HighlightIsVisible
<1>1. Init => HighlightOnPage
  BY DEF Init, HighlightOnPage, OnPage
<1>2. IInv /\ IInv' /\ HighlightOnPage /\ [Next]_vars => HighlightOnPage'
  BY ViewSteps, OnPagePreserved DEF IInv, TypeOK, ViewOK
<1>3. IInv /\ HighlightOnPage => HighlightIsVisible
  BY VisibleOnPage DEF IInv, TypeOK, ViewOK
<1> QED
  BY <1>1, <1>2, <1>3, Invariance, PTL DEF Spec
-----------------------------------------------------------------------------
(***************************************************************************)
(* What is learned covers the input, if the codes of the candidates spell  *)
(* what they consume.  The codes of the chosen segments must be known to   *)
(* spell their spans long before the record is made of them.               *)
(***************************************************************************)
Span(i) == SubSeq(raw, confirmed[i].start + 1, confirmed[i].end)

SegmentsSpell == \A i \in 1 .. Len(confirmed) : confirmed[i].code = Span(i)

\* Neighbouring spans join.
LEMMA SpansJoin ==
  ASSUME NEW s \in Seq(Char), NEW m \in Nat, NEW n \in Nat, m <= n, n <= Len(s)
  PROVE  SubSeq(s, 1, m) \o SubSeq(s, m + 1, n) = SubSeq(s, 1, n)
<1> DEFINE left == SubSeq(s, 1, m)
           right == SubSeq(s, m + 1, n)
           both == SubSeq(s, 1, n)
<1>1. \A i \in 1 .. n : s[i] \in Char
  BY LenProperties
<1>2. /\ left = [i \in 1 .. m |-> s[i]]
      /\ right = [i \in 1 .. n - m |-> s[m + i]]
      /\ both = [i \in 1 .. n |-> s[i]]
  OBVIOUS
<1>3. left \in Seq(Char) /\ right \in Seq(Char) /\ Len(left) = m /\ Len(right) = n - m
  BY <1>1, <1>2
<1>4. /\ left \o right \in Seq(Char)
      /\ Len(left \o right) = n
      /\ \A i \in 1 .. n : (left \o right)[i] = IF i <= m THEN left[i] ELSE right[i - m]
  <2> HIDE DEF left, right
  <2> QED
    BY <1>3, ConcatProperties
<1>5. \A i \in 1 .. n : (left \o right)[i] = s[i]
  <2> HIDE DEF left, right
  <2> QED
    BY <1>2, <1>4
<1>6. left \o right = [i \in 1 .. n |-> s[i]]
  <2> DEFINE joined == left \o right
  <2>1. joined \in Seq(Char) /\ Len(joined) = n /\ \A i \in 1 .. n : joined[i] = s[i]
    BY <1>4, <1>5
  <2> HIDE DEF joined
  <2>2. joined = [i \in 1 .. n |-> s[i]]
    BY <2>1
  <2> QED
    BY <2>2 DEF joined
<1> QED
  BY <1>2, <1>6

\* A span inside the part of the input that is kept is kept.
LEMMA SpanKept ==
  ASSUME NEW s \in Seq(Char), NEW w \in Seq(Char), NEW k \in 0 .. Len(s),
         NEW m \in Nat, NEW n \in 0 .. k
  PROVE  SubSeq(SubSeq(s, 1, k) \o w, m + 1, n) = SubSeq(s, m + 1, n)
<1> DEFINE kept == SubSeq(s, 1, k)
           r == kept \o w
<1>1. /\ kept \in Seq(Char) /\ Len(kept) = k
      /\ \A i \in 1 .. k : kept[i] = s[i]
  <2>1. k \in Nat /\ \A i \in 1 .. k : s[i] \in Char
    BY LenProperties
  <2>2. /\ SubSeq(s, 1, k) \in Seq(Char)
        /\ Len(SubSeq(s, 1, k)) = IF 1 <= k THEN k - 1 + 1 ELSE 0
        /\ \A i \in 1 .. k - 1 + 1 : SubSeq(s, 1, k)[i] = s[1 + i - 1]
    BY <2>1, SubSeqProperties
  <2>3. k - 1 + 1 = k /\ \A i \in 1 .. k : 1 + i - 1 = i
    BY <2>1
  <2> QED
    BY <2>1, <2>2, <2>3
<1> HIDE DEF kept
<1>2. /\ r \in Seq(Char) /\ Len(r) = k + Len(w) /\ Len(w) \in Nat
      /\ \A i \in 1 .. k : r[i] = s[i]
  <2>1. Len(w) \in Nat /\ k \in Nat
    BY LenProperties
  <2>2. /\ r \in Seq(Char) /\ Len(r) = Len(kept) + Len(w)
        /\ \A i \in 1 .. Len(kept) + Len(w) :
             r[i] = IF i <= Len(kept) THEN kept[i] ELSE w[i - Len(kept)]
    BY <1>1, ConcatProperties
  <2> HIDE DEF r
  <2> QED
    BY <1>1, <2>1, <2>2
<1>3. SubSeq(r, m + 1, n) = SubSeq(s, m + 1, n)
  <2>1. \A i \in m + 1 .. n : r[i] = s[i] /\ s[i] \in Char
    BY <1>2, LenProperties
  <2> HIDE DEF r
  <2>2. SubSeq(r, m + 1, n) = [i \in 1 .. n - m |-> r[m + i]]
    OBVIOUS
  <2>3. SubSeq(s, m + 1, n) = [i \in 1 .. n - m |-> s[m + i]]
    OBVIOUS
  <2> QED
    BY <2>1, <2>2, <2>3
<1> QED
  BY <1>3 DEF r, kept

\* The segments before the undecided input end before it.
LEMMA EndsInside ==
  ASSUME ViewOK, SpansTile
  PROVE  \A i \in 1 .. Len(confirmed) : confirmed[i].end <= active_start
<1> DEFINE n == Len(confirmed)
           Good == {k \in Nat : k < n => confirmed[n - k].end <= active_start}
<1>1. /\ n \in Nat
      /\ \A i \in 1 .. n : confirmed[i].start \in Nat /\ confirmed[i].end \in Nat
  BY ConfirmedSegments, AlphabetAssumption DEF ViewOK
<1>2. 0 \in Good
  <2>1. active_start \in Nat
    BY AlphabetAssumption DEF ViewOK
  <2> QED
    BY <1>1, <2>1 DEF SpansTile
<1>3. ASSUME NEW k \in Nat, k \in Good
      PROVE  k + 1 \in Good
  <2> SUFFICES ASSUME k + 1 < n PROVE confirmed[n - (k + 1)].end <= active_start
    OBVIOUS
  <2>1. /\ n - k \in 1 .. n /\ n - k # 1 /\ n - k - 1 = n - (k + 1)
        /\ n - (k + 1) \in 1 .. n
    BY <1>1
  <2>2. /\ confirmed[n - k].start < confirmed[n - k].end
        /\ confirmed[n - k].start = confirmed[n - (k + 1)].end
    BY <2>1 DEF SpansTile
  <2>3. confirmed[n - k].end <= active_start /\ active_start \in Nat
    BY <1>1, <1>3, AlphabetAssumption DEF ViewOK
  <2> HIDE DEF n
  <2> QED
    BY <1>1, <2>1, <2>2, <2>3
<1>4. Nat \subseteq Good
  <2> HIDE DEF Good
  <2> QED
    BY <1>2, <1>3, Joins!SetInduction
<1> SUFFICES ASSUME NEW i \in 1 .. n PROVE confirmed[i].end <= active_start
  OBVIOUS
<1>5. n - i \in Nat /\ n - i \in Good /\ n - i < n /\ n - (n - i) = i
  BY <1>1, <1>4
<1> QED
  BY <1>5

\* What the pipeline offers for the undecided input spells it.
LEMMA OfferSpells ==
  ASSUME CodesSpell, ViewOK, CandidatesMatchActive, NEW i \in 1 .. Len(candidates)
  PROVE  Spells(ActiveInput, candidates[i])
<1>1. ActiveInput \in Code
  BY ActiveInputIsCode DEF ViewOK
<1>2. candidates[i] \in Range(candidates)
  BY DEF ViewOK, Range
<1>3. candidates # <<>>
  OBVIOUS
<1> HIDE DEF Code
<1> QED
  BY <1>1, <1>2, <1>3 DEF CandidatesMatchActive, CodesSpell

\* The span of a new segment, counted from the start of the input.
LEMMA PrefixSpan ==
  ASSUME ViewOK, SpansTile, NEW n \in 1 .. Len(ActiveInput)
  PROVE  SubSeq(ActiveInput, 1, n) = SubSeq(raw, active_start + 1, active_start + n)
<1>1. raw \in Seq(Char) /\ Len(raw) \in Nat /\ active_start \in Nat
  BY CodeIsSeq, AlphabetAssumption, LenProperties DEF ViewOK
<1>2. active_start + n <= Len(raw) /\ n \in Nat
  BY <1>1, ActiveInputLength DEF ViewOK
<1>3. ActiveInput = [i \in 1 .. Len(raw) - active_start |-> raw[active_start + i]]
  BY <1>1 DEF ActiveInput
<1>4. Len(ActiveInput) = Len(raw) - active_start
  BY <1>1, <1>2, ActiveInputLength DEF ViewOK
<1>5. SubSeq(ActiveInput, 1, n) = [i \in 1 .. n |-> ActiveInput[i]]
  <2> HIDE DEF ActiveInput
  <2>1. \A i \in 1 .. n : 1 + i - 1 = i
    BY <1>2
  <2> QED
    BY <1>2, <2>1
<1>6. SubSeq(raw, active_start + 1, active_start + n)
        = [i \in 1 .. n |-> raw[active_start + i]]
  BY <1>1, <1>2
<1> QED
  BY <1>1, <1>2, <1>3, <1>5, <1>6

LEMMA SpellingPreserved ==
  ASSUME CodesSpell, ViewOK, SpansTile, CandidatesMatchActive, SegmentsSpell,
         after_digit \in BOOLEAN, ViewStep
  PROVE  SegmentsSpell'
<1>0. /\ raw \in Seq(Char) /\ Len(raw) \in Nat /\ Len(confirmed) \in Nat
      /\ active_start \in 0 .. Len(raw)
  BY CodeIsSeq, LenProperties DEF ViewOK, SpansTile
<1>1. CASE UNCHANGED composition
  BY <1>1 DEF composition, SegmentsSpell, Span
<1>2. ASSUME NEW key \in Key, ~Unsupported(key, after_digit),
             EditActive(Process(ActiveInput, key, after_digit))
      PROVE  SegmentsSpell'
  <2>1. PICK w \in Code : raw' = SubSeq(raw, 1, active_start) \o w
    BY <1>2, EditSteps
  <2>2. confirmed' = confirmed /\ w \in Seq(Char)
    BY <1>2, CodeIsSeq DEF EditActive
  <2>3. ASSUME NEW i \in 1 .. Len(confirmed)
        PROVE  Span(i)' = Span(i)
    <3>1. confirmed[i].start \in Nat /\ confirmed[i].end \in 0 .. active_start
      BY EndsInside, ConfirmedSegments, AlphabetAssumption DEF ViewOK
    <3> QED
      BY <1>0, <2>1, <2>2, <3>1, SpanKept DEF Span
  <2> QED
    BY <2>2, <2>3 DEF SegmentsSpell
<1>3. ASSUME NEW i \in 1 .. Len(candidates), SelectPrefix(candidates[i])
      PROVE  SegmentsSpell'
  <2> DEFINE c == candidates[i]
             seg == SegmentOf(c)
  <2>1. c \in Candidate /\ raw' = raw /\ confirmed' = Append(confirmed, seg)
    BY <1>3, ElementOfSeq DEF SelectPrefix, ViewOK
  <2>2. c.end \in 1 .. Len(ActiveInput)
    BY <1>3, <2>1, CandidateFields, AlphabetAssumption, ActiveInputLength
      DEF SelectPrefix, FitsActive, ViewOK
  <2>3. c.code = SubSeq(raw, active_start + 1, active_start + c.end)
    BY <2>2, OfferSpells, PrefixSpan DEF Spells
  <2>4. seg.code = SubSeq(raw, seg.start + 1, seg.end)
    BY <2>3 DEF SegmentOf
  <2> HIDE DEF c, seg
  <2>5. /\ Len(confirmed') = Len(confirmed) + 1
        /\ \A j \in 1 .. Len(confirmed) : confirmed'[j] = confirmed[j]
        /\ confirmed'[Len(confirmed) + 1] = seg
    BY <2>1, <1>0 DEF ViewOK
  <2> QED
    BY <1>0, <2>1, <2>4, <2>5 DEF SegmentsSpell, Span
<1>4. CASE Reopens("Backspace") /\ ReopenLastConfirmed
  <2>1. /\ raw' = raw /\ Len(confirmed') = Len(confirmed) - 1
        /\ \A j \in 1 .. Len(confirmed) - 1 : confirmed'[j] = confirmed[j]
    BY <1>4, FrontIsSeq DEF Reopens, ReopenLastConfirmed, ViewOK
  <2> QED
    BY <1>0, <2>1 DEF SegmentsSpell, Span
<1>5. CASE PageMove
  BY <1>1, <1>5, PageSteps DEF ShowPage
<1>6. ASSUME NEW id \in DOMAIN pending, ApplyClear(id)
      PROVE  SegmentsSpell'
  BY <1>6 DEF ApplyClear, SegmentsSpell
<1> QED
  BY <1>1, <1>2, <1>3, <1>4, <1>5, <1>6 DEF ViewStep

\* The codes of the chosen segments, one after the other, are the decided part.
LEMMA DecidedIsSpelled ==
  ASSUME ViewOK, SpansTile, SegmentsSpell
  PROVE  /\ [i \in 1 .. Len(confirmed) |-> confirmed[i].code] \in Seq(Seq(Char))
         /\ Joins!FlattenSeq([i \in 1 .. Len(confirmed) |-> confirmed[i].code])
              = SubSeq(raw, 1, active_start)
<1> DEFINE n == Len(confirmed)
           Codes(k) == [i \in 1 .. k |-> confirmed[i].code]
           End(k) == IF k = 0 THEN 0 ELSE confirmed[k].end
           Good == {k \in Nat : k <= n =>
                      Joins!FlattenSeq(Codes(k)) = SubSeq(raw, 1, End(k))}
<1>1. /\ n \in Nat
      /\ \A i \in 1 .. n : /\ confirmed[i].start \in Nat /\ confirmed[i].end \in Nat
                           /\ confirmed[i].code \in Seq(Char)
  <2>1. \A i \in 1 .. n : /\ confirmed[i].code \in Code
                          /\ confirmed[i].start \in 0 .. MaxInput
                          /\ confirmed[i].end \in 0 .. MaxInput
    BY ConfirmedSegments, Zenon DEF ViewOK
  <2>2. n \in Nat /\ MaxInput \in Nat
    BY ConfirmedSegments, AlphabetAssumption DEF ViewOK
  <2>3. \A i \in 1 .. n : confirmed[i].code \in Seq(Char)
    BY <2>1, CodeIsSeq, Zenon
  <2> QED
    BY <2>1, <2>2, <2>3
<1>2. raw \in Seq(Char) /\ Len(raw) \in Nat /\ active_start \in Nat
  BY CodeIsSeq, LenProperties, AlphabetAssumption DEF ViewOK
<1>3. \A k \in 0 .. n : Codes(k) \in Seq(Seq(Char))
  BY <1>1
<1>4. 0 \in Good
  <2>1. Codes(0) = <<>> /\ SubSeq(raw, 1, 0) = <<>>
    BY <1>2
  <2>2. Joins!FlattenSeq(<<>>) = <<>>
    BY DEF Joins!FlattenSeq
  <2> QED
    BY <2>1, <2>2
<1>5. ASSUME NEW k \in Nat, k \in Good
      PROVE  k + 1 \in Good
  <2> SUFFICES ASSUME k + 1 <= n
               PROVE  Joins!FlattenSeq(Codes(k + 1)) = SubSeq(raw, 1, End(k + 1))
    OBVIOUS
  <2>1. k \in 0 .. n /\ k + 1 \in 1 .. n /\ k + 1 # 0 /\ k + 1 - 1 = k /\ (k + 1 = 1 <=> k = 0)
    BY <1>1
  <2> DEFINE seg == confirmed[k + 1]
  <2>2. Codes(k + 1) = Append(Codes(k), seg.code)
    BY <1>3, <2>1
  <2>3. /\ seg.start = End(k) /\ seg.start < seg.end /\ End(k + 1) = seg.end
        /\ seg.code = SubSeq(raw, seg.start + 1, seg.end)
    BY <2>1 DEF SpansTile, SegmentsSpell, Span
  <2>4. seg.end <= Len(raw) /\ seg.start \in Nat /\ seg.end \in Nat
    BY <1>1, <1>2, <2>1, EndsInside DEF SpansTile
  <2>5. Joins!FlattenSeq(Codes(k)) = SubSeq(raw, 1, seg.start)
    BY <1>5, <2>1, <2>3
  <2>6. Joins!FlattenSeq(Codes(k + 1)) = SubSeq(raw, 1, seg.start) \o seg.code
    <3>1. Codes(k) \in Seq(Seq(Char)) /\ seg.code \in Seq(Char)
      BY <1>1, <1>3, <2>1
    <3> HIDE DEF Codes, seg
    <3> QED
      BY <2>2, <2>5, <3>1, Joins!FlattenAppend
  <2>7. SubSeq(raw, 1, seg.start) \o SubSeq(raw, seg.start + 1, seg.end)
          = SubSeq(raw, 1, seg.end)
    <3> HIDE DEF seg
    <3>1. seg.start <= seg.end
      BY <2>3, <2>4
    <3> QED
      BY <1>2, <2>4, <3>1, SpansJoin, Zenon
  <2> QED
    BY <2>3, <2>6, <2>7
<1>6. n \in Good
  <2>1. Nat \subseteq Good
    <3> HIDE DEF Good
    <3> QED
      BY <1>4, <1>5, Joins!SetInduction
  <2> QED
    BY <1>1, <2>1
<1>7. End(n) = active_start
  <2>1. n = 0 <=> confirmed = <<>>
    BY EmptySeq DEF ViewOK
  <2> QED
    BY <2>1 DEF SpansTile
<1> QED
  BY <1>1, <1>3, <1>6, <1>7

\* The record of a complete candidate is made of the codes of the whole input.
LEMMA RecordIsInput ==
  ASSUME CodesSpell, ViewOK, SpansTile, CandidatesMatchActive, SegmentsSpell,
         NEW i \in 1 .. Len(candidates), candidates[i].complete
  PROVE  Joins!FlattenSeq(CommitRecord(candidates[i]).code) = raw
<1> DEFINE codes == [j \in 1 .. Len(confirmed) |-> confirmed[j].code]
           c == candidates[i]
<1>1. c.code = ActiveInput
  BY OfferSpells DEF Spells
<1>2. codes \in Seq(Seq(Char)) /\ Joins!FlattenSeq(codes) = SubSeq(raw, 1, active_start)
  BY DecidedIsSpelled
<1>3. /\ raw \in Seq(Char) /\ ActiveInput \in Seq(Char) /\ Len(raw) \in Nat
      /\ active_start \in Nat /\ active_start <= Len(raw)
  BY ActiveInputIsCode, CodeIsSeq, LenProperties, AlphabetAssumption DEF ViewOK, SpansTile
<1>4. CommitRecord(c).code = Append(codes, c.code)
  BY DEF CommitRecord
<1> HIDE DEF codes, c
<1>5. Joins!FlattenSeq(Append(codes, c.code)) = SubSeq(raw, 1, active_start) \o ActiveInput
  BY <1>1, <1>2, <1>3, Joins!FlattenAppend
<1>6. SubSeq(raw, 1, active_start) \o ActiveInput = SubSeq(raw, 1, Len(raw))
  <2>1. Len(raw) <= Len(raw)
    BY <1>3
  <2> QED
    BY <1>3, <2>1, SpansJoin, Zenon DEF ActiveInput
<1>7. SubSeq(raw, 1, Len(raw)) = raw
  BY <1>3
<1> QED
  BY <1>4, <1>5, <1>6, <1>7 DEF c

\* A phrase is learned under the code of exactly the input it was composed from,
\* if the candidates of the pipeline spell what they consume.
THEOREM RecordCovers == ASSUME CodesSpell PROVE Spec => RecordCoversInput
<1> DEFINE Inv == IInv /\ CandidatesMatchActive /\ SegmentsSpell
           Covers == \A id \in DOMAIN pending' \ DOMAIN pending :
                       pending'[id].effect = "Learn" =>
                         FlattenSeq(pending'[id].record.code) = raw
<1>1. Init => SegmentsSpell
  BY DEF Init, SegmentsSpell
<1>2. Inv /\ [Next]_vars => SegmentsSpell'
  BY ViewSteps, SpellingPreserved DEF IInv, TypeOK, ViewOK
<1>3. Inv /\ [Next]_vars => Covers
  <2> SUFFICES ASSUME Inv, [Next]_vars,
                      NEW id \in DOMAIN pending' \ DOMAIN pending,
                      pending'[id].effect = "Learn"
               PROVE  FlattenSeq(pending'[id].record.code) = raw
    OBVIOUS
  <2>1. ActionStep
    BY ActionSteps DEF IInv
  <2>2. PICK effect \in Effect : Chosen(effect) /\ Proposed(effect)
    BY <2>1 DEF ActionStep, Answered, Forget
  <2>3. pending'[id] = effect
    BY <2>2 DEF Proposed
  <2>4. PICK i \in 1 .. Len(candidates) :
          candidates[i].complete /\ effect = ClearAndLearn(CommitRecord(candidates[i]))
    BY <2>2, <2>3 DEF Chosen
  <2>5. Joins!FlattenSeq(CommitRecord(candidates[i]).code) = raw
    BY <2>4, RecordIsInput DEF IInv, TypeOK, ViewOK
  <2>6. effect.record = CommitRecord(candidates[i])
    BY <2>4 DEF ClearAndLearn
  <2>7. FlattenSeq(CommitRecord(candidates[i]).code)
          = Joins!FlattenSeq(CommitRecord(candidates[i]).code)
    BY Zenon DEF FlattenSeq, Joins!FlattenSeq
  <2> QED
    BY <2>3, <2>5, <2>6, <2>7
<1> HIDE DEF Covers
<1> QED
  BY <1>1, <1>2, <1>3, Invariance, CandidatesMatch, PTL
    DEF Spec, RecordCoversInput, Covers, Inv
=============================================================================
