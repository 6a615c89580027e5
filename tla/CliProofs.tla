------------------------------ MODULE CliProofs ------------------------------
(***************************************************************************)
(* Theorems about the command line, for every alphabet, pipeline, page     *)
(* size and bound: the screen shows the session as it is whenever the next *)
(* key is read, no input vanishes, and the command line is one of the      *)
(* frontends Session is specified against, so that every theorem of        *)
(* SessionProofs holds in it.                                              *)
(*                                                                         *)
(* What the queue holds between two keys has five shapes, and which of them *)
(* it is decides what pending may contain and which of the snapshots shows *)
(* the session as it is (DriverOK).  The first part says what a command can *)
(* be answered with (Responded), the second what the driver makes of it.    *)
(***************************************************************************)
EXTENDS Cli, SessionProofs

-----------------------------------------------------------------------------
(***************************************************************************)
(* The messages and the shapes of the queue.                               *)
(***************************************************************************)
IsSnapshot(m) == m.message = "CandidateSnapshot"

\* A snapshot of the session as it is now, no commit being pending in it.
Current(m) == \E status : status # "CommitPending" /\ m = Snapshot(status)

Settled == DOMAIN pending = {}

\* The last command was not refused for its header or its id.
Accepted ==
  reply.result \notin {"StaleEpoch", "WrongSession", "StaleSequence", "UnknownAction"}

\* What a commit can insert.
Typed == Char \cup Text

\* The action the last command proposed, the only one without an answer.
Asked(a) ==
  /\ a.message = "PlatformAction"
  /\ a.id \in 1 .. MaxActions
  /\ a.sequence = last_sequence
  /\ last_sequence \in 1 .. MaxSequence
  /\ DOMAIN pending = {a.id}

\* A cancel comes without a snapshot, a commit with one that is out of date once
\* the commit is applied, a preedit with one that stays current.
Cancelling(q) ==
  \E a : /\ q = <<a>>
         /\ Asked(a)
         /\ a.kind = "CancelComposition"
         /\ pending[a.id].effect # "Keep"

Committing(q) ==
  \E a, s : /\ q = <<a, s>>
            /\ Asked(a)
            /\ a.kind = "Commit"
            /\ a.text \in Seq(Typed) /\ a.text # <<>>
            /\ pending[a.id].effect # "Keep"
            /\ IsSnapshot(s)

Updating(q) ==
  \E a, s : /\ q = <<a, s>>
            /\ Asked(a)
            /\ a.kind = "SetPreedit"
            /\ pending[a.id].effect = "Keep"
            /\ Current(s)

\* The action is answered, and the snapshot that follows is still to be shown.
Showing(q) == \E s : q = <<s>> /\ Settled /\ Current(s)

Ending(q) == \E r, s : q = <<r, s>> /\ Settled /\ IsSnapshot(r) /\ Current(s)

Proposing(q) == Cancelling(q) \/ Committing(q) \/ Updating(q)

-----------------------------------------------------------------------------
(***************************************************************************)
(* Lemmas about sequences and snapshots.                                   *)
(***************************************************************************)
LEMMA ShortQueues ==
  ASSUME NEW r, NEW s
  PROVE  /\ Head(<<r>>) = r /\ Tail(<<r>>) = <<>>
         /\ Head(<<r, s>>) = r /\ Tail(<<r, s>>) = <<s>>
         /\ <<>> \o <<s>> = <<s>> /\ <<s>> \o <<>> = <<s>>
         /\ <<r>> \o <<s>> = <<r, s>>
<1>1. Head(<<r>>) = r /\ Head(<<r, s>>) = r
  OBVIOUS
<1>2. Tail(<<r>>) = <<>>
  OBVIOUS
<1>3. Tail(<<r, s>>) = <<s>>
  <2>1. Tail(<<r, s>>) = [i \in 1 .. 1 |-> <<r, s>>[i + 1]]
    OBVIOUS
  <2> QED
    BY <2>1
<1>4. <<>> \o <<s>> = <<s>> /\ <<s>> \o <<>> = <<s>>
  OBVIOUS
<1>5. <<r>> \o <<s>> = <<r, s>>
  <2> DEFINE S == {r, s}
  <2>1. <<r>> \in Seq(S) /\ <<s>> \in Seq(S) /\ <<r, s>> \in Seq(S)
    OBVIOUS
  <2>2. Len(<<r>>) = 1 /\ Len(<<s>>) = 1 /\ Len(<<r, s>>) = 2
    OBVIOUS
  <2>3. <<r>>[1] = r /\ <<s>>[1] = s /\ <<r, s>>[1] = r /\ <<r, s>>[2] = s
    OBVIOUS
  <2> HIDE DEF S
  <2>4. /\ <<r>> \o <<s>> \in Seq(S)
        /\ Len(<<r>> \o <<s>>) = 2
        /\ (<<r>> \o <<s>>)[1] = r /\ (<<r>> \o <<s>>)[2] = s
    BY <2>1, <2>2, <2>3, ConcatProperties
  <2>5. \A i \in 1 .. 2 : (<<r>> \o <<s>>)[i] = <<r, s>>[i]
    BY <2>3, <2>4
  <2> QED
    BY <2>1, <2>2, <2>4, <2>5, SeqEqual
<1> QED
  BY <1>1, <1>2, <1>3, <1>4, <1>5

LEMMA CurrentIsSnapshot == \A m : Current(m) => IsSnapshot(m)
BY DEF Current, IsSnapshot, Snapshot

\* A snapshot shows the composition, the choice and the revision only: taking
\* an action out of pending changes none.
LEMMA SnapshotStays ==
  ASSUME UNCHANGED <<composition, choice, revision>>
  PROVE  \A status : Snapshot(status)' = Snapshot(status)
BY DEF composition, choice, Snapshot, DisplayText, ConfirmedText, ActiveInput,
       CurrentHighlightId, PageCandidates, PageStart

LEMMA CurrentStays ==
  ASSUME UNCHANGED <<composition, choice, revision>>, NEW m, Current(m)
  PROVE  Current(m)'
BY SnapshotStays DEF Current

LEMMA TextsAreTyped ==
  ASSUME TypeOK
  PROVE  /\ ConfirmedText \in Seq(Text)
         /\ DisplayText \in Seq(Typed)
<1>1. ConfirmedText \in Seq(Text)
  <2>1. Len(confirmed) \in Nat /\ \A i \in 1 .. Len(confirmed) : confirmed[i].text \in Text
    BY ConfirmedSegments DEF TypeOK
  <2> QED
    BY <2>1 DEF ConfirmedText
<1>2. ActiveInput \in Seq(Char)
  BY ActiveInputIsCode, CodeIsSeq DEF TypeOK
<1>3. ConfirmedText \in Seq(Typed) /\ ActiveInput \in Seq(Typed)
  BY <1>1, <1>2, SeqMonotonic DEF Typed
<1> QED
  BY <1>1, <1>3, ConcatProperties DEF DisplayText

-----------------------------------------------------------------------------
(***************************************************************************)
(* What a command is answered with, when no action is open.                *)
(***************************************************************************)
Responded ==
  /\ Accepted'
  /\ \/ reply'.messages = <<>> /\ UNCHANGED view
     \/ Showing(reply.messages)'
     \/ Proposing(reply.messages)'

LEMMA FailureAnswers ==
  ASSUME NEW name \in {"UnsupportedCharacter", "NoCandidate"}, Fail(name)
  PROVE  Responded
BY DEF Fail, Error, Responded, Accepted

\* A proposal opens exactly one action, and says so first.
LEMMA ProposalAsks ==
  ASSUME TypeOK, Settled, last_sequence' \in 1 .. MaxSequence,
         NEW kind \in {"CancelComposition", "Commit", "SetPreedit"}, NEW text, NEW effect,
         Propose(kind, text, effect)
  PROVE  /\ Accepted'
         /\ \E a : /\ Asked(a)'
                   /\ a.kind = kind
                   /\ a.text = text
                   /\ pending'[a.id] = effect
                   /\ IF kind = "CancelComposition"
                      THEN reply'.messages = <<a>>
                      ELSE \E s : /\ reply'.messages = <<a, s>>
                                  /\ IsSnapshot(s)
                                  /\ kind # "Commit" => Current(s)'
<1> DEFINE status == IF kind = "Commit" THEN "CommitPending" ELSE "Composing"
<1>1. PICK action : action = [message |-> "PlatformAction", id |-> next_action,
                              kind |-> kind, text |-> text, revision |-> revision',
                              sequence |-> last_sequence']
  OBVIOUS
<1>2. PICK s : s = Snapshot(status)'
  OBVIOUS
<1>3. reply' = Reply(IF kind = "CancelComposition" THEN <<action>>
                                                   ELSE <<action, s>>)
  BY <1>1, <1>2 DEF Propose
<1>4. next_action \in 1 .. MaxActions
  BY SessionAssumption DEF Propose, TypeOK
<1>5. pending' = [id \in {next_action} |-> effect]
  BY DEF Propose, Settled
<1>6. Asked(action)'
  BY <1>1, <1>4, <1>5 DEF Asked
<1>7. action.kind = kind /\ action.text = text /\ pending'[action.id] = effect
  BY <1>1, <1>5
<1>8. IsSnapshot(s)
  BY <1>2 DEF IsSnapshot, Snapshot
<1>9. kind # "Commit" => Current(s)'
  BY <1>2 DEF Current
<1>10. reply'.result = "Ok"
       /\ reply'.messages = IF kind = "CancelComposition" THEN <<action>>
                                                          ELSE <<action, s>>
  BY <1>3 DEF Reply
<1>11. Accepted'
  BY <1>10 DEF Accepted
<1>12. IF kind = "CancelComposition"
       THEN reply'.messages = <<action>>
       ELSE \E m : /\ reply'.messages = <<action, m>>
                   /\ IsSnapshot(m)
                   /\ kind # "Commit" => Current(m)'
  BY <1>8, <1>9, <1>10
<1> QED
  BY <1>6, <1>7, <1>11, <1>12

LEMMA CancelAnswers ==
  ASSUME TypeOK, Settled, last_sequence' \in 1 .. MaxSequence, ProposeCancel
  PROVE  Responded
<1>1. Propose("CancelComposition", <<>>, ClearComposition)
  BY DEF ProposeCancel
<1>2. PICK a : /\ Accepted' /\ Asked(a)' /\ a.kind = "CancelComposition"
               /\ pending'[a.id] = ClearComposition /\ reply'.messages = <<a>>
  BY <1>1, ProposalAsks
<1>3. Cancelling(reply.messages)'
  BY <1>2 DEF Cancelling, ClearComposition
<1> QED
  BY <1>2, <1>3 DEF Responded, Proposing

\* What is committed is never empty, which is what keeps input from vanishing.
LEMMA CommitAnswers ==
  ASSUME TypeOK, Settled, last_sequence' \in 1 .. MaxSequence,
         NEW text \in Seq(Typed), text # <<>>, NEW effect, effect.effect # "Keep",
         Propose("Commit", text, effect)
  PROVE  Responded
<1>1. PICK a : /\ Accepted' /\ Asked(a)' /\ a.kind = "Commit" /\ a.text = text
               /\ pending'[a.id] = effect
               /\ \E s : reply'.messages = <<a, s>> /\ IsSnapshot(s)
  BY ProposalAsks
<1>2. Committing(reply.messages)'
  BY <1>1 DEF Committing
<1> QED
  BY <1>1, <1>2 DEF Responded, Proposing

LEMMA PreeditAnswers ==
  ASSUME TypeOK, Settled, last_sequence' \in 1 .. MaxSequence, PreeditUpdate
  PROVE  Responded
<1>1. PICK a : /\ Accepted' /\ Asked(a)' /\ a.kind = "SetPreedit"
               /\ pending'[a.id] = KeepComposition
               /\ \E s : reply'.messages = <<a, s>> /\ Current(s)'
  BY ProposalAsks DEF PreeditUpdate
<1>2. Updating(reply.messages)'
  BY <1>1 DEF Updating, KeepComposition
<1> QED
  BY <1>1, <1>2 DEF Responded, Proposing

LEMMA CommitTextAnswers ==
  ASSUME TypeOK, Settled, last_sequence' \in 1 .. MaxSequence,
         NEW texts \in Seq(Text), texts # <<>>, ProposeCommitText(texts)
  PROVE  Responded
<1>1. ConfirmedText \in Seq(Typed) /\ texts \in Seq(Typed)
  BY TextsAreTyped, SeqMonotonic DEF Typed
<1>2. ConfirmedText \o texts \in Seq(Typed) /\ ConfirmedText \o texts # <<>>
  BY <1>1, ConcatProperties, EmptySeq
<1>3. Propose("Commit", ConfirmedText \o texts, ClearComposition)
      /\ ClearComposition.effect # "Keep"
  BY DEF ProposeCommitText, ClearComposition
<1> QED
  BY <1>2, <1>3, CommitAnswers

LEMMA CommitRawAnswers ==
  ASSUME TypeOK, Settled, last_sequence' \in 1 .. MaxSequence, ProposeCommitRaw
  PROVE  Responded
<1>1. CASE DisplayText = <<>>
  BY <1>1, CancelAnswers DEF ProposeCommitRaw
<1>2. CASE DisplayText # <<>>
  BY <1>2, TextsAreTyped, CommitAnswers DEF ProposeCommitRaw, ClearComposition
<1> QED
  BY <1>1, <1>2

LEMMA SelectionAnswers ==
  ASSUME TypeOK, Settled, last_sequence' \in 1 .. MaxSequence,
         NEW i \in 1 .. Len(candidates), SelectCandidate(candidates[i])
  PROVE  Responded
<1> DEFINE c == candidates[i]
<1>1. CASE SelectComplete(c)
  <2>1. c.text \in Text
    BY ElementOfSeq, CandidateFields DEF TypeOK
  <2>2. Append(ConfirmedText, c.text) \in Seq(Text)
        /\ Append(ConfirmedText, c.text) # <<>>
    BY <2>1, TextsAreTyped, AppendProperties
  <2>3. Append(ConfirmedText, c.text) \in Seq(Typed)
    BY <2>2, SeqMonotonic DEF Typed
  <2>4. Propose("Commit", Append(ConfirmedText, c.text), ClearAndLearn(CommitRecord(c)))
    BY <1>1 DEF SelectComplete
  <2>5. ClearAndLearn(CommitRecord(c)).effect # "Keep"
    BY DEF ClearAndLearn
  <2> HIDE DEF c
  <2> QED
    BY <2>2, <2>3, <2>4, <2>5, CommitAnswers
<1>2. CASE SelectPrefix(c)
  BY <1>2, PreeditAnswers DEF SelectPrefix
<1>3. CASE SelectMisfit(c)
  BY <1>3, FailureAnswers DEF SelectMisfit
<1> QED
  BY <1>1, <1>2, <1>3 DEF SelectCandidate

\* A mark commits at least its own text.
LEMMA CommitTexts ==
  ASSUME NEW w \in Code, NEW key \in Key, NEW digit \in BOOLEAN,
         ~Unsupported(key, digit),
         Process(w, key, digit).intent = "CommitText"
  PROVE  /\ Process(w, key, digit).texts \in Seq(Text)
         /\ Process(w, key, digit).texts # <<>>
<1> DEFINE o == Process(w, key, digit)
           edits == key \in Decimal /\ digit
<1>1. CASE edits
  <2>1. o.intent = "None"
    BY <1>1 DEF Process, Editing, Output
  <2> QED
    BY <2>1
<1>2. CASE ~edits /\ key \in DOMAIN CommitMark
  <2>1. o.texts = <<CommitMark[key]>>
    BY <1>2 DEF Process, Editing, Output
  <2> QED
    BY <1>2, <2>1, AlphabetAssumption
<1>3. CASE ~edits /\ key \notin DOMAIN CommitMark /\ key \in DOMAIN ListMark
  <2>1. o.intent = "None"
    BY <1>3 DEF Process, Editing, Output
  <2> QED
    BY <2>1
<1>4. CASE ~edits /\ key \notin DOMAIN CommitMark /\ key \notin DOMAIN ListMark
  <2>1. o = DefaultProcess(w, key)
    BY <1>4 DEF Process
  <2>2. key \in Letter \cup Digit \cup Control
    BY <1>4, AlphabetAssumption DEF Unsupported, Key
  <2>3. o.intent # "CommitText"
    BY <2>1, <2>2 DEF DefaultProcess, Editing, Output, Control
  <2> QED
    BY <2>3
<1> QED
  BY <1>1, <1>2, <1>3, <1>4

LEMMA KeyAnswers ==
  ASSUME TypeOK, Settled, NEW h \in Header, NEW key \in Key, KeyCommand(h, key)
  PROVE  Responded
<1>1. last_sequence' \in 1 .. MaxSequence
  BY DEF KeyCommand, Consume, Header
<1>2. CASE ReopenLastConfirmed
  BY <1>1, <1>2, PreeditAnswers DEF ReopenLastConfirmed
<1>3. CASE Fail("UnsupportedCharacter")
  BY <1>3, FailureAnswers
<1>4. ASSUME ~Unsupported(key, after_digit), ApplyKey(Process(ActiveInput, key, after_digit))
      PROVE  Responded
  <2> DEFINE o == Process(ActiveInput, key, after_digit)
  <2>1. CASE EditActive(o)
    BY <1>1, <2>1, PreeditAnswers DEF EditActive
  <2>2. CASE o.intent = "CommitHighlighted" /\ ProposeCommit
    <3>1. CASE highlighted_idx < Len(candidates)
      <4>1. highlighted_idx + 1 \in 1 .. Len(candidates)
        BY <3>1, LenProperties DEF TypeOK
      <4> QED
        BY <1>1, <2>2, <3>1, <4>1, SelectionAnswers DEF ProposeCommit
    <3> QED
      BY <1>1, <2>2, <3>1, CommitRawAnswers DEF ProposeCommit
  <2>3. CASE o.intent = "CommitRaw" /\ ProposeCommitRaw
    BY <1>1, <2>3, CommitRawAnswers
  <2>4. CASE o.intent = "Cancel" /\ ProposeCancel
    BY <1>1, <2>4, CancelAnswers
  <2>5. CASE o.intent = "CommitText" /\ ProposeCommitText(o.texts)
    <3>1. ActiveInput \in Code /\ after_digit \in BOOLEAN
      BY ActiveInputIsCode DEF TypeOK
    <3>2. o.texts \in Seq(Text) /\ o.texts # <<>>
      BY <1>4, <2>5, <3>1, CommitTexts
    <3> HIDE DEF o
    <3> QED
      BY <1>1, <2>5, <3>2, CommitTextAnswers
  <2> QED
    BY <1>4, <2>1, <2>2, <2>3, <2>4, <2>5 DEF ApplyKey
<1> QED
  BY <1>2, <1>3, <1>4 DEF KeyCommand

LEMMA ShowAnswers ==
  ASSUME Settled, NEW p, NEW idx, ShowPage(p, idx)
  PROVE  Responded
<1>1. reply' = Reply(<<Snapshot("Composing")'>>) /\ UNCHANGED pending
  BY DEF ShowPage, actions
<1>2. PICK s : s = Snapshot("Composing")'
  OBVIOUS
<1>3. Current(s)'
  BY <1>2 DEF Current
<1>4. reply'.messages = <<s>> /\ Accepted' /\ Settled'
  BY <1>1, <1>2 DEF Reply, Accepted, Settled
<1>5. Showing(reply.messages)'
  BY <1>3, <1>4 DEF Showing
<1> QED
  BY <1>4, <1>5 DEF Responded

LEMMA UiAnswers ==
  ASSUME TypeOK, Settled, NEW h \in Header, UiCommand(h)
  PROVE  Responded
<1>1. last_sequence' \in 1 .. MaxSequence
  BY DEF UiCommand, Consume, Header
<1>2. ASSUME NEW id \in 1 .. Len(candidates) + 1, SelectById(id)
      PROVE  Responded
  BY <1>1, <1>2, SelectionAnswers, FailureAnswers DEF SelectById
<1>3. ASSUME NEW delta, MoveHighlight(delta)
      PROVE  Responded
  <2>1. CASE candidates = <<>>
    BY <1>3, <2>1 DEF MoveHighlight, Reply, Responded, Accepted
  <2>2. CASE candidates # <<>>
    BY <1>3, <2>2, ShowAnswers DEF MoveHighlight
  <2> QED
    BY <2>1, <2>2
<1>4. CASE NextPage \/ PreviousPage
  BY <1>4, ShowAnswers DEF NextPage, PreviousPage
<1>5. CASE ProposeCancel
  BY <1>1, <1>5, CancelAnswers
<1> QED
  BY <1>2, <1>3, <1>4, <1>5 DEF UiCommand

-----------------------------------------------------------------------------
(***************************************************************************)
(* The inductive invariant.                                                *)
(***************************************************************************)
EditorOK ==
  /\ document \in Seq(Typed \cup {Blank})
  /\ cursor \in 0 .. Len(document)

\* The next key can be read.
Idle == queue = <<>> /\ Settled /\ Current(screen)

DriverOK ==
  /\ Idle \/ Showing(queue) \/ Ending(queue) \/ Proposing(queue)
  /\ Accepted
  /\ sequence \in 1 .. MaxSequence + 1
  /\ last_sequence < sequence

CliInv == IInv /\ EditorOK /\ DriverOK

-----------------------------------------------------------------------------
(***************************************************************************)
(* The editor: the cursor stays in the document.                           *)
(***************************************************************************)
LEMMA InsertedIsDocument ==
  ASSUME EditorOK, NEW texts \in Seq(Typed \cup {Blank}), InsertAtCursor(texts)
  PROVE  EditorOK' /\ Len(document') = Len(document) + Len(texts)
<1> DEFINE D == Typed \cup {Blank}
           front == SubSeq(document, 1, cursor)
           back  == SubSeq(document, cursor + 1, Len(document))
<1>1. document \in Seq(D) /\ Len(document) \in Nat /\ cursor \in 0 .. Len(document)
      /\ Len(texts) \in Nat
  BY LenProperties DEF EditorOK
<1>2. front \in Seq(D) /\ Len(front) = cursor
  <2>1. \A i \in 1 .. cursor : document[i] \in D
    BY <1>1, ElementOfSeq
  <2> QED
    BY <1>1, <2>1, SubSeqProperties
<1>3. back \in Seq(D) /\ Len(back) = Len(document) - cursor
  <2>1. \A i \in cursor + 1 .. Len(document) : document[i] \in D
    BY <1>1, ElementOfSeq
  <2> QED
    BY <1>1, <2>1, SubSeqProperties
<1>4. front \o texts \in Seq(D) /\ Len(front \o texts) = cursor + Len(texts)
  BY <1>1, <1>2, ConcatProperties
<1>5. (front \o texts) \o back \in Seq(D)
      /\ Len((front \o texts) \o back) = cursor + Len(texts) + (Len(document) - cursor)
  BY <1>3, <1>4, ConcatProperties
<1>6. document' = (front \o texts) \o back /\ cursor' = cursor + Len(texts)
  BY DEF InsertAtCursor
<1>7. Len(document') = Len(document) + Len(texts)
      /\ cursor' \in 0 .. Len(document')
  <2>1. Len(document') = cursor + Len(texts) + (Len(document) - cursor)
    BY <1>5, <1>6
  <2>2. Len(document) \in Nat /\ Len(texts) \in Nat /\ cursor \in 0 .. Len(document)
    BY <1>1
  <2> QED
    BY <2>1, <2>2, <1>6
<1>8. document' \in Seq(D)
  BY <1>5, <1>6
<1> QED
  BY <1>7, <1>8 DEF EditorOK

LEMMA RemovedIsDocument ==
  ASSUME EditorOK, NEW i \in 1 .. Len(document), Erase(i)
  PROVE  document' \in Seq(Typed \cup {Blank}) /\ Len(document') = Len(document) - 1
<1> DEFINE D == Typed \cup {Blank}
           front == SubSeq(document, 1, i - 1)
           back  == SubSeq(document, i + 1, Len(document))
<1>1. document \in Seq(D) /\ Len(document) \in Nat
  BY LenProperties DEF EditorOK
<1>2. front \in Seq(D) /\ Len(front) = i - 1
  <2>1. \A k \in 1 .. i - 1 : document[k] \in D
    BY <1>1, ElementOfSeq
  <2> QED
    BY <1>1, <2>1, SubSeqProperties
<1>3. back \in Seq(D) /\ Len(back) = Len(document) - i
  <2>1. \A k \in i + 1 .. Len(document) : document[k] \in D
    BY <1>1, ElementOfSeq
  <2> QED
    BY <1>1, <2>1, SubSeqProperties
<1>4. document' = front \o back
  BY DEF Erase, RemoveAt
<1> HIDE DEF front, back
<1>5. front \o back \in Seq(D) /\ Len(front \o back) = Len(front) + Len(back)
  BY <1>2, <1>3, ConcatProperties
<1>6. Len(document') = (i - 1) + (Len(document) - i)
  BY <1>2, <1>3, <1>4, <1>5
<1>7. Len(document') = Len(document) - 1
  BY <1>1, <1>6
<1> QED
  BY <1>4, <1>5, <1>7

LEMMA LocalEdits ==
  ASSUME EditorOK,
         \/ EraseBefore \/ EraseAt \/ MoveCursor
         \/ \E c \in Char \cup {Blank} : Insert(c)
  PROVE  Local /\ EditorOK'
<1>0. Len(document) \in Nat
  BY LenProperties DEF EditorOK
<1>1. CASE EraseBefore
  <2>1. cursor \in 1 .. Len(document)
    BY <1>1 DEF EraseBefore, EditorOK
  <2>2. document' \in Seq(Typed \cup {Blank}) /\ Len(document') = Len(document) - 1
    BY <1>1, <2>1, RemovedIsDocument DEF EraseBefore
  <2> QED
    BY <1>0, <1>1, <2>1, <2>2 DEF EraseBefore, EditorOK
<1>2. CASE EraseAt
  <2>1. cursor + 1 \in 1 .. Len(document) /\ cursor \in 0 .. Len(document) - 1
    BY <1>0, <1>2 DEF EraseAt, EditorOK
  <2>2. document' \in Seq(Typed \cup {Blank}) /\ Len(document') = Len(document) - 1
    BY <1>2, <2>1, RemovedIsDocument DEF EraseAt
  <2> QED
    BY <1>0, <1>2, <2>1, <2>2 DEF EraseAt, EditorOK
<1>3. CASE MoveCursor
  <2>1. Local /\ document' = document /\ cursor' \in 0 .. Len(document)
    BY <1>0, <1>3 DEF MoveCursor, EditorOK
  <2> QED
    BY <2>1 DEF EditorOK
<1>4. ASSUME NEW c \in Char \cup {Blank}, Insert(c)
      PROVE  Local /\ EditorOK'
  <2>1. c \in Typed \cup {Blank}
    BY DEF Typed
  <2>2. <<c>> \in Seq(Typed \cup {Blank})
    BY <2>1
  <2> QED
    BY <1>4, <2>2, InsertedIsDocument DEF Insert
<1> QED
  BY <1>1, <1>2, <1>3, <1>4

-----------------------------------------------------------------------------
(***************************************************************************)
(* Pressing a key.  The number of a message is higher than that of any the *)
(* session has seen, so that its header is never refused.                  *)
(***************************************************************************)
LEMMA MessageIsHeader ==
  ASSUME sequence \in 1 .. MaxSequence + 1, sequence <= MaxSequence
  PROVE  Message \in Header /\ Message.sequence = sequence
BY SessionAssumption DEF Message, Header

LEMMA MessageIsFresh ==
  ASSUME CliInv, queue = <<>>
  PROVE  Settled /\ ~RejectHeader(Message)
<1>1. Idle
  BY DEF CliInv, DriverOK, Showing, Ending, Proposing, Cancelling, Committing, Updating
<1>2. sequence > last_sequence /\ Message.sequence = sequence /\ Addressed(Message)
  BY DEF CliInv, DriverOK, IInv, TypeOK, Message, Addressed
<1>3. ~RejectHeader(Message)
  BY <1>2 DEF RejectHeader, Fresh, Addressed
<1> QED
  BY <1>1, <1>3 DEF Idle

SessionStep == Next /\ DriverOK' /\ UNCHANGED editor

LEMMA SentKeeps ==
  ASSUME CliInv, queue = <<>>, sequence <= MaxSequence, Consume(Message), Responded, Sent
  PROVE  DriverOK' /\ UNCHANGED editor
<1>1. sequence' \in 1 .. MaxSequence + 1 /\ last_sequence' < sequence'
  BY SessionAssumption DEF CliInv, DriverOK, Consume, Message, Sent
<1>2. Accepted'
  BY DEF Responded
<1>3. CASE reply'.messages = <<>> /\ UNCHANGED view
  <2>1. Settled' /\ UNCHANGED <<composition, choice, revision>>
    BY <1>3, MessageIsFresh DEF view, actions, Settled
  <2>2. Current(screen)
    BY DEF CliInv, DriverOK, Idle, Showing, Ending, Proposing, Cancelling, Committing,
           Updating
  <2>3. Current(screen)'
    BY <2>1, <2>2, SnapshotStays DEF Current, Sent
  <2>4. Idle'
    BY <1>3, <2>1, <2>3 DEF Idle, Sent
  <2> QED
    BY <1>1, <1>2, <2>4 DEF DriverOK, Sent
<1>4. CASE Showing(reply.messages)'
  <2>1. Showing(queue)'
    BY <1>4 DEF Showing, Sent
  <2> QED
    BY <1>1, <1>2, <2>1 DEF DriverOK, Sent
<1>5. CASE Proposing(reply.messages)'
  <2>1. Proposing(queue)'
    BY <1>5 DEF Proposing, Cancelling, Committing, Updating, Sent
  <2> QED
    BY <1>1, <1>2, <2>1 DEF DriverOK, Sent
<1> QED
  BY <1>3, <1>4, <1>5 DEF Responded

LEMMA SendKeySteps ==
  ASSUME CliInv, queue = <<>>, sequence <= MaxSequence, NEW key \in Key, SendKey(key)
  PROVE  SessionStep
<1>1. Message \in Header /\ Settled /\ ~RejectHeader(Message)
  BY MessageIsHeader, MessageIsFresh DEF CliInv, DriverOK
<1>2. KeyCommand(Message, key) /\ Sent
  BY <1>1 DEF SendKey
<1>3. Next
  BY <1>1, <1>2 DEF Next
<1>4. Responded /\ Consume(Message)
  BY <1>1, <1>2, KeyAnswers DEF CliInv, IInv, KeyCommand
<1> QED
  BY <1>2, <1>3, <1>4, SentKeeps DEF SessionStep

UiEffect ==
  \/ \E id \in 1 .. Len(candidates) + 1 : SelectById(id)
  \/ \E delta \in Deltas : MoveHighlight(delta)
  \/ NextPage
  \/ PreviousPage
  \/ ProposeCancel

LEMMA SendUiSteps ==
  ASSUME CliInv, queue = <<>>, sequence <= MaxSequence,
         \/ Fresh(Message) /\ Consume(Message) /\ UNCHANGED after_digit /\ UiEffect
         \/ RejectHeader(Message),
         Sent
  PROVE  SessionStep
<1>1. Message \in Header /\ Settled /\ ~RejectHeader(Message)
  BY MessageIsHeader, MessageIsFresh DEF CliInv, DriverOK
<1>2. UiCommand(Message)
  BY <1>1 DEF UiEffect, UiCommand
<1>3. Next
  BY <1>1, <1>2 DEF Next
<1>4. Responded /\ Consume(Message)
  BY <1>1, <1>2, UiAnswers DEF CliInv, IInv, UiCommand
<1> QED
  BY <1>3, <1>4, SentKeeps DEF SessionStep

\* An id that is on no list is refused like the one behind the list.
LEMMA AnyIdIsUiEffect ==
  ASSUME TypeOK, NEW id, SelectById(id)
  PROVE  UiEffect
<1>1. Len(candidates) \in Nat
  BY LenProperties DEF TypeOK
<1>2. CASE id \in 1 .. Len(candidates)
  BY <1>1, <1>2 DEF UiEffect
<1>3. CASE id \notin 1 .. Len(candidates)
  <2>1. SelectById(Len(candidates) + 1)
    BY <1>1, <1>3 DEF SelectById
  <2> QED
    BY <1>1, <2>1 DEF UiEffect
<1> QED
  BY <1>2, <1>3

\* Keys that the editor takes leave the session alone.
LocalStep == Local /\ EditorOK'

LEMMA PressSteps ==
  ASSUME CliInv, Press
  PROVE  SessionStep \/ LocalStep
<1>1. sequence <= MaxSequence /\ queue = <<>> /\ EditorOK /\ TypeOK
  BY DEF Press, CliInv, IInv
<1>2. \A id : SendUi(SelectById(id)) => SessionStep
  BY <1>1, SendUiSteps, AnyIdIsUiEffect DEF SendUi
<1>3. CASE PressLetter
  BY <1>1, <1>3, SendKeySteps DEF PressLetter, Key, Char
<1>4. ASSUME NEW i \in 1 .. Len(DigitKey), PressDigit(i)
      PROVE  SessionStep \/ LocalStep
  <2>1. DigitKey[i] \in Key /\ DigitKey[i] \in Char
    BY CliAssumption, ElementOfSeq DEF Key, Char
  <2>2. CASE Insert(DigitKey[i])
    BY <1>1, <2>1, <2>2, LocalEdits DEF LocalStep
  <2> QED
    BY <1>1, <1>2, <1>4, <2>1, <2>2, SendKeySteps DEF PressDigit
<1>5. CASE PressEnter
  <2>1. "Enter" \in Key
    BY DEF Key, Control
  <2> QED
    BY <1>1, <1>2, <1>5, <2>1, SendKeySteps DEF PressEnter
<1>6. CASE PressSpace \/ PressBackspace \/ PressEscape
  <2>1. {"Enter", "Backspace", "Escape"} \subseteq Key
    BY DEF Key, Control
  <2> QED
    BY <1>1, <1>6, <2>1, SendKeySteps, LocalEdits
       DEF PressSpace, PressBackspace, PressEscape, LocalStep
<1>7. CASE PressArrow
  BY <1>1, <1>7, SendUiSteps, CliAssumption DEF PressArrow, SendUi, UiEffect
<1>8. CASE EraseAt \/ MoveCursor
  BY <1>1, <1>8, LocalEdits DEF LocalStep
<1> QED
  BY <1>3, <1>4, <1>5, <1>6, <1>7, <1>8 DEF Press

-----------------------------------------------------------------------------
(***************************************************************************)
(* Working through the queue.                                              *)
(***************************************************************************)
LEMMA ShowKeeps ==
  ASSUME CliInv, Show
  PROVE  UNCHANGED vars /\ DriverOK' /\ UNCHANGED editor
<1>1. UNCHANGED <<composition, choice, revision>> /\ UNCHANGED <<pending, reply, last_sequence>>
      /\ UNCHANGED vars /\ UNCHANGED <<editor, sequence>>
  BY DEF Show, vars, view, actions
<1>2. Settled => Settled'
  BY <1>1 DEF Settled
<1>3. CASE Showing(queue)
  <2>1. PICK s : queue = <<s>> /\ Settled /\ Current(s)
    BY <1>3 DEF Showing
  <2>2. screen' = s /\ queue' = <<>>
    BY <2>1 DEF Show
  <2>3. Current(s)'
    BY <1>1, <2>1, CurrentStays
  <2>4. Current(screen)'
    BY <2>2, <2>3 DEF Current
  <2>5. Idle'
    BY <1>2, <2>1, <2>2, <2>4 DEF Idle
  <2> QED
    BY <1>1, <2>5 DEF CliInv, DriverOK, Accepted
<1>4. CASE Ending(queue)
  <2>1. PICK r, s : queue = <<r, s>> /\ Settled /\ Current(s)
    BY <1>4 DEF Ending
  <2>2. queue' = <<s>>
    BY <2>1 DEF Show
  <2>3. Current(s)'
    BY <1>1, <2>1, CurrentStays
  <2>4. Showing(queue)'
    BY <1>2, <2>1, <2>2, <2>3 DEF Showing
  <2> QED
    BY <1>1, <2>4 DEF CliInv, DriverOK, Accepted
<1>5. ~Proposing(queue)
  BY ShortQueues DEF Show, Proposing, Cancelling, Committing, Updating, Asked
<1>6. ~Idle
  BY DEF Show, Idle
<1> QED
  BY <1>3, <1>4, <1>5, <1>6 DEF CliInv, DriverOK

\* The queue when its head is an action.
LEMMA ApplyProposes ==
  ASSUME CliInv, Apply
  PROVE  Proposing(queue)
<1>1. ~Idle
  BY DEF Apply, Idle
<1>2. ~Showing(queue) /\ ~Ending(queue)
  BY CurrentIsSnapshot DEF Apply, Showing, Ending, IsSnapshot
<1> QED
  BY <1>1, <1>2 DEF CliInv, DriverOK

LEMMA AcknowledgementIsHeader ==
  ASSUME NEW a, Asked(a)
  PROVE  /\ Acknowledgement(a) \in Header
         /\ Acknowledgement(a).sequence = last_sequence
         /\ a.id \in 1 .. MaxActions
BY SessionAssumption DEF Asked, Acknowledgement, Header

\* The answer to an action that clears is a snapshot of the empty session.
LEMMA ClearingEnds ==
  ASSUME NEW h, NEW a, Asked(a), pending[a.id].effect # "Keep",
         PlatformActionResult(h, a.id, "Applied")
  PROVE  /\ Settled'
         /\ reply'.result = "Ok"
         /\ \E s : reply'.messages = <<s>> /\ Current(s)'
<1>1. a.id \in DOMAIN pending /\ DOMAIN pending = {a.id}
  BY DEF Asked
<1>2. Forget(a.id) /\ ApplyClear(a.id)
  BY <1>1 DEF PlatformActionResult, Fail
<1>3. Settled'
  BY <1>1, <1>2 DEF Forget, Settled
<1>4. PICK s : s = Snapshot("Ready")'
  OBVIOUS
<1>5. Current(s)'
  BY <1>4 DEF Current
<1>6. reply'.result = "Ok" /\ reply'.messages = <<s>>
  BY <1>2, <1>4 DEF ApplyClear, Reply
<1> QED
  BY <1>3, <1>5, <1>6

\* The answer to a preedit is empty, and leaves the view as it was announced.
LEMMA KeepingStays ==
  ASSUME NEW h, NEW a, Asked(a), pending[a.id].effect = "Keep",
         PlatformActionResult(h, a.id, "Applied")
  PROVE  /\ Settled'
         /\ reply' = Reply(<<>>)
         /\ UNCHANGED <<composition, choice, revision>>
<1>1. a.id \in DOMAIN pending /\ DOMAIN pending = {a.id}
  BY DEF Asked
<1>2. Forget(a.id) /\ ~ApplyClear(a.id)
  BY <1>1 DEF PlatformActionResult, ApplyClear
<1>3. Settled'
  BY <1>1, <1>2 DEF Forget, Settled
<1> QED
  BY <1>1, <1>2, <1>3 DEF PlatformActionResult

LEMMA ApplyKeeps ==
  ASSUME CliInv, Apply
  PROVE  Next /\ DriverOK' /\ EditorOK'
<1> DEFINE a == Head(queue)
           h == Acknowledgement(a)
<1>1. PlatformActionResult(h, a.id, "Applied") /\ ApplyToEditor(a)
      /\ UNCHANGED <<screen, sequence>>
      /\ queue' = IF reply'.result = "Ok" THEN Tail(queue) \o reply'.messages ELSE <<>>
  BY DEF Apply
<1>2. Asked(a)
  BY ApplyProposes DEF Proposing, Cancelling, Committing, Updating
<1>3. h \in Header /\ h.sequence = last_sequence /\ a.id \in 1 .. MaxActions
  BY <1>2, AcknowledgementIsHeader
<1>4. Next
  BY <1>1, <1>3 DEF Next
<1>5. last_sequence' = last_sequence
  BY <1>1, <1>3 DEF PlatformActionResult, Consume
<1>6. CASE Cancelling(queue)
  <2>1. queue = <<a>> /\ a.kind = "CancelComposition" /\ pending[a.id].effect # "Keep"
    BY <1>6 DEF Cancelling
  <2>2. Settled' /\ reply'.result = "Ok" /\ \E s : reply'.messages = <<s>> /\ Current(s)'
    BY <1>1, <1>2, <2>1, ClearingEnds
  <2>3. PICK s : reply'.messages = <<s>> /\ Current(s)'
    BY <2>2
  <2>4. queue' = <<s>>
    <3>1. Tail(queue) = <<>>
      BY <2>1, ShortQueues
    <3>2. queue' = <<>> \o <<s>>
      BY <1>1, <2>2, <2>3, <3>1
    <3> QED
      BY <3>2, ShortQueues
  <2>5. Showing(queue)'
    BY <2>2, <2>3, <2>4 DEF Showing
  <2>6. EditorOK'
    BY <1>1, <2>1 DEF ApplyToEditor, editor, CliInv, EditorOK
  <2> QED
    BY <1>1, <1>4, <1>5, <2>2, <2>5, <2>6 DEF CliInv, DriverOK, Accepted
<1>7. CASE Committing(queue)
  <2>1. PICK r : /\ queue = <<a, r>> /\ IsSnapshot(r)
                 /\ a.kind = "Commit" /\ a.text \in Seq(Typed)
                 /\ pending[a.id].effect # "Keep"
    BY <1>7 DEF Committing
  <2>2. Settled' /\ reply'.result = "Ok" /\ \E s : reply'.messages = <<s>> /\ Current(s)'
    BY <1>1, <1>2, <2>1, ClearingEnds
  <2>3. PICK s : reply'.messages = <<s>> /\ Current(s)'
    BY <2>2
  <2>4. Tail(queue) = <<r>>
    BY <2>1, ShortQueues
  <2>5. queue' = <<r, s>>
    BY <1>1, <2>2, <2>3, <2>4, ShortQueues
  <2>6. Ending(queue)'
    BY <2>1, <2>2, <2>3, <2>5 DEF Ending, IsSnapshot
  <2>7. a.text \in Seq(Typed \cup {Blank})
    BY <2>1, SeqMonotonic
  <2>8. EditorOK'
    BY <1>1, <2>1, <2>7, InsertedIsDocument DEF ApplyToEditor, CliInv
  <2> QED
    BY <1>1, <1>4, <1>5, <2>2, <2>6, <2>8 DEF CliInv, DriverOK, Accepted
<1>8. CASE Updating(queue)
  <2>1. PICK s : /\ queue = <<a, s>> /\ Current(s)
                 /\ a.kind = "SetPreedit" /\ pending[a.id].effect = "Keep"
    BY <1>8 DEF Updating
  <2>2. Settled' /\ reply' = Reply(<<>>) /\ UNCHANGED <<composition, choice, revision>>
    BY <1>1, <1>2, <2>1, KeepingStays
  <2>3. Current(s)'
    BY <2>1, <2>2, CurrentStays
  <2>4. queue' = <<s>>
    <3>1. Tail(queue) = <<s>>
      BY <2>1, ShortQueues
    <3>2. queue' = <<s>> \o <<>>
      BY <1>1, <2>2, <3>1 DEF Reply
    <3> QED
      BY <3>2, ShortQueues
  <2>5. Showing(queue)'
    BY <2>2, <2>3, <2>4 DEF Showing
  <2>6. EditorOK'
    BY <1>1, <2>1 DEF ApplyToEditor, editor, CliInv, EditorOK
  <2>7. reply'.result = "Ok"
    BY <2>2 DEF Reply
  <2> QED
    BY <1>1, <1>4, <1>5, <2>5, <2>6, <2>7 DEF CliInv, DriverOK, Accepted
<1> QED
  BY <1>6, <1>7, <1>8, ApplyProposes DEF Proposing

-----------------------------------------------------------------------------
(***************************************************************************)
(* The invariant and the theorems.                                         *)
(***************************************************************************)
LEMMA LocalKeeps ==
  ASSUME CliInv, Press, LocalStep
  PROVE  UNCHANGED vars /\ DriverOK' /\ EditorOK'
<1>1. UNCHANGED vars /\ UNCHANGED <<screen, sequence, queue>> /\ EditorOK'
  BY DEF LocalStep, Local
<1>2. UNCHANGED <<composition, choice, revision>> /\ UNCHANGED <<pending, reply, last_sequence>>
  BY <1>1 DEF vars, view, actions
<1>3. Idle
  BY DEF Press, CliInv, DriverOK, Showing, Ending, Proposing, Cancelling, Committing,
         Updating
<1>4. Current(screen)'
  BY <1>1, <1>2, <1>3, SnapshotStays DEF Idle, Current
<1>5. Idle'
  BY <1>1, <1>2, <1>3, <1>4 DEF Idle, Settled
<1> QED
  BY <1>1, <1>2, <1>5 DEF CliInv, DriverOK, Accepted

LEMMA CliSteps ==
  ASSUME CliInv, [CliNext]_cliVars
  PROVE  [Next]_vars /\ CliInv'
<1>1. [Next]_vars /\ DriverOK' /\ EditorOK'
  <2>1. CASE Press
    BY <2>1, PressSteps, LocalKeeps DEF SessionStep, CliInv, EditorOK, editor
  <2>2. CASE Show
    BY <2>2, ShowKeeps DEF CliInv, EditorOK, editor
  <2>3. CASE Apply
    BY <2>3, ApplyKeeps
  <2>4. CASE UNCHANGED cliVars
    <3>1. /\ UNCHANGED <<vars, screen, editor, sequence, queue>>
          /\ UNCHANGED <<view, last_sequence, reply>>
      BY <2>4 DEF cliVars, vars
    <3>2. UNCHANGED <<composition, choice, revision, pending>>
      BY <3>1 DEF view, actions
    <3>3. \A status : Snapshot(status)' = Snapshot(status)
      BY <3>2, SnapshotStays
    <3>4. DriverOK'
      BY <3>1, <3>2, <3>3
         DEF CliInv, DriverOK, Accepted, Idle, Showing, Ending, Proposing, Cancelling,
             Committing, Updating, Asked, Current, Settled
    <3> QED
      BY <3>1, <3>4 DEF CliInv, EditorOK, editor
  <2> QED
    BY <2>1, <2>2, <2>3, <2>4 DEF CliNext, Drain
<1>2. IInv'
  BY <1>1, NextIInv DEF CliInv
<1> QED
  BY <1>1, <1>2 DEF CliInv

LEMMA CliInits == CliInit => Init /\ CliInv
<1> SUFFICES ASSUME CliInit PROVE CliInv
  BY DEF CliInit
<1>1. IInv
  BY InitIInv DEF CliInit
<1>2. EditorOK
  BY DEF CliInit, EditorOK
<1>3. confirmed = <<>> /\ raw = <<>> /\ candidates = <<>> /\ page = 0 /\ revision = 0
      /\ active_start = 0 /\ highlighted_idx = 0
  BY DEF CliInit, Init
<1>4. DisplayText = <<>>
  BY <1>3 DEF DisplayText, ConfirmedText, ActiveInput
<1>5. PageStart = 0 /\ PageCandidates = <<>>
  BY <1>3, SessionAssumption DEF PageStart, PageCandidates
<1>6. CurrentHighlightId = 0
  BY <1>3, <1>5 DEF CurrentHighlightId
<1>7. Snapshot("Ready") = NoSnapshot
  BY <1>3, <1>4, <1>5, <1>6 DEF Snapshot, NoSnapshot
<1>8. Current(screen)
  BY <1>7 DEF CliInit, Current
<1>9. DriverOK
  BY <1>8, SessionAssumption
     DEF CliInit, Init, DriverOK, Idle, Settled, Accepted, Reply
<1> QED
  BY <1>1, <1>2, <1>9 DEF CliInv

\* The shapes of the queue, and what each says of the session and the screen.
THEOREM CliInvariance == CliSpec => []CliInv
<1> QED
  BY CliInits, CliSteps, PTL DEF CliSpec

\* The command line with its session behaves, towards the session, like the
\* frontend Session allows for.
THEOREM CliImplementsSession == CliSpec => Spec
<1> QED
  BY CliInits, CliSteps, CliInvariance, PTL DEF CliSpec, Spec

LEMMA QueuedMessages ==
  ASSUME DriverOK
  PROVE  \A i \in 1 .. Len(queue) :
           queue[i].message \in {"CandidateSnapshot", "PlatformAction"}
<1>1. CASE Idle
  BY <1>1 DEF Idle
<1>2. CASE Showing(queue) \/ Ending(queue)
  BY <1>2, CurrentIsSnapshot DEF Showing, Ending, IsSnapshot
<1>3. CASE Proposing(queue)
  <2>1. CASE Cancelling(queue)
    BY <2>1 DEF Cancelling, Asked
  <2>2. CASE Committing(queue) \/ Updating(queue)
    <3>1. PICK a, s : queue = <<a, s>> /\ Asked(a) /\ IsSnapshot(s)
      BY <2>2, CurrentIsSnapshot DEF Committing, Updating
    <3> QED
      BY <3>1 DEF Asked, IsSnapshot
  <2> QED
    BY <1>3, <2>1, <2>2 DEF Proposing
<1> QED
  BY <1>1, <1>2, <1>3 DEF DriverOK

\* The cursor stays in the document, and the document is made of typed
\* characters, committed texts and blanks.
THEOREM FrontendTyped == CliSpec => []CliTypeOK
<1>1. CliInv => CliTypeOK
  BY QueuedMessages DEF CliInv, DriverOK, EditorOK, CliTypeOK, Typed
<1> QED
  BY <1>1, CliInvariance, PTL

\* Whenever the driver is done, the screen shows the session as it is, no action
\* is without an answer, and no command was refused for its number.
THEOREM ScreenStaysCurrent == CliSpec => []ScreenIsCurrent
<1>1. CliInv => ScreenIsCurrent
  <2> SUFFICES ASSUME CliInv, queue = <<>> PROVE ScreenIsCurrent
    BY DEF ScreenIsCurrent
  <2>1. Idle /\ Accepted
    BY DEF CliInv, DriverOK, Showing, Ending, Proposing, Cancelling, Committing, Updating
  <2>2. PICK status : status # "CommitPending" /\ screen = Snapshot(status)
    BY <2>1 DEF Idle, Current
  <2>3. screen.status # "CommitPending"
        /\ [screen EXCEPT !.status = "Ready"] = Snapshot("Ready")
    BY <2>2 DEF Snapshot
  <2> QED
    BY <2>1, <2>3 DEF ScreenIsCurrent, Idle, Settled, Accepted
<1> QED
  BY <1>1, CliInvariance, PTL

\* An idle screen without a composition stands for a session without input.
LEMMA NoCompositionNoInput ==
  ASSUME CliInv, queue = <<>>, ~HasComposition
  PROVE  raw = <<>>
<1>1. Current(screen)
  BY DEF CliInv, DriverOK, Idle, Showing, Ending, Proposing, Cancelling, Committing,
         Updating
<1>2. screen.preedit = DisplayText /\ screen.preedit = <<>>
  BY <1>1 DEF Current, Snapshot, HasComposition
<1>3. ConfirmedText \in Seq(Text) /\ ActiveInput \in Seq(Char)
  BY TextsAreTyped, ActiveInputIsCode, CodeIsSeq DEF CliInv, IInv, TypeOK
<1>4. ConfirmedText = <<>> /\ ActiveInput = <<>>
  <2>1. ConfirmedText \in Seq(Typed) /\ ActiveInput \in Seq(Typed)
    BY <1>3, SeqMonotonic DEF Typed
  <2>2. Len(ConfirmedText \o ActiveInput) = Len(ConfirmedText) + Len(ActiveInput)
    BY <2>1, ConcatProperties
  <2>3. Len(ConfirmedText \o ActiveInput) = 0
    BY <1>2 DEF DisplayText
  <2>4. Len(ConfirmedText) = 0 /\ Len(ActiveInput) = 0
    BY <2>1, <2>2, <2>3, LenProperties
  <2> QED
    BY <2>1, <2>4, EmptySeq
<1>5. confirmed = <<>>
  <2>1. confirmed \in Seq(ConfirmedSegment) /\ Len(confirmed) \in Nat
    BY DEF CliInv, IInv, TypeOK
  <2>2. Len(ConfirmedText) = Len(confirmed)
    BY <2>1 DEF ConfirmedText
  <2>3. Len(confirmed) = 0
    BY <1>4, <2>2
  <2> QED
    BY <2>1, <2>3, EmptySeq
<1>6. active_start = 0
  BY <1>5 DEF CliInv, IInv, SpansTile
<1>7. Len(raw) = 0
  BY <1>4, <1>6, ActiveInputLength DEF CliInv, IInv, TypeOK
<1>8. raw \in Seq(Char)
  BY CodeIsSeq DEF CliInv, IInv, TypeOK
<1> QED
  BY <1>7, <1>8, EmptySeq

\* A composition ends by a cancel or by a commit whose text lengthens the
\* document, and until then no key edits the document.
THEOREM InputStays == CliSpec => NoInputVanishes
<1> DEFINE Ends == raw # <<>> /\ raw' = <<>> /\ queue # <<>> =>
                     \/ Head(queue).kind = "CancelComposition"
                     \/ Len(document') > Len(document)
           Edits == queue = <<>> /\ document' # document => raw = <<>>
<1>1. CliInv /\ [CliNext]_cliVars => Ends
  <2> SUFFICES ASSUME CliInv, CliNext, raw # <<>>, raw' = <<>>, queue # <<>>
               PROVE  \/ Head(queue).kind = "CancelComposition"
                      \/ Len(document') > Len(document)
    BY DEF cliVars, vars, view, composition
  <2>1. Apply
    BY DEF CliNext, Press, Drain, Show, vars, view, composition
  <2> DEFINE a == Head(queue)
  <2>2. CASE Cancelling(queue)
    BY <2>2 DEF Cancelling
  <2>3. CASE Committing(queue)
    <3>1. a.kind = "Commit" /\ a.text \in Seq(Typed) /\ a.text # <<>>
      BY <2>3 DEF Committing
    <3>2. a.text \in Seq(Typed \cup {Blank}) /\ Len(a.text) > 0
      BY <3>1, SeqMonotonic, EmptySeq, LenProperties
    <3>3. InsertAtCursor(a.text)
      BY <2>1, <3>1 DEF Apply, ApplyToEditor
    <3>4. Len(document') = Len(document) + Len(a.text)
      BY <3>2, <3>3, InsertedIsDocument DEF CliInv
    <3>5. Len(document) \in Nat /\ Len(a.text) \in Nat
      BY <3>1, LenProperties DEF CliInv, EditorOK
    <3> QED
      BY <3>2, <3>4, <3>5
  <2>4. CASE Updating(queue)
    <3>1. Asked(a) /\ pending[a.id].effect = "Keep"
      BY <2>4 DEF Updating
    <3>2. UNCHANGED <<composition, choice, revision>>
      BY <2>1, <3>1, KeepingStays DEF Apply
    <3> QED
      BY <3>2 DEF composition
  <2> QED
    BY <2>1, <2>2, <2>3, <2>4, ApplyProposes DEF Proposing
<1>2. CliInv /\ [CliNext]_cliVars => Edits
  <2> SUFFICES ASSUME CliInv, CliNext, queue = <<>>, document' # document
               PROVE  raw = <<>>
    BY DEF cliVars, editor
  <2>1. Press
    BY DEF CliNext, Drain, Show, Apply
  <2>2. LocalStep
    BY <2>1, PressSteps DEF SessionStep, editor
  <2> QED
    BY <2>2, NoCompositionNoInput DEF LocalStep, Local
<1>3. [][Ends /\ Edits]_cliVars => NoInputVanishes
  BY PTL DEF NoInputVanishes
<1> HIDE DEF Ends, Edits
<1> QED
  BY <1>1, <1>2, <1>3, CliInvariance, PTL DEF CliSpec

=============================================================================
