------------------------------ MODULE Session ------------------------------
(***************************************************************************)
(* The engine session: cheime_session::Session (crates/cheime-session/src/ *)
(* state.rs), the single writer of one logical input context.              *)
(*                                                                         *)
(* Every action is one call of Session::handle with one frontend message:  *)
(* the header check, the consumption of the sequence number and the whole  *)
(* handler.  The frontend is the environment: it may send any message with *)
(* any header at any time, so lost, duplicated, late and reordered         *)
(* messages and action results need no machinery of their own.             *)
(*                                                                         *)
(* revision and next_action are 64-bit counters in the code; the bound     *)
(* MaxActions on the actions a session proposes keeps both far from        *)
(* overflow, so SessionError::RevisionOverflow does not occur here.        *)
(***************************************************************************)
EXTENDS Pipeline, Integers, SequencesExt

CONSTANTS
  Epoch, SessionId,      \* the identity the session was created with
  Epochs, Sessions,      \* every epoch and session a message may name
  PageSize,              \* DEFAULT_PAGE_SIZE
  Deltas,                \* amounts of UiCommand::MoveHighlight
  MaxSequence,           \* bound: largest sequence number of a header
  MaxActions             \* bound: actions proposed in one behaviour

ASSUME SessionAssumption ==
  /\ Epoch \in Epochs
  /\ SessionId \in Sessions
  /\ PageSize \in Nat \ {0}
  /\ Deltas \subseteq Int
  /\ MaxSequence \in Nat
  /\ MaxActions \in Nat

VARIABLES
  raw,              \* composition.raw: everything typed
  active_start,     \* composition.active_start: where the undecided part starts
  confirmed,        \* composition.confirmed: the segments already chosen
  candidates,       \* the full candidate list of the active input
  highlighted_idx,  \* index into candidates, from 0
  page,             \* current page, from 0
  revision,
  last_sequence,
  next_action,
  pending,          \* ActionId -> PendingEffect of the unanswered actions
  after_digit,      \* PunctProcessor::last_was_digit
  reply,            \* what the last call of handle returned and called
  learned           \* history: ids given to commit_applied, in order

composition == <<raw, active_start, confirmed>>
choice      == <<candidates, highlighted_idx, page>>
actions     == <<next_action, pending>>
view        == <<composition, choice, revision, actions>>
vars        == <<view, last_sequence, after_digit, reply, learned>>

Header == [epoch : Epochs, session : Sessions, sequence : 1 .. MaxSequence]
Token  == [epoch : Epochs, session : Sessions, action_id : 1 .. MaxActions]

-----------------------------------------------------------------------------
(***************************************************************************)
(* CompositionState.                                                       *)
(***************************************************************************)
ActiveInput   == SubSeq(raw, active_start + 1, Len(raw))
ConfirmedText == [i \in 1 .. Len(confirmed) |-> confirmed[i].text]
DisplayText   == ConfirmedText \o ActiveInput

ConfirmedSegment ==
  [text : Text, start : 0 .. MaxInput, end : 0 .. MaxInput, code : Code,
   lexical : BOOLEAN]

(***************************************************************************)
(* PendingEffect and CommitRecord.  The text and the canonical code of a   *)
(* record are kept as sequences of their parts, one per segment.           *)
(***************************************************************************)
Record == [text : Seq(Text), code : Seq(Code),
           exact_phrase : BOOLEAN, lexical : BOOLEAN]

KeepComposition       == [effect |-> "Keep"]
ClearComposition      == [effect |-> "Clear"]
ClearAndLearn(record) == [effect |-> "Learn", record |-> record]

Effect == {KeepComposition, ClearComposition}
            \cup [effect : {"Learn"}, record : Record]

\* Variant for mutation: the chosen segments left out of the code.
CommitRecordOfRest(c) ==
  [text |-> Append(ConfirmedText, c.text), code |-> <<c.code>>,
   exact_phrase |-> confirmed = <<>> /\ c.exact_phrase, lexical |-> c.lexical]

CommitRecord(c) ==
  [text         |-> Append(ConfirmedText, c.text),
   code         |-> Append([i \in 1 .. Len(confirmed) |-> confirmed[i].code], c.code),
   exact_phrase |-> confirmed = <<>> /\ c.exact_phrase,
   lexical      |-> c.lexical \/ \E i \in 1 .. Len(confirmed) : confirmed[i].lexical]

-----------------------------------------------------------------------------
(***************************************************************************)
(* Pages.  Candidate ids are positions, so 0 stands for "no candidate".    *)
(***************************************************************************)
PageStart == page * PageSize

PageCandidates ==
  SubSeq(candidates, PageStart + 1,
         IF PageStart + PageSize < Len(candidates) THEN PageStart + PageSize
                                                   ELSE Len(candidates))

CurrentHighlightId ==
  LET local == IF highlighted_idx >= PageStart THEN highlighted_idx - PageStart
                                               ELSE 0
  IN  IF local < Len(PageCandidates) THEN PageStart + local + 1 ELSE 0

TotalPages == (Len(candidates) + PageSize - 1) \div PageSize

-----------------------------------------------------------------------------
(***************************************************************************)
(* Replies.                                                                *)
(***************************************************************************)
NoHook == [hook |-> "none"]
Reply(messages) == [result |-> "Ok", messages |-> messages, hook |-> NoHook]
Error(name)     == [result |-> name, messages |-> <<>>, hook |-> NoHook]

Snapshot(status) ==
  [message |-> "CandidateSnapshot", revision |-> revision,
   preedit |-> DisplayText, page |-> page, highlighted |-> CurrentHighlightId,
   shown |-> [i \in 1 .. Len(PageCandidates) |-> PageCandidates[i].text],
   status |-> status]

\* new_action and the messages that announce it, stamped with the state the
\* call leaves.  No snapshot goes with a CancelComposition.
Propose(kind, text, effect) ==
  /\ next_action <= MaxActions
  /\ next_action' = next_action + 1
  /\ pending' = [id \in DOMAIN pending \cup {next_action} |->
                   IF id = next_action THEN effect ELSE pending[id]]
  /\ LET action == [message |-> "PlatformAction", id |-> next_action,
                    kind |-> kind, text |-> text, revision |-> revision',
                    sequence |-> last_sequence']
         status == IF kind = "Commit" THEN "CommitPending" ELSE "Composing"
     IN  reply' = Reply(IF kind = "CancelComposition"
                        THEN <<action>>
                        ELSE <<action, Snapshot(status)'>>)

-----------------------------------------------------------------------------
(***************************************************************************)
(* validate_header.  PlatformActionResult skips the sequence check.        *)
(***************************************************************************)
Addressed(h) == h.epoch = Epoch /\ h.session = SessionId
Fresh(h)     == Addressed(h) /\ h.sequence > last_sequence

\* Variant for mutation: the number expected next is kept instead.
ConsumeNext(h) == last_sequence' = h.sequence + 1

\* Session::handle stores the sequence before the handler runs, whatever the
\* handler then answers.
Consume(h) == last_sequence' = h.sequence

Fail(name) == reply' = Error(name) /\ UNCHANGED <<view, learned>>

RejectHeader(h) ==
  /\ \/ h.epoch # Epoch /\ Fail("StaleEpoch")
     \/ h.epoch = Epoch /\ h.session # SessionId /\ Fail("WrongSession")
     \/ Addressed(h) /\ ~Fresh(h) /\ Fail("StaleSequence")
  /\ UNCHANGED <<last_sequence, after_digit>>

-----------------------------------------------------------------------------
(***************************************************************************)
(* Proposals: nothing of the composition changes before the platform       *)
(* answers.                                                                *)
(***************************************************************************)
Unmoved == UNCHANGED <<composition, choice, revision, learned>>

ProposeCancel == Unmoved /\ Propose("CancelComposition", <<>>, ClearComposition)

ProposeCommitRaw ==
  IF DisplayText = <<>>
  THEN ProposeCancel
  ELSE Unmoved /\ Propose("Commit", DisplayText, ClearComposition)

ProposeCommitText(texts) ==
  /\ Unmoved
  /\ Propose("Commit", ConfirmedText \o texts, ClearComposition)

PreeditUpdate == Propose("SetPreedit", DisplayText', KeepComposition)

\* Variant for mutation: candidates of the input before the step.
RefreshStaleCandidates ==
  /\ candidates' = Refresh(ActiveInput)
  /\ highlighted_idx' = 0
  /\ page' = 0

\* refresh_active_candidates; ComposablePipeline::refresh never fails.
RefreshActiveCandidates ==
  /\ candidates' = Refresh(ActiveInput')
  /\ highlighted_idx' = 0
  /\ page' = 0

SelectComplete(c) ==
  /\ c.complete
  /\ Unmoved
  /\ Propose("Commit", Append(ConfirmedText, c.text),
             ClearAndLearn(CommitRecord(c)))

FitsActive(c) == c.end # 0 /\ c.end <= Len(ActiveInput)

\* Variant for mutation: the consumed span taken for an absolute one.
SegmentAbsolute(c) ==
  [text |-> c.text, start |-> active_start, end |-> c.end,
   code |-> c.code, lexical |-> c.lexical]

SegmentOf(c) ==
  [text |-> c.text, start |-> active_start, end |-> active_start + c.end,
   code |-> c.code, lexical |-> c.lexical]

SelectPrefix(c) ==
  /\ ~c.complete
  /\ FitsActive(c)
  /\ confirmed' = Append(confirmed, SegmentOf(c))
  /\ active_start' = active_start + c.end
  /\ revision' = revision + 1
  /\ UNCHANGED <<raw, learned>>
  /\ RefreshActiveCandidates
  /\ PreeditUpdate

SelectMisfit(c) == ~c.complete /\ ~FitsActive(c) /\ Fail("NoCandidate")

SelectCandidate(c) == SelectComplete(c) \/ SelectPrefix(c) \/ SelectMisfit(c)

ProposeCommit ==
  IF highlighted_idx < Len(candidates)
  THEN SelectCandidate(candidates[highlighted_idx + 1])
  ELSE ProposeCommitRaw

-----------------------------------------------------------------------------
(***************************************************************************)
(* handle_key.                                                             *)
(***************************************************************************)
\* Variant for mutation: every segment reopened at once.
ReopenAllConfirmed ==
  /\ active_start' = 0
  /\ confirmed' = <<>>
  /\ revision' = revision + 1
  /\ UNCHANGED <<raw, learned, after_digit>>
  /\ RefreshActiveCandidates
  /\ PreeditUpdate

ReopenLastConfirmed ==
  /\ active_start' = confirmed[Len(confirmed)].start
  /\ confirmed' = SubSeq(confirmed, 1, Len(confirmed) - 1)
  /\ revision' = revision + 1
  /\ UNCHANGED <<raw, learned, after_digit>>
  /\ RefreshActiveCandidates
  /\ PreeditUpdate

Reopens(key) == key = "Backspace" /\ ActiveInput = <<>> /\ confirmed # <<>>

\* PipelineIntent::None: replace_active, fresh candidates, first page.
EditActive(output) ==
  /\ output.intent = "None"
  /\ active_start + Len(output.composition) <= MaxInput
  /\ raw' = SubSeq(raw, 1, active_start) \o output.composition
  /\ candidates' = Candidates(output)
  /\ highlighted_idx' = 0
  /\ page' = 0
  /\ revision' = revision + 1
  /\ UNCHANGED <<active_start, confirmed, learned>>
  /\ PreeditUpdate

ApplyKey(output) ==
  \/ EditActive(output)
  \/ output.intent = "CommitHighlighted" /\ ProposeCommit
  \/ output.intent = "CommitRaw" /\ ProposeCommitRaw
  \/ output.intent = "Cancel" /\ ProposeCancel
  \/ output.intent = "CommitText" /\ ProposeCommitText(output.texts)

KeyCommand(h, key) ==
  /\ Fresh(h)
  /\ Consume(h)
  /\ \/ Reopens(key) /\ ReopenLastConfirmed
     \/ /\ ~Reopens(key)
        /\ after_digit' = AfterDigit(key)
        /\ IF Unsupported(key, after_digit)
           THEN Fail("UnsupportedCharacter")
           ELSE ApplyKey(Process(ActiveInput, key, after_digit))

-----------------------------------------------------------------------------
(***************************************************************************)
(* handle_ui_command.  SelectCandidate carries the epoch and the revision  *)
(* of the snapshot it was chosen from; the handler reads neither.          *)
(***************************************************************************)
SelectById(id) ==
  IF id \in 1 .. Len(candidates) THEN SelectCandidate(candidates[id])
                                 ELSE Fail("NoCandidate")

ShowPage(p, idx) ==
  /\ page' = p
  /\ highlighted_idx' = idx
  /\ UNCHANGED <<composition, candidates, revision, actions, learned>>
  /\ reply' = Reply(<<Snapshot("Composing")'>>)

MoveHighlight(delta) ==
  IF candidates = <<>>
  THEN reply' = Reply(<<>>) /\ UNCHANGED <<view, learned>>
  ELSE LET max   == Len(candidates) - 1
           moved == highlighted_idx + delta
           idx   == IF moved < 0 THEN 0 ELSE IF moved > max THEN max ELSE moved
       IN  ShowPage(idx \div PageSize, idx)

\* Variant for mutation: the page turns and the highlight stays behind.
NextPageAlone ==
  IF page + 1 < TotalPages THEN ShowPage(page + 1, highlighted_idx)
                           ELSE ShowPage(page, highlighted_idx)

NextPage ==
  IF TotalPages = 0
  THEN ShowPage(page, highlighted_idx)
  ELSE LET next == IF page + 1 < TotalPages THEN page + 1 ELSE TotalPages - 1
       IN  ShowPage(next, next * PageSize)

PreviousPage ==
  LET previous == IF page = 0 THEN 0 ELSE page - 1
  IN  ShowPage(previous, previous * PageSize)

UiCommand(h) ==
  /\ Fresh(h)
  /\ Consume(h)
  /\ UNCHANGED after_digit
  /\ \/ \E id \in 1 .. Len(candidates) + 1 : SelectById(id)
     \/ \E delta \in Deltas : MoveHighlight(delta)
     \/ NextPage
     \/ PreviousPage
     \/ ProposeCancel                                            \* Dismiss

-----------------------------------------------------------------------------
(***************************************************************************)
(* The other messages.                                                     *)
(***************************************************************************)
\* The answered action leaves pending.  Variants for mutation: it is only looked
\* up; an answer settles every earlier action too.
Peek(id)        == UNCHANGED pending
ForgetUpTo(id)  == pending' = [i \in {j \in DOMAIN pending : j > id} |-> pending[i]]
Forget(id)      == pending' = [i \in DOMAIN pending \ {id} |-> pending[i]]

\* Variant for mutation: the input goes and the revision stays.
ApplyClearSilently(id) ==
  /\ pending[id].effect # "Keep"
  /\ raw' = <<>> /\ active_start' = 0 /\ confirmed' = <<>>
  /\ candidates' = <<>> /\ highlighted_idx' = 0 /\ page' = 0
  /\ learned' = IF pending[id].effect = "Learn" THEN Append(learned, id) ELSE learned
  /\ UNCHANGED revision
  /\ reply' = Reply(<<Snapshot("Ready")'>>)

\* handle_action_result, PlatformActionOutcome::Applied of a clearing action.
ApplyClear(id) ==
  /\ pending[id].effect # "Keep"
  /\ raw' = <<>>
  /\ active_start' = 0
  /\ confirmed' = <<>>
  /\ candidates' = <<>>
  /\ highlighted_idx' = 0
  /\ page' = 0
  /\ revision' = revision + 1
  /\ IF pending[id].effect = "Learn"
     THEN /\ learned' = Append(learned, id)
          /\ reply' = [Reply(<<Snapshot("Ready")'>>) EXCEPT !.hook =
               [hook |-> "commit_applied", id |-> id, record |-> pending[id].record]]
     ELSE /\ UNCHANGED learned
          /\ reply' = Reply(<<Snapshot("Ready")'>>)

PlatformActionResult(h, id, outcome) ==
  /\ Addressed(h)
  /\ Consume(h)
  /\ UNCHANGED after_digit
  /\ \/ id \notin DOMAIN pending /\ Fail("UnknownAction")
     \/ /\ id \in DOMAIN pending
        /\ Forget(id)
        /\ UNCHANGED next_action
        /\ \/ outcome = "Applied" /\ ApplyClear(id)
           \/ /\ outcome = "Rejected" \/ pending[id].effect = "Keep"
              /\ reply' = Reply(<<>>)
              /\ UNCHANGED <<composition, choice, revision, learned>>

RollbackLearning(h, token) ==
  /\ Fresh(h)
  /\ Consume(h)
  /\ UNCHANGED <<view, after_digit, learned>>
  /\ \/ token.session # SessionId /\ reply' = Error("WrongSession")
     \/ /\ token.session = SessionId /\ token.epoch # Epoch
        /\ reply' = Error("StaleEpoch")
     \/ /\ token.session = SessionId /\ token.epoch = Epoch
        /\ reply' = [Reply(<<>>) EXCEPT !.hook =
                       [hook |-> "rollback_learning", id |-> token.action_id]]

\* OpenSession and CloseSession: the only messages whose revision is checked.
OpenOrCloseSession(h, rev) ==
  /\ Fresh(h)
  /\ UNCHANGED <<view, after_digit, learned>>
  /\ \/ rev = revision /\ Consume(h) /\ reply' = Reply(<<>>)
     \/ rev # revision /\ UNCHANGED last_sequence /\ reply' = Error("StaleRevision")

-----------------------------------------------------------------------------
Init ==
  /\ raw = <<>> /\ active_start = 0 /\ confirmed = <<>>
  /\ candidates = <<>> /\ highlighted_idx = 0 /\ page = 0
  /\ revision = 0
  /\ last_sequence = 0
  /\ next_action = 1
  /\ pending = [id \in {} |-> KeepComposition]
  /\ after_digit = FALSE
  /\ reply = Reply(<<>>)
  /\ learned = <<>>

Next ==
  \E h \in Header :
    \/ RejectHeader(h)
    \/ \E key \in Key : KeyCommand(h, key)
    \/ UiCommand(h)
    \/ \E id \in 1 .. MaxActions, outcome \in {"Applied", "Rejected"} :
         PlatformActionResult(h, id, outcome)
    \/ \E token \in Token : RollbackLearning(h, token)
    \/ \E rev \in {revision, revision + 1} : OpenOrCloseSession(h, rev)

Spec == Init /\ [][Next]_vars

-----------------------------------------------------------------------------
(***************************************************************************)
(* Properties.                                                             *)
(***************************************************************************)

\* Type correctness of the session's fields.
TypeOK ==
  /\ raw \in Code
  /\ active_start \in 0 .. MaxInput
  /\ confirmed \in Seq(ConfirmedSegment)
  /\ candidates \in Seq(Candidate)
  /\ highlighted_idx \in Nat
  /\ page \in Nat
  /\ revision \in Nat
  /\ last_sequence \in 0 .. MaxSequence
  /\ next_action \in 1 .. MaxActions + 1
  /\ DOMAIN pending \subseteq 1 .. MaxActions
  /\ \A id \in DOMAIN pending : pending[id] \in Effect
  /\ after_digit \in BOOLEAN
  /\ learned \in Seq(1 .. MaxActions)

\* The chosen segments tile the decided part of the input: none is empty, each
\* starts where the one before it ends, and the undecided part starts where
\* the last one ends.  Selecting, reopening, editing and clearing each move
\* only some of these offsets; one that slips shows the user input twice,
\* drops it, or makes &raw[active_start..] panic.
SpansTile ==
  /\ active_start <= Len(raw)
  /\ \A i \in 1 .. Len(confirmed) :
       /\ confirmed[i].start < confirmed[i].end
       /\ confirmed[i].start = IF i = 1 THEN 0 ELSE confirmed[i - 1].end
  /\ active_start = IF confirmed = <<>> THEN 0 ELSE confirmed[Len(confirmed)].end

\* The list on offer was computed for the input that is undecided now: no key,
\* selection, reopening or late action result leaves the list of other input
\* behind, so an id never selects a candidate of another code.
CandidatesMatchActive ==
  \/ candidates = Refresh(ActiveInput)
  \/ raw = <<>> /\ candidates = <<>>
  \/ \E mark \in DOMAIN ListMark :
       ActiveInput = <<mark>> /\ candidates = Resolve(<<mark>>, Injected(mark))

\* The candidate a snapshot marks as highlighted is the one Space commits:
\* page and highlighted_idx are two fields, moved by five different handlers,
\* and the snapshot derives the mark from both.
HighlightIsVisible ==
  candidates # <<>> => CurrentHighlightId = highlighted_idx + 1

\* Whatever changes the composition or the full candidate list raises the
\* revision, and nothing lowers it: what was computed for a revision that is no
\* longer current is for another input ("Revision: monotone, against asynchronous
\* write-back", docs/architecture.md).  Page, highlight and the part of the list
\* that a snapshot shows are not covered: MoveHighlight, NextPage and
\* PreviousPage publish others under the same revision.
RevisionGuardsView ==
  [][/\ revision' >= revision
     /\ <<composition, candidates>>' # <<composition, candidates>>
          => revision' > revision]_vars

\* A chosen segment goes away only when Backspace reopens it, last first and
\* with the input kept, or when the platform has applied an action that ends
\* the composition ("finalize the transition only after platform
\* confirmation", README.md).
SelectionsKept ==
  [][Len(confirmed') < Len(confirmed) =>
       \/ raw' = raw /\ confirmed' = SubSeq(confirmed, 1, Len(confirmed) - 1)
       \/ \E id \in DOMAIN pending \ DOMAIN pending' :
            pending[id].effect # "Keep"]_vars

\* What RecordCoversInput needs of the pipeline: the code of a candidate is the
\* input it consumes, and a complete candidate consumes all of it.
Spells(w, c) == /\ c.complete => c.code = w
                /\ c.end \in 1 .. Len(w) => c.code = SubSeq(w, 1, c.end)

CodesSpell ==
  /\ \A w \in Code : \A c \in Range(Refresh(w)) : Spells(w, c)
  /\ \A mark \in DOMAIN ListMark :
       \A c \in Range(Resolve(<<mark>>, Injected(mark))) : Spells(<<mark>>, c)

\* A phrase proposed for learning is keyed by the code of exactly the input it
\* was composed from, every chosen segment and the rest, in order.
RecordCoversInput ==
  [][\A id \in DOMAIN pending' \ DOMAIN pending :
       pending'[id].effect = "Learn" =>
         FlattenSeq(pending'[id].record.code) = raw]_vars

\* The session keeps the promises of CommitLedger about its platform actions.
Ledger == INSTANCE CommitLedger WITH
  issued   <- next_action - 1,
  open     <- DOMAIN pending,
  teaching <- {id \in DOMAIN pending : pending[id].effect = "Learn"}

LedgerSpec == Ledger!Spec

\* No action result, however often it is delivered, is learned from twice.
LearnedOnce == Ledger!LearnedOnce
=============================================================================
