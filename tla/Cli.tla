-------------------------------- MODULE Cli --------------------------------
(***************************************************************************)
(* The interactive command line (apps/cheime-cli/src/interactive): a       *)
(* complete frontend in one process with its session.                      *)
(*                                                                         *)
(* Pressing a key routes it by what the screen shows (input.rs) and hands  *)
(* the message to the session; SessionDriver (session/drain.rs) then works *)
(* through a queue of the session's messages, to which the answer of every *)
(* acknowledged action is appended.  A key press and each message of the   *)
(* queue are one step.  The next key is read when the queue is empty.      *)
(*                                                                         *)
(* A text is one Unicode scalar here, so that the editor's steps by        *)
(* scalars are steps by elements.  Status lines, logging and drawing are   *)
(* left out.                                                               *)
(***************************************************************************)
EXTENDS Session

CONSTANTS
  DigitKey,       \* the characters of the digit keys '1'.., in order
  Blank,          \* what the space bar inserts
  MaxDocument     \* bound: length of the document a key is pressed in

ASSUME CliAssumption ==
  /\ DigitKey \in Seq(Digit)
  /\ {-1, 1} \subseteq Deltas
  /\ MaxDocument \in Nat

VARIABLES
  screen,         \* AppState::snapshot
  document,       \* Document::text
  cursor,
  sequence,       \* the number event_loop gives to the next message
  queue           \* messages of the session still to be worked through

editor  == <<document, cursor>>
cliVars == <<vars, screen, editor, sequence, queue>>

\* An AppState without a snapshot routes keys as one with an empty snapshot.
NoSnapshot == [message |-> "CandidateSnapshot", revision |-> 0, preedit |-> <<>>,
               page |-> 0, highlighted |-> 0, shown |-> <<>>, status |-> "Ready"]

HasComposition == screen.preedit # <<>> \/ screen.status = "CommitPending"
HasCandidates  == screen.shown # <<>>

-----------------------------------------------------------------------------
(***************************************************************************)
(* The editor: apply_local, which refuses while something is composed.     *)
(***************************************************************************)
Local == ~HasComposition /\ UNCHANGED <<vars, screen, sequence, queue>>

InsertAtCursor(texts) ==
  /\ document' = SubSeq(document, 1, cursor) \o texts
                   \o SubSeq(document, cursor + 1, Len(document))
  /\ cursor' = cursor + Len(texts)

Erase(i) == document' = RemoveAt(document, i)

\* Variant for mutation: the cursor stays where it was.
EraseUnderCursor == Local /\ cursor > 0 /\ Erase(cursor) /\ UNCHANGED cursor

Insert(character) == Local /\ InsertAtCursor(<<character>>)
EraseBefore == Local /\ cursor > 0 /\ Erase(cursor) /\ cursor' = cursor - 1
EraseAt     == Local /\ cursor < Len(document) /\ Erase(cursor + 1) /\ UNCHANGED cursor

MoveCursor ==
  /\ Local
  /\ UNCHANGED document
  /\ \/ cursor > 0 /\ cursor' = cursor - 1                    \* Left
     \/ cursor < Len(document) /\ cursor' = cursor + 1        \* Right
     \/ cursor' = 0                                           \* Home
     \/ cursor' = Len(document)                               \* End

-----------------------------------------------------------------------------
(***************************************************************************)
(* Sending: build_frontend_message and the first line of send_and_apply.   *)
(* An error of the session is an empty reply.                              *)
(***************************************************************************)
Message == [epoch |-> Epoch, session |-> SessionId, sequence |-> sequence]

Sent ==
  /\ sequence' = sequence + 1
  /\ queue' = reply'.messages
  /\ UNCHANGED <<screen, editor>>

SendKey(key) == (KeyCommand(Message, key) \/ RejectHeader(Message)) /\ Sent

SendUi(command) ==
  /\ \/ Fresh(Message) /\ Consume(Message) /\ UNCHANGED after_digit /\ command
     \/ RejectHeader(Message)
  /\ Sent

-----------------------------------------------------------------------------
(***************************************************************************)
(* route_key.                                                              *)
(***************************************************************************)
PressLetter == \E c \in (Letter \cup Foreign) \ Digit : SendKey(c)

\* The ids of the candidates on a page are their positions in the whole list.
PressDigit(i) ==
  \/ i <= Len(screen.shown) /\ SendUi(SelectById(screen.page * PageSize + i))
  \/ i > Len(screen.shown) /\ HasComposition /\ SendKey(DigitKey[i])
  \/ i > Len(screen.shown) /\ ~HasComposition /\ Insert(DigitKey[i])

PressEnter ==
  \/ HasCandidates /\ screen.highlighted # 0 /\ SendUi(SelectById(screen.highlighted))
  \/ ~HasCandidates /\ screen.preedit # <<>> /\ SendKey("Enter")

PressSpace == IF HasComposition THEN SendKey("Enter") ELSE Insert(Blank)

PressBackspace == IF HasComposition THEN SendKey("Backspace") ELSE EraseBefore

PressEscape == HasComposition /\ SendKey("Escape")

PressArrow ==
  /\ HasCandidates
  /\ \/ SendUi(MoveHighlight(-1))
     \/ SendUi(MoveHighlight(1))
     \/ SendUi(PreviousPage)
     \/ SendUi(NextPage)

Press ==
  /\ queue = <<>>
  /\ sequence <= MaxSequence
  /\ Len(document) <= MaxDocument
  /\ \/ PressLetter
     \/ \E i \in 1 .. Len(DigitKey) : PressDigit(i)
     \/ PressEnter \/ PressSpace \/ PressBackspace \/ PressEscape \/ PressArrow
     \/ EraseAt \/ MoveCursor

-----------------------------------------------------------------------------
(***************************************************************************)
(* send_and_apply: one message of the queue.                               *)
(***************************************************************************)
Show ==
  /\ queue # <<>>
  /\ Head(queue).message = "CandidateSnapshot"
  /\ screen' = Head(queue)
  /\ queue' = Tail(queue)
  /\ UNCHANGED <<vars, editor, sequence>>

\* Variant for mutation: a commit is inserted where a typed character would be.
ApplyToIdleEditor(action) ==
  IF action.kind = "Commit" /\ ~HasComposition THEN InsertAtCursor(action.text)
                                               ELSE UNCHANGED editor

\* apply_platform_action.
ApplyToEditor(action) ==
  IF action.kind = "Commit" THEN InsertAtCursor(action.text) ELSE UNCHANGED editor

\* The acknowledgement carries the header of the action.
Acknowledgement(action) ==
  [epoch |-> Epoch, session |-> SessionId, sequence |-> action.sequence]

\* Variant for mutation: the session's answer goes before the rest of the queue.
ApplyAnswerFirst ==
  /\ queue # <<>>
  /\ Head(queue).message = "PlatformAction"
  /\ ApplyToEditor(Head(queue))
  /\ PlatformActionResult(Acknowledgement(Head(queue)), Head(queue).id, "Applied")
  /\ queue' = IF reply'.result = "Ok" THEN reply'.messages \o Tail(queue) ELSE <<>>
  /\ UNCHANGED <<screen, sequence>>

\* Variant for mutation: a preedit is not acknowledged.
ApplyClearingOnly ==
  /\ queue # <<>>
  /\ Head(queue).message = "PlatformAction"
  /\ ApplyToEditor(Head(queue))
  /\ IF Head(queue).kind = "SetPreedit"
     THEN UNCHANGED vars /\ queue' = Tail(queue)
     ELSE /\ PlatformActionResult(Acknowledgement(Head(queue)), Head(queue).id, "Applied")
          /\ queue' = Tail(queue) \o reply'.messages
  /\ UNCHANGED <<screen, sequence>>

\* An error of the session ends send_and_apply, and what is queued is dropped.
Apply ==
  /\ queue # <<>>
  /\ Head(queue).message = "PlatformAction"
  /\ ApplyToEditor(Head(queue))
  /\ PlatformActionResult(Acknowledgement(Head(queue)), Head(queue).id, "Applied")
  /\ queue' = IF reply'.result = "Ok" THEN Tail(queue) \o reply'.messages ELSE <<>>
  /\ UNCHANGED <<screen, sequence>>

Drain == Show \/ Apply

-----------------------------------------------------------------------------
CliInit ==
  /\ Init
  /\ screen = NoSnapshot
  /\ document = <<>> /\ cursor = 0
  /\ sequence = 1
  /\ queue = <<>>

CliNext == Press \/ Drain

\* send_and_apply loops until the queue is empty.
CliSpec == CliInit /\ [][CliNext]_cliVars /\ WF_cliVars(Drain)

-----------------------------------------------------------------------------
(***************************************************************************)
(* Properties.                                                             *)
(***************************************************************************)

\* Type correctness of the frontend: the cursor stays in the document
\* (Document::insert panics otherwise).
CliTypeOK ==
  /\ document \in Seq(Char \cup Text \cup {Blank})
  /\ cursor \in 0 .. Len(document)
  /\ sequence \in 1 .. MaxSequence + 1
  /\ \A i \in 1 .. Len(queue) :
       queue[i].message \in {"CandidateSnapshot", "PlatformAction"}

\* When the driver is done every action the session proposed is answered, no
\* command was refused because the numbers of commands and answers fell out of
\* step, and the screen shows the session as it is: text, page, candidates,
\* highlight and revision.  The session's answer to a commit, which
\* empties the screen, is queued behind the snapshot that says the commit is
\* pending; in another order the old text would stay on the screen and keys
\* would be routed to a composition that is gone.
ScreenIsCurrent ==
  queue = <<>> =>
    /\ DOMAIN pending = {}
    /\ reply.result \notin {"StaleEpoch", "WrongSession", "StaleSequence", "UnknownAction"}
    /\ screen.status # "CommitPending"
    /\ [screen EXCEPT !.status = "Ready"] = Snapshot("Ready")

\* What was typed does not vanish: a composition ends by a cancel, or by a
\* commit whose text is then in the document.  Until then no key edits the
\* document (app_tests.rs, local_document_edits_are_blocked_while_composing).
NoInputVanishes ==
  [][/\ raw # <<>> /\ raw' = <<>> /\ queue # <<>> =>
          \/ Head(queue).kind = "CancelComposition"
          \/ Len(document') > Len(document)
     /\ queue = <<>> /\ document' # document => raw = <<>>]_cliVars

\* Every action the session proposes is answered.
EveryActionSettles ==
  \A id \in 1 .. MaxActions : id \in DOMAIN pending ~> id \notin DOMAIN pending
=============================================================================
