------------------------------ MODULE UserStore ------------------------------
(***************************************************************************)
(* User data: UserStore (crates/cheime-user-data/src/event.rs) with its    *)
(* SQLite database, and the LearningService that feeds it (crates/         *)
(* cheime-pipeline/src/learning.rs).                                       *)
(*                                                                         *)
(* The store lives behind one mutex, so each action is one call, and the   *)
(* database survives Restart, which drops everything else.  A Word stands  *)
(* for a schema, a text and its code.  Timestamps, which nothing reads     *)
(* back, are left out.                                                     *)
(***************************************************************************)
EXTENDS Orders

CONSTANTS
  Word,
  Session,          \* sessions that share the store, numbered from 1
  Delta,            \* deltas of UpdateFrequency
  Radix,            \* event ids are printed in this radix: 10
  Delay,            \* LEARNING_DELAY_MS
  Outcome,          \* what SQLite may make of a write: see Written
  MaxEvents,        \* bound: length of the log in memory
  MaxActions,       \* bound: actions of a session, and of the legacy calls
  MaxTime,          \* bound: the clock of one process
  MaxRestarts       \* bound: restarts

ASSUME UserStoreAssumption ==
  /\ Session \subseteq Nat \ {0}
  /\ Delta \subseteq Int
  /\ Radix \in Nat \ {0, 1}
  /\ Delay \in Nat
  /\ Outcome \subseteq {"stored", "event only", "lost"}
  /\ MaxEvents \in Nat /\ MaxActions \in Nat /\ MaxTime \in Nat /\ MaxRestarts \in Nat

VARIABLES
  db,               \* the database: its events, pinned, blocked and deleted tables
  cache,            \* text_frequency, code_texts, pinned, blocked, deleted
  events,           \* the log in memory
  pending,          \* CommitToken -> PendingPhrase
  next_id,          \* make_event_id's process-wide counter
  legacy,           \* legacy_next_action and legacy_last
  now,              \* the LearningService's clock, from 0 in each process
  given,            \* history: tokens given to commit_applied in this process
  rolled_back,      \* history: origins whose phrase was cancelled
  clean,            \* history: no write has failed and no crash hit a write
  restarts

history == <<given, rolled_back, clean, restarts>>
vars    == <<db, cache, events, pending, next_id, legacy, now, history>>

\* Tokens are ordered by session, then action (the epoch is fixed); the
\* compatibility calls use session 0.
Token        == [session : Session \cup {0}, action_id : 1 .. MaxActions]
Before(t, u) == \/ t.session < u.session
                \/ t.session = u.session /\ t.action_id < u.action_id

\* An event id is a device and a number.  The devices stand for the store's own
\* name and "engine", the one LearningService uses; 1 and 2 order the strings.
Device == [own |-> 1, engine |-> 2]
NoToken == [session |-> 0, action_id |-> 0]

\* History: the commit a phrase came from.  Tokens start again in every process
\* (the CLI's main.rs fixes session 1 and epoch 1), so the process counts.
Origin(t) == [token |-> t, process |-> restarts]

-----------------------------------------------------------------------------
(***************************************************************************)
(* Events.  origins is a history field: the commit a phrase was learned    *)
(* from, if any.                                                           *)
(***************************************************************************)
Event(op, word, delta, device, origins) ==
  [op |-> op, word |-> word, delta |-> delta, device |-> device, origins |-> origins]

LearnWord(word, device, origins) == Event("learn_word", word, 1, device, origins)

Operations ==
  {LearnWord(w, Device.own, {}) : w \in Word}
    \cup {Event("update_frequency", w, d, Device.own, {}) : w \in Word, d \in Delta}
    \cup {Event(op, w, 0, Device.own, {}) :
            op \in {"delete_word", "pin_candidate", "block_candidate"}, w \in Word}

EmptyCache ==
  [frequency |-> [w \in Word |-> 0], known |-> {}, pinned |-> {}, blocked |-> {},
   deleted |-> {}]

\* apply_to_cache.
ApplyToCache(c, e) ==
  CASE e.op = "learn_word" ->
         [c EXCEPT !.deleted = @ \ {e.word}, !.known = @ \cup {e.word},
                   !.frequency[e.word] = @ + e.delta]
    [] e.op = "update_frequency" ->
         IF e.word \in c.deleted THEN c ELSE [c EXCEPT !.frequency[e.word] = @ + e.delta]
    [] e.op = "delete_word" ->
         [c EXCEPT !.deleted = @ \cup {e.word}, !.pinned = @ \ {e.word}]
    [] e.op = "pin_candidate"   -> [c EXCEPT !.pinned = @ \cup {e.word}]
    [] e.op = "block_candidate" -> [c EXCEPT !.blocked = @ \cup {e.word}]

Replay(log) == FoldLeft(ApplyToCache, EmptyCache, log)

-----------------------------------------------------------------------------
(***************************************************************************)
(* The database.                                                           *)
(***************************************************************************)
EmptyDb == [events |-> [id \in {} |-> NoToken], pinned |-> {}, blocked |-> {},
            deleted |-> {}]

\* INSERT OR REPLACE INTO events.
InsertEvent(d, id, e) ==
  [d EXCEPT !.events = [i \in DOMAIN d.events \cup {id} |->
                          IF i = id THEN e ELSE d.events[i]]]

\* The second statement of persist_event.
InsertRow(d, e) ==
  CASE e.op = "delete_word"     -> [d EXCEPT !.deleted = @ \cup {e.word}]
    [] e.op = "pin_candidate"   -> [d EXCEPT !.pinned  = @ \cup {e.word}]
    [] e.op = "block_candidate" -> [d EXCEPT !.blocked = @ \cup {e.word}]
    [] OTHER                    -> d

\* persist_event, whose errors apply ignores: the first statement fails, only
\* the second does, or neither.
Written(d, write) ==
  CASE write.outcome = "stored" ->
         InsertRow(InsertEvent(d, write.id, write.event), write.event)
    [] write.outcome = "event only" -> InsertEvent(d, write.id, write.event)
    [] write.outcome = "lost"       -> d

\* The digits of an event's number, most significant first.
Digits[n \in 0 .. MaxEvents] ==
  IF n < Radix THEN <<n>> ELSE Append(Digits[n \div Radix], n % Radix)

\* ORDER BY id, and ids are TEXT.
TextBefore(i, j) ==
  \/ i.device < j.device
  \/ i.device = j.device /\ LexLess(Digits[i.seq], Digits[j.seq])

Stored(d) ==
  LET ids == InOrder(DOMAIN d.events, TextBefore)
  IN  [n \in DOMAIN ids |-> d.events[ids[n]]]

\* Variant for mutation: the blocked table is not read back.
LoadedWithoutBlocked(d) ==
  LET c == Replay(Stored(d))
  IN  [c EXCEPT !.pinned = @ \cup d.pinned, !.deleted = @ \cup d.deleted]

\* load_from_db: the log is replayed, then the three tables are added.
Loaded(d) ==
  LET c == Replay(Stored(d))
  IN  [c EXCEPT !.pinned  = @ \cup d.pinned, !.blocked = @ \cup d.blocked,
                !.deleted = @ \cup d.deleted]

-----------------------------------------------------------------------------
(***************************************************************************)
(* UserStore::apply, for the events of one call in order.                  *)
(***************************************************************************)
\* Variant for mutation: the counter starts at 0.
IdFromZero(e, n) == [device |-> e.device, seq |-> n - 1]

\* make_event_id.
Id(e, n) == [device |-> e.device, seq |-> n]

Apply(batch) ==
  /\ Len(events) + Len(batch) <= MaxEvents
  /\ next_id' = next_id + Len(batch)
  /\ events' = events \o batch
  /\ cache' = FoldLeft(ApplyToCache, cache, batch)
  /\ \E outcome \in [1 .. Len(batch) -> Outcome] :
       /\ db' = FoldLeft(Written, db,
                         [n \in 1 .. Len(batch) |->
                            [id |-> Id(batch[n], next_id + n - 1), event |-> batch[n],
                             outcome |-> outcome[n]]])
       /\ clean' = (clean /\ \A n \in 1 .. Len(batch) : outcome[n] = "stored")

\* A pin, block, delete or frequency event applied directly.
ApplyOperation ==
  /\ \E e \in Operations : Apply(<<e>>)
  /\ UNCHANGED <<pending, legacy, now, given, rolled_back, restarts>>

Stage(tokens, t, phrase) ==
  pending' = [u \in tokens \cup {t} |-> IF u = t THEN phrase ELSE pending[u]]

Drop(tokens) == pending' = [u \in DOMAIN pending \ tokens |-> pending[u]]

\* LearningService::commit_applied.  A session gives a token at most once
\* (Session!LearnedOnce); the sessions of a new process start again with the
\* same tokens.
CommitApplied(t, word, lexical, exact) ==
  /\ t.session # 0 /\ t \notin given
  /\ given' = given \cup {t}
  /\ \/ /\ ~lexical
        /\ UNCHANGED <<db, cache, events, pending, next_id, clean>>
     \/ /\ lexical /\ exact
        /\ Apply(<<LearnWord(word, Device.engine, {Origin(t)})>>)
        /\ UNCHANGED pending
     \/ /\ lexical /\ ~exact
        /\ Stage(DOMAIN pending, t, [word |-> word, deadline |-> now + Delay])
        /\ UNCHANGED <<db, cache, events, next_id, clean>>
  /\ UNCHANGED <<legacy, now, rolled_back, restarts>>

\* Variant for mutation: the phrase stays pending.
CancelWithoutRemoving(tokens) == UNCHANGED pending

\* cancel_phrase, which rollback_learning and undo_last call.
Cancel(tokens) == Drop(tokens)

\* LearningService::rollback_learning.
RollbackLearning(t) ==
  /\ Cancel({t})
  /\ rolled_back' = rolled_back \cup {Origin(u) : u \in {t} \cap DOMAIN pending}
  /\ UNCHANGED <<db, cache, events, next_id, legacy, now, given, clean, restarts>>

Learned(tokens) ==
  LET order == InOrder(tokens, Before)
  IN  [n \in 1 .. Len(order) |->
         LearnWord(pending[order[n]].word, Device.own, {Origin(order[n])})]

Expired == {t \in DOMAIN pending : t.session # 0 /\ pending[t].deadline <= now}

\* Variant for mutation: expired phrases are learned and stay pending.
ConfirmWithoutRemoving(tokens) == Apply(Learned(tokens)) /\ UNCHANGED pending

Confirm(tokens) == Apply(Learned(tokens)) /\ Drop(tokens)

\* confirm_expired.  The deadline of a legacy phrase, u64::MAX, never passes.
ConfirmExpired ==
  /\ Confirm(Expired)
  /\ UNCHANGED <<legacy, now, given, rolled_back, restarts>>

\* confirm_all_pending.
ConfirmAllPending ==
  /\ Confirm(DOMAIN pending)
  /\ legacy' = [legacy EXCEPT !.last = NoToken]
  /\ UNCHANGED <<now, given, rolled_back, restarts>>

\* commit_pending: the phrases before are confirmed, this one is staged.
CommitPending(word) ==
  LET t == [session |-> 0, action_id |-> legacy.next]
  IN  /\ legacy.next <= MaxActions
      /\ Apply(Learned(DOMAIN pending))
      /\ Stage({}, t, [word |-> word, deadline |-> MaxTime + Delay + 1])
      /\ legacy' = [next |-> legacy.next + 1, last |-> t]
      /\ UNCHANGED <<now, given, rolled_back, restarts>>

\* undo_last.
UndoLast ==
  /\ legacy.last # NoToken
  /\ legacy' = [legacy EXCEPT !.last = NoToken]
  /\ Cancel({legacy.last})
  /\ rolled_back' = rolled_back \cup {Origin(t) : t \in {legacy.last} \cap DOMAIN pending}
  /\ UNCHANGED <<db, cache, events, next_id, now, given, clean, restarts>>

Tick ==
  /\ now < MaxTime
  /\ now' = now + 1
  /\ UNCHANGED <<db, cache, events, pending, next_id, legacy, history>>

-----------------------------------------------------------------------------
(***************************************************************************)
(* UserStore::open in a new process.  A crash may also come between the    *)
(* two statements of a write.                                              *)
(***************************************************************************)
Open(d) ==
  /\ restarts < MaxRestarts
  /\ restarts' = restarts + 1
  /\ db' = d
  /\ cache' = Loaded(d)
  /\ events' = Stored(d)
  /\ pending' = [t \in {} |-> NoToken]
  /\ next_id' = 1
  /\ legacy' = [next |-> 1, last |-> NoToken]
  /\ now' = 0
  /\ given' = {}
  /\ UNCHANGED rolled_back

Restart == Open(db) /\ UNCHANGED clean

CrashInWrite ==
  /\ Len(events) < MaxEvents
  /\ \E e \in Operations : Open(InsertEvent(db, Id(e, next_id), e))
  /\ clean' = FALSE

Init ==
  /\ db = EmptyDb /\ cache = EmptyCache /\ events = <<>>
  /\ pending = [t \in {} |-> NoToken]
  /\ next_id = 1
  /\ legacy = [next |-> 1, last |-> NoToken]
  /\ now = 0
  /\ given = {} /\ rolled_back = {} /\ clean = TRUE /\ restarts = 0

Next ==
  \/ ApplyOperation
  \/ \E t \in Token, word \in Word, lexical, exact \in BOOLEAN :
       CommitApplied(t, word, lexical, exact)
  \/ \E t \in Token : RollbackLearning(t)
  \/ ConfirmExpired
  \/ ConfirmAllPending
  \/ \E word \in Word : CommitPending(word)
  \/ UndoLast
  \/ Tick
  \/ Restart
  \/ CrashInWrite

Spec == Init /\ [][Next]_vars

-----------------------------------------------------------------------------
(***************************************************************************)
(* Properties.                                                             *)
(***************************************************************************)
LoggedEvents == {events[n] : n \in DOMAIN events} \cup {db.events[id] : id \in DOMAIN db.events}

\* Type correctness of the store.
TypeOK ==
  /\ cache.frequency \in [Word -> Int]
  /\ cache.known \cup cache.pinned \cup cache.blocked \cup cache.deleted \subseteq Word
  /\ db.pinned \cup db.blocked \cup db.deleted \subseteq Word
  /\ DOMAIN db.events \subseteq [device : {1, 2}, seq : 1 .. MaxEvents]
  /\ \A e \in LoggedEvents : e.word \in Word
  /\ DOMAIN pending \subseteq Token
  /\ next_id \in 1 .. MaxEvents + 1
  /\ now \in 0 .. MaxTime

\* A phrase whose commit was rolled back, or may still be, is in no log: not in
\* memory, not in the database, and no restart brings it back (event.rs,
\* rollback_before_deadline_never_persists_phrase).
RolledBackNeverLearned ==
  \A e \in LoggedEvents :
    e.origins \cap (rolled_back \cup {Origin(t) : t \in DOMAIN pending}) = {}

\* One commit teaches one phrase at most once, whichever of the deadline, the
\* next legacy commit and a restart comes first.
LearnedOncePerCommit ==
  \A i, j \in DOMAIN events :
    events[i].origins \cap events[j].origins # {} => i = j

\* Without a failed write or a crash in one, what the user blocked stays
\* blocked and what is pinned or deleted is backed by a table, over any number
\* of restarts and although event ids are given out again.
FlagsDurable ==
  clean => /\ cache.blocked = db.blocked
           /\ cache.pinned \subseteq db.pinned
           /\ cache.deleted \subseteq db.deleted

\* The database keeps user data "for persistence across restarts" (event.rs,
\* module comment): reopening the store after clean writes leaves every frequency
\* as it was.  The events of a new process take the ids of the last one's, and
\* their rows.
RestartKeepsFrequency ==
  [][restarts' > restarts /\ clean' => cache'.frequency = cache.frequency]_vars
=============================================================================
