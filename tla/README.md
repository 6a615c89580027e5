# CheIME core: a TLA+ verification project

This directory specifies, model-checks and proves properties of the CheIME core:
the session of an input method engine and the command line that drives it, the
way from a typed code to its candidates, the user data it learns, and the
dictionaries and configurations it loads, caches and deploys. Every definition is translated from the Rust
source; `PROJECT.json` names the lines each one stands for.

Run a check with `tlc -config X.cfg M`, the proofs with `tlapm M.tla`.

## 1. Inventory

Paths are relative to `src/`; `crates/` is left out where the crate is named.

| part | state | operations | talks to |
|---|---|---|---|
| `cheime-session` `state.rs` | composition (raw input, start of the undecided part, chosen segments), candidate list, highlight, page, revision, last sequence number, pending platform actions | `handle` of key and UI commands, action results, rollback, open and close | calls the pipeline; answers the frontend with actions and snapshots |
| `cheime-pipeline` processors | the punctuator's "last key was a digit"; the key mapper's history | `apply`, `refresh` | called by the session with the undecided input |
| `cheime-pipeline` resolution | none (pure), fixed by the schema: segmentors, normalizers, decoder, translators, filters, ranker | code to candidate list | reads dictionaries and user data |
| `cheime-pipeline` `learning.rs` | a clock | `commit_applied`, `rollback_learning`, `confirm_expired` | called through the pipeline by the session; writes the user store |
| `cheime-user-data` `event.rs` | event log, caches, flags, pending phrases, SQLite database | `apply`, staging, cancelling, confirming, `open` | the learning service, the CLI |
| `cheime-config` `deploy.rs` | versioned directories, `current.tmp`, `current.txt` | `deploy`, `current` | the file system |
| `cheime-config` rest | schema files with parents, user profile, engine state | `load_file`, `merge_configs`, `LayeredConfig::resolve`, save and load | the factory |
| `cheime-dictionary` | compiled fragments by content hash, deployed index, tiers | `load_or_build`, `invalidate`, `deploy`, `resolve_imports`, lookups | decoder, file system |
| `cheime-tidx` | a `.tidx` file | write, open, search | dictionary |
| `cheime-wire` | receive buffer of the frame decoder | encode, decode, handshake types | a host process and its frontends |
| `cheime-protocol`, `cheime-model` | none: messages and identifiers | | everyone |
| `apps/cheime-cli` | screen (last snapshot), document and cursor, sequence counter, queue of the driver | key routing, `send_and_apply` | the session, synchronously |
| `cheime-extension`, `cheime-lua` | registry, Lua state | register, find, call | nothing in the engine calls them yet |
| `cheime-diagnostics` | none | reports | |

The engine is single-threaded per session; what is concurrent is its
environment. The frontend is another process in the design
(`docs/superpowers/specs/`), so its messages may be late, lost, repeated or out
of order, and between an action the session proposes and the platform's answer
any number of keys may arrive. The user store is shared by the sessions and
outlives the process; the deployment is read while it is written.

What makes each part correct:

* session: the offsets of chosen segments always describe the input; the list
  on offer belongs to the undecided input; the highlighted mark is what Space
  commits; composition and candidate list never change under an unchanged
  revision; nothing is finalised before the platform confirms it, and a confirmation counts once;
* learning and user data: what is rolled back is never learned, no commit is
  learned twice, nothing recorded is lost or comes back through a restart;
* resolution: every code has a reading, the primary reading is the best one,
  what a selection leaves is read as it was before; a candidate spells what it
  consumes, no entry that is spelled is lost, what was learned comes back;
* dictionaries: whichever way an index came about, from fragments, from all the
  lines or in two tiers over a file, it gives the same answers;
* deployment: whoever reads gets a whole, validated configuration, and a failed
  deployment changes nothing;
* layers: the result is that of the stacked layers, and the engine starts from
  the state it saved or reports an error.

`PROJECT.json` lists every hazard of the code at its line with the properties
that watch it, and says why where none does.

## 2. Modules

| module | models | role |
|---|---|---|
| `Pipeline` | `ComposablePipeline::apply_internal`, `refresh`, `DefaultProcessor`, `PunctProcessor` | operators the session calls |
| `Session` | `cheime-session/src/state.rs` | the component: one action per message of `handle` |
| `CommitLedger` | | abstract specification: numbered actions, each answered at most once, each teaching at most once |
| `OrderlyFrontend` | `SessionDriver::send_and_apply`, `build_frontend_message` | a frontend that counts, echoes and answers in any order |
| `MCSession`, `MCSessionCompose` | | instances of the two |
| `SessionProofs` | | theorems about `Session` |
| `Cli`, `MCCli` | `apps/cheime-cli/src/interactive`: `input.rs`, `app.rs`, `editor.rs`, `drain.rs`, `tui.rs` | the command line composed with `Session` |
| `CliProofs` | | `CliSpec => Spec`; theorems about screen and document |
| `Orders` | `sort_by` chains and string comparison | operators |
| `FoldsAndOrders` | | theorems about folds, sorting and flattening, for every step and order |
| `Readings` | `cheime-pipeline/src`: `segmentor.rs`, `segmentation.rs`, `normalizer.rs`, `build_normalizer` | from a code to the graph of its readings |
| `Segmentation`, `MCSegmentation` | `resolve_composition` up to the graph | the graph while a code is typed and picked from |
| `SegmentationProofs` | | theorems about graphs, paths and rests |
| `Lexicon` | `cheime-dictionary`: `index.rs`, `tiered.rs`; the queries of `event.rs`; the trait `Lexicon` | what a code looks up |
| `Decoder` | `decoder.rs`, `language_model.rs` | from a graph to candidates |
| `DoublePinyin` | `double_pinyin.rs` | the other segmentor, with mistouch and confusion |
| `Ranking` | `filter.rs`, `simplifier.rs`, `ranker.rs` | what becomes of the candidates |
| `Resolution`, `MCResolution` | `factory.rs`, `translator.rs`, `emoji.rs`, `lib.rs`, `learning.rs` | a schema with its stages, put together; typing, picking, committing, learning |
| `UserStore`, `MCUserStore` | `cheime-user-data/src/event.rs`, `cheime-pipeline/src/learning.rs` | the component and its instance |
| `UserStoreProofs` | | theorems about what is learned and what lasts |
| `Tidx` | `cheime-tidx/src`: `format.rs`, `reader.rs` | a `.tidx` file |
| `DictFormat` | `cheime-dictionary/src`: `body.rs`, `import.rs`, parts of `cache.rs`; the CLI's `load_dict_directory` | the text of a dictionary, fragments, imports |
| `DictCache`, `MCDictCache` | `cache.rs`, `deploy.rs`, `tests/tiered_integration.rs` | processes over one cache directory, and two tiers |
| `DictCacheProofs` | | theorems about fragments and skipped files |
| `ConfigDeploy`, `MCConfigDeploy` | `cheime-config/src/deploy.rs` | the component and its instance |
| `ConfigDeployProofs` | | theorems about `ConfigDeploy` |
| `ConfigLayers`, `MCConfigLayers` | `cheime-config/src`: `schema.rs`, `merge.rs`, `layered.rs`, `profile.rs`, `state.rs` | loading, merging, layers, and the files saved in place |
| `ConfigLayersProofs` | | theorems about the saved state, loading and layers |

Who uses whom: `Session` takes the operators of `Pipeline`; `OrderlyFrontend`
and `Cli` extend `Session`. `Decoder` is `Readings` with `Lexicon`, and
`Resolution` composes `Decoder`, `DoublePinyin` and `Ranking`. `DictCache`
composes `DictFormat` and `Tidx`.

A definition whose comment begins "Variant for mutation" is not part of any
specification: it is the definition that follows it (or one near it) with a
plausible mistake, and each property is known to fail when the variant takes
the place of the original. `PROJECT.json` pairs them under `mutants`.

### Session and Pipeline

The variables are the fields of `Session`, plus the flag of the punctuator
(`after_digit`), the last reply, and the history `learned`. An action is a whole
call of `handle`: header check, consumption of the sequence number, handler.
`Propose` is `new_action` with the messages that announce it; `Propose...`,
`Select...`, `Reopen...` are the methods of those names. Errors are replies that
leave the view alone, but not the sequence number: `handle` stores it first.

A code is a sequence of abstract characters, and what the resolution makes of a
code is the constant operator `Resolve`, of which only the type is assumed. The
session is therefore checked and proved against any `InputPipeline`, including
one that offers candidates with an empty or too long span; what the real one
offers is the subject of `Resolution`. The `code` of a candidate is the stretch of
input its canonical code stands for; `CodesSpell` says that this is the stretch
it consumes, which `MCSessionCompose` assumes of its pipeline and
`CandidatesAreReadings` checks of the real one. The key mapper is left out; `refresh` never fails, as in `ComposablePipeline`. Texts are kept as
sequences of parts, one per segment, since only their composition matters.
`u64` overflow of revision and action ids is out of reach of `MaxActions` steps.
The schema's `menu.page_size` is not read by the session: `PageSize` stands for
the constant 9.

The environment of `Session!Next` may send every message with every header at
any time, so loss, duplication and reordering are included. `OrderlyFrontend`
restricts it to what the CLI driver sends, except that answers come in any
order, late or never; it is used where longer compositions matter more than
arbitrary headers.

### Cli

`Cli` EXTENDS `Session` and adds the other half of the program: `screen` is
`AppState::snapshot`, `document` and `cursor` the editor, `sequence` the counter
of `event_loop`, and `queue` the local queue of `send_and_apply`, which a step
of the model can see between two of its iterations. `Press` reads one key and
routes it by the screen; `Show` and `Apply` are the two arms of the loop, and
`Apply` includes the call of `handle` with the acknowledgement and the end of
the loop on an error. `NoSnapshot` stands for `None`: the guards of `input.rs`
treat both alike. A text is one Unicode scalar, so the editor's byte offsets are
positions. Keys that are ignored, quitting, the status line, the log and drawing
are left out. Selections carry an epoch and a revision that the session ignores.

`RevisionGuardsView` is about the composition and the whole candidate list. Page,
highlight and the part of the list that is shown are not under it:
`MoveHighlight`, `NextPage` and `PreviousPage` publish snapshots that differ in
them under the same revision, so equal revisions do not mean equal snapshots.

### Readings and Segmentation

A graph is a function from edges to costs, which is what `finish` leaves of the
lists once duplicates are gone; the order of a list, where it decides (ties of
`primary_path`, the order in which normalizers add edges), is recovered with
`EdgeKey`. Letters are numbers so that they have an order; a multi-byte
character is one character. The raw text of an edge is always the input under
its span and is not stored. The syllable table and the rules are constants.
Penalties are small numbers in the proportions of the code's. In `Segmentation`
a state is a code with its graph, and the actions are the two ways the program
comes to a code, a key and the refresh after a selection; `options` is fixed at
the start: correction and fuzzy rules are each on or off.

The rules of finals (`ang`, `ing`) can be put into `Rules`, and have no effect on
a syllable with an initial, in the model as in the code: `apply_rule` strips a
prefix, although `docs/pipeline.md` shows `fang` with the variant `fan`.

### Resolution

`schema` is the engine section a pipeline was built from: which segmentor, its
options and models, translators, filters, and whether there are a dictionary, a
user store and a language model. `Builds`, `Translators` and `Filter` are the
decisions of the factory; `Resolution(schema, w, words)` is the whole of
`resolve_composition`. `words` is the part of the user store the decoder looks
in, and `Commit` adds to it what the session and the learning service make of a
commit that is applied: a phrase the decoder knew is learned at once, a new one
is staged and may be taken back. `confirmed` is what the session keeps of the
selections, joined. `from`, `typed` and `begun` are history.

The decoder is modelled to its last sort key: the search for sequences with its
limits, lookups exact and by prefix, the beam with its keys in the code's order,
the collection of candidates, and the score. What is abstract are the numbers
(far from the saturation of `i64`), the text of sources, and candidate ids.
Where the code's own order is that of a hash map (equal ranked user words), the
model has one of the orders.

### UserStore

The store is behind a mutex: an action is a call. A word stands for a schema, a
text and its code. Event ids are a device and a number, and are compared as the
decimal texts SQLite compares. Each write has an outcome, because `apply`
ignores errors: stored, first row only, lost. `Restart` opens the database in a
new process, with the id counter back at 1; `CrashInWrite` is a restart between
the two statements of `persist_event`. `given`, `rolled_back`, `clean` and the
`origins` of an event are history; `given` is emptied by a restart, since the
sessions of a new process count their actions from 1 again (the CLI's `main.rs`
fixes session 1 and epoch 1), and an origin names the process with the token. Queries change nothing; `Lexicon` has those
of the decoder.

### DictCache

The directory has no lock, so `load_or_build` is one action per file-system call
that another process can come between: `Probe` (is there a fragment?),
`OpenFragment`, `CreateFragment` (which empties the file), `FillFragment`;
`Finish` stitches and is local. The content of a file stands for its hash. Each
of the calls may fail (`CallFails`: no such directory, a full disk), which the
loop turns into a warning and a skipped file, and `Crash` kills a process at any
of them; both leave what was written so far. A file behaves as on POSIX: a
process that has it open fills it even after another has emptied it (then `link`
is "cut", and the result may be torn or whole) or removed it ("none", out of
sight). `Invalidate` removes some of the fragments, any of them because
`remove_dir_all` goes file by file and may fail; one that others interleave with
is two of it. `dropped` (fragments given up half written) and `began` (processes
that have loaded) are history.

The two tiers are built as `tests/tiered_integration.rs` does, the only caller in
the repository: `LoadAllEntries` and `GroupEntries` are its functions, which
unlike `MemoryIndex` keep a text as often as it is there. A process does this in
a directory of its own or loads through the cache, never both. `CreateTidx` and
`WriteTidx` are the writing of the file in place, which has its sections and a
shorter length until it is written to its end; that is what `TidexReader::open`
looks at. A process that was killed may start again and open what it finds, over
whatever lines the files have by then. Weights may be negative and fit the 32
bits of the file.

`Import` is `resolve_imports`, pure, asked once before anything else so that it
multiplies nothing.

### ConfigDeploy

`deploy` is one action per file-system call, and each may fail (`IoError`) or be
the last thing a process does (`Crash`). `fs::write` truncates before it writes;
a truncated file does not parse. A directory name is the second and the content;
collisions of the 8-digit hash are left out, and so are power failures (the code
never calls fsync, so after one nothing could be promised).

`RepeatInSecond` and the set `Deployer` say what is assumed of the callers. With
`RepeatInSecond = TRUE` TLC finds that deploying the active configuration again
within its second writes into the live directory, so that a failing write leaves
`current()` without a schema; with two deployers, that one renames the
`current.tmp` another has just emptied. Nothing in the repository deploys from
two places or in a loop, so the run and the proofs take one deployer and no
repeat, and say so.

### ConfigLayers

A YAML document is a function from the fields it gives to their values, and a
configuration has every field; the speller is a record of fields of its own, or
`NoSpeller`. `Load` is `load_file` with the parents; `Deploy`
writes the result and reads it again; `Resolve` is `LayeredConfig::resolve`,
after which the engine takes the state it has read for its own. State and
profile are saved in place, in two steps, with crashes and readers in between;
a profile that is cut off after its first lines is a profile too
(`PartOfProfile`), whereas JSON that is cut off is not JSON.

`LayersStack` states the rules of `merge_configs` itself: that merging two at a
time comes to what all layers say, whatever the order. Some of these rules the
documents contradict, and `LayersAsDocumented` states the documents' instead, as
an overlay of documents (`Overlay`) over parents that are whole files themselves
(`Whole`); its run shows where the code departs from them. Where the documents
give only what both rules treat alike, the two agree.

## 3. Runs

| run | bounds | states | shows |
|---|---|---|---|
| `MCSession` | 1 letter and 1 foreign character, inputs up to 3, pages of 2, 3 sequence numbers, 4 actions, 2 epochs, 2 sessions | | types, highlight, revision discipline, refinement of `CommitLedger`, against every header |
| `MCSessionCompose` | 1 letter, 1 digit, '.', a list mark, inputs up to 3, pages of 1, 7 commands, 7 actions | | segments tile, selections stay, learned code covers the input, the list matches the undecided input |
| `MCCli` | 1 letter, 1 refused letter, 1 digit key, pages of 1, inputs up to 3, 7 commands, 7 actions, documents up to 2 | 68 thousand | screen, document and session agree; no input vanishes; every action is answered |
| `MCSegmentation` | letters a, h, z, the separator and a foreign character, 4 syllables, codes up to 4, corrections at distance 1, at most 3 per offset | 3124 | the primary path is the best of all; the gate of abbreviations is exact; corrections are edits; the rest of a code is read alike |
| `MCResolution` | 6 schemas, 2 letters and the separator on the keyboard, codes up to 3, a dictionary of 10 lines, emoji and conversion tables, 1 learned word | 4058 | candidates are readings, entries are offered, codes can be committed, learned words come back and keep their place |
| `MCUserStore` | 1 word, 1 session, ids in base 3, 3 events, 2 restarts, 1 legacy call, writes that are stored or half stored | 5.1 million | rollback, single learning, durable flags |
| `MCDictCache` | 2 processes (symmetric), 2 source files, 3 contents, 3 tables for imports, 3 events of the kinds `DictCache!Spend` counts (loads, edits, invalidations, kills, .tidx files, failing calls) | 108 thousand | stitched index, causes of skipped files, tiers, imports |
| `MCConfigDeploy` | 1 deployer, 1 reader, 4 configurations, 3 deployments, 2 seconds | 34 thousand | whole configurations for every reader; the active one changes exactly with a success |
| `MCConfigLayers` | 3 schema files of 3 documents each, 4 profiles, 1 switch, 3 saves, edits and crashes | 544 thousand | layers stack; what is restored was saved |

Why these bounds are enough. Three characters allow two selections with a rest,
a reopening and an edit; in pages of two a list of three has a short last page,
and three sequence numbers distinguish old, current and new. A candidate with
span 0 and prefixes of different lengths are in the lexicon of the session. Seven
commands let the command line select, reopen, commit and compose again; erasing
the rest behind a chosen prefix leaves a composition without candidates, where a
digit key goes to the session; the refused letter gives an error, and pages of
one a second page.

Four characters hold two syllables with a separator or the longest syllable with
a rest, a prefix of a syllable that ends nowhere, and every kind of edit; three
corrections per offset are fewer than some offsets have. In `MCResolution` three
characters of real syllables (a, an, na, nan, la, lan) hold phrases of two
syllables, ambiguous ones (nan, na+n), a separator in every place, abbreviations
and double-pinyin pairs with a rest; the dictionary has a text in two codes, two
texts in one code, two words with one text together with a phrase of it, and a
line without a weight. `BeamWidth` is the code's 32, and the
properties about completeness speak of the offsets whose paths fit it.

Ids are written in base 3 so that two digits, where the order of the texts differs
from that of the numbers, are reached. Two restarts let a word learned in one process meet the ids of the next and be
read by a third; one word is enough because words do not interact. Two
processes, each of which may load, edit, invalidate, deploy, fail and be killed,
are the fewest that can tear a fragment for one another. Three of the counted
events hold two loads with a kill, a failure or an invalidation between or in
them, and a .tidx file that is begun, killed in the middle and opened by the
process that starts again, with an edit in between. One code that is a prefix of
another, one text twice, a line without a weight, a zero next to an unreadable
weight for one text, and a negative weight are in the contents. A
deployment chain of three contains a first one, a switch and a failure after it.
Three schema files give a child, a parent and a second one, parents named twice,
missing, not parsing, and in a circle; three changes give a save, a crash in it
and a repair.

Three runs are expected to find a violation of something the repository says of
itself; `findings` in `PROJECT.json` quotes each line.

| run | what the code does |
|---|---|
| `SegmentationCost` | `ah`: the abbreviation expansion `a` makes the exact edge `a` cost a penalty |
| `UserStoreRestartKeepsFrequency` | learn, restart, learn, restart: ids restart at 1, and the second event replaces the first (ids in base 10 and two events, so that the order of ids as texts plays no part) |
| `ConfigLayersDocumented` | a schema that extends a base with a parent, deployed, with a profile that sets one field: `engine.input` and `alternative_select_keys` stay the base's, the base's parent is not looked at, and `resolve` drops the profile's punctuator and puts the page size back to 9 |

### What else was met while modelling

Behaviour the models have because the code has it, which a reader of the code may
not expect. None of these has a run of its own.

* Session: Space commits the raw input even with candidates on the screen
  (`docs/getting-started.md:67` says it commits the candidate). An action result
  sets `last_sequence` whatever its number, so a late one lowers it and a
  consumed key command would be taken again
  (`docs/superpowers/specs/2026-07-18-cheime-engine-host-protocol.md:220` says
  old messages are dropped).
* User store: the log is replayed in the order of the ids as texts, `10` before `2`
  and one device's events before the other's; with ids in base 3 `RestartKeepsFrequency`
  fails for that reason too. A deleted word that is learned again is deleted again by the next
  start. An emoji picked behind a picked word with a separator in between is
  learned under a code with a separator, which is never found. `UserLexicon`
  looks at neither the blocked words nor the schema of a word.
* Readings: a custom double-pinyin scheme that lacks a key leaves offsets without
  edges. A mistouch or confusion variant that is also the exact reading makes
  its edge dear, as abbreviations do in `SegmentationCost`, though the comment at
  `double_pinyin.rs:554` says exact edges stay zero-cost.
* Decoder: the beam compares completion and number of syllables before the score,
  so where more than 32 paths end at an offset a single word of more syllables
  is lost. `dedup_by` does not look at `completion`, so choosing a candidate for
  an abbreviated code can move it down the list. A code that ends with a
  separator has no complete candidate.
* Ranking: with two candidates an emoji can come first; `DedupFilter` may put an
  incomplete candidate of a higher score in the place of a complete one.
* Dictionary cache: a fragment torn by a kill or a failed write stays under its
  content hash and fails every later load of the file until the dictionary is invalidated; its
  path does not depend on the columns asked for; a process that opens a fragment
  another is filling skips the file with a warning. A file whose first line is
  `---` is skipped by the cache and loaded by the CLI. `TieredIndex::new` does
  not check that the `.tidx` file belongs to its entries. The memory index sorts a
  missing weight as 0 and shows it as 1.
* Configuration: the parents of a parent are not looked at, so circles through
  them are not noticed (`docs/config.md:92`), while a parent named twice is called
  circular. Merging drops the child's `fuzzy_pinyin`, `pinyin_correction` and
  punctuator along with what `ConfigLayersDocumented` shows. `resolve` does not
  validate. A profile that was cut off may parse as a smaller one.

### Fairness and deadlock

`CliSpec` alone assumes fairness, `WF_cliVars(Drain)`: `send_and_apply` is a
loop that ends when the queue is empty, in one thread, and nothing in it blocks.
Nothing is assumed of the person at the keyboard. On it rests
`EveryActionSettles`. `confirm_expired` has no caller in the program, so no
fairness could be claimed for it; the loads and deployments are calls that
return an error rather than wait. Everything else checked is safety. Deadlock is
checked in `MCSession` and `MCSegmentation`; the other runs stop where their
bounds end.

## 4. Proofs

`SessionProofs` proves, for every alphabet, pipeline, page size and bound
(assumptions `AlphabetAssumption`, `ResolveAssumption` and `SessionAssumption`):

| theorem | says |
|---|---|
| `TypeCorrect` | `Spec => []TypeOK` |
| `SegmentsTile` | `Spec => []SpansTile` |
| `RevisionGuards` | `Spec => RevisionGuardsView` |
| `SelectionsStay` | `Spec => SelectionsKept` |
| `CandidatesMatch` | `Spec => []CandidatesMatchActive` |
| `HighlightVisible` | `Spec => []HighlightIsVisible` |
| `ImplementsLedger` | `Spec => LedgerSpec`, the refinement |
| `LearnedAtMostOnce` | `Spec => []LearnedOnce`, from the refinement and `LedgerLearnsOnce` |
| `RecordCovers` | `CodesSpell` implies `Spec => RecordCoversInput` |

The inductive invariant is `IInv == TypeOK /\ SpansTile`. Neither half is
inductive alone: that the undecided input is a code (so that the pipeline
answers with a list of candidates) needs `active_start <= Len(raw)`, and the
tiling needs the types of the segments. Each step is classified once by lemmas
that say what it does to one part of the state (`ViewSteps`, `ActionSteps`,
`PageSteps`, `EditSteps`, `PrefixSteps`, `ReopenSteps`), and every theorem is
proved from the classification that concerns it. `CandidatesMatchActive` and
`HighlightIsVisible` add one conjunct each. The ledger is proved with
`LedgerInv`: what teaches is open, what is open was issued. `RecordCovers` is the
only one that asks anything of the pipeline's answers: without `CodesSpell` there
is nothing a code could be compared with. It adds `SegmentsSpell`, that a chosen
segment has the code of its span, and joins the spans, which tile, by induction.

`CliProofs` proves, for every pipeline and every sequence of keys:

| theorem | says |
|---|---|
| `CliInvariance` | `CliSpec => []CliInv` |
| `CliImplementsSession` | `CliSpec => Spec`: every theorem above holds of the program the CLI runs |
| `FrontendTyped` | `CliSpec => []CliTypeOK` |
| `ScreenStaysCurrent` | `CliSpec => []ScreenIsCurrent` |
| `InputStays` | `CliSpec => NoInputVanishes` |

`CliInv` is `IInv` with the editor's types (`EditorOK`) and what can be in the
driver's queue (`DriverOK`). The queue only ever has one of a few shapes: empty,
one snapshot, the two that end an answered action, or a proposal (cancelling,
committing or updating) with the snapshot behind it; and an action in it carries
a number the session has given out and not had answered. That is what makes the
screen current whenever a key is read: the last thing shown is always the last
view, and an action in between changes only the document.

`FoldsAndOrders` is what the next three rest on. `FoldLeft` is recursive, and the
library's induction theorems take a predicate, which the provers cannot be given.
So induction is over sets of numbers (`SetInduction`), which a proof can define,
and a fold is turned into the function of its intermediate results
(`FoldIsTrace`). From these follow `FoldStays`, `FoldAppend`, `FlattenMembers`
`FlattenAppend` and `ConcatParts`; `InOrderEnumerates`, that the model's sort lists
every element of a finite set once and in order; `RankedRecursionExists`, that a
recursion that goes down in a rank has a solution, and `NestedRecursionExists`
for one that goes down in the first of two ranks or, where that stays, in the
second. A function defined by recursion is a `CHOOSE` in TLA+, so without these
nothing at all follows about one. The module has an operator for the step and one
for the order as constants and is instantiated for each use.

`UserStoreProofs` proves `TypeCorrect`, `CancelledIsNotLearned`
(`[]RolledBackNeverLearned`), `LearnedOnce` (`[]LearnedOncePerCommit`) and
`FlagsSurviveRestart` (`[]FlagsDurable`), for every set of words and sessions,
every delay and base, every set of write outcomes, and any number of restarts.
The invariant `Inv` needs more than the four:

* `HistoryInv`: the origin of anything logged, rolled back or pending was given
  out before, and nothing pending was rolled back. Without it a new commit could
  have the number of an old one.
* `OneRowPerCommit`: the database too has at most one row per commit. Ids restart
  at 1 with the process, so a row may be replaced; that this loses an event
  (a finding above) but never doubles one is what has to be shown.
* `FlagsInv`: while every write has succeeded, each flag that a stored event asks
  for is in its table (`RowsBacked`), whichever order the events are replayed in.
  Replay is a fold in the order of the ids as texts; `Replays` and `Writes` are the
  two instances of `FoldsAndOrders`.

`SegmentationProofs` proves, for every alphabet, syllable table and set of fuzzy
rules, every limit and penalty, and codes of any length:

| theorem | says |
|---|---|
| `Invariance`, `TypeCorrect` | every graph fits its input, is finite, has costs that are numbers, and covers the input |
| `PrimaryIsBest` | `Spec => []PrimaryPathIsBest` |
| `CompletePathIsExact` | `Spec => []CompletePathExists` |
| `RestIsReadAlike` | `Spec => []RestReadsAlike` |
| `CorrectionsAreOneEdit` | `Spec => []CorrectionsAreEdits` |

The invariant says of the graph that it is well formed (`WellFormed`: no edge is
empty or leaves the input) and that an edge starts at every offset before the
end of the input (`Covers`), so some path is whole. `PrimaryIsBest` goes over
the offsets in their order: what the code keeps for an offset is no worse than
any path to it (`StepIsBest`), where comparing is a strict order of keys
(`RankOrder`). `CompletePathIsExact` relates reachability, which the code
computes, to paths. `RestIsReadAlike` shows that moving a rest to the start of
the input maps the edges behind the cut onto those of the rest: the delicate part
is the limit on corrections, which is kept because the edges that count against it
("fewer than `MaxCorrections` nearer ones") are mapped one to one.
`CorrectionsAreOneEdit` is about the code's table of distances, which is a
recursion over the places of two words at once. The table exists by a rank on the
pairs of places, and what its entries say of beginnings of the two words (one is
at distance zero exactly if they are equal, at one exactly if a letter put in,
left out, replaced or two neighbours swapped make them so) goes along the rows.

`DictCacheProofs` proves, for any number of processes, files, contents, loads,
edits, invalidations, failing calls and kills:

| theorem | says |
|---|---|
| `TypeCorrect` | `Spec => []TypeOK`: whoever wrote it, a whole fragment is what its own source compiles to, and an index is stitched from the fragments of the contents it names |
| `SkipsExplained` | `Spec => []SkipsHaveCause` |
| `StitchedIndexIsBuilt` | `Spec => []StitchedIsBuilt`: the index joined from fragments is the one built of all lines in one pass |
| `ImportsAreInOrder` | `Spec => []ImportsInOrder` |

`CauseInv` adds to the types what a process can rely on that no other load, no
edit and no invalidation disturbs. `TornIsOwned`: each torn fragment was given up
(`dropped`) or the process that emptied it last still has it open; `DroppedIsTorn`:
what was given up stays torn until it is emptied or removed; `FilesThere`: nothing
is missing before the first edit; `BegunFirst`: who has not begun to load has
nothing of a load. `LoneLoads` then says that such a process finds the fragment it
looked at as it was, torn only if it was given up, and has skipped only what it
had cause to, in the load it is in and in the last one. The step that makes it
inductive is `UndisturbedBefore`: a process undisturbed after a step was so
before, and the step was its own or changed neither fragments nor its load.
The assumption `FragmentAssumption` says that a compiled fragment is neither of
the marks for a missing or torn file; `CacheAssumption` says that a content is a
list of lines of fields of characters, that there are finitely many files and
tables, at least one table, and that a table imports a list of tables.

`StitchedIndexIsBuilt` compares two orders of doing the same: the cache sorts the
lines of each file by weight, keeps them by code, joins the files' groups, sorts
again and only then drops duplicates; `MemoryIndex::build` takes the lines as they
are. The second keeps for a text the first of its heaviest lines, the first of
equal ones wherever a stable sort has put it, so both need one notion of what a
list of lines keeps. It is `Kept(q, at, k)`: `k` gives each text at the places
`at` of `q` the weight of the first of its heaviest lines there. There is at most
one such `k` (`KeptUnique`); a list with the same lines in another order, equally
heavy ones in the old one, has the same (`KeptMoves`, for which the stable sort
and the filter by code are written as reindexings, `SortGroupReindexes` and
`ChosenReindexes`); two lists joined have the joint one (`KeptJoins`); and the
fold that drops duplicates computes it (`FoldKept`). Induction over the files
(`AllAgree`) gives both ways the same `k`, and `SameNormalized` the same group.

`ImportsAreInOrder` is about a search that calls itself: for each table of a list,
with the tables in progress and what was found so far. It ends because a call has
fewer tables that are not in progress, or the rest of a list
(`NestedRecursionExists`). What a call may be asked (`Allowed`) says that each
table in progress reaches those of the list through one of its imports, so that
meeting one again is a cycle; what it answers (`Answered`) is either an error with
a cause or the tables of the list, and everything done in order (`Ordered`). The
induction is `VisitAnswers`. That no error means no cycle is shown last, from the
order alone: the entries up to an import are closed under imports, and so hold
everything it reaches, but not the table behind it (`OrderedResult`).

`ConfigDeployProofs` proves, for any number of readers, configurations, seconds
and deployments, and with errors and crashes at every call, `DeployTypes`,
`ActiveIsValid` (`[]CurrentLoads`), `ReadersGetWhole` (`[]ReadersSeeWhole`) and
`SwitchIsSuccess` (`SwitchedOnSuccess`). They are proved under `OneAtATime`: one
deployer, and no configuration twice in one second. The code relies on both and
enforces neither; without either, TLC shows the properties to fail (see
ConfigDeploy above). The argument is that a deployment writes only into a
directory that is not whole yet, and that pointers name whole directories:
`Progress` says how far the directory of a deployment has come at each call, and
`PointersWhole` covers the pointers that readers still hold.

`ConfigLayersProofs` proves, for any documents, parents, profiles, switches and
any number of saves and crashes:

| theorem | says |
|---|---|
| `RestoresSaved` | `Spec => []RestoredIsSaved` |
| `ConfigTypes` | `Spec => []TypeOK` |
| `LayersAreStacked` | `Spec => []LayersStack` |
| `MergeIsAssociative` | merging from above and from below is the same |

`RestoresSaved` has its own invariant: the file of the state is missing only while
nothing was saved, and where it holds a state it holds the one whose save was
last completed, since a save that begins leaves no state. It rests on
`StatesAssumption`: no state is one of the marks for a missing or torn file. For the layers,
`Layering` adds to the property that what is deployed was loaded, which needs
that a configuration is the same after being written and read
(`SurvivesWriting`). A load folds over the parents, and the induction (`Loading`)
puts the parents met so far under the child, one at a time, by associativity.

What is checked by TLC and not proved:

* `EveryActionSettles`, which is liveness under fairness.
* All of `Resolution`. Its decoder is a `RECURSIVE` operator (`Explore`), which
  the prover cannot be given, and four of its six properties compare what a
  bounded search offers with what there is to be found.
* `TiersAnswerAlike` of `DictCache`: that a fragment of the index with the
  heaviest entries of each code, backed by a binary search in a file, answers a
  query for a prefix as the full index does. It compares the first entries of
  lists merged and cut in two different orders.

## 5. Not modelled

* The key mapper, a table from keys to keys that the factory never installs; the
  list of built-in words; the evaluation harness.
* `cheime-wire`: the encoding of one message and of a length prefix. Nothing in
  the repository reads a stream of frames, and the handshake is types only.
* `cheime-lua` and `cheime-extension`: a binding and a registry nothing in the
  engine calls yet. `cheime-diagnostics`: reports made of values it is given.
* `header.rs`: YAML of a dictionary's header. The command line's arguments and
  one-shot commands, the terminal and its drawing.
* Of modelled parts: `normalize_all` and `translate` on segments, which tests
  call and `resolve_composition` does not; the parsing of emoji and conversion
  tables; inline parents of a schema; `SetAppPreference`, which is neither stored
  nor cached; `list_deployments`; the saturation of 64-bit scores and the u32 and
  u16 widths of `.tidx`, which no input of the program's size reaches.

`PROJECT.json` has the reason for each component, and for each hazard that no
property covers.

## 6. Plan

Done: `Pipeline`, `Session`, `CommitLedger`, `Cli` and the proofs that the
command line is a session and the session a ledger; the resolution from key to
candidate list with learning; the user store; dictionaries, their cache and the
`.tidx` file; deployment and layers of the configuration with their proofs.

What is left, in this order:

1. `ImeSystem`: `Session` with a frontend in another process, which keeps its own
   screen, with queues in both directions (`docs/superpowers/specs`), for late
   selections and double commits, and "every proposed action is settled, and then
   both sides show the same" under weak fairness of delivery and answers. The
   repository has no such frontend yet.
2. An abstract pointer switch that both `ConfigDeploy` and the deployed index of
   `DictCache` implement.
3. Proofs: the decoder as a recursive function, then `CandidatesAreReadings` by
   induction over a path; `TiersAnswerAlike`.
