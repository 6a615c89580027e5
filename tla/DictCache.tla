------------------------------ MODULE DictCache ------------------------------
(***************************************************************************)
(* The dictionary build cache (cheime-dictionary/src/cache.rs): processes  *)
(* that share one cache directory load the fragments of the source files,  *)
(* or build and save them, and stitch them into an index; each may deploy  *)
(* its index (deploy.rs).  Other processes put the same dictionaries in    *)
(* two tiers over a .tidx file, as tests/tiered_integration.rs does.       *)
(*                                                                         *)
(* The directory has no lock: between finding a fragment and opening it,   *)
(* or between creating and filling it, another process may save the same   *)
(* fragment or invalidate the dictionary, the file system may fail and a   *)
(* process may be killed.  The hash of a file stands for its content.  A   *)
(* process asks for the same columns each time: the path of a fragment     *)
(* does not depend on them.                                                *)
(***************************************************************************)
EXTENDS DictFormat, Tidx

CONSTANTS
  Processes,
  Names,            \* the source files
  Contents,         \* what they may hold
  Columns,          \* the columns the callers ask for
  HotEntriesPerCode,
  Tables,           \* the tables that may import one another
  ImportLists,      \* what a table may import
  Missing, Torn, Nothing,
  MaxEvents         \* bound: the events that Spend counts

ASSUME CacheAssumption ==
  /\ Contents \subseteq Seq(Seq(Seq(Int)))
  /\ Missing \notin Contents /\ Nothing \notin Contents /\ Missing # Torn
  /\ Nothing \notin Processes
  /\ IsFiniteSet(Names)
  /\ HotEntriesPerCode \in Nat \ {0}
  /\ IsFiniteSet(Tables) /\ Tables # {} /\ ImportLists \subseteq Seq(Tables)

VARIABLES
  files,      \* the content of each source file
  fragments,  \* what the cache directory holds for each content
  loads,      \* the load_or_build in progress in each process
  made,       \* the last index of each process that made one, and its contents
  current,    \* its deployed index
  tidx,       \* the .tidx file of each process, and the entries it is written from
  tiered,     \* the lines a process has read for its two tiers, then their index
  imports,    \* the last resolve_imports
  spent,      \* the bounded events so far
  dropped,    \* history: fragments given up, by a failure or a kill, when last emptied
  began       \* history: the processes that have begun to load

vars == <<files, fragments, loads, made, current, tidx, tiered, imports, spent,
          dropped, began>>

cache    == <<files, fragments, loads, made, current, dropped, began>>
tierVars == <<tidx, tiered>>

\* While a process fills a fragment, link says whether the file is as it made it,
\* was emptied by another process since (cut) or is no file of the cache (none).
Idle == [at |-> "idle", todo |-> <<>>, content |-> Nothing, link |-> "none",
         done |-> <<>>, skipped |-> <<>>]

\* The entries of one file as the cache reads it, and their fragment.
Body(content) == ParseBody(ExtractBody(content), Columns)

Fragment(content) == CompileFragment(Body(content).entries, content)

ASSUME FragmentAssumption == \A c \in Contents : Fragment(c) \notin {Missing, Torn}

Init ==
  /\ files \in [Names -> Contents]
  /\ fragments = [c \in Contents |-> Missing]
  /\ loads = [p \in Processes |-> Idle]
  /\ made = [p \in {} |-> Nothing]
  /\ current = [p \in Processes |-> Nothing]
  /\ tidx = [p \in Processes |-> Nothing]
  /\ tiered = [p \in Processes |-> Nothing]
  /\ imports = Nothing
  /\ spent = [load |-> 0, edit |-> 0, invalidate |-> 0, crash |-> 0, file |-> 0,
              error |-> 0]
  /\ dropped = {} /\ began = {}

Spend(event) ==
  /\ spent.load + spent.edit + spent.invalidate + spent.crash + spent.file
       + spent.error < MaxEvents
  /\ spent' = [spent EXCEPT ![event] = @ + 1]

-----------------------------------------------------------------------------
(***************************************************************************)
(* load_or_build.                                                          *)
(***************************************************************************)
\* The caller asks for some files; no file at all is an error.  No program builds
\* two tiers of its own and loads through the cache.
Begin(p, names) ==
  /\ loads[p].at = "idle" /\ tidx[p] = Nothing
  /\ names # <<>>
  /\ Spend("load")
  /\ loads' = [loads EXCEPT ![p] = [Idle EXCEPT !.at = "probe", !.todo = names]]
  /\ began' = began \union {p}
  /\ UNCHANGED <<files, fragments, made, current, dropped, tierVars, imports>>

Skipped(load, error) ==
  [load EXCEPT !.at = "probe", !.todo = Tail(@), !.content = Nothing, !.link = "none",
               !.skipped = Append(@, [name |-> Head(load.todo), error |-> error])]

WithFragment(load, fragment) ==
  [load EXCEPT !.at = "probe", !.todo = Tail(@), !.content = Nothing,
               !.link = "none", !.done = Append(@, fragment)]

\* The next file: read it and look for its fragment; parse it if there is none.
Probe(p) ==
  LET load    == loads[p]
      content == files[Head(load.todo)]
  IN  /\ load.at = "probe" /\ load.todo # <<>>
      /\ loads' = [loads EXCEPT ![p] =
           CASE content = Missing -> Skipped(load, "read")
             [] content # Missing /\ fragments[content] # Missing ->
                  [load EXCEPT !.at = "open", !.content = content]
             [] content # Missing /\ fragments[content] = Missing ->
                  IF Body(content).ok
                  THEN [load EXCEPT !.at = "save", !.content = content]
                  ELSE Skipped(load, "parse")]
      /\ UNCHANGED <<files, fragments, made, current, dropped, began, tierVars,
                     imports, spent>>

\* load_fragment: gone since, torn, or read.
OpenFragment(p) ==
  LET load     == loads[p]
      fragment == fragments[load.content]
  IN  /\ load.at = "open"
      /\ loads' = [loads EXCEPT ![p] =
           CASE fragment = Missing -> Skipped(load, "open")
             [] fragment = Torn    -> Skipped(load, "deserialize")
             [] OTHER              -> WithFragment(load, fragment)]
      /\ UNCHANGED <<files, fragments, made, current, dropped, began, tierVars,
                     imports, spent>>

Filling(p, content) ==
  loads[p].at = "fill" /\ loads[p].link # "none" /\ loads[p].content = content

\* save_fragment: the file is created, or emptied if another process made it.
CreateFragment(p) ==
  LET content == loads[p].content
  IN  /\ loads[p].at = "save"
      /\ fragments' = [fragments EXCEPT ![content] = Torn]
      /\ dropped' = dropped \ {content}
      /\ loads' = [q \in Processes |->
           IF q = p THEN [loads[q] EXCEPT !.at = "fill", !.link = "own"]
           ELSE IF Filling(q, content) THEN [loads[q] EXCEPT !.link = "cut"]
           ELSE loads[q]]
      /\ UNCHANGED <<files, made, current, began, tierVars, imports, spent>>

\* It is filled.  If another process emptied it meanwhile it may still be torn, by
\* what was written before; a file that was removed is filled out of sight.
FillFragment(p) ==
  LET load     == loads[p]
      fragment == Fragment(load.content)
  IN  /\ load.at = "fill"
      /\ \/ /\ load.link # "none"
            /\ fragments' = [fragments EXCEPT ![load.content] = fragment]
            /\ dropped' = dropped \ {load.content}
         \/ /\ load.link # "own"
            /\ UNCHANGED <<fragments, dropped>>
      /\ loads' = [loads EXCEPT ![p] = WithFragment(load, fragment)]
      /\ UNCHANGED <<files, made, current, began, tierVars, imports, spent>>

\* A fragment that is torn when the process that emptied it last gives it up.
GivenUp(p) ==
  {c \in Contents : Filling(p, c) /\ loads[p].link = "own" /\ fragments[c] = Torn}

\* The call that the load has come to fails: to read a file, to open a fragment,
\* to create its directory or file, or, after a part of it, to write it.
CallFails(p) ==
  LET load == loads[p]
  IN  /\ load.at # "idle" /\ load.todo # <<>>
      /\ Spend("error")
      /\ loads' = [loads EXCEPT ![p] =
           Skipped(load, CASE load.at = "probe" -> "read"
                           [] load.at = "open"  -> "open"
                           [] load.at = "save"  -> "create"
                           [] load.at = "fill"  -> "write")]
      /\ dropped' = dropped \union GivenUp(p)
      /\ UNCHANGED <<files, fragments, made, current, began, tierVars, imports>>

\* Every file is done: the fragments are stitched.
Finish(p) ==
  LET load  == loads[p]
      built == [contents |-> [i \in DOMAIN load.done |-> load.done[i].source_hash],
                skipped |-> load.skipped, index |-> Stitch(load.done)]
  IN  /\ load.at = "probe" /\ load.todo = <<>>
      /\ made' = [q \in DOMAIN made \union {p} |-> IF q = p THEN built ELSE made[q]]
      /\ loads' = [loads EXCEPT ![p] = Idle]
      /\ UNCHANGED <<files, fragments, current, dropped, began, tierVars, imports, spent>>

\* Variant for mutation: the files are emptied instead of removed.
InvalidateEmpties(p, gone) ==
  /\ loads[p].at = "idle"
  /\ gone # {} /\ \A c \in gone : fragments[c] # Missing
  /\ Spend("invalidate")
  /\ fragments' = [c \in Contents |-> IF c \in gone THEN Torn ELSE fragments[c]]
  /\ dropped' = dropped \ gone
  /\ loads' = [q \in Processes |-> IF \E c \in gone : Filling(q, c)
                                   THEN [loads[q] EXCEPT !.link = "cut"] ELSE loads[q]]
  /\ UNCHANGED <<files, made, current, began, tierVars, imports>>

\* invalidate removes the files of the directory one at a time and may fail after
\* some of them: what other processes do between two files is two invalidations.
Invalidate(p, gone) ==
  /\ loads[p].at = "idle"
  /\ gone # {} /\ \A c \in gone : fragments[c] # Missing
  /\ Spend("invalidate")
  /\ fragments' = [c \in Contents |-> IF c \in gone THEN Missing ELSE fragments[c]]
  /\ dropped' = dropped \ gone
  /\ loads' = [q \in Processes |-> IF \E c \in gone : Filling(q, c)
                                   THEN [loads[q] EXCEPT !.link = "none"] ELSE loads[q]]
  /\ UNCHANGED <<files, made, current, began, tierVars, imports>>

\* Variant for mutation: an index without entries is deployed.
DeployAny(p) ==
  /\ loads[p].at = "idle" /\ p \in DOMAIN made
  /\ current' = [current EXCEPT ![p] = made[p].index]
  /\ UNCHANGED <<files, fragments, loads, made, dropped, began, tierVars, imports, spent>>

\* DeploymentManager::deploy: an index without entries leaves the current one.
Deploy(p) ==
  /\ loads[p].at = "idle" /\ p \in DOMAIN made
  /\ made[p].index.total # 0
  /\ current' = [current EXCEPT ![p] = made[p].index]
  /\ UNCHANGED <<files, fragments, loads, made, dropped, began, tierVars, imports, spent>>

-----------------------------------------------------------------------------
(***************************************************************************)
(* Two tiers.  Each process has a .tidx file of its own (a TempDir); one   *)
(* that was killed may find it again.                                      *)
(***************************************************************************)
\* load_all_entries: a file that is not there stops the program, one that does not
\* parse is passed over.
LoadAllEntries(contents) ==
  LET names == SetToSeq(Names)
  IN  FlattenSeq([i \in DOMAIN names |-> Body(contents[names[i]]).entries])

\* group_entries: the lines of each code, the heaviest first, a text as often as it
\* is there.  The weights fit the 32 bits they are cut to.
GroupEntries(lines) ==
  LET group(code) == Selected(lines, LAMBDA e : e.code = code)
      pairs(code) == [i \in DOMAIN group(code) |->
                        [text |-> group(code)[i].text,
                         weight |-> UnwrapOr(group(code)[i].weight, 1)]]
  IN  SortedBy({[code |-> code, entries |-> Sorted(pairs(code), LAMBDA e : <<-e.weight>>)] :
                  code \in {lines[i].code : i \in DOMAIN lines}}, LAMBDA e : e.code)

\* The lines are read and grouped, and write_tidex creates the file.
CreateTidx(p) ==
  /\ p \notin began /\ tiered[p] = Nothing
  /\ \A name \in Names : files[name] # Missing
  /\ Spend("file")
  /\ LET lines   == LoadAllEntries(files)
         entries == GroupEntries(lines)
     IN  /\ lines # <<>>
         /\ tiered' = [tiered EXCEPT ![p] = [lines |-> lines, index |-> Nothing]]
         /\ tidx' = [tidx EXCEPT ![p] = [entries |-> entries, writing |-> TRUE,
                                         file |-> [Written(entries) EXCEPT !.length = 0]]]
  /\ UNCHANGED <<cache, imports>>

\* A part of the file reaches the disk, up to the end of a section or inside one.
WriteTidx(p) ==
  /\ tidx[p] # Nothing /\ tidx[p].writing
  /\ LET whole == Written(tidx[p].entries)
     IN  \E n \in {HeaderSize \div 2, HeaderSize, CodeEnd(whole), BlockEnd(whole),
                   whole.length - 1, whole.length} :
           /\ n > tidx[p].file.length /\ n <= whole.length
           /\ tidx' = [tidx EXCEPT ![p].file.length = n,
                                   ![p].writing = n < whole.length]
  /\ UNCHANGED <<cache, tiered, imports, spent>>

\* build_tiered: the file must open; that it holds these entries is not checked.
\* A process that started again reads the lines again.
OpenTiered(p) ==
  /\ tidx[p] # Nothing /\ ~ tidx[p].writing
  /\ IF tiered[p] = Nothing THEN \A name \in Names : files[name] # Missing
     ELSE tiered[p].index = Nothing
  /\ Opens(tidx[p].file)
  /\ LET lines   == IF tiered[p] = Nothing THEN LoadAllEntries(files) ELSE tiered[p].lines
         entries == GroupEntries(lines)
         groups  == [c \in {e.code : e \in Range(entries)} |->
                       (CHOOSE e \in Range(entries) : e.code = c).entries]
         cold    == [c \in {e.code : e \in Range(tidx[p].entries)} \union DOMAIN groups |->
                       Query(tidx[p].file, c)]
     IN  tiered' = [tiered EXCEPT ![p] =
           [lines |-> lines, index |-> BuildTiered(groups, cold, HotEntriesPerCode)]]
  /\ UNCHANGED <<cache, tidx, imports, spent>>

-----------------------------------------------------------------------------
(***************************************************************************)
(* The rest of the world.                                                  *)
(***************************************************************************)
Edit(name, content) ==
  /\ content # files[name]
  /\ Spend("edit")
  /\ files' = [files EXCEPT ![name] = content]
  /\ UNCHANGED <<fragments, loads, made, current, dropped, began, tierVars, imports>>

\* A process is killed, and starts again with nothing in memory.
Crash(p) ==
  /\ loads[p].at # "idle" \/ tiered[p] # Nothing
  /\ Spend("crash")
  /\ loads' = [loads EXCEPT ![p] = Idle]
  /\ made' = Restrict(made, DOMAIN made \ {p})
  /\ current' = [current EXCEPT ![p] = Nothing]
  /\ dropped' = dropped \union GivenUp(p)
  /\ tiered' = [tiered EXCEPT ![p] = Nothing]
  /\ tidx' = IF tidx[p] = Nothing THEN tidx ELSE [tidx EXCEPT ![p].writing = FALSE]
  /\ UNCHANGED <<files, fragments, began, imports>>

\* resolve_imports, which shares no state with the rest: it is asked once,
\* before anything else.
Import(sources) ==
  /\ \A event \in DOMAIN spent : spent[event] = 0
  /\ imports' = [sources |-> sources,
                 result  |-> ResolveImports(CHOOSE t \in Tables : TRUE, sources)]
  /\ UNCHANGED <<cache, tierVars, spent>>

Next ==
  /\ imports = Nothing
  /\ \/ \E p \in Processes :
          \/ \E names \in {SetToSeq(s) : s \in SUBSET Names \ {{}}} : Begin(p, names)
          \/ Probe(p) \/ OpenFragment(p) \/ CreateFragment(p) \/ FillFragment(p)
          \/ CallFails(p) \/ Finish(p) \/ Deploy(p)
          \/ \E gone \in SUBSET Contents : Invalidate(p, gone)
          \/ CreateTidx(p) \/ WriteTidx(p) \/ OpenTiered(p) \/ Crash(p)
     \/ \E name \in Names, content \in Contents \union {Missing} : Edit(name, content)
     \/ \E present \in SUBSET Tables :
          \E sources \in [present -> ImportLists] :
            Import([t \in present |-> [import_tables |-> sources[t], entries |-> <<t>>]])

Spec == Init /\ [][Next]_vars

-----------------------------------------------------------------------------
(***************************************************************************)
(* Properties.                                                             *)
(***************************************************************************)
Skips == [name : Names, error : {"read", "parse", "open", "deserialize", "create", "write"}]

Load ==
  [at : {"idle", "probe", "open", "save", "fill"}, todo : Seq(Names),
   content : Contents \union {Nothing}, link : {"none", "own", "cut"},
   done : Seq({Fragment(c) : c \in Contents}), skipped : Seq(Skips)]

Spent == [load : Nat, edit : Nat, invalidate : Nat, crash : Nat, file : Nat, error : Nat]

\* The type of the state: a whole fragment lies under the hash of its own source
\* and is what that source compiles to, a load that has read a file knows which,
\* and an index is stitched from whole fragments of the contents it names.
TypeOK ==
  /\ files \in [Names -> Contents \union {Missing}]
  /\ DOMAIN fragments = Contents
  /\ \A c \in Contents : fragments[c] \in {Missing, Torn, Fragment(c)}
  /\ loads \in [Processes -> Load]
  /\ \A p \in Processes :
       /\ loads[p].at \in {"open", "save", "fill"} <=> loads[p].content # Nothing
       /\ loads[p].at \in {"open", "save", "fill"} => loads[p].todo # <<>>
       /\ loads[p].at \in {"save", "fill"} => Body(loads[p].content).ok
       /\ p \in DOMAIN made =>
            /\ made[p].contents \in Seq(Contents) /\ made[p].skipped \in Seq(Skips)
            /\ made[p].index = Stitch([i \in DOMAIN made[p].contents |->
                                         Fragment(made[p].contents[i])])
       /\ current[p] # Nothing => current[p].total # 0
  /\ DOMAIN made \subseteq Processes /\ DOMAIN current = Processes
  /\ spent \in Spent
  /\ dropped \subseteq Contents /\ began \subseteq Processes

\* What the CLI's load_dict_directory makes of files with these contents.
LoadDirectory(contents) ==
  LET parsed == [i \in DOMAIN contents |-> ParseBody(DictBody(contents[i]), Columns)]
  IN  [ok    |-> \A i \in DOMAIN parsed : parsed[i].ok /\ parsed[i].entries # <<>>,
       index |-> Build(FlattenSeq([i \in DOMAIN parsed |-> parsed[i].entries]))]

\* Both readers find the same body: after a --- that is not the first line and a ...
SameBody(content) == ExtractBody(content) = DictBody(content)

\* The index that load_or_build stitches from fragments, some made by another
\* process or before a crash, is the index that MemoryIndex::build makes of all
\* the lines of the same contents; and the one the CLI makes, where it loads
\* files of these contents and both find the same body in them.
StitchedIsBuilt ==
  \A p \in DOMAIN made :
    LET contents == made[p].contents
    IN  /\ made[p].index =
             Build(FlattenSeq([i \in DOMAIN contents |-> Body(contents[i]).entries]))
        /\ (\A i \in DOMAIN contents : SameBody(contents[i])) /\ LoadDirectory(contents).ok
             => made[p].index = LoadDirectory(contents).index

\* No other process has loaded, and the files and the cache are left alone.
Undisturbed(p) == began \subseteq {p} /\ spent.edit = 0 /\ spent.invalidate = 0

\* Why a process that nothing disturbs may skip a file: it does not parse, a call of
\* the file system failed, or its fragment was given up in the middle.
HasCause(skip) ==
  \/ skip.error = "parse" /\ ~ Body(files[skip.name]).ok
  \/ skip.error \in {"read", "open", "create", "write"} /\ spent.error > 0
  \/ skip.error = "deserialize" /\ files[skip.name] \in dropped

\* load_or_build skips a file with a warning.  No file is skipped without a
\* cause: every torn fragment is being filled by some process, or the one that
\* emptied it last was killed or failed to write it and gave it up; and a process
\* that no other load, no edit and no invalidation disturbs, whatever it loaded
\* before and however often it was killed, skips only what HasCause says.
SkipsHaveCause ==
  /\ \A c \in Contents :
       fragments[c] = Torn => c \in dropped \/ \E p \in Processes : Filling(p, c)
  /\ \A p \in DOMAIN made :
       Undisturbed(p) => \A skip \in Range(made[p].skipped) : HasCause(skip)

\* A two-tier index opens only a .tidx file that was written to its end, also after
\* a kill; and over a file of its own lines it answers like the index in memory of
\* the same lines.  It counts as many entries and has the same texts for a code.
\* Where every line of a code has a weight, also if a text is there twice, the
\* answer is the same; where texts are not repeated, it has the same entries.  (A
\* line without a weight counts 0 in one index and 1 in the other.)  The best
\* entries for a prefix agree under either condition, and the file alone answers
\* with the weights of the heaviest lines, each as often as it is there.
TiersAnswerAlike ==
  \A p \in Processes : tiered[p] # Nothing /\ tiered[p].index # Nothing =>
    LET lines       == tiered[p].lines
        index       == tiered[p].index
        memory      == Build(lines)
        codes       == DOMAIN memory.entries
        prefixes    == UNION {{SubSeq(c, 1, n) : n \in 0 .. Len(c)} : c \in codes}
        of(c)       == Selected(lines, LAMBDA e : e.code = c)
        weighed(c)  == \A e \in Range(of(c)) : e.weight # NoWeight
        distinct(c) == Cardinality({e.text : e \in Range(of(c))}) = Len(of(c))
        below(prefix)   == Selected(lines, LAMBDA e : IsPrefix(prefix, e.code))
        weights(answer) == [i \in DOMAIN answer |-> UnwrapOr(answer[i].weight, 1)]
    IN  /\ tidx[p].file.length = TextEnd(tidx[p].file)
        /\ tidx[p].entries = GroupEntries(lines) =>
             /\ index.total = memory.total
             /\ \A c \in codes :
                  LET exact == TieredExact(index, c)
                      known == MemoryExact(memory, c, memory.total)
                  IN  /\ {e.text : e \in Range(exact)} = {e.text : e \in Range(known)}
                      /\ Len(exact) = Len(known)
                      /\ distinct(c) => Range(exact) = Range(known)
                      /\ weighed(c) => exact = known
             /\ \A prefix \in prefixes, limit \in 1 .. 2 :
                  /\ (\A c \in codes : IsPrefix(prefix, c) => weighed(c) \/ distinct(c))
                       => TieredPrefix(index, prefix, limit) =
                          MemoryPrefix(memory, prefix, limit)
                  /\ weights(QueryPrefix(tidx[p].file, prefix, limit)) =
                     Truncated(Sorted(weights(below(prefix)), LAMBDA w : <<-w>>), limit)

\* S has the imports of its tables.
Closed(S, sources) ==
  \A t \in S \intersect DOMAIN sources : Range(sources[t].import_tables) \subseteq S

\* The tables that name reaches through imports, itself included.
Reached(name, sources) ==
  {t \in Tables : \A S \in SUBSET Tables : name \in S /\ Closed(S, sources) => t \in S}

\* A table that name reaches is missing, or reaches itself.
Broken(name, sources) ==
  \E t \in Reached(name, sources) :
    \/ t \notin DOMAIN sources
    \/ \E import \in Range(sources[t].import_tables) : t \in Reached(import, sources)

\* Every table that name reaches has its entry once, after those of the tables it
\* imports.
ImportedOnce(name, sources, entries) ==
  LET reached  == Reached(name, sources)
      place(t) == CHOOSE i \in DOMAIN entries : entries[i] = t
  IN  /\ Range(entries) = reached /\ Len(entries) = Cardinality(reached)
      /\ \A t \in reached : \A import \in Range(sources[t].import_tables) :
           place(import) < place(t)

\* resolve_imports fails exactly if a table it reaches is missing or reaches
\* itself; otherwise it has the entries of every table it reaches once, those
\* of a table after those of all the tables it imports.
ImportsInOrder ==
  imports # Nothing =>
    LET root == CHOOSE t \in Tables : TRUE
    IN  /\ imports.result.error <=> Broken(root, imports.sources)
        /\ ~ imports.result.error =>
             ImportedOnce(root, imports.sources, imports.result.entries)

=============================================================================
