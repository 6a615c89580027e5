----------------------------- MODULE DictFormat -----------------------------
(***************************************************************************)
(* The text of a .dict.yaml file: its lines (body.rs), where its body      *)
(* starts for the build cache (cache.rs) and for the CLI                   *)
(* (cheime-cli/src/main.rs), the fragments the cache makes of it and the   *)
(* tables it imports (import.rs).                                          *)
(*                                                                         *)
(* A file is a sequence of lines, a line the sequence of its tab-separated *)
(* fields, a field a sequence of characters.  A number, which may be       *)
(* negative, is a field of one character, its value; a longer field is no  *)
(* number.                                                                 *)
(***************************************************************************)
EXTENDS Lexicon

Dashes == <<<<-1>>>>        \* the line ---
Dots   == <<<<-2>>>>        \* the line ...
Hash   == -3                \* the character #

\* raw.trim(), then split at the tabs: the empty fields at both ends go.
Trimmed(line) ==
  LET used == {i \in DOMAIN line : line[i] # <<>>}
  IN  IF used = {} THEN <<>> ELSE SubSeq(line, Min(used), Max(used))

\* One line by its columns; a weight that is no number is none, an absent one 1.
ParseRow(fields, columns) ==
  LET field(i)  == IF i \in DOMAIN fields THEN fields[i] ELSE <<>>
      last(c)   == LET at == {i \in DOMAIN columns : columns[i] = c}
                   IN  IF at = {} THEN <<>> ELSE field(Max(at))
      weighed   == {i \in DOMAIN columns : columns[i] = "weight" /\ field(i) # <<>>}
      number(v) == IF Len(v) = 1 THEN v[1] ELSE NoWeight
  IN  [text |-> last("text"), code |-> last("code"),
       weight |-> IF weighed = {} THEN 1 ELSE number(field(Max(weighed)))]

\* parse_body: one line of a single field refuses the file.
ParseBody(lines, columns) ==
  LET rows == Selected([i \in DOMAIN lines |-> Trimmed(lines[i])],
                       LAMBDA r : r # <<>> /\ r[1][1] # Hash)
      ok   == \A i \in DOMAIN rows : Len(rows[i]) >= 2
  IN  [ok |-> ok,
       entries |-> IF ok THEN [i \in DOMAIN rows |-> ParseRow(rows[i], columns)] ELSE <<>>]

\* The lines after the first line, not itself the first, that is the marker.
After(lines, marker) ==
  LET at == {i \in 2 .. Len(lines) : lines[i] = marker}
  IN  IF at = {} THEN lines ELSE SubSeq(lines, Min(at) + 1, Len(lines))

\* extract_body: after the line --- and, if there is one, after the next ... .
ExtractBody(lines) ==
  IF \E i \in 2 .. Len(lines) : lines[i] = Dashes
  THEN After(After(lines, Dashes), Dots) ELSE lines

\* dict_body of the CLI: after the line ... .
DictBody(lines) == After(lines, Dots)

-----------------------------------------------------------------------------
(***************************************************************************)
(* Fragments.                                                              *)
(***************************************************************************)
SortGroup(group) == Sorted(group, LAMBDA e : <<-UnwrapOr(e.weight, 0)>> \o e.text)

TextWeight(e) == [text |-> e.text, weight |-> e.weight]

\* compile_fragment: the entries by code; a text may be there twice.
CompileFragment(entries, hash) ==
  [source_hash |-> hash, total |-> Len(entries),
   entries |-> [code \in {entries[i].code : i \in DOMAIN entries} |->
     LET group == Selected(entries, LAMBDA e : e.code = code)
     IN  SortGroup([i \in DOMAIN group |-> TextWeight(group[i])])]]

Counted(n, fragment) == n + fragment.total

\* Variant for mutation: the group of a code comes from the first fragment that has it.
StitchFirst(fragments) ==
  FromFragment(FoldLeft(Counted, 0, fragments),
    [code \in UNION {DOMAIN fragments[i].entries : i \in DOMAIN fragments} |->
       (fragments[Min({i \in DOMAIN fragments : code \in DOMAIN fragments[i].entries})]).entries[code]])

\* The end of load_or_build: all the fragments' groups, sorted again.
Stitch(fragments) ==
  FromFragment(FoldLeft(Counted, 0, fragments),
    [code \in UNION {DOMAIN fragments[i].entries : i \in DOMAIN fragments} |->
       SortGroup(FlattenSeq([i \in DOMAIN fragments |->
                               GroupOf(fragments[i].entries, code)]))])

-----------------------------------------------------------------------------
(***************************************************************************)
(* Imports: every table names the tables to read before it.                *)
(***************************************************************************)
\* Variant for mutation: a table is not marked done.
TableAgain(state, name, entries) == [state EXCEPT !.entries = @ \o entries]

\* A table whose imports are read: its own entries follow.
TableDone(state, name, entries) ==
  [state EXCEPT !.entries = @ \o entries, !.done = @ \union {name}]

\* visit, depth first, of the tables of a list one after the other, by the calls
\* visit makes of itself.  A state has the entries so far, the tables done and, in
\* error, whether a table is missing or imports itself.
Visited(visit, sources, tables, visiting, state) ==
  LET name  == Head(tables)
      after == visit[<<sources[name].import_tables, visiting \union {name}, state>>]
      next  == CASE name \in state.done -> state
                 [] name \notin state.done
                      /\ (name \in visiting \/ name \notin DOMAIN sources) ->
                      [state EXCEPT !.error = TRUE]
                 [] OTHER -> IF after.error THEN after
                             ELSE TableDone(after, name, sources[name].entries)
  IN  IF state.error \/ tables = <<>> THEN state
      ELSE visit[<<Tail(tables), visiting, next>>]

ResolveImports(root, sources) ==
  LET imported(t) == Range(sources[t].import_tables)
      names  == {root} \union DOMAIN sources \union UNION {imported(t) : t \in DOMAIN sources}
      states == [entries : Seq(UNION {Range(sources[t].entries) : t \in DOMAIN sources}),
                 done : SUBSET names, error : BOOLEAN]
      visit[call \in Seq(names) \X (SUBSET names) \X states] ==
        Visited(visit, sources, call[1], call[2], call[3])
  IN  visit[<< <<root>>, {}, [entries |-> <<>>, done |-> {}, error |-> FALSE] >>]

=============================================================================
