---------------------------- MODULE ConfigLayers ----------------------------
(***************************************************************************)
(* What a schema configuration comes to (crate cheime-config): a file with *)
(* its parents (ConfigLoader, merge.rs), and a deployed schema with the    *)
(* user's profile and the engine's state (LayeredConfig, layered.rs), both *)
(* of which are files that are saved in place and may be read half written.*)
(*                                                                         *)
(* A YAML document is a function from the fields it gives to their values; *)
(* what a field holds is a model value unless it matters.  A configuration *)
(* has every field.  A document that is an inline parent, and the times in *)
(* the engine's state, are left out.                                       *)
(***************************************************************************)
EXTENDS Integers, FiniteSets, SequencesExt

CONSTANTS
  Names, Docs(_),    \* schema files and what each may hold
  Profiles,          \* profiles the user or a settings tool may write
  SwitchNames,
  Components,        \* processors, segmentors, translators and filters
  None,              \* an option that is not given
  Missing,           \* no such file
  Torn,              \* a file that does not parse
  DefaultPageSize,   \* 9
  MaxChanges         \* bound: saves and crashes

ASSUME LayersAssumption ==
  /\ DefaultPageSize \in Nat \ {0}
  /\ \A name \in Names : Missing \notin Docs(name)
  /\ None \notin Names

\* The states the engine can have in memory, none of which is one of the marks
\* for a file that is missing or torn, or for nothing.
States == [active   : Names \union {None},
           switches : UNION {[D -> BOOLEAN] : D \in SUBSET SwitchNames}]

ASSUME StatesAssumption ==
  /\ Missing # Torn
  /\ \A s \in States : s \notin {None, Missing, Torn}

-----------------------------------------------------------------------------
(***************************************************************************)
(* SchemaConfig and its parts (schema.rs): the fields, their defaults, and *)
(* what parsing makes of a document.                                       *)
(***************************************************************************)
EngineLists   == {"processors", "segmentors", "translators", "filters"}
EngineOptions == {"fuzzy_pinyin", "pinyin_correction", "input"}
SpellerOptions == {"alphabet", "initials", "delimiter"}
SpellerFlags   == {"auto_select", "use_space"}
SpellerFields  == SpellerOptions \union SpellerFlags \union {"max_code_length", "algebra"}
MenuFields    == {"page_size", "page_down_cycle", "alternative_select_keys"}
SchemaFields  == {"schema", "switches", "schema_version", "extends", "punctuator"}
                   \union EngineLists \union EngineOptions \union MenuFields
ConfigFields  == SchemaFields \union {"speller"}

\* What a field is when a document does not give it.
Unset(field) ==
  CASE field \in EngineLists \union {"switches", "extends", "algebra"} -> <<>>
    [] field \in SpellerFlags \union {"page_down_cycle"} -> FALSE
    [] field = "schema_version"  -> 1
    [] field = "page_size"       -> DefaultPageSize
    [] field = "max_code_length" -> 0
    [] OTHER                     -> None

\* SpellerConfig::default, the speller that is not there, which has no fields,
\* and the speller of a document: there if any of its fields is.
DefaultSpeller == [f \in SpellerFields |-> Unset(f)]
NoSpeller      == <<>>

SpellerOf(doc) ==
  IF SpellerFields \intersect DOMAIN doc = {} THEN NoSpeller
  ELSE [f \in SpellerFields |-> IF f \in DOMAIN doc THEN doc[f] ELSE Unset(f)]

\* deny_unknown_fields, and the types of the fields that are more than a value.
Parses(doc) ==
  /\ DOMAIN doc \subseteq SchemaFields \union SpellerFields
  /\ \A f \in DOMAIN doc :
       /\ f \in {"schema_version", "page_size"} => doc[f] \in Nat
       /\ f \in EngineLists => doc[f] \in Seq(Components)
       /\ f = "extends" => doc[f] \in Seq(Names)

Parsed(doc) ==
  [f \in ConfigFields |->
     IF f = "speller" THEN SpellerOf(doc)
     ELSE IF f \in DOMAIN doc THEN doc[f] ELSE Unset(f)]

\* Deriving Default gives the version 0, which parsing never does.
DefaultConfig == [Parsed(<<>>) EXCEPT !["schema_version"] = 0]

\* Variant for mutation: the speller is skipped.
SerializedBare(config) ==
  [f \in {f \in SchemaFields : config[f] # Unset(f)} |-> config[f]]

\* Serialized: options and lists that are empty are skipped, the rest is given.
Serialized(config) ==
  LET skipped(f, value) == /\ f \notin {"schema_version", "page_size", "page_down_cycle"}
                           /\ value = Unset(f)
      own     == {f \in SchemaFields : ~ skipped(f, config[f])}
      spelled == IF config["speller"] = NoSpeller THEN {}
                 ELSE {f \in SpellerFields :
                         \/ f \in SpellerFlags \union {"max_code_length"}
                         \/ config["speller"][f] # Unset(f)}
  IN  [f \in own \union spelled |-> IF f \in own THEN config[f] ELSE config["speller"][f]]

\* The order in which serde writes the fields.
FieldOrder ==
  <<"schema", "processors", "segmentors", "translators", "filters", "fuzzy_pinyin",
    "pinyin_correction", "input", "switches", "alphabet", "initials", "delimiter",
    "max_code_length", "auto_select", "use_space", "algebra", "page_size",
    "page_down_cycle", "alternative_select_keys", "schema_version", "extends",
    "punctuator">>

-----------------------------------------------------------------------------
(***************************************************************************)
(* merge.rs.                                                               *)
(***************************************************************************)
MergeSpeller(parent, child) ==
  IF child = NoSpeller THEN parent
  ELSE LET lower == IF parent = NoSpeller THEN DefaultSpeller ELSE parent
       IN  [f \in SpellerFields |->
              IF f \in SpellerFlags \/ child[f] # Unset(f) THEN child[f] ELSE lower[f]]

\* Variant for mutation: the parent's components come first.
MergeAfter(parent, child) ==
  [f \in DOMAIN parent |->
     CASE f \in EngineLists -> parent[f] \o child[f]
       [] f = "schema"      -> IF child[f] # None THEN child[f] ELSE parent[f]
       [] f = "switches"    -> IF child[f] # <<>> THEN child[f] ELSE parent[f]
       [] f = "speller"     -> MergeSpeller(parent[f], child[f])
       [] f \in {"page_size", "page_down_cycle", "schema_version"} -> child[f]
       [] OTHER             -> parent[f]]

\* merge_configs.  The fields it does not name keep the parent's value: the
\* engine's options, the punctuator, the keys of the menu and the parents' names.
MergeConfigs(parent, child) ==
  [f \in DOMAIN parent |->
     CASE f \in EngineLists -> child[f] \o parent[f]
       [] f = "schema"      -> IF child[f] # None THEN child[f] ELSE parent[f]
       [] f = "switches"    -> IF child[f] # <<>> THEN child[f] ELSE parent[f]
       [] f = "speller"     -> MergeSpeller(parent[f], child[f])
       [] f \in {"page_size", "page_down_cycle", "schema_version"} -> child[f]
       [] OTHER             -> parent[f]]

Ok(config)    == [error |-> "none", config |-> config]
Error(reason) == [error |-> reason, config |-> DefaultConfig]

\* DeploymentManager::validate.
Validates(config) == config["schema_version"] # 0 /\ config["page_size"] # 0

-----------------------------------------------------------------------------
(***************************************************************************)
(* The files and the processes that read and write them.                   *)
(***************************************************************************)
VARIABLES
  schemas,    \* the schema files
  loaded,     \* the last load_file: of which file, and its result
  deployed,   \* the deployed configuration, or None
  profile,    \* user/profile.yaml
  session,    \* state/session.json
  state,      \* the RuntimeState in the engine's memory
  saved,      \* the state whose save was last completed
  saving,     \* what is being saved to which file
  resolved,   \* what the last resolve returned, and what it read
  changes

\* load_parent and load_file's first half.
Read(name) ==
  CASE schemas[name] = Missing -> Error("NotFound")
    [] schemas[name] # Missing /\ ~ Parses(schemas[name]) -> Error("Parse")
    [] OTHER -> Ok(Parsed(schemas[name]))

\* The loop of resolve_extends: a parent named twice is taken for a circle.
Extend(loading, name) ==
  LET parent == Read(name)
  IN  CASE loading.result.error # "none" -> loading
        [] loading.result.error = "none" /\ name \in loading.visited ->
             [loading EXCEPT !.result = Error("CircularExtends")]
        [] loading.result.error = "none" /\ name \notin loading.visited ->
             [visited |-> loading.visited \union {name},
              result  |-> IF parent.error # "none" THEN parent
                          ELSE Ok(MergeConfigs(parent.config, loading.result.config))]

\* resolve_extends: the last parent first, and the parents' own parents are not
\* looked at.
WithoutParents(config) == [config EXCEPT !["extends"] = <<>>]

ResolveExtends(child) ==
  FoldLeft(Extend, [visited |-> {}, result |-> Ok(WithoutParents(child))],
           Reverse(child["extends"])).result

\* load_file.
LoadFile(name) ==
  LET own == Read(name)
  IN  IF own.error # "none" THEN own ELSE ResolveExtends(own.config)

vars == <<schemas, loaded, deployed, profile, session, state, saved, saving, resolved,
          changes>>

\* UserProfile::default and RuntimeState::default.
NoProfile    == [schema |-> None, patch |-> None]
DefaultState == [active |-> None, switches |-> <<>>]

Init ==
  /\ schemas \in [Names -> (UNION {Docs(name) : name \in Names}) \union {Missing}]
  /\ \A name \in Names : schemas[name] \in Docs(name) \union {Missing}
  /\ loaded = [name |-> None, result |-> Error("none")]
  /\ deployed = None
  /\ profile = Missing /\ session = Missing
  /\ state = DefaultState /\ saved = DefaultState
  /\ saving = [profile |-> None, session |-> None]
  /\ resolved = None
  /\ changes = 0

\* Before anything is deployed no change of the other files is seen.
Change == deployed # None /\ changes < MaxChanges /\ changes' = changes + 1

Load(name) ==
  /\ loaded.name = None
  /\ loaded' = [name |-> name, result |-> LoadFile(name)]
  /\ UNCHANGED <<schemas, deployed, profile, session, state, saved, saving, resolved, changes>>

\* The caller deploys what it has loaded.
Deploy ==
  /\ loaded.name # None /\ loaded.result.error = "none"
  /\ Validates(loaded.result.config)
  /\ deployed' = Parsed(Serialized(loaded.result.config))
  /\ UNCHANGED <<schemas, loaded, profile, session, state, saved, saving, resolved, changes>>

\* UserProfile::load: a file that is missing is a profile that changes nothing.
ReadProfile ==
  CASE profile = Missing -> [error |-> FALSE, value |-> NoProfile]
    [] profile = Torn    -> [error |-> TRUE, value |-> NoProfile]
    [] OTHER -> [error |-> profile.patch # None /\ ~ Parses(profile.patch), value |-> profile]

\* Variant for mutation: a state that does not parse is taken for none.
ReadStateOrDefault ==
  [error |-> FALSE, value |-> IF session \in {Missing, Torn} THEN DefaultState ELSE session]

\* RuntimeState::load.
ReadState ==
  CASE session = Missing -> [error |-> FALSE, value |-> DefaultState]
    [] session = Torn    -> [error |-> TRUE, value |-> DefaultState]
    [] OTHER             -> [error |-> FALSE, value |-> session]

SwitchOn(s, name) == name \in DOMAIN s.switches /\ s.switches[name]

\* LayeredConfig::resolve.  The engine takes the state it has read for its own.
Resolve ==
  /\ deployed # None
  /\ LET lower == MergeConfigs(DefaultConfig, deployed)
         user  == ReadProfile
         layer == IF user.error \/ user.value.patch = None THEN lower
                  ELSE MergeConfigs(lower, Parsed(user.value.patch))
         own   == ReadState
         ok    == ~ user.error /\ ~ own.error
     IN  /\ resolved' = [ok |-> ok, config |-> layer, profile |-> user.value,
                         state |-> own.value, half_shape |-> SwitchOn(own.value, "half_shape"),
                         deployed |-> deployed, saved |-> saved]
         /\ state' = IF ok THEN own.value ELSE state
  /\ UNCHANGED <<schemas, loaded, deployed, profile, session, saved, saving, changes>>

\* set_switch; the engine notes the schema it runs.
SetSwitch(name, value) ==
  /\ resolved # None /\ resolved.ok
  /\ state' = [active |-> loaded.name, switches |->
                 [n \in DOMAIN state.switches \union {name} |->
                    IF n = name THEN value ELSE state.switches[n]]]
  /\ UNCHANGED <<schemas, loaded, deployed, profile, session, saved, saving, resolved, changes>>

\* save_state, save_profile: the file is emptied, which makes it no document,
\* and then filled.
BeginSaveState ==
  /\ saving.session = None
  /\ resolved # None /\ resolved.ok
  /\ Change
  /\ session' = Torn
  /\ saving' = [saving EXCEPT !.session = state]
  /\ UNCHANGED <<schemas, loaded, deployed, profile, state, saved, resolved>>

EndSaveState ==
  /\ saving.session # None
  /\ session' = saving.session /\ saved' = saving.session
  /\ saving' = [saving EXCEPT !.session = None]
  /\ UNCHANGED <<schemas, loaded, deployed, profile, state, resolved, changes>>

BeginSaveProfile(p) ==
  /\ saving.profile = None
  /\ p.patch # None => Parses(p.patch)
  /\ Change
  /\ profile' = Torn
  /\ saving' = [saving EXCEPT !.profile =
       [schema |-> p.schema,
        patch  |-> IF p.patch = None THEN None ELSE Serialized(Parsed(p.patch))]]
  /\ UNCHANGED <<schemas, loaded, deployed, session, state, saved, resolved>>

\* The first lines of a profile are a profile too.
PartOfProfile ==
  /\ saving.profile # None /\ saving.profile.patch # None
  /\ \E n \in {0, 8, 17} :
       LET given == {f \in DOMAIN saving.profile.patch : Contains(SubSeq(FieldOrder, 1, n), f)}
       IN  profile' = [saving.profile EXCEPT !.patch =
                         IF given = {} THEN None
                         ELSE [f \in given |-> saving.profile.patch[f]]]
  /\ profile' # profile
  /\ UNCHANGED <<schemas, loaded, deployed, session, state, saved, saving, resolved, changes>>

EndSaveProfile ==
  /\ saving.profile # None
  /\ profile' = saving.profile
  /\ saving' = [saving EXCEPT !.profile = None]
  /\ UNCHANGED <<schemas, loaded, deployed, session, state, saved, resolved, changes>>

\* The user writes the profile in an editor.
EditProfile(p) ==
  /\ saving.profile = None /\ profile # p
  /\ Change
  /\ profile' = p
  /\ UNCHANGED <<schemas, loaded, deployed, session, state, saved, saving, resolved>>

\* The engine, or the tool that saves the profile, is killed.
CrashEngine ==
  /\ resolved # None \/ saving.session # None
  /\ Change
  /\ state' = DefaultState /\ resolved' = None
  /\ saving' = [saving EXCEPT !.session = None]
  /\ UNCHANGED <<schemas, loaded, deployed, profile, session, saved>>

CrashTool ==
  /\ saving.profile # None
  /\ Change
  /\ saving' = [saving EXCEPT !.profile = None]
  /\ UNCHANGED <<schemas, loaded, deployed, profile, session, state, saved, resolved>>

Next ==
  \/ \E name \in Names : Load(name)
  \/ Deploy \/ Resolve
  \/ \E name \in SwitchNames, value \in BOOLEAN : SetSwitch(name, value)
  \/ BeginSaveState \/ EndSaveState
  \/ \E p \in Profiles : BeginSaveProfile(p) \/ EditProfile(p)
  \/ PartOfProfile \/ EndSaveProfile
  \/ CrashEngine \/ CrashTool

Spec == Init /\ [][Next]_vars

-----------------------------------------------------------------------------
(***************************************************************************)
(* Properties.                                                             *)
(***************************************************************************)
IsConfig(config) ==
  /\ config = [f \in ConfigFields |-> config[f]]
  /\ config["schema_version"] \in Nat /\ config["page_size"] \in Nat
  /\ \A f \in EngineLists : config[f] \in Seq(Components)
  /\ config["extends"] \in Seq(Names)
  /\ \/ config["speller"] = NoSpeller
     \/ config["speller"] = [f \in SpellerFields |-> config["speller"][f]]

\* The type of the state.  A deployed configuration has survived being written
\* and read again.
TypeOK ==
  /\ \A name \in Names : schemas[name] \in Docs(name) \union {Missing}
  /\ loaded.name \in Names \union {None} /\ IsConfig(loaded.result.config)
  /\ deployed # None => IsConfig(deployed) /\ deployed = loaded.result.config
  /\ DOMAIN state.switches \subseteq SwitchNames
  /\ DOMAIN saved.switches \subseteq SwitchNames
  /\ resolved # None => IsConfig(resolved.config)

\* One layer on another, for any number of layers, the topmost first, said field
\* by field: lists of components are joined, an option is that of the topmost
\* layer that gives it, the size and cycle of the page are the topmost layer's
\* whether it gives them or not, and what merge_configs does not name is the
\* lowest layer's.
Topmost(values, unset) ==
  LET given == {i \in DOMAIN values : values[i] # unset}
  IN  IF given = {} THEN unset ELSE values[Min(given)]

Column(layers, f) == [i \in DOMAIN layers |-> layers[i][f]]

SpellerField(config, f) ==
  IF config["speller"] = NoSpeller THEN Unset(f) ELSE config["speller"][f]

StackedSpeller(layers) ==
  LET top == Topmost(Column(layers, "speller"), NoSpeller)
  IN  IF top = NoSpeller THEN NoSpeller
      ELSE [f \in SpellerFields |->
              IF f \in SpellerFlags THEN top[f]
              ELSE Topmost([i \in DOMAIN layers |-> SpellerField(layers[i], f)], Unset(f))]

Stacked(layers) ==
  [f \in ConfigFields |->
     CASE f \in EngineLists            -> FlattenSeq(Column(layers, f))
       [] f \in {"schema", "switches"} -> Topmost(Column(layers, f), Unset(f))
       [] f = "speller"                -> StackedSpeller(layers)
       [] f \in {"page_size", "page_down_cycle", "schema_version"} -> layers[1][f]
       [] OTHER                        -> layers[Len(layers)][f]]

\* A loaded file is its own fields on those of the last of its parents, and so
\* on down to the first; loading fails exactly if the file or a parent cannot be
\* read or a parent is named twice.
LoadsAs(name, result) ==
  LET own     == Read(name)
      extends == IF own.error = "none" THEN own.config["extends"] ELSE <<>>
      parents == [i \in DOMAIN extends |-> Read(extends[i])]
      below   == Reverse([i \in DOMAIN parents |-> parents[i].config])
  IN  /\ result.error = "none" <=>
           /\ own.error = "none"
           /\ \A i \in DOMAIN parents : parents[i].error = "none"
           /\ IsInjective(extends)
      /\ result.error = "none" =>
           result.config = Stacked(<<WithoutParents(own.config)>> \o below)

LoadStacks == loaded.name # None => LoadsAs(loaded.name, loaded.result)

\* A resolved configuration is the profile's patch on the deployed schema on the
\* defaults.
ResolveStacks ==
  resolved # None /\ resolved.ok =>
    LET patch == IF resolved.profile.patch = None THEN <<>>
                 ELSE <<Parsed(resolved.profile.patch)>>
    IN  resolved.config = Stacked(patch \o <<resolved.deployed, DefaultConfig>>)

\* What load_file and resolve come to by merging two configurations at a time is
\* what their layers say, one on another, field by field.  These are the rules of
\* merge_configs itself, some of which the documents contradict: the two extends
\* deep, a page size nobody gave, and the fields that stay the lowest layer's
\* (LayersAsDocumented).
LayersStack == LoadStacks /\ ResolveStacks

\* Saves of the state and of the profile, readers between their writes and
\* crashes in the middle: what the engine restores is the state whose save was
\* last completed, never another; it is not restored to defaults because a save
\* was cut off, which resolve reports as an error.
RestoredIsSaved ==
  resolved # None /\ resolved.ok =>
    /\ resolved.state = resolved.saved
    /\ resolved.half_shape <=> SwitchOn(resolved.saved, "half_shape")

\* The documents' rules, for documents rather than configurations: the upper
\* one's fields over the lower one's, its components before the lower one's; a
\* file on its parents, which are whole files themselves, and none if a parent
\* is not there or is its own descendant (docs/config.md, merge.rs:112).
Overlay(lower, upper) ==
  [f \in DOMAIN lower \union DOMAIN upper |->
     CASE f \notin DOMAIN upper -> lower[f]
       [] f \notin DOMAIN lower -> upper[f]
       [] f \in DOMAIN lower \intersect DOMAIN upper ->
            IF f \in EngineLists THEN upper[f] \o lower[f] ELSE upper[f]]

Whole[name \in Names, descendants \in SUBSET Names] ==
  LET doc     == schemas[name]
      parents == IF "extends" \in DOMAIN doc THEN doc["extends"] ELSE <<>>
      below   == [i \in DOMAIN parents |-> Whole[parents[i], descendants \union {name}]]
  IN  IF \/ name \in descendants \/ doc = Missing \/ ~ Parses(doc)
         \/ \E i \in DOMAIN parents : below[i] = Torn
      THEN Torn
      ELSE Overlay(FoldLeft(Overlay, <<>>, below),
                   [f \in DOMAIN doc \ {"extends"} |-> doc[f]])

\* "Child values override parent values" (merge.rs:112), parents are loaded
\* recursively (docs/config.md:83), "higher layers override lower layers"
\* (layered.rs:14) and a profile has "only fields the user explicitly sets"
\* (profile.rs:13): with every file there, a schema and the profile for it come to
\* what their documents say, one over the other.
LayersAsDocumented ==
  (/\ resolved # None /\ resolved.ok
   /\ resolved.profile.patch # None /\ resolved.profile.schema = loaded.name
   /\ \A name \in Names : schemas[name] # Missing)
  => LET schema == Whole[loaded.name, {}]
     IN  /\ schema # Torn
         /\ WithoutParents(loaded.result.config) = Parsed(schema)
         /\ resolved.config = Parsed(Overlay(schema, resolved.profile.patch))

=============================================================================
