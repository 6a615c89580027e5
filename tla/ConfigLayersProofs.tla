------------------------ MODULE ConfigLayersProofs -------------------------
(***************************************************************************)
(* Proofs for any schemas, profiles, switches and any number of saves and  *)
(* crashes: what the engine restores is what was saved last; merging is    *)
(* associative, and what is loaded and resolved is its stack of layers.    *)
(***************************************************************************)
EXTENDS ConfigLayers, SequenceTheorems, TLAPS

\* The fold over the parents of a file.
Merges == INSTANCE FoldsAndOrders WITH Op <- Extend, Precedes <- Contains

-----------------------------------------------------------------------------
(***************************************************************************)
(* The state of the engine, saved in place and read again.                 *)
(***************************************************************************)
\* The variables this concerns, and their types.
SaveTypes ==
  /\ loaded.name \in Names \union {None}
  /\ state \in States /\ saved \in States
  /\ session \in States \union {Missing, Torn}
  /\ saving = [profile |-> saving.profile, session |-> saving.session]
  /\ saving.session \in States \union {None}

\* The file is missing only as long as nothing was saved, and where it holds a
\* state it holds the last one saved: a save that has begun is no state, and one
\* that was cut off stays none.
FileIsSaved ==
  /\ session = Missing => saved = DefaultState
  /\ session \in States => session = saved

IInv == SaveTypes /\ FileIsSaved /\ RestoredIsSaved

\* Nothing has been set in the state that is assumed when the file is missing.
LEMMA DefaultIsState == DefaultState \in States
<1>1. <<>> \in [{} -> BOOLEAN]
  OBVIOUS
<1>2. {} \in SUBSET SwitchNames
  OBVIOUS
<1>3. <<>> \in UNION {[D -> BOOLEAN] : D \in SUBSET SwitchNames}
  BY <1>1, <1>2
<1> QED
  BY <1>3 DEF DefaultState, States

LEMMA InitIInv == Init => IInv
  BY DefaultIsState, StatesAssumption
  DEF Init, IInv, SaveTypes, FileIsSaved, RestoredIsSaved

\* Steps that leave the state, its file and what was restored alone.
LEMMA OthersKeep ==
  ASSUME IInv, loaded'.name \in Names \union {None},
         UNCHANGED <<session, state, saved, resolved>>,
         saving' = [profile |-> saving'.profile, session |-> saving.session]
  PROVE  IInv'
  BY DEF IInv, SaveTypes, FileIsSaved, RestoredIsSaved, SwitchOn

\* What is read, if it is read without an error, is the state last saved.
LEMMA ReadIsSaved ==
  ASSUME IInv, ~ ReadState.error
  PROVE  ReadState.value = saved
<1>1. CASE session = Missing
  BY <1>1 DEF ReadState, IInv, FileIsSaved
<1>2. CASE session = Torn /\ session # Missing
  BY <1>2 DEF ReadState
<1>3. CASE session # Missing /\ session # Torn
  <2>1. session \in States
    BY <1>3 DEF IInv, SaveTypes
  <2>2. ReadState.value = session
    BY <1>3 DEF ReadState
  <2> QED
    BY <2>1, <2>2 DEF IInv, FileIsSaved
<1> QED
  BY <1>1, <1>2, <1>3

LEMMA ResolveKeeps == ASSUME IInv, Resolve PROVE IInv'
<1>1. PICK layer, ok, error :
        /\ ok => ~ ReadState.error
        /\ resolved' = [ok |-> ok, config |-> layer, profile |-> ReadProfile.value,
                        state |-> ReadState.value,
                        half_shape |-> SwitchOn(ReadState.value, "half_shape"),
                        deployed |-> deployed, saved |-> saved]
        /\ state' = IF ok THEN ReadState.value ELSE state
  BY Zenon DEF Resolve
<1>2. UNCHANGED <<loaded, session, saved, saving>>
  BY DEF Resolve
<1>3. RestoredIsSaved'
  BY <1>1, ReadIsSaved DEF RestoredIsSaved, SwitchOn
<1>4. state' \in States
  BY <1>1, ReadIsSaved DEF IInv, SaveTypes
<1> QED
  BY <1>2, <1>3, <1>4 DEF IInv, SaveTypes, FileIsSaved

LEMMA SwitchKeeps ==
  ASSUME IInv, NEW name \in SwitchNames, NEW value \in BOOLEAN, SetSwitch(name, value)
  PROVE  IInv'
<1>1. PICK D \in SUBSET SwitchNames : state.switches \in [D -> BOOLEAN]
  BY DEF IInv, SaveTypes, States
<1>2. state'.switches \in [D \union {name} -> BOOLEAN]
  BY <1>1 DEF SetSwitch
<1>3. D \union {name} \in SUBSET SwitchNames
  OBVIOUS
<1>4. state' = [active |-> loaded.name, switches |-> state'.switches]
  BY DEF SetSwitch
<1>5. state' \in States
  BY <1>2, <1>3, <1>4 DEF IInv, SaveTypes, States
<1> QED
  BY <1>5 DEF SetSwitch, IInv, SaveTypes, FileIsSaved, RestoredIsSaved, SwitchOn

LEMMA SavesKeep == ASSUME IInv, BeginSaveState \/ EndSaveState PROVE IInv'
<1>1. CASE BeginSaveState
  BY <1>1, StatesAssumption
  DEF BeginSaveState, IInv, SaveTypes, FileIsSaved, RestoredIsSaved, SwitchOn
<1>2. CASE EndSaveState
  BY <1>2, StatesAssumption
  DEF EndSaveState, IInv, SaveTypes, FileIsSaved, RestoredIsSaved, SwitchOn
<1> QED
  BY <1>1, <1>2

LEMMA CrashKeeps == ASSUME IInv, CrashEngine PROVE IInv'
  BY DefaultIsState
  DEF CrashEngine, IInv, SaveTypes, FileIsSaved, RestoredIsSaved, SwitchOn

LEMMA NextKeeps == IInv /\ [Next]_vars => IInv'
<1> SUFFICES ASSUME IInv, [Next]_vars PROVE IInv'
  OBVIOUS
<1>1. ASSUME NEW name \in Names, Load(name) PROVE IInv'
  BY <1>1, OthersKeep DEF Load, IInv, SaveTypes
<1>2. CASE Deploy
  BY <1>2, OthersKeep DEF Deploy, IInv, SaveTypes
<1>3. ASSUME NEW p \in Profiles, BeginSaveProfile(p) PROVE IInv'
  BY <1>3, OthersKeep DEF BeginSaveProfile, IInv, SaveTypes
<1>4. ASSUME NEW p \in Profiles, EditProfile(p) PROVE IInv'
  BY <1>4, OthersKeep DEF EditProfile, IInv, SaveTypes
<1>5. CASE PartOfProfile
  BY <1>5, OthersKeep DEF PartOfProfile, IInv, SaveTypes
<1>6. CASE EndSaveProfile
  BY <1>6, OthersKeep DEF EndSaveProfile, IInv, SaveTypes
<1>7. CASE CrashTool
  BY <1>7, OthersKeep DEF CrashTool, IInv, SaveTypes
<1>8. CASE UNCHANGED vars
  BY <1>8, OthersKeep DEF vars, IInv, SaveTypes
<1> QED
  BY <1>1, <1>2, <1>3, <1>4, <1>5, <1>6, <1>7, <1>8, ResolveKeeps, SwitchKeeps,
     SavesKeep, CrashKeeps
  DEF Next

\* What the engine restores is the state whose save was last completed, however
\* often saving is cut off and whoever edits the other files meanwhile.
THEOREM RestoresSaved == Spec => []RestoredIsSaved
<1>1. IInv => RestoredIsSaved
  BY DEF IInv
<1> QED
  BY InitIInv, NextKeeps, <1>1, PTL DEF Spec

-----------------------------------------------------------------------------
(***************************************************************************)
(* Parsing, writing and merging.                                           *)
(***************************************************************************)
\* The kinds of fields, and what they are when they are not given.
FieldDefs(f) ==
  /\ f \in EngineLists => f \in SchemaFields /\ Unset(f) = <<>>
  /\ f = "extends" => f \in SchemaFields /\ Unset(f) = <<>>
  /\ f = "schema_version" => f \in SchemaFields /\ Unset(f) = 1
  /\ f = "page_size" => f \in SchemaFields /\ Unset(f) = DefaultPageSize
  /\ f \in {"extends", "schema_version", "page_size", "speller", "schema", "switches",
            "page_down_cycle"} => f \notin EngineLists

LEMMA Fields == \A f : FieldDefs(f)
  BY DEF FieldDefs, EngineLists, EngineOptions, MenuFields, SchemaFields, Unset, SpellerFlags

LEMMA SpellerIsNoSchemaField ==
  /\ "speller" \notin SchemaFields
  /\ SchemaFields \intersect SpellerFields = {}
  BY DEF SchemaFields, EngineLists, EngineOptions, MenuFields, SpellerFields,
         SpellerOptions, SpellerFlags

\* A speller that is there is never mistaken for none.
LEMMA SpellerThere == ASSUME NEW g PROVE [f \in SpellerFields |-> g[f]] # NoSpeller
<1>1. DOMAIN [f \in SpellerFields |-> g[f]] = SpellerFields /\ "alphabet" \in SpellerFields
  BY DEF SpellerFields, SpellerOptions
<1>2. DOMAIN NoSpeller = {}
  BY DEF NoSpeller
<1> QED
  BY <1>1, <1>2

IsSpeller(s) == s = NoSpeller \/ s = [f \in SpellerFields |-> s[f]]

\* A document that parses is a configuration.
LEMMA ParsedIsConfig == ASSUME NEW doc, Parses(doc) PROVE IsConfig(Parsed(doc))
<1> DEFINE c == Parsed(doc)
<1>1. c = [f \in ConfigFields |-> c[f]]
  BY DEF Parsed
<1>2. \A f \in SchemaFields : c[f] = IF f \in DOMAIN doc THEN doc[f] ELSE Unset(f)
  BY SpellerIsNoSchemaField DEF Parsed, ConfigFields
<1>3. c["speller"] = SpellerOf(doc)
  BY DEF Parsed, ConfigFields
<1>4. IsSpeller(SpellerOf(doc))
  BY DEF SpellerOf, IsSpeller
<1> HIDE DEF c
<1>5. c["schema_version"] \in Nat /\ c["page_size"] \in Nat
  <2>1. c["schema_version"] \in Nat
    BY <1>2, Fields DEF FieldDefs, Parses
  <2>2. c["page_size"] \in Nat
    BY <1>2, Fields, LayersAssumption DEF FieldDefs, Parses
  <2> QED
    BY <2>1, <2>2
<1>6. \A f \in EngineLists : c[f] \in Seq(Components)
  <2> SUFFICES ASSUME NEW f \in EngineLists PROVE c[f] \in Seq(Components)
    OBVIOUS
  <2>1. <<>> \in Seq(Components)
    OBVIOUS
  <2> QED
    BY <1>2, <2>1, Fields DEF FieldDefs, Parses
<1>7. c["extends"] \in Seq(Names)
  <2>1. <<>> \in Seq(Names)
    OBVIOUS
  <2> QED
    BY <1>2, <2>1, Fields DEF FieldDefs, Parses
<1> QED
  BY <1>1, <1>3, <1>4, <1>5, <1>6, <1>7 DEF IsConfig, IsSpeller, c

LEMMA DefaultIsConfig == IsConfig(DefaultConfig)
<1>1. Parses(<<>>)
  BY DEF Parses
<1>2. IsConfig(Parsed(<<>>))
  BY <1>1, ParsedIsConfig
<1>3. "schema_version" \notin EngineLists /\ "schema_version" \in ConfigFields
  BY DEF EngineLists, ConfigFields, SchemaFields
<1>4. DefaultConfig = [f \in ConfigFields |-> IF f = "schema_version" THEN 0
                                              ELSE Parsed(<<>>)[f]]
  BY <1>2, Zenon DEF DefaultConfig, IsConfig, Parsed
<1>5. \A f \in ConfigFields : f # "schema_version" => DefaultConfig[f] = Parsed(<<>>)[f]
  BY <1>4
<1>6. DefaultConfig["schema_version"] = 0
  BY <1>3, <1>4
<1>7. EngineLists \subseteq ConfigFields /\ {"extends", "page_size", "speller"} \subseteq ConfigFields
  BY DEF EngineLists, ConfigFields, SchemaFields, MenuFields
<1>8. DefaultConfig = [f \in ConfigFields |-> DefaultConfig[f]]
  BY <1>4
<1> HIDE DEF DefaultConfig
<1> QED
  BY <1>2, <1>3, <1>5, <1>6, <1>7, <1>8 DEF IsConfig

\* What merging makes of each field.
Merged(m, p, c) ==
  /\ m = [f \in ConfigFields |-> m[f]]
  /\ \A f \in EngineLists : m[f] = c[f] \o p[f]
  /\ m["schema"] = IF c["schema"] # None THEN c["schema"] ELSE p["schema"]
  /\ m["switches"] = IF c["switches"] # <<>> THEN c["switches"] ELSE p["switches"]
  /\ m["speller"] = MergeSpeller(p["speller"], c["speller"])
  /\ \A f \in {"page_size", "page_down_cycle", "schema_version"} : m[f] = c[f]
  /\ \A f \in ConfigFields :
       f \notin EngineLists \union {"schema", "switches", "speller", "page_size",
                                    "page_down_cycle", "schema_version"}
         => m[f] = p[f]

LEMMA MergedFields ==
  ASSUME NEW p, NEW c, IsConfig(p), IsConfig(c)
  PROVE  \E m : m = MergeConfigs(p, c) /\ Merged(m, p, c)
<1> DEFINE m == MergeConfigs(p, c)
<1>1. DOMAIN p = ConfigFields
  BY DEF IsConfig
<1>2. EngineLists \subseteq ConfigFields
      /\ {"schema", "switches", "speller", "page_size", "page_down_cycle", "schema_version"}
           \subseteq ConfigFields
  BY DEF EngineLists, ConfigFields, SchemaFields, MenuFields
<1>3. \A f : FieldDefs(f)
  BY Fields
<1>4. Merged(m, p, c)
  BY <1>1, <1>2, <1>3 DEF Merged, MergeConfigs, FieldDefs
<1> HIDE DEF m
<1>5. m = MergeConfigs(p, c) /\ Merged(m, p, c)
  BY <1>4 DEF m
<1> QED
  BY <1>5

LEMMA MergedSpeller ==
  ASSUME NEW p, NEW c, IsSpeller(p), IsSpeller(c)
  PROVE  IsSpeller(MergeSpeller(p, c))
<1>1. CASE c = NoSpeller
  BY <1>1 DEF MergeSpeller
<1>2. CASE c # NoSpeller
  BY <1>2 DEF MergeSpeller, IsSpeller
<1> QED
  BY <1>1, <1>2

LEMMA MergedIsConfig ==
  ASSUME NEW p, NEW c, IsConfig(p), IsConfig(c)
  PROVE  IsConfig(MergeConfigs(p, c))
<1>0. PICK m : m = MergeConfigs(p, c) /\ Merged(m, p, c)
  BY MergedFields
<1>1. m = [f \in ConfigFields |-> m[f]]
  BY <1>0 DEF Merged
<1>2. \A f \in EngineLists : m[f] \in Seq(Components)
  <2> SUFFICES ASSUME NEW f \in EngineLists PROVE m[f] \in Seq(Components)
    OBVIOUS
  <2>1. m[f] = c[f] \o p[f]
    BY <1>0 DEF Merged
  <2>2. c[f] \in Seq(Components) /\ p[f] \in Seq(Components)
    BY DEF IsConfig
  <2> QED
    BY <2>1, <2>2
<1>3. m["page_size"] = c["page_size"] /\ m["schema_version"] = c["schema_version"]
  BY <1>0 DEF Merged
<1>4. m["extends"] = p["extends"]
  <2>1. "extends" \in ConfigFields /\ "extends" \notin EngineLists
    BY DEF EngineLists, ConfigFields, SchemaFields
  <2> QED
    BY <1>0, <2>1 DEF Merged
<1>5. IsSpeller(m["speller"])
  <2>1. m["speller"] = MergeSpeller(p["speller"], c["speller"])
    BY <1>0 DEF Merged
  <2>2. IsSpeller(p["speller"]) /\ IsSpeller(c["speller"])
    BY DEF IsConfig, IsSpeller
  <2> QED
    BY <2>1, <2>2, MergedSpeller
<1>6. IsConfig(m)
  BY <1>1, <1>2, <1>3, <1>4, <1>5 DEF IsConfig, IsSpeller
<1> QED
  BY <1>0, <1>6

\* What is written and read again is the same configuration.
LEMMA SurvivesWriting == ASSUME NEW c, IsConfig(c) PROVE Parsed(Serialized(c)) = c
<1> DEFINE doc == Serialized(c)
           skipped(f) == /\ f \notin {"schema_version", "page_size", "page_down_cycle"}
                         /\ c[f] = Unset(f)
           own == {f \in SchemaFields : ~ skipped(f)}
           spelled == IF c["speller"] = NoSpeller THEN {}
                      ELSE {f \in SpellerFields :
                              \/ f \in SpellerFlags \union {"max_code_length"}
                              \/ c["speller"][f] # Unset(f)}
<1>1. doc = [f \in own \union spelled |-> IF f \in own THEN c[f] ELSE c["speller"][f]]
  BY DEF Serialized
<1>2. own \subseteq SchemaFields /\ spelled \subseteq SpellerFields
  OBVIOUS
<1>3. \A f \in SchemaFields : (IF f \in DOMAIN doc THEN doc[f] ELSE Unset(f)) = c[f]
  BY <1>1, <1>2, SpellerIsNoSchemaField
<1>4. \A f \in SpellerFields : f \in DOMAIN doc <=> f \in spelled
  BY <1>1, <1>2, SpellerIsNoSchemaField
<1>5. \A f \in spelled : doc[f] = c["speller"][f]
  BY <1>1, <1>2, SpellerIsNoSchemaField
<1> HIDE DEF doc
<1>6. SpellerOf(doc) = c["speller"]
  <2>1. CASE c["speller"] = NoSpeller
    <3>1. SpellerFields \intersect DOMAIN doc = {}
      BY <1>4, <2>1
    <3> QED
      BY <2>1, <3>1 DEF SpellerOf
  <2>2. CASE c["speller"] # NoSpeller
    <3>1. c["speller"] = [f \in SpellerFields |-> c["speller"][f]]
      BY <2>2 DEF IsConfig
    <3>2. "max_code_length" \in spelled
      BY <2>2 DEF SpellerFields
    <3>3. SpellerFields \intersect DOMAIN doc # {}
      BY <1>2, <1>4, <3>2
    <3>4. \A f \in SpellerFields :
            (IF f \in DOMAIN doc THEN doc[f] ELSE Unset(f)) = c["speller"][f]
      BY <1>4, <1>5, <2>2
    <3>5. SpellerOf(doc) = [f \in SpellerFields |->
                              IF f \in DOMAIN doc THEN doc[f] ELSE Unset(f)]
      BY <3>3 DEF SpellerOf
    <3> HIDE DEF spelled
    <3>6. SpellerOf(doc) = [f \in SpellerFields |-> c["speller"][f]]
      BY <3>4, <3>5
    <3> QED
      BY <3>1, <3>6
  <2> QED
    BY <2>1, <2>2
<1>7. Parsed(doc) = [f \in ConfigFields |-> c[f]]
  <2>1. \A f \in ConfigFields :
          (IF f = "speller" THEN SpellerOf(doc)
           ELSE IF f \in DOMAIN doc THEN doc[f] ELSE Unset(f)) = c[f]
    BY <1>3, <1>6 DEF ConfigFields
  <2> QED
    BY <2>1 DEF Parsed
<1>8. c = [f \in ConfigFields |-> c[f]]
  BY DEF IsConfig
<1> QED
  BY <1>7, <1>8 DEF doc

LEMMA SpellersAssociate ==
  ASSUME NEW a, NEW b, NEW c, IsSpeller(a), IsSpeller(b), IsSpeller(c)
  PROVE  MergeSpeller(MergeSpeller(a, b), c) = MergeSpeller(a, MergeSpeller(b, c))
<1>1. CASE c = NoSpeller
  BY <1>1 DEF MergeSpeller
<1>2. CASE b = NoSpeller /\ c # NoSpeller
  <2>1. MergeSpeller(a, b) = a
    BY <1>2 DEF MergeSpeller
  <2>2. c = [f \in SpellerFields |-> c[f]]
    BY <1>2 DEF IsSpeller
  <2>3. MergeSpeller(b, c) = [f \in SpellerFields |-> c[f]]
    BY <1>2 DEF MergeSpeller, DefaultSpeller
  <2> QED
    BY <2>1, <2>2, <2>3
<1>3. CASE b # NoSpeller /\ c # NoSpeller
  <2> DEFINE lower == IF a = NoSpeller THEN DefaultSpeller ELSE a
             ab == [f \in SpellerFields |->
                      IF f \in SpellerFlags \/ b[f] # Unset(f) THEN b[f] ELSE lower[f]]
             bc == [f \in SpellerFields |->
                      IF f \in SpellerFlags \/ c[f] # Unset(f) THEN c[f] ELSE b[f]]
  <2>1. MergeSpeller(a, b) = ab /\ MergeSpeller(b, c) = bc
    BY <1>3 DEF MergeSpeller
  <2>2. ab # NoSpeller /\ bc # NoSpeller
    <3>1. DOMAIN ab = SpellerFields /\ DOMAIN bc = SpellerFields
          /\ "alphabet" \in SpellerFields
      BY DEF SpellerFields, SpellerOptions
    <3>2. DOMAIN NoSpeller = {}
      BY DEF NoSpeller
    <3> HIDE DEF ab, bc
    <3> QED
      BY <3>1, <3>2
  <2>3. MergeSpeller(ab, c) = [f \in SpellerFields |->
          IF f \in SpellerFlags \/ c[f] # Unset(f) THEN c[f] ELSE ab[f]]
    BY <1>3, <2>2 DEF MergeSpeller
  <2>4. MergeSpeller(a, bc) = [f \in SpellerFields |->
          IF f \in SpellerFlags \/ bc[f] # Unset(f) THEN bc[f] ELSE lower[f]]
    BY <2>2 DEF MergeSpeller
  <2>5. \A f \in SpellerFields :
          (IF f \in SpellerFlags \/ c[f] # Unset(f) THEN c[f] ELSE ab[f])
            = (IF f \in SpellerFlags \/ bc[f] # Unset(f) THEN bc[f] ELSE lower[f])
    OBVIOUS
  <2> HIDE DEF lower, ab, bc
  <2>6. MergeSpeller(ab, c) = MergeSpeller(a, bc)
    BY <2>3, <2>4, <2>5
  <2> QED
    BY <2>1, <2>6
<1> QED
  BY <1>1, <1>2, <1>3

\* It makes no difference whether layers are merged from above or from below.
THEOREM MergeIsAssociative ==
  ASSUME NEW a, NEW b, NEW c, IsConfig(a), IsConfig(b), IsConfig(c)
  PROVE  MergeConfigs(MergeConfigs(a, b), c) = MergeConfigs(a, MergeConfigs(b, c))
<1>1. PICK ab : ab = MergeConfigs(a, b) /\ Merged(ab, a, b)
  BY MergedFields
<1>2. PICK bc : bc = MergeConfigs(b, c) /\ Merged(bc, b, c)
  BY MergedFields
<1>3. IsConfig(ab) /\ IsConfig(bc)
  BY <1>1, <1>2, MergedIsConfig
<1>4. PICK l : l = MergeConfigs(ab, c) /\ Merged(l, ab, c)
  BY <1>3, MergedFields
<1>5. PICK r : r = MergeConfigs(a, bc) /\ Merged(r, a, bc)
  BY <1>3, MergedFields
<1>6. l = [f \in ConfigFields |-> l[f]] /\ r = [f \in ConfigFields |-> r[f]]
  BY <1>3, <1>4, <1>5 DEF Merged
<1>7. ASSUME NEW f \in ConfigFields
      PROVE  l[f] = r[f]
  <2>1. CASE f \in EngineLists
    <3>1. l[f] = c[f] \o ab[f] /\ ab[f] = b[f] \o a[f] /\ r[f] = bc[f] \o a[f]
          /\ bc[f] = c[f] \o b[f]
      BY <1>1, <1>2, <1>3, <1>4, <1>5, <2>1 DEF Merged
    <3>2. a[f] \in Seq(Components) /\ b[f] \in Seq(Components) /\ c[f] \in Seq(Components)
      BY <2>1 DEF IsConfig
    <3>3. \A x, y, z \in Seq(Components) : (x \o y) \o z = x \o (y \o z)
      BY ConcatAssociative
    <3>4. (c[f] \o b[f]) \o a[f] = c[f] \o (b[f] \o a[f])
      BY <3>2, <3>3
    <3> QED
      BY <3>1, <3>4
  <2>2. CASE f = "schema"
    <3>1. l[f] = IF c[f] # None THEN c[f] ELSE ab[f]
      BY <1>3, <1>4, <2>2 DEF Merged
    <3>2. ab[f] = IF b[f] # None THEN b[f] ELSE a[f]
      BY <1>1, <2>2 DEF Merged
    <3>3. r[f] = IF bc[f] # None THEN bc[f] ELSE a[f]
      BY <1>3, <1>5, <2>2 DEF Merged
    <3>4. bc[f] = IF c[f] # None THEN c[f] ELSE b[f]
      BY <1>2, <2>2 DEF Merged
    <3> QED
      BY <3>1, <3>2, <3>3, <3>4
  <2>3. CASE f = "switches"
    <3>1. l[f] = IF c[f] # <<>> THEN c[f] ELSE ab[f]
      BY <1>3, <1>4, <2>3 DEF Merged
    <3>2. ab[f] = IF b[f] # <<>> THEN b[f] ELSE a[f]
      BY <1>1, <2>3 DEF Merged
    <3>3. r[f] = IF bc[f] # <<>> THEN bc[f] ELSE a[f]
      BY <1>3, <1>5, <2>3 DEF Merged
    <3>4. bc[f] = IF c[f] # <<>> THEN c[f] ELSE b[f]
      BY <1>2, <2>3 DEF Merged
    <3> QED
      BY <3>1, <3>2, <3>3, <3>4
  <2>4. CASE f = "speller"
    <3>1. l[f] = MergeSpeller(MergeSpeller(a[f], b[f]), c[f])
      BY <1>1, <1>3, <1>4, <2>4 DEF Merged
    <3>2. r[f] = MergeSpeller(a[f], MergeSpeller(b[f], c[f]))
      BY <1>2, <1>3, <1>5, <2>4 DEF Merged
    <3>3. IsSpeller(a[f]) /\ IsSpeller(b[f]) /\ IsSpeller(c[f])
      BY <2>4 DEF IsConfig, IsSpeller
    <3> QED
      BY <3>1, <3>2, <3>3, SpellersAssociate
  <2>5. CASE f \in {"page_size", "page_down_cycle", "schema_version"}
    BY <1>2, <1>3, <1>4, <1>5, <2>5 DEF Merged
  <2>6. CASE f \notin EngineLists \union {"schema", "switches", "speller", "page_size",
                                          "page_down_cycle", "schema_version"}
    <3>1. l[f] = ab[f] /\ r[f] = a[f]
      BY <1>3, <1>4, <1>5, <2>6 DEF Merged
    <3>2. ab[f] = a[f]
      BY <1>1, <2>6 DEF Merged
    <3> QED
      BY <3>1, <3>2
  <2> QED
    BY <2>1, <2>2, <2>3, <2>4, <2>5, <2>6
<1>8. l = r
  BY <1>6, <1>7
<1> QED
  BY <1>1, <1>2, <1>4, <1>5, <1>8

-----------------------------------------------------------------------------
(***************************************************************************)
(* A layer below a stack.                                                  *)
(***************************************************************************)
LEMMA LeastIsMin ==
  ASSUME NEW S, S \subseteq Nat, S # {}
  PROVE  Min(S) \in S /\ \A m \in S : Min(S) <= m
<1>1. PICK n \in S : \A m \in S : n <= m
  BY Merges!LeastNumber
<1> QED
  BY <1>1 DEF Min

\* Layers that are said below those of L.
Below(M, L, n, p) ==
  /\ DOMAIN L = 1 .. n
  /\ M = [i \in 1 .. n + 1 |-> IF i = n + 1 THEN p ELSE L[i]]

LEMMA TopmostUnset ==
  ASSUME NEW n \in Nat, NEW v, DOMAIN v = 1 .. n, NEW u
  PROVE  Topmost(v, u) = u <=> \A i \in 1 .. n : v[i] = u
<1> DEFINE given == {i \in DOMAIN v : v[i] # u}
<1>1. given # {} => Min(given) \in given
  <2>1. given \subseteq Nat
    OBVIOUS
  <2> HIDE DEF given
  <2> QED
    BY <2>1, LeastIsMin
<1>2. Topmost(v, u) = IF given = {} THEN u ELSE v[Min(given)]
  BY DEF Topmost
<1> QED
  BY <1>1, <1>2

\* The topmost value is found before the lowest layer is asked.
LEMMA TopmostBelow ==
  ASSUME NEW n \in Nat, NEW v, NEW w, NEW x, Below(w, v, n, x), NEW u
  PROVE  Topmost(w, u) = IF Topmost(v, u) # u THEN Topmost(v, u) ELSE x
<1> DEFINE G == {i \in DOMAIN v : v[i] # u}
           H == {i \in DOMAIN w : w[i] # u}
<1>1. /\ G \subseteq 1 .. n /\ H \subseteq 1 .. n + 1 /\ G \subseteq H
      /\ \A i \in H : i # n + 1 => i \in G
      /\ \A i \in 1 .. n : w[i] = v[i]
      /\ w[n + 1] = x
      /\ n + 1 \in H <=> x # u
  BY DEF Below
<1>2. Topmost(v, u) = IF G = {} THEN u ELSE v[Min(G)]
  BY DEF Topmost
<1>3. Topmost(w, u) = IF H = {} THEN u ELSE w[Min(H)]
  BY DEF Topmost
<1>4. \A i \in G : v[i] # u
  OBVIOUS
<1> HIDE DEF G, H
<1>5. CASE G = {}
  <2>1. Topmost(v, u) = u /\ H \subseteq {n + 1}
    BY <1>1, <1>2, <1>5
  <2>2. H # {} => H = {n + 1}
    BY <2>1
  <2>3. H # {} => Min(H) = n + 1
    BY <2>2, LeastIsMin
  <2> QED
    BY <1>1, <1>3, <2>1, <2>2, <2>3
<1>6. CASE G # {}
  <2>0. G \subseteq Nat /\ H \subseteq Nat /\ H # {}
    <3>1. G \subseteq 1 .. n /\ H \subseteq 1 .. n + 1 /\ G \subseteq H
      BY <1>1
    <3>2. 1 .. n \subseteq Nat /\ 1 .. n + 1 \subseteq Nat
      OBVIOUS
    <3> QED
      BY <1>6, <3>1, <3>2, Zenon
  <2>1. Min(G) \in G /\ \A m \in G : Min(G) <= m
    BY <1>6, <2>0, LeastIsMin
  <2>2. Min(H) \in H /\ \A m \in H : Min(H) <= m
    BY <2>0, LeastIsMin
  <2>3. Min(H) = Min(G)
    <3>1. Min(H) <= Min(G) /\ Min(G) \in 1 .. n /\ Min(H) \in 1 .. n + 1
      BY <1>1, <2>1, <2>2
    <3>2. Min(H) \in G
      BY <1>1, <2>2, <3>1
    <3>3. Min(G) <= Min(H)
      BY <2>1, <3>2
    <3> QED
      BY <3>1, <3>3
  <2>4. Topmost(v, u) # u /\ w[Min(H)] = v[Min(G)]
    BY <1>1, <1>2, <1>4, <1>6, <2>1, <2>3
  <2>5. H # {}
    BY <2>2
  <2> QED
    BY <1>2, <1>3, <1>6, <2>4, <2>5
<1> QED
  BY <1>5, <1>6

LEMMA ColumnBelow ==
  ASSUME NEW n \in Nat, NEW L, NEW M, NEW p, Below(M, L, n, p), NEW f
  PROVE  Below(Column(M, f), Column(L, f), n, p[f])
<1>1. Column(L, f) = [i \in 1 .. n |-> L[i][f]]
  BY DEF Column, Below
<1>2. Column(M, f) = [i \in 1 .. n + 1 |-> (IF i = n + 1 THEN p ELSE L[i])[f]]
  BY DEF Column, Below
<1>3. \A i \in 1 .. n + 1 :
        (IF i = n + 1 THEN p ELSE L[i])[f] = IF i = n + 1 THEN p[f] ELSE Column(L, f)[i]
  BY <1>1
<1> QED
  BY <1>1, <1>2, <1>3 DEF Below

\* Lists are joined.
LEMMA ListsBelow ==
  ASSUME NEW n \in Nat, NEW L, NEW M, NEW p, Below(M, L, n, p),
         IsConfig(p), \A i \in 1 .. n : IsConfig(L[i]),
         NEW f \in EngineLists
  PROVE  FlattenSeq(Column(M, f)) = FlattenSeq(Column(L, f)) \o p[f]
<1> DEFINE T == Seq(Components)
<1>1. PICK q : q = Column(L, f)
  OBVIOUS
<1>2. PICK r : r = Column(M, f)
  OBVIOUS
<1>3. Below(r, q, n, p[f])
  BY <1>1, <1>2, ColumnBelow
<1>4. p[f] \in T /\ q \in [1 .. n -> T]
  BY <1>1, <1>3 DEF IsConfig, Column, Below
<1>5. q \in Seq(T) /\ Len(q) = n
  <2> HIDE DEF T
  <2> QED
    BY <1>4
<1>6. r = Append(q, p[f])
  <2> HIDE DEF T
  <2>1. DOMAIN Append(q, p[f]) = 1 .. n + 1
        /\ \A i \in 1 .. n : Append(q, p[f])[i] = q[i]
        /\ Append(q, p[f])[n + 1] = p[f]
    BY <1>4, <1>5, AppendProperties
  <2>2. Append(q, p[f]) = [i \in 1 .. n + 1 |-> Append(q, p[f])[i]]
    BY <1>4, <1>5
  <2> QED
    BY <1>3, <2>1, <2>2 DEF Below
<1>7. Merges!FlattenSeq(Append(q, p[f])) = Merges!FlattenSeq(q) \o p[f]
  BY <1>4, <1>5, Merges!FlattenAppend
<1>8. \A s : FlattenSeq(s) = Merges!FlattenSeq(s)
  BY Zenon DEF FlattenSeq, Merges!FlattenSeq
<1> QED
  BY <1>1, <1>2, <1>6, <1>7, <1>8

SpellerColumn(L, f) == [i \in DOMAIN L |-> SpellerField(L[i], f)]

\* The speller of a stack: its flags are the topmost speller's, its options and
\* lists those of the topmost layer that gives them.
LEMMA SpellersBelow ==
  ASSUME NEW n \in Nat, NEW L, NEW M, NEW p, Below(M, L, n, p),
         IsConfig(p), \A i \in 1 .. n : IsConfig(L[i])
  PROVE  StackedSpeller(M) = MergeSpeller(p["speller"], StackedSpeller(L))
<1> DEFINE s == p["speller"]
           T == Topmost(Column(L, "speller"), NoSpeller)
           B == Topmost(Column(M, "speller"), NoSpeller)
           t(f) == Topmost(SpellerColumn(L, f), Unset(f))
           b(f) == Topmost(SpellerColumn(M, f), Unset(f))
           low(f) == SpellerField(p, f)
<1>1. B = IF T # NoSpeller THEN T ELSE s
  <2>1. Below(Column(M, "speller"), Column(L, "speller"), n, s)
    BY ColumnBelow
  <2> QED
    BY <2>1, TopmostBelow
<1>2. \A f : b(f) = IF t(f) # Unset(f) THEN t(f) ELSE low(f)
  <2> SUFFICES ASSUME NEW f PROVE b(f) = IF t(f) # Unset(f) THEN t(f) ELSE low(f)
    OBVIOUS
  <2>1. SpellerColumn(L, f) = [i \in 1 .. n |-> SpellerField(L[i], f)]
    BY DEF SpellerColumn, Below
  <2>2. \A i \in 1 .. n + 1 :
          SpellerField(M[i], f) = IF i = n + 1 THEN low(f) ELSE SpellerColumn(L, f)[i]
    BY <2>1 DEF Below
  <2>3. SpellerColumn(M, f) = [i \in 1 .. n + 1 |-> SpellerField(M[i], f)]
    BY DEF SpellerColumn, Below
  <2>4. Below(SpellerColumn(M, f), SpellerColumn(L, f), n, low(f))
    BY <2>1, <2>2, <2>3 DEF Below
  <2> QED
    BY <2>4, TopmostBelow
<1>3. StackedSpeller(L) =
        IF T = NoSpeller THEN NoSpeller
        ELSE [f \in SpellerFields |-> IF f \in SpellerFlags THEN T[f] ELSE t(f)]
  BY Zenon DEF StackedSpeller, SpellerColumn
<1>4. StackedSpeller(M) =
        IF B = NoSpeller THEN NoSpeller
        ELSE [f \in SpellerFields |-> IF f \in SpellerFlags THEN B[f] ELSE b(f)]
  BY Zenon DEF StackedSpeller, SpellerColumn
<1>5. s = NoSpeller \/ s = [f \in SpellerFields |-> s[f]]
  BY DEF IsConfig
<1>6. \A f : low(f) = IF s = NoSpeller THEN Unset(f) ELSE s[f]
  BY DEF SpellerField
<1>7. T = NoSpeller => \A f : t(f) = Unset(f)
  <2> SUFFICES ASSUME T = NoSpeller, NEW f PROVE t(f) = Unset(f)
    OBVIOUS
  <2>1. DOMAIN Column(L, "speller") = 1 .. n /\ DOMAIN SpellerColumn(L, f) = 1 .. n
        /\ \A i \in 1 .. n : Column(L, "speller")[i] = L[i]["speller"]
                             /\ SpellerColumn(L, f)[i] = SpellerField(L[i], f)
    BY DEF Column, SpellerColumn, Below
  <2>2. \A i \in 1 .. n : L[i]["speller"] = NoSpeller
    BY <2>1, TopmostUnset
  <2>3. \A i \in 1 .. n : SpellerColumn(L, f)[i] = Unset(f)
    BY <2>1, <2>2 DEF SpellerField
  <2> QED
    BY <2>1, <2>3, TopmostUnset
<1> HIDE DEF s, T, B, t, b, low
<1>8. CASE T = NoSpeller
  <2>1. StackedSpeller(L) = NoSpeller /\ B = s
    BY <1>1, <1>3, <1>8
  <2>2. MergeSpeller(s, StackedSpeller(L)) = s
    BY <2>1 DEF MergeSpeller
  <2>3. s # NoSpeller => \A f : b(f) = s[f]
    BY <1>2, <1>6, <1>7, <1>8
  <2>4. s # NoSpeller => StackedSpeller(M) = [f \in SpellerFields |-> s[f]]
    BY <1>4, <2>1, <2>3
  <2>5. StackedSpeller(M) = s
    BY <1>4, <1>5, <2>1, <2>4
  <2> QED
    BY <2>2, <2>5 DEF s
<1>9. CASE T # NoSpeller
  <2> DEFINE u == [f \in SpellerFields |-> IF f \in SpellerFlags THEN T[f] ELSE t(f)]
  <2>1. StackedSpeller(L) = u
    BY <1>3, <1>9
  <2>2. u # NoSpeller
    BY SpellerThere
  <2>3. StackedSpeller(M) =
          [f \in SpellerFields |-> IF f \in SpellerFlags THEN T[f] ELSE b(f)]
    BY <1>1, <1>4, <1>9
  <2>4. MergeSpeller(s, u) =
          [f \in SpellerFields |->
             IF f \in SpellerFlags \/ u[f] # Unset(f) THEN u[f]
             ELSE (IF s = NoSpeller THEN DefaultSpeller ELSE s)[f]]
    BY <2>2 DEF MergeSpeller
  <2>5. \A f \in SpellerFields :
          (IF f \in SpellerFlags THEN T[f] ELSE b(f))
            = (IF f \in SpellerFlags \/ u[f] # Unset(f) THEN u[f]
               ELSE (IF s = NoSpeller THEN DefaultSpeller ELSE s)[f])
    <3> SUFFICES ASSUME NEW f \in SpellerFields
                 PROVE  (IF f \in SpellerFlags THEN T[f] ELSE b(f))
                          = (IF f \in SpellerFlags \/ u[f] # Unset(f) THEN u[f]
                             ELSE (IF s = NoSpeller THEN DefaultSpeller ELSE s)[f])
      OBVIOUS
    <3>1. (IF s = NoSpeller THEN DefaultSpeller ELSE s)[f] = low(f)
      BY <1>6 DEF DefaultSpeller
    <3>2. b(f) = IF t(f) # Unset(f) THEN t(f) ELSE low(f)
      BY <1>2
    <3>3. u[f] = IF f \in SpellerFlags THEN T[f] ELSE t(f)
      OBVIOUS
    <3> HIDE DEF u
    <3> QED
      BY <3>1, <3>2, <3>3
  <2> HIDE DEF u
  <2>6. StackedSpeller(M) = MergeSpeller(s, u)
    BY <2>3, <2>4, <2>5
  <2> QED
    BY <2>1, <2>6 DEF s
<1> QED
  BY <1>8, <1>9

\* What a stack is in each field.
IsStack(k, L) ==
  /\ k = [f \in ConfigFields |-> k[f]]
  /\ \A f \in EngineLists : k[f] = FlattenSeq(Column(L, f))
  /\ k["schema"] = Topmost(Column(L, "schema"), None)
  /\ k["switches"] = Topmost(Column(L, "switches"), <<>>)
  /\ k["speller"] = StackedSpeller(L)
  /\ \A f \in {"page_size", "page_down_cycle", "schema_version"} : k[f] = L[1][f]
  /\ \A f \in ConfigFields :
       f \notin EngineLists \union {"schema", "switches", "speller", "page_size",
                                    "page_down_cycle", "schema_version"}
         => k[f] = L[Len(L)][f]

LEMMA StackFields == ASSUME NEW L PROVE \E k : k = Stacked(L) /\ IsStack(k, L)
<1> DEFINE k == Stacked(L)
<1>1. EngineLists \subseteq ConfigFields
      /\ {"schema", "switches", "speller", "page_size", "page_down_cycle", "schema_version"}
           \subseteq ConfigFields
  BY DEF EngineLists, ConfigFields, SchemaFields, MenuFields
<1>2. \A f : FieldDefs(f)
  BY Fields
<1>3. Unset("schema") = None /\ Unset("switches") = <<>>
  BY DEF Unset, EngineLists, SpellerFlags
<1>4. k = [f \in ConfigFields |->
     CASE f \in EngineLists            -> FlattenSeq(Column(L, f))
       [] f \in {"schema", "switches"} -> Topmost(Column(L, f), Unset(f))
       [] f = "speller"                -> StackedSpeller(L)
       [] f \in {"page_size", "page_down_cycle", "schema_version"} -> L[1][f]
       [] OTHER                        -> L[Len(L)][f]]
  BY DEF Stacked
<1> HIDE DEF k
<1>5. IsStack(k, L)
  BY <1>1, <1>2, <1>3, <1>4 DEF IsStack, FieldDefs
<1>6. k = Stacked(L) /\ IsStack(k, L)
  BY <1>5 DEF k
<1> QED
  BY <1>6

\* A stack with a layer below it is the stack merged over that layer.
LEMMA StackBelow ==
  ASSUME NEW n \in Nat \ {0}, NEW L, NEW M, NEW p, Below(M, L, n, p),
         IsConfig(p), \A i \in 1 .. n : IsConfig(L[i]), IsConfig(Stacked(L))
  PROVE  Stacked(M) = MergeConfigs(p, Stacked(L))
<1>1. PICK k : k = Stacked(L) /\ IsStack(k, L)
  BY StackFields
<1>2. PICK l : l = Stacked(M) /\ IsStack(l, M)
  BY StackFields
<1>3. PICK m : m = MergeConfigs(p, k) /\ Merged(m, p, k)
  BY <1>1, MergedFields
<1>4. l = [f \in ConfigFields |-> l[f]] /\ m = [f \in ConfigFields |-> m[f]]
  BY <1>2, <1>3 DEF IsStack, Merged
<1>5. ASSUME NEW f \in ConfigFields
      PROVE  l[f] = m[f]
  <2>1. CASE f \in EngineLists
    <3>1. l[f] = FlattenSeq(Column(M, f)) /\ k[f] = FlattenSeq(Column(L, f))
      BY <1>1, <1>2, <2>1 DEF IsStack
    <3>2. m[f] = k[f] \o p[f]
      BY <1>3, <2>1 DEF Merged
    <3> QED
      BY <2>1, <3>1, <3>2, ListsBelow
  <2>2. CASE f = "schema"
    <3>1. l[f] = Topmost(Column(M, f), None) /\ k[f] = Topmost(Column(L, f), None)
      BY <1>1, <1>2, <2>2 DEF IsStack
    <3>2. m[f] = IF k[f] # None THEN k[f] ELSE p[f]
      BY <1>3, <2>2 DEF Merged
    <3>3. Below(Column(M, f), Column(L, f), n, p[f])
      BY ColumnBelow
    <3> QED
      BY <3>1, <3>2, <3>3, TopmostBelow
  <2>3. CASE f = "switches"
    <3>1. l[f] = Topmost(Column(M, f), <<>>) /\ k[f] = Topmost(Column(L, f), <<>>)
      BY <1>1, <1>2, <2>3 DEF IsStack
    <3>2. m[f] = IF k[f] # <<>> THEN k[f] ELSE p[f]
      BY <1>3, <2>3 DEF Merged
    <3>3. Below(Column(M, f), Column(L, f), n, p[f])
      BY ColumnBelow
    <3> QED
      BY <3>1, <3>2, <3>3, TopmostBelow
  <2>4. CASE f = "speller"
    <3>1. l[f] = StackedSpeller(M) /\ k[f] = StackedSpeller(L)
      BY <1>1, <1>2, <2>4 DEF IsStack
    <3>2. m[f] = MergeSpeller(p[f], k[f])
      BY <1>3, <2>4 DEF Merged
    <3> QED
      BY <2>4, <3>1, <3>2, SpellersBelow
  <2>5. CASE f \in {"page_size", "page_down_cycle", "schema_version"}
    <3>1. l[f] = M[1][f] /\ k[f] = L[1][f]
      BY <1>1, <1>2, <2>5 DEF IsStack
    <3>2. m[f] = k[f]
      BY <1>3, <2>5 DEF Merged
    <3>3. M[1] = L[1]
      BY DEF Below
    <3> QED
      BY <3>1, <3>2, <3>3
  <2>6. CASE f \notin EngineLists \union {"schema", "switches", "speller", "page_size",
                                          "page_down_cycle", "schema_version"}
    <3>1. l[f] = M[Len(M)][f]
      BY <1>2, <2>6 DEF IsStack
    <3>2. m[f] = p[f]
      BY <1>3, <2>6 DEF Merged
    <3>3. Len(M) = n + 1 /\ M[n + 1] = p
      BY DEF Below
    <3> QED
      BY <3>1, <3>2, <3>3
  <2> QED
    BY <2>1, <2>2, <2>3, <2>4, <2>5, <2>6
<1> QED
  BY <1>1, <1>2, <1>3, <1>4, <1>5

-----------------------------------------------------------------------------
(***************************************************************************)
(* Loading a file with its parents.                                        *)
(***************************************************************************)
LEMMA StackOfOne ==
  ASSUME NEW c, IsConfig(c), NEW M, Below(M, <<>>, 0, c)
  PROVE  Stacked(M) = c
<1>1. PICK l : l = Stacked(M) /\ IsStack(l, M)
  BY StackFields
<1>2. \A f : Column(<<>>, f) = <<>>
  BY DEF Column
<1>3. \A u : Topmost(<<>>, u) = u
  BY DEF Topmost
<1>4. \A f, u : Topmost(Column(M, f), u) = c[f]
  <2> SUFFICES ASSUME NEW f, NEW u PROVE Topmost(Column(M, f), u) = c[f]
    OBVIOUS
  <2>1. PICK e : e = <<>>
    OBVIOUS
  <2>2. PICK w, x : w = Column(M, f) /\ x = c[f]
    OBVIOUS
  <2>3. Below(w, e, 0, x) /\ 0 \in Nat
    BY <1>2, <2>1, <2>2, ColumnBelow
  <2>4. Topmost(w, u) = IF Topmost(e, u) # u THEN Topmost(e, u) ELSE x
    BY <2>3, TopmostBelow
  <2> QED
    BY <1>3, <2>1, <2>2, <2>4
<1>5. M[1] = c /\ Len(M) = 1
  BY DEF Below
<1>6. l = [f \in ConfigFields |-> l[f]] /\ c = [f \in ConfigFields |-> c[f]]
  BY <1>1 DEF IsStack, IsConfig
<1>7. ASSUME NEW f \in ConfigFields
      PROVE  l[f] = c[f]
  <2>1. CASE f \in EngineLists
    <3>1. FlattenSeq(<<>>) = <<>>
      BY DEF FlattenSeq
    <3>2. l[f] = FlattenSeq(Column(M, f))
      BY <1>1, <2>1 DEF IsStack
    <3>3. FlattenSeq(Column(M, f)) = FlattenSeq(Column(<<>>, f)) \o c[f]
      BY <2>1, ListsBelow
    <3>4. c[f] \in Seq(Components)
      BY <2>1 DEF IsConfig
    <3> QED
      BY <1>2, <3>1, <3>2, <3>3, <3>4, ConcatEmptySeq
  <2>2. CASE f = "speller"
    <3>1. StackedSpeller(<<>>) = NoSpeller
      BY <1>2, <1>3, Zenon DEF StackedSpeller
    <3>2. StackedSpeller(M) = MergeSpeller(c[f], StackedSpeller(<<>>))
      BY <2>2, SpellersBelow
    <3> QED
      BY <1>1, <2>2, <3>1, <3>2 DEF IsStack, MergeSpeller
  <2>3. CASE f \in {"schema", "switches"}
    BY <1>1, <1>4, <2>3 DEF IsStack
  <2>4. CASE f \notin EngineLists \union {"schema", "switches", "speller"}
    BY <1>1, <1>5, <2>4 DEF IsStack
  <2> QED
    BY <2>1, <2>2, <2>3, <2>4
<1> QED
  BY <1>1, <1>6, <1>7

\* Whatever a file holds, reading it gives a configuration, the default one with
\* an error.
LEMMA ReadIsConfig == ASSUME NEW name PROVE IsConfig(Read(name).config)
<1>1. CASE schemas[name] = Missing \/ ~ Parses(schemas[name])
  BY <1>1, DefaultIsConfig DEF Read, Error
<1>2. CASE schemas[name] # Missing /\ Parses(schemas[name])
  <2>1. Read(name).config = Parsed(schemas[name])
    BY <1>2 DEF Read, Ok
  <2> QED
    BY <1>2, <2>1, ParsedIsConfig
<1> QED
  BY <1>1, <1>2

\* The files named by the first k of q can be read and are not named twice.
Loadable(q, k) ==
  /\ \A i \in 1 .. k : Read(q[i]).error = "none"
  /\ \A i, j \in 1 .. k : q[i] = q[j] => i = j

Layers(child, q, k) ==
  [i \in 1 .. k + 1 |-> IF i = 1 THEN child ELSE Read(q[i - 1]).config]

\* What resolve_extends has come to after k parents.
Loading(r, child, q, k) ==
  /\ r = [visited |-> r.visited, result |-> r.result]
  /\ IsConfig(r.result.config)
  /\ r.result.error = "none" <=> Loadable(q, k)
  /\ Loadable(q, k) =>
       /\ r.visited = {q[i] : i \in 1 .. k}
       /\ r.result.config = Stacked(Layers(child, q, k))

LEMMA LoadingBegins ==
  ASSUME NEW child, IsConfig(child), NEW q
  PROVE  Loading([visited |-> {}, result |-> Ok(child)], child, q, 0)
<1>1. Below(Layers(child, q, 0), <<>>, 0, child)
  BY DEF Below, Layers
<1>2. Stacked(Layers(child, q, 0)) = child
  BY <1>1, StackOfOne
<1>3. Loadable(q, 0)
  BY DEF Loadable
<1>4. {q[i] : i \in 1 .. 0} = {}
  OBVIOUS
<1> QED
  BY <1>2, <1>3, <1>4 DEF Loading, Ok

LEMMA LoadingGoesOn ==
  ASSUME NEW child, IsConfig(child), NEW q, NEW k \in Nat, NEW r,
         Loading(r, child, q, k)
  PROVE  Loading(Extend(r, q[k + 1]), child, q, k + 1)
<1> DEFINE name == q[k + 1]
           parent == Read(name)
           s == Extend(r, name)
<1>1. Loadable(q, k + 1) <=> /\ Loadable(q, k)
                             /\ parent.error = "none"
                             /\ name \notin {q[i] : i \in 1 .. k}
  <2>1. \A i : i \in 1 .. k + 1 <=> i \in 1 .. k \/ i = k + 1
    OBVIOUS
  <2>2. k + 1 \notin 1 .. k
    OBVIOUS
  <2> QED
    BY <2>1, <2>2, Zenon DEF Loadable
<1>2. IsConfig(parent.config)
  BY ReadIsConfig
<1>3. CASE r.result.error # "none"
  <2>1. s = r
    BY <1>3 DEF Extend
  <2> QED
    BY <1>1, <1>3, <2>1 DEF Loading
<1>4. CASE r.result.error = "none" /\ name \in r.visited
  <2>1. s = [r EXCEPT !.result = Error("CircularExtends")]
    BY <1>4 DEF Extend
  <2>2. s = [visited |-> r.visited, result |-> Error("CircularExtends")]
    BY <2>1 DEF Loading
  <2>3. s.result.error = "CircularExtends" /\ s.result.config = DefaultConfig
    BY <2>2 DEF Error
  <2>4. ~ Loadable(q, k + 1)
    BY <1>1, <1>4 DEF Loading
  <2> QED
    BY <2>2, <2>3, <2>4, DefaultIsConfig DEF Loading
<1>5. CASE r.result.error = "none" /\ name \notin r.visited
  <2>1. s = [visited |-> r.visited \union {name},
             result  |-> IF parent.error # "none" THEN parent
                         ELSE Ok(MergeConfigs(parent.config, r.result.config))]
    BY <1>5 DEF Extend
  <2>2. Loadable(q, k) /\ r.visited = {q[i] : i \in 1 .. k}
        /\ r.result.config = Stacked(Layers(child, q, k)) /\ IsConfig(r.result.config)
    BY <1>5 DEF Loading
  <2>3. Loadable(q, k + 1) <=> parent.error = "none"
    BY <1>1, <1>5, <2>2
  <2>4. CASE parent.error # "none"
    <3>1. s.result = parent /\ s = [visited |-> s.visited, result |-> s.result]
      BY <2>1, <2>4
    <3> QED
      BY <1>2, <2>3, <2>4, <3>1 DEF Loading
  <2>5. CASE parent.error = "none"
    <3>1. /\ s = [visited |-> s.visited, result |-> s.result]
          /\ s.visited = r.visited \union {name}
          /\ s.result.error = "none"
          /\ s.result.config = MergeConfigs(parent.config, r.result.config)
      BY <2>1, <2>5 DEF Ok
    <3>2. IsConfig(s.result.config)
      BY <1>2, <2>2, <3>1, MergedIsConfig
    <3>3. s.visited = {q[i] : i \in 1 .. k + 1}
      BY <2>2, <3>1
    <3>4. Stacked(Layers(child, q, k + 1)) = MergeConfigs(parent.config, r.result.config)
      <4>1. Below(Layers(child, q, k + 1), Layers(child, q, k), k + 1, parent.config)
        BY DEF Below, Layers
      <4>2. \A i \in 1 .. k + 1 : IsConfig(Layers(child, q, k)[i])
        BY ReadIsConfig DEF Layers
      <4>3. k + 1 \in Nat \ {0}
        OBVIOUS
      <4> QED
        BY <1>2, <2>2, <4>1, <4>2, <4>3, StackBelow
    <3> HIDE DEF s
    <3>5. Loading(s, child, q, k + 1)
      BY <2>3, <2>5, <3>1, <3>2, <3>3, <3>4 DEF Loading
    <3> QED
      BY <3>5 DEF s
  <2> QED
    BY <2>4, <2>5
<1> QED
  BY <1>3, <1>4, <1>5

LEMMA ReversedStack ==
  ASSUME NEW child, NEW ext \in Seq(Names), NEW q, q = Reverse(ext), NEW n, n = Len(ext)
  PROVE  LET below == Reverse([i \in DOMAIN ext |-> Read(ext[i]).config])
         IN  <<child>> \o below = Layers(child, q, n)
<1> DEFINE cs == [i \in 1 .. n |-> Read(ext[i]).config]
           V  == {Read(ext[i]).config : i \in 1 .. n} \union {child}
           below == [i \in 1 .. n |-> cs[(n - i) + 1]]
<1>1. n \in Nat /\ DOMAIN ext = 1 .. n
  BY LenProperties
<1>2. q = [i \in 1 .. n |-> ext[(n - i) + 1]]
  BY DEF Reverse
<1>3. cs \in [1 .. n -> V]
  OBVIOUS
<1>4. cs \in Seq(V) /\ Len(cs) = n
  <2> HIDE DEF V, cs
  <2> QED
    BY <1>1, <1>3
<1>5. Reverse(cs) = below
  BY <1>4 DEF Reverse
<1>6. below \in [1 .. n -> V]
  <2>1. \A i \in 1 .. n : (n - i) + 1 \in 1 .. n
    BY <1>1
  <2> HIDE DEF V, cs
  <2> QED
    BY <1>3, <2>1
<1>7. below \in Seq(V) /\ Len(below) = n
  <2> HIDE DEF V, below
  <2> QED
    BY <1>1, <1>6
<1>8. <<child>> \in Seq(V) /\ Len(<<child>>) = 1
  OBVIOUS
<1>9. /\ <<child>> \o below \in Seq(V)
      /\ Len(<<child>> \o below) = 1 + n
      /\ \A i \in 1 .. 1 + n : (<<child>> \o below)[i] =
           IF i <= 1 THEN <<child>>[i] ELSE below[i - 1]
  <2> HIDE DEF V, below
  <2> QED
    BY <1>7, <1>8, ConcatProperties
<1>10. \A i \in 1 .. n : below[i] = Read(q[i]).config
  <2>1. \A i \in 1 .. n : (n - i) + 1 \in 1 .. n
    BY <1>1
  <2> QED
    BY <1>2, <2>1
<1>11. \A i \in 1 .. n + 1 : (<<child>> \o below)[i] = Layers(child, q, n)[i]
  <2> SUFFICES ASSUME NEW i \in 1 .. n + 1
               PROVE  (<<child>> \o below)[i] = Layers(child, q, n)[i]
    OBVIOUS
  <2>1. i \in 1 .. 1 + n /\ (i # 1 => i - 1 \in 1 .. n) /\ (i <= 1 <=> i = 1)
    BY <1>1
  <2>2. (<<child>> \o below)[i] = IF i <= 1 THEN <<child>>[i] ELSE below[i - 1]
    BY <1>9, <2>1
  <2>3. Layers(child, q, n)[i] = IF i = 1 THEN child ELSE Read(q[i - 1]).config
    BY DEF Layers
  <2> HIDE DEF below
  <2>4. CASE i = 1
    <3>1. <<child>>[1] = child
      OBVIOUS
    <3> QED
      BY <2>2, <2>3, <2>4, <3>1
  <2>5. CASE i # 1
    <3>1. below[i - 1] = Read(q[i - 1]).config
      BY <1>10, <2>1, <2>5
    <3> QED
      BY <2>1, <2>2, <2>3, <2>5, <3>1
  <2> QED
    BY <2>4, <2>5
<1>12. <<child>> \o below = [i \in 1 .. n + 1 |-> (<<child>> \o below)[i]]
  <2> HIDE DEF below, V
  <2> QED
    BY <1>1, <1>9
<1>13. Layers(child, q, n) = [i \in 1 .. n + 1 |-> Layers(child, q, n)[i]]
  BY DEF Layers
<1>14. <<child>> \o below = Layers(child, q, n)
  <2> HIDE DEF below
  <2> QED
    BY <1>11, <1>12, <1>13
<1>15. [i \in DOMAIN ext |-> Read(ext[i]).config] = cs
  BY <1>1
<1> HIDE DEF cs, below
<1> QED
  BY <1>5, <1>14, <1>15

LEMMA ReversedLoads ==
  ASSUME NEW ext \in Seq(Names), NEW q, q = Reverse(ext), NEW n, n = Len(ext)
  PROVE  Loadable(q, n) <=> /\ \A i \in DOMAIN ext : Read(ext[i]).error = "none"
                            /\ IsInjective(ext)
<1>1. n \in Nat /\ DOMAIN ext = 1 .. n
  BY LenProperties
<1>2. q = [i \in 1 .. n |-> ext[(n - i) + 1]]
  BY DEF Reverse
<1>3. \A i \in 1 .. n : /\ (n - i) + 1 \in 1 .. n
                        /\ (n - ((n - i) + 1)) + 1 = i
                        /\ q[i] = ext[(n - i) + 1]
  BY <1>1, <1>2
<1>4. \A i \in 1 .. n : ext[i] = q[(n - i) + 1]
  BY <1>3
<1>5. (\A i \in 1 .. n : Read(q[i]).error = "none")
        <=> \A i \in DOMAIN ext : Read(ext[i]).error = "none"
  BY <1>1, <1>3, <1>4
<1>6. (\A i, j \in 1 .. n : q[i] = q[j] => i = j) <=> IsInjective(ext)
  <2>1. ASSUME \A i, j \in 1 .. n : q[i] = q[j] => i = j,
               NEW a \in 1 .. n, NEW b \in 1 .. n, ext[a] = ext[b]
        PROVE  a = b
    <3>1. (n - a) + 1 = (n - b) + 1
      BY <1>3, <1>4, <2>1
    <3> QED
      BY <1>1, <3>1
  <2>2. ASSUME IsInjective(ext), NEW a \in 1 .. n, NEW b \in 1 .. n, q[a] = q[b]
        PROVE  a = b
    <3>1. PICK x \in 1 .. n : x = (n - a) + 1
      BY <1>3
    <3>2. PICK y \in 1 .. n : y = (n - b) + 1
      BY <1>3
    <3>3. ext[x] = ext[y]
      BY <1>3, <2>2, <3>1, <3>2
    <3>4. x = y
      BY <1>1, <2>2, <3>3 DEF IsInjective
    <3> QED
      BY <1>1, <3>1, <3>2, <3>4
  <2> QED
    BY <1>1, <2>1, <2>2 DEF IsInjective
<1> QED
  BY <1>5, <1>6 DEF Loadable

\* What load_file returns is a configuration, and loaded as LoadStacks says.
LEMMA FileLoadsAs ==
  ASSUME NEW name \in Names
  PROVE  IsConfig(LoadFile(name).config) /\ LoadsAs(name, LoadFile(name))
<1> DEFINE own == Read(name)
<1>1. CASE own.error # "none"
  BY <1>1, ReadIsConfig DEF LoadFile, LoadsAs
<1>2. CASE own.error = "none"
  <2>1. PICK child : child = WithoutParents(own.config)
    OBVIOUS
  <2>2. PICK ext \in Seq(Names) : ext = own.config["extends"]
    BY ReadIsConfig DEF IsConfig
  <2>3. PICK q : q = Reverse(ext)
    OBVIOUS
  <2>4. PICK n \in Nat : n = Len(ext) /\ DOMAIN q = 1 .. n
    BY <2>3 DEF Reverse
  <2>5. IsConfig(child)
    <3>1. IsConfig(own.config)
      BY ReadIsConfig
    <3>2. PICK c : c = own.config
      OBVIOUS
    <3>3. c = [f \in ConfigFields |-> c[f]] /\ "extends" \in ConfigFields
      BY <3>1, <3>2 DEF IsConfig, ConfigFields, SchemaFields
    <3>4. child = [f \in ConfigFields |-> IF f = "extends" THEN <<>> ELSE c[f]]
      BY <2>1, <3>2, <3>3, Zenon DEF WithoutParents
    <3>5. <<>> \in Seq(Names) /\ EngineLists \subseteq ConfigFields
          /\ "extends" \notin EngineLists
          /\ {"page_size", "schema_version", "speller"} \subseteq ConfigFields
      BY DEF EngineLists, ConfigFields, SchemaFields, MenuFields
    <3> QED
      BY <3>1, <3>2, <3>4, <3>5 DEF IsConfig
  <2>6. PICK base : base = [visited |-> {}, result |-> Ok(child)]
    OBVIOUS
  <2>7. LoadFile(name) = FoldLeft(Extend, base, q).result
    <3>1. LoadFile(name) = ResolveExtends(own.config)
      BY <1>2 DEF LoadFile
    <3> HIDE DEF own
    <3> QED
      BY <2>1, <2>2, <2>3, <2>6, <3>1, Zenon DEF ResolveExtends
  <2>8. FoldLeft(Extend, base, q) = Merges!Fold(base, q)
    BY Zenon DEF FoldLeft, MapThenFoldSet, Max, Merges!Fold, Merges!FoldLeft,
       Merges!MapThenFoldSet, Merges!Max
  <2>9. PICK h : Merges!Trace(q, base, n, h) /\ Merges!Fold(base, q) = h[n]
    BY <2>4, Merges!FoldIsTrace
  <2>10. Loading(h[n], child, q, n)
    <3> DEFINE Good == {k \in Nat : k <= n => Loading(h[k], child, q, k)}
    <3>1. 0 \in Good
      <4>1. h[0] = base
        BY <2>9 DEF Merges!Trace
      <4>2. Loading(h[0], child, q, 0)
        BY <2>5, <2>6, <4>1, LoadingBegins
      <4> QED
        BY <4>2
    <3>2. ASSUME NEW k \in Nat, k \in Good
          PROVE  k + 1 \in Good
      <4> SUFFICES ASSUME k + 1 <= n PROVE Loading(h[k + 1], child, q, k + 1)
        OBVIOUS
      <4>1. k + 1 \in 0 .. n /\ k + 1 # 0 /\ (k + 1) - 1 = k
        OBVIOUS
      <4>2. h[k + 1] = Extend(h[k], q[k + 1])
        BY <2>9, <4>1 DEF Merges!Trace
      <4>3. Loading(h[k], child, q, k)
        BY <3>2
      <4> QED
        BY <2>5, <4>2, <4>3, LoadingGoesOn
    <3> HIDE DEF Good
    <3>3. Nat \subseteq Good
      BY <3>1, <3>2, Merges!SetInduction
    <3> QED
      BY <3>3 DEF Good
  <2>11. PICK result : result = LoadFile(name) /\ result = h[n].result
    BY <2>7, <2>8, <2>9
  <2>12. /\ IsConfig(result.config)
         /\ result.error = "none" <=> Loadable(q, n)
         /\ result.error = "none" => result.config = Stacked(Layers(child, q, n))
    BY <2>10, <2>11 DEF Loading
  <2> DEFINE parents == [i \in DOMAIN ext |-> Read(ext[i])]
             below == Reverse([i \in DOMAIN parents |-> parents[i].config])
  <2>13. <<child>> \o below = Layers(child, q, n)
    <3>1. [i \in DOMAIN parents |-> parents[i].config]
            = [i \in DOMAIN ext |-> Read(ext[i]).config]
      OBVIOUS
    <3> HIDE DEF parents
    <3> QED
      BY <2>3, <2>4, <3>1, ReversedStack
  <2>14. Loadable(q, n) <=> /\ \A i \in DOMAIN parents : parents[i].error = "none"
                            /\ IsInjective(ext)
    BY <2>3, <2>4, ReversedLoads
  <2>15. LoadsAs(name, result) <=>
           /\ result.error = "none" <=>
                /\ \A i \in DOMAIN parents : parents[i].error = "none"
                /\ IsInjective(ext)
           /\ result.error = "none" => result.config = Stacked(<<child>> \o below)
    <3> HIDE DEF own
    <3>1. own = Read(name) /\ own.error = "none"
      BY <1>2 DEF own
    <3> QED
      BY <2>1, <2>2, <3>1, Zenon DEF LoadsAs
  <2> HIDE DEF parents, below
  <2> QED
    BY <2>11, <2>12, <2>13, <2>14, <2>15
<1> QED
  BY <1>1, <1>2

-----------------------------------------------------------------------------
(***************************************************************************)
(* The state.                                                              *)
(***************************************************************************)
LEMMA OneAndTwo == ASSUME NEW a, NEW b, NEW c PROVE <<a>> \o <<b, c>> = <<a, b, c>>
<1> DEFINE V == {a, b, c}
<1>1. <<a>> \in Seq(V) /\ <<b, c>> \in Seq(V) /\ <<a, b, c>> \in Seq(V)
      /\ Len(<<a>>) = 1 /\ Len(<<b, c>>) = 2 /\ Len(<<a, b, c>>) = 3
  OBVIOUS
<1> HIDE DEF V
<1>2. PICK l : l = <<a>> \o <<b, c>>
  OBVIOUS
<1>3. /\ l \in Seq(V) /\ Len(l) = 3
      /\ \A i \in 1 .. 3 : l[i] = IF i <= 1 THEN <<a>>[i] ELSE <<b, c>>[i - 1]
  BY <1>1, <1>2, ConcatProperties
<1>4. l[1] = a /\ l[2] = b /\ l[3] = c
  BY <1>3
<1>5. \A i \in 1 .. 3 : l[i] = <<a, b, c>>[i]
  <2>1. \A i \in 1 .. 3 : i = 1 \/ i = 2 \/ i = 3
    OBVIOUS
  <2> QED
    BY <1>4, <2>1
<1> QED
  BY <1>1, <1>2, <1>3, <1>5, SeqEqual

LEMMA StackOfTwo ==
  ASSUME NEW a, NEW b, IsConfig(a), IsConfig(b)
  PROVE  Stacked(<<a, b>>) = MergeConfigs(b, a)
<1>1. PICK L : L = <<a>>
  OBVIOUS
<1>2. Below(L, <<>>, 0, a) /\ Below(<<a, b>>, L, 1, b)
  BY <1>1 DEF Below
<1>3. Stacked(L) = a
  BY <1>2, StackOfOne
<1>4. PICK M : M = <<a, b>>
  OBVIOUS
<1>5. Stacked(M) = MergeConfigs(b, Stacked(L))
  <2>1. 1 \in Nat \ {0} /\ \A i \in 1 .. 1 : IsConfig(L[i])
    BY <1>1
  <2>2. Below(M, L, 1, b) /\ IsConfig(Stacked(L))
    BY <1>2, <1>3, <1>4
  <2> QED
    BY <2>1, <2>2, StackBelow
<1> QED
  BY <1>3, <1>4, <1>5

LEMMA StackOfThree ==
  ASSUME NEW a, NEW b, NEW c, IsConfig(a), IsConfig(b), IsConfig(c)
  PROVE  Stacked(<<a, b, c>>) = MergeConfigs(MergeConfigs(c, b), a)
<1>1. PICK L : L = <<a, b>>
  OBVIOUS
<1>2. PICK M : M = <<a, b, c>>
  OBVIOUS
<1>3. Stacked(L) = MergeConfigs(b, a)
  BY <1>1, StackOfTwo
<1>4. Below(M, L, 2, c)
  <2>1. DOMAIN L = 1 .. 2 /\ DOMAIN M = 1 .. 3 /\ M[1] = L[1] /\ M[2] = L[2] /\ M[3] = c
    BY <1>1, <1>2
  <2>2. M = [i \in 1 .. 3 |-> M[i]]
    BY <1>2
  <2>3. \A i \in 1 .. 3 : M[i] = IF i = 3 THEN c ELSE L[i]
    <3>1. \A i \in 1 .. 3 : i = 1 \/ i = 2 \/ i = 3
      OBVIOUS
    <3> QED
      BY <2>1, <3>1
  <2> QED
    BY <2>1, <2>2, <2>3 DEF Below
<1>5. Stacked(M) = MergeConfigs(c, Stacked(L))
  <2>1. 2 \in Nat \ {0} /\ \A i \in 1 .. 2 : IsConfig(L[i])
    BY <1>1
  <2>2. IsConfig(Stacked(L))
    BY <1>3, MergedIsConfig
  <2> QED
    BY <1>4, <2>1, <2>2, StackBelow
<1> QED
  BY <1>2, <1>3, <1>5, MergeIsAssociative

\* What is deployed is what was loaded, and configurations are layered as said.
DeployedWasLoaded == loaded.name = None => deployed = None

Layering == TypeOK /\ DeployedWasLoaded /\ LayersStack

\* The switches of a state are switches.
LEMMA SwitchesTyped ==
  ASSUME NEW s \in States
  PROVE  DOMAIN s.switches \subseteq SwitchNames
  BY DEF States

LEMMA InitLayering == Init => Layering
<1> SUFFICES ASSUME Init PROVE Layering
  OBVIOUS
<1>1. IsConfig(loaded.result.config)
  BY DefaultIsConfig DEF Init, Error
<1>2. DOMAIN DefaultState.switches = {}
  BY DEF DefaultState
<1>3. TypeOK
  BY <1>1, <1>2 DEF Init, TypeOK
<1> QED
  BY <1>3 DEF Init, Layering, DeployedWasLoaded, LayersStack, LoadStacks, ResolveStacks

\* Steps that neither load nor resolve.
LEMMA OthersLayer ==
  ASSUME Layering, IInv', UNCHANGED <<schemas, loaded, deployed>>,
         resolved' \in {resolved, None}
  PROVE  Layering'
<1>1. TypeOK'
  BY SwitchesTyped DEF Layering, TypeOK, IInv, SaveTypes
<1>2. LoadStacks'
  BY Zenon DEF Layering, LayersStack, LoadStacks, LoadsAs, Read
<1>3. ResolveStacks'
  BY DEF Layering, LayersStack, ResolveStacks
<1> QED
  BY <1>1, <1>2, <1>3 DEF Layering, DeployedWasLoaded, LayersStack

LEMMA LoadLayers ==
  ASSUME Layering, IInv', NEW name \in Names, Load(name)
  PROVE  Layering'
<1>1. loaded' = [name |-> name, result |-> LoadFile(name)] /\ loaded.name = None
  BY DEF Load
<1>2. UNCHANGED <<schemas, deployed, state, saved, resolved>>
  BY DEF Load
<1>3. IsConfig(LoadFile(name).config) /\ LoadsAs(name, LoadFile(name))
  BY FileLoadsAs
<1>4. deployed = None
  BY <1>1 DEF Layering, DeployedWasLoaded
<1>5. TypeOK'
  BY <1>1, <1>2, <1>3, <1>4, SwitchesTyped DEF Layering, TypeOK, IInv, SaveTypes
<1>6. LoadStacks'
  <2>1. PICK r : r = LoadFile(name)
    OBVIOUS
  <2>2. loaded'.name = name /\ loaded'.result = r
    BY <1>1, <2>1
  <2>3. LoadsAs(name, r)
    BY <1>3, <2>1
  <2>4. LoadsAs(loaded.name, loaded.result)'
    BY <1>2, <2>2, <2>3, Zenon DEF LoadsAs, Read
  <2> QED
    BY <2>4 DEF LoadStacks
<1>7. ResolveStacks'
  BY <1>2 DEF Layering, LayersStack, ResolveStacks
<1> QED
  BY <1>2, <1>4, <1>5, <1>6, <1>7 DEF Layering, DeployedWasLoaded, LayersStack

LEMMA DeployLayers == ASSUME Layering, IInv', Deploy PROVE Layering'
<1>1. deployed' = Parsed(Serialized(loaded.result.config)) /\ loaded.name # None
  BY DEF Deploy
<1>2. UNCHANGED <<schemas, loaded, state, saved, resolved>>
  BY DEF Deploy
<1>3. IsConfig(loaded.result.config)
  BY DEF Layering, TypeOK
<1>4. deployed' = loaded.result.config
  BY <1>1, <1>3, SurvivesWriting
<1>5. TypeOK'
  BY <1>2, <1>3, <1>4, SwitchesTyped DEF Layering, TypeOK, IInv, SaveTypes
<1>6. LoadStacks'
  BY <1>2, Zenon DEF Layering, LayersStack, LoadStacks, LoadsAs, Read
<1>7. ResolveStacks'
  BY <1>2 DEF Layering, LayersStack, ResolveStacks
<1> QED
  BY <1>1, <1>2, <1>5, <1>6, <1>7 DEF Layering, DeployedWasLoaded, LayersStack

\* A profile that is read without an error has a patch that parses, or none.
LEMMA PatchParses ==
  ASSUME ~ ReadProfile.error, ReadProfile.value.patch # None
  PROVE  Parses(ReadProfile.value.patch)
  BY DEF ReadProfile, NoProfile

LEMMA ResolveLayers == ASSUME Layering, IInv', Resolve PROVE Layering'
<1>1. PICK D : D = DefaultConfig
  OBVIOUS
<1>2. PICK lower : lower = MergeConfigs(D, deployed)
  OBVIOUS
<1>3. PICK patch : patch = ReadProfile.value.patch
  OBVIOUS
<1>4. PICK layer : layer = IF ReadProfile.error \/ patch = None THEN lower
                           ELSE MergeConfigs(lower, Parsed(patch))
  OBVIOUS
<1>5. PICK ok, half :
        /\ ok => ~ ReadProfile.error
        /\ resolved' = [ok |-> ok, config |-> layer, profile |-> ReadProfile.value,
                        state |-> ReadState.value, half_shape |-> half,
                        deployed |-> deployed, saved |-> saved]
  BY <1>1, <1>2, <1>3, <1>4, Zenon DEF Resolve
<1>6. UNCHANGED <<schemas, loaded, deployed, saved>> /\ deployed # None
  BY DEF Resolve
<1>7. IsConfig(D) /\ IsConfig(deployed)
  BY <1>1, <1>6, DefaultIsConfig DEF Layering, TypeOK
<1>8. IsConfig(lower)
  BY <1>2, <1>7, MergedIsConfig
<1>9. ~ ReadProfile.error /\ patch # None => IsConfig(Parsed(patch))
  BY <1>3, PatchParses, ParsedIsConfig
<1>10. IsConfig(layer)
  BY <1>4, <1>8, <1>9, MergedIsConfig
<1>11. TypeOK'
  <2>1. resolved'.config = layer
    BY <1>5
  <2> QED
    BY <1>6, <1>10, <2>1, SwitchesTyped DEF Layering, TypeOK, IInv, SaveTypes
<1>12. LoadStacks'
  BY <1>6, Zenon DEF Layering, LayersStack, LoadStacks, LoadsAs, Read
<1>13. ResolveStacks'
  <2> SUFFICES ASSUME ok
               PROVE  layer = Stacked((IF patch = None THEN <<>> ELSE <<Parsed(patch)>>)
                                        \o <<deployed, D>>)
    BY <1>1, <1>3, <1>5, Zenon DEF ResolveStacks
  <2>1. CASE patch = None
    <3>1. layer = lower
      BY <1>4, <2>1
    <3>2. Stacked(<<deployed, D>>) = lower
      BY <1>2, <1>7, StackOfTwo
    <3>3. <<>> \o <<deployed, D>> = <<deployed, D>>
      OBVIOUS
    <3> QED
      BY <2>1, <3>1, <3>2, <3>3
  <2>2. CASE patch # None
    <3>1. PICK c : c = Parsed(patch)
      OBVIOUS
    <3>2. layer = MergeConfigs(lower, c) /\ IsConfig(c)
      BY <1>4, <1>5, <1>9, <2>2, <3>1
    <3>3. Stacked(<<c, deployed, D>>) = MergeConfigs(MergeConfigs(D, deployed), c)
      BY <1>7, <3>2, StackOfThree
    <3>4. <<c>> \o <<deployed, D>> = <<c, deployed, D>>
      BY OneAndTwo
    <3> QED
      BY <1>2, <2>2, <3>1, <3>2, <3>3, <3>4
  <2> QED
    BY <2>1, <2>2
<1> QED
  BY <1>6, <1>11, <1>12, <1>13 DEF Layering, DeployedWasLoaded, LayersStack

LEMMA NextLayers == IInv /\ Layering /\ [Next]_vars => IInv' /\ Layering'
<1> SUFFICES ASSUME IInv, Layering, [Next]_vars PROVE IInv' /\ Layering'
  OBVIOUS
<1>1. IInv'
  BY NextKeeps
<1>2. ASSUME NEW p \in Profiles, BeginSaveProfile(p) \/ EditProfile(p) PROVE Layering'
  BY <1>1, <1>2, OthersLayer DEF BeginSaveProfile, EditProfile
<1>3. ASSUME NEW name \in SwitchNames, NEW value \in BOOLEAN, SetSwitch(name, value)
      PROVE  Layering'
  BY <1>1, <1>3, OthersLayer DEF SetSwitch
<1>4. ASSUME \/ BeginSaveState \/ EndSaveState \/ PartOfProfile \/ EndSaveProfile
             \/ CrashEngine \/ CrashTool
      PROVE  Layering'
  BY <1>1, <1>4, OthersLayer
  DEF BeginSaveState, EndSaveState, PartOfProfile, EndSaveProfile, CrashEngine, CrashTool
<1>5. CASE UNCHANGED vars
  BY <1>1, <1>5, OthersLayer DEF vars
<1> QED
  BY <1>1, <1>2, <1>3, <1>4, <1>5, LoadLayers, DeployLayers, ResolveLayers DEF Next

\* Loading, writing and reading again, merging and resolving only ever make
\* whole configurations, and what is deployed is what was loaded.
THEOREM ConfigTypes == Spec => []TypeOK
<1>1. Init => IInv /\ Layering
  BY InitIInv, InitLayering
<1>2. IInv /\ Layering => TypeOK
  BY DEF Layering
<1> QED
  BY <1>1, NextLayers, <1>2, PTL DEF Spec

\* A file that is loaded is its own fields on those of its parents, the last one
\* topmost, and what is resolved is the profile's patch on the deployed schema on
\* the defaults, for any number of parents and any documents.
THEOREM LayersAreStacked == Spec => []LayersStack
<1>1. Init => IInv /\ Layering
  BY InitIInv, InitLayering
<1>2. IInv /\ Layering => LayersStack
  BY DEF Layering
<1> QED
  BY <1>1, NextLayers, <1>2, PTL DEF Spec

=============================================================================
