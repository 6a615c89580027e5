--------------------------- MODULE MCConfigLayers ---------------------------
(***************************************************************************)
(* Three schema files, each with one of three documents or missing; the    *)
(* names of the shipped ones are used as they are in config/schemas.       *)
(***************************************************************************)
EXTENDS ConfigLayers, TLC

CONSTANTS base, quanpin, flypy, marks, keys, meta, letters, off, on

Base == ("segmentors" :> <<"pinyin_syllable">>) @@ ("translators" :> <<"dict">>)
          @@ ("page_size" :> 5) @@ ("punctuator" :> marks) @@ ("schema_version" :> 2)
Flypy == ("extends" :> <<base>>) @@ ("input" :> "double") @@ ("translators" :> <<"emoji">>)
          @@ ("alphabet" :> letters) @@ ("max_code_length" :> 2) @@ ("use_space" :> TRUE)
Several == ("extends" :> <<base, quanpin>>) @@ ("filters" :> <<"simplifier">>)
          @@ ("switches" :> <<on>>) @@ ("algebra" :> <<off>>) @@ ("page_size" :> 7)
Twice == ("extends" :> <<base, base>>) @@ ("schema" :> meta)
Circle == ("extends" :> <<flypy>>) @@ ("processors" :> <<"speller">>)
          @@ ("alphabet" :> keys) @@ ("alternative_select_keys" :> keys)
Typo == ("extends" :> <<base>>) @@ ("pages" :> 3)
NoPage == ("page_size" :> 0) @@ ("segmentors" :> <<"pinyin_syllable">>)

MCDocs(name) ==
  CASE name = base    -> {Base, Circle, Typo}
    [] name = quanpin -> {Several, Base, NoPage}
    [] name = flypy   -> {Flypy, Several, Twice}

Patch(doc) == [schema |-> quanpin, patch |-> doc]
MCProfiles == {[schema |-> quanpin, patch |-> None],
               Patch(("alphabet" :> keys) @@ ("punctuator" :> off)),
               Patch(("page_size" :> 3) @@ ("translators" :> <<"history">>)),
               Patch("pages" :> 3)}

\* A schema on a base that itself has a parent, and a profile that sets one field.
Grandparent == ("filters" :> <<"simplifier">>)
Parent == ("extends" :> <<quanpin>>) @@ ("segmentors" :> <<"pinyin_syllable">>)
            @@ ("alternative_select_keys" :> letters)
Child == ("extends" :> <<base>>) @@ ("input" :> "double") @@ ("page_size" :> 7)
           @@ ("alternative_select_keys" :> keys)

FamilyDocs(name) ==
  CASE name = quanpin -> {Grandparent}
    [] name = base    -> {Parent}
    [] name = flypy   -> {Child}

FamilyProfiles == {[schema |-> flypy, patch |-> ("punctuator" :> marks)]}
=============================================================================
