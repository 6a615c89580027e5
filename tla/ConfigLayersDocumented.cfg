SPECIFICATION Spec
CONSTANTS
  base = base
  quanpin = quanpin
  flypy = flypy
  marks = marks
  keys = keys
  meta = meta
  letters = letters
  off = off
  on = on
  Names = {base, quanpin, flypy}
  Docs <- FamilyDocs
  Profiles <- FamilyProfiles
  SwitchNames = {"half_shape"}
  Components = {"pinyin_syllable", "dict", "emoji", "simplifier", "speller", "history"}
  None = None
  Missing = Missing
  Torn = Torn
  DefaultPageSize = 9
  MaxChanges = 2
CHECK_DEADLOCK FALSE
INVARIANT LayersAsDocumented
