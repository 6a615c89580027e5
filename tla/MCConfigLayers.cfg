SPECIFICATION Spec
CONSTANTS
  base = base
  quanpin = quanpin
  flypy = flypy
  marks = marks
  keys = keys
  meta = meta
  letters = letters
  off = off
  on = on
  Names = {base, quanpin, flypy}
  Docs <- MCDocs
  Profiles <- MCProfiles
  SwitchNames = {"half_shape"}
  Components = {"pinyin_syllable", "dict", "emoji", "simplifier", "speller", "history"}
  None = None
  Missing = Missing
  Torn = Torn
  DefaultPageSize = 9
  MaxChanges = 3
CHECK_DEADLOCK FALSE
INVARIANTS
  TypeOK
  LayersStack
  RestoredIsSaved
