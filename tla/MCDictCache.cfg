SPECIFICATION Spec
CONSTANTS
  p1 = p1
  p2 = p2
  base = base
  ext = ext
  t1 = t1
  t2 = t2
  t3 = t3
  Processes = {p1, p2}
  Names = {base, ext}
  Contents <- MCContents
  Columns <- MCColumns
  HotEntriesPerCode = 1
  Tables = {t1, t2, t3}
  ImportLists <- MCImportLists
  NoWeight = NoWeight
  Missing = Missing
  Torn = Torn
  Nothing = Nothing
  MaxEvents = 3
SYMMETRY MCSymmetry
CHECK_DEADLOCK FALSE
INVARIANTS
  TypeOK
  StitchedIsBuilt
  SkipsHaveCause
  TiersAnswerAlike
  ImportsInOrder
