CONSTANTS
  a = a
  upper = upper
  one = one
  whole = whole
  prefix = prefix
  Letter = {a}
  Digit = {one}
  Decimal = {}
  Foreign = {upper}
  Text = {whole, prefix}
  CommitMark <- NoMarks
  ListMark <- NoMarks
  MaxInput = 3
  Resolve <- MCResolve
  Epoch = 1
  SessionId = 1
  Epochs = {1}
  Sessions = {1}
  PageSize = 1
  Deltas <- MCDeltas
  MaxSequence = 7
  MaxActions = 7
  DigitKey <- MCDigitKey
  Blank = blank
  MaxDocument = 2
SPECIFICATION CliSpec
INVARIANTS
  CliTypeOK
  ScreenIsCurrent
PROPERTIES
  NoInputVanishes
  EveryActionSettles
CHECK_DEADLOCK FALSE
