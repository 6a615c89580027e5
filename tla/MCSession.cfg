CONSTANTS
  a = a
  foreign = foreign
  whole = whole
  prefix = prefix
  Letter = {a}
  Digit = {}
  Decimal = {}
  Foreign = {foreign}
  Text = {whole, prefix}
  CommitMark <- NoMarks
  ListMark <- NoMarks
  MaxInput = 3
  Resolve <- MCResolve
  Epoch = 1
  SessionId = 1
  Epochs <- MCEpochs
  Sessions <- MCSessions
  PageSize = 2
  Deltas <- MCDeltas
  MaxSequence = 3
  MaxActions = 4
SPECIFICATION Spec
INVARIANTS
  TypeOK
  HighlightIsVisible
  LearnedOnce
PROPERTIES
  RevisionGuardsView
  LedgerSpec
