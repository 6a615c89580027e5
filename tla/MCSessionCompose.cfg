\* long compositions with marks, digits and candidate-list marks
CONSTANTS
  a = a
  one = one
  dot = dot
  bar = bar
  word = word
  stop = stop
  middle = middle
  Letter = {a}
  Digit = {one}
  Decimal = {dot}
  Foreign = {}
  Text = {word, stop, middle}
  CommitMark <- MCCommitMark
  ListMark <- MCListMark
  MaxInput = 3
  Resolve <- MCResolve
  Epoch = 1
  SessionId = 1
  Epochs = {1}
  Sessions = {1}
  PageSize = 1
  Deltas = {1}
  MaxSequence = 7
  MaxActions = 7
SPECIFICATION OrderlySpec
INVARIANTS
  SpansTile
  CandidatesMatchActive
PROPERTIES
  SelectionsKept
  RecordCoversInput
CHECK_DEADLOCK FALSE
