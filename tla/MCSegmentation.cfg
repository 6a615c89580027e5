CONSTANTS
  a = 1
  h = 2
  z = 3
  Quote = 4
  Other = 5
  Letter <- MCLetter
  Syllable <- MCSyllable
  Rules <- MCRules
  MaxDistance = 1
  MaxCorrections = 3
  MaxTokenBytes = 8
  EditPenalty = 5
  VariantPenalty = 1
  AbbreviationPenalty = 7
  MaxInput = 4
SPECIFICATION Spec
INVARIANTS
  TypeOK
  PrimaryPathIsBest
  CompletePathExists
  CorrectionsAreEdits
  RestReadsAlike
