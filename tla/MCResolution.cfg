SPECIFICATION Spec
CONSTANTS
  Letter <- MCLetter
  Quote = 1
  Other = 9
  Syllable <- MCSyllable
  Rules <- MCRules
  MaxDistance = 1
  MaxCorrections = 2
  MaxTokenBytes = 6
  EditPenalty = 50
  VariantPenalty = 3
  AbbreviationPenalty = 40
  NoWeight = NoWeight
  BeamWidth = 32
  MaxHomographs = 8
  MaxSingleSyllableHomographs = 32
  MaxCandidates = 100
  MaxSyllablesPerLexeme = 3
  LongInputBytes = 12
  MaxSequences = 1024
  MaxCostedSequences = 64
  PhraseBonus = 1000
  PinnedBonus = 100000000
  Neighbors <- MCNeighbors
  MistouchCost = 7
  ConfusionRules <- MCConfusionRules
  ConfusionCost = 6
  NoCost = NoCost
  LongCompositionSyllables = 3
  PrimaryWindow = 5
  MaxChunkSyllables = 2
  EmojiPosition = 3
  CharMap <- MCCharMap
  Schemas <- MCSchemas
  Dictionary <- MCDictionary
  EmojiIndex <- MCEmojiIndex
  Keyable = {2, 4, 1}
  StoredWords <- MCStoredWords
  MaxInput = 3
  MaxWords = 1
  MaxUses = 1
CHECK_DEADLOCK FALSE
INVARIANTS
  TypeOK
  CandidatesAreReadings
  EntriesAreOffered
  CodeCanBeCommitted
  LearnedIsOffered
  LearningKeepsPlace
