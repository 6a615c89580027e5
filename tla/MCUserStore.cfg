CONSTANTS
  v = v
  Word = {v}
  Session = {1}
  Delta = {1}
  Radix = 3
  Delay = 1
  Outcome = {"stored", "event only"}
  MaxEvents = 3
  MaxActions = 1
  MaxTime = 1
  MaxRestarts = 2
SPECIFICATION Spec
INVARIANTS
  TypeOK
  RolledBackNeverLearned
  LearnedOncePerCommit
  FlagsDurable
CHECK_DEADLOCK FALSE
