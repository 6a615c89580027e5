CONSTANTS
  v = v
  Word = {v}
  Session = {1}
  Delta = {1}
  Radix = 10
  Delay = 1
  Outcome = {"stored", "event only"}
  MaxEvents = 2
  MaxActions = 1
  MaxTime = 1
  MaxRestarts = 2
SPECIFICATION Spec
PROPERTIES
  RestartKeepsFrequency
CHECK_DEADLOCK FALSE
