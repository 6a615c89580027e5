CONSTANTS
  small = small
  large = large
  invalid = invalid
  broken = broken
  d = d
  r = r
  Yaml = {small, large, invalid, broken}
  Parsable = {small, large, invalid}
  Valid = {small, large}
  Deployer = {d}
  Reader = {r}
  RepeatInSecond = FALSE
  MaxTime = 1
  MaxDeploys = 3
SPECIFICATION Spec
INVARIANTS
  TypeOK
  CurrentLoads
  ReadersSeeWhole
PROPERTIES
  SwitchedOnSuccess
CHECK_DEADLOCK FALSE
