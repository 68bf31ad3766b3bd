CONSTANTS
  Ids <- MCIds
  a = a
  b = b
  c = c
  NoTimestamp = NoTimestamp
  MaxLen = 2
  MaxAge = 2
  MinAge = 0
  Scores = {50, 100}
  Cfgs <- MCWeightedCfgs
  Limits = {0, 1}
INIT FInit
NEXT FNext
CHECK_DEADLOCK FALSE
INVARIANT MergeDeterministic
