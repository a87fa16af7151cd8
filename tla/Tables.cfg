SPECIFICATION MCSpec
CONSTANTS
  Key <- MCKey
  Value <- MCValue
  Plus <- MCPlus
  Hash <- MCHash
  Free = Free
  NumNodes = 71
  NumShards = 14
  Kinds = {"state", "delta", "update"}
INVARIANTS
  IsMap
  UpdatesConserved
CHECK_DEADLOCK FALSE
