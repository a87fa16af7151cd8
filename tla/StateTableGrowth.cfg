SPECIFICATION MCSpec
CONSTANTS
  Key <- MCKey
  Value <- MCValue
  Plus <- MCPlus
  Hash <- MCHash
  Free = Free
  NumNodes = 1
  NumShards = 14
  Kinds = {"state"}
INVARIANT KeysKept
