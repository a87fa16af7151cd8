SPECIFICATION MCSpec
CONSTANTS
  u1 = u1
  u2 = u2
  u3 = u3
  u4 = u4
  hub = hub
  Absent = Absent
  Key <- MCKey
  Data <- MCData
  InfluFiles <- MCInfluFiles
  Half = 8
  Undefined = {0, 5}
  Priority <- MCPriority
  Margin = 2
  CacheSize = 3
  Kinds = {"files"}
INVARIANT CommittedToDisk
CHECK_DEADLOCK FALSE
