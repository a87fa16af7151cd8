SPECIFICATION MCFairSpec
CONSTANTS
  u1 = u1
  u2 = u2
  u3 = u3
  u4 = u4
  hub = hub
  Absent = Absent
  Key <- MCKey
  Data <- MCData
  InfluFiles <- MCInfluFiles
  Half = 8
  Undefined = {0, 5}
  Priority <- MCPriority
  Margin = 2
  CacheSize = 3
  Kinds = {"hot", "lru", "fifo", "csr", "block", "mmap", "files", "vars", "network", "loop"}
INVARIANTS
  CacheSound
  KeepsRecent
  FIFOBounded
  ReadsLines
  BlockLookup
  WindowSound
  Restores
  ReadsLatest
  SyncCallsRun
  NoDeltaLost
  PriorityCurrent
PROPERTIES
  EvictsColdest
  ProgressGrows
  AllStop
  Converges
CHECK_DEADLOCK FALSE
