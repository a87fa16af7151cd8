SPECIFICATION Spec
CONSTANTS
  w1 = w1
  w2 = w2
  a = a
  b = b
  c = c
  Worker <- MCWorker
  Shard <- MCShard
  Key <- MCKey
  ShardOf <- MCShardOf
  Owner <- MCOwner
  Links <- MCLinks
  BufMsg = 1
  MaxIter <- MCOneEach
  RemoteDelivery = TRUE
INVARIANT BarrierApplied
