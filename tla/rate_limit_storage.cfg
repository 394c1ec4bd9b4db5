CONSTANTS
  c1 = c1
  c2 = c2
  c3 = c3
  c4 = c4
  NoClient = NoClient
  Client <- MCFourClients
  Task = {t1, t2}
  ShardCount = 1
  ShardOf <- MCShardOf
  Limit = 1
  Window = 1
  CleanupInterval = 1
  CleanupEvery = 2
  MaxTracked = 2
  Word = 16
  MaxStall = 1
  MaxTime = 3
SYMMETRY Symmetry
SPECIFICATION Spec
INVARIANT BoundedStorage
