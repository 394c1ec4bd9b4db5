CONSTANTS
  c1 = c1
  c2 = c2
  c3 = c3
  c4 = c4
  NoClient = NoClient
  Client <- MCTwoClients
  Task = {t1, t2}
  ShardCount = 2
  ShardOf <- MCShardOf
  Limit = 2
  Window = 2
  CleanupInterval = 1
  CleanupEvery = 2
  MaxTracked = 1
  Word = 16
  MaxStall = 2
  MaxTime = 4
SYMMETRY TaskSymmetry
SPECIFICATION Spec
INVARIANTS BoundedUnlessOverlap RefusedOnlyWhenFull CounterMatchesTable
PROPERTY ImplementsFixedWindow
