\* Two threads: the cache overflows and ids are raced for.
CONSTANTS
  t1 = t1
  t2 = t2
  x = x
  y = y
  z = z
  None = None
  Threads <- MCThreads
  Layouts <- MCLayouts
  Oversized <- MCOversized
  NodeKey <- MCNodeKey
  AliasName = z
  Capacity = 2
  MaxIds = 4
SPECIFICATION Spec
INVARIANTS IInv IdNamesLayout CacheSound RowsFitShapes ReadsRightKey
