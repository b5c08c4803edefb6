SPECIFICATION MCSpec
CONSTANTS
  Pushers = {p1, p2}
  Poppers = {c1, c2}
  Size = 2
  TagModulus = 4
  SwapReports = TRUE
  MaxRetry = 2
  MaxPush = 2
  Invalid = Invalid
  LonePoppers = {d1}
  BufferSize = 3
  Lengths = {1, 2}
  Objects = {o1, o2, o3}
  PoolCells = 4
  None = None
SYMMETRY Symmetry
INVARIANTS BufferKeepsMessages DequeAndPool
PROPERTIES ImplementsFifo FailsForCause TableAndHeap
