SPECIFICATION MCSpec
CONSTANTS
  Pushers = {p1, p2}
  Poppers = {c1, c2}
  Nodes = {n1, n2, n3}
  MaxNum = 3
  Recycles = TRUE
  MaxRetry = 2
  MaxPush = 3
  Null = Null
  None = None
SYMMETRY Symmetry
INVARIANTS NodesAccountedFor NoFreedNodeUsed
PROPERTIES ImplementsFifo
