SPECIFICATION Spec
CONSTANTS
  Pushers = {p1, p2}
  Poppers = {c1}
  Nodes = {n1, n2, n3}
  MaxNum = 3
  Recycles = TRUE
  MaxRetry = 2
  MaxPush = 2
  Null = Null
  None = None
SYMMETRY Symmetry
PROPERTIES ImplementsFifo
