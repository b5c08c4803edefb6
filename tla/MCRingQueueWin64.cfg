SPECIFICATION Spec
CONSTANTS
  Pushers = {p1}
  Poppers = {c1, c2}
  Size = 2
  TagModulus = 4
  SwapReports = FALSE
  MaxRetry = 4
  MaxPush = 2
  Invalid = Invalid
PROPERTIES ImplementsFifo
