CONSTANTS
  a = a  b = b  w = w  x = x
  Transactors = {a, b}
  Throwing = {a}
  Writers = {}
  NWrites = 2
  QueryFails = FALSE
  Reconnects = FALSE
  NoThread = NoThread
CHECK_DEADLOCK FALSE
SPECIFICATION Spec
INVARIANT AtomicTransaction
